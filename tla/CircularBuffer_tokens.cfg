\* The injector's use of the queue: at most Cap elements in circulation, and a
\* build that stores readPos twice when it wraps (the Makefile's gcc -O2).
SPECIFICATION Spec
CONSTANTS
  Cap = 3
  Values = {1, 2}
  SplitWrap = TRUE
  TokenBounded = TRUE
INVARIANTS TypeOK Accounted PutNeverFails NoSlotRace
PROPERTY ImplementsFifo
