\* Any use of the queue by one producer and one consumer, in a build that
\* stores readPos twice when it wraps.
SPECIFICATION Spec
CONSTANTS
  Cap = 2
  Values = {1, 2}
  SplitWrap = TRUE
  TokenBounded = FALSE
PROPERTY ImplementsFifo
