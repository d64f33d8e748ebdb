\* Any use of the queue by one producer and one consumer, in a build that
\* advances readPos with a single store: put_circ also finds the queue full.
SPECIFICATION Spec
CONSTANTS
  Cap = 3
  Values = {1, 2}
  SplitWrap = FALSE
  TokenBounded = FALSE
PROPERTY ImplementsFifo
