\* Three clients and two runs of one process, without an error: what the first run,
\* cut short anywhere, leaves behind.  The header comes in two parts, and the body is
\* empty.
SPECIFICATION Spec
CONSTANTS
  N = 3
  MsgPerConn = 2
  HdrLen = 2
  BodyLen = 0
  FirstFd = 4
  FdSetSize = 8
  MaxRuns = 2
  MaxReplies = 3
  MaxFaults = 0
INVARIANTS OneOwner SelectSetsFollow NoLeak Accounting
