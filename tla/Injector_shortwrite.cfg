\* A write that takes only a part of a request.
SPECIFICATION Spec
CONSTANTS
  N = 2
  MsgPerConn = 2
  HdrLen = 1
  BodyLen = 1
  FirstFd = 4
  FdSetSize = 7
  MaxRuns = 1
  MaxReplies = 2
  MaxFaults = 1
INVARIANT ShortWriteContinues
