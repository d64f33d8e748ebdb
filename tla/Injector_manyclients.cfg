\* As many clients as MAX_CLIENTS, which is FD_SETSIZE, and nothing but clients
\* to begin with; the server never answers.
SPECIFICATION Spec
CONSTANTS
  N = 6
  MsgPerConn = 1
  HdrLen = 1
  BodyLen = 0
  FirstFd = 4
  FdSetSize = 6
  MaxRuns = 1
  MaxReplies = 0
  MaxFaults = 0
INVARIANT MaxClientsFit
