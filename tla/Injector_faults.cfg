\* Two clients, for which the select sets have just room, one error of any kind,
\* one run.
SPECIFICATION Spec
CONSTANTS
  N = 2
  MsgPerConn = 2
  HdrLen = 1
  BodyLen = 1
  FirstFd = 4
  FdSetSize = 7
  MaxRuns = 1
  MaxReplies = 3
  MaxFaults = 1
INVARIANTS TypeOK OneOwner HandsHaveRoom SelectSetsFollow AnswersStayTrue
           OwnConnection NoLeak OnlyOutsideCauses Accounting
PROPERTY ImplementsLoadSession
