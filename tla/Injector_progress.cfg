\* Both threads are scheduled, the server accepts, and answers two requests.
\* The timer may fire at any time or never.
SPECIFICATION FairSpec
CONSTANTS
  N = 2
  MsgPerConn = 2
  HdrLen = 1
  BodyLen = 0
  FirstFd = 4
  FdSetSize = 7
  MaxRuns = 1
  MaxReplies = 2
  MaxFaults = 1
PROPERTIES AnswersAreRead RequestsAreSent RunsEnd
