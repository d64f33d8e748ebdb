CONSTANTS
  NaN = NaN
  Inf = Inf
  Word = 64
  Second = 3
  N = 1
  MsgPerConn = 2
  MaxHdr = 2
  UInt = 16
  Answers <- MCAnswers
  Start = 14
  MaxTicks = 1
  MaxReplies = 3
  MaxFaults = 1
  Scale = 1
  OrderCap = 3
  OrderLens = {2, 3, 4}
  ReportCap = 3
  ReportLen = 2
  NbSlaves = 2
  OtherReports <- MCOtherReports
  Iterations = 3
  Percents = {33}
SPECIFICATION MeasurementSpec
INVARIANTS TypeOK HonestAnswersServed AveragesRight BytesCounted LinesWhole TableHolds
PROPERTY AnswersWhole
