SPECIFICATION Spec
CONSTANTS
  t1 = t1  t2 = t2  t3 = t3  g1 = g1  g2 = g2
  Null = Null
  Threads = {t1, t2}
  Transports = {g1}
  TransportOf <- MCShared
  BuffSize = 8
  MaxMessageSize = 3
  SkippedCntMsgSz = 2
  ReportSizes = {1}
  MsgSizes = {2}
  LevelsOf <- MCFatalLevels
  MaxCalls <- MCFatalCalls
  OwnLog = {}
  GuaranteedLevels = {}
  CriticalLevels = {}
  Phases = {}
  Droppable = {}
  WriterStarted = TRUE
  RefModulus = 16
PROPERTY GuaranteedMeansWritten
CHECK_DEADLOCK FALSE
