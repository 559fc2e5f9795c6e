SPECIFICATION FairSpec
CONSTANTS
  t1 = t1  t2 = t2  t3 = t3  g1 = g1  g2 = g2
  Null = Null
  Threads = {t1, t2, t3}
  Transports = {g1}
  TransportOf <- MCShared
  BuffSize = 4
  MaxMessageSize = 3
  SkippedCntMsgSz = 1
  ReportSizes = {1}
  MsgSizes = {2}
  LevelsOf <- MCQueueLevels
  MaxCalls <- MCQueueCalls
  OwnLog = {}
  GuaranteedLevels = {}
  CriticalLevels = {}
  Phases = {}
  Droppable = {}
  WriterStarted = TRUE
  RefModulus = 16
INVARIANTS LiveDataIntact FreedSpaceIsWritten ChainAssertions OneWaker SkipsAccounted
PROPERTIES NoOvertaking  
CHECK_DEADLOCK FALSE
