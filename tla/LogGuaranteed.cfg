SPECIFICATION FairSpec
CONSTANTS
  t1 = t1  t2 = t2  t3 = t3  g1 = g1  g2 = g2
  Null = Null
  Threads = {t1, t2, t3}
  Transports = {g1, g2}
  TransportOf <- MCGuaranteedTransports
  BuffSize = 8
  MaxMessageSize = 3
  SkippedCntMsgSz = 2
  ReportSizes = {1}
  MsgSizes = {2}
  LevelsOf <- MCGuaranteedLevels
  MaxCalls <- MCGuaranteedCalls
  OwnLog = {}
  GuaranteedLevels = {3}
  CriticalLevels = {2}
  Phases = {}
  Droppable = {}
  WriterStarted = FALSE
  RefModulus = 16
INVARIANTS GuaranteedAssertions SnapshotStable
  
CHECK_DEADLOCK FALSE
