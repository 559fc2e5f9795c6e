SPECIFICATION Spec
CONSTANTS
  t1 = t1  t2 = t2  t3 = t3  g1 = g1  g2 = g2
  Null = Null
  Threads = {t1, t2}
  Transports = {g1, g2}
  TransportOf <- MCOwn
  BuffSize = 8
  MaxMessageSize = 3
  SkippedCntMsgSz = 2
  ReportSizes = {1}
  MsgSizes = {2}
  LevelsOf <- MCShutdownLevels
  MaxCalls <- MCShutdownCalls
  OwnLog = {t1}
  GuaranteedLevels = {}
  CriticalLevels = {}
  Phases = {"proceedToTermination", "terminationAllowed"}
  Droppable = {g1, g2}
  WriterStarted = TRUE
  RefModulus = 16
INVARIANTS TypeOK  NothingLostOnTermination
CHECK_DEADLOCK FALSE
