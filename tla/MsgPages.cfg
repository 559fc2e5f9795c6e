SPECIFICATION Spec
CONSTANTS
  msgA = msgA  msgB = msgB
  Null = Null
  Msgs = {msgA, msgB}
  Pages = {1, 2, 3, 4, 5, 6, 7, 8, 9, 10, 11, 12}
  PageSize = 3
  LocalStorageSize = 2
  MaxAddressedByPage = 2
  ObjectSize = 1
  AppReserved = 1
  AppUsers = {msgA}
  AppendSizes = {4, 11}
  SkipSizes = {0, 3}
  MaxSize = 12
  MaxUsed = 2
  MaxPointers = 1
  MaxCalls = 5
INVARIANTS TypeOK PageAccounting ReadBack AppDataKept
CHECK_DEADLOCK FALSE
