SPECIFICATION Spec
CONSTANTS
  o1 = o1  o2 = o2
  None = None
  Objects = {o1, o2}
  WordBits = 10
  UpperBits = 3
  LowerBits = 3
  HeapBits = 2
  NFlags = 2
  PairFlags = 1
  MaskSize = 2
  DataSize = 7
  Addresses = {{0, 2, 6}, {3, 5}}
  DataValues = {{}, {0, 1, 2, 3, 4, 5, 6}, {0, 2}}
  MaskValues = {{}, {0, 1}}
  FlagsBeforeSetPtr = FALSE
INVARIANTS TypeOK SameAnswers
PROPERTIES GenericIsStore PackedIsStore
CHECK_DEADLOCK FALSE
