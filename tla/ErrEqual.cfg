SPECIFICATION Spec
CONSTANTS
  t1 = t1  t2 = t2
  p = p
  e1 = e1  e2 = e2
  s1 = s1  s2 = s2
  Nothing = Nothing
  Unresolved = Unresolved
  NoThread = NoThread
  Gone = Gone
  Null = Null
  Threads = {t1}
  Pointers = {p}
  InModule = {p}
  Details = {found}
  Traces <- MCOneTrace
  Globals = {1, 14}
  Errors = {e1}
  StackInfos = {}
  HolderOf <- MCOneHolder
  ValueIds = {256, 257, 258}
  MaxLost = 1
  MaxObjects = 2
  FrameIds = {1, 2, 3}
  StringIds = {1}
INVARIANT BadAddressIsZeroPointer
