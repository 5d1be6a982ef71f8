SPECIFICATION FairSpec
CONSTANTS
  Chats = {c1, c2}
  MaxCalls = 4
INVARIANTS
  MutualExclusion
  ArrivalOrder
PROPERTIES
  EveryCallSettles
  ImplementsMutex
CHECK_DEADLOCK FALSE
