SPECIFICATION Spec
CONSTANTS
  Begin = 40
  BlockHdr = 12
  NextSize = 8
  AlignedHdr = 14
  Callers <- AllCallers
INVARIANTS TypeOK BlocksDisjoint AllocatedIsKnown FreeListIntact  NothingLost
CHECK_DEADLOCK FALSE
