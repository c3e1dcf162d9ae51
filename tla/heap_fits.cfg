SPECIFICATION Spec
CONSTANTS
  Begin = 40
  BlockHdr = 12
  NextSize = 8
  AlignedHdr = 14
  Callers <- TwoSizes
PROPERTIES FitsRequest
CHECK_DEADLOCK FALSE
