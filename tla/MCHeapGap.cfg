CONSTANTS
  HDR = 2
  ALIGN = 2
  MINSPLIT = 2
  PAGE = 8
  BASE = 2
  INITIAL <- MCInitial
  VBASE = 30
  VEND = 46
  Requests <- MCRequests
SPECIFICATION Spec
INVARIANTS
  BlocksAreOwned
CHECK_DEADLOCK FALSE
