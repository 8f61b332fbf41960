CONSTANTS
  HDR = 2
  ALIGN = 2
  MINSPLIT = 2
  PAGE = 8
  BASE = 2
  INITIAL <- MCInitial
  VBASE = 30
  VEND = 46
  Requests <- MCRequests
SPECIFICATION FairSpec
INVARIANTS
  WellLinked
  HeldMemoryIsSafe
  Accounting
PROPERTIES
  CallsReturn
CHECK_DEADLOCK FALSE
