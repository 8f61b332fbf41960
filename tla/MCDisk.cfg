CONSTANTS
  ByteMod = 3
  LbaMod = 8
  total_sectors = 5
  Requests <- MCRequests
  Tags = 3
  Errors = TRUE
  MaxLate = 2
SPECIFICATION FairSpec

  
PROPERTIES
  WritesStayInRange
  RequestsReturn
