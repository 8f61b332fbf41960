CONSTANTS
  ByteMod = 3
  LbaMod = 8
  total_sectors = 5
  Requests <- MCExact
  Tags = 3
  Errors = FALSE
  MaxLate = 0
SPECIFICATION FairSpec
PROPERTIES
  RequestsReturn
