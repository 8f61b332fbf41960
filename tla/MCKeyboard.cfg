CONSTANTS
  Computers <- MCComputers
  KB_BUFFER_SIZE = 3
  FifoSize = 2
SPECIFICATION FairSpec
INVARIANTS
  NothingStuck
PROPERTIES
  FirstInFirstOut
  ScancodeTaken
  GetcharReturns
