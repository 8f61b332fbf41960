CONSTANTS
  BaseWidth = 2
  ExtWidth = 1
  TotalClusters = 5
  CellsPerCluster = 2
  Clients <- MCClients
  MaxCrashes = 1
SPECIFICATION FairSpec

  
  
PROPERTIES
  
  ReadReturnsContents
  
  CallsReturn
