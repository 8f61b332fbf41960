CONSTANTS
  Paths <- MCPaths
  Place <- MCPlace
  Folders <- MCFolders
  Join <- MCJoin
  Protected = {"/p"}
  Clusters = 5
  Buffer = 1
  Fds <- MCFds
  MaxErrors = 2
  Disks <- MCDisks
  Commands <- MCCommands
SPECIFICATION FairSpec
INVARIANTS
  FilesClosed
  
  
PROPERTIES
  CommandsReturn
