CONSTANTS
  Ids <- MCIds
  HeapNodes = 5
  Fds <- MCFds
  Inodes <- MCInodes
  Names <- MCNames
  Disks <- MCDisks
  BootDirs <- MCBootDirs
  Calls <- MCCalls
SPECIFICATION Spec
INVARIANTS
  
  MemoryOwned
  
  
PROPERTIES
  OnlyUserTree
