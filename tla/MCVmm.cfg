CONSTANTS
  FanOut <- MCFanOut
  TotalFrames <- MCTotalFrames
  KernelFrames <- MCKernelFrames
  Devices <- MCDevices
  Window <- MCWindow
  RegionEnd <- MCRegionEnd
  MaxPages <- MCMaxPages
SPECIFICATION Spec
INVARIANTS
  MappedWhileHeld
  NoFrameLost
  TlbAgrees
CHECK_DEADLOCK FALSE
