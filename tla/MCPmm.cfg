CONSTANTS
  MemPages <- MCMemPages
  BitmapBits <- MCBitmapBits
  KernelEndPages <- MCKernelEndPages
  LowPages <- MCLowPages
  MaxCount <- MCMaxCount
SPECIFICATION Spec
INVARIANTS
  UsedPagesExact
  NoDoubleGrant
  FailsOnlyWhenNoRun
