CONSTANTS
  Locks = {heap_lock, vmm_lock, pmm_lock}
  MaxLevel <- MCMaxLevel
SPECIFICATION Spec
INVARIANTS
  NeverContended
  InterruptStateRestored
