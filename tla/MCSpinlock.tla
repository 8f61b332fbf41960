---------------------------- MODULE MCSpinlock ----------------------------
(* Three locks, the deepest nesting of the kernel (heap, vmm, pmm), which  *)
(* handlers may take as well, and interrupts that could nest three deep.   *)
EXTENDS Spinlock

MCMaxLevel == 3
===========================================================================
