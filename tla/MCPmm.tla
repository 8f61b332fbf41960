------------------------------- MODULE MCPmm -------------------------------
(* Pmm with eight frames, two of them reserved, and runs of up to three:     *)
(* enough for fragmentation, for a run that touches either end of memory and *)
(* for a free of a range that is partly out of memory.                       *)
EXTENDS Pmm

MCMemPages == 9
MCBitmapBits == 8
MCKernelEndPages == 1
MCLowPages == 2
MCMaxCount == 3
=============================================================================
