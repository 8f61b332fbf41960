-------------------------------- MODULE MCVmm -------------------------------
(* Tables of two entries, so that three pages need two of them; seven free    *)
(* frames, of which the tables for the region and the window take up to      *)
(* five: vmm_alloc runs out at every point of its loop.                      *)
EXTENDS Vmm

MCFanOut == 2
MCTotalFrames == 9
MCKernelFrames == 2
MCDevices == {20, 21}
MCWindow == {4, 6}
MCRegionEnd == 4
MCMaxPages == 3
=============================================================================
