------------------------------- MODULE MCHeap -------------------------------
(* A first region with room for three or four small blocks, and two pages   *)
(* that may be added behind a gap.  Sizes that need rounding, that leave a   *)
(* remainder just too small to split, and that need an expansion.           *)
EXTENDS Heap

MCInitial == 16
MCRequests == {1, 4, 7}
=============================================================================
