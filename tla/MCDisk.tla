------------------------------- MODULE MCDisk -------------------------------
(* With ByteMod = 3 a request of more than three sectors goes in chunks of    *)
(* two.  MCRequests has a request of two chunks, one that is cut at the end   *)
(* of the disk and one beyond it.  MCExact asks for exactly ByteMod sectors,  *)
(* as 256 would be.                                                          *)
EXTENDS Disk

MCRequests == {<<0, 4>>, <<4, 2>>, <<5, 1>>}
MCExact == {<<0, 3>>}
=============================================================================
