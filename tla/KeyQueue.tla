------------------------------ MODULE KeyQueue ------------------------------
(***************************************************************************)
(* What the keyboard driver promises its readers: the characters it        *)
(* accepts come out once each and in the order they went in.  A scancode   *)
(* adds at most MaxAdd characters at once; those there is no room for are  *)
(* dropped.                                                                *)
(***************************************************************************)
EXTENDS Naturals, Sequences

CONSTANTS
  Char,
  Capacity,   \* KB_BUFFER_SIZE - 1: one cell of the ring stays empty
  MaxAdd      \* the longest sequence of one key, ESC [ D

VARIABLES q, last   \* the characters waiting; what the last read returned

\* The handler adds the characters of a key in one go.
PutSome ==
  \E n \in 1 .. MaxAdd :
    /\ Len(q') = Len(q) + n
    /\ Len(q') <= Capacity
    /\ SubSeq(q', 1, Len(q)) = q
    /\ UNCHANGED last

\* The oldest character leaves, and it is what the reader gets.
Get ==
  /\ q # <<>>
  /\ last' = Head(q)
  /\ q' = Tail(q)

\* keyboard_flush.
Clear == q' = <<>> /\ UNCHANGED last

Init == q = <<>>

Spec == Init /\ [][PutSome \/ Get \/ Clear]_<<q, last>>
=============================================================================
