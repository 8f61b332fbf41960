----------------------------- MODULE LineEditor -----------------------------
(***************************************************************************)
(* What fgets promises: a line with a cursor in it, kept as the text left  *)
(* and right of the cursor, that never outgrows its buffer.                *)
(***************************************************************************)
EXTENDS Naturals, Sequences

CONSTANTS
  Text,    \* the printable characters
  Size     \* the caller's buffer, with the terminating zero

VARIABLES left, right

Insert == \E c \in Text :
            /\ Len(left) + Len(right) + 1 < Size
            /\ left' = Append(left, c)
            /\ UNCHANGED right

Backspace == /\ left # <<>>
             /\ left' = SubSeq(left, 1, Len(left) - 1)
             /\ UNCHANGED right

ArrowLeft == /\ left # <<>>
             /\ left' = SubSeq(left, 1, Len(left) - 1)
             /\ right' = <<left[Len(left)]>> \o right

ArrowRight == /\ right # <<>>
              /\ left' = Append(left, right[1])
              /\ right' = Tail(right)

\* The line is handed over and the next one starts empty.
Enter == left' = <<>> /\ right' = <<>>

Init == left = <<>> /\ right = <<>>

Spec == Init /\ [][Insert \/ Backspace \/ ArrowLeft \/ ArrowRight \/ Enter]_
                  <<left, right>>
=============================================================================
