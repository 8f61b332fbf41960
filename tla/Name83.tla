------------------------------- MODULE Name83 -------------------------------
(***************************************************************************)
(* The names of directory entries (fs/fat32/fat32.c): what a caller's name *)
(* becomes on disk, a base and an extension of fixed width in capitals,    *)
(* and what is read back from there.  A name is a sequence of characters.  *)
(***************************************************************************)
EXTENDS Naturals, SequencesExt

CONSTANTS
  BaseWidth, ExtWidth   \* 8 and 3

\* The letters the model has, each with its capital.
Capital == [a |-> "A", b |-> "B", d |-> "D", e |-> "E"]

Upper(c) == IF c \in DOMAIN Capital THEN Capital[c] ELSE c

Lower(c) == IF \E a \in DOMAIN Capital : Capital[a] = c
            THEN CHOOSE a \in DOMAIN Capital : Capital[a] = c ELSE c

\* One field: cut to its width, in capitals, the rest blank.
Field(s, width) ==
  [k \in 1 .. width |-> IF k <= Len(s) THEN Upper(s[k]) ELSE " "]

\* strrchr(name, '.'), 0 if there is none.
Dot(name) == SelectLastInSeq(name, LAMBDA c : c = ".")

name_to_83(name) ==
  LET dot == Dot(name)
  IN  IF dot = 0 THEN Field(name, BaseWidth) \o Field(<<>>, ExtWidth)
      ELSE Field(SubSeq(name, 1, dot - 1), BaseWidth)
             \o Field(SubSeq(name, dot + 1, Len(name)), ExtWidth)

\* A field up to its first blank, in small letters.
Text(field) ==
  LET blank == SelectInSeq(field, LAMBDA c : c = " ")
      n == IF blank = 0 THEN Len(field) ELSE blank - 1
  IN  [k \in 1 .. n |-> Lower(field[k])]

name_from_83(name83) ==
  LET ext == Text(SubSeq(name83, BaseWidth + 1, BaseWidth + ExtWidth))
      base == Text(SubSeq(name83, 1, BaseWidth))
  IN  IF ext = <<>> THEN base ELSE base \o <<".">> \o ext

Invalid == {"\\", "/", ":", "*", "?", "\"", "<", ">", "|"}

is_valid_name(name) == name # <<>> /\ \A k \in DOMAIN name : name[k] \notin Invalid

\* What is read back of a name that was stored.
Stored(name) == name_from_83(name_to_83(name))

=============================================================================
