------------------------------ MODULE Strings ------------------------------
(***************************************************************************)
(* The routines of lib/string.c on a memory of bytes, and parse_command,   *)
(* which cuts the shell's line into words in place.  A string is the       *)
(* address of its first byte.  Every routine is a function of the memory   *)
(* it is called on: its loops are folds and recursions over that memory,   *)
(* one byte at a time, so that what overlapping areas do to each other is  *)
(* part of the model.                                                      *)
(***************************************************************************)
EXTENDS Integers, SequencesExt, FiniteSetsExt

CONSTANTS
  Memory,      \* bytes of memory; the addresses are 0 .. Memory - 1
  Letters,     \* the bytes that are neither NUL nor blanks
  MAX_ARGS     \* length of the array parse_command fills

ASSUME StringsAssumption ==
  /\ Memory \in Nat
  /\ Letters \subseteq 3 .. 255
  /\ MAX_ARGS \in Nat

NUL == 0
SPACE == 1
TAB == 2
NULL == -1

Addresses == 0 .. Memory - 1
Memories(bytes) == [Addresses -> bytes]

\* The numbers 1 .. n in the order a counting loop meets them.
Turns(n) == [i \in 1 .. n |-> i]

-----------------------------------------------------------------------------
(* Areas of memory.                                                        *)

memset(m, str, c, n) ==
  FoldLeft(LAMBDA k, i : [k EXCEPT ![str + i - 1] = c], m, Turns(n))

memcpy(m, d, str, n) ==
  FoldLeft(LAMBDA k, i : [k EXCEPT ![d + i - 1] = k[str + i - 1]], m, Turns(n))

\* Faulty: memmove copies forwards whatever the order of the areas.
memmove_Forward(m, d, str, n) == memcpy(m, d, str, n)

memmove(m, d, str, n) ==
  IF d < str
  THEN memcpy(m, d, str, n)
  ELSE FoldLeft(LAMBDA k, i : [k EXCEPT ![d + n - i] = k[str + n - i]],
                m, Turns(n))

memcmp(m, a, b, n) ==
  LET from[i \in 0 .. n] ==
        IF i = n THEN 0
        ELSE IF m[a + i] # m[b + i] THEN m[a + i] - m[b + i] ELSE from[i + 1]
  IN  from[0]

-----------------------------------------------------------------------------
(* Strings.                                                                *)

strnlen(m, str, maxlen) ==
  LET from[k \in 0 .. maxlen] ==
        IF k < maxlen /\ m[str + k] # NUL THEN from[k + 1] ELSE k
  IN  from[0]

strlen(m, str) == strnlen(m, str, Memory - str)

\* The loop the copying routines share: up to n bytes, and not the NUL.
RECURSIVE CopyString(_, _, _, _, _)
CopyString(m, d, str, n, i) ==
  IF i < n /\ m[str + i] # NUL
  THEN CopyString([m EXCEPT ![d + i] = m[str + i]], d, str, n, i + 1)
  ELSE [mem |-> m, end |-> i]

strcpy(m, d, str) ==
  LET c == CopyString(m, d, str, Memory, 0)
  IN  [c.mem EXCEPT ![d + c.end] = NUL]

strncpy(m, d, str, n) ==
  LET c == CopyString(m, d, str, n, 0)
  IN  memset(c.mem, d + c.end, NUL, n - c.end)

strncat(m, d, str, n) ==
  LET end == d + strlen(m, d)
      c == CopyString(m, end, str, n, 0)
  IN  [c.mem EXCEPT ![end + c.end] = NUL]

strcat(m, d, str) == strncat(m, d, str, Memory)

strcmp(m, s1, s2) ==
  LET from[i \in Nat] ==
        IF m[s1 + i] # NUL /\ m[s1 + i] = m[s2 + i] THEN from[i + 1]
        ELSE m[s1 + i] - m[s2 + i]
  IN  from[0]

\* n has wrapped around, to (size_t)-1, when n characters were equal.
strncmp(m, s1, s2, n) ==
  LET from[i \in Nat] ==
        IF i < n /\ m[s1 + i] # NUL /\ m[s1 + i] = m[s2 + i] THEN from[i + 1]
        ELSE IF i = n THEN 0
        ELSE m[s1 + i] - m[s2 + i]
  IN  from[0]

strchr(m, str, c) ==
  LET from[a \in Addresses] ==
        IF m[a] = c THEN a ELSE IF m[a] = NUL THEN NULL ELSE from[a + 1]
  IN  from[str]

strrchr(m, str, c) ==
  LET end == str + strlen(m, str)
      from[a \in str .. end] == \* the last occurrence before a
        IF a = str THEN NULL ELSE IF m[a - 1] = c THEN a - 1 ELSE from[a - 1]
  IN  IF c = NUL THEN end ELSE from[end]

strstr(m, haystack, needle) ==
  LET Here(a) ==
        LET from[i \in Nat] ==
              IF m[needle + i] = NUL THEN TRUE
              ELSE m[a + i] = m[needle + i] /\ from[i + 1]
        IN  from[0]
      from[a \in Addresses] ==
        IF m[a] = NUL THEN NULL ELSE IF Here(a) THEN a ELSE from[a + 1]
  IN  IF m[needle] = NUL THEN haystack ELSE from[haystack]

-----------------------------------------------------------------------------
(* parse_command: the memory with a NUL after each word but the last, and   *)
(* the addresses of the words.                                             *)

Blanks == {SPACE, TAB}

\* The first address from a on where the loop over these bytes stops.
SkipWhile(m, a, bytes) ==
  CHOOSE e \in a .. Memory - 1 :
    m[e] \notin bytes /\ \A i \in a .. e - 1 : m[i] \in bytes

\* Faulty: one argument more than the array has room for.
RECURSIVE Parse_OffByOne(_, _, _)
Parse_OffByOne(m, token, args) ==
  IF m[token] = NUL \/ Len(args) > MAX_ARGS THEN [mem |-> m, args |-> args]
  ELSE LET word == SkipWhile(m, token, Blanks)
           end  == SkipWhile(m, word, Letters)
       IN  IF m[word] = NUL THEN [mem |-> m, args |-> args]
           ELSE Parse_OffByOne([m EXCEPT ![end] = NUL],
                               IF m[end] # NUL THEN end + 1 ELSE end,
                               Append(args, word))

RECURSIVE Parse(_, _, _)
Parse(m, token, args) ==
  IF m[token] = NUL \/ Len(args) >= MAX_ARGS THEN [mem |-> m, args |-> args]
  ELSE LET word == SkipWhile(m, token, Blanks)
           end  == SkipWhile(m, word, Letters)
       IN  IF m[word] = NUL THEN [mem |-> m, args |-> args]
           ELSE Parse([m EXCEPT ![end] = NUL],
                      IF m[end] # NUL THEN end + 1 ELSE end,
                      Append(args, word))

parse_command(m, cmd) == Parse(m, cmd, << >>)

=============================================================================
