------------------------------ MODULE Library ------------------------------
(***************************************************************************)
(* What the library promises its callers: the routines of Strings and      *)
(* Format and the stub of Syscall, called one at a time with every argument *)
(* of the instance, and the definitions they are compared with.  The code  *)
(* of a call is a function of its arguments; the state is the call that is *)
(* being made.                                                             *)
(***************************************************************************)
EXTENDS Strings, Format, Syscall

CONSTANTS
  Formats,     \* the formats printed
  MaxWidth     \* the widths and precisions go up to it

VARIABLE call

NoCall == [of |-> "none"]

\* Two strings, or a string and an area, in one memory.
StringCalls ==
  [of : {"strings"}, mem : Memories(Letters \cup {NUL}),
   p : Addresses, q : Addresses]

LineCalls == [of : {"line"}, mem : Memories(Letters \cup {NUL, SPACE, TAB})]

ConversionCalls ==
  {[of |-> "conversion",
    item |-> [conv |-> c, left |-> l, zero |-> z, width |-> w, prec |-> p,
              arg |-> a]] :
     c \in {"d", "u", "x"}, l \in BOOLEAN, z \in BOOLEAN,
     w \in 0 .. MaxWidth, p \in -1 .. MaxWidth, a \in Signed}

FormatCalls == [of : {"format"}, format : Formats, size : 0 .. Cells]

\* A program's registers when it executes SYSCALL: all of them differ.
SyscallCalls ==
  {[of |-> "syscall", result |-> result, junk |-> junk,
    program |-> [reg |-> [r \in Registers |-> 100 + SelectInSeq(Saved, LAMBDA e : e = r)],
                 stack |-> << >>, user_rsp |-> 4096]] :
     result \in {-1, 0}, junk \in {0, 999}}

LibraryInit == call = NoCall

LibraryNext ==
  \/ /\ call = NoCall
     /\ call' \in StringCalls \cup LineCalls \cup ConversionCalls
                 \cup FormatCalls \cup SyscallCalls
  \/ call # NoCall /\ call' = NoCall

-----------------------------------------------------------------------------
(* Strings.                                                                *)

\* The characters of the string at str.
Chars(m, str) == SubSeq([i \in 1 .. Memory - str |-> m[str + i - 1]], 1, strlen(m, str))

Terminated(m, str) == \E a \in str .. Memory - 1 : m[a] = NUL

Sign(n) == IF n < 0 THEN -1 ELSE IF n > 0 THEN 1 ELSE 0

\* The order of strings, by the first character they differ in.
Order(str, t) ==
  LET Differ == {i \in 1 .. Len(str) : i > Len(t) \/ str[i] # t[i]}
  IN  IF IsPrefix(str, t) THEN (IF str = t THEN 0 ELSE -1)
      ELSE LET i == Min(Differ)
           IN  IF i > Len(t) \/ str[i] > t[i] THEN 1 ELSE -1

\* m after t was written from d on, and nothing else.
Put(m, d, t) ==
  [a \in Addresses |-> IF a \in d .. d + Len(t) - 1 THEN t[a - d + 1] ELSE m[a]]

First(t, n) == SubSeq(t, 1, IF n < Len(t) THEN n ELSE Len(t))

\* memmove moves n bytes as they were before the call, however source and
\* destination overlap; memcpy does when the destination does not begin inside
\* the source; memset and memcmp look at those n bytes and at no others.
AreasAgree(m, d, str) ==
  \A n \in 0 .. Memory - Max({d, str}) :
    LET area == [i \in 1 .. n |-> m[str + i - 1]]
    IN  /\ memmove(m, d, str, n) = Put(m, d, area)
        /\ d \notin str + 1 .. str + n - 1 =>
             memcpy(m, d, str, n) = Put(m, d, area)
        /\ \A c \in Letters : memset(m, d, c, n) = Put(m, d, Fill(c, n))
        /\ Sign(memcmp(m, d, str, n)) = Order([i \in 1 .. n |-> m[d + i - 1]], area)

\* Comparing and searching, on every memory of two letters and NUL.
SearchesAgree(m, str, t) ==
  LET A == Chars(m, str)
      B == Chars(m, t)
      Found == {i \in 0 .. Len(A) - Len(B) : IsPrefix(B, SubSeq(A, i + 1, Len(A)))}
  IN  /\ Sign(strcmp(m, str, t)) = Order(A, B)
      /\ \A n \in 0 .. Memory :
           Sign(strncmp(m, str, t, n)) = Order(First(A, n), First(B, n))
      /\ strstr(m, str, t) = IF Found = {} THEN NULL ELSE str + Min(Found)
      /\ \A c \in Letters :
           LET At == {i \in 1 .. Len(A) : A[i] = c}
           IN  /\ strchr(m, str, c) = IF At = {} THEN NULL ELSE str + Min(At) - 1
               /\ strrchr(m, str, c) = IF At = {} THEN NULL ELSE str + Max(At) - 1

\* Copying and joining, where the destination is below the source and has
\* room in front of it: the result is the string asked for, terminated except
\* for strncpy of n characters or more, and no other byte changes.
WritesAgree(m, d, str) ==
  LET A == Chars(m, d)
      B == Chars(m, str)
      Room == str - d
  IN  /\ Len(B) < Room => strcpy(m, d, str) = Put(m, d, Append(B, NUL))
      /\ \A n \in 0 .. Room :
           strncpy(m, d, str, n) =
             Put(m, d, First(B, n) \o [i \in 1 .. n - Len(First(B, n)) |-> NUL])
      /\ \A n \in 0 .. Memory :
           Len(A) + Len(First(B, n)) < Room =>
             strncat(m, d, str, n) = Put(m, d, A \o First(B, n) \o <<NUL>>)
      /\ Len(A) + Len(B) < Room =>
           strcat(m, d, str) = Put(m, d, A \o B \o <<NUL>>)

\* Every routine of lib/string.c does what its name says in C, at every
\* length, overlap and limit: memmove on areas that overlap either way,
\* strncmp when the limit falls on the last character, strncpy when the string
\* fills the limit.
StringsAgree ==
  call.of = "strings" =>
    /\ AreasAgree(call.mem, call.p, call.q)
    /\ Terminated(call.mem, call.p) /\ Terminated(call.mem, call.q) =>
         /\ SearchesAgree(call.mem, call.p, call.q)
         /\ strlen(call.mem, call.p) < call.q - call.p =>
              WritesAgree(call.mem, call.p, call.q)

\* parse_command finds the words of the line in their order, up to MAX_ARGS of
\* them; read as strings after it has cut the line they are the words that
\* were typed, and nothing behind the line is written.
WordsFound ==
  call.of = "line" /\ Terminated(call.mem, 0) =>
    LET line   == Chars(call.mem, 0)
        words  == SetToSortSeq({i \in 1 .. Len(line) :
                      line[i] \in Letters /\ (i = 1 \/ line[i - 1] \in Blanks)}, <)
        last(i) == Min({j \in i .. Len(line) :
                          j = Len(line) \/ line[j + 1] \in Blanks})
        parsed == parse_command(call.mem, 0)
    IN  /\ parsed.args = [i \in 1 .. Len(First(words, MAX_ARGS)) |-> words[i] - 1]
        /\ \A i \in DOMAIN parsed.args :
             Chars(parsed.mem, parsed.args[i]) =
               SubSeq(line, words[i], last(words[i]))
        /\ \A a \in Len(line) .. Memory - 1 : parsed.mem[a] = call.mem[a]

-----------------------------------------------------------------------------
(* Formats.                                                                *)

\* The number a sequence of digits stands for.
Value(digits, base) ==
  FoldLeft(LAMBDA n, c : n * base + SelectInSeq(Lower, LAMBDA e : e = c) - 1,
           0, digits)

\* The one way to write n without leading zeros.
Written(n, base) ==
  CHOOSE t \in UNION {[1 .. k -> Range(SubSeq(Lower, 1, base))] :
                        k \in 1 .. (Bits \div 4) + 1} :
    Value(t, base) = n /\ (Len(t) > 1 => t[1] # "0")

\* What C prints for a number.
InC(item) ==
  LET n == IF item.conv = "d" THEN item.arg ELSE item.arg % 2 ^ Bits
      minus == IF n < 0 THEN <<"-">> ELSE << >>
      plain == Written(IF n < 0 THEN - n ELSE n,
                       IF item.conv = "x" THEN 16 ELSE 10)
      digits == Fill("0", item.prec - Len(plain)) \o plain
      room == item.width - Len(minus \o digits)
  IN  CASE item.left -> minus \o digits \o Fill(" ", room)
        [] ~ item.left /\ item.zero -> minus \o Fill("0", room) \o digits
        [] OTHER -> Fill(" ", room) \o minus \o digits

\* What vsnprintf leaves of a text: as much as fits in front of a terminator,
\* the terminator, and nothing else; it returns the length of the whole text,
\* or 0 for no room at all.
Truncated(text, size) ==
  LET kept == First(text, size - 1)
  IN  [cell |-> [i \in 0 .. Cells - 1 |->
                   IF i < Len(kept) THEN kept[i + 1]
                   ELSE IF i = Len(kept) /\ size > 0 THEN Terminator
                   ELSE Untouched],
       ret |-> IF size = 0 THEN 0 ELSE Len(text)]

\* printf prints a number as C does, for every combination of width,
\* precision, - and 0, and the least number too, with two exceptions the code
\* makes: 0 counts although there is a precision, and a zero with precision 0
\* is printed.  snprintf cuts the text that sprintf writes, wherever its end
\* falls, and for conversions without width and precision that text is what
\* printf prints.
FormatsAgree ==
  /\ call.of = "conversion" =>
       LET item == call.item
       IN  item.prec < 0 \/ ~ item.zero => vprintf(<<item>>).out = InC(item)
  /\ call.of = "format" =>
       LET format == call.format
           full == vsprintf(format)
           text == [i \in 1 .. full.ret |-> full.cell[i - 1]]
       IN  /\ vsnprintf(call.size, format) = Truncated(text, call.size)
           /\ (\A i \in DOMAIN format :
                 format[i].width = 0 /\ format[i].prec < 0) =>
                text = vprintf(format).out

-----------------------------------------------------------------------------
(* System calls.                                                           *)

\* Whatever the handler does, a program has every register again as it was
\* after its SYSCALL, the return address and the flags among them, except rax
\* and r15.  (The result is put where r15 was saved, so that rax is the
\* number again and r15 the result; the stack pointer comes back 8 too high;
\* and the handler is given the number for its first three arguments.)
StubKeepsCaller ==
  call.of = "syscall" =>
    LET after == syscall_entry(call.program, call.result, call.junk)
    IN  \A r \in Registers \ {"rax", "r15"} : after.reg[r] = call.program.reg[r]

=============================================================================
