------------------------------- MODULE Format -------------------------------
(***************************************************************************)
(* Formatted output (lib/stdio.c): vprintf, which writes to the terminal,  *)
(* and vprintf_internal under vsprintf and vsnprintf, which write to a     *)
(* buffer.  They are two implementations: the first honours width, flags   *)
(* and precision, the second reads them and uses only the precision of %s. *)
(* A format is a sequence of items, each a character that stands for       *)
(* itself or one conversion with what was parsed before its letter and the *)
(* argument it takes.  Arguments have Bits bits; as in the code, u, x, X,   *)
(* o and p read them unsigned.                                             *)
(***************************************************************************)
EXTENDS Integers, SequencesExt

CONSTANTS
  Bits,        \* width of an integer argument; 4 divides it
  Cells        \* length of the array behind the pointer given to vsnprintf

ASSUME FormatAssumption ==
  /\ Bits \in {4, 8}
  /\ Cells \in Nat

Lower == <<"0", "1", "2", "3", "4", "5", "6", "7",
           "8", "9", "a", "b", "c", "d", "e", "f">>
Upper == <<"0", "1", "2", "3", "4", "5", "6", "7",
           "8", "9", "A", "B", "C", "D", "E", "F">>

\* The string argument of a %s: a null pointer prints as "(null)".
NullPointer == <<"NULL">>
Pointee(arg) ==
  IF arg = NullPointer THEN <<"(", "n", "u", "l", "l", ")">> ELSE arg

Terminator == "\\0"
Untouched == "?"

Signed == - 2 ^ (Bits - 1) .. 2 ^ (Bits - 1) - 1

\* [conv, left, zero, width, prec, arg]; prec is -1 when there is none.  The
\* conversion of a literal, and of a letter with no case of its own, is
\* "char".
Plain(conv, arg) ==
  [conv |-> conv, left |-> FALSE, zero |-> FALSE, width |-> 0, prec |-> -1,
   arg |-> arg]

Fill(c, n) == [i \in 1 .. n |-> c]

\* The digits of n as they are put into buffer, the lowest first.
Digits(n, base, letters) ==
  LET loop[k \in 0 .. n] ==
        IF k = 0 THEN << >>
        ELSE <<letters[1 + (k % base)]>> \o loop[k \div base]
  IN  IF n = 0 THEN <<letters[1]>> ELSE loop[n]

-----------------------------------------------------------------------------
(* To the terminal.  The value is the characters given to putchar.         *)

print_string(str, width, precision, left) ==
  LET n == IF precision < 0 \/ Len(str) < precision THEN Len(str)
           ELSE precision
      padding == Fill(" ", width - n)
  IN  (IF left THEN << >> ELSE padding)
        \o SubSeq(str, 1, n)
        \o (IF left THEN padding ELSE << >>)

\* - num wraps around for the least number: read unsigned it is its magnitude.
print_int(num, width, precision, left, zero) ==
  LET digits == Digits(IF num < 0 THEN (- num) % 2 ^ Bits ELSE num, 10, Lower)
      filled == digits \o Fill("0", precision - Len(digits))
      minus  == IF num < 0 THEN <<"-">> ELSE << >>
      padding == width - Len(filled) - Len(minus)
  IN  (IF ~ left /\ ~ zero THEN Fill(" ", padding) ELSE << >>)
        \o minus
        \o (IF ~ left /\ zero THEN Fill("0", padding) ELSE << >>)
        \o Reverse(filled)
        \o (IF left THEN Fill(" ", padding) ELSE << >>)

print_uint(num, base, width, precision, left, zero, letters) ==
  LET digits == Digits(num, base, letters)
      filled == digits \o Fill("0", precision - Len(digits))
      padding == width - Len(filled)
  IN  (IF left THEN << >> ELSE Fill(IF zero THEN "0" ELSE " ", padding))
        \o Reverse(filled)
        \o (IF left THEN Fill(" ", padding) ELSE << >>)

print_ptr(num) ==
  <<"0", "x">> \o print_uint(num, 16, Bits \div 4, -1, FALSE, TRUE, Lower)

Base(conv) == CASE conv = "u" -> 10 [] conv = "o" -> 8 [] OTHER -> 16

Letters16(conv) == IF conv = "X" THEN Upper ELSE Lower

\* One turn of vprintf's loop.
Converted(d) ==
  CASE d.conv = "char" -> <<d.arg>>
    [] d.conv = "s" -> print_string(Pointee(d.arg), d.width, d.prec, d.left)
    [] d.conv = "d" -> print_int(d.arg, d.width, d.prec, d.left, d.zero)
    [] d.conv = "p" -> print_ptr(d.arg % 2 ^ Bits)
    [] OTHER -> print_uint(d.arg % 2 ^ Bits, Base(d.conv), d.width, d.prec,
                           d.left, d.zero, Letters16(d.conv))

\* count grows by one a conversion, whatever it prints, and for %s by the
\* length of the string, whatever of it is printed.
Counted(d) == IF d.conv = "s" THEN Len(Pointee(d.arg)) ELSE 1

vprintf(format) ==
  [out |-> FlattenSeq([i \in DOMAIN format |-> Converted(format[i])]),
   ret |-> FoldLeft(LAMBDA n, k : n + k, 0, [i \in DOMAIN format |-> Counted(format[i])])]

-----------------------------------------------------------------------------
(* To a buffer.  The value of a conversion is the characters given to      *)
(* putchar_func; their number is what is added to count.                   *)

InternalConverted(d) ==
  CASE d.conv = "char" -> <<d.arg>>
    [] d.conv = "s" -> SubSeq(Pointee(d.arg), 1,
                              IF d.prec < 0 \/ Len(Pointee(d.arg)) < d.prec
                              THEN Len(Pointee(d.arg)) ELSE d.prec)
    [] d.conv = "d" ->
         (IF d.arg < 0 THEN <<"-">> ELSE << >>)
           \o Reverse(Digits(IF d.arg < 0 THEN (- d.arg) % 2 ^ Bits ELSE d.arg,
                             10, Lower))
    [] d.conv = "p" ->
         <<"0", "x">>
           \o [j \in 1 .. Bits \div 4 |->
                 Lower[1 + (((d.arg % 2 ^ Bits) \div 16 ^ (Bits \div 4 - j)) % 16)]]
    [] OTHER -> Reverse(Digits(d.arg % 2 ^ Bits, Base(d.conv),
                               Letters16(d.conv)))

\* Faulty: two cells are kept for the terminator.
sprintf_putchar_Short(b, c) ==
  IF b.pos + 1 < b.size - 1
  THEN [b EXCEPT !.cell[b.pos] = c, !.pos = b.pos + 1]
  ELSE b

sprintf_putchar(b, c) ==
  IF b.pos < b.size - 1
  THEN [b EXCEPT !.cell[b.pos] = c, !.pos = b.pos + 1]
  ELSE b

vprintf_internal(b, format) ==
  LET written == FlattenSeq([i \in DOMAIN format |-> InternalConverted(format[i])])
  IN  [buffer |-> FoldLeft(sprintf_putchar, b, written), count |-> Len(written)]

Fresh(size) ==
  [cell |-> [i \in 0 .. Cells - 1 |-> Untouched], pos |-> 0, size |-> size]

\* The limit of vsprintf is (size_t)-1: here, more than any format writes.
vsprintf(format) ==
  LET r == vprintf_internal(Fresh(Cells), format)
  IN  [cell |-> [r.buffer.cell EXCEPT ![r.buffer.pos] = Terminator],
       ret  |-> r.count]

vsnprintf(size, format) ==
  LET r == vprintf_internal(Fresh(size), format)
      end == IF r.buffer.pos < size THEN r.buffer.pos ELSE size - 1
  IN  IF size = 0 THEN [cell |-> Fresh(0).cell, ret |-> 0]
      ELSE [cell |-> [r.buffer.cell EXCEPT ![end] = Terminator],
            ret  |-> r.count]

=============================================================================
