------------------------------ MODULE Console ------------------------------
(***************************************************************************)
(* The console: putchar and the terminal position it keeps (lib/stdio.c),  *)
(* the text screen under it (drivers/video/vga.c), and fgets, the line     *)
(* editor the shell reads its commands with.  A key is one step: nothing   *)
(* else writes to the screen while fgets works on it.                      *)
(***************************************************************************)
EXTENDS Naturals, Sequences

CONSTANTS
  Printable,      \* the printable characters, '[', 'C' and 'D' among them
  Size,           \* the buffer given to fgets
  Prompt,         \* columns the shell's prompt takes
  VGA_WIDTH, VGA_HEIGHT

ASSUME ConsoleAssumption ==
  /\ {"[", "C", "D"} \subseteq Printable
  /\ {"NL", "BS", "ESC"} \intersect Printable = {}
  /\ Size \in Nat \ {0}
  /\ Prompt \in 0 .. VGA_WIDTH - 1
  /\ VGA_WIDTH \in Nat \ {0}
  /\ VGA_HEIGHT \in Nat \ {0}

VARIABLES
  term,          \* buffer, term_x and term_y, as [cell, x, y]
  s, cursor_pos, \* fgets: the first len characters of s; the cursor
  fgets_pc       \* "prompt", or fgets waits: "key", "ESC", "ESC["

console_vars == <<term, s, cursor_pos, fgets_pc>>

Blank == " "
Columns == 0 .. VGA_WIDTH - 1
Rows == 0 .. VGA_HEIGHT - 1

-----------------------------------------------------------------------------
(* The terminal.                                                           *)

vga_scroll_up(cell) ==
  [y \in Rows |-> [x \in Columns |->
     IF y = VGA_HEIGHT - 1 THEN Blank ELSE cell[y + 1][x]]]

term_newline(t) ==
  IF t.y + 1 >= VGA_HEIGHT
  THEN [cell |-> vga_scroll_up(t.cell), x |-> 0, y |-> VGA_HEIGHT - 1]
  ELSE [t EXCEPT !.x = 0, !.y = t.y + 1]

term_advance(t) ==
  IF t.x + 1 >= VGA_WIDTH THEN term_newline(t) ELSE [t EXCEPT !.x = t.x + 1]

\* Faulty: a backspace wipes the cell it moves to.
putchar_Wipe(t, c) ==
  CASE c = "NL" -> term_newline(t)
    [] c = "BS" -> IF t.x > 0
                   THEN [t EXCEPT !.x = t.x - 1, !.cell[t.y][t.x - 1] = Blank]
                   ELSE t
    [] OTHER    -> term_advance([t EXCEPT !.cell[t.y][t.x] = c])

putchar(t, c) ==
  CASE c = "NL" -> term_newline(t)
    [] c = "BS" -> IF t.x > 0 THEN [t EXCEPT !.x = t.x - 1] ELSE t
    [] OTHER    -> term_advance([t EXCEPT !.cell[t.y][t.x] = c])

\* A run of putchar calls.
Puts(t, chars) ==
  LET after[k \in 0 .. Len(chars)] ==
        IF k = 0 THEN t ELSE putchar(after[k - 1], chars[k])
  IN  after[Len(chars)]

Times(n, c) == [k \in 1 .. n |-> c]

-----------------------------------------------------------------------------
(* fgets, one character of input per step.                                 *)

len == Len(s)

ConsoleInit ==
  /\ term = [cell |-> [y \in Rows |-> [x \in Columns |-> Blank]],
             x |-> 0, y |-> 0]
  /\ s = <<>> /\ cursor_pos = 0
  /\ fgets_pc = "prompt"

\* The shell prints its prompt and calls fgets.
prompt ==
  /\ fgets_pc = "prompt"
  /\ term' = Puts(term, Times(Prompt, ">"))
  /\ s' = <<>> /\ cursor_pos' = 0
  /\ fgets_pc' = "key"

\* ESC begins an arrow key; only '[' and then 'C' or 'D' mean anything.
escape(c) ==
  /\ \/ fgets_pc = "key" /\ c = "ESC" /\ fgets_pc' = "ESC"
     \/ fgets_pc = "ESC" /\ fgets_pc' = IF c = "[" THEN "ESC[" ELSE "key"
     \/ fgets_pc = "ESC[" /\ c \notin {"C", "D"} /\ fgets_pc' = "key"
  /\ UNCHANGED <<term, s, cursor_pos>>

arrow_left(c) ==
  /\ fgets_pc = "ESC[" /\ c = "D"
  /\ fgets_pc' = "key"
  /\ IF cursor_pos > 0
     THEN /\ cursor_pos' = cursor_pos - 1
          /\ term' = putchar(term, "BS")
     ELSE UNCHANGED <<cursor_pos, term>>
  /\ UNCHANGED s

arrow_right(c) ==
  /\ fgets_pc = "ESC[" /\ c = "C"
  /\ fgets_pc' = "key"
  /\ IF cursor_pos < len
     THEN /\ term' = putchar(term, s[cursor_pos + 1])
          /\ cursor_pos' = cursor_pos + 1
     ELSE UNCHANGED <<cursor_pos, term>>
  /\ UNCHANGED s

enter(c) ==
  /\ fgets_pc = "key" /\ c = "NL"
  /\ term' = putchar(term, "NL")
  /\ fgets_pc' = "prompt"
  /\ UNCHANGED <<s, cursor_pos>>

\* Faulty: the shift begins one character too far.
backspace_OffByOne(c) ==
  /\ fgets_pc = "key" /\ c = "BS"
  /\ IF cursor_pos > 0
     THEN /\ s' = [i \in 1 .. len - 1 |->
                     IF i <= cursor_pos THEN s[i] ELSE s[i + 1]]
          /\ cursor_pos' = cursor_pos - 1
          /\ term' = Puts(term, <<"BS">> \o SubSeq(s', cursor_pos' + 1, len - 1)
                                  \o <<Blank>>
                                  \o Times(len - cursor_pos + 1, "BS"))
     ELSE UNCHANGED <<s, cursor_pos, term>>
  /\ UNCHANGED fgets_pc

\* The characters behind the cursor move down by one; the rest of the line is
\* drawn again with a blank after it.
backspace(c) ==
  /\ fgets_pc = "key" /\ c = "BS"
  /\ IF cursor_pos > 0
     THEN /\ s' = [i \in 1 .. len - 1 |->
                     IF i < cursor_pos THEN s[i] ELSE s[i + 1]]
          /\ cursor_pos' = cursor_pos - 1
          /\ term' = Puts(term, <<"BS">> \o SubSeq(s', cursor_pos' + 1, len - 1)
                                  \o <<Blank>>
                                  \o Times(len - cursor_pos + 1, "BS"))
     ELSE UNCHANGED <<s, cursor_pos, term>>
  /\ UNCHANGED fgets_pc

insert(c) ==
  /\ fgets_pc = "key" /\ c \in Printable
  /\ IF len < Size - 1
     THEN /\ s' = [i \in 1 .. len + 1 |-> IF i <= cursor_pos THEN s[i]
                                          ELSE IF i = cursor_pos + 1 THEN c
                                          ELSE s[i - 1]]
          /\ cursor_pos' = cursor_pos + 1
          /\ term' = Puts(term, SubSeq(s', cursor_pos + 1, len + 1)
                                  \o Times(len - cursor_pos, "BS"))
     ELSE UNCHANGED <<s, cursor_pos, term>>
  /\ UNCHANGED fgets_pc

fgets(c) ==
  \/ escape(c) \/ arrow_left(c) \/ arrow_right(c)
  \/ enter(c) \/ backspace(c) \/ insert(c)

ConsoleNext == prompt \/ \E c \in Printable \union {"NL", "BS", "ESC"} : fgets(c)

ConsoleSpec == ConsoleInit /\ [][ConsoleNext]_console_vars

-----------------------------------------------------------------------------
(* Properties.                                                             *)

\* The line left and right of the cursor.
LeftText == IF fgets_pc = "prompt" THEN <<>> ELSE SubSeq(s, 1, cursor_pos)
RightText == IF fgets_pc = "prompt" THEN <<>>
             ELSE SubSeq(s, cursor_pos + 1, Len(s))

Editor == INSTANCE LineEditor WITH
            Text <- Printable, left <- LeftText, right <- RightText

\* The array with its shifting loops, len and cursor_pos is a line with a
\* cursor in it: keys insert, delete and move there and nowhere else, and the
\* terminating zero always has room.
EditsAtCursor == Editor!Spec

\* "Visual editing feedback" (docs/lib/STDIO.md:204): after every key, the
\* prompt, the whole line and nothing else stand on the screen from the start
\* of the row, and the terminal's position is that of fgets' cursor.  Cells are
\* counted through the rows, as a wrapped line has them.
ScreenShowsLine ==
  fgets_pc # "prompt" =>
    LET shown == Times(Prompt, ">") \o s
        at    == Prompt + cursor_pos            \* where the cursor belongs
        first == term.y - at \div VGA_WIDTH     \* the row the line begins in
    IN  /\ term.x = at % VGA_WIDTH
        /\ \A k \in 1 .. Len(shown) :
             LET y == first + (k - 1) \div VGA_WIDTH
             IN  y \in Rows => term.cell[y][(k - 1) % VGA_WIDTH] = shown[k]
        /\ \A x \in Columns :
             x >= Len(shown) % VGA_WIDTH =>
               LET y == first + Len(shown) \div VGA_WIDTH
               IN  y \in Rows => term.cell[y][x] = Blank
=============================================================================
