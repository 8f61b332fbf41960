----------------------------- MODULE MCConsole -----------------------------
(* Lines of up to three characters, of which two may be typed by an arrow    *)
(* key gone wrong, on a screen of two rows that scrolls at every line.  The *)
(* line fits behind the prompt.  The library is called with memories of six  *)
(* bytes, numbers of four bits and formats of up to two conversions; as the *)
(* result of a call does not depend on the terminal, calls are made only    *)
(* before the first line.                                                  *)
EXTENDS Console, Library

MCPrintable == {"x", "[", "C", "D"}
MCSize == 4

MCItems ==
  {Plain("char", "a"), Plain("s", NullPointer), Plain("s", <<"b", "c">>),
   Plain("d", -8), Plain("x", -1), Plain("X", 10), Plain("o", 9),
   Plain("u", 0), Plain("p", 11),
   [Plain("s", <<"b", "c">>) EXCEPT !.width = 4, !.prec = 1],
   [Plain("d", 3) EXCEPT !.width = 3, !.zero = TRUE]}

MCFormats == UNION {[1 .. k -> MCItems] : k \in 0 .. 2}

MCInit == ConsoleInit /\ LibraryInit

MCNext ==
  \/ call = NoCall /\ ConsoleNext /\ UNCHANGED call
  \/ ConsoleInit /\ LibraryNext /\ UNCHANGED console_vars

MCSpec == MCInit /\ [][MCNext]_<<console_vars, call>>
=============================================================================
