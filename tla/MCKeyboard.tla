---------------------------- MODULE MCKeyboard ----------------------------
(* Three computers.  One has a letter, and an arrow key, which adds three   *)
(* characters at once, on a ring that holds two.  The others have modifiers *)
(* and no key that prints: a shift key and both control keys, of which the  *)
(* right one has the code of the left one behind a prefix, and both shift   *)
(* keys and caps lock.  The alt keys are treated as the control keys are.  *)
EXTENDS Keyboard

MCComputers ==
  {[keys |-> {"a", "left"}, timer |-> TRUE],
   [keys |-> {"lshift", "lctrl", "rctrl"}, timer |-> FALSE],
   [keys |-> {"lshift", "rshift", "caps"}, timer |-> FALSE]}
===========================================================================
