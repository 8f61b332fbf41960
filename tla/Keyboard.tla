------------------------------ MODULE Keyboard ------------------------------
(***************************************************************************)
(* The PS/2 keyboard driver (drivers/input/keyboard/ps2.c), the interrupt  *)
(* path it is called from (kernel/hardware/interrupts.c) and its reader,   *)
(* getchar (lib/stdio.c), with the keyboard, its controller and the        *)
(* interrupt controller around them.                                       *)
(*                                                                         *)
(* A section under kb_lock is one step: no handler runs inside it (module  *)
(* Spinlock).  A handler runs with interrupts off from its entry to iretq, *)
(* so the mainline stands still meanwhile, but the hardware does not.      *)
(***************************************************************************)
EXTENDS Naturals, Sequences

CONSTANTS
  Computers,        \* what the kernel may boot on: [keys, timer], the keys of
                    \* the keyboard and whether the firmware left IRQ0
                    \* unmasked (pic_remap keeps the masks)
  KB_BUFFER_SIZE,
  FifoSize          \* scancodes the keyboard holds back

ASSUME KeyboardAssumption ==
  /\ KB_BUFFER_SIZE \in Nat \ {0, 1}
  /\ FifoSize \in Nat
  /\ \A m \in Computers : m.timer \in BOOLEAN /\ "E0" \notin m.keys

VARIABLES
  down, fifo,       \* the keyboard: keys held down, scancodes not yet sent
  obf,              \* the controller's output byte, <<>> or <<scancode>>
  irr, isr,         \* the PIC's request and in-service bits of IRQ1
  cpu,              \* "main", or a point in the interrupt path
  shift_pressed, ctrl_pressed, alt_pressed, capslock_active, extended_key,
  kb_buffer, kb_buffer_start, kb_buffer_end,
  pc,               \* the mainline: where it is in getchar
  last,             \* what the last keyboard_getchar returned
  computer          \* the one this is; it stays

device == <<down, fifo, obf, irr, isr>>
flags == <<shift_pressed, ctrl_pressed, alt_pressed, capslock_active,
           extended_key>>
ring == <<kb_buffer, kb_buffer_start, kb_buffer_end>>
vars == <<down, fifo, obf, irr, isr, cpu, flags, ring, pc, last>>

-----------------------------------------------------------------------------
(* Scancodes.  A key sends its code when pressed and again, marked, when   *)
(* released; the keys of Extended send the prefix E0 first and share their *)
(* codes with other keys.                                                  *)

E0 == [code |-> "E0", up |-> FALSE]

Extended == {"rctrl", "ralt", "left", "right", "up"}

CodeOf(k) == IF k = "rctrl" THEN "lctrl" ELSE IF k = "ralt" THEN "lalt" ELSE k

Bytes(k, up) ==
  (IF k \in Extended THEN <<E0>> ELSE <<>>)
    \o <<[code |-> CodeOf(k), up |-> up]>>

Letters == {"a", "b"}
Printing == Letters \union {"2"}

\* scancode_to_ascii and its shifted twin, the case change and the control
\* characters: a character is its key and what was done to it.
Translate(code) ==
  LET c == IF shift_pressed THEN <<"shift", code>>
           ELSE IF capslock_active /\ code \in Letters THEN <<"shift", code>>
           ELSE <<"plain", code>>
  IN  IF ctrl_pressed /\ c \in {<<"plain", l>> : l \in Letters}
      THEN <<"ctrl", code>> ELSE c

ESC == <<"plain", "ESC">>
Arrow(code) == <<ESC, <<"plain", "[">>, <<"arrow", code>> >>

Char == ({"plain", "shift", "ctrl"} \X Printing)
          \union {ESC, <<"plain", "[">>}
          \union ({"arrow"} \X {"left", "right"})

-----------------------------------------------------------------------------
(* The ring buffer.                                                        *)

Succ(n) == (n + 1) % KB_BUFFER_SIZE

\* Faulty: no test for a full ring.
kb_buffer_add_Overrun(r, c) ==
  [buf |-> [r.buf EXCEPT ![r.end] = c], end |-> Succ(r.end)]

\* The buffer and its end index after one character.
kb_buffer_add(r, c) ==
  IF Succ(r.end) # kb_buffer_start
  THEN [buf |-> [r.buf EXCEPT ![r.end] = c], end |-> Succ(r.end)]
  ELSE r

Here == [buf |-> kb_buffer, end |-> kb_buffer_end]

Store(r) == /\ kb_buffer' = r.buf
            /\ kb_buffer_end' = r.end
            /\ UNCHANGED kb_buffer_start

Init ==
  /\ down = {} /\ fifo = <<>> /\ obf = <<>>
  /\ irr = FALSE /\ isr = FALSE
  /\ cpu = "main"
  /\ shift_pressed = FALSE /\ ctrl_pressed = FALSE /\ alt_pressed = FALSE
  /\ capslock_active = FALSE /\ extended_key = FALSE
  /\ kb_buffer = [n \in 0 .. KB_BUFFER_SIZE - 1 |-> ESC]
  /\ kb_buffer_start = 0 /\ kb_buffer_end = 0
  /\ pc = "idle"
  /\ computer \in Computers
  /\ last = ESC

-----------------------------------------------------------------------------
(* The hardware.                                                           *)

\* A key goes down, or repeats.
press(k) ==
  /\ Len(fifo) + Len(Bytes(k, FALSE)) <= FifoSize
  /\ down' = down \union {k}
  /\ fifo' = fifo \o Bytes(k, FALSE)
  /\ UNCHANGED <<obf, irr, isr, cpu, flags, ring, pc, last>>

release(k) ==
  /\ k \in down
  /\ Len(fifo) + Len(Bytes(k, TRUE)) <= FifoSize
  /\ down' = down \ {k}
  /\ fifo' = fifo \o Bytes(k, TRUE)
  /\ UNCHANGED <<obf, irr, isr, cpu, flags, ring, pc, last>>

\* The controller takes the next scancode once the last one was read, and
\* raises IRQ1.
controller ==
  /\ obf = <<>> /\ fifo # <<>>
  /\ obf' = <<Head(fifo)>>
  /\ fifo' = Tail(fifo)
  /\ irr' = TRUE
  /\ UNCHANGED <<down, isr, cpu, flags, ring, pc, last>>

\* An interrupt ends hlt.
Woken == IF pc = "halted" THEN "available" ELSE pc

irq1 ==
  /\ cpu = "main"
  /\ irr /\ ~ isr
  /\ irr' = FALSE /\ isr' = TRUE
  /\ cpu' = "handler"
  /\ pc' = Woken
  /\ UNCHANGED <<down, fifo, obf, flags, ring, last>>

\* IRQ0 has no handler: irq_handler only acknowledges it.
irq0 ==
  /\ computer.timer
  /\ cpu = "main"
  /\ pc' = Woken
  /\ UNCHANGED <<device, cpu, flags, ring, last>>

-----------------------------------------------------------------------------
(* keyboard_irq_handler, one operator per early return, b the scancode.    *)

prefix(b) ==
  /\ b = E0
  /\ extended_key' = TRUE
  /\ UNCHANGED <<shift_pressed, ctrl_pressed, alt_pressed, capslock_active,
                 ring>>

\* Faulty: the prefix is forgotten only when a key goes down.
released_KeepsPrefix(b) ==
  /\ b.up
  /\ shift_pressed' = (shift_pressed /\ b.code \notin {"lshift", "rshift"})
  /\ ctrl_pressed' = (ctrl_pressed /\ b.code # "lctrl")
  /\ alt_pressed' = (alt_pressed /\ b.code # "lalt")
  /\ UNCHANGED <<extended_key, capslock_active, ring>>

released(b) ==
  /\ b.up
  /\ shift_pressed' = (shift_pressed /\ b.code \notin {"lshift", "rshift"})
  /\ ctrl_pressed' = (ctrl_pressed /\ b.code # "lctrl")
  /\ alt_pressed' = (alt_pressed /\ b.code # "lalt")
  /\ extended_key' = FALSE
  /\ UNCHANGED <<capslock_active, ring>>

handle_extended_key(b) ==
  /\ b # E0 /\ ~ b.up /\ extended_key
  /\ extended_key' = FALSE
  /\ IF b.code \in {"left", "right"}
     THEN LET seq == Arrow(b.code)
          IN Store(kb_buffer_add(kb_buffer_add(kb_buffer_add(
                     Here, seq[1]), seq[2]), seq[3]))
     ELSE UNCHANGED ring
  /\ UNCHANGED <<shift_pressed, ctrl_pressed, alt_pressed, capslock_active>>

modifier(b) ==
  /\ b # E0 /\ ~ b.up /\ ~ extended_key
  /\ b.code \in {"lshift", "rshift", "lctrl", "lalt", "caps"}
  /\ shift_pressed' = (shift_pressed \/ b.code \in {"lshift", "rshift"})
  /\ ctrl_pressed' = (ctrl_pressed \/ b.code = "lctrl")
  /\ alt_pressed' = (alt_pressed \/ b.code = "lalt")
  /\ capslock_active' = (capslock_active # (b.code = "caps"))
  /\ UNCHANGED <<extended_key, ring>>

\* Function keys, and codes past the end of the tables, add nothing.
character(b) ==
  /\ b # E0 /\ ~ b.up /\ ~ extended_key
  /\ b.code \notin {"lshift", "rshift", "lctrl", "lalt", "caps"}
  /\ IF b.code \in Printing
     THEN Store(kb_buffer_add(Here, Translate(b.code)))
     ELSE UNCHANGED ring
  /\ UNCHANGED flags

keyboard_irq_handler ==
  /\ cpu = "handler"
  /\ obf # <<>>
  /\ \/ prefix(obf[1])
     \/ released(obf[1])
     \/ handle_extended_key(obf[1])
     \/ modifier(obf[1])
     \/ character(obf[1])
  /\ obf' = <<>>
  /\ cpu' = "eoi"
  /\ UNCHANGED <<down, fifo, irr, isr, pc, last>>

\* Faulty: no end of interrupt for a handled IRQ.
pic_send_eoi_Missing ==
  /\ cpu = "eoi"
  /\ cpu' = "main"
  /\ UNCHANGED <<device, flags, ring, pc, last>>

\* irq_handler acknowledges the interrupt and the stub returns.
pic_send_eoi ==
  /\ cpu = "eoi"
  /\ isr' = FALSE
  /\ cpu' = "main"
  /\ UNCHANGED <<down, fifo, obf, irr, flags, ring, pc, last>>

-----------------------------------------------------------------------------
(* The mainline: getchar, and keyboard_flush between two calls of it.      *)

getchar ==
  /\ cpu = "main" /\ pc = "idle"
  /\ pc' = "available"
  /\ UNCHANGED <<device, cpu, flags, ring, last>>

\* Faulty: the indices are compared as if the ring never wrapped.
keyboard_available_NoWrap ==
  /\ cpu = "main" /\ pc = "available"
  /\ pc' = IF kb_buffer_start < kb_buffer_end THEN "get" ELSE "hlt"
  /\ UNCHANGED <<device, cpu, flags, ring, last>>

keyboard_available ==
  /\ cpu = "main" /\ pc = "available"
  /\ pc' = IF kb_buffer_start # kb_buffer_end THEN "get" ELSE "hlt"
  /\ UNCHANGED <<device, cpu, flags, ring, last>>

hlt ==
  /\ cpu = "main" /\ pc = "hlt"
  /\ pc' = "halted"
  /\ UNCHANGED <<device, cpu, flags, ring, last>>

\* Nobody else reads, so the ring is not empty here and the result not -1.
keyboard_getchar ==
  /\ cpu = "main" /\ pc = "get"
  /\ kb_buffer_start # kb_buffer_end
  /\ last' = kb_buffer[kb_buffer_start]
  /\ kb_buffer_start' = Succ(kb_buffer_start)
  /\ pc' = "idle"
  /\ UNCHANGED <<device, cpu, flags, kb_buffer, kb_buffer_end>>

keyboard_flush ==
  /\ cpu = "main" /\ pc = "idle"
  /\ kb_buffer_start' = 0 /\ kb_buffer_end' = 0
  /\ UNCHANGED <<device, cpu, flags, kb_buffer, pc, last>>

Next ==
  /\ UNCHANGED computer
  /\ \/ \E k \in computer.keys : press(k) \/ release(k)
     \/ controller \/ irq1 \/ irq0
     \/ keyboard_irq_handler \/ pic_send_eoi
     \/ getchar \/ keyboard_available \/ hlt \/ keyboard_getchar
     \/ keyboard_flush

Spec == Init /\ [][Next]_<<vars, computer>>

\* The controller and the PIC deliver what they have, the timer, if it is not
\* masked, keeps ticking, and a handler runs to its end.  Scancodes come a
\* thousand times slower than instructions, so handlers leave the mainline time
\* to run: it is interrupted again and again, but it gets on.  Nobody has to
\* type.
Fairness ==
  /\ WF_vars(controller)
  /\ SF_vars(irq1) /\ SF_vars(irq0)
  /\ WF_vars(keyboard_irq_handler) /\ WF_vars(pic_send_eoi)
  /\ SF_vars(keyboard_available) /\ SF_vars(hlt) /\ SF_vars(keyboard_getchar)

FairSpec == Spec /\ Fairness

-----------------------------------------------------------------------------
(* Properties.                                                             *)

\* The characters in the ring, the oldest first.
Buffered ==
  [n \in 1 .. (kb_buffer_end + KB_BUFFER_SIZE - kb_buffer_start)
                % KB_BUFFER_SIZE
     |-> kb_buffer[(kb_buffer_start + n - 1) % KB_BUFFER_SIZE]]

Queue == INSTANCE KeyQueue WITH
           Capacity <- KB_BUFFER_SIZE - 1, MaxAdd <- 3, q <- Buffered

\* The ring with its two indices is a bounded first-in first-out queue: across
\* wrap-around, a full ring and handlers that interrupt getchar anywhere,
\* keyboard_getchar returns the oldest character that kb_buffer_add accepted,
\* once, and a full ring drops new characters, never old ones.
FirstInFirstOut == Queue!Spec

\* Once every scancode was handled, no modifier is on that nobody holds down,
\* and no prefix is left over that would swallow the next key.
NothingStuck ==
  fifo = <<>> /\ obf = <<>> =>
    /\ shift_pressed => down \intersect {"lshift", "rshift"} # {}
    /\ ctrl_pressed => "lctrl" \in down
    /\ alt_pressed => "lalt" \in down
    /\ ~ extended_key

\* Every scancode is read: the handshake of controller, PIC and handler (which
\* must read the port and acknowledge) never locks up.
ScancodeTaken == (obf # <<>>) ~> (obf = <<>>)

\* getchar returns once a character is buffered, even one that arrived after
\* it looked and before it halted: the next tick of the timer wakes it.  (With
\* the timer masked such a character waits for the next key.)
GetcharReturns ==
  (computer.timer /\ pc # "idle" /\ kb_buffer_start # kb_buffer_end)
    ~> pc = "idle"

=============================================================================
