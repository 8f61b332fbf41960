---------------------------- MODULE InputProofs ----------------------------
(***************************************************************************)
(* The way of a key, from the interrupt to the screen.  The keyboard's     *)
(* ring buffer, its interrupt handler and its reader implement the queue   *)
(* of module KeyQueue, for a ring of any size, any keyboard and every      *)
(* interleaving of handler and reader.  fgets' array implements the line   *)
(* of module LineEditor, for a buffer of any size, and the screen shows    *)
(* that line as long as it fits its row.                                   *)
(***************************************************************************)
EXTENDS Keyboard, Console, Integers, WellFoundedInduction, TLAPS

-----------------------------------------------------------------------------
(* The ring.                                                               *)

N == KB_BUFFER_SIZE

\* How far the index e is ahead of z on the ring.
Ahead(z, e) == (e + N - z) % N

\* Indices and contents of the ring; what the two tests of the code decide.
RingOK ==
  /\ kb_buffer_start \in 0 .. N - 1 /\ kb_buffer_end \in 0 .. N - 1
  /\ kb_buffer \in [0 .. N - 1 -> Char]

-----------------------------------------------------------------------------
(* Arithmetic on the ring.                                                 *)

\* The remainder of a number below 2N.
LEMMA Wrap ==
  ASSUME NEW n \in Nat \ {0}, NEW x \in Nat, x < 2 * n
  PROVE  x % n = IF x < n THEN x ELSE x - n
<1>1. CASE x < n
  BY <1>1
<1>2. CASE x >= n
  <2>1. PICK y \in Nat : y = x - n
    BY <1>2
  <2>2. y < n /\ x = 1 * n + y
    BY <2>1
  <2> QED BY <1>2, <2>1, <2>2
<1> QED BY <1>1, <1>2

LEMMA NType == N \in Nat /\ N > 1
BY KeyboardAssumption DEF N

\* Going one on.
LEMMA SuccIs ==
  ASSUME NEW e \in 0 .. N - 1
  PROVE  Succ(e) = IF e = N - 1 THEN 0 ELSE e + 1
<1> DEFINE x == e + 1
<1>1. N \in Nat \ {0} /\ x \in Nat /\ x < 2 * N
  BY NType
<1>2. x % N = IF x < N THEN x ELSE x - N
  <2> HIDE DEF x
  <2> QED BY <1>1, Wrap, Zenon
<1>3. Succ(e) = x % N
  BY Zenon DEF Succ, N
<1> QED BY <1>1, <1>2, <1>3

\* The distance of two indices.
LEMMA AheadIs ==
  ASSUME NEW z \in 0 .. N - 1, NEW e \in 0 .. N - 1
  PROVE  Ahead(z, e) = IF z <= e THEN e - z ELSE e + N - z
<1> DEFINE x == e + N - z
<1>1. N \in Nat \ {0} /\ x \in Nat /\ x < 2 * N
  BY NType
<1>2. x % N = IF x < N THEN x ELSE x - N
  <2> HIDE DEF x
  <2> QED BY <1>1, Wrap, Zenon
<1> QED BY <1>1, <1>2 DEF Ahead

\* The cell j after the start.
LEMMA CellIs ==
  ASSUME NEW z \in 0 .. N - 1, NEW j \in 1 .. N
  PROVE  (z + j - 1) % N = IF z + j - 1 < N THEN z + j - 1 ELSE z + j - 1 - N
<1> DEFINE x == z + j - 1
<1>1. N \in Nat \ {0} /\ x \in Nat /\ x < 2 * N
  BY NType
<1>2. x % N = IF x < N THEN x ELSE x - N
  <2> HIDE DEF x
  <2> QED BY <1>1, Wrap, Zenon
<1> QED BY <1>1, <1>2

-----------------------------------------------------------------------------
(* Adding characters.                                                      *)

Rings == [buf : [0 .. N - 1 -> Char], end : 0 .. N - 1]

\* The characters of the ring r, which are read from z on.
Text(z, r) == [j \in 1 .. Ahead(z, r.end) |-> r.buf[(z + j - 1) % N]]

\* t is r with up to n characters behind.
Longer(z, r, t, n) ==
  /\ t \in Rings
  /\ Ahead(z, r.end) <= Ahead(z, t.end) /\ Ahead(z, t.end) <= Ahead(z, r.end) + n
  /\ \A j \in 1 .. Ahead(z, r.end) : Text(z, t)[j] = Text(z, r)[j]

\* The ring never holds more than N - 1 characters.
LEMMA AheadType ==
  ASSUME NEW z \in 0 .. N - 1, NEW e \in 0 .. N - 1
  PROVE  Ahead(z, e) \in 0 .. N - 1
BY AheadIs, NType

\* kb_buffer_add leaves the characters that are there alone.
LEMMA AddOne ==
  ASSUME RingOK, NEW r \in Rings, NEW c \in Char
  PROVE  Longer(kb_buffer_start, r, kb_buffer_add(r, c), 1)
<1> DEFINE z == kb_buffer_start
           e == r.end
           t == kb_buffer_add(r, c)
<1>1. z \in 0 .. N - 1 /\ e \in 0 .. N - 1 /\ r.buf \in [0 .. N - 1 -> Char]
  BY Zenon DEF RingOK, Rings
<1>2. Ahead(z, e) \in 0 .. N - 1
  BY <1>1, AheadType, Zenon
<1>3. CASE Succ(e) = z
  <2>1. t = r
    BY <1>3, Zenon DEF kb_buffer_add
  <2> QED BY <1>2, <2>1, NType DEF Longer
<1>4. CASE Succ(e) # z
  <2>1. t = [buf |-> [r.buf EXCEPT ![e] = c], end |-> Succ(e)]
    BY <1>4, Zenon DEF kb_buffer_add
  <2>2. Succ(e) \in 0 .. N - 1
    BY <1>1, SuccIs, NType
  <2>3. t \in Rings
    BY <1>1, <2>1, <2>2 DEF Rings
  <2>4. Ahead(z, Succ(e)) = Ahead(z, e) + 1
    <3>1. Succ(e) = IF e = N - 1 THEN 0 ELSE e + 1
      BY <1>1, SuccIs, Zenon
    <3>2. Ahead(z, e) = IF z <= e THEN e - z ELSE e + N - z
      BY <1>1, AheadIs, Zenon
    <3>3. Ahead(z, Succ(e)) = IF z <= Succ(e) THEN Succ(e) - z ELSE Succ(e) + N - z
      BY <1>1, <2>2, AheadIs, Zenon
    <3> HIDE DEF z, e
    <3> QED BY <1>1, <1>4, <3>1, <3>2, <3>3, NType
  <2>5. ASSUME NEW j \in 1 .. Ahead(z, e)
        PROVE  Text(z, t)[j] = Text(z, r)[j]
    <3>1. j \in 1 .. N
      BY <1>2, NType
    <3>2. (z + j - 1) % N # e /\ (z + j - 1) % N \in 0 .. N - 1
      <4>1. Ahead(z, e) = IF z <= e THEN e - z ELSE e + N - z
        BY <1>1, AheadIs, Zenon
      <4>2. (z + j - 1) % N = IF z + j - 1 < N THEN z + j - 1 ELSE z + j - 1 - N
        BY <1>1, <3>1, CellIs, Zenon
      <4> HIDE DEF z, e
      <4> QED BY <1>1, <2>5, <3>1, <4>1, <4>2, NType
    <3>3. t.buf[(z + j - 1) % N] = r.buf[(z + j - 1) % N]
      BY <1>1, <2>1, <3>2
    <3>4. j \in 1 .. Ahead(z, t.end)
      BY <1>2, <2>1, <2>4
    <3> QED BY <3>3, <3>4, Zenon DEF Text
  <2> QED BY <1>2, <2>1, <2>3, <2>4, <2>5 DEF Longer
<1> QED BY <1>3, <1>4, Zenon

\* One addition after another.
LEMMA LongerTrans ==
  ASSUME NEW z \in 0 .. N - 1, NEW r \in Rings, NEW t, NEW u,
         NEW m \in Nat, NEW n \in Nat, Longer(z, r, t, m), Longer(z, t, u, n)
  PROVE  Longer(z, r, u, m + n)
<1>1. /\ Ahead(z, r.end) \in Nat /\ Ahead(z, t.end) \in Nat
      /\ Ahead(z, u.end) \in Nat
  BY AheadType, NType DEF Longer, Rings
<1> QED BY <1>1 DEF Longer
-----------------------------------------------------------------------------
(* The ring and the queue.                                                 *)

\* What the ring holds is the queue.
LEMMA BufferedIs == Buffered = Text(kb_buffer_start, Here)
BY Zenon DEF Buffered, Text, Here, Ahead, N

LEMMA HereType == RingOK => Here \in Rings
BY Zenon DEF RingOK, Rings, Here

\* It is a sequence of characters.
LEMMA TextType ==
  ASSUME NEW z \in 0 .. N - 1, NEW r \in Rings
  PROVE  /\ Text(z, r) \in Seq(Char) /\ Len(Text(z, r)) = Ahead(z, r.end)
         /\ Ahead(z, r.end) \in 0 .. N - 1
<1> DEFINE a == Ahead(z, r.end)
<1>1. a \in 0 .. N - 1
  BY AheadType, Zenon DEF Rings
<1>2. ASSUME NEW j \in 1 .. a PROVE r.buf[(z + j - 1) % N] \in Char
  <2>1. j \in 1 .. N
    BY <1>1, NType
  <2>2. (z + j - 1) % N \in 0 .. N - 1
    BY <2>1, CellIs, NType
  <2> QED BY <2>2, Zenon DEF Rings
<1>3. Text(z, r) = [j \in 1 .. a |-> r.buf[(z + j - 1) % N]]
  BY Zenon DEF Text
<1>4. a \in Nat
  BY <1>1
<1> HIDE DEF a
<1>5. Text(z, r) \in [1 .. a -> Char]
  BY <1>2, <1>3, Zenon
<1> QED BY <1>1, <1>4, <1>5 DEF a

\* Characters that the handler stores are added to the queue, as many as there
\* is room for.
LEMMA StorePuts ==
  ASSUME RingOK, NEW r, Longer(kb_buffer_start, Here, r, 3), Store(r), UNCHANGED last
  PROVE  RingOK' /\ (Queue!PutSome \/ UNCHANGED <<Buffered, last>>)
<1> DEFINE z == kb_buffer_start
<1>1. RingOK' /\ z' = z /\ Here' = r
  <2>1. r = [buf |-> r.buf, end |-> r.end]
    BY Zenon DEF Longer, Rings
  <2> QED BY <2>1, Zenon DEF RingOK, Longer, Rings, Store, Here
<1>2. Buffered = Text(z, Here) /\ Buffered' = Text(z, r)
  <2>1. Buffered' = Text(z', Here')
    BY Zenon DEF Buffered, Text, Here, Ahead, N
  <2> QED BY <1>1, <2>1, BufferedIs, Zenon
<1>3. /\ Buffered \in Seq(Char) /\ Buffered' \in Seq(Char)
      /\ Len(Buffered) = Ahead(z, Here.end) /\ Len(Buffered') = Ahead(z, r.end)
      /\ Len(Buffered) \in 0 .. N - 1 /\ Len(Buffered') \in 0 .. N - 1
      /\ \A j \in 1 .. Len(Buffered) : Buffered'[j] = Buffered[j]
  BY <1>2, HereType, TextType, Zenon DEF RingOK, Longer
<1>4. SubSeq(Buffered', 1, Len(Buffered)) = Buffered
  BY <1>3, NType DEF Longer
<1>5. CASE Len(Buffered') = Len(Buffered)
  <2>1. Buffered' = Buffered
    BY <1>3, <1>5
  <2> QED BY <1>1, <2>1, Zenon
<1>6. CASE Len(Buffered') # Len(Buffered)
  <2>1. PICK n \in 1 .. 3 : Len(Buffered') = Len(Buffered) + n
    <3>1. Len(Buffered') - Len(Buffered) \in 1 .. 3
      BY <1>3, <1>6, NType DEF Longer
    <3> QED BY <1>3, <3>1
  <2>2. Len(Buffered') <= KB_BUFFER_SIZE - 1
    BY <1>3, NType DEF N
  <2> QED BY <1>1, <1>4, <2>1, <2>2, Zenon DEF Queue!PutSome
<1> QED BY <1>5, <1>6, Zenon

\* keyboard_getchar takes the head of the queue.
LEMMA GetcharGets ==
  ASSUME RingOK, keyboard_getchar
  PROVE  RingOK' /\ Queue!Get
<1> DEFINE z == kb_buffer_start
           e == kb_buffer_end
<1>0. z \in 0 .. N - 1 /\ e \in 0 .. N - 1 /\ z # e
  BY Zenon DEF RingOK, keyboard_getchar
<1>1. /\ z' = Succ(z) /\ e' = e /\ kb_buffer' = kb_buffer
      /\ last' = kb_buffer[z]
  BY Zenon DEF keyboard_getchar
<1>2. Succ(z) \in 0 .. N - 1
  BY <1>0, SuccIs, NType
<1>3. RingOK'
  BY <1>1, <1>2, Zenon DEF RingOK
<1>4. Here' = Here /\ Here \in Rings /\ Here.end = e /\ Here.buf = kb_buffer
  BY <1>1, HereType, Zenon DEF Here
<1>5. Buffered = Text(z, Here) /\ Buffered' = Text(Succ(z), Here)
  <2>1. Buffered' = Text(z', Here')
    BY Zenon DEF Buffered, Text, Here, Ahead, N
  <2> QED BY <1>1, <1>4, <2>1, BufferedIs, Zenon
<1>6. Ahead(z, e) = Ahead(Succ(z), e) + 1
  <2>1. Succ(z) = IF z = N - 1 THEN 0 ELSE z + 1
    BY <1>0, SuccIs, Zenon
  <2>2. Ahead(z, e) = IF z <= e THEN e - z ELSE e + N - z
    BY <1>0, AheadIs, Zenon
  <2>3. Ahead(Succ(z), e) = IF Succ(z) <= e THEN e - Succ(z) ELSE e + N - Succ(z)
    BY <1>0, <1>2, AheadIs, Zenon
  <2> HIDE DEF z, e
  <2> QED BY <1>0, <2>1, <2>2, <2>3, NType
<1>7. /\ Buffered \in Seq(Char) /\ Buffered' \in Seq(Char)
      /\ Len(Buffered) = Len(Buffered') + 1 /\ Len(Buffered) \in 0 .. N - 1
  BY <1>0, <1>2, <1>4, <1>5, <1>6, TextType, Zenon
<1>8. ASSUME NEW j \in 1 .. Len(Buffered') PROVE Buffered'[j] = Buffered[j + 1]
  <2>1. j \in 1 .. N /\ j + 1 \in 1 .. N
    BY <1>7, NType
  <2>2. (Succ(z) + j - 1) % N = (z + (j + 1) - 1) % N
    <3>1. Succ(z) = IF z = N - 1 THEN 0 ELSE z + 1
      BY <1>0, SuccIs, Zenon
    <3>2. (Succ(z) + j - 1) % N =
            IF Succ(z) + j - 1 < N THEN Succ(z) + j - 1 ELSE Succ(z) + j - 1 - N
      BY <1>2, <2>1, CellIs, Zenon
    <3>3. (z + (j + 1) - 1) % N =
            IF z + (j + 1) - 1 < N THEN z + (j + 1) - 1 ELSE z + (j + 1) - 1 - N
      BY <1>0, <2>1, CellIs, Zenon
    <3> HIDE DEF z, e
    <3> QED BY <1>0, <1>2, <2>1, <3>1, <3>2, <3>3, NType
  <2>3. j \in 1 .. Ahead(Succ(z), e) /\ j + 1 \in 1 .. Ahead(z, e)
    <3>1. Len(Buffered') = Ahead(Succ(z), e) /\ Ahead(Succ(z), e) \in Nat
      BY <1>2, <1>4, <1>5, TextType, NType
    <3> QED BY <1>6, <3>1
  <2>4. Buffered'[j] = kb_buffer[(Succ(z) + j - 1) % N]
    BY <1>4, <1>5, <2>3, Zenon DEF Text
  <2>5. Buffered[j + 1] = kb_buffer[(z + (j + 1) - 1) % N]
    BY <1>4, <1>5, <2>3, Zenon DEF Text
  <2> QED BY <2>2, <2>4, <2>5, Zenon
<1>9. Buffered # << >> /\ Buffered' = Tail(Buffered)
  <2>1. Len(Buffered) # 0 /\ Len(Tail(Buffered)) = Len(Buffered')
    BY <1>7
  <2> QED BY <1>7, <1>8, <2>1
<1>10. Head(Buffered) = kb_buffer[z]
  <2>1. (z + 1 - 1) % N = z
    BY <1>0, CellIs, NType
  <2>2. 1 \in 1 .. Ahead(z, e)
    <3>1. Len(Buffered) = Ahead(z, e)
      BY <1>0, <1>4, <1>5, TextType, Zenon
    <3> QED BY <1>7, <3>1
  <2> QED BY <1>4, <1>5, <1>7, <2>1, <2>2 DEF Text
<1> QED BY <1>1, <1>3, <1>9, <1>10, Zenon DEF Queue!Get

\* keyboard_flush empties the queue.
LEMMA FlushClears ==
  ASSUME RingOK, keyboard_flush
  PROVE  RingOK' /\ Queue!Clear
<1>1. 0 \in 0 .. N - 1
  BY NType
<1>2. Ahead(0, 0) = 0
  BY <1>1, AheadIs, NType
<1>3. Buffered' = [j \in 1 .. Ahead(0, 0) |-> kb_buffer[(0 + j - 1) % N]]
  BY Zenon DEF keyboard_flush, Buffered, Ahead, N
<1>4. Buffered' = << >>
  BY <1>2, <1>3
<1> QED BY <1>1, <1>4, Zenon DEF keyboard_flush, RingOK, Queue!Clear

-----------------------------------------------------------------------------
(* The handler.                                                            *)

LEMMA TranslateType == \A k \in Printing : Translate(k) \in Char
BY Zenon DEF Translate, Char, Printing, Letters

\* Every scancode adds up to three characters to the queue.
LEMMA HandlerPuts ==
  ASSUME RingOK, keyboard_irq_handler
  PROVE  RingOK' /\ (Queue!PutSome \/ UNCHANGED <<Buffered, last>>)
<1> DEFINE b == obf[1]
           z == kb_buffer_start
<1>1. CASE UNCHANGED ring
  BY <1>1, Zenon DEF keyboard_irq_handler, ring, RingOK, Buffered
<1>2. CASE handle_extended_key(b) /\ b.code \in {"left", "right"}
  <2> DEFINE one == kb_buffer_add(Here, Arrow(b.code)[1])
             two == kb_buffer_add(one, Arrow(b.code)[2])
             three == kb_buffer_add(two, Arrow(b.code)[3])
  <2>1. /\ Arrow(b.code)[1] \in Char /\ Arrow(b.code)[2] \in Char
        /\ Arrow(b.code)[3] \in Char
    BY <1>2, Zenon DEF Arrow, ESC, Char
  <2>2. Here \in Rings /\ z \in 0 .. N - 1
    BY HereType, Zenon DEF RingOK
  <2>3. Longer(z, Here, one, 1)
    BY <2>1, <2>2, AddOne, Zenon
  <2>4. Longer(z, one, two, 1)
    BY <2>1, <2>3, AddOne, Zenon DEF Longer
  <2>5. Longer(z, two, three, 1)
    BY <2>1, <2>4, AddOne, Zenon DEF Longer
  <2>6. Store(three) /\ UNCHANGED last
    BY <1>2, Zenon DEF handle_extended_key, keyboard_irq_handler
  <2> HIDE DEF one, two, three
  <2>7. Longer(z, Here, two, 1 + 1)
    BY <2>2, <2>3, <2>4, LongerTrans, Zenon
  <2>8. Longer(z, Here, three, 1 + 1 + 1)
    BY <2>2, <2>5, <2>7, LongerTrans
  <2> QED BY <2>6, <2>8, StorePuts
<1>3. CASE character(b) /\ b.code \in Printing
  <2> DEFINE r == kb_buffer_add(Here, Translate(b.code))
  <2>1. Longer(z, Here, r, 1)
    BY <1>3, TranslateType, HereType, AddOne, Zenon
  <2>2. Store(r) /\ UNCHANGED last
    BY <1>3, Zenon DEF character, keyboard_irq_handler
  <2> HIDE DEF r
  <2>3. Longer(z, Here, r, 3)
    <3>1. Ahead(z, Here.end) \in 0 .. N - 1 /\ Ahead(z, r.end) \in 0 .. N - 1
      BY <2>1, HereType, AheadType, Zenon DEF RingOK, Rings, Longer
    <3> QED BY <2>1, <3>1, NType DEF Longer
  <2> QED BY <2>2, <2>3, StorePuts, Zenon
<1> QED BY <1>1, <1>2, <1>3, Zenon
        DEF keyboard_irq_handler, prefix, released, handle_extended_key, modifier,
            character

-----------------------------------------------------------------------------
(* The theorem.                                                            *)

LEMMA InitQueue == Init => RingOK /\ Queue!Init
<1> SUFFICES ASSUME Init PROVE RingOK /\ Queue!Init
  BY Zenon
<1>1. 0 \in 0 .. N - 1
  BY NType
<1>2. Ahead(0, 0) = 0
  BY <1>1, AheadIs, NType
<1>3. Buffered = [j \in 1 .. Ahead(0, 0) |-> kb_buffer[(0 + j - 1) % N]]
  BY DEF Init, Buffered, Ahead, N
<1>4. Buffered = << >>
  BY <1>2, <1>3
<1>5. RingOK
  BY <1>1, Zenon DEF Init, RingOK, Char, ESC, N
<1> QED BY <1>4, <1>5, Zenon DEF Queue!Init

\* Every step is one of the queue, or leaves it alone.
LEMMA QueueStep ==
  ASSUME RingOK, [Next]_<<vars, computer>>
  PROVE  RingOK' /\ [Queue!PutSome \/ Queue!Get \/ Queue!Clear]_<<Buffered, last>>
<1>1. CASE keyboard_irq_handler
  BY <1>1, HandlerPuts, Zenon
<1>2. CASE keyboard_getchar
  BY <1>2, GetcharGets, Zenon
<1>3. CASE keyboard_flush
  BY <1>3, FlushClears, Zenon
<1>4. CASE UNCHANGED <<ring, last>>
  BY <1>4, Zenon DEF ring, RingOK, Buffered
<1> QED BY <1>1, <1>2, <1>3, <1>4, Zenon
        DEF Next, vars, press, release, controller, irq1, irq0, pic_send_eoi, getchar,
            keyboard_available, hlt

\* Interrupt handler, ring buffer and reader together are a bounded queue: what
\* kb_buffer_add accepts stays in order behind what was there, no later key
\* overwrites it, and keyboard_getchar returns each character once, oldest
\* first, until keyboard_flush empties the ring.  For a buffer of any size, every
\* set of keys and every interleaving of handler and reader.
THEOREM ImplementsQueue == Spec => FirstInFirstOut
<1>1. RingOK /\ [Next]_<<vars, computer>> =>
        RingOK' /\ [Queue!PutSome \/ Queue!Get \/ Queue!Clear]_<<Buffered, last>>
  BY QueueStep, Zenon
<1> QED BY InitQueue, <1>1, PTL DEF Spec, FirstInFirstOut, Queue!Spec

-----------------------------------------------------------------------------
(* Modifiers.  The scancodes that the handler has yet to see, q, decide    *)
(* what becomes of a modifier.                                             *)

\* Scancode i follows a prefix; ext is extended_key.
Prefixed(q, ext, i) == IF i = 1 THEN ext ELSE q[i - 1] = E0

\* Scancode i turns a modifier off, or on.
Releases(q, i, keys) == q[i].up /\ q[i].code \in keys
Presses(q, ext, i, keys) ==
  ~ q[i].up /\ q[i].code \in keys /\ ~ Prefixed(q, ext, i)

\* Unless one of its keys is held, a modifier that is on, or will be, is turned
\* off by a scancode that comes later.
WillClear(on, keys, held, q, ext) ==
  held \intersect keys = {} =>
    /\ on => \E i \in DOMAIN q : Releases(q, i, keys)
    /\ \A j \in DOMAIN q : Presses(q, ext, j, keys) =>
         \E i \in DOMAIN q : j < i /\ Releases(q, i, keys)

\* A prefix is followed by the scancode it belongs to.
PrefixOK(q, ext) ==
  /\ \A i \in DOMAIN q : q[i] = E0 => i + 1 \in DOMAIN q /\ q[i + 1] # E0
  /\ ext => q # <<>> /\ q[1] # E0

Codes == {"E0"} \union {CodeOf(k) : k \in computer.keys}
Scancodes == [code : Codes, up : BOOLEAN]
Pending == obf \o fifo

DeviceOK ==
  /\ computer \in Computers
  /\ obf \in Seq(Scancodes) /\ Len(obf) <= 1 /\ fifo \in Seq(Scancodes)

Shifts == {"lshift", "rshift"}

ModifierInv ==
  /\ DeviceOK
  /\ PrefixOK(Pending, extended_key)
  /\ WillClear(shift_pressed, Shifts, down, Pending, extended_key)
  /\ WillClear(ctrl_pressed, {"lctrl"}, down, Pending, extended_key)
  /\ WillClear(alt_pressed, {"lalt"}, down, Pending, extended_key)

FlagsOK ==
  /\ shift_pressed \in BOOLEAN /\ ctrl_pressed \in BOOLEAN
  /\ alt_pressed \in BOOLEAN /\ extended_key \in BOOLEAN

\* The handler takes the first scancode b; on is the modifier before, on2 after.
LEMMA HandlerClears ==
  ASSUME NEW S, NEW q \in Seq(S), q # <<>>, NEW r, r = Tail(q), NEW keys, NEW held,
         "E0" \notin keys, NEW on \in BOOLEAN, NEW on2 \in BOOLEAN,
         NEW ext \in BOOLEAN, NEW ext2 \in BOOLEAN, ext2 <=> q[1] = E0,
         on2 => on \/ Presses(q, ext, 1, keys), Releases(q, 1, keys) => ~ on2,
         WillClear(on, keys, held, q, ext)
  PROVE  WillClear(on2, keys, held, r, ext2)
<1>1. /\ Len(r) = Len(q) - 1 /\ Len(q) \in Nat /\ Len(q) > 0
      /\ DOMAIN r = 1 .. Len(q) - 1 /\ DOMAIN q = 1 .. Len(q)
      /\ \A i \in DOMAIN r : r[i] = q[i + 1]
  OBVIOUS
<1>2. \A i \in DOMAIN r : /\ i + 1 \in DOMAIN q
                          /\ Releases(r, i, keys) <=> Releases(q, i + 1, keys)
                          /\ Presses(r, ext2, i, keys) <=> Presses(q, ext, i + 1, keys)
  <2> TAKE i \in DOMAIN r
  <2>1. i \in Nat /\ i >= 1 /\ i + 1 \in DOMAIN q /\ r[i] = q[i + 1]
    BY <1>1
  <2>2. Prefixed(r, ext2, i) <=> Prefixed(q, ext, i + 1)
    <3>1. CASE i = 1
      BY <3>1 DEF Prefixed
    <3>2. CASE i # 1
      BY <1>1, <2>1, <3>2 DEF Prefixed
    <3> QED BY <3>1, <3>2, Zenon
  <2> QED BY <2>1, <2>2, Zenon DEF Releases, Presses
<1>3. \A i \in DOMAIN q : i # 1 => i - 1 \in DOMAIN r /\ (i - 1) + 1 = i
  BY <1>1
<1> SUFFICES ASSUME held \intersect keys = {}
             PROVE  /\ on2 => \E i \in DOMAIN r : Releases(r, i, keys)
                    /\ \A j \in DOMAIN r : Presses(r, ext2, j, keys) =>
                         \E i \in DOMAIN r : j < i /\ Releases(r, i, keys)
  BY Zenon DEF WillClear
<1>4. ASSUME on2 PROVE \E i \in DOMAIN r : Releases(r, i, keys)
  <2>1. 1 \in DOMAIN q
    BY <1>1
  <2>2. PICK i \in DOMAIN q : Releases(q, i, keys) /\ i # 1
    <3>1. CASE on
      BY <1>4, <3>1, Zenon DEF WillClear
    <3>2. CASE Presses(q, ext, 1, keys)
      BY <1>1, <2>1, <3>2 DEF WillClear
    <3> QED BY <1>4, <3>1, <3>2, Zenon
  <2> QED BY <1>2, <1>3, <2>2
<1>5. ASSUME NEW j \in DOMAIN r, Presses(r, ext2, j, keys)
      PROVE  \E i \in DOMAIN r : j < i /\ Releases(r, i, keys)
  <2>1. PICK i \in DOMAIN q : j + 1 < i /\ Releases(q, i, keys)
    BY <1>2, <1>5, Zenon DEF WillClear
  <2>2. i - 1 \in DOMAIN r /\ (i - 1) + 1 = i /\ j < i - 1
    BY <1>1, <2>1
  <2> QED BY <1>2, <2>1, <2>2, Zenon
<1> QED BY <1>4, <1>5, Zenon

\* Two sequences of scancodes, one behind the other.
LEMMA Behind ==
  ASSUME NEW S, NEW q \in Seq(S), NEW t \in Seq(S)
  PROVE  /\ q \o t \in Seq(S) /\ Len(q \o t) = Len(q) + Len(t)
         /\ Len(q) \in Nat /\ Len(t) \in Nat
         /\ DOMAIN (q \o t) = 1 .. Len(q) + Len(t)
         /\ DOMAIN q = 1 .. Len(q) /\ DOMAIN t = 1 .. Len(t)
         /\ \A i \in DOMAIN q : (q \o t)[i] = q[i]
         /\ \A i \in DOMAIN t : (q \o t)[Len(q) + i] = t[i]
OBVIOUS

\* The keyboard adds the scancodes t behind q.
LEMMA KeyClears ==
  ASSUME NEW S, NEW q \in Seq(S), NEW t \in Seq(S), NEW keys, NEW held, NEW held2,
         NEW on \in BOOLEAN, NEW ext \in BOOLEAN, WillClear(on, keys, held, q, ext),
         PrefixOK(q, ext),
         held2 \intersect keys = {} =>
           /\ \A j \in DOMAIN t : ~ Presses(t, FALSE, j, keys)
           /\ held \intersect keys = {} \/ \E i \in DOMAIN t : Releases(t, i, keys)
  PROVE  WillClear(on, keys, held2, q \o t, ext)
<1> DEFINE r == q \o t
           m == Len(q)
<1>1. /\ m \in Nat /\ Len(t) \in Nat /\ DOMAIN r = 1 .. m + Len(t)
      /\ DOMAIN q = 1 .. m /\ DOMAIN t = 1 .. Len(t)
      /\ \A i \in DOMAIN q : r[i] = q[i]
      /\ \A i \in DOMAIN t : r[m + i] = t[i]
  BY Behind
<1>2. q = <<>> <=> m = 0
  OBVIOUS
<1> HIDE DEF r, m
<1>3. \A i \in DOMAIN q : /\ i \in DOMAIN r
                          /\ Releases(r, i, keys) <=> Releases(q, i, keys)
                          /\ Presses(r, ext, i, keys) <=> Presses(q, ext, i, keys)
  BY <1>1 DEF Releases, Presses, Prefixed
<1>4. \A i \in DOMAIN t : /\ m + i \in DOMAIN r
                          /\ Releases(r, m + i, keys) <=> Releases(t, i, keys)
                          /\ Presses(r, ext, m + i, keys) <=> Presses(t, FALSE, i, keys)
  <2> TAKE i \in DOMAIN t
  <2>1. i \in Nat /\ i >= 1 /\ m + i \in DOMAIN r /\ r[m + i] = t[i]
    BY <1>1
  <2>2. Prefixed(r, ext, m + i) <=> Prefixed(t, FALSE, i)
    <3>1. CASE i > 1
      <4>1. i - 1 \in DOMAIN t /\ (m + i) - 1 = m + (i - 1) /\ m + i # 1 /\ i # 1
        BY <1>1, <2>1, <3>1
      <4>2. r[(m + i) - 1] = t[i - 1]
        BY <1>1, <4>1, Zenon
      <4> QED BY <4>1, <4>2, Zenon DEF Prefixed
    <3>2. CASE i = 1 /\ m = 0
      BY <1>2, <3>2 DEF Prefixed, PrefixOK
    <3>3. CASE i = 1 /\ m > 0
      <4>1. m \in DOMAIN q /\ m + 1 \notin DOMAIN q /\ (m + 1) - 1 = m /\ m + 1 # 1
        BY <1>1, <3>3
      <4>2. r[m] # E0
        BY <1>1, <4>1, Zenon DEF PrefixOK
      <4> QED BY <3>3, <4>1, <4>2, Zenon DEF Prefixed
    <3>4. i > 1 \/ (i = 1 /\ m = 0) \/ (i = 1 /\ m > 0)
      BY <1>1, <2>1
    <3> QED BY <3>1, <3>2, <3>3, <3>4, Zenon
  <2> QED BY <2>1, <2>2, Zenon DEF Releases, Presses
<1>5. \A i \in DOMAIN r : i \in DOMAIN q \/ \E k \in DOMAIN t : i = m + k
  <2> TAKE i \in DOMAIN r
  <2>1. i \in DOMAIN q \/ (i - m \in DOMAIN t /\ i = m + (i - m))
    BY <1>1
  <2> QED BY <2>1, Zenon
<1> SUFFICES ASSUME held2 \intersect keys = {}
             PROVE  /\ on => \E i \in DOMAIN r : Releases(r, i, keys)
                    /\ \A j \in DOMAIN r : Presses(r, ext, j, keys) =>
                         \E i \in DOMAIN r : j < i /\ Releases(r, i, keys)
  BY Zenon DEF WillClear, r
<1>6. \A j \in DOMAIN r : Presses(r, ext, j, keys) =>
        j \in DOMAIN q /\ Presses(q, ext, j, keys)
  BY <1>3, <1>4, <1>5, Zenon
<1>7. CASE held \intersect keys = {}
  BY <1>3, <1>6, <1>7, Zenon DEF WillClear
<1>8. CASE \E i \in DOMAIN t : Releases(t, i, keys)
  <2>1. PICK i \in DOMAIN t : Releases(t, i, keys)
    BY <1>8, Zenon
  <2>2. m + i \in DOMAIN r /\ Releases(r, m + i, keys)
    BY <1>4, <2>1, Zenon
  <2>3. \A j \in DOMAIN q : j < m + i
    BY <1>1
  <2> QED BY <1>6, <2>2, <2>3, Zenon
<1> QED BY <1>7, <1>8, Zenon

\* The two or one scancodes of a key.
LEMMA BytesAre ==
  ASSUME NEW k \in computer.keys, computer \in Computers, NEW up \in BOOLEAN
  PROVE  LET t == Bytes(k, up)
             b == [code |-> CodeOf(k), up |-> up]
         IN  /\ t \in Seq(Scancodes) /\ b # E0 /\ E0 \in Scancodes
             /\ k \in Extended => t = <<E0, b>>
             /\ k \notin Extended => t = <<b>> /\ CodeOf(k) = k
<1> DEFINE b == [code |-> CodeOf(k), up |-> up]
<1>1. k # "E0"
  BY KeyboardAssumption, Zenon
<1>2. CodeOf(k) # "E0" /\ CodeOf(k) \in Codes
  BY <1>1, Zenon DEF CodeOf, Codes
<1>3. b # E0 /\ b \in Scancodes /\ E0 \in Scancodes
  BY <1>2, Zenon DEF E0, Scancodes, Codes
<1> HIDE DEF b
<1>4. Bytes(k, up) = (IF k \in Extended THEN <<E0>> ELSE <<>>) \o <<b>>
  BY Zenon DEF Bytes, b
<1>5. CASE k \in Extended
  <2>1. Bytes(k, up) = <<E0, b>>
    <3> DEFINE t == <<E0>> \o <<b>>
    <3>1. <<E0>> \in Seq(Scancodes) /\ <<b>> \in Seq(Scancodes)
      BY <1>3
    <3>2. t \in Seq(Scancodes) /\ Len(t) = 2 /\ t[1] = E0 /\ t[2] = b
      BY <3>1
    <3> HIDE DEF t
    <3>3. t = <<E0, b>>
      BY <3>2
    <3> QED BY <1>4, <1>5, <3>3, Zenon DEF t
  <2> QED BY <1>3, <1>5, <2>1 DEF b
<1>6. CASE k \notin Extended
  <2>1. Bytes(k, up) = <<b>>
    BY <1>4, <1>6
  <2> QED BY <1>3, <1>6, <2>1 DEF b, CodeOf, Extended
<1> QED BY <1>5, <1>6, Zenon

\* A key that is added keeps prefixes and scancodes together.
LEMMA PrefixKeeps ==
  ASSUME NEW S, NEW q \in Seq(S), NEW t \in Seq(S), NEW ext \in BOOLEAN,
         PrefixOK(q, ext), PrefixOK(t, FALSE), t # <<>>, q # <<>> \/ ~ ext
  PROVE  PrefixOK(q \o t, ext)
<1> DEFINE r == q \o t
           m == Len(q)
<1>1. /\ m \in Nat /\ Len(t) \in Nat /\ DOMAIN r = 1 .. m + Len(t)
      /\ DOMAIN q = 1 .. m /\ DOMAIN t = 1 .. Len(t)
      /\ \A i \in DOMAIN q : r[i] = q[i]
      /\ \A i \in DOMAIN t : r[m + i] = t[i]
  BY Behind
<1>2. r # <<>> /\ (q # <<>> => m > 0)
  OBVIOUS
<1> HIDE DEF r, m
<1>3. ASSUME NEW i \in DOMAIN r, r[i] = E0 PROVE i + 1 \in DOMAIN r /\ r[i + 1] # E0
  <2>1. CASE i \in DOMAIN q
    BY <1>1, <1>3, <2>1 DEF PrefixOK
  <2>2. CASE i \notin DOMAIN q
    <3> DEFINE k == i - m
    <3>1. k \in DOMAIN t /\ i = m + k
      BY <1>1, <2>2
    <3>2. t[k] = E0
      BY <1>1, <1>3, <3>1, Zenon
    <3>3. k + 1 \in DOMAIN t /\ t[k + 1] # E0
      BY <3>1, <3>2, Zenon DEF PrefixOK
    <3>4. r[m + (k + 1)] = t[k + 1] /\ m + (k + 1) = i + 1 /\ i + 1 \in DOMAIN r
      BY <1>1, <3>1, <3>3
    <3> QED BY <3>3, <3>4, Zenon
  <2> QED BY <2>1, <2>2, Zenon
<1>4. ext => r[1] # E0
  BY <1>1, <1>2 DEF PrefixOK
<1> QED BY <1>2, <1>3, <1>4, Zenon DEF PrefixOK, r

\* A key goes down or up: its scancodes are added and down is what it is then.
LEMMA KeyInv ==
  ASSUME ModifierInv, NEW k \in computer.keys, NEW up \in BOOLEAN,
         fifo' = fifo \o Bytes(k, up),
         down' = IF up THEN down \ {k} ELSE down \union {k},
         UNCHANGED <<computer, obf, flags>>, FlagsOK
  PROVE  ModifierInv'
<1> DEFINE t == Bytes(k, up)
           b == [code |-> CodeOf(k), up |-> up]
           q == Pending
<1>1. /\ computer \in Computers /\ obf \in Seq(Scancodes) /\ Len(obf) <= 1
      /\ fifo \in Seq(Scancodes) /\ PrefixOK(q, extended_key)
  BY Zenon DEF ModifierInv, DeviceOK
<1>2. /\ t \in Seq(Scancodes) /\ b # E0
      /\ k \in Extended => t = <<E0, b>>
      /\ k \notin Extended => t = <<b>> /\ CodeOf(k) = k
  BY <1>1, BytesAre, Zenon
<1>3. b.code = CodeOf(k) /\ b.up = up /\ E0.code = "E0" /\ ~ E0.up
  BY Zenon DEF E0
<1>4. q \in Seq(Scancodes) /\ Pending' = q \o t
  <2>1. obf \o (fifo \o t) = (obf \o fifo) \o t
    <3> HIDE DEF t
    <3> QED BY <1>1, <1>2
  <2> QED BY <1>1, <2>1 DEF Pending
<1> HIDE DEF t, b, q
<1>5. DeviceOK' /\ Scancodes' = Scancodes
  BY <1>1, <1>2 DEF DeviceOK, Scancodes, Codes, t
<1>6. t # <<>> /\ PrefixOK(t, FALSE)
  <2>1. CASE k \in Extended
    <3>1. t # <<>> /\ DOMAIN t = 1 .. 2 /\ t[1] = E0 /\ t[2] = b
      <4>1. t = <<E0, b>>
        BY <1>2, <2>1, Zenon
      <4> QED BY <4>1
    <3>2. \A i \in DOMAIN t : t[i] = E0 => i = 1
      BY <1>2, <3>1
    <3> QED BY <1>2, <3>1, <3>2 DEF PrefixOK
  <2>2. CASE k \notin Extended
    <3>1. t # <<>> /\ DOMAIN t = 1 .. 1 /\ t[1] = b
      <4>1. t = <<b>>
        BY <1>2, <2>2, Zenon
      <4> QED BY <4>1
    <3> QED BY <1>2, <3>1 DEF PrefixOK
  <2> QED BY <2>1, <2>2, Zenon
<1>7. PrefixOK(q \o t, extended_key)
  BY <1>1, <1>2, <1>4, <1>6, PrefixKeeps, Zenon DEF PrefixOK
<1>8. ASSUME NEW keys, keys \in {Shifts, {"lctrl"}, {"lalt"}}, NEW on \in BOOLEAN,
             WillClear(on, keys, down, q, extended_key)
      PROVE  WillClear(on, keys, down', q \o t, extended_key)
  <2>1. "E0" \notin keys
    BY <1>8 DEF Shifts
  <2>2. ASSUME NEW j \in DOMAIN t, Presses(t, FALSE, j, keys), down' \intersect keys = {}
        PROVE  FALSE
    <3>1. CASE k \in Extended
      <4>1. j \in {1, 2} /\ t[1] = E0 /\ t[2] = b
        BY <1>2, <3>1
      <4> QED BY <1>3, <2>1, <2>2, <4>1 DEF Presses, Prefixed
    <3>2. CASE k \notin Extended
      <4>1. j = 1 /\ t[1] = b /\ CodeOf(k) = k
        BY <1>2, <3>2
      <4>2. ~ up /\ k \in keys
        BY <1>3, <2>2, <4>1, Zenon DEF Presses
      <4> QED BY <2>2, <4>2, Zenon
    <3> QED BY <3>1, <3>2, Zenon
  <2>3. ASSUME down' \intersect keys = {}, down \intersect keys # {}
        PROVE  \E i \in DOMAIN t : Releases(t, i, keys)
    <3>1. up /\ k \in keys
      BY <2>3, Zenon
    <3>2. k \notin Extended
      BY <1>8, <3>1, Zenon DEF Extended, Shifts
    <3>3. 1 \in DOMAIN t /\ t[1] = b /\ CodeOf(k) = k
      BY <1>2, <3>2
    <3> QED BY <1>3, <3>1, <3>3, Zenon DEF Releases
  <2>4. down' \intersect keys = {} =>
          /\ \A j \in DOMAIN t : ~ Presses(t, FALSE, j, keys)
          /\ down \intersect keys = {} \/ \E i \in DOMAIN t : Releases(t, i, keys)
    BY <2>2, <2>3, Zenon
  <2>5. extended_key \in BOOLEAN
    BY Zenon DEF FlagsOK
  <2>6. /\ q \in Seq(Scancodes) /\ t \in Seq(Scancodes) /\ PrefixOK(q, extended_key)
        /\ WillClear(on, keys, down, q, extended_key)
    BY <1>1, <1>2, <1>4, <1>8, Zenon
  <2>7. ASSUME NEW held2,
               held2 \intersect keys = {} =>
                 /\ \A j \in DOMAIN t : ~ Presses(t, FALSE, j, keys)
                 /\ \/ down \intersect keys = {}
                    \/ \E i \in DOMAIN t : Releases(t, i, keys)
        PROVE  WillClear(on, keys, held2, q \o t, extended_key)
    BY <2>5, <2>6, <2>7, KeyClears, Zenon
  <2> QED BY <2>4, <2>7, Zenon
<1>9. /\ WillClear(shift_pressed, Shifts, down', q \o t, extended_key)
      /\ WillClear(ctrl_pressed, {"lctrl"}, down', q \o t, extended_key)
      /\ WillClear(alt_pressed, {"lalt"}, down', q \o t, extended_key)
  BY <1>8, Zenon DEF ModifierInv, FlagsOK, q
<1> QED BY <1>4, <1>5, <1>7, <1>9, Zenon DEF ModifierInv, flags

\* The handler sees the first scancode.
LEMMA HandlerInv ==
  ASSUME ModifierInv, FlagsOK, keyboard_irq_handler, UNCHANGED computer
  PROVE  ModifierInv' /\ FlagsOK'
<1> DEFINE b == obf[1]
<1>1. /\ computer \in Computers /\ obf \in Seq(Scancodes) /\ Len(obf) <= 1
      /\ fifo \in Seq(Scancodes) /\ PrefixOK(Pending, extended_key)
      /\ obf # <<>> /\ obf' = <<>> /\ fifo' = fifo /\ down' = down
  BY Zenon DEF ModifierInv, DeviceOK, keyboard_irq_handler
<1>2. /\ Pending \in Seq(Scancodes) /\ Pending # <<>> /\ Pending[1] = b
      /\ Tail(Pending) = fifo /\ Pending' = fifo
  BY <1>1 DEF Pending
<1>3. 1 \in DOMAIN Pending
  BY <1>2
<1>4. DeviceOK' /\ Scancodes' = Scancodes
  BY <1>1 DEF DeviceOK, Scancodes, Codes
<1>5. extended_key => b # E0
  BY <1>1, <1>2, Zenon DEF PrefixOK
<1> HIDE DEF b
<1>6. /\ extended_key' <=> b = E0
      /\ shift_pressed' => shift_pressed \/ Presses(Pending, extended_key, 1, Shifts)
      /\ ctrl_pressed' => ctrl_pressed \/ Presses(Pending, extended_key, 1, {"lctrl"})
      /\ alt_pressed' => alt_pressed \/ Presses(Pending, extended_key, 1, {"lalt"})
      /\ Releases(Pending, 1, Shifts) => ~ shift_pressed'
      /\ Releases(Pending, 1, {"lctrl"}) => ~ ctrl_pressed'
      /\ Releases(Pending, 1, {"lalt"}) => ~ alt_pressed'
      /\ FlagsOK'
  <2>1. E0.up = FALSE
    BY Zenon DEF E0
  <2>2. CASE prefix(b)
    BY <1>2, <2>1, <2>2, Zenon DEF prefix, Releases, FlagsOK
  <2>3. CASE released(b)
    BY <1>2, <2>1, <2>3, Zenon DEF released, Releases, FlagsOK, Shifts
  <2>4. CASE handle_extended_key(b)
    BY <1>2, <2>1, <2>4, Zenon DEF handle_extended_key, Releases, FlagsOK
  <2>5. CASE modifier(b)
    BY <1>2, <2>1, <2>5, Zenon DEF modifier, Releases, Presses, Prefixed, FlagsOK, Shifts
  <2>6. CASE character(b)
    BY <1>2, <2>1, <2>6, Zenon DEF character, flags, Releases, FlagsOK
  <2> QED BY <2>2, <2>3, <2>4, <2>5, <2>6, Zenon DEF keyboard_irq_handler, b
<1>7. /\ WillClear(shift_pressed', Shifts, down, fifo, extended_key')
      /\ WillClear(ctrl_pressed', {"lctrl"}, down, fifo, extended_key')
      /\ WillClear(alt_pressed', {"lalt"}, down, fifo, extended_key')
  <2>1. "E0" \notin Shifts /\ "E0" \notin {"lctrl"} /\ "E0" \notin {"lalt"}
    BY Zenon DEF Shifts
  <2>2. WillClear(shift_pressed', Shifts, down, fifo, extended_key')
    BY <1>2, <1>6, <2>1, HandlerClears DEF ModifierInv, FlagsOK
  <2>3. WillClear(ctrl_pressed', {"lctrl"}, down, fifo, extended_key')
    BY <1>2, <1>6, <2>1, HandlerClears DEF ModifierInv, FlagsOK
  <2>4. WillClear(alt_pressed', {"lalt"}, down, fifo, extended_key')
    BY <1>2, <1>6, <2>1, HandlerClears DEF ModifierInv, FlagsOK
  <2> QED BY <2>2, <2>3, <2>4, Zenon
<1>8. PrefixOK(fifo, extended_key')
  <2>1. /\ Len(Pending) \in Nat /\ Len(Pending) > 0 /\ Len(fifo) = Len(Pending) - 1
        /\ DOMAIN fifo = 1 .. Len(Pending) - 1 /\ DOMAIN Pending = 1 .. Len(Pending)
        /\ \A i \in DOMAIN fifo : fifo[i] = Pending[i + 1]
    BY <1>2
  <2>2. ASSUME NEW i \in DOMAIN fifo, fifo[i] = E0
        PROVE  i + 1 \in DOMAIN fifo /\ fifo[i + 1] # E0
    <3>1. i + 1 \in DOMAIN Pending /\ Pending[i + 1] = E0
      BY <2>1, <2>2
    <3>2. (i + 1) + 1 \in DOMAIN Pending /\ Pending[(i + 1) + 1] # E0
      BY <1>1, <3>1, Zenon DEF PrefixOK
    <3> QED BY <2>1, <3>2
  <2>3. ASSUME extended_key' PROVE fifo # <<>> /\ fifo[1] # E0
    <3>1. 1 + 1 \in DOMAIN Pending /\ Pending[1 + 1] # E0
      BY <1>1, <1>2, <1>3, <1>6, <2>3, Zenon DEF PrefixOK
    <3>2. 1 \in DOMAIN fifo
      BY <2>1, <3>1
    <3> QED BY <2>1, <3>1, <3>2
  <2> QED BY <2>2, <2>3, Zenon DEF PrefixOK
<1> QED BY <1>1, <1>2, <1>4, <1>6, <1>7, <1>8, Zenon DEF ModifierInv

\* The controller moves a scancode on; the handler still has to see the same ones.
LEMMA ControllerInv ==
  ASSUME ModifierInv, controller, UNCHANGED computer
  PROVE  ModifierInv'
<1>1. /\ computer \in Computers /\ fifo \in Seq(Scancodes)
      /\ obf = <<>> /\ fifo # <<>> /\ obf' = <<Head(fifo)>> /\ fifo' = Tail(fifo)
      /\ UNCHANGED <<down, flags>>
  BY Zenon DEF ModifierInv, DeviceOK, controller
<1>2. /\ Pending = fifo
      /\ <<Head(fifo)>> \in Seq(Scancodes) /\ Tail(fifo) \in Seq(Scancodes)
  BY <1>1 DEF Pending
<1>3. <<Head(fifo)>> \o Tail(fifo) = fifo
  BY <1>1
<1>4. Pending' = Pending
  BY <1>1, <1>2, <1>3, Zenon DEF Pending
<1>5. DeviceOK'
  BY <1>1, <1>2 DEF DeviceOK, Scancodes, Codes
<1> QED BY <1>1, <1>4, <1>5, Zenon DEF ModifierInv, flags

LEMMA ModifierInit == ASSUME Init PROVE ModifierInv /\ FlagsOK
<1>1. Pending = <<>> /\ ~ extended_key
  BY DEF Init, Pending
<1>2. DeviceOK
  BY DEF Init, DeviceOK
<1>3. PrefixOK(Pending, extended_key)
  BY <1>1 DEF PrefixOK
<1>4. \A keys : WillClear(FALSE, keys, down, Pending, extended_key)
  BY <1>1 DEF WillClear
<1> QED BY <1>2, <1>3, <1>4, Zenon DEF Init, ModifierInv, FlagsOK

LEMMA ModifierStep ==
  ASSUME ModifierInv, FlagsOK, [Next]_<<vars, computer>>
  PROVE  ModifierInv' /\ FlagsOK'
<1>1. ASSUME NEW k \in computer.keys, press(k), UNCHANGED computer
      PROVE  ModifierInv' /\ FlagsOK'
  <2>1. ModifierInv'
    BY <1>1, KeyInv, Zenon DEF press
  <2> QED BY <1>1, <2>1, Zenon DEF press, flags, FlagsOK
<1>2. ASSUME NEW k \in computer.keys, release(k), UNCHANGED computer
      PROVE  ModifierInv' /\ FlagsOK'
  <2>1. ModifierInv'
    BY <1>2, KeyInv, Zenon DEF release
  <2> QED BY <1>2, <2>1, Zenon DEF release, flags, FlagsOK
<1>3. CASE controller /\ UNCHANGED computer
  BY <1>3, ControllerInv, Zenon DEF controller, flags, FlagsOK
<1>4. CASE keyboard_irq_handler /\ UNCHANGED computer
  BY <1>4, HandlerInv, Zenon
<1>5. CASE UNCHANGED <<computer, down, fifo, obf, flags>>
  BY <1>5, Zenon DEF ModifierInv, DeviceOK, Scancodes, Codes, Pending, flags, FlagsOK
<1>6. CASE UNCHANGED <<vars, computer>>
  BY <1>5, <1>6, Zenon DEF vars
<1> QED BY <1>1, <1>2, <1>3, <1>4, <1>5, <1>6, Zenon
        DEF Next, irq1, irq0, pic_send_eoi, getchar, keyboard_available, hlt,
            keyboard_getchar, keyboard_flush, device

\* Whatever keys are pressed and released in whatever order, and however far the
\* handler is behind: once it has seen every scancode, no modifier is on that
\* nobody holds down and no prefix is left over.
THEOREM ModifiersFollowKeys == Spec => []NothingStuck
<1>1. ModifierInv /\ FlagsOK => NothingStuck
  <2> SUFFICES ASSUME ModifierInv, FlagsOK, fifo = <<>>, obf = <<>>
               PROVE  NothingStuck
    BY Zenon DEF NothingStuck
  <2>1. Pending = <<>>
    BY DEF Pending
  <2> QED BY <2>1 DEF ModifierInv, NothingStuck, WillClear, PrefixOK, Shifts
<1>2. Init => ModifierInv /\ FlagsOK
  BY ModifierInit, Zenon
<1>3. (ModifierInv /\ FlagsOK) /\ [Next]_<<vars, computer>> =>
        (ModifierInv /\ FlagsOK)'
  BY ModifierStep, Zenon
<1> QED BY <1>1, <1>2, <1>3, PTL DEF Spec

-----------------------------------------------------------------------------
(* The line of fgets.                                                      *)

\* The cursor is in the line, which leaves room for the terminating zero.
LineOK ==
  /\ s \in Seq(Printable) /\ Len(s) < Size
  /\ cursor_pos \in 0 .. Len(s)
  /\ fgets_pc \in {"prompt", "key", "ESC", "ESC["}

\* What stands left and right of a cursor.
Front(q, n) == SubSeq(q, 1, n)
Rest(q, n) == SubSeq(q, n + 1, Len(q))

\* Both parts of a line of n + m characters.
LEMMA PartsAre ==
  ASSUME NEW q \in Seq(Printable), NEW n \in Nat, NEW m \in Nat, Len(q) = n + m
  PROVE  /\ Front(q, n) \in Seq(Printable) /\ Len(Front(q, n)) = n
         /\ \A i \in 1 .. n : Front(q, n)[i] = q[i]
         /\ Rest(q, n) \in Seq(Printable) /\ Len(Rest(q, n)) = m
         /\ \A i \in 1 .. m : Rest(q, n)[i] = q[n + i]
BY DEF Front, Rest

\* Sequences are equal when their characters are.
LEMMA SameSeq ==
  ASSUME NEW a \in Seq(Printable), NEW b \in Seq(Printable), NEW m \in Nat,
         Len(a) = m, Len(b) = m, \A i \in 1 .. m : a[i] = b[i]
  PROVE  a = b
OBVIOUS

\* One character more or less at either end.
LEMMA EndsAre ==
  ASSUME NEW q \in Seq(Printable), NEW c \in Printable
  PROVE  /\ Append(q, c) \in Seq(Printable) /\ Len(Append(q, c)) = Len(q) + 1
         /\ Append(q, c)[Len(q) + 1] = c
         /\ \A i \in 1 .. Len(q) : Append(q, c)[i] = q[i]
         /\ <<c>> \o q \in Seq(Printable) /\ Len(<<c>> \o q) = Len(q) + 1
         /\ (<<c>> \o q)[1] = c
         /\ \A i \in 2 .. Len(q) + 1 : (<<c>> \o q)[i] = q[i - 1]
<1>1. /\ Append(q, c) \in Seq(Printable) /\ Len(Append(q, c)) = Len(q) + 1
      /\ Append(q, c)[Len(q) + 1] = c
      /\ \A i \in 1 .. Len(q) : Append(q, c)[i] = q[i]
  OBVIOUS
<1>2. /\ <<c>> \o q \in Seq(Printable) /\ Len(<<c>> \o q) = Len(q) + 1
      /\ (<<c>> \o q)[1] = c
      /\ \A i \in 2 .. Len(q) + 1 : (<<c>> \o q)[i] = q[i - 1]
  OBVIOUS
<1> QED BY <1>1, <1>2, Zenon

\* The line without its first character, and without its last.
LEMMA TailIs ==
  ASSUME NEW q \in Seq(Printable), NEW m \in Nat, Len(q) = m + 1
  PROVE  /\ Tail(q) \in Seq(Printable) /\ Len(Tail(q)) = m
         /\ \A i \in 1 .. m : Tail(q)[i] = q[i + 1]
OBVIOUS

LEMMA FrontIs ==
  ASSUME NEW q \in Seq(Printable), NEW m \in Nat, Len(q) = m + 1
  PROVE  /\ SubSeq(q, 1, m) \in Seq(Printable) /\ Len(SubSeq(q, 1, m)) = m
         /\ \A i \in 1 .. m : SubSeq(q, 1, m)[i] = q[i]
OBVIOUS

LEMMA InitLine == ConsoleInit => LineOK
BY ConsoleAssumption DEF ConsoleInit, LineOK

\* The steps of the editor, with what stands left and right of the cursor as
\* q and r, q2 and r2 after the step.
Inserts(q, r, q2, r2) == \E c \in Printable : /\ Len(q) + Len(r) + 1 < Size
                                             /\ q2 = Append(q, c) /\ r2 = r
Deletes(q, r, q2, r2) ==
  q # <<>> /\ q2 = SubSeq(q, 1, Len(q) - 1) /\ r2 = r
GoesLeft(q, r, q2, r2) ==
  q # <<>> /\ q2 = SubSeq(q, 1, Len(q) - 1) /\ r2 = <<q[Len(q)]>> \o r
GoesRight(q, r, q2, r2) ==
  r # <<>> /\ q2 = Append(q, r[1]) /\ r2 = Tail(r)

\* Taking out the character before the cursor.
LEMMA DeleteAt ==
  ASSUME NEW q \in Seq(Printable), NEW n \in 1 .. Len(q),
         NEW q2 \in Seq(Printable), Len(q2) = Len(q) - 1,
         \A i \in 1 .. Len(q) - 1 : q2[i] = IF i < n THEN q[i] ELSE q[i + 1]
  PROVE  Deletes(Front(q, n), Rest(q, n), Front(q2, n - 1), Rest(q2, n - 1))
<1>0. PICK k \in Nat, m \in Nat :
        n \in Nat /\ n = k + 1 /\ Len(q) = n + m /\ Len(q2) = k + m
  <2>1. n \in Nat /\ n - 1 \in Nat /\ Len(q) - n \in Nat /\ n = (n - 1) + 1
        /\ Len(q) = n + (Len(q) - n) /\ Len(q2) = (n - 1) + (Len(q) - n)
    OBVIOUS
  <2> QED BY <2>1, Zenon
<1>1. /\ Front(q, n) \in Seq(Printable) /\ Len(Front(q, n)) = n
      /\ \A i \in 1 .. n : Front(q, n)[i] = q[i]
      /\ Rest(q, n) \in Seq(Printable) /\ Len(Rest(q, n)) = m
      /\ \A i \in 1 .. m : Rest(q, n)[i] = q[n + i]
  BY <1>0, PartsAre
<1>2. /\ Front(q2, k) \in Seq(Printable) /\ Len(Front(q2, k)) = k
      /\ \A i \in 1 .. k : Front(q2, k)[i] = q2[i]
      /\ Rest(q2, k) \in Seq(Printable) /\ Len(Rest(q2, k)) = m
      /\ \A i \in 1 .. m : Rest(q2, k)[i] = q2[k + i]
  BY <1>0, PartsAre, Zenon
<1>3. /\ \A i \in 1 .. k : q2[i] = q[i]
      /\ \A i \in 1 .. m : q2[k + i] = q[n + i]
  BY <1>0
<1> DEFINE a == Front(q, n)
           b == SubSeq(a, 1, k)
<1>4. b \in Seq(Printable) /\ Len(b) = k /\ \A i \in 1 .. k : b[i] = a[i]
  BY <1>0, <1>1, FrontIs, Zenon
<1> HIDE DEF b
<1>5. Front(q2, k) = b
  <2>1. \A i \in 1 .. k : Front(q2, k)[i] = b[i]
    <3> SUFFICES ASSUME NEW i \in 1 .. k PROVE Front(q2, k)[i] = b[i]
      BY Zenon
    <3>1. i \in 1 .. n
      BY <1>0
    <3>2. Front(q, n)[i] = q[i]
      BY <1>1, <3>1, Zenon
    <3>3. Front(q2, k)[i] = q2[i]
      BY <1>2, Zenon
    <3>4. q2[i] = q[i]
      BY <1>3, Zenon
    <3>5. b[i] = Front(q, n)[i]
      BY <1>4, Zenon DEF a
    <3> QED BY <3>2, <3>3, <3>4, <3>5, Zenon
  <2> QED BY <1>2, <1>4, <2>1, SameSeq
<1>6. Rest(q2, k) = Rest(q, n)
  <2>1. \A i \in 1 .. m : Rest(q2, k)[i] = Rest(q, n)[i]
    BY <1>1, <1>2, <1>3
  <2> QED BY <1>1, <1>2, <2>1, SameSeq, Zenon
<1>7. a # <<>> /\ Len(a) - 1 = k /\ n - 1 = k
  BY <1>0, <1>1
<1> QED BY <1>5, <1>6, <1>7, Zenon DEF Deletes, b

\* Putting a character in at the cursor.
LEMMA InsertAt ==
  ASSUME NEW q \in Seq(Printable), NEW n \in 0 .. Len(q), NEW c \in Printable,
         NEW q2 \in Seq(Printable), Len(q2) = Len(q) + 1, Len(q) < Size - 1,
         \A i \in 1 .. Len(q) + 1 : q2[i] = IF i <= n THEN q[i]
                                         ELSE IF i = n + 1 THEN c ELSE q[i - 1]
  PROVE  Inserts(Front(q, n), Rest(q, n), Front(q2, n + 1), Rest(q2, n + 1))
<1>0. PICK k \in Nat, m \in Nat :
        n \in Nat /\ k = n + 1 /\ Len(q) = n + m /\ Len(q2) = k + m
  <2>1. n \in Nat /\ n + 1 \in Nat /\ Len(q) - n \in Nat
        /\ Len(q) = n + (Len(q) - n) /\ Len(q2) = (n + 1) + (Len(q) - n)
    OBVIOUS
  <2> QED BY <2>1, Zenon
<1>1. /\ Front(q, n) \in Seq(Printable) /\ Len(Front(q, n)) = n
      /\ \A i \in 1 .. n : Front(q, n)[i] = q[i]
      /\ Rest(q, n) \in Seq(Printable) /\ Len(Rest(q, n)) = m
      /\ \A i \in 1 .. m : Rest(q, n)[i] = q[n + i]
  <2>1. Len(q) = n + m /\ n \in Nat
    BY <1>0, Zenon
  <2> QED BY <2>1, PartsAre, Zenon
<1>2. /\ Front(q2, k) \in Seq(Printable) /\ Len(Front(q2, k)) = k
      /\ \A i \in 1 .. k : Front(q2, k)[i] = q2[i]
      /\ Rest(q2, k) \in Seq(Printable) /\ Len(Rest(q2, k)) = m
      /\ \A i \in 1 .. m : Rest(q2, k)[i] = q2[k + i]
  <2>1. Len(q2) = k + m
    BY <1>0, Zenon
  <2> QED BY <2>1, PartsAre, Zenon
<1>3. /\ \A i \in 1 .. n : q2[i] = q[i]
      /\ q2[k] = c
      /\ \A i \in 1 .. m : q2[k + i] = q[n + i]
  <2>1. \A i \in 1 .. n : q2[i] = q[i]
    BY <1>0
  <2>2. k \in 1 .. Len(q) + 1 /\ k = n + 1 /\ ~(k <= n)
    BY <1>0
  <2>3. q2[k] = c
    BY <2>2, Zenon
  <2>4. \A i \in 1 .. m : q2[k + i] = q[n + i]
    <3> SUFFICES ASSUME NEW i \in 1 .. m PROVE q2[k + i] = q[n + i]
      BY Zenon
    <3>1. k + i \in 1 .. Len(q) + 1 /\ ~(k + i <= n) /\ k + i # n + 1
          /\ (k + i) - 1 = n + i
      BY <1>0
    <3> QED BY <3>1, Zenon
  <2> QED BY <2>1, <2>3, <2>4, Zenon
<1> DEFINE a == Front(q, n)
           b == Append(a, c)
<1>4. /\ b \in Seq(Printable) /\ Len(b) = k /\ b[k] = c
      /\ \A i \in 1 .. n : b[i] = a[i]
  BY <1>0, <1>1, EndsAre
<1> HIDE DEF b
<1>5. Front(q2, k) = b
  <2>1. \A i \in 1 .. k : (i \in 1 .. n \/ i = k) /\ k \in 1 .. k
    BY <1>0
  <2>2. \A i \in 1 .. k : Front(q2, k)[i] = b[i]
    <3> SUFFICES ASSUME NEW i \in 1 .. k PROVE Front(q2, k)[i] = b[i]
      BY Zenon
    <3>1. Front(q2, k)[i] = q2[i]
      BY <1>2, Zenon
    <3>2. CASE i = k
      <4>1. q2[k] = c /\ b[k] = c
        BY <1>3, <1>4, Zenon
      <4> QED BY <3>1, <3>2, <4>1, Zenon
    <3>3. CASE i \in 1 .. n
      <4>1. Front(q, n)[i] = q[i]
        BY <1>1, <3>3, Zenon
      <4>2. q2[i] = q[i]
        BY <1>3, <3>3, Zenon
      <4>3. b[i] = Front(q, n)[i]
        BY <1>4, <3>3, Zenon DEF a
      <4> QED BY <3>1, <4>1, <4>2, <4>3, Zenon
    <3> QED BY <2>1, <3>2, <3>3, Zenon
  <2> QED BY <1>2, <1>4, <2>2, SameSeq, Zenon
<1>6. Rest(q2, k) = Rest(q, n)
  <2>1. \A i \in 1 .. m : Rest(q2, k)[i] = Rest(q, n)[i]
    BY <1>1, <1>2, <1>3
  <2> QED BY <1>1, <1>2, <2>1, SameSeq, Zenon
<1>7. Len(a) + Len(Rest(q, n)) + 1 < Size
  BY <1>0, <1>1, ConsoleAssumption
<1> QED BY <1>0, <1>5, <1>6, <1>7, Zenon DEF Inserts, b

\* The cursor one to the left of n: the character at n changes sides.
LEMMA CursorMoves ==
  ASSUME NEW q \in Seq(Printable), NEW n \in 1 .. Len(q)
  PROVE  /\ GoesLeft(Front(q, n), Rest(q, n), Front(q, n - 1), Rest(q, n - 1))
         /\ GoesRight(Front(q, n - 1), Rest(q, n - 1), Front(q, n), Rest(q, n))
<1>0. PICK k \in Nat, m \in Nat, l \in Nat :
        n \in Nat /\ n = k + 1 /\ l = m + 1 /\ Len(q) = n + m /\ Len(q) = k + l
  <2>1. n \in Nat /\ n - 1 \in Nat /\ Len(q) - n \in Nat /\ n = (n - 1) + 1
        /\ Len(q) - n + 1 \in Nat /\ Len(q) = n + (Len(q) - n)
        /\ Len(q) = (n - 1) + (Len(q) - n + 1)
    OBVIOUS
  <2> QED BY <2>1, Zenon
<1>1. /\ Front(q, n) \in Seq(Printable) /\ Len(Front(q, n)) = n
      /\ \A i \in 1 .. n : Front(q, n)[i] = q[i]
      /\ Rest(q, n) \in Seq(Printable) /\ Len(Rest(q, n)) = m
      /\ \A i \in 1 .. m : Rest(q, n)[i] = q[n + i]
  BY <1>0, PartsAre
<1>2. /\ Front(q, k) \in Seq(Printable) /\ Len(Front(q, k)) = k
      /\ \A i \in 1 .. k : Front(q, k)[i] = q[i]
      /\ Rest(q, k) \in Seq(Printable) /\ Len(Rest(q, k)) = l
      /\ \A i \in 1 .. l : Rest(q, k)[i] = q[k + i]
  <2>1. Len(q) = k + l
    BY <1>0, Zenon
  <2> QED BY <2>1, PartsAre, Zenon
<1> DEFINE a == Front(q, n)
           b == Rest(q, n)
           a2 == Front(q, k)
           b2 == Rest(q, k)
<1>11. /\ a \in Seq(Printable) /\ Len(a) = n /\ \A i \in 1 .. n : a[i] = q[i]
       /\ b \in Seq(Printable) /\ Len(b) = m /\ \A i \in 1 .. m : b[i] = q[n + i]
  BY <1>1, Zenon
<1>22. /\ a2 \in Seq(Printable) /\ Len(a2) = k /\ \A i \in 1 .. k : a2[i] = q[i]
       /\ b2 \in Seq(Printable) /\ Len(b2) = l /\ \A i \in 1 .. l : b2[i] = q[k + i]
  BY <1>2, Zenon
<1> HIDE DEF a, b, a2, b2
<1>3. q[n] \in Printable /\ n \in 1 .. n /\ a[n] = q[n] /\ a # <<>>
      /\ k + 1 = n /\ 1 \in 1 .. l /\ b2[1] = q[n] /\ b2 # <<>>
  <2>1. q[n] \in Printable /\ n \in 1 .. n /\ 1 \in 1 .. l
    BY <1>0
  <2> QED BY <1>0, <1>11, <1>22, <2>1
<1>4. a2 = SubSeq(a, 1, k)
  <2> DEFINE x == SubSeq(a, 1, k)
  <2>1. x \in Seq(Printable) /\ Len(x) = k /\ \A i \in 1 .. k : x[i] = a[i]
    BY <1>0, <1>11, FrontIs
  <2>2. \A i \in 1 .. k : i \in 1 .. n
    BY <1>0
  <2> HIDE DEF x
  <2>3. \A i \in 1 .. k : a2[i] = x[i]
    BY <1>11, <1>22, <2>1, <2>2, Zenon
  <2>4. a2 = x
    BY <1>22, <2>1, <2>3, SameSeq, Zenon
  <2> QED BY <2>4, Zenon DEF x
<1>5. b2 = <<q[n]>> \o b
  <2> DEFINE x == <<q[n]>> \o b
  <2>1. /\ x \in Seq(Printable) /\ Len(x) = l /\ x[1] = q[n]
        /\ \A i \in 2 .. l : x[i] = b[i - 1]
    BY <1>0, <1>11, <1>3, EndsAre, Zenon
  <2> HIDE DEF x
  <2>2. \A i \in 2 .. l : x[i] = b2[i]
    <3> SUFFICES ASSUME NEW i \in 2 .. l PROVE x[i] = b2[i]
      BY Zenon
    <3>1. i - 1 \in 1 .. m /\ n + (i - 1) = k + i /\ i \in 1 .. l
      BY <1>0
    <3>2. x[i] = b[i - 1] /\ b[i - 1] = q[n + (i - 1)] /\ b2[i] = q[k + i]
      BY <1>11, <1>22, <2>1, <3>1, Zenon
    <3> QED BY <3>1, <3>2, Zenon
  <2>3. \A i \in 1 .. l : i = 1 \/ i \in 2 .. l
    BY <1>0
  <2>4. \A i \in 1 .. l : b2[i] = x[i]
    BY <1>3, <2>1, <2>2, <2>3, Zenon
  <2>5. b2 = x
    BY <1>22, <2>1, <2>4, SameSeq, Zenon
  <2> QED BY <2>5, Zenon DEF x
<1>6. a = Append(a2, q[n])
  <2> DEFINE x == Append(a2, q[n])
  <2>1. /\ x \in Seq(Printable) /\ Len(x) = n /\ x[n] = q[n]
        /\ \A i \in 1 .. k : x[i] = a2[i]
    BY <1>0, <1>22, <1>3, EndsAre
  <2>2. \A i \in 1 .. n : i \in 1 .. k \/ i = n
    BY <1>0
  <2> HIDE DEF x
  <2>3. \A i \in 1 .. n : a[i] = x[i]
    BY <1>11, <1>22, <2>1, <2>2, Zenon
  <2>4. a = x
    BY <1>0, <1>11, <2>1, <2>3, SameSeq
  <2> QED BY <2>4, Zenon DEF x
<1>7. b = Tail(b2)
  <2> DEFINE x == Tail(b2)
  <2>1. x \in Seq(Printable) /\ Len(x) = m /\ \A i \in 1 .. m : x[i] = b2[i + 1]
    BY <1>0, <1>22, TailIs
  <2> HIDE DEF x
  <2>2. \A i \in 1 .. m : b[i] = x[i]
    <3> SUFFICES ASSUME NEW i \in 1 .. m PROVE b[i] = x[i]
      BY Zenon
    <3>1. i + 1 \in 1 .. l /\ k + (i + 1) = n + i
      BY <1>0
    <3>2. x[i] = b2[i + 1] /\ b[i] = q[n + i] /\ b2[i + 1] = q[k + (i + 1)]
      BY <1>11, <1>22, <2>1, <3>1, Zenon
    <3> QED BY <3>1, <3>2, Zenon
  <2>3. b = x
    BY <1>11, <2>1, <2>2, SameSeq, Zenon
  <2> QED BY <2>3, Zenon DEF x
<1>8. n - 1 = k
  BY <1>0
<1>9. Len(a) = n
  BY <1>11, Zenon
<1> QED BY <1>3, <1>4, <1>5, <1>6, <1>7, <1>8, <1>9, Zenon DEF GoesLeft, GoesRight, a, b, a2, b2

-----------------------------------------------------------------------------
(* The actions of fgets.                                                   *)

\* Where fgets is in its loop, the line is cut at the cursor.
LEMMA LoopText ==
  /\ fgets_pc # "prompt" =>
       LeftText = Front(s, cursor_pos) /\ RightText = Rest(s, cursor_pos)
  /\ fgets_pc' # "prompt" =>
       LeftText' = Front(s', cursor_pos') /\ RightText' = Rest(s', cursor_pos')
BY Zenon DEF LeftText, RightText, Front, Rest

\* The new line is empty, as the one handed over was left.
LEMMA PromptLine ==
  ASSUME LineOK, prompt
  PROVE  LineOK' /\ UNCHANGED <<LeftText, RightText>>
<1>1. s' = <<>> /\ cursor_pos' = 0 /\ fgets_pc = "prompt" /\ fgets_pc' = "key"
  BY Zenon DEF prompt
<1>2. Size \in Nat /\ 0 < Size
  BY ConsoleAssumption
<1>3. LineOK'
  BY <1>1, <1>2 DEF LineOK
<1>4. SubSeq(<<>>, 1, 0) = <<>>
  OBVIOUS
<1>5. LeftText = <<>> /\ RightText = <<>> /\ LeftText' = <<>> /\ RightText' = <<>>
  BY <1>1, <1>4 DEF LeftText, RightText
<1> QED BY <1>3, <1>5, Zenon

\* Half an arrow key changes nothing.
LEMMA EscapeLine ==
  ASSUME LineOK, NEW c, escape(c)
  PROVE  LineOK' /\ UNCHANGED <<LeftText, RightText>>
<1>1. /\ s' = s /\ cursor_pos' = cursor_pos
      /\ fgets_pc \in {"key", "ESC", "ESC["} /\ fgets_pc' \in {"key", "ESC", "ESC["}
  BY Zenon DEF escape
<1> QED BY <1>1, Zenon DEF LineOK, LeftText, RightText

LEMMA EnterLine ==
  ASSUME LineOK, NEW c, enter(c)
  PROVE  LineOK' /\ Editor!Enter
<1>1. s' = s /\ cursor_pos' = cursor_pos /\ fgets_pc' = "prompt"
  BY Zenon DEF enter
<1>2. LineOK'
  BY <1>1, Zenon DEF LineOK
<1>3. Editor!Enter
  BY <1>1, Zenon DEF Editor!Enter, LeftText, RightText
<1> QED BY <1>2, <1>3, Zenon

\* Arrow keys move the cursor, or do nothing at the ends of the line.
LEMMA LeftLine ==
  ASSUME LineOK, NEW c, arrow_left(c)
  PROVE  LineOK' /\ (Editor!ArrowLeft \/ UNCHANGED <<LeftText, RightText>>)
<1>1. s' = s /\ fgets_pc = "ESC[" /\ fgets_pc' = "key"
  BY Zenon DEF arrow_left
<1>2. CASE cursor_pos > 0
  <2>1. cursor_pos' = cursor_pos - 1
    BY <1>2, Zenon DEF arrow_left
  <2>2. cursor_pos \in 1 .. Len(s) /\ s \in Seq(Printable)
    BY <1>2 DEF LineOK
  <2>3. LineOK'
    BY <1>1, <2>1, <2>2 DEF LineOK
  <2>4. GoesLeft(Front(s, cursor_pos), Rest(s, cursor_pos),
                 Front(s, cursor_pos - 1), Rest(s, cursor_pos - 1))
    BY <2>2, CursorMoves, Zenon
  <2>5. GoesLeft(LeftText, RightText, LeftText', RightText')
    BY <1>1, <2>1, <2>4, LoopText, Zenon
  <2>6. Editor!ArrowLeft
    BY <2>5, Zenon DEF GoesLeft, Editor!ArrowLeft
  <2> QED BY <2>3, <2>6, Zenon
<1>3. CASE ~(cursor_pos > 0)
  <2>1. cursor_pos' = cursor_pos
    BY <1>3, Zenon DEF arrow_left
  <2> QED BY <1>1, <2>1, Zenon DEF LineOK, LeftText, RightText
<1> QED BY <1>2, <1>3, Zenon

LEMMA RightLine ==
  ASSUME LineOK, NEW c, arrow_right(c)
  PROVE  LineOK' /\ (Editor!ArrowRight \/ UNCHANGED <<LeftText, RightText>>)
<1>1. s' = s /\ fgets_pc = "ESC[" /\ fgets_pc' = "key"
  BY Zenon DEF arrow_right
<1>2. CASE cursor_pos < len
  <2>1. cursor_pos' = cursor_pos + 1
    BY <1>2, Zenon DEF arrow_right
  <2>2. /\ s \in Seq(Printable) /\ cursor_pos + 1 \in 1 .. Len(s)
        /\ (cursor_pos + 1) - 1 = cursor_pos
    BY <1>2 DEF LineOK, len
  <2>3. LineOK'
    BY <1>1, <2>1, <2>2 DEF LineOK
  <2>4. GoesRight(Front(s, cursor_pos), Rest(s, cursor_pos),
                  Front(s, cursor_pos + 1), Rest(s, cursor_pos + 1))
    <3>1. \A n \in 1 .. Len(s) : GoesRight(Front(s, n - 1), Rest(s, n - 1),
                                           Front(s, n), Rest(s, n))
      BY <2>2, CursorMoves, Zenon
    <3> QED BY <2>2, <3>1, Zenon
  <2>5. GoesRight(LeftText, RightText, LeftText', RightText')
    BY <1>1, <2>1, <2>4, LoopText, Zenon
  <2>6. Editor!ArrowRight
    BY <2>5, Zenon DEF GoesRight, Editor!ArrowRight
  <2> QED BY <2>3, <2>6, Zenon
<1>3. CASE ~(cursor_pos < len)
  <2>1. cursor_pos' = cursor_pos
    BY <1>3, Zenon DEF arrow_right
  <2> QED BY <1>1, <2>1, Zenon DEF LineOK, LeftText, RightText
<1> QED BY <1>2, <1>3, Zenon

\* The array after a shift, as a sequence.
LEMMA ShiftDown ==
  ASSUME LineOK, NEW c, backspace(c), cursor_pos > 0
  PROVE  /\ s' \in Seq(Printable) /\ Len(s') = Len(s) - 1
         /\ \A i \in 1 .. Len(s) - 1 :
              s'[i] = IF i < cursor_pos THEN s[i] ELSE s[i + 1]
         /\ cursor_pos' = cursor_pos - 1
<1> DEFINE q == [i \in 1 .. Len(s) - 1 |-> IF i < cursor_pos THEN s[i] ELSE s[i + 1]]
<1>1. s' = q /\ cursor_pos' = cursor_pos - 1
  BY Zenon DEF backspace, len
<1>2. /\ q \in Seq(Printable) /\ Len(q) = Len(s) - 1
      /\ \A i \in 1 .. Len(s) - 1 : q[i] = IF i < cursor_pos THEN s[i] ELSE s[i + 1]
  BY DEF LineOK
<1> HIDE DEF q
<1> QED BY <1>1, <1>2, Zenon

LEMMA ShiftUp ==
  ASSUME LineOK, NEW c, insert(c), len < Size - 1
  PROVE  /\ s' \in Seq(Printable) /\ Len(s') = Len(s) + 1
         /\ \A i \in 1 .. Len(s) + 1 :
              s'[i] = IF i <= cursor_pos THEN s[i]
                      ELSE IF i = cursor_pos + 1 THEN c ELSE s[i - 1]
         /\ cursor_pos' = cursor_pos + 1 /\ c \in Printable
<1> DEFINE q == [i \in 1 .. Len(s) + 1 |-> IF i <= cursor_pos THEN s[i]
                   ELSE IF i = cursor_pos + 1 THEN c ELSE s[i - 1]]
<1>1. s' = q /\ cursor_pos' = cursor_pos + 1 /\ c \in Printable
  BY Zenon DEF insert, len
<1>2. /\ q \in Seq(Printable) /\ Len(q) = Len(s) + 1
      /\ \A i \in 1 .. Len(s) + 1 :
           q[i] = IF i <= cursor_pos THEN s[i]
                  ELSE IF i = cursor_pos + 1 THEN c ELSE s[i - 1]
  BY <1>1 DEF LineOK
<1> HIDE DEF q
<1> QED BY <1>1, <1>2, Zenon

\* The shifting loops are the deletion and the insertion of module LineEditor.
LEMMA BackspaceLine ==
  ASSUME LineOK, NEW c, backspace(c)
  PROVE  LineOK' /\ (Editor!Backspace \/ UNCHANGED <<LeftText, RightText>>)
<1>1. fgets_pc = "key" /\ fgets_pc' = "key"
  BY Zenon DEF backspace
<1>2. CASE cursor_pos > 0
  <2>1. /\ s' \in Seq(Printable) /\ Len(s') = Len(s) - 1
        /\ \A i \in 1 .. Len(s) - 1 :
             s'[i] = IF i < cursor_pos THEN s[i] ELSE s[i + 1]
        /\ cursor_pos' = cursor_pos - 1
    BY <1>2, ShiftDown, Zenon
  <2>2. cursor_pos \in 1 .. Len(s) /\ s \in Seq(Printable)
    BY <1>2 DEF LineOK
  <2>3. LineOK'
    BY <1>1, <2>1, <2>2, ConsoleAssumption DEF LineOK
  <2>4. Deletes(Front(s, cursor_pos), Rest(s, cursor_pos),
                Front(s', cursor_pos - 1), Rest(s', cursor_pos - 1))
    BY <2>1, <2>2, DeleteAt, Zenon
  <2>5. Deletes(LeftText, RightText, LeftText', RightText')
    BY <1>1, <2>1, <2>4, LoopText, Zenon
  <2>6. Editor!Backspace
    BY <2>5, Zenon DEF Deletes, Editor!Backspace
  <2> QED BY <2>3, <2>6, Zenon
<1>3. CASE ~(cursor_pos > 0)
  <2>1. s' = s /\ cursor_pos' = cursor_pos
    BY <1>3, Zenon DEF backspace
  <2> QED BY <1>1, <2>1, Zenon DEF LineOK, LeftText, RightText
<1> QED BY <1>2, <1>3, Zenon

LEMMA InsertLine ==
  ASSUME LineOK, NEW c, insert(c)
  PROVE  LineOK' /\ (Editor!Insert \/ UNCHANGED <<LeftText, RightText>>)
<1>1. fgets_pc = "key" /\ fgets_pc' = "key"
  BY Zenon DEF insert
<1>2. CASE len < Size - 1
  <2>1. /\ s' \in Seq(Printable) /\ Len(s') = Len(s) + 1
        /\ \A i \in 1 .. Len(s) + 1 :
             s'[i] = IF i <= cursor_pos THEN s[i]
                     ELSE IF i = cursor_pos + 1 THEN c ELSE s[i - 1]
        /\ cursor_pos' = cursor_pos + 1 /\ c \in Printable
    BY <1>2, ShiftUp, Zenon
  <2>2. cursor_pos \in 0 .. Len(s) /\ s \in Seq(Printable) /\ Len(s) < Size - 1
    BY <1>2, Zenon DEF LineOK, len
  <2>3. LineOK'
    BY <1>1, <2>1, <2>2, ConsoleAssumption DEF LineOK
  <2>4. Inserts(Front(s, cursor_pos), Rest(s, cursor_pos),
                Front(s', cursor_pos + 1), Rest(s', cursor_pos + 1))
    BY <2>1, <2>2, InsertAt, Zenon
  <2>5. Inserts(LeftText, RightText, LeftText', RightText')
    BY <1>1, <2>1, <2>4, LoopText, Zenon
  <2>6. Editor!Insert
    BY <2>5, Zenon DEF Inserts, Editor!Insert
  <2> QED BY <2>3, <2>6, Zenon
<1>3. CASE ~(len < Size - 1)
  <2>1. s' = s /\ cursor_pos' = cursor_pos
    BY <1>3, Zenon DEF insert
  <2> QED BY <1>1, <2>1, Zenon DEF LineOK, LeftText, RightText
<1> QED BY <1>2, <1>3, Zenon

LEMMA EditorInit == ConsoleInit => LineOK /\ Editor!Init
BY InitLine, Zenon DEF ConsoleInit, Editor!Init, LeftText, RightText

EditorNext == Editor!Insert \/ Editor!Backspace \/ Editor!ArrowLeft
              \/ Editor!ArrowRight \/ Editor!Enter

\* Every step of fgets is a step of the line editor, or none.
LEMMA EditorStep ==
  ASSUME LineOK, [ConsoleNext]_console_vars
  PROVE  LineOK' /\ [EditorNext]_<<LeftText, RightText>>
<1>1. CASE prompt
  BY <1>1, PromptLine, Zenon
<1>2. ASSUME NEW c, fgets(c)
      PROVE  LineOK' /\ [EditorNext]_<<LeftText, RightText>>
  <2>1. CASE escape(c)
    BY <2>1, EscapeLine, Zenon
  <2>2. CASE arrow_left(c)
    BY <2>2, LeftLine, Zenon DEF EditorNext
  <2>3. CASE arrow_right(c)
    BY <2>3, RightLine, Zenon DEF EditorNext
  <2>4. CASE enter(c)
    BY <2>4, EnterLine, Zenon DEF EditorNext
  <2>5. CASE backspace(c)
    BY <2>5, BackspaceLine, Zenon DEF EditorNext
  <2>6. CASE insert(c)
    BY <2>6, InsertLine, Zenon DEF EditorNext
  <2> QED BY <1>2, <2>1, <2>2, <2>3, <2>4, <2>5, <2>6, Zenon DEF fgets
<1>3. CASE UNCHANGED console_vars
  BY <1>3, Zenon DEF console_vars, LineOK, LeftText, RightText
<1> QED BY <1>1, <1>2, <1>3, Zenon DEF ConsoleNext

\* fgets' array with its shifting loops, len and cursor_pos implements the line
\* of module LineEditor, for a buffer of any size: keys insert, delete and move
\* at the cursor and nowhere else, and the terminating zero has room.
THEOREM ImplementsLineEditor == ConsoleSpec => EditsAtCursor
<1>1. LineOK /\ [ConsoleNext]_console_vars
        => LineOK' /\ [Editor!Insert \/ Editor!Backspace \/ Editor!ArrowLeft
                        \/ Editor!ArrowRight \/ Editor!Enter]_<<LeftText, RightText>>
  BY EditorStep, Zenon DEF EditorNext
<1> QED BY EditorInit, <1>1, PTL DEF ConsoleSpec, EditsAtCursor, Editor!Spec

-----------------------------------------------------------------------------
(* The terminal.                                                           *)

\* What cells hold and putchar takes, and the states of the terminal.
Glyphs == Printable \union {Blank, ">"}
Out == Glyphs \union {"NL", "BS"}
Terminals == [cell : [Rows -> [Columns -> Glyphs]], x : Columns, y : Rows]

\* Least numbers, for inductions over a run of characters.
LEMMA LeastIs ==
  ASSUME NEW T \in SUBSET Nat, T # {} PROVE \E x \in T : \A y \in T : x <= y
<1>1. PICK x \in T : \A y \in T : ~ (<<y, x>> \in OpToRel(<, Nat))
  BY NatLessThanWellFounded, WFMin, Zenon
<1>2. ASSUME NEW y \in T PROVE x <= y
  <2>1. x \in Nat /\ y \in Nat /\ ~ (<<y, x>> \in OpToRel(<, Nat))
    BY <1>1, Zenon
  <2> QED BY <2>1 DEF OpToRel
<1> QED BY <1>2, Zenon

\* A run of putchar calls, from the terminal after each of them.
LEMMA PutsIs ==
  ASSUME NEW t, NEW chars \in Seq(Out), NEW f, f[0] = t,
         \A k \in 1 .. Len(chars) : f[k] = putchar(f[k - 1], chars[k])
  PROVE  Puts(t, chars) = f[Len(chars)]
<1> DEFINE n == Len(chars)
           From(h) == [k \in 0 .. n |-> IF k = 0 THEN t ELSE putchar(h[k - 1], chars[k])]
           g == [k \in 0 .. n |-> f[k]]
           a == CHOOSE h : h = From(h)
<1>0. n \in Nat
  OBVIOUS
<1>1. g = From(g)
  <2>1. ASSUME NEW k \in 0 .. n, k # 0
        PROVE  k \in 1 .. n /\ k - 1 \in 0 .. n
    BY <1>0, <2>1
  <2>2. ASSUME NEW k \in 0 .. n
        PROVE  f[k] = IF k = 0 THEN t ELSE putchar(g[k - 1], chars[k])
    <3>1. CASE k = 0
      BY <3>1, Zenon
    <3>2. CASE k # 0
      <4>1. g[k - 1] = f[k - 1] /\ f[k] = putchar(f[k - 1], chars[k])
        BY <2>1, <3>2, Zenon
      <4> HIDE DEF g
      <4> QED BY <3>2, <4>1, Zenon
    <3> QED BY <3>1, <3>2, Zenon
  <2> QED BY <2>2, Zenon
<1>2. a = From(a)
  <2> HIDE DEF From, g
  <2> QED BY <1>1, Zenon
<1>3. Puts(t, chars) = a[n]
  BY Zenon DEF Puts
<1> HIDE DEF a
<1>4. a[0] = t /\ \A k \in 1 .. n : a[k] = putchar(a[k - 1], chars[k])
  <2> HIDE DEF n
  <2>1. 0 \in 0 .. n /\ \A k \in 1 .. n : k \in 0 .. n /\ k # 0
    BY <1>0
  <2>2. \A k \in 0 .. n : a[k] = IF k = 0 THEN t ELSE putchar(a[k - 1], chars[k])
    BY <1>2, Zenon
  <2> QED BY <2>1, <2>2, Zenon
<1> DEFINE Bad == {k \in 0 .. n : a[k] # f[k]}
<1>5. Bad = {}
  <2> SUFFICES ASSUME Bad # {} PROVE FALSE
    BY Zenon
  <2>0. Bad \in SUBSET Nat
    BY <1>0
  <2>1. PICK k \in Bad : \A y \in Bad : k <= y
    <3> HIDE DEF Bad
    <3> QED BY <2>0, LeastIs, Zenon
  <2>2. k \in 0 .. n /\ a[k] # f[k]
    BY <2>1, Zenon
  <2>3. k # 0
    BY <1>4, <2>2, Zenon
  <2>4. k \in 1 .. n /\ k - 1 \in 0 .. n /\ ~(k <= k - 1)
    BY <1>0, <2>2, <2>3
  <2>5. k - 1 \notin Bad
    BY <2>1, <2>4, Zenon
  <2>6. a[k - 1] = f[k - 1]
    BY <2>4, <2>5, Zenon
  <2> QED BY <1>4, <2>2, <2>4, <2>6, Zenon
<1>6. n \in 0 .. n
  BY <1>0
<1>7. a[n] = f[n]
  BY <1>5, <1>6, Zenon
<1> QED BY <1>3, <1>7, Zenon

\* What takes a cell is no control character.
LEMMA GlyphsPrint == \A c \in Glyphs : c # "NL" /\ c # "BS" /\ c \in Out
BY ConsoleAssumption, Zenon DEF Glyphs, Out, Blank

\* putchar within a row.
LEMMA PutBack ==
  ASSUME NEW t \in Terminals, t.x > 0
  PROVE  putchar(t, "BS") = [cell |-> t.cell, x |-> t.x - 1, y |-> t.y]
BY Zenon DEF putchar, Terminals

LEMMA PutGlyph ==
  ASSUME NEW t \in Terminals, NEW c \in Glyphs, t.x + 1 < VGA_WIDTH
  PROVE  putchar(t, c) = [cell |-> [t.cell EXCEPT ![t.y] = [@ EXCEPT ![t.x] = c]],
                          x |-> t.x + 1, y |-> t.y]
<1>1. c # "NL" /\ c # "BS"
  BY GlyphsPrint, Zenon
<1> DEFINE u == [t EXCEPT !.cell[t.y][t.x] = c]
<1>2. putchar(t, c) = term_advance(u)
  BY <1>1, Zenon DEF putchar
<1>3. u = [cell |-> [t.cell EXCEPT ![t.y] = [@ EXCEPT ![t.x] = c]], x |-> t.x, y |-> t.y]
  <2> DEFINE w == [t.cell EXCEPT ![t.y] = [t.cell[t.y] EXCEPT ![t.x] = c]]
  <2>1. u = [t EXCEPT !.cell = w]
    BY Zenon
  <2>2. w = [t.cell EXCEPT ![t.y] = [@ EXCEPT ![t.x] = c]]
    BY Zenon
  <2>3. t.cell \in [Rows -> [Columns -> Glyphs]] /\ t.x \in Columns /\ t.y \in Rows
        /\ t = [cell |-> t.cell, x |-> t.x, y |-> t.y]
    BY Zenon DEF Terminals
  <2> HIDE DEF w, u
  <2>4. u = [cell |-> w, x |-> t.x, y |-> t.y]
    BY <2>1, <2>3, Zenon
  <2> QED BY <2>2, <2>4, Zenon
<1>4. t.x \in Int /\ VGA_WIDTH \in Int /\ u.x = t.x /\ ~(u.x + 1 >= VGA_WIDTH)
  BY <1>3, ConsoleAssumption DEF Terminals, Columns
<1>5. term_advance(u) = [u EXCEPT !.x = u.x + 1]
  <2> HIDE DEF u
  <2> QED BY <1>4, Zenon DEF term_advance
<1> QED BY <1>2, <1>3, <1>5, Zenon

\* The row of the cursor with the n characters chars[b + 1], ... from column x on.
Row(t, x, chars, b, n) ==
  [z \in Columns |-> IF x <= z /\ z < x + n THEN chars[b + (z - x) + 1]
                     ELSE t.cell[t.y][z]]
Drawn(t, x, chars, b, n) == [t.cell EXCEPT ![t.y] = Row(t, x, chars, b, n)]

\* Drawing no character, and one more.
LEMMA DrawnType ==
  ASSUME NEW t \in Terminals, NEW x \in Nat, NEW chars, NEW b \in Nat, NEW n \in Nat,
         \A i \in 1 .. n : chars[b + i] \in Glyphs
  PROVE  Drawn(t, x, chars, b, n) \in [Rows -> [Columns -> Glyphs]]
<1>1. Columns \subseteq Int
  BY DEF Columns
<1>2. ASSUME NEW z \in Columns, x <= z, z < x + n
      PROVE  chars[b + (z - x) + 1] \in Glyphs
  <2>1. (z - x) + 1 \in 1 .. n /\ b + (z - x) + 1 = b + ((z - x) + 1)
    BY <1>1, <1>2
  <2> QED BY <2>1, Zenon
<1>3. Row(t, x, chars, b, n) \in [Columns -> Glyphs]
  BY <1>2, Zenon DEF Row, Terminals
<1> QED BY <1>3, Zenon DEF Drawn, Terminals

LEMMA DrawnNone ==
  ASSUME NEW t \in Terminals, NEW x \in Nat, NEW chars, NEW b \in Nat
  PROVE  Drawn(t, x, chars, b, 0) = t.cell
<1>1. \A z \in Columns : ~(x <= z /\ z < x + 0)
  BY DEF Columns
<1>2. Row(t, x, chars, b, 0) = t.cell[t.y]
  BY <1>1, Zenon DEF Row, Terminals
<1> QED BY <1>2, Zenon DEF Drawn, Terminals

\* The screen e is d with the character c in row y and column x.
Wrote(d, e, y, x, c) == e = [d EXCEPT ![y] = [d[y] EXCEPT ![x] = c]]

LEMMA DrawnMore ==
  ASSUME NEW t \in Terminals, NEW x \in Nat, NEW chars, NEW b \in Nat, NEW n \in Nat,
         x + n \in Columns
  PROVE  Wrote(Drawn(t, x, chars, b, n), Drawn(t, x, chars, b, n + 1),
               t.y, x + n, chars[b + (n + 1)])
<1> DEFINE r == Row(t, x, chars, b, n)
           d == Drawn(t, x, chars, b, n)
<1>1. /\ b + ((x + n) - x) + 1 = b + (n + 1)
      /\ \A z \in Columns : (x <= z /\ z < x + (n + 1)) <=> ((x <= z /\ z < x + n) \/ z = x + n)
      /\ \A z \in Columns : (x <= z /\ z < x + n) => z # x + n
  BY DEF Columns
<1>2. Row(t, x, chars, b, n + 1) = [r EXCEPT ![x + n] = chars[b + (n + 1)]]
  BY <1>1, Zenon DEF Row
<1>3. t.y \in Rows /\ DOMAIN t.cell = Rows /\ d[t.y] = r
  BY Zenon DEF Drawn, Terminals
<1> QED BY <1>2, <1>3, Zenon DEF Drawn, Terminals, Wrote

\* b backspaces, n characters and m backspaces.
Strokes(chars, b, n, m) ==
  /\ chars \in Seq(Out) /\ Len(chars) = b + n + m
  /\ \A i \in 1 .. b : chars[i] = "BS"
  /\ \A i \in 1 .. n : chars[b + i] \in Glyphs
  /\ \A i \in 1 .. m : chars[b + n + i] = "BS"

\* They stay in the row of t, where the characters begin in column x.
Room(t, x, b, n, m) == t.x = x + b /\ x + n < VGA_WIDTH /\ m <= x + n

\* Such a run draws in the row and goes back by m columns.
LEMMA DrawIs ==
  ASSUME NEW t \in Terminals, NEW chars, NEW x \in Nat,
         NEW b \in Nat, NEW n \in Nat, NEW m \in Nat,
         Strokes(chars, b, n, m), Room(t, x, b, n, m)
  PROVE  Puts(t, chars) = [cell |-> Drawn(t, x, chars, b, n), x |-> x + n - m, y |-> t.y]
<1>0. /\ chars \in Seq(Out) /\ Len(chars) = b + n + m
      /\ t.x = x + b /\ x + n < VGA_WIDTH /\ m <= x + n
      /\ \A i \in 1 .. b : chars[i] = "BS"
      /\ \A i \in 1 .. n : chars[b + i] \in Glyphs
      /\ \A i \in 1 .. m : chars[b + n + i] = "BS"
  BY Zenon DEF Strokes, Room
<1> DEFINE At(j, z) == [cell |-> Drawn(t, x, chars, b, j), x |-> z, y |-> t.y]
           f == [k \in 0 .. b + n + m |->
                   IF k <= b THEN At(0, x + b - k)
                   ELSE IF k <= b + n THEN At(k - b, x + (k - b))
                   ELSE At(n, x + n - (k - b - n))]
<1>1. VGA_WIDTH \in Nat /\ t.y \in Rows /\ t.x \in Columns
  BY ConsoleAssumption, Zenon DEF Terminals
<1>2. \A j \in 0 .. n, z \in Columns : At(j, z) \in Terminals
  <2>1. ASSUME NEW j \in 0 .. n PROVE Drawn(t, x, chars, b, j) \in [Rows -> [Columns -> Glyphs]]
    <3>1. j \in Nat /\ \A i \in 1 .. j : i \in 1 .. n
      OBVIOUS
    <3> QED BY <1>0, <3>1, DrawnType, Zenon
  <2> QED BY <1>1, <2>1, Zenon DEF Terminals
<1>3. At(0, x + b) = t
  <2>1. Drawn(t, x, chars, b, 0) = t.cell
    BY DrawnNone, Zenon
  <2> QED BY <1>0, <2>1, Zenon DEF Terminals
<1>4. ASSUME NEW j \in 0 .. n, NEW z \in Columns, z > 0
      PROVE  putchar(At(j, z), "BS") = At(j, z - 1)
  <2> DEFINE u == At(j, z)
  <2>1. u \in Terminals /\ u.x = z /\ u.y = t.y /\ u.cell = Drawn(t, x, chars, b, j)
    BY <1>2, Zenon
  <2> HIDE DEF u
  <2>2. putchar(u, "BS") = [cell |-> u.cell, x |-> u.x - 1, y |-> u.y]
    BY <1>4, <2>1, PutBack, Zenon
  <2> QED BY <2>1, <2>2, Zenon DEF u
<1>5. ASSUME NEW j \in Nat, j < n
      PROVE  putchar(At(j, x + j), chars[b + (j + 1)]) = At(j + 1, x + (j + 1))
  <2> HIDE DEF f, At
  <2>0. x + j \in Columns
    BY <1>0, <1>1, <1>5 DEF Columns
  <2>4. Wrote(Drawn(t, x, chars, b, j), Drawn(t, x, chars, b, j + 1),
              t.y, x + j, chars[b + (j + 1)])
    BY <2>0, DrawnMore, Zenon
  <2> DEFINE u == At(j, x + j)
             c == chars[b + (j + 1)]
             d == Drawn(t, x, chars, b, j)
  <2>1. j \in 0 .. n /\ x + j \in Columns /\ j + 1 \in 1 .. n /\ (x + j) + 1 < VGA_WIDTH
        /\ (x + j) + 1 = x + (j + 1)
    BY <1>0, <1>1, <1>5 DEF Columns
  <2>2. u \in Terminals /\ u.x = x + j /\ u.y = t.y /\ u.cell = d
    BY <1>2, <2>1, Zenon DEF At
  <2>3. c \in Glyphs
    BY <1>0, <2>1, Zenon
  <2> HIDE DEF u, c, d
  <2>5. putchar(u, c) = [cell |-> [u.cell EXCEPT ![u.y] = [@ EXCEPT ![u.x] = c]],
                         x |-> u.x + 1, y |-> u.y]
    BY <2>1, <2>2, <2>3, PutGlyph, Zenon
  <2>6. putchar(u, c) = [cell |-> [d EXCEPT ![t.y] = [@ EXCEPT ![x + j] = c]],
                         x |-> x + (j + 1), y |-> t.y]
    BY <2>1, <2>2, <2>5, Zenon
  <2> QED BY <2>4, <2>6, Zenon DEF u, c, d, At, Wrote
<1>6. f[0] = t
  <2>1. f[0] = At(0, x + b - 0) /\ x + b - 0 = x + b
    OBVIOUS
  <2> HIDE DEF f, At
  <2> QED BY <1>3, <2>1, Zenon
<1> HIDE DEF At
<1>7. ASSUME NEW k \in 1 .. Len(chars) PROVE f[k] = putchar(f[k - 1], chars[k])
  <2>0. k \in Nat /\ k - 1 \in 0 .. b + n + m /\ k \in 0 .. b + n + m
    BY <1>0
  <2>1. CASE k <= b
    <3>1. f[k] = At(0, x + b - k) /\ f[k - 1] = At(0, x + b - (k - 1))
      BY <2>0, <2>1
    <3>2. chars[k] = "BS" /\ 0 \in 0 .. n /\ x + b - (k - 1) \in Columns /\ x + b - (k - 1) > 0
          /\ (x + b - (k - 1)) - 1 = x + b - k
      BY <1>0, <1>1, <2>0, <2>1 DEF Columns
    <3> HIDE DEF f
    <3> QED BY <1>4, <3>1, <3>2, Zenon
  <2>2. CASE b < k /\ k <= b + n
    <3>1. PICK j \in Nat : k = b + (j + 1) /\ j < n
      <4>1. k - b - 1 \in Nat /\ k = b + ((k - b - 1) + 1) /\ k - b - 1 < n
        BY <2>0, <2>2
      <4> QED BY <4>1, Zenon
    <3>2. f[k] = At(j + 1, x + (j + 1))
      <4>1. ~(k <= b) /\ k <= b + n /\ k - b = j + 1
        BY <2>2, <3>1
      <4> QED BY <2>0, <4>1, Zenon
    <3>3. f[k - 1] = At(j, x + j)
      <4>1. CASE j = 0
        <5>1. k - 1 <= b /\ x + b - (k - 1) = x + 0
          BY <3>1, <4>1
        <5> QED BY <2>0, <4>1, <5>1, Zenon
      <4>2. CASE j # 0
        <5>1. ~(k - 1 <= b) /\ k - 1 <= b + n /\ (k - 1) - b = j
          BY <3>1, <4>2
        <5> QED BY <2>0, <5>1, Zenon
      <4> QED BY <4>1, <4>2, Zenon
    <3> HIDE DEF f
    <3> QED BY <1>5, <3>1, <3>2, <3>3, Zenon
  <2>3. CASE k > b + n
    <3>1. f[k] = At(n, x + n - (k - b - n))
      <4>1. ~(k <= b) /\ ~(k <= b + n)
        BY <2>3
      <4> QED BY <2>0, <4>1, Zenon
    <3>2. f[k - 1] = At(n, x + n - (k - 1 - b - n))
      <4>1. CASE k - 1 > b + n
        <5>1. ~(k - 1 <= b) /\ ~(k - 1 <= b + n)
          BY <2>0, <4>1
        <5> QED BY <2>0, <5>1, Zenon
      <4>2. CASE ~(k - 1 > b + n)
        <5>1. k - 1 = b + n /\ x + n - (k - 1 - b - n) = x + n
          BY <2>0, <2>3, <4>2
        <5>2. CASE n = 0
          <6>1. k - 1 <= b /\ x + b - (k - 1) = x + n
            BY <5>1, <5>2
          <6> QED BY <2>0, <5>1, <5>2, <6>1, Zenon
        <5>3. CASE n # 0
          <6>1. ~(k - 1 <= b) /\ k - 1 <= b + n /\ (k - 1) - b = n
            BY <5>1, <5>3
          <6> QED BY <2>0, <5>1, <6>1, Zenon
        <5> QED BY <5>2, <5>3, Zenon
      <4> QED BY <4>1, <4>2, Zenon
    <3>3. k - b - n \in 1 .. m /\ b + n + (k - b - n) = k
      BY <2>0, <2>3
    <3>4. chars[k] = "BS"
      BY <1>0, <3>3, Zenon
    <3> DEFINE z == x + n - (k - 1 - b - n)
    <3>5. n \in 0 .. n /\ z \in Columns /\ z > 0 /\ z - 1 = x + n - (k - b - n)
      BY <1>0, <1>1, <3>3 DEF Columns
    <3> HIDE DEF f, z
    <3>6. putchar(At(n, z), "BS") = At(n, z - 1)
      BY <1>4, <3>5, Zenon
    <3> QED BY <3>1, <3>2, <3>4, <3>5, <3>6, Zenon DEF z
  <2>4. k <= b \/ (b < k /\ k <= b + n) \/ k > b + n
    BY <2>0
  <2> QED BY <2>1, <2>2, <2>3, <2>4, Zenon
<1>8. Puts(t, chars) = f[Len(chars)]
  <2> HIDE DEF f
  <2> QED BY <1>0, <1>6, <1>7, PutsIs, Zenon
<1>9. f[b + n + m] = At(n, x + n - m)
  <2>0. b + n + m \in 0 .. b + n + m
    OBVIOUS
  <2>1. CASE m # 0
    <3>1. ~(b + n + m <= b) /\ ~(b + n + m <= b + n) /\ (b + n + m) - b - n = m
      BY <2>1
    <3> QED BY <2>0, <3>1, Zenon
  <2>2. CASE m = 0 /\ n # 0
    <3>1. ~(b + n + m <= b) /\ b + n + m <= b + n /\ (b + n + m) - b = n /\ x + n - m = x + n
      BY <2>2
    <3> QED BY <2>0, <3>1, Zenon
  <2>3. CASE m = 0 /\ n = 0
    <3>1. b + n + m <= b /\ x + b - (b + n + m) = x + n - m
      BY <2>3
    <3> QED BY <2>0, <2>3, <3>1, Zenon
  <2> QED BY <2>1, <2>2, <2>3, Zenon
<1> HIDE DEF f
<1> QED BY <1>0, <1>8, <1>9, Zenon DEF At

-----------------------------------------------------------------------------
(* What fgets prints.                                                      *)

\* Sequences of characters to print.
LEMMA ConcatIs ==
  ASSUME NEW p \in Seq(Out), NEW q \in Seq(Out)
  PROVE  /\ p \o q \in Seq(Out) /\ Len(p \o q) = Len(p) + Len(q)
         /\ \A i \in 1 .. Len(p) : (p \o q)[i] = p[i]
         /\ \A i \in 1 .. Len(q) : (p \o q)[Len(p) + i] = q[i]
OBVIOUS

LEMMA TimesIs ==
  ASSUME NEW n \in Nat, NEW c \in Out
  PROVE  /\ Times(n, c) \in Seq(Out) /\ Len(Times(n, c)) = n
         /\ \A i \in 1 .. n : Times(n, c)[i] = c
BY DEF Times

LEMMA LineIsOut == ASSUME NEW q \in Seq(Printable) PROVE q \in Seq(Out)
BY DEF Out, Glyphs

LEMMA RestIs ==
  ASSUME NEW q \in Seq(Printable), NEW n \in Nat, NEW k \in Nat, Len(q) = n + k
  PROVE  /\ Rest(q, n) \in Seq(Printable) /\ Len(Rest(q, n)) = k
         /\ \A i \in 1 .. k : Rest(q, n)[i] = q[n + i]
BY DEF Rest

\* The line from the cursor on, and back.
Redraw(q, n, m) == Rest(q, n) \o Times(m, "BS")
LEMMA InsertPrints ==
  ASSUME NEW q \in Seq(Printable), NEW n \in Nat, NEW m \in Nat, NEW k \in Nat,
         Len(q) = n + k
  PROVE  /\ Strokes(Redraw(q, n, m), 0, k, m)
         /\ \A i \in 1 .. k : Redraw(q, n, m)[0 + i] = q[n + i]
<1>0. /\ Rest(q, n) \in Seq(Printable) /\ Len(Rest(q, n)) = k
      /\ \A i \in 1 .. k : Rest(q, n)[i] = q[n + i]
  BY RestIs, Zenon
<1> DEFINE r == Rest(q, n)
           bs == Times(m, "BS")
           chars == r \o bs
<1>1. r \in Seq(Printable) /\ Len(r) = k /\ \A i \in 1 .. k : r[i] = q[n + i]
  BY <1>0, Zenon
<1>2. bs \in Seq(Out) /\ Len(bs) = m /\ \A i \in 1 .. m : bs[i] = "BS"
  BY TimesIs, Zenon DEF Out
<1> HIDE DEF r, bs
<1>3. r \in Seq(Out)
  BY <1>1, LineIsOut, Zenon
<1>4. /\ chars \in Seq(Out) /\ Len(chars) = Len(r) + Len(bs)
      /\ \A i \in 1 .. Len(r) : chars[i] = r[i]
      /\ \A i \in 1 .. Len(bs) : chars[Len(r) + i] = bs[i]
  BY <1>2, <1>3, ConcatIs, Zenon
<1> HIDE DEF chars
<1>5. /\ \A i \in 1 .. k : 0 + i = i
      /\ \A i \in 1 .. m : 0 + k + i = k + i
      /\ 0 + k + m = k + m
  OBVIOUS
<1>6. \A i \in 1 .. k : chars[0 + i] = q[n + i]
  BY <1>1, <1>4, <1>5
<1>7. \A i \in 1 .. m : chars[0 + k + i] = "BS"
  BY <1>1, <1>2, <1>4, <1>5, Zenon
<1>8. Strokes(chars, 0, k, m)
  <2>1. \A i \in 1 .. k : q[n + i] \in Glyphs
    BY DEF Glyphs
  <2>2. \A i \in 1 .. 0 : chars[i] = "BS"
    OBVIOUS
  <2> QED BY <1>1, <1>2, <1>4, <1>5, <1>6, <1>7, <2>1, <2>2, Zenon DEF Strokes
<1> QED BY <1>6, <1>8, Zenon DEF chars, r, bs, Redraw

\* One back, the line from there on, a blank over its old end, and back.
Wipe(q, n, m) == <<"BS">> \o Rest(q, n) \o <<Blank>> \o Times(m, "BS")
LEMMA BackspacePrints ==
  ASSUME NEW q \in Seq(Printable), NEW n \in Nat, NEW m \in Nat, NEW k \in Nat,
         Len(q) = n + k
  PROVE  /\ Strokes(Wipe(q, n, m), 1, k + 1, m)
         /\ Wipe(q, n, m)[1 + (k + 1)] = Blank
         /\ \A i \in 1 .. k : Wipe(q, n, m)[1 + i] = q[n + i]
<1>0. /\ Rest(q, n) \in Seq(Printable) /\ Len(Rest(q, n)) = k
      /\ \A i \in 1 .. k : Rest(q, n)[i] = q[n + i]
  BY RestIs, Zenon
<1> DEFINE one == <<"BS">>
           r == Rest(q, n)
           blank == <<Blank>>
           bs == Times(m, "BS")
           a == one \o r
           b == a \o blank
           chars == b \o bs
<1>1. r \in Seq(Printable) /\ Len(r) = k /\ \A i \in 1 .. k : r[i] = q[n + i]
  BY <1>0, Zenon
<1>2. bs \in Seq(Out) /\ Len(bs) = m /\ \A i \in 1 .. m : bs[i] = "BS"
  BY TimesIs, Zenon DEF Out
<1>3. /\ one \in Seq(Out) /\ Len(one) = 1 /\ one[1] = "BS"
      /\ blank \in Seq(Out) /\ Len(blank) = 1 /\ blank[1] = Blank
  BY DEF Out, Glyphs
<1> HIDE DEF r, bs, one, blank
<1>4. r \in Seq(Out)
  BY <1>1, LineIsOut, Zenon
<1>5. /\ a \in Seq(Out) /\ Len(a) = Len(one) + Len(r)
      /\ \A i \in 1 .. Len(one) : a[i] = one[i]
      /\ \A i \in 1 .. Len(r) : a[Len(one) + i] = r[i]
  BY <1>3, <1>4, ConcatIs, Zenon
<1> HIDE DEF a
<1>6. /\ b \in Seq(Out) /\ Len(b) = Len(a) + Len(blank)
      /\ \A i \in 1 .. Len(a) : b[i] = a[i]
      /\ \A i \in 1 .. Len(blank) : b[Len(a) + i] = blank[i]
  BY <1>3, <1>5, ConcatIs, Zenon
<1> HIDE DEF b
<1>7. /\ chars \in Seq(Out) /\ Len(chars) = Len(b) + Len(bs)
      /\ \A i \in 1 .. Len(b) : chars[i] = b[i]
      /\ \A i \in 1 .. Len(bs) : chars[Len(b) + i] = bs[i]
  BY <1>2, <1>6, ConcatIs, Zenon
<1> HIDE DEF chars
<1>8. /\ Len(a) = 1 + k /\ Len(b) = 1 + (k + 1) /\ Len(chars) = 1 + (k + 1) + m
  BY <1>1, <1>2, <1>3, <1>5, <1>6, <1>7
<1>9. chars[1] = "BS"
  <2>1. 1 \in 1 .. Len(one) /\ 1 \in 1 .. Len(a) /\ 1 \in 1 .. Len(b)
    BY <1>3, <1>8
  <2> QED BY <1>3, <1>5, <1>6, <1>7, <2>1, Zenon
<1>10. chars[1 + (k + 1)] = Blank
  <2>1. 1 \in 1 .. Len(blank) /\ Len(a) + 1 = 1 + (k + 1) /\ 1 + (k + 1) \in 1 .. Len(b)
    BY <1>3, <1>8
  <2>2. b[Len(a) + 1] = Blank
    BY <1>3, <1>6, <2>1, Zenon
  <2> QED BY <1>7, <2>1, <2>2, Zenon
<1>11. ASSUME NEW i \in 1 .. k PROVE chars[1 + i] = q[n + i]
  <2>1. i \in 1 .. Len(r) /\ Len(one) + i = 1 + i /\ 1 + i \in 1 .. Len(a)
        /\ 1 + i \in 1 .. Len(b)
    BY <1>1, <1>3, <1>8
  <2>2. a[Len(one) + i] = r[i] /\ b[1 + i] = a[1 + i] /\ chars[1 + i] = b[1 + i]
    BY <1>5, <1>6, <1>7, <2>1, Zenon
  <2> QED BY <1>1, <2>1, <2>2, Zenon
<1>12. ASSUME NEW i \in 1 .. m PROVE chars[1 + (k + 1) + i] = "BS"
  <2>1. i \in 1 .. Len(bs) /\ Len(b) + i = 1 + (k + 1) + i
    BY <1>2, <1>8, Zenon
  <2> QED BY <1>2, <1>7, <2>1, Zenon
<1>13. Strokes(chars, 1, k + 1, m)
  <2>1. \A i \in 1 .. k : q[n + i] \in Glyphs
    BY DEF Glyphs
  <2>2. ASSUME NEW i \in 1 .. k + 1 PROVE chars[1 + i] \in Glyphs
    <3>1. i \in 1 .. k \/ i = k + 1
      OBVIOUS
    <3> QED BY <1>10, <1>11, <2>1, <3>1, Zenon DEF Glyphs
  <2>3. \A i \in 1 .. 1 : chars[i] = "BS"
    BY <1>9
  <2> QED BY <1>7, <1>8, <1>12, <2>2, <2>3, Zenon DEF Strokes
<1> QED BY <1>10, <1>11, <1>13, Zenon DEF chars, b, a, blank, one, r, bs, Wipe

-----------------------------------------------------------------------------
(* The row of the cursor.                                                  *)

\* What stands in column z of a row with the prompt and the line q.
Shown(q, z) == IF z < Prompt THEN ">"
               ELSE IF z < Prompt + Len(q) THEN q[z - Prompt + 1] ELSE Blank

\* The row holds the line and nothing else, and the rows below are blank.
ScreenInv ==
  /\ term \in Terminals
  /\ \A y \in Rows : y > term.y => \A z \in Columns : term.cell[y][z] = Blank
  /\ fgets_pc = "prompt" =>
       term.x = 0 /\ \A z \in Columns : term.cell[term.y][z] = Blank
  /\ fgets_pc # "prompt" =>
       term.x = Prompt + cursor_pos
       /\ \A z \in Columns : term.cell[term.y][z] = Shown(s, z)

\* The line stands in one row, with room for the cursor behind it.
Fits == Prompt + Len(s) < VGA_WIDTH

LEMMA Sizes == /\ VGA_WIDTH \in Nat /\ VGA_WIDTH > 0 /\ VGA_HEIGHT \in Nat
               /\ VGA_HEIGHT > 0 /\ Prompt \in Nat /\ Prompt < VGA_WIDTH
BY ConsoleAssumption

\* A run in the row of the cursor: the row after it.
Drew(chars, x, b, n, m) ==
  /\ term' \in Terminals /\ term'.x = x + n - m /\ term'.y = term.y
  /\ \A y \in Rows : y > term'.y => \A z \in Columns : term'.cell[y][z] = Blank
  /\ \A z \in Columns : term'.cell[term.y][z] =
       IF x <= z /\ z < x + n THEN chars[b + (z - x) + 1] ELSE term.cell[term.y][z]

\* The rows below it stay blank.
LEMMA DrawScreen ==
  ASSUME ScreenInv, NEW x \in Nat, NEW chars, NEW b \in Nat, NEW n \in Nat, NEW m \in Nat,
         Strokes(chars, b, n, m), Room(term, x, b, n, m), term' = Puts(term, chars)
  PROVE  Drew(chars, x, b, n, m)
<1>1. term \in Terminals /\ term.y \in Rows
  BY Zenon DEF ScreenInv, Terminals
<1>2. PICK t \in Terminals : t = term
  BY <1>1, Zenon
<1> DEFINE d == Drawn(t, x, chars, b, n)
           v == x + n - m
<1>3. d \in [Rows -> [Columns -> Glyphs]]
  BY DrawnType, Zenon DEF Strokes
<1>4. /\ \A z \in Columns : d[t.y][z] =
           IF x <= z /\ z < x + n THEN chars[b + (z - x) + 1] ELSE t.cell[t.y][z]
      /\ \A y \in Rows : y # t.y => d[y] = t.cell[y]
  BY Zenon DEF Drawn, Row, Terminals
<1>5. term' = [cell |-> d, x |-> v, y |-> t.y]
  <2>1. Room(t, x, b, n, m)
    BY <1>2, Zenon
  <2> QED BY <1>2, <2>1, DrawIs
<1>8. v \in Columns
  BY Sizes DEF Room, Columns
<1> HIDE DEF d, v
<1>6. term'.cell = d /\ term'.x = v /\ term'.y = t.y /\ term' \in Terminals
  BY <1>1, <1>2, <1>3, <1>5, <1>8 DEF Terminals
<1>7. ASSUME NEW y \in Rows, y > t.y, NEW z \in Columns PROVE d[y][z] = Blank
  <2>1. y # t.y /\ term.cell[y][z] = Blank
    BY <1>2, <1>7 DEF ScreenInv, Rows, Terminals
  <2> QED BY <1>2, <1>4, <2>1, Zenon
<1> QED BY <1>2, <1>4, <1>6, <1>7, Zenon DEF Drew, v

\* The tail of the line is drawn one column further on.
LEMMA InsertScreen ==
  ASSUME LineOK, ScreenInv, Fits', NEW c, insert(c)
  PROVE  ScreenInv'
<1>1. fgets_pc = "key" /\ fgets_pc' = "key"
  BY Zenon DEF insert
<1>2. CASE ~(len < Size - 1)
  <2>1. s' = s /\ cursor_pos' = cursor_pos /\ term' = term
    BY <1>2, Zenon DEF insert
  <2> QED BY <1>1, <2>1, Zenon DEF ScreenInv
<1>3. CASE len < Size - 1
  <2>1. /\ s' \in Seq(Printable) /\ Len(s') = Len(s) + 1
        /\ \A i \in 1 .. Len(s) + 1 :
             s'[i] = IF i <= cursor_pos THEN s[i]
                     ELSE IF i = cursor_pos + 1 THEN c ELSE s[i - 1]
        /\ cursor_pos' = cursor_pos + 1 /\ c \in Printable
    BY <1>3, ShiftUp, Zenon
  <2>2. PICK q \in Seq(Printable), n \in Nat, m \in Nat, k \in Nat :
          /\ q = s' /\ n = cursor_pos /\ Len(s) = n + m /\ k = m + 1
          /\ Len(q) = n + k
    <3>1. /\ cursor_pos \in Nat /\ Len(s) - cursor_pos \in Nat
          /\ Len(s) = cursor_pos + (Len(s) - cursor_pos)
          /\ Len(s') = cursor_pos + ((Len(s) - cursor_pos) + 1)
          /\ (Len(s) - cursor_pos) + 1 \in Nat
      BY <2>1 DEF LineOK
    <3> QED BY <2>1, <3>1, Zenon
  <2> DEFINE chars == Redraw(q, n, m)
             x == Prompt + n
  <2>3. term' = Puts(term, chars)
    <3>1. term' = Puts(term, SubSeq(s', cursor_pos + 1, len + 1) \o Times(len - cursor_pos, "BS"))
      BY <1>3, Zenon DEF insert
    <3>2. len + 1 = Len(q) /\ len - cursor_pos = m
      BY <2>2 DEF len
    <3> QED BY <2>2, <3>1, <3>2, Zenon DEF Rest, Redraw
  <2>4. Strokes(chars, 0, k, m) /\ \A i \in 1 .. k : chars[0 + i] = q[n + i]
    <3>1. Len(q) = n + k
      BY <2>2, Zenon
    <3> QED BY <3>1, InsertPrints
  <2> HIDE DEF chars
  <2>6. /\ term.x = x + 0 /\ x \in Nat /\ x + k < VGA_WIDTH /\ m <= x + k
        /\ x + k - m = Prompt + cursor_pos'
    <3>1. /\ term.x = Prompt + n /\ Prompt + (n + k) < VGA_WIDTH /\ k = m + 1
          /\ cursor_pos' = n + 1
      BY <1>1, <2>1, <2>2, Zenon DEF ScreenInv, Fits
    <3> QED BY <3>1, Sizes
  <2> HIDE DEF x
  <2>8. Drew(chars, x, 0, k, m)
    BY <2>3, <2>4, <2>6, DrawScreen, Zenon DEF Room
  <2>9. /\ term' \in Terminals /\ term'.x = x + k - m /\ term'.y = term.y
        /\ \A y \in Rows : y > term'.y => \A z \in Columns : term'.cell[y][z] = Blank
        /\ \A z \in Columns : term'.cell[term.y][z] =
              IF x <= z /\ z < x + k THEN chars[0 + (z - x) + 1] ELSE term.cell[term.y][z]
    BY <2>8, Zenon DEF Drew
  <2>10. ASSUME NEW z \in Columns PROVE term'.cell[term.y][z] = Shown(q, z)
    <3>0. z \in Int /\ Prompt \in Nat
      BY Sizes DEF Columns
    <3>1. CASE x <= z /\ z < x + k
      <4>1. (z - x) + 1 \in 1 .. k /\ 0 + (z - x) + 1 = 0 + ((z - x) + 1)
            /\ n + ((z - x) + 1) = z - Prompt + 1
            /\ ~(z < Prompt) /\ z < Prompt + Len(q)
        BY <2>2, <3>0, <3>1 DEF x
      <4>2. chars[0 + (z - x) + 1] = q[z - Prompt + 1]
        BY <2>4, <4>1
      <4> QED BY <2>9, <3>1, <4>1, <4>2, Zenon DEF Shown
    <3>2. CASE ~(x <= z /\ z < x + k)
      <4>1. term'.cell[term.y][z] = Shown(s, z)
        BY <1>1, <2>9, <3>2, Zenon DEF ScreenInv
      <4>2. CASE z < Prompt
        BY <4>1, <4>2, Zenon DEF Shown
      <4>3. CASE ~(z < Prompt) /\ z < Prompt + n
        <5>1. /\ z < Prompt + Len(s) /\ z < Prompt + Len(q)
              /\ z - Prompt + 1 \in 1 .. Len(s) + 1 /\ z - Prompt + 1 <= cursor_pos
          BY <2>2, <3>0, <4>3
        <5>2. q[z - Prompt + 1] = s[z - Prompt + 1]
          BY <2>1, <2>2, <5>1, Zenon
        <5> QED BY <4>1, <4>3, <5>1, <5>2, Zenon DEF Shown
      <4>4. CASE ~(z < Prompt + n)
        <5>1. ~(z < Prompt) /\ ~(z < Prompt + Len(s)) /\ ~(z < Prompt + Len(q))
          BY <2>2, <3>0, <3>2, <4>4 DEF x
        <5> QED BY <4>1, <5>1, Zenon DEF Shown
      <4> QED BY <4>2, <4>3, <4>4, Zenon
    <3> QED BY <3>1, <3>2, Zenon
  <2>11. \A z \in Columns : term'.cell[term'.y][z] = Shown(s', z)
    BY <2>2, <2>9, <2>10, Zenon
  <2> QED BY <1>1, <2>6, <2>9, <2>11, Zenon DEF ScreenInv, Shown
<1> QED BY <1>2, <1>3, Zenon

\* The tail is drawn one column back, and a blank over its last character.
LEMMA BackspaceScreen ==
  ASSUME LineOK, ScreenInv, Fits, NEW c, backspace(c)
  PROVE  ScreenInv'
<1>1. fgets_pc = "key" /\ fgets_pc' = "key"
  BY Zenon DEF backspace
<1>2. CASE ~(cursor_pos > 0)
  <2>1. s' = s /\ cursor_pos' = cursor_pos /\ term' = term
    BY <1>2, Zenon DEF backspace
  <2> QED BY <1>1, <2>1, Zenon DEF ScreenInv
<1>3. CASE cursor_pos > 0
  <2>1. /\ s' \in Seq(Printable) /\ Len(s') = Len(s) - 1
        /\ \A i \in 1 .. Len(s) - 1 :
             s'[i] = IF i < cursor_pos THEN s[i] ELSE s[i + 1]
        /\ cursor_pos' = cursor_pos - 1
    BY <1>3, ShiftDown, Zenon
  <2>2. PICK q \in Seq(Printable), n \in Nat, m \in Nat, k \in Nat :
          /\ q = s' /\ cursor_pos = n + 1 /\ Len(s) = n + m /\ m = k + 1
          /\ Len(q) = n + k
    <3>1. /\ cursor_pos - 1 \in Nat /\ Len(s) - cursor_pos \in Nat
          /\ cursor_pos = (cursor_pos - 1) + 1
          /\ Len(s) = (cursor_pos - 1) + ((Len(s) - cursor_pos) + 1)
          /\ Len(s') = (cursor_pos - 1) + (Len(s) - cursor_pos)
          /\ (Len(s) - cursor_pos) + 1 \in Nat
      BY <1>3, <2>1 DEF LineOK
    <3> QED BY <2>1, <3>1, Zenon
  <2> DEFINE chars == Wipe(q, n, m)
             x == Prompt + n
  <2>3. term' = Puts(term, chars)
    <3>1. term' = Puts(term, <<"BS">> \o SubSeq(s', cursor_pos' + 1, len - 1)
                               \o <<Blank>> \o Times(len - cursor_pos + 1, "BS"))
      BY <1>3, Zenon DEF backspace
    <3>2. len - 1 = Len(q) /\ len - cursor_pos + 1 = m /\ cursor_pos' = n
      BY <2>1, <2>2 DEF len
    <3> QED BY <2>2, <3>1, <3>2, Zenon DEF Rest, Wipe
  <2>4. /\ Strokes(chars, 1, k + 1, m) /\ chars[1 + (k + 1)] = Blank
        /\ \A i \in 1 .. k : chars[1 + i] = q[n + i]
    <3>1. Len(q) = n + k
      BY <2>2, Zenon
    <3> QED BY <3>1, BackspacePrints, ZenonT(60)
  <2> HIDE DEF chars
  <2>6. /\ term.x = x + 1 /\ x \in Nat /\ x + (k + 1) < VGA_WIDTH /\ m <= x + (k + 1)
        /\ x + (k + 1) - m = Prompt + cursor_pos' /\ k + 1 \in Nat
    <3>1. /\ term.x = Prompt + (n + 1) /\ Prompt + (n + m) < VGA_WIDTH /\ m = k + 1
          /\ cursor_pos' = (n + 1) - 1
      BY <1>1, <2>1, <2>2, Zenon DEF ScreenInv, Fits
    <3> QED BY <3>1, Sizes
  <2> HIDE DEF x
  <2>8. Drew(chars, x, 1, k + 1, m)
    BY <2>3, <2>4, <2>6, DrawScreen, Zenon DEF Room
  <2>9. /\ term' \in Terminals /\ term'.x = x + (k + 1) - m /\ term'.y = term.y
        /\ \A y \in Rows : y > term'.y => \A z \in Columns : term'.cell[y][z] = Blank
        /\ \A z \in Columns : term'.cell[term.y][z] =
              IF x <= z /\ z < x + (k + 1) THEN chars[1 + (z - x) + 1]
              ELSE term.cell[term.y][z]
    BY <2>8, Zenon DEF Drew
  <2>10. ASSUME NEW z \in Columns PROVE term'.cell[term.y][z] = Shown(q, z)
    <3>0. z \in Int /\ Prompt \in Nat
      BY Sizes DEF Columns
    <3>1. CASE x <= z /\ z < x + k
      <4>1. (z - x) + 1 \in 1 .. k /\ 1 + (z - x) + 1 = 1 + ((z - x) + 1)
            /\ n + ((z - x) + 1) = z - Prompt + 1 /\ z < x + (k + 1)
            /\ ~(z < Prompt) /\ z < Prompt + Len(q)
        BY <2>2, <3>0, <3>1 DEF x
      <4>2. chars[1 + (z - x) + 1] = q[z - Prompt + 1]
        BY <2>4, <4>1
      <4> QED BY <2>9, <3>1, <4>1, <4>2, Zenon DEF Shown
    <3>2. CASE z = x + k
      <4>1. x <= z /\ z < x + (k + 1) /\ 1 + (z - x) + 1 = 1 + (k + 1)
            /\ ~(z < Prompt) /\ ~(z < Prompt + Len(q))
        BY <2>2, <3>0, <3>2 DEF x
      <4>2. chars[1 + (z - x) + 1] = Blank
        BY <2>4, <4>1, Zenon
      <4> QED BY <2>9, <4>1, <4>2, Zenon DEF Shown
    <3>3. CASE ~(x <= z /\ z < x + (k + 1))
      <4>1. term'.cell[term.y][z] = Shown(s, z)
        BY <1>1, <2>9, <3>3, Zenon DEF ScreenInv
      <4>2. CASE z < Prompt
        BY <4>1, <4>2, Zenon DEF Shown
      <4>3. CASE ~(z < Prompt) /\ z < Prompt + n
        <5>1. /\ z < Prompt + Len(s) /\ z < Prompt + Len(q)
              /\ z - Prompt + 1 \in 1 .. Len(s) - 1 /\ z - Prompt + 1 < cursor_pos
          BY <2>2, <3>0, <4>3
        <5>2. q[z - Prompt + 1] = s[z - Prompt + 1]
          BY <2>1, <2>2, <5>1, Zenon
        <5> QED BY <4>1, <4>3, <5>1, <5>2, Zenon DEF Shown
      <4>4. CASE ~(z < Prompt + n)
        <5>1. ~(z < Prompt) /\ ~(z < Prompt + Len(s)) /\ ~(z < Prompt + Len(q))
          BY <2>2, <3>0, <3>3, <4>4 DEF x
        <5> QED BY <4>1, <5>1, Zenon DEF Shown
      <4> QED BY <4>2, <4>3, <4>4, Zenon
    <3>4. (x <= z /\ z < x + k) \/ z = x + k \/ ~(x <= z /\ z < x + (k + 1))
      BY <2>6, <3>0
    <3> QED BY <3>1, <3>2, <3>3, <3>4, Zenon
  <2>11. \A z \in Columns : term'.cell[term'.y][z] = Shown(s', z)
    BY <2>2, <2>9, <2>10, Zenon
  <2> QED BY <1>1, <2>6, <2>9, <2>11, Zenon DEF ScreenInv, Shown
<1> QED BY <1>2, <1>3, Zenon

\* The prompt is drawn in a blank row.
LEMMA PromptScreen ==
  ASSUME LineOK, ScreenInv, prompt
  PROVE  ScreenInv'
<1> DEFINE chars == Times(Prompt, ">")
<1>1. /\ fgets_pc = "prompt" /\ fgets_pc' = "key" /\ s' = <<>> /\ cursor_pos' = 0
      /\ term' = Puts(term, chars)
  BY Zenon DEF prompt
<1>2. Prompt \in Nat /\ 0 + Prompt < VGA_WIDTH
  BY Sizes
<1>3. chars \in Seq(Out) /\ Len(chars) = Prompt /\ \A i \in 1 .. Prompt : chars[i] = ">"
  BY <1>2, TimesIs, Zenon DEF Out, Glyphs
<1> HIDE DEF chars
<1>4. Strokes(chars, 0, Prompt, 0)
  <2>1. Len(chars) = 0 + Prompt + 0 /\ \A i \in 1 .. Prompt : 0 + i = i
    BY <1>2, <1>3
  <2>2. /\ \A i \in 1 .. 0 : chars[i] = "BS"
        /\ \A i \in 1 .. 0 : chars[0 + Prompt + i] = "BS"
    OBVIOUS
  <2>3. ">" \in Glyphs
    BY Zenon DEF Glyphs
  <2> QED BY <1>3, <2>1, <2>2, <2>3, Zenon DEF Strokes
<1>5. Room(term, 0, 0, Prompt, 0)
  BY <1>1, <1>2 DEF Room, ScreenInv
<1>6. Drew(chars, 0, 0, Prompt, 0)
  BY <1>1, <1>2, <1>4, <1>5, DrawScreen, Zenon
<1>7. ASSUME NEW z \in Columns PROVE term'.cell[term.y][z] = Shown(<<>>, z)
  <2>0. z \in Nat /\ Len(<<>>) = 0
    BY DEF Columns
  <2>1. term'.cell[term.y][z] = IF 0 <= z /\ z < 0 + Prompt THEN chars[0 + (z - 0) + 1]
                                ELSE Blank
    BY <1>1, <1>6, Zenon DEF Drew, ScreenInv
  <2>2. CASE z < Prompt
    <3>1. 0 + (z - 0) + 1 \in 1 .. Prompt /\ 0 <= z /\ z < 0 + Prompt
      BY <1>2, <2>0, <2>2
    <3> QED BY <1>3, <2>1, <2>2, <3>1, Zenon DEF Shown
  <2>3. CASE ~(z < Prompt)
    <3>1. ~(z < 0 + Prompt) /\ ~(z < Prompt + 0)
      BY <1>2, <2>0, <2>3
    <3> QED BY <2>0, <2>1, <2>3, <3>1, Zenon DEF Shown
  <2> QED BY <2>2, <2>3, Zenon
<1>8. /\ term' \in Terminals /\ term'.x = 0 + Prompt - 0 /\ term'.y = term.y
      /\ \A y \in Rows : y > term'.y => \A z \in Columns : term'.cell[y][z] = Blank
  BY <1>6, Zenon DEF Drew
<1>9. term'.x = Prompt + cursor_pos'
  BY <1>1, <1>2, <1>8
<1> QED BY <1>1, <1>7, <1>8, <1>9, Zenon DEF ScreenInv, Shown

\* The cursor of the terminal moves with that of the line.
LEMMA LeftScreen ==
  ASSUME LineOK, ScreenInv, NEW c, arrow_left(c)
  PROVE  ScreenInv'
<1>1. s' = s /\ fgets_pc = "ESC[" /\ fgets_pc' = "key"
  BY Zenon DEF arrow_left
<1>2. CASE cursor_pos > 0
  <2>1. cursor_pos' = cursor_pos - 1 /\ term' = putchar(term, "BS")
    BY <1>2, Zenon DEF arrow_left
  <2>2. term \in Terminals /\ term.x = Prompt + cursor_pos /\ term.x > 0
        /\ term.x - 1 = Prompt + cursor_pos' /\ term.x - 1 \in Columns
    BY <1>1, <1>2, <2>1, Sizes DEF ScreenInv, LineOK, Terminals, Columns
  <2>3. term' = [cell |-> term.cell, x |-> term.x - 1, y |-> term.y]
    BY <2>1, <2>2, PutBack, Zenon
  <2>4. term' \in Terminals /\ term'.cell = term.cell /\ term'.y = term.y
        /\ term'.x = Prompt + cursor_pos'
    BY <2>2, <2>3, Zenon DEF Terminals
  <2> QED BY <1>1, <2>4, Zenon DEF ScreenInv, Shown
<1>3. CASE ~(cursor_pos > 0)
  <2>1. cursor_pos' = cursor_pos /\ term' = term
    BY <1>3, Zenon DEF arrow_left
  <2> QED BY <1>1, <2>1, Zenon DEF ScreenInv, Shown
<1> QED BY <1>2, <1>3, Zenon

LEMMA RightScreen ==
  ASSUME LineOK, ScreenInv, Fits, NEW c, arrow_right(c)
  PROVE  ScreenInv'
<1>1. s' = s /\ fgets_pc = "ESC[" /\ fgets_pc' = "key"
  BY Zenon DEF arrow_right
<1>2. CASE cursor_pos < len
  <2> DEFINE g == s[cursor_pos + 1]
  <2>1. cursor_pos' = cursor_pos + 1 /\ term' = putchar(term, g)
    BY <1>2, Zenon DEF arrow_right
  <2>2. /\ term \in Terminals /\ term.x = Prompt + cursor_pos /\ term.x + 1 < VGA_WIDTH
        /\ term.x + 1 = Prompt + cursor_pos' /\ term.x + 1 \in Columns /\ term.x \in Columns
        /\ ~(term.x < Prompt) /\ term.x < Prompt + Len(s) /\ term.x - Prompt + 1 = cursor_pos + 1
    <3>1. /\ term \in Terminals /\ term.x \in Columns /\ term.x = Prompt + cursor_pos
          /\ cursor_pos < Len(s) /\ Prompt + Len(s) < VGA_WIDTH /\ cursor_pos' = cursor_pos + 1
      BY <1>1, <1>2, <2>1, Zenon DEF ScreenInv, Terminals, Fits, len
    <3>2. cursor_pos \in Nat /\ Len(s) \in Nat
      BY DEF LineOK
    <3> QED BY <3>1, <3>2, Sizes DEF Columns
  <2>3. g \in Glyphs
    BY <1>2 DEF LineOK, Glyphs, len
  <2>4. term.cell[term.y][term.x] = g
    <3>1. term.cell[term.y][term.x] = Shown(s, term.x)
      BY <1>1, <2>2, Zenon DEF ScreenInv
    <3> QED BY <2>2, <3>1, Zenon DEF Shown
  <2> HIDE DEF g
  <2>5. term' = [cell |-> [term.cell EXCEPT ![term.y] = [@ EXCEPT ![term.x] = g]],
                 x |-> term.x + 1, y |-> term.y]
    BY <2>1, <2>2, <2>3, PutGlyph, Zenon
  <2>6. [term.cell EXCEPT ![term.y] = [@ EXCEPT ![term.x] = g]] = term.cell
    BY <2>2, <2>4, Zenon DEF Terminals
  <2>7. term' \in Terminals /\ term'.cell = term.cell /\ term'.y = term.y
        /\ term'.x = Prompt + cursor_pos'
    BY <2>2, <2>5, <2>6, Zenon DEF Terminals
  <2> QED BY <1>1, <2>7, Zenon DEF ScreenInv, Shown
<1>3. CASE ~(cursor_pos < len)
  <2>1. cursor_pos' = cursor_pos /\ term' = term
    BY <1>3, Zenon DEF arrow_right
  <2> QED BY <1>1, <2>1, Zenon DEF ScreenInv, Shown
<1> QED BY <1>2, <1>3, Zenon

\* A new line begins in a blank row.
LEMMA EnterScreen ==
  ASSUME ScreenInv, NEW c, enter(c)
  PROVE  ScreenInv'
<1>1. fgets_pc' = "prompt" /\ term' = term_newline(term)
  BY Zenon DEF enter, putchar
<1>2. /\ term \in Terminals /\ term.cell \in [Rows -> [Columns -> Glyphs]]
      /\ term.y \in Rows /\ term.y \in Int /\ Blank \in Glyphs /\ 0 \in Columns
  <2>1. term \in Terminals /\ term.cell \in [Rows -> [Columns -> Glyphs]] /\ term.y \in Rows
    BY Zenon DEF ScreenInv, Terminals
  <2>2. term.y \in Int
    BY <2>1 DEF Rows
  <2>3. Blank \in Glyphs
    BY Zenon DEF Glyphs
  <2>4. 0 \in Columns
    BY Sizes DEF Columns
  <2> QED BY <2>1, <2>2, <2>3, <2>4, Zenon
<1>3. CASE term.y + 1 >= VGA_HEIGHT
  <2> DEFINE d == vga_scroll_up(term.cell)
  <2>1. term' = [cell |-> d, x |-> 0, y |-> VGA_HEIGHT - 1]
    BY <1>1, <1>3, Zenon DEF term_newline
  <2>2. d \in [Rows -> [Columns -> Glyphs]]
    <3>1. ASSUME NEW y \in Rows, y # VGA_HEIGHT - 1 PROVE y + 1 \in Rows
      BY <3>1, Sizes DEF Rows
    <3> QED BY <1>2, <3>1, Zenon DEF vga_scroll_up
  <2>3. VGA_HEIGHT - 1 \in Rows /\ \A y \in Rows : ~(y > VGA_HEIGHT - 1)
    BY Sizes DEF Rows
  <2>4. \A z \in Columns : d[VGA_HEIGHT - 1][z] = Blank
    BY <2>3, Zenon DEF vga_scroll_up
  <2> HIDE DEF d
  <2>5. term' \in Terminals /\ term'.cell = d /\ term'.x = 0 /\ term'.y = VGA_HEIGHT - 1
    BY <1>2, <2>1, <2>2, <2>3, Zenon DEF Terminals
  <2> QED BY <1>1, <2>3, <2>4, <2>5, Zenon DEF ScreenInv
<1>4. CASE ~(term.y + 1 >= VGA_HEIGHT)
  <2>1. term' = [term EXCEPT !.x = 0, !.y = term.y + 1]
    BY <1>1, <1>4, Zenon DEF term_newline
  <2>2. term.y + 1 \in Rows /\ term.y + 1 > term.y
        /\ \A y \in Rows : y > term.y + 1 => y > term.y
    BY <1>2, <1>4, Sizes DEF Rows
  <2>3. /\ term' \in Terminals /\ term'.cell = term.cell /\ term'.x = 0
        /\ term'.y = term.y + 1
    BY <1>2, <2>1, <2>2, Zenon DEF Terminals
  <2>4. \A y \in Rows : y > term'.y => \A z \in Columns : term'.cell[y][z] = Blank
    BY <2>2, <2>3, Zenon DEF ScreenInv
  <2>5. \A z \in Columns : term'.cell[term'.y][z] = Blank
    BY <2>2, <2>3, Zenon DEF ScreenInv
  <2> QED BY <1>1, <2>3, <2>4, <2>5, Zenon DEF ScreenInv
<1> QED BY <1>3, <1>4, Zenon

\* Every step keeps the row of the cursor what it should be.
LEMMA ScreenStep ==
  ASSUME LineOK, ScreenInv, Fits, Fits', [ConsoleNext]_console_vars
  PROVE  ScreenInv'
<1>1. CASE prompt
  BY <1>1, PromptScreen, Zenon
<1>2. ASSUME NEW c, fgets(c) PROVE ScreenInv'
  <2>1. CASE escape(c)
    <3>1. /\ s' = s /\ cursor_pos' = cursor_pos /\ term' = term
          /\ fgets_pc # "prompt" /\ fgets_pc' # "prompt"
      BY <2>1, Zenon DEF escape
    <3> QED BY <3>1, Zenon DEF ScreenInv, Shown
  <2>2. CASE arrow_left(c)
    BY <2>2, LeftScreen, Zenon
  <2>3. CASE arrow_right(c)
    BY <2>3, RightScreen, Zenon
  <2>4. CASE enter(c)
    BY <2>4, EnterScreen, Zenon
  <2>5. CASE backspace(c)
    BY <2>5, BackspaceScreen, Zenon
  <2>6. CASE insert(c)
    BY <2>6, InsertScreen, Zenon
  <2> QED BY <1>2, <2>1, <2>2, <2>3, <2>4, <2>5, <2>6 DEF fgets
<1>3. CASE UNCHANGED console_vars
  BY <1>3, Zenon DEF console_vars, ScreenInv, Shown
<1> QED BY <1>1, <1>2, <1>3, Zenon DEF ConsoleNext

LEMMA ScreenInit == ConsoleInit => ScreenInv
<1> SUFFICES ASSUME ConsoleInit PROVE ScreenInv
  BY Zenon
<1> DEFINE d == [y \in Rows |-> [x \in Columns |-> Blank]]
<1>1. term = [cell |-> d, x |-> 0, y |-> 0] /\ fgets_pc = "prompt"
  BY Zenon DEF ConsoleInit
<1>2. 0 \in Rows /\ 0 \in Columns /\ Blank \in Glyphs
  BY Sizes DEF Rows, Columns, Glyphs
<1>3. /\ d \in [Rows -> [Columns -> Glyphs]]
      /\ \A y \in Rows, z \in Columns : d[y][z] = Blank
  BY <1>2, Zenon
<1> HIDE DEF d
<1> QED BY <1>1, <1>2, <1>3, Zenon DEF ScreenInv, Terminals

\* Below the width, rows and columns are what they seem.
LEMMA InRow ==
  ASSUME NEW n \in Nat, n < VGA_WIDTH
  PROVE  n \div VGA_WIDTH = 0 /\ n % VGA_WIDTH = n
<1>1. VGA_WIDTH \in Nat /\ VGA_WIDTH > 0
  BY Sizes, Zenon
<1> QED BY <1>1

\* The row of the cursor is what ScreenShowsLine asks of the whole screen.
LEMMA ScreenIs ==
  ASSUME LineOK, ScreenInv, Fits
  PROVE  ScreenShowsLine
<1> SUFFICES ASSUME fgets_pc # "prompt" PROVE ScreenShowsLine
  BY Zenon DEF ScreenShowsLine
<1> DEFINE shown == Times(Prompt, ">") \o s
           at == Prompt + cursor_pos
           first == term.y - at \div VGA_WIDTH
<1>1. /\ s \in Seq(Printable) /\ s \in Seq(Out) /\ cursor_pos \in 0 .. Len(s)
      /\ Prompt \in Nat /\ Len(s) \in Nat /\ term \in Terminals /\ term.y \in Int
      /\ term.x = at /\ \A z \in Columns : term.cell[term.y][z] = Shown(s, z)
  <2>1. s \in Seq(Printable)
    BY Zenon DEF LineOK
  <2> QED BY <2>1, Sizes, LineIsOut DEF LineOK, ScreenInv, Terminals, Rows
<1>2. at \in Nat /\ at < VGA_WIDTH
  BY <1>1, Sizes DEF Fits
<1>3. at \div VGA_WIDTH = 0 /\ at % VGA_WIDTH = at
  <2> HIDE DEF at
  <2> QED BY <1>2, InRow, Zenon
<1>4. first = term.y
  BY <1>1, <1>3
<1>5. /\ shown \in Seq(Out) /\ Len(shown) = Prompt + Len(s)
      /\ \A i \in 1 .. Prompt : shown[i] = ">"
      /\ \A i \in 1 .. Len(s) : shown[Prompt + i] = s[i]
  <2> DEFINE p == Times(Prompt, ">")
  <2>1. p \in Seq(Out) /\ Len(p) = Prompt /\ \A i \in 1 .. Prompt : p[i] = ">"
    BY <1>1, TimesIs, Zenon DEF Out, Glyphs
  <2> HIDE DEF p
  <2>2. /\ p \o s \in Seq(Out) /\ Len(p \o s) = Len(p) + Len(s)
        /\ \A i \in 1 .. Len(p) : (p \o s)[i] = p[i]
        /\ \A i \in 1 .. Len(s) : (p \o s)[Len(p) + i] = s[i]
    BY <1>1, <2>1, ConcatIs, Zenon
  <2> QED BY <2>1, <2>2, Zenon DEF p
<1> HIDE DEF shown, at, first
<1>6. ASSUME NEW k \in 1 .. Len(shown)
      PROVE  LET y == first + (k - 1) \div VGA_WIDTH
             IN  y \in Rows => term.cell[y][(k - 1) % VGA_WIDTH] = shown[k]
  <2>1. k - 1 \in Nat /\ k - 1 < VGA_WIDTH /\ k - 1 \in Columns
    BY <1>1, <1>5, Sizes DEF Fits, Columns
  <2>2. (k - 1) \div VGA_WIDTH = 0 /\ (k - 1) % VGA_WIDTH = k - 1
    BY <2>1, InRow, Zenon
  <2>3. first + (k - 1) \div VGA_WIDTH = term.y
    <3>1. first = term.y /\ term.y + 0 = term.y
      BY <1>1, <1>4
    <3> QED BY <2>2, <3>1, Zenon
  <2>4. shown[k] = Shown(s, k - 1)
    <3>1. CASE k <= Prompt
      <4>1. k \in 1 .. Prompt /\ k - 1 < Prompt
        BY <1>1, <3>1
      <4> QED BY <1>5, <4>1, Zenon DEF Shown
    <3>2. CASE ~(k <= Prompt)
      <4>1. /\ k - Prompt \in 1 .. Len(s) /\ Prompt + (k - Prompt) = k
            /\ ~(k - 1 < Prompt) /\ k - 1 < Prompt + Len(s)
            /\ (k - 1) - Prompt + 1 = k - Prompt
        BY <1>1, <1>5, <3>2
      <4>2. shown[k] = s[k - Prompt]
        BY <1>5, <4>1, Zenon
      <4> QED BY <4>1, <4>2, Zenon DEF Shown
    <3> QED BY <3>1, <3>2, Zenon
  <2> QED BY <1>1, <2>1, <2>2, <2>3, <2>4, Zenon
<1>7. ASSUME NEW z \in Columns, z >= Len(shown) % VGA_WIDTH
      PROVE  LET y == first + Len(shown) \div VGA_WIDTH
             IN  y \in Rows => term.cell[y][z] = Blank
  <2>1. Len(shown) \in Nat /\ Len(shown) < VGA_WIDTH
    BY <1>1, <1>5 DEF Fits
  <2>2. Len(shown) \div VGA_WIDTH = 0 /\ Len(shown) % VGA_WIDTH = Len(shown)
    BY <2>1, InRow, Zenon
  <2>3. first + Len(shown) \div VGA_WIDTH = term.y
    BY <1>1, <1>4, <2>2
  <2>4. Shown(s, z) = Blank
    <3>1. ~(z < Prompt) /\ ~(z < Prompt + Len(s))
      BY <1>1, <1>5, <1>7, <2>2 DEF Columns
    <3> QED BY <3>1, Zenon DEF Shown
  <2> QED BY <1>1, <2>3, <2>4, Zenon
<1>8. term.x = at % VGA_WIDTH
  BY <1>1, <1>3, Zenon
<1> QED BY <1>6, <1>7, <1>8, Zenon DEF ScreenShowsLine, shown, at, first

\* As long as prompt and line fit their row, the screen shows after every key
\* the prompt, the whole line and nothing else, and the terminal's position is
\* that of fgets' cursor: for a screen and a buffer of any size, wherever the
\* cursor stands and however often the screen has scrolled.
THEOREM ScreenFollowsLine == ConsoleSpec /\ []Fits => []ScreenShowsLine
<1>1. LineOK /\ [ConsoleNext]_console_vars => LineOK'
  BY EditorStep, Zenon
<1>2. LineOK /\ ScreenInv /\ Fits /\ Fits' /\ [ConsoleNext]_console_vars => ScreenInv'
  BY ScreenStep, Zenon
<1>3. LineOK /\ ScreenInv /\ Fits => ScreenShowsLine
  BY ScreenIs, Zenon
<1> QED BY InitLine, ScreenInit, <1>1, <1>2, <1>3, PTL DEF ConsoleSpec
=============================================================================
