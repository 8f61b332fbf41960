----------------------------- MODULE HeapProofs -----------------------------
(***************************************************************************)
(* The heap's list stays one chain, what clients hold is theirs alone and  *)
(* the counters are exact, for every size of header, page and region and   *)
(* every sequence of requests.                                             *)
(***************************************************************************)
EXTENDS Heap, Integers, FiniteSetTheorems, TLAPS

Header == [size : Nat, free : BOOLEAN, next : Nat, prev : Nat]

\* The list b is one chain in the order of addresses, below end.
InOrder(b, end) ==
  /\ b \in [DOMAIN b -> Header]
  /\ \A x \in DOMAIN b : x \in Nat /\ BASE <= x /\ x + HDR + b[x].size <= end
  /\ BASE \in DOMAIN b /\ b[BASE].prev = NULL
  /\ \E x \in DOMAIN b : b[x].next = NULL
  /\ \A x \in DOMAIN b : b[x].next = NULL => \A y \in DOMAIN b : y <= x
  /\ \A x \in DOMAIN b : b[x].next # NULL =>
       /\ b[x].next \in DOMAIN b /\ b[b[x].next].prev = x
       /\ x + HDR + b[x].size <= b[x].next
       /\ \A y \in DOMAIN b : y <= x \/ b[x].next <= y
  /\ \A x \in DOMAIN b : x # BASE =>
       b[x].prev \in DOMAIN b /\ b[b[x].prev].next = x

\* No two neighbours on the list are free.
Merged(b) ==
  \A x \in DOMAIN b : b[x].free /\ b[x].next # NULL => ~ b[b[x].next].free

LEMMA Constants ==
  /\ HDR \in Nat /\ HDR > 0 /\ BASE \in Nat /\ BASE > 0 /\ NULL = 0
  /\ ALIGN \in Nat /\ ALIGN > 0 /\ PAGE \in Nat /\ PAGE > 0 /\ MINSPLIT \in Nat
  /\ VBASE \in Nat /\ INITIAL \in Nat /\ INITIAL > HDR /\ BASE + INITIAL < VBASE
  /\ \A n \in Requests : n \in Nat
BY HeapAssumption DEF NULL

\* Rounding up to a multiple.
LEMMA RoundsUp ==
  ASSUME NEW n \in Nat, NEW k \in Nat, k > 0
  PROVE  /\ ((n + k - 1) \div k) * k \in Nat
         /\ ((n + k - 1) \div k) * k >= n
<1> DEFINE x == n + k - 1
           q == x \div k
           r == x % k
<1>1. x \in Nat /\ q \in Nat /\ r \in 0 .. k - 1 /\ x = k * q + r
  OBVIOUS
<1>2. q * k \in Nat /\ q * k = k * q
  BY <1>1
<1> HIDE DEF q, r
<1> QED BY <1>1, <1>2

\* Two blocks do not overlap.
LEMMA NoOverlap ==
  ASSUME NEW b, NEW end, InOrder(b, end),
         NEW x \in DOMAIN b, NEW y \in DOMAIN b, x < y
  PROVE  x + HDR + b[x].size <= y
<1>1. x \in Nat /\ y \in Nat /\ b[x].size \in Nat /\ b[x].next \in Nat
  BY DEF InOrder, Header
<1>2. b[x].next # NULL
  BY <1>1 DEF InOrder
<1>3. b[x].next <= y /\ x + HDR + b[x].size <= b[x].next
  BY <1>1, <1>2 DEF InOrder
<1> QED BY <1>1, <1>3, Constants

-----------------------------------------------------------------------------
(* The steps that change the list.                                         *)

\* A flag says nothing about the order.
LEMMA FlagInOrder ==
  ASSUME NEW b, NEW end, InOrder(b, end), NEW a \in DOMAIN b, NEW v \in BOOLEAN
  PROVE  LET c == [b EXCEPT ![a].free = v]
         IN  /\ InOrder(c, end) /\ DOMAIN c = DOMAIN b
             /\ \A x \in DOMAIN b :
                  c[x] = IF x = a THEN [b[x] EXCEPT !.free = v] ELSE b[x]
<1> DEFINE c == [b EXCEPT ![a].free = v]
<1>1. DOMAIN c = DOMAIN b
  BY Zenon
<1>2. \A x \in DOMAIN b :
        c[x] = IF x = a THEN [b[x] EXCEPT !.free = v] ELSE b[x]
  BY Zenon DEF InOrder
<1>3. \A x \in DOMAIN b : /\ c[x] \in Header /\ c[x].size = b[x].size
                          /\ c[x].next = b[x].next /\ c[x].prev = b[x].prev
  BY <1>2 DEF InOrder, Header
<1>4. c \in [DOMAIN c -> Header]
  BY <1>1, <1>3, Zenon
<1> HIDE DEF c
<1>5. InOrder(c, end)
  BY <1>1, <1>3, <1>4 DEF InOrder
<1> QED BY <1>1, <1>2, <1>5, Zenon DEF c

\* What Split makes of the list: block a is cut, the new block follows it, and
\* the block behind points back to the new one.
SplitOf(b, c, a, n) ==
  /\ c \in [DOMAIN b \union {n} -> Header]
  /\ c[n].size = b[a].size - size - HDR /\ c[n].free
  /\ c[n].next = b[a].next /\ c[n].prev = a
  /\ \A x \in DOMAIN b :
       /\ c[x].size = IF x = a THEN size ELSE b[x].size
       /\ c[x].free = b[x].free
       /\ c[x].next = IF x = a THEN n ELSE b[x].next
       /\ c[x].prev = IF x = b[a].next THEN n ELSE b[x].prev

\* A new block that lies inside of a is not on the list.
LEMMA SplitIs ==
  ASSUME NEW b, NEW end, InOrder(b, end), NEW a \in DOMAIN b,
         size \in Nat, b[a].size >= size + HDR
  PROVE  a + HDR + size \notin DOMAIN b /\ SplitOf(b, Split(b, a), a, a + HDR + size)
<1> DEFINE n == a + HDR + size
           h == [size |-> b[a].size - size - HDR, free |-> TRUE,
                 next |-> b[a].next, prev |-> a]
           rest == Put(b, n, h)
           mid == [rest EXCEPT ![a].size = size]
           cut == [mid EXCEPT ![a].next = n]
           c == Split(b, a)
           D == DOMAIN b \union {n}
<1>1. a \in Nat /\ b[a] \in Header /\ b \in [DOMAIN b -> Header] /\ 0 \notin DOMAIN b
  BY Constants DEF InOrder
<1>2. n \in Nat /\ a < n /\ n < a + HDR + b[a].size
  BY <1>1, Constants DEF Header
<1>3. n \notin DOMAIN b
  <2> SUFFICES ASSUME n \in DOMAIN b PROVE FALSE
    BY Zenon
  <2>1. a + HDR + b[a].size <= n
    BY <1>2, NoOverlap, Zenon
  <2> QED BY <1>1, <1>2, <2>1, Constants DEF Header
<1>4. b[a].next # NULL => b[a].next \in DOMAIN b /\ b[a].next # a /\ b[a].next # n
  <2>1. b[a].next # NULL => b[a].next \in DOMAIN b /\ a + HDR + b[a].size <= b[a].next
    BY Zenon DEF InOrder
  <2> QED BY <1>1, <1>3, <2>1, Constants DEF Header
<1>5. /\ rest \in [D -> Header] /\ rest[n] = h
      /\ \A x \in DOMAIN b : rest[x] = b[x]
  <2>1. h \in Header
    BY <1>1, <1>2, Constants DEF Header
  <2> QED BY <1>1, <1>3, <2>1, Zenon DEF Put
<1>6. h.size = b[a].size - size - HDR /\ h.free /\ h.next = b[a].next /\ h.prev = a
  BY Zenon
<1>7. c = IF b[a].next # NULL THEN [cut EXCEPT ![b[a].next].prev = n] ELSE cut
  BY Zenon DEF Split
<1> HIDE DEF rest, h, c
<1>8. /\ mid \in [D -> Header]
      /\ mid[n] = rest[n]
      /\ \A x \in DOMAIN b :
           /\ mid[x].size = IF x = a THEN size ELSE b[x].size
           /\ mid[x].free = b[x].free /\ mid[x].next = b[x].next
           /\ mid[x].prev = b[x].prev
  BY <1>1, <1>2, <1>3, <1>5, Zenon DEF Header
<1> HIDE DEF mid
<1>9. /\ cut \in [D -> Header]
      /\ cut[n] = rest[n]
      /\ \A x \in DOMAIN b :
           /\ cut[x].size = IF x = a THEN size ELSE b[x].size
           /\ cut[x].free = b[x].free /\ cut[x].prev = b[x].prev
           /\ cut[x].next = IF x = a THEN n ELSE b[x].next
  BY <1>1, <1>2, <1>3, <1>8 DEF Header
<1> HIDE DEF cut, D
<1>10. /\ c \in [D -> Header]
       /\ c[n] = h
       /\ \A x \in DOMAIN b :
            /\ c[x].size = cut[x].size /\ c[x].free = cut[x].free
            /\ c[x].next = cut[x].next
            /\ c[x].prev = IF x = b[a].next THEN n ELSE cut[x].prev
  <2>1. CASE b[a].next = NULL
    BY <1>1, <1>5, <1>7, <1>9, <2>1, Constants
  <2>2. CASE b[a].next # NULL
    BY <1>2, <1>4, <1>5, <1>7, <1>9, <2>2 DEF Header, D
  <2> QED BY <2>1, <2>2, Zenon
<1> HIDE DEF n
<1>11. SplitOf(b, c, a, n)
  BY <1>6, <1>9, <1>10 DEF SplitOf, D
<1> QED BY <1>3, <1>11, Zenon DEF c, n

\* A split leaves the chain in order.
LEMMA SplitInOrder ==
  ASSUME NEW b, NEW end \in Nat, InOrder(b, end), NEW a \in DOMAIN b,
         size \in Nat, b[a].size >= size + HDR, NEW c, NEW n,
         n = a + HDR + size, n \notin DOMAIN b, SplitOf(b, c, a, n)
  PROVE  InOrder(c, end)
<1>1. /\ a \in Nat /\ b[a].size \in Nat /\ b[a].next \in Nat /\ n \in Nat /\ a < n
      /\ b[a].size - size - HDR \in Nat /\ BASE <= n
      /\ a + HDR + b[a].size <= end /\ a # NULL /\ n # NULL
      /\ n + HDR + (b[a].size - size - HDR) = a + HDR + b[a].size
      /\ n # BASE
  BY Constants DEF InOrder, Header
<1>2. DOMAIN c = DOMAIN b \union {n} /\ c \in [DOMAIN c -> Header]
  BY Zenon DEF SplitOf
<1>3. \A x \in DOMAIN b : /\ x \in Nat /\ b[x].size \in Nat /\ b[x].next \in Nat
                          /\ b[x].prev \in Nat /\ BASE <= x /\ x + HDR + b[x].size <= end
                          /\ x # NULL
  BY Constants DEF InOrder, Header
<1>4. \A x \in DOMAIN c : x \in Nat /\ BASE <= x /\ x + HDR + c[x].size <= end
  BY <1>1, <1>2, <1>3, Constants DEF SplitOf
<1>5. BASE \in DOMAIN c /\ c[BASE].prev = NULL
  <2>1. BASE \in DOMAIN b /\ b[BASE].prev = NULL /\ BASE # b[a].next
    BY <1>1, Constants DEF InOrder, Header
  <2> QED BY <1>2, <2>1, Zenon DEF SplitOf
<1>6. \E x \in DOMAIN c : c[x].next = NULL
  <2>1. PICK x \in DOMAIN b : b[x].next = NULL
    BY Zenon DEF InOrder
  <2>2. CASE x = a
    BY <1>2, <2>1, <2>2 DEF SplitOf
  <2>3. CASE x # a
    BY <1>2, <2>1, <2>3, Zenon DEF SplitOf
  <2> QED BY <2>2, <2>3, Zenon
<1>7. \A y \in DOMAIN b : y <= a \/ n < y
  <2> TAKE y \in DOMAIN b
  <2>1. a < y => a + HDR + b[a].size <= y
    BY NoOverlap, Zenon
  <2> QED BY <1>1, <1>3, <2>1, Constants
<1>8. \A x \in DOMAIN c : c[x].next = NULL => \A y \in DOMAIN c : y <= x
  <2> TAKE x \in DOMAIN c
  <2> HAVE c[x].next = NULL
  <2> TAKE y \in DOMAIN c
  <2>1. CASE x = n
    BY <1>1, <1>2, <1>3, <1>7, <2>1 DEF SplitOf, InOrder
  <2>2. CASE x \in DOMAIN b
    BY <1>1, <1>2, <1>3, <1>7, <2>2 DEF SplitOf, InOrder
  <2> QED BY <1>2, <2>1, <2>2, Zenon
<1>9. ASSUME NEW x \in DOMAIN c, c[x].next # NULL
      PROVE  /\ c[x].next \in DOMAIN c /\ c[c[x].next].prev = x
             /\ x + HDR + c[x].size <= c[x].next
             /\ \A y \in DOMAIN c : y <= x \/ c[x].next <= y
  <2>1. CASE x = n
    <3>1. b[a].next # NULL /\ c[x].next = b[a].next
      BY <1>9, <2>1, Zenon DEF SplitOf
    <3>2. b[a].next \in DOMAIN b /\ a + HDR + b[a].size <= b[a].next
      BY <3>1, Zenon DEF InOrder
    <3> QED BY <1>1, <1>2, <1>3, <1>7, <2>1, <3>1, <3>2 DEF SplitOf, InOrder
  <2>2. CASE x = a
    BY <1>1, <1>2, <1>3, <1>7, <2>2 DEF SplitOf
  <2>3. CASE x \in DOMAIN b /\ x # a
    <3>1. c[x].next = b[x].next /\ b[x].next \in DOMAIN b /\ b[b[x].next].prev = x
      BY <1>9, <2>3 DEF SplitOf, InOrder
    <3>2. c[c[x].next].prev = x
      <4>1. b[x].next # b[a].next
        <5> SUFFICES ASSUME b[x].next = b[a].next PROVE FALSE
          BY Zenon
        <5>1. b[b[a].next].prev = a
          BY <1>9, <3>1, Zenon DEF InOrder
        <5> QED BY <2>3, <3>1, <5>1, Zenon
      <4> QED BY <3>1, <4>1 DEF SplitOf
    <3>3. x + HDR + c[x].size <= c[x].next
      BY <1>9, <2>3, <3>1, Zenon DEF SplitOf, InOrder
    <3>4. \A y \in DOMAIN b : y <= x \/ c[x].next <= y
      BY <1>9, <3>1 DEF InOrder
    <3>5. n <= x \/ c[x].next <= n
      <4>1. a <= x \/ c[x].next <= a
        BY <3>4, Zenon
      <4> QED BY <1>1, <1>3, <1>7, <2>3, <3>1, <4>1
    <3> QED BY <1>2, <3>1, <3>2, <3>3, <3>4, <3>5, Zenon
  <2> QED BY <1>2, <2>1, <2>2, <2>3, Zenon
<1>10. ASSUME NEW x \in DOMAIN c, x # BASE
       PROVE  c[x].prev \in DOMAIN c /\ c[c[x].prev].next = x
  <2>1. CASE x = n
    BY <1>1, <1>2, <2>1 DEF SplitOf
  <2>2. CASE x \in DOMAIN b /\ x = b[a].next
    BY <1>2, <2>2, Zenon DEF SplitOf
  <2>3. CASE x \in DOMAIN b /\ x # b[a].next
    BY <1>2, <1>10, <2>3 DEF SplitOf, InOrder
  <2> QED BY <1>2, <2>1, <2>2, <2>3, Zenon
<1> QED BY <1>2, <1>4, <1>5, <1>6, <1>8, <1>9, <1>10, Zenon DEF InOrder

\* What Merge makes of the list: block a takes in the block n behind it, and
\* the block behind that one points back to a.
MergeOf(b, c, a, n) ==
  /\ c \in [DOMAIN b \ {n} -> Header]
  /\ \A x \in DOMAIN b \ {n} :
       /\ c[x].size = IF x = a THEN b[a].size + HDR + b[n].size ELSE b[x].size
       /\ c[x].free = b[x].free
       /\ c[x].next = IF x = a THEN b[n].next ELSE b[x].next
       /\ c[x].prev = IF x = b[n].next THEN a ELSE b[x].prev

LEMMA MergeIs ==
  ASSUME NEW b, NEW end, InOrder(b, end), NEW a \in DOMAIN b, b[a].next # NULL
  PROVE  MergeOf(b, Merge(b, a), a, b[a].next)
<1> DEFINE n == b[a].next
           rest == Drop(b, n)
           mid == [rest EXCEPT ![a].size = @ + HDR + b[n].size]
           cut == [mid EXCEPT ![a].next = b[n].next]
           c == Merge(b, a)
           D == DOMAIN b \ {n}
<1>1. /\ b \in [DOMAIN b -> Header] /\ 0 \notin DOMAIN b /\ DOMAIN b \subseteq Nat
      /\ n \in DOMAIN b /\ b[a] \in Header /\ b[n] \in Header
      /\ a + HDR + b[a].size <= n
  BY Constants DEF InOrder
<1>2. a # n /\ a \in D
  BY <1>1, Constants DEF Header
<1>3. b[n].next # NULL => b[n].next \in D /\ b[n].next # a
  <2>1. b[n].next # NULL => b[n].next \in DOMAIN b /\ n + HDR + b[n].size <= b[n].next
    BY <1>1, Zenon DEF InOrder
  <2> QED BY <1>1, <2>1, Constants DEF Header
<1>4. rest \in [D -> Header] /\ \A x \in D : rest[x] = b[x]
  BY <1>1, Zenon DEF Drop
<1>5. cut = [rest EXCEPT ![a].size = @ + HDR + b[n].size, ![a].next = b[n].next]
  BY Zenon
<1>6. c = IF b[n].next # NULL THEN [cut EXCEPT ![b[n].next].prev = a] ELSE cut
  BY Zenon DEF Merge
<1> HIDE DEF rest, c, n
<1>7. b[a].size + HDR + b[n].size \in Nat /\ b[n].next \in Nat /\ a \in Nat
  BY <1>1, Constants DEF Header
<1>8. /\ mid \in [D -> Header]
      /\ \A x \in D :
           /\ mid[x].size = IF x = a THEN b[a].size + HDR + b[n].size ELSE b[x].size
           /\ mid[x].free = b[x].free /\ mid[x].next = b[x].next
           /\ mid[x].prev = b[x].prev
  BY <1>2, <1>4, <1>7 DEF Header
<1> HIDE DEF mid
<1>9. /\ cut \in [D -> Header]
      /\ \A x \in D :
           /\ cut[x].size = mid[x].size /\ cut[x].free = mid[x].free
           /\ cut[x].prev = mid[x].prev
           /\ cut[x].next = IF x = a THEN b[n].next ELSE mid[x].next
  BY <1>2, <1>7, <1>8 DEF Header
<1> HIDE DEF cut
<1>10. /\ c \in [D -> Header]
       /\ \A x \in D :
            /\ c[x].size = cut[x].size /\ c[x].free = cut[x].free
            /\ c[x].next = cut[x].next
            /\ c[x].prev = IF x = b[n].next THEN a ELSE cut[x].prev
  <2>1. CASE b[n].next = NULL
    BY <1>1, <1>6, <1>9, <2>1, Constants
  <2>2. CASE b[n].next # NULL
    BY <1>3, <1>6, <1>7, <1>9, <2>2 DEF Header
  <2> QED BY <2>1, <2>2, Zenon
<1> HIDE DEF D
<1>11. MergeOf(b, c, a, n)
  BY <1>8, <1>9, <1>10 DEF MergeOf, D
<1> QED BY <1>11, Zenon DEF c, n

\* A merge leaves the chain in order.
LEMMA MergeInOrder ==
  ASSUME NEW b, NEW end \in Nat, InOrder(b, end), NEW a \in DOMAIN b, NEW n,
         n = b[a].next, n # NULL, NEW c, MergeOf(b, c, a, n)
  PROVE  InOrder(c, end)
<1>1. \A x \in DOMAIN b : /\ x \in Nat /\ b[x].size \in Nat /\ b[x].next \in Nat
                          /\ b[x].prev \in Nat /\ BASE <= x /\ x + HDR + b[x].size <= end
                          /\ x # NULL
  BY Constants DEF InOrder, Header
<1>2. /\ n \in DOMAIN b /\ b[n].prev = a /\ a + HDR + b[a].size <= n /\ a < n
      /\ \A y \in DOMAIN b : y <= a \/ n <= y
  <2>1. /\ n \in DOMAIN b /\ b[n].prev = a /\ a + HDR + b[a].size <= n
        /\ \A y \in DOMAIN b : y <= a \/ n <= y
    BY Zenon DEF InOrder
  <2> QED BY <1>1, <2>1, Constants
<1>3. DOMAIN c = DOMAIN b \ {n} /\ c \in [DOMAIN c -> Header] /\ a \in DOMAIN c
  BY <1>1, <1>2 DEF MergeOf
<1>4. \A x \in DOMAIN c : x \in Nat /\ BASE <= x /\ x + HDR + c[x].size <= end
  BY <1>1, <1>2, <1>3, Constants DEF MergeOf
<1>5. BASE \in DOMAIN c /\ c[BASE].prev = NULL
  <2>1. BASE \in DOMAIN b /\ b[BASE].prev = NULL /\ BASE # n
    BY <1>1, <1>2, Constants, Zenon DEF InOrder
  <2>2. BASE # b[n].next
    <3>1. b[n].next # NULL => n + HDR + b[n].size <= b[n].next
      BY <1>2, Zenon DEF InOrder
    <3> QED BY <1>1, <1>2, <3>1, Constants
  <2> QED BY <1>3, <2>1, <2>2, Zenon DEF MergeOf
<1>6. \E x \in DOMAIN c : c[x].next = NULL
  <2>1. PICK x \in DOMAIN b : b[x].next = NULL
    BY Zenon DEF InOrder
  <2>2. CASE x = n
    BY <1>3, <2>1, <2>2, Zenon DEF MergeOf
  <2>3. CASE x # n
    BY <1>3, <2>1, <2>3, Zenon DEF MergeOf
  <2> QED BY <2>2, <2>3, Zenon
<1>7. \A x \in DOMAIN c : c[x].next = NULL => \A y \in DOMAIN c : y <= x
  <2> TAKE x \in DOMAIN c
  <2> HAVE c[x].next = NULL
  <2> TAKE y \in DOMAIN c
  <2>1. CASE x = a
    <3>1. b[n].next = NULL
      BY <1>3, <2>1, Zenon DEF MergeOf
    <3>2. y <= n /\ y # n
      BY <1>2, <1>3, <3>1, Zenon DEF InOrder
    <3> QED BY <1>1, <1>2, <1>3, <2>1, <3>2
  <2>2. CASE x # a
    BY <1>3, <2>2, Zenon DEF MergeOf, InOrder
  <2> QED BY <2>1, <2>2, Zenon
<1>8. ASSUME NEW x \in DOMAIN c, c[x].next # NULL
      PROVE  /\ c[x].next \in DOMAIN c /\ c[c[x].next].prev = x
             /\ x + HDR + c[x].size <= c[x].next
             /\ \A y \in DOMAIN c : y <= x \/ c[x].next <= y
  <2>1. CASE x = a
    <3>1. c[x].next = b[n].next /\ c[x].size = b[a].size + HDR + b[n].size
      BY <1>3, <2>1, Zenon DEF MergeOf
    <3>2. /\ b[n].next \in DOMAIN b /\ n + HDR + b[n].size <= b[n].next
          /\ \A y \in DOMAIN b : y <= n \/ b[n].next <= y
      BY <1>2, <1>8, <3>1, Zenon DEF InOrder
    <3>3. b[n].next # n
      BY <1>1, <1>2, <3>2, Constants
    <3>4. c[c[x].next].prev = x
      BY <1>3, <2>1, <3>1, <3>2, <3>3, Zenon DEF MergeOf
    <3>5. x + HDR + c[x].size <= c[x].next
      BY <1>1, <1>2, <2>1, <3>1, <3>2, Constants
    <3>6. \A y \in DOMAIN c : y <= x \/ c[x].next <= y
      BY <1>1, <1>2, <1>3, <2>1, <3>1, <3>2
    <3> QED BY <1>3, <3>1, <3>2, <3>3, <3>4, <3>5, <3>6, Zenon
  <2>2. CASE x # a
    <3>1. c[x].next = b[x].next /\ c[x].size = b[x].size
      BY <1>3, <2>2, Zenon DEF MergeOf
    <3>2. /\ b[x].next \in DOMAIN b /\ b[b[x].next].prev = x
          /\ x + HDR + b[x].size <= b[x].next
          /\ \A y \in DOMAIN b : y <= x \/ b[x].next <= y
      BY <1>3, <1>8, <3>1, Zenon DEF InOrder
    <3>3. b[x].next # n
      BY <1>2, <2>2, <3>2, Zenon
    <3>4. b[x].next # b[n].next
      <4> SUFFICES ASSUME b[x].next = b[n].next PROVE FALSE
        BY Zenon
      <4>1. b[b[n].next].prev = n
        BY <1>2, <1>8, <3>1, Zenon DEF InOrder
      <4> QED BY <1>3, <3>2, <4>1, Zenon
    <3> QED BY <1>3, <3>1, <3>2, <3>3, <3>4 DEF MergeOf
  <2> QED BY <2>1, <2>2, Zenon
<1>9. ASSUME NEW x \in DOMAIN c, x # BASE
      PROVE  c[x].prev \in DOMAIN c /\ c[c[x].prev].next = x
  <2>1. CASE x = b[n].next
    BY <1>3, <2>1, Zenon DEF MergeOf
  <2>2. CASE x # b[n].next
    <3>1. b[x].prev \in DOMAIN b /\ b[b[x].prev].next = x /\ c[x].prev = b[x].prev
      BY <1>3, <1>9, <2>2, Zenon DEF MergeOf, InOrder
    <3>2. b[x].prev # n /\ b[x].prev # a
      BY <1>3, <2>2, <3>1, Zenon
    <3> QED BY <1>3, <3>1, <3>2 DEF MergeOf
  <2> QED BY <2>1, <2>2, Zenon
<1> QED BY <1>3, <1>4, <1>5, <1>6, <1>7, <1>8, <1>9, Zenon DEF InOrder

\* What expand_heap makes of the list: a block at end, behind the last one, z.
ExpandOf(b, c, z, end, m) ==
  /\ c \in [DOMAIN b \union {end} -> Header]
  /\ c[end].size = m - end - HDR /\ c[end].free
  /\ c[end].next = NULL /\ c[end].prev = z
  /\ \A x \in DOMAIN b :
       /\ c[x].size = b[x].size /\ c[x].free = b[x].free /\ c[x].prev = b[x].prev
       /\ c[x].next = IF x = z THEN end ELSE b[x].next

LEMMA ExpandIs ==
  ASSUME NEW b, NEW end \in Nat, InOrder(b, end), NEW m \in Nat, end + HDR <= m,
         NEW z \in DOMAIN b
  PROVE  /\ end \notin DOMAIN b
         /\ ExpandOf(b, Put([b EXCEPT ![z].next = end], end,
                            [size |-> m - end - HDR, free |-> TRUE,
                             next |-> NULL, prev |-> z]), z, end, m)
<1>1. b \in [DOMAIN b -> Header] /\ z \in Nat /\ end \notin DOMAIN b
  BY Constants DEF InOrder, Header
<1> DEFINE cut == [b EXCEPT ![z].next = end]
           h == [size |-> m - end - HDR, free |-> TRUE, next |-> NULL, prev |-> z]
           c == Put(cut, end, h)
<1>2. h \in Header
  BY <1>1, Constants DEF Header
<1>3. /\ cut \in [DOMAIN b -> Header]
      /\ \A x \in DOMAIN b :
           /\ cut[x].size = b[x].size /\ cut[x].free = b[x].free
           /\ cut[x].prev = b[x].prev
           /\ cut[x].next = IF x = z THEN end ELSE b[x].next
  BY <1>1, Zenon DEF Header
<1>4. h.size = m - end - HDR /\ h.free /\ h.next = NULL /\ h.prev = z
  BY Zenon
<1> HIDE DEF cut, h
<1>5. /\ c \in [DOMAIN b \union {end} -> Header] /\ c[end] = h
      /\ \A x \in DOMAIN b : c[x] = cut[x]
  BY <1>1, <1>2, <1>3, Zenon DEF Put
<1> HIDE DEF c
<1>6. ExpandOf(b, c, z, end, m)
  BY <1>3, <1>4, <1>5 DEF ExpandOf
<1> QED BY <1>1, <1>6, Zenon DEF c, cut, h

\* An expansion leaves the chain in order.
LEMMA ExpandInOrder ==
  ASSUME NEW b, NEW end \in Nat, InOrder(b, end), NEW m \in Nat, end + HDR <= m,
         NEW z \in DOMAIN b, b[z].next = NULL, NEW c, ExpandOf(b, c, z, end, m)
  PROVE  InOrder(c, m)
<1>1. \A x \in DOMAIN b : /\ x \in Nat /\ b[x].size \in Nat /\ b[x].next \in Nat
                          /\ b[x].prev \in Nat /\ BASE <= x /\ x + HDR + b[x].size <= end
                          /\ x # NULL
  BY Constants DEF InOrder, Header
<1>2. end \notin DOMAIN b /\ z < end /\ end # NULL /\ end # BASE /\ BASE <= end
  BY <1>1, Constants DEF InOrder
<1>8. /\ DOMAIN c = DOMAIN b \union {end} /\ c \in [DOMAIN c -> Header]
      /\ c[end].size = m - end - HDR /\ c[end].next = NULL /\ c[end].prev = z
      /\ \A x \in DOMAIN b :
           /\ c[x].size = b[x].size /\ c[x].prev = b[x].prev
           /\ c[x].next = IF x = z THEN end ELSE b[x].next
  BY Zenon DEF ExpandOf
<1>9. \A y \in DOMAIN b : y <= z
  BY Zenon DEF InOrder
<1>10. \A x \in DOMAIN b : x # z => b[x].next # NULL
  <2> TAKE x \in DOMAIN b
  <2>1. b[x].next = NULL => z <= x
    BY Zenon DEF InOrder
  <2> QED BY <1>1, <1>9, <2>1
<1>11. \A x \in DOMAIN c : x \in Nat /\ BASE <= x /\ x + HDR + c[x].size <= m
  BY <1>1, <1>2, <1>8, Constants
<1>12. BASE \in DOMAIN c /\ c[BASE].prev = NULL
  BY <1>8, Zenon DEF InOrder
<1>13. \A x \in DOMAIN c : c[x].next = NULL => \A y \in DOMAIN c : y <= x
  <2> TAKE x \in DOMAIN c
  <2> HAVE c[x].next = NULL
  <2>1. x = end
    BY <1>2, <1>8, <1>10, Zenon
  <2>2. \A y \in DOMAIN c : y \in Nat /\ y <= end
    BY <1>1, <1>8, Constants
  <2> QED BY <2>1, <2>2, Zenon
<1>14. ASSUME NEW x \in DOMAIN c, c[x].next # NULL
       PROVE  /\ c[x].next \in DOMAIN c /\ c[c[x].next].prev = x
              /\ x + HDR + c[x].size <= c[x].next
              /\ \A y \in DOMAIN c : y <= x \/ c[x].next <= y
  <2>1. x \in DOMAIN b
    BY <1>8, <1>14, Zenon
  <2>2. CASE x = z
    BY <1>1, <1>8, <1>9, <2>1, <2>2
  <2>3. CASE x # z
    <3>1. /\ b[x].next \in DOMAIN b /\ b[b[x].next].prev = x /\ c[x].next = b[x].next
          /\ x + HDR + b[x].size <= b[x].next
          /\ \A y \in DOMAIN b : y <= x \/ b[x].next <= y
      BY <1>8, <1>10, <2>1, <2>3, Zenon DEF InOrder
    <3>2. b[x].next <= end
      BY <1>1, <3>1, Constants
    <3> QED BY <1>8, <2>1, <3>1, <3>2, Zenon
  <2> QED BY <2>2, <2>3, Zenon
<1>15. \A x \in DOMAIN c : x # BASE => c[x].prev \in DOMAIN c /\ c[c[x].prev].next = x
  <2> TAKE x \in DOMAIN c
  <2> HAVE x # BASE
  <2>1. CASE x = end
    BY <1>8, <2>1, Zenon
  <2>2. CASE x \in DOMAIN b
    <3>1. b[x].prev \in DOMAIN b /\ b[b[x].prev].next = x
      BY <2>2, Zenon DEF InOrder
    <3>2. b[x].prev # z
      BY <1>1, <2>2, <3>1, Zenon
    <3> QED BY <1>8, <2>2, <3>1, <3>2
  <2> QED BY <1>8, <2>1, <2>2, Zenon
<1> QED BY <1>8, <1>11, <1>12, <1>13, <1>14, <1>15, Zenon DEF InOrder

-----------------------------------------------------------------------------
(* Counting.                                                               *)

Block(b, x) == x .. x + HDR + b[x].size - 1
Units(b, S) == UNION {Block(b, x) : x \in S}
Bytes(b, S) == Cardinality(Units(b, S))

LEMMA BytesOfIs == \A S : BytesOf(S) = Bytes(blk, S)
BY Zenon DEF BytesOf, Bytes, Units, Block

\* Blocks of the same sizes take as much.
LEMMA BytesSame ==
  ASSUME NEW b, NEW c, NEW S, \A x \in S : c[x].size = b[x].size
  PROVE  Bytes(c, S) = Bytes(b, S)
<1>1. \A x \in S : Block(c, x) = Block(b, x)
  BY Zenon DEF Block
<1>2. Units(c, S) = Units(b, S)
  BY <1>1, Zenon DEF Units
<1> QED BY <1>2, Zenon DEF Bytes

LEMMA BytesType ==
  ASSUME NEW b, NEW end \in Nat, InOrder(b, end), NEW S \in SUBSET (DOMAIN b)
  PROVE  IsFiniteSet(Units(b, S)) /\ Bytes(b, S) \in Nat
<1>1. Units(b, S) \subseteq 0 .. end
  <2>1. \A x \in S : Block(b, x) \subseteq 0 .. end
    BY Constants DEF Block, InOrder, Header
  <2> QED BY <2>1, Zenon DEF Units
<1>2. IsFiniteSet(0 .. end)
  BY FS_Interval
<1>3. IsFiniteSet(Units(b, S))
  BY <1>1, <1>2, FS_Subset, Zenon
<1> QED BY <1>3, FS_CardinalityType, Zenon DEF Bytes

LEMMA IntervalSize ==
  ASSUME NEW x \in Nat, NEW n \in Nat
  PROVE  IsFiniteSet(x .. x + n - 1) /\ Cardinality(x .. x + n - 1) = n
BY FS_Interval

\* A block more counts with its size and its header.
LEMMA BytesAdd ==
  ASSUME NEW b, NEW end \in Nat, InOrder(b, end), NEW S \in SUBSET (DOMAIN b),
         NEW y \in DOMAIN b \ S
  PROVE  Bytes(b, S \union {y}) = Bytes(b, S) + b[y].size + HDR
<1>1. Units(b, S \union {y}) = Units(b, S) \union Block(b, y)
  BY Zenon DEF Units
<1>2. Units(b, S) \intersect Block(b, y) = {}
  <2>1. \A x \in S : Block(b, x) \intersect Block(b, y) = {}
    <3> TAKE x \in S
    <3>1. x < y => x + HDR + b[x].size <= y
      BY NoOverlap, Zenon
    <3>2. y < x => y + HDR + b[y].size <= x
      BY NoOverlap, Zenon
    <3>3. x \in Nat /\ y \in Nat /\ x # y /\ b[x].size \in Nat /\ b[y].size \in Nat
      BY Zenon DEF InOrder, Header
    <3> QED BY <3>1, <3>2, <3>3, Constants DEF Block
  <2> QED BY <2>1, Zenon DEF Units
<1>3. y \in Nat /\ b[y].size \in Nat
  BY Zenon DEF InOrder, Header
<1>4. IsFiniteSet(Block(b, y)) /\ Cardinality(Block(b, y)) = b[y].size + HDR
  <2>1. b[y].size + HDR \in Nat
    BY <1>3, Constants
  <2>2. Block(b, y) = y .. y + (b[y].size + HDR) - 1
    BY <1>3, Constants DEF Block
  <2> QED BY <1>3, <2>1, <2>2, IntervalSize
<1>5. IsFiniteSet(Units(b, S)) /\ Bytes(b, S) \in Nat
  BY BytesType, Zenon
<1>6. Cardinality(Units(b, S) \union Block(b, y)) =
        Cardinality(Units(b, S)) + Cardinality(Block(b, y)) - Cardinality({})
  BY <1>2, <1>4, <1>5, FS_Union
<1>7. Cardinality({}) = 0
  BY FS_EmptySet, Zenon
<1>8. Bytes(b, S \union {y}) = Bytes(b, S) + (b[y].size + HDR) - 0
  BY <1>1, <1>4, <1>6, <1>7, Zenon DEF Bytes
<1> QED BY <1>3, <1>5, <1>8, Constants

\* A split divides what the block took.
LEMMA SplitBytes ==
  ASSUME NEW b, NEW end \in Nat, InOrder(b, end), NEW a \in DOMAIN b,
         size \in Nat, NEW c, InOrder(c, end), NEW n, n \notin DOMAIN b,
         SplitOf(b, c, a, n)
  PROVE  Bytes(c, DOMAIN c) = Bytes(b, DOMAIN b)
<1> DEFINE S == DOMAIN b \ {a}
<1>1. DOMAIN c = (S \union {a}) \union {n} /\ DOMAIN b = S \union {a}
  BY Zenon DEF SplitOf
<1>2. S \in SUBSET (DOMAIN c) /\ a \in DOMAIN c \ S
  BY <1>1, Zenon
<1>3. S \union {a} \in SUBSET (DOMAIN c) /\ n \in DOMAIN c \ (S \union {a})
  BY <1>1, Zenon
<1>4. Bytes(c, S) = Bytes(b, S)
  BY BytesSame DEF SplitOf
<1>5. Bytes(c, S \union {a}) = Bytes(c, S) + c[a].size + HDR
  <2> HIDE DEF S
  <2> QED BY <1>2, BytesAdd, Zenon
<1>6. Bytes(c, (S \union {a}) \union {n}) = Bytes(c, S \union {a}) + c[n].size + HDR
  <2> HIDE DEF S
  <2> QED BY <1>3, BytesAdd, Zenon
<1>7. Bytes(b, S \union {a}) = Bytes(b, S) + b[a].size + HDR
  <2>1. S \in SUBSET (DOMAIN b) /\ a \in DOMAIN b \ S
    BY Zenon
  <2> HIDE DEF S
  <2> QED BY <2>1, BytesAdd, Zenon
<1>8. Bytes(b, S) \in Nat
  BY BytesType, Zenon
<1>9. /\ c[a].size = size /\ c[n].size = b[a].size - size - HDR /\ b[a].size \in Nat
  BY DEF SplitOf, InOrder, Header
<1> HIDE DEF S
<1> QED BY <1>1, <1>4, <1>5, <1>6, <1>7, <1>8, <1>9, Constants

\* A merge takes together what the two blocks took.
LEMMA MergeBytes ==
  ASSUME NEW b, NEW end \in Nat, InOrder(b, end), NEW a \in DOMAIN b, NEW c,
         InOrder(c, end), NEW n \in DOMAIN b, n # a, MergeOf(b, c, a, n)
  PROVE  Bytes(c, DOMAIN c) = Bytes(b, DOMAIN b)
<1> DEFINE S == (DOMAIN b \ {a}) \ {n}
<1>1. DOMAIN b = (S \union {a}) \union {n} /\ DOMAIN c = S \union {a}
  <2>1. DOMAIN c = DOMAIN b \ {n}
    BY Zenon DEF MergeOf
  <2> QED BY <2>1, Zenon
<1>2. /\ S \in SUBSET (DOMAIN c) /\ a \in DOMAIN c \ S
      /\ S \in SUBSET (DOMAIN b) /\ a \in DOMAIN b \ S
      /\ S \union {a} \in SUBSET (DOMAIN b) /\ n \in DOMAIN b \ (S \union {a})
  BY <1>1, Zenon
<1>4. Bytes(c, S) = Bytes(b, S)
  BY BytesSame DEF MergeOf
<1>8. Bytes(b, S) \in Nat
  BY BytesType, Zenon
<1>9. /\ c[a].size = b[a].size + HDR + b[n].size /\ b[a].size \in Nat
      /\ b[n].size \in Nat
  BY DEF MergeOf, InOrder, Header
<1> HIDE DEF S
<1>5. Bytes(c, S \union {a}) = Bytes(c, S) + c[a].size + HDR
  BY <1>2, BytesAdd, Zenon
<1>6. Bytes(b, S \union {a}) = Bytes(b, S) + b[a].size + HDR
  BY <1>2, BytesAdd, Zenon
<1>7. Bytes(b, (S \union {a}) \union {n}) = Bytes(b, S \union {a}) + b[n].size + HDR
  BY <1>2, BytesAdd, Zenon
<1> QED BY <1>1, <1>4, <1>5, <1>6, <1>7, <1>8, <1>9, Constants

-----------------------------------------------------------------------------
(* coalesce.                                                               *)

\* Blocks in use are in c what they are in b, and the heap is as large.
Kept(b, c) ==
  /\ DOMAIN c \subseteq DOMAIN b
  /\ \A x \in DOMAIN b : ~ b[x].free => x \in DOMAIN c /\ c[x].size = b[x].size
  /\ \A x \in DOMAIN c : c[x].free = b[x].free
  /\ Bytes(c, DOMAIN c) = Bytes(b, DOMAIN b)

LEMMA KeptTrans ==
  ASSUME NEW b, NEW c, NEW d, Kept(b, c), Kept(c, d)
  PROVE  Kept(b, d)
BY Zenon DEF Kept

\* Two free neighbours may be merged.
LEMMA MergeKeeps ==
  ASSUME NEW b, NEW end \in Nat, InOrder(b, end), NEW a \in DOMAIN b,
         b[a].next # NULL, b[a].free, b[b[a].next].free
  PROVE  /\ InOrder(Merge(b, a), end) /\ Kept(b, Merge(b, a))
         /\ MergeOf(b, Merge(b, a), a, b[a].next)
<1> DEFINE n == b[a].next
           c == Merge(b, a)
<1>1. MergeOf(b, c, a, n)
  BY MergeIs, Zenon
<1>2. InOrder(c, end)
  <2> HIDE DEF c, n
  <2>1. n = b[a].next
    BY Zenon DEF n
  <2> QED BY <1>1, <2>1, MergeInOrder, Zenon
<1>3. n \in DOMAIN b /\ n # a
  <2>1. n \in DOMAIN b /\ a + HDR + b[a].size <= n /\ a \in Nat /\ b[a].size \in Nat
    BY Zenon DEF InOrder, Header
  <2> QED BY <2>1, Constants
<1>4. Bytes(c, DOMAIN c) = Bytes(b, DOMAIN b)
  <2> HIDE DEF c, n
  <2> QED BY <1>1, <1>2, <1>3, MergeBytes
<1> HIDE DEF c
<1>5. Kept(b, c)
  BY <1>1, <1>3, <1>4, Zenon DEF Kept, MergeOf
<1> QED BY <1>1, <1>2, <1>5, Zenon DEF c

\* Neighbours are not both free, but for a and its neighbours.
MergedBut(b, a) ==
  \A x \in DOMAIN b :
    b[x].free /\ b[x].next # NULL /\ x # a /\ b[x].next # a => ~ b[b[x].next].free

\* coalesce keeps the chain in order and the blocks in use as they are, and no
\* neighbour of the block is left that could be merged with it.
LEMMA CoalesceKeeps ==
  ASSUME NEW b, NEW end \in Nat, InOrder(b, end), NEW a \in DOMAIN b, b[a].free
  PROVE  /\ InOrder(coalesce(b, a), end) /\ Kept(b, coalesce(b, a))
         /\ MergedBut(b, a) => Merged(coalesce(b, a))
<1> DEFINE c == IF b[a].next # NULL /\ b[b[a].next].free THEN Merge(b, a) ELSE b
           p == c[a].prev
           d == IF p # NULL /\ c[p].free THEN Merge(c, p) ELSE c
<1>1. coalesce(b, a) = d
  BY Zenon DEF coalesce
<1>2. /\ InOrder(c, end) /\ Kept(b, c) /\ a \in DOMAIN c /\ c[a].free
      /\ c[a].next # NULL => ~ c[c[a].next].free \/ ~ MergedBut(b, a)
      /\ MergedBut(b, a) => \A x \in DOMAIN c :
           c[x].free /\ c[x].next # NULL /\ c[x].next # a => ~ c[c[x].next].free
  <2>1. CASE b[a].next # NULL /\ b[b[a].next].free
    <3> DEFINE n == b[a].next
    <3>1. /\ InOrder(c, end) /\ Kept(b, c) /\ MergeOf(b, c, a, n)
      BY <2>1, MergeKeeps, Zenon
    <3>2. n \in DOMAIN b /\ n # a /\ b[n].next # n
      BY <2>1, Constants DEF InOrder, Header
    <3>3. a \in DOMAIN c /\ c[a].free /\ c[a].next = b[n].next
      BY <3>1, <3>2, Zenon DEF MergeOf
    <3> HIDE DEF c
    <3>4. ASSUME MergedBut(b, a), NEW x \in DOMAIN c, c[x].free, c[x].next # NULL,
                 c[x].next # a
          PROVE  ~ c[c[x].next].free
      <4>1. c[x].next \in DOMAIN c /\ x \in DOMAIN b /\ x # n
        BY <3>1, <3>4 DEF InOrder, MergeOf
      <4>2. c[c[x].next].free = b[c[x].next].free
        BY <3>1, <4>1, Zenon DEF MergeOf
      <4>3. CASE x = a
        BY <2>1, <3>2, <3>3, <3>4, <4>2, <4>3, Zenon DEF MergedBut
      <4>4. CASE x # a
        BY <3>1, <3>4, <4>1, <4>2, <4>4 DEF MergedBut, MergeOf
      <4> QED BY <4>3, <4>4, Zenon
    <3>5. c[a].next # NULL => c[a].next # a
      BY <3>1, <3>3, Constants DEF InOrder, Header
    <3> QED BY <3>1, <3>3, <3>4, <3>5, Zenon
  <2>2. CASE ~ (b[a].next # NULL /\ b[b[a].next].free)
    <3>1. c = b
      BY <2>2, Zenon
    <3>2. Kept(b, b)
      BY Zenon DEF Kept
    <3> HIDE DEF c
    <3> QED BY <2>2, <3>1, <3>2, Zenon DEF MergedBut
  <2> QED BY <2>1, <2>2, Zenon
<1> HIDE DEF c
<1>3. CASE p # NULL /\ c[p].free
  <2>1. a # BASE /\ p \in DOMAIN c /\ c[p].next = a
    BY <1>2, <1>3, Zenon DEF InOrder
  <2>2. a # NULL /\ p # a
    BY <1>2, <2>1, Constants DEF InOrder, Header
  <2>3. InOrder(d, end) /\ Kept(c, d) /\ MergeOf(c, d, p, a)
    BY <1>2, <1>3, <2>1, <2>2, MergeKeeps, Zenon
  <2>4. Kept(b, d)
    <3> HIDE DEF d
    <3> QED BY <1>2, <2>3, KeptTrans, Zenon
  <2> HIDE DEF d
  <2>5. ASSUME MergedBut(b, a) PROVE Merged(d)
    <3> SUFFICES ASSUME NEW x \in DOMAIN d, d[x].free, d[x].next # NULL
                 PROVE  ~ d[d[x].next].free
      BY Zenon DEF Merged
    <3>1. d[x].next \in DOMAIN d /\ x \in DOMAIN c /\ x # a
      BY <2>3 DEF InOrder, MergeOf
    <3>2. d[d[x].next].free = c[d[x].next].free /\ d[x].free = c[x].free
      BY <2>3, <3>1, Zenon DEF MergeOf
    <3>3. CASE x = p
      BY <1>2, <2>3, <2>5, <3>1, <3>2, <3>3, Zenon DEF MergeOf
    <3>4. CASE x # p
      <4>1. d[x].next = c[x].next /\ d[x].next # a
        BY <2>3, <3>1, <3>4 DEF MergeOf
      <4> QED BY <1>2, <2>5, <3>1, <3>2, <4>1, Zenon
    <3> QED BY <3>3, <3>4, Zenon
  <2> QED BY <1>1, <2>3, <2>4, <2>5, Zenon
<1>4. CASE ~ (p # NULL /\ c[p].free)
  <2>1. d = c
    BY <1>4, Zenon
  <2> HIDE DEF d
  <2>2. ASSUME MergedBut(b, a) PROVE Merged(c)
    <3> SUFFICES ASSUME NEW x \in DOMAIN c, c[x].free, c[x].next # NULL
                 PROVE  ~ c[c[x].next].free
      BY Zenon DEF Merged
    <3>1. CASE c[x].next = a
      <4>1. p = x
        BY <1>2, <3>1, Zenon DEF InOrder
      <4>2. x # NULL
        BY Constants, <1>2 DEF InOrder
      <4> QED BY <1>4, <4>1, <4>2, Zenon
    <3>2. CASE c[x].next # a
      BY <1>2, <2>2, <3>2, Zenon
    <3> QED BY <3>1, <3>2, Zenon
  <2> QED BY <1>1, <1>2, <2>1, <2>2, Zenon
<1> QED BY <1>3, <1>4, Zenon

-----------------------------------------------------------------------------
(* The inductive invariant.                                                *)

InUse(b) == {x \in DOMAIN b : ~ b[x].free}

\* The list, and what the clients hold: the blocks in use, and nothing else.
ListOK ==
  /\ next_virt \in Nat /\ VBASE <= next_virt
  /\ InOrder(blk, next_virt)
  /\ next_virt = VBASE => Merged(blk)

HeldOK ==
  /\ \A p \in DOMAIN live : /\ p \in Nat /\ p - HDR \in DOMAIN blk
                            /\ ~ blk[p - HDR].free
                            /\ live[p] \in Nat /\ live[p] <= blk[p - HDR].size
  /\ \A a \in DOMAIN blk : ~ blk[a].free => a + HDR \in DOMAIN live

\* The calls under way: the cursor is on the list, and the block that realloc
\* is to replace is held and smaller than what was asked for.
CallOK ==
  /\ pc \in {"idle", "scan", "copy", "overrun"}
  /\ pc = "scan" =>
       /\ current = NULL \/ current \in DOMAIN blk
       /\ size \in Nat /\ asked \in Nat /\ asked <= size
       /\ old # NULL => old \in DOMAIN live /\ blk[old - HDR].size < asked
  /\ pc = "copy" =>
       /\ old \in DOMAIN live /\ new \in DOMAIN live /\ old # new
       /\ blk[old - HDR].size <= blk[new - HDR].size

CountsOK ==
  /\ total_heap_size = Bytes(blk, DOMAIN blk)
  /\ used_heap_size = HDR + Bytes(blk, InUse(blk))

HeapInv == ListOK /\ HeldOK /\ CallOK /\ CountsOK

\* heap_init: one free block.
LEMMA InitInv == Init => HeapInv
<1> SUFFICES ASSUME Init PROVE HeapInv
  BY Zenon
<1> DEFINE h == [size |-> INITIAL - HDR, free |-> TRUE, next |-> NULL, prev |-> NULL]
<1>1. h \in Header /\ h.size = INITIAL - HDR /\ h.free /\ h.next = NULL /\ h.prev = NULL
  BY Constants DEF Header
<1>2. blk = [a \in {BASE} |-> h]
  BY Zenon DEF Init
<1> HIDE DEF h
<1>3. DOMAIN blk = {BASE} /\ blk[BASE] = h /\ blk \in [DOMAIN blk -> Header]
  BY <1>1, <1>2, Zenon
<1>4. InOrder(blk, VBASE)
  BY <1>1, <1>3, Constants DEF InOrder
<1>5. ListOK
  BY <1>1, <1>3, <1>4, Constants DEF ListOK, Init, Merged
<1>6. HeldOK /\ CallOK
  BY <1>1, <1>3, Zenon DEF HeldOK, CallOK, Init
<1>7. Bytes(blk, {}) = 0
  BY FS_EmptySet, Zenon DEF Bytes, Units
<1>8. Bytes(blk, {} \union {BASE}) = Bytes(blk, {}) + blk[BASE].size + HDR
  BY <1>3, <1>4, BytesAdd, Constants, Zenon
<1>9. InUse(blk) = {} /\ DOMAIN blk = {} \union {BASE}
  BY <1>1, <1>3, Zenon DEF InUse
<1>10. CountsOK
  <2>1. Bytes(blk, DOMAIN blk) = 0 + (INITIAL - HDR) + HDR
    BY <1>1, <1>3, <1>7, <1>8, <1>9, Zenon
  <2>2. total_heap_size = INITIAL /\ used_heap_size = HDR
    BY Zenon DEF Init
  <2>3. used_heap_size = HDR + Bytes(blk, InUse(blk))
    BY <1>7, <1>9, <2>2, Constants
  <2> QED BY <2>1, <2>2, <2>3, Constants DEF CountsOK
<1> QED BY <1>5, <1>6, <1>10, Zenon DEF HeapInv

-----------------------------------------------------------------------------
(* malloc takes a block.                                                   *)

\* The list before the flag is cleared: blk, or blk with block a split.
Prepared(b, a) ==
  /\ InOrder(b, next_virt) /\ a \in DOMAIN blk /\ DOMAIN blk \subseteq DOMAIN b
  /\ b[a].size >= size
  /\ \A x \in DOMAIN blk : b[x].free = blk[x].free
  /\ \A x \in DOMAIN blk \ {a} : b[x].size = blk[x].size
  /\ \A x \in DOMAIN b \ DOMAIN blk : b[x].free
  /\ Bytes(b, DOMAIN b) = Bytes(blk, DOMAIN blk)
  /\ Merged(blk) => MergedBut(b, a)

LEMMA TakePrepares ==
  ASSUME ListOK, size \in Nat, NEW a \in DOMAIN blk, Fits(a)
  PROVE  Prepared(IF Splits(a) THEN Split(blk, a) ELSE blk, a)
<1>1. InOrder(blk, next_virt) /\ next_virt \in Nat
  BY Zenon DEF ListOK
<1>2. blk[a].free /\ blk[a].size \in Nat /\ blk[a].size >= size
  BY <1>1, Zenon DEF Fits, InOrder, Header
<1>3. CASE Splits(a)
  <2> DEFINE n == a + HDR + size
             b == Split(blk, a)
  <2>1. blk[a].size >= size + HDR
    BY <1>2, <1>3, Constants DEF Splits
  <2>2. n \notin DOMAIN blk /\ SplitOf(blk, b, a, n)
    BY <1>1, <2>1, SplitIs, Zenon
  <2>3. InOrder(b, next_virt)
    <3>1. n = a + HDR + size
      BY Zenon
    <3> HIDE DEF b, n
    <3> QED BY <1>1, <2>1, <2>2, <3>1, SplitInOrder, Zenon
  <2> HIDE DEF b, n
  <2>4. Bytes(b, DOMAIN b) = Bytes(blk, DOMAIN blk)
    BY <1>1, <2>2, <2>3, SplitBytes, Zenon
  <2>5. DOMAIN b = DOMAIN blk \union {n}
    BY <2>2, Zenon DEF SplitOf
  <2>6. ASSUME Merged(blk), NEW x \in DOMAIN b, b[x].free, b[x].next # NULL,
               x # a, b[x].next # a
        PROVE  ~ b[b[x].next].free
    <3>1. CASE x = n
      <4>1. b[x].next = blk[a].next /\ blk[a].next \in DOMAIN blk
        BY <1>1, <2>2, <2>6, <3>1, Zenon DEF SplitOf, InOrder
      <4> QED BY <1>2, <2>2, <2>6, <4>1, Zenon DEF SplitOf, Merged
    <3>2. CASE x \in DOMAIN blk
      <4>1. b[x].next = blk[x].next /\ blk[x].next \in DOMAIN blk /\ blk[x].free
        BY <1>1, <2>2, <2>6, <3>2 DEF SplitOf, InOrder
      <4> QED BY <2>2, <2>6, <3>2, <4>1 DEF SplitOf, Merged
    <3> QED BY <2>5, <3>1, <3>2, Zenon
  <2>7. Merged(blk) => MergedBut(b, a)
    BY <2>6, Zenon DEF MergedBut
  <2>8. Prepared(b, a)
    BY <2>2, <2>3, <2>4, <2>5, <2>7 DEF Prepared, SplitOf
  <2> QED BY <1>3, <2>8, Zenon DEF b
<1>4. CASE ~ Splits(a)
  BY <1>1, <1>2, <1>4, Zenon DEF Prepared, Merged, MergedBut
<1> QED BY <1>3, <1>4, Zenon

\* The client gets a block that nobody held and that is large enough.
LEMMA TakeInv ==
  ASSUME HeapInv, pc = "scan", NEW a \in DOMAIN blk, a = current, Fits(a), Take(a)
  PROVE  HeapInv'
<1> DEFINE b == IF Splits(a) THEN Split(blk, a) ELSE blk
<1>1. Prepared(b, a)
  BY TakePrepares, Zenon DEF HeapInv, CallOK
<1>2. /\ blk' = [b EXCEPT ![a].free = FALSE]
      /\ used_heap_size' = used_heap_size + b[a].size + HDR
      /\ live' = Put(live, a + HDR, asked)
      /\ \/ old = NULL /\ Return
         \/ /\ old # NULL
            /\ pc' = "copy"
            /\ new' = a + HDR
            /\ UNCHANGED <<current, size, asked, old>>
      /\ UNCHANGED <<total_heap_size, next_virt>>
  BY Zenon DEF Take
<1> HIDE DEF b
<1>3. /\ ListOK /\ HeldOK /\ CallOK /\ CountsOK /\ next_virt \in Nat
      /\ size \in Nat /\ asked \in Nat /\ asked <= size /\ blk[a].free
      /\ InOrder(b, next_virt) /\ a \in DOMAIN b
  BY <1>1, Zenon DEF HeapInv, ListOK, CallOK, Fits, Prepared
<1>4. /\ InOrder(blk', next_virt) /\ DOMAIN blk' = DOMAIN b
      /\ \A x \in DOMAIN b :
           blk'[x] = IF x = a THEN [b[x] EXCEPT !.free = FALSE] ELSE b[x]
  BY <1>2, <1>3, FlagInOrder, Zenon
<1>5. /\ ~ blk'[a].free
      /\ \A x \in DOMAIN b : /\ blk'[x].size = b[x].size /\ blk'[x].next = b[x].next
                             /\ x # a => blk'[x].free = b[x].free
  BY <1>3, <1>4 DEF InOrder, Header
<1>6. ListOK'
  <2>1. ASSUME Merged(blk) PROVE Merged(blk')
    <3> SUFFICES ASSUME NEW x \in DOMAIN blk', blk'[x].free, blk'[x].next # NULL
                 PROVE  ~ blk'[blk'[x].next].free
      BY Zenon DEF Merged
    <3>1. x # a /\ x \in DOMAIN b /\ b[x].next \in DOMAIN b /\ b[x].free
      BY <1>4, <1>5, Zenon DEF InOrder
    <3>2. MergedBut(b, a)
      BY <1>1, <2>1, Zenon DEF Prepared
    <3> QED BY <1>5, <3>1, <3>2 DEF MergedBut
  <2> QED BY <1>2, <1>3, <1>4, <2>1, Zenon DEF ListOK
<1>7. /\ DOMAIN live' = DOMAIN live \union {a + HDR} /\ live'[a + HDR] = asked
      /\ \A p \in DOMAIN live : p # a + HDR => live'[p] = live[p]
  BY <1>2, Zenon DEF Put
<1>8. /\ a \in Nat /\ (a + HDR) - HDR = a /\ a + HDR \in Nat /\ b[a].size \in Nat
      /\ b[a].size >= size
  BY <1>1, <1>3, Constants DEF InOrder, Header, Prepared
<1>9. \A p \in DOMAIN live : /\ p - HDR \in DOMAIN blk' /\ p - HDR # a /\ p # a + HDR
                             /\ blk'[p - HDR].size = blk[p - HDR].size
                             /\ ~ blk'[p - HDR].free
  <2> TAKE p \in DOMAIN live
  <2>1. p - HDR \in DOMAIN blk /\ ~ blk[p - HDR].free /\ p \in Nat
    BY <1>3, Zenon DEF HeldOK
  <2>2. p - HDR # a
    BY <1>3, <2>1, Zenon
  <2>3. p # a + HDR
    BY <1>8, <2>2, Zenon
  <2> QED BY <1>1, <1>4, <1>5, <2>1, <2>2, <2>3, Zenon DEF Prepared
<1>10. HeldOK'
  <2>1. ASSUME NEW p \in DOMAIN live'
        PROVE  /\ p \in Nat /\ p - HDR \in DOMAIN blk' /\ ~ blk'[p - HDR].free
               /\ live'[p] \in Nat /\ live'[p] <= blk'[p - HDR].size
    <3>1. CASE p = a + HDR
      BY <1>3, <1>4, <1>5, <1>7, <1>8, <3>1
    <3>2. CASE p \in DOMAIN live
      BY <1>3, <1>7, <1>9, <3>2, Zenon DEF HeldOK
    <3> QED BY <1>7, <3>1, <3>2, Zenon
  <2>2. ASSUME NEW x \in DOMAIN blk', ~ blk'[x].free PROVE x + HDR \in DOMAIN live'
    <3>1. CASE x = a
      BY <1>7, <3>1, Zenon
    <3>2. CASE x # a
      BY <1>1, <1>3, <1>4, <1>5, <1>7, <2>2, <3>2, Zenon DEF Prepared, HeldOK
    <3> QED BY <3>1, <3>2, Zenon
  <2> QED BY <2>1, <2>2, Zenon DEF HeldOK
<1>11. CallOK'
  <2>1. CASE old = NULL /\ Return
    BY <2>1, Zenon DEF CallOK, Return
  <2>2. CASE /\ old # NULL /\ pc' = "copy" /\ new' = a + HDR
             /\ UNCHANGED <<current, size, asked, old>>
    <3>1. old \in DOMAIN live /\ blk[old - HDR].size < asked
      BY <1>3, <2>2, Zenon DEF CallOK
    <3>2. old \in DOMAIN live' /\ new' \in DOMAIN live' /\ old # new'
      BY <1>7, <1>9, <2>2, <3>1, Zenon
    <3>3. blk'[old - HDR].size = blk[old - HDR].size /\ blk'[new' - HDR].size = b[a].size
      BY <1>3, <1>5, <1>8, <1>9, <2>2, <3>1, Zenon
    <3>4. blk[old - HDR].size \in Nat
      BY <1>3, <3>1 DEF HeldOK, ListOK, InOrder, Header
    <3> QED BY <1>3, <1>8, <2>2, <3>1, <3>2, <3>3, <3>4 DEF CallOK
  <2> QED BY <1>2, <2>1, <2>2, Zenon
<1>12. CountsOK'
  <2>1. Bytes(blk', DOMAIN blk') = Bytes(b, DOMAIN b)
    BY <1>4, <1>5, BytesSame
  <2>2. InUse(blk') = InUse(blk) \union {a} /\ a \notin InUse(blk)
    BY <1>1, <1>3, <1>4, <1>5 DEF InUse, Prepared
  <2>3. InUse(blk) \in SUBSET (DOMAIN blk') /\ a \in DOMAIN blk' \ InUse(blk)
    BY <1>1, <1>4, <2>2, Zenon DEF InUse, Prepared
  <2>4. Bytes(blk', InUse(blk) \union {a}) = Bytes(blk', InUse(blk)) + blk'[a].size + HDR
    BY <1>3, <1>4, <2>3, BytesAdd, Zenon
  <2>5. \A x \in InUse(blk) : blk'[x].size = blk[x].size
    BY <1>1, <1>5, <2>2, Zenon DEF InUse, Prepared
  <2>6. Bytes(blk', InUse(blk)) = Bytes(blk, InUse(blk))
    BY <2>5, BytesSame, Zenon
  <2>7. Bytes(blk, InUse(blk)) \in Nat
    BY <1>3, BytesType, Zenon DEF ListOK, InUse
  <2>8. used_heap_size' = HDR + Bytes(blk', InUse(blk'))
    <3>1. used_heap_size = HDR + Bytes(blk, InUse(blk))
      BY <1>3, Zenon DEF CountsOK
    <3>2. Bytes(blk', InUse(blk')) = Bytes(blk, InUse(blk)) + b[a].size + HDR
      BY <1>3, <1>5, <2>2, <2>4, <2>6, Zenon
    <3> QED BY <1>2, <1>8, <2>7, <3>1, <3>2, Constants
  <2> QED BY <1>1, <1>2, <1>3, <2>1, <2>8, Zenon DEF CountsOK, Prepared
<1> QED BY <1>6, <1>10, <1>11, <1>12, Zenon DEF HeapInv

-----------------------------------------------------------------------------
(* expand_heap                                                             *)

LEMMA ExpandInv ==
  ASSUME HeapInv, expand_heap
  PROVE  HeapInv'
<1> DEFINE m == next_virt + Pages * PAGE
           z == Last
<1>1. /\ ListOK /\ HeldOK /\ CallOK /\ CountsOK /\ next_virt \in Nat /\ size \in Nat
      /\ pc = "scan" /\ InOrder(blk, next_virt) /\ VBASE <= next_virt
  BY Zenon DEF HeapInv, ListOK, CallOK, expand_heap
<1>2. Pages * PAGE \in Nat /\ Pages * PAGE >= size + HDR
  <2>1. size + HDR \in Nat
    BY <1>1, Constants
  <2> QED BY <2>1, RoundsUp, Constants, Zenon DEF Pages
<1>3. z \in DOMAIN blk /\ blk[z].next = NULL
  <2>1. \E x \in DOMAIN blk : blk[x].next = NULL
    BY <1>1, Zenon DEF InOrder
  <2> QED BY <2>1, Zenon DEF Last
<1> DEFINE k == Pages * PAGE
<1>4. /\ blk' = Put([blk EXCEPT ![z].next = next_virt], next_virt,
                    [size |-> k - HDR, free |-> TRUE, next |-> NULL, prev |-> z])
      /\ total_heap_size' = total_heap_size + k
      /\ next_virt' = next_virt + k
      /\ current' = BASE
      /\ UNCHANGED <<used_heap_size, live, pc, size, asked, old, new>>
  BY Zenon DEF expand_heap
<1> HIDE DEF z, k
<1>5. /\ k \in Nat /\ m = next_virt + k /\ m \in Nat /\ next_virt + HDR <= m
      /\ m - next_virt - HDR = k - HDR /\ HDR <= k /\ next_virt' = m /\ next_virt < m
  BY <1>1, <1>2, <1>4, Constants DEF k
<1> HIDE DEF m
<1>6. next_virt \notin DOMAIN blk /\ ExpandOf(blk, blk', z, next_virt, m)
  BY <1>1, <1>3, <1>4, <1>5, ExpandIs, Zenon
<1>7. InOrder(blk', m)
  BY <1>1, <1>3, <1>5, <1>6, ExpandInOrder, Zenon
<1>8. /\ DOMAIN blk' = DOMAIN blk \union {next_virt}
      /\ blk'[next_virt].size = k - HDR /\ blk'[next_virt].free
      /\ \A x \in DOMAIN blk : blk'[x].size = blk[x].size /\ blk'[x].free = blk[x].free
  BY <1>5, <1>6, Zenon DEF ExpandOf
<1>9. ListOK'
  BY <1>1, <1>5, <1>7, Constants DEF ListOK
<1>10. HeldOK'
  BY <1>1, <1>4, <1>8, Zenon DEF HeldOK
<1>11. CallOK'
  <2>1. BASE \in DOMAIN blk'
    BY <1>7, Zenon DEF InOrder
  <2>2. old # NULL => blk'[old - HDR].size = blk[old - HDR].size
    BY <1>1, <1>8, Zenon DEF CallOK, HeldOK
  <2> QED BY <1>1, <1>4, <2>1, <2>2, Zenon DEF CallOK
<1>12. CountsOK'
  <2>1. Bytes(blk', DOMAIN blk) = Bytes(blk, DOMAIN blk)
    BY <1>8, BytesSame, Zenon
  <2>2. Bytes(blk', DOMAIN blk \union {next_virt}) =
          Bytes(blk', DOMAIN blk) + blk'[next_virt].size + HDR
    BY <1>5, <1>6, <1>7, <1>8, BytesAdd
  <2>3. InUse(blk') = InUse(blk)
    BY <1>6, <1>8, Zenon DEF InUse
  <2>4. Bytes(blk', InUse(blk)) = Bytes(blk, InUse(blk))
    BY <1>8, BytesSame, Zenon DEF InUse
  <2>5. Bytes(blk, DOMAIN blk) \in Nat
    BY <1>1, BytesType, Zenon
  <2>6. total_heap_size = Bytes(blk, DOMAIN blk)
    BY <1>1, Zenon DEF CountsOK
  <2>7. Bytes(blk', DOMAIN blk') = Bytes(blk, DOMAIN blk) + (k - HDR) + HDR
    BY <1>8, <2>1, <2>2, Zenon
  <2>8. total_heap_size' = Bytes(blk', DOMAIN blk')
    BY <1>4, <1>5, <2>5, <2>6, <2>7, Constants
  <2>9. used_heap_size' = HDR + Bytes(blk', InUse(blk'))
    BY <1>1, <1>4, <2>3, <2>4, Zenon DEF CountsOK
  <2> QED BY <2>8, <2>9, Zenon DEF CountsOK
<1> QED BY <1>9, <1>10, <1>11, <1>12, Zenon DEF HeapInv

-----------------------------------------------------------------------------
(* free                                                                    *)

\* The block of p is given back, and all others stay with their clients.
LEMMA ReleaseInv ==
  ASSUME ListOK, HeldOK, CountsOK, NEW p \in DOMAIN live, Release(p),
         UNCHANGED <<total_heap_size, next_virt>>
  PROVE  /\ ListOK' /\ HeldOK' /\ CountsOK'
<1> DEFINE a == p - HDR
           b == [blk EXCEPT ![a].free = TRUE]
           c == coalesce(b, a)
<1>1. /\ blk' = c /\ live' = Drop(live, p)
      /\ used_heap_size' = used_heap_size - (blk[a].size + HDR)
  BY Zenon DEF Release
<1>2. /\ p \in Nat /\ a \in DOMAIN blk /\ ~ blk[a].free /\ a + HDR = p
      /\ InOrder(blk, next_virt) /\ next_virt \in Nat /\ a \in Nat /\ blk[a].size \in Nat
  BY Constants DEF HeldOK, ListOK, InOrder, Header
<1> HIDE DEF a, c
<1>3. /\ InOrder(b, next_virt) /\ DOMAIN b = DOMAIN blk
      /\ \A x \in DOMAIN blk :
           b[x] = IF x = a THEN [blk[x] EXCEPT !.free = TRUE] ELSE blk[x]
  BY <1>2, FlagInOrder, Zenon
<1> HIDE DEF b
<1>4. /\ b[a].free
      /\ \A x \in DOMAIN blk : /\ b[x].size = blk[x].size /\ b[x].next = blk[x].next
                               /\ x # a => b[x].free = blk[x].free
  BY <1>2, <1>3 DEF InOrder, Header
<1>5. /\ InOrder(c, next_virt) /\ Kept(b, c)
      /\ MergedBut(b, a) => Merged(c)
  BY <1>2, <1>3, <1>4, CoalesceKeeps, Zenon DEF c
<1>6. Merged(blk) => MergedBut(b, a)
  <2> SUFFICES ASSUME Merged(blk), NEW x \in DOMAIN b, b[x].free, b[x].next # NULL,
                      x # a, b[x].next # a
               PROVE  ~ b[b[x].next].free
    BY Zenon DEF MergedBut
  <2>1. b[x].next \in DOMAIN blk
    BY <1>3, Zenon DEF InOrder
  <2> QED BY <1>3, <1>4, <2>1, Zenon DEF Merged
<1>7. ListOK'
  BY <1>1, <1>5, <1>6, Zenon DEF ListOK
<1>8. /\ DOMAIN live' = DOMAIN live \ {p}
      /\ \A q \in DOMAIN live' : live'[q] = live[q]
  BY <1>1, Zenon DEF Drop
<1>9. InUse(c) = InUse(blk) \ {a}
  BY <1>2, <1>3, <1>4, <1>5 DEF InUse, Kept
<1>10. \A x \in InUse(c) : c[x].size = blk[x].size
  BY <1>3, <1>4, <1>5, <1>9, Zenon DEF InUse, Kept
<1>11. HeldOK'
  <2>1. ASSUME NEW q \in DOMAIN live'
        PROVE  /\ q \in Nat /\ q - HDR \in DOMAIN c /\ ~ c[q - HDR].free
               /\ live'[q] \in Nat /\ live'[q] <= c[q - HDR].size
    <3>1. /\ q \in DOMAIN live /\ q # p /\ q \in Nat /\ q - HDR \in InUse(blk)
          /\ live[q] \in Nat /\ live[q] <= blk[q - HDR].size
      BY <1>8, Zenon DEF HeldOK, InUse
    <3>2. q - HDR # a
      BY <1>2, <3>1, Constants
    <3>3. q - HDR \in InUse(c)
      BY <1>9, <3>1, <3>2, Zenon
    <3> QED BY <1>8, <1>10, <3>1, <3>3, Zenon DEF InUse
  <2>2. ASSUME NEW x \in DOMAIN c, ~ c[x].free PROVE x + HDR \in DOMAIN live'
    <3>1. x \in InUse(blk) /\ x # a
      BY <1>9, <2>2, Zenon DEF InUse
    <3>2. x + HDR \in DOMAIN live /\ x \in Nat
      BY <1>2, <3>1, Zenon DEF HeldOK, InUse, InOrder
    <3>3. x + HDR # p
      BY <1>2, <3>1, <3>2, Constants
    <3> QED BY <1>8, <3>2, <3>3, Zenon
  <2> QED BY <1>1, <2>1, <2>2, Zenon DEF HeldOK
<1>12. CountsOK'
  <2>1. Bytes(c, DOMAIN c) = Bytes(blk, DOMAIN blk)
    <3>1. Bytes(b, DOMAIN blk) = Bytes(blk, DOMAIN blk)
      BY <1>4, BytesSame, Zenon
    <3> QED BY <1>3, <1>5, <3>1, Zenon DEF Kept
  <2>2. Bytes(c, InUse(c)) = Bytes(blk, InUse(c))
    BY <1>10, BytesSame, Zenon
  <2>3. InUse(c) \in SUBSET (DOMAIN blk) /\ a \in DOMAIN blk \ InUse(c)
    BY <1>2, <1>9, Zenon DEF InUse
  <2>4. Bytes(blk, InUse(c) \union {a}) = Bytes(blk, InUse(c)) + blk[a].size + HDR
    BY <1>2, <2>3, BytesAdd, Zenon
  <2>5. InUse(blk) = InUse(c) \union {a}
    BY <1>2, <1>9, Zenon DEF InUse
  <2>6. Bytes(blk, InUse(c)) \in Nat
    BY <1>2, <2>3, BytesType, Zenon
  <2>7. used_heap_size = HDR + (Bytes(blk, InUse(c)) + blk[a].size + HDR)
    BY <2>4, <2>5, Zenon DEF CountsOK
  <2>8. used_heap_size' = HDR + Bytes(c, InUse(c))
    BY <1>1, <1>2, <2>2, <2>6, <2>7, Constants
  <2> QED BY <1>1, <2>1, <2>8, Zenon DEF CountsOK
<1> QED BY <1>7, <1>11, <1>12, Zenon

-----------------------------------------------------------------------------
(* The theorems.                                                           *)

\* Steps that leave the list and the counters alone.
LEMMA QuietInv ==
  ASSUME HeapInv, UNCHANGED <<blk, total_heap_size, used_heap_size, next_virt>>,
         HeldOK', CallOK'
  PROVE  HeapInv'
<1>1. ListOK'
  BY Zenon DEF HeapInv, ListOK, InOrder, Merged
<1>2. CountsOK'
  BY Zenon DEF HeapInv, CountsOK, InUse, Bytes, Units, Block
<1> QED BY <1>1, <1>2, Zenon DEF HeapInv

LEMMA NextInv ==
  ASSUME HeapInv, [Next]_vars
  PROVE  HeapInv'
<1>0. ListOK /\ HeldOK /\ CallOK /\ CountsOK /\ BASE \in DOMAIN blk
  BY Zenon DEF HeapInv, ListOK, InOrder
<1>1. ASSUME NEW n \in Requests, malloc(n) PROVE HeapInv'
  <2>1. n \in Nat /\ RoundUp(n) \in Nat /\ n <= RoundUp(n)
    BY RoundsUp, Constants, Zenon DEF RoundUp
  <2>2. HeldOK' /\ CallOK'
    BY <1>0, <1>1, <2>1, Zenon DEF malloc, Enter, HeldOK, CallOK
  <2> QED BY <1>1, <2>2, QuietInv, Zenon DEF malloc, Enter
<1>2. CASE next_block
  <2>1. HeldOK' /\ CallOK'
    BY <1>0, <1>2, Zenon DEF next_block, HeldOK, CallOK, ListOK, InOrder
  <2> QED BY <1>2, <2>1, QuietInv, Zenon DEF next_block
<1>3. CASE take_block
  <2>1. current \in DOMAIN blk /\ pc = "scan" /\ Fits(current)
    BY <1>0, <1>3, Zenon DEF take_block, CallOK
  <2>2. CASE Take(current)
    BY <2>1, <2>2, TakeInv, Zenon
  <2>3. CASE /\ pc' = "overrun"
             /\ UNCHANGED <<blk, total_heap_size, used_heap_size, next_virt, live,
                            locals>>
    <3>1. HeldOK' /\ CallOK'
      BY <1>0, <2>3, Zenon DEF HeldOK, CallOK
    <3> QED BY <2>3, <3>1, QuietInv, Zenon
  <2> QED BY <1>3, <2>2, <2>3, Zenon DEF take_block
<1>4. CASE expand_heap
  BY <1>4, ExpandInv, Zenon
<1>5. CASE malloc_fails
  <2>1. HeldOK' /\ CallOK'
    BY <1>0, <1>5, Zenon DEF malloc_fails, Return, HeldOK, CallOK
  <2> QED BY <1>5, <2>1, QuietInv, Zenon DEF malloc_fails
<1>6. ASSUME NEW p \in DOMAIN live, free(p) PROVE HeapInv'
  <2>1. ListOK' /\ HeldOK' /\ CountsOK'
    BY <1>0, <1>6, ReleaseInv, Zenon DEF free
  <2>2. CallOK'
    BY <1>6, Zenon DEF free, CallOK
  <2> QED BY <2>1, <2>2, Zenon DEF HeapInv
<1>7. ASSUME NEW p \in DOMAIN live, NEW n \in Requests, realloc(p, n) PROVE HeapInv'
  <2>0. n \in Nat /\ RoundUp(n) \in Nat /\ n <= RoundUp(n) /\ pc = "idle"
    BY <1>7, RoundsUp, Constants, Zenon DEF RoundUp, realloc
  <2>1. CASE /\ blk[p - HDR].size >= n /\ live' = Put(live, p, n)
             /\ UNCHANGED <<blk, total_heap_size, used_heap_size, next_virt, pc, locals>>
    <3>1. DOMAIN live' = DOMAIN live /\ live'[p] = n
          /\ \A q \in DOMAIN live : q # p => live'[q] = live[q]
      BY <2>1, Zenon DEF Put
    <3>2. blk[p - HDR].size \in Nat
      BY <1>0, Zenon DEF HeldOK, ListOK, InOrder, Header
    <3>3. HeldOK'
      BY <1>0, <2>0, <2>1, <3>1, <3>2, Zenon DEF HeldOK
    <3>4. CallOK'
      BY <2>0, <2>1, Zenon DEF CallOK
    <3> QED BY <2>1, <3>3, <3>4, QuietInv, Zenon
  <2>2. CASE /\ blk[p - HDR].size < n /\ Enter(n) /\ old' = p /\ new' = NULL
    <3>1. HeldOK' /\ CallOK'
      BY <1>0, <2>0, <2>2, Zenon DEF Enter, HeldOK, CallOK
    <3> QED BY <2>2, <3>1, QuietInv, Zenon DEF Enter
  <2> QED BY <1>7, <2>1, <2>2, Zenon DEF realloc
<1>8. CASE realloc_copy
  <2>1. old \in DOMAIN live
    BY <1>0, <1>8, Zenon DEF realloc_copy, CallOK
  <2>2. ListOK' /\ HeldOK' /\ CountsOK'
    BY <1>0, <1>8, <2>1, ReleaseInv, Zenon DEF realloc_copy
  <2>3. CallOK'
    BY <1>8, Zenon DEF realloc_copy, Return, CallOK
  <2> QED BY <2>2, <2>3, Zenon DEF HeapInv
<1>9. CASE UNCHANGED vars
  <2>1. HeldOK' /\ CallOK'
    BY <1>0, <1>9, Zenon DEF vars, HeldOK, CallOK
  <2> QED BY <1>9, <2>1, QuietInv, Zenon DEF vars
<1> QED BY <1>1, <1>2, <1>3, <1>4, <1>5, <1>6, <1>7, <1>8, <1>9, Zenon DEF Next

LEMMA HeapInvariant == Spec => []HeapInv
<1>1. HeapInv /\ [Next]_vars => HeapInv'
  BY NextInv, Zenon
<1> QED BY InitInv, <1>1, PTL DEF Spec

\* A block's successor is the least block behind it.
LEMMA NextIsMin ==
  ASSUME NEW b, NEW end, InOrder(b, end), NEW a \in DOMAIN b
  PROVE  LET later == {x \in DOMAIN b : x > a}
         IN  /\ later = {} => b[a].next = NULL
             /\ later # {} => b[a].next # NULL /\ b[a].next = Min(later)
<1> DEFINE later == {x \in DOMAIN b : x > a}
           n == b[a].next
<1>1. \A x \in DOMAIN b : x \in Nat /\ x # NULL
  BY Constants DEF InOrder
<1>2. n = NULL => later = {}
  BY <1>1 DEF InOrder
<1>3. n # NULL => n \in later /\ \A y \in later : n <= y
  BY <1>1, Constants DEF InOrder, Header
<1>4. ASSUME n # NULL PROVE n = Min(later)
  <2>1. Min(later) \in later /\ \A y \in later : Min(later) <= y
    BY <1>3, <1>4, Zenon DEF Min
  <2> QED BY <1>1, <1>3, <1>4, <2>1
<1> QED BY <1>2, <1>3, <1>4, Zenon

\* Whatever is allocated, freed and resized, in any order, the blocks make one
\* chain in the order of addresses, every link of which is undone by the link
\* back, and coalesce has left no two free neighbours unless the heap has grown.
THEOREM ListIsWellLinked == Spec => []WellLinked
<1>1. HeapInv => WellLinked
  <2> SUFFICES ASSUME HeapInv PROVE WellLinked
    BY Zenon
  <2>1. InOrder(blk, next_virt) /\ (next_virt = VBASE => Merged(blk))
    BY Zenon DEF HeapInv, ListOK
  <2>2. BASE \in DOMAIN blk /\ blk[BASE].prev = NULL
    BY <2>1, Zenon DEF InOrder
  <2>3. ASSUME NEW a \in DOMAIN blk
        PROVE  LET later == {x \in DOMAIN blk : x > a}
               IN  /\ blk[a].next = IF later = {} THEN NULL ELSE Min(later)
                   /\ later # {} => blk[Min(later)].prev = a
                   /\ next_virt = VBASE /\ blk[a].free /\ later # {} =>
                        ~ blk[Min(later)].free
    <3> DEFINE later == {x \in DOMAIN blk : x > a}
    <3>1. /\ later = {} => blk[a].next = NULL
          /\ later # {} => blk[a].next # NULL /\ blk[a].next = Min(later)
      BY <2>1, NextIsMin, Zenon
    <3>2. blk[a].next # NULL => blk[blk[a].next].prev = a
      BY <2>1, Zenon DEF InOrder
    <3>3. next_virt = VBASE /\ blk[a].free /\ blk[a].next # NULL =>
            ~ blk[blk[a].next].free
      BY <2>1, Zenon DEF Merged
    <3> HIDE DEF later
    <3>4. /\ blk[a].next = IF later = {} THEN NULL ELSE Min(later)
          /\ later # {} => blk[Min(later)].prev = a
          /\ next_virt = VBASE /\ blk[a].free /\ later # {} => ~ blk[Min(later)].free
      BY <3>1, <3>2, <3>3, Zenon
    <3> QED BY <3>4, Zenon DEF later
  <2> QED BY <2>2, <2>3, Zenon DEF WellLinked
<1> QED BY HeapInvariant, <1>1, PTL

\* What a client holds is an allocated block of its own, as large as it asked
\* for, until it frees it; every allocated block is held by a client; and realloc
\* copies into a block the old payload fits in.
THEOREM MemoryIsHeldOnce == Spec => []HeldMemoryIsSafe
<1>1. HeapInv => HeldMemoryIsSafe
  <2> SUFFICES ASSUME HeapInv PROVE HeldMemoryIsSafe
    BY Zenon
  <2>1. InOrder(blk, next_virt) /\ HeldOK /\ CallOK
    BY Zenon DEF HeapInv, ListOK
  <2>2. \A a, b \in DOMAIN blk : a < b => a + HDR + blk[a].size <= b
    BY <2>1, NoOverlap, Zenon
  <2>3. {p - HDR : p \in DOMAIN live} = {a \in DOMAIN blk : ~ blk[a].free}
    <3>1. \A p \in DOMAIN live : p - HDR \in {a \in DOMAIN blk : ~ blk[a].free}
      BY <2>1, Zenon DEF HeldOK
    <3>2. \A a \in DOMAIN blk : ~ blk[a].free => \E p \in DOMAIN live : a = p - HDR
      <4> TAKE a \in DOMAIN blk
      <4> HAVE ~ blk[a].free
      <4>1. a + HDR \in DOMAIN live /\ a \in Nat
        BY <2>1, Zenon DEF HeldOK, InOrder
      <4>2. a = (a + HDR) - HDR
        BY <4>1, Constants
      <4> QED BY <4>1, <4>2, Zenon
    <3> QED BY <3>1, <3>2, Zenon
  <2> QED BY <2>1, <2>2, <2>3, Zenon DEF HeldMemoryIsSafe, HeldOK, CallOK
<1> QED BY HeapInvariant, <1>1, PTL

\* total_heap_size and used_heap_size, which malloc, free and expand_heap update
\* by the sizes at hand, are at every point what the list adds up to.
THEOREM CountersAreExact == Spec => []Accounting
<1>1. HeapInv => Accounting
  BY BytesOfIs, Zenon DEF HeapInv, CountsOK, Accounting, InUse
<1> QED BY HeapInvariant, <1>1, PTL

=============================================================================
