------------------------------ MODULE VmmProofs ------------------------------
(***************************************************************************)
(* Page tables, frames and cached translations agree after every step of   *)
(* the virtual memory manager, for tables of any size, any physical memory *)
(* and any mixture of successful and failed calls.                         *)
(***************************************************************************)
EXTENDS Vmm, Integers, TLAPS, WellFoundedInduction

Pages == 0 .. FanOut * FanOut * FanOut - 1
Entries == [Frames -> [Index -> Nat]]

-----------------------------------------------------------------------------
(* Page numbers and their indices.                                         *)

\* Quotient and remainder are determined by what they add up to.
LEMMA Division ==
  ASSUME NEW n \in Nat \ {0}, NEW q \in Nat, NEW r \in 0 .. n - 1
  PROVE  (n * q + r) \div n = q /\ (n * q + r) % n = r
OBVIOUS

LEMMA DivMod ==
  ASSUME NEW n \in Nat \ {0}, NEW x \in Nat
  PROVE  /\ x \div n \in Nat /\ x % n \in 0 .. n - 1
         /\ x = n * (x \div n) + (x % n)
OBVIOUS

\* A page number is written with its three indices as digits.
LEMMA Digits ==
  ASSUME NEW v \in Pages
  PROVE  /\ pdpt_idx(v) \in Index /\ pd_idx(v) \in Index /\ pt_idx(v) \in Index
         /\ v = FanOut * (FanOut * pdpt_idx(v) + pd_idx(v)) + pt_idx(v)
<1> DEFINE F == FanOut
           q == v \div F
           t == v % F
           r == q \div F
           d == q % F
<1>0. F \in Nat \ {0} /\ v \in Nat /\ v < F * F * F
  BY VmmAssumption DEF Pages
<1>1. q \in Nat /\ t \in 0 .. F - 1 /\ v = F * q + t
  <2> HIDE DEF F
  <2> QED BY <1>0, DivMod, Zenon
<1>2. r \in Nat /\ d \in 0 .. F - 1 /\ q = F * r + d
  <2> HIDE DEF F, q
  <2> QED BY <1>0, <1>1, DivMod, Zenon
<1> HIDE DEF F, q, r, t, d
<1>3. F * d + t \in 0 .. F * F - 1
  <2>1. F * d <= F * (F - 1)
    BY <1>0, <1>2
  <2>2. F * d + t <= F * (F - 1) + (F - 1)
    BY <1>0, <1>1, <1>2, <2>1
  <2>3. F * (F - 1) + (F - 1) = F * F - 1
    BY <1>0
  <2>4. F * d \in Nat
    BY <1>0, <1>2
  <2> QED BY <1>0, <1>1, <2>2, <2>3, <2>4
<1>4. v = (F * F) * r + (F * d + t)
  BY <1>0, <1>1, <1>2
<1>5. v \div (F * F) = r
  <2> DEFINE n == F * F
             s == F * d + t
  <2>1. n \in Nat \ {0}
    BY <1>0
  <2>2. s \in 0 .. n - 1
    BY <1>3, Zenon
  <2>3. v = n * r + s
    BY <1>4, Zenon
  <2> HIDE DEF n, s
  <2>4. v \div n = r
    BY <1>2, <2>1, <2>2, <2>3, Division, Zenon
  <2> QED BY <2>4, Zenon DEF n
<1>6. r < F
  <2>1. SUFFICES ASSUME r >= F PROVE FALSE
    BY <1>0, <1>2
  <2>2. (F * F) * r >= (F * F) * F
    BY <1>0, <1>2, <2>1
  <2> QED BY <1>0, <1>2, <1>3, <1>4, <2>2
<1>7. r % F = r
  BY <1>0, <1>2, <1>6
<1>8. pdpt_idx(v) = r /\ pd_idx(v) = d /\ pt_idx(v) = t
  BY <1>5, <1>7, Zenon DEF pdpt_idx, pd_idx, pt_idx, F, q, d, t
<1>9. FanOut = F /\ Index = 0 .. F - 1
  BY Zenon DEF F, Index
<1>10. r \in 0 .. F - 1
  BY <1>0, <1>2, <1>6
<1> QED BY <1>1, <1>2, <1>8, <1>9, <1>10, Zenon

\* So two pages with the same indices are the same.
LEMMA SamePath ==
  ASSUME NEW v \in Pages, NEW w \in Pages,
         pdpt_idx(v) = pdpt_idx(w), pd_idx(v) = pd_idx(w), pt_idx(v) = pt_idx(w)
  PROVE  v = w
BY Digits, Zenon

-----------------------------------------------------------------------------
(* The tree of tables in a memory e.                                       *)

Fresh == Frames \ Reserved   \* the frames that can be allocated

Dir(e, k) == e[PDPT][k]
Tab(e, k, l) == IF Dir(e, k) = NULL THEN NULL ELSE e[Dir(e, k)][l]
TableOf(e, v) == Tab(e, pdpt_idx(v), pd_idx(v))
LeafOf(e, v) == IF TableOf(e, v) = NULL THEN NULL ELSE e[TableOf(e, v)][pt_idx(v)]

\* The places of the tree: <<k, -1>> for a directory, <<k, l>> for a table.
Slots == Index \X (-1 .. FanOut - 1)
At(e, s) == IF s[2] = -1 THEN Dir(e, s[1]) ELSE Tab(e, s[1], s[2])
TablesOf(e) == {At(e, s) : s \in Slots} \ {NULL}

\* No frame is used twice in the tree.
TreeOK(e) ==
  /\ \A s \in Slots : At(e, s) \in Fresh \union {NULL}
  /\ \A s, t \in Slots : At(e, s) = At(e, t) => s = t \/ At(e, s) = NULL

LEMMA FrameFacts ==
  /\ PDPT \in Frames /\ PDPT \in Reserved /\ PDPT \notin Fresh /\ PDPT # NULL
  /\ NULL \in Reserved /\ NULL \notin Fresh /\ NULL \in Nat
  /\ Fresh \subseteq Frames /\ Frames \subseteq Nat /\ Reserved \subseteq Frames
  /\ Fresh \intersect Reserved = {}
  /\ Zero \in [Index -> Nat] /\ Junk \in [Index -> Nat]
BY VmmAssumption DEF PDPT, Frames, Reserved, Fresh, NULL, Zero, Junk

\* What an unused frame in an empty place does to the tree.
LEMMA NewSlot ==
  ASSUME NEW e, NEW e2, TreeOK(e), NEW s \in Slots, At(e, s) = NULL,
         NEW page \in Fresh, page \notin TablesOf(e),
         \A t \in Slots : At(e2, t) = IF t = s THEN page ELSE At(e, t)
  PROVE  TreeOK(e2) /\ TablesOf(e2) = TablesOf(e) \union {page}
<1>1. \A t \in Slots : At(e, t) # page
  BY FrameFacts, Zenon DEF TablesOf
<1> QED BY <1>1, FrameFacts DEF TreeOK, TablesOf

LEMMA DirSlot ==
  ASSUME NEW k \in Index, NEW e
  PROVE  <<k, -1>> \in Slots /\ At(e, <<k, -1>>) = Dir(e, k)
BY VmmAssumption DEF Slots, At, Index

LEMMA TabSlot ==
  ASSUME NEW k \in Index, NEW l \in Index, NEW e
  PROVE  <<k, l>> \in Slots /\ At(e, <<k, l>>) = Tab(e, k, l)
BY VmmAssumption DEF Slots, At, Index

LEMMA SlotCases ==
  ASSUME NEW s \in Slots
  PROVE  \E k \in Index : s = <<k, -1>> \/ \E l \in Index : s = <<k, l>>
BY VmmAssumption DEF Slots, Index

LEMMA TablesIs == Tables = TablesOf(entry)
<1>1. ASSUME NEW f \in Tables PROVE f \in TablesOf(entry)
  <2>1. f # NULL
    BY DEF Tables, Directories
  <2>2. CASE f \in Directories
    <3>1. PICK k \in Index : f = Dir(entry, k)
      BY <2>2, Zenon DEF Directories, Dir
    <3> QED BY <2>1, <3>1, DirSlot, Zenon DEF TablesOf
  <2>3. CASE f \notin Directories
    <3>1. PICK d \in Directories, l \in Index : f = entry[d][l]
      BY <2>3 DEF Tables
    <3>2. PICK k \in Index : d = Dir(entry, k) /\ d # NULL
      BY Zenon DEF Directories, Dir
    <3>3. f = Tab(entry, k, l)
      BY <3>1, <3>2, Zenon DEF Tab
    <3> QED BY <2>1, <3>3, TabSlot, Zenon DEF TablesOf
  <2> QED BY <2>2, <2>3, Zenon
<1>2. ASSUME NEW f \in TablesOf(entry) PROVE f \in Tables
  <2>1. PICK s \in Slots : f = At(entry, s) /\ f # NULL
    BY Zenon DEF TablesOf
  <2>2. PICK k \in Index : s = <<k, -1>> \/ \E l \in Index : s = <<k, l>>
    BY SlotCases
  <2>3. CASE s = <<k, -1>>
    BY <2>1, <2>3, DirSlot DEF Tables, Directories, Dir
  <2>4. CASE s # <<k, -1>>
    <3>1. PICK l \in Index : s = <<k, l>>
      BY <2>2, <2>4, Zenon
    <3>2. f = Tab(entry, k, l)
      BY <2>1, <3>1, TabSlot, Zenon
    <3>3. Dir(entry, k) \in Directories /\ f = entry[Dir(entry, k)][l]
      BY <2>1, <3>2, Zenon DEF Tab, Directories, Dir
    <3> QED BY <2>1, <3>3 DEF Tables
  <2> QED BY <2>3, <2>4, Zenon
<1> QED BY <1>1, <1>2, Zenon

LEMMA TableSlot ==
  ASSUME NEW v \in Pages, NEW e
  PROVE  /\ <<pdpt_idx(v), pd_idx(v)>> \in Slots
         /\ At(e, <<pdpt_idx(v), pd_idx(v)>>) = TableOf(e, v)
BY Digits, TabSlot, Zenon DEF TableOf

\* The frames of the tree are allocatable ones, so neither NULL nor the PDPT.
LEMMA AtFresh ==
  ASSUME NEW e, TreeOK(e), NEW s \in Slots, At(e, s) # NULL
  PROVE  /\ At(e, s) \in Fresh /\ At(e, s) \in TablesOf(e)
         /\ At(e, s) \in Frames /\ At(e, s) # PDPT
BY FrameFacts, Zenon DEF TreeOK, TablesOf

\* A new directory in an empty entry of the PDPT.
LEMMA AddDir ==
  ASSUME NEW e \in Entries, TreeOK(e), NEW k \in Index, Dir(e, k) = NULL,
         NEW page \in Fresh, page \notin TablesOf(e)
  PROVE  LET e2 == [e EXCEPT ![page] = Zero, ![PDPT][k] = page]
         IN  /\ e2 \in Entries /\ TreeOK(e2) /\ Dir(e2, k) = page
             /\ TablesOf(e2) = TablesOf(e) \union {page}
             /\ \A v \in Pages : LeafOf(e2, v) = LeafOf(e, v)
<1> DEFINE e2 == [e EXCEPT ![page] = Zero, ![PDPT][k] = page]
<1>1. page # PDPT /\ page # NULL /\ page \in Frames /\ page \in Nat
  BY FrameFacts, Zenon
<1>2. /\ e2 \in Entries /\ e2[page] = Zero
      /\ e2[PDPT] = [e[PDPT] EXCEPT ![k] = page]
      /\ \A f \in Frames : f # page /\ f # PDPT => e2[f] = e[f]
  BY <1>1, FrameFacts, Zenon DEF Entries
<1> HIDE DEF e2
<1>3. \A j \in Index : Dir(e2, j) = IF j = k THEN page ELSE Dir(e, j)
  BY <1>2, FrameFacts DEF Dir, Entries
<1>4. \A j, l \in Index : Tab(e2, j, l) = Tab(e, j, l)
  <2> TAKE j, l \in Index
  <2>1. CASE j = k
    <3>1. Dir(e2, j) = page /\ Dir(e, j) = NULL
      BY <1>3, <2>1, Zenon
    <3>2. e2[page][l] = NULL
      BY <1>2, Zenon DEF Zero
    <3> QED BY <1>1, <3>1, <3>2, Zenon DEF Tab
  <2>2. CASE j # k /\ Dir(e, j) # NULL
    <3>1. Dir(e, j) # PDPT /\ Dir(e, j) # page /\ Dir(e, j) \in Frames
      BY <2>2, DirSlot, AtFresh, Zenon
    <3>2. e2[Dir(e, j)] = e[Dir(e, j)] /\ Dir(e2, j) = Dir(e, j)
      BY <1>2, <1>3, <2>2, <3>1, Zenon
    <3> QED BY <3>2, Zenon DEF Tab
  <2>3. CASE j # k /\ Dir(e, j) = NULL
    BY <1>3, <2>3, Zenon DEF Tab
  <2> QED BY <2>1, <2>2, <2>3, Zenon
<1>5. \A t \in Slots : At(e2, t) = IF t = <<k, -1>> THEN page ELSE At(e, t)
  <2> TAKE t \in Slots
  <2>1. PICK j \in Index : t = <<j, -1>> \/ \E l \in Index : t = <<j, l>>
    BY SlotCases, Zenon
  <2>2. CASE t = <<j, -1>>
    BY <1>3, <2>2, DirSlot, Zenon
  <2>3. CASE t # <<j, -1>>
    <3>1. PICK l \in Index : t = <<j, l>>
      BY <2>1, <2>3, Zenon
    <3>2. l # -1
      BY VmmAssumption DEF Index
    <3> QED BY <1>4, <3>1, <3>2, TabSlot
  <2> QED BY <2>2, <2>3, Zenon
<1>6. TreeOK(e2) /\ TablesOf(e2) = TablesOf(e) \union {page}
  <2> DEFINE s == <<k, -1>>
  <2>1. s \in Slots /\ At(e, s) = NULL
    BY DirSlot, Zenon
  <2>2. \A t \in Slots : At(e2, t) = IF t = s THEN page ELSE At(e, t)
    BY <1>5, Zenon
  <2> HIDE DEF s
  <2> QED BY <2>1, <2>2, NewSlot
<1>7. ASSUME NEW v \in Pages PROVE LeafOf(e2, v) = LeafOf(e, v)
  <2>1. TableOf(e2, v) = TableOf(e, v)
    BY <1>4, Digits, Zenon DEF TableOf
  <2>2. TableOf(e, v) # NULL => e2[TableOf(e, v)] = e[TableOf(e, v)]
    BY <1>2, TableSlot, AtFresh, Zenon
  <2> QED BY <2>1, <2>2, Zenon DEF LeafOf
<1> QED BY <1>2, <1>3, <1>6, <1>7, Zenon DEF e2

\* A new table in an empty entry of a directory.
LEMMA AddTable ==
  ASSUME NEW e \in Entries, TreeOK(e), NEW k \in Index, NEW l \in Index,
         Dir(e, k) # NULL, Tab(e, k, l) = NULL,
         NEW page \in Fresh, page \notin TablesOf(e)
  PROVE  LET e2 == [e EXCEPT ![page] = Zero, ![Dir(e, k)][l] = page]
         IN  /\ e2 \in Entries /\ TreeOK(e2) /\ Tab(e2, k, l) = page
             /\ TablesOf(e2) = TablesOf(e) \union {page}
             /\ \A v \in Pages : LeafOf(e2, v) = LeafOf(e, v)
<1> DEFINE d == Dir(e, k)
           e2 == [e EXCEPT ![page] = Zero, ![d][l] = page]
<1>1. page # PDPT /\ page # NULL /\ page \in Frames /\ page \in Nat
  BY FrameFacts, Zenon
<1>2. d \in Fresh /\ d # page /\ d # PDPT /\ d \in Frames
  BY DirSlot, AtFresh, Zenon
<1>3. /\ e2 \in Entries /\ e2[page] = Zero
      /\ e2[d] = [e[d] EXCEPT ![l] = page]
      /\ \A f \in Frames : f # page /\ f # d => e2[f] = e[f]
  <2> HIDE DEF d
  <2> QED BY <1>1, <1>2, FrameFacts, Zenon DEF Entries
<1> HIDE DEF e2
<1>4. \A j \in Index : Dir(e2, j) = Dir(e, j)
  BY <1>1, <1>2, <1>3, FrameFacts, Zenon DEF Dir
<1>5. \A j, n \in Index :
        Tab(e2, j, n) = IF j = k /\ n = l THEN page ELSE Tab(e, j, n)
  <2> TAKE j, n \in Index
  <2>1. CASE j = k
    <3>1. e[d] \in [Index -> Nat]
      BY <1>2, Zenon DEF Entries
    <3>2. e2[d][n] = IF n = l THEN page ELSE e[d][n]
      BY <1>3, <3>1, Zenon
    <3>3. Dir(e2, j) = d /\ Dir(e, j) = d /\ d # NULL
      BY <1>4, <2>1, Zenon
    <3> HIDE DEF d
    <3> QED BY <2>1, <3>2, <3>3, Zenon DEF Tab
  <2>2. CASE j # k /\ Dir(e, j) # NULL
    <3>1. Dir(e, j) \in Frames /\ Dir(e, j) # page
      BY <2>2, DirSlot, AtFresh, Zenon
    <3>2. Dir(e, j) # d
      <4>1. <<j, -1>> # <<k, -1>>
        BY <2>2, Zenon
      <4> QED BY <2>2, <4>1, DirSlot, Zenon DEF TreeOK
    <3>3. e2[Dir(e, j)] = e[Dir(e, j)] /\ Dir(e2, j) = Dir(e, j)
      BY <1>3, <1>4, <3>1, <3>2, Zenon
    <3> QED BY <2>2, <3>3, Zenon DEF Tab
  <2>3. CASE j # k /\ Dir(e, j) = NULL
    BY <1>4, <2>3, Zenon DEF Tab
  <2> QED BY <2>1, <2>2, <2>3, Zenon
<1>6. \A t \in Slots : At(e2, t) = IF t = <<k, l>> THEN page ELSE At(e, t)
  <2> TAKE t \in Slots
  <2>1. PICK j \in Index : t = <<j, -1>> \/ \E n \in Index : t = <<j, n>>
    BY SlotCases, Zenon
  <2>2. CASE t = <<j, -1>>
    <3>1. l # -1
      BY VmmAssumption DEF Index
    <3> QED BY <1>4, <2>2, <3>1, DirSlot, Zenon
  <2>3. CASE t # <<j, -1>>
    <3>1. PICK n \in Index : t = <<j, n>>
      BY <2>1, <2>3, Zenon
    <3> QED BY <1>5, <3>1, TabSlot
  <2> QED BY <2>2, <2>3, Zenon
<1>7. TreeOK(e2) /\ TablesOf(e2) = TablesOf(e) \union {page}
  <2> DEFINE s == <<k, l>>
  <2>1. s \in Slots /\ At(e, s) = NULL
    BY TabSlot, Zenon
  <2>2. \A t \in Slots : At(e2, t) = IF t = s THEN page ELSE At(e, t)
    BY <1>6, Zenon
  <2> HIDE DEF s
  <2> QED BY <2>1, <2>2, NewSlot
<1>8. ASSUME NEW v \in Pages PROVE LeafOf(e2, v) = LeafOf(e, v)
  <2> DEFINE s == <<pdpt_idx(v), pd_idx(v)>>
  <2>1. s \in Slots /\ At(e, s) = TableOf(e, v) /\ At(e2, s) = TableOf(e2, v)
    BY TableSlot, Zenon
  <2>2. CASE s = <<k, l>>
    <3>1. TableOf(e2, v) = page /\ TableOf(e, v) = NULL
      BY <1>6, <2>1, <2>2, TabSlot
    <3>2. e2[page][pt_idx(v)] = NULL
      BY <1>3, Digits, Zenon DEF Zero
    <3> QED BY <3>1, <3>2, Zenon DEF LeafOf
  <2>3. CASE s # <<k, l>>
    <3>1. TableOf(e2, v) = TableOf(e, v)
      BY <1>6, <2>1, <2>3, Zenon
    <3>2. TableOf(e, v) # NULL => TableOf(e, v) # d
      <4>1. s # <<k, -1>>
        BY Digits, VmmAssumption DEF Index
      <4> QED BY <2>1, <4>1, DirSlot, Zenon DEF TreeOK
    <3>3. TableOf(e, v) # NULL => e2[TableOf(e, v)] = e[TableOf(e, v)]
      BY <1>3, <2>1, <3>2, AtFresh
    <3> QED BY <3>1, <3>3, Zenon DEF LeafOf
  <2> QED BY <2>2, <2>3, Zenon
<1> QED BY <1>3, <1>5, <1>7, <1>8, Zenon DEF e2

-----------------------------------------------------------------------------
(* Allocation and the walk.                                                *)

LEMMA MinIn == ASSUME NEW S \in SUBSET Nat, S # {} PROVE Min(S) \in S
<1>1. PICK x \in S : \A y \in S : ~ (<<y, x>> \in OpToRel(<, Nat))
  BY NatLessThanWellFounded, WFMin, Zenon
<1>2. \A y \in S : x <= y
  <2> TAKE y \in S
  <2>1. ~ (y < x)
    <3>1. SUFFICES ASSUME y < x PROVE <<y, x>> \in OpToRel(<, Nat)
      BY <1>1, Zenon
    <3>2. <<y, x>> \in Nat \X Nat /\ <<y, x>>[1] < <<y, x>>[2]
      BY <3>1, Zenon
    <3> QED BY <3>2, Zenon DEF OpToRel
  <2> QED BY <2>1
<1> QED BY <1>2, Zenon DEF Min

\* The physical allocator gives out unmarked frames.
LEMMA AllocFree ==
  ASSUME NEW u, Reserved \subseteq u, NEW n \in Nat \ {0},
         pmm_alloc_pages(u, n) # NULL
  PROVE  LET p == pmm_alloc_pages(u, n)
         IN  p \in Fresh /\ p .. p + n - 1 \subseteq Fresh \ u
<1> DEFINE starts == {s \in Frames : RunFree(u, s, n)}
           p == pmm_alloc_pages(u, n)
<1>1. starts # {} /\ p = Min(starts)
  BY Zenon DEF pmm_alloc_pages
<1>2. p \in Frames /\ RunFree(u, p, n)
  BY <1>1, MinIn, FrameFacts
<1> HIDE DEF p
<1>3. p .. p + n - 1 \subseteq Frames \ u
  BY <1>2, VmmAssumption DEF RunFree, Frames
<1>4. p \in p .. p + n - 1
  BY <1>2 DEF Frames
<1> QED BY <1>3, <1>4, Zenon DEF Fresh, p

LEMMA AllocOne ==
  ASSUME NEW u, Reserved \subseteq u, pmm_alloc_pages(u, 1) # NULL
  PROVE  pmm_alloc_pages(u, 1) \in Fresh \ u
<1> DEFINE p == pmm_alloc_pages(u, 1)
<1>1. PICK n \in Nat \ {0} : n = 1
  OBVIOUS
<1>2. p = pmm_alloc_pages(u, n) /\ p # NULL
  BY <1>1, Zenon
<1>3. p \in Fresh /\ p .. p + n - 1 \subseteq Fresh \ u
  BY <1>2, AllocFree, Zenon
<1> HIDE DEF p
<1>4. p \in p .. p + n - 1
  BY <1>3, FrameFacts
<1> QED BY <1>3, <1>4, Zenon DEF p

Memories == [used : SUBSET Frames, entry : Entries, table : Nat]

\* One level of the walk.
LEMMA DescendIs ==
  ASSUME NEW m \in Memories, NEW k \in Index, NEW create \in BOOLEAN
  PROVE  LET r    == Descend(m, k, create)
             page == pmm_alloc_pages(m.used, 1)
         IN  \/ /\ r.used = m.used /\ r.entry = m.entry
                /\ \/ r.table = NULL
                   \/ m.table # NULL /\ r.table = m.entry[m.table][k]
             \/ /\ create /\ m.table # NULL /\ m.entry[m.table][k] = NULL /\ page # NULL
                /\ r.used = m.used \union {page} /\ r.table = page
                /\ r.entry = [m.entry EXCEPT ![page] = Zero, ![m.table][k] = page]
BY Zenon DEF Descend, Memories

\* What a walk may do to the memory on its way to page v: new tables in frames
\* that were not marked, and no translation changes.
Grown(m, u, e, v) ==
  /\ m.entry \in Entries /\ TreeOK(m.entry)
  /\ m.used = u \union TablesOf(m.entry)
  /\ TablesOf(m.entry) \intersect u = TablesOf(e)
  /\ \A w \in Pages : LeafOf(m.entry, w) = LeafOf(e, w)
  /\ m.table # NULL => m.table = TableOf(m.entry, v)

LEMMA PteGrows ==
  ASSUME used \in SUBSET Frames, Reserved \subseteq used, entry \in Entries,
         TreeOK(entry), TablesOf(entry) \subseteq used, NEW v \in Pages
  PROVE  Grown(get_pte(v, TRUE), used, entry, v)
<1> DEFINE m0 == [used |-> used, entry |-> entry, table |-> PDPT]
           k == pdpt_idx(v)
           l == pd_idx(v)
           m1 == Descend(m0, k, TRUE)
           m2 == Descend(m1, l, TRUE)
           p0 == pmm_alloc_pages(used, 1)
           e0 == [entry EXCEPT ![p0] = Zero, ![PDPT][k] = p0]
<1>0. k \in Index /\ l \in Index
  BY Digits, Zenon
<1>1. m0 \in Memories /\ m0.used = used /\ m0.entry = entry /\ m0.table = PDPT
  BY FrameFacts, Zenon DEF Memories
<1>2. get_pte(v, TRUE) = m2
  BY Zenon DEF get_pte
<1> HIDE DEF m0, k, l
<1>3. \/ /\ m1.used = used /\ m1.entry = entry
         /\ m1.table = NULL \/ m1.table = Dir(entry, k)
      \/ /\ Dir(entry, k) = NULL /\ p0 # NULL
         /\ m1.used = used \union {p0} /\ m1.table = p0
         /\ m1.entry = e0
  <2> DEFINE page == pmm_alloc_pages(m0.used, 1)
  <2>1. \/ /\ m1.used = m0.used /\ m1.entry = m0.entry
           /\ \/ m1.table = NULL
              \/ m0.table # NULL /\ m1.table = m0.entry[m0.table][k]
        \/ /\ m0.table # NULL /\ m0.entry[m0.table][k] = NULL /\ page # NULL
           /\ m1.used = m0.used \union {page} /\ m1.table = page
           /\ m1.entry = [m0.entry EXCEPT ![page] = Zero, ![m0.table][k] = page]
    BY <1>0, <1>1, DescendIs, Zenon
  <2> HIDE DEF m1
  <2> QED BY <1>1, <2>1, Zenon DEF Dir
<1> DEFINE Good(m) ==
      /\ m.entry \in Entries /\ TreeOK(m.entry)
      /\ m.used = used \union TablesOf(m.entry)
      /\ TablesOf(m.entry) \intersect used = TablesOf(entry)
      /\ \A w \in Pages : LeafOf(m.entry, w) = LeafOf(entry, w)
      /\ m.used \in SUBSET Frames
<1>4. Good(m1) /\ (m1.table # NULL => m1.table = Dir(m1.entry, k))
  <2>1. CASE /\ m1.used = used /\ m1.entry = entry
             /\ m1.table = NULL \/ m1.table = Dir(entry, k)
    <3> HIDE DEF m1
    <3> QED BY <2>1, Zenon
  <2>2. CASE /\ Dir(entry, k) = NULL /\ p0 # NULL
             /\ m1.used = used \union {p0} /\ m1.table = p0
             /\ m1.entry = e0
    <3>1. p0 \in Fresh /\ p0 \notin used /\ p0 \notin TablesOf(entry)
      BY <2>2, AllocOne, Zenon
    <3> HIDE DEF m1, p0
    <3>2. /\ e0 \in Entries /\ TreeOK(e0) /\ Dir(e0, k) = p0
          /\ TablesOf(e0) = TablesOf(entry) \union {p0}
          /\ \A w \in Pages : LeafOf(e0, w) = LeafOf(entry, w)
      <4> DEFINE e == entry
      <4>1. e \in Entries /\ TreeOK(e) /\ Dir(e, k) = NULL /\ p0 \notin TablesOf(e)
        BY <2>2, <3>1, Zenon
      <4> HIDE DEF e
      <4>2. LET e2 == [e EXCEPT ![p0] = Zero, ![PDPT][k] = p0]
            IN  /\ e2 \in Entries /\ TreeOK(e2) /\ Dir(e2, k) = p0
                /\ TablesOf(e2) = TablesOf(e) \union {p0}
                /\ \A w \in Pages : LeafOf(e2, w) = LeafOf(e, w)
        BY <1>0, <3>1, <4>1, AddDir, Zenon
      <4> QED BY <4>2, Zenon DEF e
    <3> HIDE DEF e0
    <3> QED BY <2>2, <3>1, <3>2, FrameFacts
  <2> QED BY <1>3, <2>1, <2>2, Zenon
<1>5. m1 \in Memories
  <2>1. m1.table \in Nat
    <3> HIDE DEF m1
    <3>1. m1.table # NULL => m1.table \in Frames
      BY <1>0, <1>4, DirSlot, AtFresh, Zenon
    <3> QED BY <3>1, FrameFacts, Zenon
  <2>2. m1 = [used |-> m1.used, entry |-> m1.entry, table |-> m1.table]
    BY <1>1, Zenon DEF Descend, Memories
  <2> HIDE DEF m1
  <2> QED BY <1>4, <2>1, <2>2, Zenon DEF Memories
<1> HIDE DEF m1
<1> DEFINE p1 == pmm_alloc_pages(m1.used, 1)
           e1 == [m1.entry EXCEPT ![p1] = Zero, ![Dir(m1.entry, k)][l] = p1]
<1>6. \/ /\ m2.used = m1.used /\ m2.entry = m1.entry
         /\ m2.table = NULL \/ m2.table = Tab(m1.entry, k, l)
      \/ /\ Dir(m1.entry, k) # NULL /\ Tab(m1.entry, k, l) = NULL /\ p1 # NULL
         /\ m2.used = m1.used \union {p1} /\ m2.table = p1
         /\ m2.entry = e1
  <2>1. \/ /\ m2.used = m1.used /\ m2.entry = m1.entry
           /\ \/ m2.table = NULL
              \/ m1.table # NULL /\ m2.table = m1.entry[m1.table][l]
        \/ /\ m1.table # NULL /\ m1.entry[m1.table][l] = NULL /\ p1 # NULL
           /\ m2.used = m1.used \union {p1} /\ m2.table = p1
           /\ m2.entry = [m1.entry EXCEPT ![p1] = Zero, ![m1.table][l] = p1]
    BY <1>0, <1>5, DescendIs, Zenon
  <2>2. m1.table # NULL => /\ m1.table = Dir(m1.entry, k)
                          /\ Tab(m1.entry, k, l) = m1.entry[m1.table][l]
    BY <1>4, Zenon DEF Tab
  <2> HIDE DEF m2, p1
  <2> QED BY <2>1, <2>2, Zenon
<1>7. Good(m2) /\ (m2.table # NULL => m2.table = Tab(m2.entry, k, l))
  <2>1. CASE /\ m2.used = m1.used /\ m2.entry = m1.entry
             /\ m2.table = NULL \/ m2.table = Tab(m1.entry, k, l)
    <3> HIDE DEF m2
    <3> QED BY <1>4, <2>1, Zenon
  <2>2. CASE /\ Dir(m1.entry, k) # NULL /\ Tab(m1.entry, k, l) = NULL /\ p1 # NULL
             /\ m2.used = m1.used \union {p1} /\ m2.table = p1
             /\ m2.entry = e1
    <3>1. p1 \in Fresh /\ p1 \notin m1.used
      <4>1. Reserved \subseteq m1.used
        BY <1>4, Zenon
      <4> QED BY <2>2, <4>1, AllocOne, Zenon
    <3>2. p1 \notin TablesOf(m1.entry) /\ m1.entry \in Entries /\ TreeOK(m1.entry)
      BY <1>4, <3>1
    <3> HIDE DEF m2, p1
    <3>3. /\ e1 \in Entries /\ TreeOK(e1) /\ Tab(e1, k, l) = p1
          /\ TablesOf(e1) = TablesOf(m1.entry) \union {p1}
          /\ \A w \in Pages : LeafOf(e1, w) = LeafOf(m1.entry, w)
      BY <1>0, <2>2, <3>1, <3>2, AddTable, SMTT(30)
    <3> HIDE DEF e1
    <3>4. m2.used = used \union TablesOf(m2.entry) /\ m2.used \in SUBSET Frames
      BY <1>4, <2>2, <3>1, <3>3, FrameFacts
    <3>5. TablesOf(m2.entry) \intersect used = TablesOf(entry)
      BY <1>4, <2>2, <3>1, <3>3
    <3>6. \A w \in Pages : LeafOf(m2.entry, w) = LeafOf(entry, w)
      BY <1>4, <2>2, <3>3, Zenon
    <3> QED BY <2>2, <3>3, <3>4, <3>5, <3>6, Zenon
  <2> QED BY <1>6, <2>1, <2>2, Zenon
<1> HIDE DEF m2
<1> QED BY <1>2, <1>7, Zenon DEF Grown, TableOf, k, l

\* A walk that creates nothing.
LEMMA PteReads ==
  ASSUME entry \in Entries, used \in SUBSET Frames, TreeOK(entry), NEW v \in Pages
  PROVE  /\ get_pte(v, FALSE).table = TableOf(entry, v)
         /\ get_pte(v, FALSE).used = used /\ get_pte(v, FALSE).entry = entry
         /\ vmm_get_phys(v) = LeafOf(entry, v)
<1> DEFINE m0 == [used |-> used, entry |-> entry, table |-> PDPT]
           k == pdpt_idx(v)
           l == pd_idx(v)
           m1 == Descend(m0, k, FALSE)
           m2 == Descend(m1, l, FALSE)
<1>1. m1 = [used |-> used, entry |-> entry, table |-> Dir(entry, k)]
  BY FrameFacts, Zenon DEF Descend, Dir, NULL
<1> HIDE DEF m1
<1>2. m2 = [used |-> used, entry |-> entry, table |-> Tab(entry, k, l)]
  <2>1. m1.used = used /\ m1.entry = entry /\ m1.table = Dir(entry, k)
    BY <1>1, Zenon
  <2> HIDE DEF k, l
  <2> QED BY <1>1, <2>1, Zenon DEF Descend, Tab
<1>3. get_pte(v, FALSE) = m2
  BY Zenon DEF get_pte, m1
<1> HIDE DEF m2
<1>4. /\ get_pte(v, FALSE).table = TableOf(entry, v)
      /\ get_pte(v, FALSE).used = used /\ get_pte(v, FALSE).entry = entry
  <2>1. Tab(entry, k, l) = TableOf(entry, v)
    BY Zenon DEF TableOf
  <2> DEFINE g == get_pte(v, FALSE)
  <2>2. g = [used |-> used, entry |-> entry, table |-> TableOf(entry, v)]
    BY <1>2, <1>3, <2>1, Zenon
  <2> HIDE DEF g
  <2>3. g.table = TableOf(entry, v) /\ g.used = used /\ g.entry = entry
    BY <2>2, Zenon
  <2> QED BY <2>3, Zenon DEF g
<1> QED BY <1>4, Zenon DEF vmm_get_phys, LeafOf

-----------------------------------------------------------------------------
(* Writes that leave the tree alone.                                       *)

LEMMA SameTree ==
  ASSUME NEW e, NEW e2, TreeOK(e), \A s \in Slots : At(e2, s) = At(e, s)
  PROVE  /\ TreeOK(e2) /\ TablesOf(e2) = TablesOf(e)
         /\ \A v \in Pages : TableOf(e2, v) = TableOf(e, v)
<1>1. TreeOK(e2)
  BY Zenon DEF TreeOK
<1>2. TablesOf(e2) = TablesOf(e)
  BY Zenon DEF TablesOf
<1>3. \A v \in Pages : TableOf(e2, v) = TableOf(e, v)
  BY TableSlot, Zenon
<1> QED BY <1>1, <1>2, <1>3, Zenon

\* Directories and tables keep their places if the PDPT and the directories
\* keep their entries.
LEMMA SameSlots ==
  ASSUME NEW e, NEW e2, TreeOK(e),
         \A k \in Index : e2[PDPT][k] = e[PDPT][k],
         \A j, k \in Index : Dir(e, j) # NULL => e2[Dir(e, j)][k] = e[Dir(e, j)][k]
  PROVE  \A s \in Slots : At(e2, s) = At(e, s)
<1>1. \A k \in Index : Dir(e2, k) = Dir(e, k)
  BY Zenon DEF Dir
<1>2. \A k, l \in Index : Tab(e2, k, l) = Tab(e, k, l)
  BY <1>1, Zenon DEF Tab
<1> TAKE s \in Slots
<1>3. PICK k \in Index : s = <<k, -1>> \/ \E l \in Index : s = <<k, l>>
  BY SlotCases, Zenon
<1>4. CASE s = <<k, -1>>
  BY <1>1, <1>4, DirSlot, Zenon
<1>5. CASE s # <<k, -1>>
  <2>1. PICK l \in Index : s = <<k, l>>
    BY <1>3, <1>5, Zenon
  <2> QED BY <1>2, <2>1, TabSlot
<1> QED BY <1>4, <1>5, Zenon

\* A table is neither the PDPT nor a directory.
LEMMA TableApart ==
  ASSUME NEW e, TreeOK(e), NEW v \in Pages, TableOf(e, v) # NULL
  PROVE  /\ TableOf(e, v) \in Frames /\ TableOf(e, v) # PDPT
         /\ TableOf(e, v) \in TablesOf(e)
         /\ \A j \in Index : Dir(e, j) # TableOf(e, v)
<1> DEFINE s == <<pdpt_idx(v), pd_idx(v)>>
<1>1. s \in Slots /\ At(e, s) = TableOf(e, v)
  BY TableSlot, Zenon
<1>2. \A j \in Index : s # <<j, -1>>
  BY Digits, VmmAssumption DEF Index
<1> HIDE DEF s
<1>3. TableOf(e, v) \in Frames /\ TableOf(e, v) # PDPT /\ TableOf(e, v) \in TablesOf(e)
  BY <1>1, AtFresh, Zenon
<1>4. \A j \in Index : Dir(e, j) # TableOf(e, v)
  <2> TAKE j \in Index
  <2>1. <<j, -1>> \in Slots /\ At(e, <<j, -1>>) = Dir(e, j)
    BY DirSlot, Zenon
  <2> QED BY <1>1, <1>2, <2>1, Zenon DEF TreeOK
<1> QED BY <1>3, <1>4, Zenon

\* A change of the entries of the pages S changes their translations only.
LEMMA SetLeaves ==
  ASSUME NEW e, NEW e2, TreeOK(e), NEW S \in SUBSET Pages,
         \A f \in Frames, k \in Index :
           (\A w \in S : ~ (TableOf(e, w) = f /\ pt_idx(w) = k)) => e2[f][k] = e[f][k]
  PROVE  /\ TreeOK(e2) /\ TablesOf(e2) = TablesOf(e)
         /\ \A v \in Pages : TableOf(e2, v) = TableOf(e, v)
         /\ \A v \in Pages \ S : LeafOf(e2, v) = LeafOf(e, v)
<1>1. \A k \in Index : e2[PDPT][k] = e[PDPT][k]
  <2> TAKE k \in Index
  <2>1. \A w \in S : TableOf(e, w) # PDPT
    BY TableApart, FrameFacts, Zenon
  <2> QED BY <2>1, FrameFacts, Zenon
<1>2. \A j, k \in Index : Dir(e, j) # NULL => e2[Dir(e, j)][k] = e[Dir(e, j)][k]
  <2> SUFFICES ASSUME NEW j \in Index, NEW k \in Index, Dir(e, j) # NULL
               PROVE  e2[Dir(e, j)][k] = e[Dir(e, j)][k]
    BY Zenon
  <2>1. \A w \in S : TableOf(e, w) # Dir(e, j)
    BY TableApart, Zenon
  <2>2. Dir(e, j) \in Frames
    BY DirSlot, AtFresh, Zenon
  <2> QED BY <2>1, <2>2, Zenon
<1>3. \A s \in Slots : At(e2, s) = At(e, s)
  BY <1>1, <1>2, SameSlots, Zenon
<1>4. /\ TreeOK(e2) /\ TablesOf(e2) = TablesOf(e)
      /\ \A v \in Pages : TableOf(e2, v) = TableOf(e, v)
  BY <1>3, SameTree, Zenon
<1>5. ASSUME NEW v \in Pages \ S PROVE LeafOf(e2, v) = LeafOf(e, v)
  <2>1. CASE TableOf(e, v) = NULL
    BY <1>4, <2>1, Zenon DEF LeafOf
  <2>2. CASE TableOf(e, v) # NULL
    <3>1. ASSUME NEW w \in S, TableOf(e, w) = TableOf(e, v), pt_idx(w) = pt_idx(v)
          PROVE  FALSE
      <4> DEFINE a == <<pdpt_idx(v), pd_idx(v)>>
                 b == <<pdpt_idx(w), pd_idx(w)>>
      <4>1. a \in Slots /\ b \in Slots /\ At(e, a) = At(e, b) /\ At(e, a) # NULL
        BY <2>2, <3>1, TableSlot, Zenon
      <4>2. a = b
        <5> HIDE DEF a, b
        <5> QED BY <4>1, Zenon DEF TreeOK
      <4> QED BY <3>1, <4>2, SamePath, Zenon
    <3>2. pt_idx(v) \in Index /\ TableOf(e, v) \in Frames
      BY <2>2, Digits, TableApart, Zenon
    <3>3. e2[TableOf(e, v)][pt_idx(v)] = e[TableOf(e, v)][pt_idx(v)]
      BY <3>1, <3>2, Zenon
    <3> QED BY <1>4, <2>2, <3>3, Zenon DEF LeafOf
  <2> QED BY <2>1, <2>2, Zenon
<1> QED BY <1>4, <1>5, Zenon

\* One entry, as vmm_map, vmm_unmap and vmm_alloc set it.
LEMMA SetPteIs ==
  ASSUME NEW m, m.entry \in Entries, TreeOK(m.entry), NEW v \in Pages,
         m.table # NULL, m.table = TableOf(m.entry, v), NEW f \in Nat
  PROVE  LET e2 == SetPte(m, v, f)
         IN  /\ e2 \in Entries /\ TreeOK(e2) /\ TablesOf(e2) = TablesOf(m.entry)
             /\ \A w \in Pages : LeafOf(e2, w) = IF w = v THEN f ELSE LeafOf(m.entry, w)
<1> DEFINE e == m.entry
           t == m.table
           k == pt_idx(v)
           e2 == [e EXCEPT ![t][k] = f]
<1>1. t \in Frames /\ k \in Index /\ t # NULL /\ t = TableOf(e, v)
  BY Digits, TableApart
<1>2. e \in Entries /\ TreeOK(e) /\ SetPte(m, v, f) = e2
  BY Zenon DEF SetPte
<1> HIDE DEF e, t
<1>3. /\ e2 \in Entries /\ e2[t][k] = f
      /\ \A g \in Frames, j \in Index : ~ (t = g /\ k = j) => e2[g][j] = e[g][j]
  <2> HIDE DEF k
  <2> QED BY <1>1, <1>2 DEF Entries
<1> HIDE DEF e2
<1>4. \A g \in Frames, j \in Index :
        (\A w \in {v} : ~ (TableOf(e, w) = g /\ pt_idx(w) = j)) => e2[g][j] = e[g][j]
  BY <1>1, <1>3, Zenon
<1>5. /\ TreeOK(e2) /\ TablesOf(e2) = TablesOf(e)
      /\ \A w \in Pages : TableOf(e2, w) = TableOf(e, w)
      /\ \A w \in Pages \ {v} : LeafOf(e2, w) = LeafOf(e, w)
  <2> DEFINE S == {v}
  <2>1. /\ S \in SUBSET Pages
        /\ \A g \in Frames, j \in Index :
             (\A w \in S : ~ (TableOf(e, w) = g /\ pt_idx(w) = j)) => e2[g][j] = e[g][j]
    BY <1>4, Zenon
  <2>2. TreeOK(e)
    BY <1>2, Zenon
  <2> HIDE DEF S
  <2>3. /\ TreeOK(e2) /\ TablesOf(e2) = TablesOf(e)
        /\ \A w \in Pages : TableOf(e2, w) = TableOf(e, w)
        /\ \A w \in Pages \ S : LeafOf(e2, w) = LeafOf(e, w)
    BY <2>1, <2>2, SetLeaves
  <2> QED BY <2>3, Zenon DEF S
<1>6. LeafOf(e2, v) = f
  BY <1>1, <1>3, <1>5, Zenon DEF LeafOf
<1> QED BY <1>2, <1>3, <1>5, <1>6, Zenon DEF e

\* Writes of a client to its own frames.
LEMMA OtherFrames ==
  ASSUME NEW e, NEW e2, TreeOK(e), e2[PDPT] = e[PDPT],
         \A f \in TablesOf(e) : e2[f] = e[f]
  PROVE  /\ TreeOK(e2) /\ TablesOf(e2) = TablesOf(e)
         /\ \A v \in Pages : LeafOf(e2, v) = LeafOf(e, v)
<1>1. \A j \in Index : Dir(e, j) # NULL => Dir(e, j) \in TablesOf(e)
  BY DirSlot, AtFresh, Zenon
<1>2. \A s \in Slots : At(e2, s) = At(e, s)
  BY <1>1, SameSlots, Zenon
<1>3. /\ TreeOK(e2) /\ TablesOf(e2) = TablesOf(e)
      /\ \A v \in Pages : TableOf(e2, v) = TableOf(e, v)
  BY <1>2, SameTree, Zenon
<1>4. \A v \in Pages : LeafOf(e2, v) = LeafOf(e, v)
  BY <1>3, TableApart, Zenon DEF LeafOf
<1> QED BY <1>3, <1>4, Zenon

-----------------------------------------------------------------------------
(* The invariant.                                                          *)

HeldFrames == {held[v] : v \in DOMAIN held}
Run == IF pc = "map" THEN phys .. phys + pages - 1 ELSE {}

TypeOK ==
  /\ used \in SUBSET Frames /\ entry \in Entries
  /\ tlb \in SUBSET (Pages \X Nat)
  /\ next_virt \in 0 .. RegionEnd
  /\ DOMAIN held \subseteq 0 .. next_virt - 1
  /\ pc \in {"idle", "map"}
  /\ pc = "map" => /\ phys \in Nat /\ pages \in Nat /\ i \in 0 .. pages
                   /\ next_virt + pages <= RegionEnd

\* The marked frames have exactly one use each: the kernel's, a table, a page of
\* a client, or the run that vmm_alloc is mapping.
Owners ==
  /\ TreeOK(entry)
  /\ used = Reserved \union TablesOf(entry) \union HeldFrames \union Run
  /\ HeldFrames \subseteq Fresh /\ Run \subseteq Fresh
  /\ HeldFrames \intersect TablesOf(entry) = {}
  /\ Run \intersect TablesOf(entry) = {}
  /\ HeldFrames \intersect Run = {}
  /\ \A v, w \in DOMAIN held : v # w => held[v] # held[w]

\* What the pages below next_virt translate to, and those vmm_alloc has mapped.
Mapped ==
  /\ \A v \in DOMAIN held : LeafOf(entry, v) = held[v]
  /\ \A v \in 0 .. next_virt - 1 : v \notin DOMAIN held => LeafOf(entry, v) = NULL
  /\ pc = "map" => \A j \in 0 .. i - 1 : LeafOf(entry, next_virt + j) = phys + j

Cached == \A t \in tlb : LeafOf(entry, t[1]) = t[2]

IInv == TypeOK /\ Owners /\ Mapped /\ Cached

LEMMA PageFacts ==
  /\ 0 .. RegionEnd - 1 \subseteq Pages /\ Window \subseteq Pages
  /\ \A v \in Window : v \in Nat /\ v >= RegionEnd
  /\ RegionEnd \in Nat /\ Pages \subseteq Nat
<1> DEFINE T == FanOut * FanOut * FanOut
<1>1. T \in Nat
  BY VmmAssumption
<1>2. RegionEnd \in 0 .. T /\ Window \subseteq RegionEnd .. T - 1 /\ Pages = 0 .. T - 1
  BY VmmAssumption, Zenon DEF Pages
<1> HIDE DEF T
<1> QED BY <1>1, <1>2

LEMMA InitInv == Init => IInv
<1> SUFFICES ASSUME Init PROVE IInv
  BY Zenon
<1>1. entry \in Entries /\ entry[PDPT] = Zero
  BY FrameFacts, Zenon DEF Init, Entries
<1>2. \A s \in Slots : At(entry, s) = NULL
  <2> TAKE s \in Slots
  <2>1. PICK k \in Index : s = <<k, -1>> \/ \E l \in Index : s = <<k, l>>
    BY SlotCases, Zenon
  <2>2. Dir(entry, k) = NULL
    BY <1>1, Zenon DEF Dir, Zero
  <2>3. \A l \in Index : Tab(entry, k, l) = NULL
    BY <2>2, Zenon DEF Tab
  <2>4. CASE s = <<k, -1>>
    BY <2>2, <2>4, DirSlot, Zenon
  <2>5. CASE s # <<k, -1>>
    BY <2>1, <2>3, <2>5, TabSlot
  <2> QED BY <2>4, <2>5, Zenon
<1>3. TreeOK(entry) /\ TablesOf(entry) = {}
  BY <1>2, Zenon DEF TreeOK, TablesOf
<1>4. DOMAIN held = {} /\ HeldFrames = {} /\ Run = {}
  BY Zenon DEF Init, HeldFrames, Run
<1>5. TypeOK
  BY <1>1, <1>4, FrameFacts, PageFacts DEF Init, TypeOK
<1>6. Owners
  BY <1>3, <1>4, Zenon DEF Init, Owners
<1>7. Mapped /\ Cached
  BY <1>4 DEF Init, Mapped, Cached
<1> QED BY <1>5, <1>6, <1>7, Zenon DEF IInv

-----------------------------------------------------------------------------
(* Steps.                                                                  *)

LEMMA AllocStep ==
  ASSUME IInv, NEW n \in 1 .. MaxPages, vmm_alloc(n)
  PROVE  IInv'
<1>0. TypeOK /\ Owners /\ Mapped /\ Cached /\ pc = "idle" /\ pc' = "map"
  BY Zenon DEF IInv, vmm_alloc
<1>1. n \in Nat \ {0}
  BY VmmAssumption
<1>2. UNCHANGED <<entry, tlb, next_virt, held>> /\ pages' = n /\ i' = 0
  BY Zenon DEF vmm_alloc
<1>3. phys' \in Fresh /\ phys' .. phys' + n - 1 \subseteq Fresh \ used
  <2> DEFINE p == pmm_alloc_pages(used, n)
  <2>1. phys' = p /\ p # NULL /\ Reserved \subseteq used
    BY <1>0, Zenon DEF vmm_alloc, Owners
  <2>2. p \in Fresh /\ p .. p + n - 1 \subseteq Fresh \ used
    BY <1>1, <2>1, AllocFree, Zenon
  <2> HIDE DEF p
  <2> QED BY <2>1, <2>2, Zenon
<1>4. Run = {} /\ Run' = phys' .. phys' + n - 1 /\ HeldFrames' = HeldFrames
  BY <1>0, <1>2, Zenon DEF Run, HeldFrames
<1>5. used' = used \union Run'
  BY <1>2, <1>4, Zenon DEF vmm_alloc
<1>6. TypeOK'
  <2>1. phys' \in Nat /\ used' \in SUBSET Frames
    BY <1>0, <1>3, <1>4, <1>5, FrameFacts, Zenon DEF TypeOK
  <2>2. next_virt' + pages' <= RegionEnd
    BY <1>2, Zenon DEF vmm_alloc
  <2> QED BY <1>0, <1>1, <1>2, <2>1, <2>2 DEF TypeOK
<1>7. Owners'
  <2> HIDE DEF Run
  <2>1. Run' \subseteq Fresh \ used
    BY <1>3, <1>4, Zenon
  <2>2. used = Reserved \union TablesOf(entry) \union HeldFrames
    BY <1>0, <1>4, Zenon DEF Owners
  <2>3. TablesOf(entry)' = TablesOf(entry) /\ TreeOK(entry)' /\ Reserved' = Reserved
    BY <1>0, <1>2, Zenon DEF Owners
  <2> QED BY <1>0, <1>2, <1>4, <1>5, <2>1, <2>2, <2>3, Zenon DEF Owners
<1>8. Mapped' /\ Cached'
  BY <1>0, <1>2 DEF Mapped, Cached
<1> QED BY <1>6, <1>7, <1>8, Zenon DEF IInv

\* What every walk that may create tables leaves.
Kept(m, v) ==
  /\ m.entry \in Entries /\ TreeOK(m.entry)
  /\ m.used \in SUBSET Frames
  /\ m.used = Reserved \union TablesOf(m.entry) \union HeldFrames \union Run
  /\ HeldFrames \intersect TablesOf(m.entry) = {}
  /\ Run \intersect TablesOf(m.entry) = {}
  /\ \A w \in Pages : LeafOf(m.entry, w) = LeafOf(entry, w)
  /\ m.table # NULL => m.table = TableOf(m.entry, v)

LEMMA WalkKeeps ==
  ASSUME IInv, NEW v \in Pages
  PROVE  Kept(get_pte(v, TRUE), v)
<1> DEFINE m == get_pte(v, TRUE)
<1>0. TypeOK /\ Owners
  BY Zenon DEF IInv
<1>1. Grown(m, used, entry, v)
  BY <1>0, PteGrows, Zenon DEF TypeOK, Owners
<1> HIDE DEF m
<1>2. m.used = used \union TablesOf(m.entry) /\ TablesOf(m.entry) \subseteq Frames
  <2>1. \A s \in Slots : At(m.entry, s) # NULL => At(m.entry, s) \in Frames
    BY <1>1, AtFresh, Zenon DEF Grown
  <2> QED BY <1>1, <2>1, Zenon DEF Grown, TablesOf
<1>3. TablesOf(m.entry) \intersect used = TablesOf(entry)
  BY <1>1, Zenon DEF Grown
<1>4. m.used \in SUBSET Frames
  BY <1>0, <1>2, Zenon DEF TypeOK
<1>5. m.used = Reserved \union TablesOf(m.entry) \union HeldFrames \union Run
  BY <1>0, <1>2, <1>3, Zenon DEF Owners
<1>6. /\ HeldFrames \intersect TablesOf(m.entry) = {}
      /\ Run \intersect TablesOf(m.entry) = {}
  BY <1>0, <1>3, Zenon DEF Owners
<1>7. Kept(m, v)
  BY <1>1, <1>4, <1>5, <1>6, Zenon DEF Grown, Kept
<1> QED BY <1>7, Zenon DEF m

LEMMA MapPageStep ==
  ASSUME IInv, map_page
  PROVE  IInv'
<1> DEFINE v == next_virt + i
           m == get_pte(v, TRUE)
           f == phys + i
           e2 == SetPte(m, v, f)
<1>0. TypeOK /\ Owners /\ Mapped /\ Cached
  BY Zenon DEF IInv
<1>1. /\ pc = "map" /\ i \in Nat /\ i < pages /\ pages \in Nat /\ phys \in Nat
      /\ next_virt \in Nat /\ next_virt + pages <= RegionEnd
  BY <1>0, PageFacts DEF map_page, TypeOK
<1>2. v \in Pages /\ f \in Nat
  BY <1>1, PageFacts
<1>3. /\ m.table # NULL /\ used' = m.used /\ entry' = e2
      /\ tlb' = {t \in tlb : t[1] # v} /\ i' = i + 1
      /\ UNCHANGED <<next_virt, held, pc, phys, pages>>
  BY Zenon DEF map_page, Invlpg
<1>4. /\ m.entry \in Entries /\ TreeOK(m.entry)
      /\ m.used \in SUBSET Frames
      /\ m.used = Reserved \union TablesOf(m.entry) \union HeldFrames \union Run
      /\ HeldFrames \intersect TablesOf(m.entry) = {}
      /\ Run \intersect TablesOf(m.entry) = {}
      /\ \A w \in Pages : LeafOf(m.entry, w) = LeafOf(entry, w)
      /\ m.table # NULL => m.table = TableOf(m.entry, v)
  <2> HIDE DEF v
  <2>1. Kept(m, v)
    BY <1>2, WalkKeeps, Zenon
  <2> HIDE DEF m
  <2> QED BY <2>1, Zenon DEF Kept
<1>5. /\ e2 \in Entries /\ TreeOK(e2) /\ TablesOf(e2) = TablesOf(m.entry)
      /\ \A w \in Pages : LeafOf(e2, w) = IF w = v THEN f ELSE LeafOf(m.entry, w)
  <2> HIDE DEF m, v, f
  <2> QED BY <1>2, <1>3, <1>4, SetPteIs
<1> HIDE DEF m, e2
<1>6. HeldFrames' = HeldFrames /\ Run' = Run
  BY <1>3, Zenon DEF HeldFrames, Run
<1>7. \A w \in Pages : LeafOf(entry', w) = IF w = v THEN f ELSE LeafOf(entry, w)
  <2> HIDE DEF v, f
  <2> QED BY <1>3, <1>4, <1>5, Zenon
<1>8. TypeOK'
  <2>1. used' \in SUBSET Frames /\ entry' \in Entries
    BY <1>3, <1>4, <1>5, Zenon
  <2>2. tlb' \in SUBSET (Pages \X Nat)
    BY <1>0, <1>3, Zenon DEF TypeOK
  <2>3. i' \in 0 .. pages'
    BY <1>1, <1>3
  <2> QED BY <1>0, <1>1, <1>3, <2>1, <2>2, <2>3, Zenon DEF TypeOK
<1>9. Owners'
  <2>1. TreeOK(entry') /\ TablesOf(entry') = TablesOf(m.entry)
    BY <1>3, <1>5, Zenon
  <2> HIDE DEF Run, HeldFrames
  <2> QED BY <1>0, <1>3, <1>4, <1>6, <2>1, Zenon DEF Owners
<1>10. Mapped'
  <2>1. ASSUME NEW w \in 0 .. next_virt - 1 PROVE w \in Pages /\ w # v
    BY <1>1, PageFacts
  <2>2. \A w \in 0 .. next_virt - 1 : LeafOf(entry', w) = LeafOf(entry, w)
    BY <1>7, <2>1, Zenon
  <2>3. DOMAIN held \subseteq 0 .. next_virt - 1
    BY <1>0, Zenon DEF TypeOK
  <2>4. /\ \A w \in DOMAIN held : LeafOf(entry', w) = held[w]
        /\ \A w \in 0 .. next_virt - 1 : w \notin DOMAIN held => LeafOf(entry', w) = NULL
    BY <1>0, <2>2, <2>3, Zenon DEF Mapped
  <2>5. ASSUME NEW j \in 0 .. i PROVE LeafOf(entry', next_virt + j) = phys + j
    <3>1. next_virt + j \in Pages
      BY <1>1, PageFacts
    <3>2. CASE j = i
      BY <1>7, <3>1, <3>2, Zenon
    <3>3. CASE j # i
      <4>1. j \in 0 .. i - 1 /\ next_virt + j # v
        BY <1>1, <3>3
      <4>2. LeafOf(entry, next_virt + j) = phys + j
        BY <1>0, <1>1, <4>1, Zenon DEF Mapped
      <4> QED BY <1>7, <3>1, <4>1, <4>2, Zenon
    <3> QED BY <3>2, <3>3, Zenon
  <2>6. 0 .. i' - 1 = 0 .. i
    BY <1>1, <1>3
  <2> QED BY <1>3, <2>4, <2>5, <2>6, Zenon DEF Mapped
<1>11. Cached'
  <2> HIDE DEF v, f
  <2>1. \A t \in tlb : t[1] \in Pages
    BY <1>0, Zenon DEF TypeOK
  <2> QED BY <1>0, <1>3, <1>7, <2>1, Zenon DEF Cached
<1> QED BY <1>8, <1>9, <1>10, <1>11, Zenon DEF IInv

\* Pages whose translations stay, and so the conjuncts about them.
LEMMA SameLeaves ==
  ASSUME TypeOK, Mapped, Cached, UNCHANGED <<next_virt, held>>, tlb' \subseteq tlb,
         pc' = "idle",
         \A w \in Pages \ Window : LeafOf(entry', w) = LeafOf(entry, w),
         \A t \in tlb' : LeafOf(entry', t[1]) = LeafOf(entry, t[1])
  PROVE  Mapped' /\ Cached'
<1>1. \A w \in 0 .. next_virt - 1 : LeafOf(entry', w) = LeafOf(entry, w)
  <2> TAKE w \in 0 .. next_virt - 1
  <2>1. w \in 0 .. RegionEnd - 1 /\ w < RegionEnd
    BY PageFacts DEF TypeOK
  <2>2. w \in Pages /\ w \notin Window
    BY <2>1, PageFacts
  <2> QED BY <2>2, Zenon
<1>2. DOMAIN held \subseteq 0 .. next_virt - 1
  BY Zenon DEF TypeOK
<1>3. Mapped'
  BY <1>1, <1>2, Zenon DEF Mapped
<1>4. Cached'
  BY Zenon DEF Cached
<1> QED BY <1>3, <1>4, Zenon

LEMMA MapFailsStep ==
  ASSUME IInv, map_fails
  PROVE  IInv'
<1> DEFINE v == next_virt + i
           m == get_pte(v, TRUE)
<1>0. TypeOK /\ Owners /\ Mapped /\ Cached
  BY Zenon DEF IInv
<1>1. /\ pc = "map" /\ i \in Nat /\ i < pages /\ pages \in Nat /\ phys \in Nat
      /\ next_virt \in Nat /\ next_virt + pages <= RegionEnd
  BY <1>0, PageFacts DEF map_fails, TypeOK
<1>2. v \in Pages
  BY <1>1, PageFacts
<1>3. /\ used' = m.used \ Run /\ entry' = m.entry /\ pc' = "idle"
      /\ UNCHANGED <<tlb, next_virt, held>>
  BY <1>1, Zenon DEF map_fails, Run
<1>4. /\ m.entry \in Entries /\ TreeOK(m.entry)
      /\ m.used \in SUBSET Frames
      /\ m.used = Reserved \union TablesOf(m.entry) \union HeldFrames \union Run
      /\ HeldFrames \intersect TablesOf(m.entry) = {}
      /\ Run \intersect TablesOf(m.entry) = {}
      /\ \A w \in Pages : LeafOf(m.entry, w) = LeafOf(entry, w)
  <2> HIDE DEF v
  <2>1. Kept(m, v)
    BY <1>2, WalkKeeps, Zenon
  <2> HIDE DEF m
  <2> QED BY <2>1, Zenon DEF Kept
<1> HIDE DEF m
<1>5. HeldFrames' = HeldFrames /\ Run' = {}
  BY <1>3, Zenon DEF HeldFrames, Run
<1>6. TypeOK'
  BY <1>0, <1>3, <1>4, Zenon DEF TypeOK
<1>7. Owners'
  <2>1. TreeOK(entry') /\ TablesOf(entry') = TablesOf(m.entry)
    BY <1>3, <1>4, Zenon
  <2> HIDE DEF Run, HeldFrames
  <2>2. Run \intersect Reserved = {} /\ HeldFrames \intersect Run = {}
    BY <1>0, FrameFacts, Zenon DEF Owners
  <2>3. used' = Reserved \union TablesOf(m.entry) \union HeldFrames
    BY <1>3, <1>4, <2>2, Zenon
  <2> QED BY <1>0, <1>3, <1>4, <1>5, <2>1, <2>3, Zenon DEF Owners
<1>8. Mapped' /\ Cached'
  <2>1. \A w \in Pages : LeafOf(entry', w) = LeafOf(entry, w)
    BY <1>3, <1>4, Zenon
  <2>2. \A t \in tlb' : t[1] \in Pages
    BY <1>6, Zenon DEF TypeOK
  <2> QED BY <1>0, <1>3, <2>1, <2>2, SameLeaves, Zenon
<1> QED BY <1>6, <1>7, <1>8, Zenon DEF IInv

LEMMA ReturnsStep ==
  ASSUME IInv, vmm_alloc_returns
  PROVE  IInv'
<1> DEFINE New == next_virt .. next_virt + pages - 1
<1>0. TypeOK /\ Owners /\ Mapped /\ Cached
  BY Zenon DEF IInv
<1>1. /\ pc = "map" /\ i = pages /\ pages \in Nat /\ phys \in Nat
      /\ next_virt \in Nat /\ next_virt + pages <= RegionEnd
      /\ Run = phys .. phys + pages - 1
  BY <1>0, PageFacts DEF vmm_alloc_returns, TypeOK, Run
<1>2. /\ next_virt' = next_virt + pages /\ pc' = "idle" /\ UNCHANGED <<used, tlb>>
      /\ held' = [v \in DOMAIN held \union New |->
                    IF v \in New THEN phys + (v - next_virt) ELSE held[v]]
      /\ entry' = [f \in Frames |-> IF f \in Run THEN Junk ELSE entry[f]]
  BY <1>1, Zenon DEF vmm_alloc_returns
<1>3. /\ DOMAIN held' = DOMAIN held \union New
      /\ \A v \in New : held'[v] = phys + (v - next_virt)
      /\ \A v \in DOMAIN held : held'[v] = held[v] /\ v \notin New
  <2>1. \A v \in DOMAIN held : v \notin New
    BY <1>0, <1>1 DEF TypeOK
  <2> QED BY <1>2, <2>1, Zenon
<1>4. /\ \A v \in New : held'[v] \in Run
      /\ \A f \in Run : \E v \in New : held'[v] = f
      /\ \A v, w \in New : held'[v] = held'[w] => v = w
  <2>1. \A v \in New : held'[v] \in Run
    BY <1>1, <1>3
  <2>2. ASSUME NEW f \in Run PROVE \E v \in New : held'[v] = f
    <3>1. next_virt + (f - phys) \in New
      BY <1>1
    <3>2. held'[next_virt + (f - phys)] = f
      BY <1>1, <1>3, <3>1
    <3> QED BY <3>1, <3>2, Zenon
  <2>3. \A v, w \in New : held'[v] = held'[w] => v = w
    BY <1>1, <1>3
  <2> QED BY <2>1, <2>2, <2>3, Zenon
<1>5. HeldFrames' = HeldFrames \union Run /\ Run' = {}
  <2>1. Run' = {}
    BY <1>2, Zenon DEF Run
  <2>2. HeldFrames' = {held'[v] : v \in DOMAIN held'}
    BY Zenon DEF HeldFrames
  <2> HIDE DEF New, Run
  <2>3. HeldFrames' \subseteq HeldFrames \union Run
    BY <1>3, <1>4, <2>2 DEF HeldFrames
  <2>4. HeldFrames \union Run \subseteq HeldFrames'
    BY <1>3, <1>4, <2>2 DEF HeldFrames
  <2> QED BY <2>1, <2>3, <2>4, Zenon
<1>6. entry' \in Entries
  BY <1>0, <1>2, FrameFacts, Zenon DEF TypeOK, Entries
<1>7. /\ TreeOK(entry') /\ TablesOf(entry') = TablesOf(entry)
      /\ \A v \in Pages : LeafOf(entry', v) = LeafOf(entry, v)
  <2>1. entry'[PDPT] = entry[PDPT]
    BY <1>0, <1>2, FrameFacts, Zenon DEF Owners
  <2>2. TablesOf(entry) \subseteq Frames /\ TreeOK(entry)
    BY <1>0, Zenon DEF Owners, TypeOK
  <2>3. \A f \in TablesOf(entry) : entry'[f] = entry[f]
    BY <1>0, <1>2, <2>2, Zenon DEF Owners
  <2> QED BY <2>1, <2>2, <2>3, OtherFrames, Zenon
<1>8. TypeOK'
  <2>1. next_virt' \in 0 .. RegionEnd
    BY <1>1, <1>2, PageFacts
  <2>2. DOMAIN held' \subseteq 0 .. next_virt' - 1
    BY <1>0, <1>1, <1>2, <1>3 DEF TypeOK
  <2> QED BY <1>0, <1>2, <1>6, <2>1, <2>2, Zenon DEF TypeOK
<1>9. Owners'
  <2> HIDE DEF Run, New
  <2>1. \A v, w \in DOMAIN held' : v # w => held'[v] # held'[w]
    <3> SUFFICES ASSUME NEW v \in DOMAIN held', NEW w \in DOMAIN held',
                        held'[v] = held'[w], v # w
                 PROVE  FALSE
      BY Zenon
    <3>1. CASE v \in New /\ w \in New
      BY <1>4, <3>1, Zenon
    <3>2. CASE v \in DOMAIN held /\ w \in DOMAIN held
      BY <1>0, <1>3, <3>2, Zenon DEF Owners
    <3>3. ASSUME NEW x \in DOMAIN held, NEW y \in New, held'[x] = held'[y] PROVE FALSE
      <4>1. held'[y] \in Run /\ held'[x] \in HeldFrames
        BY <1>3, <1>4, Zenon DEF HeldFrames
      <4> QED BY <1>0, <3>3, <4>1, Zenon DEF Owners
    <3> QED BY <1>3, <3>1, <3>2, <3>3, Zenon
  <2>2. /\ used' = Reserved \union TablesOf(entry') \union HeldFrames' \union Run'
        /\ HeldFrames' \subseteq Fresh /\ Run' \subseteq Fresh
        /\ HeldFrames' \intersect TablesOf(entry') = {}
        /\ Run' \intersect TablesOf(entry') = {}
        /\ HeldFrames' \intersect Run' = {}
    BY <1>0, <1>2, <1>5, <1>7, Zenon DEF Owners
  <2> QED BY <1>7, <2>1, <2>2, Zenon DEF Owners
<1>10. Mapped'
  <2>1. ASSUME NEW v \in New PROVE LeafOf(entry', v) = held'[v]
    <3>1. v - next_virt \in 0 .. i - 1 /\ v = next_virt + (v - next_virt) /\ v \in Pages
      BY <1>1, PageFacts
    <3>2. LeafOf(entry, v) = phys + (v - next_virt)
      BY <1>0, <1>1, <3>1, Zenon DEF Mapped
    <3> QED BY <1>3, <1>7, <3>1, <3>2, Zenon
  <2>2. \A v \in 0 .. next_virt - 1 : v \in Pages
    BY <1>1, PageFacts
  <2>3. ASSUME NEW v \in DOMAIN held PROVE LeafOf(entry', v) = held'[v]
    BY <1>0, <1>3, <1>7, <2>2, Zenon DEF Mapped, TypeOK
  <2>4. ASSUME NEW v \in 0 .. next_virt' - 1, v \notin DOMAIN held'
        PROVE  LeafOf(entry', v) = NULL
    <3>1. v \in 0 .. next_virt - 1 /\ v \notin DOMAIN held
      BY <1>1, <1>2, <1>3, <2>4
    <3> QED BY <1>0, <1>7, <2>2, <3>1, Zenon DEF Mapped
  <2> HIDE DEF New
  <2>5. \A v \in DOMAIN held' : LeafOf(entry', v) = held'[v]
    BY <1>3, <2>1, <2>3, Zenon
  <2> QED BY <1>2, <2>4, <2>5, Zenon DEF Mapped
<1>11. Cached'
  BY <1>0, <1>2, <1>7, Zenon DEF Cached, TypeOK
<1> QED BY <1>8, <1>9, <1>10, <1>11, Zenon DEF IInv

LEMMA FreeStep ==
  ASSUME IInv, NEW v \in DOMAIN held, NEW n \in 1 .. MaxPages, vmm_free(v, n)
  PROVE  IInv'
<1> DEFINE S == v .. v + n - 1
<1>0. TypeOK /\ Owners /\ Mapped /\ Cached
  BY Zenon DEF IInv
<1>1. S \subseteq DOMAIN held /\ S \subseteq Pages /\ pc = "idle"
  <2>1. S \subseteq DOMAIN held /\ pc = "idle"
    BY Zenon DEF vmm_free
  <2>2. DOMAIN held \subseteq Pages
    BY <1>0, PageFacts DEF TypeOK
  <2> QED BY <2>1, <2>2, Zenon
<1>2. \A w \in Pages : /\ vmm_get_phys(w) = LeafOf(entry, w)
                       /\ get_pte(w, FALSE).table = TableOf(entry, w)
  BY <1>0, PteReads, Zenon DEF TypeOK, Owners
<1>3. \A w \in S : /\ vmm_get_phys(w) = held[w] /\ held[w] # NULL
                   /\ TableOf(entry, w) # NULL
  <2> TAKE w \in S
  <2>1. vmm_get_phys(w) = held[w] /\ LeafOf(entry, w) = held[w]
    BY <1>0, <1>1, <1>2, Zenon DEF Mapped
  <2>2. held[w] # NULL
    BY <1>0, <1>1, FrameFacts, Zenon DEF Owners, HeldFrames
  <2> QED BY <2>1, <2>2, Zenon DEF LeafOf
<1>4. {w \in v .. v + n - 1 : vmm_get_phys(w) # NULL} = S
  BY <1>3, Zenon
<1>5. /\ used' = used \ {held[w] : w \in S}
      /\ entry' = [f \in Frames |-> [k \in Index |->
                      IF \E w \in S : TableOf(entry, w) = f /\ pt_idx(w) = k
                      THEN NULL ELSE entry[f][k]]]
      /\ tlb' = {t \in tlb : t[1] \notin S}
      /\ held' = [w \in DOMAIN held \ S |-> held[w]]
      /\ UNCHANGED <<next_virt, pc>>
  <2>1. /\ used' = used \ {vmm_get_phys(w) : w \in S}
        /\ entry' = [f \in Frames |-> [k \in Index |->
                       IF \E w \in S : get_pte(w, FALSE).table = f /\ pt_idx(w) = k
                       THEN NULL ELSE entry[f][k]]]
        /\ tlb' = {t \in tlb : t[1] \notin S}
        /\ held' = [w \in DOMAIN held \ S |-> held[w]]
        /\ UNCHANGED <<next_virt, pc>>
    BY <1>4, Zenon DEF vmm_free, Invlpg
  <2> HIDE DEF S
  <2>2. {vmm_get_phys(w) : w \in S} = {held[w] : w \in S}
    BY <1>3, Zenon
  <2>3. \A w \in S : get_pte(w, FALSE).table = TableOf(entry, w)
    BY <1>1, <1>2, Zenon
  <2> QED BY <2>1, <2>2, <2>3, Zenon
<1> HIDE DEF S
<1>6. entry' \in Entries
  BY <1>0, <1>5, FrameFacts, Zenon DEF TypeOK, Entries
<1>7. /\ TreeOK(entry') /\ TablesOf(entry') = TablesOf(entry)
      /\ \A w \in Pages : TableOf(entry', w) = TableOf(entry, w)
      /\ \A w \in Pages \ S : LeafOf(entry', w) = LeafOf(entry, w)
  <2>1. \A f \in Frames, k \in Index :
          (\A w \in S : ~ (TableOf(entry, w) = f /\ pt_idx(w) = k))
             => entry'[f][k] = entry[f][k]
    BY <1>5, Zenon
  <2>2. TreeOK(entry) /\ S \in SUBSET Pages
    BY <1>0, <1>1, Zenon DEF Owners
  <2> QED BY <2>1, <2>2, SetLeaves, Zenon
<1>8. \A w \in S : LeafOf(entry', w) = NULL
  <2> TAKE w \in S
  <2>1. TableOf(entry, w) \in Frames /\ pt_idx(w) \in Index
    BY <1>0, <1>1, <1>3, TableApart, Digits, Zenon DEF Owners
  <2>2. entry'[TableOf(entry, w)][pt_idx(w)] = NULL
    BY <1>5, <2>1, Zenon
  <2> QED BY <1>1, <1>7, <2>2, Zenon DEF LeafOf
<1>9. /\ DOMAIN held' = DOMAIN held \ S /\ \A w \in DOMAIN held' : held'[w] = held[w]
  BY <1>5, Zenon
<1>10. HeldFrames' = HeldFrames \ {held[w] : w \in S} /\ Run = {} /\ Run' = {}
  <2>1. Run = {} /\ Run' = {}
    BY <1>1, <1>5, Zenon DEF Run
  <2>2. HeldFrames' = {held'[w] : w \in DOMAIN held'}
    BY Zenon DEF HeldFrames
  <2>3. \A x, y \in DOMAIN held : x # y => held[x] # held[y]
    BY <1>0, Zenon DEF Owners
  <2>4. HeldFrames' \subseteq HeldFrames \ {held[w] : w \in S}
    BY <1>1, <1>9, <2>2, <2>3 DEF HeldFrames
  <2>5. HeldFrames \ {held[w] : w \in S} \subseteq HeldFrames'
    BY <1>9, <2>2, Zenon DEF HeldFrames
  <2> QED BY <2>1, <2>4, <2>5, Zenon
<1>11. TypeOK'
  <2>1. DOMAIN held' \subseteq 0 .. next_virt' - 1
    BY <1>0, <1>5, <1>9, Zenon DEF TypeOK
  <2>2. used' \in SUBSET Frames /\ tlb' \in SUBSET (Pages \X Nat)
    BY <1>0, <1>5, Zenon DEF TypeOK
  <2> QED BY <1>0, <1>1, <1>5, <1>6, <2>1, <2>2, Zenon DEF TypeOK
<1>12. Owners'
  <2>1. \A x, y \in DOMAIN held' : x # y => held'[x] # held'[y]
    BY <1>0, <1>9, Zenon DEF Owners
  <2> DEFINE G == {held[w] : w \in S}
  <2>2. G \subseteq HeldFrames
    BY <1>1, Zenon DEF HeldFrames
  <2> HIDE DEF G
  <2>3. used' = used \ G /\ HeldFrames' = HeldFrames \ G
    BY <1>5, <1>10, Zenon DEF G
  <2>4. G \intersect Reserved = {} /\ G \intersect TablesOf(entry) = {}
    BY <1>0, <2>2, FrameFacts, Zenon DEF Owners
  <2>5. /\ used' = Reserved \union TablesOf(entry') \union HeldFrames' \union Run'
        /\ HeldFrames' \subseteq Fresh /\ Run' \subseteq Fresh
        /\ HeldFrames' \intersect TablesOf(entry') = {}
        /\ Run' \intersect TablesOf(entry') = {}
        /\ HeldFrames' \intersect Run' = {}
    BY <1>0, <1>7, <1>10, <2>3, <2>4, Zenon DEF Owners
  <2> QED BY <1>7, <2>1, <2>5, Zenon DEF Owners
<1>13. Mapped'
  <2>1. \A w \in 0 .. next_virt - 1 : w \in Pages
    BY <1>0, PageFacts DEF TypeOK
  <2>2. DOMAIN held \subseteq 0 .. next_virt - 1
    BY <1>0, Zenon DEF TypeOK
  <2>3. \A w \in DOMAIN held' : LeafOf(entry', w) = held'[w]
    BY <1>0, <1>7, <1>9, <2>1, <2>2, Zenon DEF Mapped
  <2>4. \A w \in 0 .. next_virt - 1 : w \notin DOMAIN held' => LeafOf(entry', w) = NULL
    BY <1>0, <1>7, <1>8, <1>9, <2>1, Zenon DEF Mapped
  <2> QED BY <1>1, <1>5, <2>3, <2>4, Zenon DEF Mapped
<1>14. Cached'
  <2>1. \A t \in tlb : t[1] \in Pages
    BY <1>0, Zenon DEF TypeOK
  <2> QED BY <1>0, <1>5, <1>7, <2>1, Zenon DEF Cached
<1> QED BY <1>11, <1>12, <1>13, <1>14, Zenon DEF IInv

LEMMA MapStep ==
  ASSUME IInv, NEW v \in Window, NEW f \in Devices, vmm_map(v, f)
  PROVE  IInv'
<1> DEFINE m == get_pte(v, TRUE)
           e2 == SetPte(m, v, f)
<1>0. TypeOK /\ Owners /\ Mapped /\ Cached
  BY Zenon DEF IInv
<1>1. v \in Pages /\ f \in Nat
  BY PageFacts, VmmAssumption, Zenon
<1>2. /\ pc = "idle" /\ used' = m.used /\ UNCHANGED <<next_virt, held, pc>>
      /\ \/ m.table # NULL /\ entry' = e2 /\ tlb' = {t \in tlb : t[1] # v}
         \/ entry' = m.entry /\ tlb' = tlb
  BY Zenon DEF vmm_map, Invlpg
<1>3. /\ m.entry \in Entries /\ TreeOK(m.entry)
      /\ m.used \in SUBSET Frames
      /\ m.used = Reserved \union TablesOf(m.entry) \union HeldFrames \union Run
      /\ HeldFrames \intersect TablesOf(m.entry) = {}
      /\ Run \intersect TablesOf(m.entry) = {}
      /\ \A w \in Pages : LeafOf(m.entry, w) = LeafOf(entry, w)
      /\ m.table # NULL => m.table = TableOf(m.entry, v)
  <2>1. Kept(m, v)
    BY <1>1, WalkKeeps, Zenon
  <2> HIDE DEF m
  <2> QED BY <2>1, Zenon DEF Kept
<1>4. m.table # NULL =>
        /\ e2 \in Entries /\ TreeOK(e2) /\ TablesOf(e2) = TablesOf(m.entry)
        /\ \A w \in Pages : LeafOf(e2, w) = IF w = v THEN f ELSE LeafOf(m.entry, w)
  <2> HIDE DEF m
  <2> QED BY <1>1, <1>3, SetPteIs
<1> HIDE DEF m, e2
<1>5. /\ entry' \in Entries /\ TreeOK(entry') /\ TablesOf(entry') = TablesOf(m.entry)
      /\ \A w \in Pages : w # v => LeafOf(entry', w) = LeafOf(entry, w)
      /\ \/ tlb' = {t \in tlb : t[1] # v}
         \/ tlb' = tlb /\ \A w \in Pages : LeafOf(entry', w) = LeafOf(entry, w)
  BY <1>2, <1>3, <1>4, Zenon
<1>6. HeldFrames' = HeldFrames /\ Run' = Run /\ Run = {}
  BY <1>2, Zenon DEF HeldFrames, Run
<1>7. TypeOK'
  <2>1. tlb' \subseteq tlb
    BY <1>5, Zenon
  <2>2. tlb' \in SUBSET (Pages \X Nat)
    BY <1>0, <2>1, Zenon DEF TypeOK
  <2> QED BY <1>0, <1>2, <1>3, <1>5, <2>2, Zenon DEF TypeOK
<1>8. Owners'
  <2> HIDE DEF HeldFrames, Run
  <2> QED BY <1>0, <1>2, <1>3, <1>5, <1>6, Zenon DEF Owners
<1>9. Mapped' /\ Cached'
  <2>1. \A t \in tlb : t[1] \in Pages
    BY <1>0, Zenon DEF TypeOK
  <2>2. tlb' \subseteq tlb /\ \A t \in tlb' : LeafOf(entry', t[1]) = LeafOf(entry, t[1])
    BY <1>5, <2>1, Zenon
  <2> QED BY <1>0, <1>2, <1>5, <2>2, SameLeaves, Zenon
<1> QED BY <1>7, <1>8, <1>9, Zenon DEF IInv

LEMMA UnmapStep ==
  ASSUME IInv, NEW v \in Window, vmm_unmap(v)
  PROVE  IInv'
<1> DEFINE m == get_pte(v, FALSE)
           e2 == SetPte(m, v, NULL)
<1>0. TypeOK /\ Owners /\ Mapped /\ Cached
  BY Zenon DEF IInv
<1>1. v \in Pages /\ NULL \in Nat
  BY PageFacts, FrameFacts, Zenon
<1>2. /\ pc = "idle" /\ UNCHANGED <<used, next_virt, held, pc>>
      /\ m.table # NULL /\ entry' = e2 /\ tlb' = {t \in tlb : t[1] # v}
  BY Zenon DEF vmm_unmap, Invlpg
<1>3. m.table = TableOf(entry, v) /\ m.entry = entry
  BY <1>0, <1>1, PteReads, Zenon DEF TypeOK, Owners
<1>4. /\ e2 \in Entries /\ TreeOK(e2) /\ TablesOf(e2) = TablesOf(entry)
      /\ \A w \in Pages : LeafOf(e2, w) = IF w = v THEN NULL ELSE LeafOf(entry, w)
  <2>1. /\ m.entry \in Entries /\ TreeOK(m.entry) /\ m.table = TableOf(m.entry, v)
    BY <1>0, <1>3, Zenon DEF TypeOK, Owners
  <2> HIDE DEF m
  <2>2. /\ e2 \in Entries /\ TreeOK(e2) /\ TablesOf(e2) = TablesOf(m.entry)
        /\ \A w \in Pages : LeafOf(e2, w) = IF w = v THEN NULL ELSE LeafOf(m.entry, w)
    BY <1>1, <1>2, <2>1, SetPteIs
  <2> QED BY <1>3, <2>2, Zenon
<1> HIDE DEF m, e2
<1>5. HeldFrames' = HeldFrames /\ Run' = Run
  BY <1>2, Zenon DEF HeldFrames, Run
<1>6. TypeOK'
  BY <1>0, <1>2, <1>4, Zenon DEF TypeOK
<1>7. Owners'
  <2> HIDE DEF HeldFrames, Run
  <2> QED BY <1>0, <1>2, <1>4, <1>5, Zenon DEF Owners
<1>8. Mapped' /\ Cached'
  <2>1. \A t \in tlb : t[1] \in Pages
    BY <1>0, Zenon DEF TypeOK
  <2>2. /\ tlb' \subseteq tlb /\ \A t \in tlb' : LeafOf(entry', t[1]) = LeafOf(entry, t[1])
        /\ \A w \in Pages \ Window : LeafOf(entry', w) = LeafOf(entry, w)
    BY <1>2, <1>4, <2>1, Zenon
  <2> QED BY <1>0, <1>2, <2>2, SameLeaves, Zenon
<1> QED BY <1>6, <1>7, <1>8, Zenon DEF IInv

LEMMA WalkStep ==
  ASSUME IInv, NEW v \in Pages, walk(v)
  PROVE  IInv'
<1>0. TypeOK /\ Owners /\ Mapped /\ Cached
  BY Zenon DEF IInv
<1>1. vmm_get_phys(v) = LeafOf(entry, v)
  BY <1>0, PteReads, Zenon DEF TypeOK, Owners
<1>2. /\ tlb' = tlb \union {<<v, LeafOf(entry, v)>>}
      /\ UNCHANGED <<used, entry, next_virt, held, pc, phys, pages, i>>
  BY <1>1, Zenon DEF walk
<1>3. LeafOf(entry, v) \in Nat
  <2>1. TableOf(entry, v) # NULL => TableOf(entry, v) \in Frames /\ pt_idx(v) \in Index
    BY <1>0, TableApart, Digits, Zenon DEF Owners
  <2>2. TableOf(entry, v) # NULL => entry[TableOf(entry, v)][pt_idx(v)] \in Nat
    BY <1>0, <2>1, Zenon DEF TypeOK, Entries
  <2> QED BY <2>2, FrameFacts, Zenon DEF LeafOf
<1>4. TypeOK'
  BY <1>0, <1>2, <1>3 DEF TypeOK
<1>5. Owners' /\ Mapped'
  <2>1. HeldFrames' = HeldFrames /\ Run' = Run
    BY <1>2, Zenon DEF HeldFrames, Run
  <2>2. Owners'
    BY <1>0, <1>2, <2>1, Zenon DEF Owners
  <2> QED BY <1>0, <1>2, <2>2, Zenon DEF Mapped
<1>6. Cached'
  BY <1>0, <1>2 DEF Cached
<1> QED BY <1>4, <1>5, <1>6, Zenon DEF IInv

LEMMA StepInv == IInv /\ [Next]_vars => IInv'
<1> SUFFICES ASSUME IInv, [Next]_vars PROVE IInv'
  BY Zenon
<1>1. ASSUME NEW n \in 1 .. MaxPages, vmm_alloc(n) PROVE IInv'
  BY <1>1, AllocStep, Zenon
<1>2. CASE map_page
  BY <1>2, MapPageStep, Zenon
<1>3. CASE map_fails
  BY <1>3, MapFailsStep, Zenon
<1>4. CASE vmm_alloc_returns
  BY <1>4, ReturnsStep, Zenon
<1>5. ASSUME NEW v \in DOMAIN held, NEW n \in 1 .. MaxPages, vmm_free(v, n) PROVE IInv'
  BY <1>5, FreeStep, Zenon
<1>6. ASSUME NEW v \in Window, NEW f \in Devices, vmm_map(v, f) PROVE IInv'
  BY <1>6, MapStep, Zenon
<1>7. ASSUME NEW v \in Window, vmm_unmap(v) PROVE IInv'
  BY <1>7, UnmapStep, Zenon
<1>8. ASSUME NEW v \in Window \union (0 .. RegionEnd - 1), walk(v) PROVE IInv'
  BY <1>8, WalkStep, PageFacts, Zenon
<1>9. CASE UNCHANGED vars
  <2>1. TypeOK'
    BY <1>9, Zenon DEF vars, IInv, TypeOK
  <2>2. Owners'
    BY <1>9, Zenon DEF vars, IInv, Owners, HeldFrames, Run
  <2>3. Mapped' /\ Cached'
    BY <1>9, Zenon DEF vars, IInv, Mapped, Cached
  <2> QED BY <2>1, <2>2, <2>3, Zenon DEF IInv
<1> QED BY <1>1, <1>2, <1>3, <1>4, <1>5, <1>6, <1>7, <1>8, <1>9, Zenon DEF Next

-----------------------------------------------------------------------------
(* Theorems.                                                               *)

\* The walk of the properties is the tree of the invariant.
LEMMA ReadsAre == IInv => \A v \in Pages : vmm_get_phys(v) = LeafOf(entry, v)
BY PteReads, Zenon DEF IInv, TypeOK, Owners

\* A page that vmm_alloc gave out translates to its own frame until vmm_free, no
\* frame is behind two pages, behind a page and a page table, or the kernel's,
\* and a freed page stays unmapped; for tables of any size, any physical memory
\* and calls that fail at any level of the walk.
THEOREM Isolation == Spec => []MappedWhileHeld
<1>1. IInv => MappedWhileHeld
  <2> SUFFICES ASSUME IInv PROVE MappedWhileHeld
    BY Zenon
  <2>0. TypeOK /\ Owners /\ Mapped
    BY Zenon DEF IInv
  <2>1. \A v \in 0 .. next_virt - 1 : vmm_get_phys(v) = LeafOf(entry, v)
    BY <2>0, ReadsAre, PageFacts DEF TypeOK
  <2>2. DOMAIN held \subseteq 0 .. next_virt - 1
    BY <2>0, Zenon DEF TypeOK
  <2>3. HeldFrames \intersect (Tables \union Reserved) = {}
    BY <2>0, TablesIs, FrameFacts, Zenon DEF Owners
  <2> QED BY <2>0, <2>1, <2>2, <2>3, Zenon DEF MappedWhileHeld, Mapped, Owners, HeldFrames
<1> QED BY InitInv, StepInv, <1>1, PTL DEF Spec

\* Between two calls the marked frames are exactly those of the kernel, of the
\* page tables and of the clients: no path through vmm_alloc, vmm_free and
\* vmm_map, the one that fails half-way included, leaks a frame or frees one in
\* use.
THEOREM Accounting == Spec => []NoFrameLost
<1>1. IInv => NoFrameLost
  <2> SUFFICES ASSUME IInv, pc = "idle"
               PROVE  used = Reserved \union Tables \union {held[v] : v \in DOMAIN held}
    BY Zenon DEF NoFrameLost
  <2> QED BY TablesIs, Zenon DEF IInv, Owners, HeldFrames, Run
<1> QED BY InitInv, StepInv, <1>1, PTL DEF Spec

\* No translation the processor has cached is out of date, whenever it loaded it:
\* every change of a present entry is followed by its invlpg.
THEOREM Coherence == Spec => []TlbAgrees
<1>1. IInv => TlbAgrees
  BY ReadsAre, Zenon DEF IInv, TypeOK, Cached, TlbAgrees
<1> QED BY InitInv, StepInv, <1>1, PTL DEF Spec

=============================================================================
