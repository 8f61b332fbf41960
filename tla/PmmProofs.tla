----------------------------- MODULE PmmProofs -----------------------------
(***************************************************************************)
(* The page allocator is correct for every memory size, kernel size and    *)
(* request: proofs of the safety properties of Pmm.                        *)
(***************************************************************************)
EXTENDS Pmm, FiniteSetTheorems, TLAPS

(* total_pages and kernel_pages, as pmm_init computes them, are naturals   *)
(* and the kernel's part is not empty.                                     *)
LEMMA Sizes ==
  /\ total_pages \in Nat
  /\ kernel_pages \in Nat \ {0}
BY PmmAssumption DEF total_pages, kernel_pages

(* The bitmap is a finite set, so its cardinality behaves like a count.    *)
LEMMA FiniteBitmap ==
  ASSUME NEW S \in SUBSET (Reserved \union Frames)
  PROVE  IsFiniteSet(S) /\ Cardinality(S) \in Nat
<1>1. IsFiniteSet(Reserved) /\ IsFiniteSet(Frames)
  BY Sizes, FS_Interval DEF Reserved, Frames
<1>2. IsFiniteSet(Reserved \union Frames)
  BY <1>1, FS_Union, Zenon
<1>3. IsFiniteSet(S)
  BY <1>2, FS_Subset, Zenon
<1> QED
  BY <1>3, FS_CardinalityType, Zenon

(* A run of n frames has n frames.                                         *)
LEMMA RunCardinality ==
  ASSUME NEW s \in Nat, NEW n \in Nat
  PROVE  IsFiniteSet(Run(s, n)) /\ Cardinality(Run(s, n)) = n
BY FS_Interval DEF Run

(* What a scan hands out: either pmm_alloc's frame i or the run of         *)
(* find_free_pages.  In both cases the frames are in memory and were free. *)
LEMMA GrantedRunIsFree ==
  ASSUME TypeOK, ScanInv, i < total_pages, i \notin bitmap
  PROVE  /\ pc = "page" => Run(i, 1) \subseteq Frames \ bitmap
         /\ pc = "run" /\ found + 1 = count =>
              /\ RunStart = i - found
              /\ RunStart \in Nat
              /\ Run(RunStart, count) \subseteq Frames \ bitmap
BY Sizes DEF TypeOK, ScanInv, Run, RunStart, Frames

-----------------------------------------------------------------------------
(* The inductive invariant.  UsedPagesExact and NoDoubleGrant are not      *)
(* inductive alone: they need what the scan counters mean (ScanInv).       *)

IInv == TypeOK /\ ScanInv /\ UsedPagesExact /\ NoDoubleGrant

(* pmm_init establishes the invariant: it marks kernel_pages frames and    *)
(* counts each of them.                                                    *)
LEMMA InitIInv == Init => IInv
<1> SUFFICES ASSUME Init PROVE IInv
  BY Zenon
<1>1. TypeOK /\ ScanInv
  BY Sizes DEF Init, TypeOK, ScanInv, Reserved, Frames
<1>2. Cardinality(Reserved) = kernel_pages
  BY Sizes, FS_Interval DEF Reserved
<1>3. UsedPagesExact
  BY <1>2, Sizes, Zenon DEF Init, UsedPagesExact
<1>4. NoDoubleGrant
  BY Sizes DEF Init, NoDoubleGrant, Reserved, Frames
<1> QED
  BY <1>1, <1>3, <1>4, Zenon DEF IInv

(* The bits in range: the used frames never outnumber the frames when the  *)
(* kernel fits in memory (pmm_get_free_memory does not wrap).              *)
LEMMA UsedInRange ==
  ASSUME NEW S \in SUBSET (Reserved \union Frames), kernel_pages <= total_pages
  PROVE  Cardinality(S) <= total_pages
<1>1. S \in SUBSET Frames
  BY Sizes DEF Reserved, Frames
<1>2. IsFiniteSet(Frames) /\ Cardinality(Frames) = total_pages
  BY Sizes, FS_Interval DEF Frames
<1> QED
  BY <1>1, <1>2, FS_Subset, Zenon

(* Setting the bits of n free frames keeps the count and the ownership.    *)
LEMMA GrantIInv ==
  ASSUME IInv, NEW s \in Nat, NEW n \in Nat, Grant(s, n),
         Run(s, n) \subseteq Frames \ bitmap
  PROVE  IInv'
<1> USE DEF IInv, Grant
<1>1. /\ bitmap \in SUBSET (Reserved \union Frames)
      /\ bitmap' \in SUBSET (Reserved \union Frames)
  BY Zenon DEF TypeOK
<1>2. TypeOK'
  BY <1>1, Sizes DEF TypeOK
<1>3. ScanInv'
  BY Zenon DEF ScanInv
<1>4. Cardinality(bitmap') = Cardinality(bitmap) + n
  <2>1. bitmap \intersect Run(s, n) = {}
    BY Zenon
  <2>2. Cardinality(bitmap \intersect Run(s, n)) = 0
    BY <2>1, FS_EmptySet, Zenon
  <2>3. IsFiniteSet(bitmap) /\ Cardinality(bitmap) \in Nat
    BY <1>1, FiniteBitmap, Zenon
  <2>4. IsFiniteSet(Run(s, n)) /\ Cardinality(Run(s, n)) = n
    BY RunCardinality, Zenon
  <2>5. Cardinality(bitmap \union Run(s, n)) = Cardinality(bitmap) + n - 0
    BY <2>2, <2>3, <2>4, FS_Union, Zenon
  <2> QED
    BY <2>3, <2>5
<1>5. UsedPagesExact'
  BY <1>1, <1>4, UsedInRange, Sizes, Zenon DEF UsedPagesExact, TypeOK
<1>6. NoDoubleGrant'
  <2>1. \A p \in Run(s, n) : p \in Frames /\ grants[p] = 0 /\ p \notin Reserved
    BY DEF NoDoubleGrant, TypeOK
  <2>2. \A p \in Frames : grants'[p] = IF p \in Run(s, n) THEN 1 ELSE grants[p]
    BY <2>1 DEF TypeOK
  <2> HIDE DEF Grant
  <2>3. bitmap' = bitmap \union Run(s, n)
    BY Zenon DEF Grant
  <2> QED
    BY <2>1, <2>2, <2>3 DEF NoDoubleGrant, TypeOK
<1> QED
  BY <1>2, <1>3, <1>5, <1>6, Zenon

(* pmm_free and pmm_free_pages clear and uncount exactly the frames that   *)
(* were set, whatever range they are called with.                          *)
LEMMA FreeIInv ==
  ASSUME IInv, NEW s \in Nat, NEW n \in Nat, MayFree(s, n), pmm_free_pages(s, n)
  PROVE  IInv'
<1> DEFINE F == Freed(s, n)
<1> USE DEF IInv, pmm_free_pages
<1>1. F \subseteq bitmap /\ F \subseteq Frames /\ F \intersect Reserved = {}
  BY Sizes DEF Freed, Run, Frames, MayFree
<1>2. /\ bitmap \in SUBSET (Reserved \union Frames)
      /\ bitmap' \in SUBSET (Reserved \union Frames)
      /\ F \in SUBSET (Reserved \union Frames)
  BY <1>1, Zenon DEF TypeOK
<1>3. /\ IsFiniteSet(bitmap) /\ Cardinality(bitmap) \in Nat
      /\ Cardinality(F) \in Nat
      /\ Cardinality(bitmap') \in Nat
  BY <1>2, FiniteBitmap, Zenon
<1>4. Cardinality(bitmap') = Cardinality(bitmap) - Cardinality(F)
  <2>1. bitmap \intersect F = F
    BY <1>1, Zenon
  <2>2. Cardinality(bitmap \ F) = Cardinality(bitmap) - Cardinality(bitmap \intersect F)
    BY <1>3, FS_Difference, Zenon
  <2> QED
    BY <2>1, <2>2, Zenon
<1>5. used_pages' = Cardinality(bitmap')
  BY <1>4, Zenon DEF UsedPagesExact
<1>6. TypeOK'
  BY <1>2, <1>3, <1>5, Sizes, Zenon DEF TypeOK
<1>7. ScanInv'
  BY Zenon DEF ScanInv
<1>8. UsedPagesExact'
  BY <1>2, <1>5, UsedInRange, Sizes, Zenon DEF UsedPagesExact
<1>9. NoDoubleGrant'
  <2>1. \A p \in Frames : grants'[p] = IF p \in F THEN 0 ELSE grants[p]
    BY Zenon DEF TypeOK
  <2>2. bitmap' = bitmap \ F
    BY Zenon
  <2> HIDE DEF F, pmm_free_pages
  <2> QED
    BY <1>1, <2>1, <2>2 DEF NoDoubleGrant, TypeOK
<1> QED
  BY <1>6, <1>7, <1>8, <1>9, Zenon

(* One iteration of find_free_page keeps the invariant.                    *)
LEMMA FindPageIInv == IInv /\ find_free_page => IInv'
<1> SUFFICES ASSUME IInv, find_free_page PROVE IInv'
  BY Zenon
<1>1. CASE i \notin bitmap /\ Grant(i, 1)
  <2>1. Run(i, 1) \subseteq Frames \ bitmap
    BY <1>1, GrantedRunIsFree, Zenon DEF IInv, find_free_page
  <2> QED
    BY <1>1, <2>1, GrantIInv, Sizes DEF IInv, TypeOK
<1>2. CASE /\ i \in bitmap
           /\ i' = i + 1
           /\ UNCHANGED <<bitmap, used_pages, pc, count, found, start, grants>>
  <2>1. TypeOK' /\ ScanInv'
    BY <1>2, Sizes DEF find_free_page, IInv, TypeOK, ScanInv
  <2> QED
    BY <1>2, <2>1, Zenon DEF IInv, UsedPagesExact, NoDoubleGrant
<1> QED
  BY <1>1, <1>2, Zenon DEF find_free_page

(* One iteration of find_free_pages keeps the invariant.  At a used frame  *)
(* the runs that are given up all contain that frame, since fewer than     *)
(* count frames had been found before it.                                  *)
LEMMA FindPagesIInv == IInv /\ find_free_pages => IInv'
<1> SUFFICES ASSUME IInv, find_free_pages PROVE IInv'
  BY Zenon
<1>1. CASE i \notin bitmap /\ found + 1 = count /\ Grant(RunStart, count)
  <2>1. /\ RunStart \in Nat
        /\ Run(RunStart, count) \subseteq Frames \ bitmap
    BY <1>1, GrantedRunIsFree, Zenon DEF IInv, find_free_pages
  <2> QED
    BY <1>1, <2>1, GrantIInv, Zenon DEF IInv, TypeOK
<1>2. CASE /\ i \notin bitmap
           /\ found + 1 # count
           /\ start' = RunStart
           /\ found' = found + 1
           /\ i' = i + 1
           /\ UNCHANGED <<bitmap, used_pages, pc, count, grants>>
  <2>1. TypeOK'
    BY <1>2, Sizes DEF find_free_pages, IInv, TypeOK, RunStart
  <2>2. i' - found' = i - found
    BY <1>2, Sizes DEF IInv, TypeOK
  <2>3. ScanInv'
    BY <1>2, <2>2, Sizes DEF find_free_pages, IInv, TypeOK, ScanInv, RunStart, Run
  <2> QED
    BY <1>2, <2>1, <2>3, Zenon DEF IInv, UsedPagesExact, NoDoubleGrant
<1>3. CASE /\ i \in bitmap
           /\ found' = 0
           /\ i' = i + 1
           /\ UNCHANGED <<bitmap, used_pages, pc, count, start, grants>>
  <2>1. TypeOK'
    BY <1>3, Sizes DEF find_free_pages, IInv, TypeOK
  <2>2. ASSUME NEW s \in 0 .. i
        PROVE  \E q \in Run(s, count) : q \in bitmap
    <3>1. CASE s < i - found
      BY <3>1, Sizes DEF find_free_pages, IInv, TypeOK, ScanInv
    <3>2. CASE s >= i - found
      BY <3>2, <1>3, Sizes DEF find_free_pages, IInv, TypeOK, ScanInv, Run
    <3> QED
      BY <3>1, <3>2, Sizes DEF IInv, TypeOK
  <2>3. ScanInv'
    BY <1>3, <2>2, Sizes DEF find_free_pages, IInv, TypeOK, ScanInv, Run
  <2> QED
    BY <1>3, <2>1, <2>3, Zenon DEF IInv, UsedPagesExact, NoDoubleGrant
<1> QED
  BY <1>1, <1>2, <1>3, Zenon DEF find_free_pages

(* Every step of the allocator keeps the invariant.                        *)
LEMMA NextIInv == IInv /\ [Next]_vars => IInv'
<1> SUFFICES ASSUME IInv, [Next]_vars PROVE IInv'
  BY Zenon
<1>1. ASSUME NEW n \in 1 .. MaxCount, pmm_alloc_pages(n)
      PROVE  IInv'
  <2>1. \E scan \in {"page", "run"} :
          Begin(scan, n) /\ (scan = "page" => n = 1) /\ (scan = "run" => n > 1)
    BY <1>1, Zenon DEF pmm_alloc_pages, pmm_alloc
  <2>2. TypeOK' /\ ScanInv'
    BY <2>1, PmmAssumption, Sizes DEF Begin, IInv, TypeOK, ScanInv, Run
  <2> QED
    BY <2>1, <2>2, Zenon DEF Begin, IInv, UsedPagesExact, NoDoubleGrant
<1>2. CASE find_free_page
  BY <1>2, FindPageIInv, Zenon
<1>3. CASE find_free_pages
  BY <1>3, FindPagesIInv, Zenon
<1>4. CASE alloc_fails
  BY <1>4, Zenon DEF alloc_fails, IInv, TypeOK, ScanInv, UsedPagesExact, NoDoubleGrant
<1>5. ASSUME NEW s \in 0 .. total_pages, NEW n \in 1 .. MaxCount,
             MayFree(s, n), pmm_free_pages(s, n)
      PROVE  IInv'
  BY <1>5, FreeIInv, PmmAssumption, Sizes
<1>6. CASE UNCHANGED vars
  BY <1>6, Zenon DEF vars, IInv, TypeOK, ScanInv, UsedPagesExact, NoDoubleGrant
<1> QED
  BY <1>1, <1>2, <1>3, <1>4, <1>5, <1>6, Zenon DEF Next

(* The invariant holds throughout.                                         *)
THEOREM Invariance == Spec => []IInv
BY InitIInv, NextIInv, PTL DEF Spec

(* Type correctness: bits are only ever set for frames of memory or of the *)
(* kernel, and the loop counters stay in range.                            *)
THEOREM TypeCorrect == Spec => []TypeOK
<1>1. IInv => TypeOK
  BY Zenon DEF IInv
<1> QED
  BY <1>1, Invariance, PTL

(* used_pages is the number of bits set, and free memory does not wrap.    *)
THEOREM Accounting == Spec => []UsedPagesExact
<1>1. IInv => UsedPagesExact
  BY Zenon DEF IInv
<1> QED
  BY <1>1, Invariance, PTL

(* No frame is handed out twice, none of the kernel's is handed out, and   *)
(* none is lost, for every memory size and every sequence of calls.        *)
THEOREM Exclusive == Spec => []NoDoubleGrant
<1>1. IInv => NoDoubleGrant
  BY Zenon DEF IInv
<1> QED
  BY <1>1, Invariance, PTL

(* An allocation returns NULL only when memory has no run that is long     *)
(* enough.                                                                 *)
THEOREM Complete == Spec => []FailsOnlyWhenNoRun
<1>1. ASSUME IInv, pc # "idle", i = total_pages,
             NEW s \in Frames, s + count <= total_pages
      PROVE  \E q \in Run(s, count) : q \in bitmap
  <2>1. CASE pc = "page"
    BY <1>1, <2>1, Sizes DEF IInv, TypeOK, ScanInv, Frames, Run
  <2>2. CASE pc = "run"
    <3>1. s \in 0 .. i - found - 1
      BY <1>1, <2>2, Sizes DEF IInv, TypeOK, ScanInv, Frames
    <3> QED
      BY <1>1, <2>2, <3>1, Zenon DEF IInv, ScanInv
  <2> QED
    BY <1>1, <2>1, <2>2, Zenon DEF IInv, TypeOK
<1>2. IInv => FailsOnlyWhenNoRun
  BY <1>1, Zenon DEF FailsOnlyWhenNoRun
<1> QED
  BY <1>2, Invariance, PTL

(* A run that is handed out is the lowest one: first fit.                  *)
THEOREM LowestFirst == Spec => FirstFit
<1>1. ASSUME IInv, [Next]_vars, NEW s \in Frames,
             pc # "idle", bitmap' # bitmap, s + count <= total_pages,
             Run(s, count) \intersect bitmap = {}
      PROVE  \E p \in bitmap' \ bitmap : p <= s
  <2>1. CASE find_free_page
    <3>1. i \notin bitmap /\ Grant(i, 1)
      BY <1>1, <2>1, Zenon DEF find_free_page
    <3>2. i \in bitmap' \ bitmap
      BY <1>1, <3>1, Sizes DEF Grant, Run, IInv, TypeOK
    <3>3. s \notin bitmap
      BY <1>1, <2>1, Sizes DEF Run, IInv, ScanInv, find_free_page, Frames
    <3>4. i <= s
      BY <1>1, <3>3, <2>1, Sizes DEF IInv, ScanInv, find_free_page, Frames, TypeOK
    <3> QED
      BY <3>2, <3>4, Zenon
  <2>2. CASE find_free_pages
    <3>1. i \notin bitmap /\ found + 1 = count /\ Grant(RunStart, count)
      BY <1>1, <2>2, Zenon DEF find_free_pages
    <3>2. /\ RunStart = i - found /\ RunStart \in Nat
          /\ Run(RunStart, count) \subseteq Frames \ bitmap
      BY <1>1, <2>2, <3>1, GrantedRunIsFree, Zenon DEF find_free_pages, IInv
    <3>3. RunStart \in bitmap' \ bitmap
      BY <1>1, <3>1, <3>2, Sizes DEF Grant, Run, IInv, TypeOK
    <3>4. RunStart <= s
      <4>1. ~ (s < i - found)
        BY <1>1, <2>2, Sizes DEF IInv, ScanInv, TypeOK, find_free_pages, Frames
      <4> QED
        BY <1>1, <4>1, <3>2, Sizes DEF IInv, TypeOK, Frames
    <3> QED
      BY <3>3, <3>4, Zenon
  <2> QED
    BY <1>1, <2>1, <2>2, Zenon DEF Next, pmm_alloc_pages, pmm_alloc, Begin,
                            alloc_fails, pmm_free_pages, vars
<1>2. IInv /\ [Next]_vars =>
        [\A s \in Frames :
           (pc # "idle" /\ bitmap' # bitmap /\ s + count <= total_pages
              /\ Run(s, count) \intersect bitmap = {})
           => \E p \in bitmap' \ bitmap : p <= s]_vars
  BY <1>1, Zenon
<1> QED
  BY <1>2, Invariance, PTL DEF Spec, FirstFit
=============================================================================
