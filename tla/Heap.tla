-------------------------------- MODULE Heap --------------------------------
(***************************************************************************)
(* The kernel heap (mm/heap.c): a doubly linked list of blocks, each a     *)
(* header followed by its payload, in the static array initial_heap and in *)
(* the pages vmm_alloc adds behind it.                                     *)
(*                                                                         *)
(* Addresses and sizes are numbers of allocation units.  The search loop   *)
(* of malloc takes one step per block.  Each call runs under heap_lock     *)
(* (module Spinlock) except where it drops the lock, in the retry of       *)
(* malloc and between the parts of realloc; with one mainline and handlers *)
(* that never allocate, the calls are those of one client.  It frees what  *)
(* it holds and nothing else; live is what it holds.                       *)
(***************************************************************************)
EXTENDS Naturals, FiniteSetsExt

CONSTANTS
  HDR,          \* sizeof(heap_block_t)
  ALIGN,        \* sizes are rounded up to a multiple of this
  MINSPLIT,     \* a remainder is split off when it has room for this
  PAGE,         \* the page size
  BASE,         \* address of initial_heap
  INITIAL,      \* INITIAL_HEAP_SIZE
  VBASE, VEND,  \* the addresses vmm_alloc gives out; it fails beyond VEND
  Requests      \* the sizes clients ask for

NULL == 0

ASSUME HeapAssumption ==
  /\ HDR \in Nat \ {0} /\ ALIGN \in Nat \ {0} /\ MINSPLIT \in Nat
  /\ PAGE \in Nat \ {0}
  /\ BASE \in Nat \ {0} /\ INITIAL \in Nat /\ INITIAL > HDR
  /\ VBASE \in Nat /\ VEND \in Nat
  /\ BASE + INITIAL < VBASE /\ VBASE <= VEND
  /\ Requests \subseteq Nat \ {0}

VARIABLES
  blk,              \* the listed headers: address -> size, free, next, prev
  total_heap_size, used_heap_size,
  next_virt,        \* next_virt_addr of the VMM
  live,             \* what the client holds: payload address -> size asked
  pc,               \* "idle", "scan" in malloc, "copy" in realloc,
                    \* "overrun" when other memory was written
  current, size, asked, \* malloc: the cursor, the rounded and the given size
  old, new          \* realloc: the block to be replaced, the replacement

vars == <<blk, total_heap_size, used_heap_size, next_virt, live, pc, current,
          size, asked, old, new>>
locals == <<current, size, asked, old, new>>

Init ==   \* heap_init
  /\ blk = [a \in {BASE} |-> [size |-> INITIAL - HDR, free |-> TRUE,
                              next |-> NULL, prev |-> NULL]]
  /\ total_heap_size = INITIAL
  /\ used_heap_size = HDR
  /\ next_virt = VBASE
  /\ live = [p \in {} |-> 0]
  /\ pc = "idle"
  /\ current = NULL /\ size = 0 /\ asked = 0 /\ old = NULL /\ new = NULL

Put(f, x, v) == [y \in DOMAIN f \union {x} |-> IF y = x THEN v ELSE f[y]]
Drop(f, x) == [y \in DOMAIN f \ {x} |-> f[y]]

\* The call is over and its local variables are gone.
Return == /\ pc' = "idle"
          /\ current' = NULL /\ size' = 0 /\ asked' = 0
          /\ old' = NULL /\ new' = NULL

\* The memory that is the heap's.  The kernel's own data follows initial_heap,
\* and the direct mapping of all memory lies between it and VBASE.
Owned(a, n) == \/ BASE <= a /\ a + n <= BASE + INITIAL
               \/ VBASE <= a /\ a + n <= next_virt

-----------------------------------------------------------------------------
(* malloc                                                                  *)

RoundUp(n) == ((n + ALIGN - 1) \div ALIGN) * ALIGN

\* malloc(0) returns NULL at once.
Enter(n) ==
  /\ size' = RoundUp(n)
  /\ asked' = n
  /\ current' = BASE
  /\ pc' = "scan"
  /\ UNCHANGED <<blk, total_heap_size, used_heap_size, next_virt, live>>

malloc(n) ==
  /\ pc = "idle"
  /\ Enter(n)
  /\ old' = NULL /\ new' = NULL

Fits(a) == blk[a].free /\ blk[a].size >= size

\* Faulty: the cursor moves past blocks in use only.
next_block_UsedOnly ==
  /\ pc = "scan" /\ current # NULL
  /\ ~ Fits(current)
  /\ current' = IF blk[current].free THEN current ELSE blk[current].next
  /\ UNCHANGED <<blk, total_heap_size, used_heap_size, next_virt, live, pc,
                 size, asked, old, new>>

next_block ==
  /\ pc = "scan" /\ current # NULL
  /\ ~ Fits(current)
  /\ current' = blk[current].next
  /\ UNCHANGED <<blk, total_heap_size, used_heap_size, next_virt, live, pc,
                 size, asked, old, new>>

\* Faulty: the block after the new one keeps its prev.
Split_NoBacklink(b, a) ==
  LET n == a + HDR + size
  IN  [Put(b, n, [size |-> b[a].size - size - HDR, free |-> TRUE,
                  next |-> b[a].next, prev |-> a])
         EXCEPT ![a].size = size, ![a].next = n]

\* The list after the tail of block a was made a block of its own.
Split(b, a) ==
  LET n    == a + HDR + size
      rest == Put(b, n, [size |-> b[a].size - size - HDR, free |-> TRUE,
                         next |-> b[a].next, prev |-> a])
      cut  == [rest EXCEPT ![a].size = size, ![a].next = n]
  IN  IF b[a].next # NULL THEN [cut EXCEPT ![b[a].next].prev = n] ELSE cut

Splits(a) == blk[a].size >= size + HDR + MINSPLIT

\* The caller gets the payload of block a, and realloc copies into it.
Take(a) ==
  LET b == IF Splits(a) THEN Split(blk, a) ELSE blk
  IN  /\ blk' = [b EXCEPT ![a].free = FALSE]
      /\ used_heap_size' = used_heap_size + b[a].size + HDR
      /\ live' = Put(live, a + HDR, asked)
      /\ \/ old = NULL /\ Return
         \/ /\ old # NULL
            /\ pc' = "copy"
            /\ new' = a + HDR
            /\ UNCHANGED <<current, size, asked, old>>
      /\ UNCHANGED <<total_heap_size, next_virt>>

\* What is written when block a is taken: the header of the remainder, and the
\* payload by the caller.  If that is not the heap's memory, other data of the
\* kernel is overwritten and anything may follow: the model stops there.
Touched(a) == IF Splits(a) THEN HDR + size + HDR ELSE HDR + blk[a].size

take_block ==
  /\ pc = "scan" /\ current # NULL
  /\ Fits(current)
  /\ \/ Owned(current, Touched(current)) /\ Take(current)
     \/ /\ ~ Owned(current, Touched(current))
        /\ pc' = "overrun"
        /\ UNCHANGED <<blk, total_heap_size, used_heap_size, next_virt, live,
                       locals>>

-----------------------------------------------------------------------------
(* expand_heap, and malloc again.                                          *)

\* Where the loop over next ends.
Last == CHOOSE a \in DOMAIN blk : blk[a].next = NULL

Pages == (size + HDR + PAGE - 1) \div PAGE

\* Faulty: the size of the new block still counts its header.
expand_heap_WholePages ==
  /\ pc = "scan" /\ current = NULL
  /\ next_virt + Pages * PAGE <= VEND
  /\ blk' = Put([blk EXCEPT ![Last].next = next_virt], next_virt,
                [size |-> Pages * PAGE, free |-> TRUE,
                 next |-> NULL, prev |-> Last])
  /\ total_heap_size' = total_heap_size + Pages * PAGE
  /\ next_virt' = next_virt + Pages * PAGE
  /\ current' = BASE
  /\ UNCHANGED <<used_heap_size, live, pc, size, asked, old, new>>

expand_heap ==
  /\ pc = "scan" /\ current = NULL
  /\ next_virt + Pages * PAGE <= VEND
  /\ blk' = Put([blk EXCEPT ![Last].next = next_virt], next_virt,
                [size |-> Pages * PAGE - HDR, free |-> TRUE,
                 next |-> NULL, prev |-> Last])
  /\ total_heap_size' = total_heap_size + Pages * PAGE
  /\ next_virt' = next_virt + Pages * PAGE
  /\ current' = BASE
  /\ UNCHANGED <<used_heap_size, live, pc, size, asked, old, new>>

\* vmm_alloc may run out of memory at any time; malloc, or realloc, returns
\* NULL and the old block stays.
malloc_fails ==
  /\ pc = "scan" /\ current = NULL
  /\ Return
  /\ UNCHANGED <<blk, total_heap_size, used_heap_size, next_virt, live>>

-----------------------------------------------------------------------------
(* free                                                                    *)

\* Block a swallows the one after it, on the list; whether the two are
\* neighbours in memory is not asked.
Merge(b, a) ==
  LET n   == b[a].next
      cut == [Drop(b, n) EXCEPT ![a].size = @ + HDR + b[n].size,
                                ![a].next = b[n].next]
  IN  IF b[n].next # NULL THEN [cut EXCEPT ![b[n].next].prev = a] ELSE cut

\* First with the block behind, then with the one in front.
coalesce(b, a) ==
  LET c == IF b[a].next # NULL /\ b[b[a].next].free THEN Merge(b, a) ELSE b
  IN  IF c[a].prev # NULL /\ c[c[a].prev].free THEN Merge(c, c[a].prev) ELSE c

Release(p) ==
  /\ blk' = coalesce([blk EXCEPT ![p - HDR].free = TRUE], p - HDR)
  /\ used_heap_size' = used_heap_size - (blk[p - HDR].size + HDR)
  /\ live' = Drop(live, p)

\* free of a payload the client holds.  The early returns leave everything as
\* it is: for NULL, for a header without its magic, and for a block that is free
\* already, which is what a second free of p meets as long as its memory was not
\* given out again.
free(p) ==
  /\ pc = "idle"
  /\ Release(p)
  /\ UNCHANGED <<total_heap_size, next_virt, pc, locals>>

-----------------------------------------------------------------------------
(* realloc.  realloc(NULL, n) is malloc(n) and realloc(p, 0) is free(p).   *)

\* Faulty: the old block is given up before the new one is there.
realloc_Early(p, n) ==
  /\ pc = "idle"
  /\ \/ /\ blk[p - HDR].size >= n
        /\ live' = Put(live, p, n)
        /\ UNCHANGED <<blk, total_heap_size, used_heap_size, next_virt, pc,
                       locals>>
     \/ /\ blk[p - HDR].size < n
        /\ blk' = coalesce([blk EXCEPT ![p - HDR].free = TRUE], p - HDR)
        /\ used_heap_size' = used_heap_size - (blk[p - HDR].size + HDR)
        /\ size' = RoundUp(n) /\ asked' = n /\ current' = BASE /\ pc' = "scan"
        /\ old' = p /\ new' = NULL
        /\ UNCHANGED <<total_heap_size, next_virt, live>>

realloc(p, n) ==
  /\ pc = "idle"
  /\ \/ /\ blk[p - HDR].size >= n
        /\ live' = Put(live, p, n)
        /\ UNCHANGED <<blk, total_heap_size, used_heap_size, next_virt, pc,
                       locals>>
     \/ /\ blk[p - HDR].size < n
        /\ Enter(n)
        /\ old' = p /\ new' = NULL

\* malloc gave realloc a block: memcpy of the whole old payload, then free.
realloc_copy ==
  /\ pc = "copy"
  /\ Release(old)
  /\ Return
  /\ UNCHANGED <<total_heap_size, next_virt>>

\* calloc(n, k) is malloc(n * k).
Next ==
  \/ \E n \in Requests : malloc(n)
  \/ next_block \/ take_block \/ expand_heap \/ malloc_fails
  \/ \E p \in DOMAIN live : free(p)
  \/ \E p \in DOMAIN live, n \in Requests : realloc(p, n)
  \/ realloc_copy

Spec == Init /\ [][Next]_vars

\* A call of the allocator runs on.  vmm_alloc decides whether it fails.
Fairness == WF_vars(next_block \/ take_block \/ expand_heap \/ malloc_fails
                      \/ realloc_copy)

FairSpec == Spec /\ Fairness

-----------------------------------------------------------------------------
(* Properties.                                                             *)

\* The list is one chain in the order of addresses, from heap_start over every
\* block exactly once, and prev undoes next: a split, two merges at once and an
\* expansion leave no block unlinked and no link to a merged one.  After every
\* free, no two neighbours are free: freed memory does not stay in pieces.  Only
\* while the heap has not grown, as expand_heap adds a free block behind a last
\* block that may be free.
WellLinked ==
  /\ BASE \in DOMAIN blk /\ blk[BASE].prev = NULL
  /\ \A a \in DOMAIN blk :
       LET later == {b \in DOMAIN blk : b > a}
       IN  /\ blk[a].next = IF later = {} THEN NULL ELSE Min(later)
           /\ later # {} => blk[Min(later)].prev = a
           /\ next_virt = VBASE /\ blk[a].free /\ later # {} =>
                ~ blk[Min(later)].free

\* Blocks do not overlap; what a client holds is the payload of an allocated
\* block that is as large as it asked for, and every allocated block is held:
\* no call hands out memory twice, shrinks it, or loses it.  While realloc
\* copies, the old payload fits into the new one.
HeldMemoryIsSafe ==
  /\ \A a, b \in DOMAIN blk : a < b => a + HDR + blk[a].size <= b
  /\ {p - HDR : p \in DOMAIN live} = {a \in DOMAIN blk : ~ blk[a].free}
  /\ \A p \in DOMAIN live : live[p] <= blk[p - HDR].size
  /\ pc = "copy" => blk[old - HDR].size <= blk[new - HDR].size

\* What the blocks at S take, headers included: the units they cover, which is
\* the sum of their sizes as they do not overlap.
BytesOf(S) ==
  Cardinality(UNION {a .. a + HDR + blk[a].size - 1 : a \in S})

\* The two counters that malloc, free and expand_heap keep by hand: the blocks
\* make up the whole heap, and used_heap_size is what the allocated ones take
\* (and the header of the first block, counted by heap_init).
Accounting ==
  /\ BytesOf(DOMAIN blk) = total_heap_size
  /\ used_heap_size = HDR + BytesOf({a \in DOMAIN blk : ~ blk[a].free})

\* malloc and realloc return: the block expand_heap adds is large enough, so
\* malloc does not call itself over and over.
CallsReturn == pc # "idle" ~> pc \in {"idle", "overrun"}

\* coalesce merges "adjacent free blocks" (heap.c:88): a block is one stretch
\* of the heap's memory.
BlocksAreOwned == \A a \in DOMAIN blk : Owned(a, HDR + blk[a].size)

=============================================================================
