-------------------------------- MODULE Pmm --------------------------------
(***************************************************************************)
(* The physical memory manager (mm/pmm.c): one bit per 4 KB page frame,    *)
(* first-fit search for one page or for a run of pages.                    *)
(*                                                                         *)
(* The bit array is the set of the frames whose bit is set.  The two scans *)
(* run one loop iteration per step, with the code's counters i, found and  *)
(* start, so that what they find can be proved rather than assumed.        *)
(* Nothing else touches the allocator while pmm_lock is held (module       *)
(* Spinlock), so the callers are a single client that has one call in      *)
(* flight; grants records what it was given and has not given back.        *)
(***************************************************************************)
EXTENDS Naturals, FiniteSets

CONSTANTS
  MemPages,        \* mem_size / PAGE_SIZE, from the multiboot memory map
  BitmapBits,      \* BITMAP_SIZE * 32, what the bit array can describe
  KernelEndPages,  \* frames up to _kernel_end, rounded up
  LowPages,        \* 256: the first megabyte
  MaxCount         \* bound on the pages one call asks for

ASSUME PmmAssumption ==
  /\ MemPages \in Nat
  /\ BitmapBits \in Nat
  /\ KernelEndPages \in Nat
  /\ LowPages \in Nat \ {0}
  /\ MaxCount \in Nat

VARIABLES
  bitmap,      \* the frames whose bit is set
  used_pages,
  pc,          \* "idle", or the scan in progress: "page" or "run"
  count,       \* its argument
  i,           \* loop counter of find_free_page and find_free_pages
  found, start,
  grants       \* how many times each frame is in its callers' hands

vars == <<bitmap, used_pages, pc, count, i, found, start, grants>>

total_pages == IF MemPages > BitmapBits THEN BitmapBits ELSE MemPages

kernel_pages == IF KernelEndPages < LowPages THEN LowPages ELSE KernelEndPages

Reserved == 0 .. kernel_pages - 1

Frames == 0 .. total_pages - 1

\* The frames s .. s+n-1.
Run(s, n) == s .. s + n - 1

Init ==
  /\ bitmap = Reserved
  /\ used_pages = kernel_pages
  /\ pc = "idle"
  /\ count = 0 /\ i = 0 /\ found = 0 /\ start = 0
  /\ grants = [p \in Frames |-> 0]

-----------------------------------------------------------------------------
(* pmm_alloc and pmm_alloc_pages(n); page numbers stand for the addresses. *)

Begin(scan, n) ==
  /\ pc = "idle"
  /\ pc' = scan
  /\ count' = n
  /\ i' = 0 /\ found' = 0 /\ start' = 0
  /\ UNCHANGED <<bitmap, used_pages, grants>>

pmm_alloc == Begin("page", 1)

\* pmm_alloc_pages(0) returns NULL before it looks at anything.
pmm_alloc_pages(n) ==
  \/ n = 1 /\ pmm_alloc
  \/ n > 1 /\ Begin("run", n)

\* Set the bits of n frames from s and hand them to the caller.
Grant(s, n) ==
  /\ bitmap' = bitmap \union Run(s, n)
  /\ used_pages' = used_pages + n
  /\ grants' = [p \in Frames |-> IF p \in Run(s, n) THEN grants[p] + 1
                                                    ELSE grants[p]]
  /\ pc' = "idle"
  /\ UNCHANGED <<count, i, found, start>>

find_free_page ==
  /\ pc = "page"
  /\ i < total_pages
  /\ \/ i \notin bitmap /\ Grant(i, 1)
     \/ /\ i \in bitmap
        /\ i' = i + 1
        /\ UNCHANGED <<bitmap, used_pages, pc, count, found, start, grants>>

\* The run starts at the first free frame after the last used one.
RunStart == IF found = 0 THEN i ELSE start

\* Faulty: found is not reset at a used frame.
find_free_pages_NoReset ==
  /\ pc = "run"
  /\ i < total_pages
  /\ \/ i \notin bitmap /\ found + 1 = count /\ Grant(RunStart, count)
     \/ /\ i \notin bitmap => found + 1 # count
        /\ start' = IF i \in bitmap THEN start ELSE RunStart
        /\ found' = IF i \in bitmap THEN found ELSE found + 1
        /\ i' = i + 1
        /\ UNCHANGED <<bitmap, used_pages, pc, count, grants>>

\* Faulty: the count is compared before it is raised.
find_free_pages_OffByOne ==
  /\ pc = "run"
  /\ i < total_pages
  /\ \/ i \notin bitmap /\ found = count /\ Grant(RunStart, count)
     \/ /\ i \notin bitmap => found # count
        /\ start' = IF i \in bitmap THEN start ELSE RunStart
        /\ found' = IF i \in bitmap THEN 0 ELSE found + 1
        /\ i' = i + 1
        /\ UNCHANGED <<bitmap, used_pages, pc, count, grants>>

find_free_pages ==
  /\ pc = "run"
  /\ i < total_pages
  /\ \/ i \notin bitmap /\ found + 1 = count /\ Grant(RunStart, count)
     \/ /\ i \notin bitmap
        /\ found + 1 # count
        /\ start' = RunStart
        /\ found' = found + 1
        /\ i' = i + 1
        /\ UNCHANGED <<bitmap, used_pages, pc, count, grants>>
     \/ /\ i \in bitmap
        /\ found' = 0
        /\ i' = i + 1
        /\ UNCHANGED <<bitmap, used_pages, pc, count, start, grants>>

\* The scan ran off the end: the caller gets NULL.
alloc_fails ==
  /\ pc # "idle"
  /\ i >= total_pages
  /\ pc' = "idle"
  /\ UNCHANGED <<bitmap, used_pages, count, i, found, start, grants>>

-----------------------------------------------------------------------------
(* pmm_free_pages(s, n) is n calls of pmm_free, and pmm_free(s) one of     *)
(* them.  pmm_free ignores NULL, a frame past the end and a frame whose    *)
(* bit is clear.                                                           *)

\* Faulty: the test of the bit is missing.
Freed_NoTest(s, n) == {p \in Run(s, n) : p # 0 /\ p < total_pages}

Freed(s, n) == {p \in Run(s, n) : p # 0 /\ p < total_pages /\ p \in bitmap}

pmm_free_pages(s, n) ==
  /\ pc = "idle"
  /\ bitmap' = bitmap \ Freed(s, n)
  /\ used_pages' = used_pages - Cardinality(Freed(s, n))
  /\ grants' = [p \in Frames |-> IF p \in Freed(s, n) THEN 0 ELSE grants[p]]
  /\ UNCHANGED <<pc, count, i, found, start>>

\* No caller frees the kernel's own frames; it may free anything else, in
\* range or not, twice or never allocated.
MayFree(s, n) == Run(s, n) \intersect Reserved \subseteq {0}

Next ==
  \/ \E n \in 1 .. MaxCount : pmm_alloc_pages(n)
  \/ find_free_page
  \/ find_free_pages
  \/ alloc_fails
  \/ \E s \in 0 .. total_pages, n \in 1 .. MaxCount :
       MayFree(s, n) /\ pmm_free_pages(s, n)

Spec == Init /\ [][Next]_vars

-----------------------------------------------------------------------------
(* What the counters mean while a scan is under way: the found frames      *)
(* before i are free, and a run that starts before them meets a used one.  *)

ScanInv ==
  /\ pc = "page" => /\ count = 1
                    /\ \A q \in 0 .. i - 1 : q \in bitmap
  /\ pc = "run" => /\ found < count
                   /\ found <= i
                   /\ found > 0 => start = i - found
                   /\ \A q \in i - found .. i - 1 : q \notin bitmap
                   /\ \A s \in 0 .. i - found - 1 :
                        \E q \in Run(s, count) : q \in bitmap

-----------------------------------------------------------------------------
(* Properties.                                                             *)

TypeOK ==
  /\ bitmap \in SUBSET (Reserved \union Frames)
  /\ used_pages \in Nat
  /\ pc \in {"idle", "page", "run"}
  /\ count \in Nat
  /\ i \in 0 .. total_pages
  /\ found \in Nat
  /\ start \in Nat
  /\ grants \in [Frames -> Nat]

\* used_pages, which pmm_alloc, pmm_alloc_pages and pmm_free keep by hand, is
\* the number of bits set, so pmm_get_used_memory reports the truth and
\* pmm_get_free_memory never goes below zero when the kernel fits in memory.
UsedPagesExact ==
  /\ used_pages = Cardinality(bitmap)
  /\ kernel_pages <= total_pages => used_pages <= total_pages

\* A frame is in at most one caller's hands, it is then marked used, and it is
\* never a frame of the kernel image or the first megabyte; so no success of
\* pmm_alloc looks like NULL.  Conversely a used frame is the kernel's or
\* somebody's: no call loses a frame.
NoDoubleGrant ==
  /\ \A p \in Frames : grants[p] <= 1
  /\ bitmap = Reserved \union {p \in Frames : grants[p] > 0}
  /\ \A p \in Frames \intersect Reserved : grants[p] = 0

\* pmm_alloc and pmm_alloc_pages return NULL only when no run of the wanted
\* length is free: the counters of find_free_pages lose no run.
FailsOnlyWhenNoRun ==
  pc # "idle" /\ i = total_pages =>
    ~ \E s \in Frames : s + count <= total_pages
                        /\ Run(s, count) \intersect bitmap = {}

\* The scans are first fit: when a run is handed out, no lower one was free.
FirstFit ==
  [][\A s \in Frames :
       (pc # "idle" /\ bitmap' # bitmap /\ s + count <= total_pages
          /\ Run(s, count) \intersect bitmap = {})
       => \E p \in bitmap' \ bitmap : p <= s]_vars

=============================================================================
