-------------------------------- MODULE Vmm --------------------------------
(***************************************************************************)
(* The virtual memory manager (mm/vmm.c): page tables in frames of the     *)
(* physical memory manager, and a region of kernel addresses that          *)
(* vmm_alloc gives out upwards and never again.                            *)
(*                                                                         *)
(* Page 0 is the first page of that region, at 0xFFFFFFFFC0000000.  The    *)
(* PML4 entry is there from boot on for every address the kernel uses, so  *)
(* the walk starts at the PDPT.  A frame holds entries whatever it is used *)
(* for: memory is junk until it is cleared, and a table entry is a frame   *)
(* number, 0 if not present.  Module Pmm shows that a frame the physical   *)
(* allocator gives out is the lowest free one, or run; here it is an       *)
(* operator.  All calls run under vmm_lock, in one mainline.               *)
(***************************************************************************)
EXTENDS Naturals, FiniteSetsExt

CONSTANTS
  FanOut,        \* 512: the entries of a table
  TotalFrames,   \* frames of physical memory, numbered from 0
  KernelFrames,  \* the first frames are the kernel's, the PDPT among them
  Devices,       \* frame numbers of device memory, for vmm_map
  Window,        \* the pages vmm_map is used on
  RegionEnd,     \* bound on next_virt
  MaxPages       \* bound on the pages of one vmm_alloc

NULL == 0
Frames == 0 .. TotalFrames - 1
Reserved == 0 .. KernelFrames - 1
PDPT == KernelFrames - 1

ASSUME VmmAssumption ==
  /\ FanOut \in Nat \ {0} /\ TotalFrames \in Nat /\ MaxPages \in Nat
  /\ KernelFrames \in Nat /\ 1 < KernelFrames /\ KernelFrames <= TotalFrames
  /\ Devices \subseteq Nat \ Frames
  /\ RegionEnd \in 0 .. FanOut * FanOut * FanOut   \* all below one PDPT
  /\ Window \subseteq RegionEnd .. FanOut * FanOut * FanOut - 1

VARIABLES
  used,        \* the frames the physical allocator has marked
  entry,       \* what each frame contains, read as a table
  tlb,         \* the translations the processor has cached, <<page, frame>>
  next_virt,   \* next_virt_addr
  held,        \* the pages clients hold, and the frame each was given
  pc,          \* "idle", or "map" in the loop of vmm_alloc
  phys, pages, i   \* its variables

vars == <<used, entry, tlb, next_virt, held, pc, phys, pages, i>>

Index == 0 .. FanOut - 1
Junk == [k \in Index |-> TotalFrames - 1]
Zero == [k \in Index |-> NULL]

Init ==
  /\ used = Reserved
  /\ entry = [f \in Frames |-> IF f = PDPT THEN Zero ELSE Junk]
  /\ tlb = {}
  /\ next_virt = 0
  /\ held = [v \in {} |-> NULL]
  /\ pc = "idle" /\ phys = NULL /\ pages = 0 /\ i = 0

-----------------------------------------------------------------------------
(* The physical allocator.                                                 *)

RunFree(u, s, n) == s + n <= TotalFrames /\ (s .. s + n - 1) \intersect u = {}

\* The lowest run of n free frames, NULL if there is none.
pmm_alloc_pages(u, n) ==
  LET starts == {s \in Frames : RunFree(u, s, n)}
  IN  IF starts = {} THEN NULL ELSE Min(starts)

-----------------------------------------------------------------------------
(* get_pte.  The memory m has the fields used and entry; the result has a  *)
(* field table as well, NULL if a table is missing and was not, or could   *)
(* not be, made.                                                           *)

\* One level down from m.table along entry k.
Descend(m, k, create) ==
  IF m.table = NULL \/ m.entry[m.table][k] # NULL
  THEN [m EXCEPT !.table = IF @ = NULL THEN NULL ELSE m.entry[m.table][k]]
  ELSE LET page == IF create THEN pmm_alloc_pages(m.used, 1) ELSE NULL
       IN  IF page = NULL THEN [m EXCEPT !.table = NULL]
           ELSE [used  |-> m.used \union {page},
                 entry |-> [m.entry EXCEPT ![page] = Zero,
                                           ![m.table][k] = page],
                 table |-> page]

pdpt_idx(v) == (v \div (FanOut * FanOut)) % FanOut
pd_idx(v) == (v \div FanOut) % FanOut
pt_idx(v) == v % FanOut

\* The page table that has the entry of page v, at index pt_idx(v).
get_pte(v, create) ==
  Descend(Descend([used |-> used, entry |-> entry, table |-> PDPT],
                  pdpt_idx(v), create), pd_idx(v), create)

\* *pte = f, in the memory m that get_pte left.
SetPte(m, v, f) == [m.entry EXCEPT ![m.table][pt_idx(v)] = f]

\* invlpg, for the pages S.
Invlpg(S) == tlb' = {t \in tlb : t[1] \notin S}

-----------------------------------------------------------------------------
(* vmm_alloc                                                               *)

vmm_alloc(n) ==
  /\ pc = "idle"
  /\ next_virt + n <= RegionEnd
  /\ phys' = pmm_alloc_pages(used, n)
  /\ phys' # NULL       \* otherwise NULL is returned and nothing has changed
  /\ used' = used \union (phys' .. phys' + n - 1)
  /\ pages' = n /\ i' = 0
  /\ pc' = "map"
  /\ UNCHANGED <<entry, tlb, next_virt, held>>

\* One iteration of the loop, get_pte successful.
map_page ==
  /\ pc = "map" /\ i < pages
  /\ LET m == get_pte(next_virt + i, TRUE)
     IN  /\ m.table # NULL
         /\ used' = m.used
         /\ entry' = SetPte(m, next_virt + i, phys + i)
  /\ Invlpg({next_virt + i})
  /\ i' = i + 1
  /\ UNCHANGED <<next_virt, held, pc, phys, pages>>

\* Faulty: the frames are not given back.
map_fails_Leak ==
  /\ pc = "map" /\ i < pages
  /\ LET m == get_pte(next_virt + i, TRUE)
     IN  /\ m.table = NULL
         /\ entry' = m.entry
         /\ used' = m.used
  /\ pc' = "idle"
  /\ UNCHANGED <<tlb, next_virt, held, phys, pages, i>>

\* No memory for a table: the frames go back.  The entries made so far, and a
\* table made on the way, stay.
map_fails ==
  /\ pc = "map" /\ i < pages
  /\ LET m == get_pte(next_virt + i, TRUE)
     IN  /\ m.table = NULL
         /\ entry' = m.entry
         /\ used' = m.used \ (phys .. phys + pages - 1)
  /\ pc' = "idle"
  /\ UNCHANGED <<tlb, next_virt, held, phys, pages, i>>

\* Faulty: the next call starts one page too low.
vmm_alloc_returns_OffByOne ==
  /\ pc = "map" /\ i = pages
  /\ next_virt' = next_virt + pages - 1
  /\ held' = [v \in DOMAIN held \union (next_virt .. next_virt + pages - 1) |->
                IF v >= next_virt THEN phys + (v - next_virt) ELSE held[v]]
  /\ entry' = [f \in Frames |-> IF f \in phys .. phys + pages - 1 THEN Junk
                                                                 ELSE entry[f]]
  /\ pc' = "idle"
  /\ UNCHANGED <<used, tlb, phys, pages, i>>

\* The client gets the pages and writes to them.
vmm_alloc_returns ==
  /\ pc = "map" /\ i = pages
  /\ next_virt' = next_virt + pages
  /\ held' = [v \in DOMAIN held \union (next_virt .. next_virt + pages - 1) |->
                IF v \in next_virt .. next_virt + pages - 1
                THEN phys + (v - next_virt) ELSE held[v]]
  /\ entry' = [f \in Frames |-> IF f \in phys .. phys + pages - 1 THEN Junk
                                                                 ELSE entry[f]]
  /\ pc' = "idle"
  /\ UNCHANGED <<used, tlb, phys, pages, i>>

-----------------------------------------------------------------------------
(* vmm_free, of pages the client holds, and translation.                   *)

vmm_get_phys(v) ==
  LET m == get_pte(v, FALSE)
  IN  IF m.table = NULL THEN NULL ELSE entry[m.table][pt_idx(v)]

\* The pages that are mapped lose their frames and their entries; those of
\* device memory are not the physical allocator's, which ignores them.
vmm_free(v, n) ==
  LET S        == {w \in v .. v + n - 1 : vmm_get_phys(w) # NULL}
      table(w) == get_pte(w, FALSE).table
  IN  /\ pc = "idle"
      /\ v .. v + n - 1 \subseteq DOMAIN held
      /\ used' = used \ {vmm_get_phys(w) : w \in S}
      /\ entry' = [f \in Frames |-> [k \in Index |->
                     IF \E w \in S : table(w) = f /\ pt_idx(w) = k
                     THEN NULL ELSE entry[f][k]]]
      /\ Invlpg(S)
      /\ held' = [w \in DOMAIN held \ (v .. v + n - 1) |-> held[w]]
      /\ UNCHANGED <<next_virt, pc, phys, pages, i>>

-----------------------------------------------------------------------------
(* vmm_map and vmm_unmap, on the window of a driver.                       *)

vmm_map(v, f) ==
  LET m == get_pte(v, TRUE)
  IN  /\ pc = "idle"
      /\ used' = m.used
      /\ \/ m.table # NULL /\ entry' = SetPte(m, v, f) /\ Invlpg({v})
         \/ m.table = NULL /\ entry' = m.entry /\ UNCHANGED tlb
      /\ UNCHANGED <<next_virt, held, pc, phys, pages, i>>

\* Faulty: the cached translation stays.
vmm_unmap_NoInvlpg(v) ==
  LET m == get_pte(v, FALSE)
  IN  /\ pc = "idle"
      /\ m.table # NULL
      /\ entry' = SetPte(m, v, NULL)
      /\ UNCHANGED <<used, tlb, next_virt, held, pc, phys, pages, i>>

vmm_unmap(v) ==
  LET m == get_pte(v, FALSE)
  IN  /\ pc = "idle"
      /\ m.table # NULL
      /\ entry' = SetPte(m, v, NULL)
      /\ Invlpg({v})
      /\ UNCHANGED <<used, next_virt, held, pc, phys, pages, i>>

\* The processor translates page v, for an access or ahead of one, and keeps
\* the result.
walk(v) ==
  /\ vmm_get_phys(v) # NULL
  /\ tlb' = tlb \union {<<v, vmm_get_phys(v)>>}
  /\ UNCHANGED <<used, entry, next_virt, held, pc, phys, pages, i>>

Next ==
  \/ \E n \in 1 .. MaxPages : vmm_alloc(n)
  \/ map_page \/ map_fails \/ vmm_alloc_returns
  \/ \E v \in DOMAIN held, n \in 1 .. MaxPages : vmm_free(v, n)
  \/ \E v \in Window, f \in Devices : vmm_map(v, f)
  \/ \E v \in Window : vmm_unmap(v)
  \/ \E v \in Window \union (0 .. RegionEnd - 1) : walk(v)

Spec == Init /\ [][Next]_vars

-----------------------------------------------------------------------------
(* Properties.                                                             *)

\* The frames that are page directories and page tables.
Directories == {entry[PDPT][k] : k \in Index} \ {NULL}
Tables == Directories
            \union ({entry[d][k] : d \in Directories, k \in Index} \ {NULL})

\* A page that vmm_alloc gave out translates to the frame it was given until
\* it is freed, whatever is mapped, unmapped or fails meanwhile; no two pages
\* share a frame, and no page is a window on a page table or on the kernel.  A
\* freed page is unmapped for good: below next_virt nothing is mapped but what
\* is held, so that a late access faults and does not reach a frame with a new
\* owner.  The entries a failed vmm_alloc leaves are above it.
MappedWhileHeld ==
  /\ \A v \in DOMAIN held : vmm_get_phys(v) = held[v]
  /\ \A v, w \in DOMAIN held : v # w => held[v] # held[w]
  /\ {held[v] : v \in DOMAIN held} \intersect (Tables \union Reserved) = {}
  /\ \A v \in 0 .. next_virt - 1 : v \notin DOMAIN held => vmm_get_phys(v) = NULL

\* Between two calls every marked frame is the kernel's, a page table's or a
\* client's, and all of those are marked: the failure path of vmm_alloc, which
\* keeps new tables and returns the frames, neither leaks nor frees too much.
NoFrameLost ==
  pc = "idle" =>
    used = Reserved \union Tables \union {held[v] : v \in DOMAIN held}

\* The processor's cache never disagrees with the tables: every change of an
\* entry that was present, in the loop of vmm_alloc too, is followed by invlpg.
TlbAgrees == \A t \in tlb : vmm_get_phys(t[1]) = t[2]

=============================================================================
