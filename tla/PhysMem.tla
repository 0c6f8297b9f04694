------------------------------- MODULE PhysMem -------------------------------
(***************************************************************************)
(* Physical memory from boot on: pmm_init and boot_alloc carve memory off  *)
(* the front of the usable regions of Limine's memory map                  *)
(* (physical_page_management.c), frame_alloc_init hands what is left to    *)
(* the frame allocator (page_alloc.c), which serves it from then on.       *)
(*                                                                         *)
(* Addresses are counted in units of which PGSIZE make a page.  A region   *)
(* of the map is [base, length, usable]; Limine lists the regions in       *)
(* ascending order and usable ones overlap no other region, but neither    *)
(* end need be on a page boundary.  Address 0 is never usable: boot_alloc  *)
(* could not tell it from NULL.                                            *)
(***************************************************************************)
EXTENDS PageAlloc, Sequences

CONSTANTS PGSIZE,     \* units in a page
          PAGEINFO,   \* units in one struct PageInfo
          MemMaps,    \* the memory maps Limine may report
          Requests    \* sizes asked of boot_alloc before frame_alloc_init

ASSUME SizesAssumption == PGSIZE \in Nat \ {0} /\ PAGEINFO \in Nat /\ Requests \subseteq Nat

ASSUME MemMapsAssumption ==
  \A map \in MemMaps :
     /\ map \in Seq([base : Nat, length : Nat, usable : BOOLEAN])
     /\ \A i, j \in DOMAIN map : i < j /\ map[i].usable /\ map[j].usable =>
           map[i].base + map[i].length <= map[j].base
     /\ \A i \in DOMAIN map : map[i].usable =>
           map[i].base > 0 /\ (map[i].base + map[i].length) \div PGSIZE <= NPAGES

VARIABLES memmap,           \* the map reported
          current_region,   \* region boot_alloc takes from, 1 .. Len(memmap) + 1
          next_free,        \* first address of it not given away
          taken,            \* the address ranges given away, in order
          ready             \* has frame_alloc_init run?

bootVars == <<memmap, current_region, next_free, taken>>
physVars == <<bootVars, ready, pageVars>>

Regions == DOMAIN memmap
UsableRegions == {r \in Regions : memmap[r].usable}
End(r) == memmap[r].base + memmap[r].length
Span(base, n) == base .. base + n - 1

roundup(a) == ((a + PGSIZE - 1) \div PGSIZE) * PGSIZE
rounddown(a) == (a \div PGSIZE) * PGSIZE

npages == Max({End(r) : r \in UsableRegions} \cup {0}) \div PGSIZE

\* The first region of S, one past the last region when S is empty.
FirstOf(S) == Min(S \cup {Len(memmap) + 1})

PhysTypeOK == /\ TypeOK
              /\ current_region \in UsableRegions \cup {Len(memmap) + 1}
              /\ next_free \in Nat
              /\ ready \in BOOLEAN
              /\ npages <= NPAGES

-----------------------------------------------------------------------------
(* Boot *)

\* pmm_init; there is no pages[] yet, so no frame is on the list.
PhysInit ==
  /\ memmap \in MemMaps
  /\ current_region = FirstOf(UsableRegions)
  /\ next_free = IF current_region \in Regions THEN memmap[current_region].base ELSE 0
  /\ taken = <<>>
  /\ ready = FALSE
  /\ pp_link = [p \in Pages |-> NULL]
  /\ page_free_list = NULL
  /\ held = {}

Later_any == {r \in Regions : r > current_region}

\* The regions find_next_usable_region finds after the current one.
Later == {r \in UsableRegions : r > current_region}

\* Where the loop of boot_alloc(n) stops: at the current region if n more units
\* fit behind next_free, else at the first later one that is long enough.
Fitting(n) ==
  IF current_region \in Regions /\ next_free + n <= End(current_region)
  THEN current_region
  ELSE FirstOf({r \in Later : n <= memmap[r].length})

\* What boot_alloc(n) returns; 0 is the C NULL.
Given(n) ==
  IF Fitting(n) \notin Regions THEN 0
  ELSE IF Fitting(n) = current_region THEN next_free
  ELSE memmap[Fitting(n)].base

boot_alloc_rewinds(n) ==
  /\ current_region' = Fitting(n)
  /\ next_free' = IF Fitting(n) \in Regions THEN memmap[Fitting(n)].base + n ELSE next_free
  /\ taken' = IF Fitting(n) \in Regions THEN Append(taken, Span(Given(n), n)) ELSE taken
  /\ UNCHANGED memmap

\* When it fails, next_free is left at the last region tried.
boot_alloc(n) ==
  /\ current_region' = Fitting(n)
  /\ next_free' = IF Fitting(n) \in Regions THEN Given(n) + n
                  ELSE IF Later = {} THEN next_free ELSE memmap[Max(Later)].base
  /\ taken' = IF Fitting(n) \in Regions THEN Append(taken, Span(Given(n), n)) ELSE taken
  /\ UNCHANGED memmap

FreeFrames_rounds_down(region, frontier) ==
  {p \in Pages : \E r \in UsableRegions :
     /\ r >= region
     /\ p * PGSIZE >= IF r = region /\ roundup(memmap[r].base) < frontier
                      THEN rounddown(frontier) ELSE roundup(memmap[r].base)
     /\ p * PGSIZE < rounddown(End(r))
     /\ p < npages}

FreeFrames_drops_last(region, frontier) ==
  {p \in Pages : \E r \in UsableRegions :
     /\ r >= region
     /\ p * PGSIZE >= IF r = region /\ roundup(memmap[r].base) < frontier
                      THEN roundup(frontier) ELSE roundup(memmap[r].base)
     /\ (p + 1) * PGSIZE < rounddown(End(r))
     /\ p < npages}

\* The frames frame_alloc_init pushes: the whole frames of the usable regions
\* from the one boot_alloc has reached on, in that one only past the frontier.
FreeFrames(region, frontier) ==
  {p \in Pages : \E r \in UsableRegions :
     /\ r >= region
     /\ p * PGSIZE >= IF r = region /\ roundup(memmap[r].base) < frontier
                      THEN roundup(frontier) ELSE roundup(memmap[r].base)
     /\ p * PGSIZE < rounddown(End(r))
     /\ p < npages}

\* pages[] itself comes from boot_alloc; without it there are no frames.
frame_alloc_init ==
  /\ ~ready
  /\ ready' = TRUE
  /\ boot_alloc(npages * PAGEINFO)
  /\ LET F == IF Given(npages * PAGEINFO) = 0 /\ npages # 0
              THEN {} ELSE FreeFrames(current_region', next_free')
     IN  pp_link' = Chain(F) /\ page_free_list' = Highest(F)
  /\ UNCHANGED held

PhysNext ==
  \/ \E n \in Requests : ~ready /\ boot_alloc(n) /\ UNCHANGED <<ready, pageVars>>
  \/ frame_alloc_init
  \/ ready /\ page_alloc /\ UNCHANGED <<ready, bootVars>>
  \/ ready /\ (\E pp \in Freeable : page_free(pp)) /\ UNCHANGED <<ready, bootVars>>

PhysSpec == PhysInit /\ [][PhysNext]_physVars

-----------------------------------------------------------------------------
(* Properties *)

InUsable(S) == \E r \in UsableRegions : S \subseteq Span(memmap[r].base, memmap[r].length)

Frame(p) == Span(p * PGSIZE, PGSIZE)

\* boot_alloc never gives the same memory twice, and gives only usable memory,
\* also when it moves from a full region to a later one.
BootAllocDisjoint ==
  \A i \in DOMAIN taken : /\ InUsable(taken[i])
                          /\ \A j \in 1 .. i - 1 : taken[i] \cap taken[j] = {}

\* Every frame page_alloc can return, or has returned, is whole usable memory
\* and overlaps nothing boot_alloc gave away, pages[] included.
FramesSafe ==
  \A p \in Linked \cup held : /\ InUsable(Frame(p))
                              /\ \A i \in DOMAIN taken : Frame(p) \cap taken[i] = {}

\* frame_alloc_init loses no frame behind the last address boot_alloc gave
\* away: each is on the list or held, whatever the callers do.
FramesKept ==
  ready /\ current_region \in Regions =>
     \A p \in Pages :
        InUsable(Frame(p)) /\ (\A i \in DOMAIN taken : \A a \in taken[i] : a < p * PGSIZE)
          => p \in OnList \cup held
=============================================================================
