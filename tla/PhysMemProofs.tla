---------------------------- MODULE PhysMemProofs ----------------------------
(***************************************************************************)
(* For every memory map and number of frames: boot_alloc gives no memory   *)
(* twice, every frame the allocator hands out is usable memory that        *)
(* boot_alloc has not given away, and no frame is handed out while a       *)
(* caller holds it.                                                        *)
(*                                                                         *)
(* The free list is a chain, and what makes it one can be said page by     *)
(* page: links stay off the held frames, no page links to the head and no  *)
(* two pages link to the same one.  boot_alloc moves a frontier upwards    *)
(* through the regions: everything it gave away lies below, everything     *)
(* frame_alloc_init pushes lies above.                                     *)
(***************************************************************************)
EXTENDS PhysMem, InductionFacts, FiniteSetTheorems

\* The time each prover has for a leaf that names none.
USE SMTT(30), ZenonT(30)

\* A bounded set of naturals that is not empty has a highest member, and Max
\* picks it.
LEMMA MaxIsHighest ==
  ASSUME NEW S \in SUBSET Nat, NEW B \in Nat, S # {}, \A x \in S : x <= B
  PROVE  Max(S) \in S /\ \A y \in S : y <= Max(S)
<1> DEFINE gap(x) == B - x
           T == {gap(x) : x \in S}
<1>1. T \in SUBSET Nat /\ T # {}
  <2>1. \A x \in S : gap(x) \in Nat
    OBVIOUS
  <2> QED BY ZenonT(30), <2>1
<1>2. PICK t \in T : \A y \in T : t <= y
  BY ZenonT(30), <1>1, MinIsLeast
<1>3. PICK m \in S : t = B - m
  BY <1>2
<1>4. \A y \in S : y <= m
  <2> SUFFICES ASSUME NEW y \in S PROVE y <= m
    OBVIOUS
  <2>1. t <= gap(y)
    BY <1>2
  <2> QED BY <1>3, <2>1
<1>5. \E x \in S : \A y \in S : x >= y
  BY <1>4
<1>6. Max(S) \in S /\ \A y \in S : Max(S) >= y
  BY ZenonT(30), <1>5 DEF Max
<1> QED BY <1>6

\* Induction over the natural numbers.
LEMMA NumberInduction ==
  ASSUME NEW S, 0 \in S, \A n \in Nat : n \in S => n + 1 \in S
  PROVE  Nat \subseteq S
<1> SUFFICES ASSUME NEW n \in Nat PROVE n \in S
  OBVIOUS
<1>1. 0 .. n \subseteq S
  <2>1. \A k \in 0 .. n - 1 : k \in S => k + 1 \in S
    OBVIOUS
  <2> QED BY <2>1, UpToInduction
<1> QED BY <1>1

\* The inductive invariant.  A pop makes the popped page's link the new head,
\* so it needs that nothing else links to that page (third conjunct).
ListInv == /\ TypeOK
           /\ HeldOffList
           /\ \A p \in Pages : pp_link[p] # NULL => pp_link[p] # page_free_list
           /\ \A p, q \in Pages : pp_link[p] # NULL /\ pp_link[p] = pp_link[q] => p = q
           /\ \A p \in held : pp_link[p] = NULL

\* Highest(F) is NULL or a member of F that bounds it.
LEMMA HighestFact ==
  ASSUME NEW F \in SUBSET Pages
  PROVE  \/ F = {} /\ Highest(F) = NULL
         \/ Highest(F) \in F /\ \A y \in F : y <= Highest(F)
<1>1. F \in SUBSET Nat /\ \A x \in F : x <= NPAGES
  BY NPagesAssumption DEF Pages
<1> QED BY ZenonT(30), <1>1, MaxIsHighest, NPagesAssumption DEF Highest

\* The list frame_alloc_init builds from a set of frames.
Pushed == \E F \in SUBSET Pages : pp_link = Chain(F) /\ page_free_list = Highest(F) /\ held = {}

\* frame_alloc_init leaves a chain.
LEMMA PushedListInv == Pushed => ListInv
<1> SUFFICES ASSUME NEW F \in SUBSET Pages,
                    pp_link = Chain(F), page_free_list = Highest(F), held = {}
             PROVE  ListInv
  BY DEF Pushed
<1> DEFINE Lower(p) == {q \in F : q < p}
<1>1. \A p \in Pages : pp_link[p] = IF p \in F THEN Highest(Lower(p)) ELSE NULL
  BY DEF Chain
<1>2. \A p \in Pages : \/ Lower(p) = {} /\ Highest(Lower(p)) = NULL
                       \/ /\ Highest(Lower(p)) \in F
                          /\ Highest(Lower(p)) < p
                          /\ \A y \in F : y < p => y <= Highest(Lower(p))
  <2> SUFFICES ASSUME NEW p \in Pages
               PROVE  \/ Lower(p) = {} /\ Highest(Lower(p)) = NULL
                      \/ /\ Highest(Lower(p)) \in F
                         /\ Highest(Lower(p)) < p
                         /\ \A y \in F : y < p => y <= Highest(Lower(p))
    BY ZenonT(30)
  <2>1. Lower(p) \in SUBSET Pages
    OBVIOUS
  <2> QED BY <2>1, HighestFact
<1>3. \/ F = {} /\ page_free_list = NULL
      \/ page_free_list \in F /\ \A y \in F : y <= page_free_list
  BY HighestFact
<1> HIDE DEF Lower
<1>4. TypeOK
  <2>1. pp_link \in [Pages -> PagePtrs]
    <3>1. \A p \in Pages : (IF p \in F THEN Highest({q \in F : q < p}) ELSE NULL) \in PagePtrs
      BY <1>2 DEF PagePtrs, Lower
    <3> QED BY <3>1 DEF Chain
  <2> QED BY <2>1, <1>3 DEF TypeOK, PagePtrs
<1>5. \A p \in Pages : pp_link[p] # NULL => pp_link[p] # page_free_list
  <2> SUFFICES ASSUME NEW p \in Pages, pp_link[p] # NULL, pp_link[p] = page_free_list
               PROVE  FALSE
    OBVIOUS
  <2>1. p \in F /\ pp_link[p] = Highest(Lower(p)) /\ page_free_list # NULL
    BY <1>1
  <2>2. pp_link[p] < p /\ p <= page_free_list
    BY <2>1, <1>2, <1>3
  <2>3. page_free_list \in Pages
    BY <2>1, <1>3
  <2> QED BY <2>2, <2>3 DEF Pages
<1>6. \A p, q \in Pages : pp_link[p] # NULL /\ pp_link[p] = pp_link[q] => p = q
  <2>1. ASSUME NEW p \in Pages, NEW q \in Pages, p < q,
               pp_link[p] # NULL, pp_link[p] = pp_link[q]
        PROVE  FALSE
    <3>1. p \in F /\ pp_link[p] = Highest(Lower(p)) /\ pp_link[q] = Highest(Lower(q))
      BY <2>1, <1>1
    <3>2. pp_link[p] \in F /\ pp_link[p] < p /\ p <= pp_link[q]
      BY ZenonT(30), <2>1, <3>1, <1>2
    <3>3. pp_link[p] \in Pages /\ pp_link[p] < p /\ p <= pp_link[p]
      BY <2>1, <3>2
    <3> QED BY <3>3 DEF Pages
  <2>2. \A p, q \in Pages : p = q \/ p < q \/ q < p
    BY DEF Pages
  <2> QED BY <2>1, <2>2
<1> QED BY <1>4, <1>5, <1>6 DEF ListInv, HeldOffList

\* page_alloc keeps the chain.
LEMMA AllocStep == ListInv /\ page_alloc => ListInv'
<1> SUFFICES ASSUME ListInv, page_alloc, page_free_list # NULL PROVE ListInv'
  BY DEF page_alloc, pageVars, ListInv, TypeOK, HeldOffList
<1> USE DEF ListInv, page_alloc
<1>1. page_free_list \in Pages
  BY DEF TypeOK, PagePtrs
<1>2. TypeOK'
  BY <1>1 DEF TypeOK, PagePtrs
<1>3. HeldOffList'
  <2>1. NULL \notin Pages
    BY DEF NULL, Pages
  <2>2. page_free_list' \notin held'
    BY <1>1, <2>1 DEF TypeOK, HeldOffList
  <2>3. ASSUME NEW p \in Pages PROVE pp_link'[p] \notin held'
    <3>1. CASE p = page_free_list
      BY <3>1, <1>1, <2>1 DEF TypeOK
    <3>2. CASE p # page_free_list
      BY <3>2, <1>1, <2>1 DEF TypeOK, HeldOffList
    <3> QED BY <3>1, <3>2
  <2> QED BY <2>2, <2>3 DEF HeldOffList
<1> QED BY <1>1, <1>2, <1>3 DEF TypeOK, PagePtrs, HeldOffList

\* page_free keeps the chain, whether it refuses the page or not.
LEMMA FreeStep ==
  ASSUME NEW pp \in Freeable, ListInv, page_free(pp)
  PROVE  ListInv'
<1> USE DEF ListInv, page_free
<1>1. pp \in Pages
  BY DEF TypeOK, Freeable
<1>2. CASE pp_link[pp] # NULL
  BY <1>1, <1>2 DEF TypeOK, HeldOffList, PagePtrs
<1>3. CASE pp_link[pp] = NULL
  <2>1. pp \in held
    BY <1>3 DEF Freeable
  <2>2. TypeOK'
    BY <1>1, <1>3 DEF TypeOK, PagePtrs
  <2>3. HeldOffList'
    BY <1>1, <1>3, <2>1 DEF TypeOK, HeldOffList
  <2> QED BY <1>1, <1>3, <2>1, <2>2, <2>3 DEF TypeOK, HeldOffList
<1> QED BY <1>2, <1>3

\* Nothing is held before frame_alloc_init has run.
BootInv == ready \in BOOLEAN /\ (~ready => held = {})

\* The first memory map and the empty list.
LEMMA BootStart == PhysInit => ListInv /\ BootInv
<1>1. PhysInit => ListInv
  BY DEF PhysInit, ListInv, TypeOK, HeldOffList, PagePtrs
<1>2. PhysInit => BootInv
  BY ZenonT(30) DEF PhysInit, BootInv
<1> QED BY <1>1, <1>2

\* frame_alloc_init, whatever frames the memory map leaves it.
LEMMA BootStep == ASSUME BootInv, frame_alloc_init PROVE Pushed' /\ BootInv'
<1> DEFINE F == IF Given(npages * PAGEINFO) = 0 /\ npages # 0
                THEN {} ELSE FreeFrames(current_region', next_free')
<1>1. F \in SUBSET Pages
  BY DEF FreeFrames
<1>2. pp_link' = Chain(F) /\ page_free_list' = Highest(F)
  BY DEF frame_alloc_init
<1>3. held' = {} /\ ready' = TRUE
  BY DEF frame_alloc_init, BootInv
<1> HIDE DEF F
<1>4. Pushed'
  BY ZenonT(30), <1>1, <1>2, <1>3 DEF Pushed, Chain, Highest, Pages, NULL
<1> QED BY <1>3, <1>4 DEF BootInv

\* The chain invariant holds from boot on.
THEOREM ListInvariance == PhysSpec => [](ListInv /\ BootInv)
<1>1. ListInv /\ UNCHANGED pageVars => ListInv'
  BY DEF ListInv, TypeOK, HeldOffList, pageVars
<1>2. Pushed' => ListInv'
  BY PushedListInv, PTL
<1>3. ASSUME ListInv, BootInv, [PhysNext]_physVars PROVE ListInv' /\ BootInv'
  <2>1. CASE \E n \in Requests : ~ready /\ boot_alloc(n) /\ UNCHANGED <<ready, pageVars>>
    BY <1>1, <1>3, <2>1 DEF BootInv, pageVars
  <2>2. CASE frame_alloc_init
    BY <1>2, <1>3, <2>2, BootStep
  <2>3. CASE ready /\ page_alloc /\ UNCHANGED <<ready, bootVars>>
    BY <1>3, <2>3, AllocStep DEF BootInv
  <2>4. CASE ready /\ (\E pp \in Freeable : page_free(pp)) /\ UNCHANGED <<ready, bootVars>>
    BY <1>3, <2>4, FreeStep DEF BootInv
  <2>5. CASE UNCHANGED physVars
    BY <1>1, <1>3, <2>5 DEF BootInv, physVars, pageVars
  <2> QED BY <1>3, <2>1, <2>2, <2>3, <2>4, <2>5 DEF PhysNext
<1> QED BY <1>3, BootStart, PTL DEF PhysSpec

\* No frame a caller owns is reachable by page_alloc: the theorem, for every
\* memory map and number of frames, that HeldOffList holds always.
THEOREM HeldOffListCorrect == PhysSpec => []HeldOffList
<1>1. ListInv => HeldOffList
  BY DEF ListInv
<1> QED BY <1>1, ListInvariance, PTL

-----------------------------------------------------------------------------
(* Rounding to pages. *)

\* The quotient of a division by the page size.
LEMMA PageQuotient ==
  ASSUME NEW a \in Nat
  PROVE  /\ a \div PGSIZE \in Nat
         /\ (a \div PGSIZE) * PGSIZE <= a
         /\ a < (a \div PGSIZE) * PGSIZE + PGSIZE
BY SizesAssumption

\* Rounding moves an address no further than to the next page boundary.
LEMMA Rounding ==
  ASSUME NEW a \in Nat
  PROVE  roundup(a) \in Nat /\ a <= roundup(a) /\ rounddown(a) <= a
<1>1. a + PGSIZE - 1 \in Nat
  BY SizesAssumption
<1>2. a + PGSIZE - 1 < ((a + PGSIZE - 1) \div PGSIZE) * PGSIZE + PGSIZE
  BY <1>1, PageQuotient
<1> QED BY <1>1, <1>2, PageQuotient, SizesAssumption DEF roundup, rounddown

\* A frame that starts below an address rounded down ends at or below it.
LEMMA WholeFrame ==
  ASSUME NEW p \in Nat, NEW a \in Nat, p * PGSIZE < rounddown(a)
  PROVE  p * PGSIZE + PGSIZE <= a
<1> DEFINE k == a \div PGSIZE
<1>1. k \in Nat /\ k * PGSIZE <= a /\ p * PGSIZE < k * PGSIZE
  BY PageQuotient DEF rounddown
<1> HIDE DEF k
<1>2. p < k
  <2> SUFFICES ASSUME k <= p PROVE FALSE
    BY <1>1
  <2>1. k * PGSIZE <= p * PGSIZE
    BY <1>1, SizesAssumption
  <2> QED BY <1>1, <2>1, SizesAssumption
<1>3. (p + 1) * PGSIZE <= k * PGSIZE
  BY <1>1, <1>2, SizesAssumption
<1> QED BY <1>1, <1>3, SizesAssumption

-----------------------------------------------------------------------------
(* The frontier. *)

\* What boot_alloc gave away with its i-th call lies in a usable region, and
\* below the frontier.
Below(i) ==
  \E r \in UsableRegions :
     /\ r <= current_region
     /\ \A x \in taken[i] : /\ x \in Nat /\ memmap[r].base <= x /\ x < End(r)
                            /\ r = current_region => x < next_free

\* The inductive invariant of boot_alloc.
FrontierInv ==
  /\ memmap \in MemMaps
  /\ current_region \in UsableRegions \cup {Len(memmap) + 1}
  /\ next_free \in Nat
  /\ current_region \in Regions => memmap[current_region].base <= next_free
  /\ taken \in Seq(SUBSET Nat)
  /\ \A i \in DOMAIN taken : Below(i)
  /\ \A i \in DOMAIN taken : \A j \in 1 .. i - 1 : taken[i] \cap taken[j] = {}

\* Frame p is whole usable memory above the frontier.
Above(p) ==
  \E r \in UsableRegions :
     /\ r >= current_region
     /\ memmap[r].base <= p * PGSIZE
     /\ p * PGSIZE + PGSIZE <= End(r)
     /\ r = current_region => next_free <= p * PGSIZE

\* The inductive invariant of the frames: there are none before boot_alloc has
\* given away the last of its memory, so that none gets below the frontier.
FramesInv == /\ ~ready => Linked \cup held = {}
             /\ \A p \in Linked \cup held : p \in Nat /\ Above(p)

\* What the memory map is.
LEMMA MapFacts ==
  ASSUME memmap \in MemMaps
  PROVE  /\ Len(memmap) \in Nat /\ Regions = 1 .. Len(memmap)
         /\ \A r \in Regions : memmap[r].base \in Nat /\ memmap[r].length \in Nat /\ End(r) \in Nat
         /\ \A r, q \in UsableRegions : r < q => End(r) <= memmap[q].base
<1> DEFINE Region == [base : Nat, length : Nat, usable : BOOLEAN]
<1>1. memmap \in Seq(Region)
  BY MemMapsAssumption
<1>2. \A r \in Regions : memmap[r].base \in Nat /\ memmap[r].length \in Nat
  <2>1. \A x \in Region : x.base \in Nat /\ x.length \in Nat
    OBVIOUS
  <2> HIDE DEF Region
  <2>2. \A r \in Regions : memmap[r] \in Region
    BY <1>1 DEF Regions
  <2> QED BY ZenonT(30), <2>1, <2>2
<1> HIDE DEF Region
<1>3. \A i, j \in DOMAIN memmap : i < j /\ memmap[i].usable /\ memmap[j].usable =>
        memmap[i].base + memmap[i].length <= memmap[j].base
  BY ZenonT(30), MemMapsAssumption
<1>4. Len(memmap) \in Nat /\ Regions = 1 .. Len(memmap)
  BY <1>1 DEF Regions
<1>5. \A r \in Regions : memmap[r].base \in Nat /\ memmap[r].length \in Nat /\ End(r) \in Nat
  BY <1>2 DEF End
<1>6. \A r, q \in UsableRegions : r < q => End(r) <= memmap[q].base
  BY <1>3 DEF End, UsableRegions, Regions
<1> QED BY <1>4, <1>5, <1>6

\* FirstOf takes a region of the set, or the one past the last.
LEMMA FirstOfFact ==
  ASSUME memmap \in MemMaps, NEW S \in SUBSET Regions
  PROVE  FirstOf(S) \in S \cup {Len(memmap) + 1}
<1>1. S \cup {Len(memmap) + 1} \in SUBSET Nat
  BY MapFacts
<1> QED BY <1>1, MinIsLeast DEF FirstOf

\* npages is at least the page number of every region's end, and at most the
\* length of pages[].
LEMMA NPagesBounds ==
  ASSUME memmap \in MemMaps
  PROVE  /\ npages \in Nat /\ npages <= NPAGES
         /\ \A r \in UsableRegions : End(r) \div PGSIZE <= npages
<1> DEFINE S == {End(r) : r \in UsableRegions} \cup {0}
           B == (NPAGES + 1) * PGSIZE
<1>1. ASSUME NEW r \in UsableRegions
      PROVE  End(r) \in Nat /\ End(r) \div PGSIZE <= NPAGES /\ End(r) <= B
  <2>1. r \in Regions /\ memmap[r].usable
    BY DEF UsableRegions
  <2>2. End(r) \in Nat /\ End(r) \div PGSIZE <= NPAGES
    <3>1. \A i \in DOMAIN memmap : memmap[i].usable =>
             (memmap[i].base + memmap[i].length) \div PGSIZE <= NPAGES
      BY ZenonT(30), MemMapsAssumption
    <3> QED BY <2>1, <3>1, MapFacts DEF End, Regions
  <2>3. (End(r) \div PGSIZE) * PGSIZE <= NPAGES * PGSIZE
    BY <2>2, PageQuotient, SizesAssumption, NPagesAssumption
  <2> QED BY <2>2, <2>3, PageQuotient, SizesAssumption, NPagesAssumption
<1>2. S \in SUBSET Nat /\ S # {} /\ B \in Nat /\ \A x \in S : x <= B
  <2>1. B \in Nat /\ 0 <= B
    BY SizesAssumption, NPagesAssumption
  <2> HIDE DEF B
  <2> QED BY <1>1, <2>1
<1> HIDE DEF B
<1>3. Max(S) \in S /\ \A x \in S : x <= Max(S)
  BY ZenonT(30), <1>2, MaxIsHighest
<1>4. PICK m \in Nat : m = Max(S) /\ m \in S
  BY ZenonT(30), <1>2, <1>3
<1>5. npages = m \div PGSIZE
  BY <1>4 DEF npages
<1>6. npages \in Nat
  BY <1>4, <1>5, PageQuotient
<1>7. m \div PGSIZE <= NPAGES
  <2>1. CASE m = 0
    <3>1. 0 \div PGSIZE = 0
      BY SizesAssumption
    <3> QED BY <2>1, <3>1, NPagesAssumption
  <2>2. CASE m # 0
    BY <1>1, <1>4, <2>2
  <2> QED BY <2>1, <2>2
<1>8. ASSUME NEW r \in UsableRegions PROVE End(r) \div PGSIZE <= m \div PGSIZE
  <2>1. End(r) \in Nat /\ End(r) <= m
    BY <1>1, <1>3, <1>4
  <2> QED BY <1>4, <2>1, SizesAssumption
<1> QED BY <1>5, <1>6, <1>7, <1>8

\* Where boot_alloc finds room: in a usable region at or past the current one,
\* and in the current one behind next_free.
LEMMA Room ==
  ASSUME FrontierInv, NEW n \in Nat, Fitting(n) \in Regions
  PROVE  /\ Fitting(n) \in UsableRegions
         /\ current_region <= Fitting(n)
         /\ Given(n) \in Nat
         /\ memmap[Fitting(n)].base <= Given(n)
         /\ Given(n) + n <= End(Fitting(n))
         /\ Fitting(n) = current_region => Given(n) = next_free
<1> DEFINE f == Fitting(n)
<1>1. Len(memmap) \in Nat /\ Regions = 1 .. Len(memmap) /\ current_region \in Nat
  BY MapFacts DEF FrontierInv, UsableRegions
<1>2. CASE current_region \in Regions /\ next_free + n <= End(current_region)
  <2>1. f = current_region
    BY <1>2 DEF Fitting
  <2>2. Given(n) = next_free
    BY <2>1 DEF Given
  <2>3. current_region \in UsableRegions
    BY <1>1, <1>2 DEF FrontierInv
  <2> QED BY <1>1, <1>2, <2>1, <2>2, <2>3 DEF FrontierInv
<1>3. CASE ~(current_region \in Regions /\ next_free + n <= End(current_region))
  <2> DEFINE S == {r \in Later : n <= memmap[r].length}
  <2>1. f = FirstOf(S)
    BY <1>3 DEF Fitting
  <2>2. f \in S
    <3>1. S \in SUBSET Regions
      BY DEF Later, UsableRegions
    <3>2. FirstOf(S) \in S \cup {Len(memmap) + 1}
      BY ZenonT(30), <3>1, FirstOfFact DEF FrontierInv
    <3>3. Len(memmap) + 1 \notin Regions
      BY <1>1
    <3> QED BY ZenonT(30), <2>1, <3>2, <3>3
  <2>3. f \in UsableRegions /\ current_region < f /\ n <= memmap[f].length
    BY <2>2 DEF Later
  <2>4. Given(n) = memmap[f].base
    BY <1>1, <2>3 DEF Given
  <2>5. memmap[f].base \in Nat /\ memmap[f].length \in Nat
    BY MapFacts DEF FrontierInv
  <2> HIDE DEF f
  <2>6. f # current_region
    BY <1>1, <2>3 DEF UsableRegions
  <2>7. memmap[f].base + n <= End(f)
    BY <2>3, <2>5 DEF End
  <2> QED BY <1>1, <2>3, <2>4, <2>5, <2>6, <2>7 DEF f, UsableRegions
<1> QED BY <1>2, <1>3

\* boot_alloc that finds no room moves the frontier past the last region.
LEMMA NoRoomStep ==
  ASSUME FrontierInv, NEW n \in Nat, boot_alloc(n), Fitting(n) \notin Regions
  PROVE  FrontierInv'
<1>1. /\ memmap' = memmap /\ taken' = taken /\ current_region' = Fitting(n)
      /\ next_free' = IF Later = {} THEN next_free ELSE memmap[Max(Later)].base
  BY DEF boot_alloc
<1>2. Len(memmap) \in Nat /\ Regions = 1 .. Len(memmap) /\ UsableRegions \subseteq Regions
  BY MapFacts DEF FrontierInv, UsableRegions
<1>3. current_region' = Len(memmap) + 1
  <2> DEFINE S == {r \in Later : n <= memmap[r].length}
  <2>1. Fitting(n) = FirstOf(S)
    BY DEF Fitting
  <2>2. S \in SUBSET Regions
    BY <1>2 DEF Later
  <2>3. FirstOf(S) \in S \cup {Len(memmap) + 1}
    BY ZenonT(30), <2>2, FirstOfFact DEF FrontierInv
  <2> QED BY ZenonT(30), <1>1, <2>1, <2>2, <2>3
<1>4. next_free' \in Nat
  <2>1. CASE Later = {}
    BY <1>1, <2>1 DEF FrontierInv
  <2>2. CASE Later # {}
    <3>0. Later \subseteq 1 .. Len(memmap)
      BY ZenonT(30), <1>2 DEF Later
    <3>1. Later \in SUBSET Nat /\ \A x \in Later : x <= Len(memmap)
      BY <1>2, <3>0
    <3>2. Max(Later) \in Later
      BY ZenonT(30), <1>2, <2>2, <3>1, MaxIsHighest
    <3>3. Max(Later) \in Regions
      BY ZenonT(30), <1>2, <3>2 DEF Later
    <3> QED BY <1>1, <2>2, <3>3, MapFacts DEF FrontierInv
  <2> QED BY <2>1, <2>2
<1>5. Regions' = Regions /\ UsableRegions' = UsableRegions /\ \A r : End(r)' = End(r)
  BY <1>1 DEF Regions, UsableRegions, End
<1>6. ASSUME NEW i \in DOMAIN taken PROVE Below(i)'
  <2>1. PICK r \in UsableRegions :
           \A x \in taken[i] : x \in Nat /\ memmap[r].base <= x /\ x < End(r)
    BY DEF FrontierInv, Below
  <2>2. r <= Len(memmap) + 1 /\ r # Len(memmap) + 1
    BY <1>2
  <2> QED BY ZenonT(30), <1>1, <1>3, <1>5, <2>1, <2>2 DEF Below
<1>7. current_region' \notin Regions
  BY <1>2, <1>3
<1> QED BY ZenonT(30), <1>1, <1>3, <1>4, <1>5, <1>6, <1>7 DEF FrontierInv

\* boot_alloc that finds room gives away what lies between the old frontier and
\* the new one.
LEMMA RoomStep ==
  ASSUME FrontierInv, NEW n \in Nat, boot_alloc(n), Fitting(n) \in Regions
  PROVE  FrontierInv'
<1> DEFINE new == Span(Given(n), n)
<1>1. PICK f \in UsableRegions : f = Fitting(n)
  BY Room
<1>2. PICK g \in Nat : g = Given(n)
  BY Room
<1>3. /\ current_region <= f /\ memmap[f].base <= g /\ g + n <= End(f)
      /\ f = current_region => g = next_free
  BY <1>1, <1>2, Room
<1>4. /\ memmap' = memmap /\ taken' = Append(taken, new)
      /\ current_region' = f /\ next_free' = g + n
  BY <1>1, <1>2 DEF boot_alloc
<1>5. /\ Len(memmap) \in Nat /\ Regions = 1 .. Len(memmap) /\ UsableRegions \subseteq Regions
      /\ current_region \in Nat /\ f \in Nat
      /\ \A r \in Regions : memmap[r].base \in Nat /\ End(r) \in Nat
  <2>1. UsableRegions \subseteq Regions
    BY ZenonT(30) DEF UsableRegions
  <2>2. \A r \in Regions : memmap[r].base \in Nat /\ End(r) \in Nat
    BY ZenonT(30), MapFacts DEF FrontierInv
  <2>3. Len(memmap) \in Nat /\ Regions = 1 .. Len(memmap)
    BY MapFacts DEF FrontierInv
  <2>4. \A r \in Regions : r \in Nat
    BY <2>3
  <2>5. current_region \in Nat
    BY <2>1, <2>3, <2>4 DEF FrontierInv
  <2> QED BY ZenonT(30), <2>1, <2>2, <2>3, <2>4, <2>5
<1>6. new \in SUBSET Nat /\ \A x \in new : g <= x /\ x < g + n
  BY <1>2 DEF Span
<1>7. Regions' = Regions /\ UsableRegions' = UsableRegions /\ \A r : End(r)' = End(r)
  BY <1>4 DEF Regions, UsableRegions, End
<1> HIDE DEF new
<1>7a. PICK k \in Nat : k = Len(taken) + 1
  BY DEF FrontierInv
<1>8. /\ taken \in Seq(SUBSET Nat) /\ taken' \in Seq(SUBSET Nat)
      /\ DOMAIN taken = 1 .. k - 1 /\ DOMAIN taken' = 1 .. k
      /\ \A i \in DOMAIN taken : taken'[i] = taken[i]
      /\ k \in DOMAIN taken' /\ taken'[k] = new
  BY <1>4, <1>6, <1>7a DEF FrontierInv
<1>9. ASSUME NEW i \in DOMAIN taken
      PROVE  Below(i)' /\ new \cap taken[i] = {}
  <2>1. PICK r \in UsableRegions :
          /\ r <= current_region
          /\ \A x \in taken[i] : /\ x \in Nat /\ memmap[r].base <= x /\ x < End(r)
                                 /\ r = current_region => x < next_free
    BY DEF FrontierInv, Below
  <2>2. r \in Nat /\ r <= f
    BY <1>3, <1>5, <2>1
  <2>3. \A x \in taken[i] : x < g
    <3>1. CASE r = f
      <4>1. r = current_region /\ g = next_free
        BY <1>3, <1>5, <2>1, <2>2, <3>1
      <4> QED BY <2>1, <4>1
    <3>2. CASE r # f
      <4>1. End(r) <= memmap[f].base
        BY <2>2, <3>2, <1>5, MapFacts DEF FrontierInv
      <4>2. End(r) \in Nat /\ memmap[f].base \in Nat
        BY <1>5
      <4> QED BY <1>3, <2>1, <4>1, <4>2
    <3> QED BY <3>1, <3>2
  <2>4. \A x \in taken[i] : x < g + n
    BY <2>1, <2>3
  <2>5. Below(i)'
    BY ZenonT(30), <1>4, <1>7, <1>8, <2>1, <2>2, <2>4 DEF Below
  <2>6. new \cap taken[i] = {}
    BY <1>6, <2>1, <2>3
  <2> QED BY <2>5, <2>6
<1>10. Below(k)'
  <2>1. \A x \in new : x \in Nat /\ memmap[f].base <= x /\ x < End(f) /\ x < g + n
    <3>1. memmap[f].base \in Nat /\ End(f) \in Nat
      BY <1>5
    <3> QED BY <1>3, <1>6, <3>1
  <2>2. f <= f
    BY <1>5
  <2> QED BY ZenonT(30), <1>4, <1>7, <1>8, <2>1, <2>2 DEF Below
<1>11. \A i \in DOMAIN taken' : Below(i)'
  <2>1. \A i \in DOMAIN taken' : i \in DOMAIN taken \/ i = k
    BY <1>8
  <2> QED BY ZenonT(30), <1>9, <1>10, <2>1
<1>12. \A i \in DOMAIN taken' : \A j \in 1 .. i - 1 : taken'[i] \cap taken'[j] = {}
  <2> SUFFICES ASSUME NEW i \in DOMAIN taken', NEW j \in 1 .. i - 1
               PROVE  taken'[i] \cap taken'[j] = {}
    OBVIOUS
  <2>1. j \in DOMAIN taken /\ taken'[j] = taken[j]
    <3>1. DOMAIN taken = 1 .. k - 1 /\ i \in 1 .. k
      BY ZenonT(30), <1>8
    <3>2. j \in DOMAIN taken
      BY <3>1
    <3> QED BY ZenonT(30), <1>8, <3>2
  <2>2. CASE i \in DOMAIN taken
    BY <1>8, <2>1, <2>2 DEF FrontierInv
  <2>3. CASE i = k
    BY ZenonT(30), <1>8, <1>9, <2>1, <2>3
  <2> QED BY <1>8, <2>2, <2>3
<1>13. next_free' \in Nat /\ memmap'[current_region'].base <= next_free'
  BY <1>3, <1>4, <1>5
<1> QED BY ZenonT(30), <1>4, <1>7, <1>8, <1>11, <1>12, <1>13 DEF FrontierInv

\* boot_alloc keeps its invariant.
LEMMA BootAllocStep == ASSUME FrontierInv, NEW n \in Nat, boot_alloc(n) PROVE FrontierInv'
BY RoomStep, NoRoomStep

-----------------------------------------------------------------------------
(* The frames. *)

\* A frame that frame_alloc_init pushes lies above the frontier.
LEMMA PushedAbove ==
  ASSUME FrontierInv, NEW p \in FreeFrames(current_region, next_free)
  PROVE  p \in Nat /\ Above(p)
<1>1. p \in Nat
  BY DEF FreeFrames, Pages
<1>2. PICK r \in UsableRegions :
        /\ r >= current_region
        /\ p * PGSIZE >= IF r = current_region /\ roundup(memmap[r].base) < next_free
                         THEN roundup(next_free) ELSE roundup(memmap[r].base)
        /\ p * PGSIZE < rounddown(End(r))
  BY DEF FreeFrames
<1>3. memmap[r].base \in Nat /\ End(r) \in Nat /\ next_free \in Nat /\ p * PGSIZE \in Nat
  BY <1>1, MapFacts, SizesAssumption DEF FrontierInv, UsableRegions
<1>4. /\ roundup(memmap[r].base) \in Nat /\ memmap[r].base <= roundup(memmap[r].base)
      /\ roundup(next_free) \in Nat /\ next_free <= roundup(next_free)
  BY <1>3, Rounding
<1>5. p * PGSIZE + PGSIZE <= End(r)
  BY <1>1, <1>2, <1>3, WholeFrame
<1>6. memmap[r].base <= p * PGSIZE /\ (r = current_region => next_free <= p * PGSIZE)
  BY <1>2, <1>3, <1>4
<1> QED BY ZenonT(30), <1>1, <1>2, <1>5, <1>6 DEF Above

\* The chain links frames of the set it is made from.
LEMMA ChainLinks ==
  ASSUME NEW F \in SUBSET Pages, NEW link, link = Chain(F)
  PROVE  ({Highest(F)} \cup {link[p] : p \in Pages}) \ {NULL} \subseteq F
<1>1. \A G \in SUBSET F : Highest(G) = NULL \/ Highest(G) \in F
  <2> TAKE G \in SUBSET F
  <2>1. G \in SUBSET Pages
    OBVIOUS
  <2> QED BY <2>1, HighestFact
<1>2. Highest(F) = NULL \/ Highest(F) \in F
  BY <1>1
<1>3. ASSUME NEW p \in Pages PROVE link[p] = NULL \/ link[p] \in F
  <2>1. link[p] = IF p \in F THEN Highest({q \in F : q < p}) ELSE NULL
    BY DEF Chain
  <2>2. {q \in F : q < p} \in SUBSET F
    OBVIOUS
  <2> QED BY ZenonT(30), <1>1, <2>1, <2>2
<1> QED BY ZenonT(30), <1>2, <1>3

\* frame_alloc_init: the frontier moves for pages[], and the list is made of
\* frames above it.
LEMMA BootFramesStep ==
  ASSUME FrontierInv, BootInv, frame_alloc_init
  PROVE  FrontierInv' /\ FramesInv'
<1> DEFINE F == IF Given(npages * PAGEINFO) = 0 /\ npages # 0
                THEN {} ELSE FreeFrames(current_region', next_free')
<1>1. npages * PAGEINFO \in Nat
  BY NPagesBounds, SizesAssumption DEF FrontierInv
<1>2. boot_alloc(npages * PAGEINFO)
  BY DEF frame_alloc_init
<1>3. FrontierInv'
  BY <1>1, <1>2, BootAllocStep
<1>4. memmap' = memmap
  BY <1>2 DEF boot_alloc
<1>5. F \in SUBSET Pages /\ F \subseteq FreeFrames(current_region', next_free')
  BY DEF FreeFrames
<1>6. pp_link' = Chain(F) /\ page_free_list' = Highest(F) /\ held' = {} /\ ready'
  BY DEF frame_alloc_init, BootInv
<1>7. FreeFrames(current_region', next_free') = FreeFrames(current_region, next_free)'
  BY <1>4 DEF FreeFrames, npages, UsableRegions, Regions, End, Pages, roundup, rounddown
<1>8. PICK G \in SUBSET Pages : G = F
  BY ZenonT(30), <1>5
<1> HIDE DEF F
<1>9. Linked' \subseteq G
  <2>1. ({Highest(G)} \cup {pp_link'[p] : p \in Pages}) \ {NULL} \subseteq G
    BY <1>6, <1>8, ChainLinks
  <2> QED BY ZenonT(30), <1>6, <1>8, <2>1 DEF Linked, Pages, NULL
<1>10. ASSUME NEW p \in G PROVE (p \in Nat /\ Above(p))'
  <2>1. (p \in FreeFrames(current_region, next_free))'
    BY ZenonT(30), <1>5, <1>7, <1>8
  <2>2. (FrontierInv /\ p \in FreeFrames(current_region, next_free) => p \in Nat /\ Above(p))'
    BY PushedAbove, PTL
  <2> QED BY <1>3, <2>1, <2>2
<1>11. FramesInv'
  BY ZenonT(30), <1>6, <1>9, <1>10 DEF FramesInv
<1> QED BY <1>3, <1>11

\* pmm_init: the frontier is the start of the first usable region.
LEMMA FrontierStart == PhysInit => FrontierInv /\ FramesInv
<1> SUFFICES ASSUME PhysInit PROVE FrontierInv /\ FramesInv
  OBVIOUS
<1>1. memmap \in MemMaps
  BY DEF PhysInit
<1>2. current_region \in UsableRegions \cup {Len(memmap) + 1}
  <2>1. UsableRegions \in SUBSET Regions
    BY DEF UsableRegions
  <2> QED BY <1>1, <2>1, FirstOfFact DEF PhysInit
<1>3. next_free = IF current_region \in Regions THEN memmap[current_region].base ELSE 0
  BY DEF PhysInit
<1>4. next_free \in Nat /\ (current_region \in Regions => memmap[current_region].base <= next_free)
  BY <1>1, <1>3, MapFacts
<1>5. taken \in Seq(SUBSET Nat) /\ DOMAIN taken = {}
  BY DEF PhysInit
<1>6. FrontierInv
  BY ZenonT(30), <1>1, <1>2, <1>4, <1>5 DEF FrontierInv
<1>7. Linked \cup held = {}
  BY DEF PhysInit, Linked
<1> QED BY <1>6, <1>7 DEF FramesInv

\* page_alloc and page_free move frames between the list and the callers.
LEMMA ServeStep ==
  ASSUME ListInv, FramesInv, UNCHANGED <<ready, bootVars>>,
         page_alloc \/ \E pp \in Freeable : page_free(pp)
  PROVE  FramesInv'
<1>1. Linked' \cup held' \subseteq Linked \cup held
  <2>1. CASE page_alloc
    <3>1. CASE page_free_list = NULL
      BY <2>1, <3>1 DEF page_alloc, pageVars, Linked
    <3>2. CASE page_free_list # NULL
      <4>1. page_free_list \in Pages /\ pp_link \in [Pages -> PagePtrs]
        BY <3>2 DEF ListInv, TypeOK, PagePtrs
      <4>2. page_free_list' = pp_link[page_free_list] /\ held' = held \cup {page_free_list}
        BY <2>1, <3>2 DEF page_alloc
      <4>3. \A p \in Pages : pp_link'[p] = NULL \/ pp_link'[p] = pp_link[p]
        BY <2>1, <3>2, <4>1 DEF page_alloc
      <4> QED BY ZenonT(30), <3>2, <4>1, <4>2, <4>3 DEF Linked
    <3> QED BY <3>1, <3>2
  <2>2. ASSUME NEW pp \in Freeable, page_free(pp)
        PROVE  Linked' \cup held' \subseteq Linked \cup held
    <3>1. CASE pp_link[pp] # NULL
      BY <2>2, <3>1 DEF page_free, Linked
    <3>2. CASE pp_link[pp] = NULL
      <4>1. pp \in held /\ pp \in Pages /\ pp_link \in [Pages -> PagePtrs]
        BY <2>2, <3>2 DEF Freeable, ListInv, TypeOK
      <4>2. page_free_list' = pp /\ held' = held \ {pp}
        BY <2>2, <3>2 DEF page_free
      <4>3. \A p \in Pages : pp_link'[p] = page_free_list \/ pp_link'[p] = pp_link[p]
        BY <2>2, <3>2, <4>1 DEF page_free
      <4> QED BY ZenonT(30), <4>1, <4>2, <4>3 DEF Linked
    <3> QED BY <3>1, <3>2
  <2> QED BY <2>1, <2>2
<1>2. \A p : Above(p)' <=> Above(p)
  BY DEF Above, bootVars, UsableRegions, Regions, End
<1>3. ASSUME ~ready' PROVE Linked' \cup held' = {}
  <2>1. Linked \cup held = {}
    BY <1>3 DEF FramesInv
  <2> QED BY <1>1, <2>1
<1>4. \A p \in Linked' \cup held' : p \in Nat /\ Above(p)'
  BY ZenonT(30), <1>1, <1>2 DEF FramesInv
<1> QED BY ZenonT(30), <1>3, <1>4 DEF FramesInv

\* Both invariants hold from boot on.
THEOREM FrontierInvariance == PhysSpec => [](FrontierInv /\ FramesInv)
<1>1. ASSUME FrontierInv, UNCHANGED bootVars PROVE FrontierInv'
  <2>1. memmap' = memmap /\ current_region' = current_region /\ next_free' = next_free /\ taken' = taken
    BY <1>1 DEF bootVars
  <2>2. Regions' = Regions /\ UsableRegions' = UsableRegions /\ \A r : End(r)' = End(r)
    BY <2>1 DEF Regions, UsableRegions, End
  <2>3. \A i : Below(i)' <=> Below(i)
    BY ZenonT(30), <2>1, <2>2 DEF Below
  <2> QED BY ZenonT(30), <1>1, <2>1, <2>2, <2>3 DEF FrontierInv
<1>2. ASSUME ListInv, BootInv, FrontierInv, FramesInv, [PhysNext]_physVars
      PROVE  FrontierInv' /\ FramesInv'
  <2>1. ASSUME NEW n \in Requests, ~ready, boot_alloc(n), UNCHANGED <<ready, pageVars>>
        PROVE  FrontierInv' /\ FramesInv'
    <3>1. n \in Nat
      BY SizesAssumption
    <3>2. FrontierInv'
      BY <1>2, <2>1, <3>1, BootAllocStep
    <3>3. Linked' \cup held' = {}
      BY <1>2, <2>1 DEF FramesInv, pageVars, Linked
    <3> QED BY ZenonT(30), <3>2, <3>3 DEF FramesInv
  <2>2. CASE frame_alloc_init
    BY <1>2, <2>2, BootFramesStep
  <2>3. CASE ready /\ page_alloc /\ UNCHANGED <<ready, bootVars>>
    BY <1>1, <1>2, <2>3, ServeStep
  <2>4. CASE ready /\ (\E pp \in Freeable : page_free(pp)) /\ UNCHANGED <<ready, bootVars>>
    BY <1>1, <1>2, <2>4, ServeStep
  <2>5. CASE UNCHANGED physVars
    <3>1. UNCHANGED <<ready, bootVars>> /\ Linked' = Linked /\ held' = held
      BY <2>5 DEF physVars, pageVars, Linked
    <3>2. \A p : Above(p)' <=> Above(p)
      BY <3>1 DEF Above, bootVars, UsableRegions, Regions, End
    <3>3. FramesInv'
      BY ZenonT(30), <1>2, <3>1, <3>2 DEF FramesInv
    <3> QED BY <1>1, <1>2, <3>1, <3>3
  <2> QED BY <1>2, <2>1, <2>2, <2>3, <2>4, <2>5 DEF PhysNext
<1> QED BY <1>2, FrontierStart, ListInvariance, PTL DEF PhysSpec

\* boot_alloc never gives the same memory twice, and gives only usable memory:
\* the invariant BootAllocDisjoint, for every memory map and every sequence of
\* requests.
THEOREM BootAllocCorrect == PhysSpec => []BootAllocDisjoint
<1>1. ASSUME FrontierInv PROVE BootAllocDisjoint
  <2> SUFFICES ASSUME NEW i \in DOMAIN taken
               PROVE  InUsable(taken[i]) /\ \A j \in 1 .. i - 1 : taken[i] \cap taken[j] = {}
    BY DEF BootAllocDisjoint
  <2>1. PICK r \in UsableRegions :
           \A x \in taken[i] : x \in Nat /\ memmap[r].base <= x /\ x < End(r)
    BY <1>1 DEF FrontierInv, Below
  <2>2. memmap[r].base \in Nat /\ memmap[r].length \in Nat
    BY <1>1, MapFacts DEF FrontierInv, UsableRegions
  <2>3. taken[i] \subseteq Span(memmap[r].base, memmap[r].length)
    BY <2>1, <2>2 DEF Span, End
  <2>4. \A j \in 1 .. i - 1 : taken[i] \cap taken[j] = {}
    BY <1>1 DEF FrontierInv
  <2> QED BY <2>3, <2>4 DEF InUsable
<1> QED BY <1>1, FrontierInvariance, PTL

\* What page_alloc hands out is whole usable memory that boot_alloc has not
\* given away: the invariant FramesSafe, for every memory map.
THEOREM FramesSafeCorrect == PhysSpec => []FramesSafe
<1>1. ASSUME FrontierInv, FramesInv PROVE FramesSafe
  <2> SUFFICES ASSUME NEW p \in Linked \cup held
               PROVE  InUsable(Frame(p)) /\ \A i \in DOMAIN taken : Frame(p) \cap taken[i] = {}
    BY DEF FramesSafe
  <2>1. PICK r \in UsableRegions :
          /\ r >= current_region
          /\ memmap[r].base <= p * PGSIZE
          /\ p * PGSIZE + PGSIZE <= End(r)
          /\ r = current_region => next_free <= p * PGSIZE
    BY <1>1 DEF FramesInv, Above
  <2>2. p \in Nat /\ p * PGSIZE \in Nat /\ PGSIZE \in Nat
    BY <1>1, SizesAssumption DEF FramesInv
  <2>3. /\ memmap[r].base \in Nat /\ memmap[r].length \in Nat /\ End(r) \in Nat
        /\ r \in Nat /\ current_region \in Nat /\ next_free \in Nat
    BY <1>1, MapFacts DEF FrontierInv, UsableRegions
  <2>4. Frame(p) \subseteq Span(memmap[r].base, memmap[r].length)
    BY <2>1, <2>2, <2>3 DEF Frame, Span, End
  <2>5. ASSUME NEW i \in DOMAIN taken PROVE Frame(p) \cap taken[i] = {}
    <3>1. PICK q \in UsableRegions :
            /\ q <= current_region
            /\ \A x \in taken[i] : /\ x \in Nat /\ memmap[q].base <= x /\ x < End(q)
                                   /\ q = current_region => x < next_free
      BY <1>1 DEF FrontierInv, Below
    <3>2. q \in Nat /\ q <= r /\ End(q) \in Nat
      BY <1>1, <2>1, <2>3, <3>1, MapFacts DEF FrontierInv, UsableRegions
    <3>3. \A x \in taken[i] : x < p * PGSIZE
      <4>1. CASE q = r
        BY <2>1, <2>2, <2>3, <3>1, <3>2, <4>1
      <4>2. CASE q # r
        <5>1. End(q) <= memmap[r].base
          BY <1>1, <2>3, <3>2, <4>2, MapFacts DEF FrontierInv
        <5> QED BY <2>1, <2>2, <2>3, <3>1, <3>2, <5>1
      <4> QED BY <4>1, <4>2
    <3> QED BY <2>2, <3>1, <3>3 DEF Frame, Span
  <2> QED BY <2>4, <2>5 DEF InUsable
<1> QED BY <1>1, FrontierInvariance, PTL

------------------------------------------------------------------------------
(* The free list ends, it is a pool of frames (FramePool), and               *)
(* frame_alloc_init loses no frame behind the last address boot_alloc gave   *)
(* away.  The list is a stack: some sequence of pages, bottom first, whose   *)
(* links lead down from the head.  With it the walk along the list is known  *)
(* step by step, and so is the set of frames on it.                          *)

\* s lists the free frames, the head of the list last; none of them is held,
\* and no other frame links anywhere.
Stack(n, s) ==
  /\ n \in 0 .. NPAGES
  /\ s \in [1 .. n -> Pages]
  /\ \A i, j \in 1 .. n : s[i] = s[j] => i = j
  /\ page_free_list = IF n = 0 THEN NULL ELSE s[n]
  /\ \A i \in 1 .. n : pp_link[s[i]] = IF i = 1 THEN NULL ELSE s[i - 1]
  /\ \A p \in Pages : (\A i \in 1 .. n : s[i] # p) => pp_link[p] = NULL
  /\ \A i \in 1 .. n : s[i] \notin held

StackInv == \E n \in 0 .. NPAGES : \E s \in [1 .. n -> Pages] : Stack(n, s)

\* Where the frontier of boot_alloc can be: at the start of its region or just
\* behind the last address given away; a usable region lies before it only if
\* something of the current one or a later one was given away.
KeptInv ==
  current_region \in Regions =>
     /\ next_free <= End(current_region)
     /\ \/ next_free = memmap[current_region].base
        \/ \E i \in DOMAIN taken : next_free - 1 \in taken[i]
     /\ (\E r \in UsableRegions : r < current_region) =>
           \E i \in DOMAIN taken : \E a \in taken[i] : memmap[current_region].base <= a

-----------------------------------------------------------------------------
(* The walk along the list *)

\* The walk goes down the stack and stays at NULL.
LEMMA WalkDown ==
  ASSUME NEW n, NEW s, Stack(n, s)
  PROVE  \A k \in Nat : Walk[k] = IF k < n THEN s[n - k] ELSE NULL
<1> DEFINE down(k) == IF k < n THEN s[n - k] ELSE NULL
           Eq(w) == w = [k \in Nat |-> IF k = 0 THEN page_free_list
                                       ELSE IF w[k - 1] = NULL THEN NULL ELSE pp_link[w[k - 1]]]
           D == [k \in Nat |-> down(k)]
<1>1. n \in Nat /\ \A i \in 1 .. n : s[i] \in Pages /\ s[i] # NULL
  BY DEF Stack, Pages, NULL
<1>2. page_free_list = down(0)
  BY <1>1 DEF Stack
<1>3. ASSUME NEW k \in Nat, k # 0
      PROVE  down(k) = IF down(k - 1) = NULL THEN NULL ELSE pp_link[down(k - 1)]
  <2>1. CASE k - 1 < n
    <3>1. n - (k - 1) \in 1 .. n /\ (n - (k - 1)) - 1 = n - k
      BY <1>1, <1>3, <2>1
    <3>2. down(k - 1) = s[n - (k - 1)] /\ down(k - 1) # NULL
      BY <1>1, <2>1, <3>1
    <3>3. pp_link[s[n - (k - 1)]] = IF n - (k - 1) = 1 THEN NULL ELSE s[n - k]
      BY <3>1 DEF Stack
    <3>4. (n - (k - 1) = 1) <=> ~(k < n)
      BY <1>1, <1>3, <2>1
    <3> QED BY ZenonT(30), <3>2, <3>3, <3>4
  <2>2. CASE ~(k - 1 < n)
    BY <1>1, <1>3, <2>2
  <2> QED BY <2>1, <2>2
<1>4. \A k \in Nat : D[k] = down(k)
  OBVIOUS
<1> HIDE DEF down
<1>5. Eq(D)
  <2> DEFINE E == [k \in Nat |-> IF k = 0 THEN page_free_list
                                 ELSE IF D[k - 1] = NULL THEN NULL ELSE pp_link[D[k - 1]]]
  <2>1. ASSUME NEW k \in Nat
        PROVE  down(k) = IF k = 0 THEN page_free_list
                         ELSE IF D[k - 1] = NULL THEN NULL ELSE pp_link[D[k - 1]]
    <3>1. CASE k = 0
      BY ZenonT(30), <1>2, <3>1
    <3>2. CASE k # 0
      <4>1. k - 1 \in Nat
        BY <3>2
      <4>2. D[k - 1] = down(k - 1)
        BY ZenonT(30), <1>4, <4>1
      <4> QED BY ZenonT(30), <1>3, <3>2, <4>2
    <3> QED BY <3>1, <3>2
  <2>2. D = E
    BY ZenonT(30), <2>1
  <2> QED BY <2>2
<1> HIDE DEF D
<1>6. Eq(Walk)
  <2>1. Walk = CHOOSE w : Eq(w)
    BY DEF Walk
  <2> HIDE DEF Eq
  <2> QED BY ZenonT(30), <1>5, <2>1
<1> DEFINE S == {k \in Nat : Walk[k] = down(k)}
<1>7. 0 \in S
  <2>1. Walk[0] = page_free_list
    BY ONLY <1>6
  <2> QED BY <1>2, <2>1
<1>8. ASSUME NEW k \in Nat, k \in S PROVE k + 1 \in S
  <2>1. k + 1 \in Nat /\ k + 1 # 0 /\ (k + 1) - 1 = k
    OBVIOUS
  <2>2. Walk[k + 1] = IF Walk[k] = NULL THEN NULL ELSE pp_link[Walk[k]]
    BY ONLY <1>6, <2>1, k \in Nat
  <2>3. down(k + 1) = IF down(k) = NULL THEN NULL ELSE pp_link[down(k)]
    BY <1>3, <2>1
  <2> QED BY ZenonT(30), <1>8, <2>1, <2>2, <2>3
<1>9. Nat \subseteq S
  <2> HIDE DEF S
  <2> QED BY <1>7, <1>8, NumberInduction
<1>10. \A k \in Nat : Walk[k] = down(k)
  BY <1>9
<1> QED BY <1>10 DEF down

\* The frames on the list are those of the stack, and the walk ends.
StackListed ==
  \A n, s : Stack(n, s) => OnList = {s[i] : i \in 1 .. n} /\ Walk[NPAGES] = NULL

\* So it is.
LEMMA StackOnList == StackListed
<1> SUFFICES ASSUME NEW n, NEW s, Stack(n, s)
             PROVE  OnList = {s[i] : i \in 1 .. n} /\ Walk[NPAGES] = NULL
  BY DEF StackListed
<1>1. n \in 0 .. NPAGES /\ NPAGES \in Nat
  BY NPagesAssumption DEF Stack
<1>2. \A i \in 1 .. n : s[i] \in Pages /\ s[i] # NULL
  BY DEF Stack, Pages, NULL
<1>3. \A k \in Nat : Walk[k] = IF k < n THEN s[n - k] ELSE NULL
  BY WalkDown
<1>4. Walk[NPAGES] = NULL
  BY <1>1, <1>3
<1>5. ASSUME NEW p \in OnList PROVE p \in {s[i] : i \in 1 .. n}
  <2>1. PICK k \in 0 .. NPAGES : p = Walk[k] /\ p # NULL
    BY DEF OnList
  <2>2. k \in Nat /\ k < n /\ p = s[n - k]
    BY <1>1, <1>3, <2>1
  <2>3. n - k \in 1 .. n
    BY <1>1, <2>2
  <2> QED BY <2>2, <2>3
<1>6. ASSUME NEW i \in 1 .. n PROVE s[i] \in OnList
  <2>1. n - i \in Nat /\ n - i < n /\ n - (n - i) = i /\ n - i \in 0 .. NPAGES
    BY <1>1
  <2>2. Walk[n - i] = s[i]
    BY <1>3, <2>1
  <2> QED BY <1>2, <2>1, <2>2 DEF OnList
<1> QED BY <1>4, <1>5, <1>6

-----------------------------------------------------------------------------
(* The operations *)

\* The stack, with what is known of its pages.
LEMMA StackFacts ==
  ASSUME NEW n, NEW s, Stack(n, s)
  PROVE  /\ n \in Nat /\ n <= NPAGES /\ s \in [1 .. n -> Pages]
         /\ \A i, j \in 1 .. n : s[i] = s[j] => i = j
         /\ \A i \in 1 .. n : s[i] \in Pages /\ s[i] # NULL /\ s[i] \notin held
         /\ n # 0 => n \in 1 .. n /\ page_free_list = s[n] /\ page_free_list # NULL
         /\ n = 0 => page_free_list = NULL
         /\ \A i \in 1 .. n : pp_link[s[i]] = IF i = 1 THEN NULL ELSE s[i - 1]
         /\ \A p \in Pages : (\A i \in 1 .. n : s[i] # p) => pp_link[p] = NULL
<1>1. n \in Nat /\ n <= NPAGES
  BY NPagesAssumption DEF Stack
<1>2. \A i \in 1 .. n : s[i] \in Pages /\ s[i] # NULL
  BY DEF Stack, Pages, NULL
<1>3. n # 0 => n \in 1 .. n
  BY <1>1
<1> QED BY <1>1, <1>2, <1>3 DEF Stack

\* page_alloc pops the stack.
LEMMA PopStep ==
  ASSUME NEW n, NEW s, Stack(n, s), TypeOK, page_alloc, page_free_list # NULL
  PROVE  /\ n # 0 /\ page_free_list = s[n]
         /\ Stack(n - 1, [i \in 1 .. n - 1 |-> s[i]])'
<1> DEFINE t == [i \in 1 .. n - 1 |-> s[i]]
<1>1. n # 0 /\ n \in Nat /\ n - 1 \in 0 .. NPAGES /\ page_free_list = s[n] /\ n \in 1 .. n
  BY StackFacts, NPagesAssumption
<1>a. \A i, j \in 1 .. n : s[i] = s[j] => i = j
  BY StackFacts
<1>b. \A i \in 1 .. n : s[i] \in Pages /\ s[i] # NULL /\ s[i] \notin held
  BY StackFacts
<1>2. /\ held' = held \cup {s[n]}
      /\ page_free_list' = pp_link[s[n]]
      /\ pp_link' = [pp_link EXCEPT ![s[n]] = NULL]
  BY <1>1 DEF page_alloc
<1>3. \A i \in 1 .. n - 1 : i \in 1 .. n /\ t[i] = s[i] /\ t[i] # s[n] /\ t[i] \in Pages
  <2>1. \A i \in 1 .. n - 1 : i \in 1 .. n /\ i # n /\ t[i] = s[i]
    BY <1>1
  <2> HIDE DEF t
  <2> QED BY ZenonT(30), <1>1, <1>a, <1>b, <2>1
<1>4. t \in [1 .. n - 1 -> Pages]
  <2>1. \A i \in 1 .. n - 1 : s[i] \in Pages
    BY <1>3, StackFacts
  <2> QED BY ZenonT(30), <2>1
<1> HIDE DEF t
<1>5. \A i, j \in 1 .. n - 1 : t[i] = t[j] => i = j
  BY ZenonT(30), <1>a, <1>3
<1>6. \A p \in Pages : p # s[n] => pp_link'[p] = pp_link[p]
  BY <1>2 DEF TypeOK
<1>7. pp_link'[s[n]] = NULL
  BY <1>1, <1>2, StackFacts DEF TypeOK
<1>8. page_free_list' = IF n - 1 = 0 THEN NULL ELSE t[n - 1]
  <2>1. pp_link[s[n]] = IF n = 1 THEN NULL ELSE s[n - 1]
    BY <1>1, StackFacts
  <2>2. n # 1 => n - 1 \in 1 .. n - 1 /\ n - 1 # 0
    BY <1>1
  <2> QED BY <1>1, <1>2, <1>3, <2>1, <2>2
<1>9. ASSUME NEW i \in 1 .. n - 1 PROVE pp_link'[t[i]] = IF i = 1 THEN NULL ELSE t[i - 1]
  <2>1. pp_link[s[i]] = IF i = 1 THEN NULL ELSE s[i - 1]
    BY <1>3, StackFacts
  <2>2. i # 1 => i - 1 \in 1 .. n - 1
    BY <1>1
  <2> QED BY <1>3, <1>6, <2>1, <2>2
<1>10. ASSUME NEW p \in Pages, \A i \in 1 .. n - 1 : t[i] # p PROVE pp_link'[p] = NULL
  <2>1. CASE p = s[n]
    BY <1>7, <2>1
  <2>2. CASE p # s[n]
    <3>1. \A i \in 1 .. n : i \in 1 .. n - 1 \/ i = n
      BY <1>1
    <3>2. \A i \in 1 .. n : s[i] # p
      BY ZenonT(30), <1>3, <1>10, <2>2, <3>1
    <3> QED BY <1>6, <2>2, <3>2, StackFacts
  <2> QED BY <2>1, <2>2
<1>11. \A i \in 1 .. n - 1 : t[i] \notin held'
  BY ZenonT(30), <1>b, <1>2, <1>3
<1>12. Stack(n - 1, t)'
  BY ZenonT(30), <1>1, <1>4, <1>5, <1>8, <1>9, <1>10, <1>11 DEF Stack, Pages, NULL
<1> QED BY <1>1, <1>12 DEF t

\* A stack of distinct pages has room for one more page that is not on it.
LEMMA RoomOnStack ==
  ASSUME NEW n, NEW s, Stack(n, s), NEW pp \in Pages, \A i \in 1 .. n : s[i] # pp
  PROVE  n + 1 <= NPAGES
<1> SUFFICES ASSUME n = NPAGES PROVE FALSE
  BY StackFacts, NPagesAssumption
<1> DEFINE t == [i \in 1 .. n + 1 |-> IF i = n + 1 THEN pp ELSE s[i]]
<1>1. n \in Nat /\ n + 1 \in Nat /\ n + 1 \in 1 .. n + 1
  BY StackFacts
<1>2. \A i \in 1 .. n + 1 : i \in 1 .. n \/ i = n + 1
  BY <1>1
<1>3. t \in [1 .. n + 1 -> Pages]
  BY <1>2, StackFacts
<1>4. IsFiniteSet(1 .. n + 1) /\ Cardinality(1 .. n + 1) = n + 1
  BY <1>1, FS_Interval
<1>5. IsFiniteSet(Pages) /\ Cardinality(Pages) = n
  BY <1>1, NPagesAssumption, FS_Interval DEF Pages
<1>6. Cardinality(Pages) < Cardinality(1 .. n + 1)
  BY <1>1, <1>4, <1>5
<1>7. PICK i, j \in 1 .. n + 1 : i # j /\ t[i] = t[j]
  <2> HIDE DEF t
  <2> QED BY ZenonT(30), <1>3, <1>4, <1>5, <1>6, FS_PigeonHole
<1>8. \A i1, j1 \in 1 .. n : s[i1] = s[j1] => i1 = j1
  BY StackFacts
<1>9. \A i1 \in 1 .. n + 1 : t[i1] = IF i1 = n + 1 THEN pp ELSE s[i1]
  OBVIOUS
<1> HIDE DEF t
<1> QED BY ZenonT(30), <1>2, <1>7, <1>8, <1>9

\* page_free pushes a held page, which links nowhere.
LEMMA PushStep ==
  ASSUME NEW n, NEW s, Stack(n, s), TypeOK,
         NEW pp \in held, page_free(pp), pp_link[pp] = NULL
  PROVE  Stack(n + 1, [i \in 1 .. n + 1 |-> IF i = n + 1 THEN pp ELSE s[i]])'
<1> DEFINE t == [i \in 1 .. n + 1 |-> IF i = n + 1 THEN pp ELSE s[i]]
<1>1. n \in Nat /\ n + 1 \in Nat /\ n + 1 \in 1 .. n + 1
  BY StackFacts
<1>2. /\ held' = held \ {pp}
      /\ page_free_list' = pp
      /\ pp_link' = [pp_link EXCEPT ![pp] = page_free_list]
  BY DEF page_free
<1>3. pp \in Pages /\ \A i \in 1 .. n : s[i] \in Pages /\ s[i] # pp /\ s[i] \notin held
  BY StackFacts DEF TypeOK
<1>4. n + 1 \in 0 .. NPAGES
  BY <1>1, <1>3, RoomOnStack, NPagesAssumption
<1>5. /\ \A i \in 1 .. n + 1 : (i \in 1 .. n /\ i # n + 1) \/ i = n + 1
      /\ \A i \in 1 .. n : i \in 1 .. n + 1 /\ i # n + 1
  BY <1>1
<1>6. t \in [1 .. n + 1 -> Pages]
  BY <1>3, <1>5
<1>7. t[n + 1] = pp /\ \A i \in 1 .. n : t[i] = s[i]
  BY <1>1, <1>5
<1> HIDE DEF t
<1>8. \A i, j \in 1 .. n : s[i] = s[j] => i = j
  BY StackFacts
<1>9. \A i, j \in 1 .. n + 1 : t[i] = t[j] => i = j
  BY ZenonT(30), <1>3, <1>5, <1>7, <1>8
<1>10. pp_link'[pp] = page_free_list /\ \A p \in Pages : p # pp => pp_link'[p] = pp_link[p]
  BY <1>2, <1>3 DEF TypeOK
<1>11. page_free_list' = IF n + 1 = 0 THEN NULL ELSE t[n + 1]
  BY <1>1, <1>2, <1>7
<1>12. ASSUME NEW i \in 1 .. n + 1 PROVE pp_link'[t[i]] = IF i = 1 THEN NULL ELSE t[i - 1]
  <2>1. CASE i = n + 1
    <3>1. pp_link'[t[i]] = page_free_list
      BY <1>7, <1>10, <2>1
    <3>2. CASE n = 0
      BY <2>1, <3>1, <3>2, StackFacts
    <3>3. CASE n # 0
      <4>1. i - 1 = n /\ i # 1 /\ n \in 1 .. n
        BY <1>1, <2>1, <3>3
      <4>2. page_free_list = s[n]
        BY <3>3, StackFacts
      <4> QED BY <1>7, <3>1, <4>1, <4>2
    <3> QED BY <3>2, <3>3
  <2>2. CASE i # n + 1
    <3>1. i \in 1 .. n /\ (i # 1 => i - 1 \in 1 .. n)
      BY <1>1, <2>2
    <3>2. pp_link[s[i]] = IF i = 1 THEN NULL ELSE s[i - 1]
      BY <3>1, StackFacts
    <3>3. pp_link'[s[i]] = pp_link[s[i]]
      BY <1>3, <1>10, <3>1
    <3> QED BY <1>7, <3>1, <3>2, <3>3
  <2> QED BY <2>1, <2>2
<1>13. ASSUME NEW p \in Pages, \A i \in 1 .. n + 1 : t[i] # p PROVE pp_link'[p] = NULL
  <2>1. p # pp /\ \A i \in 1 .. n : s[i] # p
    BY ZenonT(30), <1>1, <1>5, <1>7, <1>13
  <2>2. pp_link[p] = NULL
    BY <2>1, StackFacts
  <2> QED BY <1>10, <2>1, <2>2
<1>14. \A i \in 1 .. n + 1 : t[i] \notin held'
  BY ZenonT(30), <1>2, <1>3, <1>5, <1>7
<1>15. Stack(n + 1, t)'
  BY ZenonT(30), <1>4, <1>6, <1>9, <1>11, <1>12, <1>13, <1>14 DEF Stack, Pages, NULL
<1> QED BY <1>15 DEF t

-----------------------------------------------------------------------------
(* frame_alloc_init *)

\* s lists the frames of G upwards.
Upwards(n, s, G) ==
  /\ n \in Nat
  /\ s \in [1 .. n -> Pages]
  /\ \A i, j \in 1 .. n : s[i] = s[j] => i = j
  /\ \A p : p \in G <=> \E i \in 1 .. n : s[i] = p
  /\ Highest(G) = IF n = 0 THEN NULL ELSE s[n]
  /\ \A i \in 1 .. n : Highest({q \in G : q < s[i]}) = IF i = 1 THEN NULL ELSE s[i - 1]

\* One more frame, above the others.
LEMMA UpwardsStep ==
  ASSUME NEW G \in SUBSET Pages, NEW k \in Pages, \A q \in G : q < k,
         NEW n, NEW s, Upwards(n, s, G)
  PROVE  Upwards(n + 1, [i \in 1 .. n + 1 |-> IF i = n + 1 THEN k ELSE s[i]], G \cup {k})
<1> DEFINE t == [i \in 1 .. n + 1 |-> IF i = n + 1 THEN k ELSE s[i]]
           H == G \cup {k}
<1>1. n \in Nat /\ n + 1 \in Nat /\ n + 1 \in 1 .. n + 1 /\ n + 1 # 0 /\ k \in Nat
  BY NPagesAssumption DEF Upwards, Pages
<1>2. /\ \A i \in 1 .. n + 1 : (i \in 1 .. n /\ i # n + 1) \/ i = n + 1
      /\ \A i \in 1 .. n : i \in 1 .. n + 1 /\ i # n + 1
  BY <1>1
<1>3. \A i \in 1 .. n : s[i] \in Pages /\ s[i] \in G
  BY DEF Upwards
<1>4. t[n + 1] = k /\ \A i \in 1 .. n : t[i] = s[i]
  BY <1>1, <1>2
<1>5. t \in [1 .. n + 1 -> Pages]
  BY <1>2, <1>3
<1> HIDE DEF t
<1>6. k \notin G /\ G \subseteq Nat
  BY <1>1, NPagesAssumption DEF Pages
<1>7. \A i, j \in 1 .. n + 1 : t[i] = t[j] => i = j
  <2>1. \A i, j \in 1 .. n : s[i] = s[j] => i = j
    BY DEF Upwards
  <2> QED BY ZenonT(30), <1>2, <1>3, <1>4, <1>6, <2>1
<1>8. ASSUME NEW p PROVE p \in H <=> \E i \in 1 .. n + 1 : t[i] = p
  <2>1. p \in G <=> \E i \in 1 .. n : s[i] = p
    BY DEF Upwards
  <2> QED BY ZenonT(30), <1>1, <1>2, <1>4, <2>1
<1>9. Highest(H) = k
  <2>1. H \in SUBSET Pages /\ H # {} /\ k \in H
    OBVIOUS
  <2>2. Highest(H) \in H /\ k <= Highest(H)
    BY <2>1, HighestFact
  <2>3. \A q \in H : k <= q => q = k
    BY <1>1, <1>6
  <2> QED BY ZenonT(30), <2>2, <2>3
<1>10. ASSUME NEW i \in 1 .. n + 1
       PROVE  Highest({q \in H : q < t[i]}) = IF i = 1 THEN NULL ELSE t[i - 1]
  <2>1. CASE i = n + 1
    <3>1. {q \in H : q < t[i]} = G
      <4>1. \A q \in H : q < k <=> q \in G
        BY <1>1, <1>6
      <4> QED BY ZenonT(30), <1>4, <2>1, <4>1
    <3>2. Highest(G) = IF n = 0 THEN NULL ELSE s[n]
      BY DEF Upwards
    <3>3. (n = 0 <=> i = 1) /\ (n # 0 => i - 1 = n /\ n \in 1 .. n)
      BY <1>1, <2>1
    <3> QED BY <1>4, <3>1, <3>2, <3>3
  <2>2. CASE i # n + 1
    <3>1. i \in 1 .. n /\ (i # 1 => i - 1 \in 1 .. n)
      BY <1>1, <2>2
    <3>2. t[i] = s[i] /\ s[i] < k /\ s[i] \in Nat
      BY <1>3, <1>4, <3>1, NPagesAssumption DEF Pages
    <3>3. {q \in H : q < t[i]} = {q \in G : q < s[i]}
      BY <1>1, <3>2
    <3>4. Highest({q \in G : q < s[i]}) = IF i = 1 THEN NULL ELSE s[i - 1]
      BY <3>1 DEF Upwards
    <3> QED BY ZenonT(30), <1>4, <3>1, <3>3, <3>4
  <2> QED BY <2>1, <2>2
<1>11. Highest(H) = IF n + 1 = 0 THEN NULL ELSE t[n + 1]
  BY <1>1, <1>4, <1>9
<1> HIDE DEF H
<1>12. Upwards(n + 1, t, H)
  BY ZenonT(30), <1>1, <1>5, <1>7, <1>8, <1>10, <1>11 DEF Upwards
<1> QED BY <1>12 DEF t, H

\* Every set of frames can be listed upwards.
LEMMA UpwardsExists ==
  ASSUME NEW F \in SUBSET Pages
  PROVE  \E n, s : Upwards(n, s, F)
<1> DEFINE G(k) == {q \in F : q < k}
           S == {k \in Nat : \E n, s : Upwards(n, s, G(k))}
<1>0. \A q \in F : q \in Nat /\ q < NPAGES
  BY NPagesAssumption DEF Pages
<1>1. 0 \in S
  <2> DEFINE s == [i \in 1 .. 0 |-> 0]
  <2>1. G(0) = {}
    BY <1>0
  <2>2. 1 .. 0 = {} /\ 0 \in Nat
    OBVIOUS
  <2>3. s \in [1 .. 0 -> Pages]
    BY <2>2
  <2> HIDE DEF s, G
  <2>4. Upwards(0, s, G(0))
    BY ZenonT(30), <2>1, <2>2, <2>3 DEF Upwards, Highest
  <2> QED BY ZenonT(30), <2>2, <2>4
<1>2. ASSUME NEW k \in Nat, k \in S PROVE k + 1 \in S
  <2>1. PICK n, s : Upwards(n, s, G(k))
    BY ZenonT(30), <1>2
  <2>2. \E m, t : Upwards(m, t, G(k + 1))
    <3>1. CASE k \in F
      <4>1. G(k) \in SUBSET Pages /\ k \in Pages /\ \A q \in G(k) : q < k
        BY ZenonT(30), <3>1
      <4>2. G(k + 1) = G(k) \cup {k}
        <5>1. \A q \in F : q < k + 1 <=> q < k \/ q = k
          BY <1>0
        <5> QED BY ZenonT(30), <3>1, <5>1
      <4> HIDE DEF G
      <4>3. Upwards(n + 1, [i \in 1 .. n + 1 |-> IF i = n + 1 THEN k ELSE s[i]], G(k) \cup {k})
        BY <2>1, <4>1, UpwardsStep
      <4> QED BY ZenonT(30), <4>2, <4>3
    <3>2. CASE k \notin F
      <4>1. G(k + 1) = G(k)
        BY <1>0, <3>2
      <4> HIDE DEF G
      <4> QED BY ZenonT(30), <2>1, <4>1
    <3> QED BY <3>1, <3>2
  <2>3. k + 1 \in Nat
    OBVIOUS
  <2> HIDE DEF G
  <2> QED BY ZenonT(30), <2>2, <2>3
<1>3. Nat \subseteq S
  <2> HIDE DEF S
  <2> QED BY <1>1, <1>2, NumberInduction
<1>4. G(NPAGES) = F
  BY <1>0
<1> HIDE DEF G
<1> QED BY ZenonT(30), <1>3, <1>4, NPagesAssumption

\* The list frame_alloc_init builds from F is a stack of the frames of F.
PushedIsStack ==
  \A F \in SUBSET Pages :
     pp_link = Chain(F) /\ page_free_list = Highest(F) /\ held = {} =>
       \E n, s : Stack(n, s) /\ F = {s[i] : i \in 1 .. n}

\* So it is.
LEMMA PushedStack == PushedIsStack
<1> SUFFICES ASSUME NEW F \in SUBSET Pages,
                    pp_link = Chain(F), page_free_list = Highest(F), held = {}
             PROVE  \E n, s : Stack(n, s) /\ F = {s[i] : i \in 1 .. n}
  BY ZenonT(30) DEF PushedIsStack
<1>1. PICK n, s : Upwards(n, s, F)
  BY UpwardsExists
<1>2. n \in Nat /\ s \in [1 .. n -> Pages] /\ \A i, j \in 1 .. n : s[i] = s[j] => i = j
  BY <1>1 DEF Upwards
<1>3. \A p : p \in F <=> \E i \in 1 .. n : s[i] = p
  BY <1>1 DEF Upwards
<1>4. \A p \in Pages : pp_link[p] = IF p \in F THEN Highest({q \in F : q < p}) ELSE NULL
  BY DEF Chain
<1>5. n \in 0 .. NPAGES
  <2> SUFFICES ASSUME NPAGES < n PROVE FALSE
    BY <1>2, NPagesAssumption
  <2>1. IsFiniteSet(1 .. n) /\ Cardinality(1 .. n) = n
    BY <1>2, FS_Interval
  <2>2. IsFiniteSet(Pages) /\ Cardinality(Pages) = NPAGES
    BY NPagesAssumption, FS_Interval DEF Pages
  <2>3. PICK i, j \in 1 .. n : i # j /\ s[i] = s[j]
    BY ZenonT(30), <1>2, <2>1, <2>2, FS_PigeonHole
  <2> QED BY <1>2, <2>3
<1>6. ASSUME NEW i \in 1 .. n PROVE pp_link[s[i]] = IF i = 1 THEN NULL ELSE s[i - 1]
  <2>1. s[i] \in F /\ s[i] \in Pages
    BY <1>2, <1>3
  <2>2. Highest({q \in F : q < s[i]}) = IF i = 1 THEN NULL ELSE s[i - 1]
    BY <1>1 DEF Upwards
  <2> QED BY <1>4, <2>1, <2>2
<1>7. \A p \in Pages : (\A i \in 1 .. n : s[i] # p) => pp_link[p] = NULL
  BY ZenonT(30), <1>3, <1>4
<1>8. page_free_list = IF n = 0 THEN NULL ELSE s[n]
  BY <1>1 DEF Upwards
<1>9. Stack(n, s)
  BY ZenonT(30), <1>2, <1>5, <1>6, <1>7, <1>8 DEF Stack
<1>10. F = {s[i] : i \in 1 .. n}
  BY ZenonT(30), <1>3
<1> QED BY <1>9, <1>10

-----------------------------------------------------------------------------
(* What a step does to the list and the held frames *)

\* What FramePool may do with the list as its free frames.
PoolStep == Pool!Fill \/ Pool!Take \/ Pool!Give

\* The frames on the list before and after a step.
LEMMA ListedInAStep ==
  /\ \A n, s : Stack(n, s) => OnList = {s[i] : i \in 1 .. n}
  /\ \A n, s : Stack(n, s)' => OnList' = {s[i] : i \in 1 .. n}
<1>1. StackListed /\ StackListed'
  BY StackOnList, PTL
<1>2. \A n, s : Stack(n, s) => OnList = {s[i] : i \in 1 .. n}
  BY <1>1 DEF StackListed
<1>3. \A n, s : Stack(n, s)' => OnList' = {s[i] : i \in 1 .. n}
  BY <1>1 DEF StackListed
<1> QED BY <1>2, <1>3

\* page_alloc takes one frame off the list, or finds it empty.
LEMMA AllocOnList ==
  ASSUME StackInv, TypeOK, page_alloc
  PROVE  /\ StackInv'
         /\ [PoolStep]_(Pool!poolVars)
         /\ OnList' \cup held' = OnList \cup held
<1>0. /\ \A n, s : Stack(n, s) => OnList = {s[i] : i \in 1 .. n}
      /\ \A n, s : Stack(n, s)' => OnList' = {s[i] : i \in 1 .. n}
  BY ListedInAStep
<1>1. PICK n, s : Stack(n, s)
  BY DEF StackInv
<1>2. CASE page_free_list = NULL
  <2>1. UNCHANGED pageVars
    BY <1>2 DEF page_alloc
  <2>2. Stack(n, s)'
    BY ZenonT(30), <1>1, <2>1 DEF Stack, pageVars
  <2>3. OnList' = OnList /\ held' = held
    BY <1>0, <1>1, <2>1, <2>2 DEF pageVars
  <2>4. StackInv'
    BY ZenonT(30), <2>2 DEF StackInv, Stack
  <2> QED BY <2>3, <2>4 DEF Pool!poolVars
<1>3. CASE page_free_list # NULL
  <2> DEFINE t == [i \in 1 .. n - 1 |-> s[i]]
  <2>1. n # 0 /\ page_free_list = s[n] /\ Stack(n - 1, t)'
    BY <1>1, <1>3, PopStep
  <2>2. OnList = {s[i] : i \in 1 .. n} /\ OnList' = {t[i] : i \in 1 .. n - 1}
    <3> HIDE DEF t
    <3>1. OnList = {s[i] : i \in 1 .. n}
      BY <1>0, <1>1
    <3>2. OnList' = {t[i] : i \in 1 .. n - 1}
      BY <1>0, <2>1
    <3> QED BY <3>1, <3>2
  <2>3. n \in Nat /\ n \in 1 .. n /\ \A i, j \in 1 .. n : s[i] = s[j] => i = j
    BY <1>1, <2>1, StackFacts
  <2>4. OnList' = OnList \ {s[n]} /\ s[n] \in OnList
    <3>1. \A i \in 1 .. n - 1 : i \in 1 .. n /\ i # n /\ t[i] = s[i]
      BY <2>3
    <3>2. \A i \in 1 .. n : i # n => i \in 1 .. n - 1
      BY <2>3
    <3> HIDE DEF t
    <3>3. ASSUME NEW p PROVE p \in OnList' <=> p \in OnList /\ p # s[n]
      BY ZenonT(30), <2>2, <2>3, <3>1, <3>2
    <3> QED BY ZenonT(30), <2>2, <2>3, <3>3
  <2>5. held' = held \cup {s[n]}
    BY <1>3, <2>1 DEF page_alloc
  <2>6. Pool!Take
    BY ZenonT(30), <2>4, <2>5 DEF Pool!Take
  <2>7. StackInv'
    BY ZenonT(30), <2>1 DEF StackInv, Stack
  <2> QED BY <2>4, <2>5, <2>6, <2>7 DEF PoolStep
<1> QED BY <1>2, <1>3

\* page_free puts a held frame on the list, or refuses and changes nothing.
LEMMA FreeOnList ==
  ASSUME StackInv, ListInv, NEW pp \in Freeable, page_free(pp)
  PROVE  /\ StackInv'
         /\ [PoolStep]_(Pool!poolVars)
         /\ OnList' \cup held' = OnList \cup held
<1>0. /\ \A n, s : Stack(n, s) => OnList = {s[i] : i \in 1 .. n}
      /\ \A n, s : Stack(n, s)' => OnList' = {s[i] : i \in 1 .. n}
  BY ListedInAStep
<1>1. PICK n, s : Stack(n, s)
  BY DEF StackInv
<1>2. CASE pp_link[pp] # NULL
  <2>1. pp \notin held
    BY <1>2 DEF ListInv
  <2>2. UNCHANGED <<pp_link, page_free_list>> /\ held' = held
    BY <1>2, <2>1 DEF page_free
  <2>3. Stack(n, s)'
    BY ZenonT(30), <1>1, <2>2 DEF Stack
  <2>4. OnList' = OnList
    BY <1>0, <1>1, <2>3
  <2>5. StackInv'
    BY ZenonT(30), <2>3 DEF StackInv, Stack
  <2> QED BY <2>2, <2>4, <2>5 DEF Pool!poolVars
<1>3. CASE pp_link[pp] = NULL
  <2> DEFINE t == [i \in 1 .. n + 1 |-> IF i = n + 1 THEN pp ELSE s[i]]
  <2>1. pp \in held
    BY <1>3 DEF Freeable
  <2>2. Stack(n + 1, t)'
    BY <1>1, <1>3, <2>1, PushStep DEF ListInv
  <2>3. n \in Nat
    BY <1>1, StackFacts
  <2>4. OnList' = OnList \cup {pp}
    <3>1. /\ \A i \in 1 .. n : i \in 1 .. n + 1 /\ t[i] = s[i]
          /\ \A i \in 1 .. n + 1 : i \in 1 .. n \/ i = n + 1
          /\ n + 1 \in 1 .. n + 1 /\ t[n + 1] = pp
      BY <2>3
    <3> HIDE DEF t
    <3>2. OnList = {s[i] : i \in 1 .. n}
      BY <1>0, <1>1
    <3>3. OnList' = {t[i] : i \in 1 .. n + 1}
      BY <1>0, <2>2
    <3>4. ASSUME NEW p PROVE p \in OnList' <=> p \in OnList \/ p = pp
      BY ZenonT(30), <3>1, <3>2, <3>3
    <3> QED BY ZenonT(30), <3>4
  <2>5. held' = held \ {pp}
    BY DEF page_free
  <2>6. Pool!Give
    BY ZenonT(30), <2>1, <2>4, <2>5 DEF Pool!Give
  <2>7. StackInv'
    BY ZenonT(30), <2>2 DEF StackInv, Stack
  <2> QED BY <2>1, <2>4, <2>5, <2>6, <2>7 DEF PoolStep
<1> QED BY <1>2, <1>3

\* Also of the list after a step.
LEMMA PushedInAStep == PushedIsStack'
BY PushedStack, PTL

\* frame_alloc_init fills the empty pool with the frames the memory map leaves.
LEMMA FillOnList ==
  ASSUME StackInv, BootInv, FramesInv, frame_alloc_init
  PROVE  /\ StackInv' /\ Pool!Fill
         /\ OnList' = IF Given(npages * PAGEINFO) = 0 /\ npages # 0
                      THEN {} ELSE FreeFrames(current_region', next_free')
<1> DEFINE F == IF Given(npages * PAGEINFO) = 0 /\ npages # 0
                THEN {} ELSE FreeFrames(current_region', next_free')
<1>0. /\ \A n, s : Stack(n, s) => OnList = {s[i] : i \in 1 .. n}
      /\ \A n, s : Stack(n, s)' => OnList' = {s[i] : i \in 1 .. n}
  BY ListedInAStep
<1>1. F \in SUBSET Pages
  BY DEF FreeFrames
<1>2. pp_link' = Chain(F) /\ page_free_list' = Highest(F)
  BY DEF frame_alloc_init
<1>3. held = {} /\ held' = {} /\ Linked = {}
  BY DEF frame_alloc_init, BootInv, FramesInv
<1> HIDE DEF F
<1>4. PICK n, s : Stack(n, s)
  BY DEF StackInv
<1>5. OnList = {}
  <2>1. page_free_list = NULL
    BY <1>3 DEF Linked
  <2>2. n = 0
    BY <1>4, <2>1, StackFacts
  <2>3. 1 .. n = {}
    BY <2>2
  <2> QED BY <1>0, <1>4, <2>3
<1>6. PICK m, t : Stack(m, t)' /\ F = {t[i] : i \in 1 .. m}
  <2>1. PushedIsStack'
    BY PushedInAStep
  <2> QED BY <1>1, <1>2, <1>3, <2>1 DEF PushedIsStack
<1>7. OnList' = F
  BY <1>0, <1>6
<1>8. StackInv'
  BY ZenonT(30), <1>6 DEF StackInv, Stack
<1> QED BY <1>3, <1>5, <1>7, <1>8 DEF Pool!Fill, F

-----------------------------------------------------------------------------
(* The free list, from boot on *)

\* At boot the list is empty.
LEMMA StackStart == PhysInit => StackInv /\ Pool!PoolInit
<1> SUFFICES ASSUME PhysInit PROVE StackInv /\ Pool!PoolInit
  OBVIOUS
<1> DEFINE s == [i \in 1 .. 0 |-> 0]
<1>1. 1 .. 0 = {} /\ 0 \in 0 .. NPAGES
  BY NPagesAssumption
<1>2. s \in [1 .. 0 -> Pages]
  BY <1>1
<1>3. \A p \in Pages : pp_link[p] = NULL
  BY DEF PhysInit
<1> HIDE DEF s
<1>4. Stack(0, s)
  BY ZenonT(30), <1>1, <1>2, <1>3 DEF PhysInit, Stack
<1>5. OnList = {}
  BY ZenonT(30), <1>1, <1>4, StackOnList DEF StackListed
<1>6. StackInv
  BY ZenonT(30), <1>1, <1>2, <1>4 DEF StackInv
<1> QED BY <1>5, <1>6 DEF PhysInit, Pool!PoolInit

\* What does not touch the allocator does not change the list.
LEMMA SameList == ASSUME StackInv, UNCHANGED pageVars PROVE StackInv' /\ OnList' = OnList
<1>1. PICK n, s : Stack(n, s)
  BY DEF StackInv
<1>2. Stack(n, s)'
  BY <1>1 DEF Stack, pageVars
<1>3. OnList' = OnList
  BY <1>1, <1>2, ListedInAStep
<1> QED BY ZenonT(30), <1>2, <1>3 DEF StackInv, Stack

\* Every step of the allocator is a step of the pool, and keeps the stack.
LEMMA PoolRefined ==
  ASSUME ListInv, BootInv, FramesInv, StackInv, [PhysNext]_physVars
  PROVE  StackInv' /\ [PoolStep]_(Pool!poolVars)
<1>1. ASSUME UNCHANGED pageVars PROVE StackInv' /\ [PoolStep]_(Pool!poolVars)
  BY <1>1, SameList DEF pageVars, Pool!poolVars
<1>2. CASE \E n \in Requests : ~ready /\ boot_alloc(n) /\ UNCHANGED <<ready, pageVars>>
  BY <1>1, <1>2
<1>3. CASE frame_alloc_init
  BY <1>3, FillOnList DEF PoolStep
<1>4. CASE ready /\ page_alloc /\ UNCHANGED <<ready, bootVars>>
  BY <1>4, AllocOnList DEF ListInv
<1>5. CASE ready /\ (\E pp \in Freeable : page_free(pp)) /\ UNCHANGED <<ready, bootVars>>
  BY <1>5, FreeOnList
<1>6. CASE UNCHANGED physVars
  BY <1>1, <1>6 DEF physVars
<1> QED BY <1>2, <1>3, <1>4, <1>5, <1>6 DEF PhysNext

\* The free list is a stack of distinct frames that nobody holds, in every
\* state and for every number of frames.
THEOREM StackInvariance == PhysSpec => []StackInv
<1>1. ListInv /\ BootInv /\ FrontierInv /\ FramesInv /\ StackInv /\ [PhysNext]_physVars => StackInv'
  BY PoolRefined
<1>2. PhysInit => StackInv
  BY StackStart
<1> QED BY <1>1, <1>2, ListInvariance, FrontierInvariance, PTL DEF PhysSpec

\* The walks of count_free and frame_alloc_init end after at most NPAGES steps:
\* the invariant FreeListEnds, for every memory map and number of frames.
THEOREM FreeListEndsCorrect == PhysSpec => []FreeListEnds
<1>1. StackInv => FreeListEnds
  BY StackOnList DEF StackInv, StackListed, FreeListEnds
<1> QED BY <1>1, StackInvariance, PTL

\* page_alloc.c implements the pool of frames: the refinement ImplementsPool,
\* for every memory map and number of frames.
THEOREM PoolImplemented == PhysSpec => ImplementsPool
<1>1. PhysInit => Pool!PoolInit
  BY StackStart
<1>2. ListInv /\ BootInv /\ FrontierInv /\ FramesInv /\ StackInv /\ [PhysNext]_physVars
        => [Pool!Fill \/ Pool!Take \/ Pool!Give]_(Pool!poolVars)
  BY PoolRefined DEF PoolStep
<1> QED BY <1>1, <1>2, ListInvariance, FrontierInvariance, StackInvariance, PTL
        DEF PhysSpec, ImplementsPool, Pool!PoolSpec

-----------------------------------------------------------------------------
(* No frame behind the frontier is lost *)

\* pmm_init starts at the first usable region.
LEMMA KeptStart == PhysInit => KeptInv
<1> SUFFICES ASSUME PhysInit, current_region \in Regions
             PROVE  /\ next_free = memmap[current_region].base
                    /\ next_free <= End(current_region)
                    /\ ~ \E r \in UsableRegions : r < current_region
  BY DEF KeptInv
<1>1. memmap \in MemMaps /\ current_region = FirstOf(UsableRegions)
  BY DEF PhysInit
<1>2. Len(memmap) \in Nat /\ Regions = 1 .. Len(memmap) /\ UsableRegions \subseteq Regions
  BY <1>1, MapFacts DEF UsableRegions
<1>3. UsableRegions \cup {Len(memmap) + 1} \in SUBSET Nat /\ UsableRegions \cup {Len(memmap) + 1} # {}
  <2>1. Len(memmap) + 1 \in Nat /\ \A r \in UsableRegions : r \in Nat
    BY <1>2
  <2> QED BY ZenonT(30), <2>1
<1>4. current_region \in Nat /\ \A r \in UsableRegions : current_region <= r
  BY ZenonT(30), <1>1, <1>2, <1>3, MinIsLeast DEF FirstOf
<1>5. ~ \E r \in UsableRegions : r < current_region
  BY <1>2, <1>4
<1>6. next_free = memmap[current_region].base
  BY DEF PhysInit
<1> QED BY <1>1, <1>5, <1>6, MapFacts DEF End

\* boot_alloc leaves the frontier just behind what it gave away.
LEMMA KeptStep ==
  ASSUME FrontierInv, KeptInv, NEW n \in Nat, boot_alloc(n)
  PROVE  KeptInv'
<1> SUFFICES ASSUME current_region' \in Regions
             PROVE  /\ next_free' <= End(current_region')
                    /\ \/ next_free' = memmap[current_region'].base
                       \/ \E i \in DOMAIN taken' : next_free' - 1 \in taken'[i]
                    /\ (\E r \in UsableRegions : r < current_region') =>
                         \E i \in DOMAIN taken' : \E a \in taken'[i] :
                            memmap[current_region'].base <= a
  BY DEF KeptInv, boot_alloc, Regions, UsableRegions, End
<1> DEFINE new == Span(Given(n), n)
<1>1. /\ current_region' = Fitting(n) /\ Fitting(n) \in Regions
      /\ next_free' = Given(n) + n /\ taken' = Append(taken, new)
  BY DEF boot_alloc
<1>2. /\ Fitting(n) \in UsableRegions /\ Given(n) \in Nat
      /\ memmap[Fitting(n)].base <= Given(n) /\ Given(n) + n <= End(Fitting(n))
  BY <1>1, Room
<1>3. memmap[Fitting(n)].base \in Nat /\ next_free \in Nat /\ taken \in Seq(SUBSET Nat)
  BY <1>1, MapFacts DEF FrontierInv
<1>4. PICK g \in Nat : g = Given(n)
  BY <1>2
<1>5. n # 0 => g + n - 1 \in new
  BY <1>4 DEF Span
<1> HIDE DEF new
<1>6. /\ Len(taken) + 1 \in DOMAIN taken' /\ taken'[Len(taken) + 1] = new
      /\ \A i \in DOMAIN taken : i \in DOMAIN taken' /\ taken'[i] = taken[i]
  BY <1>1, <1>3
<1>7. next_free' - 1 = g + n - 1
  BY <1>1, <1>4
<1>8. CASE n # 0
  <2>1. next_free' - 1 \in taken'[Len(taken) + 1]
    BY <1>5, <1>6, <1>7, <1>8
  <2>2. memmap[current_region'].base <= next_free' - 1
    BY <1>1, <1>2, <1>3, <1>4, <1>7, <1>8
  <2> QED BY <1>1, <1>2, <1>6, <2>1, <2>2
<1>9. CASE n = 0
  <2>1. current_region \in Regions
    <3>1. CASE Fitting(n) = current_region
      BY <1>1, <3>1
    <3>2. CASE Fitting(n) # current_region
      <4>1. Fitting(n) = FirstOf({r \in Later : n <= memmap[r].length})
        BY <3>2 DEF Fitting
      <4>2. {r \in Later : n <= memmap[r].length} \in SUBSET Regions
        BY DEF Later, UsableRegions
      <4>3. Len(memmap) + 1 \notin Regions
        BY MapFacts DEF FrontierInv
      <4>4. Fitting(n) \in Later
        BY ZenonT(30), <1>1, <4>1, <4>2, <4>3, FirstOfFact DEF FrontierInv
      <4>5. Fitting(n) > current_region /\ Fitting(n) \in 1 .. Len(memmap)
        BY <4>4, MapFacts DEF Later, UsableRegions, FrontierInv
      <4> QED BY <4>5, MapFacts DEF FrontierInv, UsableRegions
    <3> QED BY <3>1, <3>2
  <2>2. next_free + n <= End(current_region)
    BY <1>3, <1>9, <2>1 DEF KeptInv
  <2>3. Fitting(n) = current_region /\ Given(n) = next_free
    BY <2>1, <2>2 DEF Fitting, Given
  <2>4. next_free' = next_free
    BY <1>1, <1>3, <1>9, <2>3
  <2> QED BY <1>1, <1>6, <2>1, <2>2, <2>3, <2>4 DEF KeptInv
<1> QED BY <1>8, <1>9

\* A page boundary at or above an address is at or above the address rounded
\* up; one that a whole page below an address leaves lies below the address
\* rounded down.
LEMMA BoundaryRounding ==
  ASSUME NEW p \in Nat, NEW a \in Nat
  PROVE  /\ a <= p * PGSIZE => roundup(a) <= p * PGSIZE
         /\ p * PGSIZE + PGSIZE <= a => p * PGSIZE < rounddown(a) /\ p < a \div PGSIZE
<1>1. ASSUME NEW x \in Nat, NEW y \in Nat, x < y
      PROVE  x * PGSIZE + PGSIZE <= y * PGSIZE
  <2>1. (x + 1) * PGSIZE <= y * PGSIZE
    BY <1>1, SizesAssumption
  <2> QED BY <1>1, <2>1, SizesAssumption
<1>2. PGSIZE \in Nat /\ PGSIZE > 0 /\ p * PGSIZE \in Nat
  BY SizesAssumption
<1>3. ASSUME a <= p * PGSIZE PROVE roundup(a) <= p * PGSIZE
  <2> DEFINE b == a + PGSIZE - 1
             k == b \div PGSIZE
  <2>1. b \in Nat /\ k \in Nat /\ k * PGSIZE <= b
    BY <1>2, PageQuotient
  <2>2. k * PGSIZE <= p * PGSIZE + PGSIZE - 1
    BY <1>2, <1>3, <2>1
  <2>3. ~(p < k)
    <3> SUFFICES ASSUME p < k PROVE FALSE
      OBVIOUS
    <3> HIDE DEF k
    <3>1. p * PGSIZE + PGSIZE <= k * PGSIZE
      BY <1>1, <2>1
    <3>2. k * PGSIZE \in Nat
      BY <1>2, <2>1
    <3> QED BY <1>2, <2>2, <3>1, <3>2
  <2> HIDE DEF k
  <2>4. k * PGSIZE <= p * PGSIZE
    BY <1>2, <2>1, <2>3
  <2> QED BY <2>4 DEF roundup, k
<1>4. ASSUME p * PGSIZE + PGSIZE <= a
      PROVE  p * PGSIZE < rounddown(a) /\ p < a \div PGSIZE
  <2> DEFINE k == a \div PGSIZE
  <2>1. k \in Nat /\ a < k * PGSIZE + PGSIZE
    BY PageQuotient
  <2> HIDE DEF k
  <2>2. k * PGSIZE \in Nat
    BY <1>2, <2>1
  <2>3. p < k
    <3> SUFFICES ASSUME k <= p PROVE FALSE
      BY <2>1
    <3>1. k * PGSIZE <= p * PGSIZE
      BY <1>2, <2>1
    <3> QED BY <1>2, <1>4, <2>1, <2>2, <3>1
  <2>4. p * PGSIZE + PGSIZE <= k * PGSIZE
    BY <1>1, <2>1, <2>3
  <2> QED BY <1>2, <2>2, <2>3, <2>4 DEF rounddown, k
<1> QED BY <1>3, <1>4

\* A frame of usable memory above all that boot_alloc gave away is one that
\* frame_alloc_init pushes.
AbovePushed ==
  FrontierInv /\ KeptInv /\ current_region \in Regions =>
    \A p \in Pages :
       InUsable(Frame(p)) /\ (\A i \in DOMAIN taken : \A a \in taken[i] : a < p * PGSIZE)
         => p \in FreeFrames(current_region, next_free)

\* So it is.
LEMMA AboveIsPushed == AbovePushed
<1> SUFFICES ASSUME FrontierInv, KeptInv, current_region \in Regions,
                    NEW p \in Pages, InUsable(Frame(p)),
                    \A i \in DOMAIN taken : \A a \in taken[i] : a < p * PGSIZE
             PROVE  p \in FreeFrames(current_region, next_free)
  BY ZenonT(30) DEF AbovePushed
<1>1. p \in Nat /\ PGSIZE \in Nat /\ PGSIZE > 0 /\ p * PGSIZE \in Nat
  BY SizesAssumption, NPagesAssumption DEF Pages
<1>2. PICK r \in UsableRegions : Frame(p) \subseteq Span(memmap[r].base, memmap[r].length)
  BY DEF InUsable
<1>3. /\ memmap[r].base \in Nat /\ memmap[r].length \in Nat /\ End(r) \in Nat /\ r \in Nat
      /\ current_region \in UsableRegions /\ current_region \in Nat /\ next_free \in Nat
  BY MapFacts DEF FrontierInv, UsableRegions
<1>4. memmap[r].base <= p * PGSIZE /\ p * PGSIZE + PGSIZE <= End(r)
  <2>1. p * PGSIZE \in Frame(p) /\ p * PGSIZE + PGSIZE - 1 \in Frame(p)
    BY <1>1 DEF Frame, Span
  <2>2. /\ p * PGSIZE \in Span(memmap[r].base, memmap[r].length)
        /\ p * PGSIZE + PGSIZE - 1 \in Span(memmap[r].base, memmap[r].length)
    BY <1>2, <2>1
  <2> QED BY <1>1, <1>3, <2>2 DEF Span, End
<1>5. r >= current_region
  <2> SUFFICES ASSUME r < current_region PROVE FALSE
    BY <1>3
  <2>1. PICK i \in DOMAIN taken : \E a \in taken[i] : memmap[current_region].base <= a
    BY DEF KeptInv
  <2>2. PICK a \in taken[i] : memmap[current_region].base <= a
    BY <2>1
  <2>3. a \in Nat /\ a < p * PGSIZE
    BY <2>1, <2>2 DEF FrontierInv
  <2>4. End(r) <= memmap[current_region].base /\ memmap[current_region].base \in Nat
    BY <1>3, MapFacts DEF FrontierInv
  <2> QED BY <1>1, <1>3, <1>4, <2>2, <2>3, <2>4
<1>6. r = current_region => next_free <= p * PGSIZE
  <2> SUFFICES ASSUME r = current_region PROVE next_free <= p * PGSIZE
    OBVIOUS
  <2>1. CASE next_free = memmap[current_region].base
    BY <1>4, <2>1
  <2>2. CASE \E i \in DOMAIN taken : next_free - 1 \in taken[i]
    <3>1. next_free - 1 < p * PGSIZE
      BY <2>2
    <3> QED BY <1>1, <1>3, <3>1
  <2> QED BY <2>1, <2>2 DEF KeptInv
<1>7. roundup(memmap[r].base) <= p * PGSIZE /\ (r = current_region => roundup(next_free) <= p * PGSIZE)
  BY <1>1, <1>3, <1>4, <1>6, BoundaryRounding
<1>8. p * PGSIZE < rounddown(End(r)) /\ p < End(r) \div PGSIZE
  BY <1>1, <1>3, <1>4, BoundaryRounding
<1>9. p < npages
  <2>1. npages \in Nat /\ End(r) \div PGSIZE <= npages
    BY NPagesBounds DEF FrontierInv
  <2>2. End(r) \div PGSIZE \in Nat
    BY <1>3, PageQuotient
  <2> QED BY <1>1, <1>8, <2>1, <2>2
<1>10. p * PGSIZE >= IF r = current_region /\ roundup(memmap[r].base) < next_free
                     THEN roundup(next_free) ELSE roundup(memmap[r].base)
  <2>1. roundup(memmap[r].base) \in Nat /\ roundup(next_free) \in Nat
    BY <1>3, Rounding
  <2> QED BY <1>1, <1>7, <2>1
<1> QED BY ZenonT(30), <1>5, <1>8, <1>9, <1>10 DEF FreeFrames

\* Also after a step.
LEMMA AboveInAStep == AbovePushed'
BY AboveIsPushed, PTL

\* frame_alloc_init hands over every frame above what boot_alloc gave away.
LEMMA KeptFill ==
  ASSUME StackInv, BootInv, FramesInv, frame_alloc_init, FrontierInv', KeptInv', FrontierInv
  PROVE  FramesKept'
<1> SUFFICES ASSUME current_region' \in Regions', NEW p \in Pages, InUsable(Frame(p))',
                    \A i \in DOMAIN taken' : \A a \in taken'[i] : a < p * PGSIZE
             PROVE  p \in OnList'
  BY DEF FramesKept
<1> DEFINE n == npages * PAGEINFO
<1>1. memmap' = memmap /\ current_region' = Fitting(n)
  BY DEF frame_alloc_init, boot_alloc
<1>2. n \in Nat
  BY NPagesBounds, SizesAssumption DEF FrontierInv
<1>3. Given(n) # 0
  <2>1. Fitting(n) \in Regions
    BY <1>1 DEF Regions
  <2>2. Fitting(n) \in UsableRegions /\ Given(n) \in Nat /\ memmap[Fitting(n)].base <= Given(n)
    BY <1>2, <2>1, Room
  <2>3. memmap[Fitting(n)].base > 0 /\ memmap[Fitting(n)].base \in Nat
    <3>1. \A i \in DOMAIN memmap : memmap[i].usable => memmap[i].base > 0
      BY ZenonT(30), MemMapsAssumption DEF FrontierInv
    <3> QED BY <2>1, <2>2, <3>1, MapFacts DEF UsableRegions, Regions, FrontierInv
  <2> QED BY <2>2, <2>3
<1>4. OnList' = FreeFrames(current_region', next_free')
  BY <1>3, FillOnList
<1>5. FreeFrames(current_region', next_free') = (FreeFrames(current_region, next_free))'
  BY <1>1 DEF FreeFrames, UsableRegions, Regions, End, npages, roundup, rounddown
<1>6. p \in (FreeFrames(current_region, next_free))'
  BY AboveInAStep DEF AbovePushed
<1> QED BY <1>4, <1>5, <1>6

\* frame_alloc_init loses no frame behind the last address boot_alloc gave
\* away, and neither do page_alloc and page_free: the invariant FramesKept, for
\* every memory map, number of frames and sequence of requests.
THEOREM FramesKeptCorrect == PhysSpec => []FramesKept
<1>1. PhysInit => KeptInv /\ FramesKept
  BY KeptStart DEF PhysInit, FramesKept
<1>2. ASSUME ListInv, BootInv, FrontierInv, FrontierInv', FramesInv, StackInv,
             KeptInv, FramesKept, [PhysNext]_physVars
      PROVE  KeptInv' /\ FramesKept'
  <2>1. ASSUME UNCHANGED bootVars PROVE KeptInv'
    BY <1>2, <2>1 DEF KeptInv, bootVars, Regions, UsableRegions, End
  <2>2. ASSUME UNCHANGED <<ready, bootVars>>, OnList' \cup held' = OnList \cup held
        PROVE  FramesKept'
    <3>1. /\ memmap' = memmap /\ current_region' = current_region /\ taken' = taken
          /\ ready' = ready
      BY <2>2 DEF bootVars
    <3>2. Regions' = Regions /\ \A p : InUsable(Frame(p))' <=> InUsable(Frame(p))
      BY <3>1 DEF Regions, InUsable, UsableRegions, Frame, Span
    <3> SUFFICES ASSUME ready', current_region' \in Regions', NEW p \in Pages, InUsable(Frame(p))',
                        \A i \in DOMAIN taken' : \A a \in taken'[i] : a < p * PGSIZE
                 PROVE  p \in OnList' \cup held'
      BY DEF FramesKept
    <3>3. /\ ready /\ current_region \in Regions /\ InUsable(Frame(p))
          /\ \A i \in DOMAIN taken : \A a \in taken[i] : a < p * PGSIZE
      BY <3>1, <3>2
    <3>4. p \in OnList \cup held
      BY <1>2, <3>3 DEF FramesKept
    <3> QED BY <2>2, <3>4
  <2>3. ASSUME NEW n \in Requests, ~ready, boot_alloc(n), UNCHANGED <<ready, pageVars>>
        PROVE  KeptInv' /\ FramesKept'
    BY <1>2, <2>3, KeptStep, SizesAssumption DEF FramesKept
  <2>4. CASE frame_alloc_init
    <3>1. npages * PAGEINFO \in Nat
      BY <1>2, NPagesBounds, SizesAssumption DEF FrontierInv
    <3>2. KeptInv'
      BY <1>2, <2>4, <3>1, KeptStep DEF frame_alloc_init
    <3> QED BY <1>2, <2>4, <3>2, KeptFill
  <2>5. CASE ready /\ page_alloc /\ UNCHANGED <<ready, bootVars>>
    BY <1>2, <2>1, <2>2, <2>5, AllocOnList DEF ListInv
  <2>6. CASE ready /\ (\E pp \in Freeable : page_free(pp)) /\ UNCHANGED <<ready, bootVars>>
    BY <1>2, <2>1, <2>2, <2>6, FreeOnList
  <2>7. CASE UNCHANGED physVars
    <3>1. OnList' = OnList /\ held' = held /\ UNCHANGED <<ready, bootVars>>
      BY <1>2, <2>7, SameList DEF physVars, pageVars
    <3> QED BY <2>1, <2>2, <3>1
  <2> QED BY <1>2, <2>3, <2>4, <2>5, <2>6, <2>7 DEF PhysNext
<1> QED BY <1>1, <1>2, ListInvariance, FrontierInvariance, StackInvariance, PTL DEF PhysSpec

\* The types of the boot allocator and of the frame allocator, the bound on
\* npages included: the invariant PhysTypeOK.
THEOREM PhysTypeCorrect == PhysSpec => []PhysTypeOK
<1>1. ListInv /\ BootInv /\ FrontierInv => PhysTypeOK
  BY NPagesBounds DEF ListInv, BootInv, FrontierInv, PhysTypeOK
<1> QED BY <1>1, ListInvariance, FrontierInvariance, PTL
==============================================================================
