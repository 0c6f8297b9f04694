------------------------------ MODULE PageAlloc ------------------------------
(***************************************************************************)
(* The page-frame allocator of page_alloc.c: one PageInfo per frame, the   *)
(* free ones chained through pp_link from page_free_list.                  *)
(*                                                                         *)
(* Both operations run under page_alloc_lock with interrupts off (see      *)
(* Spinlock), so each is one action.  pp_ref is left out: the kernel never *)
(* sets it to anything but 0, so its half of page_free's test never fires. *)
(* The frames' bytes are left out as well (AddressSpace is about them).    *)
(* PhysMem, which boots the allocator, is the specification of its state.  *)
(***************************************************************************)
EXTENDS Integers, FiniteSetsExt

CONSTANT NPAGES       \* npages, the length of pages[]

ASSUME NPagesAssumption == NPAGES \in Nat \ {0}

VARIABLES pp_link,          \* pages[i].pp_link
          page_free_list,   \* head of the chain
          held              \* the frames callers own

pageVars == <<pp_link, page_free_list, held>>

\* A pointer into pages[] is the index of the frame; NULL is none of them.
Pages == 0 .. NPAGES - 1
NULL == -1
PagePtrs == Pages \cup {NULL}

TypeOK == /\ pp_link \in [Pages -> PagePtrs]
          /\ page_free_list \in PagePtrs
          /\ held \subseteq Pages

-----------------------------------------------------------------------------
(* What frame_alloc_init's loop leaves behind: the frames of F are pushed  *)
(* in ascending order, so each links to the next lower one.                *)

Highest(F) == IF F = {} THEN NULL ELSE Max(F)

Chain(F) == [p \in Pages |-> IF p \in F THEN Highest({q \in F : q < p}) ELSE NULL]

-----------------------------------------------------------------------------
(* The operations *)

page_alloc_keeps_link ==
  IF page_free_list = NULL
  THEN UNCHANGED pageVars
  ELSE /\ held' = held \cup {page_free_list}
       /\ page_free_list' = pp_link[page_free_list]
       /\ UNCHANGED pp_link

\* Pops the head; NULL, and no change, when the list is empty.
page_alloc ==
  IF page_free_list = NULL
  THEN UNCHANGED pageVars
  ELSE /\ held' = held \cup {page_free_list}
       /\ page_free_list' = pp_link[page_free_list]
       /\ pp_link' = [pp_link EXCEPT ![page_free_list] = NULL]

page_free_unchecked(pp) ==
  /\ held' = held \ {pp}
  /\ pp_link' = [pp_link EXCEPT ![pp] = page_free_list]
  /\ page_free_list' = pp

\* The caller lets go of pp whatever happens.  A page that links on is taken
\* to be on the list already: "bad free", nothing is done.
page_free(pp) ==
  /\ held' = held \ {pp}
  /\ IF pp_link[pp] # NULL
     THEN UNCHANGED <<pp_link, page_free_list>>
     ELSE /\ pp_link' = [pp_link EXCEPT ![pp] = page_free_list]
          /\ page_free_list' = pp

\* A caller frees a page it holds, or repeats the free of a page page_free
\* can tell is on the list.
Freeable == held \cup {p \in Pages : pp_link[p] # NULL}

-----------------------------------------------------------------------------
(* The list as count_free walks it *)

\* The pointer the walk holds after n steps.
Walk[n \in Nat] == IF n = 0 THEN page_free_list
                   ELSE IF Walk[n - 1] = NULL THEN NULL ELSE pp_link[Walk[n - 1]]

OnList == {Walk[n] : n \in 0 .. NPAGES} \ {NULL}

\* Every frame that is the head of the list or that some page links to.
Linked == ({page_free_list} \cup {pp_link[p] : p \in Pages}) \ {NULL}

-----------------------------------------------------------------------------
(* Properties *)

\* No frame a caller owns can be handed out again: neither the head of the
\* list nor any link leads to a held frame (page_alloc pops the head and the
\* next head is a link).
HeldOffList == /\ page_free_list \notin held
               /\ \A p \in Pages : pp_link[p] \notin held

\* The walks of count_free and frame_alloc_init end: after at most NPAGES
\* steps along pp_link from page_free_list comes NULL.
FreeListEnds == Walk[NPAGES] = NULL

\* page_alloc.c implements the pool: page_alloc returns a frame whenever there
\* is one and moves it to its caller, page_free brings every held frame back,
\* and a refused free changes nothing: no frame leaks and none is in two places.
Pool == INSTANCE FramePool WITH free <- OnList, held <- held
ImplementsPool == Pool!PoolSpec
=============================================================================
