------------------------------ MODULE FramePool ------------------------------
(***************************************************************************)
(* What the page-frame allocator promises its callers: a pool of frames,   *)
(* each of which is either free or held by exactly one caller.  How the    *)
(* free ones are kept (a linked list threaded through pages[]) is hidden;  *)
(* PageAlloc, as PhysMem boots it, implements this specification.          *)
(***************************************************************************)
VARIABLES free, held

poolVars == <<free, held>>

PoolInit == free = {} /\ held = {}

\* frame_alloc_init() fills the pool.
Fill == free = {} /\ held = {} /\ held' = {}

\* page_alloc() hands out some free frame.
Take == \E p \in free : free' = free \ {p} /\ held' = held \cup {p}

\* page_free() gives one held frame back.
Give == \E p \in held : free' = free \cup {p} /\ held' = held \ {p}

PoolSpec == PoolInit /\ [][Fill \/ Take \/ Give]_poolVars
=============================================================================
