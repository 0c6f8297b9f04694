-------------------------------- MODULE KHeap --------------------------------
(***************************************************************************)
(* The kernel heap of kheap.c: first fit over a list of blocks, splitting  *)
(* on allocation, merging neighbours on kfree, growing by whole pages.     *)
(*                                                                         *)
(* Addresses are offsets from KHEAP_BASE in units (8 bytes in the kernel). *)
(* A block is its header at addr followed by size units of payload; the    *)
(* chain free_list, which holds the used blocks too, is the sequence       *)
(* blocks.  kmalloc and kfree hold kheap_lock with interrupts off, so each *)
(* is one action.  heap_end is left out: nothing reads it.                 *)
(***************************************************************************)
EXTENDS Integers, Sequences, FiniteSetsExt

CONSTANTS PGSIZE,       \* units in a page
          HDR,          \* units in a block_header
          ALIGN,
          KHEAP_PAGES,  \* KHEAP_SIZE in pages
          FRAMES,       \* frames the page allocator has left at kheap_init
          UPPER,        \* levels between the PML4 and the last one, one table each for
                        \* the whole heap (the PDPT and the PD: 2), absent then
          PTENTRIES,    \* pages a table of the last level covers (512)
          Sizes         \* the sizes callers ask for

ASSUME HeapAssumption == /\ {PGSIZE, HDR, ALIGN, PTENTRIES} \subseteq Nat \ {0}
                         /\ {KHEAP_PAGES, FRAMES, UPPER} \subseteq Nat
                         /\ HDR + ALIGN <= PGSIZE
                         /\ Sizes \subseteq Nat \ {0}

VARIABLES blocks,      \* the chain from free_list: [addr, size, free]
          heap_next,   \* first address not yet given a page
          frames,      \* frames page_alloc can still return
          levels,      \* upper page-table levels present for the heap
          tables,      \* tables of the last level present: table t has the pages p with
                       \* p \div PTENTRIES = t
          mapped,      \* the heap pages that are mapped
          live,        \* callers' allocations: [ptr, size]
          extents,     \* the blocks heap_extend created, as created
          halted       \* a fault in the kernel stopped the machine

heapVars == <<blocks, heap_next, frames, levels, tables, mapped, live, extents, halted>>

roundup(n, a) == ((n + a - 1) \div a) * a

Span(base, n) == base .. base + n - 1
BlockSpan(b) == Span(b.addr, HDR + b.size)

TypeOK == /\ \A i \in DOMAIN blocks : /\ {blocks[i].addr, blocks[i].size} \subseteq Nat
                                      /\ blocks[i].free \in BOOLEAN
          /\ heap_next \in 0 .. KHEAP_PAGES * PGSIZE
          /\ frames \in 0 .. FRAMES
          /\ levels \in 0 .. UPPER
          /\ tables \subseteq {p \div PTENTRIES : p \in 0 .. KHEAP_PAGES - 1}
          /\ mapped \subseteq 0 .. KHEAP_PAGES - 1
          /\ halted \in BOOLEAN

\* kheap_init
Init == /\ blocks = <<>>
        /\ heap_next = 0
        /\ frames = FRAMES
        /\ levels = 0
        /\ tables = {}
        /\ mapped = {}
        /\ live = {}
        /\ extents = {}
        /\ halted = FALSE

-----------------------------------------------------------------------------
(* heap_extend *)

\* vmm_walk with create, on the loop state of heap_extend (pages done, frames,
\* levels, tables, pages mapped): a frame for each level missing on the way to
\* table t, from the top down, for as long as there are frames.  It returns NULL
\* when they run out, and keeps the tables it has made.
vmm_walk(s, t) ==
  LET upper == IF s.frames < UPPER - s.levels THEN s.frames ELSE UPPER - s.levels
      left  == s.frames - upper
      made  == s.levels + upper = UPPER /\ t \notin s.tables /\ left > 0
  IN  [ done   |-> s.done,
        frames |-> IF made THEN left - 1 ELSE left,
        levels |-> s.levels + upper,
        tables |-> IF made THEN s.tables \cup {t} ELSE s.tables,
        mapped |-> s.mapped ]

\* vmm_map: without an entry to write, it returns and says nothing.
vmm_map(s, page) ==
  LET w == vmm_walk(s, page \div PTENTRIES)
  IN  [ w EXCEPT !.mapped = IF page \div PTENTRIES \in w.tables THEN @ \cup {page} ELSE @ ]

ExtendRound_same_page(s) ==
  LET m == vmm_map([s EXCEPT !.frames = @ - 1], heap_next \div PGSIZE)
  IN  [m EXCEPT !.done = @ + 1]

\* One round of the loop: a frame for the page, and the page is mapped.
ExtendRound(s) ==
  LET m == vmm_map([s EXCEPT !.frames = @ - 1], heap_next \div PGSIZE + s.done)
  IN  [m EXCEPT !.done = @ + 1]

Extend_unbounded(n) ==
  LET round[i \in 0 .. n] ==
        IF i = 0 THEN [done |-> 0, frames |-> frames, levels |-> levels, tables |-> tables,
                       mapped |-> mapped]
        ELSE LET s == round[i - 1]
             IN  IF s.done # i - 1 \/ s.frames = 0 THEN s ELSE ExtendRound(s)
  IN  round[n]

\* n rounds, or as many as the heap's range and the frames allow.
Extend(n) ==
  LET round[i \in 0 .. n] ==
        IF i = 0 THEN [done |-> 0, frames |-> frames, levels |-> levels, tables |-> tables,
                       mapped |-> mapped]
        ELSE LET s == round[i - 1]
             IN  IF \/ s.done # i - 1
                    \/ heap_next + s.done * PGSIZE >= KHEAP_PAGES * PGSIZE
                    \/ s.frames = 0
                 THEN s ELSE ExtendRound(s)
  IN  round[n]

-----------------------------------------------------------------------------
(* kmalloc *)

split_block_keeps_size(b, n) ==
  IF b.size >= n + HDR + ALIGN
  THEN << b, [addr |-> b.addr + HDR + n, size |-> b.size - n - HDR, free |-> TRUE] >>
  ELSE << b >>

\* The remainder becomes a block of its own if a header and ALIGN fit in it.
split_block(b, n) ==
  IF b.size >= n + HDR + ALIGN
  THEN << [b EXCEPT !.size = n],
          [addr |-> b.addr + HDR + n, size |-> b.size - n - HDR, free |-> TRUE] >>
  ELSE << b >>

Used(bs) == [bs EXCEPT ![1].free = FALSE]

\* Writing the headers of these blocks touches mapped pages only.
Writable(bs, ms) == \A i \in DOMAIN bs : \A x \in Span(bs[i].addr, HDR) : x \div PGSIZE \in ms

\* The first free block of at least n units is split and taken.  The remainder's
\* header is written first: a fault there halts the machine with the chain as it
\* was.
TakeBlock(i, n, size) ==
  LET parts == Used(split_block(blocks[i], n))
      ok    == Writable(parts, mapped)
  IN  /\ halted' = ~ok
      /\ IF ok
         THEN /\ blocks' = SubSeq(blocks, 1, i - 1) \o parts \o SubSeq(blocks, i + 1, Len(blocks))
              /\ live' = live \cup {[ptr |-> blocks[i].addr + HDR, size |-> size]}
         ELSE UNCHANGED <<blocks, live>>
      /\ UNCHANGED <<heap_next, frames, levels, tables, mapped, extents>>

\* Otherwise the heap grows by whole pages at heap_next and the new block is
\* split and put first.  A failed extension keeps the pages it got: heap_next
\* has moved past them.  An extension that could not map all its pages has not
\* failed: writing the new block's header, or its remainder's, faults if it lies
\* on such a page, and the fault handler halts the machine.  Nobody reads the
\* chain after that: it is left as it was.
GrowHeap(n, size) ==
  LET pages == (n + HDR + PGSIZE - 1) \div PGSIZE
      e     == Extend(pages)
      nb    == [addr |-> heap_next, size |-> pages * PGSIZE - HDR, free |-> FALSE]
      parts == split_block(nb, n)
      ok    == e.done = pages
  IN  /\ heap_next' = heap_next + e.done * PGSIZE
      /\ frames' = e.frames /\ levels' = e.levels /\ tables' = e.tables /\ mapped' = e.mapped
      /\ halted' = (ok /\ ~Writable(parts, e.mapped))
      /\ IF ok /\ ~halted'
         THEN /\ blocks' = parts \o blocks
              /\ live' = live \cup {[ptr |-> nb.addr + HDR, size |-> size]}
              /\ extents' = extents \cup {[addr |-> nb.addr, size |-> nb.size]}
         ELSE UNCHANGED <<blocks, live, extents>>

kmalloc(size) ==
  LET n    == roundup(size, ALIGN)
      Fits == {i \in DOMAIN blocks : blocks[i].free /\ blocks[i].size >= n}
  IN  \/ Fits # {} /\ TakeBlock(Min(Fits), n, size)
      \/ Fits = {} /\ GrowHeap(n, size)

-----------------------------------------------------------------------------
(* kfree *)

Adjacent(b, c) == b.addr + HDR + b.size = c.addr

Merge_once(done, c) ==
  LET m == Len(done)
  IN  IF m # 0 /\ done[m].free /\ c.free /\ Adjacent(done[m], c)
         /\ \E i \in DOMAIN blocks : blocks[i].addr = done[m].addr /\ blocks[i].size = done[m].size
      THEN [done EXCEPT ![m].size = @ + HDR + c.size]
      ELSE Append(done, c)

Merge_loses_header(done, c) ==
  LET m == Len(done)
  IN  IF m # 0 /\ done[m].free /\ c.free /\ Adjacent(done[m], c)
      THEN [done EXCEPT ![m].size = @ + c.size]
      ELSE Append(done, c)

\* One step of kfree's pass along the chain: c is merged into the block before
\* it, if both are free and they touch; the merged block is then tried against
\* the block after c.
Merge(done, c) ==
  LET m == Len(done)
  IN  IF m # 0 /\ done[m].free /\ c.free /\ Adjacent(done[m], c)
      THEN [done EXCEPT ![m].size = @ + HDR + c.size]
      ELSE Append(done, c)

\* The pass: what it has made of the first i blocks, for each i.
MergePass(bs) ==
  LET pass[i \in 0 .. Len(bs)] == IF i = 0 THEN <<>> ELSE Merge(pass[i - 1], bs[i])
  IN  pass[Len(bs)]

\* The header just below the pointer is marked free, then the pass is made.
kfree(a) ==
  LET marked == [i \in DOMAIN blocks |->
                   IF blocks[i].addr = a.ptr - HDR THEN [blocks[i] EXCEPT !.free = TRUE]
                   ELSE blocks[i]]
  IN  /\ blocks' = MergePass(marked)
      /\ live' = live \ {a}
      /\ UNCHANGED <<heap_next, frames, levels, tables, mapped, extents, halted>>

\* Other users of page_alloc take a frame; the kernel never gives one back.
OtherAlloc == /\ frames > 0
              /\ frames' = frames - 1
              /\ UNCHANGED <<blocks, heap_next, levels, tables, mapped, live, extents, halted>>

Next == /\ ~halted
        /\ \/ \E size \in Sizes : kmalloc(size)
           \/ \E a \in live : kfree(a)
           \/ OtherAlloc

Spec == Init /\ [][Next]_heapVars

-----------------------------------------------------------------------------
(* Properties *)

\* No two blocks of the chain overlap, headers included, and every allocation a
\* caller holds is the payload of a used block of its own, large enough; every
\* used block belongs to a caller.
HeapSound ==
  /\ \A i, j \in DOMAIN blocks : i # j => BlockSpan(blocks[i]) \cap BlockSpan(blocks[j]) = {}
  /\ \A a \in live : \E i \in DOMAIN blocks :
        a.ptr = blocks[i].addr + HDR /\ a.size <= blocks[i].size /\ ~blocks[i].free
  /\ Cardinality(live) = Cardinality({i \in DOMAIN blocks : ~blocks[i].free})

\* kmalloc and kfree can always walk the chain: each header in it is on mapped
\* pages, whichever of its tables vmm_map could not get.  And a block with a page
\* that is not mapped, which heap_extend and kmalloc hand out as if nothing had
\* happened, exists only once the page allocator has nothing left.
HeapMapped ==
  /\ Writable(blocks, mapped)
  /\ frames # 0 =>
       \A i \in DOMAIN blocks : \A x \in BlockSpan(blocks[i]) : x \div PGSIZE \in mapped

\* kfree leaves no two free blocks touching along the chain, in whatever order
\* blocks are freed.
FreeMerged ==
  \A i \in 1 .. Len(blocks) - 1 :
     ~(blocks[i].free /\ blocks[i + 1].free /\ Adjacent(blocks[i], blocks[i + 1]))

\* When everything is freed the heap is what heap_extend made it: one free
\* block per extension, nothing lost to splitting.
WholeAgain ==
  live = {} => {[addr |-> blocks[i].addr, size |-> blocks[i].size] : i \in DOMAIN blocks} = extents
=============================================================================
