----------------------------- MODULE KHeapProofs -----------------------------
(***************************************************************************)
(* For every page, header and heap size and every sequence of kmalloc and   *)
(* kfree: the heap is sound, kfree leaves no free neighbours, and a heap    *)
(* with everything freed is as heap_extend made it.  Its headers are on     *)
(* mapped pages, and all of it is until the frames run out.  This follows   *)
(* from HeapInv: the chain covers the extents, no two free blocks that      *)
(* touch are neighbours in it, its used blocks are the live allocations,    *)
(* and the pages below heap_next are mapped as long as there are frames.    *)
(* The loops of heap_extend and kfree are followed round by round.          *)
(***************************************************************************)
EXTENDS KHeapChain, InductionFacts, FiniteSetTheorems

\* The time each prover has for a leaf that names none.
USE SMTT(30), ZenonT(30)

-----------------------------------------------------------------------------
(* Loops.  step[i] is what round i does to the state of the loop.          *)

\* g[i] is the state after i rounds, from x0 on.
Iterates(g, n, X, x0, step) == /\ g \in [0 .. n -> X]
                               /\ g[0] = x0
                               /\ \A i \in 1 .. n : g[i] = step[i][g[i - 1]]

\* Such a function exists.
LEMMA IterateExists ==
  ASSUME NEW N \in Nat, NEW X, NEW x0 \in X, NEW step \in [1 .. N -> [X -> X]]
  PROVE  \E g : Iterates(g, N, X, x0, step)
<1> DEFINE S == {n \in 0 .. N : \E g : Iterates(g, n, X, x0, step)}
<1>1. 0 \in S
  <2> DEFINE g == [i \in 0 .. 0 |-> x0]
  <2>1. Iterates(g, 0, X, x0, step)
    <3>1. g \in [0 .. 0 -> X] /\ g[0] = x0
      OBVIOUS
    <3> QED BY <3>1 DEF Iterates
  <2>2. 0 \in 0 .. N
    OBVIOUS
  <2> QED BY ZenonT(30), <2>1, <2>2
<1>2. ASSUME NEW n \in 0 .. N - 1, n \in S PROVE n + 1 \in S
  <2>1. PICK g : Iterates(g, n, X, x0, step)
    BY ZenonT(30), <1>2
  <2> DEFINE h == [i \in 0 .. n + 1 |-> IF i = n + 1 THEN step[n + 1][g[n]] ELSE g[i]]
  <2>2. n \in 0 .. n /\ n + 1 \in 1 .. N /\ \A i \in 0 .. n + 1 : i # n + 1 => i \in 0 .. n
    OBVIOUS
  <2>3. \A i \in 0 .. n : g[i] \in X
    BY <2>1 DEF Iterates
  <2>4. step[n + 1][g[n]] \in X
    <3>1. step[n + 1] \in [X -> X]
      BY <2>2
    <3> QED BY <2>2, <2>3, <3>1
  <2>5. h \in [0 .. n + 1 -> X]
    BY <2>2, <2>3, <2>4
  <2>6. h[n + 1] = step[n + 1][g[n]] /\ \A i \in 0 .. n : h[i] = g[i]
    OBVIOUS
  <2> HIDE DEF h
  <2>7. h[0] = x0
    BY <2>1, <2>6 DEF Iterates
  <2>8. ASSUME NEW i \in 1 .. n + 1 PROVE h[i] = step[i][h[i - 1]]
    <3>1. CASE i = n + 1
      <4>1. i - 1 = n
        BY <3>1
      <4> QED BY <2>2, <2>6, <3>1, <4>1
    <3>2. CASE i # n + 1
      <4>1. i \in 1 .. n /\ i \in 0 .. n /\ i - 1 \in 0 .. n
        BY <3>2
      <4> QED BY <2>1, <2>6, <4>1 DEF Iterates
    <3> QED BY <3>1, <3>2
  <2>9. Iterates(h, n + 1, X, x0, step)
    BY ZenonT(30), <2>5, <2>7, <2>8 DEF Iterates
  <2>10. n + 1 \in 0 .. N
    OBVIOUS
  <2> QED BY ZenonT(30), <2>9, <2>10
<1>3. 0 .. N \subseteq S
  <2> HIDE DEF S
  <2> QED BY ZenonT(30), <1>1, <1>2, UpToInduction
<1>4. N \in S
  BY <1>3
<1> QED BY ZenonT(30), <1>4

-----------------------------------------------------------------------------
(* The heap                                                                *)

\* Each used block has one allocation.
LEMMA OneEach ==
  ASSUME NEW bs \in Seq(Block), NEW L, Owned(bs, L),
         \A i, j \in 1 .. Len(bs) : i # j => Apart(bs[i], bs[j])
  PROVE  Cardinality(L) = Cardinality({i \in 1 .. Len(bs) : ~bs[i].free})
<1> DEFINE I == {i \in 1 .. Len(bs) : ~bs[i].free}
           f == [i \in I |-> CHOOSE a \in L : a.ptr = bs[i].addr + HDR]
<1>1. \A i \in I : f[i] \in L /\ f[i].ptr = bs[i].addr + HDR
  <2>1. \A i \in I : \E a \in L : a.ptr = bs[i].addr + HDR
    BY DEF Owned
  <2> HIDE DEF I
  <2> QED BY ZenonT(30), <2>1
<1>2. f \in [I -> L]
  <2>1. \A i \in I : (CHOOSE a \in L : a.ptr = bs[i].addr + HDR) \in L
    <3>1. \A i \in I : \E a \in L : a.ptr = bs[i].addr + HDR
      BY DEF Owned
    <3> HIDE DEF I
    <3> QED BY ZenonT(30), <3>1
  <2> HIDE DEF I
  <2> QED BY ZenonT(30), <2>1
<1> HIDE DEF f
<1>3. ASSUME NEW i \in I, NEW j \in I, bs[i].addr = bs[j].addr PROVE i = j
  <2> SUFFICES ASSUME i # j PROVE FALSE
    OBVIOUS
  <2>1. Apart(bs[i], bs[j])
    OBVIOUS
  <2>2. bs[i].addr \in Nat /\ bs[i].size \in Nat /\ bs[j].addr \in Nat /\ bs[j].size \in Nat
    BY BlockFacts
  <2> QED BY <1>3, <2>1, <2>2, ApartDiffer
<1>4. ASSUME NEW i \in I, NEW j \in I, f[i] = f[j] PROVE i = j
  <2>1. bs[i].addr + HDR = bs[j].addr + HDR
    BY <1>1, <1>4
  <2>2. bs[i].addr = bs[j].addr
    BY <2>1, BlockFacts, SizeFacts
  <2> QED BY <1>3, <2>2
<1>5. ASSUME NEW a \in L PROVE \E i \in I : f[i] = a
  <2>1. PICK i \in 1 .. Len(bs) : ~bs[i].free /\ a.ptr = bs[i].addr + HDR
    BY DEF Owned
  <2>2. i \in I
    BY <2>1
  <2>3. f[i] \in L /\ f[i].ptr = a.ptr
    BY <1>1, <2>1, <2>2
  <2>4. f[i] = a
    BY <2>3 DEF Owned
  <2> QED BY <2>2, <2>4
<1>6. f \in Bijection(I, L)
  <2> HIDE DEF I
  <2>1. f \in Surjection(I, L)
    BY ZenonT(30), <1>2, <1>5 DEF Surjection
  <2>2. f \in Injection(I, L)
    BY ZenonT(30), <1>2, <1>4 DEF Injection, IsInjective
  <2> QED BY <2>1, <2>2 DEF Bijection
<1>7. IsFiniteSet(I)
  <2>1. IsFiniteSet(1 .. Len(bs))
    BY FS_Interval, BlockFacts
  <2>2. I \subseteq 1 .. Len(bs)
    OBVIOUS
  <2> QED BY <2>1, <2>2, FS_Subset
<1> HIDE DEF I
<1>8. Cardinality(L) = Cardinality(I)
  BY ZenonT(30), <1>6, <1>7, FS_Bijection DEF ExistsBijection
<1> QED BY <1>8 DEF I

\* Blocks are disjoint, and each allocation has a block.
LEMMA InvSound == HeapInv => HeapSound
<1> SUFFICES ASSUME HeapInv PROVE HeapSound
  OBVIOUS
<1>0. blocks \in Seq(Block) /\ Covers(blocks, extents) /\ Owned(blocks, live) /\ ExtentsInv
  BY DEF HeapInv
<1>1. Len(blocks) \in Nat /\ DOMAIN blocks = 1 .. Len(blocks)
  BY <1>0, BlockFacts
<1>2. \A i \in DOMAIN blocks : blocks[i].addr \in Nat /\ blocks[i].size \in Nat
  BY <1>0, BlockFacts
<1>3. ASSUME NEW i \in DOMAIN blocks, NEW j \in DOMAIN blocks, i # j
      PROVE  BlockSpan(blocks[i]) \cap BlockSpan(blocks[j]) = {}
  <2>1. Apart(blocks[i], blocks[j])
    BY <1>0, <1>1, <1>3 DEF Covers
  <2> QED BY <1>2, <2>1, SizeFacts DEF Apart, Fin, BlockSpan, Span
<1>4. \A a \in live : \E i \in DOMAIN blocks :
        a.ptr = blocks[i].addr + HDR /\ a.size <= blocks[i].size /\ ~blocks[i].free
  BY <1>0, <1>1 DEF Owned
<1>5. Cardinality(live) = Cardinality({i \in DOMAIN blocks : ~blocks[i].free})
  BY ZenonT(30), <1>0, <1>1, OneEach DEF Covers
<1> QED BY ZenonT(30), <1>3, <1>4, <1>5 DEF HeapSound

\* Headers are mapped, and so is everything as long as there are frames: the pages up to heap_next
\* are, and no block reaches beyond.
LEMMA InvMapped == HeapInv => HeapMapped
<1> SUFFICES ASSUME HeapInv PROVE HeapMapped
  OBVIOUS
<1>0. blocks \in Seq(Block) /\ Covers(blocks, extents) /\ ExtentsInv /\ Writable(blocks, mapped)
  BY DEF HeapInv
<1>1. DOMAIN blocks = 1 .. Len(blocks)
  BY <1>0, BlockFacts
<1>2. PICK q \in 0 .. KHEAP_PAGES : PagesInv(q)
  BY DEF HeapInv
<1>3. q \in Nat /\ 0 \in Nat /\ heap_next = q * PGSIZE /\ q * PGSIZE \in Nat
  BY <1>2, SizeFacts DEF PagesInv
<1>4. ASSUME frames # 0, NEW i \in DOMAIN blocks, NEW x \in BlockSpan(blocks[i])
      PROVE  x \div PGSIZE \in mapped
  <2>1. PICK e \in extents : Within(blocks[i], e)
    BY ZenonT(30), <1>0, <1>1 DEF Covers
  <2>2. e.addr \in Nat /\ e.size \in Nat /\ Fin(e) <= heap_next
    BY <1>0 DEF ExtentsInv
  <2>3. blocks[i].addr \in Nat /\ Fin(blocks[i]) \in Nat /\ Fin(e) \in Nat
    BY <1>0, <1>1, <2>2, BlockFacts, SizeFacts DEF Fin
  <2>4. Fin(blocks[i]) <= Fin(e)
    BY ZenonT(30), <2>1 DEF Within
  <2>5. x \in blocks[i].addr .. Fin(blocks[i]) - 1
    <3>1. \A a, z \in Nat : a + (HDR + z) - 1 = (a + HDR + z) - 1
      BY SizeFacts
    <3>2. blocks[i].size \in Nat
      BY <1>0, <1>1, BlockFacts
    <3>3. x \in blocks[i].addr .. blocks[i].addr + (HDR + blocks[i].size) - 1
      BY ZenonT(30) DEF BlockSpan, Span
    <3> QED BY ZenonT(30), <2>3, <3>1, <3>2, <3>3 DEF Fin
  <2>6. x \in 0 * PGSIZE .. (0 + q) * PGSIZE - 1
    <3>1. 0 * PGSIZE = 0 /\ 0 + q = q
      BY <1>3, SizeFacts
    <3>2. x \in 0 .. q * PGSIZE - 1
      BY <1>3, <2>2, <2>3, <2>4, <2>5
    <3> QED BY ZenonT(30), <3>1, <3>2
  <2>7. x \div PGSIZE \in 0 .. 0 + q - 1
    BY ZenonT(30), <1>3, <2>6, PageOf
  <2>8. 0 .. q - 1 \subseteq mapped
    BY ZenonT(30), <1>2, <1>4 DEF PagesInv
  <2>9. 0 + q - 1 = q - 1
    BY <1>3
  <2> QED BY ZenonT(30), <2>7, <2>8, <2>9
<1> QED BY ZenonT(30), <1>0, <1>4 DEF HeapMapped

\* heap_extend's loop runs its rounds one after the other.
LEMMA ExtendRuns ==
  ASSUME NEW n \in Nat, heap_next \div PGSIZE \in Int, Start \in Progress
  PROVE  \E G : /\ Extend(n) = G[n] /\ G[0] = Start
                /\ \A k \in 0 .. n - 1 : G[k + 1] = Round(G[k], k + 1)
<1> DEFINE step == [i \in 1 .. n |-> [s \in Progress |-> Round(s, i)]]
           Eq(g) == g = [i \in 0 .. n |-> IF i = 0 THEN Start ELSE Round(g[i - 1], i)]
           G == CHOOSE g : Eq(g)
<1>1. \A i \in 1 .. n : \A s \in Progress : Round(s, i) \in Progress
  BY ZenonT(30), RoundFacts DEF Round, Rounded
<1>2. step \in [1 .. n -> [Progress -> Progress]]
  BY ZenonT(30), <1>1
<1>3. \A i \in 1 .. n : \A s \in Progress : step[i][s] = Round(s, i)
  BY ZenonT(30)
<1>4. Extend(n) = G[n]
  BY DEF Extend, Round, Start
<1> HIDE DEF step
<1>5. PICK g : Iterates(g, n, Progress, Start, step)
  BY <1>2, IterateExists
<1>6. Eq(g)
  <2>1. g \in [0 .. n -> Progress] /\ g[0] = Start /\ \A i \in 1 .. n : g[i] = step[i][g[i - 1]]
    BY <1>5 DEF Iterates
  <2>2. ASSUME NEW i \in 0 .. n PROVE g[i] = IF i = 0 THEN Start ELSE Round(g[i - 1], i)
    <3>1. i = 0 \/ (i \in 1 .. n /\ i - 1 \in 0 .. n)
      OBVIOUS
    <3> QED BY <1>3, <2>1, <3>1
  <2> QED BY ZenonT(30), <2>1, <2>2
<1>7. Eq(G)
  <2> HIDE DEF Eq
  <2> QED BY ZenonT(30), <1>6
<1> HIDE DEF G
<1>8. \A i \in 0 .. n : G[i] = IF i = 0 THEN Start ELSE Round(G[i - 1], i)
  BY ZenonT(30), <1>7
<1>9. G[0] = Start
  BY <1>8
<1>10. ASSUME NEW k \in 0 .. n - 1 PROVE G[k + 1] = Round(G[k], k + 1)
  <2>1. k + 1 \in 0 .. n /\ k + 1 # 0 /\ (k + 1) - 1 = k
    OBVIOUS
  <2> QED BY <1>8, <2>1
<1> QED BY <1>4, <1>9, <1>10

\* What heap_extend leaves behind.
LEMMA ExtendGrows ==
  ASSUME NEW q \in 0 .. KHEAP_PAGES, PagesInv(q), heap_next \div PGSIZE = q, NEW n \in Nat
  PROVE  Grown(q, Extend(n))
<1>0. q \in Int /\ q \in Nat /\ KHEAP_PAGES \in Nat
  BY SizeFacts
<1>1. /\ mapped \subseteq 0 .. q - 1 /\ tables \subseteq TablesOf(0 .. q - 1)
      /\ frames \in 0 .. FRAMES /\ levels \in 0 .. UPPER
      /\ frames # 0 => 0 .. q - 1 \subseteq mapped
  BY ZenonT(30) DEF PagesInv
<1>2. Start \in Progress
  <2>1. 0 .. q - 1 \subseteq Int
    OBVIOUS
  <2>2. mapped \in SUBSET Int
    BY ZenonT(30), <1>1, <2>1
  <2>3. tables \in SUBSET TablesOf(Int)
    BY ZenonT(30), <1>1, <2>1 DEF TablesOf
  <2>4. 0 \in Nat
    OBVIOUS
  <2> QED BY ZenonT(30), <1>1, <2>2, <2>3, <2>4 DEF Start, Progress
<1>3. PICK G : /\ Extend(n) = G[n] /\ G[0] = Start
               /\ \A k \in 0 .. n - 1 : G[k + 1] = Round(G[k], k + 1)
  BY <1>0, <1>2, ExtendRuns
<1> DEFINE S == {k \in 0 .. n : Grown(q, G[k])}
<1>4. 0 \in S
  <2>1. Start.done = 0 /\ Start.mapped = mapped /\ Start.tables = tables /\ Start.frames = frames
    BY DEF Start
  <2>2. q + 0 <= KHEAP_PAGES /\ q + 0 - 1 = q - 1
    BY <1>0
  <2>3. Grown(q, Start)
    BY ZenonT(30), <1>1, <1>2, <2>1, <2>2 DEF Grown
  <2>4. 0 \in 0 .. n
    OBVIOUS
  <2> QED BY ZenonT(30), <1>3, <2>3, <2>4
<1>5. ASSUME NEW k \in 0 .. n - 1, k \in S PROVE k + 1 \in S
  <2>1. k + 1 \in Nat /\ k + 1 \in 0 .. n
    OBVIOUS
  <2>2. Grown(q, G[k])
    BY <1>5
  <2>3. Grown(q, Round(G[k], k + 1))
    BY <2>1, <2>2, RoundGrows
  <2> QED BY <1>3, <2>1, <2>3
<1>6. 0 .. n \subseteq S
  <2> HIDE DEF S
  <2> QED BY <1>4, <1>5, UpToInduction
<1>7. n \in S
  BY <1>6
<1> QED BY <1>3, <1>7

\* kmalloc makes the heap larger, or finds that it cannot.
LEMMA GrowStep ==
  ASSUME HeapInv, NEW size \in Sizes, GrowHeap(roundup(size, ALIGN), size)
  PROVE  HeapInv'
<1>1. PICK n \in Nat : n = roundup(size, ALIGN)
  BY RequestFacts
<1>2. size \in Nat /\ size <= n
  BY <1>1, RequestFacts
<1>3. PICK q \in 0 .. KHEAP_PAGES : PagesInv(q)
  BY DEF HeapInv
<1>4. /\ q \in Nat /\ heap_next = q * PGSIZE /\ heap_next \in Nat /\ heap_next \div PGSIZE = q
      /\ mapped \subseteq 0 .. q - 1
  <2>1. q \in Nat /\ heap_next = q * PGSIZE /\ mapped \subseteq 0 .. q - 1
    BY <1>3, SizeFacts DEF PagesInv
  <2> QED BY <2>1, PageBoundary
<1>5. PICK pages : pages = (n + HDR + PGSIZE - 1) \div PGSIZE
  OBVIOUS
<1>6. pages \in Nat /\ n + HDR <= pages * PGSIZE /\ pages * PGSIZE - HDR \in Nat
  <2>1. n + HDR \in Nat /\ PGSIZE \in Nat \ {0}
    BY SizeFacts
  <2>1a. PICK m \in Nat : m = n + HDR
    BY <2>1
  <2>1b. pages = (m + PGSIZE - 1) \div PGSIZE
    BY ZenonT(30), <1>5, <2>1a
  <2>2. pages \in Nat /\ n + HDR <= pages * PGSIZE
    BY ZenonT(30), <2>1, <2>1a, <2>1b, RoundedUp
  <2>3. pages * PGSIZE \in Nat
    BY <2>1, <2>2
  <2> QED BY <2>2, <2>3, SizeFacts
<1>7. PICK e : e = Extend(pages)
  OBVIOUS
<1>8. Grown(q, e)
  BY <1>3, <1>4, <1>6, <1>7, ExtendGrows
<1>9. e.done \in Nat /\ e.frames \in 0 .. FRAMES /\ e.levels \in 0 .. UPPER
  BY ZenonT(30), <1>8, ProgressFacts DEF Grown
<1>10. PICK nb : nb = [addr |-> heap_next, size |-> pages * PGSIZE - HDR, free |-> FALSE]
  BY ZenonT(30)
<1>11. nb.addr = heap_next /\ nb.size = pages * PGSIZE - HDR
  BY <1>10
<1>12. /\ heap_next' = heap_next + e.done * PGSIZE
       /\ frames' = e.frames /\ levels' = e.levels /\ tables' = e.tables /\ mapped' = e.mapped
       /\ halted' = (e.done = pages /\ ~Writable(split_block(nb, n), e.mapped))
       /\ IF e.done = pages /\ ~halted'
          THEN /\ blocks' = split_block(nb, n) \o blocks
               /\ live' = live \cup {[ptr |-> nb.addr + HDR, size |-> size]}
               /\ extents' = extents \cup {[addr |-> nb.addr, size |-> nb.size]}
          ELSE UNCHANGED <<blocks, live, extents>>
  BY ZenonT(30), <1>1, <1>5, <1>7, <1>10 DEF GrowHeap
<1>13. heap_next' = (q + e.done) * PGSIZE /\ heap_next' \in Nat /\ heap_next <= heap_next'
  <2>1. (q + e.done) * PGSIZE = q * PGSIZE + e.done * PGSIZE /\ e.done * PGSIZE \in Nat
    BY <1>4, <1>9, SizeFacts
  <2> QED BY <1>4, <1>12, <2>1
<1>14. \E p \in 0 .. KHEAP_PAGES : PagesInv(p)'
  <2>1. q + e.done \in 0 .. KHEAP_PAGES
    BY <1>4, <1>8, <1>9, SizeFacts DEF Grown
  <2>2. /\ mapped' \subseteq 0 .. (q + e.done) - 1
        /\ frames' # 0 => 0 .. (q + e.done) - 1 \subseteq mapped'
        /\ tables' \subseteq TablesOf(0 .. (q + e.done) - 1)
    <3>1. /\ e.mapped \subseteq 0 .. q + e.done - 1
          /\ e.frames # 0 => 0 .. q + e.done - 1 \subseteq e.mapped
          /\ e.tables \subseteq TablesOf(0 .. q + e.done - 1)
      BY ZenonT(30), <1>8 DEF Grown
    <3>2. frames' = e.frames /\ tables' = e.tables /\ mapped' = e.mapped
      BY ZenonT(30), <1>12
    <3>3. q + e.done - 1 = (q + e.done) - 1
      BY <1>4, <1>9
    <3> QED BY ZenonT(30), <3>1, <3>2, <3>3
  <2>3. halted' \in BOOLEAN
    BY ZenonT(30), <1>12
  <2>4. PagesInv(q + e.done)'
    BY ZenonT(30), <1>9, <1>12, <1>13, <2>2, <2>3 DEF PagesInv, TablesOf
  <2> QED BY <2>1, <2>4
<1>15. ASSUME NEW x \in extents PROVE Fin(x) <= heap_next /\ Fin(x) <= heap_next'
  <2>1. Fin(x) <= heap_next
    BY DEF HeapInv, ExtentsInv
  <2>2. Fin(x) \in Nat
    BY InvChain, ExtentFacts
  <2> QED BY <1>4, <1>13, <2>1, <2>2
<1>15a. Writable(blocks, mapped')
  <2>1. mapped \subseteq mapped'
    BY ZenonT(30), <1>8, <1>12 DEF Grown
  <2> QED BY ZenonT(30), <2>1, WritableMore DEF HeapInv
<1>16. CASE e.done = pages /\ ~halted'
  <2>1. /\ blocks' = split_block(nb, n) \o blocks
        /\ live' = live \cup {[ptr |-> nb.addr + HDR, size |-> size]}
        /\ extents' = extents \cup {[addr |-> nb.addr, size |-> nb.size]}
    BY <1>12, <1>16
  <2>2. PICK s \in Nat : s = pages * PGSIZE - HDR
    BY <1>6
  <2>3. n <= s
    <3>1. pages * PGSIZE \in Nat
      BY <1>6, SizeFacts
    <3> QED BY <1>6, <2>2, <3>1, SizeFacts
  <2>4. PICK b \in Block : b = [addr |-> heap_next, size |-> s, free |-> TRUE]
    BY ZenonT(30), <1>4 DEF Block
  <2>5. b.addr = heap_next /\ b.size = s /\ b.free
    BY <2>4
  <2>6. PICK ds : ds = <<[addr |-> heap_next, size |-> s, free |-> TRUE]>> \o blocks
    BY ZenonT(30)
  <2>7. blocks \in Seq(Block)
    BY DEF HeapInv
  <2>8. nb = [addr |-> heap_next, size |-> s, free |-> FALSE]
    BY <1>10, <2>2
  <2>9. Pushed(b, blocks, ds) /\ blocks' \in Seq(Block) /\ Taken(ds, 1, n, blocks')
    <3>1. blocks' = split_block([addr |-> heap_next, size |-> s, free |-> FALSE], n) \o blocks
      BY <2>1, <2>8
    <3>2. NewTaken(blocks, heap_next, s, n, ds, blocks')
      BY ZenonT(30), <1>4, <2>3, <2>6, <2>7, <3>1, GrowShape
    <3> QED BY <2>4, <3>2 DEF NewTaken
  <2>10. extents' = extents \cup {[addr |-> b.addr, size |-> b.size]}
    BY <1>11, <2>1, <2>2, <2>5
  <2>11. \A x \in extents : Fin(x) <= b.addr
    BY <1>15, <2>5
  <2>12. Extents(extents') /\ Chain(ds, extents', live)
    <3>1. Extents(extents) /\ Chain(blocks, extents, live)
      BY InvChain
    <3>2. /\ Extents(extents \cup {[addr |-> b.addr, size |-> b.size]})
          /\ Chain(ds, extents \cup {[addr |-> b.addr, size |-> b.size]}, live)
      BY ZenonT(30), <2>5, <2>9, <2>11, <3>1, GrownChain
    <3> QED BY <2>10, <3>2
  <2>13. Chain(blocks', extents', live')
    <3>1. 1 \in 1 .. Len(ds) /\ ds[1].free
      BY <2>5, <2>7, <2>9, BlockFacts DEF Pushed
    <3>2. live' = live \cup {[ptr |-> ds[1].addr + HDR, size |-> size]}
      BY ZenonT(30), <1>11, <2>1, <2>5, <2>9 DEF Pushed
    <3> QED BY <1>2, <2>9, <2>12, <3>1, <3>2, TakenChain
  <2>14. PICK x : x = [addr |-> b.addr, size |-> b.size]
    BY ZenonT(30)
  <2>15. x.addr = heap_next /\ Fin(x) = heap_next'
    <3>1. x.addr = heap_next /\ x.size = s
      BY <2>5, <2>14
    <3>2. heap_next' = heap_next + pages * PGSIZE
      BY ZenonT(30), <1>12, <1>16
    <3>3. pages * PGSIZE \in Nat
      BY <1>6, SizeFacts
    <3> QED BY <1>4, <2>2, <3>1, <3>2, <3>3, SizeFacts DEF Fin
  <2>16. Writable(blocks', mapped')
    <3>1. PICK m : m = split_block(nb, n)
      BY ZenonT(30)
    <3>2. Writable(m, mapped')
      BY ZenonT(30), <1>12, <1>16, <3>1
    <3>3. m \in Seq(Block)
      <4>1. nb \in Block
        BY ZenonT(30), <1>4, <2>8 DEF Block
      <4>2. n <= nb.size
        BY ZenonT(30), <1>11, <2>2, <2>3
      <4> QED BY ZenonT(30), <3>1, <4>1, <4>2, SplitTypes
    <3>4. Row(blocks', m, blocks)
      BY ZenonT(30), <2>1, <2>7, <3>1, <3>3, RowOfTwo
    <3> QED BY ZenonT(30), <1>15a, <2>7, <2>9, <3>2, <3>3, <3>4, WritableRow
  <2>17. \A f \in extents' : Fin(f) <= heap_next'
    <3>1. \A f \in extents' : f \in extents \/ f = x
      BY <2>10, <2>14
    <3>2. Fin(x) <= heap_next'
      BY <1>13, <2>15
    <3> QED BY ZenonT(30), <1>15, <3>1, <3>2
  <2>18. ExtentsInv'
    BY <2>12, <2>17 DEF ExtentsInv, Extents, Fin, Apart
  <2> QED BY ZenonT(30), <1>14, <2>13, <2>16, <2>18 DEF HeapInv, Chain
<1>17. CASE ~(e.done = pages /\ ~halted')
  <2>1. UNCHANGED <<blocks, live, extents>>
    BY <1>12, <1>17
  <2>2. ExtentsInv'
    <3>1. /\ extents \subseteq [addr : Nat, size : Nat]
          /\ \A x, f \in extents : x # f => Apart(x, f)
      BY DEF HeapInv, ExtentsInv
    <3> QED BY <1>15, <2>1, <3>1 DEF ExtentsInv, Fin, Apart
  <2>3. Chain(blocks', extents', live')
    BY <2>1, InvChain
  <2>4. Writable(blocks', mapped')
    BY ZenonT(30), <1>15a, <2>1
  <2> QED BY ZenonT(30), <1>14, <2>2, <2>3, <2>4 DEF HeapInv, Chain
<1> QED BY <1>16, <1>17

\* kfree's loop runs its rounds one after the other.
LEMMA MergeRuns ==
  ASSUME NEW bs \in Seq(Block)
  PROVE  \E G : /\ MergePass(bs) = G[Len(bs)] /\ G[0] = <<>>
                /\ \A k \in 0 .. Len(bs) - 1 : G[k + 1] = Merge(G[k], bs[k + 1])
<1>0. PICK n \in Nat : n = Len(bs)
  BY BlockFacts
<1> DEFINE X == Seq(Block)
           step == [i \in 1 .. n |-> [d \in X |-> Merge(d, bs[i])]]
           Eq(g) == g = [i \in 0 .. n |-> IF i = 0 THEN <<>> ELSE Merge(g[i - 1], bs[i])]
           G == CHOOSE g : Eq(g)
<1>1. \A i \in 1 .. n : \A d \in X : Merge(d, bs[i]) \in X
  BY <1>0, MergeTypes, BlockFacts
<1>2. step \in [1 .. n -> [X -> X]]
  <2> HIDE DEF X
  <2> QED BY ZenonT(30), <1>1
<1>3. \A i \in 1 .. n : \A d \in X : step[i][d] = Merge(d, bs[i])
  BY ZenonT(30)
<1>4. MergePass(bs) = G[n]
  BY <1>0 DEF MergePass
<1>5. <<>> \in X
  OBVIOUS
<1> HIDE DEF step, X
<1>6. PICK g : Iterates(g, n, X, <<>>, step)
  BY <1>2, <1>5, IterateExists
<1>7. Eq(g)
  <2>1. g \in [0 .. n -> X] /\ g[0] = <<>> /\ \A i \in 1 .. n : g[i] = step[i][g[i - 1]]
    BY <1>6 DEF Iterates
  <2>2. ASSUME NEW i \in 0 .. n PROVE g[i] = IF i = 0 THEN <<>> ELSE Merge(g[i - 1], bs[i])
    <3>1. i = 0 \/ (i \in 1 .. n /\ i - 1 \in 0 .. n)
      OBVIOUS
    <3> QED BY <1>3, <2>1, <3>1
  <2> QED BY ZenonT(30), <2>1, <2>2
<1>8. Eq(G)
  <2> HIDE DEF Eq
  <2> QED BY ZenonT(30), <1>7
<1> HIDE DEF G
<1>9. \A i \in 0 .. n : G[i] = IF i = 0 THEN <<>> ELSE Merge(G[i - 1], bs[i])
  BY ZenonT(30), <1>8
<1>10. G[0] = <<>>
  BY <1>9
<1>11. ASSUME NEW k \in 0 .. n - 1 PROVE G[k + 1] = Merge(G[k], bs[k + 1])
  <2>1. k + 1 \in 0 .. n /\ k + 1 # 0 /\ (k + 1) - 1 = k
    OBVIOUS
  <2> QED BY <1>9, <2>1
<1> QED BY <1>0, <1>4, <1>10, <1>11

\* kfree's loop merges what it can and breaks nothing.
LEMMA MergeAll ==
  ASSUME NEW xs, Extents(xs), NEW L, NEW bs \in Seq(Block), Covers(bs, xs), Owned(bs, L)
  PROVE  Chain(MergePass(bs), xs, L) /\ Heads(MergePass(bs), bs)
<1>0. PICK n \in Nat : n = Len(bs)
  BY BlockFacts
<1>1. PICK G : /\ MergePass(bs) = G[n] /\ G[0] = <<>>
               /\ \A k \in 0 .. n - 1 : G[k + 1] = Merge(G[k], bs[k + 1])
  BY <1>0, MergeRuns
<1> DEFINE S == {k \in 0 .. n : G[k] \in Seq(Block) /\ Merging(G[k], bs, k, xs, L) /\ Heads(G[k], bs)}
<1>2. 0 \in S
  <2>1. <<>> \in Seq(Block) /\ Len(<<>>) = 0
    OBVIOUS
  <2>2. Rejoined(bs, <<>>, bs, 0)
    <3>1. Len(bs) = 0 + (Len(bs) - 0) /\ \A j \in 1 .. Len(bs) - 0 : 0 + j = j
      BY <1>0
    <3>2. \A j \in 1 .. Len(bs) - 0 : bs[0 + j] = bs[0 + j]
      OBVIOUS
    <3>3. \A j \in 1 .. 0 : bs[j] = <<>>[j]
      OBVIOUS
    <3> QED BY <2>1, <3>1, <3>2, <3>3 DEF Rejoined
  <2>3. Merged(<<>>)
    BY <2>1 DEF Merged
  <2>4. Merging(<<>>, bs, 0, xs, L)
    BY <2>2, <2>3 DEF Merging
  <2>5. 0 \in 0 .. n
    OBVIOUS
  <2>6. Heads(<<>>, bs)
    BY DEF Heads
  <2> QED BY ZenonT(30), <1>1, <2>1, <2>4, <2>5, <2>6
<1>3. ASSUME NEW k \in 0 .. n - 1, k \in S PROVE k + 1 \in S
  <2>1. k + 1 \in 0 .. n /\ k + 1 \in 1 .. n
    OBVIOUS
  <2>2. PICK d \in Seq(Block) : d = G[k] /\ Merging(d, bs, k, xs, L) /\ Heads(d, bs)
    BY ZenonT(30), <1>3
  <2>3. Merging(Merge(d, bs[k + 1]), bs, k + 1, xs, L)
    BY <1>0, <2>2, MergeRound
  <2>4. Merge(d, bs[k + 1]) \in Seq(Block)
    <3>1. bs[k + 1] \in Block
      BY <1>0, <2>1, BlockFacts
    <3> QED BY <3>1, MergeTypes
  <2>5. G[k + 1] = Merge(d, bs[k + 1])
    BY <1>1, <2>2
  <2>6. Heads(Merge(d, bs[k + 1]), bs)
    <3>1. k + 1 \in DOMAIN bs /\ bs[k + 1] \in Block
      BY <1>0, <2>1, BlockFacts
    <3>2. PICK c \in Block : c = bs[k + 1]
      BY ZenonT(30), <3>1
    <3>3. ASSUME NEW i \in DOMAIN Merge(d, c)
          PROVE  \E j \in DOMAIN bs : Merge(d, c)[i].addr = bs[j].addr
      <4>1. Merge(d, c)[i].addr = c.addr \/ \E j \in DOMAIN d : Merge(d, c)[i].addr = d[j].addr
        BY ZenonT(30), MergeHeads
      <4> QED BY ZenonT(30), <2>2, <3>1, <3>2, <4>1 DEF Heads
    <3> QED BY ZenonT(30), <3>2, <3>3 DEF Heads
  <2> QED BY ZenonT(30), <2>1, <2>3, <2>4, <2>5, <2>6
<1>4. 0 .. n \subseteq S
  <2> HIDE DEF S
  <2> QED BY <1>2, <1>3, UpToInduction
<1>5. n \in S
  BY <1>4
<1>6. PICK d \in Seq(Block) : d = MergePass(bs) /\ Merging(d, bs, n, xs, L) /\ Heads(d, bs)
  BY ZenonT(30), <1>1, <1>5
<1>7. PICK ts : Rejoined(ts, d, bs, n) /\ Covers(ts, xs) /\ Owned(ts, L)
  BY <1>6 DEF Merging
<1>8. ts = d
  <2>1. Len(ts) = Len(d) + (n - n) /\ ts \in Seq(Block) /\ \A j \in 1 .. Len(d) : ts[j] = d[j]
    BY <1>0, <1>7 DEF Rejoined
  <2>2. Len(d) \in Nat /\ Len(ts) = Len(d)
    BY <1>0, <2>1, BlockFacts
  <2>3. ts \in [1 .. Len(d) -> Block] /\ d \in [1 .. Len(d) -> Block]
    BY <2>1, <2>2, BlockFacts
  <2> QED BY <2>1, <2>3
<1>9. Merged(d)
  BY <1>6 DEF Merging
<1> QED BY <1>6, <1>7, <1>8, <1>9 DEF Chain

LEMMA FreeStep ==
  ASSUME HeapInv, NEW a \in live, kfree(a) PROVE HeapInv'
<1>1. PICK n \in Nat : n = Len(blocks) /\ DOMAIN blocks = 1 .. n
  BY BlockFacts DEF HeapInv
<1> DEFINE mark(j) == IF blocks[j].addr = a.ptr - HDR THEN [blocks[j] EXCEPT !.free = TRUE] ELSE blocks[j]
           ms == [j \in 1 .. n |-> mark(j)]
<1>2. ASSUME NEW j \in 1 .. n
      PROVE  /\ mark(j) \in Block /\ mark(j).addr = blocks[j].addr /\ mark(j).size = blocks[j].size
             /\ blocks[j].addr = a.ptr - HDR => mark(j).free
             /\ blocks[j].addr # a.ptr - HDR => mark(j) = blocks[j]
  <2>1. PICK b \in Block : b = blocks[j]
    BY <1>1, BlockFacts DEF HeapInv
  <2>2. /\ [b EXCEPT !.free = TRUE] \in Block /\ [b EXCEPT !.free = TRUE].addr = b.addr
        /\ [b EXCEPT !.free = TRUE].size = b.size /\ [b EXCEPT !.free = TRUE].free
    BY ZenonT(30) DEF Block
  <2> QED BY <2>1, <2>2
<1>3. ms \in Seq(Block) /\ Len(ms) = n /\ \A j \in 1 .. n : ms[j] = mark(j)
  <2>1. \A j \in 1 .. n : mark(j) \in Block
    BY <1>2
  <2> HIDE DEF mark
  <2>2. ms \in [1 .. n -> Block] /\ \A j \in 1 .. n : ms[j] = mark(j)
    BY <2>1
  <2> HIDE DEF ms
  <2> QED BY <2>2
<1>4. blocks' = MergePass(ms) /\ live' = live \ {a}
  BY <1>1 DEF kfree
<1>5. UNCHANGED <<heap_next, frames, levels, tables, mapped, extents, halted>>
  BY DEF kfree
<1> HIDE DEF ms, mark
<1>6. Extents(extents) /\ blocks \in Seq(Block) /\ Covers(blocks, extents) /\ Owned(blocks, live)
  BY InvChain DEF Chain
<1>7. Covers(ms, extents)
  BY <1>1, <1>2, <1>3, <1>6, WholeCovers
<1>8. Owned(ms, live \ {a})
  <2>1. \A j \in 1 .. Len(blocks) : /\ blocks[j].addr = a.ptr - HDR => ms[j].free
                                    /\ blocks[j].addr # a.ptr - HDR => ms[j] = blocks[j]
    BY <1>1, <1>2, <1>3
  <2> QED BY <1>1, <1>3, <1>6, <2>1, MarkOwned
<1>9. Chain(blocks', extents', live') /\ Heads(blocks', ms)
  BY ZenonT(30), <1>3, <1>4, <1>5, <1>6, <1>7, <1>8, MergeAll
<1>10. (\E q \in 0 .. KHEAP_PAGES : PagesInv(q))' /\ ExtentsInv'
  BY <1>5 DEF HeapInv, PagesInv, ExtentsInv
<1>11. Writable(blocks', mapped')
  <2>1. Heads(ms, blocks)
    <3>1. DOMAIN ms = 1 .. n
      BY <1>3, BlockFacts
    <3> QED BY ZenonT(30), <1>1, <1>2, <1>3, <3>1 DEF Heads
  <2>2. Writable(ms, mapped)
    BY ZenonT(30), <2>1, WritableHeads DEF HeapInv
  <2> QED BY ZenonT(30), <1>5, <1>9, <2>2, WritableHeads
<1> QED BY ZenonT(30), <1>9, <1>10, <1>11 DEF HeapInv, Chain

LEMMA InvInit == Init => HeapInv
<1> SUFFICES ASSUME Init PROVE HeapInv
  OBVIOUS
<1>1. PagesInv(0) /\ 0 \in 0 .. KHEAP_PAGES
  <2>1. /\ 0 = 0 * PGSIZE /\ FRAMES \in 0 .. FRAMES /\ 0 \in 0 .. UPPER /\ 0 \in 0 .. KHEAP_PAGES
        /\ 0 .. 0 - 1 = {}
    BY SizeFacts
  <2>2. FALSE \in BOOLEAN
    OBVIOUS
  <2> QED BY ZenonT(30), <2>1, <2>2 DEF Init, PagesInv
<1>2. ExtentsInv
  BY DEF Init, ExtentsInv
<1>3. blocks \in Seq(Block) /\ Len(blocks) = 0
  BY DEF Init
<1>4. Covers(blocks, extents) /\ Merged(blocks) /\ Owned(blocks, live)
  BY <1>3 DEF Init, Covers, Merged, Owned
<1>5. Writable(blocks, mapped)
  BY <1>3 DEF Writable
<1> QED BY ZenonT(30), <1>1, <1>2, <1>3, <1>4, <1>5 DEF HeapInv

LEMMA InvNext == HeapInv /\ [Next]_heapVars => HeapInv'
<1> SUFFICES ASSUME HeapInv, [Next]_heapVars PROVE HeapInv'
  OBVIOUS
<1>1. ASSUME NEW size \in Sizes, kmalloc(size) PROVE HeapInv'
  <2> DEFINE n == roundup(size, ALIGN)
             Fits == {i \in DOMAIN blocks : blocks[i].free /\ blocks[i].size >= n}
  <2>1. CASE Fits # {} /\ TakeBlock(Min(Fits), n, size)
    <3>1. Fits \subseteq Nat
      BY BlockFacts DEF HeapInv
    <3>2. Min(Fits) \in Fits
      <4> HIDE DEF Fits
      <4> QED BY <2>1, <3>1, MinIsLeast
    <3>3. PICK i \in DOMAIN blocks : i = Min(Fits) /\ blocks[i].free /\ blocks[i].size >= n
      BY <3>2
    <3>4. TakeBlock(i, n, size)
      BY <2>1, <3>3
    <3> QED BY <3>3, <3>4, TakeStep
  <2>2. CASE Fits = {} /\ GrowHeap(n, size)
    BY <2>2, GrowStep
  <2> QED BY <1>1, <2>1, <2>2 DEF kmalloc
<1>2. ASSUME NEW a \in live, kfree(a) PROVE HeapInv'
  BY <1>2, FreeStep
<1>3. CASE OtherAlloc
  <2>1. PICK q \in 0 .. KHEAP_PAGES : PagesInv(q)
    BY DEF HeapInv
  <2>2. PagesInv(q)'
    BY <1>3, <2>1, SizeFacts DEF OtherAlloc, PagesInv
  <2>3. ExtentsInv' /\ Chain(blocks', extents', live')
    BY <1>3, InvChain DEF OtherAlloc, HeapInv, ExtentsInv
  <2>4. Writable(blocks', mapped')
    BY ZenonT(30), <1>3 DEF OtherAlloc, HeapInv
  <2> QED BY ZenonT(30), <2>2, <2>3, <2>4 DEF HeapInv, Chain
<1>4. CASE UNCHANGED heapVars
  BY ZenonT(30), <1>4 DEF heapVars, HeapInv, PagesInv, ExtentsInv, Covers, Merged, Owned, Writable
<1> QED BY <1>1, <1>2, <1>3, <1>4 DEF Next

\* Along every run of kmalloc and kfree the chain covers what heap_extend created, no two free
\* blocks touch, and the used blocks are the callers' allocations; wherever vmm_map runs out of
\* frames for a table, the chain has only headers on mapped pages.
THEOREM HeapInvariance == Spec => []HeapInv
BY InvInit, InvNext, PTL DEF Spec

\* The variables of kheap.c keep their types, and the heap stays below KHEAP_BASE + KHEAP_SIZE.
THEOREM HeapTypeCorrect == Spec => []TypeOK
BY HeapInvariance, InvTypes, PTL

\* Blocks never overlap; every allocation has a used block of its own that is large enough, and no
\* used block is lost.  Mapped memory is what HeapMappedCorrect is about.
THEOREM HeapSoundCorrect == Spec => []HeapSound
BY HeapInvariance, InvSound, PTL

\* Whatever table vmm_map cannot get, every header of the chain is on mapped pages; and no block has
\* a page that is not mapped as long as page_alloc has a frame.
THEOREM HeapMappedCorrect == Spec => []HeapMapped
BY HeapInvariance, InvMapped, PTL

\* kfree's coalescing loop misses nothing: no two free blocks touch.
THEOREM FreeMergedCorrect == Spec => []FreeMerged
BY HeapInvariance, InvMerged, PTL

\* When every allocation has been freed the heap is what heap_extend made: no header and no
\* remainder of a split is left over.
THEOREM WholeAgainCorrect == Spec => []WholeAgain
BY HeapInvariance, InvWhole, PTL
=============================================================================
