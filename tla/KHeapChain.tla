----------------------------- MODULE KHeapChain ------------------------------
(***************************************************************************)
(* What the kernel heap's operations do to a chain of blocks, for every     *)
(* page, header and heap size.  The chain covers the extents (what          *)
(* heap_extend created) one after the other, without gaps: from each block  *)
(* the chain goes on where the block ends, or the block ends an extent and  *)
(* the next one begins one.  The lemmas here say that taking a block,       *)
(* splitting it, appending an extent and merging neighbours keep this;      *)
(* KHeapProofs draws the theorems from them.                                *)
(***************************************************************************)
EXTENDS KHeap, TLAPS

\* The time each prover has for a leaf that names none.
USE SMTT(30), ZenonT(30)

Block == [addr : Nat, size : Nat, free : BOOLEAN]

\* The first address behind a block (or an extent).
Fin(b) == b.addr + HDR + b.size

Apart(b, c) == Fin(b) <= c.addr \/ Fin(c) <= b.addr

Within(b, e) == e.addr <= b.addr /\ Fin(b) <= Fin(e)
Begins(b, xs) == \E e \in xs : b.addr = e.addr
Ends(b, xs) == \E e \in xs : Fin(b) = Fin(e)

\* How the chain goes on from b to c.
Follows(b, c, xs) == \/ Adjacent(b, c) /\ ~Begins(c, xs)
                     \/ ~Adjacent(b, c) /\ Ends(b, xs) /\ Begins(c, xs)

\* The chain bs covers the extents xs.
Covers(bs, xs) ==
  /\ \A i, j \in 1 .. Len(bs) : i # j => Apart(bs[i], bs[j])
  /\ \A i \in 1 .. Len(bs) : \E e \in xs : Within(bs[i], e)
  /\ Len(bs) # 0 => Begins(bs[1], xs) /\ Ends(bs[Len(bs)], xs)
  /\ \A i \in 1 .. Len(bs) - 1 : Follows(bs[i], bs[i + 1], xs)
  /\ \A e \in xs : \E i \in 1 .. Len(bs) : bs[i].addr = e.addr

\* No two free blocks touch along the chain bs.
Merged(bs) ==
  \A i \in 1 .. Len(bs) - 1 : ~(bs[i].free /\ bs[i + 1].free /\ Adjacent(bs[i], bs[i + 1]))

\* The used blocks of bs are the allocations of L.
Owned(bs, L) ==
  /\ \A a \in L : \E i \in 1 .. Len(bs) :
        ~bs[i].free /\ a.ptr = bs[i].addr + HDR /\ a.size <= bs[i].size
  /\ \A i \in 1 .. Len(bs) : ~bs[i].free => \E a \in L : a.ptr = bs[i].addr + HDR
  /\ \A a, b \in L : a.ptr = b.ptr => a = b

\* The last-level tables of some pages.
TablesOf(ps) == {p \div PTENTRIES : p \in ps}

\* The pages of the heap up to page q: all of them are mapped as long as there are frames.
PagesInv(q) == /\ heap_next = q * PGSIZE
               /\ mapped \subseteq 0 .. q - 1
               /\ frames # 0 => 0 .. q - 1 \subseteq mapped
               /\ tables \subseteq TablesOf(0 .. q - 1)
               /\ frames \in 0 .. FRAMES /\ levels \in 0 .. UPPER /\ halted \in BOOLEAN

\* What heap_extend created: pieces of the heap that do not overlap.
ExtentsInv == /\ extents \subseteq [addr : Nat, size : Nat]
              /\ \A e \in extents : Fin(e) <= heap_next
              /\ \A e, f \in extents : e # f => Apart(e, f)

HeapInv == /\ \E q \in 0 .. KHEAP_PAGES : PagesInv(q)
           /\ ExtentsInv
           /\ blocks \in Seq(Block)
           /\ Covers(blocks, extents)
           /\ Merged(blocks)
           /\ Owned(blocks, live)
           /\ Writable(blocks, mapped)

-----------------------------------------------------------------------------
(* What the invariant says *)

\* The blocks of a chain.
LEMMA BlockFacts ==
  ASSUME NEW bs \in Seq(Block)
  PROVE  /\ Len(bs) \in Nat /\ DOMAIN bs = 1 .. Len(bs)
         /\ \A i \in 1 .. Len(bs) : /\ bs[i] \in Block /\ bs[i].addr \in Nat /\ bs[i].size \in Nat
                                    /\ bs[i].free \in BOOLEAN /\ Fin(bs[i]) \in Nat
<1>1. \A b \in Block : b.addr \in Nat /\ b.size \in Nat /\ b.free \in BOOLEAN /\ Fin(b) \in Nat
  <2>1. \A a, z \in Nat : a + HDR + z \in Nat
    BY HeapAssumption
  <2>2. \A b \in Block : b.addr \in Nat /\ b.size \in Nat /\ b.free \in BOOLEAN
    BY DEF Block
  <2> QED BY ZenonT(30), <2>1, <2>2 DEF Fin
<1>2. Len(bs) \in Nat /\ DOMAIN bs = 1 .. Len(bs) /\ \A i \in 1 .. Len(bs) : bs[i] \in Block
  <2> HIDE DEF Block
  <2> QED OBVIOUS
<1> QED BY ZenonT(30), <1>1, <1>2

\* A part of a sequence, and a sequence with one more element.
LEMMA Cut ==
  ASSUME NEW S, NEW s, NEW m \in Int, NEW n \in Int, \A i \in m .. n : s[i] \in S
  PROVE  /\ SubSeq(s, m, n) \in Seq(S)
         /\ Len(SubSeq(s, m, n)) = IF m <= n THEN n - m + 1 ELSE 0
         /\ \A i \in 1 .. n - m + 1 : SubSeq(s, m, n)[i] = s[m + i - 1]
OBVIOUS

LEMMA Appended ==
  ASSUME NEW S, NEW s \in Seq(S), NEW x \in S
  PROVE  /\ Append(s, x) \in Seq(S) /\ Len(Append(s, x)) = Len(s) + 1
         /\ \A i \in 1 .. Len(s) : Append(s, x)[i] = s[i]
         /\ Append(s, x)[Len(s) + 1] = x
OBVIOUS

\* The sizes of the heap.
LEMMA SizeFacts ==
  /\ PGSIZE \in Nat /\ PGSIZE > 0 /\ HDR \in Nat /\ HDR > 0 /\ ALIGN \in Nat /\ ALIGN > 0
  /\ KHEAP_PAGES \in Nat /\ FRAMES \in Nat /\ UPPER \in Nat /\ HDR + ALIGN <= PGSIZE
BY HeapAssumption

\* A block ends behind where it begins: it has at least its header.
LEMMA FinAfter ==
  ASSUME NEW b, b.addr \in Nat, b.size \in Nat
  PROVE  b.addr < Fin(b)
<1>1. \A a, z \in Nat : a < a + HDR + z
  BY SizeFacts
<1> QED BY ZenonT(30), <1>1 DEF Fin

LEMMA InvTypes == HeapInv => TypeOK
<1> SUFFICES ASSUME HeapInv PROVE TypeOK
  OBVIOUS
<1>1. PICK q \in 0 .. KHEAP_PAGES : PagesInv(q)
  BY DEF HeapInv
<1>2. heap_next \in 0 .. KHEAP_PAGES * PGSIZE
  BY <1>1, SizeFacts DEF PagesInv
<1>3. mapped \subseteq 0 .. KHEAP_PAGES - 1
  BY <1>1, SizeFacts DEF PagesInv
<1>4. \A i \in DOMAIN blocks : {blocks[i].addr, blocks[i].size} \subseteq Nat /\ blocks[i].free \in BOOLEAN
  BY BlockFacts DEF HeapInv
<1>5. tables \subseteq {p \div PTENTRIES : p \in 0 .. KHEAP_PAGES - 1}
  <2>1. 0 .. q - 1 \subseteq 0 .. KHEAP_PAGES - 1
    BY SizeFacts
  <2> QED BY ZenonT(30), <1>1, <2>1 DEF PagesInv, TablesOf
<1> QED BY ZenonT(30), <1>1, <1>2, <1>3, <1>4, <1>5 DEF TypeOK, PagesInv

LEMMA InvMerged == HeapInv => FreeMerged
BY DEF HeapInv, Merged, FreeMerged

\* Blocks apart start at different addresses.
LEMMA ApartDiffer ==
  ASSUME NEW b, NEW c, b.addr \in Nat, b.size \in Nat, c.addr \in Nat, c.size \in Nat, Apart(b, c)
  PROVE  b.addr # c.addr
BY SizeFacts DEF Apart, Fin

\* The address, and the end, of a block are in one extent only.
LEMMA FrontShared ==
  ASSUME NEW b, NEW e, NEW g, b.addr \in Nat, b.size \in Nat, e.addr \in Nat, e.size \in Nat,
         g.addr \in Nat, g.size \in Nat, b.addr = e.addr, Within(b, g), Apart(g, e)
  PROVE  FALSE
BY SizeFacts DEF Apart, Within, Fin

LEMMA BackShared ==
  ASSUME NEW b, NEW f, NEW g, b.addr \in Nat, b.size \in Nat, f.addr \in Nat, f.size \in Nat,
         g.addr \in Nat, g.size \in Nat, Fin(b) = Fin(f), Within(b, g), Apart(g, f)
  PROVE  FALSE
BY SizeFacts DEF Apart, Within, Fin

\* With everything freed, each block begins an extent and ends one: the same.
LEMMA InvWhole == HeapInv => WholeAgain
<1> SUFFICES ASSUME HeapInv, live = {}
             PROVE  {[addr |-> blocks[i].addr, size |-> blocks[i].size] : i \in DOMAIN blocks} = extents
  BY DEF WholeAgain
<1> DEFINE rec(i) == [addr |-> blocks[i].addr, size |-> blocks[i].size]
<1>0. /\ blocks \in Seq(Block) /\ Covers(blocks, extents) /\ Owned(blocks, live)
      /\ Merged(blocks) /\ ExtentsInv
  BY DEF HeapInv
<1>1. PICK n \in Nat : n = Len(blocks) /\ DOMAIN blocks = 1 .. n
  BY <1>0, BlockFacts
<1>2. \A i \in 1 .. n : blocks[i].addr \in Nat /\ blocks[i].size \in Nat /\ blocks[i].free \in BOOLEAN
  BY <1>0, <1>1, BlockFacts
<1>3. \A i \in 1 .. n : blocks[i].free
  BY <1>0, <1>1 DEF Owned
<1>4. ASSUME NEW i \in 1 .. n PROVE Begins(blocks[i], extents) /\ Ends(blocks[i], extents)
  <2>1. Begins(blocks[i], extents)
    <3>1. CASE i = 1
      BY <1>0, <1>1, <3>1 DEF Covers
    <3>2. CASE i # 1
      <4>1. i - 1 \in 1 .. n - 1 /\ i - 1 \in 1 .. n /\ (i - 1) + 1 = i
        BY <1>1, <3>2
      <4>2. Follows(blocks[i - 1], blocks[i], extents)
        BY <1>0, <1>1, <4>1 DEF Covers
      <4>3. ~Adjacent(blocks[i - 1], blocks[i])
        BY <1>0, <1>1, <1>3, <4>1 DEF Merged
      <4> QED BY <4>2, <4>3 DEF Follows
    <3> QED BY <3>1, <3>2
  <2>2. Ends(blocks[i], extents)
    <3>1. CASE i = n
      BY <1>0, <1>1, <3>1 DEF Covers
    <3>2. CASE i # n
      <4>1. i \in 1 .. n - 1 /\ i + 1 \in 1 .. n
        BY <1>1, <3>2
      <4>2. Follows(blocks[i], blocks[i + 1], extents)
        BY <1>0, <1>1, <4>1 DEF Covers
      <4>3. ~Adjacent(blocks[i], blocks[i + 1])
        BY <1>0, <1>1, <1>3, <4>1 DEF Merged
      <4> QED BY <4>2, <4>3 DEF Follows
    <3> QED BY <3>1, <3>2
  <2> QED BY <2>1, <2>2
<1>5. \A e \in extents : e.addr \in Nat /\ e.size \in Nat /\ e = [addr |-> e.addr, size |-> e.size]
  BY <1>0 DEF ExtentsInv
<1>6. ASSUME NEW i \in 1 .. n, NEW e \in extents, blocks[i].addr = e.addr PROVE rec(i) = e
  <2>1. PICK f \in extents : Fin(blocks[i]) = Fin(f)
    BY <1>4 DEF Ends
  <2>2. ASSUME e # f PROVE FALSE
    <3>1. PICK g \in extents : Within(blocks[i], g)
      BY <1>0, <1>1 DEF Covers
    <3>2. (g # e => Apart(g, e)) /\ (g # f => Apart(g, f))
      BY <1>0 DEF ExtentsInv
    <3>3. g = e
      BY <1>2, <1>5, <1>6, <3>1, <3>2, FrontShared
    <3>4. g = f
      BY <1>2, <1>5, <2>1, <3>1, <3>2, BackShared
    <3> QED BY <2>2, <3>3, <3>4
  <2>3. blocks[i].size = e.size
    BY <1>2, <1>5, <1>6, <2>1, <2>2, SizeFacts DEF Fin
  <2> QED BY <1>5, <1>6, <2>3
<1>7. \A i \in 1 .. n : rec(i) \in extents
  BY <1>4, <1>6 DEF Begins
<1>8. \A e \in extents : \E i \in 1 .. n : e = rec(i)
  BY <1>0, <1>1, <1>6 DEF Covers
<1> HIDE DEF rec
<1>9. {rec(i) : i \in 1 .. n} = extents
  BY ZenonT(30), <1>7, <1>8
<1> QED BY <1>1, <1>9 DEF rec

-----------------------------------------------------------------------------
(* kmalloc takes a block *)

\* Extents, as ExtentsInv has them.
Extents(xs) == /\ xs \subseteq [addr : Nat, size : Nat]
               /\ \A e, f \in xs : e # f => Apart(e, f)

LEMMA ExtentFacts ==
  ASSUME NEW xs, Extents(xs), NEW e \in xs
  PROVE  e.addr \in Nat /\ e.size \in Nat /\ Fin(e) \in Nat
<1>1. e.addr \in Nat /\ e.size \in Nat
  BY DEF Extents
<1> QED BY <1>1, SizeFacts DEF Fin

\* The remainder of a block b after n units are cut off.
Rest(b, n) == [addr |-> b.addr + HDR + n, size |-> b.size - n - HDR, free |-> TRUE]

\* cs is bs with n units of its i-th block taken, the whole of it or split.
TakenWhole(bs, i, cs) ==
  /\ Len(cs) = Len(bs)
  /\ cs[i] = [bs[i] EXCEPT !.free = FALSE]
  /\ \A j \in 1 .. Len(bs) : j # i => cs[j] = bs[j]

TakenSplit(bs, i, n, cs) ==
  /\ n + HDR + ALIGN <= bs[i].size
  /\ Len(cs) = Len(bs) + 1
  /\ cs[i] = [addr |-> bs[i].addr, size |-> n, free |-> FALSE]
  /\ cs[i + 1] = Rest(bs[i], n)
  /\ \A j \in 1 .. i - 1 : cs[j] = bs[j]
  /\ \A j \in i + 1 .. Len(bs) : cs[j + 1] = bs[j]

\* How the chain goes on depends on where b ends and c begins only.
LEMMA FollowsSame ==
  ASSUME NEW xs, NEW b, NEW c, NEW d, NEW f,
         Fin(b) = Fin(d), c.addr = f.addr, Follows(b, c, xs)
  PROVE  Follows(d, f, xs)
BY DEF Follows, Adjacent, Begins, Ends, Fin

\* A block taken whole stays where it is.
LEMMA WholeCovers ==
  ASSUME NEW xs, NEW bs \in Seq(Block), NEW cs \in Seq(Block), Covers(bs, xs),
         Len(cs) = Len(bs),
         \A j \in 1 .. Len(bs) : cs[j].addr = bs[j].addr /\ cs[j].size = bs[j].size
  PROVE  Covers(cs, xs)
<1>1. Len(bs) \in Nat /\ \A j \in 1 .. Len(bs) : Fin(cs[j]) = Fin(bs[j])
  BY BlockFacts DEF Fin
<1>2. \A i, j \in 1 .. Len(cs) : i # j => Apart(cs[i], cs[j])
  BY ZenonT(30), <1>1 DEF Covers, Apart
<1>3. \A i \in 1 .. Len(cs) : \E e \in xs : Within(cs[i], e)
  BY ZenonT(30), <1>1 DEF Covers, Within
<1>4. ASSUME Len(cs) # 0 PROVE Begins(cs[1], xs) /\ Ends(cs[Len(cs)], xs)
  <2>1. 1 \in 1 .. Len(bs) /\ Len(bs) \in 1 .. Len(bs)
    BY <1>1, <1>4
  <2>2. Begins(bs[1], xs) /\ Ends(bs[Len(bs)], xs)
    BY ZenonT(30), <1>4 DEF Covers
  <2>3. cs[1].addr = bs[1].addr /\ Fin(cs[Len(cs)]) = Fin(bs[Len(bs)])
    BY ZenonT(30), <1>1, <2>1
  <2> QED BY ZenonT(30), <2>2, <2>3 DEF Begins, Ends
<1>5. ASSUME NEW i \in 1 .. Len(cs) - 1 PROVE Follows(cs[i], cs[i + 1], xs)
  <2>1. i \in 1 .. Len(bs) /\ i + 1 \in 1 .. Len(bs)
    BY <1>1
  <2>2. Follows(bs[i], bs[i + 1], xs)
    BY DEF Covers
  <2> QED BY <1>1, <2>1, <2>2, FollowsSame
<1>6. \A e \in xs : \E i \in 1 .. Len(cs) : cs[i].addr = e.addr
  BY DEF Covers
<1> QED BY ZenonT(30), <1>2, <1>3, <1>4, <1>5, <1>6 DEF Covers

\* What is inside two blocks apart is apart.
LEMMA ApartInside ==
  ASSUME NEW b, NEW c, NEW d, NEW f,
         {b.addr, c.addr, d.addr, f.addr, Fin(b), Fin(c), Fin(d), Fin(f)} \subseteq Nat,
         Apart(b, c), Within(d, b), Within(f, c)
  PROVE  Apart(d, f)
BY DEF Apart, Within

\* The remainder ends where the block did.
LEMMA RestEnds ==
  ASSUME NEW a \in Nat, NEW s \in Nat, NEW n \in Nat
  PROVE  (a + HDR + n) + HDR + (s - n - HDR) = a + HDR + s
BY SizeFacts

\* The two parts of a block that is split.
LEMMA SplitFacts ==
  ASSUME NEW bs \in Seq(Block), NEW i \in 1 .. Len(bs), NEW n \in Nat, NEW cs, TakenSplit(bs, i, n, cs)
  PROVE  /\ cs[i] \in Block /\ cs[i + 1] \in Block /\ ~cs[i].free /\ cs[i + 1].free
         /\ cs[i].addr = bs[i].addr /\ cs[i].size = n
         /\ Fin(cs[i]) = cs[i + 1].addr /\ Fin(cs[i + 1]) = Fin(bs[i])
         /\ bs[i].addr < cs[i + 1].addr /\ cs[i + 1].addr < Fin(bs[i])
<1>1. bs[i].addr \in Nat /\ bs[i].size \in Nat
  BY BlockFacts
<1>2. n + HDR + ALIGN <= bs[i].size /\ bs[i].size - n - HDR \in Nat
  <2>1. n + HDR + ALIGN <= bs[i].size
    BY ZenonT(30) DEF TakenSplit
  <2>2. \A s \in Nat : n + HDR + ALIGN <= s => s - n - HDR \in Nat
    BY SizeFacts
  <2> QED BY ZenonT(30), <1>1, <2>1, <2>2
<1>3. cs[i] = [addr |-> bs[i].addr, size |-> n, free |-> FALSE] /\ cs[i + 1] = Rest(bs[i], n)
  BY DEF TakenSplit
<1>4. /\ cs[i].addr = bs[i].addr /\ cs[i].size = n /\ ~cs[i].free
      /\ cs[i + 1].addr = bs[i].addr + HDR + n /\ cs[i + 1].size = bs[i].size - n - HDR
      /\ cs[i + 1].free
  BY <1>3 DEF Rest
<1>5. cs[i] \in Block /\ cs[i + 1] \in Block
  <2>1. bs[i].addr + HDR + n \in Nat
    <3>1. \A a, z \in Nat : a + HDR + z \in Nat
      BY SizeFacts
    <3> QED BY ZenonT(30), <1>1, <3>1
  <2>2. [addr |-> bs[i].addr, size |-> n, free |-> FALSE] \in Block
    BY ZenonT(30), <1>1 DEF Block
  <2>3. Rest(bs[i], n) \in Block
    BY ZenonT(30), <1>2, <2>1 DEF Block, Rest
  <2> QED BY <1>3, <2>2, <2>3
<1>6. Fin(cs[i]) = cs[i + 1].addr /\ Fin(cs[i + 1]) = Fin(bs[i])
  <2>1. cs[i].addr + HDR + cs[i].size = bs[i].addr + HDR + n
    BY <1>4
  <2>2. cs[i + 1].addr + HDR + cs[i + 1].size = bs[i].addr + HDR + bs[i].size
    <3>1. (bs[i].addr + HDR + n) + HDR + (bs[i].size - n - HDR) = bs[i].addr + HDR + bs[i].size
      BY ZenonT(30), <1>1, RestEnds
    <3> QED BY ZenonT(30), <1>4, <3>1
  <2> QED BY <1>4, <2>1, <2>2 DEF Fin
<1>7. bs[i].addr < cs[i + 1].addr /\ cs[i + 1].addr < Fin(bs[i])
  <2>1. \A a, s, z \in Nat : z + HDR + ALIGN <= s => a < a + HDR + z /\ a + HDR + z < a + HDR + s
    BY SizeFacts
  <2> QED BY <1>1, <1>2, <1>4, <2>1 DEF Fin
<1> QED BY <1>4, <1>5, <1>6, <1>7

\* Splitting a block keeps the chain: the remainder begins no extent.
LEMMA SplitCovers ==
  ASSUME NEW xs, Extents(xs), NEW bs \in Seq(Block), NEW cs \in Seq(Block), Covers(bs, xs),
         NEW i \in 1 .. Len(bs), NEW n \in Nat, TakenSplit(bs, i, n, cs)
  PROVE  Covers(cs, xs)
<1> DEFINE old(j) == IF j <= i THEN j ELSE j - 1
<1>1. Len(bs) \in Nat /\ i \in Nat /\ Len(cs) = Len(bs) + 1
  BY BlockFacts DEF TakenSplit
<1>2. /\ \A j \in 1 .. Len(bs) : bs[j].addr \in Nat /\ Fin(bs[j]) \in Nat
      /\ \A j \in 1 .. Len(cs) : cs[j].addr \in Nat /\ Fin(cs[j]) \in Nat
  BY BlockFacts
<1>3. /\ cs[i].addr = bs[i].addr /\ Fin(cs[i]) = cs[i + 1].addr /\ Fin(cs[i + 1]) = Fin(bs[i])
      /\ bs[i].addr < cs[i + 1].addr /\ cs[i + 1].addr < Fin(bs[i])
  BY SplitFacts
<1>4. /\ \A j \in 1 .. i - 1 : cs[j] = bs[j]
      /\ \A j \in i + 1 .. Len(bs) : cs[j + 1] = bs[j]
  BY DEF TakenSplit
<1>5. ASSUME NEW j \in 1 .. Len(cs) PROVE old(j) \in 1 .. Len(bs) /\ Within(cs[j], bs[old(j)])
  <2>1. CASE j < i
    <3>1. old(j) = j /\ j \in 1 .. i - 1 /\ j \in 1 .. Len(bs)
      BY <1>1, <2>1
    <3> QED BY <1>2, <1>4, <3>1 DEF Within
  <2>2. CASE j = i
    <3>1. old(j) = i
      BY <1>1, <2>2
    <3>2. i + 1 \in 1 .. Len(cs) /\ i \in 1 .. Len(cs)
      BY <1>1
    <3>3. cs[i].addr = bs[i].addr /\ Fin(cs[i]) <= Fin(bs[i])
      BY <1>2, <1>3, <3>2
    <3> QED BY <1>2, <2>2, <3>1, <3>3 DEF Within
  <2>3. CASE j = i + 1
    <3>1. old(j) = i
      BY <1>1, <2>3
    <3> QED BY <1>2, <1>3, <2>3, <3>1 DEF Within
  <2>4. CASE j > i + 1
    <3>1. old(j) = j - 1 /\ j - 1 \in i + 1 .. Len(bs) /\ (j - 1) + 1 = j /\ j - 1 \in 1 .. Len(bs)
      BY <1>1, <2>4
    <3>2. cs[j] = bs[j - 1]
      BY <1>4, <3>1
    <3> QED BY <1>2, <3>1, <3>2 DEF Within
  <2> QED BY <1>1, <2>1, <2>2, <2>3, <2>4
<1>6. ASSUME NEW j \in 1 .. Len(cs), NEW k \in 1 .. Len(cs), j # k PROVE Apart(cs[j], cs[k])
  <2>1. CASE old(j) = old(k)
    <3>1. (j = i /\ k = i + 1) \/ (j = i + 1 /\ k = i)
      BY <1>1, <1>6, <2>1
    <3>2. Fin(cs[i]) <= cs[i + 1].addr
      <4>1. \A p \in Nat : p <= p
        OBVIOUS
      <4>2. i \in 1 .. Len(cs) /\ i + 1 \in 1 .. Len(cs)
        BY <3>1
      <4> QED BY ZenonT(30), <1>2, <1>3, <4>1, <4>2
    <3> QED BY <3>1, <3>2 DEF Apart
  <2>2. CASE old(j) # old(k)
    <3>1. /\ old(j) \in 1 .. Len(bs) /\ Within(cs[j], bs[old(j)])
          /\ old(k) \in 1 .. Len(bs) /\ Within(cs[k], bs[old(k)])
      BY <1>5
    <3> HIDE DEF old
    <3>2. Apart(bs[old(j)], bs[old(k)])
      BY ZenonT(30), <2>2, <3>1 DEF Covers
    <3> QED BY ZenonT(30), <1>2, <3>1, <3>2, ApartInside
  <2> QED BY <2>1, <2>2
<1>7. ASSUME NEW j \in 1 .. Len(cs) PROVE \E e \in xs : Within(cs[j], e)
  <2>1. old(j) \in 1 .. Len(bs) /\ Within(cs[j], bs[old(j)])
    BY <1>5
  <2> HIDE DEF old
  <2>2. PICK e \in xs : Within(bs[old(j)], e)
    BY <2>1 DEF Covers
  <2>3. e.addr \in Nat /\ Fin(e) \in Nat
    BY ExtentFacts
  <2>4. Within(cs[j], e)
    <3> DEFINE b == bs[old(j)]
    <3>1. b.addr <= cs[j].addr /\ Fin(cs[j]) <= Fin(b) /\ e.addr <= b.addr /\ Fin(b) <= Fin(e)
      BY <2>1, <2>2 DEF Within
    <3>2. b.addr \in Nat /\ Fin(b) \in Nat /\ cs[j].addr \in Nat /\ Fin(cs[j]) \in Nat
      BY <1>2, <2>1
    <3> HIDE DEF b
    <3>3. \A p, q, r \in Nat : p <= q /\ q <= r => p <= r
      OBVIOUS
    <3>4. e.addr <= cs[j].addr /\ Fin(cs[j]) <= Fin(e)
      BY <2>3, <3>1, <3>2, <3>3
    <3> QED BY <3>4 DEF Within
  <2> QED BY <2>4
<1>8. Begins(cs[1], xs) /\ Ends(cs[Len(cs)], xs)
  <2>1. 1 \in 1 .. Len(bs) /\ Len(bs) \in 1 .. Len(bs) /\ Len(bs) # 0
    BY <1>1
  <2>2. cs[1].addr = bs[1].addr
    <3>1. i = 1 \/ 1 \in 1 .. i - 1
      BY <1>1
    <3> QED BY <1>3, <1>4, <3>1
  <2>3. Fin(cs[Len(cs)]) = Fin(bs[Len(bs)])
    <3>1. i = Len(bs) \/ Len(bs) \in i + 1 .. Len(bs)
      BY <1>1
    <3> QED BY <1>1, <1>3, <1>4, <3>1
  <2> QED BY <2>1, <2>2, <2>3 DEF Covers, Begins, Ends
<1>9. ~Begins(cs[i + 1], xs)
  <2> SUFFICES ASSUME NEW e \in xs, cs[i + 1].addr = e.addr PROVE FALSE
    BY DEF Begins
  <2>1. PICK f \in xs : Within(bs[i], f)
    BY DEF Covers
  <2>2. e.addr \in Nat /\ e.size \in Nat /\ Fin(e) \in Nat /\ f.addr \in Nat /\ Fin(f) \in Nat
    BY ExtentFacts
  <2>3. f.addr < e.addr /\ e.addr < Fin(f)
    <3>1. f.addr <= bs[i].addr /\ Fin(bs[i]) <= Fin(f)
      BY <2>1 DEF Within
    <3>2. bs[i].addr \in Nat /\ Fin(bs[i]) \in Nat
      BY <1>2
    <3>3. bs[i].addr < e.addr /\ e.addr < Fin(bs[i])
      BY <1>3
    <3> QED BY <2>2, <3>1, <3>2, <3>3
  <2>4. Apart(e, f)
    BY <2>2, <2>3 DEF Extents
  <2>5. e.addr < Fin(e)
    BY ZenonT(30), <2>2, FinAfter
  <2> QED BY <2>2, <2>3, <2>4, <2>5 DEF Apart
<1>10. ASSUME NEW j \in 1 .. Len(cs) - 1 PROVE Follows(cs[j], cs[j + 1], xs)
  <2>0. \A k \in 1 .. Len(bs) - 1 : Follows(bs[k], bs[k + 1], xs)
    BY ZenonT(30) DEF Covers
  <2>1. CASE j < i - 1
    <3>1. j \in 1 .. i - 1 /\ j + 1 \in 1 .. i - 1 /\ j \in 1 .. Len(bs) - 1
      BY <1>1, <2>1
    <3> QED BY <1>4, <2>0, <3>1
  <2>2. CASE j = i - 1
    <3>1. j \in 1 .. i - 1 /\ j + 1 = i /\ j \in 1 .. Len(bs) - 1
      BY <1>1, <2>2
    <3>2. Follows(bs[j], bs[i], xs) /\ Fin(cs[j]) = Fin(bs[j])
      BY <1>4, <2>0, <3>1
    <3> QED BY <1>3, <3>1, <3>2, FollowsSame
  <2>3. CASE j = i
    BY <1>3, <1>9, <2>3 DEF Follows, Adjacent, Fin
  <2>4. CASE j = i + 1
    <3>1. i + 1 \in i + 1 .. Len(bs) /\ i \in 1 .. Len(bs) - 1 /\ j + 1 = (i + 1) + 1
      BY <1>1, <2>4
    <3>2. Follows(bs[i], bs[i + 1], xs) /\ cs[j + 1] = bs[i + 1]
      BY <1>4, <2>0, <3>1
    <3> QED BY <1>3, <2>4, <3>2, FollowsSame
  <2>5. CASE j > i + 1
    <3>1. /\ j - 1 \in i + 1 .. Len(bs) /\ j \in i + 1 .. Len(bs) /\ (j - 1) + 1 = j
          /\ j - 1 \in 1 .. Len(bs) - 1
      BY <1>1, <2>5
    <3>2. cs[j] = bs[j - 1] /\ cs[j + 1] = bs[j]
      BY ZenonT(30), <1>4, <3>1
    <3> QED BY <2>0, <3>1, <3>2
  <2> QED BY <1>1, <2>1, <2>2, <2>3, <2>4, <2>5
<1>11. ASSUME NEW e \in xs PROVE \E j \in 1 .. Len(cs) : cs[j].addr = e.addr
  <2>1. PICK k \in 1 .. Len(bs) : bs[k].addr = e.addr
    BY ZenonT(30) DEF Covers
  <2>2. CASE k < i
    <3>1. k \in 1 .. i - 1 /\ k \in 1 .. Len(cs)
      BY <1>1, <2>2
    <3> QED BY <1>4, <2>1, <3>1
  <2>3. CASE k = i
    <3>1. i \in 1 .. Len(cs)
      BY <1>1
    <3> QED BY <1>3, <2>1, <2>3, <3>1
  <2>4. CASE k > i
    <3>1. k \in i + 1 .. Len(bs) /\ k + 1 \in 1 .. Len(cs)
      BY <1>1, <2>4
    <3> QED BY <1>4, <2>1, <3>1
  <2> QED BY <1>1, <2>2, <2>3, <2>4
<1> QED BY ZenonT(30), <1>6, <1>7, <1>8, <1>10, <1>11 DEF Covers

\* cs is bs with n units of its i-th block taken.
Taken(bs, i, n, cs) == /\ n <= bs[i].size
                       /\ TakenWhole(bs, i, cs) \/ TakenSplit(bs, i, n, cs)

\* What taking a block does to the block, and that the others stay.
OneTaken(bs, i, n, cs) ==
  /\ i \in 1 .. Len(cs) /\ ~cs[i].free /\ cs[i].addr = bs[i].addr /\ n <= cs[i].size
  /\ \A j \in 1 .. Len(bs) : j # i => \E k \in 1 .. Len(cs) : k # i /\ cs[k] = bs[j]
  /\ \A k \in 1 .. Len(cs) : k # i /\ ~cs[k].free =>
                               \E j \in 1 .. Len(bs) : j # i /\ cs[k] = bs[j]

LEMMA TakenFacts ==
  ASSUME NEW bs \in Seq(Block), NEW i \in 1 .. Len(bs), NEW n \in Nat, NEW cs \in Seq(Block),
         Taken(bs, i, n, cs)
  PROVE  OneTaken(bs, i, n, cs)
<1>1. Len(bs) \in Nat /\ bs[i] \in Block /\ bs[i].size \in Nat /\ i \in Nat
  BY BlockFacts
<1>2. CASE TakenWhole(bs, i, cs)
  <2>1. cs[i].addr = bs[i].addr /\ cs[i].size = bs[i].size /\ ~cs[i].free
    BY <1>1, <1>2 DEF TakenWhole, Block
  <2> QED BY <1>2, <2>1 DEF TakenWhole, Taken, OneTaken
<1>3. CASE TakenSplit(bs, i, n, cs)
  <2>1. /\ Len(cs) = Len(bs) + 1
        /\ \A j \in 1 .. i - 1 : cs[j] = bs[j]
        /\ \A j \in i + 1 .. Len(bs) : cs[j + 1] = bs[j]
    BY <1>3 DEF TakenSplit
  <2>2. cs[i].addr = bs[i].addr /\ cs[i].size = n /\ ~cs[i].free /\ cs[i + 1].free
    BY <1>3, SplitFacts
  <2>3. ASSUME NEW j \in 1 .. Len(bs), j # i PROVE \E k \in 1 .. Len(cs) : k # i /\ cs[k] = bs[j]
    <3>1. CASE j < i
      <4>1. j \in 1 .. i - 1 /\ j \in 1 .. Len(cs)
        BY <1>1, <2>1, <3>1
      <4> QED BY <2>1, <2>3, <4>1
    <3>2. CASE j > i
      <4>1. j \in i + 1 .. Len(bs) /\ j + 1 \in 1 .. Len(cs) /\ j + 1 # i
        BY <1>1, <2>1, <3>2
      <4>2. cs[j + 1] = bs[j]
        BY <2>1, <4>1
      <4> QED BY ZenonT(30), <4>1, <4>2
    <3>3. j < i \/ j > i
      BY <1>1, <2>3
    <3> QED BY ZenonT(30), <3>1, <3>2, <3>3
  <2>4. ASSUME NEW k \in 1 .. Len(cs), k # i, ~cs[k].free
        PROVE  \E j \in 1 .. Len(bs) : j # i /\ cs[k] = bs[j]
    <3>1. CASE k < i
      <4>1. k \in 1 .. i - 1 /\ k \in 1 .. Len(bs)
        BY <1>1, <2>1, <3>1
      <4> QED BY <2>1, <2>4, <4>1
    <3>2. CASE k > i
      <4>0. k # i + 1
        BY <2>2, <2>4
      <4>1. k - 1 \in i + 1 .. Len(bs) /\ k - 1 \in 1 .. Len(bs) /\ k - 1 # i /\ (k - 1) + 1 = k
        BY <1>1, <2>1, <3>2, <4>0
      <4> QED BY ZenonT(30), <2>1, <4>1
    <3>3. k < i \/ k > i
      BY <1>1, <2>1, <2>4
    <3> QED BY ZenonT(30), <3>1, <3>2, <3>3
  <2>5. i \in 1 .. Len(cs) /\ n <= cs[i].size
    BY <1>1, <2>1, <2>2
  <2> QED BY ZenonT(30), <2>2, <2>3, <2>4, <2>5 DEF OneTaken
<1> QED BY <1>2, <1>3 DEF Taken

\* Taking a free block gives it an owner and no other block a second one.
LEMMA TakenOwned ==
  ASSUME NEW bs \in Seq(Block), NEW i \in 1 .. Len(bs), NEW n \in Nat, NEW cs \in Seq(Block),
         Taken(bs, i, n, cs), bs[i].free,
         \A j, k \in 1 .. Len(bs) : j # k => Apart(bs[j], bs[k]),
         NEW L, Owned(bs, L), NEW size \in Nat, size <= n
  PROVE  Owned(cs, L \cup {[ptr |-> bs[i].addr + HDR, size |-> size]})
<1> DEFINE new == [ptr |-> bs[i].addr + HDR, size |-> size]
           M == L \cup {new}
<1>0. new.ptr = bs[i].addr + HDR /\ new.size = size
  OBVIOUS
<1> HIDE DEF new
<1>1. /\ i \in 1 .. Len(cs) /\ ~cs[i].free /\ cs[i].addr = bs[i].addr /\ n <= cs[i].size
      /\ \A j \in 1 .. Len(bs) : j # i => \E k \in 1 .. Len(cs) : k # i /\ cs[k] = bs[j]
      /\ \A k \in 1 .. Len(cs) : k # i /\ ~cs[k].free =>
                                   \E j \in 1 .. Len(bs) : j # i /\ cs[k] = bs[j]
  <2>1. OneTaken(bs, i, n, cs)
    BY TakenFacts
  <2> QED BY <2>1 DEF OneTaken
<1>2. size <= cs[i].size
  <2>1. cs[i] \in Block
    BY <1>1
  <2> QED BY <1>1, <2>1, BlockFacts
<1>3. ASSUME NEW a \in M
      PROVE  \E k \in 1 .. Len(cs) : ~cs[k].free /\ a.ptr = cs[k].addr + HDR /\ a.size <= cs[k].size
  <2>1. CASE a = new
    BY <1>0, <1>1, <1>2, <2>1
  <2>2. CASE a \in L
    <3>1. PICK j \in 1 .. Len(bs) : ~bs[j].free /\ a.ptr = bs[j].addr + HDR /\ a.size <= bs[j].size
      BY <2>2 DEF Owned
    <3>2. PICK k \in 1 .. Len(cs) : cs[k] = bs[j]
      BY <1>1, <3>1
    <3> QED BY <3>1, <3>2
  <2> QED BY <1>3, <2>1, <2>2
<1>4. ASSUME NEW k \in 1 .. Len(cs), ~cs[k].free PROVE \E a \in M : a.ptr = cs[k].addr + HDR
  <2>1. CASE k = i
    BY <1>0, <1>1, <2>1
  <2>2. CASE k # i
    <3>1. PICK j \in 1 .. Len(bs) : cs[k] = bs[j]
      BY <1>1, <1>4, <2>2
    <3>2. \E a \in L : a.ptr = bs[j].addr + HDR
      BY <1>4, <3>1 DEF Owned
    <3> QED BY <3>1, <3>2
  <2> QED BY <2>1, <2>2
<1>5. ASSUME NEW a \in L PROVE a.ptr # new.ptr
  <2>1. PICK j \in 1 .. Len(bs) : ~bs[j].free /\ a.ptr = bs[j].addr + HDR
    BY DEF Owned
  <2>2. bs[j].addr # bs[i].addr
    <3>1. Apart(bs[j], bs[i])
      BY <2>1
    <3> QED BY ZenonT(30), <3>1, ApartDiffer, BlockFacts
  <2>3. bs[j].addr \in Nat /\ bs[i].addr \in Nat
    BY BlockFacts
  <2>4. \A x, y \in Nat : x # y => x + HDR # y + HDR
    BY SizeFacts
  <2>5. new.ptr = bs[i].addr + HDR
    BY <1>0
  <2>6. bs[j].addr + HDR # bs[i].addr + HDR
    BY <2>2, <2>3, <2>4
  <2> QED BY <2>1, <2>5, <2>6
<1>6. \A a, b \in M : a.ptr = b.ptr => a = b
  <2>1. \A a, b \in L : a.ptr = b.ptr => a = b
    BY DEF Owned
  <2> QED BY ZenonT(30), <1>5, <2>1
<1>7. Owned(cs, M)
  <2> HIDE DEF M
  <2> QED BY ZenonT(30), <1>3, <1>4, <1>6 DEF Owned
<1> QED BY <1>7 DEF new

\* Taking a free block leaves no two free neighbours.
LEMMA TakenMerged ==
  ASSUME NEW bs \in Seq(Block), NEW i \in 1 .. Len(bs), NEW n \in Nat, NEW cs \in Seq(Block),
         Taken(bs, i, n, cs), bs[i].free, Merged(bs)
  PROVE  Merged(cs)
<1>1. Len(bs) \in Nat /\ i \in Nat
  BY BlockFacts
<1>2. CASE TakenWhole(bs, i, cs)
  <2>1. bs[i] \in Block
    BY BlockFacts
  <2>2. ~cs[i].free /\ Len(cs) = Len(bs) /\ \A j \in 1 .. Len(bs) : j # i => cs[j] = bs[j]
    BY <1>2, <2>1 DEF TakenWhole, Block
  <2>3. ASSUME NEW j \in 1 .. Len(cs) - 1
        PROVE  ~(cs[j].free /\ cs[j + 1].free /\ Adjacent(cs[j], cs[j + 1]))
    <3>1. j \in 1 .. Len(bs) /\ j + 1 \in 1 .. Len(bs) /\ j \in 1 .. Len(bs) - 1
      BY <1>1, <2>2
    <3> QED BY <2>2, <3>1 DEF Merged
  <2> QED BY <2>3 DEF Merged
<1>3. CASE TakenSplit(bs, i, n, cs)
  <2>1. /\ Len(cs) = Len(bs) + 1
        /\ \A j \in 1 .. i - 1 : cs[j] = bs[j]
        /\ \A j \in i + 1 .. Len(bs) : cs[j + 1] = bs[j]
    BY <1>3 DEF TakenSplit
  <2>2. ~cs[i].free /\ Fin(cs[i + 1]) = Fin(bs[i])
    BY <1>3, SplitFacts
  <2>3. ASSUME NEW j \in 1 .. Len(cs) - 1
        PROVE  ~(cs[j].free /\ cs[j + 1].free /\ Adjacent(cs[j], cs[j + 1]))
    <3>1. CASE j < i - 1
      <4>1. j \in 1 .. i - 1 /\ j + 1 \in 1 .. i - 1 /\ j \in 1 .. Len(bs) - 1
        BY <1>1, <3>1
      <4> QED BY <2>1, <4>1 DEF Merged
    <3>2. CASE j = i - 1 \/ j = i
      BY <1>1, <2>2, <3>2
    <3>3. CASE j = i + 1
      <4>1. i + 1 \in i + 1 .. Len(bs) /\ i \in 1 .. Len(bs) - 1
        BY <1>1, <2>1, <3>3
      <4>2. cs[j + 1] = bs[i + 1] /\ ~(bs[i + 1].free /\ Adjacent(bs[i], bs[i + 1]))
        BY <2>1, <3>3, <4>1 DEF Merged
      <4> QED BY <2>2, <3>3, <4>2 DEF Adjacent, Fin
    <3>4. CASE j > i + 1
      <4>1. /\ j - 1 \in i + 1 .. Len(bs) /\ j \in i + 1 .. Len(bs) /\ (j - 1) + 1 = j
            /\ j - 1 \in 1 .. Len(bs) - 1
        BY <1>1, <2>1, <3>4
      <4>2. cs[j] = bs[j - 1] /\ cs[j + 1] = bs[j]
        BY <2>1, <4>1
      <4>3. ~(bs[j - 1].free /\ bs[j].free /\ Adjacent(bs[j - 1], bs[j]))
        BY <4>1 DEF Merged
      <4> QED BY <4>2, <4>3
    <3> QED BY <1>1, <3>1, <3>2, <3>3, <3>4
  <2> QED BY <2>3 DEF Merged
<1> QED BY <1>2, <1>3 DEF Taken

\* A chain of blocks that covers the extents xs, with the owners L.
Chain(bs, xs, L) == bs \in Seq(Block) /\ Covers(bs, xs) /\ Merged(bs) /\ Owned(bs, L)

\* What kmalloc does to the chain once it has a free block.
LEMMA TakenChain ==
  ASSUME NEW xs, Extents(xs), NEW L, NEW bs, Chain(bs, xs, L), NEW i \in 1 .. Len(bs), bs[i].free,
         NEW n \in Nat, NEW size \in Nat, size <= n, NEW cs \in Seq(Block), Taken(bs, i, n, cs)
  PROVE  Chain(cs, xs, L \cup {[ptr |-> bs[i].addr + HDR, size |-> size]})
<1>0. bs \in Seq(Block) /\ Covers(bs, xs) /\ Merged(bs) /\ Owned(bs, L)
  BY DEF Chain
<1>1. Covers(cs, xs)
  <2>1. CASE TakenWhole(bs, i, cs)
    <3>1. bs[i] \in Block
      BY <1>0
    <3>2. cs[i].addr = bs[i].addr /\ cs[i].size = bs[i].size
      BY <2>1, <3>1 DEF TakenWhole, Block
    <3>3. \A j \in 1 .. Len(bs) : cs[j].addr = bs[j].addr /\ cs[j].size = bs[j].size
      BY ZenonT(30), <2>1, <3>2 DEF TakenWhole
    <3>4. Len(cs) = Len(bs)
      BY <2>1 DEF TakenWhole
    <3> QED BY <1>0, <3>3, <3>4, WholeCovers
  <2>2. CASE TakenSplit(bs, i, n, cs)
    BY <1>0, <2>2, SplitCovers
  <2> QED BY <2>1, <2>2 DEF Taken
<1>2. Merged(cs)
  BY <1>0, TakenMerged
<1>3. \A j, k \in 1 .. Len(bs) : j # k => Apart(bs[j], bs[k])
  BY <1>0 DEF Covers
<1>4. Owned(cs, L \cup {[ptr |-> bs[i].addr + HDR, size |-> size]})
  BY ZenonT(30), <1>0, <1>3, TakenOwned
<1> QED BY <1>1, <1>2, <1>4 DEF Chain

-----------------------------------------------------------------------------
(* kmalloc *)

\* A block with one field set.
LEMMA FieldSet ==
  ASSUME NEW b \in Block, NEW n \in Nat
  PROVE  /\ [b EXCEPT !.free = FALSE] = [addr |-> b.addr, size |-> b.size, free |-> FALSE]
         /\ [b EXCEPT !.size = n] = [addr |-> b.addr, size |-> n, free |-> b.free]
<1>1. [b EXCEPT !.free = FALSE] = [addr |-> b.addr, size |-> b.size, free |-> FALSE]
  <2>1. PICK c \in Block : c = [b EXCEPT !.free = FALSE]
    BY ZenonT(30) DEF Block
  <2>2. c.addr = b.addr /\ c.size = b.size /\ c.free = FALSE
    BY <2>1 DEF Block
  <2>3. c = [addr |-> c.addr, size |-> c.size, free |-> c.free]
    BY DEF Block
  <2> QED BY <2>1, <2>2, <2>3
<1>2. [b EXCEPT !.size = n] = [addr |-> b.addr, size |-> n, free |-> b.free]
  BY DEF Block
<1> QED BY <1>1, <1>2

\* s is m followed by t.
Row(s, m, t) == /\ Len(s) = Len(m) + Len(t)
                /\ \A j \in 1 .. Len(m) : s[j] = m[j]
                /\ \A j \in 1 .. Len(t) : s[Len(m) + j] = t[j]

LEMMA RowOfTwo ==
  ASSUME NEW S, NEW m \in Seq(S), NEW t \in Seq(S)
  PROVE  m \o t \in Seq(S) /\ Row(m \o t, m, t)
BY DEF Row

\* Where the elements of three sequences in a row are.
Row3(s, r, m, t) == /\ Len(s) = Len(r) + Len(m) + Len(t)
                    /\ \A j \in 1 .. Len(r) : s[j] = r[j]
                    /\ \A j \in 1 .. Len(m) : s[Len(r) + j] = m[j]
                    /\ \A j \in 1 .. Len(t) : s[Len(r) + Len(m) + j] = t[j]

LEMMA RowOfThree ==
  ASSUME NEW S, NEW r \in Seq(S), NEW m \in Seq(S), NEW t \in Seq(S)
  PROVE  r \o m \o t \in Seq(S) /\ Row3(r \o m \o t, r, m, t)
BY DEF Row3

\* The block that is taken, and the part split off from it.
UsedPart(b, n, m) ==
  /\ m \in Seq(Block)
  /\ b.size >= n + HDR + ALIGN =>
       /\ Len(m) = 2 /\ m[1] = [addr |-> b.addr, size |-> n, free |-> FALSE] /\ m[2] = Rest(b, n)
  /\ ~(b.size >= n + HDR + ALIGN) => Len(m) = 1 /\ m[1] = [b EXCEPT !.free = FALSE]

LEMMA UsedParts ==
  ASSUME NEW b \in Block, NEW n \in Nat
  PROVE  UsedPart(b, n, Used(split_block(b, n)))
<1>1. CASE b.size >= n + HDR + ALIGN
  <2>1. PICK c \in Block : c = [b EXCEPT !.size = n]
    BY ZenonT(30) DEF Block
  <2>2. c.addr = b.addr /\ c.size = n
    BY <2>1 DEF Block
  <2>3. PICK d \in Block : d = [addr |-> b.addr, size |-> n, free |-> FALSE]
    BY ZenonT(30) DEF Block
  <2>4. [c EXCEPT !.free = FALSE] = d
    BY ZenonT(30), <2>2, <2>3, FieldSet
  <2>5. PICK r \in Block : r = Rest(b, n)
    <3>1. b.addr \in Nat /\ b.size \in Nat
      BY DEF Block
    <3>2. b.addr + HDR + n \in Nat /\ b.size - n - HDR \in Nat
      BY <1>1, <3>1, SizeFacts
    <3> QED BY ZenonT(30), <3>2 DEF Block, Rest
  <2>6. split_block(b, n) = <<c, r>>
    BY ZenonT(30), <1>1, <2>1, <2>5 DEF split_block, Rest
  <2>7. PICK m : m = [<<c, r>> EXCEPT ![1] = d]
    BY ZenonT(30)
  <2>8. m \in Seq(Block) /\ Len(m) = 2 /\ m[1] = d /\ m[2] = r
    BY <2>7
  <2>9. Used(split_block(b, n)) = m
    <3>1. PICK s : s = <<c, r>>
      BY ZenonT(30)
    <3>2. s[1] = c
      BY <3>1
    <3>3. [s EXCEPT ![1] = [s[1] EXCEPT !.free = FALSE]] = m
      BY ZenonT(30), <2>4, <2>7, <3>1, <3>2
    <3> QED BY <2>6, <3>1, <3>3 DEF Used
  <2> QED BY <1>1, <2>3, <2>5, <2>8, <2>9 DEF UsedPart
<1>2. CASE ~(b.size >= n + HDR + ALIGN)
  <2>1. split_block(b, n) = <<b>>
    BY <1>2 DEF split_block
  <2>2. PICK d \in Block : d = [b EXCEPT !.free = FALSE]
    BY ZenonT(30) DEF Block
  <2>3. PICK m : m = [<<b>> EXCEPT ![1] = d]
    BY ZenonT(30)
  <2>4. m \in Seq(Block) /\ Len(m) = 1 /\ m[1] = d
    BY <2>3
  <2>5. Used(split_block(b, n)) = m
    BY <2>1, <2>2, <2>3 DEF Used
  <2> QED BY <1>2, <2>2, <2>4, <2>5 DEF UsedPart
<1> QED BY <1>1, <1>2

LEMMA SplitTypes ==
  ASSUME NEW b \in Block, NEW n \in Nat, n <= b.size
  PROVE  split_block(b, n) \in Seq(Block)
<1>1. CASE b.size >= n + HDR + ALIGN
  <2>1. PICK c \in Block : c = [b EXCEPT !.size = n]
    BY ZenonT(30) DEF Block
  <2>2. PICK r \in Block : r = Rest(b, n)
    <3>1. b.addr \in Nat /\ b.size \in Nat
      BY DEF Block
    <3>2. b.addr + HDR + n \in Nat /\ b.size - n - HDR \in Nat
      BY <1>1, <3>1, SizeFacts
    <3> QED BY ZenonT(30), <3>2 DEF Block, Rest
  <2>3. split_block(b, n) = <<c, r>>
    BY ZenonT(30), <1>1, <2>1, <2>2 DEF split_block, Rest
  <2> QED BY <2>3
<1>2. CASE ~(b.size >= n + HDR + ALIGN)
  <2>1. split_block(b, n) = <<b>>
    BY ZenonT(30), <1>2 DEF split_block
  <2> QED BY <2>1
<1> QED BY <1>1, <1>2

\* What kmalloc writes to the chain.
LEMMA TakeShape ==
  ASSUME NEW bs \in Seq(Block), NEW i \in 1 .. Len(bs), NEW n \in Nat, n <= bs[i].size,
         NEW m, UsedPart(bs[i], n, m), NEW cs
  PROVE  cs = SubSeq(bs, 1, i - 1) \o m \o SubSeq(bs, i + 1, Len(bs))
           => cs \in Seq(Block) /\ Taken(bs, i, n, cs)
<1>0. SUFFICES ASSUME cs = SubSeq(bs, 1, i - 1) \o m \o SubSeq(bs, i + 1, Len(bs))
               PROVE  cs \in Seq(Block) /\ Taken(bs, i, n, cs)
  BY ZenonT(30)
<1> DEFINE r == SubSeq(bs, 1, i - 1)
           t == SubSeq(bs, i + 1, Len(bs))
<1>1. Len(bs) \in Nat /\ i \in Nat /\ bs[i] \in Block /\ bs[i].size \in Nat
  BY BlockFacts
<1>2. r \in Seq(Block) /\ Len(r) = i - 1 /\ \A j \in 1 .. i - 1 : r[j] = bs[j]
  BY <1>1, Cut
<1>3. t \in Seq(Block) /\ Len(t) = Len(bs) - i /\ \A j \in 1 .. Len(bs) - i : t[j] = bs[i + j]
  BY <1>1, Cut
<1>4. cs = r \o m \o t
  BY <1>0
<1> HIDE DEF r, t
<1>5. cs \in Seq(Block) /\ Row3(cs, r, m, t)
  <2>1. m \in Seq(Block)
    BY DEF UsedPart
  <2> QED BY <1>2, <1>3, <1>4, <2>1, RowOfThree
<1>6. CASE bs[i].size >= n + HDR + ALIGN
  <2>1. Len(m) = 2 /\ m[1] = [addr |-> bs[i].addr, size |-> n, free |-> FALSE] /\ m[2] = Rest(bs[i], n)
    BY <1>6 DEF UsedPart
  <2>2. /\ Len(cs) = (i - 1) + 2 + (Len(bs) - i)
        /\ \A j \in 1 .. i - 1 : cs[j] = r[j]
        /\ \A j \in 1 .. 2 : cs[(i - 1) + j] = m[j]
        /\ \A j \in 1 .. Len(bs) - i : cs[(i - 1) + 2 + j] = t[j]
    BY <1>2, <1>3, <1>5, <2>1 DEF Row3
  <2>3. Len(cs) = Len(bs) + 1 /\ \A j \in 1 .. i - 1 : cs[j] = bs[j]
    <3>1. Len(cs) = Len(bs) + 1
      BY <1>1, <2>2
    <3>2. \A j \in 1 .. i - 1 : cs[j] = bs[j]
      BY ZenonT(30), <1>2, <2>2
    <3> QED BY <3>1, <3>2
  <2>4. cs[i] = m[1] /\ cs[i + 1] = m[2]
    <3>1. (i - 1) + 1 = i /\ (i - 1) + 2 = i + 1 /\ 1 \in 1 .. 2 /\ 2 \in 1 .. 2
      BY <1>1
    <3> QED BY <2>2, <3>1
  <2>5. ASSUME NEW j \in i + 1 .. Len(bs) PROVE cs[j + 1] = bs[j]
    <3>1. j - i \in 1 .. Len(bs) - i /\ (i - 1) + 2 + (j - i) = j + 1 /\ i + (j - i) = j
      BY <1>1
    <3>2. cs[(i - 1) + 2 + (j - i)] = t[j - i] /\ t[j - i] = bs[i + (j - i)]
      BY ZenonT(30), <1>3, <2>2, <3>1
    <3> QED BY <3>1, <3>2
  <2>6. n + HDR + ALIGN <= bs[i].size
    BY <1>1, <1>6, SizeFacts
  <2> QED BY <1>5, <2>1, <2>3, <2>4, <2>5, <2>6 DEF Taken, TakenSplit
<1>7. CASE ~(bs[i].size >= n + HDR + ALIGN)
  <2>1. Len(m) = 1 /\ m[1] = [bs[i] EXCEPT !.free = FALSE]
    BY <1>7 DEF UsedPart
  <2>2. /\ Len(cs) = (i - 1) + 1 + (Len(bs) - i)
        /\ \A j \in 1 .. i - 1 : cs[j] = r[j]
        /\ \A j \in 1 .. 1 : cs[(i - 1) + j] = m[j]
        /\ \A j \in 1 .. Len(bs) - i : cs[(i - 1) + 1 + j] = t[j]
    BY <1>2, <1>3, <1>5, <2>1 DEF Row3
  <2>3. Len(cs) = Len(bs) /\ cs[i] = m[1]
    <3>1. (i - 1) + 1 = i /\ 1 \in 1 .. 1
      BY <1>1
    <3> QED BY <1>1, <2>2, <3>1
  <2>4. ASSUME NEW j \in 1 .. Len(bs), j # i PROVE cs[j] = bs[j]
    <3>1. CASE j < i
      <4>1. j \in 1 .. i - 1
        BY <1>1, <3>1
      <4> QED BY <1>2, <2>2, <4>1
    <3>2. CASE j > i
      <4>1. j - i \in 1 .. Len(bs) - i /\ (i - 1) + 1 + (j - i) = j /\ i + (j - i) = j
        BY <1>1, <3>2
      <4>2. cs[(i - 1) + 1 + (j - i)] = t[j - i] /\ t[j - i] = bs[i + (j - i)]
        BY <1>3, <2>2, <4>1
      <4> QED BY <4>1, <4>2
    <3> QED BY <1>1, <2>4, <3>1, <3>2
  <2> QED BY <1>5, <2>1, <2>3, <2>4 DEF Taken, TakenWhole
<1> QED BY <1>6, <1>7

\* The quotient of a division.
LEMMA Divided ==
  ASSUME NEW a \in Nat, NEW d \in Nat \ {0}
  PROVE  a \div d \in Nat /\ (a \div d) * d <= a /\ a < (a \div d) * d + d
OBVIOUS

\* Rounding up to a multiple.
LEMMA RoundedUp ==
  ASSUME NEW a \in Nat, NEW d \in Nat \ {0}
  PROVE  (a + d - 1) \div d \in Nat /\ a <= ((a + d - 1) \div d) * d
<1>1. a + d - 1 \in Nat
  OBVIOUS
<1>2. PICK k \in Int : k = (a + d - 1) \div d
  BY <1>1, Divided
<1>3. k \in Nat /\ a + d - 1 < k * d + d
  BY <1>1, <1>2, Divided
<1>4. k * d \in Nat
  BY <1>3
<1> QED BY <1>2, <1>3, <1>4

\* The size kmalloc looks for.
LEMMA RequestFacts ==
  ASSUME NEW size \in Sizes
  PROVE  size \in Nat /\ roundup(size, ALIGN) \in Nat /\ size <= roundup(size, ALIGN)
<1>1. size \in Nat /\ ALIGN \in Nat \ {0}
  BY HeapAssumption
<1>2. PICK k \in Nat : k = (size + ALIGN - 1) \div ALIGN
  BY <1>1, RoundedUp
<1>3. size <= k * ALIGN /\ k * ALIGN \in Nat
  BY <1>1, <1>2, RoundedUp
<1> QED BY <1>1, <1>2, <1>3 DEF roundup

LEMMA InvChain == HeapInv => Extents(extents) /\ Chain(blocks, extents, live)
BY DEF HeapInv, Extents, ExtentsInv, Chain

-----------------------------------------------------------------------------
(* Headers and mapped pages *)

\* More pages are mapped.
LEMMA WritableMore ==
  ASSUME NEW bs, NEW ms, NEW ns, ms \subseteq ns, Writable(bs, ms) PROVE Writable(bs, ns)
BY ZenonT(30) DEF Writable

\* The blocks of cs begin where those of bs do.
Heads(cs, bs) == \A k \in DOMAIN cs : \E j \in DOMAIN bs : cs[k].addr = bs[j].addr

LEMMA WritableHeads ==
  ASSUME NEW bs, NEW cs, NEW ms, Heads(cs, bs), Writable(bs, ms) PROVE Writable(cs, ms)
<1> SUFFICES ASSUME NEW k \in DOMAIN cs, NEW x \in Span(cs[k].addr, HDR) PROVE x \div PGSIZE \in ms
  BY ZenonT(30) DEF Writable
<1>1. PICK j \in DOMAIN bs : cs[k].addr = bs[j].addr
  BY ZenonT(30) DEF Heads
<1>2. x \in Span(bs[j].addr, HDR)
  BY ZenonT(30), <1>1
<1> QED BY ZenonT(30), <1>2 DEF Writable

\* Two chains in a row.
LEMMA WritableRow ==
  ASSUME NEW s \in Seq(Block), NEW m \in Seq(Block), NEW t \in Seq(Block), Row(s, m, t),
         NEW ms, Writable(m, ms), Writable(t, ms)
  PROVE  Writable(s, ms)
<1>1. /\ Len(m) \in Nat /\ Len(t) \in Nat /\ Len(s) = Len(m) + Len(t)
      /\ DOMAIN s = 1 .. Len(s) /\ DOMAIN m = 1 .. Len(m) /\ DOMAIN t = 1 .. Len(t)
  BY BlockFacts DEF Row
<1>2. /\ \A j \in 1 .. Len(m) : s[j] = m[j]
      /\ \A j \in 1 .. Len(t) : s[Len(m) + j] = t[j]
  BY ZenonT(30) DEF Row
<1>3. ASSUME NEW k \in DOMAIN s PROVE \A x \in Span(s[k].addr, HDR) : x \div PGSIZE \in ms
  <2>1. CASE k <= Len(m)
    <3>1. k \in 1 .. Len(m)
      BY <1>1, <2>1
    <3> QED BY ZenonT(30), <1>1, <1>2, <3>1 DEF Writable
  <2>2. CASE k > Len(m)
    <3>1. PICK j \in 1 .. Len(t) : Len(m) + j = k
      <4>1. k - Len(m) \in 1 .. Len(t) /\ Len(m) + (k - Len(m)) = k
        BY <1>1, <2>2
      <4> QED BY ZenonT(30), <4>1
    <3>2. s[k] = t[j]
      BY ZenonT(30), <1>2, <3>1
    <3> QED BY ZenonT(30), <1>1, <3>2 DEF Writable
  <2>3. k <= Len(m) \/ k > Len(m)
    BY <1>1
  <2> QED BY ZenonT(30), <2>1, <2>2, <2>3
<1> QED BY ZenonT(30), <1>3 DEF Writable

\* A part of a chain.
LEMMA WritableCut ==
  ASSUME NEW bs \in Seq(Block), NEW m \in Nat \ {0}, NEW n \in Nat, n <= Len(bs),
         NEW ms, Writable(bs, ms)
  PROVE  SubSeq(bs, m, n) \in Seq(Block) /\ Writable(SubSeq(bs, m, n), ms)
<1>1. Len(bs) \in Nat /\ DOMAIN bs = 1 .. Len(bs) /\ \A i \in 1 .. Len(bs) : bs[i] \in Block
  BY BlockFacts
<1>2. \A i \in m .. n : bs[i] \in Block
  BY <1>1
<1>3. PICK cs : cs = SubSeq(bs, m, n)
  BY ZenonT(30)
<1>4. /\ cs \in Seq(Block) /\ Len(cs) = IF m <= n THEN n - m + 1 ELSE 0
      /\ \A i \in 1 .. n - m + 1 : cs[i] = bs[m + i - 1]
  BY <1>2, <1>3, Cut
<1>5. DOMAIN cs = 1 .. Len(cs)
  BY <1>4, BlockFacts
<1>6. ASSUME NEW k \in DOMAIN cs PROVE \E j \in DOMAIN bs : cs[k].addr = bs[j].addr
  <2>1. k \in 1 .. n - m + 1 /\ m + k - 1 \in DOMAIN bs
    BY <1>1, <1>4, <1>5
  <2>2. cs[k] = bs[m + k - 1]
    BY ZenonT(30), <1>4, <2>1
  <2> QED BY ZenonT(30), <2>1, <2>2
<1>7. Heads(cs, bs)
  BY ZenonT(30), <1>6 DEF Heads
<1> QED BY ZenonT(30), <1>3, <1>4, <1>7, WritableHeads

-----------------------------------------------------------------------------
(* kmalloc finds a block that fits *)

LEMMA TakeStep ==
  ASSUME HeapInv, NEW size \in Sizes, NEW i \in DOMAIN blocks, blocks[i].free,
         blocks[i].size >= roundup(size, ALIGN), TakeBlock(i, roundup(size, ALIGN), size)
  PROVE  HeapInv'
<1>1. PICK n \in Nat : n = roundup(size, ALIGN)
  BY RequestFacts
<1>2. size \in Nat /\ size <= n
  BY <1>1, RequestFacts
<1>3. blocks \in Seq(Block) /\ i \in 1 .. Len(blocks) /\ blocks[i].size \in Nat
  BY ZenonT(30), BlockFacts DEF HeapInv
<1>4. PICK m : m = Used(split_block(blocks[i], n))
  BY ZenonT(30)
<1>5. /\ halted' = ~Writable(m, mapped)
      /\ IF Writable(m, mapped)
         THEN /\ blocks' = SubSeq(blocks, 1, i - 1) \o m \o SubSeq(blocks, i + 1, Len(blocks))
              /\ live' = live \cup {[ptr |-> blocks[i].addr + HDR, size |-> size]}
         ELSE UNCHANGED <<blocks, live>>
      /\ UNCHANGED <<heap_next, frames, levels, tables, mapped, extents>>
  BY ZenonT(30), <1>1, <1>4 DEF TakeBlock
<1>6. (\E q \in 0 .. KHEAP_PAGES : PagesInv(q))' /\ ExtentsInv'
  <2>1. halted' \in BOOLEAN
    BY ZenonT(30), <1>5
  <2> QED BY ZenonT(30), <1>5, <2>1 DEF HeapInv, PagesInv, ExtentsInv
<1>7. CASE Writable(m, mapped)
  <2>1. UsedPart(blocks[i], n, m)
    BY <1>3, <1>4, BlockFacts, UsedParts
  <2>2. blocks' \in Seq(Block) /\ Taken(blocks, i, n, blocks')
    <3>1. n <= blocks[i].size
      BY <1>1, <1>3
    <3> QED BY ZenonT(30), <1>3, <1>5, <1>7, <2>1, <3>1, TakeShape
  <2>3. Chain(blocks', extents, live')
    <3>1. live' = live \cup {[ptr |-> blocks[i].addr + HDR, size |-> size]}
      BY ZenonT(30), <1>5, <1>7
    <3> QED BY ZenonT(30), <1>2, <1>3, <2>2, <3>1, InvChain, TakenChain
  <2>4. Writable(blocks', mapped)
    <3> DEFINE r == SubSeq(blocks, 1, i - 1)
               t == SubSeq(blocks, i + 1, Len(blocks))
    <3>1. Writable(blocks, mapped) /\ m \in Seq(Block)
      BY ZenonT(30), <2>1 DEF HeapInv, UsedPart
    <3>2. /\ 1 \in Nat \ {0} /\ i - 1 \in Nat /\ i - 1 <= Len(blocks)
          /\ i + 1 \in Nat \ {0} /\ Len(blocks) \in Nat /\ Len(blocks) <= Len(blocks)
      BY <1>3, BlockFacts
    <3>3. r \in Seq(Block) /\ Writable(r, mapped) /\ t \in Seq(Block) /\ Writable(t, mapped)
      BY ZenonT(30), <1>3, <3>1, <3>2, WritableCut
    <3>4. blocks' = (r \o m) \o t
      BY ZenonT(30), <1>5, <1>7
    <3> HIDE DEF r, t
    <3>5. r \o m \in Seq(Block) /\ Row(r \o m, r, m)
      BY ZenonT(30), <3>1, <3>3, RowOfTwo
    <3>6. Writable(r \o m, mapped)
      BY ZenonT(30), <1>7, <3>1, <3>3, <3>5, WritableRow
    <3>7. blocks' \in Seq(Block) /\ Row(blocks', r \o m, t)
      BY ZenonT(30), <3>3, <3>4, <3>5, RowOfTwo
    <3> QED BY ZenonT(30), <3>3, <3>5, <3>6, <3>7, WritableRow
  <2> QED BY ZenonT(30), <1>5, <1>6, <2>3, <2>4 DEF HeapInv, Chain
<1>8. CASE ~Writable(m, mapped)
  <2>1. UNCHANGED <<blocks, live, extents, mapped>>
    BY ZenonT(30), <1>5, <1>8
  <2> QED BY ZenonT(30), <1>6, <2>1 DEF HeapInv, Covers, Merged, Owned
<1> QED BY ZenonT(30), <1>7, <1>8

-----------------------------------------------------------------------------
(* heap_extend *)

\* cs is bs with b in front.
Pushed(b, bs, cs) == /\ cs \in Seq(Block) /\ Len(cs) = Len(bs) + 1 /\ cs[1] = b
                     /\ \A j \in 1 .. Len(bs) : cs[j + 1] = bs[j]

\* A new block, not yet taken, in front of the chain and behind all extents.
LEMMA GrownChain ==
  ASSUME NEW xs, Extents(xs), NEW L, NEW bs, Chain(bs, xs, L),
         NEW b \in Block, b.free, \A e \in xs : Fin(e) <= b.addr,
         NEW cs, Pushed(b, bs, cs)
  PROVE  /\ Extents(xs \cup {[addr |-> b.addr, size |-> b.size]})
         /\ Chain(cs, xs \cup {[addr |-> b.addr, size |-> b.size]}, L)
<1> /\ cs \in Seq(Block) /\ Len(cs) = Len(bs) + 1 /\ cs[1] = b
    /\ \A j \in 1 .. Len(bs) : cs[j + 1] = bs[j]
  BY DEF Pushed
<1>0. bs \in Seq(Block) /\ Covers(bs, xs) /\ Merged(bs) /\ Owned(bs, L)
  BY DEF Chain
<1>1. PICK n \in Nat : n = Len(bs) /\ Len(cs) = n + 1
  BY <1>0, BlockFacts
<1>2. b.addr \in Nat /\ b.size \in Nat /\ Fin(b) \in Nat /\ b.addr < Fin(b)
  BY SizeFacts DEF Block, Fin
<1>3. PICK x \in [addr : Nat, size : Nat] : x = [addr |-> b.addr, size |-> b.size]
  BY ZenonT(30), <1>2
<1>4. x.addr = b.addr /\ x.size = b.size /\ Fin(x) = Fin(b)
  BY <1>3 DEF Fin
<1> DEFINE ys == xs \cup {x}
<1>5. Extents(ys)
  <2>1. \A e \in xs : Apart(e, x) /\ Apart(x, e)
    BY <1>4 DEF Apart
  <2>2. xs \subseteq [addr : Nat, size : Nat] /\ \A e, f \in xs : e # f => Apart(e, f)
    BY DEF Extents
  <2> QED BY ZenonT(30), <2>1, <2>2 DEF Extents
<1>6. ASSUME NEW j \in 1 .. n
      PROVE  /\ bs[j].addr \in Nat /\ Fin(bs[j]) \in Nat
             /\ Fin(bs[j]) <= b.addr /\ bs[j].addr < b.addr /\ bs[j].addr < Fin(bs[j])
  <2>0. j \in 1 .. Len(bs)
    BY <1>1
  <2>1. bs[j].addr \in Nat /\ bs[j].size \in Nat /\ Fin(bs[j]) \in Nat
    BY ZenonT(30), <1>0, <2>0, BlockFacts
  <2>2. PICK e \in xs : Within(bs[j], e)
    BY ZenonT(30), <1>0, <1>1 DEF Covers
  <2>3. Fin(e) \in Nat /\ Fin(e) <= b.addr /\ Fin(bs[j]) <= Fin(e)
    BY <2>2, ExtentFacts DEF Within
  <2>4. bs[j].addr < Fin(bs[j])
    BY ZenonT(30), <2>1, FinAfter
  <2> QED BY <1>2, <2>1, <2>3, <2>4
<1>7. ASSUME NEW j \in 1 .. n + 1, j # 1 PROVE j - 1 \in 1 .. n /\ cs[j] = bs[j - 1]
  <2>1. j - 1 \in 1 .. n /\ (j - 1) + 1 = j
    BY <1>7
  <2> QED BY <1>1, <2>1
<1>8. ASSUME NEW i \in 1 .. n + 1, NEW j \in 1 .. n + 1, i # j PROVE Apart(cs[i], cs[j])
  <2>1. CASE i = 1
    <3>1. j - 1 \in 1 .. n /\ cs[j] = bs[j - 1]
      BY <1>7, <1>8, <2>1
    <3>2. Fin(bs[j - 1]) <= b.addr
      BY <1>6, <3>1
    <3> QED BY <2>1, <3>1, <3>2 DEF Apart
  <2>2. CASE j = 1
    <3>1. i - 1 \in 1 .. n /\ cs[i] = bs[i - 1]
      BY <1>7, <1>8, <2>2
    <3>2. Fin(bs[i - 1]) <= b.addr
      BY <1>6, <3>1
    <3> QED BY <2>2, <3>1, <3>2 DEF Apart
  <2>3. CASE i # 1 /\ j # 1
    <3>1. i - 1 \in 1 .. n /\ cs[i] = bs[i - 1] /\ j - 1 \in 1 .. n /\ cs[j] = bs[j - 1]
      BY ZenonT(30), <1>7, <2>3
    <3>2. i - 1 # j - 1
      BY <1>8
    <3> QED BY ZenonT(30), <1>0, <1>1, <3>1, <3>2 DEF Covers
  <2> QED BY <2>1, <2>2, <2>3
<1>9. ASSUME NEW j \in 1 .. n + 1 PROVE \E e \in ys : Within(cs[j], e)
  <2>1. CASE j = 1
    BY <1>2, <1>4, <2>1 DEF Within
  <2>2. CASE j # 1
    <3>1. j - 1 \in 1 .. n /\ cs[j] = bs[j - 1]
      BY <1>7, <2>2
    <3>2. \E e \in xs : Within(bs[j - 1], e)
      BY ZenonT(30), <1>0, <1>1, <3>1 DEF Covers
    <3> QED BY <3>1, <3>2
  <2> QED BY <2>1, <2>2
<1>10. Begins(cs[1], ys) /\ Ends(cs[n + 1], ys)
  <2>1. Begins(b, ys) /\ Ends(b, ys)
    BY <1>4 DEF Begins, Ends
  <2>2. CASE n = 0
    BY <2>1, <2>2
  <2>3. CASE n # 0
    <3>1. n \in 1 .. n /\ n # 0
      BY <2>3
    <3>2. cs[n + 1] = bs[n]
      BY ZenonT(30), <1>1, <3>1
    <3>3. Ends(bs[n], xs)
      BY ZenonT(30), <1>0, <1>1, <3>1 DEF Covers
    <3> QED BY <2>1, <3>2, <3>3 DEF Ends
  <2> QED BY <2>2, <2>3
<1>11. ASSUME NEW j \in 1 .. n
       PROVE  Follows(cs[j], cs[j + 1], ys) /\ (j = 1 => ~Adjacent(cs[j], cs[j + 1]))
  <2>1. cs[j + 1] = bs[j]
    BY <1>1
  <2>2. CASE j = 1
    <3>1. ~Adjacent(b, bs[1])
      BY <1>2, <1>6, <2>2 DEF Adjacent, Fin
    <3>2. Ends(b, ys) /\ Begins(bs[1], ys)
      <4>0. n # 0
        BY <2>2
      <4>1. Begins(bs[1], xs)
        BY ZenonT(30), <1>0, <1>1, <4>0 DEF Covers
      <4> QED BY <1>4, <4>1 DEF Begins, Ends
    <3> QED BY <2>1, <2>2, <3>1, <3>2 DEF Follows
  <2>3. CASE j # 1
    <3>1. j - 1 \in 1 .. n - 1 /\ (j - 1) + 1 = j /\ j \in 1 .. n + 1
      BY <2>3
    <3>2. cs[j] = bs[j - 1] /\ Follows(bs[j - 1], bs[j], xs)
      BY ZenonT(30), <1>0, <1>1, <1>7, <2>3, <3>1 DEF Covers
    <3>3. Begins(bs[j], ys) => Begins(bs[j], xs)
      <4>1. bs[j].addr # x.addr
        BY <1>2, <1>4, <1>6
      <4> QED BY <4>1 DEF Begins
    <3>4. Begins(bs[j], xs) => Begins(bs[j], ys)
      BY DEF Begins
    <3>5. Ends(bs[j - 1], xs) => Ends(bs[j - 1], ys)
      BY DEF Ends
    <3> QED BY <2>1, <2>3, <3>2, <3>3, <3>4, <3>5 DEF Follows
  <2> QED BY <2>2, <2>3
<1>12. \A e \in ys : \E j \in 1 .. n + 1 : cs[j].addr = e.addr
  <2>1. \A e \in xs : \E j \in 1 .. n : bs[j].addr = e.addr
    BY ZenonT(30), <1>0, <1>1 DEF Covers
  <2>2. \A j \in 1 .. n : j + 1 \in 1 .. n + 1 /\ cs[j + 1] = bs[j]
    BY <1>1
  <2>3. 1 \in 1 .. n + 1
    OBVIOUS
  <2>4. ASSUME NEW e \in xs PROVE \E j \in 1 .. n + 1 : cs[j].addr = e.addr
    <3>1. PICK j \in 1 .. n : bs[j].addr = e.addr
      BY <2>1
    <3> QED BY ZenonT(30), <2>2, <3>1
  <2>5. cs[1].addr = x.addr
    BY <1>4
  <2> QED BY <2>3, <2>4, <2>5
<1>13. Covers(cs, ys)
  <2>1. Len(cs) - 1 = n
    BY <1>1
  <2> QED BY ZenonT(30), <1>1, <1>8, <1>9, <1>10, <1>11, <1>12, <2>1 DEF Covers
<1>14. Merged(cs)
  <2> SUFFICES ASSUME NEW j \in 1 .. n, cs[j].free, cs[j + 1].free, Adjacent(cs[j], cs[j + 1])
               PROVE  FALSE
    BY <1>1 DEF Merged
  <2>1. j # 1
    BY <1>11
  <2>2. j - 1 \in 1 .. n - 1 /\ (j - 1) + 1 = j /\ j \in 1 .. n + 1
    BY <2>1
  <2>3. cs[j] = bs[j - 1] /\ cs[j + 1] = bs[j]
    BY <1>1, <1>7, <2>1, <2>2
  <2> QED BY ZenonT(30), <1>0, <1>1, <2>2, <2>3 DEF Merged
<1>15. Owned(cs, L)
  <2>1. \A j \in 1 .. n : j + 1 \in 1 .. n + 1 /\ cs[j + 1] = bs[j]
    BY <1>1
  <2>2. \A j \in 1 .. n + 1 : ~cs[j].free => \E k \in 1 .. n : cs[j] = bs[k]
    BY <1>7
  <2>3. ASSUME NEW a \in L
        PROVE  \E j \in 1 .. n + 1 : ~cs[j].free /\ a.ptr = cs[j].addr + HDR /\ a.size <= cs[j].size
    <3>1. PICK k \in 1 .. n : ~bs[k].free /\ a.ptr = bs[k].addr + HDR /\ a.size <= bs[k].size
      BY ZenonT(30), <1>0, <1>1 DEF Owned
    <3> QED BY ZenonT(30), <2>1, <3>1
  <2>4. ASSUME NEW j \in 1 .. n + 1, ~cs[j].free PROVE \E a \in L : a.ptr = cs[j].addr + HDR
    <3>1. PICK k \in 1 .. n : cs[j] = bs[k]
      BY <2>2, <2>4
    <3> QED BY <1>0, <1>1, <2>4, <3>1 DEF Owned
  <2>5. \A a, c \in L : a.ptr = c.ptr => a = c
    BY <1>0 DEF Owned
  <2> QED BY <1>1, <2>3, <2>4, <2>5 DEF Owned
<1> QED BY <1>3, <1>5, <1>13, <1>14, <1>15 DEF Chain

\* What heap_extend's caller puts in front of the chain: a new block, taken.
NewTaken(bs, a, s, n, ds, cs) ==
  /\ Pushed([addr |-> a, size |-> s, free |-> TRUE], bs, ds)
  /\ cs \in Seq(Block) /\ Taken(ds, 1, n, cs)

LEMMA GrowShape ==
  ASSUME NEW bs \in Seq(Block), NEW a \in Nat, NEW s \in Nat, NEW n \in Nat, n <= s
  PROVE  NewTaken(bs, a, s, n, <<[addr |-> a, size |-> s, free |-> TRUE]>> \o bs,
                  split_block([addr |-> a, size |-> s, free |-> FALSE], n) \o bs)
<1>0. SUFFICES ASSUME NEW ds, ds = <<[addr |-> a, size |-> s, free |-> TRUE]>> \o bs,
                      NEW cs, cs = split_block([addr |-> a, size |-> s, free |-> FALSE], n) \o bs
               PROVE  /\ ds \in Seq(Block) /\ Len(ds) = Len(bs) + 1
                      /\ ds[1] = [addr |-> a, size |-> s, free |-> TRUE]
                      /\ \A j \in 1 .. Len(bs) : ds[j + 1] = bs[j]
                      /\ cs \in Seq(Block) /\ Taken(ds, 1, n, cs)
  BY ZenonT(30) DEF NewTaken, Pushed
<1>1. Len(bs) \in Nat
  OBVIOUS
<1>2. PICK b \in Block : b = [addr |-> a, size |-> s, free |-> TRUE]
  BY ZenonT(30) DEF Block
<1>3. PICK c \in Block : c = [addr |-> a, size |-> s, free |-> FALSE]
  BY ZenonT(30) DEF Block
<1>4. /\ b.addr = a /\ b.size = s /\ c.addr = a /\ c.size = s
      /\ [b EXCEPT !.free = FALSE] = c
      /\ [c EXCEPT !.size = n] = [addr |-> a, size |-> n, free |-> FALSE]
  <2>1. b.addr = a /\ b.size = s
    BY <1>2
  <2>2. c.addr = a /\ c.size = s
    BY <1>3
  <2>3. c.free = FALSE
    BY <1>3
  <2> QED BY ZenonT(30), <1>3, <2>1, <2>2, <2>3, FieldSet
<1>5. <<b>> \in Seq(Block) /\ Len(<<b>>) = 1 /\ <<b>>[1] = b
  OBVIOUS
<1>6. /\ ds \in Seq(Block) /\ Len(ds) = 1 + Len(bs) /\ \A j \in 1 .. 1 : ds[j] = <<b>>[j]
      /\ \A j \in 1 .. Len(bs) : ds[1 + j] = bs[j]
  <2>1. ds = <<b>> \o bs
    BY <1>0, <1>2
  <2>2. ds \in Seq(Block) /\ Row(ds, <<b>>, bs)
    BY ZenonT(30), <1>5, <2>1, RowOfTwo
  <2> QED BY <1>5, <2>2 DEF Row
<1>7. /\ ds \in Seq(Block) /\ Len(ds) = Len(bs) + 1 /\ ds[1] = b
      /\ \A j \in 1 .. Len(bs) : ds[j + 1] = bs[j]
  BY <1>1, <1>5, <1>6
<1>8. CASE s >= n + HDR + ALIGN
  <2>1. PICK m : m = <<[addr |-> a, size |-> n, free |-> FALSE], Rest(b, n)>>
    BY ZenonT(30)
  <2>2. split_block(c, n) = m
    BY ZenonT(30), <1>4, <1>8, <2>1 DEF split_block, Rest
  <2>3. [addr |-> a, size |-> n, free |-> FALSE] \in Block
    BY ZenonT(30) DEF Block
  <2>4. Rest(b, n) \in Block
    <3>1. b.addr + HDR + n \in Nat /\ b.size - n - HDR \in Nat
      <4>1. a + HDR + n \in Nat /\ s - n - HDR \in Nat
        BY <1>8, SizeFacts
      <4> QED BY <1>4, <4>1
    <3> QED BY ZenonT(30), <3>1 DEF Block, Rest
  <2>5. /\ m \in Seq(Block) /\ Len(m) = 2
        /\ m[1] = [addr |-> a, size |-> n, free |-> FALSE] /\ m[2] = Rest(b, n)
    BY <2>1, <2>3, <2>4
  <2>6. /\ cs \in Seq(Block) /\ Len(cs) = 2 + Len(bs)
        /\ \A j \in 1 .. 2 : cs[j] = m[j]
        /\ \A j \in 1 .. Len(bs) : cs[2 + j] = bs[j]
    <3>1. cs = m \o bs
      BY ZenonT(30), <1>0, <1>3, <2>2
    <3>2. cs \in Seq(Block) /\ Row(cs, m, bs)
      BY <2>5, <3>1, RowOfTwo
    <3> QED BY <2>5, <3>2 DEF Row
  <2>7. n + HDR + ALIGN <= ds[1].size
    BY <1>4, <1>7, <1>8, SizeFacts
  <2>8. /\ cs[1] = [addr |-> ds[1].addr, size |-> n, free |-> FALSE] /\ cs[1 + 1] = Rest(ds[1], n)
        /\ Len(cs) = Len(ds) + 1
    <3>1. cs[1] = m[1] /\ cs[2] = m[2] /\ 1 + 1 = 2
      BY <2>6
    <3>2. Len(cs) = Len(ds) + 1
      BY <1>1, <1>7, <2>6
    <3> QED BY ZenonT(30), <1>4, <1>7, <2>5, <3>1, <3>2
  <2>9. ASSUME NEW j \in 1 + 1 .. Len(ds) PROVE cs[j + 1] = ds[j]
    <3>1. j - 1 \in 1 .. Len(bs) /\ 2 + (j - 1) = j + 1 /\ (j - 1) + 1 = j
      BY <1>1, <1>7
    <3>2. cs[2 + (j - 1)] = bs[j - 1] /\ ds[(j - 1) + 1] = bs[j - 1]
      BY <1>7, <2>6, <3>1
    <3> QED BY <3>1, <3>2
  <2>10. \A j \in 1 .. 1 - 1 : cs[j] = ds[j]
    OBVIOUS
  <2>11. TakenSplit(ds, 1, n, cs)
    BY <2>7, <2>8, <2>9, <2>10 DEF TakenSplit
  <2> QED BY <1>2, <1>4, <1>7, <2>6, <2>11 DEF Taken
<1>9. CASE ~(s >= n + HDR + ALIGN)
  <2>1. split_block(c, n) = <<c>>
    BY <1>4, <1>9 DEF split_block
  <2>2. <<c>> \in Seq(Block) /\ Len(<<c>>) = 1 /\ <<c>>[1] = c
    OBVIOUS
  <2>3. /\ cs \in Seq(Block) /\ Len(cs) = 1 + Len(bs)
        /\ \A j \in 1 .. 1 : cs[j] = <<c>>[j]
        /\ \A j \in 1 .. Len(bs) : cs[1 + j] = bs[j]
    <3>1. cs = <<c>> \o bs
      BY ZenonT(30), <1>0, <1>3, <2>1
    <3>2. cs \in Seq(Block) /\ Row(cs, <<c>>, bs)
      BY ZenonT(30), <2>2, <3>1, RowOfTwo
    <3> QED BY <2>2, <3>2 DEF Row
  <2>4. cs[1] = [ds[1] EXCEPT !.free = FALSE] /\ Len(cs) = Len(ds)
    <3>1. cs[1] = c
      BY <2>2, <2>3
    <3>2. Len(cs) = Len(ds)
      BY <1>1, <1>7, <2>3
    <3> QED BY ZenonT(30), <1>4, <1>7, <3>1, <3>2
  <2>5. ASSUME NEW j \in 1 .. Len(ds), j # 1 PROVE cs[j] = ds[j]
    <3>1. j - 1 \in 1 .. Len(bs) /\ 1 + (j - 1) = j /\ (j - 1) + 1 = j
      BY <1>1, <1>7, <2>5
    <3> QED BY ZenonT(60), <1>7, <2>3, <3>1
  <2>6. TakenWhole(ds, 1, cs)
    BY <2>4, <2>5 DEF TakenWhole
  <2> QED BY <1>2, <1>4, <1>7, <2>3, <2>6 DEF Taken
<1> QED BY <1>8, <1>9

\* A round of heap_extend's loop, and the state it works on.
Round(s, i) ==
  IF s.done # i - 1 \/ heap_next + s.done * PGSIZE >= KHEAP_PAGES * PGSIZE \/ s.frames = 0
  THEN s ELSE ExtendRound(s)

Start == [done |-> 0, frames |-> frames, levels |-> levels, tables |-> tables, mapped |-> mapped]

Progress == [done : Nat, frames : 0 .. FRAMES, levels : 0 .. UPPER,
             tables : SUBSET TablesOf(Int), mapped : SUBSET Int]

\* The fields of a state of the loop, and a state with one field set.
LEMMA ProgressFacts ==
  ASSUME NEW s \in Progress
  PROVE  /\ s.done \in Nat /\ s.frames \in 0 .. FRAMES /\ s.levels \in 0 .. UPPER
         /\ s.tables \in SUBSET TablesOf(Int) /\ s.mapped \in SUBSET Int
BY ZenonT(30) DEF Progress

\* The tables of the upper levels that a walk adds.
LEMMA LevelsFit ==
  ASSUME NEW f \in 0 .. FRAMES, NEW l \in 0 .. UPPER, NEW u,
         u = IF f < UPPER - l THEN f ELSE UPPER - l
  PROVE  /\ f - u \in 0 .. FRAMES /\ l + u \in 0 .. UPPER
         /\ f - u > 0 => l + u = UPPER /\ f - u - 1 \in 0 .. FRAMES
BY SizeFacts

\* What vmm_walk leaves: table t is missing only if there are no frames left.
Walked(s, t, w) == /\ w \in Progress /\ w.done = s.done /\ w.mapped = s.mapped
                   /\ w.tables \subseteq s.tables \cup {t}
                   /\ w.frames # 0 => t \in w.tables

LEMMA WalkFacts ==
  ASSUME NEW s \in Progress, NEW t \in TablesOf(Int)
  PROVE  Walked(s, t, vmm_walk(s, t))
<1>1. PICK u : u = IF s.frames < UPPER - s.levels THEN s.frames ELSE UPPER - s.levels
  BY ZenonT(30)
<1>2. PICK left : left = s.frames - u
  BY ZenonT(30)
<1>3. PICK made \in BOOLEAN : made = (s.levels + u = UPPER /\ t \notin s.tables /\ left > 0)
  BY ZenonT(30)
<1>4. /\ left \in 0 .. FRAMES /\ s.levels + u \in 0 .. UPPER
      /\ left > 0 => s.levels + u = UPPER /\ left - 1 \in 0 .. FRAMES
  BY ZenonT(30), <1>1, <1>2, ProgressFacts, LevelsFit
<1>5. PICK f : f = IF made THEN left - 1 ELSE left
  BY ZenonT(30)
<1>6. PICK ts : ts = IF made THEN s.tables \cup {t} ELSE s.tables
  BY ZenonT(30)
<1>7. vmm_walk(s, t) = [done |-> s.done, frames |-> f, levels |-> s.levels + u,
                        tables |-> ts, mapped |-> s.mapped]
  BY ZenonT(30), <1>1, <1>2, <1>3, <1>5, <1>6 DEF vmm_walk
<1>8. f \in 0 .. FRAMES
  BY ZenonT(30), <1>3, <1>4, <1>5
<1>9. ts \in SUBSET TablesOf(Int) /\ ts \subseteq s.tables \cup {t}
  BY ZenonT(30), <1>6, ProgressFacts
<1>10. ASSUME f # 0 PROVE t \in ts
  <2>1. CASE made
    BY ZenonT(30), <1>6, <2>1
  <2>2. CASE ~made
    <3>1. left > 0
      BY <1>4, <1>5, <1>10, <2>2
    <3> QED BY ZenonT(30), <1>3, <1>4, <1>6, <2>2, <3>1
  <2> QED BY ZenonT(30), <2>1, <2>2
<1>11. PICK w \in Progress : w = vmm_walk(s, t)
  BY ZenonT(30), <1>4, <1>7, <1>8, <1>9, ProgressFacts DEF Progress
<1>12. w.done = s.done /\ w.frames = f /\ w.tables = ts /\ w.mapped = s.mapped
  BY <1>7, <1>11
<1> QED BY ZenonT(30), <1>9, <1>10, <1>11, <1>12 DEF Walked

\* What a round that finds a frame does to the pages: page p is counted, and it is mapped unless
\* there are no frames left.
Rounded(s, p, r) == /\ r \in Progress /\ r.done = s.done + 1
                    /\ s.mapped \subseteq r.mapped /\ r.mapped \subseteq s.mapped \cup {p}
                    /\ r.tables \subseteq s.tables \cup {p \div PTENTRIES}
                    /\ r.frames # 0 => p \in r.mapped

LEMMA RoundFacts ==
  ASSUME NEW s \in Progress, s.frames # 0, heap_next \div PGSIZE \in Int
  PROVE  Rounded(s, heap_next \div PGSIZE + s.done, ExtendRound(s))
<1>1. PICK p \in Int : p = heap_next \div PGSIZE + s.done
  BY ProgressFacts
<1>2. PICK t \in TablesOf(Int) : t = p \div PTENTRIES
  BY ZenonT(30) DEF TablesOf
<1>3. s.frames - 1 \in 0 .. FRAMES
  BY ProgressFacts, SizeFacts
<1>4. PICK a \in Progress : a = [s EXCEPT !.frames = @ - 1]
  BY ZenonT(30), <1>3 DEF Progress
<1>5. a.done = s.done /\ a.tables = s.tables /\ a.mapped = s.mapped
  BY <1>4 DEF Progress
<1>6. PICK w : w = vmm_walk(a, t)
  BY ZenonT(30)
<1>7. /\ w \in Progress /\ w.done = a.done /\ w.mapped = a.mapped
      /\ w.tables \subseteq a.tables \cup {t} /\ (w.frames # 0 => t \in w.tables)
  BY ZenonT(30), <1>6, WalkFacts DEF Walked
<1>8. PICK mp : mp = IF t \in w.tables THEN w.mapped \cup {p} ELSE w.mapped
  BY ZenonT(30)
<1>9. mp \in SUBSET Int
  BY ZenonT(30), <1>7, <1>8, ProgressFacts
<1>10. PICK m \in Progress : m = [w EXCEPT !.mapped = mp]
  BY ZenonT(30), <1>7, <1>9 DEF Progress
<1>11. m.done = w.done /\ m.frames = w.frames /\ m.tables = w.tables /\ m.mapped = mp
  BY <1>7, <1>10 DEF Progress
<1>12. m = vmm_map(a, p)
  BY ZenonT(30), <1>2, <1>6, <1>8, <1>10 DEF vmm_map
<1>13. m.done + 1 \in Nat
  BY ProgressFacts
<1>14. PICK r \in Progress : r = [m EXCEPT !.done = @ + 1]
  BY ZenonT(30), <1>13 DEF Progress
<1>15. r.done = m.done + 1 /\ r.frames = m.frames /\ r.tables = m.tables /\ r.mapped = m.mapped
  BY <1>14 DEF Progress
<1>16. r = ExtendRound(s)
  BY ZenonT(30), <1>1, <1>4, <1>12, <1>14 DEF ExtendRound
<1>17. r.done = s.done + 1 /\ r.tables \subseteq s.tables \cup {t}
  BY ZenonT(30), <1>5, <1>7, <1>11, <1>15
<1>18. /\ s.mapped \subseteq r.mapped /\ r.mapped \subseteq s.mapped \cup {p}
       /\ r.frames # 0 => p \in r.mapped
  BY ZenonT(30), <1>5, <1>7, <1>8, <1>11, <1>15
<1> QED BY ZenonT(30), <1>1, <1>2, <1>16, <1>17, <1>18 DEF Rounded

\* How far heap_extend has come in the pages from q on: the pages up to there are mapped as long as
\* there are frames.
Grown(q, s) == /\ s \in Progress
               /\ q + s.done <= KHEAP_PAGES
               /\ mapped \subseteq s.mapped /\ s.mapped \subseteq 0 .. q + s.done - 1
               /\ s.frames # 0 => 0 .. q + s.done - 1 \subseteq s.mapped
               /\ s.tables \subseteq TablesOf(0 .. q + s.done - 1)

\* A round grows the heap by one page at most, below KHEAP_BASE + KHEAP_SIZE.
LEMMA RoundGrows ==
  ASSUME NEW q \in 0 .. KHEAP_PAGES, PagesInv(q), heap_next \div PGSIZE = q,
         NEW s, Grown(q, s), NEW i \in Nat
  PROVE  Grown(q, Round(s, i))
<1>1. CASE s.done # i - 1 \/ heap_next + s.done * PGSIZE >= KHEAP_PAGES * PGSIZE \/ s.frames = 0
  BY <1>1 DEF Round
<1>2. CASE ~(s.done # i - 1 \/ heap_next + s.done * PGSIZE >= KHEAP_PAGES * PGSIZE \/ s.frames = 0)
  <2>1. Round(s, i) = ExtendRound(s)
    BY <1>2 DEF Round
  <2>2. PICK r : r = ExtendRound(s)
    OBVIOUS
  <2>3. s \in Progress /\ s.done \in Nat /\ s.frames # 0 /\ q \in Int /\ KHEAP_PAGES \in Nat /\ q \in Nat
    <3>1. s \in Progress
      BY ZenonT(30) DEF Grown
    <3>2. q \in Int /\ KHEAP_PAGES \in Nat /\ q \in Nat
      BY SizeFacts
    <3> QED BY ZenonT(30), <1>2, <3>1, <3>2, ProgressFacts
  <2>4. PICK p \in Nat : p = q + s.done
    BY <2>3
  <2>5. /\ r \in Progress /\ r.done = s.done + 1
        /\ s.mapped \subseteq r.mapped /\ r.mapped \subseteq s.mapped \cup {p}
        /\ r.tables \subseteq s.tables \cup {p \div PTENTRIES}
        /\ r.frames # 0 => p \in r.mapped
    <3>1. Rounded(s, p, r)
      BY ZenonT(30), <2>2, <2>3, <2>4, RoundFacts
    <3> QED BY ZenonT(30), <3>1 DEF Rounded
  <2>6. q + r.done <= KHEAP_PAGES
    <3>1. q * PGSIZE + s.done * PGSIZE < KHEAP_PAGES * PGSIZE
      <4>1. heap_next = q * PGSIZE
        BY ZenonT(30) DEF PagesInv
      <4> QED BY <1>2, <2>3, <4>1, SizeFacts
    <3>2. q + s.done < KHEAP_PAGES
      <4> SUFFICES ASSUME KHEAP_PAGES <= q + s.done PROVE FALSE
        BY <2>3
      <4>1. KHEAP_PAGES * PGSIZE <= (q + s.done) * PGSIZE
        BY <2>3, SizeFacts
      <4>2. (q + s.done) * PGSIZE = q * PGSIZE + s.done * PGSIZE
        BY <2>3, SizeFacts
      <4> QED BY <2>3, <3>1, <4>1, <4>2, SizeFacts
    <3> QED BY <2>3, <2>5, <3>2
  <2>7. /\ mapped \subseteq s.mapped /\ s.mapped \subseteq 0 .. p - 1
        /\ 0 .. p - 1 \subseteq s.mapped
        /\ s.tables \subseteq TablesOf(0 .. p - 1)
    <3>1. /\ mapped \subseteq s.mapped /\ s.mapped \subseteq 0 .. q + s.done - 1
          /\ 0 .. q + s.done - 1 \subseteq s.mapped
          /\ s.tables \subseteq TablesOf(0 .. q + s.done - 1)
      BY ZenonT(30), <2>3 DEF Grown
    <3>2. q + s.done - 1 = p - 1
      BY <2>3, <2>4
    <3> QED BY ZenonT(30), <3>1, <3>2
  <2>8. PICK ps : ps = 0 .. q + r.done - 1
    BY ZenonT(30)
  <2>9. \A x : x \in ps <=> x \in 0 .. p - 1 \/ x = p
    BY <2>3, <2>4, <2>5, <2>8
  <2>10. mapped \subseteq r.mapped /\ r.mapped \subseteq ps /\ (r.frames # 0 => ps \subseteq r.mapped)
    BY ZenonT(30), <2>5, <2>7, <2>9
  <2>11. r.tables \subseteq TablesOf(ps)
    BY ZenonT(30), <2>5, <2>7, <2>9 DEF TablesOf
  <2>12. Grown(q, r)
    BY ZenonT(30), <2>5, <2>6, <2>8, <2>10, <2>11 DEF Grown
  <2> QED BY <2>1, <2>2, <2>12
<1> QED BY <1>1, <1>2

\* The page of an address in the pages from q on.
LEMMA PageOf ==
  ASSUME NEW q \in Nat, NEW n \in Nat, NEW x \in q * PGSIZE .. (q + n) * PGSIZE - 1
  PROVE  x \div PGSIZE \in q .. q + n - 1
<1>1. PGSIZE \in Nat \ {0} /\ q * PGSIZE \in Nat /\ (q + n) * PGSIZE \in Nat
  BY SizeFacts
<1>2. x \in Nat
  BY <1>1
<1>3. PICK k \in Nat : k = x \div PGSIZE
  BY <1>1, <1>2, Divided
<1>4. k * PGSIZE <= x /\ x < k * PGSIZE + PGSIZE /\ k * PGSIZE \in Nat
  BY <1>1, <1>2, <1>3, Divided
<1>5. q <= k
  <2> SUFFICES ASSUME k + 1 <= q PROVE FALSE
    BY <1>3
  <2>1. (k + 1) * PGSIZE <= q * PGSIZE
    BY <1>1, <1>3
  <2>2. (k + 1) * PGSIZE = k * PGSIZE + PGSIZE
    BY <1>1, <1>3
  <2> QED BY <1>1, <1>2, <1>4, <2>1, <2>2
<1>6. k < q + n
  <2> SUFFICES ASSUME q + n <= k PROVE FALSE
    BY <1>3
  <2>1. (q + n) * PGSIZE <= k * PGSIZE
    BY <1>1, <1>3
  <2> QED BY <1>1, <1>2, <1>4, <2>1
<1> QED BY <1>3, <1>5, <1>6

LEMMA PageBoundary ==
  ASSUME NEW q \in Nat PROVE q * PGSIZE \in Nat /\ (q * PGSIZE) \div PGSIZE = q
<1>1. q * PGSIZE \in Nat /\ (q + 1) * PGSIZE = q * PGSIZE + PGSIZE /\ PGSIZE \in Nat /\ PGSIZE > 0
  BY SizeFacts
<1>2. q * PGSIZE \in q * PGSIZE .. (q + 1) * PGSIZE - 1
  BY <1>1
<1>3. (q * PGSIZE) \div PGSIZE \in q .. q + 1 - 1
  BY <1>2, PageOf
<1> QED BY <1>1, <1>3

-----------------------------------------------------------------------------
(* kfree *)

\* us is ts with the free neighbours at i and i + 1 merged.
Joined(ts, i, us) ==
  /\ i \in 1 .. Len(ts) - 1 /\ ts[i].free /\ ts[i + 1].free /\ Adjacent(ts[i], ts[i + 1])
  /\ us \in Seq(Block) /\ Len(us) = Len(ts) - 1
  /\ us[i].addr = ts[i].addr /\ us[i].size = ts[i].size + HDR + ts[i + 1].size /\ us[i].free
  /\ \A j \in 1 .. i - 1 : us[j] = ts[j]
  /\ \A j \in i + 1 .. Len(us) : us[j] = ts[j + 1]

\* Two blocks in a row, and one that is apart from both.
LEMMA ApartJoined ==
  ASSUME NEW b, NEW c, NEW u, NEW x,
         b.addr \in Nat, Fin(b) \in Nat, c.addr \in Nat, Fin(c) \in Nat, x.addr \in Nat, Fin(x) \in Nat,
         x.addr < Fin(x), Fin(b) = c.addr, u.addr = b.addr, Fin(u) = Fin(c),
         Apart(b, x), Apart(c, x)
  PROVE  Apart(u, x) /\ Apart(x, u)
BY DEF Apart

\* Two blocks in a row lie in one extent, or the second begins one.
LEMMA OneExtent ==
  ASSUME NEW xs, Extents(xs), NEW b, NEW c, NEW e \in xs, NEW f \in xs, Within(b, e), Within(c, f),
         b.addr \in Nat, Fin(b) \in Nat, c.addr \in Nat, Fin(c) \in Nat,
         b.addr < Fin(b), c.addr < Fin(c), Fin(b) = c.addr, ~Begins(c, xs)
  PROVE  e = f
<1> SUFFICES ASSUME e # f PROVE FALSE
  OBVIOUS
<1>1. e.addr \in Nat /\ Fin(e) \in Nat /\ f.addr \in Nat /\ Fin(f) \in Nat
  BY ExtentFacts
<1>2. c.addr # f.addr
  BY DEF Begins
<1>3. Apart(e, f)
  BY DEF Extents
<1> QED BY <1>1, <1>2, <1>3 DEF Within, Apart

\* The block two neighbours are merged into.
LEMMA JoinedFacts ==
  ASSUME NEW ts \in Seq(Block), NEW i, NEW us, Joined(ts, i, us)
  PROVE  /\ i \in Nat /\ i \in 1 .. Len(ts) /\ i + 1 \in 1 .. Len(ts) /\ i \in 1 .. Len(us)
         /\ Fin(ts[i]) = ts[i + 1].addr
         /\ us[i].addr = ts[i].addr /\ Fin(us[i]) = Fin(ts[i + 1])
<1>1. Len(ts) \in Nat /\ i \in 1 .. Len(ts) - 1 /\ Len(us) = Len(ts) - 1
  BY BlockFacts DEF Joined
<1>2. i \in Nat /\ i \in 1 .. Len(ts) /\ i + 1 \in 1 .. Len(ts) /\ i \in 1 .. Len(us)
  BY <1>1
<1>3. ts[i].addr \in Nat /\ ts[i].size \in Nat /\ ts[i + 1].size \in Nat
  BY <1>2, BlockFacts
<1>4. us[i].addr = ts[i].addr /\ us[i].size = ts[i].size + HDR + ts[i + 1].size
  BY DEF Joined
<1>5. ts[i].addr + HDR + ts[i].size = ts[i + 1].addr
  BY DEF Joined, Adjacent
<1>6. us[i].addr + HDR + us[i].size = ts[i + 1].addr + HDR + ts[i + 1].size
  <2>1. \A a, s, z \in Nat : a + HDR + (s + HDR + z) = (a + HDR + s) + HDR + z
    BY SizeFacts
  <2> QED BY <1>3, <1>4, <1>5, <2>1
<1> QED BY <1>2, <1>4, <1>5, <1>6 DEF Fin

\* Merging keeps the chain.
LEMMA JoinCovers ==
  ASSUME NEW xs, Extents(xs), NEW ts \in Seq(Block), Covers(ts, xs), NEW i, NEW us, Joined(ts, i, us)
  PROVE  Covers(us, xs)
<1> DEFINE old(j) == IF j <= i THEN j ELSE j + 1
<1>1. PICK n \in Nat : n = Len(us) /\ Len(ts) = n + 1
  BY BlockFacts DEF Joined
<1>2. /\ i \in Nat /\ i \in 1 .. n + 1 /\ i + 1 \in 1 .. n + 1 /\ i \in 1 .. n
      /\ Fin(ts[i]) = ts[i + 1].addr
      /\ us[i].addr = ts[i].addr /\ Fin(us[i]) = Fin(ts[i + 1])
  BY <1>1, JoinedFacts
<1>3. /\ \A j \in 1 .. i - 1 : us[j] = ts[j]
      /\ \A j \in i + 1 .. n : us[j] = ts[j + 1]
  BY <1>1 DEF Joined
<1>4. ASSUME NEW j \in 1 .. n + 1 PROVE ts[j].addr \in Nat /\ Fin(ts[j]) \in Nat /\ ts[j].addr < Fin(ts[j])
  <2>1. ts[j].addr \in Nat /\ ts[j].size \in Nat /\ Fin(ts[j]) \in Nat
    BY <1>1, BlockFacts
  <2> QED BY <2>1, SizeFacts DEF Fin
<1>5. ASSUME NEW j \in 1 .. n, j # i
      PROVE  old(j) \in 1 .. n + 1 /\ old(j) # i /\ old(j) # i + 1 /\ us[j] = ts[old(j)]
  <2>1. CASE j < i
    <3>1. old(j) = j /\ j \in 1 .. i - 1 /\ j \in 1 .. n + 1 /\ j # i + 1
      BY <1>1, <1>2, <2>1
    <3> QED BY <1>3, <1>5, <3>1
  <2>2. CASE j > i
    <3>1. old(j) = j + 1 /\ j \in i + 1 .. n /\ j + 1 \in 1 .. n + 1 /\ j + 1 # i + 1 /\ j + 1 # i
      BY <1>1, <1>2, <2>2
    <3> QED BY <1>3, <3>1
  <2> QED BY <1>1, <1>2, <1>5, <2>1, <2>2
<1>6. \A j, k \in 1 .. n : j # i /\ k # i /\ j # k => old(j) # old(k)
  BY <1>1, <1>2
<1> HIDE DEF old
<1>7. \A j, k \in 1 .. n + 1 : j # k => Apart(ts[j], ts[k])
  BY <1>1 DEF Covers
<1>8. ASSUME NEW j \in 1 .. n, j # i PROVE Apart(us[i], us[j]) /\ Apart(us[j], us[i])
  <2>1. old(j) \in 1 .. n + 1 /\ old(j) # i /\ old(j) # i + 1 /\ us[j] = ts[old(j)]
    BY <1>5, <1>8
  <2>2. Apart(ts[i], ts[old(j)]) /\ Apart(ts[i + 1], ts[old(j)])
    BY <1>2, <1>7, <2>1
  <2> QED BY ZenonT(30), <1>2, <1>4, <2>1, <2>2, ApartJoined
<1>9. ASSUME NEW j \in 1 .. n, NEW k \in 1 .. n, j # k PROVE Apart(us[j], us[k])
  <2>1. CASE j = i \/ k = i
    BY <1>8, <1>9, <2>1
  <2>2. CASE j # i /\ k # i
    <3>1. old(j) \in 1 .. n + 1 /\ us[j] = ts[old(j)] /\ old(k) \in 1 .. n + 1 /\ us[k] = ts[old(k)]
      BY <1>5, <2>2
    <3>2. old(j) # old(k)
      BY <1>6, <1>9, <2>2
    <3> QED BY <1>7, <3>1, <3>2
  <2> QED BY <2>1, <2>2
<1>10. \A j \in 1 .. n : Follows(ts[j], ts[j + 1], xs)
  BY <1>1 DEF Covers
<1>11. ~Begins(ts[i + 1], xs)
  <2>1. Adjacent(ts[i], ts[i + 1])
    BY DEF Joined
  <2> QED BY <1>2, <1>10, <2>1 DEF Follows
<1>12. ASSUME NEW j \in 1 .. n PROVE \E e \in xs : Within(us[j], e)
  <2>1. CASE j = i
    <3>1. PICK e \in xs : Within(ts[i], e)
      BY ZenonT(30), <1>1, <1>2 DEF Covers
    <3>2. PICK f \in xs : Within(ts[i + 1], f)
      BY ZenonT(30), <1>1, <1>2 DEF Covers
    <3>3. PICK b, c : b = ts[i] /\ c = ts[i + 1]
      OBVIOUS
    <3>4. /\ b.addr \in Nat /\ Fin(b) \in Nat /\ c.addr \in Nat /\ Fin(c) \in Nat
          /\ b.addr < Fin(b) /\ c.addr < Fin(c) /\ Fin(b) = c.addr
      BY <1>2, <1>4, <3>3
    <3>5. e = f
      BY ZenonT(30), <1>11, <3>1, <3>2, <3>3, <3>4, OneExtent
    <3> QED BY <1>2, <2>1, <3>1, <3>2, <3>5 DEF Within
  <2>2. CASE j # i
    <3>1. old(j) \in 1 .. n + 1 /\ us[j] = ts[old(j)]
      BY <1>5, <2>2
    <3>2. \E e \in xs : Within(ts[old(j)], e)
      BY <1>1, <3>1 DEF Covers
    <3> QED BY <3>1, <3>2
  <2> QED BY <2>1, <2>2
<1>13. Begins(us[1], xs) /\ Ends(us[n], xs)
  <2>1. Begins(ts[1], xs) /\ Ends(ts[n + 1], xs)
    <3>1. Len(ts) # 0
      BY <1>1
    <3> QED BY ZenonT(30), <1>1, <3>1 DEF Covers
  <2>2. us[1].addr = ts[1].addr
    <3>1. i = 1 \/ 1 \in 1 .. i - 1
      BY <1>2
    <3> QED BY <1>2, <1>3, <3>1
  <2>3. Fin(us[n]) = Fin(ts[n + 1])
    <3>1. i = n \/ n \in i + 1 .. n
      BY <1>1, <1>2
    <3> QED BY <1>2, <1>3, <3>1
  <2> QED BY <2>1, <2>2, <2>3 DEF Begins, Ends
<1>14. ASSUME NEW j \in 1 .. n - 1 PROVE Follows(us[j], us[j + 1], xs)
  <2>1. CASE j < i - 1
    <3>1. j \in 1 .. i - 1 /\ j + 1 \in 1 .. i - 1 /\ j \in 1 .. n
      BY <1>1, <1>2, <2>1
    <3> QED BY <1>3, <1>10, <3>1
  <2>2. CASE j = i - 1
    <3>1. j \in 1 .. i - 1 /\ j + 1 = i /\ j \in 1 .. n
      BY <1>1, <1>2, <2>2
    <3>2. Follows(ts[j], ts[i], xs) /\ us[j] = ts[j]
      BY <1>3, <1>10, <3>1
    <3> QED BY <1>2, <3>1, <3>2, FollowsSame
  <2>3. CASE j = i
    <3>1. i + 1 \in i + 1 .. n /\ i + 1 \in 1 .. n
      BY <1>1, <1>2, <2>3
    <3>2. Follows(ts[i + 1], ts[(i + 1) + 1], xs) /\ us[i + 1] = ts[(i + 1) + 1]
      BY <1>3, <1>10, <3>1
    <3> QED BY <1>2, <2>3, <3>2, FollowsSame
  <2>4. CASE j > i
    <3>1. j \in i + 1 .. n /\ j + 1 \in i + 1 .. n /\ j + 1 \in 1 .. n
      BY <1>1, <1>2, <2>4
    <3>2. us[j] = ts[j + 1] /\ us[j + 1] = ts[(j + 1) + 1] /\ Follows(ts[j + 1], ts[(j + 1) + 1], xs)
      BY <1>3, <1>10, <3>1
    <3> QED BY <3>2
  <2> QED BY <1>1, <1>2, <2>1, <2>2, <2>3, <2>4
<1>15. ASSUME NEW e \in xs PROVE \E j \in 1 .. n : us[j].addr = e.addr
  <2>1. PICK k \in 1 .. n + 1 : ts[k].addr = e.addr
    BY ZenonT(30), <1>1 DEF Covers
  <2>2. k # i + 1
    BY <1>11, <2>1 DEF Begins
  <2>3. CASE k < i
    <3>1. k \in 1 .. i - 1 /\ k \in 1 .. n
      BY <1>1, <1>2, <2>3
    <3> QED BY <1>3, <2>1, <3>1
  <2>4. CASE k = i
    BY <1>2, <2>1, <2>4
  <2>5. CASE k > i + 1
    <3>1. k - 1 \in i + 1 .. n /\ (k - 1) + 1 = k /\ k - 1 \in 1 .. n
      BY <1>1, <1>2, <2>5
    <3> QED BY <1>3, <2>1, <3>1
  <2> QED BY <1>1, <1>2, <2>2, <2>3, <2>4, <2>5
<1> QED BY ZenonT(30), <1>1, <1>9, <1>12, <1>13, <1>14, <1>15 DEF Covers

\* Merging free blocks takes nothing from anybody.
LEMMA JoinOwned ==
  ASSUME NEW ts \in Seq(Block), NEW L, Owned(ts, L), NEW i, NEW us, Joined(ts, i, us)
  PROVE  Owned(us, L)
<1>1. PICK n \in Nat : n = Len(us) /\ Len(ts) = n + 1
  BY BlockFacts DEF Joined
<1>2. i \in Nat /\ i \in 1 .. n
  BY <1>1, JoinedFacts
<1>3. /\ \A j \in 1 .. i - 1 : us[j] = ts[j]
      /\ \A j \in i + 1 .. n : us[j] = ts[j + 1]
      /\ ts[i].free /\ ts[i + 1].free /\ us[i].free
  BY <1>1 DEF Joined
<1>4. ASSUME NEW k \in 1 .. n + 1, ~ts[k].free PROVE \E j \in 1 .. n : us[j] = ts[k]
  <2>1. k # i /\ k # i + 1
    BY <1>3, <1>4
  <2>2. CASE k < i
    <3>1. k \in 1 .. i - 1 /\ k \in 1 .. n
      BY <1>1, <1>2, <2>2
    <3> QED BY <1>3, <3>1
  <2>3. CASE k > i
    <3>1. k - 1 \in i + 1 .. n /\ (k - 1) + 1 = k /\ k - 1 \in 1 .. n
      BY <1>1, <1>2, <2>1, <2>3
    <3> QED BY <1>3, <3>1
  <2> QED BY <1>1, <1>2, <2>1, <2>2, <2>3
<1>5. ASSUME NEW j \in 1 .. n, ~us[j].free PROVE \E k \in 1 .. n + 1 : us[j] = ts[k]
  <2>1. j # i
    BY <1>3, <1>5
  <2>2. CASE j < i
    <3>1. j \in 1 .. i - 1 /\ j \in 1 .. n + 1
      BY <1>1, <1>2, <2>2
    <3> QED BY <1>3, <3>1
  <2>3. CASE j > i
    <3>1. j \in i + 1 .. n /\ j + 1 \in 1 .. n + 1
      BY <1>1, <1>2, <2>3
    <3> QED BY <1>3, <3>1
  <2> QED BY <1>1, <1>2, <2>1, <2>2, <2>3
<1>6. ASSUME NEW a \in L
      PROVE  \E j \in 1 .. n : ~us[j].free /\ a.ptr = us[j].addr + HDR /\ a.size <= us[j].size
  <2>1. PICK k \in 1 .. n + 1 : ~ts[k].free /\ a.ptr = ts[k].addr + HDR /\ a.size <= ts[k].size
    BY <1>1 DEF Owned
  <2>2. PICK j \in 1 .. n : us[j] = ts[k]
    BY <1>4, <2>1
  <2> QED BY <2>1, <2>2
<1>7. ASSUME NEW j \in 1 .. n, ~us[j].free PROVE \E a \in L : a.ptr = us[j].addr + HDR
  <2>1. PICK k \in 1 .. n + 1 : us[j] = ts[k]
    BY <1>5, <1>7
  <2> QED BY <1>1, <1>7, <2>1 DEF Owned
<1>8. \A a, b \in L : a.ptr = b.ptr => a = b
  BY DEF Owned
<1> QED BY <1>1, <1>6, <1>7, <1>8 DEF Owned

\* ts is what is merged so far, d, followed by the blocks of bs from the k-th on.
Rejoined(ts, d, bs, k) ==
  /\ ts \in Seq(Block) /\ d \in Seq(Block)
  /\ Len(ts) = Len(d) + (Len(bs) - k)
  /\ \A j \in 1 .. Len(d) : ts[j] = d[j]
  /\ \A j \in 1 .. Len(bs) - k : ts[Len(d) + j] = bs[k + j]

\* kfree's loop has passed the first k blocks of bs, and d is what has become of them.
Merging(d, bs, k, xs, L) ==
  /\ Merged(d)
  /\ \E ts : Rejoined(ts, d, bs, k) /\ Covers(ts, xs) /\ Owned(ts, L)

\* The loop leaves the next block as it is.
LEMMA KeepNext ==
  ASSUME NEW bs \in Seq(Block), NEW k \in 0 .. Len(bs) - 1, NEW ts, NEW d,
         Rejoined(ts, d, bs, k), Merged(d),
         ~(d # <<>> /\ d[Len(d)].free /\ bs[k + 1].free /\ Adjacent(d[Len(d)], bs[k + 1]))
  PROVE  Rejoined(ts, Append(d, bs[k + 1]), bs, k + 1) /\ Merged(Append(d, bs[k + 1]))
<1>1. PICK n \in Nat : n = Len(bs)
  BY BlockFacts
<1>2. ts \in Seq(Block) /\ d \in Seq(Block)
  BY DEF Rejoined
<1>3. PICK m \in Nat : m = Len(d)
  BY <1>2, BlockFacts
<1>4. /\ Len(ts) = m + (n - k) /\ \A j \in 1 .. m : ts[j] = d[j]
      /\ \A j \in 1 .. n - k : ts[m + j] = bs[k + j]
  BY ZenonT(30), <1>1, <1>3 DEF Rejoined
<1>5. bs[k + 1] \in Block /\ k + 1 \in 1 .. n
  <2>1. k + 1 \in 1 .. Len(bs)
    BY <1>1
  <2> QED BY <1>1, <2>1, BlockFacts
<1>6. PICK h : h = Append(d, bs[k + 1])
  BY ZenonT(30)
<1>7. h \in Seq(Block) /\ Len(h) = m + 1 /\ (\A j \in 1 .. m : h[j] = d[j]) /\ h[m + 1] = bs[k + 1]
  BY <1>2, <1>3, <1>5, <1>6, Appended
<1>8. Rejoined(ts, h, bs, k + 1)
  <2>1. Len(ts) = (m + 1) + (n - (k + 1))
    BY <1>1, <1>3, <1>4
  <2>2. ASSUME NEW j \in 1 .. m + 1 PROVE ts[j] = h[j]
    <3>1. CASE j = m + 1
      <4>1. 1 \in 1 .. n - k
        BY <1>1
      <4> QED BY <1>4, <1>7, <3>1, <4>1
    <3>2. CASE j # m + 1
      <4>1. j \in 1 .. m
        BY <1>3, <3>2
      <4> QED BY <1>4, <1>7, <4>1
    <3> QED BY <3>1, <3>2
  <2>3. ASSUME NEW j \in 1 .. n - (k + 1) PROVE ts[(m + 1) + j] = bs[(k + 1) + j]
    <3>1. 1 + j \in 1 .. n - k /\ m + (1 + j) = (m + 1) + j /\ k + (1 + j) = (k + 1) + j
      BY <1>1, <1>3
    <3>2. ts[m + (1 + j)] = bs[k + (1 + j)]
      BY ZenonT(30), <1>4, <3>1
    <3> QED BY ZenonT(30), <3>1, <3>2
  <2> QED BY ZenonT(30), <1>1, <1>2, <1>7, <2>1, <2>2, <2>3 DEF Rejoined
<1>9. Merged(h)
  <2> SUFFICES ASSUME NEW j \in 1 .. m PROVE ~(h[j].free /\ h[j + 1].free /\ Adjacent(h[j], h[j + 1]))
    BY <1>3, <1>7 DEF Merged
  <2>1. CASE j = m
    <3>1. h[j] = d[m] /\ h[j + 1] = bs[k + 1]
      BY <1>7, <2>1
    <3>2. d # <<>>
      BY <1>2, <1>3
    <3> QED BY <1>3, <3>1, <3>2
  <2>2. CASE j # m
    <3>1. j \in 1 .. m - 1 /\ j + 1 \in 1 .. m
      BY <1>3, <2>2
    <3>2. h[j] = d[j] /\ h[j + 1] = d[j + 1]
      BY <1>7, <3>1
    <3> QED BY <1>3, <3>1, <3>2 DEF Merged
  <2> QED BY <2>1, <2>2
<1> QED BY <1>6, <1>8, <1>9

\* The loop merges the next block with the last one.
LEMMA JoinNext ==
  ASSUME NEW bs \in Seq(Block), NEW k \in 0 .. Len(bs) - 1, NEW ts, NEW d,
         Rejoined(ts, d, bs, k), Merged(d),
         d # <<>>, d[Len(d)].free, bs[k + 1].free, Adjacent(d[Len(d)], bs[k + 1]),
         NEW u \in Block, u.addr = d[Len(d)].addr, u.size = d[Len(d)].size + HDR + bs[k + 1].size, u.free,
         NEW h, h = [d EXCEPT ![Len(d)] = u]
  PROVE  Merged(h) /\ \E us : Rejoined(us, h, bs, k + 1) /\ Joined(ts, Len(d), us)
<1>1. PICK n \in Nat : n = Len(bs)
  BY BlockFacts
<1>2. ts \in Seq(Block) /\ d \in Seq(Block)
  BY DEF Rejoined
<1>3. PICK m \in Nat : m = Len(d) /\ m # 0
  <2>1. Len(d) \in Nat /\ Len(d) # 0
    BY <1>2
  <2> QED BY <2>1
<1>4. /\ Len(ts) = m + (n - k) /\ \A j \in 1 .. m : ts[j] = d[j]
      /\ \A j \in 1 .. n - k : ts[m + j] = bs[k + j]
  BY <1>1, <1>3 DEF Rejoined
<1>5. /\ h \in Seq(Block) /\ Len(h) = m /\ h[m] = u /\ \A j \in 1 .. m - 1 : h[j] = d[j]
  <2>1. d \in [1 .. m -> Block] /\ h = [d EXCEPT ![m] = u]
    BY <1>2, <1>3, BlockFacts
  <2>2. h \in [1 .. m -> Block] /\ h[m] = u /\ \A j \in 1 .. m - 1 : h[j] = d[j]
    BY <1>3, <2>1
  <2>3. h \in Seq(Block) /\ Len(h) = m
    <3>1. PICK f \in [1 .. m -> Block] : f = h
      BY ZenonT(30), <2>2
    <3>2. f \in Seq(Block) /\ Len(f) = m
      OBVIOUS
    <3> QED BY <3>1, <3>2
  <2> QED BY <2>2, <2>3
<1> DEFINE us == [j \in 1 .. Len(ts) - 1 |-> IF j = m THEN u ELSE IF j < m THEN ts[j] ELSE ts[j + 1]]
<1>6. Len(ts) \in Nat /\ Len(ts) - 1 \in Nat /\ m \in 1 .. Len(ts) - 1
  BY <1>1, <1>3, <1>4
<1>7. us \in Seq(Block) /\ Len(us) = Len(ts) - 1
  <2>1. ASSUME NEW j \in 1 .. Len(ts) - 1
        PROVE  (IF j = m THEN u ELSE IF j < m THEN ts[j] ELSE ts[j + 1]) \in Block
    <3>1. j \in 1 .. Len(ts) /\ j + 1 \in 1 .. Len(ts)
      BY <1>6
    <3>2. ts[j] \in Block /\ ts[j + 1] \in Block
      BY <1>2, <3>1, BlockFacts
    <3> QED BY <3>2
  <2>2. us \in [1 .. Len(ts) - 1 -> Block]
    BY <2>1
  <2>3. PICK p \in Nat : p = Len(ts) - 1
    BY <1>6
  <2> HIDE DEF us
  <2>4. us \in [1 .. p -> Block]
    BY <2>2, <2>3
  <2>5. us \in Seq(Block) /\ Len(us) = p
    BY <2>4
  <2> QED BY <2>3, <2>5
<1>8. /\ us[m] = u /\ \A j \in 1 .. m - 1 : us[j] = ts[j]
      /\ \A j \in m + 1 .. Len(ts) - 1 : us[j] = ts[j + 1]
  BY <1>3, <1>6
<1> HIDE DEF us
<1>9. ts[m] = d[m] /\ ts[m + 1] = bs[k + 1]
  <2>1. m \in 1 .. m /\ 1 \in 1 .. n - k
    BY <1>1, <1>3
  <2> QED BY <1>4, <2>1
<1>10. Joined(ts, Len(d), us)
  BY <1>3, <1>6, <1>7, <1>8, <1>9 DEF Joined
<1>11. Rejoined(us, h, bs, k + 1)
  <2>1. Len(us) = m + (n - (k + 1))
    BY <1>1, <1>3, <1>4, <1>7
  <2>2. ASSUME NEW j \in 1 .. m PROVE us[j] = h[j]
    <3>1. CASE j = m
      BY <1>5, <1>8, <3>1
    <3>2. CASE j # m
      <4>1. j \in 1 .. m - 1
        BY <1>3, <3>2
      <4> QED BY <1>4, <1>5, <1>8, <4>1
    <3> QED BY <3>1, <3>2
  <2>3. ASSUME NEW j \in 1 .. n - (k + 1) PROVE us[m + j] = bs[(k + 1) + j]
    <3>1. /\ m + j \in m + 1 .. Len(ts) - 1 /\ (m + j) + 1 = m + (j + 1)
          /\ j + 1 \in 1 .. n - k /\ k + (j + 1) = (k + 1) + j
      BY <1>1, <1>3, <1>4
    <3>2. us[m + j] = ts[(m + j) + 1]
      BY ZenonT(30), <1>8, <3>1
    <3>3. ts[m + (j + 1)] = bs[k + (j + 1)]
      BY ZenonT(30), <1>4, <3>1
    <3> QED BY ZenonT(30), <3>1, <3>2, <3>3
  <2> QED BY ZenonT(30), <1>1, <1>5, <1>7, <2>1, <2>2, <2>3 DEF Rejoined
<1>12. Merged(h)
  <2> SUFFICES ASSUME NEW j \in 1 .. m - 1
               PROVE  ~(h[j].free /\ h[j + 1].free /\ Adjacent(h[j], h[j + 1]))
    BY <1>5 DEF Merged
  <2>1. ~(d[j].free /\ d[j + 1].free /\ Adjacent(d[j], d[j + 1])) /\ h[j] = d[j]
    BY <1>3, <1>5 DEF Merged
  <2>2. CASE j + 1 = m
    <3>1. h[j + 1].addr = d[j + 1].addr /\ d[j + 1].free
      BY <1>3, <1>5, <2>2
    <3> QED BY <2>1, <3>1 DEF Adjacent
  <2>3. CASE j + 1 # m
    <3>1. j + 1 \in 1 .. m - 1
      BY <1>3, <2>3
    <3> QED BY <1>5, <2>1, <3>1
  <2> QED BY <2>2, <2>3
<1> QED BY ZenonT(30), <1>10, <1>11, <1>12

\* One round of kfree's loop.
LEMMA MergeRound ==
  ASSUME NEW xs, Extents(xs), NEW L, NEW bs \in Seq(Block), NEW k \in 0 .. Len(bs) - 1,
         NEW d \in Seq(Block), Merging(d, bs, k, xs, L)
  PROVE  Merging(Merge(d, bs[k + 1]), bs, k + 1, xs, L)
<1>1. PICK c : c = bs[k + 1]
  OBVIOUS
<1>2. c \in Block /\ c.size \in Nat
  <2>1. k + 1 \in 1 .. Len(bs)
    BY BlockFacts
  <2> QED BY <1>1, <2>1, BlockFacts
<1>3. Merged(d)
  BY DEF Merging
<1>4. PICK ts : Rejoined(ts, d, bs, k) /\ Covers(ts, xs) /\ Owned(ts, L)
  BY DEF Merging
<1>5. ts \in Seq(Block)
  BY <1>4 DEF Rejoined
<1>6. CASE d # <<>> /\ d[Len(d)].free /\ c.free /\ Adjacent(d[Len(d)], c)
  <2>1. Len(d) \in 1 .. Len(d) /\ d[Len(d)] \in Block
    <3>1. Len(d) \in Nat /\ Len(d) # 0
      BY <1>6
    <3> QED BY <3>1, BlockFacts
  <2>2. PICK b \in Block : b = d[Len(d)]
    BY <2>1
  <2>3. PICK u : u = [b EXCEPT !.size = @ + HDR + c.size]
    BY ZenonT(30)
  <2>4. b.size + HDR + c.size \in Nat
    <3>1. b.size \in Nat
      BY DEF Block
    <3> QED BY <1>2, <3>1, SizeFacts
  <2>5. u \in Block /\ u.addr = b.addr /\ u.size = b.size + HDR + c.size /\ u.free = b.free
    BY ZenonT(30), <2>3, <2>4 DEF Block
  <2>6. PICK h : h = [d EXCEPT ![Len(d)] = u]
    BY ZenonT(30)
  <2>7. Merge(d, c) = h
    <3>1. Len(d) # 0
      BY <1>6
    <3>2. Merge(d, c) = [d EXCEPT ![Len(d)].size = @ + HDR + c.size]
      BY <1>6, <3>1 DEF Merge
    <3> QED BY <2>1, <2>2, <2>3, <2>6, <3>2
  <2>8. Merged(h) /\ \E us : Rejoined(us, h, bs, k + 1) /\ Joined(ts, Len(d), us)
    <3>1. u.addr = d[Len(d)].addr /\ u.size = d[Len(d)].size + HDR + bs[k + 1].size /\ u.free
      BY <1>1, <1>6, <2>2, <2>5
    <3> QED BY ZenonT(30), <1>1, <1>3, <1>4, <1>6, <2>5, <2>6, <3>1, JoinNext
  <2>9. PICK us : Rejoined(us, h, bs, k + 1) /\ Joined(ts, Len(d), us)
    BY <2>8
  <2>10. Covers(us, xs)
    BY <1>4, <1>5, <2>9, JoinCovers
  <2>11. Owned(us, L)
    BY <1>4, <1>5, <2>9, JoinOwned
  <2> QED BY <1>1, <2>7, <2>8, <2>9, <2>10, <2>11 DEF Merging
<1>7. CASE ~(d # <<>> /\ d[Len(d)].free /\ c.free /\ Adjacent(d[Len(d)], c))
  <2>1. Merge(d, c) = Append(d, c)
    <3>1. Len(d) # 0 => d # <<>>
      OBVIOUS
    <3> QED BY <1>7, <3>1 DEF Merge
  <2>2. Rejoined(ts, Append(d, c), bs, k + 1) /\ Merged(Append(d, c))
    BY <1>1, <1>3, <1>4, <1>7, KeepNext
  <2> QED BY <1>1, <1>4, <2>1, <2>2 DEF Merging
<1> QED BY <1>6, <1>7

\* Merging makes a chain of blocks of a chain of blocks.
LEMMA MergeTypes ==
  ASSUME NEW d \in Seq(Block), NEW c \in Block PROVE Merge(d, c) \in Seq(Block)
<1>1. Append(d, c) \in Seq(Block)
  BY Appended
<1>2. ASSUME Len(d) # 0 PROVE [d EXCEPT ![Len(d)].size = @ + HDR + c.size] \in Seq(Block)
  <2>1. PICK m \in Nat : m = Len(d) /\ m \in 1 .. m /\ d \in [1 .. m -> Block]
    BY <1>2, BlockFacts
  <2>2. PICK b \in Block : b = d[m]
    BY <2>1
  <2>3. b.size + HDR + c.size \in Nat
    BY SizeFacts DEF Block
  <2>4. PICK u \in Block : u = [b EXCEPT !.size = @ + HDR + c.size]
    BY ZenonT(30), <2>3 DEF Block
  <2>5. [d EXCEPT ![m].size = @ + HDR + c.size] = [d EXCEPT ![m] = u]
    BY <2>2, <2>4
  <2>6. [d EXCEPT ![m] = u] \in [1 .. m -> Block]
    BY <2>1
  <2>7. [d EXCEPT ![m] = u] \in Seq(Block)
    BY <2>6
  <2> QED BY <2>1, <2>5, <2>7
<1> QED BY <1>1, <1>2 DEF Merge

\* It makes no header: what it merges begins where one of its parts did.
LEMMA MergeHeads ==
  ASSUME NEW d \in Seq(Block), NEW c \in Block, NEW k \in DOMAIN Merge(d, c)
  PROVE  Merge(d, c)[k].addr = c.addr \/ \E j \in DOMAIN d : Merge(d, c)[k].addr = d[j].addr
<1>1. PICK m \in Nat : m = Len(d) /\ DOMAIN d = 1 .. m /\ d \in [1 .. m -> Block]
  BY BlockFacts
<1>2. PICK h : h = Merge(d, c)
  BY ZenonT(30)
<1>3. CASE m # 0 /\ d[m].free /\ c.free /\ Adjacent(d[m], c)
  <2>1. m \in 1 .. m
    BY <1>1, <1>3
  <2>2. PICK b \in Block : b = d[m]
    BY ZenonT(30), <1>1, <2>1
  <2>3. PICK u : u = [b EXCEPT !.size = @ + HDR + c.size]
    BY ZenonT(30)
  <2>4. u.addr = b.addr
    BY ZenonT(30), <2>3 DEF Block
  <2>5. h = [d EXCEPT ![m].size = @ + HDR + c.size]
    BY ZenonT(30), <1>1, <1>2, <1>3 DEF Merge
  <2>6. h = [d EXCEPT ![m] = u]
    BY <1>1, <2>1, <2>2, <2>3, <2>5
  <2>7. k \in 1 .. m /\ h[k] = IF k = m THEN u ELSE d[k]
    BY ZenonT(30), <1>1, <1>2, <2>1, <2>6
  <2> QED BY ZenonT(30), <1>1, <1>2, <2>2, <2>4, <2>7
<1>4. CASE ~(m # 0 /\ d[m].free /\ c.free /\ Adjacent(d[m], c))
  <2>1. h = Append(d, c)
    BY ZenonT(30), <1>1, <1>2, <1>4 DEF Merge
  <2>2. /\ h \in Seq(Block) /\ Len(h) = m + 1 /\ h[m + 1] = c
        /\ \A j \in 1 .. m : h[j] = d[j]
    <3>1. /\ Append(d, c) \in Seq(Block) /\ Len(Append(d, c)) = Len(d) + 1
          /\ Append(d, c)[Len(d) + 1] = c /\ \A j \in 1 .. Len(d) : Append(d, c)[j] = d[j]
      BY Appended
    <3> QED BY ZenonT(30), <1>1, <2>1, <3>1
  <2>3. k \in 1 .. m \/ k = m + 1
    <3>1. DOMAIN h = 1 .. m + 1
      BY ZenonT(30), <2>2, BlockFacts
    <3> QED BY <1>1, <1>2, <3>1
  <2> QED BY ZenonT(30), <1>1, <1>2, <2>2, <2>3
<1> QED BY ZenonT(30), <1>3, <1>4

\* The block of a is marked as free.
LEMMA MarkOwned ==
  ASSUME NEW bs \in Seq(Block), NEW ms \in Seq(Block), NEW L, Owned(bs, L), NEW a \in L,
         Len(ms) = Len(bs),
         \A j \in 1 .. Len(bs) :
            /\ bs[j].addr = a.ptr - HDR => ms[j].free
            /\ bs[j].addr # a.ptr - HDR => ms[j] = bs[j]
  PROVE  Owned(ms, L \ {a})
<1>1. ASSUME NEW j \in 1 .. Len(bs) PROVE (a.ptr = bs[j].addr + HDR) <=> (bs[j].addr = a.ptr - HDR)
  <2>1. PICK i \in 1 .. Len(bs) : a.ptr = bs[i].addr + HDR
    BY DEF Owned
  <2>2. bs[i].addr \in Nat /\ bs[j].addr \in Nat
    BY BlockFacts
  <2> QED BY <2>1, <2>2, SizeFacts
<1>2. ASSUME NEW b \in L \ {a}
      PROVE  \E j \in 1 .. Len(ms) : ~ms[j].free /\ b.ptr = ms[j].addr + HDR /\ b.size <= ms[j].size
  <2>1. PICK j \in 1 .. Len(bs) : ~bs[j].free /\ b.ptr = bs[j].addr + HDR /\ b.size <= bs[j].size
    BY DEF Owned
  <2>2. a.ptr # b.ptr
    BY DEF Owned
  <2>3. ms[j] = bs[j]
    BY <1>1, <2>1, <2>2
  <2> QED BY <2>1, <2>3
<1>3. ASSUME NEW j \in 1 .. Len(ms), ~ms[j].free PROVE \E b \in L \ {a} : b.ptr = ms[j].addr + HDR
  <2>1. j \in 1 .. Len(bs) /\ bs[j].addr # a.ptr - HDR /\ ms[j] = bs[j]
    BY <1>3
  <2>2. PICK b \in L : b.ptr = bs[j].addr + HDR
    BY <1>3, <2>1 DEF Owned
  <2>3. b # a
    BY <1>1, <2>1, <2>2
  <2> QED BY <2>1, <2>2, <2>3
<1>4. \A b, c \in L \ {a} : b.ptr = c.ptr => b = c
  BY DEF Owned
<1> QED BY <1>2, <1>3, <1>4 DEF Owned

-----------------------------------------------------------------------------
(* The theorems *)

=============================================================================
