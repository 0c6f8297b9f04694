----------------------------- MODULE MCPrograms -----------------------------
(* Executables for TLC: up to two segments that do not overlap, with every *)
(* alignment of start and end in a page of three bytes, crossing from one  *)
(* leaf table (bytes 0-8) into the next; the stack is under a third.       *)
EXTENDS Programs

Segment(load, va, mem_, file, off) ==
  [p_load |-> load, p_vaddr |-> va, p_memsz |-> mem_, p_filesz |-> file, p_offset |-> off]

First == {Segment(TRUE, va, m, f, 10) : va \in 3 .. 5, m \in 0 .. 5, f \in 0 .. 5}
Second == {Segment(l, va, m, f, 20) : l \in BOOLEAN, va \in 6 .. 10, m \in {1, 4}, f \in {0, 1, 3}}

Proper(seg) == seg.p_filesz <= seg.p_memsz
Pairs == {p \in {s \in First : Proper(s)} \X {s \in Second : Proper(s)} :
            p[1].p_vaddr + p[1].p_memsz <= p[2].p_vaddr}

Small == [valid |-> TRUE, segs |-> <<Segment(TRUE, 4, 1, 1, 10)>>]
Large == [valid |-> TRUE, segs |-> <<Segment(TRUE, 4, 2, 1, 10), Segment(TRUE, 8, 3, 1, 20)>>]
Missing == [valid |-> FALSE, segs |-> <<>>]

TestImages == <<{[valid |-> TRUE, segs |-> p] : p \in Pairs} \cup {Small, Large, Missing},
                {Small, Missing}>>

\* Every image is loaded into every memory that it could fill; two of them run,
\* with the memory for forks.
LoadFrames == 12
Explored ==
  image \in {Small, Large, Missing} \/ (Cardinality(free) <= LoadFrames /\ at # "user")
=============================================================================
