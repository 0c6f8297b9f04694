------------------------------ MODULE ElfLoad ------------------------------
(***************************************************************************)
(* elf_load of elf.c: the segments of an executable are mapped into a new  *)
(* address space page by page, and the part of each page that the file     *)
(* backs is copied.  The address space is that of module AddressSpace, so  *)
(* frames may run out anywhere, in the tables as well.                     *)
(*                                                                         *)
(* A page is RADIX bytes, an address a byte number.  The byte of the file  *)
(* at offset o is Byte(o): all different, none of them zero.               *)
(***************************************************************************)
EXTENDS AddressSpace

CONSTANT Images  \* for each program the executables it may be: [valid, segs], segs a
                 \* sequence of [p_load, p_vaddr, p_memsz, p_filesz, p_offset]; valid
                 \* if there is such a module, with the magic number, for 64 bits

VARIABLE image   \* the module found by find_module

PGSIZE == RADIX
Byte(o) == Word(o + 1)

VStart(seg) == seg.p_vaddr \div PGSIZE
VEnd(seg) == (seg.p_vaddr + seg.p_memsz + PGSIZE - 1) \div PGSIZE

\* Executables have the form the ELF format asks for (a segment is at least as
\* long as what the file has of it, and loadable segments do not overlap), and
\* are linked for the user's half, away from the table that maps the stack.
ASSUME ImagesAssumption ==
  \A x \in Images[1] \cup Images[2] :
     /\ x.valid \in BOOLEAN
     /\ x.segs \in Seq([p_load : BOOLEAN, p_vaddr : Nat, p_memsz : Nat, p_filesz : Nat, p_offset : Nat])
     /\ \A i \in DOMAIN x.segs : x.segs[i].p_load =>
           /\ x.segs[i].p_filesz <= x.segs[i].p_memsz
           /\ \A v \in VStart(x.segs[i]) .. VEnd(x.segs[i]) - 1 :
                 v \in UserPages /\ v \div RADIX # StackPage \div RADIX
           /\ \A j \in DOMAIN x.segs : x.segs[j].p_load /\ i < j =>
                 \/ x.segs[i].p_vaddr + x.segs[i].p_memsz <= x.segs[j].p_vaddr
                 \/ x.segs[j].p_vaddr + x.segs[j].p_memsz <= x.segs[i].p_vaddr

\* The bytes of the page at v after the copy: from copy_lo up to copy_hi the
\* file's, the others as they were.
Copied_from_start(page, seg, v) ==
  LET page_start == v * PGSIZE
      copy_lo == Max({seg.p_vaddr, page_start})
      copy_hi == Min({seg.p_vaddr + seg.p_filesz, page_start + PGSIZE})
  IN  [i \in Idx |->
         IF page_start + i \in copy_lo .. copy_hi - 1
         THEN Byte(seg.p_offset + (page_start + i - copy_lo)) ELSE page[i]]

Copied(page, seg, v) ==
  LET page_start == v * PGSIZE
      copy_lo == Max({seg.p_vaddr, page_start})
      copy_hi == Min({seg.p_vaddr + seg.p_filesz, page_start + PGSIZE})
      src == seg.p_offset + (copy_lo - seg.p_vaddr)
      dst == copy_lo - page_start
  IN  [i \in Idx |-> IF i \in dst .. dst + (copy_hi - copy_lo) - 1
                     THEN Byte(src + (i - dst)) ELSE page[i]]

\* One turn of the page loop on s = [mem, free, ok].  The frame is filled even
\* when vmm_map could not map it.
LoadPage(s, root, seg, v) ==
  LET e == LookUp(s.mem, root, v) IN
  IF ~s.ok THEN s
  ELSE IF ~e.present /\ s.free = {} THEN [mem |-> s.mem, free |-> s.free, ok |-> FALSE]
  ELSE LET f == IF e.present THEN e.frame ELSE NextFrame(s)
           m == IF e.present THEN s ELSE vmm_map(page_alloc(s, TRUE), root, v, f, 7)
       IN  [mem |-> [m.mem EXCEPT ![f] = Copied(m.mem[f], seg, v)], free |-> m.free, ok |-> TRUE]

LoadSegment_short(s, root, seg) ==
  IF ~seg.p_load THEN s
  ELSE LET pages == (seg.p_memsz + PGSIZE - 1) \div PGSIZE
           load[k \in 0 .. pages] ==
             IF k = 0 THEN s ELSE LoadPage(load[k - 1], root, seg, VStart(seg) + k - 1)
       IN  load[pages]

LoadSegment(s, root, seg) ==
  IF ~seg.p_load THEN s
  ELSE LET pages == VEnd(seg) - VStart(seg)
           load[k \in 0 .. pages] ==
             IF k = 0 THEN s ELSE LoadPage(load[k - 1], root, seg, VStart(seg) + k - 1)
       IN  load[pages]

\* The memory after elf_load, and whether it returns 1.
elf_load(t) ==
  LET load[n \in 0 .. Len(image.segs)] ==
        IF n = 0 THEN [mem |-> mem, free |-> free, ok |-> image.valid]
        ELSE LoadSegment(load[n - 1], pml4[t], image.segs[n])
  IN  IF image.valid THEN load[Len(image.segs)] ELSE load[0]

-----------------------------------------------------------------------------
(* The reference: what a loaded program looks like.                        *)

Loadable == {i \in DOMAIN image.segs : image.segs[i].p_load}

\* The byte an executable has at address x: the file's, or zero.
Reference(x) ==
  LET backing == {i \in Loadable : x - image.segs[i].p_vaddr \in 0 .. image.segs[i].p_filesz - 1}
  IN  IF backing = {} THEN Word(0)
      ELSE LET seg == image.segs[Min(backing)] IN Byte(seg.p_offset + (x - seg.p_vaddr))

\* The pages with a byte of a segment.
SegmentPages == {v \in UserPages :
                   \E i \in Loadable : \E k \in 0 .. image.segs[i].p_memsz - 1 :
                      v = (image.segs[i].p_vaddr + k) \div PGSIZE}
============================================================================
