---------------------------- MODULE AddressSpace ----------------------------
(***************************************************************************)
(* Page tables and the address spaces built from them: vmm_walk, vmm_map,  *)
(* vmm_new_address_space and vmm_copy_address_space of paging.c, and the   *)
(* operations of task.c that use them, while frames run out.  elf_load is  *)
(* in module ElfLoad, the order in which kmain and the programs do all     *)
(* this in module Programs.                                                *)
(*                                                                         *)
(* The tables live in the frames they map.  A frame holds RADIX words; a   *)
(* word read as a page-table entry is [present, frame, flags], and the     *)
(* value d a user program stores is a word that is not a present entry.    *)
(* The walk is the kernel's, level by level, with DEPTH levels of RADIX    *)
(* entries in the place of 4 levels of 512.                                *)
(***************************************************************************)
EXTENDS Integers, Sequences, FiniteSetsExt

CONSTANTS NFRAMES,       \* physical frames, 0 .. NFRAMES - 1
          DEPTH, RADIX,
          KERNEL_START,  \* KERNEL_PML4_START: root entries from here on are the kernel's
          Tasks,
          StackPage,     \* the user page below USER_STACK_TOP
          StorePages,    \* user pages that programs store to
          Data           \* values user programs store, naturals other than 0

ASSUME AddressSpaceAssumption ==
  /\ NFRAMES \in Nat /\ NFRAMES >= 2
  /\ DEPTH \in Nat /\ DEPTH >= 2
  /\ RADIX \in Nat /\ KERNEL_START \in 1 .. RADIX - 1
  /\ Tasks \subseteq Nat
  /\ Data \subseteq Nat

\* What the powers of RADIX are.
ASSUME PowersOfRadix ==
  /\ RADIX^0 = 1
  /\ \A k \in 0 .. DEPTH - 1 : RADIX^(k + 1) = RADIX * RADIX^k

Frames == 0 .. NFRAMES - 1
Idx == 0 .. RADIX - 1
NONE == -1

\* page2pa(NULL), and the registers of the local APIC: no RAM.
NO_RAM == NFRAMES
LAPIC == NFRAMES + 1

\* The kernel's root table is frame 0; its half points to one table, frame 1.
KernelRoot == 0
KernelTable == 1

Word(d) == [present |-> FALSE, frame |-> 0, flags |-> d]
pte_make(f, flags) == [present |-> TRUE, frame |-> f, flags |-> flags]
Filled(d) == [i \in Idx |-> Word(d)]
ZeroPage == Filled(0)

\* What a frame holds before it is first used: words that look like entries.
Junk == [i \in Idx |-> pte_make(KernelTable, 7)]

VARIABLES mem,      \* frame -> its words
          free,     \* frames on the free list
          pml4,     \* task -> root of its address space, NONE for an unused slot
          kstack,   \* task -> its kernel stack
          parent_id \* task -> the task it was forked from, NONE for kmain's

vars == <<mem, free, pml4, kstack, parent_id>>

Live == {t \in Tasks : pml4[t] # NONE}

-----------------------------------------------------------------------------
(* Addresses: a virtual page is a number, an index is one of its digits.   *)

UserSpace == KERNEL_START * RADIX^(DEPTH - 1)
UserPages == 0 .. UserSpace - 1

ASSUME PagesAssumption == StackPage \in UserPages /\ StorePages \subseteq UserPages

\* pml4_index, pdpt_index, pd_index, pt_index for i = 1 .. DEPTH
Index(v, i) == (v \div RADIX^(DEPTH - i)) % RADIX

-----------------------------------------------------------------------------
(* page_alloc on the working state s = [mem, free]                         *)

page_alloc_dirty(s, zero) ==
  [mem |-> s.mem, free |-> s.free \ {Min(s.free)}]

\* The next frame, zeroed on request; callers have made sure there is one.
page_alloc(s, zero) ==
  LET f == Min(s.free)
  IN  [mem  |-> IF zero THEN [s.mem EXCEPT ![f] = ZeroPage] ELSE s.mem,
       free |-> s.free \ {f}]

NextFrame(s) == Min(s.free)

-----------------------------------------------------------------------------
(* vmm_walk and vmm_map                                                     *)

\* Entry i of the table in frame f set to e.
SetEntry(m, f, i, e) == [m EXCEPT ![f][i] = e]

\* One level of vmm_walk with create: follow entry i of the table reached, or
\* allocate the table below it.  table = NONE is the NULL return.
Descend(s, v, i) ==
  IF s.table = NONE THEN s
  ELSE LET e == s.mem[s.table][Index(v, i)] IN
       IF e.present THEN [mem |-> s.mem, free |-> s.free, table |-> e.frame]
       ELSE IF s.free = {} THEN [mem |-> s.mem, free |-> s.free, table |-> NONE]
       ELSE LET a == page_alloc(s, TRUE) IN
            [mem   |-> SetEntry(a.mem, s.table, Index(v, i), pte_make(NextFrame(s), 7)),
             free  |-> a.free,
             table |-> NextFrame(s)]

vmm_walk_create(s, root, v) ==
  LET walk[i \in 0 .. DEPTH - 1] ==
        IF i = 0 THEN [mem |-> s.mem, free |-> s.free, table |-> root]
        ELSE Descend(walk[i - 1], v, i)
  IN  walk[DEPTH - 1]

\* A walk that fails leaves the mapping undone and says nothing.
vmm_map(s, root, v, f, flags) ==
  LET w == vmm_walk_create(s, root, v)
  IN  [mem  |-> IF w.table = NONE THEN w.mem
                ELSE SetEntry(w.mem, w.table, Index(v, DEPTH), pte_make(f, flags)),
       free |-> w.free]

\* vmm_walk without create: the entry for v after each number of levels, a word
\* that is not present if a table on the way is missing.
Follow(m, e, i) == IF e.present THEN m[e.frame][i] ELSE Word(0)

Path(m, root, v) ==
  LET path[n \in 0 .. DEPTH] ==
        IF n = 0 THEN pte_make(root, 7) ELSE Follow(m, path[n - 1], Index(v, n))
  IN  path

Reached(m, root, v, n) == Path(m, root, v)[n]

LookUp(m, root, v) == Reached(m, root, v, DEPTH)

-----------------------------------------------------------------------------
(* Address spaces.  A result is [mem, free, root], root = NONE for NULL.   *)

KernelHalf_short(m, root, from) ==
  [i \in Idx |-> IF i > KERNEL_START THEN m[from][i] ELSE m[root][i]]

\* The words of a new root: the kernel's entries are copied, so the tables
\* below them are shared.
KernelHalf(m, root, from) ==
  [i \in Idx |-> IF i >= KERNEL_START THEN m[from][i] ELSE m[root][i]]

NewRoot(s, from) ==
  IF s.free = {} THEN [mem |-> s.mem, free |-> s.free, root |-> NONE]
  ELSE LET a == page_alloc(s, TRUE)
           r == NextFrame(s)
       IN  [mem |-> [a.mem EXCEPT ![r] = KernelHalf(a.mem, r, from)], free |-> a.free, root |-> r]

\* The kernel half is that of the current root; every root has the same one.
vmm_new_address_space(s) == NewRoot(s, KernelRoot)

\* One page of the copy: a frame of its own with the parent's words and flags.
CopyPage(s, parent, v) ==
  LET e == LookUp(s.mem, parent, v) IN
  IF s.root = NONE \/ ~e.present THEN s
  ELSE IF s.free = {} THEN [mem |-> s.mem, free |-> s.free, root |-> NONE]
  ELSE LET f == NextFrame(s)
           a == page_alloc(s, FALSE)
           m == vmm_map([mem |-> [a.mem EXCEPT ![f] = a.mem[e.frame]], free |-> a.free],
                        s.root, v, f, e.flags)
       IN  [mem |-> m.mem, free |-> m.free, root |-> s.root]

vmm_copy_address_space(s, parent) ==
  LET copy[n \in 0 .. UserSpace] ==
        IF n = 0 THEN NewRoot(s, parent) ELSE CopyPage(copy[n - 1], parent, n - 1)
  IN  copy[UserSpace]

-----------------------------------------------------------------------------
(* The tasks' operations on them.  Frames a failed operation has allocated *)
(* are not given back.                                                     *)

Init == \E n \in 2 .. NFRAMES :
          /\ free = 2 .. n - 1
          /\ mem = [f \in Frames |->
                     IF f = KernelRoot
                     THEN [i \in Idx |-> IF i >= KERNEL_START THEN pte_make(KernelTable, 3)
                                         ELSE Word(0)]
                     ELSE IF f = KernelTable THEN ZeroPage ELSE Junk]
          /\ pml4 = [t \in Tasks |-> NONE]
          /\ kstack = [t \in Tasks |-> NONE]
          /\ parent_id = [t \in Tasks |-> NONE]

Memory == [mem |-> mem, free |-> free]

\* The end of task_create and task_fork: the kernel stack, without which the
\* slot goes back and the new address space r is abandoned.
StartTask_unchecked(t, r, p) ==
  IF r.root = NONE
  THEN mem' = r.mem /\ free' = r.free /\ UNCHANGED <<pml4, kstack, parent_id>>
  ELSE LET a == IF r.free = {} THEN r ELSE page_alloc(r, TRUE) IN
       /\ mem' = a.mem /\ free' = a.free
       /\ pml4' = [pml4 EXCEPT ![t] = r.root]
       /\ kstack' = [kstack EXCEPT ![t] = IF r.free = {} THEN NONE ELSE NextFrame(r)]
       /\ parent_id' = [parent_id EXCEPT ![t] = p]

StartTask(t, r, p) ==
  IF r.root = NONE \/ r.free = {}
  THEN mem' = r.mem /\ free' = r.free /\ UNCHANGED <<pml4, kstack, parent_id>>
  ELSE LET a == page_alloc(r, TRUE) IN
       /\ mem' = a.mem /\ free' = a.free
       /\ pml4' = [pml4 EXCEPT ![t] = r.root]
       /\ kstack' = [kstack EXCEPT ![t] = NextFrame(r)]
       /\ parent_id' = [parent_id EXCEPT ![t] = p]

\* The lowest free slot is taken; the list of them is in module TaskTable.
FreeSlots == {t \in Tasks : pml4[t] = NONE}

task_create == FreeSlots # {} /\ StartTask(Min(FreeSlots), vmm_new_address_space(Memory), NONE)

task_fork(p) ==
  /\ pml4[p] # NONE /\ FreeSlots # {}
  /\ StartTask(Min(FreeSlots), vmm_copy_address_space(Memory, pml4[p]), p)

\* kmain maps the stack page, without a look at what page_alloc returned.
MapStack(t) ==
  LET s == IF free = {} THEN Memory ELSE page_alloc(Memory, TRUE)
      m == vmm_map(s, pml4[t], StackPage, IF free = {} THEN NO_RAM ELSE NextFrame(Memory), 7)
  IN  mem' = m.mem /\ free' = m.free /\ UNCHANGED <<pml4, kstack, parent_id>>

\* lapic_enable maps the registers of the local APIC in the kernel's half of
\* the tables kmain runs on, where the boot loader has not.
LapicPage == UserSpace

MapLapic ==
  LET m == vmm_map(Memory, KernelRoot, LapicPage, LAPIC, 3)
  IN  mem' = m.mem /\ free' = m.free /\ UNCHANGED <<pml4, kstack, parent_id>>

\* The program stores d in one of its pages.
Store(t, v, d) ==
  /\ pml4[t] # NONE
  /\ LET e == LookUp(mem, pml4[t], v)
     IN  e.present /\ mem' = [mem EXCEPT ![e.frame] = Filled(d)]
  /\ UNCHANGED <<free, pml4, kstack, parent_id>>

\* The reaped task forgets its tables and stack; no frame is freed.
task_destroy(t) ==
  /\ parent_id[t] # NONE
  /\ pml4' = [pml4 EXCEPT ![t] = NONE]
  /\ kstack' = [kstack EXCEPT ![t] = NONE]
  /\ parent_id' = [parent_id EXCEPT ![t] = NONE]
  /\ UNCHANGED <<mem, free>>

-----------------------------------------------------------------------------
(* Properties *)

TableFrames(t) ==
  {pml4[t]} \cup {e.frame : e \in {x \in {Reached(mem, pml4[t], v, n) :
                                         v \in UserPages, n \in 1 .. DEPTH - 1} : x.present}}

Mapped(t) == {v \in UserPages : LookUp(mem, pml4[t], v).present}
PageFrame(t, v) == LookUp(mem, pml4[t], v).frame
UserFrames(t) == TableFrames(t) \cup {PageFrame(t, v) : v \in Mapped(t)}

\* What the program of a root sees: for each page its flags and words.
View(m, root) ==
  [v \in UserPages |-> LET e == LookUp(m, root, v) IN
                       IF e.present THEN <<e.flags, m[e.frame]>> ELSE <<NONE, ZeroPage>>]

\* The kernel's tables, and what they map.
KernelFrames ==
  {KernelRoot, LAPIC} \cup
  {e.frame : e \in {x \in {Reached(mem, KernelRoot, LapicPage, n) : n \in 1 .. DEPTH - 1} : x.present}}

\* Address spaces are private: the tables and pages of a task are frames that
\* belong to no other task, to no kernel stack, not to the kernel and not to the
\* free list, no page is one of the task's own tables, and no two pages share a
\* frame.  No page maps what kmain computes from a NULL stack page: when the
\* frames have run out, vmm_map finds none for the stack's table either.
Private ==
  \A t \in Live :
     /\ UserFrames(t) \subseteq Frames
     /\ UserFrames(t) \cap (free \cup KernelFrames \cup {kstack[u] : u \in Tasks}) = {}
     /\ \A u \in Live \ {t} : UserFrames(t) \cap UserFrames(u) = {}
     /\ \A v \in Mapped(t) : /\ PageFrame(t, v) \notin TableFrames(t)
                             /\ \A w \in Mapped(t) : PageFrame(t, w) = PageFrame(t, v) => w = v

\* The kernel's half is the same in every address space, so the kernel stays
\* mapped across scheduler_switch_to's change of cr3: also what lapic_enable
\* maps there after the program's tables were made from the kernel's.
KernelShared ==
  \A t \in Live :
     /\ \A i \in KERNEL_START .. RADIX - 1 : mem[pml4[t]][i] = mem[KernelRoot][i]
     /\ LookUp(mem, pml4[t], LapicPage) = LookUp(mem, KernelRoot, LapicPage)
=============================================================================
