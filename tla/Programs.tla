------------------------------ MODULE Programs ------------------------------
(***************************************************************************)
(* The life of user memory, from kmain to the programs: kmain makes a task *)
(* and loads a program for it, maps its stack and the local APIC, and      *)
(* enters it; where the task or the program fails, it tries a second       *)
(* program.  Then tasks fork, store to their memory and are reaped.  The   *)
(* scheduling of all this is in module Kernel.                             *)
(***************************************************************************)
EXTENDS ElfLoad

VARIABLES program,  \* 1 for wait_test.elf, 2 for user_test.elf
          at,       \* what kmain does next for it; "user" once programs run
          task      \* the task kmain has made for it

kmainVars == <<program, at, task>>
programVars == <<vars, image, kmainVars>>

ProgramsInit ==
  /\ Init
  /\ image \in Images[1]
  /\ program = 1 /\ at = "task_create" /\ task = NONE

-----------------------------------------------------------------------------
(* kmain *)

\* The else branches: on to the second program, and to hcf behind it.
GiveUp ==
  /\ program' = 2
  /\ at' = IF program = 1 THEN "task_create" ELSE "hcf"
  /\ IF program = 1 THEN image' \in Images[2] ELSE UNCHANGED image

Goes(to) == at' = to /\ UNCHANGED <<program, image>>

Create ==
  /\ at = "task_create"
  /\ task_create
  /\ IF pml4' # pml4 THEN Goes("elf_load") ELSE GiveUp
  /\ task' = Min(FreeSlots)

Load ==
  /\ at = "elf_load"
  /\ LET r == elf_load(task)
     IN  /\ mem' = r.mem /\ free' = r.free
         /\ IF r.ok THEN Goes("stack") ELSE GiveUp
  /\ UNCHANGED <<pml4, kstack, parent_id, task>>

\* Only the second program's stack page is checked for NULL.
Stack ==
  /\ at = "stack"
  /\ IF program = 2 /\ free = {}
     THEN GiveUp /\ UNCHANGED vars
     ELSE MapStack(task) /\ Goes(IF program = 1 THEN "lapic_enable" ELSE "user")
  /\ UNCHANGED task

\* When the page could not be mapped, the access to the registers behind it is
\* a page fault in the kernel, which halts.
Lapic ==
  /\ at = "lapic_enable"
  /\ MapLapic
  /\ Goes(IF LookUp(mem', KernelRoot, LapicPage).present THEN "user" ELSE "hcf")
  /\ UNCHANGED task

-----------------------------------------------------------------------------
(* The programs *)

Run ==
  /\ at = "user"
  /\ \/ \E p \in Tasks : task_fork(p)
     \/ \E t \in Tasks, v \in StorePages, d \in Data : Store(t, v, d)
     \/ \E t \in Tasks : task_destroy(t)
  /\ UNCHANGED <<image, kmainVars>>

ProgramsNext == Create \/ Load \/ Stack \/ Lapic \/ Run

ProgramsSpec == ProgramsInit /\ [][ProgramsNext]_programVars

-----------------------------------------------------------------------------
(* Properties, with Private and KernelShared of module AddressSpace *)

\* A fork that succeeds gives the child every page of its parent, with the
\* same words and flags, although vmm_map drops a page silently when the
\* frames run out in the middle of the copy.
ForkCopies ==
  [][\A t \in Tasks : pml4[t] = NONE /\ parent_id'[t] # NONE =>
        View(mem', pml4'[t]) = View(mem, pml4[parent_id'[t]])]_programVars

\* elf_load has returned 1, and nothing has been stored yet.
Loaded == at = "stack"

\* Every byte of every page of a loaded program is the file's byte for that
\* address or zero, also in a page that two segments share and in the parts
\* of a page no segment covers, and when an earlier program failed to load.
ImageRight ==
  Loaded => \A v \in Mapped(task) : \A i \in Idx :
              mem[PageFrame(task, v)][i] = Reference(v * PGSIZE + i)

\* When elf_load succeeds and did not use up the frames, every byte of every
\* segment is mapped for the user.
ImageWhole == Loaded /\ free # {} => SegmentPages \subseteq Mapped(task)

\* elf_load returns 0 when it runs out of memory ("elf_load: out of memory"),
\* so that kmain only starts a program all of whose segments are mapped.
SuccessMeansLoaded == Loaded => SegmentPages \subseteq Mapped(task)
=============================================================================
