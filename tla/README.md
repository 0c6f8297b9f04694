# TLA+ models and proofs of the hobby kernel

This directory holds TLA+ models of the kernel under `src/kernel/src/`, the TLC
configurations that check them on small instances, and proofs, checked by TLAPS,
of their main safety properties for instances of every size.

## The system

The kernel is a 64-bit, single-processor kernel started by Limine.  Its parts:

| part | code | what it does |
|---|---|---|
| boot | `main.c` | sets everything up, tests single components, starts one user task |
| physical memory | `physical_page_management.c`, `page_alloc.c` | bump allocator at boot, then a free list of 4 KiB frames |
| paging | `paging.c` | four-level page tables: walk, map, unmap, copy an address space |
| heap | `kheap.c` | first-fit free list with split and coalesce |
| task table | `task.c`, `task.h` | 64 slots, a LIFO free list, create, fork, destroy, block, wake |
| scheduler | `scheduler.c`, `context_switch.S`, `timer.c` | round robin, preemption every 20 ticks |
| syscalls | `syscall.c`, `syscall_entry.S` | write, exit, fork, send, recv, wait |
| user pointers | `uaccess.c` | checks a user range page by page |
| programs | `elf.c`, `usermode.c`, `userland/` | ELF loader, entry to ring 3, test programs |
| locking | `spinlock.c` | test-and-set lock that turns interrupts off |
| exceptions, hardware | `idt.c`, `gdt.c`, `pic.c`, `pit.c`, `lapic.c` | interrupt table, faults, the timer interrupt |
| console | `kprintf.c`, `serial.c` | formatted output over a polled UART |
| memory functions | `memory.c`, `hhdm.c` | the four functions the compiler calls, the direct map |

They interact through the task table.  A syscall enters through an interrupt gate,
so the kernel runs with interrupts off until it returns to ring 3, switches to a
task that is in ring 3, or reaches the `sti; hlt` loop of `sys_exit`.  A timer tick
can therefore come only in ring 3, in that loop, and in `kmain` between its `sti` and
the first switch.  Everything between two such points is one step of the model,
except that `sys_wait` goes round its loop in several steps and a blocked `sys_send`
or `sys_recv` returns in a step of its own: other tasks run in between.

## Modules

* `TaskTable` - the table: `state`, `block_reason`, `ipc_peer`, `parent_id`,
  `context` and `task_free_list` are the fields of `struct task` and the free list,
  as functions of the slot.  A task is its slot, because `task_id` is the slot index
  for ever.  `context` stands for `context_rsp` by the point the saved stack resumes
  at.  `exit_code` is left out: it is printed and never returned to a program.
* `Scheduler` - the processor: `current_task`, `cpu` (the point the instruction
  stream is at), `cr3`, `rsp0`, `g_ticks`; `scheduler_pick_next`,
  `scheduler_switch_to`, `task_block_and_switch`, `timer_tick_handler`.
* `Kernel` - composes them with the syscalls and the start of the first task, and
  with `free_pages`, the number of free frames.  User code is arbitrary.
* `KernelHistory` - the kernel with a history variable: which tasks have outlived
  the task that forked them.
* `PageAlloc` - the frame allocator's operations: `pp_link` and `page_free_list` as in the code,
  plus `held`, the frames callers have.  `FramePool` is what it promises, a set of free
  frames and a set of held ones, and `ImplementsPool` the refinement.
* `PhysMem` - the specification around them, from boot on: the memory map, `boot_alloc`'s
  `current_region` and `next_free`, and `frame_alloc_init`.
* `KHeap` - the heap: the chain of headers as a sequence, `heap_next`, and the frames
  and page tables `heap_extend` uses up: one table for each of the `UPPER` levels (the
  heap's 512 MB share a PDPT and a PD), and one of the last level per `PTENTRIES` pages.
  `mapped` are the pages that got an entry; a header written elsewhere is a fault.
* `AddressSpace` - page tables that live in the frames they map: `mem` gives each frame
  its words.  `task_create`, `task_fork`, `task_destroy` and the mappings `kmain` makes
  run the code's walk level by level.  `NO_RAM` is what `page2pa(NULL)` names, an address
  that is no frame of the allocator.
* `ElfLoad` - extends it with `elf_load` on an executable's segments.
* `Programs` - composes the two along `kmain`: a task, its program, its stack and the
  local APIC's page for the first program; the second program where that fails; then
  forks, stores and reaps.
* `Interrupts` - extends `Kernel` with the machine around it: the interrupt controller's
  masks (`imr`), pending lines (`irr`) and lines in service (`isr`), the local APIC's
  LINT0, the PIT, and the vector just taken.  `kmain`'s set-up is one action per call.
  `timer_isr` is `Kernel`'s `TimerTick` with its EOI.
* `Ipc` - extends `Kernel` with the bytes of messages: `ipc_len` and each task's buffer,
  which user code rewrites whenever it runs.  `taken` and `before` are history variables:
  how much was moved for the call a task sleeps in, and what its buffer held at the call.
* `UAccess` - `uva_check_range` on leaf flags, with addresses of a fixed width.
* `Memory` - `memcpy`, `memset`, `memmove` and `memcmp`, one byte per step.
* `Kprintf` - `serial_init`, the loop of `kprintf` with one action per conversion, and
  the UART, whose transmit register holds one character.
* `Spinlock` - acquire and release one instruction at a time, on one CPU with a timer
  interrupt and several threads.  A thread's own code and the handler on top of it are
  two contexts.
* `MCKernel`, `MCKernelHistory`, `MCInterrupts`, `MCIpc`, `MCPhysMem`, `MCPrograms`,
  `MCSpinlock`, `MCRoutines` - the sets the small instances use.  `MCRoutines` puts
  `UAccess`, `Memory` and `Kprintf` side by side; they share nothing, and one of them runs
  in each behaviour.
* `KernelProofs`, `EntryProofs` (about `Interrupts` and `Ipc`), `PhysMemProofs`,
  `KHeapProofs` and `RoutineProofs` (about `Spinlock`, `UAccess` and `Memory`) - inductive
  invariants and theorems.  `KernelInvariant` has the invariant of `Kernel` and the lemmas
  about the steps that neither put a task to sleep nor wake one, `KHeapChain` the lemmas
  about chains of blocks, `InductionFacts` those about numbers that several use.

How they fit together: `Spinlock` is the reason why `page_alloc`, `kmalloc` and the
updates of the task table are single actions elsewhere.  `PageAlloc` shows that the list
behaves as a set of frames, which is all that `AddressSpace`, `KHeap` and `Kernel`
(a number) keep of it.  `Interrupts` and `Ipc` each add variables to `Kernel` and take only
steps that `Kernel` allows, which is proved: what holds of `Kernel` holds of them.

Operators named like another one with a suffix (`Awaits_exactly`,
`RunnableOffsets_short`, ...) are that operator with a plausible mistake in it.  No
specification uses them; putting one in the place of the original shows that the
property it is paired with in `PROJECT.json` notices the mistake.

## Runs

`kernel_safety` (`Kernel.cfg`).  Four slots, so three tasks at most: enough for a
task, its child and its grandchild, for a third party to a rendezvous, for a full
table, and for slots that are reused.  Seven pages with two for a fork give three
forks and a fourth that fails with a page in hand.  A slice of one tick makes every
tick a preemption, which includes every behaviour of a longer slice.  All ids,
including one no task ever has, may be passed to every syscall, and any task may
fault, so the machine may stop (no deadlock check).

* `FreeListExact`: no slot is lost, handed out twice or freed while in use.
* `OneTaskRuns`: task states, `current_task`, page table and kernel stack agree.
* `RunnableIsResumable`: what the scheduler may pick has a context to resume.
* `NoLostWakeup`, `WokenWaiterReaps`: `sys_exit` and `sys_wait` never miss each other,
  and a woken parent finds its child.
* `NoMissedRendezvous`: a sender and a receiver never both sleep for each other.
* `SpinOnlyInDeadlock`: the loop of `sys_wait`, which spins with interrupts off when
  there is nobody to switch to, does so only when nobody could run anyway.
* `DeadStaysDead`: an exited task never runs again; only its parent's wait frees it.

`interrupts` (`Interrupts.cfg`).  Two forks, a slice of two ticks, programs that name the
first task or anybody, the timer's line and one other, with whatever the firmware left
pending.  A fault, which stops the machine, is left to the other runs.  TLC finds no
deadlock, but that says little: a device may raise its line in any state.  What says that
the machine gets on is `RunnableRuns`.

* `NothingLeftInService`: the EOI is sent before the switch, so the task switched to can
  be preempted as well.
* `OnlyTimerInterrupts`: no line ever arrives at a vector without a handler.
* `ImplementsKernel`: the machine implements `Kernel` with its fairness.  That the timer
  keeps ticking is an assumption of `Kernel`; here it follows from the devices' set-up.
* `RunnableRuns`: round robin's promise, that a task that can run gets to ring 3.

Fairness of the machine: `kmain` goes on; the processor takes an interrupt it is offered
and runs the handler; the PIT, once programmed in periodic mode, keeps raising its line;
and kernel code that is interrupted again and again still gets on (strong fairness of
`Executes(KernelStep)`), since at 100 Hz there are millions of instructions between two
ticks.  Nothing is assumed of user code, which may compute for ever.

`ipc` (`Ipc.cfg`).  Three tasks, two byte values (interchangeable, hence the symmetry), a
buffer of two bytes and messages of at most one, so that lengths of nothing, one byte and
more than the limit meet and there is a byte behind every message.  Each call may also be
refused for its pointer.  A fault may stop the machine, so deadlock is not checked.

* `SendReturns`: a sender that slept returns what its receiver took.
* `RecvReturns`: a receiver that slept got no more than it asked for, and nothing behind
  the message changed.  It returns the length it asked for, whatever it got.
* `MessageKept`: the message of a sleeping sender stays as it was at the call, though the
  other tasks run and write at the same addresses in their own address spaces.  A sender
  that found nobody to switch to is back in ring 3, still `BLOCKED`, and may write its
  buffer before it is taken: it does not sleep, and the property does not speak of it.
  That the copy itself reads the sender's and writes the receiver's space is how `send`
  and `recv` are modelled, from the switches of CR3 around it; no property is about it.

The first two have an exception that the code forces: a task that finds nobody to switch
to returns at once, with nothing moved.

`phys_mem` (`PhysMem.cfg`).  Maps of two and three regions in five pages of four
units, usable or not, with ends on and off page boundaries; requests of one unit and of a page.  `BootAllocDisjoint`,
`FramesSafe` and `FramesKept` follow each unit of memory from the map to its owner.  Then
a caller frees what it holds or repeats a free that `page_free` recognises.
`FreeListEnds`: the list is no loop; `ImplementsPool`: it is a pool, so no frame is lost,
handed out twice, or on the list while a caller holds it.  A second free of
the last frame of the list is one that `page_free` cannot recognise, because its link is
`NULL` like that of a held frame; no caller makes it, and it is left out.

`kheap` (`KHeap.cfg`).  Three pages, two to a last-level table, so that an extension of two
pages crosses from one table to the next; eight frames, one more than all pages and tables
need, so that the heap's range can be what ends an extension; sizes that leave no, a small
and a large remainder, and one that takes two pages; and other users who take frames at any
time, so that `heap_extend` fails, and `vmm_map` fails without saying so, at every possible
place.  A kernel fault stops the machine, so deadlock is not checked.

* `HeapSound`: blocks are disjoint, and each allocation has one used block large enough.
* `HeapMapped`: every header of the chain is on mapped pages, so `kmalloc` and `kfree` can
  walk it; and everything is mapped as long as `page_alloc` has a frame.  More cannot be
  said: `heap_extend` ignores `vmm_map`'s failure, so with the last frame spent on a page
  and none left for its table (the first page, and then every 512th), it succeeds.  If a
  header would lie on the page, writing it halts the machine; if only a payload does,
  `kmalloc` returns a block whose tail is not mapped.  Both happen in the run.  No comment
  or test of the repository says what `kmalloc` does when memory runs out there.
* `FreeMerged`: no two free neighbours; `WholeAgain`: what is freed adds up.

`spinlock` (`Spinlock.cfg`).  Two threads, the two locks that nest
(page_alloc_lock inside kheap_lock) and one that nests with neither.
`HolderRuns`, `NeverContended`, `FlagsRestored`.

`programs` (`Programs.cfg`).  Two tasks, three levels of three entries, pages of three
bytes, and from 0 to 22 free frames, so that the allocation that fails is any of those of
create, load, stack, APIC page and fork.  Two segments with every alignment, empty and
partly file-backed ones, are loaded into every memory of up to 12 frames; two small
programs also run, with memory for forks (`Explored`).  `kmain` may halt and memory may
run out, so deadlock is not checked.

* `Private`: a user page or table is a frame of the allocator that belongs to one task and
  to none of the kernel's uses.  This covers the stack page of the first program, which
  `kmain` does not check for `NULL`: when there is no frame for it there is none for its
  page table either, and `vmm_map` maps nothing.
* `KernelShared`: every task sees the kernel's half as the kernel does, the page that
  `lapic_enable` maps after the first task was made included.
* `ImageRight`, `ImageWhole`: what `elf_load` leaves is the file's image.
* `ForkCopies`: a fork that succeeds has copied everything.  It holds only because the
  kernel stack is allocated after the pages: when `vmm_map` silently failed, there is no
  frame for the stack either.

`routines` (`Routines.cfg`).  The routines return, so deadlock is not checked.

* `RangeExact`: `uva_check_range` against what the processor lets ring 3 do, for every
  range of six-bit addresses, five bits translated, in pages of four bytes, and every
  assignment of flags to the four user pages.
* `AsMandated`: the memory functions against "as the C specification mandates"
  (`memory.c:7`), on every range of four cells of three values, every overlap included.
* `NumberRight`: the digits printed denote the number, for numbers of eight and four bits
  (64 and 32 in the kernel) and buffers that are as tight as the kernel's.
* `WithinFormat`: `kprintf` never reads behind the NUL, for all formats of up to three
  characters; a conversion has at most three.
* `NothingLost`: every character reaches the wire, in order, from whatever mode the
  firmware left the UART in.

Four runs show that the code does not do what the repository says:

* `fault_containment`: a fault in one task halts the machine, while `idt.c:44` prints
  that the process was terminated and contained.
* `page_leak`: pages of a reaped child are never freed, against the "no
  crashes/leaks" of the schedule's Day 55.
* `orphans`: a task that reuses a dead parent's slot inherits and reaps its children,
  against "parent forks several children, children exit, parent reaps them".
* `elf_out_of_memory`: `elf_load` reports success with a page missing when the frames run
  out inside `vmm_map`, against its own "out of memory" return.

## Proofs

`KernelProofs` proves every safety property of `kernel_safety` for every table of at
least four slots, every slice, every amount of memory and every set of ids.  The
assumptions are the named `ASSUME`s of the modules: four slots because `kmain`'s own
table test needs three tasks, a slice and a fork cost that are not zero.

None of the properties is inductive.  `IInv`, of `KernelInvariant`, adds two facts.  `SleepInv` says where a
task that is not running resumes: a `RUNNABLE` one at a real resumption point, a
`BLOCKED` one behind its own call of `task_block_and_switch`, or in ring 3 if that
call returned at once, which cannot be a `sys_wait`; and a task woken inside
`sys_wait` has a dead child waiting.  `CpuInv` says what the processor may be doing in
each state of `current_task`; its last clause, that a task still `BLOCKED` in
`sys_wait` has no dead child and sees no `RUNNABLE` task, is what makes the spin a
deadlock.  The proof has one lemma per action, with `BlockStep` (going to sleep),
`WakeStep` and `ReapStep` shared by the syscalls, and `TableKept` by the actions that
leave the table alone.  That the free list stays exact when a slot is given back is
`FreeListGrown`.  Two lemmas carry the table scans:
`MinIsLeast` of `InductionFacts`, that a non-empty scan finds a first slot, and
`PickNext`, that `scheduler_pick_next` returns a `RUNNABLE` task or, when there is none,
its argument.

`EntryProofs` proves `NothingLeftInService` and `OnlyTimerInterrupts` for every set of
lines (`LinesAssumption`: line 0 among them) and that the machine takes only `Kernel`'s
steps (`MachineImplementsKernel`).  `MachineInv` ties the masks and the base vector to how
far `kmain` is, and says that the only line ever in service is line 0, within its handler.

It also proves that `Ipc` takes only `Kernel`'s steps and, with
`Kernel`'s `IInv`, the three properties of `ipc`, for every buffer, limit and set of bytes
(`IpcAssumption`: a message fits the buffer).  `IpcInv` says for each task inside a call
that slept: while it is `BLOCKED` nothing was moved and its buffer is as it was; once it was
woken, what was moved is what it will return (send), or at most that (recv).  The proof
needs `IInv` for where a task resumes, and that `cr3` is the running task's, so that user
code writes its own buffer.

`PhysMemProofs` proves, for every memory map (`MemMapsAssumption`: regions in ascending
order that do not overlap, as Limine promises for usable ones, and `pages[]` covers them)
and any number of frames:

* `HeldOffList`: neither the head of the list nor any link leads to a held frame.  TLC checks
  it only through `ImplementsPool`; here it is the first step towards it.  `ListInv` adds
  that a held frame has a null link and that no two frames link to the same one, nor any to
  the head: popping the head then cannot leave a second way to it.  `PushedListInv`, about the list
  `frame_alloc_init` builds, needs that `Max` of a nonempty set of frames exists
  (`MaxIsHighest`, from well-foundedness).
* `BootAllocDisjoint`.  `FrontierInv`: everything given away lies in usable memory below
  the frontier, that is in an earlier region or below `next_free` in the current one; a
  request is served at or above it and moves it past what it gave.
* `FramesSafe`.  `FramesInv`: every frame on the list or held lies wholly in usable memory
  above the frontier, which `boot_alloc` no longer moves once there are frames.

* `FreeListEnds` and `ImplementsPool`.  `StackInv`: some sequence of distinct frames, none
  of them held, is the free list, bottom first; the links lead down it from the head and
  every other link is null.  `page_alloc` pops it and `page_free` pushes; the double free
  that `page_free` recognises changes nothing.  From the stack follows what the walk along
  the list reaches after each number of steps (`StackOnList`), so that it ends and the
  frames on it are the pool's.  `PushedStack` builds the stack of `frame_alloc_init`.
* `FramesKept`.  `KeptInv`: every whole usable frame above the frontier is on the list or
  held.  It needs what `frame_alloc_init` skips, region by region, to be below the frontier.
* `PhysTypeOK`, with `npages` bounded by the end of the highest usable region.

The maps are also assumed to have no usable region at address 0, which the code relies on:
`boot_alloc` returns `NULL` when there is no memory left, and a caller could not tell a
region at 0 from it.

`KHeapProofs` proves the five properties of `kheap` for every page, header, alignment, heap
and page-table size (`HeapAssumption`: a header and the smallest payload fit a page), any
number of frames and upper levels, and every sequence of `kmalloc`, `kfree` and allocations
by others.  `HeapSound` is not inductive: merging adds a neighbour's size to a block, and
that is safe only if nothing lies between the two.  `HeapInv` says what the chain is:

* the blocks cover the extents, the pieces `heap_extend` created (`Covers`): each block
  lies in one, and behind a block comes either the block that starts where it ends, or it
  ends its extent and the next block starts another;
* no two free blocks that touch are neighbours in the chain (`Merged`);
* the used blocks and the allocations correspond one to one (`Owned`);
* the extents are disjoint and below `heap_next`, which is a page boundary;
* every header is on mapped pages (`Writable`), and as long as there are frames so is every
  page below `heap_next` (`PagesInv`).

`WholeAgain` follows: in a chain of free blocks none of which touches the next, every block
is an extent.  `KHeapChain` has what each operation does to a chain: taking a block whole
or split (`TakenChain`), a new extent in front (`GrownChain`), a merge (`JoinNext`).
`KHeapProofs` follows the two loops.  `heap_extend` maps page after page and may stop
anywhere (`ExtendRuns`, `ExtendGrows`): whatever it mapped stays behind `heap_next` and is
in no extent unless it finished.  A round leaves its page unmapped only if `vmm_walk` took
the last frame (`WalkFacts`, `RoundFacts`).  Merging makes no headers (`MergeHeads`), and
the headers that a split or an extension writes are mapped, or the machine has stopped.  One pass of `kfree`'s loop is enough (`MergeAll`): after
k blocks, what it has passed is merged, and it still covers the extents with the rest of
the chain behind it (`Merging`).

These proofs need induction over lists and loops.  `UpToInduction` of `InductionFacts` and
`NumberInduction` of `PhysMemProofs` state it for a set of numbers, which needs no operator parameter: a proof
defines the set of the numbers for which the claim holds.  `IterateExists` says that a
recursive function over the rounds of a loop exists, so that its definition can be used;
the loops of `KHeap` are written as such functions for that reason.

`RoutineProofs` proves, of code that shares no state:

* `AsMandated`, for every size of memory and set of bytes (`MemoryAssumption`).
  `MemoryInv` is the loop invariant: the cells a call has passed hold what they should, the
  others what they held at the call, so that a copy between overlapping ranges has not yet
  overwritten what it still has to read.
* `RangeExact`, for every width of addresses, pages and tables, every set of flags
  made of the three low bits (`FlagsAssumption`) and every page table that `vmm_map` and
  `vmm_unmap` make.  The argument is arithmetic: a range that does not wrap touches exactly
  the pages from that of its first byte to that of its last (`PagesOfRange`), and one that
  wraps reaches addresses the program has not.  The provers know nothing of exponents;
  `PowersAssumption` states what `WidthAssumption` makes of the powers of two that are used.

It proves the three properties of `Spinlock` for any number of threads and
locks and any nesting without cycles (`NestsAssumption`; the kernel nests page_alloc_lock
in kheap_lock).  `IInv` adds that contexts that are not on the CPU are outside of locked
sections or not past `cli` (`OthersOut`, `Parked`), and what the interrupt flag is at each
point of the running context (`CpuFlags`).  One lemma per kind of step.

Only model-checked: `RunnableRuns` and the fairness part of `ImplementsKernel` (fairness and
ENABLED are beyond the prover); the properties of `AddressSpace`, `ElfLoad` and `Programs`,
which are about walks through tables that live in the frames they map; those of `Kprintf`,
where what the loop over digits computes needs an induction over data; and the findings.
Each proof module begins with a `USE` that gives the two provers half a minute for a leaf.

## Not modelled, and why

* `task_create_kernel`: all its calls, in tests of `kmain`, are commented out.
* The registers of `usermode.c`: `enter_usermode` is a jump to the second program.
* TLB and `invlpg`: `vmm_unmap` is called only by tests, on one CPU.
* `gdt.c` but for `tss_set_rsp0`: descriptors written once, with no state that changes.
* The cascaded interrupt controller, of which no line is ever unmasked, and the PIT's
  reload value, which sets how long a tick is and nothing else.
* Spurious interrupts (the controller's line 7, the local APIC's vector 0xFF): they come
  from signals that are withdrawn, and the lines of the model stay up until they are served.
* What `memcpy`, `memset` and `memmove` return, which is their first argument.
* `hhdm.c` adds a constant to physical addresses; frames are numbered without it.
* `sys_write`: it passes a checked range to the console and changes nothing else.
* `stress_test.c`, and the tests of single components in `kmain`: drivers of code that is
  modelled, most of them commented out.
* What ends the sleep of a sender or receiver whose partner has exited: nothing does, and
  nothing in the repository says that something should.
* A frame freed twice in a row when it is the last of the list: see `phys_mem`.
