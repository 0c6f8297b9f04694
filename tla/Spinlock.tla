------------------------------ MODULE Spinlock ------------------------------
(***************************************************************************)
(* The kernel's locks (spinlock.c) on its one CPU: kernel threads and the  *)
(* timer handler that interrupts them take page_alloc_lock, kheap_lock,    *)
(* task_table_lock and kprintf_lock, and the scheduler switches between    *)
(* threads.  Each instruction that matters is a step of its own, so an     *)
(* interrupt may come between any two.  With one CPU a lock found taken    *)
(* would never be released: spinning is deadlock.                          *)
(*                                                                         *)
(* The other modules treat a locked section, and a system call up to its   *)
(* context switch, as one action; this module is why they may.             *)
(***************************************************************************)
CONSTANTS Threads,
          Locks,
          Nests     \* <<l, m>>: m is taken while l is held (kheap, page_alloc)

\* No section takes a lock again that it holds, directly or through others.
ASSUME NestsAssumption ==
  /\ Nests \subseteq Locks \X Locks
  /\ \A l \in Locks : <<l, l>> \notin Nests
  /\ \A l, m, n \in Locks : <<l, m>> \in Nests /\ <<m, n>> \in Nests => <<l, n>> \in Nests

VARIABLES locked,      \* lock->locked
          IF_on,       \* the interrupt flag of the CPU
          running,     \* the thread on the CPU
          inHandler,   \* threads with the timer handler on their stack
          pc, want,    \* progress of a context inside acquire / release, and on which lock
          held,        \* the locks a context has acquired and not released
          flags,       \* what save_and_disable_interrupts returned for each
          base         \* the interrupt flag the context runs with outside of locks

vars == <<locked, IF_on, running, inHandler, pc, want, held, flags, base>>

\* A thread's own code and the timer handler on top of it are two contexts.
Contexts == Threads \X {"code", "handler"}
Active(t) == <<t, IF t \in inHandler THEN "handler" ELSE "code">>
Me == Active(running)

TypeOK == /\ locked \in [Locks -> BOOLEAN]
          /\ IF_on \in BOOLEAN
          /\ running \in Threads
          /\ inHandler \subseteq Threads
          /\ pc \in [Contexts -> {"out", "saved", "spin", "freed"}]
          /\ want \in [Contexts -> Locks]
          /\ held \in [Contexts -> SUBSET Locks]
          /\ flags \in [Contexts -> [Locks -> BOOLEAN]]
          /\ base \in [Contexts -> BOOLEAN]

\* kmain after its sti is the running thread; the others are fresh tasks that
\* start in the kernel with interrupts off.
Init == /\ locked = [l \in Locks |-> FALSE]
        /\ IF_on = TRUE
        /\ running \in Threads
        /\ inHandler = {}
        /\ pc = [c \in Contexts |-> "out"]
        /\ want \in [Contexts -> Locks]
        /\ held = [c \in Contexts |-> {}]
        /\ flags = [c \in Contexts |-> [l \in Locks |-> FALSE]]
        /\ base = [c \in Contexts |-> c = Me]

-----------------------------------------------------------------------------
(* spinlock_acquire *)

Save_after_cli(l) ==
  /\ pc[Me] = "out"
  /\ \A m \in held[Me] : <<m, l>> \in Nests
  /\ flags' = [flags EXCEPT ![Me][l] = FALSE]
  /\ pc' = [pc EXCEPT ![Me] = "saved"]
  /\ want' = [want EXCEPT ![Me] = l]
  /\ UNCHANGED <<locked, IF_on, running, inHandler, held, base>>

\* pushfq; pop: the flags are read while interrupts may still come.
Save(l) ==
  /\ pc[Me] = "out"
  /\ \A m \in held[Me] : <<m, l>> \in Nests
  /\ flags' = [flags EXCEPT ![Me][l] = IF_on]
  /\ pc' = [pc EXCEPT ![Me] = "saved"]
  /\ want' = [want EXCEPT ![Me] = l]
  /\ UNCHANGED <<locked, IF_on, running, inHandler, held, base>>

Cli_missing ==
  /\ pc[Me] = "saved"
  /\ pc' = [pc EXCEPT ![Me] = "spin"]
  /\ UNCHANGED <<locked, IF_on, running, inHandler, want, held, flags, base>>

\* cli
Cli ==
  /\ pc[Me] = "saved"
  /\ IF_on' = FALSE
  /\ pc' = [pc EXCEPT ![Me] = "spin"]
  /\ UNCHANGED <<locked, running, inHandler, want, held, flags, base>>

\* __sync_lock_test_and_set finds the lock free; while it does not, the loop
\* goes round and nothing changes.
TestAndSet ==
  /\ pc[Me] = "spin"
  /\ ~locked[want[Me]]
  /\ locked' = [locked EXCEPT ![want[Me]] = TRUE]
  /\ held' = [held EXCEPT ![Me] = @ \cup {want[Me]}]
  /\ pc' = [pc EXCEPT ![Me] = "out"]
  /\ UNCHANGED <<IF_on, running, inHandler, want, flags, base>>

-----------------------------------------------------------------------------
(* spinlock_release, of the lock taken last *)

LockRelease(l) ==
  /\ pc[Me] = "out"
  /\ l \in held[Me]
  /\ \A m \in held[Me] : <<l, m>> \notin Nests
  /\ locked' = [locked EXCEPT ![l] = FALSE]
  /\ held' = [held EXCEPT ![Me] = @ \ {l}]
  /\ pc' = [pc EXCEPT ![Me] = "freed"]
  /\ want' = [want EXCEPT ![Me] = l]
  /\ UNCHANGED <<IF_on, running, inHandler, flags, base>>

\* popfq
Restore ==
  /\ pc[Me] = "freed"
  /\ IF_on' = flags[Me][want[Me]]
  /\ pc' = [pc EXCEPT ![Me] = "out"]
  /\ UNCHANGED <<locked, running, inHandler, want, held, flags, base>>

-----------------------------------------------------------------------------
(* What runs around the locks *)

\* The timer interrupts a thread: an interrupt gate, so with interrupts off.
Interrupt ==
  /\ IF_on
  /\ running \notin inHandler
  /\ IF_on' = FALSE
  /\ inHandler' = inHandler \cup {running}
  /\ base' = [base EXCEPT ![<<running, "handler">>] = FALSE]
  /\ UNCHANGED <<locked, running, pc, want, held, flags>>

Quiet == pc[Me] = "out" /\ held[Me] = {}

\* iretq out of timer_isr: the interrupted code had interrupts on.
InterruptReturn ==
  /\ running \in inHandler
  /\ Quiet
  /\ inHandler' = inHandler \ {running}
  /\ IF_on' = TRUE
  /\ UNCHANGED <<locked, running, pc, want, held, flags, base>>

Switch_with_lock(t) ==
  /\ pc[Me] = "out" /\ ~IF_on
  /\ running' = t
  /\ UNCHANGED <<locked, IF_on, inHandler, pc, want, held, flags, base>>

\* scheduler_switch_to, from the timer handler or from a system call that
\* blocks; every caller has released task_table_lock by then.  The thread
\* resumed was itself switched out, or is fresh: interrupts stay off.
Switch(t) ==
  /\ Quiet /\ ~IF_on
  /\ running' = t
  /\ UNCHANGED <<locked, IF_on, inHandler, pc, want, held, flags, base>>

\* A thread enters the kernel by the system-call gate (interrupts off), returns
\* to ring 3 or executes sti in sys_exit (on).
SetInterrupts(on) ==
  /\ running \notin inHandler
  /\ Quiet
  /\ IF_on' = on
  /\ base' = [base EXCEPT ![Me] = on]
  /\ UNCHANGED <<locked, running, inHandler, pc, want, held, flags>>

Next == \/ \E l \in Locks : Save(l) \/ LockRelease(l)
        \/ Cli \/ TestAndSet \/ Restore
        \/ Interrupt \/ InterruptReturn
        \/ \E t \in Threads : Switch(t)
        \/ \E on \in BOOLEAN : SetInterrupts(on)

Spec == Init /\ [][Next]_vars

-----------------------------------------------------------------------------
(* Properties *)

\* A lock is held only by the context on the CPU, so two contexts never hold
\* the same lock and no thread is switched out, or interrupted, with one.
HolderRuns == \A l \in Locks : locked[l] <=> l \in held[Me]

\* The test-and-set of spinlock_acquire finds the lock free every time: no
\* context spins, which on one CPU it would do for ever with interrupts off.
NeverContended == \A t \in Threads : pc[Active(t)] = "spin" => ~locked[want[Active(t)]]

\* Outside of locked sections a context has the interrupt flag it entered them
\* with, also after nested sections and interrupts in mid-acquire.
FlagsRestored == Quiet => IF_on = base[Me]
=============================================================================
