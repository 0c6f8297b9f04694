------------------------------- MODULE Kernel -------------------------------
(***************************************************************************)
(* The running kernel: the task kmain starts, the tasks forked from it,    *)
(* the timer that preempts them, and the syscalls of syscall.c by which    *)
(* they fork, exit, wait for children and exchange messages.  User code is *)
(* arbitrary: in ring 3 any syscall with any argument may come next.       *)
(* The bytes a message carries are left to module Ipc.                     *)
(***************************************************************************)
EXTENDS Scheduler

CONSTANTS
    BOOT_PAGES,         \* free physical pages when the first task starts
    FORK_PAGES,         \* pages one fork takes: page tables, copies, stack
    UserIds,            \* the ids ring 3 code passes to wait, send and recv
    Faults              \* may ring 3 code fault?

ASSUME KernelAssumption ==
    /\ BOOT_PAGES \in Nat
    /\ FORK_PAGES \in Nat \ {0}
    /\ UserIds \subseteq Ids
    /\ Faults \in BOOLEAN

VARIABLE free_pages     \* length of page_alloc.c's free list

vars == <<tableVars, cpuVars, g_ticks, free_pages>>

TypeOK ==
    /\ TableTypeOK
    /\ SchedulerTypeOK
    /\ free_pages \in 0 .. BOOT_PAGES

Init ==
    /\ TableInit
    /\ SchedulerInit
    /\ free_pages = BOOT_PAGES

----------------------------------------------------------------------------
(* Boot and kernel steps. *)

\* kmain: scheduler_switch_to(NULL, t).  The boot stack is not saved.
EnterFirstTask ==
    /\ cpu = "boot"
    /\ cr3' = current_task
    /\ rsp0' = current_task
    /\ context' = [context EXCEPT ![current_task] = "stale"]
    /\ cpu' = context[current_task]
    /\ UNCHANGED <<state, block_reason, ipc_peer, parent_id, task_free_list,
                   current_task, g_ticks, free_pages>>

TimerTick == timer_tick_handler /\ UNCHANGED free_pages

\* sys_send or sys_recv, resumed, returns ipc_len to ring 3.
SyscallReturn ==
    /\ cpu \in {"send", "recv"}
    /\ cpu' = "user"
    /\ UNCHANGED <<tableVars, current_task, cr3, rsp0, g_ticks, free_pages>>

\* An exception in ring 3: fault_handler reports it and halts the machine.
UserFault ==
    /\ Faults
    /\ cpu = "user"
    /\ cpu' = "halt"
    /\ UNCHANGED <<tableVars, current_task, cr3, rsp0, g_ticks, free_pages>>

----------------------------------------------------------------------------
(* Syscalls. *)

\* With the slot left on the free list.
ForkInto_unlinked(child) ==
    /\ state' = [state EXCEPT ![child] = "RUNNABLE"]
    /\ parent_id' = [parent_id EXCEPT ![child] = current_task]
    /\ context' = [context EXCEPT ![child] = "user"]
    /\ free_pages' = free_pages - FORK_PAGES
    /\ UNCHANGED <<block_reason, ipc_peer, task_free_list>>

\* task_fork for the slot child: copied address space, own kernel stack, saved
\* context on the way out of the syscall.
ForkInto(child) ==
    /\ state' = [state EXCEPT ![child] = "RUNNABLE"]
    /\ parent_id' = [parent_id EXCEPT ![child] = current_task]
    /\ context' = [context EXCEPT ![child] = "user"]
    /\ task_free_list' = Tail(task_free_list)
    /\ free_pages' = free_pages - FORK_PAGES
    /\ UNCHANGED <<block_reason, ipc_peer>>

\* Without a look at what page_alloc returned.
sys_fork_unchecked ==
    /\ cpu = "user"
    /\ task_free_list # <<>>
    /\ ForkInto(Head(task_free_list))
    /\ UNCHANGED <<cpuVars, g_ticks>>

\* Out of pages the fork fails once it has taken them all; the slot returns to
\* the head of the free list and none of the pages is given back.
sys_fork ==
    /\ cpu = "user"
    /\ \/ task_free_list = <<>> /\ UNCHANGED <<tableVars, free_pages>>
       \/ /\ task_free_list # <<>>
          /\ free_pages < FORK_PAGES
          /\ free_pages' = 0
          /\ UNCHANGED tableVars
       \/ /\ task_free_list # <<>>
          /\ free_pages >= FORK_PAGES
          /\ ForkInto(Head(task_free_list))
    /\ UNCHANGED <<cpuVars, g_ticks>>

\* Whichever child the parent waits for.
WaitingParent_of_any(t) ==
    {p \in Slots : /\ p = parent_id[t]
                   /\ state[p] = "BLOCKED"
                   /\ block_reason[p] = "WAIT"}

\* The parent of t, if it sleeps in sys_wait for t: none or one task.
WaitingParent(t) == {p \in Slots : p = parent_id[t] /\ Awaits(p, "WAIT", t)}

\* The exiting task becomes DEAD and wakes its parent if that waits for it.
sys_exit ==
    LET self == current_task
        woken == WaitingParent(self) \ {self}
    IN  /\ cpu = "user"
        /\ state' = [t \in Slots |-> IF t = self THEN "DEAD"
                                     ELSE IF t \in woken THEN "RUNNABLE"
                                     ELSE state[t]]
        /\ block_reason' = [t \in Slots |-> IF t \in woken THEN "NONE"
                                            ELSE block_reason[t]]
        /\ cpu' = "exit"
        /\ UNCHANGED <<ipc_peer, parent_id, context, task_free_list,
                       current_task, cr3, rsp0, g_ticks, free_pages>>

\* One turn of sys_wait's loop: reap a dead child, fail without a child, or
\* sleep and come round again.
WaitTurn(child_id) ==
    /\ \/ /\ Zombies(current_task, child_id) # {}
          /\ task_destroy(Min(Zombies(current_task, child_id)))
          /\ cpu' = "user"
          /\ UNCHANGED <<current_task, cr3, rsp0>>
       \/ /\ Children(current_task, child_id) = {}
          /\ cpu' = "user"
          /\ UNCHANGED <<tableVars, current_task, cr3, rsp0>>
       \/ /\ Children(current_task, child_id) # {}
          /\ Zombies(current_task, child_id) = {}
          /\ task_block_and_switch("WAIT", child_id, "wait")
    /\ UNCHANGED <<g_ticks, free_pages>>

sys_wait(child_id) == cpu = "user" /\ WaitTurn(child_id)

\* The next turn, after task_block_and_switch.  child_id lives on the kernel
\* stack; ipc_peer holds the same value, as only the task itself writes it.
WaitAgain == cpu = "wait" /\ WaitTurn(ipc_peer[current_task])

\* Hands the message to a receiver that waits for it, or sleeps until the
\* target asks for it.  The target may be any id, a DEAD task or the caller.
sys_send(target_id) ==
    /\ cpu = "user"
    /\ \/ ~task_exists(target_id) /\ UNCHANGED <<tableVars, cpuVars>>
       \/ /\ task_exists(target_id)
          /\ Awaits(target_id, "RECV", current_task)
          /\ task_wake(target_id)
          /\ UNCHANGED cpuVars
       \/ /\ task_exists(target_id)
          /\ ~Awaits(target_id, "RECV", current_task)
          /\ task_block_and_switch("SEND", target_id, "send")
    /\ UNCHANGED <<g_ticks, free_pages>>

\* Without the wildcard.
Senders_exactly(r, from_id) ==
    {s \in Slots : /\ state[s] = "BLOCKED"
                   /\ block_reason[s] = "SEND"
                   /\ ipc_peer[s] = r
                   /\ from_id = s}

\* The senders asleep on a message for task r that recv(from_id) accepts.
Senders(r, from_id) ==
    {s \in Slots : /\ state[s] = "BLOCKED"
                   /\ block_reason[s] = "SEND"
                   /\ ipc_peer[s] = r
                   /\ from_id \in {ANY, s}}

\* Takes the message of the first such sender in table order, or sleeps.
sys_recv(from_id) ==
    LET senders == Senders(current_task, from_id)
    IN  /\ cpu = "user"
        /\ \/ /\ senders # {}
              /\ task_wake(Min(senders))
              /\ UNCHANGED cpuVars
           \/ /\ senders = {}
              /\ task_block_and_switch("RECV", from_id, "recv")
        /\ UNCHANGED <<g_ticks, free_pages>>

----------------------------------------------------------------------------
KernelStep == EnterFirstTask \/ SyscallReturn \/ WaitAgain

UserStep ==
    \/ sys_fork
    \/ sys_exit
    \/ \E id \in UserIds : sys_wait(id) \/ sys_send(id) \/ sys_recv(id)
    \/ UserFault

Next == KernelStep \/ TimerTick \/ UserStep

Spec == Init /\ [][Next]_vars

\* The processor never stops executing kernel code it is in, and the PIT, in
\* periodic mode, raises IRQ 0 for ever.  User code owes nothing.
Fairness == WF_vars(KernelStep) /\ WF_vars(TimerTick)

FairSpec == Spec /\ Fairness

----------------------------------------------------------------------------
(* Properties. *)

\* The free list of task_slot_alloc and task_slot_free holds every unused slot
\* but slot 0, once, and no other: no slot is lost, handed out twice, or freed
\* while a task is in it, whatever the order of forks, exits and waits.
FreeListExact ==
    /\ \A i, j \in DOMAIN task_free_list :
          task_free_list[i] = task_free_list[j] => i = j
    /\ {task_free_list[i] : i \in DOMAIN task_free_list}
          = {t \in Slots \ {0} : state[t] = "UNUSED"}

\* The processor is current_task's: its page table and kernel stack are the
\* ones loaded, and no other task is marked RUNNING.  (current_task itself may
\* be RUNNABLE, the boot task until its first preemption, or BLOCKED.)
OneTaskRuns ==
    /\ \A t \in Slots : state[t] = "RUNNING" => t = current_task
    /\ cpu # "boot" => cr3 = current_task /\ rsp0 = current_task

\* Whatever scheduler_switch_to may pick has a saved context that leads back to
\* a point it left: a preempted or new task to ring 3, a woken one behind its
\* call of task_block_and_switch.  No stack is resumed twice.
RunnableIsResumable ==
    \A t \in Slots \ {current_task} :
        state[t] = "RUNNABLE" => context[t] \in {"user", "send", "recv", "wait"}

\* No wake-up is lost between sys_exit and sys_wait: a task asleep in sys_wait
\* has a child it waits for that is still alive, and so will exit and wake it.
NoLostWakeup ==
    \A p \in Slots :
        state[p] = "BLOCKED" /\ block_reason[p] = "WAIT" =>
            \E c \in Children(p, ipc_peer[p]) : state[c] # "DEAD"

\* sys_send and sys_recv never miss each other: no sender sleeps on a message
\* for a task that at the same time sleeps waiting for that sender.
NoMissedRendezvous ==
    \A s, r \in Slots :
        ~ /\ state[s] = "BLOCKED" /\ block_reason[s] = "SEND" /\ ipc_peer[s] = r
          /\ Awaits(r, "RECV", s)

\* sys_wait comes round only to succeed or to spin: the task that is back from
\* sleep finds a dead child to reap, unless it never got to sleep.
WokenWaiterReaps ==
    cpu = "wait" /\ state[current_task] # "BLOCKED" =>
        Zombies(current_task, ipc_peer[current_task]) # {}

\* sys_wait's loop spins with interrupts off when there is nobody to switch to,
\* and then nothing can ever run again.  It does so only in a true deadlock:
\* every other task is blocked or dead, and some child is one of the blocked.
SpinOnlyInDeadlock ==
    cpu = "wait" /\ state[current_task] = "BLOCKED" =>
        /\ \A t \in Slots : state[t] \in {"UNUSED", "BLOCKED", "DEAD"}
        /\ \E c \in Children(current_task, ipc_peer[current_task]) :
              c # current_task /\ state[c] = "BLOCKED"

\* What a step may do to a task that has exited and is not on the processor.
KeepsDead ==
    \A t \in Slots \ {current_task} :
        state[t] = "DEAD" =>
            /\ current_task' # t
            /\ \/ state'[t] = "DEAD"
               \/ state'[t] = "UNUSED" /\ parent_id[t] = current_task

\* A task that has exited and lost the processor never gets it back, and its
\* slot is cleared only by a sys_wait of the task it names as its parent.
DeadStaysDead == [][KeepsDead]_vars

\* Round robin: a task that can run gets the processor and is back in ring 3,
\* whether it was preempted, has just been forked, or was woken in sys_wait,
\* sys_send or sys_recv.
RunnableRuns ==
    \A t \in Slots \ {0} :
        state[t] = "RUNNABLE" ~> current_task = t /\ cpu = "user"

\* A fault ends the process it happens in and nothing else, as fault_handler's
\* message and user_test.c say: the other tasks that can run still run.
FaultContained ==
    \A t \in Slots : state[t] = "RUNNABLE" /\ t # current_task ~> current_task = t

\* Once every child has exited and been reaped, all the pages the forks took
\* are free again: the "no leaks" of the fork-tree test.
ReapedPagesReturn ==
    (\A t \in Slots \ {BootTask} : state[t] = "UNUSED") => free_pages = BOOT_PAGES
============================================================================
