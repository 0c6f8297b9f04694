----------------------------- MODULE Scheduler -----------------------------
(***************************************************************************)
(* The processor and the code that gives it to tasks: scheduler.c,         *)
(* context_switch.S, timer.c and the blocking half of task.c.              *)
(*                                                                         *)
(* One processor runs one instruction stream.  cpu is the point that       *)
(* stream is at, for the points where anything else may happen next:       *)
(*   boot   kmain between sti and its scheduler_switch_to                  *)
(*   user   ring 3 code of current_task                                    *)
(*   send, recv, wait   the syscall, back from task_block_and_switch       *)
(*   exit   the hlt loop at the end of sys_exit                            *)
(*   halt   the cli; hlt loop of fault_handler                             *)
(* Syscalls enter through an interrupt gate and run with interrupts off,   *)
(* so a syscall is one step up to the context switch inside it.            *)
(***************************************************************************)
EXTENDS TaskTable

CONSTANT TIME_SLICE_TICKS       \* timer.h: 20

ASSUME SliceAssumption == TIME_SLICE_TICKS \in Nat \ {0}

VARIABLES
    current_task,       \* a slot; kmain sets it before interrupts are on
    cpu,
    cr3,                \* the task whose pml4 is loaded, or KERNEL
    rsp0,               \* the task whose kstack_top is in the TSS, or KERNEL
    g_ticks             \* modulo TIME_SLICE_TICKS, the only use made of it

cpuVars == <<current_task, cpu, cr3, rsp0>>

\* The boot page table and the boot stack.
KERNEL == -1

Locations == Resumable \cup {"boot", "halt"}

SchedulerTypeOK ==
    /\ current_task \in Slots
    /\ cpu \in Locations
    /\ cr3 \in Slots \cup {KERNEL}
    /\ rsp0 \in Slots \cup {KERNEL}
    /\ g_ticks \in 0 .. TIME_SLICE_TICKS - 1

\* RFLAGS.IF: on in ring 3, in sys_exit's hlt loop and in kmain after sti.
InterruptsOn == cpu \in {"boot", "user", "exit"}

\* kmain: current_task = t; the boot page table and stack are still in use.
SchedulerInit ==
    /\ current_task = BootTask
    /\ cpu = "boot"
    /\ cr3 = KERNEL
    /\ rsp0 = KERNEL
    /\ g_ticks = 0

----------------------------------------------------------------------------
\* One slot short of a full turn.
RunnableOffsets_short(st, cur) ==
    {k \in 1 .. MAX_TASKS - 2 : st[(cur + k) % MAX_TASKS] = "RUNNABLE"}

\* Without looking at DEAD.
RunnableOffsets_dead(st, cur) ==
    {k \in 1 .. MAX_TASKS : st[(cur + k) % MAX_TASKS] \in {"RUNNABLE", "DEAD"}}

\* The k for which slot (cur + k) % MAX_TASKS holds a RUNNABLE task, in table st.
RunnableOffsets(st, cur) ==
    {k \in 1 .. MAX_TASKS : st[(cur + k) % MAX_TASKS] = "RUNNABLE"}

\* From slot 0 instead of from cur.
scheduler_pick_next_from_0(st, cur) ==
    IF RunnableOffsets(st, cur) = {}
    THEN cur
    ELSE Min({t \in Slots : st[t] = "RUNNABLE"})

\* The first RUNNABLE task after cur, round the table and back to cur itself.
\* With none, idle_task would run; scheduler_init sets it to NULL and
\* scheduler_set_idle_task has no caller, so cur keeps the processor.
scheduler_pick_next(st, cur) ==
    IF RunnableOffsets(st, cur) = {}
    THEN cur
    ELSE (cur + Min(RunnableOffsets(st, cur))) % MAX_TASKS

\* Without saving the stack pointer of old.
scheduler_switch_to_unsaved(old, at, new) ==
    /\ cr3' = new
    /\ rsp0' = new
    /\ context' = [context EXCEPT ![new] = "stale"]
    /\ cpu' = context[new]

\* Without loading new's page table.
scheduler_switch_to_same_space(old, at, new) ==
    /\ cr3' = cr3
    /\ rsp0' = new
    /\ context' = [context EXCEPT ![old] = at, ![new] = "stale"]
    /\ cpu' = context[new]

\* Loads new's page table and kernel stack; context_switch saves where old
\* was and resumes new where it was saved.
scheduler_switch_to(old, at, new) ==
    /\ cr3' = new
    /\ rsp0' = new
    /\ context' = [context EXCEPT ![old] = at, ![new] = "stale"]
    /\ cpu' = context[new]

\* current_task sleeps; at is the point behind the call.  With nobody else to
\* run the call returns at once, and the caller goes on although BLOCKED.
task_block_and_switch(reason, peer, at) ==
    LET self == current_task
        blocked == [state EXCEPT ![self] = "BLOCKED"]
        next == scheduler_pick_next(blocked, self)
    IN  /\ block_reason' = [block_reason EXCEPT ![self] = reason]
        /\ ipc_peer' = [ipc_peer EXCEPT ![self] = peer]
        /\ IF next = self
           THEN /\ state' = blocked
                /\ cpu' = at
                /\ UNCHANGED <<context, current_task, cr3, rsp0>>
           ELSE /\ state' = [blocked EXCEPT ![next] = "RUNNING"]
                /\ current_task' = next
                /\ scheduler_switch_to(self, at, next)
        /\ UNCHANGED <<parent_id, task_free_list>>

\* Without taking RUNNING from prev.
Preempted_still_running(st, prev, next) == [st EXCEPT ![next] = "RUNNING"]

\* The table once the timer has taken the processor from prev for next.
Preempted(st, prev, next) ==
    [st EXCEPT ![prev] = IF @ = "RUNNING" THEN "RUNNABLE" ELSE @,
               ![next] = "RUNNING"]

\* IRQ 0.  The EOI is sent before the switch, so the next tick is not held
\* back by the task that was switched away from.
timer_tick_handler ==
    LET next == scheduler_pick_next(state, current_task)
    IN  /\ InterruptsOn
        /\ g_ticks' = (g_ticks + 1) % TIME_SLICE_TICKS
        /\ IF g_ticks' # 0 \/ next = current_task
           THEN UNCHANGED <<state, context, cpuVars>>
           ELSE /\ state' = Preempted(state, current_task, next)
                /\ current_task' = next
                /\ scheduler_switch_to(current_task, cpu, next)
        /\ UNCHANGED <<block_reason, ipc_peer, parent_id, task_free_list>>

============================================================================
