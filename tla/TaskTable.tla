----------------------------- MODULE TaskTable -----------------------------
(***************************************************************************)
(* The task table of kernel/src/task.c: MAX_TASKS slots, a LIFO free list  *)
(* threaded through the unused ones, and the fields of struct task that    *)
(* the scheduler and the syscalls read.  A task is named by its slot:      *)
(* task_table_init sets task_id to the slot index and nothing writes it    *)
(* again.  Slot 0 is never on the free list, so no task is ever id 0.      *)
(***************************************************************************)
EXTENDS Integers, Sequences, FiniteSetsExt

CONSTANT MAX_TASKS      \* task.h: 64

\* kmain's self test destroys three tasks it created, so it needs slots 1..3.
ASSUME MaxTasksAssumption == MAX_TASKS \in Nat /\ MAX_TASKS >= 4

VARIABLES
    state,              \* task_state_t of every slot
    block_reason,       \* block_reason_t of every slot
    ipc_peer,           \* whom a blocked task waits for, or ANY
    parent_id,          \* slot of the forking task, or ANY for none
    context,            \* where the saved kernel stack of a task resumes
    task_free_list      \* the next_free chain, head first

tableVars == <<state, block_reason, ipc_peer, parent_id, context, task_free_list>>

Slots == 0 .. MAX_TASKS - 1

\* (uint64_t)-1: IPC_ANY_SENDER, "any child", and the parent of a boot task.
ANY == -1

Ids == Slots \cup {ANY}

TaskStates == {"UNUSED", "RUNNABLE", "RUNNING", "BLOCKED", "DEAD"}

BlockReasons == {"NONE", "SEND", "RECV", "WAIT"}

\* Where context_rsp leads: ring 3 ("user"), the code behind the call of
\* task_block_and_switch in sys_send, sys_recv or sys_wait, or the hlt loop of
\* sys_exit.  "none" is context_rsp = 0, "stale" a stack that has been resumed
\* since it was saved.
Resumable == {"user", "send", "recv", "wait", "exit"}
Contexts == Resumable \cup {"none", "stale"}

TableTypeOK ==
    /\ state \in [Slots -> TaskStates]
    /\ block_reason \in [Slots -> BlockReasons]
    /\ ipc_peer \in [Slots -> Ids]
    /\ parent_id \in [Slots -> Ids]
    /\ context \in [Slots -> Contexts]
    /\ task_free_list \in Seq(Slots)

----------------------------------------------------------------------------
(* Queries. *)

\* task_find_by_id: any slot that is not UNUSED is found, a DEAD one included.
task_exists(id) == id \in Slots /\ state[id] # "UNUSED"

\* Without the wildcard.
Awaits_exactly(t, r, id) ==
    /\ state[t] = "BLOCKED"
    /\ block_reason[t] = r
    /\ ipc_peer[t] = id

\* t sleeps for reason r and accepts task id as the one it waits for.
Awaits(t, r, id) ==
    /\ state[t] = "BLOCKED"
    /\ block_reason[t] = r
    /\ ipc_peer[t] \in {ANY, id}

\* The children sys_wait(c) of task p looks at, and the ones it can reap.
Children(p, c) ==
    {t \in Slots : state[t] # "UNUSED" /\ parent_id[t] = p /\ c \in {ANY, t}}

Zombies(p, c) == {t \in Children(p, c) : state[t] = "DEAD"}

----------------------------------------------------------------------------
(* Operations. *)

\* The free list kmain leaves after its table test: slots 1, 2, 3 taken, 2
\* destroyed and taken again, the rest taken until the table is full, then
\* 4, 5, ..., 1, 3, 2 destroyed.  The first real task then takes slot 2.
BootFreeList ==
    [i \in 1 .. MAX_TASKS - 2 |-> CASE i = 1 -> 3
                                    [] i = 2 -> 1
                                    [] OTHER -> MAX_TASKS + 2 - i]

\* The one user task kmain creates and prepares before it starts the scheduler.
BootTask == 2

TableInit ==
    /\ state = [t \in Slots |-> IF t = BootTask THEN "RUNNABLE" ELSE "UNUSED"]
    /\ block_reason = [t \in Slots |-> "NONE"]
    /\ ipc_peer = [t \in Slots |-> 0]
    /\ parent_id = [t \in Slots |-> ANY]
    /\ context = [t \in Slots |-> IF t = BootTask THEN "user" ELSE "none"]
    /\ task_free_list = BootFreeList

\* task_destroy: the slot goes back to the head of the free list.
task_destroy(t) ==
    /\ state' = [state EXCEPT ![t] = "UNUSED"]
    /\ block_reason' = [block_reason EXCEPT ![t] = "NONE"]
    /\ parent_id' = [parent_id EXCEPT ![t] = ANY]
    /\ context' = [context EXCEPT ![t] = "none"]
    /\ task_free_list' = <<t>> \o task_free_list
    /\ UNCHANGED ipc_peer

task_wake(t) ==
    /\ state' = [state EXCEPT ![t] = "RUNNABLE"]
    /\ block_reason' = [block_reason EXCEPT ![t] = "NONE"]
    /\ UNCHANGED <<ipc_peer, parent_id, context, task_free_list>>

============================================================================
