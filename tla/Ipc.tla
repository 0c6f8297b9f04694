-------------------------------- MODULE Ipc --------------------------------
(***************************************************************************)
(* The messages of sys_send and sys_recv.  Module Kernel says who sleeps   *)
(* and who is woken; this module adds the bytes.  Every task has one       *)
(* buffer, which it passes to all its calls and writes between them        *)
(* through the page table that is loaded.  Nothing is ever unmapped, so    *)
(* the second check of a sleeping task's buffer, by the task that fills or *)
(* reads it, succeeds as the first did.                                    *)
(***************************************************************************)
EXTENDS Kernel

CONSTANTS
    IPC_MAX,            \* the most bytes one message carries: 256
    BUF,                \* bytes of a buffer
    Bytes,
    UserLens            \* the lengths ring 3 code passes

ASSUME IpcAssumption ==
    /\ IPC_MAX \in Nat /\ BUF \in Nat /\ IPC_MAX <= BUF
    /\ Bytes # {}
    /\ UserLens \subseteq Nat

VARIABLES
    ipc_len,            \* struct task: length asked for, then length taken
    umem,               \* what each task's buffer holds, UNMAPPED without a pml4
    taken,              \* history: bytes moved for the call a task is in, or NONE
    before              \* history: what umem held when the task made that call

ipcVars == <<ipc_len, umem, taken, before>>

NONE == -1
UNMAPPED == <<>>

IpcInit ==
    /\ Init
    /\ ipc_len = [t \in Slots |-> 0]
    /\ \E b \in Bytes :
          umem = [t \in Slots |-> IF t = BootTask THEN [i \in 1 .. BUF |-> b] ELSE UNMAPPED]
    /\ taken = [t \in Slots |-> NONE]
    /\ before = [t \in Slots |-> UNMAPPED]

----------------------------------------------------------------------------
(* Helpers. *)

\* The longer of the two.
CopyLen_longer(n, limit) == IF n < limit THEN limit ELSE n

\* copy_len: what was offered or what was asked for, whichever is less.
CopyLen(n, limit) == IF n < limit THEN n ELSE limit

\* The first n bytes of src, then the rest of dst.
Overwrite(dst, src, n) == [i \in 1 .. BUF |-> IF i <= n THEN src[i] ELSE dst[i]]

\* current_task calls task_block_and_switch with its buffer and n.
SleepsOn(n) ==
    /\ ipc_len' = [ipc_len EXCEPT ![current_task] = n]
    /\ taken' = [taken EXCEPT ![current_task] = NONE]
    /\ before' = [before EXCEPT ![current_task] = umem[current_task]]
    /\ UNCHANGED umem

\* Without telling the sender.
Takes_silently(sender, n) == UNCHANGED ipc_len

\* The sleeping sender will return the number of bytes its receiver took.
Takes(sender, n) == ipc_len' = [ipc_len EXCEPT ![sender] = n]

----------------------------------------------------------------------------
(* The syscalls, with their data. *)

\* uva_check_range turns the pointer down; an empty range it lets pass.
Refused(n) == cpu = "user" /\ n # 0 /\ UNCHANGED <<vars, ipcVars>>

send(target_id, len) ==
    LET n == CopyLen(len, IPC_MAX)
        self == current_task
    IN  \/ Refused(n)
        \/ /\ sys_send(target_id)
           /\ IF ~task_exists(target_id) THEN UNCHANGED ipcVars
              ELSE IF Awaits(target_id, "RECV", self)
              THEN LET copy_len == CopyLen(n, ipc_len[target_id])
                   IN  /\ umem' = [umem EXCEPT ![target_id] =
                                     Overwrite(@, umem[self], copy_len)]
                       /\ taken' = [taken EXCEPT ![target_id] = copy_len]
                       /\ UNCHANGED <<ipc_len, before>>
              ELSE SleepsOn(n)

recv(from_id, len) ==
    LET n == CopyLen(len, IPC_MAX)
        self == current_task
        senders == Senders(self, from_id)
        sender == Min(senders)
        copy_len == CopyLen(n, ipc_len[sender])
    IN  \/ Refused(n)
        \/ /\ sys_recv(from_id)
           /\ IF senders = {} THEN SleepsOn(n)
              ELSE /\ umem' = [umem EXCEPT ![self] = Overwrite(@, umem[sender], copy_len)]
                   /\ Takes(sender, copy_len)
                   /\ taken' = [taken EXCEPT ![sender] = copy_len]
                   /\ UNCHANGED before

\* A turn of sys_wait: it sleeps with an empty buffer, and task_destroy drops
\* the address space of a reaped child.
wait(child_id, turn) ==
    LET children == Children(current_task, child_id)
        zombies == Zombies(current_task, child_id)
    IN  /\ turn
        /\ IF zombies # {}
           THEN umem' = [umem EXCEPT ![Min(zombies)] = UNMAPPED] /\ UNCHANGED ipc_len
           ELSE IF children # {}
           THEN ipc_len' = [ipc_len EXCEPT ![current_task] = 0] /\ UNCHANGED umem
           ELSE UNCHANGED <<ipc_len, umem>>
        /\ UNCHANGED <<taken, before>>

\* The call that slept is over.
return ==
    /\ SyscallReturn
    /\ taken' = [taken EXCEPT ![current_task] = NONE]
    /\ before' = [before EXCEPT ![current_task] = UNMAPPED]
    /\ UNCHANGED <<ipc_len, umem>>

\* vmm_copy_address_space: the child starts with a copy of the buffer.
fork ==
    /\ sys_fork
    /\ IF task_free_list' = task_free_list
       THEN UNCHANGED umem
       ELSE umem' = [umem EXCEPT ![Head(task_free_list)] = umem[current_task]]
    /\ UNCHANGED <<ipc_len, taken, before>>

\* Ring 3 code fills its buffer, wherever cr3 says that is.
Fill(b) ==
    /\ cpu = "user"
    /\ umem' = [umem EXCEPT ![cr3] = [i \in 1 .. BUF |-> b]]
    /\ UNCHANGED <<vars, ipc_len, taken, before>>

----------------------------------------------------------------------------
IpcNext ==
    \/ (EnterFirstTask \/ TimerTick \/ sys_exit \/ UserFault) /\ UNCHANGED ipcVars
    \/ return
    \/ wait(ipc_peer[current_task], WaitAgain)
    \/ fork
    \/ \E id \in UserIds :
          \/ wait(id, sys_wait(id))
          \/ \E len \in UserLens : send(id, len) \/ recv(id, len)
    \/ \E b \in Bytes : Fill(b)

IpcSpec == IpcInit /\ [][IpcNext]_<<vars, ipcVars>>

----------------------------------------------------------------------------
(* Properties. *)

\* Where a task is, or will be when it gets the processor.
Point(t) == IF t = current_task THEN cpu ELSE context[t]

\* A call that slept returns with nothing moved only if no task was there that
\* could have run (task_block_and_switch came straight back).
AloneOr(moved) ==
    \/ moved
    \/ taken[current_task] = NONE /\ \A t \in Slots : state[t] # "RUNNABLE"

\* A sender that slept returns the number of bytes its receiver took, whatever
\* the two asked for, unless it was alone and never slept: then it returns the
\* full length although nobody took anything.
SendReturns == cpu = "send" => AloneOr(taken[current_task] = ipc_len[current_task])

\* A receiver that slept returns the length it asked for, not the length of the
\* message.  The message is never longer than that, and the buffer behind it
\* is as it was at the call.
RecvReturns ==
    cpu = "recv" =>
        /\ AloneOr(taken[current_task] \in 0 .. ipc_len[current_task])
        /\ \A i \in 1 .. BUF :
              i > taken[current_task] => umem[current_task][i] = before[current_task][i]

\* The message of a sleeping sender is still, byte for byte, what it was when
\* sys_send was called, whatever the other tasks write, send, fork or receive.
MessageKept ==
    \A s \in Slots :
        state[s] = "BLOCKED" /\ Point(s) = "send" => umem[s] = before[s]
============================================================================
