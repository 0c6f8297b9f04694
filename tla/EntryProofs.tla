----------------------------- MODULE EntryProofs -----------------------------
(***************************************************************************)
(* Proofs about what enters the kernel: the interrupts of module           *)
(* Interrupts and the messages of module Ipc, both on top of the kernel's  *)
(* invariant IInv, for every number of tasks, message size and buffer      *)
(* content.                                                                *)
(***************************************************************************)
EXTENDS Interrupts, Ipc, KernelProofs

\* The time each prover has for a leaf that names none.
USE SMTT(30), ZenonT(30)

-----------------------------------------------------------------------------
(* Messages: what is known of a task that is in a send or a recv.          *)

Live == {"RUNNABLE", "RUNNING"}
InCall == {"send", "recv"}

\* What is known of a task that is in a send or a recv that sleeps or slept.
CallOk(t) ==
    /\ state[t] = "BLOCKED" /\ Point(t) \in InCall =>
          taken[t] = NONE /\ umem[t] = before[t]
    /\ state[t] \in Live /\ Point(t) = "send" => taken[t] = ipc_len[t]
    /\ state[t] \in Live /\ Point(t) = "recv" =>
          /\ taken[t] \in 0 .. ipc_len[t]
          /\ \A i \in 1 .. BUF : i > taken[t] => umem[t][i] = before[t][i]

\* A call that is about to return although nobody woke the task.
Alone ==
    cpu \in InCall /\ state[current_task] = "BLOCKED" =>
        \A t \in Slots : state[t] # "RUNNABLE"

IpcDomains ==
    /\ ipc_len \in [Slots -> Nat]
    /\ DOMAIN umem = Slots /\ DOMAIN taken = Slots /\ DOMAIN before = Slots

IpcInv == IpcDomains /\ Alone /\ \A t \in Slots : CallOk(t)

----------------------------------------------------------------------------
\* A task is in the same call as before, if it is in one, and nobody touched
\* its call or its buffer.
Untouched(t) ==
    Point(t)' \in InCall =>
        /\ Point(t)' = Point(t)
        /\ state'[t] = "BLOCKED" => state[t] = "BLOCKED"
        /\ state'[t] \in Live => state[t] \in Live
        /\ UNCHANGED <<ipc_len[t], umem[t], taken[t], before[t]>>

LEMMA UntouchedOk ==
  ASSUME NEW t \in Slots, CallOk(t), Untouched(t)
  PROVE  CallOk(t)'
  BY DEF CallOk, Untouched, InCall

\* A step after which the processor is not about to return from a call.
LEMMA OutOfCall == ASSUME cpu' \notin InCall PROVE Alone'
  BY DEF Alone

\* The caller of task_block_and_switch will resume at its sleeping point, and
\* every other task is where it was.
LEMMA BlockPoints ==
  ASSUME IInv, NEW r, NEW p, NEW at, task_block_and_switch(r, p, at),
         NEW cur \in Slots, cur = current_task
  PROVE  /\ state'[cur] = "BLOCKED"
         /\ Point(cur)' = at
         /\ \A t \in Slots \ {cur} :
               /\ Point(t)' = Point(t)
               /\ state'[t] = "BLOCKED" => state[t] = "BLOCKED"
               /\ state'[t] \in Live => state[t] \in Live
         /\ Alone'
<1> DEFINE blocked == [state EXCEPT ![cur] = "BLOCKED"]
<1>1. state \in [Slots -> TaskStates] /\ context \in [Slots -> Contexts]
  BY DEF IInv, TypeOK, TableTypeOK
<1>2. PICK next \in Slots :
        /\ next = scheduler_pick_next(blocked, cur)
        /\ \/ blocked[next] = "RUNNABLE"
           \/ next = cur /\ \A t \in Slots : blocked[t] # "RUNNABLE"
  BY ZenonT(30), PickNext
<1>3. /\ DOMAIN blocked = Slots /\ blocked[cur] = "BLOCKED"
      /\ \A t \in Slots \ {cur} : blocked[t] = state[t]
  BY <1>1
<1>4. \/ /\ next = cur /\ state' = blocked /\ cpu' = at
         /\ UNCHANGED <<context, current_task>>
      \/ /\ next # cur
         /\ state' = [blocked EXCEPT ![next] = "RUNNING"]
         /\ current_task' = next
         /\ context' = [context EXCEPT ![cur] = at, ![next] = "stale"]
         /\ cpu' = context[next]
  BY ZenonT(30), <1>2 DEF task_block_and_switch, scheduler_switch_to
<1> HIDE DEF blocked
<1>5. CASE next = cur
  <2>1. state' = blocked /\ cpu' = at /\ UNCHANGED <<context, current_task>>
    BY <1>4, <1>5
  <2>2. \A t \in Slots : state'[t] # "RUNNABLE"
    BY <1>2, <1>3, <1>5, <2>1
  <2> QED  BY <1>1, <1>3, <2>1, <2>2 DEF Point, Alone
<1>6. CASE next # cur
  <2>1. /\ state' = [blocked EXCEPT ![next] = "RUNNING"] /\ current_task' = next
        /\ context' = [context EXCEPT ![cur] = at, ![next] = "stale"]
        /\ cpu' = context[next]
    BY <1>4, <1>6
  <2>2. /\ state'[cur] = "BLOCKED" /\ state'[next] = "RUNNING"
        /\ state[next] = "RUNNABLE"
        /\ \A t \in Slots \ {cur, next} : state'[t] = state[t]
    BY <1>1, <1>2, <1>3, <1>6, <2>1
  <2>3. /\ context'[cur] = at
        /\ \A t \in Slots \ {cur, next} : context'[t] = context[t]
    BY <1>1, <1>2, <1>6, <2>1
  <2>4. Point(cur)' = at /\ \A t \in Slots \ {cur} : Point(t)' = Point(t)
    BY ZenonT(30), <1>6, <2>1, <2>3 DEF Point
  <2>5. Alone'
    BY <2>1, <2>2 DEF Alone
  <2> QED  BY <2>2, <2>4, <2>5 DEF Live
<1> QED  BY <1>5, <1>6

\* task_wake moves nobody.
LEMMA WakePoints ==
  ASSUME IInv, NEW w \in Slots, task_wake(w), UNCHANGED cpuVars
  PROVE  /\ \A t \in Slots : Point(t)' = Point(t)
         /\ \A t \in Slots \ {w} : state'[t] = state[t]
         /\ state'[w] = "RUNNABLE"
  BY DEF IInv, TypeOK, TableTypeOK, task_wake, cpuVars, Point

\* A sleeping task in a send or recv has the block_reason that belongs to it.
LEMMA SleeperPoint ==
  ASSUME IInv, cpu = "user", NEW t \in Slots, state[t] = "BLOCKED"
  PROVE  /\ block_reason[t] = "WAIT" => Point(t) \notin InCall
         /\ block_reason[t] = "SEND" => Point(t) # "recv"
         /\ block_reason[t] = "RECV" => Point(t) # "send"
<1>1. CASE t = current_task
  BY <1>1 DEF Point, InCall
<1>2. CASE t # current_task
  BY <1>2 DEF IInv, SleepInv, SleepPoint, Point, InCall
<1> QED  BY <1>1, <1>2

----------------------------------------------------------------------------
(* One lemma per syscall. *)

\* A caller that goes to sleep has its buffer noted as it is.
LEMMA SleepsOk ==
  ASSUME IInv, IpcInv, NEW r, NEW p, NEW at, NEW n \in Nat,
         task_block_and_switch(r, p, at), SleepsOn(n)
  PROVE  IpcInv'
<1>1. PICK cur \in Slots : cur = current_task
  BY DEF IInv, TypeOK, SchedulerTypeOK
<1>2. IpcDomains'
  BY <1>1 DEF IpcInv, IpcDomains, SleepsOn
<1>3. CallOk(cur)'
  <2>1. state'[cur] = "BLOCKED"
    BY <1>1, BlockPoints
  <2>2. taken'[cur] = NONE /\ umem'[cur] = before'[cur]
    BY <1>1 DEF IpcInv, IpcDomains, SleepsOn
  <2> QED  BY <2>1, <2>2 DEF CallOk, Live
<1>4. ASSUME NEW t \in Slots \ {cur} PROVE CallOk(t)'
  <2>1. UNCHANGED <<ipc_len[t], umem[t], taken[t], before[t]>>
    BY <1>1, <1>4 DEF IpcInv, IpcDomains, SleepsOn
  <2>2. Untouched(t)
    BY <2>1, <1>1, <1>4, BlockPoints DEF Untouched
  <2> QED  BY <2>2, <1>4, UntouchedOk DEF IpcInv
<1>5. Alone'
  BY <1>1, BlockPoints
<1> QED  BY <1>2, <1>3, <1>4, <1>5 DEF IpcInv

LEMMA CopyLenFits ==
  ASSUME NEW n \in Nat, NEW limit \in Nat
  PROVE  /\ CopyLen(n, limit) \in Nat /\ CopyLen(n, limit) \in 0 .. limit
         /\ CopyLen(n, limit) <= n
  BY DEF CopyLen

\* sys_send: refused, no such task, a delivery, or sleep.
LEMMA SendOk ==
  ASSUME IInv, IpcInv, NEW id \in Ids, NEW len \in UserLens, send(id, len)
  PROVE  IpcInv'
<1> DEFINE n == CopyLen(len, IPC_MAX)
<1>1. n \in Nat
  BY IpcAssumption, CopyLenFits
<1>2. PICK cur \in Slots : cur = current_task
  BY DEF IInv, TypeOK, SchedulerTypeOK
<1>3. CASE Refused(n)
  BY <1>3 DEF Refused, vars, tableVars, cpuVars, ipcVars, IpcInv, IpcDomains, Alone,
              CallOk, Point
<1>4. CASE ~task_exists(id) /\ UNCHANGED <<vars, ipcVars>>
  BY <1>4 DEF vars, tableVars, cpuVars, ipcVars, IpcInv, IpcDomains, Alone, CallOk, Point
<1>5. CASE /\ task_exists(id) /\ ~Awaits(id, "RECV", current_task)
           /\ task_block_and_switch("SEND", id, "send") /\ SleepsOn(n)
  BY <1>1, <1>5, SleepsOk
<1>6. ASSUME task_exists(id), Awaits(id, "RECV", cur), cpu = "user", task_wake(id),
             UNCHANGED cpuVars, NEW m, m = CopyLen(n, ipc_len[id]),
             umem' = [umem EXCEPT ![id] = Overwrite(umem[id], umem[cur], m)],
             taken' = [taken EXCEPT ![id] = m], UNCHANGED <<ipc_len, before>>
      PROVE  IpcInv'
  <2>1. id \in Slots /\ state[id] = "BLOCKED" /\ block_reason[id] = "RECV"
    BY <1>6 DEF task_exists, Awaits
  <2>2. m \in 0 .. ipc_len[id]
    <3>1. ipc_len[id] \in Nat
      BY <2>1 DEF IpcInv, IpcDomains
    <3> QED  BY ZenonT(30), <1>1, <1>6, <3>1, CopyLenFits
  <2>3. IpcDomains'
    BY <1>6 DEF IpcInv, IpcDomains
  <2>4. CallOk(id)'
    <3>1. state'[id] = "RUNNABLE" /\ Point(id)' = Point(id) /\ Point(id) # "send"
      BY ZenonT(30), <1>6, <2>1, WakePoints, SleeperPoint
    <3>2. /\ taken'[id] = m /\ ipc_len'[id] = ipc_len[id] /\ before'[id] = before[id]
          /\ umem'[id] = Overwrite(umem[id], umem[cur], m)
      BY <1>6, <2>1 DEF IpcInv, IpcDomains
    <3>3. \A i \in 1 .. BUF : i > m => umem'[id][i] = umem[id][i]
      BY <2>2, <3>2 DEF Overwrite, IpcInv, IpcDomains
    <3>4. Point(id) = "recv" => umem[id] = before[id]
      BY <2>1 DEF IpcInv, CallOk, InCall
    <3> QED  BY ZenonT(30), <2>2, <3>1, <3>2, <3>3, <3>4 DEF CallOk
  <2>5. ASSUME NEW t \in Slots \ {id} PROVE CallOk(t)'
    <3>1. UNCHANGED <<ipc_len[t], umem[t], taken[t], before[t]>>
      BY <1>6, <2>5 DEF IpcInv, IpcDomains
    <3>2. Untouched(t)
      BY ZenonT(30), <3>1, <1>6, <2>1, <2>5, WakePoints DEF Untouched
    <3> QED  BY <3>2, <2>5, UntouchedOk DEF IpcInv
  <2>6. Alone'
    BY <1>6, OutOfCall DEF cpuVars, InCall
  <2> QED  BY <2>3, <2>4, <2>5, <2>6 DEF IpcInv
<1> QED  BY ZenonT(30), <1>2, <1>3, <1>4, <1>5, <1>6 DEF send, sys_send, vars

\* sys_recv: refused, a message from a sleeping sender, or sleep.
LEMMA RecvOk ==
  ASSUME IInv, IpcInv, NEW id \in Ids, NEW len \in UserLens, recv(id, len)
  PROVE  IpcInv'
<1> DEFINE n == CopyLen(len, IPC_MAX)
<1>1. n \in Nat
  BY IpcAssumption, CopyLenFits
<1>2. PICK cur \in Slots : cur = current_task
  BY DEF IInv, TypeOK, SchedulerTypeOK
<1>3. CASE Refused(n)
  BY <1>3 DEF Refused, vars, tableVars, cpuVars, ipcVars, IpcInv, IpcDomains, Alone,
              CallOk, Point
<1>4. CASE task_block_and_switch("RECV", id, "recv") /\ SleepsOn(n)
  BY <1>1, <1>4, SleepsOk
<1>5. ASSUME Senders(cur, id) # {}, cpu = "user", NEW s, s = Min(Senders(cur, id)),
             task_wake(s), UNCHANGED cpuVars, NEW m, m = CopyLen(n, ipc_len[s]),
             umem' = [umem EXCEPT ![cur] = Overwrite(umem[cur], umem[s], m)],
             ipc_len' = [ipc_len EXCEPT ![s] = m],
             taken' = [taken EXCEPT ![s] = m], UNCHANGED before
      PROVE  IpcInv'
  <2>0. Senders(cur, id) \in SUBSET Nat
    BY MaxTasksAssumption DEF Senders, Slots
  <2>1. s \in Slots /\ state[s] = "BLOCKED" /\ block_reason[s] = "SEND"
    <3>1. s \in Senders(cur, id)
      BY ZenonT(30), <1>5, <2>0, MinIsLeast
    <3> QED  BY <3>1 DEF Senders
  <2>a. cpu = "user" /\ task_wake(s) /\ UNCHANGED cpuVars
    BY <1>5
  <2>2. m \in Nat
    <3>1. ipc_len[s] \in Nat
      BY ZenonT(30), <2>1 DEF IpcInv, IpcDomains
    <3> QED  BY ZenonT(30), <1>1, <1>5, <3>1, CopyLenFits
  <2>3. IpcDomains'
    BY ZenonT(30), <1>5, <2>2 DEF IpcInv, IpcDomains
  <2>4. CallOk(s)'
    <3>1. state'[s] = "RUNNABLE" /\ Point(s)' = Point(s) /\ Point(s) # "recv"
      BY <2>a, <2>1, WakePoints, SleeperPoint
    <3>2. taken'[s] = m /\ ipc_len'[s] = m
      BY <1>5, <2>1 DEF IpcInv, IpcDomains
    <3> QED  BY ZenonT(30), <3>1, <3>2 DEF CallOk
  <2>5. ASSUME NEW t \in Slots \ {s} PROVE CallOk(t)'
    <3>0. Point(t)' = Point(t) /\ state'[t] = state[t]
      BY <2>a, <2>1, <2>5, WakePoints
    <3>1. CASE t = cur
      BY <3>0, <3>1, <1>2, <2>a DEF CallOk, Point, InCall
    <3>2. CASE t # cur
      <4>1. UNCHANGED <<ipc_len[t], umem[t], taken[t], before[t]>>
        BY <1>5, <2>5, <3>2 DEF IpcInv, IpcDomains
      <4> QED  BY <3>0, <4>1, <2>5, UntouchedOk DEF IpcInv, Untouched
    <3> QED  BY <3>1, <3>2
  <2>6. Alone'
    BY <2>a, OutOfCall DEF cpuVars, InCall
  <2> QED  BY <2>3, <2>4, <2>5, <2>6 DEF IpcInv
<1> QED  BY ZenonT(30), <1>2, <1>3, <1>4, <1>5 DEF recv, sys_recv, Takes, vars

------------------------------------------------------------------------------
(* The steps other than sys_send and sys_recv. *)

\* A turn of sys_wait: the reaped task is in no call, nor is the caller.
LEMMA WaitOk ==
  ASSUME IInv, IpcInv, NEW id, WaitTurn(id), wait(id, TRUE)
  PROVE  IpcInv'
<1>1. PICK cur \in Slots : cur = current_task
  BY DEF IInv, TypeOK, SchedulerTypeOK
<1>2. CASE Zombies(cur, id) # {}
  <2>0. Zombies(cur, id) \in SUBSET Nat /\ Zombies(cur, id) \subseteq Slots
    BY MaxTasksAssumption DEF Zombies, Children, Slots
  <2>1. PICK z \in Slots : z = Min(Zombies(cur, id))
    BY <1>2, <2>0, MinIsLeast
  <2>2. /\ task_destroy(z) /\ cpu' = "user" /\ current_task' = cur
        /\ umem' = [umem EXCEPT ![z] = UNMAPPED] /\ UNCHANGED <<ipc_len, taken, before>>
    BY ZenonT(30), <1>1, <1>2, <2>1 DEF WaitTurn, wait, Zombies
  <2>3. IpcDomains'
    BY <2>2 DEF IpcInv, IpcDomains
  <2>4. ASSUME NEW t \in Slots PROVE Untouched(t)
    <3>1. CASE t = cur
      BY <3>1, <2>2 DEF Untouched, Point, InCall
    <3>2. CASE t # cur /\ t = z
      BY <3>2, <2>2 DEF Untouched, Point, InCall, task_destroy, IInv, TypeOK, TableTypeOK
    <3>3. CASE t # cur /\ t # z
      <4>1. state'[t] = state[t] /\ context'[t] = context[t]
        BY <3>3, <2>2 DEF task_destroy, IInv, TypeOK, TableTypeOK
      <4>2. UNCHANGED <<ipc_len[t], umem[t], taken[t], before[t]>>
        BY <3>3, <2>2 DEF IpcInv, IpcDomains
      <4> QED  BY <3>3, <4>1, <4>2, <2>2, <1>1 DEF Untouched, Point
    <3> QED  BY <3>1, <3>2, <3>3
  <2> QED  BY <2>2, <2>3, <2>4, UntouchedOk, OutOfCall DEF IpcInv, InCall
<1>3. CASE Zombies(cur, id) = {} /\ Children(cur, id) = {}
  <2>1. /\ cpu' = "user" /\ UNCHANGED <<tableVars, current_task, ipcVars>>
    BY ZenonT(30), <1>1, <1>3 DEF WaitTurn, wait, ipcVars
  <2>2. ASSUME NEW t \in Slots PROVE Untouched(t)
    BY ZenonT(30), <2>1 DEF tableVars, ipcVars, Untouched, Point, InCall
  <2>3. IpcDomains'
    BY ZenonT(30), <2>1 DEF IpcInv, IpcDomains, ipcVars
  <2> QED  BY <2>1, <2>2, <2>3, UntouchedOk, OutOfCall DEF IpcInv, InCall
<1>4. CASE Zombies(cur, id) = {} /\ Children(cur, id) # {}
  <2>1. /\ task_block_and_switch("WAIT", id, "wait")
        /\ ipc_len' = [ipc_len EXCEPT ![cur] = 0] /\ UNCHANGED <<umem, taken, before>>
    BY ZenonT(30), <1>1, <1>4 DEF WaitTurn, wait
  <2>2. IpcDomains'
    BY <2>1 DEF IpcInv, IpcDomains
  <2>3. ASSUME NEW t \in Slots PROVE Untouched(t)
    <3>1. CASE t = cur
      BY <3>1, <2>1, <1>1, BlockPoints DEF Untouched, InCall
    <3>2. CASE t # cur
      <4>1. UNCHANGED <<ipc_len[t], umem[t], taken[t], before[t]>>
        BY <3>2, <2>1 DEF IpcInv, IpcDomains
      <4> QED  BY <3>2, <4>1, <2>1, <1>1, BlockPoints DEF Untouched
    <3> QED  BY <3>1, <3>2
  <2>4. Alone'
    BY ZenonT(30), <1>1, <2>1, BlockPoints
  <2> QED  BY <2>2, <2>3, <2>4, UntouchedOk DEF IpcInv
<1> QED  BY <1>2, <1>3, <1>4

\* sys_fork writes the buffer of the new task, which starts in ring 3.
LEMMA ForkOk ==
  ASSUME IInv, IpcInv, fork
  PROVE  IpcInv'
<1>1. cpu = "user" /\ cpu' = "user" /\ UNCHANGED <<current_task, ipc_len, taken, before>>
  BY DEF fork, sys_fork, cpuVars
<1>2. ASSUME NEW t \in Slots PROVE Untouched(t)
  <2>1. CASE t = current_task
    BY <2>1, <1>1 DEF Untouched, Point, InCall
  <2>2. CASE t # current_task /\ t = Head(task_free_list) /\ context'[t] = "user"
    BY <2>2, <1>1 DEF Untouched, Point, InCall
  <2>3. CASE /\ t # current_task
             /\ state'[t] = state[t] /\ context'[t] = context[t] /\ umem'[t] = umem[t]
    BY <2>3, <1>1 DEF Untouched, Point
  <2>4. CASE t # Head(task_free_list)
    <3>1. umem'[t] = umem[t]
      BY <2>4 DEF fork, IpcInv, IpcDomains
    <3>2. state'[t] = state[t] /\ context'[t] = context[t]
      BY <2>4 DEF fork, sys_fork, ForkInto, tableVars, IInv, TypeOK, TableTypeOK
    <3> QED  BY <3>1, <3>2, <2>1, <2>3
  <2>5. CASE t = Head(task_free_list)
    <3>1. CASE UNCHANGED tableVars
      BY <3>1, <2>1, <2>3 DEF tableVars, fork
    <3>2. CASE ForkInto(Head(task_free_list))
      <4>1. context'[t] = "user"
        BY <3>2, <2>5 DEF ForkInto, IInv, TypeOK, TableTypeOK
      <4> QED  BY <4>1, <2>1, <2>2, <2>5
    <3> QED  BY ZenonT(30), <3>1, <3>2 DEF fork, sys_fork, tableVars
  <2> QED  BY <2>4, <2>5
<1>3. IpcDomains'
  BY <1>1 DEF fork, IpcInv, IpcDomains
<1> QED  BY <1>1, <1>2, <1>3, UntouchedOk, OutOfCall DEF IpcInv, InCall

\* The parent sys_exit wakes is in sys_wait, in no send or recv.
LEMMA ExitOk ==
  ASSUME IInv, IpcInv, sys_exit, UNCHANGED ipcVars
  PROVE  IpcInv'
<1>1. cpu = "user" /\ cpu' = "exit" /\ UNCHANGED <<current_task, context, ipcVars>>
  BY DEF sys_exit
<1>2. ASSUME NEW t \in Slots PROVE Untouched(t)
  <2>1. CASE t = current_task
    BY <2>1, <1>1 DEF Untouched, Point, InCall
  <2>2. CASE t # current_task /\ t \in WaitingParent(current_task)
    <3>1. Point(t) \notin InCall
      BY <2>2, <1>1, SleeperPoint DEF WaitingParent, Awaits
    <3> QED  BY <3>1, <2>2, <1>1 DEF Untouched, Point
  <2>3. CASE t # current_task /\ t \notin WaitingParent(current_task)
    <3>1. state'[t] = state[t]
      BY <2>3 DEF sys_exit
    <3> QED  BY <3>1, <2>3, <1>1 DEF Untouched, Point, ipcVars
  <2> QED  BY <2>1, <2>2, <2>3
<1>3. IpcDomains'
  BY <1>1 DEF IpcInv, IpcDomains, ipcVars
<1> QED  BY <1>1, <1>2, <1>3, UntouchedOk, OutOfCall DEF IpcInv, InCall

\* The timer interrupts nobody in a call, and switches to a task that is not
\* BLOCKED.
LEMMA TickOk ==
  ASSUME IInv, IpcInv, TimerTick, UNCHANGED ipcVars
  PROVE  IpcInv'
<1>1. PICK cur \in Slots : cur = current_task
  BY DEF IInv, TypeOK, SchedulerTypeOK
<1>2. cpu \notin InCall
  BY DEF TimerTick, timer_tick_handler, InterruptsOn, InCall
<1>3. PICK next \in Slots :
        /\ next = scheduler_pick_next(state, cur)
        /\ \/ state[next] = "RUNNABLE"
           \/ next = cur /\ \A t \in Slots : state[t] # "RUNNABLE"
  BY ZenonT(30), PickNext
<1>4. IpcDomains'
  BY DEF IpcInv, IpcDomains, ipcVars
<1>5. CASE UNCHANGED <<state, context, cpuVars>>
  <2>1. ASSUME NEW t \in Slots PROVE Untouched(t)
    BY <1>5 DEF Untouched, Point, cpuVars, ipcVars
  <2> QED  BY <2>1, <1>2, <1>4, <1>5, UntouchedOk, OutOfCall DEF IpcInv, cpuVars
<1>6. CASE /\ next # cur /\ state' = Preempted(state, cur, next)
           /\ current_task' = next /\ scheduler_switch_to(cur, cpu, next)
  <2>1. /\ state'[next] = "RUNNING" /\ state[next] = "RUNNABLE"
        /\ state'[cur] = IF state[cur] = "RUNNING" THEN "RUNNABLE" ELSE state[cur]
        /\ \A t \in Slots \ {cur, next} : state'[t] = state[t]
    BY <1>3, <1>6 DEF Preempted, IInv, TypeOK, TableTypeOK
  <2>2. /\ cpu' = context[next] /\ context'[cur] = cpu
        /\ \A t \in Slots \ {cur, next} : context'[t] = context[t]
    BY <1>6 DEF scheduler_switch_to, IInv, TypeOK, TableTypeOK
  <2>3. ASSUME NEW t \in Slots PROVE Point(t)' = Point(t)
    BY ZenonT(30), <1>1, <1>6, <2>2 DEF Point
  <2>4. ASSUME NEW t \in Slots PROVE Untouched(t)
    BY <2>1, <2>3 DEF Untouched, Live, ipcVars
  <2>5. Alone'
    BY <1>6, <2>1 DEF Alone
  <2> QED  BY <2>4, <2>5, <1>4, UntouchedOk DEF IpcInv
<1> QED  BY ZenonT(30), <1>1, <1>3, <1>5, <1>6 DEF TimerTick, timer_tick_handler

LEMMA IpcInitInv == IpcInit => IpcInv
<1> SUFFICES ASSUME IpcInit PROVE IpcInv
  OBVIOUS
<1>1. IpcDomains
  BY DEF IpcInit, IpcDomains
<1>2. cpu = "boot" /\ \A t \in Slots : Point(t) \notin InCall
  BY DEF IpcInit, Init, SchedulerInit, TableInit, Point, InCall
<1> QED  BY <1>1, <1>2 DEF IpcInv, Alone, CallOk, InCall

LEMMA IpcNextInv ==
  IInv /\ IpcInv /\ [IpcNext]_<<vars, ipcVars>> => IpcInv'
<1> SUFFICES ASSUME IInv, IpcInv, [IpcNext]_<<vars, ipcVars>> PROVE IpcInv'
  OBVIOUS
<1>1. CASE UNCHANGED <<vars, ipcVars>>
  BY ZenonT(30), <1>1 DEF vars, tableVars, cpuVars, ipcVars, IpcInv, IpcDomains, Alone, CallOk, Point
<1>2. CASE (EnterFirstTask \/ UserFault) /\ UNCHANGED ipcVars
  <2>1. cpu' \notin InCall
    BY <1>2 DEF EnterFirstTask, UserFault, IInv, CpuInv, InCall
  <2>2. ASSUME NEW t \in Slots PROVE Untouched(t)
    BY <1>2, <2>1 DEF EnterFirstTask, UserFault, tableVars, ipcVars, Untouched, Point, IInv,
                      TypeOK, TableTypeOK
  <2>3. IpcDomains'
    BY <1>2 DEF IpcInv, IpcDomains, ipcVars
  <2> QED  BY <2>1, <2>2, <2>3, UntouchedOk, OutOfCall DEF IpcInv
<1>3. CASE return
  <2>1. /\ cpu' = "user" /\ UNCHANGED <<tableVars, current_task, ipc_len, umem>>
        /\ taken' = [taken EXCEPT ![current_task] = NONE]
        /\ before' = [before EXCEPT ![current_task] = UNMAPPED]
    BY <1>3 DEF return, SyscallReturn
  <2>2. ASSUME NEW t \in Slots PROVE Untouched(t)
    BY ZenonT(30), <2>1 DEF Untouched, Point, InCall, tableVars, IpcInv, IpcDomains
  <2>3. IpcDomains'
    BY <2>1 DEF IpcInv, IpcDomains
  <2> QED  BY <2>1, <2>2, <2>3, UntouchedOk, OutOfCall DEF IpcInv, InCall
<1>4. ASSUME NEW b \in Bytes, Fill(b) PROVE IpcInv'
  <2>1. /\ cpu = "user" /\ cr3 = current_task /\ UNCHANGED <<vars, ipc_len, taken, before>>
        /\ umem' = [umem EXCEPT ![cr3] = [i \in 1 .. BUF |-> b]]
    BY <1>4 DEF Fill, IInv, OneTaskRuns
  <2>2. ASSUME NEW t \in Slots PROVE Untouched(t)
    BY ZenonT(30), <2>1 DEF Untouched, Point, InCall, vars, cpuVars, tableVars, IpcInv, IpcDomains
  <2>3. IpcDomains'
    BY <2>1 DEF IpcInv, IpcDomains
  <2> QED  BY <2>1, <2>2, <2>3, UntouchedOk, OutOfCall DEF IpcInv, InCall, vars, cpuVars
<1>5. CASE wait(ipc_peer[current_task], WaitAgain)
  <2>1. WaitTurn(ipc_peer[current_task]) /\ wait(ipc_peer[current_task], TRUE)
    BY ZenonT(30), <1>5 DEF wait, WaitAgain
  <2> QED  BY ZenonT(30), <2>1, WaitOk
<1>6. ASSUME NEW id \in UserIds, wait(id, sys_wait(id)) PROVE IpcInv'
  <2>1. WaitTurn(id) /\ wait(id, TRUE)
    BY ZenonT(30), <1>6 DEF wait, sys_wait
  <2> QED  BY ZenonT(30), <2>1, WaitOk
<1>7. ASSUME NEW id \in UserIds, NEW len \in UserLens, send(id, len) \/ recv(id, len)
      PROVE  IpcInv'
  BY <1>7, SendOk, RecvOk, KernelAssumption
<1> QED  BY <1>1, <1>2, <1>3, <1>4, <1>5, <1>6, <1>7, TickOk, ForkOk, ExitOk DEF IpcNext

----------------------------------------------------------------------------
\* Messages add bytes to the kernel and take nothing from it: every step of
\* module Ipc is one of module Kernel, or changes only buffers.
THEOREM IpcImplementsKernel == IpcSpec => Spec
<1>1. IpcInit => Init
  BY DEF IpcInit
<1>2. [IpcNext]_<<vars, ipcVars>> => [Next]_vars
  BY ZenonT(30) DEF IpcNext, fork, wait, return, send, recv, Refused, Fill, Next, KernelStep, UserStep
<1> QED  BY <1>1, <1>2, PTL DEF IpcSpec, Spec

\* The invariant the next three theorems follow from.
THEOREM IpcInvariance == IpcSpec => [](IInv /\ IpcInv)
<1>1. IpcSpec => []IInv
  BY IpcImplementsKernel, Invariance, PTL
<1> QED  BY <1>1, IpcInitInv, IpcNextInv, PTL DEF IpcSpec

\* A task that is about to return from a call is neither UNUSED nor DEAD.
LEMMA CallerState ==
  ASSUME IInv, cpu \in InCall
  PROVE  current_task \in Slots /\ state[current_task] \in {"BLOCKED"} \cup Live
<1>1. current_task \in Slots /\ state[current_task] \in TaskStates
  BY DEF IInv, TypeOK, SchedulerTypeOK, TableTypeOK
<1>2. state[current_task] \notin {"UNUSED", "DEAD"}
  BY DEF IInv, CpuInv, InCall
<1> QED  BY <1>1, <1>2 DEF TaskStates, Live

\* A sender that slept returns what its receiver took of the message.
THEOREM SendReturnsCorrect == IpcSpec => []SendReturns
<1>1. IInv /\ IpcInv => SendReturns
  <2> SUFFICES ASSUME IInv, IpcInv, cpu = "send" PROVE SendReturns
    BY DEF SendReturns
  <2>1. current_task \in Slots /\ state[current_task] \in {"BLOCKED"} \cup Live
    BY CallerState DEF InCall
  <2> QED  BY ZenonT(30), <2>1 DEF IpcInv, Alone, CallOk, SendReturns, AloneOr, Point, InCall
<1> QED  BY <1>1, IpcInvariance, PTL

\* A receiver that slept finds no more than it asked for, and nothing written
\* behind it.
THEOREM RecvReturnsCorrect == IpcSpec => []RecvReturns
<1>1. IInv /\ IpcInv => RecvReturns
  <2> SUFFICES ASSUME IInv, IpcInv, cpu = "recv" PROVE RecvReturns
    BY ZenonT(30) DEF RecvReturns
  <2>1. current_task \in Slots /\ state[current_task] \in {"BLOCKED"} \cup Live
    BY CallerState DEF InCall
  <2> QED  BY ZenonT(30), <2>1 DEF IpcInv, Alone, CallOk, RecvReturns, AloneOr, Point, InCall
<1> QED  BY <1>1, IpcInvariance, PTL

\* Nobody changes the message of a sleeping sender.
THEOREM MessageKeptCorrect == IpcSpec => []MessageKept
<1>1. IpcInv => MessageKept
  BY DEF IpcInv, CallOk, MessageKept, InCall
<1> QED  BY <1>1, IpcInvariance, PTL

-----------------------------------------------------------------------------
(* The machine of module Interrupts only ever takes the timer interrupt,   *)
(* leaves nothing in service, and takes no step that module Kernel does    *)
(* not allow: what is proved of the kernel holds of the machine.           *)

InterruptsTypeOK ==
    /\ stage \in {"remap", "lapic", "pit", "unmask", "sti", "on"}
    /\ pic_base \in {FIRMWARE_BASE, PIC_IRQ0_VECTOR}
    /\ imr \subseteq Lines /\ irr \subseteq Lines /\ isr \subseteq Lines

\* How far kmain is says where the vectors are and what is masked; the one
\* interrupt there ever is in service is the timer's.
MachineInv ==
    /\ InterruptsTypeOK
    /\ stage # "remap" => pic_base = PIC_IRQ0_VECTOR
    /\ imr = IF stage \in {"sti", "on"} THEN Lines \ {0} ELSE Lines
    /\ \/ vector = NO_VECTOR /\ isr = {}
       \/ vector = PIC_IRQ0_VECTOR /\ isr = {0} /\ stage = "on"

LEMMA MachineInitInv == MachineInit => MachineInv
  BY DEF MachineInit, MachineInv, InterruptsTypeOK, FIRMWARE_BASE, PIC_IRQ0_VECTOR, NO_VECTOR

\* The only line that is ever offered is line 0.
LEMMA OfferedIsTimer ==
  ASSUME MachineInv, stage = "on", Offered # {}
  PROVE  Min(Offered) = 0
<1>1. Offered \subseteq {0}
  BY DEF MachineInv, InterruptsTypeOK, Offered
<1>2. Offered \in SUBSET Nat
  BY <1>1
<1>3. Min(Offered) \in Offered
  BY <1>2, MinIsLeast
<1> QED  BY ZenonT(30), <1>1, <1>3

LEMMA MachineNextInv == MachineInv /\ [MachineNext]_machineVars => MachineInv'
<1> SUFFICES ASSUME MachineInv, [MachineNext]_machineVars PROVE MachineInv'
  OBVIOUS
<1> USE LinesAssumption DEF MachineInv, InterruptsTypeOK, NO_VECTOR, FIRMWARE_BASE, PIC_IRQ0_VECTOR
<1>1. CASE UNCHANGED irqVars
  BY <1>1 DEF irqVars, picVars, bootVars
<1>2. CASE Boot
  <2>1. CASE pic_remap
    BY <2>1 DEF pic_remap, Boots
  <2>2. CASE lapic_enable
    BY <2>2 DEF lapic_enable, Boots, picVars
  <2>3. CASE pit_init
    BY <2>3 DEF pit_init, Boots, picVars
  <2>4. CASE pic_clear_mask(0)
    BY <2>4 DEF pic_clear_mask, Boots
  <2>5. CASE StartInterrupts
    BY <2>5 DEF StartInterrupts, Boots, picVars
  <2> QED  BY <1>2, <2>1, <2>2, <2>3, <2>4, <2>5 DEF Boot
<1>3. ASSUME NEW line \in Lines, Raise(line) PROVE MachineInv'
  BY <1>3 DEF Raise, bootVars
<1>4. CASE TakeInterrupt
  <2>1. Min(Offered) = 0
    BY <1>4, OfferedIsTimer DEF TakeInterrupt
  <2>2. irr' = irr \ {0} /\ isr' = isr \cup {0} /\ vector' = pic_base + 0
    BY <1>4, <2>1 DEF TakeInterrupt
  <2>3. vector = NO_VECTOR /\ stage = "on" /\ UNCHANGED <<pic_base, imr, stage>>
    BY <1>4 DEF TakeInterrupt, bootVars
  <2>4. pic_base = PIC_IRQ0_VECTOR /\ isr = {}
    BY <2>3
  <2>5. irr' \subseteq Lines /\ isr' = {0} /\ vector' = PIC_IRQ0_VECTOR
    BY <2>2, <2>4
  <2> QED  BY <2>3, <2>5
<1>5. CASE timer_isr
  <2>1. vector = PIC_IRQ0_VECTOR /\ isr = {0}
    BY <1>5 DEF timer_isr
  <2>2. Min(isr) = 0
    BY <2>1, MinIsLeast
  <2>3. isr' = {} /\ vector' = NO_VECTOR /\ UNCHANGED <<pic_base, imr, irr, stage>>
    BY <1>5, <2>1, <2>2 DEF timer_isr, pic_send_eoi, bootVars
  <2> QED  BY <2>3
<1>6. CASE Executes(KernelStep) \/ Executes(UserStep)
  BY <1>6, <1>1 DEF Executes
<1> QED  BY ZenonT(30), <1>1, <1>2, <1>3, <1>4, <1>5, <1>6 DEF MachineNext, machineVars

\* The invariant the next two theorems follow from.
THEOREM MachineInvariance == MachineSpec => []MachineInv
  BY MachineInitInv, MachineNextInv, PTL DEF MachineSpec

\* When timer_tick_handler has switched to another task, its interrupt is over
\* for the PIC: that task can be interrupted in its turn.
THEOREM NothingLeftInServiceCorrect == MachineSpec => []NothingLeftInService
<1>1. MachineInv => NothingLeftInService
  BY DEF MachineInv, NothingLeftInService, NO_VECTOR, PIC_IRQ0_VECTOR
<1> QED  BY <1>1, MachineInvariance, PTL

\* No interrupt but the timer's comes through the table idt_init fills.
THEOREM OnlyTimerCorrect == MachineSpec => []OnlyTimerInterrupts
<1>1. MachineInv => OnlyTimerInterrupts
  <2>1. PIC_IRQ0_VECTOR \notin 0 .. 31 /\ PIC_IRQ0_VECTOR # SYSCALL_VECTOR
    BY DEF PIC_IRQ0_VECTOR, SYSCALL_VECTOR
  <2>2. Gate(PIC_IRQ0_VECTOR) = "timer"
    BY ZenonT(30), <2>1 DEF Gate
  <2> QED  BY <2>2 DEF MachineInv, OnlyTimerInterrupts
<1> QED  BY <1>1, MachineInvariance, PTL

\* Every step of the machine, its devices and its boot code included, is a step
\* of module Kernel or leaves the kernel's state alone.
THEOREM MachineImplementsKernel == MachineSpec => Spec
<1>1. MachineInit => Init
  BY DEF MachineInit
<1>2. [MachineNext]_machineVars => [Next]_vars
  <2> SUFFICES ASSUME [MachineNext]_machineVars PROVE [Next]_vars
    OBVIOUS
  <2>1. CASE Boot
    BY <2>1 DEF Boot, pic_remap, lapic_enable, pit_init, pic_clear_mask,
                StartInterrupts, Boots
  <2>2. ASSUME NEW line \in Lines, Raise(line) PROVE UNCHANGED vars
    BY <2>2 DEF Raise
  <2>3. CASE TakeInterrupt
    BY <2>3 DEF TakeInterrupt
  <2>4. CASE timer_isr
    BY <2>4 DEF timer_isr, Next
  <2>5. CASE Executes(KernelStep) \/ Executes(UserStep)
    BY <2>5 DEF Executes, Next
  <2>6. CASE UNCHANGED machineVars
    BY <2>6 DEF machineVars
  <2> QED  BY <2>1, <2>2, <2>3, <2>4, <2>5, <2>6 DEF MachineNext
<1> QED  BY <1>1, <1>2, PTL DEF MachineSpec, Spec
==============================================================================
