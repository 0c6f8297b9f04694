---------------------------- MODULE KernelProofs -----------------------------
(***************************************************************************)
(* Proofs, for every table size, time slice, amount of memory and set of    *)
(* ids, of the safety properties of module Kernel, from the invariant of    *)
(* module KernelInvariant: here are the steps that put a task to sleep or   *)
(* wake one, the induction, and the theorems.                               *)
(***************************************************************************)
EXTENDS KernelInvariant

\* The time each prover has for a leaf that names none.
USE SMTT(30), ZenonT(30)

------------------------------------------------------------------------------
(* The steps that put a task to sleep or wake one. *)

\* Why a task may go to sleep: a live child for sys_wait, no receiver waiting
\* for sys_send, no sender waiting for sys_recv.
MaySleep(r, p, at) ==
    \/ /\ r = "WAIT" /\ at = "wait"
       /\ Children(current_task, p) # {} /\ Zombies(current_task, p) = {}
    \/ /\ r = "SEND" /\ at = "send"
       /\ p \in Slots /\ ~Awaits(p, "RECV", current_task)
    \/ /\ r = "RECV" /\ at = "recv"
       /\ Senders(current_task, p) = {}

\* A task that sleeps for such a reason keeps the invariant, whether another
\* task takes the processor or the call returns at once.
LEMMA BlockStep ==
  ASSUME IInv, NEW r, NEW p \in Ids, NEW at, MaySleep(r, p, at),
         cpu \in {"user", "wait"},
         task_block_and_switch(r, p, at), UNCHANGED <<g_ticks, free_pages>>
  PROVE  IInv'
<1> DEFINE cur == current_task
           blocked == [state EXCEPT ![cur] = "BLOCKED"]
           next == scheduler_pick_next(blocked, cur)
<1> USE DEF IInv
<1>1. cur \in Slots /\ cur # 0 /\ state[cur] \notin {"UNUSED", "DEAD"}
  BY DEF TypeOK, SchedulerTypeOK, CpuInv
<1>2. r \in {"SEND", "RECV", "WAIT"} /\ at = SleepPoint(r)
  BY DEF MaySleep, SleepPoint
<1>3. /\ block_reason' = [block_reason EXCEPT ![cur] = r]
      /\ ipc_peer' = [ipc_peer EXCEPT ![cur] = p]
      /\ UNCHANGED <<parent_id, task_free_list, g_ticks, free_pages>>
  BY DEF task_block_and_switch
<1>4. /\ block_reason'[cur] = r /\ ipc_peer'[cur] = p
      /\ \A t \in Slots \ {cur} :
            block_reason'[t] = block_reason[t] /\ ipc_peer'[t] = ipc_peer[t]
  BY <1>1, <1>3 DEF TypeOK, TableTypeOK
<1>5. /\ next \in Slots
      /\ \/ blocked[next] = "RUNNABLE"
         \/ next = cur /\ \A t \in Slots : blocked[t] # "RUNNABLE"
  BY ZenonT(30), <1>1, PickNext
<1>6. /\ blocked \in [Slots -> TaskStates] /\ blocked[cur] = "BLOCKED"
      /\ \A t \in Slots \ {cur} : blocked[t] = state[t]
  BY <1>1 DEF TypeOK, TableTypeOK, TaskStates
<1>7. \/ /\ next = cur /\ state' = blocked /\ cpu' = at
         /\ UNCHANGED <<context, current_task, cr3, rsp0>>
      \/ /\ next # cur
         /\ state' = [blocked EXCEPT ![next] = "RUNNING"]
         /\ current_task' = next
         /\ scheduler_switch_to(cur, at, next)
  BY ZenonT(30) DEF task_block_and_switch
<1> HIDE DEF next, blocked
<1>8. /\ state' \in [Slots -> TaskStates]
      /\ state'[cur] = "BLOCKED"
      /\ \A t \in Slots \ {cur, next} : state'[t] = state[t]
      /\ next # cur => state[next] = "RUNNABLE" /\ state'[next] = "RUNNING"
  BY <1>1, <1>5, <1>6, <1>7 DEF TaskStates
<1>9. \A t \in Slots : /\ state'[t] = "DEAD" <=> state[t] = "DEAD"
                       /\ state'[t] = "UNUSED" <=> state[t] = "UNUSED"
  BY <1>1, <1>5, <1>8
<1>10. NoLostWakeup'
  <2>1. r = "WAIT" => \E c \in Children(cur, p) : state[c] # "DEAD"
    BY DEF MaySleep, Zombies
  <2> SUFFICES ASSUME NEW q \in Slots, state'[q] = "BLOCKED", block_reason'[q] = "WAIT"
               PROVE  (\E c \in Children(q, ipc_peer[q]) : state[c] # "DEAD")'
    BY DEF NoLostWakeup
  <2>2. CASE q = cur
    <3>1. \E c \in Children(q, p) : state[c] # "DEAD"
      BY <2>1, <2>2, <1>4
    <3> QED  BY <3>1, <2>2, <1>3, <1>4, <1>9 DEF Children
  <2>3. CASE q # cur
    <3>1. state[q] = "BLOCKED" /\ block_reason[q] = "WAIT" /\ ipc_peer'[q] = ipc_peer[q]
      BY <2>3, <1>4, <1>5, <1>8
    <3>2. \E c \in Children(q, ipc_peer[q]) : state[c] # "DEAD"
      BY <3>1 DEF NoLostWakeup
    <3> QED  BY <3>1, <3>2, <1>3, <1>9 DEF Children
  <2> QED  BY <2>2, <2>3
<1>11. NoMissedRendezvous'
  <2> SUFFICES ASSUME NEW s \in Slots, NEW q \in Slots,
                      state'[s] = "BLOCKED", block_reason'[s] = "SEND", ipc_peer'[s] = q,
                      Awaits(q, "RECV", s)'
               PROVE  FALSE
    BY DEF NoMissedRendezvous
  <2>1. state'[q] = "BLOCKED" /\ block_reason'[q] = "RECV" /\ ipc_peer'[q] \in {ANY, s}
    BY DEF Awaits
  <2>2. CASE s = cur
    BY <2>1, <2>2, <1>4, <1>8 DEF MaySleep, Awaits
  <2>3. CASE q = cur
    BY <2>1, <2>3, <1>4, <1>8 DEF MaySleep, Senders
  <2>4. CASE s # cur /\ q # cur
    BY <2>1, <2>4, <1>4, <1>8 DEF NoMissedRendezvous, Awaits
  <2> QED  BY <2>2, <2>3, <2>4
<1>12. FreeListExact'
  BY <1>1, <1>3, <1>5, <1>8, FreeListKept
<1>13. /\ (state[0] = "UNUSED")'
       /\ (\A t \in Slots : parent_id[t] # t)'
  BY <1>1, <1>3, <1>5, <1>8, MaxTasksAssumption DEF Slots
<1>14. CASE next = cur
  <2>1. /\ cpu' = at /\ UNCHANGED <<context, current_task, cr3, rsp0>>
        /\ \A t \in Slots : state'[t] # "RUNNABLE"
    BY <1>5, <1>6, <1>7, <1>8, <1>14
  <2>2. TypeOK'
    BY ZenonT(30), <1>2, <1>3, <1>8, <2>1 DEF TypeOK, TableTypeOK, SchedulerTypeOK, SleepPoint,
                                  BlockReasons, Resumable, Locations
  <2>3. OneTaskRuns'
    BY <1>14, <1>8, <2>1 DEF OneTaskRuns
  <2>4. CpuInv'
    <3>1. at = "wait" => r = "WAIT" /\ Zombies(cur, p) = {}
      BY DEF MaySleep
    <3>2. at = "wait" => (Zombies(current_task, ipc_peer[current_task]) = {})'
      BY <3>1, <2>1, <1>3, <1>4, <1>9 DEF Zombies, Children
    <3> QED  BY <1>1, <1>2, <1>4, <1>8, <1>14, <2>1, <2>3, <3>1, <3>2
                DEF CpuInv, SleepPoint, OneTaskRuns
  <2>5. SleepInv'
    BY <1>4, <1>8, <1>14, <2>1 DEF SleepInv
  <2>6. WokenWaiterReaps'
    BY <1>8, <2>1 DEF WokenWaiterReaps
  <2> QED  BY <1>10, <1>11, <1>12, <1>13, <2>2, <2>3, <2>4, <2>5, <2>6
<1>15. CASE next # cur
  <2>1. /\ current_task' = next /\ cr3' = next /\ rsp0' = next
        /\ context' = [context EXCEPT ![cur] = at, ![next] = "stale"]
        /\ cpu' = context[next]
    BY <1>7, <1>15 DEF scheduler_switch_to
  <2>2. context[next] \in {"user", "send", "recv", "wait"}
    BY <1>5, <1>8, <1>15 DEF SleepInv
  <2>3. TypeOK'
    <3>1. /\ block_reason' \in [Slots -> BlockReasons] /\ ipc_peer' \in [Slots -> Ids]
          /\ at \in Resumable
      BY ZenonT(30), <1>2, <1>3
         DEF TypeOK, TableTypeOK, SleepPoint, BlockReasons, Resumable
    <3>2. context' \in [Slots -> Contexts]
      BY ZenonT(30), <2>1, <3>1 DEF TypeOK, TableTypeOK, Contexts
    <3>3. cpu' \in Locations
      BY <2>1, <2>2 DEF Resumable, Locations
    <3> QED  BY <3>1, <3>2, <3>3, <1>3, <1>5, <1>8, <2>1
                DEF TypeOK, TableTypeOK, SchedulerTypeOK
  <2>4. OneTaskRuns'
    BY <1>1, <1>5, <1>8, <2>1 DEF OneTaskRuns
  <2>5. CpuInv'
    BY <1>5, <1>8, <1>15, <2>1, <2>2 DEF CpuInv
  <2>6. /\ context'[cur] = at
        /\ \A t \in Slots \ {cur, next} : context'[t] = context[t]
    BY <1>1, <1>5, <1>15, <2>1 DEF TypeOK, TableTypeOK
  <2>7. SleepInv'
    <3> SUFFICES ASSUME NEW t \in Slots \ {next} PROVE SleepInv!(t)'
      BY ZenonT(30), <2>1 DEF SleepInv
    <3>1. CASE t = cur
      BY <3>1, <1>2, <1>4, <1>8, <2>6
    <3>2. CASE t # cur
      <4>1. \A c \in Ids : Zombies(t, c)' = Zombies(t, c)
        BY <1>3, <1>9 DEF Zombies, Children
      <4>2. ipc_peer'[t] = ipc_peer[t] /\ ipc_peer[t] \in Ids
        BY <3>2, <1>4 DEF TypeOK, TableTypeOK
      <4> QED  BY <3>2, <1>4, <1>8, <2>6, <4>1, <4>2 DEF SleepInv
    <3> QED  BY <3>1, <3>2
  <2>8. WokenWaiterReaps'
    <3>1. context[next] = "wait" => Zombies(next, ipc_peer[next]) # {}
      BY <1>5, <1>8, <1>15 DEF SleepInv
    <3>2. ipc_peer'[next] = ipc_peer[next] /\ parent_id' = parent_id
      BY <1>3, <1>4, <1>5, <1>15
    <3>3. context[next] = "wait" => (Zombies(current_task, ipc_peer[current_task]) # {})'
      BY <3>1, <3>2, <1>9, <2>1 DEF Zombies, Children
    <3> QED  BY <3>3, <2>1 DEF WokenWaiterReaps
  <2> QED  BY <1>10, <1>11, <1>12, <1>13, <2>3, <2>4, <2>5, <2>7, <2>8
<1> QED  BY <1>14, <1>15

\* task_wake, as sys_send and sys_recv use it.
LEMMA WakeStep ==
  ASSUME IInv, cpu = "user", NEW t \in Slots, state[t] = "BLOCKED",
         block_reason[t] \in {"SEND", "RECV"}, task_wake(t),
         UNCHANGED <<cpuVars, g_ticks, free_pages>>
  PROVE  IInv'
<1> USE DEF IInv, cpuVars, task_wake
<1>1. /\ state'[t] = "RUNNABLE"
      /\ \A q \in Slots \ {t} : state'[q] = state[q] /\ block_reason'[q] = block_reason[q]
  BY DEF TypeOK, TableTypeOK
<1>2. TypeOK'
  BY DEF TypeOK, TableTypeOK, SchedulerTypeOK, TaskStates, BlockReasons
<1>3. FreeListExact'
  BY <1>1, FreeListKept
<1>4. OneTaskRuns' /\ CpuInv'
  BY <1>1 DEF OneTaskRuns, CpuInv, TypeOK, SchedulerTypeOK
<1>5. SleepInv'
  <2> SUFFICES ASSUME NEW q \in Slots \ {current_task} PROVE SleepInv!(q)'
    BY DEF SleepInv
  <2>1. CASE q = t
    BY <1>1, <2>1 DEF SleepInv, SleepPoint
  <2>2. CASE q # t
    BY <1>1, <2>2 DEF SleepInv, Zombies, Children
  <2> QED  BY <2>1, <2>2
<1>6. NoLostWakeup'
  BY <1>1 DEF NoLostWakeup, Children
<1>7. NoMissedRendezvous' /\ WokenWaiterReaps'
  BY <1>1 DEF NoMissedRendezvous, WokenWaiterReaps, Awaits
<1> QED  BY <1>1, <1>2, <1>3, <1>4, <1>5, <1>6, <1>7, MaxTasksAssumption DEF Slots

LEMMA SendStep ==
  ASSUME IInv, NEW id \in Ids, sys_send(id)
  PROVE  IInv'
<1>1. CASE ~task_exists(id) /\ UNCHANGED <<tableVars, cpuVars>>
  BY <1>1, StutterStep DEF sys_send, vars
<1>2. CASE task_exists(id) /\ Awaits(id, "RECV", current_task) /\ task_wake(id)
             /\ UNCHANGED cpuVars
  BY <1>2, WakeStep DEF sys_send, task_exists, Awaits
<1>3. CASE task_exists(id) /\ ~Awaits(id, "RECV", current_task)
             /\ task_block_and_switch("SEND", id, "send")
  BY <1>3, BlockStep DEF sys_send, task_exists, MaySleep
<1> QED  BY <1>1, <1>2, <1>3 DEF sys_send

LEMMA RecvStep ==
  ASSUME IInv, NEW id \in Ids, sys_recv(id)
  PROVE  IInv'
<1> DEFINE senders == Senders(current_task, id)
<1>1. CASE senders # {} /\ task_wake(Min(senders)) /\ UNCHANGED cpuVars
  <2>1. Min(senders) \in senders
    BY <1>1, MinIsLeast, MaxTasksAssumption DEF Senders, Slots
  <2>2. /\ Min(senders) \in Slots /\ state[Min(senders)] = "BLOCKED"
        /\ block_reason[Min(senders)] = "SEND"
    BY <2>1 DEF Senders
  <2> QED  BY <1>1, <2>2, WakeStep DEF sys_recv
<1>2. CASE senders = {} /\ task_block_and_switch("RECV", id, "recv")
  BY <1>2, BlockStep DEF sys_recv, MaySleep
<1> QED  BY <1>1, <1>2 DEF sys_recv

------------------------------------------------------------------------------
(* The steps of sys_wait, which give a slot back. *)

\* Reaping z: its slot goes back to the free list, and nobody but its parent
\* was waiting for it.
LEMMA ReapStep ==
  ASSUME IInv, cpu \in {"user", "wait"}, cpu' = "user",
         cpu = "wait" => state[current_task] # "BLOCKED",
         NEW z \in Slots, state[z] = "DEAD", parent_id[z] = current_task,
         task_destroy(z), UNCHANGED <<current_task, cr3, rsp0, g_ticks, free_pages>>
  PROVE  IInv'
<1> USE DEF IInv
<1> DEFINE list == task_free_list
<1>1. current_task \in Slots /\ z # current_task /\ z # 0
  BY DEF TypeOK, SchedulerTypeOK, CpuInv
<1>2. /\ state'[z] = "UNUSED" /\ parent_id'[z] = ANY
      /\ \A t \in Slots \ {z} : /\ state'[t] = state[t]
                                /\ block_reason'[t] = block_reason[t]
                                /\ parent_id'[t] = parent_id[t]
                                /\ context'[t] = context[t]
      /\ ipc_peer' = ipc_peer
  BY DEF task_destroy, TypeOK, TableTypeOK
<1>0. list' = <<z>> \o list
  BY DEF task_destroy
<1>3. TypeOK'
  <2>1. list' \in Seq(Slots)
    BY <1>0 DEF TypeOK, TableTypeOK
  <2> QED  BY <2>1 DEF task_destroy, TypeOK, TableTypeOK, SchedulerTypeOK, TaskStates,
                       BlockReasons, Ids, Contexts, Resumable, Locations
<1>4. FreeListExact'
  <2>1. list \in Seq(Slots)
    BY DEF TypeOK, TableTypeOK
  <2>2. state'[z] = "UNUSED" /\ \A t \in Slots \ {z} : state'[t] = state[t]
    BY <1>2
  <2> QED  BY <1>0, <1>1, <2>1, <2>2, FreeListGrown
<1>5. OneTaskRuns' /\ CpuInv'
  BY <1>1, <1>2 DEF OneTaskRuns, CpuInv
<1>6. SleepInv'
  <2> SUFFICES ASSUME NEW t \in Slots \ {current_task} PROVE SleepInv!(t)'
    BY DEF SleepInv
  <2>1. CASE t = z
    BY <2>1, <1>2
  <2>2. CASE t # z
    <3>1. ASSUME Zombies(t, ipc_peer[t]) # {} PROVE (Zombies(t, ipc_peer[t]) # {})'
      <4>1. PICK c \in Zombies(t, ipc_peer[t]) : c # z
        BY <3>1 DEF Zombies, Children
      <4> QED  BY <4>1, <1>2 DEF Zombies, Children
    <3>2. UNCHANGED <<state[t], block_reason[t], context[t], ipc_peer[t]>>
      BY <2>2, <1>2
    <3> QED  BY <3>1, <3>2 DEF SleepInv
  <2> QED  BY <2>1, <2>2
<1>7. NoLostWakeup'
  BY <1>2 DEF NoLostWakeup, Children
<1>8. NoMissedRendezvous' /\ WokenWaiterReaps'
  BY <1>2 DEF NoMissedRendezvous, WokenWaiterReaps, Awaits
<1>9. /\ (state[0] = "UNUSED")'
      /\ (\A t \in Slots : parent_id[t] # t)'
  <2>1. 0 \in Slots \ {z} /\ ANY # z
    BY <1>1, MaxTasksAssumption DEF Slots, ANY
  <2> QED  BY ZenonT(30), <1>2, <2>1
<1> QED  BY <1>3, <1>4, <1>5, <1>6, <1>7, <1>8, <1>9

\* One turn of sys_wait.  Back from sleep it is either woken, and reaps, or
\* still BLOCKED, and blocks again.
LEMMA WaitStep ==
  ASSUME IInv, NEW id \in Ids, WaitTurn(id),
         cpu = "user" \/ (cpu = "wait" /\ id = ipc_peer[current_task])
  PROVE  IInv'
<1> DEFINE zombies == Zombies(current_task, id)
<1>1. CASE zombies # {} /\ task_destroy(Min(zombies)) /\ cpu' = "user"
             /\ UNCHANGED <<current_task, cr3, rsp0>>
  <2>0. zombies \in SUBSET Nat
    BY MaxTasksAssumption DEF Zombies, Children, Slots
  <2>1. Min(zombies) \in zombies
    BY <1>1, <2>0, MinIsLeast
  <2>2. /\ Min(zombies) \in Slots /\ state[Min(zombies)] = "DEAD"
        /\ parent_id[Min(zombies)] = current_task
    BY <2>1 DEF Zombies, Children
  <2>3. cpu = "wait" => state[current_task] # "BLOCKED"
    BY <1>1 DEF IInv, CpuInv
  <2> QED  BY <1>1, <2>2, <2>3, ReapStep DEF WaitTurn
<1>2. CASE Children(current_task, id) = {} /\ cpu' = "user"
             /\ UNCHANGED <<tableVars, current_task, cr3, rsp0>>
  <2>1. cpu # "wait"
    BY <1>2 DEF IInv, CpuInv, WokenWaiterReaps, NoLostWakeup, Zombies, TypeOK,
                SchedulerTypeOK
  <2> QED  BY <1>2, <2>1, StutterStep DEF WaitTurn, vars, cpuVars
<1>3. CASE Children(current_task, id) # {} /\ zombies = {}
             /\ task_block_and_switch("WAIT", id, "wait")
  BY <1>3, BlockStep DEF WaitTurn, MaySleep
<1> QED  BY <1>1, <1>2, <1>3 DEF WaitTurn

LEMMA NextIInv == IInv /\ [Next]_vars => IInv'
<1> SUFFICES ASSUME IInv, [Next]_vars PROVE IInv'
  OBVIOUS
<1>1. CASE KernelStep
  <2>1. CASE WaitAgain
    <3>1. ipc_peer[current_task] \in Ids
      BY DEF IInv, TypeOK, TableTypeOK, SchedulerTypeOK
    <3> QED  BY <2>1, <3>1, WaitStep DEF WaitAgain
  <2> QED  BY <1>1, <2>1, EnterFirstTaskStep, SyscallReturnStep DEF KernelStep
<1>2. CASE TimerTick
  BY <1>2, TimerTickStep
<1>3. CASE UserStep
  <2>1. ASSUME NEW id \in UserIds, sys_wait(id) \/ sys_send(id) \/ sys_recv(id)
        PROVE  IInv'
    <3>1. id \in Ids
      BY KernelAssumption
    <3>2. CASE sys_wait(id)
      <4>1. cpu = "user" /\ WaitTurn(id)
        BY <3>2 DEF sys_wait
      <4> QED  BY <3>1, <4>1, WaitStep
    <3> QED  BY <2>1, <3>1, <3>2, SendStep, RecvStep
  <2> QED  BY <1>3, <2>1, ForkStep, ExitStep, UserFaultStep DEF UserStep
<1>4. CASE UNCHANGED vars
  BY <1>4, StutterStep
<1> QED  BY <1>1, <1>2, <1>3, <1>4 DEF Next

----------------------------------------------------------------------------
(* Theorems. *)

\* IInv holds in every reachable state.
THEOREM Invariance == Spec => []IInv
  BY InitIInv, NextIInv, PTL DEF Spec

\* The types of the task table, the processor and the page count.
THEOREM TypeCorrect == Spec => []TypeOK
<1>1. IInv => TypeOK
  BY DEF IInv
<1> QED  BY <1>1, Invariance, PTL

\* The task table's free list holds exactly the unused slots, each once, slot 0
\* never, for every history of forks, exits and waits (task.c).
THEOREM FreeListCorrect == Spec => []FreeListExact
<1>1. IInv => FreeListExact
  BY DEF IInv
<1> QED  BY <1>1, Invariance, PTL

\* One task has the processor, with its own page table and kernel stack loaded
\* (scheduler.c, timer.c, task_block_and_switch).
THEOREM OneTaskCorrect == Spec => []OneTaskRuns
<1>1. IInv => OneTaskRuns
  BY DEF IInv
<1> QED  BY <1>1, Invariance, PTL

\* Every task the scheduler can pick has a saved context to resume.
THEOREM ResumableCorrect == Spec => []RunnableIsResumable
<1>1. IInv => RunnableIsResumable
  BY DEF IInv, SleepInv, RunnableIsResumable
<1> QED  BY <1>1, Invariance, PTL

\* No wake-up is lost between sys_exit and sys_wait.
THEOREM WakeupCorrect == Spec => []NoLostWakeup
<1>1. IInv => NoLostWakeup
  BY DEF IInv
<1> QED  BY <1>1, Invariance, PTL

\* sys_send and sys_recv never miss each other.
THEOREM RendezvousCorrect == Spec => []NoMissedRendezvous
<1>1. IInv => NoMissedRendezvous
  BY DEF IInv
<1> QED  BY <1>1, Invariance, PTL

\* A task woken in sys_wait finds a child to reap.
THEOREM WaiterCorrect == Spec => []WokenWaiterReaps
<1>1. IInv => WokenWaiterReaps
  BY DEF IInv
<1> QED  BY <1>1, Invariance, PTL

\* sys_wait spins with interrupts off only when no task could run anyway.
THEOREM SpinCorrect == Spec => []SpinOnlyInDeadlock
<1>1. IInv => SpinOnlyInDeadlock
  <2> SUFFICES ASSUME IInv, cpu = "wait", state[current_task] = "BLOCKED"
               PROVE  SpinOnlyInDeadlock
    BY DEF SpinOnlyInDeadlock
  <2>1. \A t \in Slots : state[t] \in {"UNUSED", "BLOCKED", "DEAD"}
    BY DEF IInv, CpuInv, TypeOK, TableTypeOK, TaskStates
  <2>2. current_task \in Slots /\ block_reason[current_task] = "WAIT"
    BY DEF IInv, CpuInv, TypeOK, SchedulerTypeOK
  <2>3. PICK c \in Children(current_task, ipc_peer[current_task]) : state[c] # "DEAD"
    BY <2>2 DEF IInv, NoLostWakeup
  <2>4. c # current_task /\ state[c] = "BLOCKED"
    BY <2>1, <2>3 DEF IInv, Children
  <2> QED  BY <2>1, <2>3, <2>4 DEF SpinOnlyInDeadlock
<1> QED  BY <1>1, Invariance, PTL

\* An exited task that has lost the processor never gets it back, and only its
\* parent's sys_wait clears its slot.
THEOREM DeadCorrect == Spec => DeadStaysDead
<1>1. IInv /\ [Next]_vars => [KeepsDead]_vars
  <2> SUFFICES ASSUME IInv, Next,
                      NEW t \in Slots \ {current_task}, state[t] = "DEAD"
               PROVE  /\ current_task' # t
                      /\ \/ state'[t] = "DEAD"
                         \/ state'[t] = "UNUSED" /\ parent_id[t] = current_task
    BY DEF KeepsDead
  <2> DEFINE Kept == current_task' # t /\ state'[t] = "DEAD"
  <2>1. current_task \in Slots /\ state \in [Slots -> TaskStates]
    BY DEF IInv, TypeOK, TableTypeOK, SchedulerTypeOK
  <2>2. ASSUME NEW r, NEW p, NEW at, task_block_and_switch(r, p, at) PROVE Kept
    <3> DEFINE blocked == [state EXCEPT ![current_task] = "BLOCKED"]
               next == scheduler_pick_next(blocked, current_task)
    <3>1. blocked[t] = "DEAD"
      BY <2>1
    <3>2. next # t
      BY ZenonT(30), <2>1, <3>1, PickNext
    <3> HIDE DEF next
    <3> QED  BY ZenonT(30), <2>1, <2>2, <3>2 DEF task_block_and_switch, next
  <2>3. CASE TimerTick
    <3> DEFINE next == scheduler_pick_next(state, current_task)
    <3>1. next # t
      BY ZenonT(30), <2>1, PickNext
    <3> HIDE DEF next
    <3> QED  BY ZenonT(30), <2>1, <2>3, <3>1
                DEF TimerTick, timer_tick_handler, Preempted, cpuVars, next
  <2>4. CASE EnterFirstTask \/ SyscallReturn \/ UserFault
    <3>1. CASE EnterFirstTask
      BY ZenonT(30), <3>1 DEF EnterFirstTask
    <3>2. CASE SyscallReturn
      BY ZenonT(30), <3>2 DEF SyscallReturn, tableVars
    <3>3. CASE UserFault
      BY ZenonT(30), <3>3 DEF UserFault, tableVars
    <3> QED  BY ZenonT(30), <2>4, <3>1, <3>2, <3>3
  <2>5. ASSUME NEW id \in Ids, WaitTurn(id)
        PROVE  Kept \/ (/\ current_task' # t /\ state'[t] = "UNUSED"
                        /\ parent_id[t] = current_task)
    <3> DEFINE zombies == Zombies(current_task, id)
    <3>1. CASE zombies # {} /\ task_destroy(Min(zombies)) /\ UNCHANGED current_task
      <4>1. zombies \in SUBSET Nat
        BY MaxTasksAssumption DEF Zombies, Children, Slots
      <4>2. Min(zombies) \in zombies
        BY <3>1, <4>1, MinIsLeast
      <4>3. Min(zombies) \in Slots /\ parent_id[Min(zombies)] = current_task
        BY <4>2 DEF Zombies, Children
      <4> QED  BY <2>1, <3>1, <4>3 DEF task_destroy
    <3> QED  BY ZenonT(30), <2>2, <2>5, <3>1 DEF WaitTurn, tableVars
  <2>6. CASE sys_fork
    <3>1. ASSUME task_free_list # <<>>, ForkInto(Head(task_free_list)) PROVE Kept
      <4>1. Head(task_free_list) # t
        <5>1. task_free_list \in Seq(Slots)
          BY DEF IInv, TypeOK, TableTypeOK
        <5>2. 1 \in DOMAIN task_free_list /\ Head(task_free_list) = task_free_list[1]
          BY <3>1, <5>1
        <5>3. state[task_free_list[1]] = "UNUSED"
          BY <5>2 DEF IInv, FreeListExact
        <5> QED  BY <5>2, <5>3
      <4> QED  BY <2>1, <2>6, <3>1, <4>1 DEF ForkInto, sys_fork, cpuVars
    <3> QED  BY <2>6, <3>1 DEF sys_fork, tableVars, cpuVars
  <2>7. CASE sys_exit
    BY <2>1, <2>7 DEF sys_exit, WaitingParent, Awaits
  <2>8. ASSUME NEW id \in Ids, sys_send(id) PROVE Kept
    BY <2>1, <2>2, <2>8 DEF sys_send, task_wake, Awaits, tableVars, cpuVars
  <2>9. ASSUME NEW id \in Ids, sys_recv(id) PROVE Kept
    <3> DEFINE senders == Senders(current_task, id)
    <3>1. CASE senders # {} /\ task_wake(Min(senders)) /\ UNCHANGED cpuVars
      <4>1. Min(senders) \in senders
        BY <3>1, MinIsLeast, MaxTasksAssumption DEF Senders, Slots
      <4>2. Min(senders) # t
        BY <4>1 DEF Senders
      <4> QED  BY <2>1, <3>1, <4>2 DEF task_wake, cpuVars
    <3> QED  BY <2>2, <2>9, <3>1 DEF sys_recv
  <2>10. CASE WaitAgain
    <3>1. ipc_peer[current_task] \in Ids
      BY DEF IInv, TypeOK, TableTypeOK, SchedulerTypeOK
    <3> QED  BY <2>5, <2>10, <3>1 DEF WaitAgain
  <2>11. ASSUME NEW id \in UserIds, sys_wait(id) \/ sys_send(id) \/ sys_recv(id)
         PROVE  Kept \/ (/\ current_task' # t /\ state'[t] = "UNUSED"
                         /\ parent_id[t] = current_task)
    BY <2>5, <2>8, <2>9, <2>11, KernelAssumption DEF sys_wait
  <2> QED  BY <2>3, <2>4, <2>6, <2>7, <2>10, <2>11 DEF Next, KernelStep, UserStep
<1> QED  BY <1>1, Invariance, PTL DEF Spec, DeadStaysDead
==============================================================================
