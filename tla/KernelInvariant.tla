--------------------------- MODULE KernelInvariant ---------------------------
(***************************************************************************)
(* The inductive invariant of module Kernel: what it says, that it holds    *)
(* when kmain enters the first task, and that it is kept by the steps that  *)
(* neither put a task to sleep nor wake a sender or a receiver nor reap.    *)
(* The properties of Kernel are not inductive: IInv adds where every task   *)
(* sleeps and what the processor may be doing when current_task is in a     *)
(* given state.                                                             *)
(***************************************************************************)
EXTENDS Kernel, InductionFacts

\* The time each prover has for a leaf that names none.
USE SMTT(30), ZenonT(30)

\* The point of the syscall a task sleeps in.
SleepPoint(r) == CASE r = "SEND" -> "send" [] r = "RECV" -> "recv" [] OTHER -> "wait"

\* What current_task's state says of the point the processor is at.
CpuInv ==
    /\ state[current_task] # "UNUSED"
    /\ cpu = "boot" =>
          /\ state[current_task] = "RUNNABLE"
          /\ context[current_task] = "user"
          /\ \A t \in Slots \ {current_task} : state[t] = "UNUSED"
    /\ cpu = "exit" <=> state[current_task] = "DEAD"
    /\ state[current_task] = "BLOCKED" =>
          IF cpu = "wait"
          THEN /\ block_reason[current_task] = "WAIT"
               /\ Zombies(current_task, ipc_peer[current_task]) = {}
               /\ \A t \in Slots : state[t] \notin {"RUNNABLE", "RUNNING"}
          ELSE block_reason[current_task] \in {"SEND", "RECV"}

\* Where the tasks that are not running resume.  A task can be BLOCKED and yet
\* resume in ring 3, if its send or recv found nobody to switch to.
SleepInv ==
    \A t \in Slots \ {current_task} :
        /\ state[t] = "RUNNABLE" => context[t] \in {"user", "send", "recv", "wait"}
        /\ state[t] = "BLOCKED" =>
              /\ block_reason[t] # "NONE"
              /\ \/ context[t] = SleepPoint(block_reason[t])
                 \/ context[t] = "user" /\ block_reason[t] # "WAIT"
        /\ state[t] = "RUNNABLE" /\ context[t] = "wait" =>
              Zombies(t, ipc_peer[t]) # {}

IInv ==
    /\ TypeOK
    /\ FreeListExact
    /\ OneTaskRuns
    /\ CpuInv
    /\ SleepInv
    /\ NoLostWakeup
    /\ NoMissedRendezvous
    /\ WokenWaiterReaps
    /\ state[0] = "UNUSED"
    /\ \A t \in Slots : parent_id[t] # t

----------------------------------------------------------------------------
(* Operators. *)

\* The members of a list, given by what is on it and what it holds.
LEMMA Listed ==
  ASSUME NEW l, NEW s,
         \A i \in DOMAIN l : l[i] \in Slots \ {0} /\ s[l[i]] = "UNUSED",
         \A t \in Slots \ {0} : s[t] = "UNUSED" => \E i \in DOMAIN l : l[i] = t
  PROVE  {l[i] : i \in DOMAIN l} = {t \in Slots \ {0} : s[t] = "UNUSED"}
OBVIOUS

\* A free list l of a table whose slots have the states s.
Exact(l, s) ==
  /\ \A i, j \in DOMAIN l : l[i] = l[j] => i = j
  /\ {l[i] : i \in DOMAIN l} = {t \in Slots \ {0} : s[t] = "UNUSED"}

\* A slot given back is put at the head of the list.
LEMMA Pushed ==
  ASSUME NEW l \in Seq(Slots), NEW s, NEW u, NEW z \in Slots, z # 0, Exact(l, s),
         s[z] = "DEAD", u[z] = "UNUSED", \A t \in Slots \ {z} : u[t] = s[t]
  PROVE  Exact(<<z>> \o l, u)
<1>1. Len(l) \in Nat /\ DOMAIN l = 1 .. Len(l)
  OBVIOUS
<1>2. PICK m : m = <<z>> \o l
  BY ZenonT(30)
<1>3. /\ DOMAIN m = 1 .. Len(l) + 1 /\ m[1] = z
      /\ \A i \in DOMAIN m : i = 1 \/ (i - 1 \in DOMAIN l /\ m[i] = l[i - 1])
      /\ \A i \in DOMAIN l : i + 1 \in DOMAIN m /\ m[i + 1] = l[i]
  BY <1>1, <1>2
<1>4. \A i \in DOMAIN l : l[i] # z /\ l[i] \in Slots \ {0} /\ s[l[i]] = "UNUSED"
  BY DEF Exact
<1>5. ASSUME NEW i \in DOMAIN m, NEW j \in DOMAIN m, m[i] = m[j] PROVE i = j
  <2>1. CASE i = 1 \/ j = 1
    <3>1. \A k \in DOMAIN m : m[k] = z => k = 1
      BY <1>3, <1>4
    <3> QED  BY <2>1, <3>1, <1>3, <1>5
  <2>2. CASE i # 1 /\ j # 1
    <3>1. i - 1 \in DOMAIN l /\ j - 1 \in DOMAIN l /\ l[i - 1] = l[j - 1]
      BY <2>2, <1>3, <1>5
    <3>2. i - 1 = j - 1
      BY <3>1 DEF Exact
    <3> QED  BY <3>2, <1>1, <1>3
  <2> QED  BY <2>1, <2>2
<1>6. ASSUME NEW t \in Slots \ {0}, u[t] = "UNUSED" PROVE \E i \in DOMAIN m : m[i] = t
  <2>1. CASE t = z
    BY <2>1, <1>1, <1>3
  <2>2. CASE t # z
    <3>1. PICK j \in DOMAIN l : l[j] = t
      BY <2>2, <1>6 DEF Exact
    <3> QED  BY <3>1, <1>3
  <2> QED  BY <2>1, <2>2
<1>7. ASSUME NEW i \in DOMAIN m PROVE m[i] \in Slots \ {0} /\ u[m[i]] = "UNUSED"
  <2>1. CASE i = 1
    BY <2>1, <1>3
  <2>2. CASE i # 1
    <3>1. PICK j \in DOMAIN l : m[i] = l[j]
      BY <2>2, <1>3
    <3> QED  BY <3>1, <1>4
  <2> QED  BY <2>1, <2>2
<1>8. {m[i] : i \in DOMAIN m} = {t \in Slots \ {0} : u[t] = "UNUSED"}
  BY <1>6, <1>7, Listed
<1> QED  BY <1>2, <1>5, <1>8 DEF Exact

\* Adding modulo the table size stays in the table, and every slot is some
\* offset from 1 to MAX_TASKS away from every other one and from itself.
LEMMA RoundTheTable ==
  ASSUME NEW cur \in Slots
  PROVE  /\ \A k \in Nat : (cur + k) % MAX_TASKS \in Slots
         /\ \A t \in Slots : \E k \in 1 .. MAX_TASKS : (cur + k) % MAX_TASKS = t
<1>1. \A a \in Nat, n \in Nat \ {0} : a % n \in 0 .. n - 1
  OBVIOUS
<1>2. \A n \in Nat \ {0} : \A t \in 0 .. n - 1 : t % n = t /\ (t + n) % n = t
  OBVIOUS
<1>3. \A k \in Nat : (cur + k) % MAX_TASKS \in Slots
  BY <1>1, MaxTasksAssumption DEF Slots
<1>4. ASSUME NEW t \in Slots
      PROVE  \E k \in 1 .. MAX_TASKS : (cur + k) % MAX_TASKS = t
  <2>1. CASE t > cur
    <3>1. t - cur \in 1 .. MAX_TASKS /\ cur + (t - cur) = t
      BY <2>1, MaxTasksAssumption DEF Slots
    <3>2. t % MAX_TASKS = t
      BY <1>2, MaxTasksAssumption DEF Slots
    <3> QED  BY ZenonT(30), <3>1, <3>2
  <2>2. CASE t <= cur
    <3>1. /\ t - cur + MAX_TASKS \in 1 .. MAX_TASKS
          /\ cur + (t - cur + MAX_TASKS) = t + MAX_TASKS
      BY <2>2, MaxTasksAssumption DEF Slots
    <3>2. (t + MAX_TASKS) % MAX_TASKS = t
      BY <1>2, MaxTasksAssumption DEF Slots
    <3> QED  BY ZenonT(30), <3>1, <3>2
  <2> QED  BY <2>1, <2>2, MaxTasksAssumption DEF Slots
<1> QED  BY <1>3, <1>4

\* scheduler_pick_next returns a RUNNABLE task, or cur when there is none.
LEMMA PickNext ==
  ASSUME NEW st, NEW cur \in Slots
  PROVE  LET next == scheduler_pick_next(st, cur)
         IN  /\ next \in Slots
             /\ \/ st[next] = "RUNNABLE"
                \/ next = cur /\ \A t \in Slots : st[t] # "RUNNABLE"
<1> DEFINE O == RunnableOffsets(st, cur)
<1>1. CASE O = {}
  <2>1. ASSUME NEW t \in Slots PROVE st[t] # "RUNNABLE"
    <3>1. PICK k \in 1 .. MAX_TASKS : (cur + k) % MAX_TASKS = t
      BY ZenonT(30), RoundTheTable
    <3>2. k \notin RunnableOffsets(st, cur)
      BY <1>1
    <3> QED  BY ZenonT(30), <3>1, <3>2 DEF RunnableOffsets
  <2> QED  BY <1>1, <2>1 DEF scheduler_pick_next
<1>2. CASE O # {}
  <2>1. O \in SUBSET Nat
    BY MaxTasksAssumption DEF RunnableOffsets
  <2>2. Min(O) \in O
    BY <1>2, <2>1, MinIsLeast
  <2>3. scheduler_pick_next(st, cur) = (cur + Min(O)) % MAX_TASKS
    BY <1>2 DEF scheduler_pick_next
  <2>4. st[(cur + Min(O)) % MAX_TASKS] = "RUNNABLE"
    BY ZenonT(30), <2>2 DEF RunnableOffsets
  <2>5. (cur + Min(O)) % MAX_TASKS \in Slots
    BY <2>1, <2>2, RoundTheTable
  <2> QED  BY <2>3, <2>4, <2>5
<1> QED  BY <1>1, <1>2

----------------------------------------------------------------------------
(* The inductive invariant. *)

\* What kmain leaves: one task in slot 2, the free list of its table test.
LEMMA InitIInv == Init => IInv
<1> SUFFICES ASSUME Init PROVE IInv
  OBVIOUS
<1> USE MaxTasksAssumption, SliceAssumption, KernelAssumption
<1>1. BootFreeList \in [1 .. MAX_TASKS - 2 -> Slots]
  BY DEF BootFreeList, Slots
<1>2. BootFreeList \in Seq(Slots)
  BY <1>1
<1>3. TypeOK
  BY <1>2 DEF TypeOK, TableTypeOK, SchedulerTypeOK, Init, TableInit, SchedulerInit,
              Slots, Ids, ANY, KERNEL, TaskStates, BlockReasons, Contexts, Resumable,
              Locations, BootTask
<1>4. FreeListExact
  <2>1. DOMAIN task_free_list = 1 .. MAX_TASKS - 2
    BY <1>1 DEF Init, TableInit
  <2>2. \A i, j \in 1 .. MAX_TASKS - 2 : BootFreeList[i] = BootFreeList[j] => i = j
    BY DEF BootFreeList
  <2>3. \A i \in 1 .. MAX_TASKS - 2 : BootFreeList[i] \in Slots \ {0, BootTask}
    BY DEF BootFreeList, Slots, BootTask
  <2>4. \A t \in Slots \ {0, BootTask} :
           \E i \in 1 .. MAX_TASKS - 2 : BootFreeList[i] = t
    <3> TAKE t \in Slots \ {0, BootTask}
    <3>1. MAX_TASKS \in Nat /\ MAX_TASKS >= 4
      BY MaxTasksAssumption
    <3>2. CASE t = 3
      <4>1. 1 \in 1 .. MAX_TASKS - 2 /\ BootFreeList[1] = 3
        BY <3>1 DEF BootFreeList
      <4> QED  BY <4>1, <3>2
    <3>3. CASE t = 1
      <4>1. 2 \in 1 .. MAX_TASKS - 2 /\ BootFreeList[2] = 1
        BY <3>1 DEF BootFreeList
      <4> QED  BY <4>1, <3>3
    <3>4. CASE t # 3 /\ t # 1
      <4> DEFINE i == MAX_TASKS + 2 - t
      <4>1. t \in 4 .. MAX_TASKS - 1
        BY <3>1, <3>4 DEF Slots, BootTask
      <4>2. i \in 3 .. MAX_TASKS - 2 /\ MAX_TASKS + 2 - i = t
        BY <3>1, <4>1
      <4> HIDE DEF i
      <4>3. BootFreeList[i] = t
        BY <3>1, <4>2 DEF BootFreeList
      <4> QED  BY <3>1, <4>2, <4>3
    <3> QED  BY <3>2, <3>3, <3>4
  <2>5. \A t \in Slots : state[t] = "UNUSED" <=> t # BootTask
    BY DEF Init, TableInit
  <2> QED  BY <2>1, <2>2, <2>3, <2>4, <2>5 DEF FreeListExact, Init, TableInit
<1>5. IInv
  BY <1>3, <1>4 DEF IInv, OneTaskRuns, CpuInv, SleepInv, NoLostWakeup,
        NoMissedRendezvous, WokenWaiterReaps, Awaits, Init, TableInit,
        SchedulerInit, BootTask, Slots, ANY
<1> QED  BY <1>5

\* The free list is right as long as it and the set of unused slots are kept.
LEMMA FreeListKept ==
  ASSUME FreeListExact, task_free_list' = task_free_list,
         \A t \in Slots : state[t] = "UNUSED" <=> state'[t] = "UNUSED"
  PROVE  FreeListExact'
  BY DEF FreeListExact

\* The free list is right when a slot given back is put at its head.
LEMMA FreeListGrown ==
  ASSUME FreeListExact, task_free_list \in Seq(Slots), NEW z \in Slots, z # 0,
         state[z] = "DEAD", state'[z] = "UNUSED",
         \A t \in Slots \ {z} : state'[t] = state[t],
         task_free_list' = <<z>> \o task_free_list
  PROVE  FreeListExact'
<1>1. PICK l \in Seq(Slots) : l = task_free_list
  OBVIOUS
<1>2. PICK s, u : s = state /\ u = state'
  OBVIOUS
<1>3. Exact(l, s)
  BY <1>1, <1>2 DEF FreeListExact, Exact
<1>4. s[z] = "DEAD" /\ u[z] = "UNUSED" /\ \A t \in Slots \ {z} : u[t] = s[t]
  BY <1>2
<1>5. Exact(<<z>> \o l, u)
  BY ZenonT(30), <1>3, <1>4, Pushed
<1>6. Exact(task_free_list', state')
  BY <1>1, <1>2, <1>5
<1> QED  BY ZenonT(30), <1>6 DEF FreeListExact, Exact

\* Steps that change neither the table nor what the processor does: what is
\* left of the invariant is the type of the ticks and of the page count.
LEMMA TableKept ==
  ASSUME IInv, UNCHANGED <<tableVars, cpuVars>>, TypeOK'
  PROVE  IInv'
<1> USE DEF tableVars, cpuVars
<1>1. FreeListExact' /\ OneTaskRuns'
  BY DEF IInv, FreeListExact, OneTaskRuns
<1>2. CpuInv'
  BY DEF IInv, CpuInv, Zombies, Children
<1>3. SleepInv'
  BY DEF IInv, SleepInv, Zombies, Children
<1>4. NoLostWakeup' /\ NoMissedRendezvous' /\ WokenWaiterReaps'
  BY DEF IInv, NoLostWakeup, NoMissedRendezvous, WokenWaiterReaps, Zombies, Children, Awaits
<1>5. state'[0] = "UNUSED" /\ \A t \in Slots : parent_id'[t] # t
  BY DEF IInv
<1> QED  BY <1>1, <1>2, <1>3, <1>4, <1>5 DEF IInv

\* Steps that change nothing.
LEMMA StutterStep ==
  ASSUME IInv, UNCHANGED vars
  PROVE  IInv'
<1>1. UNCHANGED <<tableVars, cpuVars>>
  BY DEF vars
<1>2. TypeOK'
  BY DEF IInv, TypeOK, TableTypeOK, SchedulerTypeOK, vars, tableVars, cpuVars
<1> QED  BY <1>1, <1>2, TableKept

LEMMA EnterFirstTaskStep == IInv /\ EnterFirstTask => IInv'
<1> SUFFICES ASSUME IInv, EnterFirstTask PROVE IInv'
  OBVIOUS
<1> USE DEF IInv, EnterFirstTask
<1>1. TypeOK'
  BY DEF TypeOK, TableTypeOK, SchedulerTypeOK, Contexts, Resumable, Locations, CpuInv
<1>2. FreeListExact'
  BY FreeListKept
<1>3. OneTaskRuns' /\ CpuInv' /\ SleepInv'
  BY DEF OneTaskRuns, CpuInv, SleepInv, TypeOK, TableTypeOK, SchedulerTypeOK
<1>4. NoLostWakeup' /\ NoMissedRendezvous' /\ WokenWaiterReaps'
  BY DEF NoLostWakeup, NoMissedRendezvous, WokenWaiterReaps, CpuInv, Children, Awaits
<1> QED  BY <1>1, <1>2, <1>3, <1>4

LEMMA SyscallReturnStep == IInv /\ SyscallReturn => IInv'
<1> SUFFICES ASSUME IInv, SyscallReturn PROVE IInv'
  OBVIOUS
<1> USE DEF IInv, SyscallReturn, tableVars
<1>1. TypeOK'
  BY DEF TypeOK, TableTypeOK, SchedulerTypeOK, Resumable, Locations
<1>2. FreeListExact'
  BY FreeListKept
<1>3. OneTaskRuns' /\ CpuInv' /\ SleepInv'
  BY DEF OneTaskRuns, CpuInv, SleepInv, Zombies, Children
<1>4. NoLostWakeup' /\ NoMissedRendezvous' /\ WokenWaiterReaps'
  BY DEF NoLostWakeup, NoMissedRendezvous, WokenWaiterReaps, Children, Awaits
<1> QED  BY <1>1, <1>2, <1>3, <1>4

LEMMA UserFaultStep == IInv /\ UserFault => IInv'
<1> SUFFICES ASSUME IInv, UserFault PROVE IInv'
  OBVIOUS
<1> USE DEF IInv, UserFault, tableVars
<1>1. TypeOK'
  BY DEF TypeOK, TableTypeOK, SchedulerTypeOK, Resumable, Locations
<1>2. FreeListExact'
  BY FreeListKept
<1>3. OneTaskRuns' /\ CpuInv' /\ SleepInv'
  BY DEF OneTaskRuns, CpuInv, SleepInv, Zombies, Children
<1>4. NoLostWakeup' /\ NoMissedRendezvous' /\ WokenWaiterReaps'
  BY DEF NoLostWakeup, NoMissedRendezvous, WokenWaiterReaps, Children, Awaits
<1> QED  BY ZenonT(30), <1>1, <1>2, <1>3, <1>4

\* The timer: whoever loses the processor resumes where it was interrupted,
\* and whoever gets it was RUNNABLE, and so resumable.
LEMMA TimerTickStep == IInv /\ TimerTick => IInv'
<1> SUFFICES ASSUME IInv, TimerTick PROVE IInv'
  OBVIOUS
<1> DEFINE cur == current_task
           next == scheduler_pick_next(state, current_task)
<1> USE DEF IInv
<1>1. cur \in Slots /\ g_ticks' \in 0 .. TIME_SLICE_TICKS - 1
  <2>1. \A a \in Nat, n \in Nat \ {0} : a % n \in 0 .. n - 1
    OBVIOUS
  <2>2. g_ticks + 1 \in Nat /\ g_ticks' = (g_ticks + 1) % TIME_SLICE_TICKS
    <3>1. g_ticks \in 0 .. TIME_SLICE_TICKS - 1
      BY ZenonT(30) DEF TypeOK, SchedulerTypeOK
    <3>2. \A n \in Nat \ {0} : \A a \in 0 .. n - 1 : a + 1 \in Nat
      OBVIOUS
    <3> QED  BY ZenonT(30), <3>1, <3>2, SliceAssumption DEF TimerTick, timer_tick_handler
  <2>3. cur \in Slots
    BY ZenonT(30) DEF TypeOK, SchedulerTypeOK
  <2> QED  BY ZenonT(30), <2>1, <2>2, <2>3, SliceAssumption
<1>2. /\ next \in Slots
      /\ state[next] = "RUNNABLE" \/ next = cur
  BY <1>1, PickNext
<1> HIDE DEF next
<1>3. CASE UNCHANGED <<state, context, cpuVars>>
  <2>1. UNCHANGED <<tableVars, cpuVars>> /\ free_pages' = free_pages
    BY <1>3 DEF TimerTick, timer_tick_handler, tableVars
  <2>2. TypeOK'
    BY <1>1, <2>1 DEF TypeOK, TableTypeOK, SchedulerTypeOK, tableVars, cpuVars
  <2> QED  BY ZenonT(30), <2>1, <2>2, TableKept
<1>4. CASE next # cur /\ ~ UNCHANGED <<state, context, cpuVars>>
  <2>1. /\ state' = Preempted(state, cur, next)
        /\ current_task' = next
        /\ scheduler_switch_to(cur, cpu, next)
        /\ UNCHANGED <<block_reason, ipc_peer, parent_id, task_free_list, free_pages>>
        /\ InterruptsOn
    BY <1>4 DEF TimerTick, timer_tick_handler, next
  <2>2. /\ state[next] = "RUNNABLE"
        /\ context[next] \in {"user", "send", "recv", "wait"}
        /\ cpu \in {"user", "exit"}
        /\ state[cur] # "UNUSED"
    BY <1>2, <1>4, <2>1 DEF SleepInv, CpuInv, InterruptsOn
  <2>3. /\ cpu' = context[next] /\ cr3' = next /\ rsp0' = next
        /\ context' = [context EXCEPT ![cur] = cpu, ![next] = "stale"]
    BY <2>1 DEF scheduler_switch_to
  <2>4. /\ state' \in [Slots -> TaskStates]
        /\ state'[next] = "RUNNING"
        /\ state'[cur] = IF state[cur] = "RUNNING" THEN "RUNNABLE" ELSE state[cur]
        /\ \A t \in Slots \ {cur, next} : state'[t] = state[t]
    BY <1>1, <1>2, <1>4, <2>1 DEF Preempted, TypeOK, TableTypeOK, TaskStates
  <2>5. TypeOK'
    BY ZenonT(30), <1>1, <1>2, <2>1, <2>2, <2>3, <2>4
       DEF TypeOK, TableTypeOK, SchedulerTypeOK, Contexts, Resumable, Locations
  <2>6. FreeListExact'
    BY <1>1, <1>2, <2>1, <2>2, <2>4, FreeListKept
  <2>7. OneTaskRuns'
    BY <1>1, <1>2, <2>1, <2>3, <2>4 DEF OneTaskRuns
  <2>8. /\ context'[cur] = cpu
        /\ \A t \in Slots \ {cur, next} : context'[t] = context[t]
    BY <1>1, <1>2, <1>4, <2>3 DEF TypeOK, TableTypeOK
  <2>9. \A p \in Slots, c \in Ids : Zombies(p, c)' = Zombies(p, c)
    BY <2>1, <2>2, <2>4 DEF Zombies, Children
  <2>10. CpuInv'
    BY <1>1, <1>2, <2>1, <2>2, <2>3, <2>4 DEF CpuInv
  <2>11. SleepInv'
    <3> SUFFICES ASSUME NEW t \in Slots \ {next}
                 PROVE  SleepInv!(t)'
      BY <2>1 DEF SleepInv
    <3>1. CASE t = cur
      BY <3>1, <2>1, <2>2, <2>4, <2>8 DEF CpuInv, SleepInv, SleepPoint
    <3>2. CASE t # cur
      BY <3>2, <2>1, <2>4, <2>8, <2>9 DEF SleepInv, TypeOK, TableTypeOK
    <3> QED  BY <3>1, <3>2
  <2>12. NoLostWakeup' /\ NoMissedRendezvous'
    BY <1>1, <1>2, <2>1, <2>2, <2>4
       DEF NoLostWakeup, NoMissedRendezvous, Children, Awaits
  <2>13. WokenWaiterReaps'
    BY ZenonT(30), <1>2, <1>4, <2>1, <2>2, <2>3, <2>9
       DEF WokenWaiterReaps, SleepInv, TypeOK, TableTypeOK
  <2>14. /\ (state[0] = "UNUSED")'
         /\ (\A t \in Slots : parent_id[t] # t)'
    BY <1>1, <2>1, <2>2, <2>4, MaxTasksAssumption DEF Slots
  <2> QED  BY <2>5, <2>6, <2>7, <2>10, <2>11, <2>12, <2>13, <2>14
<1> QED  BY ZenonT(30), <1>3, <1>4 DEF TimerTick, timer_tick_handler, next

\* sys_exit: every waiter whose last live child this was is woken, and finds it.
LEMMA ExitStep == IInv /\ sys_exit => IInv'
<1> SUFFICES ASSUME IInv, sys_exit PROVE IInv'
  OBVIOUS
<1> USE DEF IInv
<1> DEFINE self == current_task
           Woken(t) == t = parent_id[self] /\ Awaits(t, "WAIT", self)
<1>1. /\ self \in Slots /\ cpu = "user" /\ ~Woken(self)
      /\ state[self] \notin {"UNUSED", "DEAD"}
  BY DEF TypeOK, SchedulerTypeOK, CpuInv, sys_exit
<1>2. /\ state'[self] = "DEAD" /\ block_reason'[self] = block_reason[self]
      /\ \A t \in Slots \ {self} :
            /\ Woken(t) => state'[t] = "RUNNABLE" /\ block_reason'[t] = "NONE"
            /\ ~Woken(t) => state'[t] = state[t] /\ block_reason'[t] = block_reason[t]
      /\ cpu' = "exit"
      /\ UNCHANGED <<ipc_peer, parent_id, context, task_free_list, current_task,
                     cr3, rsp0, g_ticks, free_pages>>
  BY <1>1 DEF sys_exit, WaitingParent
<1>3. \A t \in Slots : Woken(t) => state[t] = "BLOCKED" /\ block_reason[t] = "WAIT"
                                  /\ ipc_peer[t] \in {ANY, self} /\ parent_id[self] = t
  BY DEF Awaits
<1>4. \A t \in Slots : state[t] = "BLOCKED" /\ block_reason[t] = "WAIT"
                        /\ self \in Children(t, ipc_peer[t]) => Woken(t)
  BY DEF Awaits, Children
<1> HIDE DEF Woken
<1>5. TypeOK'
  <2>1. state' \in [Slots -> TaskStates] /\ block_reason' \in [Slots -> BlockReasons]
    BY DEF sys_exit, TypeOK, TableTypeOK, TaskStates, BlockReasons
  <2> QED  BY <1>2, <2>1 DEF TypeOK, TableTypeOK, SchedulerTypeOK, Resumable, Locations
<1>6. FreeListExact'
  BY <1>1, <1>2, <1>3, FreeListKept
<1>7. OneTaskRuns' /\ CpuInv'
  BY <1>1, <1>2, <1>3 DEF OneTaskRuns, CpuInv
<1>8. SleepInv'
  <2> SUFFICES ASSUME NEW t \in Slots \ {self} PROVE SleepInv!(t)'
    BY <1>2 DEF SleepInv
  <2>1. CASE Woken(t)
    <3>1. context[t] = "wait"
      BY <2>1, <1>3 DEF SleepInv, SleepPoint
    <3>2. (self \in Zombies(t, ipc_peer[t]))'
      BY <2>1, <1>1, <1>2, <1>3 DEF Zombies, Children
    <3> QED  BY <2>1, <3>1, <3>2, <1>2
  <2>2. CASE ~Woken(t)
    <3>1. ASSUME Zombies(t, ipc_peer[t]) # {} PROVE (Zombies(t, ipc_peer[t]) # {})'
      BY <3>1, <1>1, <1>2, <1>3 DEF Zombies, Children
    <3> QED  BY <2>2, <3>1, <1>2 DEF SleepInv
  <2> QED  BY <2>1, <2>2
<1>9. NoLostWakeup'
  <2> SUFFICES ASSUME NEW q \in Slots, state'[q] = "BLOCKED", block_reason'[q] = "WAIT"
               PROVE  (\E c \in Children(q, ipc_peer[q]) : state[c] # "DEAD")'
    BY DEF NoLostWakeup
  <2>1. q # self /\ ~Woken(q) /\ state[q] = "BLOCKED" /\ block_reason[q] = "WAIT"
    BY <1>2
  <2>2. PICK c \in Children(q, ipc_peer[q]) : state[c] # "DEAD"
    BY <2>1 DEF NoLostWakeup
  <2>3. c # self
    BY <2>1, <2>2, <1>4
  <2>4. c \in Children(q, ipc_peer[q])' /\ state'[c] # "DEAD"
    BY <2>2, <2>3, <1>2, <1>3 DEF Children
  <2> QED  BY <2>4
<1>10. NoMissedRendezvous' /\ WokenWaiterReaps'
  BY <1>2, <1>3 DEF NoMissedRendezvous, WokenWaiterReaps, Awaits
<1>11. /\ (state[0] = "UNUSED")'
       /\ (\A t \in Slots : parent_id[t] # t)'
  BY <1>1, <1>2, <1>3, MaxTasksAssumption DEF Slots
<1> QED  BY ZenonT(30), <1>5, <1>6, <1>7, <1>8, <1>9, <1>10, <1>11

------------------------------------------------------------------------------
(* The step that takes a slot of the table. *)

\* A fork takes the head of the free list, a slot nobody's child was in.
LEMMA ForkStep == IInv /\ sys_fork => IInv'
<1> SUFFICES ASSUME IInv, sys_fork PROVE IInv'
  OBVIOUS
<1> USE DEF IInv
<1>1. CASE task_free_list = <<>> /\ UNCHANGED <<tableVars, free_pages>>
  BY ZenonT(30), <1>1, StutterStep DEF sys_fork, vars
<1>2. CASE free_pages' = 0 /\ UNCHANGED tableVars
  <2>1. UNCHANGED <<tableVars, cpuVars>> /\ g_ticks' = g_ticks
    BY <1>2 DEF sys_fork
  <2>2. TypeOK'
    BY <1>2, <2>1, KernelAssumption
       DEF TypeOK, TableTypeOK, SchedulerTypeOK, tableVars, cpuVars
  <2> QED  BY ZenonT(30), <2>1, <2>2, TableKept
<1>3. CASE /\ task_free_list # <<>>
           /\ free_pages >= FORK_PAGES
           /\ ForkInto(Head(task_free_list))
  <2> DEFINE list == task_free_list
             child == Head(list)
  <2>1. list \in Seq(Slots) /\ list # <<>>
    BY <1>3 DEF TypeOK, TableTypeOK
  <2>2. /\ Len(list) \in Nat \ {0} /\ DOMAIN list = 1 .. Len(list)
        /\ child = list[1] /\ 1 \in DOMAIN list
    BY <2>1
  <2>3. child \in Slots \ {0} /\ state[child] = "UNUSED"
    BY <2>2 DEF FreeListExact
  <2> HIDE DEF child
  <2>4. /\ state' = [state EXCEPT ![child] = "RUNNABLE"]
        /\ parent_id' = [parent_id EXCEPT ![child] = current_task]
        /\ context' = [context EXCEPT ![child] = "user"]
        /\ free_pages' = free_pages - FORK_PAGES
        /\ cpu = "user"
        /\ UNCHANGED <<block_reason, ipc_peer, current_task, cpu, cr3, rsp0, g_ticks>>
    BY <1>3 DEF ForkInto, sys_fork, cpuVars, child
  <2>0. list' = Tail(list)
    BY <1>3 DEF ForkInto
  <2>4a. /\ cpu = "user" /\ UNCHANGED <<block_reason, ipc_peer, current_task, cpu, cr3, rsp0>>
    BY <2>4
  <2>5. current_task \in Slots /\ current_task # child
    BY <2>3 DEF CpuInv, TypeOK, SchedulerTypeOK
  <2>6. /\ state'[child] = "RUNNABLE" /\ parent_id'[child] = current_task
        /\ context'[child] = "user"
        /\ \A t \in Slots \ {child} : /\ state'[t] = state[t]
                                      /\ parent_id'[t] = parent_id[t]
                                      /\ context'[t] = context[t]
    BY <2>3, <2>4 DEF TypeOK, TableTypeOK
  <2>7. TypeOK'
    <3>1. list' \in Seq(Slots)
      BY <2>0, <2>1
    <3>2. free_pages' \in 0 .. BOOT_PAGES
      BY <1>3, <2>4, KernelAssumption DEF TypeOK
    <3> QED  BY <2>3, <2>4, <2>5, <3>1, <3>2
                DEF TypeOK, TableTypeOK, SchedulerTypeOK, TaskStates, Contexts, Resumable, Ids
  <2>8. FreeListExact'
    <3>1. /\ Len(list') = Len(list) - 1 /\ DOMAIN list' = 1 .. Len(list) - 1
          /\ \A i \in 1 .. Len(list) - 1 : list'[i] = list[i + 1]
      BY <2>0, <2>1
    <3>2. \A i, j \in DOMAIN list' : list'[i] = list'[j] => i = j
      <4> TAKE i, j \in DOMAIN list'
      <4>1. i + 1 \in DOMAIN list /\ j + 1 \in DOMAIN list
        BY <2>2, <3>1
      <4> QED  BY <4>1, <3>1 DEF FreeListExact
    <3>3. ASSUME NEW t \in Slots \ {0}, state'[t] = "UNUSED"
          PROVE  \E i \in DOMAIN list' : list'[i] = t
      <4>1. t # child /\ state[t] = "UNUSED"
        BY <3>3, <2>6
      <4>2. PICK j \in DOMAIN list : list[j] = t
        BY <4>1 DEF FreeListExact
      <4>3. j # 1 /\ j - 1 \in DOMAIN list' /\ list'[j - 1] = list[j]
        BY <4>1, <4>2, <2>2, <3>1
      <4> QED  BY <4>2, <4>3
    <3>4. ASSUME NEW i \in DOMAIN list'
          PROVE  list'[i] \in Slots \ {0} /\ state'[list'[i]] = "UNUSED"
      <4>1. i + 1 \in DOMAIN list /\ i + 1 # 1 /\ list'[i] = list[i + 1]
        BY <2>2, <3>1
      <4>2. list[i + 1] # child
        BY <4>1, <2>2 DEF FreeListExact
      <4>3. list[i + 1] \in Slots \ {0} /\ state[list[i + 1]] = "UNUSED"
        BY <4>1 DEF FreeListExact
      <4>4. PICK s \in Slots : s = list[i + 1]
        BY <4>3
      <4>5. s # child /\ s # 0 /\ state[s] = "UNUSED"
        BY <4>2, <4>3, <4>4
      <4>6. state'[s] = "UNUSED"
        BY <2>6, <4>5
      <4> QED  BY <4>1, <4>4, <4>5, <4>6
    <3>5. {list'[i] : i \in DOMAIN list'} = {t \in Slots \ {0} : state'[t] = "UNUSED"}
      BY <3>3, <3>4, Listed
    <3> QED  BY ZenonT(30), <3>2, <3>5 DEF FreeListExact
  <2>9. OneTaskRuns' /\ CpuInv'
    BY <2>4a, <2>5, <2>6 DEF OneTaskRuns, CpuInv
  <2>10. SleepInv'
    <3> SUFFICES ASSUME NEW q \in Slots \ {current_task} PROVE SleepInv!(q)'
      BY <2>4 DEF SleepInv
    <3>1. CASE q = child
      BY <3>1, <2>6
    <3>2. CASE q # child
      <4>1. /\ state'[q] = state[q] /\ context'[q] = context[q]
            /\ block_reason' = block_reason /\ ipc_peer' = ipc_peer
        BY <2>4a, <2>6, <3>2
      <4>2. Zombies(q, ipc_peer[q]) \subseteq Zombies(q, ipc_peer[q])'
        <5> SUFFICES ASSUME NEW z \in Zombies(q, ipc_peer[q]) PROVE z \in Zombies(q, ipc_peer[q])'
          OBVIOUS
        <5>1. z \in Slots /\ z # child
          BY <2>3 DEF Zombies, Children
        <5>2. state'[z] = state[z] /\ parent_id'[z] = parent_id[z]
          BY <2>6, <5>1
        <5> QED  BY <4>1, <5>1, <5>2 DEF Zombies, Children
      <4>3. SleepInv!(q)
        BY DEF SleepInv
      <4> QED  BY <4>1, <4>2, <4>3
    <3> QED  BY ZenonT(30), <3>1, <3>2
  <2>11. NoLostWakeup'
    BY <2>3, <2>4a, <2>6 DEF NoLostWakeup, Children
  <2>12. NoMissedRendezvous' /\ WokenWaiterReaps'
    BY <2>4a, <2>6 DEF NoMissedRendezvous, WokenWaiterReaps, Awaits
  <2> QED  BY <2>3, <2>5, <2>6, <2>7, <2>8, <2>9, <2>10, <2>11, <2>12,
              MaxTasksAssumption DEF Slots
<1> QED  BY ZenonT(30), <1>1, <1>2, <1>3 DEF sys_fork
==============================================================================
