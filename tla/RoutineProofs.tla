---------------------------- MODULE RoutineProofs ----------------------------
(***************************************************************************)
(* For every set of threads and locks: no acquire spins.  For every width   *)
(* of addresses, pages and tables and every page table: uva_check_range     *)
(* accepts exactly the ranges the program may touch itself.  For every      *)
(* memory, byte and length: the functions of memory.c do what the C         *)
(* standard says.                                                           *)
(***************************************************************************)
EXTENDS UAccess, Memory, Spinlock, InductionFacts

\* The time each prover has for a leaf that names none.
USE SMTT(30), ZenonT(30)

-----------------------------------------------------------------------------
(* Spinlocks: for every set of threads and every family of locks whose     *)
(* nesting is a strict order, a lock is only ever held by the context on   *)
(* the CPU, so no acquire spins, and every context gets its interrupt flag *)
(* back.                                                                   *)

\* A context that is not on the CPU holds no lock and is not past its cli.
OthersOut ==
  \A c \in Contexts : c # Me => held[c] = {} /\ pc[c] \in {"out", "saved"}

\* A thread that is off the CPU was switched out by its active context, which
\* had interrupts off; code under a handler had them on.
Parked ==
  /\ \A t \in Threads : t # running => pc[Active(t)] = "out" /\ ~base[Active(t)]
  /\ \A t \in inHandler : LET c == <<t, "code">> IN
        base[c] /\ (pc[c] = "saved" => flags[c][want[c]])
  /\ \A t \in inHandler : ~base[<<t, "handler">>]
  /\ \A t \in Threads \ inHandler : pc[<<t, "handler">>] = "out"

\* The interrupt flag and the saved flags of the context on the CPU: the
\* outermost section saved its base flag, the inner ones saved "off".
CpuFlags(c) ==
  /\ held[c] # {} \/ pc[c] \in {"spin", "freed"} => ~IF_on
  /\ held[c] = {} /\ pc[c] \in {"out", "saved"} => IF_on = base[c]
  /\ pc[c] \in {"saved", "spin", "freed"} => flags[c][want[c]] = (base[c] /\ held[c] = {})
  /\ pc[c] \in {"saved", "spin"} => \A m \in held[c] : <<m, want[c]>> \in Nests
  /\ \A l \in held[c] :
        flags[c][l] = (base[c] /\ \A m \in held[c] : <<m, l>> \notin Nests)
  /\ \A l, m \in held[c] : l = m \/ <<l, m>> \in Nests \/ <<m, l>> \in Nests

IInv == TypeOK /\ HolderRuns /\ OthersOut /\ Parked /\ CpuFlags(Me)

\* The context on the CPU is one of the contexts.
LEMMA MeContext == TypeOK => Me \in Contexts
BY DEF TypeOK, Me, Active, Contexts

\* kmain starts the first thread with every lock free.
LEMMA InitIInv == Init => IInv
<1> SUFFICES ASSUME Init PROVE IInv
  OBVIOUS
<1>1. TypeOK
  BY DEF Init, TypeOK
<1>2. Me \in Contexts
  BY <1>1, MeContext
<1>3. \A t \in Threads : Active(t) \in Contexts /\ (t # running => Active(t) # Me)
  BY DEF Init, Active, Me, Contexts
<1>4. Parked
  BY ZenonT(30), <1>3, <1>2 DEF Init, Parked, Contexts
<1>5. CpuFlags(Me)
  BY ZenonT(30), <1>2 DEF Init, CpuFlags
<1> QED BY <1>1, <1>2, <1>4, <1>5 DEF Init, IInv, HolderRuns, OthersOut

\* Parked is about the contexts that are not Me, and about base: a step of the
\* context on the CPU that leaves those alone keeps it.
LEMMA LocalStep ==
  ASSUME NEW c \in Contexts, c = Me,
         IInv, TypeOK', UNCHANGED <<running, inHandler, base>>,
         \A d \in Contexts : d # c =>
            pc'[d] = pc[d] /\ want'[d] = want[d] /\ flags'[d] = flags[d] /\ held'[d] = held[d],
         \A l \in Locks : locked'[l] <=> l \in held'[c],
         CpuFlags(c)'
  PROVE  IInv'
<1>1. Me' = c
  BY DEF Me, Active
<1>2. OthersOut'
  BY <1>1 DEF IInv, OthersOut
<1>3. \A t \in Threads : /\ Active(t)' = Active(t)
                         /\ Active(t) \in Contexts
                         /\ t # running => Active(t) # Me
                         /\ <<t, "code">> \in Contexts /\ <<t, "handler">> \in Contexts
                         /\ t \in inHandler => <<t, "code">> # Me
                         /\ t \notin inHandler => <<t, "handler">> # Me
  BY DEF Active, Me, Contexts
<1>4. inHandler \subseteq Threads
  BY DEF IInv, TypeOK
<1>5. Parked'
  <2>1. ASSUME NEW t \in Threads, t # running
        PROVE  pc'[Active(t)'] = "out" /\ ~base'[Active(t)']
    <3>1. pc[Active(t)] = "out" /\ ~base[Active(t)]
      BY <2>1 DEF IInv, Parked
    <3>2. Active(t)' = Active(t) /\ pc'[Active(t)] = pc[Active(t)] /\ base' = base
      BY ZenonT(30), <2>1, <1>3
    <3> QED BY <3>1, <3>2, ZenonT(30)
  <2>2. ASSUME NEW t \in inHandler
        PROVE  base'[<<t, "code">>] /\ (pc'[<<t, "code">>] = "saved" => flags'[<<t, "code">>][want'[<<t, "code">>]])
    BY ZenonT(30), <2>2, <1>3, <1>4 DEF IInv, Parked
  <2>3. ASSUME NEW t \in inHandler PROVE ~base'[<<t, "handler">>]
    BY <2>3 DEF IInv, Parked
  <2>4. ASSUME NEW t \in Threads \ inHandler PROVE pc'[<<t, "handler">>] = "out"
    BY ZenonT(30), <2>4, <1>3 DEF IInv, Parked
  <2> QED BY <2>1, <2>2, <2>3, <2>4, ZenonT(30) DEF Parked
<1>6. HolderRuns' /\ CpuFlags(Me)'
  BY <1>1 DEF HolderRuns, CpuFlags
<1> QED BY <1>2, <1>5, <1>6 DEF IInv

\* The steps inside spinlock_acquire and spinlock_release.
LEMMA LockSteps ==
  ASSUME IInv, \/ Cli \/ TestAndSet \/ Restore
               \/ \E l \in Locks : Save(l) \/ LockRelease(l)
  PROVE  IInv'
<1>1. PICK c \in Contexts : c = Me
  BY MeContext DEF IInv
<1>2. want[c] \in Locks /\ held[c] \subseteq Locks /\ TypeOK
      /\ (\A l \in Locks : locked[l] <=> l \in held[c]) /\ CpuFlags(c)
  BY <1>1 DEF IInv, TypeOK, HolderRuns
<1>3. CASE Cli
  <2>1. TypeOK'
    BY ZenonT(30), <1>3, <1>2 DEF TypeOK, Cli
  <2>2. \A l \in Locks : locked'[l] <=> l \in held'[c]
    BY <1>2, <1>3 DEF Cli
  <2>3. CpuFlags(c)'
    BY <1>1, <1>2, <1>3 DEF TypeOK, CpuFlags, Cli
  <2>4. \A d \in Contexts : d # c => pc'[d] = pc[d]
    BY <1>1, <1>2, <1>3 DEF Cli, TypeOK
  <2> QED BY <1>1, <1>3, <2>1, <2>2, <2>3, <2>4, LocalStep DEF Cli
<1>4. CASE TestAndSet
  <2>1. TypeOK'
    BY <1>4, <1>1, <1>2 DEF TypeOK, TestAndSet
  <2>2. held'[c] = held[c] \cup {want[c]} /\ pc'[c] = "out"
    BY <1>1, <1>2, <1>4 DEF TestAndSet, TypeOK
  <2>3. \A l \in Locks : locked'[l] <=> l \in held'[c]
    BY <2>2, <1>1, <1>2, <1>4 DEF TestAndSet, TypeOK
  <2>4. CpuFlags(c)'
    <3>1. /\ ~IF_on' /\ \A m \in held[c] : <<m, want[c]>> \in Nests
          /\ flags[c][want[c]] = (base[c] /\ held[c] = {})
      BY <1>1, <1>2, <1>4 DEF CpuFlags, TestAndSet
    <3>2. \A m \in held[c] : <<want[c], m>> \notin Nests
      BY ZenonT(30), <3>1, <1>2, NestsAssumption
    <3>3. <<want[c], want[c]>> \notin Nests
      BY <1>2, NestsAssumption
    <3>4. ASSUME NEW l \in held[c]
          PROVE  flags[c][l] = (base[c] /\ \A m \in held'[c] : <<m, l>> \notin Nests)
      <4>1. (\A m \in held'[c] : <<m, l>> \notin Nests) <=> (\A m \in held[c] : <<m, l>> \notin Nests)
        BY <2>2, <3>2, <3>4
      <4> QED BY <4>1, <1>2, <3>4 DEF CpuFlags
    <3>5. flags[c][want[c]] = (base[c] /\ \A m \in held'[c] : <<m, want[c]>> \notin Nests)
      <4>1. (\A m \in held'[c] : <<m, want[c]>> \notin Nests) <=> held[c] = {}
        BY ZenonT(30), <2>2, <3>1, <3>3
      <4> QED BY <4>1, <3>1
    <3>6. \A l, m \in held'[c] : l = m \/ <<l, m>> \in Nests \/ <<m, l>> \in Nests
      BY ZenonT(30), <2>2, <3>1, <1>2 DEF CpuFlags
    <3>7. \A l \in held'[c] : flags[c][l] = (base[c] /\ \A m \in held'[c] : <<m, l>> \notin Nests)
      BY <2>2, <3>4, <3>5, ZenonT(30)
    <3> QED BY <2>2, <3>1, <3>6, <3>7, <1>4 DEF CpuFlags, TestAndSet
  <2>5. \A d \in Contexts : d # c => pc'[d] = pc[d] /\ held'[d] = held[d]
    BY <1>1, <1>2, <1>4 DEF TestAndSet, TypeOK
  <2> QED BY <1>1, <1>4, <2>1, <2>3, <2>4, <2>5, LocalStep DEF TestAndSet
<1>5. CASE Restore
  <2>1. TypeOK'
    BY <1>5, <1>1, <1>2 DEF TypeOK, Restore
  <2>2. \A l \in Locks : locked'[l] <=> l \in held'[c]
    BY <1>2, <1>5 DEF Restore
  <2>3. CpuFlags(c)'
    BY <1>1, <1>2, <1>5 DEF TypeOK, CpuFlags, Restore
  <2>4. \A d \in Contexts : d # c => pc'[d] = pc[d]
    BY <1>1, <1>2, <1>5 DEF Restore, TypeOK
  <2> QED BY <1>1, <1>5, <2>1, <2>2, <2>3, <2>4, LocalStep DEF Restore
<1>6. ASSUME NEW l \in Locks, Save(l) PROVE IInv'
  <2>1. TypeOK'
    BY <1>6, <1>1, <1>2 DEF TypeOK, Save
  <2>2. \A m \in Locks : locked'[m] <=> m \in held'[c]
    BY <1>2, <1>6 DEF Save
  <2>3. pc'[c] = "saved" /\ want'[c] = l /\ flags'[c] = [flags[c] EXCEPT ![l] = IF_on]
    BY <1>1, <1>2, <1>6 DEF Save, TypeOK
  <2>4. l \notin held[c]
    BY ZenonT(30), <1>1, <1>6, NestsAssumption DEF Save
  <2>5. CpuFlags(c)'
    BY <1>1, <1>2, <1>6, <2>3, <2>4 DEF TypeOK, CpuFlags, Save
  <2>6. \A d \in Contexts : d # c => pc'[d] = pc[d] /\ want'[d] = want[d] /\ flags'[d] = flags[d]
    BY <1>1, <1>2, <1>6 DEF Save, TypeOK
  <2> QED BY <1>1, <1>6, <2>1, <2>2, <2>5, <2>6, LocalStep DEF Save
<1>7. ASSUME NEW l \in Locks, LockRelease(l) PROVE IInv'
  <2>1. TypeOK'
    BY <1>7, <1>1, <1>2 DEF TypeOK, LockRelease
  <2>2. held'[c] = held[c] \ {l} /\ pc'[c] = "freed" /\ want'[c] = l
    BY <1>1, <1>2, <1>7 DEF LockRelease, TypeOK
  <2>3. \A m \in Locks : locked'[m] <=> m \in held'[c]
    BY <2>2, <1>1, <1>2, <1>7 DEF LockRelease, TypeOK
  <2>4. CpuFlags(c)'
    <3>1. l \in held[c] /\ (\A m \in held[c] : <<l, m>> \notin Nests) /\ ~IF_on'
      BY <1>1, <1>2, <1>7 DEF LockRelease, CpuFlags
    <3>2. ASSUME NEW k \in held'[c]
          PROVE  flags[c][k] = (base[c] /\ \A m \in held'[c] : <<m, k>> \notin Nests)
      <4>1. (\A m \in held'[c] : <<m, k>> \notin Nests) <=> (\A m \in held[c] : <<m, k>> \notin Nests)
        BY <2>2, <3>1, <3>2
      <4>2. k \in held[c]
        BY <2>2
      <4> QED BY <4>1, <4>2, <1>2 DEF CpuFlags
    <3>3. flags[c][l] = (base[c] /\ held'[c] = {})
      <4>1. \A m \in held[c] : m # l => <<m, l>> \in Nests
        BY ZenonT(30), <3>1, <1>2 DEF CpuFlags
      <4>2. <<l, l>> \notin Nests
        BY NestsAssumption
      <4>3. (\A m \in held[c] : <<m, l>> \notin Nests) <=> held'[c] = {}
        BY ZenonT(30), <2>2, <4>1, <4>2
      <4> QED BY ZenonT(30), <3>1, <4>3, <1>2 DEF CpuFlags
    <3>4. \A k, m \in held'[c] : k = m \/ <<k, m>> \in Nests \/ <<m, k>> \in Nests
      BY ZenonT(30), <2>2, <1>2 DEF CpuFlags
    <3>5. UNCHANGED <<flags, base>>
      BY <1>7 DEF LockRelease
    <3> QED BY <2>2, <3>1, <3>2, <3>3, <3>4, <3>5 DEF CpuFlags
  <2>5. \A d \in Contexts : d # c => pc'[d] = pc[d] /\ held'[d] = held[d] /\ want'[d] = want[d]
    BY <1>1, <1>2, <1>7 DEF LockRelease, TypeOK
  <2> QED BY <1>1, <1>7, <2>1, <2>3, <2>4, <2>5, LocalStep DEF LockRelease
<1> QED BY <1>3, <1>4, <1>5, <1>6, <1>7

\* The timer interrupts the code of the running thread.
LEMMA InterruptStep == ASSUME IInv, Interrupt PROVE IInv'
<1>1. PICK t \in Threads : t = running
  BY DEF IInv, TypeOK
<1> DEFINE code == <<t, "code">>
           handler == <<t, "handler">>
<1>2. /\ code \in Contexts /\ handler \in Contexts /\ code # handler
      /\ Me = code /\ Me' = handler /\ t \notin inHandler
  BY <1>1 DEF Contexts, Me, Active, Interrupt
<1>3. /\ held[code] = {} /\ pc[code] \in {"out", "saved"} /\ base[code]
      /\ pc[code] = "saved" => flags[code][want[code]]
  BY ZenonT(30), <1>2 DEF IInv, CpuFlags, Interrupt, TypeOK
<1>4. held[handler] = {} /\ pc[handler] = "out"
  BY <1>1, <1>2 DEF IInv, OthersOut, Parked
<1>5. TypeOK'
  BY ZenonT(30), <1>1, <1>2 DEF IInv, TypeOK, Interrupt
<1>6. HolderRuns'
  BY <1>2, <1>3, <1>4 DEF IInv, HolderRuns, Interrupt
<1>7. OthersOut'
  BY <1>2, <1>3, <1>4 DEF IInv, OthersOut, Interrupt
<1>8. base'[handler] = FALSE /\ \A c \in Contexts : c # handler => base'[c] = base[c]
  BY ZenonT(30), <1>1, <1>2 DEF Interrupt, IInv, TypeOK
<1>9. CpuFlags(Me)'
  BY ZenonT(30), <1>2, <1>4, <1>8 DEF CpuFlags, Interrupt
<1>10. Parked'
  <2>1. ASSUME NEW u \in Threads, u # t
        PROVE  /\ Active(u)' = Active(u) /\ Active(u) \in Contexts /\ Active(u) # handler
               /\ <<u, "code">> \in Contexts /\ <<u, "code">> # handler
               /\ <<u, "handler">> \in Contexts /\ <<u, "handler">> # handler
    BY <2>1, <1>1 DEF Active, Contexts, Interrupt
  <2>2. inHandler' = inHandler \cup {t} /\ running' = t /\ inHandler \subseteq Threads
        /\ UNCHANGED <<pc, want, flags>>
    BY <1>1 DEF Interrupt, IInv, TypeOK
  <2>3. ASSUME NEW u \in Threads, u # running'
        PROVE  pc'[Active(u)'] = "out" /\ ~base'[Active(u)']
    <3>1. pc[Active(u)] = "out" /\ ~base[Active(u)]
      BY <2>3, <2>2, <1>1 DEF IInv, Parked
    <3>2. base'[Active(u)] = base[Active(u)] /\ Active(u)' = Active(u) /\ pc' = pc
      BY ZenonT(30), <2>1, <2>2, <2>3, <1>8
    <3> QED BY <3>1, <3>2, ZenonT(30)
  <2>4. ASSUME NEW u \in inHandler'
        PROVE  /\ base'[<<u, "code">>]
               /\ pc'[<<u, "code">>] = "saved" => flags'[<<u, "code">>][want'[<<u, "code">>]]
    <3>1. CASE u = t
      BY <3>1, <1>2, <1>3, <1>8, <2>2
    <3>2. CASE u # t
      <4>1. u \in inHandler /\ u \in Threads
        BY <3>2, <2>2, <2>4
      <4>2. base'[<<u, "code">>] = base[<<u, "code">>]
        BY ZenonT(30), <4>1, <3>2, <2>1, <1>8
      <4> QED BY <4>1, <4>2, <2>2 DEF IInv, Parked
    <3> QED BY <3>1, <3>2
  <2>5. ASSUME NEW u \in inHandler' PROVE ~base'[<<u, "handler">>]
    <3>1. CASE u = t
      BY <3>1, <1>8
    <3>2. CASE u # t
      <4>1. u \in inHandler /\ u \in Threads
        BY <3>2, <2>2, <2>5
      <4>2. base'[<<u, "handler">>] = base[<<u, "handler">>]
        BY ZenonT(30), <4>1, <3>2, <2>1, <1>8
      <4> QED BY <4>1, <4>2 DEF IInv, Parked
    <3> QED BY <3>1, <3>2
  <2>6. ASSUME NEW u \in Threads \ inHandler' PROVE pc'[<<u, "handler">>] = "out"
    BY <2>6, <2>2 DEF IInv, Parked
  <2> QED BY <2>3, <2>4, <2>5, <2>6, ZenonT(30) DEF Parked
<1> QED BY <1>5, <1>6, <1>7, <1>9, <1>10 DEF IInv

\* iretq: the handler of the running thread returns to the code below it.
LEMMA InterruptReturnStep == ASSUME IInv, InterruptReturn PROVE IInv'
<1>1. PICK t \in Threads : t = running
  BY DEF IInv, TypeOK
<1> DEFINE code == <<t, "code">>
           handler == <<t, "handler">>
<1>2. /\ code \in Contexts /\ handler \in Contexts /\ code # handler
      /\ Me = handler /\ Me' = code /\ t \in inHandler
  BY <1>1 DEF Contexts, Me, Active, InterruptReturn
<1>3. /\ held[code] = {} /\ pc[code] \in {"out", "saved"} /\ base[code]
      /\ pc[code] = "saved" => flags[code][want[code]]
  BY <1>2 DEF IInv, OthersOut, Parked
<1>4. held[handler] = {} /\ pc[handler] = "out"
  BY <1>2 DEF InterruptReturn, Quiet
<1>5. TypeOK'
  BY DEF IInv, TypeOK, InterruptReturn
<1>6. HolderRuns'
  BY <1>2, <1>3, <1>4 DEF IInv, HolderRuns, InterruptReturn
<1>7. OthersOut'
  BY <1>2, <1>3, <1>4 DEF IInv, OthersOut, InterruptReturn
<1>8. CpuFlags(Me)'
  <2>1. base[code] \in BOOLEAN /\ (pc[code] = "saved" => flags[code][want[code]] \in BOOLEAN)
    BY <1>2 DEF IInv, TypeOK
  <2> QED BY <1>2, <1>3, <2>1 DEF CpuFlags, InterruptReturn
<1>9. Parked'
  <2>1. inHandler' = inHandler \ {t} /\ running' = t /\ inHandler \subseteq Threads
        /\ UNCHANGED <<pc, want, flags, base>>
    BY <1>1 DEF InterruptReturn, IInv, TypeOK
  <2>2. ASSUME NEW u \in Threads, u # running'
        PROVE  pc'[Active(u)'] = "out" /\ ~base'[Active(u)']
    <3>1. pc[Active(u)] = "out" /\ ~base[Active(u)]
      BY <2>1, <2>2, <1>1 DEF IInv, Parked
    <3>2. Active(u)' = Active(u)
      BY <2>1, <2>2 DEF Active
    <3> QED BY <2>1, <3>1, <3>2, ZenonT(30)
  <2>3. ASSUME NEW u \in Threads \ inHandler' PROVE pc'[<<u, "handler">>] = "out"
    BY <2>1, <2>3, <1>4 DEF IInv, Parked
  <2> QED BY ZenonT(30), <2>1, <2>2, <2>3 DEF IInv, Parked
<1> QED BY <1>5, <1>6, <1>7, <1>8, <1>9 DEF IInv

\* scheduler_switch_to: the old thread is parked, the new one was.
LEMMA SwitchStep == ASSUME IInv, NEW t \in Threads, Switch(t) PROVE IInv'
<1>1. /\ running' = t
      /\ UNCHANGED <<locked, IF_on, inHandler, pc, want, held, flags, base>>
      /\ pc[Me] = "out" /\ held[Me] = {} /\ ~IF_on
  BY DEF Switch, Quiet
<1>2. \A u \in Threads : Active(u)' = Active(u) /\ Active(u) \in Contexts
  BY <1>1 DEF Active, Contexts
<1>3. Me = Active(running) /\ Me' = Active(t) /\ running \in Threads
  BY <1>1 DEF Me, Active, IInv, TypeOK
<1>4. ~base[Me]
  <2>1. IF_on = base[Me]
    BY <1>1 DEF IInv, CpuFlags
  <2> QED BY <1>1, <2>1
<1>5. \A u \in Threads : pc[Active(u)] = "out" /\ ~base[Active(u)] /\ held[Active(u)] = {}
  <2> TAKE u \in Threads
  <2>1. CASE u = running
    BY <2>1, <1>1, <1>3, <1>4
  <2>2. CASE u # running
    <3>1. Active(u) # Me
      BY <2>2 DEF Active, Me
    <3> QED BY <2>2, <3>1, <1>2 DEF IInv, Parked, OthersOut
  <2> QED BY <2>1, <2>2
<1>6. TypeOK'
  BY <1>1 DEF IInv, TypeOK
<1>7. HolderRuns'
  BY <1>1, <1>3, <1>5 DEF IInv, HolderRuns
<1>8. OthersOut'
  BY <1>1 DEF IInv, OthersOut
<1>9. Parked'
  <2>1. \A u \in Threads : u # running' => pc'[Active(u)'] = "out" /\ ~base'[Active(u)']
    BY <1>1, <1>2, <1>5
  <2> QED BY ZenonT(30), <1>1, <2>1 DEF IInv, Parked
<1>10. CpuFlags(Me)'
  <2>1. base[Active(t)] = FALSE /\ IF_on = FALSE
    BY <1>1, <1>5, <1>2 DEF IInv, TypeOK
  <2> QED BY ZenonT(30), <1>1, <1>3, <1>5, <2>1 DEF CpuFlags
<1> QED BY <1>6, <1>7, <1>8, <1>9, <1>10 DEF IInv

\* The system-call gate, the return to ring 3, sti.
LEMMA SetInterruptsStep == ASSUME IInv, NEW on \in BOOLEAN, SetInterrupts(on) PROVE IInv'
<1>1. PICK t \in Threads : t = running /\ t \notin inHandler
  BY DEF IInv, TypeOK, SetInterrupts
<1> DEFINE code == <<t, "code">>
<1>2. code \in Contexts /\ Me = code /\ Me' = code
  BY <1>1 DEF Contexts, Me, Active, SetInterrupts
<1>3. /\ UNCHANGED <<locked, running, inHandler, pc, want, held, flags>>
      /\ pc[code] = "out" /\ held[code] = {} /\ IF_on' = on
      /\ base'[code] = on /\ \A c \in Contexts : c # code => base'[c] = base[c]
  BY ZenonT(30), <1>2 DEF SetInterrupts, Quiet, IInv, TypeOK
<1>4. TypeOK'
  BY <1>2 DEF IInv, TypeOK, SetInterrupts
<1>5. HolderRuns' /\ OthersOut'
  BY ZenonT(30), <1>2, <1>3 DEF IInv, HolderRuns, OthersOut
<1>6. CpuFlags(Me)'
  BY ZenonT(30), <1>2, <1>3 DEF CpuFlags
<1>7. Parked'
  <2>1. \A u \in Threads : /\ Active(u)' = Active(u) /\ Active(u) \in Contexts
                           /\ u # t => Active(u) # code
                           /\ <<u, "handler">> \in Contexts /\ <<u, "handler">> # code
                           /\ <<u, "code">> \in Contexts
                           /\ u # t => <<u, "code">> # code
    BY <1>3 DEF Active, Contexts
  <2>2. ASSUME NEW u \in Threads, u # running'
        PROVE  pc'[Active(u)'] = "out" /\ ~base'[Active(u)']
    <3>1. pc[Active(u)] = "out" /\ ~base[Active(u)]
      BY <2>2, <1>3 DEF IInv, Parked
    <3>2. base'[Active(u)] = base[Active(u)] /\ Active(u)' = Active(u) /\ pc' = pc
      BY ZenonT(30), <2>1, <2>2, <1>1, <1>3
    <3> QED BY <3>1, <3>2, ZenonT(30)
  <2>3. \A u \in inHandler : /\ u \in Threads
                             /\ base'[<<u, "code">>] = base[<<u, "code">>]
                             /\ base'[<<u, "handler">>] = base[<<u, "handler">>]
    BY ZenonT(30), <1>1, <1>3, <2>1 DEF IInv, TypeOK
  <2>4. ASSUME NEW u \in inHandler
        PROVE  /\ base'[<<u, "code">>] /\ ~base'[<<u, "handler">>]
               /\ pc'[<<u, "code">>] = "saved" => flags'[<<u, "code">>][want'[<<u, "code">>]]
    BY <2>3, <1>3 DEF IInv, Parked
  <2> QED BY ZenonT(30), <1>3, <2>2, <2>4 DEF IInv, Parked
<1> QED BY <1>4, <1>5, <1>6, <1>7 DEF IInv

\* The invariant holds throughout.
THEOREM Invariance == Spec => []IInv
<1>1. IInv /\ [Next]_vars => IInv'
  <2>1. IInv /\ UNCHANGED vars => IInv'
    <3> SUFFICES ASSUME IInv, UNCHANGED vars PROVE IInv'
      OBVIOUS
    <3>1. PICK c \in Contexts : c = Me
      BY MeContext DEF IInv
    <3>2. TypeOK' /\ (\A l \in Locks : locked'[l] <=> l \in held'[c])
      BY <3>1 DEF IInv, TypeOK, HolderRuns, vars
    <3>3. CpuFlags(c)'
      BY ZenonT(30), <3>1 DEF IInv, CpuFlags, vars
    <3> QED BY <3>1, <3>2, <3>3, LocalStep DEF vars
  <2> QED BY <2>1, LockSteps, InterruptStep, InterruptReturnStep, SwitchStep, SetInterruptsStep
          DEF Next
<1> QED BY <1>1, InitIInv, PTL DEF Spec

\* A lock's holder is the context on the CPU: no thread is interrupted or
\* switched out inside a locked section.
THEOREM HolderRunsCorrect == Spec => []HolderRuns
<1>1. IInv => HolderRuns
  BY DEF IInv
<1> QED BY <1>1, Invariance, PTL

\* spinlock_acquire never finds its lock taken, so it never spins.
THEOREM NeverContendedCorrect == Spec => []NeverContended
<1>1. IInv => NeverContended
  <2> SUFFICES ASSUME IInv, NEW t \in Threads, pc[Active(t)] = "spin"
               PROVE  ~locked[want[Active(t)]]
    BY DEF NeverContended
  <2>1. t = running
    BY DEF IInv, Parked
  <2>2. Active(t) = Me /\ Me \in Contexts
    BY <2>1, MeContext DEF Me, IInv
  <2>3. want[Me] \in Locks /\ \A m \in held[Me] : <<m, want[Me]>> \in Nests
    BY <2>2 DEF IInv, CpuFlags, TypeOK
  <2>4. want[Me] \notin held[Me]
    BY ZenonT(30), <2>3, NestsAssumption
  <2> QED BY <2>2, <2>3, <2>4 DEF IInv, HolderRuns
<1> QED BY <1>1, Invariance, PTL

\* The interrupt flag is what it was when no lock is held any more.
THEOREM FlagsRestoredCorrect == Spec => []FlagsRestored
<1>1. IInv => FlagsRestored
  BY DEF IInv, CpuFlags, FlagsRestored, Quiet
<1> QED BY <1>1, Invariance, PTL

-----------------------------------------------------------------------------
(* Division *)

\* A remainder is known from the multiples around the dividend.
LEMMA RemainderIs ==
  ASSUME NEW a \in Nat, NEW d \in Nat \ {0}, NEW q \in Nat, q * d <= a, a < q * d + d
  PROVE  a % d = a - q * d
<1>1. a \div d = q
  BY QuotientIs
<1>2. a = d * (a \div d) + (a % d)
  OBVIOUS
<1>3. d * q = q * d /\ q * d \in Nat /\ a % d \in Int
  OBVIOUS
<1>4. a = d * q + (a % d)
  BY <1>1, <1>2
<1> QED BY <1>3, <1>4

\* Division keeps the order.
LEMMA OrderKept ==
  ASSUME NEW a \in Nat, NEW b \in Nat, NEW d \in Nat \ {0}, a <= b
  PROVE  a \div d <= b \div d
<1>1. PICK k \in Nat : k = b \div d
  BY Quotient
<1>2. b < k * d + d /\ k * d \in Nat
  BY <1>1, Quotient
<1>3. (k + 1) * d = k * d + d
  OBVIOUS
<1>4. a < (k + 1) * d
  BY <1>2, <1>3
<1>5. a \div d < k + 1
  BY <1>4, QuotientBelow
<1>6. a \div d \in Nat
  BY Quotient
<1> QED BY <1>1, <1>5, <1>6

-----------------------------------------------------------------------------
(* uva_check_range *)

\* The page table has a leaf entry for every page; those of the kernel's half
\* are writable and lack the user bit.
TableInv ==
  /\ pt \in [UserPages \cup KernelPages -> 0 .. 7]
  /\ \A p \in KernelPages : pt[p] = 3

\* The user's half: 2^(V - 1) bytes in 2^(V - 1 - P) pages.
Half == 2^(V - 1)
Page == 2^P
HalfPages == 2^(V - 1 - P)

\* The powers of two, by name.
LEMMA Sizes ==
  /\ Half \in Nat \ {0} /\ Page \in Nat \ {0} /\ HalfPages \in Nat \ {0}
  /\ Half = HalfPages * Page
  /\ 2^V = 2 * Half
  /\ UserPages = 0 .. HalfPages - 1 /\ KernelPages = HalfPages .. 2 * HalfPages - 1
  /\ KERNEL_PML4_START \in Nat /\ 2^(V - RootBits) \in Nat \ {0}
  /\ Half = KERNEL_PML4_START * 2^(V - RootBits)
BY PowersAssumption DEF Half, Page, HalfPages, UserPages, KernelPages, KERNEL_PML4_START

\* The size of the address space, an even number of halves.
LEMMA Space ==
  /\ 2^W \in Nat
  /\ \E q \in Nat \ {0} : /\ 2^(W - V + 1) = 2 * q
                          /\ 2^W = 2 * q * Half
<1>1. PICK q \in Nat \ {0} : q = 2^(W - V)
  BY PowersAssumption
<1>2. 2^(W - V + 1) = 2 * q /\ 2^W = 2 * q * Half
  BY <1>1, PowersAssumption DEF Half
<1>3. 2 * q * Half \in Nat
  BY Sizes
<1> QED BY <1>2, <1>3

\* The first half is a part of the address space.
LEMMA HalfInSpace == Half \in Nat /\ 2^W \in Nat /\ Half <= 2^W
<1>1. PICK q \in Nat \ {0} : 2^W = 2 * q * Half
  BY ZenonT(30), Space
<1>2. PICK h \in Nat : h = Half
  BY Sizes
<1>3. h <= 2 * q * h
  OBVIOUS
<1> QED BY <1>1, <1>2, <1>3, Space

\* An address in the first half.
LEMMA LowAddress ==
  ASSUME NEW a \in Nat, a < Half
  PROVE  /\ a % 2^V = a
         /\ is_canonical(a) /\ pml4_index(a) < KERNEL_PML4_START
<1>1. a % 2^V = a
  <2>1. PICK d \in Nat \ {0} : d = 2 * Half /\ d = 2^V
    BY Sizes
  <2>2. a < d /\ 0 * d = 0
    BY <2>1, Sizes
  <2>3. a % d = a - 0 * d
    BY <2>2, RemainderIs
  <2> QED BY <2>1, <2>2, <2>3
<1>2. is_canonical(a)
  <2>1. a \div Half = 0
    <3>1. PICK h \in Nat \ {0} : h = Half
      BY Sizes
    <3>2. 0 * h <= a /\ a < 0 * h + h
      BY <3>1
    <3>3. a \div h = 0
      BY <3>2, QuotientIs
    <3> QED BY <3>1, <3>3
  <2> QED BY <2>1 DEF is_canonical, Half
<1>3. pml4_index(a) < KERNEL_PML4_START
  <2>1. a < KERNEL_PML4_START * 2^(V - RootBits)
    BY Sizes
  <2>2. a \div 2^(V - RootBits) < KERNEL_PML4_START
    BY <2>1, Sizes, QuotientBelow
  <2> QED BY <1>1, <2>2 DEF pml4_index
<1> QED BY <1>1, <1>2, <1>3

\* An address in the last half.
LEMMA HighAddress ==
  ASSUME NEW a \in Nat, a < 2^W, a >= 2^W - Half
  PROVE  /\ a % 2^V \in Half .. 2 * Half - 1
         /\ ~(pml4_index(a) < KERNEL_PML4_START)
<1>1. PICK q \in Nat \ {0} : 2^W = 2 * q * Half
  BY Space
<1>2. PICK h \in Nat \ {0} : h = Half
  BY Sizes
<1>3. PICK k \in Nat : k = q - 1
  BY <1>1
<1>4. 2^W = k * (2 * h) + 2 * h
  BY <1>1, <1>2, <1>3
<1>5. k * (2 * h) \in Nat /\ 2 * h \in Nat \ {0}
  BY <1>2, <1>3
<1>6. k * (2 * h) + h <= a /\ a < k * (2 * h) + 2 * h
  BY <1>2, <1>4, <1>5
<1>7. a % (2 * h) = a - k * (2 * h)
  <2>1. PICK d \in Nat \ {0} : d = 2 * h
    BY <1>5
  <2>2. k * d <= a /\ a < k * d + d
    BY <1>2, <1>5, <1>6, <2>1
  <2>3. a % d = a - k * d
    BY <2>2, RemainderIs
  <2> QED BY <2>1, <2>3
<1>8. a % (2 * h) \in h .. 2 * h - 1
  BY <1>2, <1>5, <1>6, <1>7
<1>9. 2^V = 2 * h
  BY <1>2, Sizes
<1>10. a % 2^V \in Half .. 2 * Half - 1
  BY <1>2, <1>8, <1>9
<1>11. PICK r \in Nat : r = a % 2^V /\ r >= Half
  BY <1>10, Sizes
<1>12. ~(r \div 2^(V - RootBits) < KERNEL_PML4_START)
  <2>1. ~(r < KERNEL_PML4_START * 2^(V - RootBits))
    BY <1>11, Sizes
  <2> QED BY <2>1, Sizes, QuotientBelow
<1> QED BY <1>10, <1>11, <1>12 DEF pml4_index

\* The test of an end of the range: it lies in the first half.
LEMMA EndTest ==
  ASSUME NEW a \in Nat, a < 2^W
  PROVE  is_canonical(a) /\ pml4_index(a) < KERNEL_PML4_START <=> a < Half
<1>1. ASSUME is_canonical(a), pml4_index(a) < KERNEL_PML4_START, ~(a < Half) PROVE FALSE
  <2>1. a \div Half # 0
    <3>1. ~(a < 1 * Half)
      BY <1>1, Sizes
    <3>2. ~(a \div Half < 1)
      BY <3>1, Sizes, QuotientBelow
    <3> QED BY <3>2
  <2>2. a \div Half = 2^(W - V + 1) - 1
    BY <1>1, <2>1 DEF is_canonical, Half
  <2>3. PICK q \in Nat \ {0} : 2^(W - V + 1) = 2 * q /\ 2^W = 2 * q * Half
    BY Space
  <2>4. PICK h \in Nat \ {0} : h = Half
    BY Sizes
  <2>5. a \div h = 2 * q - 1 /\ (a \div h) * h <= a
    BY <2>2, <2>3, <2>4, Quotient
  <2>6. (2 * q - 1) * h = 2 * q * h - h
    BY <2>3, <2>4
  <2>7. a >= 2^W - Half
    BY <2>3, <2>4, <2>5, <2>6
  <2> QED BY <1>1, <2>7, HighAddress
<1> QED BY <1>1, LowAddress

\* What ring 3 may do with a byte.
LEMMA RingThree ==
  ASSUME TableInv, NEW a \in Nat, a < 2^W, NEW w \in BOOLEAN
  PROVE  RingThreeMay(a, w) <=> a < Half /\ pt[a \div Page] \in (IF w THEN {7} ELSE {5, 7})
<1>1. a \in Addresses
  BY Space DEF Addresses
<1>2. CASE a < Half
  <2>1. PageOf(a) = a \div Page
    BY <1>2, LowAddress DEF PageOf, Page
  <2>2. SignExtended(a)
    BY <1>2 DEF SignExtended, Half
  <2> QED BY <1>1, <1>2, <2>1, <2>2 DEF RingThreeMay
<1>3. CASE ~(a < Half)
  <2> SUFFICES ASSUME RingThreeMay(a, w) PROVE FALSE
    BY <1>3
  <2>1. a >= 2^W - Half
    BY <1>3 DEF RingThreeMay, SignExtended, Half
  <2>2. PICK r \in Nat : r = a % 2^V /\ r >= Half /\ r < 2 * Half
    BY <2>1, Sizes, HighAddress
  <2>3. r \div Page \in KernelPages
    <3>1. PICK n \in Nat \ {0}, b \in Nat \ {0} : n = HalfPages /\ b = Page /\ Half = n * b
      BY Sizes
    <3>2. ~(r < n * b) /\ r < (2 * n) * b
      BY <2>2, <3>1, Sizes
    <3>3. ~(r \div b < n) /\ r \div b < 2 * n /\ r \div b \in Nat
      <4>1. PICK m \in Nat : m = 2 * n
        BY <3>1
      <4>2. r \div b < n <=> r < n * b
        BY <3>1, QuotientBelow
      <4>3. r \div b < m <=> r < m * b
        BY <3>1, QuotientBelow
      <4>4. r \div b \in Nat
        BY <3>1, Quotient
      <4> QED BY <3>2, <4>1, <4>2, <4>3, <4>4
    <3> QED BY <3>1, <3>3, Sizes
  <2>4. pt[PageOf(a)] = 3
    BY <2>2, <2>3 DEF PageOf, Page, TableInv
  <2> QED BY <2>4 DEF RingThreeMay
<1> QED BY <1>2, <1>3

\* The bits uva_check_range looks at.
LEMMA Permissions ==
  ASSUME NEW e \in 0 .. 7, NEW w \in BOOLEAN
  PROVE  (present(e) /\ user_accessible(e) /\ (w => writable(e))) <=> e \in (IF w THEN {7} ELSE {5, 7})
BY DEF present, user_accessible, writable

SamePages(a, z, d) ==
  /\ \A x \in a .. z : x \div d \in (a \div d) .. (z \div d)
  /\ \A p \in (a \div d) .. (z \div d) : \E x \in a .. z : x \div d = p

\* The pages from that of the first byte to that of the last are those of the
\* bytes between.
LEMMA PagesOfRange ==
  ASSUME NEW a \in Nat, NEW z \in Nat, a <= z, NEW d \in Nat \ {0}
  PROVE  SamePages(a, z, d)
<1>1. a \div d \in Nat /\ z \div d \in Nat
  BY Quotient
<1>2. ASSUME NEW x \in a .. z PROVE x \div d \in (a \div d) .. (z \div d)
  <2>1. x \in Nat /\ a <= x /\ x <= z
    OBVIOUS
  <2>2. a \div d <= x \div d /\ x \div d <= z \div d /\ x \div d \in Nat
    BY <2>1, OrderKept, Quotient
  <2> QED BY <1>1, <2>2
<1>3. ASSUME NEW p \in (a \div d) .. (z \div d) PROVE \E x \in a .. z : x \div d = p
  <2>1. p \in Nat /\ a \div d <= p /\ p <= z \div d
    BY <1>1
  <2>2. CASE p = a \div d
    <3>1. a \in a .. z
      OBVIOUS
    <3> QED BY <2>2, <3>1
  <2>3. CASE p # a \div d
    <3>1. PICK x \in Nat : x = p * d
      BY <2>1
    <3>2. a < p * d
      BY <1>1, <2>1, <2>3, QuotientBelow
    <3>3. ~(z < p * d)
      BY <1>1, <2>1, QuotientBelow
    <3>4. x \in a .. z
      BY <3>1, <3>2, <3>3
    <3>5. x \div d = p
      BY <2>1, <3>1, QuotientIs
    <3> QED BY ZenonT(30), <3>4, <3>5
  <2> QED BY <2>2, <2>3
<1> QED BY <1>2, <1>3 DEF SamePages

\* A range that does not wrap round.
LEMMA NoWrap ==
  ASSUME TableInv, NEW uva \in Nat, NEW len \in Nat \ {0}, uva + len < 2^W, NEW w \in BOOLEAN
  PROVE  uva_check_range(uva, len, w) <=> \A k \in 0 .. len - 1 : RingThreeMay(uva + k, w)
<1> DEFINE last == uva + len - 1
           Ok(p) == pt[p] \in (IF w THEN {7} ELSE {5, 7})
<1>1. PICK z \in Nat : z = last /\ uva <= z /\ z < 2^W
  BY Space
<1>2. (uva + len) % 2^W = uva + len
  <2>1. PICK d \in Nat \ {0} : d = 2^W
    BY Space
  <2>2. PICK s \in Nat : s = uva + len /\ s < d
    BY <2>1
  <2>3. 0 * d <= s /\ s < 0 * d + d
    BY <2>2
  <2>4. s % d = s - 0 * d
    BY <2>3, RemainderIs
  <2> QED BY <2>1, <2>2, <2>4
<1>3. CASE z < Half
  <2>1. uva < Half /\ is_canonical(uva) /\ pml4_index(uva) < KERNEL_PML4_START
    <3>1. uva < Half
      BY <1>1, <1>3, Sizes
    <3> QED BY <3>1, LowAddress
  <2>2. is_canonical(z) /\ pml4_index(z) < KERNEL_PML4_START
    BY <1>3, LowAddress
  <2>3. PageOf(uva) = uva \div Page /\ PageOf(z) = z \div Page
    BY <1>3, <2>1, LowAddress DEF PageOf, Page
  <2>4. ASSUME NEW p \in (uva \div Page) .. (z \div Page)
        PROVE  (present(pt[p]) /\ user_accessible(pt[p]) /\ (w => writable(pt[p]))) <=> Ok(p)
    <3>1. z \div Page < HalfPages /\ z \div Page \in Nat /\ uva \div Page \in Nat
      BY ZenonT(30), <1>3, Sizes, QuotientBelow, Quotient
    <3>2. p \in UserPages
      BY <3>1, Sizes
    <3>3. pt[p] \in 0 .. 7
      BY <3>2 DEF TableInv
    <3> QED BY <3>3, Permissions
  <2>5. uva_check_range(uva, len, w) <=> \A p \in (uva \div Page) .. (z \div Page) : Ok(p)
    BY <1>1, <1>2, <2>1, <2>2, <2>3, <2>4 DEF uva_check_range
  <2>6. (\A p \in (uva \div Page) .. (z \div Page) : Ok(p)) <=> \A x \in uva .. z : Ok(x \div Page)
    <3>1. SamePages(uva, z, Page)
      BY <1>1, Sizes, PagesOfRange
    <3> HIDE DEF Ok
    <3> QED BY ZenonT(30), <3>1 DEF SamePages
  <2>7. \A x \in uva .. z : RingThreeMay(x, w) <=> Ok(x \div Page)
    <3> SUFFICES ASSUME NEW x \in uva .. z PROVE RingThreeMay(x, w) <=> Ok(x \div Page)
      OBVIOUS
    <3>1. x \in Nat /\ x < Half
      BY <1>1, <1>3, Sizes
    <3>2. x < 2^W
      BY <3>1, HalfInSpace
    <3> QED BY <3>1, <3>2, RingThree
  <2>8. (\A x \in uva .. z : RingThreeMay(x, w)) <=> \A k \in 0 .. len - 1 : RingThreeMay(uva + k, w)
    <3>1. \A k \in 0 .. len - 1 : uva + k \in uva .. z
      BY <1>1
    <3>2. \A x \in uva .. z : x - uva \in 0 .. len - 1 /\ uva + (x - uva) = x
      BY <1>1
    <3> QED BY <3>1, <3>2
  <2> QED BY ZenonT(30), <2>5, <2>6, <2>7, <2>8
<1>4. CASE ~(z < Half)
  <2>1. ~uva_check_range(uva, len, w)
    <3>1. ~(is_canonical(z) /\ pml4_index(z) < KERNEL_PML4_START)
      BY <1>1, <1>4, EndTest
    <3> QED BY <1>1, <1>2, <3>1 DEF uva_check_range
  <2>2. ~RingThreeMay(z, w)
    BY <1>1, <1>4, RingThree
  <2>3. len - 1 \in 0 .. len - 1 /\ uva + (len - 1) = z
    BY <1>1
  <2> QED BY <2>1, <2>2, <2>3
<1> QED BY <1>3, <1>4

\* A range that does.
LEMMA Wraps ==
  ASSUME TableInv, NEW uva \in Nat, NEW len \in Nat \ {0}, uva < 2^W, len < 2^W, ~(uva + len < 2^W),
         NEW w \in BOOLEAN
  PROVE  ~uva_check_range(uva, len, w) /\ ~\A k \in 0 .. len - 1 : RingThreeMay(uva + k, w)
<1>1. PICK d \in Nat \ {0} : d = 2^W
  BY Space
<1>2. (uva + len) % 2^W = uva + len - 2^W
  <2>1. PICK s \in Nat : s = uva + len /\ d <= s /\ s < d + d
    BY <1>1
  <2>2. 1 * d <= s /\ s < 1 * d + d
    BY <2>1
  <2>3. s % d = s - 1 * d
    BY <2>2, RemainderIs
  <2> QED BY <1>1, <2>1, <2>3
<1>3. ~((uva + len) % 2^W >= uva)
  BY <1>1, <1>2
<1>4. ~uva_check_range(uva, len, w)
  BY <1>3 DEF uva_check_range
<1>5. PICK z \in Nat : z = 2^W - 1 /\ ~(z < Half)
  <2>1. PICK q \in Nat \ {0} : 2^W = 2 * q * Half
    BY Space
  <2>2. PICK h \in Nat \ {0} : h = Half
    BY Sizes
  <2>3. q * h \in Nat /\ h <= q * h /\ 2 * q * h = 2 * (q * h)
    <3>1. PICK m \in Nat : q = m + 1
      <4>1. q - 1 \in Nat /\ q = (q - 1) + 1
        OBVIOUS
      <4> QED BY <4>1
    <3>2. q * h = m * h + h /\ m * h \in Nat
      BY <3>1
    <3> QED BY <3>2
  <2> QED BY <1>1, <2>1, <2>2, <2>3
<1>6. ~RingThreeMay(z, w)
  BY <1>1, <1>5, RingThree
<1>7. z - uva \in 0 .. len - 1 /\ uva + (z - uva) = z
  BY <1>1, <1>5
<1> QED BY <1>4, <1>6, <1>7

\* Every page table allows exactly what it should.
LEMMA TableAllows == TableInv => RangeExact
<1> SUFFICES ASSUME TableInv, NEW uva \in Addresses, NEW len \in 0 .. 2^W - 1, NEW w \in BOOLEAN
             PROVE  uva_check_range(uva, len, w) <=> \A k \in 0 .. len - 1 : RingThreeMay(uva + k, w)
  BY DEF RangeExact
<1>1. uva \in Nat /\ uva < 2^W /\ len \in Nat /\ len < 2^W
  BY Space DEF Addresses
<1>2. CASE len = 0
  <2>1. 0 .. len - 1 = {}
    BY <1>2
  <2> QED BY <1>2, <2>1 DEF uva_check_range
<1>3. CASE len # 0 /\ uva + len < 2^W
  BY ZenonT(30), <1>1, <1>3, NoWrap
<1>4. CASE len # 0 /\ ~(uva + len < 2^W)
  BY ZenonT(30), <1>1, <1>4, Wraps
<1> QED BY <1>2, <1>3, <1>4

\* vmm_map and vmm_unmap change leaves of the user's half.
THEOREM TableInvariance == UAccessSpec => []TableInv
<1>1. UAccessInit => TableInv
  BY Sizes DEF UAccessInit, TableInv
<1>2. TableInv /\ [UAccessNext]_pt => TableInv'
  <2> SUFFICES ASSUME TableInv, [UAccessNext]_pt PROVE TableInv'
    OBVIOUS
  <2>1. CASE UNCHANGED pt
    BY <2>1 DEF TableInv
  <2>2. CASE UAccessNext
    <3>1. PICK p \in UserPages, e \in 0 .. 7 : pt' = [pt EXCEPT ![p] = e]
      BY <2>2, FlagsAssumption DEF UAccessNext, vmm_map, vmm_unmap
    <3>2. p \notin KernelPages
      BY Sizes
    <3> QED BY <3>1, <3>2 DEF TableInv
  <2> QED BY <2>1, <2>2
<1> QED BY <1>1, <1>2, PTL DEF UAccessSpec

\* uva_check_range accepts exactly the ranges all of whose bytes the program
\* could touch itself, in every page table that vmm_map and vmm_unmap make and
\* for every width of addresses, pages and tables: the invariant RangeExact.
THEOREM RangeCorrect == UAccessSpec => []RangeExact
BY TableInvariance, TableAllows, PTL

-----------------------------------------------------------------------------
(* memory.c *)

\* What the loop has done so far: the cells from lo on, below hi, hold what the
\* call shall put there, and all others what they held before it.
Done(lo, hi) ==
  \A a \in Cells :
     ram[a] = IF a < lo \/ a >= hi THEN ram0[a]
              ELSE IF call.fn = "memset" THEN call.src % BYTE
              ELSE ram0[call.src + (a - call.dest)]

\* The invariant of the four loops.  A copy that runs forwards has its source
\* above its destination or apart from it, one that runs backwards below.
LoopInv ==
  /\ i \in 0 .. call.n
  /\ call.fn = "memmove" => call.src # call.dest
  /\ call.fn # "memcmp" =>
       IF Backward(call) THEN Done(call.dest + i, call.dest + call.n)
       ELSE Done(call.dest, call.dest + i)
  /\ call.fn = "memcmp" =>
       /\ ram = ram0
       /\ result = 0
       /\ \A k \in 0 .. i - 1 : ram0[call.dest + k] = ram0[call.src + k]

MemoryInv ==
  /\ ram \in [Cells -> 0 .. BYTE - 1]
  /\ ram0 \in [Cells -> 0 .. BYTE - 1]
  /\ call \in Calls
  /\ i = DONE \/ LoopInv
  /\ AsMandated

\* What a call may be.
LEMMA CallFacts ==
  ASSUME call \in Calls
  PROVE  /\ call.fn \in {"memcpy", "memset", "memmove", "memcmp"}
         /\ call.dest \in Nat /\ call.src \in Nat /\ call.n \in Nat
         /\ call.dest + call.n <= SIZE
         /\ call.fn # "memset" => call.src + call.n <= SIZE
         /\ call.fn = "memcpy" => call.src + call.n <= call.dest \/ call.dest + call.n <= call.src
BY MemoryAssumption DEF Calls, Cells

\* A call that has done all of its cells leaves memory as mandated.
LEMMA AllDone ==
  ASSUME MemoryInv, call.fn # "memcmp", Done(call.dest, call.dest + call.n)
  PROVE  ram = Mandated(call, ram0)
<1>1. ASSUME NEW a \in Cells PROVE ram[a] = Mandated(call, ram0)[a]
  <2>0. call.dest \in Nat /\ call.n \in Nat /\ a \in Int
    BY CallFacts, MemoryAssumption DEF MemoryInv, Cells
  <2>1. a \in call.dest .. call.dest + call.n - 1 <=> ~(a < call.dest \/ a >= call.dest + call.n)
    BY <2>0
  <2>2. call.fn \notin {"none", "memcmp"}
    BY CallFacts DEF MemoryInv
  <2>3. ram[a] = IF a \notin call.dest .. call.dest + call.n - 1 THEN ram0[a]
                 ELSE IF call.fn = "memset" THEN call.src % BYTE
                 ELSE ram0[call.src + (a - call.dest)]
    BY <2>1 DEF Done
  <2> QED BY <2>2, <2>3 DEF Mandated
<1>2. DOMAIN Mandated(call, ram0) = Cells /\ DOMAIN ram = Cells
  BY DEF MemoryInv, Mandated
<1>3. Mandated(call, ram0) = [a \in Cells |-> Mandated(call, ram0)[a]]
  BY DEF Mandated
<1>4. ram = [a \in Cells |-> ram[a]]
  BY DEF MemoryInv
<1> QED BY <1>1, <1>3, <1>4

\* One cell more, at either end.
LEMMA OneMore ==
  ASSUME MemoryInv, NEW lo \in Nat, NEW hi \in Nat, Done(lo, hi), NEW c \in Cells, NEW b,
         b = IF call.fn = "memset" THEN call.src % BYTE ELSE ram0[call.src + (c - call.dest)],
         b \in 0 .. BYTE - 1, Store(c, b)
  PROVE  /\ ram' \in [Cells -> 0 .. BYTE - 1]
         /\ c = hi /\ lo <= hi => Done(lo, hi + 1)'
         /\ c = lo - 1 /\ lo <= hi => Done(lo - 1, hi)'
<1>1. ram' = [ram EXCEPT ![c] = b] /\ UNCHANGED <<call, result, ram0>>
  BY DEF Store
<1>2. ram' \in [Cells -> 0 .. BYTE - 1]
  BY <1>1 DEF MemoryInv
<1>3. ram'[c] = b /\ \A a \in Cells : a # c => ram'[a] = ram[a]
  BY <1>1 DEF MemoryInv
<1>4. ASSUME c = hi, lo <= hi PROVE Done(lo, hi + 1)'
  <2> SUFFICES ASSUME NEW a \in Cells
               PROVE  ram'[a] = IF a < lo \/ a >= hi + 1 THEN ram0[a]
                                ELSE IF call.fn = "memset" THEN call.src % BYTE
                                ELSE ram0[call.src + (a - call.dest)]
    BY <1>1 DEF Done
  <2>1. CASE a = c
    BY <1>3, <1>4, <2>1, MemoryAssumption DEF Cells
  <2>2. CASE a # c
    <3>1. a \in Nat /\ (a >= hi + 1 <=> a >= hi)
      BY <1>4, <2>2, MemoryAssumption DEF Cells
    <3> QED BY <1>3, <2>2, <3>1 DEF Done
  <2> QED BY <2>1, <2>2
<1>5. ASSUME c = lo - 1, lo <= hi PROVE Done(lo - 1, hi)'
  <2> SUFFICES ASSUME NEW a \in Cells
               PROVE  ram'[a] = IF a < lo - 1 \/ a >= hi THEN ram0[a]
                                ELSE IF call.fn = "memset" THEN call.src % BYTE
                                ELSE ram0[call.src + (a - call.dest)]
    BY <1>1 DEF Done
  <2>1. CASE a = c
    BY <1>3, <1>5, <2>1, MemoryAssumption DEF Cells
  <2>2. CASE a # c
    <3>1. a \in Nat /\ (a < lo - 1 <=> a < lo)
      BY <1>5, <2>2, MemoryAssumption DEF Cells
    <3> QED BY <1>3, <2>2, <3>1 DEF Done
  <2> QED BY <2>1, <2>2
<1> QED BY <1>2, <1>4, <1>5

\* The first round: nothing is done yet.
LEMMA MemoryStart == MemoryInit => MemoryInv
<1> SUFFICES ASSUME MemoryInit PROVE MemoryInv
  OBVIOUS
<1>1. /\ ram \in [Cells -> 0 .. BYTE - 1] /\ ram0 = ram /\ call \in Calls /\ result = 0
      /\ i = IF call.fn = "memmove" /\ call.src = call.dest THEN DONE
             ELSE IF Backward(call) THEN call.n ELSE 0
  BY ZenonT(30) DEF MemoryInit
<1>2. CASE call.fn = "memmove" /\ call.src = call.dest
  <2>1. \A a \in Cells : call.src + (a - call.dest) = a
    BY <1>1, <1>2, CallFacts, MemoryAssumption DEF Cells
  <2>2. Mandated(call, ram0) = [a \in Cells |-> ram0[a]]
    BY <1>2, <2>1 DEF Mandated
  <2>3. ram = Mandated(call, ram0)
    BY <1>1, <2>2
  <2> QED BY <1>1, <1>2, <2>3 DEF MemoryInv, AsMandated
<1>3. CASE ~(call.fn = "memmove" /\ call.src = call.dest)
  <2>1. i \in 0 .. call.n /\ i # DONE
    BY <1>1, <1>3, CallFacts DEF DONE
  <2>2. LoopInv
    BY <1>1, <1>3, <2>1, CallFacts, MemoryAssumption DEF LoopInv, Done, Cells, Backward
  <2> QED BY <1>1, <2>1, <2>2 DEF MemoryInv, AsMandated
<1> QED BY <1>2, <1>3

\* A round of memcpy, memmove or memset stores what the call shall put there:
\* the cell it reads has not been written yet.
LEMMA ForwardStep == MemoryInv /\ CopyForward => MemoryInv'
<1> SUFFICES ASSUME MemoryInv, CopyForward PROVE MemoryInv'
  OBVIOUS
<1>1. /\ call.fn \in {"memcpy", "memmove"} /\ ~Backward(call) /\ i \in 0 .. call.n - 1
      /\ Store(call.dest + i, ram[call.src + i]) /\ i' = i + 1
      /\ ram0' = ram0 /\ call' = call
  BY DEF CopyForward, Store
<1>2. call \in Calls /\ LoopInv
  BY <1>1, CallFacts DEF MemoryInv, DONE
<1>3. PICK c \in Cells : c = call.dest + i
  BY <1>1, <1>2, CallFacts, MemoryAssumption DEF Cells
<1>4. call.src + i \in Cells /\ call.src + (c - call.dest) = call.src + i
  BY <1>1, <1>2, <1>3, CallFacts, MemoryAssumption DEF Cells
<1>5. Done(call.dest, call.dest + i)
  BY <1>1, <1>2 DEF LoopInv
<1>6. call.src + i < call.dest \/ call.src + i >= call.dest + i
  BY <1>1, <1>2, CallFacts DEF LoopInv, Backward
<1>7. PICK b : b = ram0[call.src + i]
  OBVIOUS
<1>8. ram[call.src + i] = b /\ b \in 0 .. BYTE - 1
  BY <1>4, <1>5, <1>6, <1>7 DEF Done, MemoryInv
<1>9. PICK lo, hi \in Nat : lo = call.dest /\ hi = call.dest + i /\ lo <= hi
  BY <1>1, <1>2, CallFacts
<1>10. ram' \in [Cells -> 0 .. BYTE - 1] /\ Done(lo, hi + 1)'
  <2>1. Store(c, b) /\ b = ram0[call.src + (c - call.dest)] /\ call.fn # "memset"
    BY <1>1, <1>3, <1>4, <1>7, <1>8
  <2>2. c = hi /\ Done(lo, hi)
    BY <1>3, <1>5, <1>9
  <2> QED BY <1>8, <1>9, <2>1, <2>2, OneMore
<1>11. hi + 1 = call'.dest + i' /\ lo = call'.dest /\ i' \in 0 .. call.n /\ i' # DONE
  BY <1>1, <1>2, <1>9, CallFacts DEF DONE
<1>12. Done(call.dest, call.dest + i)'
  BY <1>10, <1>11 DEF Done
<1>13. LoopInv'
  BY <1>1, <1>2, <1>11, <1>12 DEF LoopInv, Backward
<1> QED BY <1>1, <1>2, <1>10, <1>11, <1>13 DEF MemoryInv, AsMandated

LEMMA BackwardStep == MemoryInv /\ CopyBackward => MemoryInv'
<1> SUFFICES ASSUME MemoryInv, CopyBackward PROVE MemoryInv'
  OBVIOUS
<1>1. /\ Backward(call) /\ call.fn = "memmove" /\ call.src < call.dest /\ i > 0
      /\ Store(call.dest + i - 1, ram[call.src + i - 1]) /\ i' = i - 1
      /\ ram0' = ram0 /\ call' = call
  BY DEF CopyBackward, Store, Backward
<1>2. call \in Calls /\ LoopInv
  BY <1>1 DEF MemoryInv, DONE
<1>2a. i \in 1 .. call.n /\ call.n \in Nat /\ call.dest \in Nat /\ call.src \in Nat
  BY <1>1, <1>2, CallFacts DEF LoopInv
<1>3. PICK c \in Cells : c = call.dest + i - 1
  BY <1>2, <1>2a, CallFacts, MemoryAssumption DEF Cells
<1>4. call.src + i - 1 \in Cells /\ call.src + (c - call.dest) = call.src + i - 1
  BY <1>1, <1>2, <1>2a, <1>3, CallFacts, MemoryAssumption DEF Cells
<1>5. Done(call.dest + i, call.dest + call.n)
  BY <1>1, <1>2 DEF LoopInv
<1>6. call.src + i - 1 < call.dest + i
  BY <1>1, <1>2a
<1>7. PICK b : b = ram0[call.src + i - 1]
  OBVIOUS
<1>8. ram[call.src + i - 1] = b /\ b \in 0 .. BYTE - 1
  BY <1>4, <1>5, <1>6, <1>7 DEF Done, MemoryInv
<1>9. PICK lo, hi \in Nat : lo = call.dest + i /\ hi = call.dest + call.n /\ lo <= hi
  BY <1>2a
<1>10. ram' \in [Cells -> 0 .. BYTE - 1] /\ Done(lo - 1, hi)'
  <2>1. Store(c, b) /\ b = ram0[call.src + (c - call.dest)] /\ call.fn # "memset"
    BY <1>1, <1>3, <1>4, <1>7, <1>8
  <2>2. c = lo - 1 /\ Done(lo, hi)
    BY <1>2a, <1>3, <1>5, <1>9
  <2> QED BY <1>8, <1>9, <2>1, <2>2, OneMore
<1>11. lo - 1 = call'.dest + i' /\ hi = call'.dest + call'.n /\ i' \in 0 .. call.n /\ i' # DONE
  BY <1>1, <1>2a, <1>9 DEF DONE
<1>12. Done(call.dest + i, call.dest + call.n)'
  BY <1>10, <1>11 DEF Done
<1>13. LoopInv'
  BY <1>1, <1>2, <1>11, <1>12 DEF LoopInv, Backward
<1> QED BY <1>1, <1>2, <1>10, <1>11, <1>13 DEF MemoryInv, AsMandated

LEMMA SetStep == MemoryInv /\ SetByte => MemoryInv'
<1> SUFFICES ASSUME MemoryInv, SetByte PROVE MemoryInv'
  OBVIOUS
<1>1. /\ call.fn = "memset" /\ ~Backward(call) /\ i \in 0 .. call.n - 1
      /\ Store(call.dest + i, call.src % BYTE) /\ i' = i + 1
      /\ ram0' = ram0 /\ call' = call
  BY DEF SetByte, Store, Backward
<1>2. call \in Calls /\ LoopInv
  BY <1>1, CallFacts DEF MemoryInv, DONE
<1>3. PICK c \in Cells : c = call.dest + i
  BY <1>1, <1>2, CallFacts, MemoryAssumption DEF Cells
<1>4. call.src % BYTE \in 0 .. BYTE - 1
  BY <1>2, CallFacts, MemoryAssumption
<1>5. Done(call.dest, call.dest + i)
  BY <1>1, <1>2 DEF LoopInv
<1>6. PICK lo, hi \in Nat : lo = call.dest /\ hi = call.dest + i /\ lo <= hi
  BY <1>1, <1>2, CallFacts
<1>7. ram' \in [Cells -> 0 .. BYTE - 1] /\ Done(lo, hi + 1)'
  <2>1. PICK b : b = call.src % BYTE
    OBVIOUS
  <2>2. Store(c, b) /\ c = hi /\ Done(lo, hi) /\ b \in 0 .. BYTE - 1
    BY <1>1, <1>3, <1>4, <1>5, <1>6, <2>1
  <2> QED BY <1>1, <1>6, <2>1, <2>2, OneMore
<1>8. hi + 1 = call'.dest + i' /\ lo = call'.dest /\ i' \in 0 .. call.n /\ i' # DONE
  BY <1>1, <1>2, <1>6, CallFacts DEF DONE
<1>9. Done(call.dest, call.dest + i)'
  BY <1>7, <1>8 DEF Done
<1>10. LoopInv'
  BY <1>1, <1>2, <1>8, <1>9 DEF LoopInv, Backward
<1> QED BY <1>1, <1>2, <1>7, <1>8, <1>10 DEF MemoryInv, AsMandated

\* memcmp stops at the first byte that differs.
LEMMA CompareStep == MemoryInv /\ CompareByte => MemoryInv'
<1> SUFFICES ASSUME MemoryInv, CompareByte PROVE MemoryInv'
  OBVIOUS
<1>1. /\ call.fn = "memcmp" /\ i \in 0 .. call.n - 1
      /\ ram' = ram /\ ram0' = ram0 /\ call' = call
  BY DEF CompareByte
<1>2. call \in Calls /\ LoopInv
  BY <1>1, CallFacts DEF MemoryInv, DONE
<1>3. /\ ram = ram0 /\ result = 0
      /\ \A k \in 0 .. i - 1 : ram0[call.dest + k] = ram0[call.src + k]
  BY <1>1, <1>2 DEF LoopInv
<1>4. CASE ram0[call.dest + i] = ram0[call.src + i]
  <2>1. i' = i + 1 /\ result' = result
    BY <1>3, <1>4 DEF CompareByte
  <2>2. i' \in 0 .. call.n /\ i' # DONE
    BY <1>1, <1>2, <2>1, CallFacts DEF DONE
  <2>3. ASSUME NEW k \in 0 .. i' - 1 PROVE ram0[call.dest + k] = ram0[call.src + k]
    <3>1. k \in 0 .. i - 1 \/ k = i
      BY <1>1, <2>1
    <3> QED BY <1>3, <1>4, <3>1
  <2>4. LoopInv'
    BY <1>1, <1>2, <1>3, <2>1, <2>2, <2>3 DEF LoopInv
  <2> QED BY <1>1, <2>2, <2>4 DEF MemoryInv, AsMandated
<1>5. CASE ram0[call.dest + i] # ram0[call.src + i]
  <2>1. /\ i' = DONE
        /\ result' = IF ram0[call.dest + i] < ram0[call.src + i] THEN -1 ELSE 1
    BY <1>3, <1>5 DEF CompareByte
  <2> DEFINE differ == {k \in 0 .. call.n - 1 : ram0[call.dest + k] # ram0[call.src + k]}
  <2>2. i \in differ /\ \A j \in differ : i <= j
    BY <1>1, <1>2, <1>3, <1>5, CallFacts
  <2>3. (CHOOSE k \in differ : \A j \in differ : k <= j) = i
    <3>1. \A j \in differ : j \in Int
      OBVIOUS
    <3>2. \A k \in differ : (\A j \in differ : k <= j) => k = i
      BY <2>2, <3>1
    <3> HIDE DEF differ
    <3> QED BY ZenonT(30), <2>2, <3>2
  <2>4. differ # {}
    BY <2>2
  <2>5. result' = Compared(call, ram0)
    BY ZenonT(30), <2>1, <2>3, <2>4 DEF Compared
  <2>6. Mandated(call, ram0) = [a \in Cells |-> ram0[a]]
    BY <1>1 DEF Mandated
  <2>7. ram = Mandated(call, ram0)
    BY <1>3, <2>6 DEF MemoryInv
  <2> QED BY <1>1, <2>1, <2>5, <2>7 DEF MemoryInv, AsMandated
<1> QED BY <1>4, <1>5

\* A loop that has come to its end.
LEMMA ReturnStep == MemoryInv /\ Return => MemoryInv'
<1> SUFFICES ASSUME MemoryInv, Return PROVE MemoryInv'
  OBVIOUS
<1>1. /\ i = (IF Backward(call) THEN 0 ELSE call.n) /\ i' = DONE
      /\ ram' = ram /\ ram0' = ram0 /\ call' = call /\ result' = result
  BY DEF Return
<1>2. call \in Calls /\ LoopInv
  BY <1>1, CallFacts DEF MemoryInv, DONE
<1>3. CASE call.fn # "memcmp"
  <2>1. call.dest + 0 = call.dest
    BY <1>2, CallFacts
  <2>2. Done(call.dest, call.dest + call.n)
    BY <1>1, <1>2, <1>3, <2>1 DEF LoopInv
  <2>3. ram = Mandated(call, ram0)
    BY <1>3, <2>2, AllDone
  <2> QED BY <1>1, <1>3, <2>3 DEF MemoryInv, AsMandated
<1>4. CASE call.fn = "memcmp"
  <2>1. /\ ram = ram0 /\ result = 0
        /\ \A k \in 0 .. call.n - 1 : ram0[call.dest + k] = ram0[call.src + k]
    BY <1>1, <1>2, <1>4 DEF LoopInv, Backward
  <2>2. {k \in 0 .. call.n - 1 : ram0[call.dest + k] # ram0[call.src + k]} = {}
    BY <2>1
  <2>3. Compared(call, ram0) = 0
    BY <2>2 DEF Compared
  <2>4. Mandated(call, ram0) = [a \in Cells |-> ram0[a]]
    BY <1>4 DEF Mandated
  <2>5. ram = Mandated(call, ram0)
    BY <2>1, <2>4 DEF MemoryInv
  <2> QED BY ZenonT(30), <1>1, <2>1, <2>3, <2>5 DEF MemoryInv, AsMandated
<1> QED BY <1>3, <1>4

\* The invariant of the loops holds along every call.
THEOREM MemoryInvariance == MemorySpec => []MemoryInv
<1>1. MemoryInv /\ [MemoryNext]_memoryVars => MemoryInv'
  <2> SUFFICES ASSUME MemoryInv, [MemoryNext]_memoryVars PROVE MemoryInv'
    OBVIOUS
  <2>1. CASE UNCHANGED memoryVars
    BY ZenonT(30), <2>1 DEF memoryVars, MemoryInv, LoopInv, Done, AsMandated
  <2> QED BY <2>1, ForwardStep, BackwardStep, SetStep, CompareStep, ReturnStep DEF MemoryNext
<1> QED BY <1>1, MemoryStart, PTL DEF MemorySpec

\* memcpy, memset, memmove and memcmp leave in memory, and return, what the C
\* standard says, for every memory, every length and every overlap it allows:
\* the invariant AsMandated.
THEOREM MemoryCorrect == MemorySpec => []AsMandated
<1>1. MemoryInv => AsMandated
  BY DEF MemoryInv
<1> QED BY <1>1, MemoryInvariance, PTL
=============================================================================
