--------------------------- MODULE KernelHistory ---------------------------
(***************************************************************************)
(* The kernel with a history variable that remembers what the task table   *)
(* forgets.  A slot, and so a task id, is used again after its task is     *)
(* reaped, while children of that task keep the id as their parent_id:     *)
(* orphans is the set of those children.                                   *)
(***************************************************************************)
EXTENDS Kernel

VARIABLE orphans

historyVars == <<vars, orphans>>

\* The slots whose task a step reaps.
Reaped == {t \in Slots : state[t] = "DEAD" /\ state'[t] = "UNUSED"}

HistoryInit == Init /\ orphans = {}

HistoryNext ==
    /\ Next
    /\ orphans' = (orphans \cup {t \in Slots : parent_id[t] \in Reaped}) \ Reaped

HistorySpec == HistoryInit /\ [][HistoryNext]_historyVars

\* A child is reaped by the task that forked it: "parent forks several
\* children, children exit, parent reaps them" (the fork-tree test).
ParentReaps == [][Reaped \cap orphans = {}]_historyVars
============================================================================
