----------------------------- MODULE MCRoutines -----------------------------
(* Routines that share no state, one of which runs in each behaviour: the  *)
(* check of user ranges, the memory functions, and the console.            *)
EXTENDS UAccess, Memory, Kprintf

\* Every format of up to three characters, and two numbers in a row.
Chars == {"z", "\n", "%", "l", "d", "x", "s", "c"}
TestFormats == {Append(f, NUL) : f \in BoundedSeq(Chars, 3)}
                 \cup {<<"%", "l", "d", "%", "x", NUL>>}

TestStrings == {<<>>, <<"z", "\n">>}

\* Around the ends of the ranges and the changes in length, for 8 bits.
TestLongs == {0, 1, 7, 8, 9, 10, 15, 16, 99, 100, 127, 128, 129, 199, 255}

VARIABLE routine

RoutinesInit ==
  \/ routine = "uaccess" /\ UAccessInit /\ MemoryIdle /\ KprintfIdle
  \/ routine = "memory" /\ pt = NoTable /\ MemoryInit /\ KprintfIdle
  \/ routine = "kprintf" /\ pt = NoTable /\ MemoryIdle /\ KprintfInit

RoutinesNext ==
  \/ routine = "uaccess" /\ UAccessNext /\ UNCHANGED <<memoryVars, kprintfVars, routine>>
  \/ MemoryNext /\ UNCHANGED <<pt, kprintfVars, routine>>
  \/ routine = "kprintf" /\ KprintfNext /\ UNCHANGED <<pt, memoryVars, routine>>

RoutinesSpec == RoutinesInit /\ [][RoutinesNext]_<<pt, memoryVars, kprintfVars, routine>>
=============================================================================
