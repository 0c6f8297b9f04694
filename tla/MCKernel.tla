------------------------------ MODULE MCKernel ------------------------------
(***************************************************************************)
(* Small instances of the kernel for TLC.                                  *)
(***************************************************************************)
EXTENDS Kernel

\* Every id a program can name, one that never exists (0) included.
AllIds == Ids

\* The ids of a tree of tasks that all talk to the boot task.
TreeIds == {ANY, BootTask}
=============================================================================
