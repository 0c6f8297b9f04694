-------------------------- MODULE MCKernelHistory --------------------------
(***************************************************************************)
(* A small instance of the kernel with its history.                        *)
(***************************************************************************)
EXTENDS KernelHistory

\* Programs that only fork, exit and wait for any child.
WaitIds == {ANY}
============================================================================
