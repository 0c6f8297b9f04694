---------------------------- MODULE MCInterrupts ----------------------------
(***************************************************************************)
(* A small machine for TLC: the timer's line and one that is masked.       *)
(***************************************************************************)
EXTENDS Interrupts

TreeIds == {ANY, BootTask}
=============================================================================
