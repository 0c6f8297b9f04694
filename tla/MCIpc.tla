------------------------------- MODULE MCIpc -------------------------------
(***************************************************************************)
(* Three tasks that pass short messages, for TLC.                          *)
(***************************************************************************)
EXTENDS Ipc, TLC

TalkIds == {ANY, BootTask}

ByteSymmetry == Permutations(Bytes)
=============================================================================
