---------------------------- MODULE MCMsgBuffer ----------------------------
(* MsgBuffer for TLC: symmetry for the safety runs. *)
EXTENDS MsgBuffer, TLC

Symmetry == Permutations(Buffer) \cup Permutations(Thread)
=============================================================================
