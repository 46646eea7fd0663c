------------------------------ MODULE MCRunCmd ------------------------------
(* RunCmd for TLC: names of one letter, repeated. *)
EXTENDS RunCmd

CONSTANT a

MCBye     == <<a>>
MCTelHelp == <<a, a>>
MCTable   == {<<a, a, a>>}
=============================================================================
