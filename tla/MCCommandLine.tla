---------------------------- MODULE MCCommandLine ---------------------------
(* CommandLine for TLC. *)
EXTENDS CommandLine
=============================================================================
