--------------------------- MODULE MCTelnetDaemon ---------------------------
(* TelnetDaemon for TLC. *)
EXTENDS TelnetDaemon

CONSTANTS c1, c2
=============================================================================
