--------------------------- MODULE MCTelnetSystem ---------------------------
(* TelnetSystem for TLC. *)
EXTENDS TelnetSystem, TLC

CONSTANTS s1, n1

(* What the rest of the program does beyond one message: another message,  *)
(* a socket or a command of its own, one of the three in a behaviour.      *)
(* Nothing that is assumed to happen is cut off by this.                   *)
Extras ==
  {e \in {"message", "socket", "command"} :
    \/ e = "message" /\ accepted > 1
    \/ e = "socket"  /\ \E s \in Strangers : peer[s] # "away"
    \/ e = "command" /\ (table # {} \/ reg # None)}

OneExtra == Cardinality(Extras) <= 1
=============================================================================
