------------------------------ MODULE LossyLog ------------------------------
(***************************************************************************)
(* What the log message queue of TelnetServer promises: messages are       *)
(* numbered as they are accepted and leave the queue oldest first, each    *)
(* one exactly once, either delivered to a client or given up.             *)
(***************************************************************************)
EXTENDS Naturals

VARIABLES
  accepted,   (* number of messages accepted so far           *)
  pending,    (* messages accepted and not yet disposed of    *)
  delivered,  (* messages written to a client                 *)
  given       (* messages given up                            *)

vars == <<accepted, pending, delivered, given>>

Init == accepted = 0 /\ pending = {} /\ delivered = {} /\ given = {}

Accept ==
  /\ accepted' = accepted + 1
  /\ pending' = pending \cup {accepted + 1}
  /\ UNCHANGED <<delivered, given>>

(* S is the oldest part of what is pending. *)
Oldest(S) == S \subseteq pending /\ \A m \in S, n \in pending \ S : m < n

Deliver(S) ==
  /\ Oldest(S)
  /\ pending' = pending \ S
  /\ delivered' = delivered \cup S
  /\ UNCHANGED <<accepted, given>>

GiveUp(S) ==
  /\ Oldest(S)
  /\ pending' = pending \ S
  /\ given' = given \cup S
  /\ UNCHANGED <<accepted, delivered>>

Next == Accept \/ \E S \in SUBSET pending : Deliver(S) \/ GiveUp(S)

Spec == Init /\ [][Next]_vars
=============================================================================
