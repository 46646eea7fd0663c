------------------------------ MODULE SockSend ------------------------------
(***************************************************************************)
(* One call of sendMsgToTerminal: the client is looked up, its socket is   *)
(* copied, and SockSend writes the message in a loop of send calls with    *)
(* three tries each.  A byte is its position in the message.               *)
(*                                                                         *)
(* nTotalSendLen is a signed int that is compared with the unsigned length *)
(* dwLen, so the comparison sees a negative total as a large number.       *)
(***************************************************************************)
EXTENDS Integers, Sequences, Functions

CONSTANTS
  DwLen,     (* length of the message                                       *)
  Word,      (* 2^32 in the code: unsigned arithmetic is modulo this        *)
  MaxFails   (* bound on the send calls that fail while the peer is there   *)

ASSUME SockSendAssumption ==
  /\ DwLen \in Nat /\ Word \in Nat /\ 2 * DwLen < Word
  /\ MaxFails \in Nat

VARIABLES
  client,     (* sockClient_ # INVALID_SOCKET, which the daemon thread may reset *)
  alive,      (* the connection still works                                  *)
  pc,
  nTotalSendLen, nTryNum, ret,
  result,     (* what the call returned                                      *)
  wire,       (* the bytes that went out, in order                           *)
  fails,      (* failed sends while alive                                    *)
  row,        (* failed sends since the last one that succeeded, up to RowCap *)
  gaveUp      (* three tries in a row have failed                            *)

(* Where the count of failures in a row stops: one above RowBounded.       *)
RowCap == 3 * DwLen + 1

env  == <<client, alive>>
hist == <<wire, fails, row, gaveUp>>
sendVars == <<env, pc, nTotalSendLen, nTryNum, ret, result, hist>>

SendTypeOK ==
  /\ client \in BOOLEAN /\ alive \in BOOLEAN
  /\ pc \in {"check", "copy", "test", "send", "add", "returned"}
  /\ nTotalSendLen \in -1 .. DwLen
  /\ nTryNum \in 0 .. 3
  /\ ret \in -1 .. DwLen
  /\ result \in BOOLEAN
  /\ wire \in Seq(Nat)
  /\ fails \in 0 .. MaxFails /\ row \in 0 .. RowCap /\ gaveUp \in BOOLEAN

(* An int as the comparison with an unsigned sees it. *)
AsSigned(n)   == n
AsUnsigned(n) == IF n < 0 THEN n + Word ELSE n

(* nTotalSendLen += ret, where ret may be SOCKET_ERROR. *)
KeptOnError(n, r)    == IF r = -1 THEN n ELSE n + r
CountsError(n, r)    == IF r = -1 THEN n + 1 ELSE n + r
OneAtATime(n, r)     == IF r = -1 THEN n - 1 ELSE n + 1
Advance(n, r)        == n + r

SendInit ==
  /\ client \in BOOLEAN /\ alive = TRUE
  /\ pc = "check" /\ result = TRUE
  /\ nTotalSendLen = 0 /\ nTryNum = 0 /\ ret = -1
  /\ wire = <<>> /\ fails = 0 /\ row = 0 /\ gaveUp = FALSE

(* isHaveTelnetClient: without a client there is nothing to do. *)
Check ==
  /\ pc = "check"
  /\ pc' = IF client THEN "copy" ELSE "returned"
  /\ UNCHANGED <<env, nTotalSendLen, nTryNum, ret, result, hist>>

(* sockClient_ is read a second time, and may be invalid by now. *)
CopySock ==
  /\ pc = "copy"
  /\ pc' = IF client THEN "test" ELSE "returned"
  /\ result' = client
  /\ UNCHANGED <<env, nTotalSendLen, nTryNum, ret, hist>>

(* while (nTotalSendLen < dwLen) *)
Test ==
  /\ pc = "test"
  /\ pc' = IF AsUnsigned(nTotalSendLen) < DwLen THEN "send" ELSE "returned"
  /\ nTryNum' = 0
  /\ UNCHANGED <<env, nTotalSendLen, ret, result, hist>>

(* The k bytes that follow the first n. *)
Bytes(n, k) == [i \in 1 .. k |-> n + i]

(* send takes the first k bytes of what is left. *)
SendOk(k) ==
  /\ pc = "send" /\ alive
  /\ ret' = k
  /\ wire' = wire \o Bytes(nTotalSendLen, k)
  /\ row' = 0
  /\ pc' = "add"
  /\ UNCHANGED <<env, nTotalSendLen, nTryNum, result, fails, gaveUp>>

(* send fails; after three tries the for loop ends. *)
SendFails ==
  /\ pc = "send"
  /\ ~ alive \/ fails < MaxFails
  /\ ret' = -1
  /\ fails' = IF alive THEN fails + 1 ELSE fails
  /\ row' = IF row < RowCap THEN row + 1 ELSE row
  /\ nTryNum' = nTryNum + 1
  /\ pc' = IF nTryNum' < 3 THEN "send" ELSE "add"
  /\ gaveUp' = (gaveUp \/ nTryNum' = 3)
  /\ UNCHANGED <<env, nTotalSendLen, result, wire>>

AddRet ==
  /\ pc = "add"
  /\ nTotalSendLen' = Advance(nTotalSendLen, ret)
  /\ pc' = "test"
  /\ UNCHANGED <<env, nTryNum, ret, result, hist>>

ClientGoes ==
  /\ client /\ client' = FALSE
  /\ UNCHANGED <<alive, pc, nTotalSendLen, nTryNum, ret, result, hist>>

PeerDies ==
  /\ alive /\ alive' = FALSE
  /\ UNCHANGED <<client, pc, nTotalSendLen, nTryNum, ret, result, hist>>

Step == Check \/ CopySock \/ Test \/ AddRet \/ \E k \in 1 .. DwLen - nTotalSendLen : SendOk(k)

SendNext == Step \/ SendFails \/ ClientGoes \/ PeerDies \/ (pc = "returned" /\ UNCHANGED sendVars)

SendSpec == SendInit /\ [][SendNext]_sendVars

(* The calling thread runs on, and a send on a dead connection fails.      *)
FairSendSpec == SendSpec /\ WF_sendVars(Step) /\ WF_sendVars(~ alive /\ SendFails)

-----------------------------------------------------------------------------
(* send is only ever asked for bytes of the message, although the total    *)
(* goes down by one whenever three tries have failed.                      *)
InMessage == pc = "send" => nTotalSendLen \in 0 .. DwLen - 1

(* No byte is left out on the way: what has gone out is always the         *)
(* beginning of the message, whatever was repeated.                        *)
NothingSkipped == \E k \in 0 .. DwLen : Range(wire) = 1 .. k

(* Unless three tries in a row have failed, the bytes went out once each   *)
(* and in order, and a call that comes back from the loop has sent all.    *)
ExactUnlessGaveUp ==
  ~ gaveUp =>
    /\ \A i \in 1 .. Len(wire) : wire[i] = i
    /\ pc = "returned" /\ result /\ wire # <<>> => Len(wire) = DwLen

(* A dead connection costs at most three failing calls per byte already    *)
(* sent, the byte at hand included.                                        *)
RowBounded == row <= 3 * DwLen

(* On a dead connection the call comes back.                               *)
DeadPeerReturns == ~ alive ~> pc = "returned"
=============================================================================
