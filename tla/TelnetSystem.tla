---------------------------- MODULE TelnetSystem ----------------------------
(***************************************************************************)
(* The threads of a program that uses TelnetServer, together: the control  *)
(* thread (regCommand, init, destory), the daemon thread, the log thread,  *)
(* printing threads, and other parts of the program, which open and close  *)
(* sockets of their own (Strangers) in the same descriptor table.          *)
(*                                                                         *)
(* TelnetDaemon, MsgBuffer and SockSend have the details of each part.     *)
(* This module has what the parts do to each other: sockClient_ is written *)
(* by the daemon thread and copied by the log thread without a lock, both  *)
(* threads send to it, the sends block and fail, and cmdFunTable_ belongs  *)
(* to two threads.  A message is sent in Chunks pieces, a reply in one.    *)
(***************************************************************************)
EXTENDS Integers, Sequences, FiniteSets

CONSTANTS
  Clients,     (* connections, numbered in the order in which they come      *)
  Strangers,
  None,
  Names,       (* what can be registered and typed                            *)
  MaxFd,       (* bound on the descriptors                                    *)
  Chunks,      (* pieces of a log message                                     *)
  Room,        (* pieces that wait in a connection until its peer reads      *)
  MaxFails,    (* bound on the tries that fail on a connection that works     *)
  MaxMsgs, MaxTyped, MaxRuns

INVALID_SOCKET == -1
Fds    == 1 .. MaxFd
Files  == Clients \cup Strangers
Sender == {"daemon", "log"}

ASSUME TelnetSystemAssumption ==
  /\ Clients \subseteq Nat /\ Clients \cap Strangers = {} /\ None \notin Files /\ "bye" \notin Names
  /\ MaxFd \in Nat /\ Chunks \in Nat \ {0} /\ Room \in Nat \ {0}
  /\ MaxFails \in Nat /\ MaxMsgs \in Nat /\ MaxTyped \in Nat /\ MaxRuns \in Nat
  /\ None \notin Names

VARIABLES
  isRunning, sockClient,
  table, reg,              (* cmdFunTable_, and what is being put into it    *)
  ctl, runs,               (* the control thread                             *)
  dpc, newTelHandle,       (* the daemon thread                              *)
  by, cmd,                 (* whom it answers, and the command it looks up   *)
  lpc, localSock, total,   (* the log thread                                 *)
  accepted, batch, done,   (* messages: queued, of the present batch, done   *)
  inside,      (* the file a blocked send is waiting in                      *)
  open, queue, peer, cmds,
  unread,      (* pieces a connection holds until its peer reads             *)
  got,         (* the pieces of the log written to a file, in order          *)
  said,        (* how many replies were written to a file                    *)
  fails,       (* how often three tries have failed on a connection that works *)
  failed       (* the messages for which they did                            *)

ctlVars == <<ctl, runs>>
map     == <<table, reg>>
dVars   == <<dpc, newTelHandle, by, cmd>>
lVars   == <<lpc, localSock, total>>
msgs    == <<accepted, batch, done>>
peers   == <<queue, peer, cmds>>
wrote   == <<got, said, fails, failed>>
net     == <<unread, wrote>>
vars    == <<isRunning, sockClient, map, ctlVars, dVars, lVars, msgs, inside, open, peers, net>>

(* A piece of a message: which message, and which of its pieces. *)
Piece == (1 .. MaxMsgs) \X (1 .. Chunks)

TypeOK ==
  /\ isRunning \in BOOLEAN /\ sockClient \in Fds \cup {INVALID_SOCKET}
  /\ table \subseteq Names /\ reg \in Names \cup {None}
  /\ ctl \in {"off", "up", "joinDaemon", "joinLog", "clear", "aborted"} /\ runs \in 0 .. MaxRuns
  /\ dpc \in {"off", "loop", "closeOld", "set", "lookup", "call", "reply", "bye", "close", "unset",
              "hung", "done"}
  /\ newTelHandle \in Fds \cup {INVALID_SOCKET}
  /\ by \in Clients \cup {None} /\ cmd \in Names \cup {None}
  /\ lpc \in {"off", "start", "loop", "copy", "send", "done"}
  /\ localSock \in Fds \cup {INVALID_SOCKET} /\ total \in -1 .. Chunks
  /\ accepted \in 0 .. MaxMsgs /\ batch \in 0 .. accepted /\ done \in 0 .. batch
  /\ inside \in [Sender -> Files \cup {None}]
  /\ open \in [Fds -> Files \cup {None}]
  /\ queue \in Seq(Clients)
  /\ peer \in [Files -> {"away", "there", "gone", "dropped"}]
  /\ cmds \in 0 .. MaxTyped
  /\ unread \in [Files -> 0 .. Room]
  /\ got \in [Files -> Seq(Piece)] /\ said \in [Files -> Nat]
  /\ fails \in 0 .. MaxFails /\ failed \subseteq 1 .. MaxMsgs

Init ==
  /\ isRunning = FALSE /\ sockClient = INVALID_SOCKET /\ table = {} /\ reg = None
  /\ ctl = "off" /\ runs = 0
  /\ dpc = "off" /\ newTelHandle = INVALID_SOCKET /\ by = None /\ cmd = None
  /\ lpc = "off" /\ localSock = INVALID_SOCKET /\ total = 0
  /\ accepted = 0 /\ batch = 0 /\ done = 0
  /\ inside = [s \in Sender |-> None]
  /\ open = [f \in Fds |-> None] /\ queue = <<>>
  /\ peer = [f \in Files |-> "away"] /\ cmds = 0
  /\ unread = [f \in Files |-> 0] /\ got = [f \in Files |-> <<>>]
  /\ said = [f \in Files |-> 0] /\ fails = 0 /\ failed = {}

-----------------------------------------------------------------------------
(* Descriptors and sends *)

Free      == {f \in Fds : open[f] = None}
Lowest(S) == CHOOSE f \in S : \A g \in S : f <= g
FileOf(f) == IF f \in Fds THEN open[f] ELSE None

(* A send that is under way holds on to its file; the next one looks the   *)
(* descriptor up again.                                                    *)
Target(s, f) == IF inside[s] # None THEN inside[s] ELSE FileOf(f)

Broken(file) == file # None => peer[file] = "gone"

(* send writes one piece, fails in its three tries, or blocks.  It may     *)
(* also fail on a connection that works, for want of buffers.              *)
Writes(s, f) ==
  LET file == Target(s, f)
  IN  /\ ~ Broken(file)
      /\ unread[file] < Room
      /\ unread' = [unread EXCEPT ![file] = IF file \in Strangers THEN 0 ELSE @ + 1]
      /\ inside' = [inside EXCEPT ![s] = None]
      /\ UNCHANGED <<fails, failed>>

Fails(s, f) ==
  LET broken == Broken(Target(s, f))
  IN  /\ broken \/ fails < MaxFails
      /\ fails' = IF broken THEN fails ELSE fails + 1
      /\ failed' = IF broken \/ s = "daemon" THEN failed ELSE failed \cup {done + 1}
      /\ inside' = [inside EXCEPT ![s] = None]
      /\ UNCHANGED <<unread, got, said>>

Blocks(s, f) ==
  /\ inside[s] = None /\ ~ Broken(FileOf(f))
  /\ unread[FileOf(f)] = Room
  /\ inside' = [inside EXCEPT ![s] = FileOf(f)]
  /\ UNCHANGED net

(* A peer that left stays so: a send that waits in its file still fails.   *)
Close(f) ==
  /\ open' = [g \in Fds |-> IF g = f THEN None ELSE open[g]]
  /\ peer' = [x \in Files |-> IF x = FileOf(f) /\ peer[x] = "there" THEN "dropped" ELSE peer[x]]

-----------------------------------------------------------------------------
(* The control thread *)

(* regCommand, before init as in main.cc or after it as in the README.     *)
(* While it changes the map there is no lock.                              *)
RegCommand(n) ==
  /\ ctl \in {"off", "up"} /\ reg = None
  /\ reg' = n
  /\ UNCHANGED <<isRunning, sockClient, table, ctlVars, dVars, lVars, msgs, inside, open, peers, net>>

RegReturns ==
  /\ reg # None
  /\ table' = table \cup {reg} /\ reg' = None
  /\ UNCHANGED <<isRunning, sockClient, ctlVars, dVars, lVars, msgs, inside, open, peers, net>>

(* init: the flag, then both threads. *)
Start ==
  /\ ctl = "off" /\ reg = None /\ runs < MaxRuns
  /\ isRunning' = TRUE /\ runs' = runs + 1 /\ ctl' = "up"
  /\ dpc' = "loop" /\ lpc' = "start"
  /\ UNCHANGED <<sockClient, map, newTelHandle, by, cmd, localSock, total, msgs, inside, open, peers, net>>

Destory ==
  /\ ctl = "up" /\ reg = None
  /\ isRunning' = FALSE /\ ctl' = "joinDaemon"
  /\ UNCHANGED <<sockClient, map, runs, dVars, lVars, msgs, inside, open, peers, net>>

(* Thread::join; without it the destructor would detach the thread.        *)
Detached     == TRUE
DaemonJoined == dpc = "done"

JoinDaemon ==
  /\ ctl = "joinDaemon" /\ DaemonJoined
  /\ ctl' = "joinLog"
  /\ dpc' = IF dpc = "done" THEN "off" ELSE dpc
  /\ UNCHANGED <<isRunning, sockClient, map, runs, newTelHandle, by, cmd, lVars, msgs, inside, open, peers, net>>

JoinLog ==
  /\ ctl = "joinLog" /\ lpc = "done"
  /\ ctl' = "clear" /\ lpc' = "off"
  /\ UNCHANGED <<isRunning, sockClient, map, runs, dVars, localSock, total, msgs, inside, open, peers, net>>

(* destory forgets the client and the registered commands; it closes none  *)
(* of the sockets.                                                         *)
Clear ==
  /\ ctl = "clear"
  /\ sockClient' = INVALID_SOCKET /\ table' = {}
  /\ ctl' = "off"
  /\ UNCHANGED <<isRunning, reg, runs, dVars, lVars, msgs, inside, open, peers, net>>

(* A process that ends takes its threads and its sockets with it.          *)
ProcessEnds ==
  /\ ctl' = "aborted" /\ dpc' = "off" /\ lpc' = "off" /\ reg' = None
  /\ sockClient' = INVALID_SOCKET /\ newTelHandle' = INVALID_SOCKET /\ localSock' = INVALID_SOCKET
  /\ by' = None /\ cmd' = None /\ inside' = [s \in Sender |-> None]
  /\ open' = [f \in Fds |-> None] /\ queue' = <<>>
  /\ peer' = [f \in Files |-> IF peer[f] = "there" THEN "dropped" ELSE peer[f]]
  /\ UNCHANGED <<isRunning, table, runs, total, msgs, cmds, net>>

-----------------------------------------------------------------------------
(* The daemon thread *)

DExit ==
  /\ dpc = "loop" /\ ~ isRunning
  /\ dpc' = "done"
  /\ UNCHANGED <<isRunning, sockClient, map, ctlVars, newTelHandle, by, cmd, lVars, msgs, inside, open, peers, net>>

(* accept ... *)
Accept ==
  /\ dpc = "loop" /\ queue # <<>> /\ Free # {}
  /\ newTelHandle' = Lowest(Free)
  /\ open' = [open EXCEPT ![Lowest(Free)] = Head(queue)]
  /\ by' = Head(queue)
  /\ queue' = Tail(queue)
  /\ dpc' = IF sockClient = INVALID_SOCKET THEN "set" ELSE "closeOld"
  /\ UNCHANGED <<isRunning, sockClient, map, ctlVars, cmd, lVars, msgs, inside, peer, cmds, net>>

(* ... close of the client before, while sockClient_ still has its number  *)
Newcomer  == newTelHandle
OldClient == sockClient

CloseOld ==
  /\ dpc = "closeOld"
  /\ Close(OldClient)
  /\ dpc' = "set"
  /\ UNCHANGED <<isRunning, sockClient, map, ctlVars, newTelHandle, by, cmd, lVars, msgs, inside, queue, cmds, net>>

(* ... setTelnetClient, and the welcome.                                   *)
SetClient ==
  /\ dpc = "set"
  /\ sockClient' = newTelHandle /\ newTelHandle' = INVALID_SOCKET
  /\ dpc' = "reply"
  /\ UNCHANGED <<isRunning, map, ctlVars, by, cmd, lVars, msgs, inside, open, peers, net>>

(* The client has typed a line. *)
Types ==
  /\ dpc = "loop" /\ FileOf(sockClient) \in Clients
  /\ peer[FileOf(sockClient)] = "there" /\ cmds < MaxTyped
  /\ cmds' = cmds + 1
  /\ UNCHANGED <<isRunning, sockClient, map, ctlVars, newTelHandle, lVars, msgs, inside, open, queue, peer, net>>

Command(n) ==
  /\ Types
  /\ by' = FileOf(sockClient)
  /\ cmd' = IF n = "bye" THEN None ELSE n
  /\ dpc' = IF n = "bye" THEN "bye" ELSE "lookup"

(* isNullStr on a leading blank, or the scan of 255 characters (see        *)
(* CommandLine and RunCmd): the thread never comes back.                   *)
EndlessLine == Types /\ dpc' = "hung" /\ UNCHANGED <<by, cmd>>

(* FindCommand ... *)
Lookup ==
  /\ dpc = "lookup" /\ reg = None
  /\ dpc' = IF cmd \in table THEN "call" ELSE "reply"
  /\ UNCHANGED <<isRunning, sockClient, map, ctlVars, newTelHandle, by, cmd, lVars, msgs, inside, open, peers, net>>

(* ... which reads the map while regCommand changes it: it finds the name  *)
(* or does not, goes round in the tree for ever, or ends the process.      *)
LookupRaces ==
  /\ dpc = "lookup" /\ reg # None
  /\ \/ /\ dpc' \in {"reply", "hung"} \/ (cmd \in table /\ dpc' = "call")
        /\ UNCHANGED <<isRunning, sockClient, map, ctlVars, newTelHandle, by, cmd, lVars, msgs, inside, open, peers, net>>
     \/ ProcessEnds

(* The callback returns. *)
CallReturns ==
  /\ dpc = "call"
  /\ dpc' = "reply"
  /\ UNCHANGED <<isRunning, sockClient, map, ctlVars, newTelHandle, by, cmd, lVars, msgs, inside, open, peers, net>>

(* pushMsgToTerminalImmidate; bye closes the client after it. *)
Reply ==
  /\ dpc \in {"reply", "bye"}
  /\ \/ /\ \/ /\ Writes("daemon", sockClient)
              /\ said' = [said EXCEPT ![Target("daemon", sockClient)] = @ + 1]
              /\ UNCHANGED got
           \/ Fails("daemon", sockClient)
        /\ dpc' = IF dpc = "bye" THEN "close" ELSE "loop"
        /\ by' = None /\ cmd' = None
     \/ Blocks("daemon", sockClient) /\ UNCHANGED <<dpc, by, cmd>>
  /\ UNCHANGED <<isRunning, sockClient, map, ctlVars, newTelHandle, lVars, msgs, open, peers>>

PeerClosed ==
  /\ dpc = "loop" /\ FileOf(sockClient) \in Clients
  /\ peer[FileOf(sockClient)] = "gone"
  /\ dpc' = "close"
  /\ UNCHANGED <<isRunning, sockClient, map, ctlVars, newTelHandle, by, cmd, lVars, msgs, inside, open, peers, net>>

CloseClient ==
  /\ dpc = "close"
  /\ Close(sockClient)
  /\ dpc' = "unset"
  /\ UNCHANGED <<isRunning, sockClient, map, ctlVars, newTelHandle, by, cmd, lVars, msgs, inside, queue, cmds, net>>

UnsetClient ==
  /\ dpc = "unset"
  /\ sockClient' = INVALID_SOCKET
  /\ dpc' = "loop"
  /\ UNCHANGED <<isRunning, map, ctlVars, newTelHandle, by, cmd, lVars, msgs, inside, open, peers, net>>

-----------------------------------------------------------------------------
(* The printing threads and the log thread *)

TelPrintf ==
  /\ sockClient # INVALID_SOCKET /\ accepted < MaxMsgs
  /\ accepted' = accepted + 1
  /\ UNCHANGED <<isRunning, sockClient, map, ctlVars, dVars, lVars, batch, done, inside, open, peers, net>>

(* LogOutPutFun asserts isRunning_: it was set before the thread was made, *)
(* and destory may have taken it back.                                     *)
LogBegins ==
  /\ lpc = "start" /\ isRunning
  /\ lpc' = "loop"
  /\ UNCHANGED <<isRunning, sockClient, map, ctlVars, dVars, localSock, total, msgs, inside, open, peers, net>>

LogAborts == lpc = "start" /\ ~ isRunning /\ ProcessEnds

(* The flag is looked at once per batch. *)
LogSwap ==
  /\ lpc = "loop" /\ isRunning /\ accepted > done
  /\ batch' = accepted /\ lpc' = "copy"
  /\ UNCHANGED <<isRunning, sockClient, map, ctlVars, dVars, localSock, total, accepted, done, inside, open, peers, net>>

LogExit ==
  /\ lpc = "loop" /\ ~ isRunning
  /\ lpc' = "done"
  /\ UNCHANGED <<isRunning, sockClient, map, ctlVars, dVars, localSock, total, msgs, inside, open, peers, net>>

LastOfBatch == done + 1 = batch

(* sendMsgToTerminal: no client, and the message is gone ...               *)
LogSkip ==
  /\ lpc = "copy" /\ sockClient = INVALID_SOCKET
  /\ done' = done + 1
  /\ lpc' = IF LastOfBatch THEN "loop" ELSE "copy"
  /\ UNCHANGED <<isRunning, sockClient, map, ctlVars, dVars, localSock, total, accepted, batch, inside, open, peers, net>>

(* ... or it goes to a copy of the descriptor.                             *)
LogCopy ==
  /\ lpc = "copy" /\ sockClient # INVALID_SOCKET
  /\ localSock' = sockClient /\ total' = 0 /\ lpc' = "send"
  /\ UNCHANGED <<isRunning, sockClient, map, ctlVars, dVars, msgs, inside, open, peers, net>>

(* pchBuf + nTotalSendLen *)
FirstPiece == <<done + 1, 1>>
NextPiece  == <<done + 1, total + 1>>

(* SockSend: the three tries of a failing send are one step, after which   *)
(* the total goes back by one.                                             *)
SameAgain == total
OneBack   == total - 1

LogSend ==
  /\ lpc = "send" /\ total \in 0 .. Chunks - 1
  /\ \/ /\ Writes("log", localSock)
        /\ got' = [got EXCEPT ![Target("log", localSock)] = Append(@, NextPiece)]
        /\ total' = total + 1
        /\ UNCHANGED said
     \/ Fails("log", localSock) /\ total' = OneBack
     \/ Blocks("log", localSock) /\ total' = total
  /\ UNCHANGED <<isRunning, sockClient, map, ctlVars, dVars, lpc, localSock, msgs, open, peers>>

(* At the end, or below zero, which compares as a large unsigned number.   *)
LogSent ==
  /\ lpc = "send" /\ total \in {-1, Chunks}
  /\ done' = done + 1
  /\ lpc' = IF LastOfBatch THEN "loop" ELSE "copy"
  /\ localSock' = INVALID_SOCKET /\ total' = 0
  /\ UNCHANGED <<isRunning, sockClient, map, ctlVars, dVars, accepted, batch, inside, open, peers, net>>

-----------------------------------------------------------------------------
(* The peers and the rest of the program *)

Connect(c) ==
  /\ dpc # "off" /\ peer[c] = "away" /\ c = Lowest({d \in Clients : peer[d] = "away"})
  /\ peer' = [peer EXCEPT ![c] = "there"]
  /\ queue' = Append(queue, c)
  /\ UNCHANGED <<isRunning, sockClient, map, ctlVars, dVars, lVars, msgs, inside, open, cmds, net>>

(* The peer reads, also what was written before the server closed.         *)
ReadBy(c) ==
  /\ peer[c] \in {"there", "dropped"} /\ unread[c] > 0
  /\ unread' = [unread EXCEPT ![c] = @ - 1]
  /\ UNCHANGED <<isRunning, sockClient, map, ctlVars, dVars, lVars, msgs, inside, open, peers, wrote>>

(* What it did not read goes with it.                                      *)
Leave(c) ==
  /\ peer[c] = "there"
  /\ peer' = [peer EXCEPT ![c] = "gone"] /\ unread' = [unread EXCEPT ![c] = 0]
  /\ UNCHANGED <<isRunning, sockClient, map, ctlVars, dVars, lVars, msgs, inside, open, queue, cmds, wrote>>

OpenOther(s) ==
  /\ ctl # "aborted" /\ peer[s] = "away" /\ Free # {}
  /\ open' = [open EXCEPT ![Lowest(Free)] = s]
  /\ peer' = [peer EXCEPT ![s] = "there"]
  /\ UNCHANGED <<isRunning, sockClient, map, ctlVars, dVars, lVars, msgs, inside, queue, cmds, net>>

CloseOther(s) ==
  /\ \E f \in Fds : open[f] = s /\ Close(f)
  /\ UNCHANGED <<isRunning, sockClient, map, ctlVars, dVars, lVars, msgs, inside, queue, cmds, net>>

-----------------------------------------------------------------------------
Daemon ==
  \/ \E n \in Names \cup {"bye"} : Command(n)
  \/ EndlessLine \/ DExit \/ Accept \/ CloseOld \/ SetClient
  \/ Lookup \/ LookupRaces \/ CallReturns \/ Reply
  \/ PeerClosed \/ CloseClient \/ UnsetClient
Log   == LogBegins \/ LogAborts \/ LogSwap \/ LogExit \/ LogSkip \/ LogCopy \/ LogSend \/ LogSent
Joins == JoinDaemon \/ JoinLog \/ Clear
Ended == (ctl = "off" /\ runs = MaxRuns) \/ ctl = "aborted" \/ dpc = "hung"

Next ==
  \/ (\E n \in Names : RegCommand(n)) \/ RegReturns
  \/ Start \/ Destory \/ Joins \/ Daemon \/ Log \/ TelPrintf
  \/ \E c \in Clients : Connect(c) \/ ReadBy(c) \/ Leave(c)
  \/ \E s \in Strangers : OpenOther(s) \/ CloseOther(s)
  \/ Ended /\ UNCHANGED vars

Spec == Init /\ [][Next]_vars

(* The threads run on, and a peer that is there reads what it is sent.     *)
FairSpec ==
  /\ Spec /\ WF_vars(Daemon) /\ WF_vars(Log) /\ WF_vars(Joins)
  /\ \A c \in Clients : WF_vars(ReadBy(c))

-----------------------------------------------------------------------------
(* The daemon thread answers the client that typed, and welcomes the one   *)
(* it accepted: in the thread that closes it the descriptor is never       *)
(* stale, whatever other sockets the program opens in between.             *)
RepliesGoHome == dpc \in {"lookup", "call", "reply", "bye"} => Target("daemon", sockClient) = by

(* What a connection gets of the log has no gap inside a message and the   *)
(* messages in their order, although clients come and go in the middle of  *)
(* a message and the log thread sends to a descriptor it copied before.    *)
(* Only the first message it gets can lack its beginning.  Where sends     *)
(* succeed nothing is repeated and only the last message can lack its end; *)
(* a message whose tries failed on the connection, which goes back by a    *)
(* piece each time, may repeat pieces or break off for the next message.   *)
Follows(p, q) == \/ q = <<p[1], p[2] + 1>>
                 \/ p[2] = Chunks /\ q[2] = 1 /\ p[1] < q[1]
GoesBack(p, q) == \/ p[1] = q[1] /\ q[2] <= p[2]
                  \/ p[1] < q[1] /\ q[2] = 1
Continues(p, q) == Follows(p, q) \/ (p[1] \in failed /\ GoesBack(p, q))
MessagesWhole ==
  \A f \in Files : \A i \in 1 .. Len(got[f]) - 1 : Continues(got[f][i], got[f][i + 1])

(* While the daemon thread runs a callback, the command stays in the       *)
(* table, at whatever time it was registered and destory was called: the   *)
(* table is cleared only when nothing of it is in use.                     *)
CalledStays == dpc = "call" => cmd \in table

(* After destory no thread of the service writes to a socket any more, be  *)
(* it log or reply.                                                        *)
QuietAfterStop == [][got' # got \/ said' # said => ctl # "off"]_vars

(* destory returns, if the peers read what they are sent: both threads     *)
(* come back from sends that block, that fail and that go astray.  Unless  *)
(* the daemon thread hangs in a line (isNullStr, RunCmd) or in a map that  *)
(* is being changed, or the process is ended by LogOutPutFun's assertion.  *)
StopReturns == ctl = "joinDaemon" ~> ctl \in {"off", "aborted"} \/ dpc = "hung"
=============================================================================
