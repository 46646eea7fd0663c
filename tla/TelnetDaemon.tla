---------------------------- MODULE TelnetDaemon ----------------------------
(***************************************************************************)
(* The daemon thread of TelnetServer (TelnetDaemonFun): it opens the       *)
(* listening socket, waits with epoll, and serves one telnet client at a   *)
(* time; a newcomer takes the place of the client that is there.  The      *)
(* control thread starts and stops it (init, destory).                     *)
(*                                                                         *)
(* epoll reports the sockets that are ready in any order, and between the  *)
(* events of one batch the peers go on.  File descriptors are numbers, and *)
(* a closed one is given out again, lowest first: the events carry numbers, *)
(* so what an event is about may be gone, or another socket, when its turn *)
(* comes.  The kernel is external and modelled as far as the code uses it. *)
(***************************************************************************)
EXTENDS Integers, Sequences, FiniteSets, SequencesExt

CONSTANTS
  Clients,         (* connections, each made at most once                    *)
  None,            (* a file descriptor that is not open                     *)
  Epoll,           (* what the descriptor of an epoll instance refers to     *)
  MIN_TELSVR_PORT, MAX_TELSVR_PORT,
  wPort,           (* the port init was given, 0 for none                    *)
  MaxFd,           (* the process may open the descriptors 1 .. MaxFd        *)
  BACK_LOG_SIZE,   (* connections the kernel completes ahead of accept       *)
  MaxInput,        (* bound on the keys a client has typed ahead             *)
  MaxFails,        (* bound on the calls of accept that fail                 *)
  MaxRuns          (* bound on the calls of init                             *)

INVALID_SOCKET == -1

PortRange == MIN_TELSVR_PORT .. MAX_TELSVR_PORT - 1
Ports     == PortRange \cup ({wPort} \ {0})

Fds   == 1 .. MaxFd
Files == Clients \cup Ports \cup {Epoll}

(* What a key does once it is received: "bye" is the return key after bye, *)
(* "hang" one that hands on a line the parser never finishes: return after *)
(* a line that begins with a blank (isNullStr), or a line of 255           *)
(* characters (RunCmd).                                                    *)
Keys == {"key", "bye", "hang"}

ASSUME TelnetDaemonAssumption ==
  /\ None \notin Files /\ Epoll \notin Clients \cup Ports /\ Clients \cap Ports = {}
  /\ MIN_TELSVR_PORT \in Nat \ {0} /\ MAX_TELSVR_PORT \in Nat /\ wPort \in Nat
  /\ MaxFd \in Nat /\ BACK_LOG_SIZE \in Nat
  /\ MaxInput \in Nat /\ MaxFails \in Nat /\ MaxRuns \in Nat

VARIABLES
  (* members of TelnetServer *)
  isRunning, sockServ, sockClient, portListen,
  (* the daemon thread *)
  pc,
  epfd,        (* its epoll instance                                         *)
  events,      (* what is left of the batch of events                        *)
  (* the control thread *)
  ctl, runs,
  (* the kernel *)
  open,        (* descriptor -> the connection or listening port it refers to *)
  ep,          (* the sockets registered with epoll, each with its data.fd   *)
  queue,       (* listening port -> connections waiting for accept           *)
  fails,       (* failed calls of accept                                     *)
  (* the peers *)
  peer,        (* "away", "there", "gone" (closed or reset), "dropped" by us *)
  inbox,       (* keys typed and not yet received                            *)
  (* history *)
  left         (* descriptors that earlier runs left open                    *)

server == <<isRunning, sockServ, sockClient, portListen>>
ctlVars == <<ctl, runs>>
kernel == <<open, ep, queue, fails>>
peers  == <<peer, inbox>>
vars   == <<server, pc, epfd, events, ctlVars, kernel, peers, left>>

Flags == {"IN", "HUP", "ERR"}
(* The loop sees fd and flags; file is history, the socket that the event  *)
(* was reported for.                                                       *)
Event == [fd : Fds, flags : SUBSET Flags, file : Clients \cup Ports]

TypeOK ==
  /\ isRunning \in BOOLEAN
  /\ sockServ \in Fds \cup {INVALID_SOCKET} /\ sockClient \in Fds \cup {INVALID_SOCKET}
  /\ portListen \in (MIN_TELSVR_PORT .. MAX_TELSVR_PORT - 1) \cup {0, wPort}
  /\ pc \in {"off", "start", "test", "wait", "handle", "stuck", "done"}
  /\ epfd \in Fds \cup {INVALID_SOCKET}
  /\ events \in Seq(Event)
  /\ ctl \in {"off", "up", "join"} /\ runs \in 0 .. MaxRuns
  /\ open \in [Fds -> Files \cup {None}]
  /\ ep \subseteq [file : Clients \cup Ports, fd : Fds]
  /\ queue \in [Ports -> Seq(Clients)]
  /\ fails \in 0 .. MaxFails
  /\ peer \in [Clients -> {"away", "there", "gone", "dropped"}]
  /\ inbox \in [Clients -> Seq(Keys)]
  /\ left \subseteq Fds

-----------------------------------------------------------------------------
(* The kernel *)

FreeFds(o) == {f \in Fds : o[f] = None}
Lowest(S)  == CHOOSE f \in S : \A g \in S : f <= g
OpenFiles  == {open[f] : f \in Fds} \ {None}

(* After a close of descriptor f (which may be INVALID_SOCKET) ...         *)
OpenAfterClose(f) == [g \in Fds |-> IF g = f THEN None ELSE open[g]]
PeerAfterClose(f) ==
  [c \in Clients |-> IF f # INVALID_SOCKET /\ open[f] = c THEN "dropped" ELSE peer[c]]
InboxAfterClose(f) ==
  [c \in Clients |-> IF f # INVALID_SOCKET /\ open[f] = c THEN <<>> ELSE inbox[c]]
(* ... epoll forgets the socket.                                           *)
EpAfterClose(f) == {e \in ep : f = INVALID_SOCKET \/ e.file # open[f]}

IsReady(file) ==
  IF file \in Clients THEN inbox[file] # <<>> \/ peer[file] = "gone" ELSE queue[file] # <<>>

Ready == {e \in ep : IsReady(e.file)}

(* What epoll may report of a ready socket. *)
FlagsOf(file) ==
  IF file \in Clients /\ peer[file] = "gone"
  THEN {{"IN"}, {"HUP"}, {"IN", "HUP", "ERR"}}
  ELSE {{"IN"}}

-----------------------------------------------------------------------------
Init ==
  /\ isRunning = FALSE /\ portListen = 0
  /\ sockServ = INVALID_SOCKET /\ sockClient = INVALID_SOCKET
  /\ pc = "off" /\ epfd = INVALID_SOCKET /\ events = <<>> /\ ctl = "off" /\ runs = 0
  /\ open = [f \in Fds |-> None] /\ ep = {} /\ fails = 0
  /\ queue = [p \in Ports |-> <<>>]
  /\ peer = [c \in Clients |-> "away"] /\ inbox = [c \in Clients |-> <<>>]
  /\ left = {}

-----------------------------------------------------------------------------
(* The control thread *)

Start ==
  /\ ctl = "off" /\ runs < MaxRuns
  /\ isRunning' = TRUE
  /\ ctl' = "up" /\ runs' = runs + 1
  /\ pc' = "start"
  /\ UNCHANGED <<sockServ, sockClient, portListen, epfd, events, kernel, peers, left>>

Destory ==
  /\ ctl = "up"
  /\ isRunning' = FALSE
  /\ ctl' = "join"
  /\ UNCHANGED <<sockServ, sockClient, portListen, pc, epfd, events, runs, kernel, peers, left>>

(* destory forgets the sockets, and the thread its epoll instance: nobody  *)
(* closes them.                                                            *)
Join ==
  /\ ctl = "join" /\ pc = "done"
  /\ ctl' = "off" /\ pc' = "off"
  /\ portListen' = 0
  /\ sockClient' = INVALID_SOCKET /\ sockServ' = INVALID_SOCKET
  /\ epfd' = INVALID_SOCKET /\ left' = Fds \ FreeFds(open)
  /\ UNCHANGED <<isRunning, events, runs, kernel, peers>>

-----------------------------------------------------------------------------
(* The daemon thread before its loop *)

(* epoll_create takes the lowest descriptor, if there is one.              *)
EpollFd     == IF FreeFds(open) = {} THEN INVALID_SOCKET ELSE Lowest(FreeFds(open))
WithEpoll   == [f \in Fds |-> IF f = EpollFd THEN Epoll ELSE open[f]]

(* The ports that can be bound: other processes hold the ports in busy, a  *)
(* socket that an earlier run left open still holds its own, and each try  *)
(* needs a descriptor.                                                     *)
Bindable(busy) == IF FreeFds(WithEpoll) = {} THEN {} ELSE Ports \ (busy \cup OpenFiles)

(* The port asked for, or else the first of the range that can be bound.   *)
FirstOfRange(free) == Lowest(free \cap PortRange)
ChosenPort(free)   == IF wPort \in free THEN wPort ELSE FirstOfRange(free)

Listen(busy) ==
  /\ pc = "start" /\ Bindable(busy) # {}
  /\ epfd' = EpollFd
  /\ LET port == ChosenPort(Bindable(busy))
         fd   == Lowest(FreeFds(WithEpoll))
     IN  /\ open' = [WithEpoll EXCEPT ![fd] = port]
         /\ sockServ' = fd /\ portListen' = port
         /\ ep' = {[file |-> port, fd |-> fd]}
  /\ pc' = "test"
  /\ UNCHANGED <<isRunning, sockClient, events, ctlVars, queue, fails, peers, left>>

(* No port at all: the thread ends and the service stays "running".        *)
ListenFails(busy) ==
  /\ pc = "start" /\ Bindable(busy) = {}
  /\ epfd' = EpollFd /\ open' = WithEpoll
  /\ pc' = "done"
  /\ UNCHANGED <<server, events, ctlVars, ep, queue, fails, peers, left>>

-----------------------------------------------------------------------------
(* The event loop *)

(* while (isRunning_), which is not looked at inside a batch.              *)
Test ==
  /\ pc = "test"
  /\ pc' = IF isRunning THEN "wait" ELSE "done"
  /\ UNCHANGED <<server, epfd, events, ctlVars, kernel, peers, left>>

(* The sockets that are ready, in some order (never more than TELE_FD_NUM, *)
(* see Registered).                                                        *)
EpollWait ==
  /\ pc = "wait" /\ Ready # {}
  /\ \E s \in SetToSeqs(Ready), flags \in [Ready -> SUBSET Flags] :
       /\ \A e \in Ready : flags[e] \in FlagsOf(e.file)
       /\ events' = [i \in 1 .. Len(s) |->
                      [fd |-> s[i].fd, flags |-> flags[s[i]], file |-> s[i].file]]
  /\ pc' = "handle"
  /\ UNCHANGED <<server, epfd, ctlVars, kernel, peers, left>>

EpollTimeout ==
  /\ pc = "wait" /\ Ready = {}
  /\ pc' = "test"
  /\ UNCHANGED <<server, epfd, events, ctlVars, kernel, peers, left>>

EndOfBatch ==
  /\ pc = "handle" /\ events = <<>>
  /\ pc' = "test"
  /\ UNCHANGED <<server, epfd, events, ctlVars, kernel, peers, left>>

(* Which branch of the loop body an event takes; the flags are looked at   *)
(* before the descriptor that recv would read from.                        *)
Ours(e)   == e.fd = sockClient
Broken(e) == "ERR" \in e.flags \/ ("HUP" \in e.flags /\ "IN" \notin e.flags)

AnyoneIsOurs(e) ==
  IF Broken(e) THEN "closed" ELSE IF e.fd = sockServ THEN "accept" ELSE "recv"
Branch(e) ==
  IF Ours(e) /\ Broken(e)                 THEN "closed"
  ELSE IF e.fd = sockServ                 THEN "accept"
  ELSE IF Ours(e) /\ "IN" \in e.flags     THEN "recv"
  ELSE "error"

Handling(branch) ==
  /\ pc = "handle" /\ events # <<>>
  /\ Branch(Head(events)) = branch
  /\ events' = Tail(events)

(* close(sockClient_); setInvalidTelnetClient(); *)
DropClient ==
  /\ open' = OpenAfterClose(sockClient)
  /\ ep' = EpAfterClose(sockClient)
  /\ peer' = PeerAfterClose(sockClient) /\ inbox' = InboxAfterClose(sockClient)
  /\ sockClient' = INVALID_SOCKET
  /\ UNCHANGED <<isRunning, sockServ, portListen, pc, epfd, ctlVars, queue, fails, left>>

(* The connection hung up or is in error. *)
PeerClosed == Handling("closed") /\ DropClient

(* An event of no socket the loop knows: "system error", and the client    *)
(* that is there is closed.                                                *)
SystemError == Handling("error") /\ DropClient

(* Descriptor and table after accept, which runs before the old client is  *)
(* closed.                                                                 *)
CloseFirst   == Lowest(FreeFds(OpenAfterClose(sockClient)))
NewTelHandle == Lowest(FreeFds(open))

(* The old client stays open in the table after accept. *)
KeepsOld(c) == [open EXCEPT ![NewTelHandle] = c]
TableAfterAccept(c) == [OpenAfterClose(sockClient) EXCEPT ![NewTelHandle] = c]

(* What epoll watches after accept: the newcomer, under its own number.    *)
NotAdded(c)      == EpAfterClose(sockClient)
Overwritten(c)   == {[file |-> c, fd |-> NewTelHandle]}
EpAfterAccept(c) == EpAfterClose(sockClient) \cup {[file |-> c, fd |-> NewTelHandle]}

Accept ==
  /\ Handling("accept")
  /\ queue[portListen] # <<>> /\ FreeFds(open) # {}
  /\ LET c == Head(queue[portListen])
     IN  /\ open' = TableAfterAccept(c)
         /\ ep' = EpAfterAccept(c)
         /\ queue' = [queue EXCEPT ![portListen] = Tail(@)]
         /\ peer' = PeerAfterClose(sockClient) /\ inbox' = InboxAfterClose(sockClient)
         /\ sockClient' = NewTelHandle
  /\ UNCHANGED <<isRunning, sockServ, portListen, pc, epfd, ctlVars, fails, left>>

(* accept fails (no descriptor, connection aborted): the client stays.     *)
AcceptFails ==
  /\ Handling("accept")
  /\ \/ FreeFds(open) = {} /\ fails' = fails
     \/ fails < MaxFails /\ fails' = fails + 1
  /\ UNCHANGED <<server, pc, epfd, ctlVars, open, ep, queue, peers, left>>

(* The connection recv reads from: it blocks until there is a key or the   *)
(* peer has gone.                                                          *)
Current == open[sockClient]

Receives(k) ==
  /\ Handling("recv")
  /\ inbox[Current] # <<>> /\ Head(inbox[Current]) = k

RecvKey ==
  /\ Receives("key")
  /\ inbox' = [inbox EXCEPT ![Current] = Tail(@)]
  /\ UNCHANGED <<server, pc, epfd, ctlVars, kernel, peer, left>>

(* The loop of the parser that does not advance: the thread stays in it.   *)
RecvHang ==
  /\ Receives("hang")
  /\ inbox' = [inbox EXCEPT ![Current] = Tail(@)]
  /\ pc' = "stuck"
  /\ UNCHANGED <<server, epfd, ctlVars, kernel, peer, left>>

Spin == pc = "stuck" /\ UNCHANGED vars

(* The return key after bye: RunCmd closes the client. *)
RecvBye == Receives("bye") /\ DropClient

(* recv returns 0, or -1 after a reset, which also discards what was typed. *)
RecvEnd ==
  /\ Handling("recv")
  /\ peer[Current] = "gone"
  /\ DropClient

-----------------------------------------------------------------------------
(* The peers *)

Connect(c, p) ==
  /\ peer[c] = "away"
  /\ p \in OpenFiles /\ Len(queue[p]) < BACK_LOG_SIZE
  /\ peer' = [peer EXCEPT ![c] = "there"]
  /\ queue' = [queue EXCEPT ![p] = Append(@, c)]
  /\ UNCHANGED <<server, pc, epfd, events, ctlVars, open, ep, fails, inbox, left>>

Type(c, k) ==
  /\ peer[c] = "there" /\ Len(inbox[c]) < MaxInput
  /\ inbox' = [inbox EXCEPT ![c] = Append(@, k)]
  /\ UNCHANGED <<server, pc, epfd, events, ctlVars, kernel, peer, left>>

Leave(c) ==
  /\ peer[c] = "there"
  /\ peer' = [peer EXCEPT ![c] = "gone"]
  /\ UNCHANGED <<server, pc, epfd, events, ctlVars, kernel, inbox, left>>

-----------------------------------------------------------------------------
Daemon ==
  \/ \E busy \in SUBSET Ports : Listen(busy) \/ ListenFails(busy)
  \/ Test \/ EpollWait \/ EpollTimeout \/ EndOfBatch
  \/ PeerClosed \/ SystemError \/ Accept \/ AcceptFails
  \/ RecvKey \/ RecvHang \/ Spin \/ RecvBye \/ RecvEnd

Next ==
  \/ Start \/ Destory \/ Join \/ Daemon
  \/ \E c \in Clients : Leave(c) \/ \E k \in Keys : Type(c, k)
  \/ \E c \in Clients, p \in Ports : Connect(c, p)
  \/ ctl = "off" /\ runs = MaxRuns /\ UNCHANGED vars

Spec == Init /\ [][Next]_vars

(* The scheduler lets both threads run, the callbacks and the sends inside *)
(* a handler return, and joined threads are reaped.  Nobody has to stop    *)
(* the service, to connect or to type.                                     *)
FairSpec == Spec /\ WF_vars(Daemon) /\ WF_vars(Join)

-----------------------------------------------------------------------------
Looping == pc \in {"test", "wait", "handle", "stuck"}

(* The descriptors this run opened and still knows of.                     *)
Mine == {epfd, sockServ, sockClient} \ {INVALID_SOCKET}

(* Of the descriptors this run opened, those of the epoll instance, of the *)
(* listening socket and of the current client are the only ones open:      *)
(* taking a client over, bye, a closed peer, a failed accept and a failed  *)
(* start neither leak a descriptor nor leave a member at a closed one,     *)
(* which another socket may get.  destory closes none of the three: what a *)
(* stop leaves open is in left from then on.                               *)
NoLeak ==
  /\ \A f \in Fds : open[f] # None <=> f \in left \cup Mine
  /\ left \cap Mine = {}
  /\ epfd # INVALID_SOCKET => open[epfd] = Epoll
  /\ sockServ # INVALID_SOCKET => open[sockServ] = portListen
  /\ sockClient # INVALID_SOCKET => open[sockClient] \in Clients

(* epoll watches the listening socket and the current client, under the    *)
(* numbers the loop compares with, and nothing else: no client is left     *)
(* unheard, and a batch is never longer than TELE_FD_NUM.                  *)
Registered ==
  Looping =>
    ep = {[file |-> open[f], fd |-> f] : f \in {sockServ, sockClient} \ {INVALID_SOCKET}}

(* recv, which blocks, is only called when there is something to receive:  *)
(* an event whose descriptor number was closed and given out again in the  *)
(* same batch would stop the daemon thread until the new client types.     *)
RecvNeverBlocks ==
  pc = "handle" /\ events # <<>> /\ Branch(Head(events)) = "recv" =>
    inbox[Current] # <<>> \/ peer[Current] = "gone"

(* A client that is still there loses its place only by bye, to a newcomer *)
(* that is accepted in the same step, or to the event of the client whose  *)
(* place it took in this very batch: that event was reported for another   *)
(* client, which was registered when the batch was taken and was closed    *)
(* before the event had its turn.                                          *)
DropsOnlyFor ==
  [][\A c \in Clients :
       peer[c] = "there" /\ peer'[c] = "dropped" =>
         \/ inbox[c] # <<>> /\ Head(inbox[c]) = "bye" /\ Branch(Head(events)) = "recv"
         \/ \E d \in Clients \ {c} : sockClient' # INVALID_SOCKET /\ open'[sockClient'] = d
         \/ /\ Branch(Head(events)) = "error"
            /\ Head(events).file \in Clients \ {c} /\ peer[Head(events).file] = "dropped"]_vars

(* No descriptor is free, and earlier runs hold some: accept cannot take a *)
(* newcomer, which needs one before the old client is closed.              *)
UsedUp == FreeFds(open) = {} /\ left # {}

(* A connection the kernel has completed is accepted, whatever the client  *)
(* that is there does, unless the service stops, that client sends a line  *)
(* that the parser never finishes, or the descriptors that earlier runs    *)
(* left open have used up the table.                                       *)
QueuedIsAccepted ==
  \A c \in Clients, p \in Ports :
    (isRunning /\ pc # "done" /\ p = portListen /\ c \in Range(queue[p]))
      ~> (~ isRunning \/ c \notin Range(queue[p]) \/ pc = "stuck" \/ UsedUp)

(* A client whose peer has gone does not keep the place, so the flag that  *)
(* telPrintf looks at is reset, unless the last line of this same client   *)
(* is one that the parser never finishes.                                  *)
GoneIsNoticed ==
  \A c \in Clients :
    (isRunning /\ peer[c] = "gone" /\ sockClient # INVALID_SOCKET /\ open[sockClient] = c)
      ~> (~ isRunning \/ peer[c] = "dropped" \/ (pc = "stuck" /\ open[sockClient] = c))
=============================================================================
