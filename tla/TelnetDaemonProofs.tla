------------------------- MODULE TelnetDaemonProofs -------------------------
(***************************************************************************)
(* Proofs about TelnetDaemon, for any number of connections, ports,        *)
(* descriptors and runs.                                                   *)
(*                                                                         *)
(* The properties speak of descriptor numbers, which are given out again,  *)
(* so the inductive invariant says where a connection can be (Placed: a    *)
(* connection that waits for accept is nowhere else) and what the events   *)
(* of a batch can still be about (BatchOK): the listening socket, the      *)
(* client, or a client that was closed since the batch was taken.          *)
(***************************************************************************)
EXTENDS TelnetDaemon, TLAPS, FiniteSetTheorems, WellFoundedInduction

(* Outside the loop the members are reset: what is open was left.          *)
Idle ==
  /\ ctl = "off" => pc = "off"
  /\ pc \in {"off", "start"} =>
       sockServ = INVALID_SOCKET /\ sockClient = INVALID_SOCKET /\ epfd = INVALID_SOCKET
  /\ Looping => sockServ \in Fds /\ portListen \in Ports /\ epfd \in Fds

(* A connection that waits for accept waits once, and no descriptor refers *)
(* to it; one that was not made yet does not even wait.                    *)
Placed ==
  /\ \A p \in Ports : \A i \in 1 .. Len(queue[p]) :
       /\ queue[p][i] \notin OpenFiles
       /\ peer[queue[p][i]] # "away"
       /\ \A q \in Ports : \A j \in 1 .. Len(queue[q]) :
            queue[p][i] = queue[q][j] => p = q /\ i = j
  /\ \A c \in Clients : peer[c] = "away" => c \notin OpenFiles

BatchOK ==
  /\ pc \notin {"handle", "stuck"} => events = <<>>
  /\ \A i, j \in 1 .. Len(events) :
       /\ events[i].fd = events[j].fd => i = j
       /\ events[i].fd = sockServ /\ i # j => events[j].fd = sockClient
  /\ \A i \in 1 .. Len(events) :
       /\ events[i].fd = sockClient =>
            /\ events[i].file = Current
            /\ inbox[Current] # <<>> \/ peer[Current] = "gone"
            /\ Broken(events[i]) => peer[Current] = "gone"
            /\ Broken(events[i]) \/ "IN" \in events[i].flags
       /\ events[i].fd \notin {sockServ, sockClient} =>
            events[i].file \in Clients /\ peer[events[i].file] = "dropped"

IInv == TypeOK /\ Idle /\ NoLeak /\ Registered /\ Placed /\ BatchOK

-----------------------------------------------------------------------------
(* The lowest of a set of descriptors is one of them. *)
LEMMA LowestIn ==
  ASSUME NEW S \in SUBSET Nat, S # {}
  PROVE  Lowest(S) \in S /\ \A g \in S : Lowest(S) <= g
<1>1. PICK f \in S : \A g \in S : ~ (<<g, f>> \in OpToRel(<, Nat))
  BY NatLessThanWellFounded, WFMin
<1>2. ASSUME NEW g \in S PROVE f <= g
  <2>1. <<g, f>> \notin {ss \in Nat \X Nat : ss[1] < ss[2]}
    BY <1>1 DEF OpToRel
  <2>2. <<g, f>> \in Nat \X Nat /\ <<g, f>>[1] = g /\ <<g, f>>[2] = f
    OBVIOUS
  <2>3. ~ (g < f)
    BY <2>1, <2>2
  <2> QED
    BY <2>3
<1> QED
  BY <1>2 DEF Lowest

LEMMA Constants ==
  /\ None \notin Clients \cup Ports /\ Clients \cap Ports = {} /\ None # Epoll
  /\ Epoll \notin Clients \cup Ports /\ Files = Clients \cup Ports \cup {Epoll}
  /\ INVALID_SOCKET \notin Fds /\ Fds \subseteq Nat
  /\ PortRange \subseteq Ports /\ Ports \subseteq PortRange \cup {wPort}
  /\ \A p \in Ports : p \in Nat
BY TelnetDaemonAssumption DEF Files, Ports, PortRange, Fds, INVALID_SOCKET

(* What is open, and what accept would be given. *)
LEMMA FreeFd ==
  ASSUME TypeOK, FreeFds(open) # {}
  PROVE  LET n == Lowest(FreeFds(open)) IN n \in Fds /\ open[n] = None
<1>1. FreeFds(open) \subseteq Fds /\ FreeFds(open) \in SUBSET Nat
  BY Constants DEF FreeFds
<1>2. Lowest(FreeFds(open)) \in FreeFds(open)
  BY <1>1, LowestIn
<1> QED
  BY <1>2 DEF FreeFds

(* The sockets of the loop: two different descriptors, one file each.      *)
LEMMA Sockets ==
  ASSUME IInv, Looping
  PROVE  /\ sockServ \in Fds /\ portListen \in Ports /\ open[sockServ] = portListen
         /\ sockServ # INVALID_SOCKET /\ sockClient # sockServ
         /\ epfd \in Fds /\ open[epfd] = Epoll /\ epfd # INVALID_SOCKET
         /\ epfd # sockServ /\ epfd # sockClient
         /\ sockClient # INVALID_SOCKET =>
              /\ sockClient \in Fds /\ Current \in Clients
              /\ Current # None /\ Current # portListen /\ Current \in OpenFiles
              /\ ep = {[file |-> portListen, fd |-> sockServ],
                       [file |-> Current, fd |-> sockClient]}
         /\ sockClient = INVALID_SOCKET => ep = {[file |-> portListen, fd |-> sockServ]}
<1>0. sockServ \in Fds /\ portListen \in Ports /\ epfd \in Fds
  BY DEF IInv, Idle
<1>2. sockServ # INVALID_SOCKET /\ epfd # INVALID_SOCKET
  BY <1>0, Constants
<1>1. /\ sockServ \in Fds /\ portListen \in Ports /\ open[sockServ] = portListen
      /\ epfd \in Fds /\ open[epfd] = Epoll
  BY <1>0, <1>2 DEF IInv, NoLeak
<1>3. ASSUME sockClient # INVALID_SOCKET
      PROVE  /\ sockClient \in Fds /\ Current \in Clients
             /\ Current # None /\ Current # portListen /\ Current \in OpenFiles
  BY <1>1, <1>3, Constants DEF IInv, TypeOK, NoLeak, Current, OpenFiles
<1>4. sockClient # sockServ /\ epfd # sockServ /\ epfd # sockClient
  BY <1>1, <1>2, <1>3, Constants DEF Current
<1>5. ep = {[file |-> open[f], fd |-> f] : f \in {sockServ, sockClient} \ {INVALID_SOCKET}}
  BY DEF IInv, Registered
<1>6. CASE sockClient = INVALID_SOCKET
  <2>1. {sockServ, sockClient} \ {INVALID_SOCKET} = {sockServ}
    BY <1>2, <1>6
  <2>2. ep = {[file |-> portListen, fd |-> sockServ]}
    BY <1>1, <1>5, <2>1
  <2> QED
    BY <1>1, <1>2, <1>4, <1>6, <2>2
<1>7. CASE sockClient # INVALID_SOCKET
  <2>1. {sockServ, sockClient} \ {INVALID_SOCKET} = {sockServ, sockClient}
    BY <1>2, <1>7
  <2>2. ep = {[file |-> portListen, fd |-> sockServ], [file |-> Current, fd |-> sockClient]}
    BY <1>1, <1>5, <2>1 DEF Current
  <2> QED
    BY <1>1, <1>2, <1>3, <1>4, <1>7, <2>2
<1> QED
  BY <1>6, <1>7

(* What a close of the client leaves.                                      *)
LEMMA AfterClose ==
  ASSUME IInv, Looping
  PROVE  LET o == OpenAfterClose(sockClient)
             P == PeerAfterClose(sockClient)
             B == InboxAfterClose(sockClient)
         IN  /\ o \in [Fds -> Files \cup {None}]
             /\ o[sockServ] = portListen /\ o[epfd] = Epoll
             /\ \A g \in Fds : o[g] # None <=> g \in left \cup ({epfd, sockServ} \ {INVALID_SOCKET})
             /\ \A g \in Fds : o[g] = open[g] \/ (g = sockClient /\ o[g] = None)
             /\ P \in [Clients -> {"away", "there", "gone", "dropped"}]
             /\ \A c \in Clients : P[c] = peer[c] \/ P[c] = "dropped"
             /\ \A c \in Clients : P[c] # peer[c] => sockClient # INVALID_SOCKET /\ c = Current
             /\ sockClient # INVALID_SOCKET => P[Current] = "dropped"
             /\ B \in [Clients -> Seq(Keys)]
             /\ EpAfterClose(sockClient) = {[file |-> portListen, fd |-> sockServ]}
<1> DEFINE o == OpenAfterClose(sockClient)
           P == PeerAfterClose(sockClient)
           B == InboxAfterClose(sockClient)
<1>1. o \in [Fds -> Files \cup {None}]
  BY DEF IInv, TypeOK, OpenAfterClose
<1>2. /\ \A g \in Fds : o[g] = open[g] \/ (g = sockClient /\ o[g] = None)
      /\ \A g \in Fds : g = sockClient => o[g] = None
  BY DEF OpenAfterClose
<1>3. o[sockServ] = portListen /\ o[epfd] = Epoll
  BY Sockets DEF OpenAfterClose
<1>4. ASSUME NEW g \in Fds
      PROVE  o[g] # None <=> g \in left \cup ({epfd, sockServ} \ {INVALID_SOCKET})
  <2>1. open[g] # None <=> g \in left \cup Mine
    BY <1>4 DEF IInv, NoLeak
  <2>2. left \cap Mine = {} /\ sockClient # sockServ /\ sockClient # epfd /\ g # INVALID_SOCKET
    BY Sockets, Constants DEF IInv, NoLeak
  <2>3. o[g] # None <=> open[g] # None /\ g # sockClient
    BY <1>2
  <2> QED
    BY <2>1, <2>2, <2>3 DEF Mine
<1>5. /\ P \in [Clients -> {"away", "there", "gone", "dropped"}]
      /\ \A c \in Clients : P[c] = peer[c] \/ P[c] = "dropped"
      /\ \A c \in Clients : P[c] # peer[c] => sockClient # INVALID_SOCKET /\ c = Current
      /\ sockClient # INVALID_SOCKET => P[Current] = "dropped"
  BY Sockets DEF IInv, TypeOK, PeerAfterClose, Current
<1>6. B \in [Clients -> Seq(Keys)]
  BY DEF IInv, TypeOK, InboxAfterClose
<1>7. EpAfterClose(sockClient) = {[file |-> portListen, fd |-> sockServ]}
  <2>1. CASE sockClient = INVALID_SOCKET
    BY <2>1, Sockets DEF EpAfterClose
  <2>2. CASE sockClient # INVALID_SOCKET
    BY <2>2, Sockets DEF EpAfterClose, Current
  <2> QED
    BY <2>1, <2>2
<1> HIDE DEF o, P, B
<1> QED
  BY <1>1, <1>2, <1>3, <1>4, <1>5, <1>6, <1>7 DEF o, P, B

(* The head of a batch, and what is left of it.                            *)
LEMMA TailOfBatch ==
  ASSUME TypeOK, events # <<>>
  PROVE  /\ Len(events) \in Nat \ {0} /\ 1 \in 1 .. Len(events)
         /\ Head(events) = events[1] /\ Head(events) \in Event
         /\ Tail(events) \in Seq(Event) /\ Len(Tail(events)) = Len(events) - 1
         /\ \A i \in 1 .. Len(Tail(events)) :
              Tail(events)[i] = events[i + 1] /\ i + 1 \in 1 .. Len(events) /\ i + 1 # 1
<1>1. events \in Seq(Event)
  BY DEF TypeOK
<1> HIDE DEF Event
<1> QED
  BY <1>1

-----------------------------------------------------------------------------
(* The branches that close the client.                                     *)

LEMMA ClosingBranches ==
  ASSUME IInv, pc = "handle", events # <<>>, Branch(Head(events)) # "accept"
  PROVE  /\ Head(events).fd # sockServ
         /\ Branch(Head(events)) = "recv" => Head(events).fd = sockClient
         /\ Head(events).fd = sockClient =>
              sockClient # INVALID_SOCKET /\ Branch(Head(events)) \in {"closed", "recv"}
<1>1. Looping
  BY DEF Looping
<1>2. sockClient # sockServ
  BY <1>1, Sockets
<1>3. events[1] = Head(events) /\ 1 \in 1 .. Len(events) /\ Head(events) \in Event
  BY TailOfBatch DEF IInv
<1>4. Head(events).fd = sockClient => Broken(Head(events)) \/ "IN" \in Head(events).flags
  BY <1>3 DEF IInv, BatchOK
<1>5. Head(events).fd \in Fds
  BY <1>3 DEF Event
<1> QED
  BY <1>2, <1>4, <1>5, Constants DEF Branch, Ours

LEMMA DropClientInv ==
  ASSUME IInv, pc = "handle", events # <<>>, Branch(Head(events)) # "accept",
         events' = Tail(events), DropClient
  PROVE  IInv'
<1> DEFINE o == OpenAfterClose(sockClient)
           P == PeerAfterClose(sockClient)
           B == InboxAfterClose(sockClient)
<1>0. Looping /\ Looping' /\ pc' = "handle"
  BY DEF Looping, DropClient
<1>1. /\ open' = o /\ peer' = P /\ inbox' = B
      /\ ep' = {[file |-> portListen, fd |-> sockServ]}
      /\ sockClient' = INVALID_SOCKET
      /\ UNCHANGED <<isRunning, sockServ, portListen, pc, epfd, ctl, runs, queue, fails, left>>
  BY <1>0, AfterClose DEF DropClient, ctlVars
<1>2. /\ o \in [Fds -> Files \cup {None}]
      /\ o[sockServ] = portListen /\ o[epfd] = Epoll
      /\ \A g \in Fds : o[g] # None <=> g \in left \cup ({epfd, sockServ} \ {INVALID_SOCKET})
      /\ \A g \in Fds : o[g] = open[g] \/ o[g] = None
      /\ P \in [Clients -> {"away", "there", "gone", "dropped"}]
      /\ \A c \in Clients : P[c] = peer[c] \/ P[c] = "dropped"
      /\ sockClient # INVALID_SOCKET => P[Current] = "dropped"
      /\ B \in [Clients -> Seq(Keys)]
  BY <1>0, AfterClose
<1>3. /\ sockServ \in Fds /\ portListen \in Ports /\ sockServ # INVALID_SOCKET
      /\ sockClient # INVALID_SOCKET => Current \in Clients
  BY <1>0, Sockets
<1>4. /\ Len(events) \in Nat \ {0} /\ 1 \in 1 .. Len(events) /\ Head(events) = events[1]
      /\ events' \in Seq(Event) /\ Len(events') = Len(events) - 1
      /\ \A i \in 1 .. Len(events') :
           events'[i] = events[i + 1] /\ i + 1 \in 1 .. Len(events) /\ i + 1 # 1
  BY TailOfBatch DEF IInv
<1> HIDE DEF o, P, B
<1>5. TypeOK'
  <2>1. ep' \subseteq [file : Clients \cup Ports, fd : Fds]
    BY <1>1, <1>3
  <2> QED
    BY <1>1, <1>2, <1>4, <2>1 DEF IInv, TypeOK
<1>6. Idle'
  BY <1>0, <1>1 DEF IInv, Idle
<1>7. NoLeak'
  <2>1. Mine' = {epfd, sockServ} \ {INVALID_SOCKET} /\ Mine' \subseteq Mine
    BY <1>1 DEF Mine
  <2>2. left \cap Mine = {}
    BY DEF IInv, NoLeak
  <2> QED
    BY <1>1, <1>2, <2>1, <2>2 DEF NoLeak
<1>8. Registered'
  <2>1. {sockServ', sockClient'} \ {INVALID_SOCKET} = {sockServ}
    BY <1>1, <1>3
  <2>2. {[file |-> open'[f], fd |-> f] : f \in {sockServ}} = {[file |-> portListen, fd |-> sockServ]}
    BY <1>1, <1>2
  <2> QED
    BY <1>1, <2>1, <2>2 DEF Registered
<1>9. Placed'
  <2>1. OpenFiles' \subseteq OpenFiles
    BY <1>1, <1>2 DEF OpenFiles
  <2>2. \A c \in Clients : peer'[c] = "away" <=> peer[c] = "away" /\ P[c] # "dropped"
    BY <1>1, <1>2
  <2>3. \A p \in Ports : \A i \in 1 .. Len(queue[p]) : queue[p][i] \in Clients
    BY DEF IInv, TypeOK
  <2>4. \A p \in Ports : \A i \in 1 .. Len(queue[p]) :
           queue[p][i] \notin OpenFiles' /\ peer'[queue[p][i]] # "away"
    BY <2>1, <2>2, <2>3 DEF IInv, Placed
  <2>5. \A c \in Clients : peer'[c] = "away" => c \notin OpenFiles'
    BY <2>1, <2>2 DEF IInv, Placed
  <2>6. \A p, q \in Ports : \A i \in 1 .. Len(queue[p]) : \A j \in 1 .. Len(queue[q]) :
           queue[p][i] = queue[q][j] => p = q /\ i = j
    BY DEF IInv, Placed
  <2> QED
    BY <1>1, <2>4, <2>5, <2>6 DEF Placed
<1>10. BatchOK'
  <2>1. Head(events).fd # sockServ
    BY ClosingBranches
  <2>2. ASSUME NEW i \in 1 .. Len(events'), NEW j \in 1 .. Len(events')
        PROVE  /\ events'[i].fd = events'[j].fd => i = j
               /\ ~ (events'[i].fd = sockServ /\ i # j)
    <3>1. events[i + 1].fd = events[j + 1].fd => i + 1 = j + 1
      BY <1>4 DEF IInv, BatchOK
    <3>2. events[i + 1].fd = sockServ => events[1].fd = sockClient
      BY <1>4 DEF IInv, BatchOK
    <3>3. events[i + 1].fd = sockServ /\ i + 1 # j + 1 => events[j + 1].fd = sockClient
      BY <1>4 DEF IInv, BatchOK
    <3>4. events[1].fd # events[j + 1].fd
      BY <1>4 DEF IInv, BatchOK
    <3> QED
      BY <1>4, <3>1, <3>2, <3>3, <3>4
  <2>3. ASSUME NEW i \in 1 .. Len(events')
        PROVE  /\ events'[i].fd # INVALID_SOCKET
               /\ events'[i].fd # sockServ =>
                    events'[i].file \in Clients /\ peer'[events'[i].file] = "dropped"
    <3>a. events'[i] = events[i + 1] /\ i + 1 \in 1 .. Len(events)
      BY <1>4
    <3>b. events'[i] \in Event
      BY <1>4
    <3>1. events'[i].fd \in Fds /\ events'[i] = events[i + 1] /\ i + 1 \in 1 .. Len(events)
      BY <3>a, <3>b DEF Event
    <3>2. events'[i].fd # INVALID_SOCKET
      BY <3>1, Constants
    <3>3. CASE events'[i].fd = sockClient
      <4>1. events'[i].file = Current
        BY <3>1, <3>3 DEF IInv, BatchOK
      <4> QED
        BY <1>1, <1>2, <1>3, <3>2, <3>3, <4>1
    <3>4. CASE events'[i].fd \notin {sockServ, sockClient}
      <4>1. events'[i].file \in Clients /\ peer[events'[i].file] = "dropped"
        BY <3>1, <3>4 DEF IInv, BatchOK
      <4> QED
        BY <1>1, <1>2, <3>2, <4>1
    <3> QED
      BY <3>2, <3>3, <3>4
  <2> QED
    BY <1>0, <1>1, <2>2, <2>3 DEF BatchOK
<1> QED
  BY <1>5, <1>6, <1>7, <1>8, <1>9, <1>10 DEF IInv

-----------------------------------------------------------------------------
LEMMA InitInv == Init => IInv
<1> SUFFICES ASSUME Init PROVE IInv
  OBVIOUS
<1>1. OpenFiles = {}
  BY DEF Init, OpenFiles
<1>2. TypeOK
  <2>1. open \in [Fds -> Files \cup {None}] /\ ep = {} /\ left = {}
    BY DEF Init
  <2>2. queue \in [Ports -> Seq(Clients)] /\ inbox \in [Clients -> Seq(Keys)]
    BY DEF Init
  <2>3. events \in Seq(Event)
    BY DEF Init
  <2>4. runs \in 0 .. MaxRuns /\ fails \in 0 .. MaxFails
    BY TelnetDaemonAssumption DEF Init
  <2>5. peer \in [Clients -> {"away", "there", "gone", "dropped"}]
    BY DEF Init
  <2> QED
    BY <2>1, <2>2, <2>3, <2>4, <2>5 DEF Init, TypeOK
<1>3. Idle /\ NoLeak /\ Registered
  <2>1. Mine = {} /\ left = {}
    BY DEF Init, Mine
  <2> QED
    BY <2>1 DEF Init, Idle, NoLeak, Registered, Looping
<1>4. Placed
  BY <1>1 DEF Init, Placed
<1>5. BatchOK
  BY DEF Init, BatchOK
<1> QED
  BY <1>2, <1>3, <1>4, <1>5 DEF IInv

(* Steps that only move a program counter.                                 *)
LEMMA QuietInv ==
  ASSUME IInv, TypeOK', Idle', Looping' => Looping,
         UNCHANGED <<sockServ, sockClient, portListen, epfd, open, ep, queue, peer, inbox, left>>,
         events' = <<>> \/ (events' = events /\ pc' = pc)
  PROVE  IInv'
<1>1. NoLeak' /\ Registered'
  BY DEF IInv, NoLeak, Mine, Registered
<1>2. Placed'
  BY DEF IInv, Placed, OpenFiles
<1>3. BatchOK'
  <2>1. CASE events' = <<>>
    BY <2>1 DEF BatchOK
  <2>2. CASE events' = events /\ pc' = pc
    BY <2>2 DEF IInv, BatchOK, Current, Broken
  <2> QED
    BY <2>1, <2>2
<1> QED
  BY <1>1, <1>2, <1>3 DEF IInv

LEMMA StartInv == ASSUME IInv, Start PROVE IInv'
<1>1. pc = "off" /\ events = <<>>
  BY DEF IInv, Idle, BatchOK, Start
<1>2. runs \in 0 .. MaxRuns /\ runs < MaxRuns /\ MaxRuns \in Nat
  BY TelnetDaemonAssumption DEF IInv, TypeOK, Start
<1>3. runs' \in 0 .. MaxRuns
  BY <1>2 DEF Start
<1>4. TypeOK'
  BY <1>3 DEF IInv, TypeOK, Start, kernel, peers
<1>5. Idle'
  BY <1>1 DEF IInv, Idle, Start, Looping, OpenFiles, kernel
<1> QED
  BY <1>1, <1>4, <1>5, QuietInv DEF Start, Looping, kernel, peers

LEMMA DestoryInv == ASSUME IInv, Destory PROVE IInv'
<1>1. TypeOK'
  BY DEF IInv, TypeOK, Destory, kernel, peers
<1>2. Idle'
  BY DEF IInv, Idle, Destory, Looping, OpenFiles, kernel
<1> QED
  BY <1>1, <1>2, QuietInv DEF Destory, Looping, kernel, peers

(* Test, the time-out and the end of a batch.                              *)
LEMMA MoveInv ==
  ASSUME IInv, pc \in {"test", "wait", "handle"}, events = <<>>, pc' \in {"test", "wait", "done"},
         UNCHANGED <<server, epfd, events, ctlVars, kernel, peers, left>>
  PROVE  IInv'
<1>1. TypeOK'
  BY DEF IInv, TypeOK, server, ctlVars, kernel, peers
<1>2. Idle'
  BY DEF IInv, Idle, server, ctlVars, Looping, OpenFiles, kernel
<1> QED
  BY <1>1, <1>2, QuietInv DEF Looping, server, kernel, peers

LEMMA JoinInv == ASSUME IInv, Join PROVE IInv'
<1>1. events = <<>> /\ ~ Looping' /\ OpenFiles' = OpenFiles
  BY DEF IInv, BatchOK, Join, Looping, OpenFiles, kernel
<1>2. left' = Fds \ FreeFds(open) /\ Mine' = {} /\ open' = open
  BY DEF Join, Mine, kernel
<1>3. TypeOK'
  BY <1>2 DEF IInv, TypeOK, Join, kernel, peers
<1>4. Idle'
  BY <1>1 DEF Idle, Join
<1>5. NoLeak'
  BY <1>2 DEF NoLeak, FreeFds, Join
<1>6. Registered'
  BY <1>1 DEF Registered
<1>7. Placed'
  BY <1>1 DEF IInv, Placed, Join, kernel, peers
<1>8. BatchOK'
  BY <1>1 DEF BatchOK, Join
<1> QED
  BY <1>3, <1>4, <1>5, <1>6, <1>7, <1>8 DEF IInv

(* What epoll_create takes, before any socket is made.                     *)
LEMMA EpollTaken ==
  ASSUME IInv, pc = "start"
  PROVE  /\ WithEpoll \in [Fds -> Files \cup {None}]
         /\ EpollFd \in Fds \cup {INVALID_SOCKET}
         /\ EpollFd # INVALID_SOCKET =>
              EpollFd \in Fds /\ open[EpollFd] = None /\ WithEpoll[EpollFd] = Epoll
         /\ \A g \in Fds : g # EpollFd => WithEpoll[g] = open[g]
         /\ EpollFd = INVALID_SOCKET => FreeFds(WithEpoll) = {}
         /\ left \subseteq Fds /\ \A g \in Fds : open[g] # None <=> g \in left
         /\ sockServ = INVALID_SOCKET /\ sockClient = INVALID_SOCKET
<1>1. sockServ = INVALID_SOCKET /\ sockClient = INVALID_SOCKET /\ Mine = {}
  BY DEF IInv, Idle, Mine
<1>2. left \subseteq Fds /\ \A g \in Fds : open[g] # None <=> g \in left
  BY <1>1 DEF IInv, TypeOK, NoLeak
<1>3. EpollFd # INVALID_SOCKET => EpollFd \in Fds /\ open[EpollFd] = None
  BY FreeFd DEF IInv, EpollFd
<1>4. WithEpoll \in [Fds -> Files \cup {None}]
  BY DEF IInv, TypeOK, WithEpoll, Files
<1>5. /\ EpollFd # INVALID_SOCKET => WithEpoll[EpollFd] = Epoll
      /\ \A g \in Fds : g # EpollFd => WithEpoll[g] = open[g]
  BY <1>3 DEF WithEpoll
<1>6. ASSUME EpollFd = INVALID_SOCKET PROVE FreeFds(WithEpoll) = {}
  <2>1. FreeFds(open) = {}
    <3>1. FreeFds(open) # {} => EpollFd = Lowest(FreeFds(open)) /\ EpollFd \in Fds
      BY FreeFd DEF IInv, EpollFd
    <3> QED
      BY <1>6, <3>1, Constants
  <2>2. \A g \in Fds : WithEpoll[g] = open[g]
    BY <1>5, <1>6, Constants
  <2> QED
    BY <2>1, <2>2 DEF FreeFds
<1> QED
  BY <1>1, <1>2, <1>3, <1>4, <1>5, <1>6

LEMMA ListenFailsInv ==
  ASSUME IInv, NEW busy \in SUBSET Ports, ListenFails(busy)
  PROVE  IInv'
<1>1. /\ pc = "start" /\ pc' = "done" /\ epfd' = EpollFd /\ open' = WithEpoll
      /\ UNCHANGED <<isRunning, sockServ, sockClient, portListen, events, ctl, runs, ep, queue,
                     fails, peer, inbox, left>>
  BY DEF ListenFails, server, ctlVars, peers
<1>2. events = <<>> /\ ctl # "off"
  BY <1>1 DEF IInv, Idle, BatchOK
<1>3. TypeOK'
  BY <1>1, EpollTaken DEF IInv, TypeOK
<1>4. Idle' /\ Registered'
  BY <1>1, <1>2 DEF Idle, Registered, Looping
<1>5. NoLeak'
  <2>1. Mine' = {EpollFd} \ {INVALID_SOCKET}
    BY <1>1, EpollTaken DEF Mine
  <2> QED
    BY <1>1, <2>1, EpollTaken, Constants DEF NoLeak
<1>6. Placed'
  <2>1. OpenFiles' \subseteq OpenFiles \cup {Epoll}
    <3>1. \A g \in Fds : open'[g] = Epoll \/ open'[g] = open[g]
      BY <1>1 DEF WithEpoll
    <3> QED
      BY <3>1 DEF OpenFiles
  <2>2. \A p \in Ports : \A i \in 1 .. Len(queue[p]) : queue[p][i] \in Clients
    BY DEF IInv, TypeOK
  <2>3. \A p \in Ports : \A i \in 1 .. Len(queue[p]) : queue[p][i] \notin OpenFiles'
    BY <2>1, <2>2, Constants DEF IInv, Placed
  <2>4. \A c \in Clients : peer[c] = "away" => c \notin OpenFiles'
    BY <2>1, Constants DEF IInv, Placed
  <2> QED
    BY <1>1, <2>3, <2>4 DEF IInv, Placed
<1>7. BatchOK'
  BY <1>1, <1>2 DEF BatchOK
<1> QED
  BY <1>3, <1>4, <1>5, <1>6, <1>7 DEF IInv

(* The loop has its listening socket, under the lowest free descriptor.    *)
LEMMA ListenInv ==
  ASSUME IInv, NEW busy \in SUBSET Ports, Listen(busy)
  PROVE  IInv'
<1> DEFINE free == Bindable(busy)
           port == ChosenPort(free)
           fd   == Lowest(FreeFds(WithEpoll))
<1>1. /\ pc = "start" /\ free # {}
      /\ open' = [WithEpoll EXCEPT ![fd] = port]
      /\ sockServ' = fd /\ portListen' = port /\ ep' = {[file |-> port, fd |-> fd]}
      /\ epfd' = EpollFd /\ pc' = "test"
      /\ UNCHANGED <<isRunning, sockClient, events, ctl, runs, queue, fails, peer, inbox, left>>
  BY DEF Listen, ctlVars, peers
<1>2. sockClient = INVALID_SOCKET /\ events = <<>> /\ ctl # "off"
  BY <1>1 DEF IInv, Idle, BatchOK
<1>3. FreeFds(WithEpoll) # {} /\ free \subseteq Ports
  BY <1>1 DEF Bindable
<1>4. fd \in Fds /\ WithEpoll[fd] = None
  <2>1. FreeFds(WithEpoll) \in SUBSET Nat
    BY Constants DEF FreeFds
  <2>2. fd \in FreeFds(WithEpoll)
    BY <1>3, <2>1, LowestIn
  <2> QED
    BY <2>2 DEF FreeFds
<1>a. /\ EpollFd \in Fds /\ EpollFd # INVALID_SOCKET /\ fd # EpollFd
      /\ WithEpoll[EpollFd] = Epoll
  BY <1>1, <1>3, <1>4, EpollTaken, Constants
<1>5. port \in free
  <2>1. CASE wPort \in free
    BY <2>1 DEF ChosenPort
  <2>2. CASE wPort \notin free
    <3>1. free \cap PortRange # {} /\ free \cap PortRange \in SUBSET Nat
      BY <1>1, <1>3, <2>2, Constants
    <3>2. Lowest(free \cap PortRange) \in free \cap PortRange
      BY <3>1, LowestIn
    <3> QED
      BY <2>2, <3>2 DEF ChosenPort, FirstOfRange
  <2> QED
    BY <2>1, <2>2
<1>6. port \in Ports /\ port \notin Clients /\ port # None /\ port \in Files
  BY <1>3, <1>5, Constants
<1>b. /\ WithEpoll \in [Fds -> Files \cup {None}]
      /\ \A g \in Fds : g # EpollFd => WithEpoll[g] = open[g]
      /\ left \subseteq Fds /\ \A g \in Fds : open[g] # None <=> g \in left
      /\ open[EpollFd] = None
  BY <1>1, <1>a, EpollTaken
<1> HIDE DEF free, port, fd
<1>7. TypeOK'
  <2>1. portListen' \in (MIN_TELSVR_PORT .. MAX_TELSVR_PORT - 1) \cup {0, wPort}
    BY <1>1, <1>6, Constants DEF PortRange
  <2>2. open' \in [Fds -> Files \cup {None}]
    BY <1>1, <1>6, <1>b
  <2>3. ep' \subseteq [file : Clients \cup Ports, fd : Fds]
    BY <1>1, <1>4, <1>6
  <2> QED
    BY <1>1, <1>4, <1>a, <2>1, <2>2, <2>3 DEF IInv, TypeOK
<1>8. /\ open' \in [Fds -> Files \cup {None}]
      /\ open'[fd] = port /\ open'[EpollFd] = Epoll
      /\ \A g \in Fds \ {fd, EpollFd} : open'[g] = open[g]
  BY <1>1, <1>4, <1>7, <1>a, <1>b DEF TypeOK
<1>9. fd # INVALID_SOCKET
  BY <1>4, Constants
<1>10. Idle'
  BY <1>1, <1>2, <1>4, <1>6, <1>a DEF Idle
<1>11. NoLeak'
  <2>1. Mine' = {EpollFd, fd}
    BY <1>1, <1>2, <1>9, <1>a DEF Mine
  <2>2. \A g \in Fds : open'[g] # None <=> g \in left \cup {EpollFd, fd}
    BY <1>6, <1>8, <1>b, Constants
  <2>3. left \cap {EpollFd, fd} = {}
    BY <1>4, <1>a, <1>b
  <2> QED
    BY <1>1, <1>2, <1>8, <2>1, <2>2, <2>3 DEF NoLeak
<1>12. Registered'
  <2>1. {sockServ', sockClient'} \ {INVALID_SOCKET} = {fd}
    BY <1>1, <1>2, <1>9
  <2>2. {[file |-> open'[f], fd |-> f] : f \in {fd}} = {[file |-> port, fd |-> fd]}
    BY <1>8
  <2> QED
    BY <1>1, <2>1, <2>2 DEF Registered
<1>13. Placed'
  <2>1. OpenFiles' \subseteq OpenFiles \cup {port, Epoll}
    BY <1>4, <1>8, <1>a DEF OpenFiles
  <2>2. \A p \in Ports : \A i \in 1 .. Len(queue[p]) : queue[p][i] \in Clients
    BY DEF IInv, TypeOK
  <2>3. \A p \in Ports : \A i \in 1 .. Len(queue[p]) :
          queue[p][i] \notin OpenFiles' /\ peer[queue[p][i]] # "away"
    BY <1>6, <2>1, <2>2, Constants DEF IInv, Placed
  <2>4. \A c \in Clients : peer[c] = "away" => c \notin OpenFiles'
    BY <1>6, <2>1, Constants DEF IInv, Placed
  <2>5. \A p, q \in Ports : \A i \in 1 .. Len(queue[p]) : \A j \in 1 .. Len(queue[q]) :
           queue[p][i] = queue[q][j] => p = q /\ i = j
    BY DEF IInv, Placed
  <2> QED
    BY <1>1, <2>3, <2>4, <2>5 DEF Placed
<1>14. BatchOK'
  BY <1>1, <1>2 DEF BatchOK
<1> QED
  BY <1>7, <1>10, <1>11, <1>12, <1>13, <1>14 DEF IInv

(* An event with the number of the client is of a client.                  *)
LEMMA ClientEvent ==
  ASSUME IInv, NEW i \in 1 .. Len(events), events[i].fd = sockClient
  PROVE  Current \in Clients
<1>1. events \in Seq(Event) /\ Len(events) \in Nat
  BY DEF IInv, TypeOK
<1>2. events[i] \in Event
  BY <1>1
<1>3. sockClient # INVALID_SOCKET
  BY <1>2, Constants DEF Event
<1>4. Looping
  <2>1. events # <<>>
    BY <1>1
  <2> QED
    BY <2>1 DEF IInv, BatchOK, Looping
<1> QED
  BY <1>3, <1>4, Sockets

-----------------------------------------------------------------------------
(* The peers.                                                              *)

LEMMA ConnectInv ==
  ASSUME IInv, NEW c \in Clients, NEW p \in Ports, Connect(c, p)
  PROVE  IInv'
<1>1. /\ peer[c] = "away"
      /\ peer' = [peer EXCEPT ![c] = "there"]
      /\ queue' = [queue EXCEPT ![p] = Append(queue[p], c)]
      /\ UNCHANGED <<isRunning, sockServ, sockClient, portListen, pc, epfd, events, ctl, runs,
                     open, ep, fails, inbox, left>>
  BY DEF Connect, server, ctlVars
<1>2. /\ queue \in [Ports -> Seq(Clients)]
      /\ peer \in [Clients -> {"away", "there", "gone", "dropped"}]
  BY DEF IInv, TypeOK
<1>3. peer'[c] = "there" /\ \A d \in Clients \ {c} : peer'[d] = peer[d]
  BY <1>1, <1>2
<1>4. \A q \in Ports \ {p} : queue'[q] = queue[q]
  BY <1>1, <1>2
<1>5. queue[p] \in Seq(Clients) /\ queue'[p] = Append(queue[p], c)
  BY <1>1, <1>2
<1>6. /\ Len(queue[p]) \in Nat /\ Len(queue'[p]) = Len(queue[p]) + 1
      /\ \A i \in 1 .. Len(queue'[p]) :
           queue'[p][i] = IF i = Len(queue[p]) + 1 THEN c ELSE queue[p][i]
  BY <1>5
<1>7. TypeOK'
  <2>1. queue' \in [Ports -> Seq(Clients)]
    BY <1>1, <1>2
  <2>2. peer' \in [Clients -> {"away", "there", "gone", "dropped"}]
    BY <1>1, <1>2
  <2> QED
    BY <1>1, <2>1, <2>2 DEF IInv, TypeOK
<1>8. Idle' /\ NoLeak' /\ Registered'
  BY <1>1 DEF IInv, Idle, NoLeak, Mine, Registered, Looping, OpenFiles
<1>9. Placed'
  <2>1. c \notin OpenFiles
    BY <1>1 DEF IInv, Placed
  <2>2. \A q \in Ports : \A i \in 1 .. Len(queue[q]) :
           /\ queue[q][i] \in Clients \ {c} /\ queue[q][i] \notin OpenFiles
           /\ peer[queue[q][i]] # "away"
    BY <1>1, <1>2 DEF IInv, Placed
  <2>3. \A q \in Ports : \A i \in 1 .. Len(queue'[q]) :
           \/ q = p /\ i = Len(queue[p]) + 1 /\ queue'[q][i] = c
           \/ i \in 1 .. Len(queue[q]) /\ queue'[q][i] = queue[q][i]
    BY <1>4, <1>6
  <2>4. ASSUME NEW q \in Ports, NEW i \in 1 .. Len(queue'[q])
        PROVE  queue'[q][i] \notin OpenFiles /\ peer'[queue'[q][i]] # "away"
    BY <1>3, <2>1, <2>2, <2>3
  <2>5. ASSUME NEW q \in Ports, NEW i \in 1 .. Len(queue'[q]),
               NEW r \in Ports, NEW j \in 1 .. Len(queue'[r]), queue'[q][i] = queue'[r][j]
        PROVE  q = r /\ i = j
    <3>1. CASE queue'[q][i] = c
      <4>1. ~ (i \in 1 .. Len(queue[q]) /\ queue'[q][i] = queue[q][i])
        BY <2>2, <3>1
      <4>2. ~ (j \in 1 .. Len(queue[r]) /\ queue'[r][j] = queue[r][j])
        BY <2>2, <2>5, <3>1
      <4>3. q = p /\ i = Len(queue[p]) + 1
        BY <2>3, <4>1
      <4>4. r = p /\ j = Len(queue[p]) + 1
        BY <2>3, <4>2
      <4> QED
        BY <4>3, <4>4
    <3>2. CASE queue'[q][i] # c
      <4>1. /\ i \in 1 .. Len(queue[q]) /\ queue'[q][i] = queue[q][i]
            /\ j \in 1 .. Len(queue[r]) /\ queue'[r][j] = queue[r][j]
        BY <2>3, <2>5, <3>2
      <4>2. queue[q][i] = queue[r][j] => q = r /\ i = j
        BY <4>1 DEF IInv, Placed
      <4> QED
        BY <2>5, <4>1, <4>2
    <3> QED
      BY <3>1, <3>2
  <2>6. OpenFiles' = OpenFiles
    BY <1>1 DEF OpenFiles
  <2>7. \A d \in Clients : peer'[d] = "away" => d \notin OpenFiles
    BY <1>3 DEF IInv, Placed
  <2> QED
    BY <1>1, <2>4, <2>5, <2>6, <2>7 DEF Placed
<1>10. BatchOK'
  <2>1. \A d \in Clients : peer[d] \in {"gone", "dropped"} => peer'[d] = peer[d]
    BY <1>1, <1>3
  <2>2. Current' = Current
    BY <1>1 DEF Current
  <2> QED
    BY <1>1, <2>1, <2>2, ClientEvent DEF IInv, BatchOK, Broken
<1> QED
  BY <1>7, <1>8, <1>9, <1>10 DEF IInv

LEMMA TypeInv ==
  ASSUME IInv, NEW c \in Clients, NEW k \in Keys, Type(c, k)
  PROVE  IInv'
<1>1. /\ inbox' = [inbox EXCEPT ![c] = Append(inbox[c], k)]
      /\ UNCHANGED <<isRunning, sockServ, sockClient, portListen, pc, epfd, events, ctl, runs,
                     open, ep, queue, fails, peer, left>>
  BY DEF Type, server, ctlVars, kernel
<1>2. inbox \in [Clients -> Seq(Keys)]
  BY DEF IInv, TypeOK
<1>3. inbox' \in [Clients -> Seq(Keys)]
  BY <1>1, <1>2
<1>4. \A d \in Clients : inbox[d] # <<>> => inbox'[d] # <<>>
  <2>1. inbox'[c] = Append(inbox[c], k) /\ inbox[c] \in Seq(Keys)
    BY <1>1, <1>2
  <2>2. inbox'[c] # <<>>
    BY <2>1
  <2> QED
    BY <1>1, <1>2, <2>2
<1>5. TypeOK'
  BY <1>1, <1>3 DEF IInv, TypeOK
<1>6. Idle' /\ NoLeak' /\ Registered' /\ Placed'
  BY <1>1 DEF IInv, Idle, NoLeak, Mine, Registered, Placed, Looping, OpenFiles
<1>7. BatchOK'
  <2>1. Current' = Current
    BY <1>1 DEF Current
  <2> QED
    BY <1>1, <1>4, <2>1, ClientEvent DEF IInv, BatchOK, Broken
<1> QED
  BY <1>5, <1>6, <1>7 DEF IInv

LEMMA LeaveInv ==
  ASSUME IInv, NEW c \in Clients, Leave(c)
  PROVE  IInv'
<1>1. /\ peer[c] = "there" /\ peer' = [peer EXCEPT ![c] = "gone"]
      /\ UNCHANGED <<isRunning, sockServ, sockClient, portListen, pc, epfd, events, ctl, runs,
                     open, ep, queue, fails, inbox, left>>
  BY DEF Leave, server, ctlVars, kernel
<1>2. peer \in [Clients -> {"away", "there", "gone", "dropped"}]
  BY DEF IInv, TypeOK
<1>3. /\ peer' \in [Clients -> {"away", "there", "gone", "dropped"}]
      /\ \A d \in Clients : peer[d] \in {"gone", "dropped"} => peer'[d] = peer[d]
      /\ \A d \in Clients : peer'[d] = "away" <=> peer[d] = "away"
  BY <1>1, <1>2
<1>4. TypeOK'
  BY <1>1, <1>3 DEF IInv, TypeOK
<1>5. Idle' /\ NoLeak' /\ Registered'
  BY <1>1 DEF IInv, Idle, NoLeak, Mine, Registered, Looping, OpenFiles
<1>6. Placed'
  <2>1. \A p \in Ports : \A i \in 1 .. Len(queue[p]) : queue[p][i] \in Clients
    BY DEF IInv, TypeOK
  <2>2. \A p \in Ports : \A i \in 1 .. Len(queue[p]) : peer'[queue[p][i]] # "away"
    BY <1>3, <2>1 DEF IInv, Placed
  <2>3. OpenFiles' = OpenFiles
    BY <1>1 DEF OpenFiles
  <2> QED
    BY <1>1, <1>3, <2>2, <2>3 DEF IInv, Placed
<1>7. BatchOK'
  <2>1. Current' = Current
    BY <1>1 DEF Current
  <2> QED
    BY <1>1, <1>3, <2>1, ClientEvent DEF IInv, BatchOK, Broken
<1> QED
  BY <1>4, <1>5, <1>6, <1>7 DEF IInv

-----------------------------------------------------------------------------
(* The branches that keep the client.                                      *)

(* The rest of a batch, when nothing it speaks of has changed.             *)
LEMMA TailBatchOK ==
  ASSUME IInv, events # <<>>, events' = Tail(events),
         pc = "handle", pc' \in {"handle", "stuck"}, UNCHANGED <<sockServ, sockClient, open, peer>>,
         inbox' = inbox \/ (Head(events).fd = sockClient /\ peer' = peer)
  PROVE  BatchOK'
<1>1. /\ Head(events) = events[1] /\ 1 \in 1 .. Len(events)
      /\ \A i \in 1 .. Len(events') :
           events'[i] = events[i + 1] /\ i + 1 \in 1 .. Len(events) /\ i + 1 # 1
      /\ Len(events) \in Nat /\ Len(events') = Len(events) - 1
  BY TailOfBatch DEF IInv
<1>2. pc' \in {"handle", "stuck"} /\ Current' = Current
  BY DEF Current
<1>3. ASSUME NEW i \in 1 .. Len(events'), NEW j \in 1 .. Len(events')
      PROVE  /\ events'[i].fd = events'[j].fd => i = j
             /\ events'[i].fd = sockServ /\ i # j => events'[j].fd = sockClient
  <2>1. /\ events[i + 1].fd = events[j + 1].fd => i + 1 = j + 1
        /\ events[i + 1].fd = sockServ /\ i + 1 # j + 1 => events[j + 1].fd = sockClient
    BY <1>1 DEF IInv, BatchOK
  <2> QED
    BY <1>1, <2>1
<1>4. ASSUME NEW i \in 1 .. Len(events')
      PROVE  /\ events'[i].fd = sockClient =>
                  /\ events'[i].file = Current
                  /\ inbox'[Current] # <<>> \/ peer[Current] = "gone"
                  /\ Broken(events'[i]) => peer[Current] = "gone"
                  /\ Broken(events'[i]) \/ "IN" \in events'[i].flags
             /\ events'[i].fd \notin {sockServ, sockClient} =>
                  events'[i].file \in Clients /\ peer[events'[i].file] = "dropped"
  <2>1. events'[i] = events[i + 1] /\ i + 1 \in 1 .. Len(events) /\ i + 1 # 1
    BY <1>1
  <2>2. events[i + 1].fd = events[1].fd => FALSE
    BY <1>1, <2>1 DEF IInv, BatchOK
  <2>3. inbox' = inbox \/ events'[i].fd # sockClient
    BY <1>1, <2>1, <2>2
  <2> QED
    BY <2>1, <2>3 DEF IInv, BatchOK
<1> QED
  BY <1>2, <1>3, <1>4 DEF BatchOK, Broken

LEMMA AcceptFailsInv == ASSUME IInv, AcceptFails PROVE IInv'
<1>1. /\ pc = "handle" /\ events # <<>> /\ events' = Tail(events)
      /\ fails' = fails \/ (fails < MaxFails /\ fails' = fails + 1)
      /\ UNCHANGED <<isRunning, sockServ, sockClient, portListen, pc, epfd, ctl, runs, open, ep, queue,
                     peer, inbox, left>>
  BY DEF AcceptFails, Handling, server, ctlVars, peers
<1>2. BatchOK'
  BY <1>1, TailBatchOK
<1>3. TypeOK'
  <2>1. events' \in Seq(Event)
    BY <1>1, TailOfBatch DEF IInv
  <2>2. fails' \in 0 .. MaxFails
    BY <1>1, TelnetDaemonAssumption DEF IInv, TypeOK
  <2> QED
    BY <1>1, <2>1, <2>2 DEF IInv, TypeOK
<1>4. Idle' /\ NoLeak' /\ Registered' /\ Placed'
  BY <1>1 DEF IInv, Idle, NoLeak, Mine, Registered, Placed, Looping, OpenFiles
<1> QED
  BY <1>2, <1>3, <1>4 DEF IInv

LEMMA RecvKeyInv == ASSUME IInv, RecvKey \/ RecvHang PROVE IInv'
<1>1. /\ pc = "handle" /\ pc' \in {"handle", "stuck"} /\ events # <<>> /\ events' = Tail(events)
      /\ Branch(Head(events)) = "recv"
      /\ inbox[Current] # <<>>
      /\ inbox' = [inbox EXCEPT ![Current] = Tail(inbox[Current])]
      /\ UNCHANGED <<isRunning, sockServ, sockClient, portListen, epfd, ctl, runs, open, ep, queue,
                     fails, peer, left>>
  BY DEF RecvKey, RecvHang, Receives, Handling, server, ctlVars, kernel
<1>2. Head(events).fd = sockClient
  BY <1>1, ClosingBranches
<1>3. BatchOK'
  BY <1>1, <1>2, TailBatchOK
<1>4. TypeOK'
  <2>1. events' \in Seq(Event)
    BY <1>1, TailOfBatch DEF IInv
  <2>2. inbox \in [Clients -> Seq(Keys)]
    BY DEF IInv, TypeOK
  <2>3. Current \in Clients => Tail(inbox[Current]) \in Seq(Keys)
    BY <1>1, <2>2
  <2>4. inbox' \in [Clients -> Seq(Keys)]
    BY <1>1, <2>2, <2>3
  <2> QED
    BY <1>1, <2>1, <2>4 DEF IInv, TypeOK
<1>5. Idle' /\ NoLeak' /\ Registered' /\ Placed'
  BY <1>1 DEF IInv, Idle, NoLeak, Mine, Registered, Placed, Looping, OpenFiles
<1> QED
  BY <1>3, <1>4, <1>5 DEF IInv

-----------------------------------------------------------------------------
(* A batch is about the two sockets of the loop, each once.                *)
LEMMA EpollWaitInv == ASSUME IInv, EpollWait PROVE IInv'
<1> DEFINE n == Cardinality(Ready)
<1>1. /\ pc = "wait" /\ pc' = "handle" /\ Looping
      /\ UNCHANGED <<isRunning, sockServ, sockClient, portListen, epfd, ctl, runs, open, ep, queue,
                     fails, peer, inbox, left>>
  BY DEF EpollWait, Looping, server, ctlVars, kernel, peers
<1>2. \A e \in ep :
        \/ e.fd = sockServ /\ e = [file |-> portListen, fd |-> sockServ]
        \/ /\ sockClient # INVALID_SOCKET /\ Current \in Clients
           /\ e.fd = sockClient /\ e = [file |-> Current, fd |-> sockClient]
  BY <1>1, Sockets
<1>3. n \in Nat
  <2>1. IsFiniteSet(ep)
    <3>1. ASSUME NEW a, NEW b PROVE IsFiniteSet({a} \cup {b})
      BY FS_Singleton, FS_Union
    <3>2. ASSUME NEW a, NEW b PROVE IsFiniteSet({a, b})
      <4>1. {a, b} = {a} \cup {b}
        OBVIOUS
      <4> QED
        BY <3>1, <4>1
    <3>3. CASE sockClient = INVALID_SOCKET
      <4>1. ep = {[file |-> portListen, fd |-> sockServ]}
        BY <1>1, <3>3, Sockets
      <4> QED
        BY <4>1, FS_Singleton
    <3>4. CASE sockClient # INVALID_SOCKET
      <4>1. ep = {[file |-> portListen, fd |-> sockServ], [file |-> Current, fd |-> sockClient]}
        BY <1>1, <3>4, Sockets
      <4> QED
        BY <3>2, <4>1
    <3> QED
      BY <3>3, <3>4
  <2>2. IsFiniteSet(Ready)
    BY <2>1, FS_Subset DEF Ready
  <2> QED
    BY <2>2, FS_CardinalityType
<1>4. PICK s \in SetToSeqs(Ready), flags \in [Ready -> SUBSET Flags] :
         /\ \A e \in Ready : flags[e] \in FlagsOf(e.file)
         /\ events' = [i \in 1 .. Len(s) |->
                        [fd |-> s[i].fd, flags |-> flags[s[i]], file |-> s[i].file]]
  BY DEF EpollWait
<1>5. s \in [1 .. n -> Ready] /\ \A i, j \in 1 .. n : i # j => s[i] # s[j]
  BY <1>4 DEF SetToSeqs
<1> HIDE DEF n
<1>6. Len(s) = n
  BY <1>3, <1>5
<1>7. \A i \in 1 .. n :
        /\ events'[i].fd = s[i].fd /\ events'[i].file = s[i].file
        /\ events'[i].flags \in FlagsOf(s[i].file)
  BY <1>4, <1>5, <1>6
<1>8. events' \in Seq(Event) /\ Len(events') = n
  <2>1. \A i \in 1 .. n :
          [fd |-> s[i].fd, flags |-> flags[s[i]], file |-> s[i].file] \in Event
    <3>1. ASSUME NEW i \in 1 .. n PROVE s[i].fd \in Fds /\ s[i].file \in Clients \cup Ports
      <4>1. s[i] \in ep
        BY <1>5 DEF Ready
      <4> QED
        BY <4>1 DEF IInv, TypeOK
    <3>2. ASSUME NEW i \in 1 .. n PROVE flags[s[i]] \in SUBSET Flags
      BY <1>4, <1>5
    <3> QED
      BY <3>1, <3>2 DEF Event
  <2>2. events' \in [1 .. n -> Event]
    <3> HIDE DEF Event
    <3> QED
      BY <1>4, <1>6, <2>1
  <2> HIDE DEF Event
  <2> QED
    BY <1>3, <2>2
<1>9. \A i \in 1 .. n : s[i] \in ep /\ IsReady(s[i].file)
  BY <1>5 DEF Ready
<1>10. TypeOK'
  BY <1>1, <1>8 DEF IInv, TypeOK
<1>11. Idle' /\ NoLeak' /\ Registered' /\ Placed'
  BY <1>1 DEF IInv, Idle, NoLeak, Mine, Registered, Placed, Looping, OpenFiles
<1>12. BatchOK'
  <2>1. ASSUME NEW i \in 1 .. n, NEW j \in 1 .. n
        PROVE  /\ events'[i].fd = events'[j].fd => i = j
               /\ events'[i].fd = sockServ /\ i # j => events'[j].fd = sockClient
    <3>1. s[i].fd = s[j].fd => i = j
      <4>1. s[i].fd = s[j].fd => s[i] = s[j]
        BY <1>1, <1>2, <1>9, Sockets
      <4> QED
        BY <1>5, <4>1
    <3>2. s[j].fd = sockServ \/ s[j].fd = sockClient
      BY <1>2, <1>9
    <3> QED
      BY <1>7, <3>1, <3>2
  <2>2. ASSUME NEW i \in 1 .. n
        PROVE  /\ events'[i].fd = sockClient =>
                    /\ events'[i].file = Current
                    /\ inbox[Current] # <<>> \/ peer[Current] = "gone"
                    /\ Broken(events'[i]) => peer[Current] = "gone"
                    /\ Broken(events'[i]) \/ "IN" \in events'[i].flags
               /\ events'[i].fd \in {sockServ, sockClient}
    <3>1. events'[i].fd \in {sockServ, sockClient}
      BY <1>2, <1>7, <1>9
    <3>2. ASSUME events'[i].fd = sockClient
          PROVE  /\ events'[i].file = Current
                 /\ inbox[Current] # <<>> \/ peer[Current] = "gone"
                 /\ Broken(events'[i]) => peer[Current] = "gone"
                 /\ Broken(events'[i]) \/ "IN" \in events'[i].flags
      <4>1. s[i].file = Current /\ Current \in Clients
        BY <1>1, <1>2, <1>7, <1>9, <3>2, Sockets
      <4>2. inbox[Current] # <<>> \/ peer[Current] = "gone"
        BY <1>9, <4>1 DEF IsReady
      <4>3. events'[i].flags \in FlagsOf(Current) /\ events'[i].file = Current
        BY <1>7, <4>1
      <4>4. CASE peer[Current] = "gone"
        BY <4>1, <4>2, <4>3, <4>4 DEF FlagsOf, Broken
      <4>5. CASE peer[Current] # "gone"
        BY <4>1, <4>2, <4>3, <4>5 DEF FlagsOf, Broken
      <4> QED
        BY <4>4, <4>5
    <3> QED
      BY <3>1, <3>2
  <2>3. Current' = Current
    BY <1>1 DEF Current
  <2> QED
    BY <1>1, <1>8, <2>1, <2>2, <2>3 DEF BatchOK, Broken
<1> QED
  BY <1>10, <1>11, <1>12 DEF IInv

-----------------------------------------------------------------------------
(* Taking a client over: the newcomer leaves the queue for the table.      *)

LEMMA AcceptFacts ==
  ASSUME IInv, Accept
  PROVE  LET n == NewTelHandle
             c == Head(queue[portListen])
             o == OpenAfterClose(sockClient)
         IN  /\ n \in Fds /\ n # sockServ /\ n # sockClient /\ n # INVALID_SOCKET
             /\ open[n] = None
             /\ c \in Clients /\ c \notin OpenFiles
             /\ open' = [o EXCEPT ![n] = c]
             /\ sockClient' = n
             /\ ep' = {[file |-> portListen, fd |-> sockServ], [file |-> c, fd |-> n]}
             /\ queue' = [queue EXCEPT ![portListen] = Tail(queue[portListen])]
             /\ queue[portListen] # <<>>
             /\ peer' = PeerAfterClose(sockClient) /\ inbox' = InboxAfterClose(sockClient)
             /\ UNCHANGED <<isRunning, sockServ, portListen, pc, epfd, ctl, runs, fails, left>>
<1> DEFINE n == NewTelHandle
           c == Head(queue[portListen])
           o == OpenAfterClose(sockClient)
<1>1. /\ pc = "handle" /\ queue[portListen] # <<>> /\ FreeFds(open) # {}
      /\ open' = [o EXCEPT ![n] = c]
      /\ sockClient' = n
      /\ ep' = EpAfterClose(sockClient) \cup {[file |-> c, fd |-> n]}
      /\ queue' = [queue EXCEPT ![portListen] = Tail(queue[portListen])]
      /\ peer' = PeerAfterClose(sockClient) /\ inbox' = InboxAfterClose(sockClient)
      /\ UNCHANGED <<isRunning, sockServ, portListen, pc, epfd, ctl, runs, fails, left>>
  BY DEF Accept, Handling, TableAfterAccept, EpAfterAccept, ctlVars
<1>2. Looping
  BY <1>1 DEF Looping
<1>3. n \in Fds /\ open[n] = None
  BY <1>1, FreeFd DEF IInv, NewTelHandle
<1>4. n # sockServ /\ n # sockClient /\ n # INVALID_SOCKET
  <2>1. n # INVALID_SOCKET
    BY <1>3, Constants
  <2>2. n # sockServ
    BY <1>2, <1>3, Sockets, Constants
  <2>3. n # sockClient
    BY <1>2, <1>3, <2>1, Sockets DEF Current
  <2> QED
    BY <2>1, <2>2, <2>3
<1>5. c \in Clients /\ c \notin OpenFiles
  <2>1. portListen \in Ports
    BY <1>2, Sockets
  <2>2. queue[portListen] \in Seq(Clients)
    BY <2>1 DEF IInv, TypeOK
  <2>3. c = queue[portListen][1] /\ 1 \in 1 .. Len(queue[portListen]) /\ c \in Clients
    BY <1>1, <2>2
  <2> QED
    BY <2>1, <2>3 DEF IInv, Placed
<1>6. EpAfterClose(sockClient) = {[file |-> portListen, fd |-> sockServ]}
  BY <1>2, AfterClose
<1>7. ep' = {[file |-> portListen, fd |-> sockServ], [file |-> c, fd |-> n]}
  BY <1>1, <1>6
<1> QED
  BY <1>1, <1>3, <1>4, <1>5, <1>7

LEMMA AcceptInv == ASSUME IInv, Accept PROVE IInv'
<1> DEFINE n == NewTelHandle
           c == Head(queue[portListen])
           o == OpenAfterClose(sockClient)
           P == PeerAfterClose(sockClient)
           B == InboxAfterClose(sockClient)
<1>0. Looping /\ Looping' /\ pc = "handle" /\ events # <<>>
      /\ events' = Tail(events) /\ Branch(Head(events)) = "accept"
  BY AcceptFacts DEF Accept, Handling, Looping
<1>1. /\ n \in Fds /\ n # sockServ /\ n # sockClient /\ n # INVALID_SOCKET
      /\ c \in Clients /\ c \notin OpenFiles
      /\ open' = [o EXCEPT ![n] = c]
      /\ sockClient' = n
      /\ ep' = {[file |-> portListen, fd |-> sockServ], [file |-> c, fd |-> n]}
      /\ queue' = [queue EXCEPT ![portListen] = Tail(queue[portListen])]
      /\ queue[portListen] # <<>>
      /\ peer' = P /\ inbox' = B
      /\ UNCHANGED <<isRunning, sockServ, portListen, pc, epfd, ctl, runs, fails, left>>
  BY AcceptFacts
<1>2. /\ o \in [Fds -> Files \cup {None}]
      /\ o[sockServ] = portListen /\ o[epfd] = Epoll
      /\ \A g \in Fds : o[g] # None <=> g \in left \cup ({epfd, sockServ} \ {INVALID_SOCKET})
      /\ \A g \in Fds : o[g] = open[g] \/ o[g] = None
      /\ P \in [Clients -> {"away", "there", "gone", "dropped"}]
      /\ \A d \in Clients : P[d] = peer[d] \/ P[d] = "dropped"
      /\ sockClient # INVALID_SOCKET => P[Current] = "dropped"
      /\ B \in [Clients -> Seq(Keys)]
  BY <1>0, AfterClose
<1>3. /\ sockServ \in Fds /\ portListen \in Ports /\ sockServ # INVALID_SOCKET
      /\ sockClient # sockServ /\ epfd \in Fds /\ epfd # INVALID_SOCKET
      /\ open[n] = None /\ open[epfd] = Epoll
      /\ sockClient # INVALID_SOCKET => Current \in Clients
  BY <1>0, Sockets, AcceptFacts
<1>4. /\ Len(events) \in Nat \ {0} /\ 1 \in 1 .. Len(events) /\ Head(events) = events[1]
      /\ events' \in Seq(Event) /\ Len(events') = Len(events) - 1
      /\ \A i \in 1 .. Len(events') :
           events'[i] = events[i + 1] /\ i + 1 \in 1 .. Len(events) /\ i + 1 # 1
  BY <1>0, TailOfBatch DEF IInv
<1> HIDE DEF n, c, o, P, B
<1>5. /\ open' \in [Fds -> Files \cup {None}]
      /\ open'[n] = c /\ \A g \in Fds \ {n} : open'[g] = o[g]
  BY <1>1, <1>2, Constants
<1>6. /\ queue[portListen] \in Seq(Clients) /\ queue \in [Ports -> Seq(Clients)]
      /\ queue'[portListen] = Tail(queue[portListen])
      /\ \A q \in Ports \ {portListen} : queue'[q] = queue[q]
  BY <1>1, <1>3 DEF IInv, TypeOK
<1>7. TypeOK'
  <2>1. ep' \subseteq [file : Clients \cup Ports, fd : Fds]
    BY <1>1, <1>3
  <2>2. queue' \in [Ports -> Seq(Clients)]
    <3>1. Tail(queue[portListen]) \in Seq(Clients)
      BY <1>1, <1>6
    <3> QED
      BY <1>1, <1>6, <3>1
  <2> QED
    BY <1>1, <1>2, <1>4, <1>5, <2>1, <2>2 DEF IInv, TypeOK
<1>8. Idle'
  BY <1>0, <1>1, <1>3 DEF IInv, Idle
<1>9. NoLeak'
  <2>1. n # epfd
    BY <1>3, Constants
  <2>2. Mine' = {epfd, sockServ, n}
    BY <1>1, <1>3 DEF Mine
  <2>3. open'[sockServ] = portListen /\ open'[epfd] = Epoll /\ open'[n] \in Clients
    BY <1>1, <1>2, <1>3, <1>5, <2>1
  <2>4. \A g \in Fds : open'[g] # None <=> g \in left \cup {epfd, sockServ, n}
    BY <1>1, <1>2, <1>3, <1>5, Constants
  <2>5. left \cap {epfd, sockServ, n} = {}
    <3>1. \A g \in left : open[g] # None /\ g \notin Mine
      BY DEF IInv, TypeOK, NoLeak
    <3> QED
      BY <1>3, <3>1 DEF Mine
  <2> QED
    BY <1>1, <2>2, <2>3, <2>4, <2>5 DEF NoLeak
<1>10. Registered'
  <2>1. {sockServ', sockClient'} \ {INVALID_SOCKET} = {sockServ, n}
    BY <1>1, <1>3
  <2>2. {[file |-> open'[f], fd |-> f] : f \in {sockServ, n}}
          = {[file |-> portListen, fd |-> sockServ], [file |-> c, fd |-> n]}
    BY <1>1, <1>2, <1>3, <1>5
  <2> QED
    BY <1>1, <2>1, <2>2 DEF Registered
<1>11. Placed'
  <2>1. OpenFiles' \subseteq OpenFiles \cup {c}
    BY <1>2, <1>5 DEF OpenFiles
  <2>2. /\ Len(queue[portListen]) \in Nat \ {0} /\ c = queue[portListen][1]
        /\ 1 \in 1 .. Len(queue[portListen])
    BY <1>1, <1>6 DEF c
  <2>3. \A i \in 1 .. Len(queue'[portListen]) :
           queue'[portListen][i] = queue[portListen][i + 1] /\ i + 1 \in 1 .. Len(queue[portListen])
    <3>1. ASSUME NEW Q \in Seq(Clients), Q # <<>>, NEW i \in 1 .. Len(Tail(Q))
          PROVE  Tail(Q)[i] = Q[i + 1] /\ i + 1 \in 1 .. Len(Q)
      BY <3>1
    <3>2. queue[portListen] \in Seq(Clients) /\ queue[portListen] # <<>>
      BY <1>1, <1>6
    <3>3. queue'[portListen] = Tail(queue[portListen])
      BY <1>6
    <3> QED
      BY <3>1, <3>2, <3>3
  <2>4. ASSUME NEW p \in Ports, NEW i \in 1 .. Len(queue'[p])
        PROVE  \E k \in 1 .. Len(queue[p]) :
                 /\ queue'[p][i] = queue[p][k]
                 /\ k = IF p = portListen THEN i + 1 ELSE i
    BY <1>6, <2>3
  <2>5. ASSUME NEW p \in Ports, NEW i \in 1 .. Len(queue'[p])
        PROVE  queue'[p][i] \notin OpenFiles' /\ peer'[queue'[p][i]] # "away"
    <3>1. PICK k \in 1 .. Len(queue[p]) :
             queue'[p][i] = queue[p][k] /\ k = IF p = portListen THEN i + 1 ELSE i
      BY <2>4
    <3>2. queue[p][k] \in Clients
      BY <1>6
    <3>3. queue[p][k] # c
      <4>1. queue[p][k] = queue[portListen][1] => p = portListen /\ k = 1
        BY <1>3, <2>2 DEF IInv, Placed
      <4>2. i \in Nat \ {0}
        BY <2>3, <1>6
      <4> QED
        BY <2>2, <3>1, <4>1, <4>2
    <3>4. queue[p][k] \notin OpenFiles /\ peer[queue[p][k]] # "away"
      BY DEF IInv, Placed
    <3> QED
      BY <1>1, <1>2, <2>1, <3>1, <3>2, <3>3, <3>4
  <2>6. ASSUME NEW p \in Ports, NEW i \in 1 .. Len(queue'[p]),
               NEW q \in Ports, NEW j \in 1 .. Len(queue'[q]), queue'[p][i] = queue'[q][j]
        PROVE  p = q /\ i = j
    <3>1. PICK k \in 1 .. Len(queue[p]) :
             queue'[p][i] = queue[p][k] /\ k = IF p = portListen THEN i + 1 ELSE i
      BY <2>4
    <3>2. PICK m \in 1 .. Len(queue[q]) :
             queue'[q][j] = queue[q][m] /\ m = IF q = portListen THEN j + 1 ELSE j
      BY <2>4
    <3>3. queue[p][k] = queue[q][m] => p = q /\ k = m
      BY DEF IInv, Placed
    <3>4. p = q /\ k = m
      BY <2>6, <3>1, <3>2, <3>3
    <3>5. i \in Int /\ j \in Int
      OBVIOUS
    <3> QED
      BY <3>1, <3>2, <3>4, <3>5
  <2>7. ASSUME NEW d \in Clients, peer'[d] = "away" PROVE d \notin OpenFiles'
    <3>1. peer[d] = "away"
      BY <1>1, <1>2, <2>7
    <3>2. d \notin OpenFiles
      BY <3>1 DEF IInv, Placed
    <3>3. d # c
      BY <1>3, <2>2, <3>1 DEF IInv, Placed
    <3> QED
      BY <2>1, <3>2, <3>3
  <2>8. \A p, q \in Ports : \A i \in 1 .. Len(queue'[p]) : \A j \in 1 .. Len(queue'[q]) :
           queue'[p][i] = queue'[q][j] => p = q /\ i = j
    BY <2>6
  <2> QED
    <3>1. left' = left
      BY <1>1
    <3> QED
      BY <2>5, <2>7, <2>8, <3>1 DEF Placed
<1>12. BatchOK'
  <2>1. events[1].fd = sockServ
    BY <1>0, <1>4 DEF Branch
  <2>2. ASSUME NEW i \in 1 .. Len(events')
        PROVE  events'[i].fd = sockClient /\ sockClient # INVALID_SOCKET
    <3>1. events'[i].fd = sockClient
      BY <1>4, <2>1 DEF IInv, BatchOK
    <3>2. events'[i] \in Event
      BY <1>4
    <3> QED
      BY <3>1, <3>2, Constants DEF Event
  <2>3. ASSUME NEW i \in 1 .. Len(events'), NEW j \in 1 .. Len(events')
        PROVE  i = j
    <3>1. events[i + 1].fd = events[j + 1].fd => i + 1 = j + 1
      BY <1>4 DEF IInv, BatchOK
    <3>2. events[i + 1].fd = events[j + 1].fd
      BY <1>4, <2>2
    <3>3. i \in Int /\ j \in Int
      OBVIOUS
    <3> QED
      BY <3>1, <3>2, <3>3
  <2>4. ASSUME NEW i \in 1 .. Len(events')
        PROVE  /\ events'[i].fd \notin {sockServ', sockClient'}
               /\ events'[i].file \in Clients /\ peer'[events'[i].file] = "dropped"
    <3>1. events'[i].file = Current
      BY <1>4, <2>2 DEF IInv, BatchOK
    <3> QED
      BY <1>1, <1>2, <1>3, <2>2, <3>1
  <2> QED
    BY <1>0, <1>1, <2>3, <2>4 DEF BatchOK
<1> QED
  BY <1>7, <1>8, <1>9, <1>10, <1>11, <1>12 DEF IInv

-----------------------------------------------------------------------------
LEMMA StepInv == IInv /\ [Next]_vars => IInv'
<1> SUFFICES ASSUME IInv, [Next]_vars PROVE IInv'
  OBVIOUS
<1>1. CASE Start
  BY <1>1, StartInv
<1>2. CASE Destory
  BY <1>2, DestoryInv
<1>3. CASE Join
  BY <1>3, JoinInv
<1>4. CASE \E busy \in SUBSET Ports : Listen(busy)
  BY <1>4, ListenInv
<1>5. CASE \E busy \in SUBSET Ports : ListenFails(busy)
  BY <1>5, ListenFailsInv
<1>6. CASE Test
  <2>1. pc = "test" /\ events = <<>> /\ pc' \in {"wait", "done"}
    BY <1>6 DEF Test, IInv, BatchOK
  <2> QED
    BY <1>6, <2>1, MoveInv DEF Test
<1>7. CASE EpollTimeout
  <2>1. pc = "wait" /\ events = <<>> /\ pc' = "test"
    BY <1>7 DEF EpollTimeout, IInv, BatchOK
  <2> QED
    BY <1>7, <2>1, MoveInv DEF EpollTimeout
<1>8. CASE EndOfBatch
  BY <1>8, MoveInv DEF EndOfBatch
<1>9. CASE EpollWait
  BY <1>9, EpollWaitInv
<1>10. CASE PeerClosed
  BY <1>10, DropClientInv DEF PeerClosed, Handling
<1>11. CASE SystemError
  BY <1>11, DropClientInv DEF SystemError, Handling
<1>12. CASE RecvBye
  BY <1>12, DropClientInv DEF RecvBye, Receives, Handling
<1>13. CASE RecvEnd
  BY <1>13, DropClientInv DEF RecvEnd, Handling
<1>14. CASE Accept
  BY <1>14, AcceptInv
<1>15. CASE AcceptFails
  BY <1>15, AcceptFailsInv
<1>16. CASE RecvKey \/ RecvHang
  BY <1>16, RecvKeyInv
<1>17. CASE \E c \in Clients : Leave(c) \/ \E k \in Keys : Type(c, k)
  BY <1>17, LeaveInv, TypeInv
<1>18. CASE \E c \in Clients, p \in Ports : Connect(c, p)
  BY <1>18, ConnectInv
<1>19. CASE UNCHANGED vars
  <2>1. UNCHANGED <<server, pc, epfd, events, ctlVars, kernel, peers, left>>
    BY <1>19 DEF vars
  <2>2. TypeOK'
    BY <2>1 DEF IInv, TypeOK, server, ctlVars, kernel, peers
  <2>3. Idle'
    BY <2>1 DEF IInv, Idle, server, ctlVars, kernel, Looping, OpenFiles
  <2> QED
    BY <2>1, <2>2, <2>3, QuietInv DEF Looping, server, ctlVars, kernel, peers
<1> QED
  BY <1>1, <1>2, <1>3, <1>4, <1>5, <1>6, <1>7, <1>8, <1>9, <1>10, <1>11, <1>12, <1>13,
     <1>14, <1>15, <1>16, <1>17, <1>18, <1>19 DEF Next, Daemon, Spin

(* The invariant that the others follow from: what is open, what epoll     *)
(* watches, where a connection can be and what a batch can be about.       *)
THEOREM Invariance == Spec => []IInv
<1>1. Init => IInv
  BY InitInv
<1>2. IInv /\ [Next]_vars => IInv'
  BY StepInv
<1> QED
  BY <1>1, <1>2, PTL DEF Spec

(* The members of TelnetServer, the batch and what the kernel and the      *)
(* peers hold keep their types.                                            *)
THEOREM TypeCorrect == Spec => []TypeOK
<1>1. IInv => TypeOK
  BY DEF IInv
<1> QED
  BY <1>1, Invariance, PTL

(* Of the sockets a run opened, only the listening one and the one of the  *)
(* current client are open: every path that closes a client forgets its    *)
(* number, and taking a client over closes the old one.                    *)
THEOREM NothingLeaks == Spec => []NoLeak
<1>1. IInv => NoLeak
  BY DEF IInv
<1> QED
  BY <1>1, Invariance, PTL

(* epoll watches exactly the listening socket and the current client, each *)
(* under the number that the loop compares with.                           *)
THEOREM RegisteredExactly == Spec => []Registered
<1>1. IInv => Registered
  BY DEF IInv
<1> QED
  BY <1>1, Invariance, PTL

(* recv is only called when there is a key or the peer has gone, although  *)
(* a number may be closed and given out again within a batch.              *)
THEOREM RecvHasInput == Spec => []RecvNeverBlocks
<1>1. IInv => RecvNeverBlocks
  <2> SUFFICES ASSUME IInv, pc = "handle", events # <<>>, Branch(Head(events)) = "recv"
               PROVE  inbox[Current] # <<>> \/ peer[Current] = "gone"
    BY DEF RecvNeverBlocks
  <2>1. Head(events).fd = sockClient
    BY ClosingBranches
  <2>2. Head(events) = events[1] /\ 1 \in 1 .. Len(events)
    BY TailOfBatch DEF IInv
  <2> QED
    BY <2>1, <2>2 DEF IInv, BatchOK
<1> QED
  BY <1>1, Invariance, PTL

(* What a step may drop. *)
DropReason(c) ==
  \/ inbox[c] # <<>> /\ Head(inbox[c]) = "bye" /\ Branch(Head(events)) = "recv"
  \/ \E d \in Clients \ {c} : sockClient' # INVALID_SOCKET /\ open'[sockClient'] = d
  \/ /\ Branch(Head(events)) = "error"
     /\ Head(events).file \in Clients \ {c} /\ peer[Head(events).file] = "dropped"

LEMMA DropStep ==
  ASSUME IInv, [Next]_vars, NEW c \in Clients, peer[c] = "there", peer'[c] = "dropped"
  PROVE  DropReason(c)
<1>1. peer' # peer
  OBVIOUS
<1>2. ASSUME pc = "handle", peer' = PeerAfterClose(sockClient) PROVE c = Current
  BY <1>2, AfterClose DEF Looping
<1>3. ~ (\E d \in Clients, p \in Ports : Connect(d, p))
  BY DEF Connect, IInv, TypeOK
<1>4. ~ (\E d \in Clients : Leave(d) \/ \E k \in Keys : Type(d, k))
  BY DEF Leave, Type, IInv, TypeOK
<1>5. CASE PeerClosed
  <2>1. pc = "handle" /\ events # <<>> /\ Branch(Head(events)) = "closed"
        /\ peer' = PeerAfterClose(sockClient)
    BY <1>5 DEF PeerClosed, Handling, DropClient
  <2>2. Head(events) = events[1] /\ 1 \in 1 .. Len(events)
    BY <2>1, TailOfBatch DEF IInv
  <2>3. Head(events).fd = sockClient /\ Broken(Head(events))
    BY <2>1 DEF Branch, Ours
  <2>4. peer[Current] = "gone"
    BY <2>2, <2>3 DEF IInv, BatchOK
  <2> QED
    BY <1>2, <2>1, <2>4
<1>6. CASE SystemError
  <2>1. pc = "handle" /\ events # <<>> /\ Branch(Head(events)) = "error"
        /\ peer' = PeerAfterClose(sockClient)
    BY <1>6 DEF SystemError, Handling, DropClient
  <2>2. Head(events) = events[1] /\ 1 \in 1 .. Len(events)
    BY <2>1, TailOfBatch DEF IInv
  <2>3. Head(events).fd \notin {sockServ, sockClient}
    BY <2>1, ClosingBranches
  <2>4. Head(events).file \in Clients /\ peer[Head(events).file] = "dropped"
    BY <2>2, <2>3 DEF IInv, BatchOK
  <2> QED
    BY <2>1, <2>4 DEF DropReason
<1>7. CASE RecvBye
  <2>1. pc = "handle" /\ peer' = PeerAfterClose(sockClient) /\ Branch(Head(events)) = "recv"
        /\ inbox[Current] # <<>> /\ Head(inbox[Current]) = "bye"
    BY <1>7 DEF RecvBye, Receives, Handling, DropClient
  <2> QED
    BY <1>2, <2>1 DEF DropReason
<1>8. CASE RecvEnd
  <2>1. pc = "handle" /\ peer' = PeerAfterClose(sockClient) /\ peer[Current] = "gone"
    BY <1>8 DEF RecvEnd, Handling, DropClient
  <2> QED
    BY <1>2, <2>1
<1>9. CASE Accept
  <2>1. pc = "handle" /\ peer' = PeerAfterClose(sockClient) /\ Looping
    BY <1>9 DEF Accept, Handling, Looping
  <2>2. sockClient # INVALID_SOCKET /\ c = Current
    BY <2>1, AfterClose
  <2>3. Current \in OpenFiles
    BY <2>1, <2>2, Sockets
  <2>4. /\ sockClient' # INVALID_SOCKET /\ sockClient' \in Fds
        /\ open' = [OpenAfterClose(sockClient) EXCEPT ![sockClient'] = Head(queue[portListen])]
        /\ Head(queue[portListen]) \in Clients /\ Head(queue[portListen]) \notin OpenFiles
    BY <1>9, AcceptFacts
  <2>5. open'[sockClient'] = Head(queue[portListen])
    BY <2>4 DEF OpenAfterClose
  <2> QED
    BY <2>2, <2>3, <2>4, <2>5 DEF DropReason
<1> QED
  BY <1>1, <1>3, <1>4, <1>5, <1>6, <1>7, <1>8, <1>9
  DEF Next, Daemon, vars, peers, Start, Destory, Join, Listen, ListenFails, Test, EpollWait,
      EpollTimeout, EndOfBatch, AcceptFails, RecvKey, RecvHang, Spin

(* A client that is still there loses its place only by bye, to a newcomer *)
(* that is accepted in the same step, or to an event of the client it has  *)
(* just replaced.                                                          *)
THEOREM PlaceLostOnlyFor == Spec => DropsOnlyFor
<1>1. IInv /\ [Next]_vars =>
        [\A c \in Clients :
           peer[c] = "there" /\ peer'[c] = "dropped" =>
             \/ inbox[c] # <<>> /\ Head(inbox[c]) = "bye" /\ Branch(Head(events)) = "recv"
             \/ \E d \in Clients \ {c} : sockClient' # INVALID_SOCKET /\ open'[sockClient'] = d
             \/ /\ Branch(Head(events)) = "error"
                /\ Head(events).file \in Clients \ {c} /\ peer[Head(events).file] = "dropped"]_vars
  BY DropStep DEF DropReason
<1> QED
  BY <1>1, Invariance, PTL DEF Spec, DropsOnlyFor
=============================================================================
