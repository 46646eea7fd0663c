-------------------------- MODULE TelnetSystemProofs --------------------------
(***************************************************************************)
(* Proofs about TelnetSystem, for any number of clients, other sockets,    *)
(* descriptors, messages and pieces.                                       *)
(*                                                                         *)
(* A descriptor is a number that is given out again, so the invariant says *)
(* what stands behind a number: Placed for the table as a whole, Served    *)
(* for the number the daemon thread answers at, and Written for the one    *)
(* the log thread copied, behind which the file may have changed.          *)
(***************************************************************************)
EXTENDS TelnetSystem, SequenceTheorems, WellFoundedInduction, TLAPS

(* Which threads there are while the control thread is where it is.        *)
Phases ==
  /\ dpc = "off" <=> ctl \in {"off", "joinLog", "clear", "aborted"}
  /\ lpc = "off" <=> ctl \in {"off", "clear", "aborted"}
  /\ lpc \in {"copy", "send"} => done < batch

(* A file is behind one number at most; one that was not accepted yet is   *)
(* behind none, has got nothing and no send waits in it.                   *)
Here(f)    == \E x \in Fds : open[x] = f
Waiting(f) == peer[f] = "away" \/ \E i \in DOMAIN queue : queue[i] = f
Placed ==
  /\ \A x, y \in Fds : open[x] = open[y] /\ open[x] # None => x = y
  /\ \A i, j \in DOMAIN queue : queue[i] = queue[j] => i = j
  /\ \A i \in DOMAIN queue : peer[queue[i]] # "away"
  /\ \A f \in Files : Waiting(f) => ~Here(f) /\ got[f] = <<>>
  /\ \A s \in Sender : inside[s] # None => ~Waiting(inside[s])

(* The number the daemon thread serves is its client's.                    *)
Served ==
  /\ dpc \notin {"set", "unset"} /\ sockClient # INVALID_SOCKET => FileOf(sockClient) \in Clients
  /\ dpc \in {"closeOld", "set"} => by \in Clients /\ FileOf(newTelHandle) = by
  /\ dpc = "closeOld" => newTelHandle # sockClient
  /\ dpc \in {"lookup", "call", "reply", "bye"} => by \in Clients /\ FileOf(sockClient) = by
  /\ inside["daemon"] # None => dpc \in {"reply", "bye"} /\ inside["daemon"] = by

(* The file the log thread writes to, if it is at it, and what a file has  *)
(* got last: a connection it is not writing to has whole messages, but for *)
(* those whose sends failed on it, and the one it is writing to has all    *)
(* that was sent of the present message, and more than that only if sends  *)
(* failed, or nothing of it.  A send that waits in a file behind which the *)
(* number was closed leaves nothing in the file that has the number now.   *)
Facing  == IF lpc = "send" THEN Target("log", localSock) ELSE None
Last(f) == got[f][Len(got[f])]
Over(p)    == p[1] <= done /\ (p[2] = Chunks \/ p[1] \in failed)
Present(p) == p[1] = done + 1 /\ total <= p[2] /\ (p[2] = total \/ p[1] \in failed)
Written ==
  /\ \A f \in Files : got[f] # <<>> =>
       /\ f = Facing => peer[f] = "gone" \/ Present(Last(f)) \/ (Over(Last(f)) /\ total <= 0)
       /\ f # Facing /\ Here(f) => peer[f] = "gone" \/ Over(Last(f))
  /\ inside["log"] # None =>
       /\ lpc = "send" /\ total \in 0 .. Chunks - 1
       /\ inside["log"] # FileOf(localSock) =>
            ~Here(inside["log"]) /\ (FileOf(localSock) # None => got[FileOf(localSock)] = <<>>)

IInv == TypeOK /\ Phases /\ Placed /\ Served /\ Written /\ MessagesWhole

(* The types in three parts: the threads, what is counted, and the net.    *)
Threads ==
  /\ isRunning \in BOOLEAN /\ sockClient \in Fds \cup {INVALID_SOCKET}
  /\ table \subseteq Names /\ reg \in Names \cup {None}
  /\ ctl \in {"off", "up", "joinDaemon", "joinLog", "clear", "aborted"}
  /\ dpc \in {"off", "loop", "closeOld", "set", "lookup", "call", "reply", "bye", "close", "unset",
              "hung", "done"}
  /\ newTelHandle \in Fds \cup {INVALID_SOCKET}
  /\ by \in Clients \cup {None} /\ cmd \in Names \cup {None}
  /\ lpc \in {"off", "start", "loop", "copy", "send", "done"}
  /\ localSock \in Fds \cup {INVALID_SOCKET}
Counts ==
  /\ runs \in 0 .. MaxRuns /\ total \in -1 .. Chunks /\ cmds \in 0 .. MaxTyped
  /\ accepted \in 0 .. MaxMsgs /\ batch \in 0 .. accepted /\ done \in 0 .. batch
  /\ fails \in 0 .. MaxFails /\ failed \subseteq 1 .. MaxMsgs
Net ==
  /\ inside \in [Sender -> Files \cup {None}] /\ open \in [Fds -> Files \cup {None}]
  /\ queue \in Seq(Clients) /\ peer \in [Files -> {"away", "there", "gone", "dropped"}]
  /\ unread \in [Files -> 0 .. Room]
  /\ got \in [Files -> Seq(Piece)] /\ said \in [Files -> Nat]
-----------------------------------------------------------------------------
(* The constants, and the descriptor that is given out next.               *)
LEMMA Constants ==
  /\ Clients \subseteq Nat /\ Clients \subseteq Files /\ Strangers \subseteq Files
  /\ Clients \cap Strangers = {} /\ None \notin Files /\ None \notin Clients
  /\ Files = Clients \cup Strangers /\ "bye" \notin Names
  /\ MaxFd \in Nat /\ Chunks \in Nat /\ Chunks > 0 /\ Room \in Nat /\ Room > 0
  /\ MaxFails \in Nat /\ MaxMsgs \in Nat /\ MaxTyped \in Nat /\ MaxRuns \in Nat /\ None \notin Names
  /\ INVALID_SOCKET \notin Fds /\ Fds \subseteq Nat
BY TelnetSystemAssumption DEF Files, INVALID_SOCKET, Fds

LEMMA TypeParts == TypeOK <=> Threads /\ Counts /\ Net
BY DEF TypeOK, Threads, Counts, Net

LEMMA PartsType == Threads' /\ Counts' /\ Net' => TypeOK'
BY DEF TypeOK, Threads, Counts, Net

LEMMA LowestFree == ASSUME Free # {} PROVE Lowest(Free) \in Fds /\ open[Lowest(Free)] = None
<1>1. Free \subseteq Nat
  BY Constants DEF Free
<1>2. PICK f \in Free : \A g \in Free : ~ (<<g, f>> \in OpToRel(<, Nat))
  BY <1>1, NatLessThanWellFounded, WFMin
<1>3. ASSUME NEW g \in Free PROVE f <= g
  <2>1. <<g, f>> \notin {ss \in Nat \X Nat : ss[1] < ss[2]}
    BY <1>2 DEF OpToRel
  <2>2. <<g, f>> \in Nat \X Nat /\ <<g, f>>[1] = g /\ <<g, f>>[2] = f
    BY <1>1
  <2>3. ~ (g < f)
    BY <2>1, <2>2
  <2> QED BY <1>1, <2>3
<1>4. Lowest(Free) \in Free
  BY <1>3 DEF Lowest
<1> QED BY <1>4 DEF Free

(* What a file has got last is a piece.                                    *)
LEMMA LastIsPiece ==
  ASSUME TypeOK, NEW f \in Files, got[f] # <<>>
  PROVE  /\ Len(got[f]) \in Nat /\ Len(got[f]) > 0 /\ Last(f) \in Piece
         /\ Last(f)[1] \in Nat /\ Last(f)[2] \in 1 .. Chunks
<1>1. got[f] \in Seq(Piece)
  BY DEF TypeOK
<1>2. Len(got[f]) \in Nat /\ Len(got[f]) > 0
  BY <1>1
<1>3. Last(f) \in Piece
  BY <1>1, <1>2 DEF Last
<1> QED BY <1>2, <1>3, Constants DEF Piece

-----------------------------------------------------------------------------
(* What an action leaves alone keeps the parts of the invariant.           *)

LEMMA StillInv ==
  ASSUME IInv, UNCHANGED <<open, peer, queue, inside, got, failed>>, TypeOK', Phases', Served', Written'
  PROVE  IInv'
BY DEF IInv, Placed, Here, Waiting, MessagesWhole, Continues

LEMMA ServedFrame ==
  ASSUME Served, UNCHANGED <<open, sockClient, newTelHandle, by, dpc>>,
         inside'["daemon"] = inside["daemon"]
  PROVE  Served'
BY DEF Served, FileOf

LEMMA WrittenFrame ==
  ASSUME Written, UNCHANGED <<open, peer, got, failed, inside, lpc, localSock, total, done>>
  PROVE  Written'
BY DEF Written, Facing, Target, FileOf, Here, Last, Over, Present

(* The log thread is not at a message: every connection has whole ones.    *)
LEMMA WrittenApart ==
  ASSUME TypeOK, Written, UNCHANGED <<open, peer, got, failed, inside>>, lpc # "send", lpc' # "send",
         done' \in {done, done + 1}
  PROVE  Written'
<1>1. \A f \in Files : f # Facing /\ f # Facing'
  BY Constants DEF Facing
<1>2. inside["log"] = None
  BY DEF Written
<1>3. ASSUME NEW f \in Files, got[f] # <<>>, Over(Last(f)) PROVE Over(Last(f))'
  BY <1>3, LastIsPiece DEF Over, Present, Last, TypeOK
<1> QED BY <1>1, <1>2, <1>3 DEF Written, Here, Last

-----------------------------------------------------------------------------
LEMMA InitInv == Init => IInv
<1> SUFFICES ASSUME Init PROVE IInv
  OBVIOUS
<1> USE DEF Init
<1>1. TypeOK
  <2>1. Net
    <3>1. 0 \in 0 .. Room
      BY Constants
    <3> QED BY <3>1 DEF Net
  <2>2. Counts
    BY Constants DEF Counts
  <2>3. Threads
    BY DEF Threads
  <2> QED BY <2>1, <2>2, <2>3, TypeParts
<1>2. Phases /\ Served /\ Written
  BY Constants DEF Phases, Served, Written, Sender
<1>3. Placed
  BY Constants DEF Placed, Here, Waiting, Sender
<1>4. MessagesWhole
  <2>1. \A f \in Files : Len(got[f]) - 1 = -1
    OBVIOUS
  <2> QED BY <2>1 DEF MessagesWhole
<1> QED BY <1>1, <1>2, <1>3, <1>4 DEF IInv

(* The control thread.                                                     *)
LEMMA ControlInv ==
  ASSUME IInv,
         (\E n \in Names : RegCommand(n)) \/ RegReturns \/ Start \/ Destory
           \/ JoinDaemon \/ JoinLog \/ Clear
  PROVE  IInv'
<1> USE DEF RegCommand, RegReturns, Start, Destory, JoinDaemon, DaemonJoined, JoinLog, Clear,
            map, ctlVars, dVars, lVars, msgs, peers, net, wrote
<1>1. TypeOK'
  <2>1. Threads /\ Counts /\ Net
    BY TypeParts DEF IInv
  <2>2. Net'
    BY <2>1 DEF Net
  <2>3. Threads'
    <3>1. CASE (\E n \in Names : RegCommand(n)) \/ RegReturns
      BY <2>1, <3>1 DEF Threads
    <3>2. CASE Start
      BY <2>1, <3>2 DEF Threads
    <3>3. CASE Destory \/ JoinDaemon \/ JoinLog \/ Clear
      BY <2>1, <3>3 DEF Threads
    <3> QED BY <3>1, <3>2, <3>3
  <2>4. runs' \in 0 .. MaxRuns
    BY <2>1, Constants DEF Counts
  <2>5. Counts'
    BY <2>1, <2>4 DEF Counts
  <2> QED BY <2>2, <2>3, <2>5, PartsType
<1>2. Phases'
  BY DEF IInv, TypeOK, Phases
<1>3. Served'
  BY DEF IInv, TypeOK, Phases, Served, FileOf
<1>4. Written'
  <2>1. CASE UNCHANGED lpc
    BY <2>1, WrittenFrame DEF IInv
  <2>2. CASE lpc' # lpc
    BY <2>2, WrittenApart DEF IInv, Phases
  <2> QED BY <2>1, <2>2
<1> QED BY <1>1, <1>2, <1>3, <1>4, StillInv
-----------------------------------------------------------------------------
(* The daemon thread, where it opens and closes nothing.                   *)

LEMMA DaemonMovesInv ==
  ASSUME IInv,
         DExit \/ SetClient \/ (\E n \in Names \cup {"bye"} : Command(n)) \/ EndlessLine \/ Lookup
           \/ (LookupRaces /\ ~ ProcessEnds) \/ CallReturns \/ PeerClosed \/ UnsetClient
  PROVE  IInv'
<1> USE DEF DExit, SetClient, Types, Command, EndlessLine, Lookup, LookupRaces, CallReturns,
            PeerClosed, UnsetClient,
            map, ctlVars, dVars, lVars, msgs, peers, net, wrote
<1>1. TypeOK'
  <2>1. Threads /\ Counts /\ Net
    BY TypeParts DEF IInv
  <2>2. Net'
    BY <2>1 DEF Net
  <2>3. Threads'
    <3>1. CASE DExit \/ SetClient \/ PeerClosed \/ UnsetClient
      BY <2>1, <3>1 DEF Threads
    <3>2. CASE Lookup \/ (LookupRaces /\ ~ ProcessEnds) \/ CallReturns
      BY <2>1, <3>2 DEF Threads
    <3>3. ASSUME NEW n \in Names \cup {"bye"}, Command(n) PROVE Threads'
      <4>1. FileOf(sockClient) \in Clients /\ cmd' \in Names \cup {None}
        BY <3>3
      <4> QED BY <2>1, <3>3, <4>1 DEF Threads
    <3>4. CASE EndlessLine
      BY <2>1, <3>4 DEF Threads
    <3> QED BY <3>1, <3>2, <3>3, <3>4
  <2>4. cmds' \in 0 .. MaxTyped
    BY <2>1, Constants DEF Counts
  <2>5. Counts'
    BY <2>1, <2>4 DEF Counts
  <2> QED BY <2>2, <2>3, <2>5, PartsType
<1>2. Phases'
  <2> USE DEF IInv, Phases
  <2>1. CASE DExit \/ SetClient
    BY <2>1
  <2>2. CASE Lookup \/ (LookupRaces /\ ~ ProcessEnds) \/ CallReturns \/ PeerClosed \/ UnsetClient
    BY <2>2
  <2>3. CASE EndlessLine \/ \E n \in Names \cup {"bye"} : Command(n)
    BY <2>3
  <2> QED BY <2>1, <2>2, <2>3
<1>3. Served'
  BY Constants, SMTT(30) DEF IInv, TypeOK, Phases, Served, FileOf
<1>4. Written'
  BY WrittenFrame DEF IInv
<1> QED BY <1>1, <1>2, <1>3, <1>4, StillInv

(* The end of the process.                                                 *)
LEMMA EndsInv == ASSUME IInv, ProcessEnds PROVE IInv'
<1> USE DEF ProcessEnds, msgs, net, wrote
<1>1. TypeOK'
  <2>1. /\ inside' \in [Sender -> Files \cup {None}] /\ open' \in [Fds -> Files \cup {None}]
        /\ queue' \in Seq(Clients) /\ peer' \in [Files -> {"away", "there", "gone", "dropped"}]
    BY DEF IInv, TypeOK
  <2> QED BY <2>1 DEF IInv, TypeOK
<1>2. Phases' /\ Served'
  BY DEF Phases, Served, FileOf, Sender
<1>3. \A f \in Files : ~ Here(f)' /\ (Waiting(f)' => Waiting(f))
  BY Constants DEF Here, Waiting, IInv, TypeOK
<1>4. Placed'
  BY <1>3 DEF IInv, Placed, Sender
<1>5. Written' /\ MessagesWhole'
  BY <1>3, Constants DEF IInv, Written, Facing, Sender, MessagesWhole, Continues
<1> QED BY <1>1, <1>2, <1>4, <1>5 DEF IInv

(* The printing threads and the peers, where they only read.               *)
LEMMA CountersInv == ASSUME IInv, TelPrintf \/ (\E c \in Clients : ReadBy(c)) PROVE IInv'
<1> USE DEF TelPrintf, ReadBy, map, ctlVars, dVars, lVars, msgs, peers, net, wrote
<1>1. TypeOK'
  <2>1. CASE TelPrintf
    <3>1. accepted' \in 0 .. MaxMsgs /\ batch \in 0 .. accepted'
      BY <2>1, Constants DEF IInv, TypeOK
    <3> QED BY <2>1, <3>1 DEF IInv, TypeOK
  <2>2. ASSUME NEW c \in Clients, ReadBy(c) PROVE TypeOK'
    <3>1. unread' \in [Files -> 0 .. Room]
      <4>1. unread[c] - 1 \in 0 .. Room /\ unread \in [Files -> 0 .. Room]
        BY <2>2, Constants DEF IInv, TypeOK
      <4> QED BY <2>2, <4>1
    <3> QED BY <2>2, <3>1 DEF IInv, TypeOK
  <2> QED BY <2>1, <2>2
<1>2. Phases'
  BY DEF IInv, TypeOK, Phases
<1>3. Served'
  BY ServedFrame DEF IInv
<1>4. Written'
  BY WrittenFrame DEF IInv
<1> QED BY <1>1, <1>2, <1>3, <1>4, StillInv

-----------------------------------------------------------------------------
(* The log thread between two sends.                                       *)

LEMMA LogMovesInv == ASSUME IInv, LogBegins \/ LogSwap \/ LogExit \/ LogSkip PROVE IInv'
<1> USE DEF LogBegins, LogSwap, LogExit, LogSkip, LastOfBatch, map, ctlVars, dVars, lVars, msgs, peers, net, wrote
<1>1. TypeOK'
  <2>1. Threads /\ Counts /\ Net
    BY TypeParts DEF IInv
  <2>2. Net' /\ Threads'
    BY <2>1 DEF Net, Threads
  <2>3. accepted' = accepted /\ batch' \in 0 .. accepted' /\ done' \in 0 .. batch'
    BY DEF IInv, TypeOK, Phases
  <2>4. Counts'
    BY <2>1, <2>3 DEF Counts
  <2> QED BY <2>2, <2>4, PartsType
<1>2. Phases'
  BY DEF IInv, TypeOK, Phases
<1>3. Served'
  BY ServedFrame DEF IInv
<1>4. Written'
  BY WrittenApart DEF IInv
<1> QED BY <1>1, <1>2, <1>3, <1>4, StillInv

LEMMA LogCopyInv == ASSUME IInv, LogCopy PROVE IInv'
<1> USE DEF LogCopy, map, ctlVars, dVars, lVars, msgs, peers, net, wrote
<1>1. TypeOK'
  <2>1. Threads /\ Counts /\ Net
    BY TypeParts DEF IInv
  <2> QED BY <2>1, PartsType, Constants DEF Threads, Counts, Net
<1>2. Phases'
  BY DEF IInv, TypeOK, Phases
<1>3. Served'
  BY ServedFrame DEF IInv
<1>4. Written'
  <2>1. \A f \in Files : f # Facing
    BY Constants DEF Facing
  <2>2. inside["log"] = None /\ inside'["log"] = None
    BY DEF IInv, Written
  <2>3. \A f \in Files : f = Facing' => Here(f)
    BY <2>2, Constants DEF Facing, Target, FileOf, Here
  <2>4. \A f \in Files : /\ Here(f)' <=> Here(f)
                         /\ Last(f)' = Last(f)
                         /\ Over(Last(f))' <=> Over(Last(f))
    BY DEF Here, Last, Over, Present
  <2> QED BY <2>1, <2>2, <2>3, <2>4 DEF IInv, Written
<1> QED BY <1>1, <1>2, <1>3, <1>4, StillInv

LEMMA LogSentInv == ASSUME IInv, LogSent PROVE IInv'
<1> USE DEF LogSent, LastOfBatch, map, ctlVars, dVars, lVars, msgs, peers, net, wrote
<1>1. TypeOK'
  <2>1. Threads /\ Counts /\ Net
    BY TypeParts DEF IInv
  <2>2. Net' /\ Threads'
    BY <2>1 DEF Net, Threads
  <2>3. Counts'
    BY <2>1, Constants DEF Counts, IInv, Phases
  <2> QED BY <2>2, <2>3, PartsType
<1>2. Phases'
  BY DEF IInv, TypeOK, Phases
<1>3. Served'
  BY ServedFrame DEF IInv
<1>4. Written'
  <2>1. inside["log"] = None
    BY Constants DEF IInv, TypeOK, Written
  <2>2. \A f \in Files : f # Facing'
    BY Constants DEF Facing
  <2>3. ASSUME NEW f \in Files, got[f] # <<>>, Here(f), peer[f] # "gone"
        PROVE  Over(Last(f))'
    <3>1. Last(f)[1] \in Nat /\ Last(f)[2] \in 1 .. Chunks /\ Last(f)' = Last(f)
      BY <2>3, LastIsPiece DEF IInv, Last
    <3>2. Over(Last(f)) \/ Present(Last(f))
      BY <2>3 DEF IInv, Written
    <3>3. done' = done + 1 /\ done \in Nat /\ failed' = failed /\ total \in {-1, Chunks}
      BY Constants DEF IInv, TypeOK
    <3>4. CASE Present(Last(f))
      <4>1. Last(f)[2] = Chunks \/ Last(f)[1] \in failed
        BY <3>1, <3>3, <3>4, Constants DEF Present
      <4> QED BY <3>1, <3>3, <3>4, <4>1 DEF Present, Over
    <3> QED BY <3>1, <3>2, <3>3, <3>4 DEF Over
  <2> QED BY <2>1, <2>2, <2>3 DEF Written, Here
<1> QED BY <1>1, <1>2, <1>3, <1>4, StillInv
-----------------------------------------------------------------------------
(* A close, of whichever descriptor.                                       *)
LEMMA CloseFacts ==
  ASSUME IInv, NEW x, Close(x)
  PROVE  /\ open' \in [Fds -> Files \cup {None}]
         /\ peer' \in [Files -> {"away", "there", "gone", "dropped"}]
         /\ \A y \in Fds : open'[y] = IF y = x THEN None ELSE open[y]
         /\ \A f \in Files : /\ peer[f] = "away" <=> peer'[f] = "away"
                             /\ peer[f] = "gone" => peer'[f] = "gone"
                             /\ Here(f)' => Here(f)
                             /\ FileOf(x) = f => ~Here(f)'
         /\ \A y : FileOf(y)' = IF y = x THEN None ELSE FileOf(y)
<1> USE DEF Close
<1>1. \A y \in Fds : open'[y] = IF y = x THEN None ELSE open[y]
  OBVIOUS
<1>2. /\ open' \in [Fds -> Files \cup {None}]
      /\ peer' \in [Files -> {"away", "there", "gone", "dropped"}]
  BY <1>1 DEF IInv, TypeOK
<1>3. \A y : FileOf(y)' = IF y = x THEN None ELSE FileOf(y)
  BY <1>1 DEF FileOf
<1>4. ASSUME NEW f \in Files
      PROVE  /\ peer[f] = "away" <=> peer'[f] = "away"
             /\ peer[f] = "gone" => peer'[f] = "gone"
             /\ Here(f)' => Here(f)
             /\ FileOf(x) = f => ~Here(f)'
  <2>1. /\ peer[f] = "away" <=> peer'[f] = "away"
        /\ peer[f] = "gone" => peer'[f] = "gone"
    BY Constants DEF IInv, Placed, Here, Waiting, FileOf
  <2>2. Here(f)' => Here(f)
    BY <1>1, Constants DEF Here
  <2>3. FileOf(x) = f => ~Here(f)'
    BY <1>1, Constants DEF Here, FileOf, IInv, Placed
  <2> QED BY <2>1, <2>2, <2>3
<1> QED BY <1>1, <1>2, <1>3, <1>4

LEMMA CloseKeeps ==
  ASSUME IInv, NEW x, Close(x), UNCHANGED <<queue, got, failed, inside>>
  PROVE  Placed' /\ MessagesWhole'
<1>1. MessagesWhole'
  BY DEF IInv, MessagesWhole, Continues
<1>2. \A i \in DOMAIN queue : queue[i] \in Files
  BY Constants DEF IInv, TypeOK
<1>3. \A f \in Files : Waiting(f)' <=> Waiting(f)
  BY CloseFacts DEF Waiting
<1>4. \A y, z \in Fds : open'[y] = open'[z] /\ open'[y] # None => y = z
  BY CloseFacts DEF IInv, Placed
<1>5. \A s \in Sender : inside[s] # None => inside[s] \in Files
  BY DEF IInv, TypeOK
<1> QED BY <1>1, <1>2, <1>3, <1>4, <1>5, CloseFacts DEF IInv, Placed

LEMMA CloseWritten ==
  ASSUME IInv, NEW x, Close(x), UNCHANGED <<got, failed, inside, lpc, localSock, total, done>>
  PROVE  Written'
<1>1. \A f \in Files : Last(f)' = Last(f) /\ (Over(Last(f))' <=> Over(Last(f))) /\ (Present(Last(f))' <=> Present(Last(f)))
  BY DEF Last, Over, Present
<1>2. ASSUME NEW f \in Files
      PROVE  /\ f = Facing' => f = Facing
             /\ f = Facing /\ f # Facing' => ~Here(f)'
  BY CloseFacts, Constants DEF Facing, Target
<1>3. inside["log"] # None => inside["log"] \in Files
  BY DEF IInv, TypeOK, Sender
<1>4. \A f \in Files : /\ peer[f] = "gone" => peer'[f] = "gone"
                       /\ Here(f)' => Here(f)
  BY CloseFacts
<1>5. ASSUME NEW f \in Files, got'[f] # <<>>
      PROVE  /\ f = Facing' => peer'[f] = "gone" \/ Present(Last(f))'
                                 \/ (Over(Last(f))' /\ total' <= 0)
             /\ f # Facing' /\ Here(f)' => peer'[f] = "gone" \/ Over(Last(f))'
  BY <1>1, <1>2, <1>4, <1>5 DEF IInv, Written
<1>6. ASSUME inside["log"] # None
      PROVE  /\ lpc = "send" /\ total \in 0 .. Chunks - 1
             /\ inside["log"] # FileOf(localSock)' =>
                  /\ ~Here(inside["log"])'
                  /\ FileOf(localSock)' # None => got[FileOf(localSock)'] = <<>>
  BY <1>3, <1>6, CloseFacts DEF IInv, Written
<1> QED BY <1>5, <1>6 DEF Written

LEMMA CloseInv ==
  ASSUME IInv, CloseOld \/ CloseClient \/ (\E s \in Strangers : CloseOther(s))
  PROVE  IInv'
<1> USE DEF map, ctlVars, dVars, lVars, msgs, net, wrote
<1>1. PICK x : Close(x)
  BY DEF CloseOld, CloseClient, CloseOther
<1>2. UNCHANGED <<queue, got, failed, inside, lpc, localSock, total, done>>
  BY DEF CloseOld, CloseClient, CloseOther
<1>3. Placed' /\ MessagesWhole' /\ Written'
  BY <1>1, <1>2, CloseKeeps, CloseWritten
<1>4. TypeOK'
  <2>1. Threads /\ Counts /\ Net
    BY TypeParts DEF IInv
  <2>2. Net'
    BY <1>1, <2>1, CloseFacts DEF Net, CloseOld, CloseClient, CloseOther, IInv
  <2>3. /\ UNCHANGED <<isRunning, sockClient, map, ctlVars, newTelHandle, by, cmd, lVars, msgs, cmds, wrote>>
        /\ dpc' \in {dpc, "set", "unset"}
    BY DEF CloseOld, CloseClient, CloseOther
  <2>4. Threads'
    BY <2>1, <2>3 DEF Threads
  <2>5. Counts'
    BY <2>1, <2>3 DEF Counts
  <2> QED BY <2>2, <2>4, <2>5, PartsType
<1>5. Phases'
  BY DEF IInv, TypeOK, Phases, CloseOld, CloseClient, CloseOther
<1>6. Served'
  <2>1. CASE CloseOld
    <3>1. FileOf(newTelHandle)' = FileOf(newTelHandle)
      BY <2>1, CloseFacts DEF CloseOld, OldClient, IInv, Served
    <3> QED BY <2>1, <3>1 DEF CloseOld, IInv, Served
  <2>2. CASE CloseClient
    BY <2>2 DEF CloseClient, IInv, Served
  <2>3. ASSUME NEW s \in Strangers, CloseOther(s) PROVE Served'
    <3>1. PICK y \in Fds : open[y] = s /\ Close(y)
      BY <2>3 DEF CloseOther
    <3>2. \A z : FileOf(z) \in Clients => FileOf(z)' = FileOf(z)
      BY <3>1, CloseFacts, Constants DEF FileOf
    <3>3. UNCHANGED <<sockClient, newTelHandle, by, dpc, inside>>
      BY <2>3 DEF CloseOther
    <3> QED BY <3>2, <3>3 DEF IInv, Served, FileOf
  <2> QED BY <2>1, <2>2, <2>3
<1> QED BY <1>3, <1>4, <1>5, <1>6 DEF IInv
-----------------------------------------------------------------------------
(* A descriptor is given out, for a connection or for another socket: the  *)
(* file it goes to has got nothing so far, also when the log thread still  *)
(* sends to that number.                                                   *)
Opens(n, c) ==
  /\ n \in Fds /\ open[n] = None /\ c \in Files /\ Waiting(c)
  /\ open' = [open EXCEPT ![n] = c]
  /\ \A f \in Files \ {c} : peer'[f] = peer[f]

LEMMA OpenFacts ==
  ASSUME IInv, NEW n, NEW c, Opens(n, c)
  PROVE  /\ open' \in [Fds -> Files \cup {None}]
         /\ \A y \in Fds : open'[y] = IF y = n THEN c ELSE open[y]
         /\ \A y : FileOf(y)' = IF y = n THEN c ELSE FileOf(y)
         /\ \A f \in Files : Here(f)' <=> (f = c \/ Here(f))
         /\ \A y, z \in Fds : open'[y] = open'[z] /\ open'[y] # None => y = z
         /\ ~Here(c) /\ got[c] = <<>>
<1> USE DEF Opens
<1>1. \A y \in Fds : open'[y] = IF y = n THEN c ELSE open[y]
  BY DEF IInv, TypeOK
<1>2. open' \in [Fds -> Files \cup {None}]
  BY DEF IInv, TypeOK
<1>3. \A y : FileOf(y)' = IF y = n THEN c ELSE FileOf(y)
  BY <1>1 DEF FileOf
<1>4. ~Here(c) /\ got[c] = <<>>
  BY DEF IInv, Placed
<1>5. \A f \in Files : Here(f)' <=> (f = c \/ Here(f))
  BY <1>1, Constants DEF Here
<1>6. \A y, z \in Fds : open'[y] = open'[z] /\ open'[y] # None => y = z
  BY <1>1, <1>4 DEF IInv, Placed, Here
<1> QED BY <1>1, <1>2, <1>3, <1>4, <1>5, <1>6

LEMMA OpenWritten ==
  ASSUME IInv, NEW n, NEW c, Opens(n, c), UNCHANGED <<got, failed, inside, lpc, localSock, total, done>>
  PROVE  Written'
<1>1. \A f \in Files : Last(f)' = Last(f) /\ (Over(Last(f))' <=> Over(Last(f))) /\ (Present(Last(f))' <=> Present(Last(f)))
  BY DEF Last, Over, Present
<1>2. \A f \in Files \ {c} : /\ f = Facing' => f = Facing
                             /\ f = Facing => f = Facing'
  BY OpenFacts, Constants DEF Facing, Target, FileOf, Opens
<1>3. inside["log"] # None => inside["log"] \in Files /\ inside["log"] # c
  BY DEF IInv, TypeOK, Placed, Sender, Opens
<1>4. ASSUME NEW f \in Files, got'[f] # <<>>
      PROVE  /\ f = Facing' => peer'[f] = "gone" \/ Present(Last(f))'
                                 \/ (Over(Last(f))' /\ total' <= 0)
             /\ f # Facing' /\ Here(f)' => peer'[f] = "gone" \/ Over(Last(f))'
  <2>1. f # c
    BY <1>4, OpenFacts
  <2>2. peer'[f] = peer[f]
    BY <2>1 DEF Opens
  <2> QED BY <1>1, <1>2, <1>4, <2>1, <2>2, OpenFacts DEF IInv, Written
<1>5. ASSUME inside["log"] # None
      PROVE  /\ lpc = "send" /\ total \in 0 .. Chunks - 1
             /\ inside["log"] # FileOf(localSock)' =>
                  /\ ~Here(inside["log"])'
                  /\ FileOf(localSock)' # None => got[FileOf(localSock)'] = <<>>
  <2>1. inside["log"] # FileOf(localSock)' =>
           inside["log"] # FileOf(localSock) \/ FileOf(localSock) # FileOf(localSock)'
    OBVIOUS
  <2>2. FileOf(localSock) # FileOf(localSock)' => FileOf(localSock) = None
    BY OpenFacts DEF FileOf, Opens
  <2> QED BY <1>3, <1>5, <2>1, <2>2, OpenFacts DEF IInv, Written
<1> QED BY <1>4, <1>5 DEF Written

LEMMA AcceptInv == ASSUME IInv, Accept PROVE IInv'
<1> USE DEF Accept, map, ctlVars, dVars, lVars, msgs, net, wrote
<1>1. PICK n \in Fds : n = Lowest(Free) /\ open[n] = None
  BY LowestFree
<1>0. PICK c \in Clients : c = Head(queue)
  BY HeadTailProperties, Zenon DEF IInv, TypeOK
<1>2. /\ queue \in Seq(Clients) /\ Len(queue) \in Nat /\ Len(queue) > 0 /\ c = queue[1]
      /\ queue' \in Seq(Clients) /\ DOMAIN queue' = 1 .. Len(queue) - 1
      /\ DOMAIN queue = 1 .. Len(queue)
      /\ \A i \in 1 .. Len(queue) - 1 : queue'[i] = queue[i + 1]
  BY <1>0 DEF IInv, TypeOK
<1>3. c \in Clients /\ c \in Files /\ 1 \in DOMAIN queue
  BY <1>2, Constants
<1>4. Waiting(c)
  BY <1>2, <1>3 DEF Waiting
<1>5. Opens(n, c)
  BY <1>1, <1>0, <1>3, <1>4 DEF Opens
<1>6. \A i \in DOMAIN queue' : i + 1 \in DOMAIN queue /\ queue'[i] = queue[i + 1] /\ i + 1 # 1
  BY <1>2
<1>7. TypeOK'
  BY <1>1, <1>2, <1>3, <1>5, <1>0, OpenFacts DEF IInv, TypeOK
<1>8. Phases'
  BY DEF IInv, Phases
<1>9. Placed'
  <2>1. ASSUME NEW f \in Files, Waiting(f)' PROVE f # c /\ Waiting(f)
    <3>1. CASE peer[f] = "away"
      BY <1>2, <1>3, <3>1 DEF IInv, Placed, Waiting
    <3>2. CASE \E i \in DOMAIN queue' : queue'[i] = f
      BY <1>2, <1>3, <1>6, <3>2 DEF IInv, Placed, Waiting
    <3> QED BY <2>1, <3>1, <3>2 DEF Waiting
  <2>2. \A i, j \in DOMAIN queue' : queue'[i] = queue'[j] => i = j
    BY <1>2, <1>6 DEF IInv, Placed
  <2>3. \A s \in Sender : inside[s] # None => inside[s] \in Files
    BY DEF IInv, TypeOK
  <2> QED BY <1>5, <1>6, <2>1, <2>2, <2>3, OpenFacts DEF IInv, Placed
<1>10. Served'
  <2>1. newTelHandle' = n /\ by' = c
    BY <1>1, <1>0
  <2>2. FileOf(n) = None /\ FileOf(n)' = c
    BY <1>1, <1>5, OpenFacts DEF FileOf
  <2>3. ASSUME sockClient # INVALID_SOCKET
        PROVE  n # sockClient /\ FileOf(sockClient)' = FileOf(sockClient)
    <3>1. FileOf(sockClient) # None
      BY <2>3, Constants DEF IInv, Served
    <3>2. n # sockClient
      BY <2>2, <3>1
    <3> QED BY <1>5, <3>2, OpenFacts
  <2>4. sockClient' = sockClient /\ inside' = inside /\ inside["daemon"] = None
    BY DEF IInv, Served
  <2> QED BY <1>3, <2>1, <2>2, <2>3, <2>4 DEF IInv, Served
<1>11. Written' /\ MessagesWhole'
  BY <1>5, OpenWritten DEF IInv, MessagesWhole, Continues
<1> QED BY <1>7, <1>8, <1>9, <1>10, <1>11 DEF IInv

LEMMA OpenOtherInv == ASSUME IInv, NEW t \in Strangers, OpenOther(t) PROVE IInv'
<1> USE DEF OpenOther, map, ctlVars, dVars, lVars, msgs, net, wrote
<1>1. PICK n \in Fds : n = Lowest(Free) /\ open[n] = None
  BY LowestFree
<1>2. t \in Files /\ t \notin Clients /\ Waiting(t)
  BY Constants DEF Waiting
<1>3. Opens(n, t)
  BY <1>1, <1>2 DEF Opens, IInv, TypeOK
<1>4. TypeOK'
  BY <1>2, <1>3, OpenFacts DEF IInv, TypeOK
<1>5. Phases'
  BY DEF IInv, Phases
<1>6. Placed'
  <2>1. \A i \in DOMAIN queue : queue[i] \in Clients
    BY DEF IInv, TypeOK
  <2>2. \A f \in Files : peer'[f] = IF f = t THEN "there" ELSE peer[f]
    BY <1>2 DEF IInv, TypeOK
  <2>3. \A f \in Files : Waiting(f)' => f # t /\ Waiting(f)
    BY <1>2, <2>1, <2>2 DEF Waiting
  <2>4. \A s \in Sender : inside[s] # None => inside[s] \in Files
    BY DEF IInv, TypeOK
  <2>5. \A f \in Files : Waiting(f)' => ~ Here(f)' /\ got'[f] = <<>>
    BY <1>2, <1>3, <2>3, OpenFacts DEF IInv, Placed
  <2>6. queue' = queue /\ inside' = inside /\ \A f \in Files : ~ Waiting(f) => ~ Waiting(f)'
    BY <2>3
  <2>7. ASSUME NEW s \in Sender, inside[s] # None PROVE ~ Waiting(inside[s])'
    <3>1. PICK f \in Files : f = inside[s] /\ ~ Waiting(f)
      BY <2>4, <2>7 DEF IInv, Placed
    <3>2. ~ Waiting(f)'
      BY <2>6, <3>1
    <3>3. inside' = inside
      OBVIOUS
    <3> QED BY <3>1, <3>2, <3>3 DEF Waiting
  <2>8. \A i \in DOMAIN queue : peer'[queue[i]] # "away"
    BY <2>1, <2>2, Constants DEF IInv, Placed
  <2>9. \A a, b \in Fds : open'[a] = open'[b] /\ open'[a] # None => a = b
    BY <1>3, OpenFacts
  <2>10. \A i, j \in DOMAIN queue : queue[i] = queue[j] => i = j
    BY DEF IInv, Placed
  <2>11. \A s \in Sender : inside[s] # None => ~ Waiting(inside[s])'
    BY <2>7
  <2> QED BY <2>5, <2>6, <2>8, <2>9, <2>10, <2>11 DEF Placed
<1>7. Served'
  <2>1. \A z : FileOf(z) # None => FileOf(z)' = FileOf(z)
    BY <1>1, <1>3, OpenFacts DEF FileOf
  <2>2. FileOf(sockClient) \in Clients => FileOf(sockClient) # None
    BY Constants
  <2> QED BY <2>1, <2>2, Constants DEF IInv, Served
<1>8. Written' /\ MessagesWhole'
  BY <1>3, OpenWritten DEF IInv, MessagesWhole, Continues
<1> QED BY <1>4, <1>5, <1>6, <1>7, <1>8 DEF IInv
-----------------------------------------------------------------------------
(* The peers.                                                              *)

LEMMA ConnectInv == ASSUME IInv, NEW c \in Clients, Connect(c) PROVE IInv'
<1> USE DEF Connect, map, ctlVars, dVars, lVars, msgs, net, wrote
<1>1. /\ queue \in Seq(Clients) /\ Len(queue) \in Nat /\ queue' \in Seq(Clients)
      /\ DOMAIN queue = 1 .. Len(queue) /\ DOMAIN queue' = 1 .. Len(queue) + 1
      /\ \A i \in DOMAIN queue : queue'[i] = queue[i] /\ queue[i] # c
      /\ queue'[Len(queue) + 1] = c
  <2>1. queue \in Seq(Clients) /\ Len(queue) \in Nat /\ queue' \in Seq(Clients)
        /\ DOMAIN queue = 1 .. Len(queue) /\ DOMAIN queue' = 1 .. Len(queue) + 1
        /\ queue'[Len(queue) + 1] = c /\ \A i \in DOMAIN queue : queue'[i] = queue[i]
    BY DEF IInv, TypeOK
  <2> QED BY <2>1 DEF IInv, Placed
<1>2. c \in Files /\ Waiting(c) /\ \A f \in Files : peer'[f] = IF f = c THEN "there" ELSE peer[f]
  BY Constants DEF IInv, TypeOK, Waiting
<1>3. \A i \in DOMAIN queue' : i \in DOMAIN queue \/ i = Len(queue) + 1
  BY <1>1
<1>4. TypeOK'
  <2>1. peer' \in [Files -> {"away", "there", "gone", "dropped"}]
    BY DEF IInv, TypeOK
  <2> QED BY <1>1, <2>1 DEF IInv, TypeOK
<1>5. Phases' /\ Served' /\ MessagesWhole'
  BY ServedFrame DEF IInv, Phases, MessagesWhole, Continues
<1>6. Placed'
  <2>1. \A f \in Files : Waiting(f)' <=> Waiting(f)
    BY <1>1, <1>2, <1>3 DEF Waiting
  <2>2. ASSUME NEW i \in DOMAIN queue' PROVE peer'[queue'[i]] # "away"
    <3>1. CASE i \in DOMAIN queue
      <4>1. queue[i] \in Files /\ queue'[i] = queue[i] /\ peer[queue[i]] # "away"
        BY <1>1, <3>1, Constants DEF IInv, Placed
      <4> QED BY <1>2, <4>1
    <3>2. CASE i = Len(queue) + 1
      <4>1. queue'[i] = c /\ peer'[c] = "there"
        BY <1>1, <1>2, <3>2
      <4> QED BY <4>1
    <3> QED BY <1>3, <3>1, <3>2
  <2>3. \A i, j \in DOMAIN queue' : queue'[i] = queue'[j] => i = j
    BY <1>1, <1>3 DEF IInv, Placed
  <2>4. \A s \in Sender : inside[s] # None => inside[s] \in Files
    BY DEF IInv, TypeOK
  <2> QED BY <2>1, <2>2, <2>3, <2>4 DEF IInv, Placed, Here
<1>7. Written'
  <2>1. got[c] = <<>>
    BY <1>2 DEF IInv, Placed
  <2>2. \A f \in Files : f # c => peer'[f] = peer[f]
    BY <1>2
  <2> QED BY <2>1, <2>2 DEF IInv, Written, Facing, Target, FileOf, Here, Last, Over, Present
<1> QED BY <1>4, <1>5, <1>6, <1>7 DEF IInv

LEMMA LeaveInv == ASSUME IInv, NEW c \in Clients, Leave(c) PROVE IInv'
<1> USE DEF Leave, map, ctlVars, dVars, lVars, msgs, wrote
<1>1. \A f \in Files : peer'[f] = IF f = c THEN "gone" ELSE peer[f]
  BY DEF IInv, TypeOK
<1>2. TypeOK'
  BY Constants, SMTT(30) DEF IInv, TypeOK
<1>3. Phases' /\ Served' /\ MessagesWhole'
  BY ServedFrame DEF IInv, Phases, MessagesWhole, Continues
<1>4. Placed'
  <2>1. \A f \in Files : Waiting(f)' <=> Waiting(f)
    BY <1>1 DEF Waiting
  <2>2. \A i \in DOMAIN queue : queue[i] \in Files
    BY Constants DEF IInv, TypeOK
  <2>3. \A s \in Sender : inside[s] # None => inside[s] \in Files
    BY DEF IInv, TypeOK
  <2> QED BY <1>1, <2>1, <2>2, <2>3 DEF IInv, Placed, Here
<1>5. Written'
  BY <1>1 DEF IInv, Written, Facing, Target, FileOf, Here, Last, Over, Present
<1> QED BY <1>2, <1>3, <1>4, <1>5 DEF IInv

-----------------------------------------------------------------------------
(* The sends.                                                              *)

(* What a send leaves alone, and that it comes back or goes on waiting in  *)
(* the file behind the number.                                             *)
LEMMA SendPlaced ==
  ASSUME IInv, NEW s \in Sender, NEW f, inside' \in {[inside EXCEPT ![s] = None],
                                                    [inside EXCEPT ![s] = FileOf(f)]},
         UNCHANGED <<open, queue, peer>>,
         \A g \in Files : Waiting(g) => got'[g] = got[g]
  PROVE  Placed'
<1>1. \A g \in Files : (Waiting(g)' <=> Waiting(g)) /\ (Here(g)' <=> Here(g))
  BY DEF Waiting, Here
<1>2. FileOf(f) # None => FileOf(f) \in Files /\ Here(FileOf(f))
  BY DEF FileOf, Here, IInv, TypeOK
<1>3. FileOf(f) # None => ~Waiting(FileOf(f))
  BY <1>2 DEF IInv, Placed
<1>4. \A r \in Sender : inside[r] # None => inside[r] \in Files
  BY DEF IInv, TypeOK
<1>5. \A r \in Sender : inside'[r] = inside[r] \/ inside'[r] = None \/ inside'[r] = FileOf(f)
  BY DEF IInv, TypeOK
<1>6. \A r \in Sender : inside'[r] # None => inside'[r] \in Files /\ ~Waiting(inside'[r])
  BY <1>2, <1>3, <1>4, <1>5 DEF IInv, Placed
<1> QED BY <1>1, <1>6 DEF IInv, Placed

LEMMA ReplyInv == ASSUME IInv, Reply PROVE IInv'
<1> USE DEF Reply, map, ctlVars, dVars, lVars, msgs, peers
<1> DEFINE file == Target("daemon", sockClient)
<1>1. file = by /\ by \in Clients /\ by \in Files /\ FileOf(sockClient) = by
  BY Constants DEF IInv, Served, Target
<1>2. got' = got /\ failed' = failed /\ fails' \in 0 .. MaxFails /\ said' \in [Files -> Nat]
  <2>1. got' = got /\ failed' = failed
    BY DEF Writes, Fails, Blocks, net, wrote
  <2>2. fails' \in 0 .. MaxFails
    BY Constants DEF Writes, Fails, Blocks, net, wrote, IInv, TypeOK
  <2>3. said' = said \/ said' = [said EXCEPT ![by] = said[by] + 1]
    BY <1>1 DEF Fails, Blocks, net, wrote
  <2>4. said' \in [Files -> Nat]
    <3>1. said \in [Files -> Nat] /\ said[by] + 1 \in Nat
      BY <1>1 DEF IInv, TypeOK
    <3> QED BY <2>3, <3>1
  <2> QED BY <2>1, <2>2, <2>4
<1>3. /\ inside' \in {[inside EXCEPT !["daemon"] = None], [inside EXCEPT !["daemon"] = FileOf(sockClient)]}
      /\ inside' \in [Sender -> Files \cup {None}] /\ inside'["log"] = inside["log"]
      /\ inside'["daemon"] # None => inside'["daemon"] = by /\ dpc' = dpc /\ by' = by /\ cmd' = cmd
  <2>1. inside' \in {[inside EXCEPT !["daemon"] = None], [inside EXCEPT !["daemon"] = FileOf(sockClient)]}
    BY DEF Writes, Fails, Blocks
  <2>2. inside' = [inside EXCEPT !["daemon"] = None] \/ (dpc' = dpc /\ by' = by /\ cmd' = cmd)
    BY DEF Writes, Fails, Blocks
  <2> QED BY <1>1, <2>1, <2>2 DEF IInv, TypeOK, Sender
<1>4. unread' \in [Files -> 0 .. Room]
  <2>1. CASE Writes("daemon", sockClient)
    <3>1. unread[by] + 1 \in 0 .. Room /\ 0 \in 0 .. Room
      BY <1>1, <2>1, Constants DEF Writes, IInv, TypeOK
    <3> QED BY <1>1, <2>1, <3>1 DEF Writes, IInv, TypeOK
  <2>2. CASE Fails("daemon", sockClient) \/ Blocks("daemon", sockClient)
    BY <2>2 DEF Fails, Blocks, net, IInv, TypeOK
  <2> QED BY <2>1, <2>2
<1>5. TypeOK'
  <2>1. Threads /\ Counts /\ Net
    BY TypeParts DEF IInv
  <2>2. Net'
    BY <1>2, <1>3, <1>4, <2>1 DEF Net
  <2>3. Counts'
    BY <1>2, <2>1 DEF Counts
  <2>4. dpc' \in {"reply", "bye", "close", "loop"} /\ by' \in {by, None} /\ cmd' \in {cmd, None}
    OBVIOUS
  <2>5. Threads'
    BY <2>1, <2>4 DEF Threads
  <2> QED BY <2>2, <2>3, <2>5, PartsType
<1>6. Phases'
  BY DEF IInv, Phases
<1>7. Placed' /\ MessagesWhole'
  <2>1. PICK f : f = sockClient
    OBVIOUS
  <2>2. Placed'
    BY <1>2, <1>3, <2>1, SendPlaced DEF Sender
  <2> QED BY <1>2, <2>2 DEF IInv, MessagesWhole, Continues
<1>8. Served'
  BY <1>1, <1>3, Constants DEF IInv, Served, FileOf
<1>9. Written'
  BY <1>2, <1>3 DEF IInv, Written, Facing, Target, FileOf, Here, Last, Over, Present
<1> QED BY <1>5, <1>6, <1>7, <1>8, <1>9 DEF IInv

LEMMA LogSendInv == ASSUME IInv, LogSend PROVE IInv'
<1> USE DEF LogSend, map, ctlVars, dVars, msgs, peers, net, wrote
<1>1. PICK file \in Files \cup {None} : file = Target("log", localSock) /\ file = Facing
  BY DEF IInv, TypeOK, Target, FileOf, Facing, Sender
<1>2. PICK x : x = localSock /\ x = localSock'
  OBVIOUS
<1>3. /\ FileOf(x)' = FileOf(x) /\ FileOf(x) \in Files \cup {None}
      /\ \A f \in Files : (Here(f)' <=> Here(f)) /\ (Waiting(f)' <=> Waiting(f))
  BY DEF FileOf, Here, Waiting, IInv, TypeOK
<1>4. /\ inside["log"] = None => file = FileOf(x)
      /\ FileOf(x) # file => /\ inside["log"] = file /\ file \in Files /\ ~Here(file)
                             /\ FileOf(x) # None => got[FileOf(x)] = <<>>
      /\ file # None => ~Waiting(file)
  <2>1. inside["log"] = None => file = FileOf(x)
    BY <1>1, <1>2 DEF Target
  <2>2. inside["log"] # None => file = inside["log"] /\ file \in Files /\ ~Waiting(file)
    BY <1>1 DEF Target, IInv, TypeOK, Placed, Sender
  <2>3. FileOf(x) \in Files => ~Waiting(FileOf(x))
    BY Constants DEF IInv, Placed, Here, FileOf
  <2>4. file # None => ~Waiting(file)
    BY <1>3, <2>1, <2>2, <2>3
  <2>5. ASSUME FileOf(x) # file
        PROVE  /\ inside["log"] = file /\ file \in Files /\ ~Here(file)
               /\ FileOf(x) # None => got[FileOf(x)] = <<>>
    <3>1. inside["log"] # None /\ inside["log"] = file /\ file \in Files
      BY <2>1, <2>2, <2>5
    <3>2. inside["log"] # FileOf(localSock)
      BY <1>2, <2>5, <3>1
    <3> QED BY <1>2, <3>1, <3>2 DEF IInv, Written
  <2> QED BY <2>1, <2>4, <2>5
<1>5. /\ inside' \in {[inside EXCEPT !["log"] = None], [inside EXCEPT !["log"] = FileOf(x)]}
      /\ inside' \in [Sender -> Files \cup {None}] /\ inside'["daemon"] = inside["daemon"]
  <2>1. inside' \in {[inside EXCEPT !["log"] = None], [inside EXCEPT !["log"] = FileOf(x)]}
    BY <1>2 DEF Writes, Fails, Blocks
  <2> QED BY <1>3, <2>1 DEF IInv, TypeOK, Sender
<1>6. Phases' /\ Served'
  BY <1>5, ServedFrame DEF IInv, Phases
<1>7. total \in 0 .. Chunks - 1 /\ total' \in -1 .. Chunks /\ done \in Nat /\ done + 1 \in 1 .. MaxMsgs
  BY Constants, SMTT(30) DEF IInv, TypeOK, Phases, OneBack
<1>8. CASE /\ Writes("log", localSock)
           /\ got' = [got EXCEPT ![Target("log", localSock)] = Append(got[Target("log", localSock)], NextPiece)]
           /\ total' = total + 1
           /\ UNCHANGED said
  <2> DEFINE q == <<done + 1, total + 1>>
             Len0 == Len(got[file])
  <2>1. /\ file \in Files /\ peer[file] # "gone" /\ unread[file] < Room
        /\ got' = [got EXCEPT ![file] = Append(got[file], q)]
        /\ unread' = [unread EXCEPT ![file] = IF file \in Strangers THEN 0 ELSE unread[file] + 1]
        /\ inside' = [inside EXCEPT !["log"] = None]
        /\ UNCHANGED <<said, fails, failed>>
    BY <1>1, <1>8 DEF Writes, Broken, NextPiece
  <2>2. q \in Piece
    BY <1>7, Constants DEF Piece
  <2>3. /\ got[file] \in Seq(Piece) /\ Append(got[file], q) \in Seq(Piece) /\ Len0 \in Nat
        /\ Len(Append(got[file], q)) = Len0 + 1 /\ Append(got[file], q)[Len0 + 1] = q
        /\ \A i \in 1 .. Len0 : Append(got[file], q)[i] = got[file][i]
    BY <2>1, <2>2 DEF IInv, TypeOK
  <2>4. /\ got' \in [Files -> Seq(Piece)] /\ got'[file] = Append(got[file], q)
        /\ \A f \in Files \ {file} : got'[f] = got[f]
    BY <2>1, <2>3 DEF IInv, TypeOK
  <2>5. TypeOK'
    <3>1. unread' \in [Files -> 0 .. Room]
      <4>1. PICK v \in 0 .. Room : v = IF file \in Strangers THEN 0 ELSE unread[file] + 1
        BY <2>1, Constants DEF IInv, TypeOK
      <4>2. unread' = [unread EXCEPT ![file] = v]
        BY <2>1, <4>1
      <4> QED BY <2>1, <4>2 DEF IInv, TypeOK
    <3>2. Threads /\ Counts /\ Net
      BY TypeParts DEF IInv
    <3>3. Net'
      BY <1>5, <2>1, <2>4, <3>1, <3>2 DEF Net
    <3>4. Threads' /\ Counts'
      BY <1>7, <2>1, <3>2 DEF Threads, Counts
    <3> QED BY <3>3, <3>4, PartsType
  <2>6. Placed'
    <3>1. \A g \in Files : Waiting(g) => got'[g] = got[g]
      BY <1>4, <2>1, <2>4, Constants
    <3>2. UNCHANGED <<open, queue, peer>> /\ "log" \in Sender
      BY DEF Sender
    <3> QED BY <1>5, <3>1, <3>2, SendPlaced
  <2>7. got[file] # <<>> => Present(Last(file)) \/ (Over(Last(file)) /\ total <= 0)
    BY <1>1, <2>1 DEF IInv, Written
  <2>8. MessagesWhole'
    <3>1. ASSUME got[file] # <<>> PROVE Continues(Last(file), q)
      <4>1. Last(file) \in Piece /\ Last(file)[1] \in Nat /\ Last(file)[2] \in 1 .. Chunks
            /\ Last(file) = <<Last(file)[1], Last(file)[2]>>
        BY <2>1, <3>1, LastIsPiece DEF IInv, Piece
      <4>2. q[1] = done + 1 /\ q[2] = total + 1
        OBVIOUS
      <4> HIDE DEF q
      <4>3. CASE Present(Last(file))
        <5>1. CASE Last(file)[2] = total
          BY <4>1, <4>2, <4>3, <5>1 DEF Present, Continues, Follows, q
        <5>2. CASE Last(file)[2] # total
          <6>1. Last(file)[1] \in failed /\ Last(file)[1] = q[1] /\ q[2] <= Last(file)[2]
            BY <1>7, <4>1, <4>2, <4>3, <5>2, Constants DEF Present
          <6> QED BY <6>1 DEF Continues, GoesBack
        <5> QED BY <5>1, <5>2
      <4>4. CASE Over(Last(file)) /\ total <= 0
        <5>1. q[2] = 1 /\ Last(file)[1] < q[1]
          BY <1>7, <4>1, <4>2, <4>4, Constants DEF Over
        <5> QED BY <4>4, <5>1 DEF Over, Continues, Follows, GoesBack
      <4> QED BY <2>7, <3>1, <4>3, <4>4
    <3>2. ASSUME NEW i \in 1 .. Len(got'[file]) - 1 PROVE Continues(got'[file][i], got'[file][i + 1])
      <4>1. CASE i = Len0
        <5>1. got[file] # <<>>
          BY <2>3, <2>4, <3>2, <4>1
        <5> QED BY <2>3, <2>4, <3>1, <3>2, <4>1, <5>1 DEF Last
      <4>2. CASE i # Len0
        <5>1. i \in 1 .. Len0 - 1 /\ i \in 1 .. Len0 /\ i + 1 \in 1 .. Len0
          BY <2>3, <2>4, <3>2, <4>2
        <5> QED BY <2>1, <2>3, <2>4, <5>1 DEF IInv, MessagesWhole
      <4> QED BY <4>1, <4>2
    <3>3. \A f \in Files \ {file} : \A i \in 1 .. Len(got'[f]) - 1 : Continues(got'[f][i], got'[f][i + 1])
      BY <2>4 DEF IInv, MessagesWhole
    <3>4. \A p1, q1 : Continues(p1, q1)' <=> Continues(p1, q1)
      BY <2>1 DEF Continues, Follows, GoesBack
    <3> QED BY <3>2, <3>3, <3>4 DEF MessagesWhole
  <2>9. Written'
    <3>1. inside'["log"] = None /\ Facing' = FileOf(x)
      BY <1>2, <1>3, <2>1 DEF IInv, TypeOK, Facing, Target, Sender
    <3>2. got'[file] # <<>> /\ Present(Last(file))'
      <4>1. Len(got'[file]) = Len0 + 1 /\ got'[file][Len0 + 1] = q
        BY <2>3, <2>4
      <4>2. got'[file] # <<>> /\ Last(file)' = q
        BY <2>3, <4>1 DEF Last
      <4>3. q = <<done' + 1, total'>>
        BY <1>8
      <4>4. total' \in Int
        BY <1>7
      <4> HIDE DEF q
      <4> QED BY <4>2, <4>3, <4>4 DEF Present
    <3>3. \A f \in Files \ {file} : Last(f)' = Last(f) /\ (Over(Last(f))' <=> Over(Last(f)))
      BY <2>1, <2>4 DEF Last, Over
    <3>4. \A f \in Files \ {file} : got'[f] # <<>> => f # Facing /\ f # FileOf(x)
      <4> SUFFICES ASSUME NEW f \in Files \ {file}, got'[f] # <<>> PROVE f # FileOf(x)
        BY <1>1
      <4>1. got[f] # <<>> /\ f # None
        BY <2>4, Constants
      <4> QED BY <1>4, <4>1
    <3>5. UNCHANGED <<done, peer>>
      OBVIOUS
    <3>6. ASSUME NEW f \in Files, got'[f] # <<>>
          PROVE  /\ f = Facing' => peer'[f] = "gone" \/ Present(Last(f))'
                                     \/ (Over(Last(f))' /\ total' <= 0)
                 /\ f # Facing' /\ Here(f)' => peer'[f] = "gone" \/ Over(Last(f))'
      <4>1. CASE f = file
        <5>1. f = Facing' \/ ~Here(f)'
          BY <1>3, <1>4, <3>1, <4>1
        <5> QED BY <3>2, <4>1, <5>1
      <4>2. CASE f # file
        <5>1. f # Facing /\ f # Facing' /\ got[f] # <<>>
          BY <2>4, <3>1, <3>4, <3>6, <4>2
        <5> QED BY <1>3, <3>3, <3>5, <4>2, <5>1 DEF IInv, Written
      <4> QED BY <4>1, <4>2
    <3> QED BY <3>1, <3>6 DEF Written
  <2> QED BY <1>6, <2>5, <2>6, <2>8, <2>9 DEF IInv
<1>9. CASE Fails("log", localSock) /\ total' = OneBack
  <2>1. /\ UNCHANGED <<got, unread, said>> /\ inside' = [inside EXCEPT !["log"] = None]
        /\ failed' = failed \/ failed' = failed \cup {done + 1}
        /\ file # None => peer[file] = "gone" \/ failed' = failed \cup {done + 1}
    BY <1>1, <1>9 DEF Fails, Broken
  <2>2. TypeOK'
    <3>1. fails' \in 0 .. MaxFails
      BY <1>9, Constants DEF Fails, IInv, TypeOK
    <3>2. failed' \subseteq 1 .. MaxMsgs
      BY <1>7, <2>1 DEF IInv, TypeOK
    <3> QED BY <1>5, <1>7, <2>1, <3>1, <3>2 DEF IInv, TypeOK
  <2>3. Placed'
    BY <1>5, <2>1, SendPlaced DEF Sender
  <2>4. MessagesWhole'
    <3>1. \A p, q : Continues(p, q) => Continues(p, q)'
      BY <2>1 DEF Continues, Follows, GoesBack
    <3> QED BY <2>1, <3>1 DEF IInv, MessagesWhole
  <2>5. Written'
    <3>1. inside'["log"] = None /\ Facing' = FileOf(x)
      BY <1>2, <1>3, <2>1 DEF IInv, TypeOK, Facing, Target, Sender
    <3>2. \A f \in Files : Last(f)' = Last(f) /\ (Over(Last(f)) => Over(Last(f))')
      BY <2>1 DEF Last, Over
    <3>3. ASSUME NEW f \in Files, got[f] # <<>>, f = file, peer[f] # "gone",
                 Present(Last(f)) \/ (Over(Last(f)) /\ total <= 0)
          PROVE  Present(Last(f))' \/ (Over(Last(f))' /\ total' <= 0)
      <4>1. Last(f)[1] \in Nat /\ Last(f)[2] \in 1 .. Chunks /\ Last(f)' = Last(f)
        BY <3>2, <3>3, LastIsPiece DEF IInv
      <4>2. total' = total - 1 /\ total \in 0 .. Chunks - 1 /\ done' = done /\ done + 1 \in failed'
        BY <1>7, <1>9, <2>1, <3>3, Constants DEF OneBack
      <4>3. CASE Present(Last(f))
        <5>1. total' <= Last(f)[2]
          BY <4>1, <4>2, <4>3, Constants DEF Present
        <5> QED BY <4>1, <4>2, <4>3, <5>1 DEF Present
      <4>4. CASE Over(Last(f)) /\ total <= 0
        <5>1. total' <= 0
          BY <4>2, <4>4, Constants
        <5> QED BY <3>2, <4>4, <5>1
      <4> QED BY <3>3, <4>3, <4>4
    <3>4. ASSUME NEW f \in Files, got'[f] # <<>>
          PROVE  /\ f = Facing' => peer'[f] = "gone" \/ Present(Last(f))'
                                     \/ (Over(Last(f))' /\ total' <= 0)
                 /\ f # Facing' /\ Here(f)' => peer'[f] = "gone" \/ Over(Last(f))'
      <4>1. got[f] # <<>> /\ peer' = peer
        BY <2>1, <3>4
      <4>2. CASE f = file
        <5>1. f # Facing' => ~ Here(f)'
          BY <1>3, <1>4, <3>1, <4>2
        <5>2. peer[f] # "gone" => Present(Last(f)) \/ (Over(Last(f)) /\ total <= 0)
          BY <1>1, <4>1, <4>2 DEF IInv, Written
        <5> QED BY <3>3, <4>1, <4>2, <5>1, <5>2
      <4>3. CASE f # file
        <5>1. f # Facing' /\ f # Facing
          BY <1>1, <1>4, <3>1, <4>1, <4>3, Constants
        <5> QED BY <1>3, <3>2, <4>1, <5>1 DEF IInv, Written
      <4> QED BY <4>2, <4>3
    <3> QED BY <3>1, <3>4 DEF Written
  <2> QED BY <1>6, <2>2, <2>3, <2>4, <2>5 DEF IInv
<1>10. CASE Blocks("log", localSock) /\ total' = total
  <2>1. /\ inside["log"] = None /\ file = FileOf(x) /\ file # None
        /\ UNCHANGED <<got, unread, said, fails, failed>> /\ inside' = [inside EXCEPT !["log"] = file]
    BY <1>2, <1>4, <1>10 DEF Blocks, Broken, net, wrote
  <2>2. TypeOK'
    BY <1>5, <1>7, <1>10, <2>1 DEF IInv, TypeOK
  <2>3. Placed' /\ MessagesWhole'
    <3>1. UNCHANGED <<open, queue, peer, got, failed>> /\ "log" \in Sender
      BY <2>1 DEF Sender
    <3>2. Placed'
      BY <1>5, <3>1, SendPlaced
    <3> QED BY <3>1, <3>2 DEF IInv, MessagesWhole, Continues
  <2>4. Written'
    <3>1. inside'["log"] = file /\ Facing' = file
      BY <1>2, <1>3, <2>1 DEF IInv, TypeOK, Facing, Target, Sender
    <3>2. \A f \in Files : Last(f)' = Last(f) /\ (Over(Last(f))' <=> Over(Last(f))) /\ (Present(Last(f))' <=> Present(Last(f)))
      BY <1>10, <2>1 DEF Last, Over, Present
    <3> QED BY <1>1, <1>2, <1>3, <1>7, <1>10, <2>1, <3>1, <3>2 DEF IInv, Written
  <2> QED BY <1>6, <2>2, <2>3, <2>4 DEF IInv
<1> QED BY <1>8, <1>9, <1>10

-----------------------------------------------------------------------------
LEMMA StepInv == IInv /\ [Next]_vars => IInv'
<1> SUFFICES ASSUME IInv, [Next]_vars PROVE IInv'
  OBVIOUS
<1>1. CASE (\E n \in Names : RegCommand(n)) \/ RegReturns \/ Start \/ Destory \/ Joins
  BY <1>1, ControlInv DEF Joins
<1>2. CASE Daemon
  BY <1>2, DaemonMovesInv, EndsInv, AcceptInv, CloseInv, ReplyInv DEF Daemon
<1>3. CASE Log
  BY <1>3, EndsInv, LogMovesInv, LogCopyInv, LogSendInv, LogSentInv DEF Log, LogAborts
<1>4. CASE TelPrintf
  BY <1>4, CountersInv
<1>5. ASSUME NEW c \in Clients, Connect(c) \/ ReadBy(c) \/ Leave(c) PROVE IInv'
  BY <1>5, ConnectInv, CountersInv, LeaveInv
<1>6. ASSUME NEW s \in Strangers, OpenOther(s) \/ CloseOther(s) PROVE IInv'
  BY <1>6, OpenOtherInv, CloseInv
<1>7. CASE UNCHANGED vars
  <2> USE <1>7 DEF vars, map, ctlVars, dVars, lVars, msgs, peers, net, wrote
  <2>1. TypeOK' /\ Phases'
    BY DEF IInv, TypeOK, Phases
  <2>2. Served' /\ Written'
    BY ServedFrame, WrittenFrame DEF IInv
  <2> QED BY <2>1, <2>2, StillInv
<1> QED BY <1>1, <1>2, <1>3, <1>4, <1>5, <1>6, <1>7 DEF Next

(* The inductive invariant holds in every behaviour of the program.        *)
THEOREM Invariance == Spec => []IInv
BY InitInv, StepInv, PTL DEF Spec

(* The variables keep their types; a message that is sent is one that was  *)
(* accepted, and a descriptor names a file or nothing.                     *)
THEOREM TypeCorrect == Spec => []TypeOK
<1>1. IInv => TypeOK
  BY DEF IInv
<1> QED BY <1>1, Invariance, PTL

(* The daemon thread answers whom it means to answer: no close and no open *)
(* elsewhere changes what is behind the number it serves.                  *)
THEOREM AnswersItsClient == Spec => []RepliesGoHome
<1>1. IInv => RepliesGoHome
  BY Constants DEF IInv, Served, RepliesGoHome, Target
<1> QED BY <1>1, Invariance, PTL

(* No connection gets a message with a hole in it, in spite of the stale   *)
(* copy and of the total that goes back; repeated or broken off on it are  *)
(* only messages whose sends failed on a connection that works.            *)
THEOREM NoHoleInAMessage == Spec => []MessagesWhole
<1>1. IInv => MessagesWhole
  BY DEF IInv
<1> QED BY <1>1, Invariance, PTL

(* The table is cleared only when the daemon thread is gone, and only then *)
(* does it lose a command.                                                 *)
LEMMA CalledStep == ASSUME IInv, CalledStays, [Next]_vars PROVE CalledStays'
<1> USE DEF CalledStays, map, dVars
<1>1. CASE (\E n \in Names : RegCommand(n)) \/ RegReturns \/ Destory \/ JoinDaemon \/ JoinLog
  BY <1>1 DEF RegCommand, RegReturns, Destory, JoinDaemon, DaemonJoined, JoinLog
<1>2. CASE Start \/ Clear
  <2>1. dpc' # "call"
    BY <1>2 DEF Start, Clear, IInv, Phases
  <2> QED BY <2>1
<1>3. CASE Daemon
  <2>1. CASE (\E n \in Names \cup {"bye"} : Command(n)) \/ EndlessLine
    BY <2>1 DEF Types, Command, EndlessLine
  <2>2. CASE DExit \/ Accept \/ CloseOld \/ SetClient \/ CallReturns \/ Reply
             \/ PeerClosed \/ CloseClient \/ UnsetClient
    <3>1. dpc' # "call"
      BY <2>2 DEF DExit, Accept, CloseOld, SetClient, CallReturns, Reply, PeerClosed, CloseClient,
                  UnsetClient
    <3> QED BY <3>1
  <2>3. CASE Lookup \/ LookupRaces
    BY <2>3 DEF Lookup, LookupRaces, ProcessEnds
  <2> QED BY <1>3, <2>1, <2>2, <2>3 DEF Daemon
<1>4. CASE Log
  <2>1. UNCHANGED <<table, cmd, dpc>> \/ ProcessEnds
    BY <1>4 DEF Log, LogBegins, LogAborts, LogSwap, LogExit, LogSkip, LogCopy, LogSend, LogSent
  <2> QED BY <2>1 DEF ProcessEnds
<1>5. CASE TelPrintf
  BY <1>5 DEF TelPrintf
<1>6. ASSUME NEW c \in Clients, Connect(c) \/ ReadBy(c) \/ Leave(c) PROVE CalledStays'
  BY <1>6 DEF Connect, ReadBy, Leave
<1>7. ASSUME NEW s \in Strangers, OpenOther(s) \/ CloseOther(s) PROVE CalledStays'
  BY <1>7 DEF OpenOther, CloseOther
<1>8. CASE UNCHANGED vars
  BY <1>8 DEF vars
<1> QED BY <1>1, <1>2, <1>3, <1>4, <1>5, <1>6, <1>7, <1>8 DEF Next, Joins

(* No command is taken from the table while its callback runs.             *)
THEOREM CallbacksStayRegistered == Spec => []CalledStays
<1>1. Init => CalledStays
  BY DEF Init, CalledStays
<1>2. IInv /\ CalledStays /\ [Next]_vars => CalledStays'
  BY CalledStep
<1> QED BY <1>1, <1>2, Invariance, PTL DEF Spec

(* Log and replies reach a connection only while the service runs.         *)
LEMMA WriteStep == ASSUME IInv, Next, got' # got \/ said' # said PROVE ctl # "off"
<1>1. Reply \/ LogSend
  BY DEF Next, RegCommand, RegReturns, Start, Destory, Joins, JoinDaemon, JoinLog, Clear, ProcessEnds,
         Daemon, Log, DExit, Accept, CloseOld, SetClient, Types, Command, EndlessLine, Lookup,
         LookupRaces, CallReturns, PeerClosed, CloseClient, UnsetClient, LogBegins, LogAborts,
         LogSwap, LogExit, LogSkip, LogCopy, LogSent, TelPrintf, Connect, ReadBy, Leave,
         OpenOther, CloseOther, vars, net, wrote
<1> QED BY <1>1 DEF IInv, Phases, Reply, LogSend

(* When destory has returned, neither thread writes to a socket.           *)
THEOREM StopIsQuiet == Spec => QuietAfterStop
<1>1. IInv /\ [Next]_vars => [got' # got \/ said' # said => ctl # "off"]_vars
  BY WriteStep
<1> QED BY <1>1, Invariance, PTL DEF Spec, QuietAfterStop
=============================================================================
