------------------------------ MODULE MsgBuffer ------------------------------
(***************************************************************************)
(* The log message queue of TelnetServer: application threads append       *)
(* messages to a double buffer (appendToMsgBuf) and one log thread swaps   *)
(* the buffers out and writes them to the telnet client (LogOutPutFun),    *)
(* while a control thread starts and stops the service (init, destory).    *)
(*                                                                         *)
(* Every critical section of mutex_ is one atomic action; the wait on      *)
(* cond_ splits the log thread's section in two.  Everything read outside  *)
(* the mutex (isRunning_, sockClient_) is read by a step of its own.       *)
(*                                                                         *)
(* Buffers are heap cells, so that two pointers to one cell, a cell nobody *)
(* points to and a use after delete can all be expressed.  A message is    *)
(* its position in the order in which appendToMsgBuf locked the mutex.     *)
(***************************************************************************)
EXTENDS Naturals, Sequences, FiniteSets, Functions

CONSTANTS
  Thread,      (* application threads that print                            *)
  Buffer,      (* heap cells `new Buffer' may return                        *)
  NULL,        (* the null pointer                                          *)
  Lens,        (* lengths of formatted messages                             *)
  BufSize,     (* kLargeBuffer, the bytes of one buffer                     *)
  MaxPending,  (* 25 in the code: more buffers than this are thinned out    *)
  MaxMsgs,     (* bound on the messages printed                             *)
  MaxRuns      (* bound on the calls of init                                *)

(***************************************************************************)
(* A message that is appended is shorter than MAX_LOG_MSG_LEN, hence than  *)
(* a buffer; the log thread keeps two buffers when it thins them out.      *)
(***************************************************************************)
ASSUME MsgBufferAssumption ==
  /\ NULL \notin Buffer
  /\ BufSize \in Nat \ {0}
  /\ Lens \subseteq 1 .. BufSize - 1
  /\ MaxPending \in Nat /\ MaxPending >= 2
  /\ MaxMsgs \in Nat
  /\ MaxRuns \in Nat

VARIABLES
  (* members of TelnetServer *)
  isRunning, currentBuffer, nextBuffer, buffers,
  client,        (* sockClient_ # INVALID_SOCKET; the daemon thread writes it *)
  (* the heap of FixedBuffers *)
  live,          (* cells allocated and not deleted                           *)
  data,          (* the messages in a cell, oldest first                      *)
  length,        (* cur_ - data_                                              *)
  (* the log thread *)
  logPc, newBuffer1, newBuffer2, toWrite, sendIdx,
  (* the application threads *)
  pc, len,
  (* the control thread *)
  ctl, runs,
  (* history *)
  accepted,      (* number of messages appendToMsgBuf took under the mutex    *)
  sent,          (* messages written to a client, in order                    *)
  unseen,        (* messages flushed while no client was connected            *)
  overrun        (* messages deleted because too many buffers were pending    *)

serverVars  == <<isRunning, currentBuffer, nextBuffer, buffers>>
heapVars    == <<live, data, length>>
logVars     == <<logPc, newBuffer1, newBuffer2, toWrite, sendIdx>>
threadVars  == <<pc, len>>
ctlVars     == <<ctl, runs>>
historyVars == <<accepted, sent, unseen, overrun>>
vars == <<serverVars, client, heapVars, logVars, threadVars, ctlVars, historyVars>>

LogPcs == {"off", "start", "loop", "lock", "waiting", "woken", "trim", "send",
           "sending", "done", "aborted"}
Ptr    == Buffer \cup {NULL}
Stamp  == Nat \ {0}

TypeOK ==
  /\ isRunning \in BOOLEAN /\ client \in BOOLEAN
  /\ currentBuffer \in Buffer /\ nextBuffer \in Ptr
  /\ buffers \in Seq(Buffer) /\ toWrite \in Seq(Buffer)
  /\ newBuffer1 \in Ptr /\ newBuffer2 \in Ptr
  /\ sendIdx \in 1 .. Len(toWrite) + 1
  /\ live \subseteq Buffer
  /\ data \in [Buffer -> Seq(Stamp)]
  /\ length \in [Buffer -> 0 .. BufSize]
  /\ logPc \in LogPcs
  /\ pc \in [Thread -> {"idle", "formatted", "append"}]
  /\ len \in [Thread -> Lens \cup {0}]
  /\ ctl \in {"off", "up", "notify", "join"}
  /\ runs \in Nat /\ accepted \in Nat
  /\ sent \in Seq(Stamp)
  /\ unseen \subseteq Stamp /\ overrun \subseteq Stamp

-----------------------------------------------------------------------------
(* Pointers and contents *)

Spares   == {nextBuffer, newBuffer1, newBuffer2} \ {NULL}

(* Every cell that holds messages to be written, in the order of writing.  *)
(* The first sendIdx - 1 cells have been written already.                  *)
Held     == toWrite \o Append(buffers, currentBuffer)
Unsent   == sendIdx .. Len(Held)

StampsOf(b)  == Range(data[b])
StampsIn(q)  == UNION {StampsOf(q[i]) : i \in 1 .. Len(q)}
Pending      == UNION {StampsOf(Held[i]) : i \in Unsent}

Avail(b)     == BufSize - length[b]
Fits(b, n) == Avail(b) > n

(* Contents or length of the cells after those in S have been emptied,     *)
(* which the constructor and resetData do.                                 *)
NotEmptied(f, S, zero) == f
Emptied(f, S, zero)    == [b \in Buffer |-> IF b \in S THEN zero ELSE f[b]]

(* What stays of a batch that is too long: its last two buffers.           *)
FirstTwo(q) == IF Len(q) > MaxPending THEN SubSeq(q, 1, 2) ELSE q
LastOne(q)  == IF Len(q) > MaxPending THEN SubSeq(q, Len(q), Len(q)) ELSE q
Newest(q)   == IF Len(q) > MaxPending THEN SubSeq(q, Len(q) - 1, Len(q)) ELSE q

(* newBuffer2 after the swap: moved to nextBuffer_ if that one was empty.  *)
CopiedSpare == newBuffer2
MovedSpare  == IF nextBuffer = NULL THEN NULL ELSE newBuffer2

(* The cells allocated after those in S are deleted.                       *)
NotDeleted(S) == live
Deleted(S)    == live \ S

-----------------------------------------------------------------------------
Init ==
  /\ isRunning = FALSE /\ client = FALSE
  /\ \E b1, b2 \in Buffer :
        /\ b1 # b2
        /\ currentBuffer = b1 /\ nextBuffer = b2 /\ live = {b1, b2}
  /\ buffers = <<>> /\ toWrite = <<>> /\ sendIdx = 1
  /\ newBuffer1 = NULL /\ newBuffer2 = NULL
  /\ data = [b \in Buffer |-> <<>>]
  /\ length = [b \in Buffer |-> 0]
  /\ logPc = "off" /\ ctl = "off" /\ runs = 0
  /\ pc = [t \in Thread |-> "idle"] /\ len = [t \in Thread |-> 0]
  /\ accepted = 0 /\ sent = <<>> /\ unseen = {} /\ overrun = {}

-----------------------------------------------------------------------------
(* The control thread: init and destory.                                   *)

Start ==
  /\ ctl = "off" /\ runs < MaxRuns
  /\ isRunning' = TRUE
  /\ ctl' = "up" /\ runs' = runs + 1
  /\ logPc' = "start"
  /\ UNCHANGED <<currentBuffer, nextBuffer, buffers, client, heapVars, newBuffer1,
                 newBuffer2, toWrite, sendIdx, threadVars, historyVars>>

Stop ==
  /\ ctl = "up"
  /\ isRunning' = FALSE
  /\ ctl' = "notify"
  /\ UNCHANGED <<currentBuffer, nextBuffer, buffers, client, heapVars, logVars,
                 threadVars, runs, historyVars>>

(* cond_.notify: wakes the log thread if it waits, and is lost otherwise.  *)
Signal(lp) == IF lp = "waiting" THEN "woken" ELSE lp

StopNotify ==
  /\ ctl = "notify"
  /\ ctl' = "join"
  /\ logPc' = Signal(logPc)
  /\ UNCHANGED <<serverVars, client, heapVars, newBuffer1, newBuffer2, toWrite,
                 sendIdx, threadVars, runs, historyVars>>

(* join of the log thread, after which destory forgets the client.         *)
StopJoin ==
  /\ ctl = "join" /\ logPc = "done"
  /\ ctl' = "off" /\ logPc' = "off"
  /\ client' = FALSE
  /\ UNCHANGED <<serverVars, heapVars, newBuffer1, newBuffer2, toWrite,
                 sendIdx, threadVars, runs, historyVars>>

-----------------------------------------------------------------------------
(* The application threads: telPrintf, telPrintfNoTime, appendToMsgBuf.    *)

(* The client is there and the message formats to n bytes.  Without a      *)
(* client, or with an empty or too long message, the call returns.  The    *)
(* caller owes telPrintfNoTime that the text fits msg: vsprintf writes it  *)
(* before its length is looked at, and nothing is said of a call that has  *)
(* overrun the array.  telPrintf has vsnprintf, and returns.               *)
TelPrintf(t, n) ==
  /\ pc[t] = "idle" /\ client
  /\ accepted + Cardinality({u \in Thread : pc[u] # "idle"}) < MaxMsgs
  /\ pc' = [pc EXCEPT ![t] = "formatted"]
  /\ len' = [len EXCEPT ![t] = n]
  /\ UNCHANGED <<serverVars, client, heapVars, logVars, ctlVars, historyVars>>

(* appendToMsgBuf looks at the client again, still without the mutex.      *)
AppendCheck(t) ==
  /\ pc[t] = "formatted"
  /\ pc' = [pc EXCEPT ![t] = IF client THEN "append" ELSE "idle"]
  /\ UNCHANGED <<serverVars, client, heapVars, logVars, len, ctlVars, historyVars>>

(* The critical section when the message fits into currentBuffer_.         *)
AppendFits(t) ==
  /\ pc[t] = "append"
  /\ Fits(currentBuffer, len[t])
  /\ data' = [data EXCEPT ![currentBuffer] = Append(@, accepted + 1)]
  /\ length' = [length EXCEPT ![currentBuffer] = @ + len[t]]
  /\ accepted' = accepted + 1
  /\ pc' = [pc EXCEPT ![t] = "idle"]
  /\ UNCHANGED <<serverVars, client, live, logVars, len, ctlVars, sent, unseen, overrun>>

(* The cells the roll-over may take: nextBuffer_, or else a new one.       *)
Fresh == IF nextBuffer # NULL THEN {nextBuffer} ELSE Buffer \ live

(* The critical section when it does not fit: currentBuffer_ is queued, a  *)
(* fresh buffer takes the message and the log thread is notified.          *)
AppendRolls(t) ==
  /\ pc[t] = "append"
  /\ ~ Fits(currentBuffer, len[t])
  /\ buffers' = Append(buffers, currentBuffer)
  /\ \E b \in Fresh :
       LET old  == Emptied(data, {b} \ live, <<>>)
           oldL == Emptied(length, {b} \ live, 0)
           room == BufSize - oldL[b] > len[t]
       IN  /\ currentBuffer' = b
           /\ live' = live \cup {b}
           /\ data'   = IF room THEN [old EXCEPT ![b] = Append(@, accepted + 1)] ELSE old
           /\ length' = IF room THEN [oldL EXCEPT ![b] = @ + len[t]] ELSE oldL
  /\ nextBuffer' = NULL
  /\ logPc' = Signal(logPc)
  /\ accepted' = accepted + 1
  /\ pc' = [pc EXCEPT ![t] = "idle"]
  /\ UNCHANGED <<isRunning, client, newBuffer1, newBuffer2, toWrite, sendIdx, len,
                 ctlVars, sent, unseen, overrun>>

-----------------------------------------------------------------------------
(* The log thread: LogOutPutFun.                                           *)

(* assert(isRunning_ == true), then the two spare buffers are allocated.   *)
LogStart ==
  /\ logPc = "start" /\ isRunning
  /\ \E b1, b2 \in Buffer \ live :
       /\ b1 # b2
       /\ newBuffer1' = b1 /\ newBuffer2' = b2
       /\ live' = live \cup {b1, b2}
       /\ data' = Emptied(data, {b1, b2}, <<>>)
       /\ length' = Emptied(length, {b1, b2}, 0)
  /\ logPc' = "loop"
  /\ UNCHANGED <<serverVars, client, toWrite, sendIdx, threadVars, ctlVars, historyVars>>

(* The assertion fails and abort() takes the process down.                 *)
LogStartAborts ==
  /\ logPc = "start" /\ ~ isRunning
  /\ logPc' = "aborted"
  /\ UNCHANGED <<serverVars, client, heapVars, newBuffer1, newBuffer2, toWrite, sendIdx,
                 threadVars, ctlVars, historyVars>>

LogLoop ==
  /\ logPc = "loop" /\ isRunning
  /\ logPc' = "lock"
  /\ UNCHANGED <<serverVars, client, heapVars, newBuffer1, newBuffer2, toWrite, sendIdx,
                 threadVars, ctlVars, historyVars>>

(* The thread function returns and deletes the buffers it owns.            *)
LogExit ==
  /\ logPc = "loop" /\ ~ isRunning
  /\ logPc' = "done"
  /\ live' = Deleted({newBuffer1, newBuffer2})
  /\ newBuffer1' = NULL /\ newBuffer2' = NULL
  /\ UNCHANGED <<serverVars, client, data, length, toWrite, sendIdx, threadVars,
                 ctlVars, historyVars>>

(* Nothing is queued: wait on cond_, giving the mutex back.                *)
LogWait ==
  /\ logPc = "lock" /\ buffers = <<>>
  /\ logPc' = "waiting"
  /\ UNCHANGED <<serverVars, client, heapVars, newBuffer1, newBuffer2, toWrite, sendIdx,
                 threadVars, ctlVars, historyVars>>

UntimedWait == FALSE

(* waitForSeconds times out after flushInterval_ (or wakes spuriously).    *)
LogTimeout ==
  /\ logPc = "waiting"
  /\ logPc' = "woken"
  /\ UNCHANGED <<serverVars, client, heapVars, newBuffer1, newBuffer2, toWrite, sendIdx,
                 threadVars, ctlVars, historyVars>>

(* The rest of the critical section: take every buffer, the current one    *)
(* included, and leave the spares in their place.                          *)
LogSwap ==
  /\ logPc = "woken" \/ (logPc = "lock" /\ buffers # <<>>)
  /\ toWrite' = Append(buffers, currentBuffer)
  /\ buffers' = <<>>
  /\ currentBuffer' = newBuffer1
  /\ newBuffer1' = NULL
  /\ nextBuffer' = IF nextBuffer = NULL THEN newBuffer2 ELSE nextBuffer
  /\ newBuffer2' = MovedSpare
  /\ logPc' = "trim"
  /\ UNCHANGED <<isRunning, client, heapVars, sendIdx, threadVars, ctlVars, historyVars>>

(* More than MaxPending buffers: all but the last two are deleted.         *)
LogTrim ==
  /\ logPc = "trim"
  /\ toWrite' = Newest(toWrite)
  /\ live' = Deleted(Range(toWrite) \ Range(toWrite'))
  /\ overrun' = overrun \cup (StampsIn(toWrite) \ StampsIn(toWrite'))
  /\ logPc' = "send"
  /\ UNCHANGED <<serverVars, client, data, length, newBuffer1, newBuffer2, sendIdx,
                 threadVars, ctlVars, accepted, sent, unseen>>

(* One turn of the write loop.  An empty buffer is skipped, and            *)
(* sendMsgToTerminal discards a buffer when there is no client.            *)
LogSkip ==
  /\ logPc = "send" /\ sendIdx <= Len(toWrite)
  /\ ~ client \/ length[toWrite[sendIdx]] = 0
  /\ unseen' = unseen \cup StampsOf(toWrite[sendIdx])
  /\ sendIdx' = sendIdx + 1
  /\ UNCHANGED <<serverVars, client, heapVars, logPc, newBuffer1, newBuffer2, toWrite,
                 threadVars, ctlVars, accepted, sent, overrun>>

(* Otherwise it copies sockClient_ and sends on that copy, without a lock: *)
(* from here on the client may go, or another one may come.                *)
LogSendBegin ==
  /\ logPc = "send" /\ sendIdx <= Len(toWrite)
  /\ client /\ length[toWrite[sendIdx]] # 0
  /\ logPc' = "sending"
  /\ UNCHANGED <<serverVars, client, heapVars, newBuffer1, newBuffer2, toWrite, sendIdx,
                 threadVars, ctlVars, historyVars>>

(* The blocking send returns when the peer has taken the buffer ...        *)
LogSendDone ==
  /\ logPc = "sending"
  /\ sent' = sent \o data[toWrite[sendIdx]]
  /\ sendIdx' = sendIdx + 1 /\ logPc' = "send"
  /\ UNCHANGED <<serverVars, client, heapVars, newBuffer1, newBuffer2, toWrite,
                 threadVars, ctlVars, accepted, unseen, overrun>>

(* ... or when the connection has failed; the result is ignored.           *)
LogSendFails ==
  /\ logPc = "sending"
  /\ unseen' = unseen \cup StampsOf(toWrite[sendIdx])
  /\ sendIdx' = sendIdx + 1 /\ logPc' = "send"
  /\ UNCHANGED <<serverVars, client, heapVars, newBuffer1, newBuffer2, toWrite,
                 threadVars, ctlVars, accepted, sent, overrun>>

(* Everything is written: keep at most two buffers, take back newBuffer1,  *)
(* which LogSwap moved away, and newBuffer2 if it was moved away too, reset *)
(* them and delete the rest.                                               *)
LogRecycle ==
  /\ logPc = "send" /\ sendIdx = Len(toWrite) + 1
  /\ LET n    == IF Len(toWrite) > 2 THEN 2 ELSE Len(toWrite)
         kept == IF newBuffer2 = NULL THEN {toWrite[n], toWrite[n - 1]} ELSE {toWrite[n]}
     IN  /\ newBuffer1' = toWrite[n]
         /\ newBuffer2' = IF newBuffer2 = NULL THEN toWrite[n - 1] ELSE newBuffer2
         /\ data' = Emptied(data, kept, <<>>)
         /\ length' = Emptied(length, kept, 0)
         /\ live' = Deleted(Range(toWrite) \ kept)
  /\ toWrite' = <<>> /\ sendIdx' = 1
  /\ logPc' = "loop"
  /\ UNCHANGED <<serverVars, client, threadVars, ctlVars, historyVars>>

-----------------------------------------------------------------------------
(* The daemon thread and the telnet client, as far as the queue sees them. *)

ClientComes ==
  /\ ~ client /\ ctl # "off"
  /\ client' = TRUE
  /\ UNCHANGED <<serverVars, heapVars, logVars, threadVars, ctlVars, historyVars>>

ClientGoes ==
  /\ client
  /\ client' = FALSE
  /\ UNCHANGED <<serverVars, heapVars, logVars, threadVars, ctlVars, historyVars>>

-----------------------------------------------------------------------------
Append1(t) == AppendFits(t) \/ AppendRolls(t)
LogSendEnd == LogSendDone \/ LogSendFails
LogStep == LogStart \/ LogStartAborts \/ LogLoop \/ LogExit \/ LogWait \/ LogSwap
             \/ LogTrim \/ LogSkip \/ LogSendBegin \/ LogRecycle
CtlStep == StopNotify \/ StopJoin

(* The bounds are used up and nobody has anything left to do, or the       *)
(* process is gone.                                                        *)
Terminated ==
  /\ \/ logPc = "aborted"
     \/ ctl = "off" /\ runs = MaxRuns
  /\ UNCHANGED vars

Next ==
  \/ /\ logPc # "aborted"
     /\ \/ Start \/ Stop \/ CtlStep
        \/ \E t \in Thread, n \in Lens : TelPrintf(t, n)
        \/ \E t \in Thread : AppendCheck(t) \/ Append1(t)
        \/ LogStep \/ LogTimeout \/ LogSendEnd
        \/ ClientComes \/ ClientGoes
  \/ Terminated

Spec == Init /\ [][Next]_vars

(* Scheduled threads get on, a timed wait ends, and a blocking send to a   *)
(* client ends: the client reads, or TCP gives the connection up.          *)
Fairness ==
  /\ WF_vars(LogStep) /\ WF_vars(LogTimeout) /\ WF_vars(LogSendEnd)
  /\ WF_vars(CtlStep)
  /\ \A t \in Thread : WF_vars(AppendCheck(t)) /\ WF_vars(Append1(t))

FairSpec == Spec /\ Fairness

-----------------------------------------------------------------------------
(* Safety.                                                                 *)

Increasing(s) == \A i, j \in 1 .. Len(s) : i < j => s[i] < s[j]

(* No cell is reachable through two pointers: buffers_, buffersToWrite,    *)
(* currentBuffer_, nextBuffer_ and the two spares own different cells.     *)
OneOwner ==
  /\ \A i, j \in 1 .. Len(Held) : Held[i] = Held[j] => i = j
  /\ Spares \cap Range(Held) = {}
  /\ nextBuffer = NULL \/ nextBuffer \notin {newBuffer1, newBuffer2}
  /\ newBuffer1 = NULL \/ newBuffer1 # newBuffer2

(* The cells allocated are exactly those somebody points to: move,         *)
(* release, erase, resize and clear neither leak a cell nor leave a        *)
(* pointer to a deleted one, also when the service is started again.       *)
NoLeakNoDangling == live = Range(Held) \cup Spares

(* A spare cell is empty when it is handed over as the next current        *)
(* buffer: an append after a roll-over always has room, and no old message *)
(* is written twice.                                                       *)
SparesEmpty == \A b \in Spares : data[b] = <<>> /\ length[b] = 0

(* The assertions of LogOutPutFun hold where they are evaluated: both      *)
(* spares are there at the loop head, something is written in every round, *)
(* and enough cells come back to replace the spares that were handed out.  *)
LoopAssertions ==
  /\ logPc = "loop" => newBuffer1 # NULL /\ newBuffer2 # NULL /\ toWrite = <<>>
  /\ logPc = "trim" => toWrite # <<>>
  /\ logPc = "send" => newBuffer1 = NULL
  /\ logPc = "send" => Len(toWrite) >= IF newBuffer2 = NULL THEN 2 ELSE 1

(* assert(isRunning_ == true) at the head of the log thread never fails.   *)
StartAssertion == logPc # "aborted"

(* The client gets the messages in the order in which appendToMsgBuf took  *)
(* them, each at most once, and no message still queued is older than one  *)
(* already written.                                                        *)
InOrderOnce ==
  /\ Increasing(sent)
  /\ \A i \in 1 .. Len(sent), m \in Pending : sent[i] < m

(* Every message taken is in exactly one place: written, discarded for     *)
(* want of a client, deleted by the overrun rule, or still queued.         *)
Accounted ==
  LET places == <<Range(sent), unseen, overrun, Pending>>
  IN  /\ UNION Range(places) = 1 .. accepted
      /\ \A i, j \in DOMAIN places : i # j => places[i] \cap places[j] = {}

(* Messages are deleted unread only when more than MaxPending buffers are  *)
(* queued, and then the oldest ones: all that remains queued is newer, and *)
(* the last two buffers taken remain.                                      *)
DropsOldest ==
  [][overrun' # overrun =>
       /\ Len(toWrite) > MaxPending
       /\ \A m \in overrun' \ overrun, n \in Pending' : m < n
       /\ StampsIn(SubSeq(toWrite, Len(toWrite) - 1, Len(toWrite))) \subseteq Pending']_vars

(* The queue implements a first-in first-out log that may give up its      *)
(* oldest messages.                                                        *)
Log == INSTANCE LossyLog WITH
         pending <- Pending, delivered <- Range(sent), given <- unseen \cup overrun
ImplementsLossyLog == Log!Spec

-----------------------------------------------------------------------------
(* Liveness.                                                               *)

(* destory returns: the log thread leaves its loop even if the notify came *)
(* before it waited, unless it aborted at its start.                       *)
StopCompletes == ctl = "notify" ~> (ctl = "off" \/ logPc = "aborted")

(* While the service runs, every message taken leaves the queue, without   *)
(* any further message having to push it out.                              *)
EveryMessageFlushed ==
  \A m \in 1 .. MaxMsgs : (m \in Pending /\ isRunning) ~> (m \notin Pending \/ ~ isRunning)
=============================================================================
