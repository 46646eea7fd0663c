---------------------------- MODULE AsyncLogging ----------------------------
(***************************************************************************)
(* muduo::AsyncLogging: callers append messages to the current buffer      *)
(* under mutex_ and put a full one on the list; one logging thread takes   *)
(* the list and the current buffer every flushInterval seconds or when it  *)
(* is notified, and writes them to its LogFile without the lock.           *)
(*                                                                         *)
(* A buffer is its messages, a pointer to a spare one is a sequence of     *)
(* that buffer, or the empty one after it has been moved from.  The wait   *)
(* is a timed one, so that the thread may go on from it at any time.       *)
(***************************************************************************)
EXTENDS LogFile

CONSTANTS
  BufferSize,   (* kLargeBuffer, counted in messages                         *)
  MaxBuffers,   (* the 25 buffers above which the thread drops               *)
  MaxMsgs       (* bound on the messages that are appended                   *)

ASSUME AsyncLoggingAssumption ==
  BufferSize \in Nat /\ BufferSize > 1 /\ MaxBuffers \in Nat /\ MaxBuffers >= 2 /\ MaxMsgs \in Nat

Notice == 0   (* the message that says buffers were dropped *)

VARIABLES
  caller,                           (* the thread that starts and stops      *)
  running, latch,
  pc,                               (* the logging thread                    *)
  appended,                         (* messages appended so far              *)
  currentBuffer, nextBuffer, buffers,
  newBuffer1, newBuffer2,
  buffersToWrite, next,             (* the next of them to write             *)
  dropped

front == <<appended, currentBuffer, nextBuffer, buffers>>
back  == <<newBuffer1, newBuffer2, buffersToWrite, next, dropped>>
vars  == <<fileVars, caller, running, latch, pc, front, back>>

Buffer == Seq(1 .. MaxMsgs)
Null   == <<>>        (* no spare ... *)
Fresh  == << <<>> >>  (* ... and one that has nothing in it *)

TypeOK ==
  /\ FileTypeOK
  /\ caller \in {"new", "starting", "started", "stopping", "stopped"}
  /\ pc \in {"none", "begin", "loop", "swap", "drop", "write", "recycle", "exit", "done", "aborted"}
  /\ running \in BOOLEAN /\ latch \in {0, 1} /\ appended \in 0 .. MaxMsgs
  /\ currentBuffer \in Buffer /\ buffers \in Seq(Buffer) /\ buffersToWrite \in Seq(Buffer)
  /\ nextBuffer \in Seq(Buffer) /\ newBuffer1 \in Seq(Buffer) /\ newBuffer2 \in Seq(Buffer)
  /\ next \in 1 .. Len(buffersToWrite) + 1 /\ dropped \subseteq 1 .. MaxMsgs

Init ==
  /\ FileInit
  /\ caller = "new" /\ running = FALSE /\ latch = 1 /\ pc = "none"
  /\ appended = 0 /\ currentBuffer = <<>> /\ nextBuffer = Fresh /\ buffers = <<>>
  /\ newBuffer1 = Null /\ newBuffer2 = Null /\ buffersToWrite = <<>> /\ next = 1
  /\ dropped = {}

-----------------------------------------------------------------------------
(* Callers *)

Start ==
  /\ caller = "new" /\ pc = "none"
  /\ running' = TRUE /\ pc' = "begin" /\ caller' = "starting"
  /\ UNCHANGED <<fileVars, latch, front, back>>

LatchOpen == caller = "starting" /\ latch = 0

StartReturns ==
  /\ LatchOpen /\ caller' = "started"
  /\ UNCHANGED <<fileVars, running, latch, pc, front, back>>

(* stop, also called by the destructor *)
Stop ==
  /\ caller = "started"
  /\ running' = FALSE /\ caller' = "stopping"
  /\ UNCHANGED <<fileVars, latch, pc, front, back>>

StopReturns ==
  /\ caller = "stopping" /\ pc = "done" /\ caller' = "stopped"
  /\ UNCHANGED <<fileVars, running, latch, pc, front, back>>

(* append, by any thread at any time: a buffer stays one byte short of     *)
(* full, and takes nothing when it has no room.                            *)
HasRoom(buf)   == BufferSize - Len(buf) > 1
Into(buf, msg) == IF HasRoom(buf) THEN Append(buf, msg) ELSE buf
Fits           == HasRoom(currentBuffer)

AppendMessage ==
  /\ appended < MaxMsgs /\ appended' = appended + 1
  /\ IF Fits
     THEN /\ currentBuffer' = Into(currentBuffer, appended')
          /\ UNCHANGED <<nextBuffer, buffers>>
     ELSE /\ buffers' = Append(buffers, currentBuffer)
          /\ currentBuffer' = Into(IF nextBuffer = Null THEN <<>> ELSE nextBuffer[1], appended')
          /\ nextBuffer' = Null
  /\ UNCHANGED <<fileVars, caller, running, latch, pc, back>>

-----------------------------------------------------------------------------
(* threadFunc *)

countDown == latch' = latch - 1

Begin ==
  /\ pc = "begin" /\ FileOpens /\ pc' = "loop" /\ countDown
  /\ rollFile(<<>>, 0) /\ newBuffer1' = Fresh /\ newBuffer2' = Fresh
  /\ UNCHANGED <<clock, refused, count, shorts, cut, caller, running, front, buffersToWrite, next, dropped>>

(* createDir made a part of the path only: the process aborts. *)
Abort ==
  /\ pc = "begin" /\ ~FileOpens /\ pc' = "aborted"
  /\ countDown /\ made' = Made /\ dir' = dir \ Expired
  /\ UNCHANGED <<clock, refused, disk, file, stream, writtenBytes, count, startOfPeriod, lastRoll,
                 lastFlush, shorts, cut, caller, running, front, back>>

Loop ==
  /\ pc = "loop" /\ pc' = IF running THEN "swap" ELSE "exit"
  /\ UNCHANGED <<fileVars, caller, running, latch, front, back>>

Swap ==
  /\ pc = "swap" /\ pc' = "drop"
  /\ buffersToWrite' = Append(buffers, currentBuffer) /\ buffers' = <<>>
  /\ currentBuffer' = newBuffer1[1] /\ newBuffer1' = Null
  /\ IF nextBuffer = Null THEN nextBuffer' = newBuffer2 /\ newBuffer2' = Null
     ELSE UNCHANGED <<nextBuffer, newBuffer2>>
  /\ UNCHANGED <<fileVars, caller, running, latch, appended, next, dropped>>

(* Too many buffers: a notice is written and only the two oldest are kept. *)
KeepsTwo == 2
Messages(bufs) == UNION {ToSet(bufs[i]) : i \in DOMAIN bufs}

Drop ==
  /\ pc = "drop" /\ pc' = "write"
  /\ IF Len(buffersToWrite) > MaxBuffers
     THEN /\ append(<<Notice>>)
          /\ buffersToWrite' = SubSeq(buffersToWrite, 1, KeepsTwo)
          /\ dropped' = dropped \cup (Messages(buffersToWrite) \ Messages(buffersToWrite'))
     ELSE UNCHANGED <<fileVars, buffersToWrite, dropped>>
  /\ UNCHANGED <<caller, running, latch, front, newBuffer1, newBuffer2, next>>

InOrder == next

Write ==
  /\ pc = "write" /\ append(buffersToWrite[InOrder])
  /\ next' = next + 1 /\ pc' = IF next < Len(buffersToWrite) THEN "write" ELSE "recycle"
  /\ UNCHANGED <<caller, running, latch, front, newBuffer1, newBuffer2, buffersToWrite, dropped>>

(* The spares that went to the callers are replaced from the end of what   *)
(* was written, of which two buffers are kept, and emptied.                *)
Spares  == IF Len(buffersToWrite) > 2 THEN 2 ELSE Len(buffersToWrite)
Gone(p) == IF p = Null THEN 1 ELSE 0
Missing == Gone(newBuffer1) + Gone(newBuffer2)

NoReset(buf) == buf
reset(buf)   == <<>>

Recycle ==
  /\ pc = "recycle" /\ pc' = "loop"
  /\ newBuffer1' = IF newBuffer1 = Null THEN <<reset(buffersToWrite[Spares])>> ELSE newBuffer1
  /\ newBuffer2' = IF newBuffer2 = Null
                   THEN <<reset(buffersToWrite[Spares - Gone(newBuffer1)])>> ELSE newBuffer2
  /\ buffersToWrite' = <<>> /\ next' = 1
  /\ flush
  /\ UNCHANGED <<caller, running, latch, front, dropped>>

Exit ==
  /\ pc = "exit" /\ pc' = "done" /\ flush
  /\ UNCHANGED <<caller, running, latch, front, back>>

ThreadStep == Begin \/ Abort \/ Loop \/ Swap \/ Drop \/ Write \/ Recycle \/ Exit

Clock == Tick /\ UNCHANGED <<caller, running, latch, pc, front, back>>

Next ==
  /\ pc # "aborted"
  /\ Start \/ StartReturns \/ Stop \/ StopReturns \/ AppendMessage \/ ThreadStep \/ Clock

Spec     == Init /\ [][Next]_vars
FairSpec == Spec /\ WF_vars(ThreadStep) /\ WF_vars(StartReturns) /\ WF_vars(StopReturns)

-----------------------------------------------------------------------------
(* Properties *)

(* The assertions of threadFunc hold: the thread finds running_ set, both  *)
(* spares present and empty and nothing left to write at the head of the   *)
(* loop, and enough written buffers to replace the spares that callers took. *)
AsyncAssertions ==
  /\ pc = "begin" => running
  /\ pc = "swap" => newBuffer1 = Fresh /\ newBuffer2 = Fresh /\ buffersToWrite = <<>>
  /\ pc = "recycle" => Spares >= Missing

(* Every own file, and what is not flushed behind all of them, holds its   *)
(* messages in the order in which they were appended, whatever was dropped *)
(* or cut and however the clock moves, also a file that was opened twice.  *)
(* Of two files the one with the lower name has the earlier messages,      *)
(* except where local time goes back: there its name may stand for a later *)
(* time than the higher name does.                                         *)
Increasing(s) == \A i, j \in DOMAIN s : i < j /\ s[i] # Notice /\ s[j] # Notice => s[i] < s[j]
Before(s, t)  == \A i \in DOMAIN s, j \in DOMAIN t : s[i] # Notice /\ t[j] # Notice => s[i] < t[j]
Turned(f, g)  == \E s, t \in Times : t < s /\ f.at = Local(s) /\ g.at = Local(t)
FilesInOrder ==
  /\ Increasing(stream) /\ \A f \in DOMAIN disk : Increasing(disk[f]) /\ Before(disk[f], stream)
  /\ \A f, g \in DOMAIN disk : f.at < g.at /\ ~ Turned(f, g) => Before(disk[f], disk[g])

(* No message vanishes and none is there twice: each one that was appended *)
(* is on its way to the files, in them or their stream, dropped because    *)
(* of too many buffers, or cut by a short write, and only one of these;    *)
(* and what is in the files is in order.                                   *)
OnDisk  == UNION {ToSet(disk[f]) : f \in DOMAIN disk}
Logged  == (OnDisk \cup ToSet(stream)) \ {Notice}
ToWrite == UNION {ToSet(buffersToWrite[i]) : i \in next .. Len(buffersToWrite)}
Waiting == ToWrite \cup Messages(buffers) \cup ToSet(currentBuffer)
LoggedOnce ==
  /\ FilesInOrder
  /\ Waiting \cup Logged \cup dropped \cup (cut \ {Notice}) = 1 .. appended
  /\ Waiting \cap (Logged \cup dropped \cup cut) = {}
  /\ Logged \cap (dropped \cup cut) = {} /\ dropped \cap cut = {}

(* Every appended message is written to a file and flushed, or was dropped *)
(* or cut, or the thread had ended: stop loses what it leaves behind, and  *)
(* the assertion on the file ends the process.                             *)
Left == IF pc = "done" THEN Messages(buffers) \cup ToSet(currentBuffer) ELSE {}
EveryMessageWritten ==
  \A msg \in 1 .. MaxMsgs :
    (appended >= msg /\ caller \notin {"new"}) ~> (msg \in OnDisk \cup dropped \cup cut \cup Left \/ pc = "aborted")
=============================================================================
