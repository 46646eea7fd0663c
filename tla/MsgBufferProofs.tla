--------------------------- MODULE MsgBufferProofs ---------------------------
(***************************************************************************)
(* Proofs about the log message queue, for every number of threads,        *)
(* buffers, messages and runs.                                             *)
(***************************************************************************)
EXTENDS MsgBuffer, TLAPS, SequenceTheorems

-----------------------------------------------------------------------------
(* The inductive invariant, part 1: which pointers are set when.           *)

Shape ==
  /\ logPc \in {"loop", "lock", "waiting", "woken"} =>
       newBuffer1 \in Buffer /\ newBuffer2 \in Buffer
  /\ logPc \in {"trim", "send", "sending"} =>
       /\ newBuffer1 = NULL
       /\ toWrite # <<>>
       /\ newBuffer2 = NULL => Len(toWrite) >= 2
  /\ logPc \notin {"trim", "send", "sending"} => toWrite = <<>>
  /\ logPc \notin {"send", "sending"} => sendIdx = 1
  /\ logPc = "sending" => sendIdx <= Len(toWrite)
  /\ logPc \in {"off", "start", "done", "aborted"} =>
       newBuffer1 = NULL /\ newBuffer2 = NULL
  /\ nextBuffer = NULL => buffers # <<>>
  /\ ctl = "off" => logPc = "off"

TypeInv == TypeOK /\ Shape

LEMMA SeqFacts ==
  ASSUME NEW S, NEW q \in Seq(S)
  PROVE  /\ Len(q) \in Nat
         /\ \A i \in 1 .. Len(q) : q[i] \in S
         /\ \A e \in S : /\ Append(q, e) \in Seq(S)
                         /\ Len(Append(q, e)) = Len(q) + 1
                         /\ Append(q, e)[Len(q) + 1] = e
                         /\ \A i \in 1 .. Len(q) : Append(q, e)[i] = q[i]
         /\ q # <<>> <=> Len(q) # 0
BY SMT

LEMMA AppendFacts ==
  ASSUME NEW S, NEW q \in Seq(S), NEW e \in S
  PROVE  /\ Append(q, e) \in Seq(S)
         /\ Len(Append(q, e)) = Len(q) + 1
         /\ Append(q, e) # <<>>
<1>1. Append(q, e) \in Seq(S) /\ Len(Append(q, e)) = Len(q) + 1 /\ Len(q) \in Nat
  BY SeqFacts
<1> QED BY <1>1, SeqFacts

(* What Newest returns: the batch, or its last two buffers. *)
LEMMA NewestFacts ==
  ASSUME NEW q \in Seq(Buffer)
  PROVE  LET d == Len(q) - Len(Newest(q))
         IN  /\ Newest(q) \in Seq(Buffer)
             /\ d \in 0 .. Len(q)
             /\ Len(Newest(q)) = IF Len(q) > MaxPending THEN 2 ELSE Len(q)
             /\ \A i \in 1 .. Len(Newest(q)) : Newest(q)[i] = q[i + d]
<1> DEFINE n == Len(q)
           s == SubSeq(q, n - 1, n)
<1>1. n \in Nat /\ MaxPending \in Nat /\ MaxPending >= 2
  BY MsgBufferAssumption
<1>2. CASE n > MaxPending
  <2>1. \A i \in n - 1 .. n : q[i] \in Buffer
    BY <1>1, <1>2
  <2>2. s \in Seq(Buffer) /\ Len(s) = 2 /\ \A i \in 1 .. 2 : s[i] = q[n - 1 + i - 1]
    BY <1>1, <1>2, <2>1, SubSeqProperties
  <2> QED BY <1>1, <1>2, <2>2 DEF Newest
<1>3. CASE ~ (n > MaxPending)
  BY <1>1, <1>3 DEF Newest
<1> QED BY <1>2, <1>3

LEMMA StampTypes ==
  ASSUME TypeOK
  PROVE  /\ \A b \in Buffer : StampsOf(b) \subseteq Stamp
         /\ \A q \in Seq(Buffer) : StampsIn(q) \subseteq Stamp
<1>1. \A b \in Buffer : StampsOf(b) \subseteq Stamp
  BY DEF TypeOK, StampsOf, Range
<1> QED BY <1>1 DEF StampsIn

LEMMA ArithTypes ==
  ASSUME TypeOK
  PROVE  /\ accepted + 1 \in Stamp
         /\ \A t \in Thread : len[t] \in 0 .. BufSize
         /\ \A l \in [Buffer -> 0 .. BufSize], b \in Buffer, t \in Thread :
              BufSize - l[b] > len[t] => l[b] + len[t] \in 0 .. BufSize
<1>1. accepted + 1 \in Stamp
  BY DEF TypeOK, Stamp
<1>2. BufSize \in Nat /\ Lens \subseteq 1 .. BufSize - 1
  BY MsgBufferAssumption
<1>3. len \in [Thread -> Lens \cup {0}]
  BY DEF TypeOK
<1>4. \A t \in Thread : len[t] \in 0 .. BufSize
  <2> SUFFICES ASSUME NEW t \in Thread PROVE len[t] \in 0 .. BufSize
    OBVIOUS
  <2>1. len[t] \in Lens \/ len[t] = 0
    BY <1>3
  <2>2. CASE len[t] \in Lens
    <3>1. len[t] \in 1 .. BufSize - 1
      BY <1>2, <2>2
    <3> QED BY <1>2, <3>1
  <2> QED BY <1>2, <2>1, <2>2
<1> QED BY <1>1, <1>2, <1>4

LEMMA EmptiedTypes ==
  ASSUME NEW S, NEW C, NEW f \in [Buffer -> C], NEW z \in C
  PROVE  Emptied(f, S, z) \in [Buffer -> C]
BY DEF Emptied

LEMMA TypeInit == Init => TypeInv
<1> SUFFICES ASSUME Init PROVE TypeInv
  OBVIOUS
<1>1. TypeOK
  <2>1. sendIdx \in 1 .. Len(toWrite) + 1
    BY DEF Init
  <2>2. buffers \in Seq(Buffer) /\ toWrite \in Seq(Buffer) /\ sent \in Seq(Stamp)
    BY DEF Init
  <2>3. data \in [Buffer -> Seq(Stamp)]
    BY DEF Init
  <2>4. length \in [Buffer -> 0 .. BufSize]
    BY MsgBufferAssumption DEF Init
  <2>5. /\ currentBuffer \in Buffer /\ nextBuffer \in Ptr /\ live \subseteq Buffer
        /\ newBuffer1 \in Ptr /\ newBuffer2 \in Ptr
    BY DEF Init, Ptr
  <2> QED BY <2>1, <2>2, <2>3, <2>4, <2>5 DEF Init, TypeOK, LogPcs
<1>2. Shape
  BY MsgBufferAssumption DEF Init, Shape
<1> QED BY <1>1, <1>2 DEF TypeInv

LEMMA TypeStep ==
  ASSUME TypeInv, [Next]_vars
  PROVE  TypeInv'
<1> USE MsgBufferAssumption DEF TypeInv, TypeOK, Shape, Ptr, LogPcs
<1>1. CASE Start  BY <1>1 DEF Start, heapVars, threadVars, historyVars
<1>2. CASE Stop   BY <1>2 DEF Stop, heapVars, logVars, threadVars, historyVars
<1>3. CASE StopNotify
  BY <1>3, ZenonT(60) DEF StopNotify, Signal, serverVars, heapVars, threadVars, historyVars
<1>4. CASE StopJoin
  BY <1>4 DEF StopJoin, serverVars, heapVars, threadVars, historyVars
<1>5. ASSUME NEW t \in Thread, NEW n \in Lens, TelPrintf(t, n)
      PROVE  TypeInv'
  BY <1>5, SMTT(30) DEF TelPrintf, serverVars, heapVars, logVars, ctlVars, historyVars
<1>6. ASSUME NEW t \in Thread, AppendCheck(t)
      PROVE  TypeInv'
  BY <1>6, SMTT(30) DEF AppendCheck, serverVars, heapVars, logVars, ctlVars, historyVars
<1>7. ASSUME NEW t \in Thread, AppendFits(t)
      PROVE  TypeInv'
  <2>1. accepted + 1 \in Stamp
    BY ArithTypes
  <2>2. data' \in [Buffer -> Seq(Stamp)]
    <3>1. Append(data[currentBuffer], accepted + 1) \in Seq(Stamp)
      BY <2>1
    <3> QED BY <1>7, <3>1 DEF AppendFits
  <2>3. length' \in [Buffer -> 0 .. BufSize]
    <3>1. length[currentBuffer] + len[t] \in 0 .. BufSize
      BY <1>7, ArithTypes DEF AppendFits, Fits, Avail
    <3> QED BY <1>7, <3>1 DEF AppendFits
  <2>4. UNCHANGED <<isRunning, client, currentBuffer, nextBuffer, buffers, toWrite,
                    newBuffer1, newBuffer2, sendIdx, live, logPc, len, ctl, runs,
                    sent, unseen, overrun>>
    BY <1>7 DEF AppendFits, serverVars, logVars, ctlVars
  <2>5. accepted' \in Nat /\ pc' \in [Thread -> {"idle", "formatted", "append"}]
    BY <1>7 DEF AppendFits
  <2> HIDE DEF Ptr, LogPcs
  <2>6. TypeOK'
    BY <2>2, <2>3, <2>4, <2>5
  <2> QED BY <2>4, <2>6
<1>8. ASSUME NEW t \in Thread, AppendRolls(t)
      PROVE  TypeInv'
  <2> DEFINE oldOf(b)  == Emptied(data, {b} \ live, <<>>)
             oldLOf(b) == Emptied(length, {b} \ live, 0)
             room(b)   == BufSize - oldLOf(b)[b] > len[t]
  <2> PICK b \in Fresh :
         /\ currentBuffer' = b
         /\ live' = live \cup {b}
         /\ data'   = IF room(b) THEN [oldOf(b) EXCEPT ![b] = Append(@, accepted + 1)]
                      ELSE oldOf(b)
         /\ length' = IF room(b) THEN [oldLOf(b) EXCEPT ![b] = @ + len[t]] ELSE oldLOf(b)
    BY <1>8 DEF AppendRolls
  <2>1. accepted + 1 \in Stamp
    BY ArithTypes
  <2>2. b \in Buffer
    BY DEF Fresh
  <2>3. oldOf(b) \in [Buffer -> Seq(Stamp)]
    <3>1. <<>> \in Seq(Stamp)  OBVIOUS
    <3> QED BY <3>1, EmptiedTypes
  <2>4. oldLOf(b) \in [Buffer -> 0 .. BufSize]
    <3>1. 0 \in 0 .. BufSize  OBVIOUS
    <3> QED BY <3>1, EmptiedTypes
  <2> HIDE DEF oldOf, oldLOf
  <2>5. data' \in [Buffer -> Seq(Stamp)]
    <3>1. Append(oldOf(b)[b], accepted + 1) \in Seq(Stamp)
      BY <2>1, <2>2, <2>3
    <3> QED BY <2>2, <2>3, <3>1
  <2>6. length' \in [Buffer -> 0 .. BufSize]
    <3>1. room(b) => oldLOf(b)[b] + len[t] \in 0 .. BufSize
      BY <2>2, <2>4, ArithTypes
    <3> QED BY <2>2, <2>4, <3>1
  <2>7. buffers' \in Seq(Buffer) /\ buffers' # <<>>
    <3>1. buffers' = Append(buffers, currentBuffer)
      BY <1>8 DEF AppendRolls
    <3>2. buffers \in Seq(Buffer) /\ currentBuffer \in Buffer
      OBVIOUS
    <3> HIDE DEF TypeInv
    <3> QED BY <3>1, <3>2, AppendFacts
  <2>8. UNCHANGED <<isRunning, client, toWrite, newBuffer1, newBuffer2, sendIdx, len,
                    ctl, runs, sent, unseen, overrun>>
    BY <1>8 DEF AppendRolls, ctlVars
  <2>9. /\ nextBuffer' = NULL
        /\ logPc' = IF logPc = "waiting" THEN "woken" ELSE logPc
        /\ accepted' \in Nat /\ pc' \in [Thread -> {"idle", "formatted", "append"}]
    BY <1>8 DEF AppendRolls, Signal
  <2>10. currentBuffer' \in Buffer /\ live' \subseteq Buffer
    BY <2>2
  <2>11. TypeOK'
    BY <2>5, <2>6, <2>7, <2>8, <2>9, <2>10
  <2>12. Shape'
    BY <2>7, <2>8, <2>9
  <2> QED BY <2>11, <2>12
<1>9. CASE LogStart
  <2>1. data' \in [Buffer -> Seq(Stamp)]
    BY <1>9 DEF LogStart, Emptied
  <2>2. length' \in [Buffer -> 0 .. BufSize]
    BY <1>9 DEF LogStart, Emptied
  <2> QED
    BY <1>9, <2>1, <2>2 DEF LogStart, serverVars, threadVars, ctlVars, historyVars
<1>10. CASE LogStartAborts
  BY <1>10 DEF LogStartAborts, serverVars, heapVars, threadVars, ctlVars, historyVars
<1>11. CASE LogLoop
  BY <1>11 DEF LogLoop, serverVars, heapVars, threadVars, ctlVars, historyVars
<1>12. CASE LogExit
  BY <1>12 DEF LogExit, Deleted, serverVars, threadVars, ctlVars, historyVars
<1>13. CASE LogWait
  BY <1>13 DEF LogWait, serverVars, heapVars, threadVars, ctlVars, historyVars
<1>14. CASE LogTimeout
  BY <1>14 DEF LogTimeout, serverVars, heapVars, threadVars, ctlVars, historyVars
<1>15. CASE LogSwap
  <2>1. /\ toWrite' \in Seq(Buffer) /\ toWrite' # <<>>
        /\ Len(toWrite') = Len(buffers) + 1
    <3>1. toWrite' = Append(buffers, currentBuffer)
      BY <1>15 DEF LogSwap
    <3>2. buffers \in Seq(Buffer) /\ currentBuffer \in Buffer
      OBVIOUS
    <3> HIDE DEF TypeInv
    <3> QED BY <3>1, <3>2, AppendFacts
  <2>2. buffers # <<>> => Len(buffers) >= 1
    BY SeqFacts
  <2>3. /\ newBuffer1 \in Buffer /\ newBuffer2 \in Buffer /\ sendIdx = 1
        /\ buffers' = <<>> /\ currentBuffer' = newBuffer1 /\ newBuffer1' = NULL
        /\ nextBuffer' = IF nextBuffer = NULL THEN newBuffer2 ELSE nextBuffer
        /\ newBuffer2' = IF nextBuffer = NULL THEN NULL ELSE newBuffer2
        /\ logPc' = "trim" /\ logPc # "off"
    BY <1>15 DEF LogSwap, MovedSpare
  <2>4. UNCHANGED <<isRunning, client, live, data, length, sendIdx, pc, len, ctl, runs,
                    accepted, sent, unseen, overrun>>
    BY <1>15 DEF LogSwap, heapVars, threadVars, ctlVars, historyVars
  <2>10. sendIdx' \in 1 .. Len(toWrite') + 1
    BY <2>1, <2>3, <2>4, SeqFacts
  <2>5. TypeOK'
    BY <2>1, <2>3, <2>4, <2>10
  <2>6. Shape'
    BY <2>1, <2>2, <2>3, <2>4
  <2> QED BY <2>5, <2>6
<1>16. CASE LogTrim
  <2>1. /\ toWrite' \in Seq(Buffer)
        /\ Len(toWrite') = IF Len(toWrite) > MaxPending THEN 2 ELSE Len(toWrite)
    BY <1>16, NewestFacts DEF LogTrim
  <2>2. overrun' \subseteq Stamp /\ live' \subseteq Buffer
    BY <1>16, StampTypes DEF LogTrim, Deleted
  <2>3. UNCHANGED <<isRunning, client, currentBuffer, nextBuffer, buffers, data, length,
                    newBuffer1, newBuffer2, sendIdx, pc, len, ctl, runs, accepted, sent,
                    unseen>>
    BY <1>16 DEF LogTrim, serverVars, threadVars, ctlVars
  <2>4. logPc = "trim" /\ logPc' = "send"
    BY <1>16 DEF LogTrim
  <2>5. Len(toWrite) \in Nat \ {0} /\ Len(toWrite') \in Nat \ {0} /\ toWrite' # <<>>
    <3>1. toWrite \in Seq(Buffer) /\ toWrite # <<>>
      BY <2>4
    <3>2. Len(toWrite) \in Nat \ {0}
      BY <3>1, SeqFacts
    <3>3. Len(toWrite') \in Nat \ {0}
      BY <2>1, <3>2
    <3> QED BY <2>1, <3>2, <3>3, SeqFacts
  <2>10. sendIdx' \in 1 .. Len(toWrite') + 1
    BY <2>1, <2>3, <2>4, <2>5
  <2>6. TypeOK'
    BY <2>1, <2>2, <2>3, <2>4, <2>5, <2>10
  <2>7. Shape'
    BY <2>1, <2>3, <2>4, <2>5
  <2> QED BY <2>6, <2>7
<1>17. ASSUME \/ LogSkip \/ LogSendBegin \/ LogSendDone \/ LogSendFails
       PROVE  TypeInv'
  <2>1. UNCHANGED <<isRunning, client, currentBuffer, nextBuffer, buffers, live, data,
                    length, newBuffer1, newBuffer2, toWrite, pc, len, ctl, runs, accepted,
                    overrun>>
    BY <1>17 DEF LogSkip, LogSendBegin, LogSendDone, LogSendFails, serverVars, heapVars,
                 threadVars, ctlVars, historyVars
  <2>2. /\ sendIdx <= Len(toWrite)
        /\ sendIdx' = sendIdx \/ sendIdx' = sendIdx + 1
        /\ logPc \in {"send", "sending"} /\ logPc' \in {"send", "sending"}
        /\ logPc' = "sending" => sendIdx' = sendIdx
    BY <1>17 DEF LogSkip, LogSendBegin, LogSendDone, LogSendFails
  <2>3. toWrite[sendIdx] \in Buffer
    BY <2>2
  <2>4. data[toWrite[sendIdx]] \in Seq(Stamp) /\ StampsOf(toWrite[sendIdx]) \subseteq Stamp
    BY <2>3, StampTypes
  <2>5. sent' \in Seq(Stamp)
    <3>1. sent' = sent \/ sent' = sent \o data[toWrite[sendIdx]]
      BY <1>17 DEF LogSkip, LogSendBegin, LogSendDone, LogSendFails, historyVars
    <3>2. sent \in Seq(Stamp)
      OBVIOUS
    <3>3. sent \o data[toWrite[sendIdx]] \in Seq(Stamp)
      BY <2>4, <3>2, ConcatProperties
    <3> QED BY <3>1, <3>2, <3>3
  <2>6. unseen' \subseteq Stamp
    BY <1>17, <2>4 DEF LogSkip, LogSendBegin, LogSendDone, LogSendFails, historyVars
  <2>10. sendIdx' \in 1 .. Len(toWrite') + 1
    <3>1. Len(toWrite) \in Nat /\ sendIdx \in Nat \ {0}
      BY SeqFacts
    <3> QED BY <2>1, <2>2, <3>1, SMTT(30)
  <2>7. TypeOK'
    BY <2>1, <2>2, <2>5, <2>6, <2>10
  <2>8. Shape'
    BY <2>1, <2>2
  <2> QED BY <2>7, <2>8
<1>18. CASE LogRecycle
  <2> DEFINE n    == IF Len(toWrite) > 2 THEN 2 ELSE Len(toWrite)
             kept == IF newBuffer2 = NULL THEN {toWrite[n], toWrite[n - 1]} ELSE {toWrite[n]}
  <2>1. /\ logPc = "send"
        /\ newBuffer1' = toWrite[n]
        /\ newBuffer2' = IF newBuffer2 = NULL THEN toWrite[n - 1] ELSE newBuffer2
        /\ data' = Emptied(data, kept, <<>>)
        /\ length' = Emptied(length, kept, 0)
        /\ live' = Deleted(Range(toWrite) \ kept)
        /\ toWrite' = <<>> /\ sendIdx' = 1 /\ logPc' = "loop"
    BY <1>18 DEF LogRecycle
  <2>2. UNCHANGED <<isRunning, client, currentBuffer, nextBuffer, buffers, pc, len, ctl,
                    runs, accepted, sent, unseen, overrun>>
    BY <1>18 DEF LogRecycle, serverVars, threadVars, ctlVars, historyVars
  <2>3. /\ n \in 1 .. Len(toWrite)
        /\ newBuffer2 = NULL => n - 1 \in 1 .. Len(toWrite)
    <3>1. Len(toWrite) \in Nat /\ (toWrite # <<>> => Len(toWrite) # 0)
      BY SeqFacts
    <3>2. /\ Len(toWrite) >= 1
          /\ newBuffer2 = NULL => Len(toWrite) >= 2
      BY <2>1, <3>1
    <3> QED BY <3>1, <3>2
  <2>4. newBuffer1' \in Buffer /\ newBuffer2' \in Buffer
    BY <2>1, <2>3, SeqFacts, SMTT(30)
  <2>5. <<>> \in Seq(Stamp) /\ 0 \in 0 .. BufSize
    OBVIOUS
  <2> HIDE DEF n, kept
  <2>6. data' \in [Buffer -> Seq(Stamp)] /\ length' \in [Buffer -> 0 .. BufSize]
    BY <2>1, <2>5, EmptiedTypes
  <2>7. live' \subseteq Buffer
    BY <2>1 DEF Deleted
  <2>10. toWrite' \in Seq(Buffer) /\ sendIdx' \in 1 .. Len(toWrite') + 1
    BY <2>1, EmptySeq
  <2>8. TypeOK'
    BY <2>1, <2>2, <2>4, <2>6, <2>7, <2>10
  <2>9. Shape'
    BY <2>1, <2>2, <2>4
  <2> QED BY <2>8, <2>9
<1>19. CASE ClientComes \/ ClientGoes
  BY <1>19, ZenonT(60) DEF ClientComes, ClientGoes, serverVars, heapVars, logVars, threadVars, ctlVars,
               historyVars
<1>20. CASE UNCHANGED vars
  BY <1>20, SMTT(30) DEF vars, serverVars, heapVars, logVars, threadVars, ctlVars, historyVars
<1> QED
  BY <1>1, <1>2, <1>3, <1>4, <1>5, <1>6, <1>7, <1>8, <1>9, <1>10, <1>11, <1>12, <1>13,
     <1>14, <1>15, <1>16, <1>17, <1>18, <1>19, <1>20
     DEF Next, CtlStep, LogStep, LogSendEnd, Append1, Terminated

(* Every variable keeps its type: the pointers point to cells or are null, *)
(* no buffer is filled beyond its size, the write loop stays in its batch. *)
THEOREM TypeCorrect == Spec => []TypeOK
<1>1. Init => TypeInv
  BY TypeInit
<1>2. TypeInv /\ [Next]_vars => TypeInv'
  BY TypeStep
<1>3. TypeInv => TypeOK
  BY DEF TypeInv
<1> QED
  BY <1>1, <1>2, <1>3, PTL DEF Spec

(* The assertions inside the loop of LogOutPutFun never fail.              *)
THEOREM LoopAssertionsHold == Spec => []LoopAssertions
<1>1. Init => TypeInv
  BY TypeInit
<1>2. TypeInv /\ [Next]_vars => TypeInv'
  BY TypeStep
<1>3. TypeInv => LoopAssertions
  <2> SUFFICES ASSUME TypeInv PROVE LoopAssertions
    OBVIOUS
  <2>1. toWrite # <<>> => Len(toWrite) >= 1
    BY SeqFacts DEF TypeInv, TypeOK
  <2> QED BY <2>1, MsgBufferAssumption DEF TypeInv, Shape, LoopAssertions
<1> QED
  BY <1>1, <1>2, <1>3, PTL DEF Spec

-----------------------------------------------------------------------------
(* Part 2: ownership.  How each step changes the queue of held cells.      *)

LEMMA HeldFacts ==
  ASSUME NEW S, NEW tw \in Seq(S), NEW bs \in Seq(S), NEW c \in S
  PROVE  LET h == tw \o Append(bs, c)
         IN  /\ h \in Seq(S)
             /\ Len(h) = Len(tw) + Len(bs) + 1
             /\ \A i \in 1 .. Len(tw) : h[i] = tw[i]
             /\ \A i \in 1 .. Len(bs) : h[Len(tw) + i] = bs[i]
             /\ h[Len(tw) + Len(bs) + 1] = c
<1> DEFINE a == Append(bs, c)
<1>1. /\ a \in Seq(S) /\ Len(a) = Len(bs) + 1 /\ a[Len(bs) + 1] = c
      /\ \A i \in 1 .. Len(bs) : a[i] = bs[i]
      /\ Len(tw) \in Nat /\ Len(bs) \in Nat
  BY SeqFacts
<1> HIDE DEF a
<1>2. /\ tw \o a \in Seq(S) /\ Len(tw \o a) = Len(tw) + Len(a)
      /\ \A i \in 1 .. Len(tw) + Len(a) :
            (tw \o a)[i] = IF i <= Len(tw) THEN tw[i] ELSE a[i - Len(tw)]
  BY <1>1, ConcatProperties
<1>3. \A i \in 1 .. Len(tw) : (tw \o a)[i] = tw[i]
  BY <1>1, <1>2
<1>4. \A i \in 1 .. Len(bs) + 1 : (tw \o a)[Len(tw) + i] = a[i]
  <2> TAKE i \in 1 .. Len(bs) + 1
  <2>1. Len(tw) + i \in 1 .. Len(tw) + Len(a) /\ ~ (Len(tw) + i <= Len(tw))
    BY <1>1
  <2>2. (tw \o a)[Len(tw) + i] = a[(Len(tw) + i) - Len(tw)]
    BY <1>2, <2>1
  <2> QED BY <1>1, <2>2
<1>5. (tw \o a)[Len(tw) + Len(bs) + 1] = c
  BY <1>1, <1>4
<1>6. \A i \in 1 .. Len(bs) : (tw \o a)[Len(tw) + i] = bs[i]
  BY <1>1, <1>4
<1> QED BY <1>1, <1>2, <1>3, <1>5, <1>6 DEF a

LEMMA RangeSeq ==
  ASSUME NEW S, NEW q \in Seq(S)
  PROVE  Range(q) = {q[i] : i \in 1 .. Len(q)}
BY LenProperties DEF Range

LEMMA HeldTypes ==
  ASSUME TypeOK
  PROVE  /\ Held \in Seq(Buffer) /\ Len(Held) \in Nat \ {0}
         /\ Len(toWrite) \in 0 .. Len(Held) - 1
         /\ Len(Held) = Len(toWrite) + Len(buffers) + 1
         /\ Held[Len(Held)] = currentBuffer
         /\ \A i \in 1 .. Len(toWrite) : Held[i] = toWrite[i]
         /\ \A i \in 1 .. Len(Held) : Held[i] \in Buffer
         /\ Range(Held) = {Held[i] : i \in 1 .. Len(Held)}
         /\ Range(toWrite) = {Held[i] : i \in 1 .. Len(toWrite)}
<1>1. toWrite \in Seq(Buffer) /\ buffers \in Seq(Buffer) /\ currentBuffer \in Buffer
  BY DEF TypeOK
<1>2. Len(toWrite) \in Nat /\ Len(buffers) \in Nat
  BY <1>1, SeqFacts
<1>3. /\ Held \in Seq(Buffer)
      /\ Len(Held) = Len(toWrite) + Len(buffers) + 1
      /\ Held[Len(toWrite) + Len(buffers) + 1] = currentBuffer
      /\ \A i \in 1 .. Len(toWrite) : Held[i] = toWrite[i]
  BY <1>1, HeldFacts DEF Held
<1>4. \A i \in 1 .. Len(Held) : Held[i] \in Buffer
  BY <1>3, SeqFacts
<1>5. Range(Held) = {Held[i] : i \in 1 .. Len(Held)}
  BY <1>3, RangeSeq
<1>6. Range(toWrite) = {Held[i] : i \in 1 .. Len(toWrite)}
  <2>1. Range(toWrite) = {toWrite[i] : i \in 1 .. Len(toWrite)}
    BY <1>1, RangeSeq
  <2> QED BY <1>3, <2>1
<1>7. /\ Held[Len(Held)] = currentBuffer /\ Len(Held) \in Nat \ {0}
      /\ Len(toWrite) \in 0 .. Len(Held) - 1
  BY <1>2, <1>3
<1> QED BY <1>3, <1>4, <1>5, <1>6, <1>7

(* Roll-over and swap append one cell to the queue of held cells. *)
Appended(b) ==
  /\ Len(Held') = Len(Held) + 1
  /\ \A i \in 1 .. Len(Held) : Held'[i] = Held[i]
  /\ Held'[Len(Held) + 1] = b

(* Overrun rule and recycling drop the first d cells of it. *)
Dropped(d) ==
  /\ Len(Held') = Len(Held) - d
  /\ \A i \in 1 .. Len(Held) - d : Held'[i] = Held[i + d]

LEMMA RollsAppends ==
  ASSUME TypeOK, toWrite' = toWrite, buffers' = Append(buffers, currentBuffer),
         currentBuffer' \in Buffer
  PROVE  Appended(currentBuffer')
<1> DEFINE n == Len(toWrite)
           m == Len(buffers)
<1>1. /\ toWrite \in Seq(Buffer) /\ buffers \in Seq(Buffer) /\ currentBuffer \in Buffer
      /\ n \in Nat /\ m \in Nat
  BY SeqFacts DEF TypeOK
<1>2. /\ Len(Held) = n + m + 1
      /\ \A i \in 1 .. n : Held[i] = toWrite[i]
      /\ \A i \in 1 .. m : Held[n + i] = buffers[i]
      /\ Held[n + m + 1] = currentBuffer
  BY <1>1, HeldFacts DEF Held
<1>3. /\ buffers' \in Seq(Buffer) /\ Len(buffers') = m + 1
      /\ \A i \in 1 .. m : buffers'[i] = buffers[i]
      /\ buffers'[m + 1] = currentBuffer
  BY <1>1, SeqFacts
<1>4. /\ Len(Held') = n + (m + 1) + 1
      /\ \A i \in 1 .. n : Held'[i] = toWrite[i]
      /\ \A i \in 1 .. m + 1 : Held'[n + i] = buffers'[i]
      /\ Held'[n + (m + 1) + 1] = currentBuffer'
  <2>1. Held' = toWrite \o Append(buffers', currentBuffer')
    BY DEF Held
  <2> QED BY <1>1, <1>3, <2>1, HeldFacts
<1>5. ASSUME NEW i \in 1 .. Len(Held) PROVE Held'[i] = Held[i]
  <2>1. CASE i <= n
    BY <1>1, <1>2, <1>4, <2>1
  <2>2. CASE i > n
    <3>1. i - n \in 1 .. m + 1 /\ n + (i - n) = i
      BY <1>1, <1>2, <2>2
    <3>2. Held'[i] = buffers'[i - n]
      BY <1>4, <3>1
    <3>3. CASE i - n <= m
      <4>1. i - n \in 1 .. m
        BY <1>1, <3>1, <3>3
      <4>2. Held[n + (i - n)] = buffers[i - n] /\ buffers'[i - n] = buffers[i - n]
        BY <1>2, <1>3, <4>1
      <4> QED BY <3>1, <3>2, <4>2
    <3>4. CASE i - n = m + 1
      BY <1>1, <1>2, <1>3, <3>1, <3>2, <3>4
    <3> QED BY <1>1, <3>1, <3>3, <3>4
  <2> QED BY <1>1, <1>2, <2>1, <2>2
<1> QED BY <1>1, <1>2, <1>4, <1>5 DEF Appended

LEMMA SwapAppends ==
  ASSUME TypeOK, toWrite = <<>>, toWrite' = Append(buffers, currentBuffer),
         buffers' = <<>>, currentBuffer' \in Buffer
  PROVE  Appended(currentBuffer')
<1> DEFINE m == Len(buffers)
<1>1. buffers \in Seq(Buffer) /\ currentBuffer \in Buffer /\ m \in Nat
  BY SeqFacts DEF TypeOK
<1>2. Held = Append(buffers, currentBuffer)
  BY <1>1, AppendFacts, ConcatEmptySeq DEF Held
<1>3. /\ Held \in Seq(Buffer) /\ Len(Held) = m + 1
  BY <1>1, <1>2, SeqFacts
<1>4. Held' = Held \o Append(<<>>, currentBuffer')
  BY <1>2 DEF Held
<1>5. <<>> \in Seq(Buffer) /\ Len(<<>>) = 0
  BY EmptySeq
<1>6. /\ Len(Held') = Len(Held) + 0 + 1
      /\ \A i \in 1 .. Len(Held) : Held'[i] = Held[i]
      /\ Held'[Len(Held) + 0 + 1] = currentBuffer'
  BY <1>3, <1>4, <1>5, HeldFacts
<1> QED BY <1>3, <1>6 DEF Appended

(* A new batch that is a suffix of the old one. *)
LEMMA SuffixDrops ==
  ASSUME TypeOK, NEW d \in 0 .. Len(toWrite),
         toWrite' \in Seq(Buffer), Len(toWrite') = Len(toWrite) - d,
         \A i \in 1 .. Len(toWrite') : toWrite'[i] = toWrite[i + d],
         buffers' = buffers, currentBuffer' = currentBuffer
  PROVE  Dropped(d)
<1> DEFINE n == Len(toWrite)
           m == Len(buffers)
           a == Append(buffers, currentBuffer)
<1>1. /\ toWrite \in Seq(Buffer) /\ buffers \in Seq(Buffer) /\ currentBuffer \in Buffer
      /\ n \in Nat /\ m \in Nat
  BY SeqFacts DEF TypeOK
<1>2. /\ Len(Held) = n + m + 1
      /\ \A i \in 1 .. n : Held[i] = toWrite[i]
      /\ \A i \in 1 .. m : Held[n + i] = buffers[i]
      /\ Held[n + m + 1] = currentBuffer
  BY <1>1, HeldFacts DEF Held
<1>3. /\ Len(Held') = (n - d) + m + 1
      /\ \A i \in 1 .. n - d : Held'[i] = toWrite'[i]
      /\ \A i \in 1 .. m : Held'[n - d + i] = buffers[i]
      /\ Held'[n - d + m + 1] = currentBuffer
  <2>1. Held' = toWrite' \o Append(buffers, currentBuffer)
    BY DEF Held
  <2>2. n - d \in Nat /\ Len(toWrite') = n - d
    BY <1>1
  <2>3. /\ Len(Held') = Len(toWrite') + m + 1
        /\ \A i \in 1 .. Len(toWrite') : Held'[i] = toWrite'[i]
        /\ \A i \in 1 .. m : Held'[Len(toWrite') + i] = buffers[i]
        /\ Held'[Len(toWrite') + m + 1] = currentBuffer
    <3> DEFINE tw == toWrite'
    <3>1. tw \in Seq(Buffer) /\ Held' = tw \o Append(buffers, currentBuffer)
      BY <2>1
    <3> HIDE DEF tw
    <3>2. /\ Len(Held') = Len(tw) + m + 1
          /\ \A i \in 1 .. Len(tw) : Held'[i] = tw[i]
          /\ \A i \in 1 .. m : Held'[Len(tw) + i] = buffers[i]
          /\ Held'[Len(tw) + m + 1] = currentBuffer
      BY <1>1, <3>1, HeldFacts
    <3> QED BY <3>2 DEF tw
  <2> QED BY <2>2, <2>3
<1>4. ASSUME NEW i \in 1 .. Len(Held) - d PROVE Held'[i] = Held[i + d]
  <2>1. CASE i <= n - d
    BY <1>1, <1>2, <1>3, <2>1
  <2>2. CASE i > n - d /\ i <= n - d + m
    <3>1. i - (n - d) \in 1 .. m /\ n - d + (i - (n - d)) = i /\ n + (i - (n - d)) = i + d
      BY <1>1, <2>2
    <3> QED BY <1>2, <1>3, <3>1, ZenonT(60)
  <2>3. CASE i = n - d + m + 1
    BY <1>1, <1>2, <1>3, <2>3
  <2>4. /\ d \in Nat /\ d <= n /\ n \in Nat /\ m \in Nat
        /\ i \in Nat /\ 1 <= i /\ i <= n + m + 1 - d
    BY <1>1, <1>2
  <2>5. i <= n - d \/ (i > n - d /\ i <= n - d + m) \/ i = n - d + m + 1
    <3> HIDE DEF n, m
    <3> QED BY <2>4
  <2> QED BY <2>1, <2>2, <2>3, <2>5
<1> QED BY <1>1, <1>2, <1>3, <1>4 DEF Dropped

LEMMA HeldTypesNext ==
  ASSUME TypeOK'
  PROVE  /\ Held' \in Seq(Buffer)
         /\ Len(Held') \in Nat
         /\ Range(Held') = {Held'[i] : i \in 1 .. Len(Held')}
<1>1. toWrite' \in Seq(Buffer) /\ buffers' \in Seq(Buffer) /\ currentBuffer' \in Buffer
  BY DEF TypeOK
<1>2. Held' \in Seq(Buffer)
  BY <1>1, HeldFacts DEF Held
<1> QED BY <1>2, RangeSeq, SeqFacts

NoneTwice == \A i, j \in 1 .. Len(Held) : Held[i] = Held[j] => i = j

LEMMA AppendedOwns ==
  ASSUME TypeOK, TypeOK', NEW b, Appended(b)
  PROVE  /\ Range(Held') = Range(Held) \cup {b}
         /\ NoneTwice /\ b \notin Range(Held) => NoneTwice'
<1> DEFINE h  == Held
           g  == Held'
           n  == Len(Held)
           n1 == Len(Held')
<1>1. /\ n \in Nat /\ n1 = n + 1
      /\ \A i \in 1 .. n : g[i] = h[i]
      /\ g[n + 1] = b
      /\ Range(Held) = {h[i] : i \in 1 .. n}
      /\ Range(Held') = {g[i] : i \in 1 .. n1}
  BY HeldTypes, HeldTypesNext DEF Appended
<1> HIDE DEF h, g, n, n1
<1>2. \A i \in 1 .. n1 : i \in 1 .. n \/ i = n + 1
  BY <1>1
<1>3. Range(Held') \subseteq Range(Held) \cup {b}
  BY <1>1, <1>2
<1>4. Range(Held) \cup {b} \subseteq Range(Held')
  <2>1. n + 1 \in 1 .. n1 /\ 1 .. n \subseteq 1 .. n1
    BY <1>1
  <2> QED BY <1>1, <2>1
<1>5. ASSUME \A i, j \in 1 .. n : h[i] = h[j] => i = j, b \notin Range(Held)
      PROVE  \A i, j \in 1 .. n1 : g[i] = g[j] => i = j
  BY <1>1, <1>2, <1>5
<1> QED BY <1>3, <1>4, <1>5 DEF NoneTwice, h, g, n, n1

LEMMA DroppedOwns ==
  ASSUME TypeOK, TypeOK', NoneTwice, NEW d \in 0 .. Len(Held), Dropped(d)
  PROVE  /\ Range(Held') = Range(Held) \ {Held[i] : i \in 1 .. d}
         /\ NoneTwice'
<1> DEFINE h  == Held
           g  == Held'
           n  == Len(Held)
           n1 == Len(Held')
<1>1. /\ n \in Nat /\ d \in 0 .. n /\ n1 = n - d
      /\ \A i \in 1 .. n - d : g[i] = h[i + d]
      /\ \A i, j \in 1 .. n : h[i] = h[j] => i = j
      /\ Range(Held) = {h[i] : i \in 1 .. n}
      /\ Range(Held') = {g[i] : i \in 1 .. n1}
  BY HeldTypes, HeldTypesNext DEF Dropped, NoneTwice
<1>2. {Held[i] : i \in 1 .. d} = {h[i] : i \in 1 .. d}
  OBVIOUS
<1> HIDE DEF h, g, n, n1
<1>3. \A i \in 1 .. n1 : i + d \in 1 .. n /\ i + d \notin 1 .. d
  BY <1>1
<1>4. \A i \in 1 .. d : i \in 1 .. n
  BY <1>1
<1>5. Range(Held') \subseteq Range(Held) \ {h[i] : i \in 1 .. d}
  BY <1>1, <1>3, <1>4
<1>6. Range(Held) \ {h[i] : i \in 1 .. d} \subseteq Range(Held')
  <2> SUFFICES ASSUME NEW i \in 1 .. n, i \notin 1 .. d
               PROVE  h[i] \in Range(Held')
    BY <1>1
  <2>1. i - d \in 1 .. n1 /\ (i - d) + d = i
    BY <1>1
  <2>2. g[i - d] = h[(i - d) + d]
    BY <1>1, <2>1
  <2> QED BY <1>1, <2>1, <2>2
<1>7. \A i, j \in 1 .. n1 : g[i] = g[j] => i = j
  <2> SUFFICES ASSUME NEW i \in 1 .. n1, NEW j \in 1 .. n1, g[i] = g[j] PROVE i = j
    OBVIOUS
  <2>1. h[i + d] = h[j + d] /\ i + d \in 1 .. n /\ j + d \in 1 .. n
    BY <1>1, <1>3
  <2>2. i + d = j + d
    BY <1>1, <2>1
  <2> QED BY <1>1, <2>2
<1> QED BY <1>2, <1>5, <1>6, <1>7 DEF NoneTwice, g, n1

OwnInv == OneOwner /\ NoLeakNoDangling /\ SparesEmpty

(* The overrun rule deletes the cells it drops. *)
LEMMA TrimDrops ==
  ASSUME TypeOK, NoneTwice, LogTrim
  PROVE  \E d \in 0 .. Len(toWrite) :
           /\ Dropped(d)
           /\ Range(toWrite) \ Range(toWrite') = {Held[i] : i \in 1 .. d}
           /\ d = IF Len(toWrite) > MaxPending THEN Len(toWrite) - 2 ELSE 0
           /\ \A i \in 1 .. Len(toWrite') : toWrite'[i] = Held[i + d]
           /\ Len(toWrite') = Len(toWrite) - d
<1> DEFINE n == Len(toWrite)
           d == n - Len(toWrite')
           k == Len(toWrite')
<1>1. toWrite \in Seq(Buffer) /\ toWrite' = Newest(toWrite)
  BY DEF LogTrim, TypeOK
<1>2. /\ toWrite' \in Seq(Buffer) /\ d \in 0 .. n
      /\ k = IF n > MaxPending THEN 2 ELSE n
      /\ \A i \in 1 .. k : toWrite'[i] = toWrite[i + d]
      /\ n \in Nat
  BY <1>1, NewestFacts, SeqFacts
<1>3. buffers' = buffers /\ currentBuffer' = currentBuffer
  BY DEF LogTrim, serverVars
<1>4. k = n - d
  BY <1>2, SeqFacts
<1>5. Dropped(d)
  BY <1>2, <1>3, <1>4, SuffixDrops
<1>6. /\ \A i \in 1 .. n : Held[i] = toWrite[i]
      /\ Range(toWrite) = {Held[i] : i \in 1 .. n}
      /\ n <= Len(Held) /\ Len(Held) \in Nat
  <2>1. Len(buffers) \in Nat /\ Len(Held) = n + Len(buffers) + 1
    BY HeldTypes, SeqFacts DEF TypeOK
  <2> QED BY <1>2, <2>1, HeldTypes
<1>7. \A i \in 1 .. k : i + d \in 1 .. n /\ toWrite'[i] = Held[i + d]
  <2> HIDE DEF n, d, k
  <2>1. \A i \in 1 .. k : i + d \in 1 .. n
    BY <1>2, <1>4
  <2> QED BY <1>2, <1>6, <2>1
<1>8. Range(toWrite') = {toWrite'[i] : i \in 1 .. k}
  BY <1>2, RangeSeq
<1>9. \A i, j \in 1 .. n : Held[i] = Held[j] => i = j
  BY <1>2, <1>6 DEF NoneTwice
<1> HIDE DEF n, d, k
<1>10. Range(toWrite) \ Range(toWrite') \subseteq {Held[i] : i \in 1 .. d}
  <2> SUFFICES ASSUME NEW i \in 1 .. n, Held[i] \notin Range(toWrite') PROVE i \in 1 .. d
    BY <1>6
  <2>1. SUFFICES ASSUME i > d PROVE FALSE
    BY <1>2
  <2>2. i - d \in 1 .. k /\ (i - d) + d = i
    BY <1>2, <1>4, <2>1
  <2> QED BY <1>7, <1>8, <2>2
<1>11. {Held[i] : i \in 1 .. d} \subseteq Range(toWrite) \ Range(toWrite')
  <2> SUFFICES ASSUME NEW i \in 1 .. d PROVE Held[i] \in Range(toWrite) \ Range(toWrite')
    OBVIOUS
  <2>1. i \in 1 .. n
    BY <1>2
  <2>2. ASSUME NEW j \in 1 .. k, Held[i] = toWrite'[j] PROVE FALSE
    <3>1. i = j + d
      BY <1>7, <1>9, <2>1, <2>2
    <3> QED BY <1>2, <3>1
  <2> QED BY <1>6, <1>8, <2>1, <2>2
<1>12. d = IF n > MaxPending THEN n - 2 ELSE 0
  BY <1>2, <1>4
<1> QED BY <1>2, <1>4, <1>5, <1>7, <1>10, <1>11, <1>12 DEF n, k

(* Recycling drops the whole batch and keeps one or two of its cells. *)
LEMMA RecycleDrops ==
  ASSUME TypeInv, NoneTwice, LogRecycle
  PROVE  \E kept \in SUBSET {Held[i] : i \in 1 .. Len(toWrite)} :
           /\ Dropped(Len(toWrite))
           /\ data' = Emptied(data, kept, <<>>) /\ length' = Emptied(length, kept, 0)
           /\ live' = live \ ({Held[i] : i \in 1 .. Len(toWrite)} \ kept)
           /\ newBuffer1' \in kept
           /\ IF newBuffer2 = NULL
              THEN newBuffer2' \in kept /\ kept = {newBuffer1', newBuffer2'} /\ newBuffer1' # newBuffer2'
              ELSE newBuffer2' = newBuffer2 /\ kept = {newBuffer1'}
<1> DEFINE n    == IF Len(toWrite) > 2 THEN 2 ELSE Len(toWrite)
           kept == IF newBuffer2 = NULL THEN {toWrite[n], toWrite[n - 1]} ELSE {toWrite[n]}
<1>1. /\ logPc = "send"
      /\ newBuffer1' = toWrite[n]
      /\ newBuffer2' = IF newBuffer2 = NULL THEN toWrite[n - 1] ELSE newBuffer2
      /\ data' = Emptied(data, kept, <<>>)
      /\ length' = Emptied(length, kept, 0)
      /\ live' = live \ (Range(toWrite) \ kept)
      /\ toWrite' = <<>>
      /\ buffers' = buffers /\ currentBuffer' = currentBuffer
  BY DEF LogRecycle, Deleted, serverVars
<1>2. toWrite \in Seq(Buffer) /\ Len(toWrite) \in Nat
  BY SeqFacts DEF TypeInv, TypeOK
<1>3. /\ n \in 1 .. Len(toWrite)
      /\ newBuffer2 = NULL => n - 1 \in 1 .. Len(toWrite) /\ n - 1 # n
  BY <1>1, <1>2, SeqFacts DEF TypeInv, Shape
<1>4. /\ \A i \in 1 .. Len(toWrite) : toWrite[i] = Held[i]
      /\ Range(toWrite) = {Held[i] : i \in 1 .. Len(toWrite)}
      /\ Len(toWrite) <= Len(Held) /\ Len(Held) \in Nat
  <2>1. Len(buffers) \in Nat /\ Len(Held) = Len(toWrite) + Len(buffers) + 1
    BY HeldTypes, SeqFacts DEF TypeInv, TypeOK
  <2> QED BY <1>2, <2>1, HeldTypes DEF TypeInv
<1>5. Dropped(Len(toWrite))
  <2>1. toWrite' \in Seq(Buffer) /\ Len(toWrite') = 0
    BY <1>1, EmptySeq
  <2> QED BY <1>1, <1>2, <2>1, SuffixDrops DEF TypeInv
<1>6. newBuffer2 = NULL => toWrite[n] # toWrite[n - 1]
  <2>1. \A i, j \in 1 .. Len(toWrite) : Held[i] = Held[j] => i = j
    BY <1>2, <1>4 DEF NoneTwice
  <2> HIDE DEF n
  <2> QED BY <1>3, <1>4, <2>1
<1>7. kept \subseteq {Held[i] : i \in 1 .. Len(toWrite)}
  <2> HIDE DEF n
  <2> QED BY <1>3, <1>4
<1> HIDE DEF n
<1>8. /\ newBuffer1' \in kept
      /\ IF newBuffer2 = NULL
         THEN newBuffer2' \in kept /\ kept = {newBuffer1', newBuffer2'} /\ newBuffer1' # newBuffer2'
         ELSE newBuffer2' = newBuffer2 /\ kept = {newBuffer1'}
  BY <1>1, <1>6
<1> HIDE DEF kept
<1> QED BY <1>1, <1>4, <1>5, <1>7, <1>8

(* Steps that move no pointer and leave the spare cells alone. *)
LEMMA OwnUnchanged ==
  ASSUME OwnInv,
         UNCHANGED <<currentBuffer, nextBuffer, buffers, newBuffer1, newBuffer2, toWrite, live>>,
         \A b \in Spares : data'[b] = data[b] /\ length'[b] = length[b]
  PROVE  OwnInv'
<1>1. Held' = Held /\ Spares' = Spares
  BY DEF Held, Spares
<1>2. OneOwner'
  BY <1>1 DEF OwnInv, OneOwner
<1>3. NoLeakNoDangling'
  BY <1>1 DEF OwnInv, NoLeakNoDangling
<1>4. SparesEmpty'
  BY <1>1 DEF OwnInv, SparesEmpty
<1> QED BY <1>2, <1>3, <1>4 DEF OwnInv

LEMMA OwnInit == Init => OwnInv
<1> SUFFICES ASSUME Init PROVE OwnInv
  OBVIOUS
<1> PICK b1 \in Buffer, b2 \in Buffer :
       b1 # b2 /\ currentBuffer = b1 /\ nextBuffer = b2 /\ live = {b1, b2}
  BY DEF Init
<1>1. Len(Held) = 1 /\ Held[1] = b1 /\ Range(Held) = {b1}
  <2>1. TypeOK /\ Len(toWrite) = 0 /\ Len(buffers) = 0
    BY TypeInit, EmptySeq DEF TypeInv, Init
  <2>2. Len(Held) = 1 /\ Held[1] = b1
    <3>1. Len(Held) = Len(toWrite) + Len(buffers) + 1 /\ Held[Len(Held)] = currentBuffer
      BY <2>1, HeldTypes
    <3> QED BY <2>1, <3>1
  <2>3. Range(Held) = {Held[i] : i \in 1 .. Len(Held)}
    BY <2>1, HeldTypes
  <2> QED BY <2>2, <2>3
<1>2. Spares = {b2}
  BY MsgBufferAssumption DEF Init, Spares
<1>3. OneOwner
  BY <1>1, <1>2, MsgBufferAssumption DEF OneOwner, Init
<1>4. NoLeakNoDangling
  BY <1>1, <1>2 DEF NoLeakNoDangling
<1>5. SparesEmpty
  BY <1>2 DEF SparesEmpty, Init
<1> QED BY <1>3, <1>4, <1>5 DEF OwnInv

LEMMA OwnStep ==
  ASSUME TypeInv, TypeInv', OwnInv, [Next]_vars
  PROVE  OwnInv'
<1>1. TypeOK /\ TypeOK' /\ Shape /\ Shape'
  BY DEF TypeInv
<1>2. /\ NoneTwice /\ Spares \cap Range(Held) = {}
      /\ nextBuffer = NULL \/ nextBuffer \notin {newBuffer1, newBuffer2}
      /\ newBuffer1 = NULL \/ newBuffer1 # newBuffer2
      /\ live = Range(Held) \cup Spares
      /\ \A b \in Spares : data[b] = <<>> /\ length[b] = 0
  BY DEF OwnInv, OneOwner, NoLeakNoDangling, SparesEmpty, NoneTwice
<1>3. currentBuffer \in Range(Held)
  BY <1>1, HeldTypes
<1>4. ASSUME \/ Start \/ Stop \/ StopNotify \/ StopJoin
             \/ \E t \in Thread, n \in Lens : TelPrintf(t, n)
             \/ \E t \in Thread : AppendCheck(t)
             \/ LogStartAborts \/ LogLoop \/ LogWait \/ LogTimeout \/ LogSkip \/ LogSendBegin
             \/ LogSendDone \/ LogSendFails \/ ClientComes \/ ClientGoes \/ UNCHANGED vars
      PROVE  OwnInv'
  <2>1. /\ UNCHANGED <<currentBuffer, nextBuffer, buffers, newBuffer1, newBuffer2, toWrite,
                       live>>
        /\ UNCHANGED <<data, length>>
    BY <1>4 DEF Start, Stop, StopNotify, StopJoin, TelPrintf, AppendCheck, LogStartAborts,
         LogLoop, LogWait, LogTimeout, LogSkip, LogSendBegin, LogSendDone, LogSendFails,
         ClientComes, ClientGoes, vars, serverVars, heapVars, logVars
  <2> QED BY <2>1, OwnUnchanged
<1>5. ASSUME NEW t \in Thread, AppendFits(t)
      PROVE  OwnInv'
  <2>1. \A b \in Spares : data'[b] = data[b] /\ length'[b] = length[b]
    <3>1. \A b \in Spares : b # currentBuffer /\ b \in Buffer
      BY <1>1, <1>2, <1>3 DEF Spares, TypeOK, Ptr
    <3>2. data \in [Buffer -> Seq(Stamp)] /\ length \in [Buffer -> 0 .. BufSize]
      BY <1>1 DEF TypeOK
    <3> QED BY <1>5, <3>1, <3>2 DEF AppendFits
  <2>2. UNCHANGED <<currentBuffer, nextBuffer, buffers, newBuffer1, newBuffer2, toWrite, live>>
    BY <1>5 DEF AppendFits, serverVars, logVars
  <2> QED BY <2>1, <2>2, OwnUnchanged
<1>6. ASSUME NEW t \in Thread, AppendRolls(t)
      PROVE  OwnInv'
  <2> DEFINE b == currentBuffer'
  <2>1. /\ b \in Fresh
        /\ live' = live \cup {b}
        /\ \A c \in Buffer \ {b} : data'[c] = data[c] /\ length'[c] = length[c]
    <3> PICK e \in Fresh :
          LET old  == Emptied(data, {e} \ live, <<>>)
              oldL == Emptied(length, {e} \ live, 0)
              room == BufSize - oldL[e] > len[t]
          IN  /\ currentBuffer' = e
              /\ live' = live \cup {e}
              /\ data'   = IF room THEN [old EXCEPT ![e] = Append(@, accepted + 1)] ELSE old
              /\ length' = IF room THEN [oldL EXCEPT ![e] = @ + len[t]] ELSE oldL
      BY <1>6 DEF AppendRolls
    <3> QED BY DEF Emptied
  <2>2. /\ nextBuffer' = NULL /\ buffers' = Append(buffers, currentBuffer)
        /\ UNCHANGED <<newBuffer1, newBuffer2, toWrite>>
    BY <1>6 DEF AppendRolls
  <2>3. Appended(b)
    BY <1>1, <2>2, RollsAppends DEF TypeOK
  <2>4. b \notin Range(Held) /\ b \notin {newBuffer1, newBuffer2} /\ b \in Buffer
    <3>1. CASE nextBuffer # NULL
      <4>1. b = nextBuffer /\ nextBuffer \in Spares
        BY <2>1, <3>1 DEF Fresh, Spares
      <4> QED BY <1>1, <1>2, <3>1, <4>1 DEF TypeOK, Ptr
    <3>2. CASE nextBuffer = NULL
      <4>1. b \in Buffer \ live
        BY <2>1, <3>2 DEF Fresh
      <4> QED BY <1>2, <4>1, MsgBufferAssumption DEF Spares
    <3> QED BY <3>1, <3>2
  <2>5. /\ Range(Held') = Range(Held) \cup {b} /\ NoneTwice'
    BY <1>1, <1>2, <2>3, <2>4, AppendedOwns
  <2>6. Spares' = {newBuffer1, newBuffer2} \ {NULL} /\ Spares \subseteq Spares' \cup {nextBuffer}
    BY <2>2 DEF Spares
  <2>7. OneOwner'
    BY <1>2, <2>2, <2>4, <2>5, <2>6 DEF OneOwner, NoneTwice, Spares
  <2>8. NoLeakNoDangling'
    <3>1. nextBuffer # NULL => b = nextBuffer
      BY <2>1 DEF Fresh
    <3>2. Spares = Spares' \cup ({nextBuffer} \ {NULL})
      BY <2>6 DEF Spares
    <3> QED BY <1>2, <2>1, <2>5, <3>1, <3>2 DEF NoLeakNoDangling
  <2>9. SparesEmpty'
    <3>1. \A c \in Spares' : c \in Spares /\ c \in Buffer \ {b}
      BY <1>1, <2>4, <2>6 DEF Spares, TypeOK, Ptr
    <3> QED BY <1>2, <2>1, <3>1 DEF SparesEmpty
  <2> QED BY <2>7, <2>8, <2>9 DEF OwnInv
<1>7. CASE LogStart
  <2> PICK b1 \in Buffer \ live, b2 \in Buffer \ live :
         /\ b1 # b2
         /\ newBuffer1' = b1 /\ newBuffer2' = b2
         /\ live' = live \cup {b1, b2}
         /\ data' = Emptied(data, {b1, b2}, <<>>)
         /\ length' = Emptied(length, {b1, b2}, 0)
    BY <1>7 DEF LogStart
  <2>1. UNCHANGED <<currentBuffer, nextBuffer, buffers, toWrite>>
    BY <1>7 DEF LogStart, serverVars
  <2>2. newBuffer1 = NULL /\ newBuffer2 = NULL
    BY <1>1, <1>7 DEF LogStart, Shape
  <2>3. Held' = Held /\ Spares = {nextBuffer} \ {NULL} /\ Spares' = Spares \cup {b1, b2}
    BY <2>1, <2>2, MsgBufferAssumption DEF Held, Spares
  <2>4. b1 \notin Range(Held) \cup Spares /\ b2 \notin Range(Held) \cup Spares
    BY <1>2
  <2>5. OneOwner'
    <3>1. Spares' \cap Range(Held') = {}
      BY <1>2, <2>3, <2>4
    <3>2. nextBuffer' = NULL \/ nextBuffer' \notin {newBuffer1', newBuffer2'}
      BY <2>1, <2>3, <2>4
    <3> QED BY <1>2, <2>3, <3>1, <3>2 DEF OneOwner, NoneTwice
  <2>6. NoLeakNoDangling'
    BY <1>2, <2>3 DEF NoLeakNoDangling
  <2>7. SparesEmpty'
    <3>1. \A c \in Spares' : c \in Buffer
      BY <1>1, <2>3 DEF Spares, TypeOK, Ptr
    <3> QED BY <1>2, <2>3, <3>1 DEF SparesEmpty, Emptied
  <2> QED BY <2>5, <2>6, <2>7 DEF OwnInv
<1>8. CASE LogExit
  <2>1. /\ UNCHANGED <<currentBuffer, nextBuffer, buffers, toWrite, data, length>>
        /\ live' = live \ {newBuffer1, newBuffer2}
        /\ newBuffer1' = NULL /\ newBuffer2' = NULL
    BY <1>8 DEF LogExit, Deleted, serverVars
  <2>2. newBuffer1 \in Buffer /\ newBuffer2 \in Buffer
    BY <1>1, <1>8 DEF LogExit, Shape
  <2>3. /\ Held' = Held
        /\ Spares = ({nextBuffer} \ {NULL}) \cup {newBuffer1, newBuffer2}
        /\ Spares' = {nextBuffer} \ {NULL}
    BY <2>1, <2>2, MsgBufferAssumption DEF Held, Spares
  <2>4. OneOwner'
    BY <1>2, <2>1, <2>3 DEF OneOwner, NoneTwice
  <2>5. NoLeakNoDangling'
    BY <1>2, <2>1, <2>3 DEF NoLeakNoDangling
  <2>6. SparesEmpty'
    BY <1>2, <2>1, <2>3 DEF SparesEmpty
  <2> QED BY <2>4, <2>5, <2>6 DEF OwnInv
<1>9. CASE LogSwap
  <2>1. /\ toWrite' = Append(buffers, currentBuffer) /\ buffers' = <<>>
        /\ currentBuffer' = newBuffer1 /\ newBuffer1' = NULL
        /\ nextBuffer' = IF nextBuffer = NULL THEN newBuffer2 ELSE nextBuffer
        /\ newBuffer2' = IF nextBuffer = NULL THEN NULL ELSE newBuffer2
        /\ UNCHANGED <<live, data, length>>
    BY <1>9 DEF LogSwap, MovedSpare, heapVars
  <2>2. newBuffer1 \in Buffer /\ newBuffer2 \in Buffer /\ toWrite = <<>>
    BY <1>1, <1>9 DEF LogSwap, Shape
  <2>3. Appended(newBuffer1)
    BY <1>1, <2>1, <2>2, SwapAppends
  <2>4. newBuffer1 \in Spares /\ newBuffer1 # NULL
    BY <2>2, MsgBufferAssumption DEF Spares
  <2>5. Range(Held') = Range(Held) \cup {newBuffer1} /\ NoneTwice'
    BY <1>1, <1>2, <2>3, <2>4, AppendedOwns
  <2>6. /\ Spares' = Spares \ {newBuffer1}
        /\ nextBuffer' # NULL /\ nextBuffer' # newBuffer2'
    BY <1>2, <2>1, <2>2, <2>4, MsgBufferAssumption DEF Spares
  <2>7. OneOwner'
    BY <1>2, <2>1, <2>5, <2>6 DEF OneOwner, NoneTwice
  <2>8. NoLeakNoDangling'
    BY <1>2, <2>1, <2>4, <2>5, <2>6 DEF NoLeakNoDangling
  <2>9. SparesEmpty'
    BY <1>2, <2>1, <2>6 DEF SparesEmpty
  <2> QED BY <2>7, <2>8, <2>9 DEF OwnInv
<1>10. CASE LogTrim
  <2> PICK d \in 0 .. Len(toWrite) :
         /\ Dropped(d)
         /\ Range(toWrite) \ Range(toWrite') = {Held[i] : i \in 1 .. d}
    BY <1>1, <1>2, <1>10, TrimDrops
  <2>1. /\ UNCHANGED <<nextBuffer, newBuffer1, newBuffer2, data, length>>
        /\ live' = live \ {Held[i] : i \in 1 .. d}
    BY <1>10 DEF LogTrim, Deleted, serverVars
  <2>2. d \in 0 .. Len(Held)
    <3>1. Len(Held) \in Nat /\ Len(toWrite) \in 0 .. Len(Held) - 1
      BY <1>1, HeldTypes
    <3> QED BY <3>1
  <2>3. Range(Held') = Range(Held) \ {Held[i] : i \in 1 .. d} /\ NoneTwice'
    BY <1>1, <1>2, <2>2, DroppedOwns
  <2>4. {Held[i] : i \in 1 .. d} \subseteq Range(Held)
    BY <1>1, <2>2, HeldTypes
  <2>5. Spares' = Spares
    BY <2>1 DEF Spares
  <2>6. OneOwner'
    BY <1>2, <2>1, <2>3, <2>5 DEF OneOwner, NoneTwice
  <2>7. NoLeakNoDangling'
    BY <1>2, <2>1, <2>3, <2>4, <2>5 DEF NoLeakNoDangling
  <2>8. SparesEmpty'
    BY <1>2, <2>1, <2>5 DEF SparesEmpty
  <2> QED BY <2>6, <2>7, <2>8 DEF OwnInv
<1>11. CASE LogRecycle
  <2> DEFINE batch == {Held[i] : i \in 1 .. Len(toWrite)}
  <2> PICK kept \in SUBSET batch :
         /\ Dropped(Len(toWrite))
         /\ data' = Emptied(data, kept, <<>>) /\ length' = Emptied(length, kept, 0)
         /\ live' = live \ (batch \ kept)
         /\ newBuffer1' \in kept
         /\ IF newBuffer2 = NULL
            THEN newBuffer2' \in kept /\ kept = {newBuffer1', newBuffer2'} /\ newBuffer1' # newBuffer2'
            ELSE newBuffer2' = newBuffer2 /\ kept = {newBuffer1'}
    BY <1>2, <1>11, RecycleDrops
  <2>1. nextBuffer' = nextBuffer /\ newBuffer1 = NULL
    BY <1>1, <1>11 DEF LogRecycle, serverVars, Shape
  <2>2. Len(toWrite) \in 0 .. Len(Held)
    <3>1. Len(Held) \in Nat /\ Len(toWrite) \in 0 .. Len(Held) - 1
      BY <1>1, HeldTypes
    <3> QED BY <3>1
  <2>3. Range(Held') = Range(Held) \ batch /\ NoneTwice'
    BY <1>1, <1>2, <2>2, DroppedOwns
  <2>4. batch \subseteq Range(Held) /\ Range(Held) \subseteq Buffer
    BY <1>1, <2>2, HeldTypes
  <2> HIDE DEF batch
  <2>5. Spares' = Spares \cup kept
    BY <2>1, <2>4, MsgBufferAssumption DEF Spares
  <2>6. OneOwner'
    <3>1. Spares' \cap Range(Held') = {}
      BY <1>2, <2>3, <2>5
    <3>2. nextBuffer' = NULL \/ nextBuffer' \notin {newBuffer1', newBuffer2'}
      BY <1>2, <2>1, <2>4 DEF Spares
    <3>3. newBuffer1' = NULL \/ newBuffer1' # newBuffer2'
      BY <1>2, <2>4 DEF Spares
    <3> QED BY <2>3, <3>1, <3>2, <3>3 DEF OneOwner, NoneTwice
  <2>7. NoLeakNoDangling'
    BY <1>2, <2>3, <2>4, <2>5 DEF NoLeakNoDangling
  <2>8. SparesEmpty'
    <3>1. \A c \in Spares' : c \in Buffer
      BY <1>1 DEF Spares, TypeOK, Ptr
    <3> QED BY <1>2, <2>5, <3>1 DEF SparesEmpty, Emptied
  <2> QED BY <2>6, <2>7, <2>8 DEF OwnInv
<1> QED
  BY <1>4, <1>5, <1>6, <1>7, <1>8, <1>9, <1>10, <1>11
     DEF Next, CtlStep, LogStep, LogSendEnd, Append1, Terminated

LEMMA SafeTwo == Spec => [](TypeInv /\ OwnInv)
<1>1. Init => TypeInv /\ OwnInv
  BY TypeInit, OwnInit
<1>2. TypeInv /\ OwnInv /\ [Next]_vars => TypeInv' /\ OwnInv'
  BY TypeStep, OwnStep
<1> QED BY <1>1, <1>2, PTL DEF Spec

(* No cell ever has two owners.                                            *)
THEOREM SingleOwnership == Spec => []OneOwner
<1>1. TypeInv /\ OwnInv => OneOwner
  BY DEF OwnInv
<1> QED BY <1>1, SafeTwo, PTL

(* What is allocated is exactly what is pointed to: nothing leaks and no   *)
(* pointer dangles, in every round and across stop and start.              *)
THEOREM NoLeak == Spec => []NoLeakNoDangling
<1>1. TypeInv /\ OwnInv => NoLeakNoDangling
  BY DEF OwnInv
<1> QED BY <1>1, SafeTwo, PTL

(* The spare cells are empty, so a roll-over always finds room.            *)
THEOREM SparesAlwaysEmpty == Spec => []SparesEmpty
<1>1. TypeInv /\ OwnInv => SparesEmpty
  BY DEF OwnInv
<1> QED BY <1>1, SafeTwo, PTL

-----------------------------------------------------------------------------
(* Part 3: order and accounting.  Facts about sequences of messages.       *)

LEMMA RangeAppend ==
  ASSUME NEW S, NEW q \in Seq(S), NEW e \in S
  PROVE  Range(Append(q, e)) = Range(q) \cup {e}
<1> DEFINE a == Append(q, e)
           n == Len(q)
           k == Len(a)
<1>1. /\ a \in Seq(S) /\ k = n + 1 /\ a[n + 1] = e /\ n \in Nat
      /\ \A i \in 1 .. n : a[i] = q[i]
  BY SeqFacts
<1>2. Range(a) = {a[i] : i \in 1 .. k} /\ Range(q) = {q[i] : i \in 1 .. n}
  BY <1>1, RangeSeq
<1> HIDE DEF a, n, k
<1>3. \A i \in 1 .. k : i \in 1 .. n \/ i = n + 1
  BY <1>1
<1>4. n + 1 \in 1 .. k /\ \A i \in 1 .. n : i \in 1 .. k
  BY <1>1
<1>5. Range(a) = Range(q) \cup {e}
  BY <1>1, <1>2, <1>3, <1>4
<1> QED BY <1>5 DEF a

LEMMA RangeConcat ==
  ASSUME NEW S, NEW q \in Seq(S), NEW r \in Seq(S)
  PROVE  Range(q \o r) = Range(q) \cup Range(r)
<1> DEFINE c == q \o r
           n == Len(q)
           m == Len(r)
           k == Len(c)
<1>1. /\ c \in Seq(S) /\ k = n + m /\ n \in Nat /\ m \in Nat
      /\ \A i \in 1 .. n + m : c[i] = IF i <= n THEN q[i] ELSE r[i - n]
  BY ConcatProperties, SeqFacts
<1>2. /\ Range(c) = {c[i] : i \in 1 .. k}
      /\ Range(q) = {q[i] : i \in 1 .. n} /\ Range(r) = {r[i] : i \in 1 .. m}
  BY <1>1, RangeSeq
<1> HIDE DEF c, n, m, k
<1>3. Range(c) \subseteq Range(q) \cup Range(r)
  <2> SUFFICES ASSUME NEW i \in 1 .. k PROVE c[i] \in Range(q) \cup Range(r)
    BY <1>2
  <2>1. CASE i <= n
    BY <1>1, <1>2, <2>1
  <2>2. CASE ~ (i <= n)
    <3>1. i - n \in 1 .. m /\ c[i] = r[i - n]
      BY <1>1, <2>2
    <3> QED BY <1>2, <3>1
  <2> QED BY <2>1, <2>2
<1>4. Range(q) \subseteq Range(c)
  <2>1. \A i \in 1 .. n : i \in 1 .. k /\ c[i] = q[i]
    BY <1>1
  <2> QED BY <1>2, <2>1
<1>5. Range(r) \subseteq Range(c)
  <2> SUFFICES ASSUME NEW i \in 1 .. m PROVE r[i] \in Range(c)
    BY <1>2
  <2>1. n + i \in 1 .. k /\ ~ (n + i <= n) /\ (n + i) - n = i
    BY <1>1
  <2>2. c[n + i] = r[i]
    BY <1>1, <2>1
  <2> QED BY <1>2, <2>1, <2>2
<1>6. Range(c) = Range(q) \cup Range(r)
  BY <1>3, <1>4, <1>5
<1> QED BY <1>6 DEF c

LEMMA IncreasingConcat ==
  ASSUME NEW q \in Seq(Stamp), NEW r \in Seq(Stamp), Increasing(q), Increasing(r),
         \A m \in Range(q), n \in Range(r) : m < n
  PROVE  Increasing(q \o r)
<1> DEFINE c == q \o r
           n == Len(q)
           m == Len(r)
           k == Len(c)
<1>1. /\ c \in Seq(Stamp) /\ k = n + m /\ n \in Nat /\ m \in Nat
      /\ \A i \in 1 .. n + m : c[i] = IF i <= n THEN q[i] ELSE r[i - n]
  BY ConcatProperties, SeqFacts
<1>2. /\ Range(q) = {q[i] : i \in 1 .. n} /\ Range(r) = {r[i] : i \in 1 .. m}
  BY RangeSeq
<1>3. /\ \A i, j \in 1 .. n : i < j => q[i] < q[j]
      /\ \A i, j \in 1 .. m : i < j => r[i] < r[j]
  BY DEF Increasing
<1> HIDE DEF c, n, m, k
<1>4. ASSUME NEW i \in 1 .. k, NEW j \in 1 .. k, i < j PROVE c[i] < c[j]
  <2>1. CASE j <= n
    BY <1>1, <1>3, <1>4, <2>1
  <2>2. CASE i <= n /\ ~ (j <= n)
    <3>1. i \in 1 .. n /\ j - n \in 1 .. m /\ c[i] = q[i] /\ c[j] = r[j - n]
      BY <1>1, <2>2
    <3> QED BY <1>2, <3>1
  <2>3. CASE ~ (i <= n) /\ ~ (j <= n)
    <3>1. /\ i - n \in 1 .. m /\ j - n \in 1 .. m /\ i - n < j - n
          /\ c[i] = r[i - n] /\ c[j] = r[j - n]
      BY <1>1, <1>4, <2>3
    <3> QED BY <1>3, <3>1
  <2> QED BY <1>1, <1>4, <2>1, <2>2, <2>3
<1>5. \A i, j \in 1 .. k : i < j => c[i] < c[j]
  BY <1>4
<1> QED BY <1>5 DEF Increasing, c, k

LEMMA IncreasingAppend ==
  ASSUME NEW q \in Seq(Stamp), NEW e \in Stamp, Increasing(q), \A m \in Range(q) : m < e
  PROVE  Increasing(Append(q, e))
<1> DEFINE n == Len(q)
           a == Append(q, e)
           k == Len(a)
<1>1. /\ k = n + 1 /\ a[n + 1] = e /\ n \in Nat /\ \A i \in 1 .. n : a[i] = q[i]
  BY SeqFacts
<1>2. Range(q) = {q[i] : i \in 1 .. n}
  BY RangeSeq
<1>3. \A i, j \in 1 .. n : i < j => q[i] < q[j]
  BY DEF Increasing
<1> HIDE DEF n, a, k
<1>4. ASSUME NEW i \in 1 .. k, NEW j \in 1 .. k, i < j PROVE a[i] < a[j]
  <2>1. i \in 1 .. n
    BY <1>1, <1>4
  <2>2. CASE j \in 1 .. n
    BY <1>1, <1>3, <1>4, <2>1, <2>2
  <2>3. CASE j = n + 1
    BY <1>1, <1>2, <2>1, <2>3
  <2> QED BY <1>1, <2>2, <2>3
<1>5. \A i, j \in 1 .. k : i < j => a[i] < a[j]
  BY <1>4
<1> QED BY <1>5 DEF Increasing, a, k

(* The queue of cells holds its messages in order of acceptance. *)
Ordered ==
  /\ \A i \in 1 .. Len(Held) : Increasing(data[Held[i]])
  /\ \A i, j \in 1 .. Len(Held) : i < j =>
        \A m \in StampsOf(Held[i]), n \in StampsOf(Held[j]) : m < n
  /\ \A i \in 1 .. Len(Held) : StampsOf(Held[i]) \subseteq 1 .. accepted

LEMMA QueueSame ==
  ASSUME Ordered, Held' = Held, accepted' = accepted,
         \A i \in 1 .. Len(Held) : data'[Held[i]] = data[Held[i]]
  PROVE  /\ Ordered'
         /\ sendIdx' \in Nat \ {0} =>
              Pending' = UNION {StampsOf(Held[i]) : i \in sendIdx' .. Len(Held)}
<1>1. Ordered'
  BY DEF Ordered, StampsOf
<1>2. ASSUME sendIdx' \in Nat \ {0}
      PROVE  Pending' = UNION {StampsOf(Held[i]) : i \in sendIdx' .. Len(Held)}
  <2>1. Pending' = UNION {Range(data'[Held[i]]) : i \in sendIdx' .. Len(Held)}
    BY DEF Pending, Unsent, StampsOf
  <2>2. \A i \in sendIdx' .. Len(Held) : i \in 1 .. Len(Held)
    BY <1>2
  <2> QED BY <2>1, <2>2 DEF StampsOf
<1> QED BY <1>1, <1>2

LEMMA QueueGrows ==
  ASSUME TypeOK, Ordered, NoneTwice, Held' = Held, sendIdx' = sendIdx,
         accepted' = accepted + 1,
         data' = [data EXCEPT ![currentBuffer] = Append(@, accepted + 1)]
  PROVE  Ordered' /\ Pending' = Pending \cup {accepted + 1}
<1> DEFINE n  == Len(Held)
           h  == Held
           x  == accepted + 1
           S(i) == StampsOf(h[i])
           T(i) == Range(data'[h[i]])
<1>1. /\ n \in Nat \ {0} /\ h[n] = currentBuffer
      /\ \A i \in 1 .. n : h[i] \in Buffer
      /\ sendIdx \in 1 .. n
      /\ \A i, j \in 1 .. n : h[i] = h[j] => i = j
  <2>1. Len(toWrite) \in 0 .. Len(Held) - 1 /\ sendIdx \in 1 .. Len(toWrite) + 1
    BY HeldTypes DEF TypeOK
  <2> QED BY <2>1, HeldTypes DEF NoneTwice
<1>2. /\ data \in [Buffer -> Seq(Stamp)] /\ x \in Stamp /\ accepted \in Nat
  BY ArithTypes DEF TypeOK
<1>3. /\ \A i \in 1 .. n : Increasing(data[h[i]])
      /\ \A i, j \in 1 .. n : i < j => \A p \in S(i), q \in S(j) : p < q
      /\ \A i \in 1 .. n : S(i) \subseteq 1 .. accepted
  BY DEF Ordered
<1>4. /\ data'[h[n]] = Append(data[h[n]], x)
      /\ \A i \in 1 .. n : i # n => data'[h[i]] = data[h[i]]
  BY <1>1, <1>2
<1>5. T(n) = S(n) \cup {x} /\ \A i \in 1 .. n : i # n => T(i) = S(i)
  BY <1>1, <1>2, <1>4, RangeAppend DEF StampsOf
<1>6. \A i \in 1 .. n : Increasing(data'[h[i]])
  <2>1. \A p \in Range(data[h[n]]) : p < x
    <3>1. S(n) \subseteq 1 .. accepted /\ S(n) = Range(data[h[n]])
      BY <1>1, <1>3 DEF StampsOf
    <3>2. \A p \in 1 .. accepted : p < x
      BY <1>2
    <3> HIDE DEF S, h, n, x
    <3> QED BY <3>1, <3>2
  <2>2. Increasing(data'[h[n]])
    BY <1>1, <1>2, <1>3, <1>4, <2>1, IncreasingAppend
  <2> QED BY <1>3, <1>4, <2>2
<1> DEFINE U == UNION {S(i) : i \in sendIdx .. n}
           V == UNION {T(i) : i \in sendIdx .. n}
<1>7. Pending = U /\ Pending' = V
  BY DEF Pending, Unsent, StampsOf
<1>8. accepted' = x
  OBVIOUS
<1> HIDE DEF S, T, U, V, x
<1>9. \A i, j \in 1 .. n : i < j => \A p \in T(i), q \in T(j) : p < q
  <2> SUFFICES ASSUME NEW i \in 1 .. n, NEW j \in 1 .. n, i < j, NEW p \in T(i), NEW q \in T(j)
               PROVE  p < q
    OBVIOUS
  <2>1. i # n /\ p \in S(i)
    BY <1>1, <1>5
  <2>2. CASE q \in S(j)
    BY <1>3, <2>1, <2>2
  <2>3. CASE q = x
    BY <1>2, <1>3, <2>1, <2>3 DEF x
  <2> QED BY <1>5, <2>2, <2>3
<1>10. \A i \in 1 .. n : T(i) \subseteq 1 .. x
  <2>1. 1 .. accepted \subseteq 1 .. x /\ x \in 1 .. x
    BY <1>2 DEF x
  <2> QED BY <1>3, <1>5, <2>1
<1>11. V = U \cup {x}
  <2>1. n \in sendIdx .. n /\ \A i \in sendIdx .. n : i \in 1 .. n
    BY <1>1
  <2> QED BY <1>5, <2>1 DEF U, V
<1>12. Ordered'
  BY <1>6, <1>8, <1>9, <1>10 DEF Ordered, StampsOf, T
<1> QED BY <1>7, <1>11, <1>12 DEF x

(* A cell joins the queue, empty or with the newest message. *)
LEMMA QueueAppended ==
  ASSUME TypeOK, Ordered, NEW b \in Buffer, Appended(b), sendIdx' = sendIdx,
         NEW N \in SUBSET {accepted + 1},
         accepted' \in Nat, accepted' >= accepted, N \subseteq 1 .. accepted',
         Range(data'[b]) = N, Increasing(data'[b]),
         \A i \in 1 .. Len(Held) : data'[Held[i]] = data[Held[i]]
  PROVE  Ordered' /\ Pending' = Pending \cup N
<1> DEFINE n  == Len(Held)
           n1 == Len(Held')
           S(i) == StampsOf(Held[i])
           T(i) == Range(data'[Held'[i]])
           U == UNION {S(i) : i \in sendIdx .. n}
           V == UNION {T(i) : i \in sendIdx .. n1}
<1>1. n \in Nat \ {0} /\ n1 = n + 1 /\ sendIdx \in 1 .. n /\ accepted \in Nat
  <2>1. Len(toWrite) \in 0 .. Len(Held) - 1 /\ sendIdx \in 1 .. Len(toWrite) + 1
    BY HeldTypes DEF TypeOK
  <2> QED BY <2>1, HeldTypes DEF Appended, TypeOK
<1>2. /\ \A i \in 1 .. n : Increasing(data[Held[i]])
      /\ \A i, j \in 1 .. n : i < j => \A p \in S(i), q \in S(j) : p < q
      /\ \A i \in 1 .. n : S(i) \subseteq 1 .. accepted
  BY DEF Ordered
<1>3. /\ \A i \in 1 .. n : data'[Held'[i]] = data[Held[i]] /\ T(i) = S(i)
      /\ data'[Held'[n + 1]] = data'[b] /\ T(n + 1) = N
  BY DEF Appended, StampsOf
<1>4. Pending = U /\ Pending' = V
  BY DEF Pending, Unsent, StampsOf
<1>5. \A i \in 1 .. n + 1 : Increasing(data'[Held'[i]])
  <2> SUFFICES ASSUME NEW i \in 1 .. n + 1 PROVE Increasing(data'[Held'[i]])
    OBVIOUS
  <2>1. CASE i \in 1 .. n
    BY <1>2, <1>3, <2>1
  <2>2. CASE i = n + 1
    BY <1>3, <2>2
  <2> QED BY <1>1, <2>1, <2>2
<1> HIDE DEF S, T, U, V, n, n1
<1>6. \A i \in 1 .. n + 1 : i \in 1 .. n \/ i = n + 1
  BY <1>1
<1>7. \A i, j \in 1 .. n + 1 : i < j => \A p \in T(i), q \in T(j) : p < q
  <2> SUFFICES ASSUME NEW i \in 1 .. n + 1, NEW j \in 1 .. n + 1, i < j,
                      NEW p \in T(i), NEW q \in T(j)
               PROVE  p < q
    OBVIOUS
  <2>1. i \in 1 .. n /\ p \in S(i)
    BY <1>1, <1>3
  <2>2. CASE j \in 1 .. n
    BY <1>2, <1>3, <2>1, <2>2
  <2>3. CASE j = n + 1
    <3>1. q = accepted + 1 /\ p \in 1 .. accepted
      BY <1>2, <1>3, <2>1, <2>3
    <3> QED BY <1>1, <3>1
  <2> QED BY <1>6, <2>2, <2>3
<1>8. \A i \in 1 .. n + 1 : T(i) \subseteq 1 .. accepted'
  <2>1. 1 .. accepted \subseteq 1 .. accepted'
    BY <1>1
  <2> QED BY <1>2, <1>3, <1>6, <2>1
<1>9. V = U \cup N
  <2>1. n1 = n + 1 /\ n + 1 \in sendIdx .. n + 1 /\ \A i \in sendIdx .. n : i \in 1 .. n /\ i \in sendIdx .. n + 1
    BY <1>1
  <2>2. \A i \in sendIdx .. n + 1 : i = n + 1 \/ (i \in sendIdx .. n)
    BY <1>1
  <2> QED BY <1>3, <2>1, <2>2 DEF U, V
<1>10. Ordered'
  BY <1>1, <1>5, <1>7, <1>8 DEF Ordered, StampsOf, T, n1
<1> QED BY <1>4, <1>9, <1>10

(* The first d cells leave the queue. *)
LEMMA QueueDropped ==
  ASSUME TypeOK, Ordered, NEW d \in 0 .. Len(Held), Dropped(d),
         accepted' = accepted, sendIdx' = 1,
         \A i \in 1 .. Len(Held) - d : data'[Held'[i]] = data[Held'[i]]
  PROVE  /\ Ordered'
         /\ Pending' = UNION {StampsOf(Held[i]) : i \in d + 1 .. Len(Held)}
<1> DEFINE n  == Len(Held)
           n1 == Len(Held')
           S(i) == StampsOf(Held[i])
           T(i) == Range(data'[Held'[i]])
           U == UNION {S(i) : i \in d + 1 .. n}
           V == UNION {T(i) : i \in 1 .. n1}
<1>1. n \in Nat /\ d \in 0 .. n /\ n1 = n - d
  BY HeldTypes DEF Dropped
<1>2. /\ \A i \in 1 .. n : Increasing(data[Held[i]])
      /\ \A i, j \in 1 .. n : i < j => \A p \in S(i), q \in S(j) : p < q
      /\ \A i \in 1 .. n : S(i) \subseteq 1 .. accepted
  BY DEF Ordered
<1>3. \A i \in 1 .. n - d : data'[Held'[i]] = data[Held[i + d]] /\ T(i) = S(i + d)
  BY DEF Dropped, StampsOf
<1>4. Pending' = V
  BY DEF Pending, Unsent, StampsOf
<1>5. \A i \in 1 .. n - d : i + d \in 1 .. n /\ i + d \in d + 1 .. n
  <2> HIDE DEF n
  <2> QED BY <1>1
<1>6. \A i \in 1 .. n - d : Increasing(data'[Held'[i]])
  BY <1>2, <1>3, <1>5
<1> HIDE DEF S, T, U, V, n, n1
<1>7. \A i, j \in 1 .. n - d : i < j => \A p \in T(i), q \in T(j) : p < q
  <2> SUFFICES ASSUME NEW i \in 1 .. n - d, NEW j \in 1 .. n - d, i < j,
                      NEW p \in T(i), NEW q \in T(j)
               PROVE  p < q
    OBVIOUS
  <2>1. i + d < j + d
    BY <1>1
  <2>2. p \in S(i + d) /\ q \in S(j + d)
    BY <1>3
  <2> QED BY <1>2, <1>5, <2>1, <2>2
<1>8. \A i \in 1 .. n - d : T(i) \subseteq 1 .. accepted
  BY <1>2, <1>3, <1>5
<1>9. V = U
  <2>1. V \subseteq U
    BY <1>1, <1>3, <1>5 DEF U, V
  <2>2. U \subseteq V
    <3> SUFFICES ASSUME NEW i \in d + 1 .. n, NEW p \in S(i) PROVE p \in V
      BY DEF U
    <3>1. i - d \in 1 .. n1 /\ i - d \in 1 .. n - d /\ (i - d) + d = i
      BY <1>1
    <3>2. p \in T(i - d)
      BY <1>3, <3>1
    <3> QED BY <3>1, <3>2 DEF V
  <2> QED BY <2>1, <2>2
<1>10. Ordered'
  BY <1>1, <1>6, <1>7, <1>8 DEF Ordered, StampsOf, T, n1
<1> QED BY <1>4, <1>9, <1>10 DEF U, S, n

(* What the front of the queue holds is older than what the rest holds. *)
LEMMA QueueSplit ==
  ASSUME Ordered, NEW a \in Nat \ {0}, NEW d \in Nat, NEW e \in Nat, a <= d + 1, d <= e,
         e <= Len(Held), Len(Held) \in Nat
  PROVE  LET front == UNION {StampsOf(Held[i]) : i \in a .. d}
             rest  == UNION {StampsOf(Held[i]) : i \in d + 1 .. e}
             all   == UNION {StampsOf(Held[i]) : i \in a .. e}
         IN  /\ all = front \cup rest
             /\ \A p \in front, q \in rest : p < q
             /\ front \cap rest = {}
             /\ all \subseteq 1 .. accepted
<1> DEFINE n == Len(Held)
           S(i) == StampsOf(Held[i])
           front == UNION {S(i) : i \in a .. d}
           rest  == UNION {S(i) : i \in d + 1 .. e}
           all   == UNION {S(i) : i \in a .. e}
<1>1. /\ \A i, j \in 1 .. n : i < j => \A p \in S(i), q \in S(j) : p < q
      /\ \A i \in 1 .. n : S(i) \subseteq 1 .. accepted
  BY DEF Ordered
<1> HIDE DEF S, n
<1>2. n \in Nat /\ e <= n
  BY DEF n
<1>3. /\ \A i \in a .. e : i \in a .. d \/ i \in d + 1 .. e
      /\ \A i \in a .. d : i \in 1 .. n /\ i \in a .. e
      /\ \A i \in d + 1 .. e : i \in 1 .. n /\ i \in a .. e
      /\ \A i \in a .. d, j \in d + 1 .. e : i < j
  BY <1>2
<1>4. all = front \cup rest
  BY <1>3
<1>5. all \subseteq 1 .. accepted
  BY <1>1, <1>3
<1>6. ASSUME NEW p \in front, NEW q \in rest PROVE p < q
  <2> PICK i \in a .. d : p \in S(i)
    OBVIOUS
  <2> PICK j \in d + 1 .. e : q \in S(j)
    OBVIOUS
  <2> QED BY <1>1, <1>3
<1>7. front \cap rest = {}
  <2> SUFFICES ASSUME NEW p \in front, p \in rest PROVE FALSE
    OBVIOUS
  <2>1. p < p
    BY <1>6
  <2>2. p \in 1 .. accepted
    BY <1>4, <1>5
  <2> QED BY <2>1, <2>2
<1> QED BY <1>4, <1>5, <1>6, <1>7 DEF S, n

-----------------------------------------------------------------------------
(* What a step does to the messages: nothing, one message more, or the     *)
(* oldest pending ones are written, discarded or overrun.                  *)
Keeps == Pending' = Pending /\ UNCHANGED historyVars

Takes ==
  /\ accepted' = accepted + 1
  /\ Pending' = Pending \cup {accepted + 1}
  /\ UNCHANGED <<sent, unseen, overrun>>

Releases(F) ==
  /\ Pending' = Pending \ F
  /\ \A p \in F, q \in Pending' : p < q
  /\ accepted' = accepted

Writes(F) ==
  /\ Releases(F)
  /\ \E s \in Seq(Stamp) : sent' = sent \o s /\ Range(s) = F /\ Increasing(s)
  /\ UNCHANGED <<unseen, overrun>>

Discards(F) == Releases(F) /\ unseen' = unseen \cup F /\ UNCHANGED <<sent, overrun>>

Overruns(F) == Releases(F) /\ overrun' = overrun \cup F /\ UNCHANGED <<sent, unseen>>

Moves == Keeps \/ Takes \/ \E F \in SUBSET Pending : Writes(F) \/ Discards(F) \/ Overruns(F)

LEMMA OrderInit == Init => Ordered /\ Pending = {}
<1> SUFFICES ASSUME Init PROVE Ordered /\ Pending = {}
  OBVIOUS
<1>1. \A b \in Buffer : data[b] = <<>> /\ Range(data[b]) = {} /\ Increasing(data[b])
  BY DEF Init, Range, Increasing
<1>2. \A i \in 1 .. Len(Held) : Held[i] \in Buffer
  BY TypeInit, HeldTypes DEF TypeInv
<1>3. Ordered
  BY <1>1, <1>2 DEF Ordered, StampsOf
<1>4. Pending = {}
  BY <1>1, <1>2 DEF Pending, Unsent, StampsOf, Init
<1> QED BY <1>3, <1>4

LEMMA OrderStep ==
  ASSUME TypeInv, TypeInv', OwnInv, Ordered, [Next]_vars
  PROVE  Ordered' /\ Moves
<1>1. TypeOK /\ TypeOK' /\ Shape /\ Shape'
  BY DEF TypeInv
<1>2. /\ NoneTwice /\ Spares \cap Range(Held) = {}
      /\ live = Range(Held) \cup Spares
      /\ \A b \in Spares : data[b] = <<>> /\ length[b] = 0
  BY DEF OwnInv, OneOwner, NoLeakNoDangling, SparesEmpty, NoneTwice
<1>3. /\ Len(Held) \in Nat \ {0} /\ Len(toWrite) \in 0 .. Len(Held) - 1
      /\ sendIdx \in 1 .. Len(toWrite) + 1
      /\ \A i \in 1 .. Len(Held) : Held[i] \in Buffer /\ Held[i] \in Range(Held)
      /\ data \in [Buffer -> Seq(Stamp)] /\ accepted \in Nat
  BY <1>1, HeldTypes DEF TypeOK
<1>4. Pending = UNION {StampsOf(Held[i]) : i \in sendIdx .. Len(Held)}
  BY DEF Pending, Unsent
<1>5. ASSUME \/ Start \/ Stop \/ StopNotify \/ StopJoin
             \/ \E t \in Thread, n \in Lens : TelPrintf(t, n)
             \/ \E t \in Thread : AppendCheck(t)
             \/ LogStart \/ LogStartAborts \/ LogLoop \/ LogExit \/ LogWait \/ LogTimeout
             \/ LogSendBegin \/ ClientComes \/ ClientGoes \/ UNCHANGED vars
      PROVE  Ordered' /\ Moves
  <2>1. UNCHANGED <<currentBuffer, buffers, toWrite, sendIdx, accepted, sent, unseen, overrun>>
    BY <1>5 DEF Start, Stop, StopNotify, StopJoin, TelPrintf, AppendCheck, LogStart,
         LogStartAborts, LogLoop, LogExit, LogWait, LogTimeout, LogSendBegin, ClientComes,
         ClientGoes, vars, serverVars, logVars, historyVars
  <2>2. Held' = Held /\ accepted' = accepted
    BY <2>1 DEF Held
  <2>3. \A i \in 1 .. Len(Held) : data'[Held[i]] = data[Held[i]]
    <3>1. CASE LogStart
      <4> PICK b1 \in Buffer \ live, b2 \in Buffer \ live : data' = Emptied(data, {b1, b2}, <<>>)
        BY <3>1 DEF LogStart
      <4>1. \A i \in 1 .. Len(Held) : Held[i] \notin {b1, b2}
        BY <1>2, <1>3
      <4> QED BY <1>3, <4>1 DEF Emptied
    <3>2. CASE ~ LogStart
      BY <1>5, <3>2 DEF Start, Stop, StopNotify, StopJoin, TelPrintf, AppendCheck,
           LogStartAborts, LogLoop, LogExit, LogWait, LogTimeout, LogSendBegin, ClientComes,
           ClientGoes, vars, heapVars
    <3> QED BY <3>1, <3>2
  <2>4. sendIdx' \in Nat \ {0}
    BY <1>3, <2>1
  <2>5. Ordered' /\ Pending' = Pending
    BY <1>4, <2>1, <2>2, <2>3, <2>4, QueueSame
  <2> QED BY <2>1, <2>5 DEF Moves, Keeps, historyVars
<1>6. ASSUME NEW t \in Thread, AppendFits(t)
      PROVE  Ordered' /\ Moves
  <2>1. /\ UNCHANGED <<currentBuffer, buffers, toWrite, sendIdx, sent, unseen, overrun>>
        /\ accepted' = accepted + 1
        /\ data' = [data EXCEPT ![currentBuffer] = Append(@, accepted + 1)]
    BY <1>6 DEF AppendFits, serverVars, logVars
  <2>2. Held' = Held
    BY <2>1 DEF Held
  <2>3. Ordered' /\ Pending' = Pending \cup {accepted + 1}
    BY <1>1, <1>2, <2>1, <2>2, QueueGrows
  <2> QED BY <2>1, <2>3 DEF Moves, Takes
<1>7. ASSUME NEW t \in Thread, AppendRolls(t)
      PROVE  Ordered' /\ Moves
  <2> DEFINE x == accepted + 1
  <2> PICK b \in Fresh :
        LET old  == Emptied(data, {b} \ live, <<>>)
            oldL == Emptied(length, {b} \ live, 0)
            room == BufSize - oldL[b] > len[t]
        IN  /\ currentBuffer' = b
            /\ live' = live \cup {b}
            /\ data'   = IF room THEN [old EXCEPT ![b] = Append(@, x)] ELSE old
            /\ length' = IF room THEN [oldL EXCEPT ![b] = @ + len[t]] ELSE oldL
    BY <1>7 DEF AppendRolls
  <2> DEFINE old  == Emptied(data, {b} \ live, <<>>)
             oldL == Emptied(length, {b} \ live, 0)
  <2>1. /\ buffers' = Append(buffers, currentBuffer) /\ accepted' = x
        /\ UNCHANGED <<toWrite, sendIdx, sent, unseen, overrun>>
    BY <1>7 DEF AppendRolls
  <2>2. b \in Buffer /\ (b \in Spares \/ b \notin live)
    BY <1>1 DEF Fresh, Spares, TypeOK, Ptr
  <2>3. \A i \in 1 .. Len(Held) : Held[i] # b
    BY <1>2, <1>3, <2>2
  <2>4. old[b] = <<>> /\ oldL[b] = 0
    BY <1>2, <2>2 DEF Emptied
  <2>5. BufSize - oldL[b] > len[t]
    <3>1. len[t] \in Lens \/ len[t] = 0
      BY <1>1 DEF TypeOK
    <3>2. /\ BufSize \in Nat \ {0}
          /\ len[t] \in Lens => len[t] \in 1 .. BufSize - 1
      BY MsgBufferAssumption
    <3> HIDE DEF oldL
    <3> QED BY <2>4, <3>1, <3>2
  <2>6. data' = [old EXCEPT ![b] = Append(@, x)]
    BY <2>5
  <2>7. data'[b] = Append(<<>>, x)
    <3>1. old \in [Buffer -> Seq(Stamp)]
      BY <1>3, EmptySeq, EmptiedTypes
    <3> HIDE DEF old
    <3> QED BY <2>2, <2>4, <2>6, <3>1
  <2>8. \A i \in 1 .. Len(Held) : data'[Held[i]] = data[Held[i]]
    <3>1. \A c \in Buffer : c # b => old[c] = data[c]
      BY DEF Emptied
    <3>2. \A c \in Buffer : c # b => data'[c] = old[c]
      BY <2>6 DEF Emptied
    <3> QED BY <1>3, <2>3, <3>1, <3>2
  <2>9. Range(data'[b]) = {x} /\ Increasing(data'[b])
    <3>1. x \in Stamp
      BY <1>1, ArithTypes
    <3>2. Range(<<>>) = {} /\ <<>> \in Seq(Stamp) /\ Increasing(<<>>)
      BY EmptySeq DEF Range, Increasing
    <3> HIDE DEF x
    <3>3. Range(Append(<<>>, x)) = Range(<<>>) \cup {x}
      BY <3>1, <3>2, RangeAppend, ZenonT(60)
    <3>4. Increasing(Append(<<>>, x))
      BY <3>1, <3>2, IncreasingAppend
    <3> QED BY <2>7, <3>2, <3>3, <3>4
  <2>10. Appended(b)
    BY <1>1, <2>1, <2>2, RollsAppends
  <2>11. Ordered' /\ Pending' = Pending \cup {x}
    <3>1. accepted' \in Nat /\ accepted' >= accepted /\ {x} \subseteq 1 .. accepted'
      BY <1>3, <2>1
    <3> QED BY <1>1, <2>1, <2>2, <2>8, <2>9, <2>10, <3>1, QueueAppended
  <2> QED BY <2>1, <2>11 DEF Moves, Takes
<1>8. CASE LogSwap
  <2> DEFINE b == newBuffer1
  <2>1. /\ toWrite' = Append(buffers, currentBuffer) /\ buffers' = <<>>
        /\ currentBuffer' = b
        /\ UNCHANGED <<data, sendIdx, accepted, sent, unseen, overrun>>
    BY <1>8 DEF LogSwap, heapVars, historyVars
  <2>2. b \in Buffer /\ toWrite = <<>>
    BY <1>1, <1>8 DEF LogSwap, Shape
  <2>3. Appended(b)
    BY <1>1, <2>1, <2>2, SwapAppends
  <2>4. b \in Spares
    BY <2>2, MsgBufferAssumption DEF Spares
  <2>5. data'[b] = <<>> /\ Range(data'[b]) = {} /\ Increasing(data'[b])
    BY <1>2, <2>1, <2>4 DEF Range, Increasing
  <2>6. Ordered' /\ Pending' = Pending \cup {}
    <3>1. accepted' \in Nat /\ accepted' >= accepted
      BY <1>3, <2>1
    <3> QED BY <1>1, <2>1, <2>2, <2>3, <2>5, <3>1, QueueAppended
  <2> QED BY <2>1, <2>6 DEF Moves, Keeps, historyVars
<1>9. CASE LogTrim
  <2> PICK d \in 0 .. Len(toWrite) :
         /\ Dropped(d)
         /\ \A i \in 1 .. Len(toWrite') : toWrite'[i] = Held[i + d]
         /\ Len(toWrite') = Len(toWrite) - d
    BY <1>1, <1>2, <1>9, TrimDrops
  <2> DEFINE n == Len(toWrite)
             N == Len(Held)
             S(i) == StampsOf(Held[i])
             F == UNION {S(i) : i \in 1 .. d}
             R == UNION {S(i) : i \in d + 1 .. n}
  <2>1. /\ sendIdx = 1 /\ sendIdx' = 1
        /\ overrun' = overrun \cup (StampsIn(toWrite) \ StampsIn(toWrite'))
        /\ UNCHANGED <<data, accepted, sent, unseen>>
    BY <1>1, <1>9 DEF LogTrim, Shape
  <2>2. /\ Ordered'
        /\ Pending' = UNION {S(i) : i \in d + 1 .. N}
    BY <1>1, <1>3, <2>1, QueueDropped
  <2>3. /\ Pending = F \cup Pending' /\ F \cap Pending' = {}
        /\ \A p \in F, q \in Pending' : p < q
    <3>1. 1 \in Nat \ {0} /\ d \in Nat /\ N \in Nat /\ 1 <= d + 1 /\ d <= N /\ N <= Len(Held)
      BY <1>3
    <3> QED BY <1>4, <2>1, <2>2, <3>1, QueueSplit, ZenonT(60)
  <2>4. StampsIn(toWrite) = F \cup R /\ F \cap R = {}
    <3>1. 1 \in Nat \ {0} /\ d \in Nat /\ n \in Nat /\ 1 <= d + 1 /\ d <= n /\ n <= Len(Held)
      BY <1>3
    <3>2. StampsIn(toWrite) = UNION {S(i) : i \in 1 .. n}
      BY <1>1, HeldTypes DEF StampsIn
    <3>3. Len(Held) \in Nat
      BY <1>3
    <3>4. UNION {S(i) : i \in 1 .. n} = F \cup R /\ F \cap R = {}
      BY <3>1, <3>3, QueueSplit, ZenonT(60)
    <3> QED BY <3>2, <3>4
  <2>5. StampsIn(toWrite') = R
    <3> DEFINE k == Len(toWrite')
    <3>1. n \in Nat /\ d \in 0 .. n /\ k = n - d
      BY <1>3
    <3>2. StampsIn(toWrite') = UNION {S(i + d) : i \in 1 .. k}
      BY DEF StampsIn
    <3> HIDE DEF S, n, k
    <3>3. \A i \in 1 .. k : i + d \in d + 1 .. n
      BY <3>1
    <3>4. \A i \in d + 1 .. n : i - d \in 1 .. k /\ (i - d) + d = i
      BY <3>1
    <3>5. UNION {S(i + d) : i \in 1 .. k} \subseteq R
      BY <3>3
    <3>6. R \subseteq UNION {S(i + d) : i \in 1 .. k}
      <4> SUFFICES ASSUME NEW i \in d + 1 .. n, NEW p \in S(i)
                   PROVE  p \in UNION {S(j + d) : j \in 1 .. k}
        OBVIOUS
      <4>1. i - d \in 1 .. k /\ p \in S((i - d) + d)
        BY <3>4
      <4> QED BY <4>1
    <3> QED BY <3>2, <3>5, <3>6
  <2> HIDE DEF F, R, S, n, N
  <2>6. F \in SUBSET Pending /\ Overruns(F)
    BY <2>1, <2>3, <2>4, <2>5 DEF Overruns, Releases
  <2> QED BY <2>2, <2>6 DEF Moves
<1>10. ASSUME LogSkip \/ LogSendDone \/ LogSendFails
       PROVE  Ordered' /\ Moves
  <2> DEFINE n == Len(Held)
             b == toWrite[sendIdx]
             F == StampsOf(b)
  <2>1. /\ UNCHANGED <<currentBuffer, buffers, toWrite, data, accepted, overrun>>
        /\ sendIdx' = sendIdx + 1 /\ sendIdx <= Len(toWrite)
        /\ \/ sent' = sent \o data[b] /\ unseen' = unseen
           \/ sent' = sent /\ unseen' = unseen \cup F
    BY <1>1, <1>10 DEF LogSkip, LogSendDone, LogSendFails, serverVars, heapVars, Shape
  <2>2. Held' = Held
    BY <2>1 DEF Held
  <2>3. /\ n \in Nat /\ sendIdx \in 1 .. n /\ sendIdx \in 1 .. Len(toWrite)
        /\ sendIdx' \in Nat \ {0} /\ b = Held[sendIdx] /\ b \in Buffer
    <3>1. sendIdx \in 1 .. Len(toWrite) /\ sendIdx \in 1 .. n
      BY <1>3, <2>1
    <3>2. b = Held[sendIdx]
      BY <1>1, <3>1, HeldTypes
    <3> QED BY <1>3, <2>1, <3>1, <3>2
  <2>4. Ordered' /\ Pending' = UNION {StampsOf(Held[i]) : i \in sendIdx + 1 .. n}
    BY <2>1, <2>2, <2>3, QueueSame
  <2>5. F = UNION {StampsOf(Held[i]) : i \in sendIdx .. sendIdx}
    <3>1. \A i \in sendIdx .. sendIdx : i = sendIdx
      BY <2>3
    <3>2. sendIdx \in sendIdx .. sendIdx
      BY <2>3
    <3> QED BY <2>3, <3>1, <3>2
  <2>6. /\ Pending = F \cup Pending' /\ F \cap Pending' = {}
        /\ \A p \in F, q \in Pending' : p < q
    <3>1. /\ sendIdx \in Nat \ {0} /\ sendIdx \in Nat /\ n \in Nat /\ sendIdx <= sendIdx + 1
          /\ sendIdx <= n /\ n <= Len(Held)
      BY <2>3
    <3> HIDE DEF F, b
    <3> QED BY <1>4, <2>4, <2>5, <3>1, QueueSplit
  <2>7. Releases(F)
    BY <2>1, <2>6 DEF Releases
  <2>8. F \in SUBSET Pending
    BY <2>6
  <2>9. data[b] \in Seq(Stamp) /\ Range(data[b]) = F /\ Increasing(data[b])
    BY <1>3, <2>3 DEF Ordered, StampsOf
  <2> HIDE DEF F, b, n
  <2>10. Writes(F) \/ Discards(F)
    <3>1. CASE sent' = sent \o data[b] /\ unseen' = unseen
      BY <2>1, <2>7, <2>9, <3>1 DEF Writes
    <3>2. CASE sent' = sent /\ unseen' = unseen \cup F
      BY <2>1, <2>7, <3>2 DEF Discards
    <3> QED BY <2>1, <3>1, <3>2
  <2> QED BY <2>4, <2>8, <2>10 DEF Moves
<1>11. CASE LogRecycle
  <2> DEFINE batch == {Held[i] : i \in 1 .. Len(toWrite)}
  <2> PICK kept \in SUBSET batch :
         /\ Dropped(Len(toWrite))
         /\ data' = Emptied(data, kept, <<>>)
    BY <1>2, <1>11, RecycleDrops
  <2>1. /\ sendIdx = Len(toWrite) + 1 /\ sendIdx' = 1
        /\ UNCHANGED <<accepted, sent, unseen, overrun>>
    BY <1>11 DEF LogRecycle, historyVars
  <2>2. Len(toWrite) \in 0 .. Len(Held)
    BY <1>3
  <2>3. \A i \in 1 .. Len(Held) - Len(toWrite) : data'[Held'[i]] = data[Held'[i]]
    <3> SUFFICES ASSUME NEW i \in 1 .. Len(Held) - Len(toWrite)
                 PROVE  data'[Held'[i]] = data[Held'[i]]
      OBVIOUS
    <3> DEFINE j == i + Len(toWrite)
    <3>1. j \in 1 .. Len(Held) /\ j \notin 1 .. Len(toWrite)
      BY <1>3
    <3>2. Held'[i] = Held[j]
      BY DEF Dropped
    <3>3. \A k \in 1 .. Len(toWrite) : k \in 1 .. Len(Held)
      BY <1>3
    <3>4. Held[j] \notin batch /\ Held[j] \in Buffer
      BY <1>2, <1>3, <3>1, <3>3 DEF NoneTwice
    <3> QED BY <3>2, <3>4 DEF Emptied
  <2>4. Ordered' /\ Pending' = UNION {StampsOf(Held[i]) : i \in Len(toWrite) + 1 .. Len(Held)}
    BY <1>1, <2>1, <2>2, <2>3, QueueDropped
  <2>5. Pending' = Pending
    BY <1>4, <2>1, <2>4
  <2> QED BY <2>1, <2>4, <2>5 DEF Moves, Keeps, historyVars
<1> QED
  BY <1>5, <1>6, <1>7, <1>8, <1>9, <1>10, <1>11
     DEF Next, CtlStep, LogStep, LogSendEnd, Append1, Terminated

-----------------------------------------------------------------------------
(* What the kinds of move preserve.                                        *)

Places ==
  /\ Range(sent) \cup unseen \cup overrun \cup Pending = 1 .. accepted
  /\ Range(sent) \cap unseen = {} /\ Range(sent) \cap overrun = {}
  /\ Range(sent) \cap Pending = {} /\ unseen \cap overrun = {}
  /\ unseen \cap Pending = {} /\ overrun \cap Pending = {}

WrittenFirst == Increasing(sent) /\ \A p \in Range(sent), q \in Pending : p < q

OrderInv == Ordered /\ Places /\ WrittenFirst

LEMMA PlacesMeaning == Places <=> Accounted
<1> DEFINE p == <<Range(sent), unseen, overrun, Pending>>
<1>1. DOMAIN p = {1, 2, 3, 4}
  OBVIOUS
<1>2. p[1] = Range(sent) /\ p[2] = unseen /\ p[3] = overrun /\ p[4] = Pending
  OBVIOUS
<1>3. Accounted <=> /\ UNION {p[i] : i \in DOMAIN p} = 1 .. accepted
                    /\ \A i, j \in DOMAIN p : i # j => p[i] \cap p[j] = {}
  BY DEF Accounted, Range
<1> HIDE DEF p
<1>4. UNION {p[i] : i \in DOMAIN p} = Range(sent) \cup unseen \cup overrun \cup Pending
  BY <1>1, <1>2
<1>5. (\A i, j \in DOMAIN p : i # j => p[i] \cap p[j] = {})
        <=> /\ p[1] \cap p[2] = {} /\ p[1] \cap p[3] = {} /\ p[1] \cap p[4] = {}
            /\ p[2] \cap p[3] = {} /\ p[2] \cap p[4] = {} /\ p[3] \cap p[4] = {}
  BY <1>1
<1> QED BY <1>2, <1>3, <1>4, <1>5 DEF Places

LEMMA WrittenMeaning ==
  ASSUME TypeOK
  PROVE  WrittenFirst <=> InOrderOnce
<1>1. Range(sent) = {sent[i] : i \in 1 .. Len(sent)}
  BY RangeSeq DEF TypeOK
<1> QED BY <1>1 DEF WrittenFirst, InOrderOnce

LEMMA PlacesStep ==
  ASSUME TypeOK, Places, Moves
  PROVE  Places'
<1>1. CASE Keeps
  BY <1>1 DEF Keeps, Places, historyVars
<1>2. CASE Takes
  <2> DEFINE x == accepted + 1
  <2>1. accepted \in Nat /\ accepted' = x
    BY <1>2 DEF TypeOK, Takes
  <2>2. 1 .. x = (1 .. accepted) \cup {x} /\ x \notin 1 .. accepted
    BY <2>1
  <2>3. /\ Pending' = Pending \cup {x} /\ Range(sent)' = Range(sent)
        /\ unseen' = unseen /\ overrun' = overrun
    BY <1>2 DEF Takes
  <2> HIDE DEF x
  <2> QED BY <2>1, <2>2, <2>3 DEF Places
<1>3. ASSUME NEW F \in SUBSET Pending, Writes(F)
      PROVE  Places'
  <2>1. Range(sent)' = Range(sent) \cup F
    BY <1>3, RangeConcat DEF Writes, TypeOK
  <2>2. /\ Pending' = Pending \ F /\ accepted' = accepted
        /\ unseen' = unseen /\ overrun' = overrun
    BY <1>3 DEF Writes, Releases
  <2> QED BY <2>1, <2>2 DEF Places
<1>4. ASSUME NEW F \in SUBSET Pending, Discards(F) \/ Overruns(F)
      PROVE  Places'
  <2>1. /\ Pending' = Pending \ F /\ accepted' = accepted /\ Range(sent)' = Range(sent)
        /\ \/ unseen' = unseen \cup F /\ overrun' = overrun
           \/ overrun' = overrun \cup F /\ unseen' = unseen
    BY <1>4 DEF Discards, Overruns, Releases
  <2> QED BY <2>1 DEF Places
<1> QED BY <1>1, <1>2, <1>3, <1>4 DEF Moves

LEMMA WrittenStep ==
  ASSUME TypeOK, Places, WrittenFirst, Moves
  PROVE  WrittenFirst'
<1>1. CASE Keeps
  BY <1>1 DEF Keeps, WrittenFirst, historyVars
<1>2. CASE Takes
  <2>1. /\ sent' = sent /\ Pending' = Pending \cup {accepted + 1} /\ accepted \in Nat
        /\ Range(sent) \subseteq 1 .. accepted
    BY <1>2 DEF Takes, TypeOK, Places
  <2>2. \A p \in Range(sent) : p < accepted + 1
    BY <2>1
  <2> QED BY <2>1, <2>2 DEF WrittenFirst
<1>3. ASSUME NEW F \in SUBSET Pending, Writes(F)
      PROVE  WrittenFirst'
  <2> PICK s \in Seq(Stamp) : sent' = sent \o s /\ Range(s) = F /\ Increasing(s)
    BY <1>3 DEF Writes
  <2>1. /\ Pending' = Pending \ F
        /\ \A p \in F, q \in Pending' : p < q
    BY <1>3 DEF Writes, Releases
  <2>2. sent \in Seq(Stamp) /\ Range(sent') = Range(sent) \cup F
    BY RangeConcat DEF TypeOK
  <2>3. Increasing(sent')
    BY <2>2, IncreasingConcat DEF WrittenFirst
  <2> QED BY <2>1, <2>2, <2>3 DEF WrittenFirst
<1>4. ASSUME NEW F \in SUBSET Pending, Discards(F) \/ Overruns(F)
      PROVE  WrittenFirst'
  BY <1>4 DEF Discards, Overruns, Releases, WrittenFirst
<1> QED BY <1>1, <1>2, <1>3, <1>4 DEF Moves

IInv == TypeInv /\ OwnInv /\ OrderInv

LEMMA InvInit == Init => IInv
<1> SUFFICES ASSUME Init PROVE IInv
  OBVIOUS
<1>1. Range(sent) = {} /\ Increasing(sent) /\ unseen = {} /\ overrun = {} /\ accepted = 0
  BY DEF Init, Range, Increasing
<1>2. 1 .. accepted = {}
  BY <1>1
<1> QED BY <1>1, <1>2, TypeInit, OwnInit, OrderInit DEF IInv, OrderInv, Places, WrittenFirst

LEMMA InvStep ==
  ASSUME IInv, [Next]_vars
  PROVE  IInv' /\ Moves
<1>1. TypeInv' /\ OwnInv'
  BY TypeStep, OwnStep DEF IInv
<1>2. Ordered' /\ Moves
  BY <1>1, OrderStep DEF IInv, OrderInv
<1>3. Places' /\ WrittenFirst'
  BY <1>2, PlacesStep, WrittenStep DEF IInv, OrderInv, TypeInv
<1> QED BY <1>1, <1>2, <1>3 DEF IInv, OrderInv

(* The conjunction of the three parts is inductive.                        *)
THEOREM Invariance == Spec => []IInv
<1>1. IInv /\ [Next]_vars => IInv'
  BY InvStep
<1> QED BY <1>1, InvInit, PTL DEF Spec

(* The client gets the messages in the order of acceptance, each once.     *)
THEOREM DeliveredInOrder == Spec => []InOrderOnce
<1>1. IInv => InOrderOnce
  BY WrittenMeaning DEF IInv, OrderInv, TypeInv
<1> QED BY <1>1, Invariance, PTL

(* No message vanishes and none is in two places.                          *)
THEOREM EveryMessageAccounted == Spec => []Accounted
<1>1. IInv => Accounted
  BY PlacesMeaning DEF IInv, OrderInv
<1> QED BY <1>1, Invariance, PTL

(* The double buffer implements the abstract first-in first-out log.       *)
THEOREM Refinement == Spec => ImplementsLossyLog
<1>1. Init => Log!Init
  <2> SUFFICES ASSUME Init PROVE Log!Init
    OBVIOUS
  <2>1. Range(sent) = {} /\ Pending = {}
    BY OrderInit DEF Init, Range
  <2> QED BY <2>1 DEF Init, Log!Init
<1>2. IInv /\ [Next]_vars => [Log!Next]_(Log!vars)
  <2> SUFFICES ASSUME IInv, [Next]_vars PROVE [Log!Next]_(Log!vars)
    OBVIOUS
  <2>1. Moves /\ sent \in Seq(Stamp)
    BY InvStep DEF IInv, TypeInv, TypeOK
  <2>2. CASE Keeps
    BY <2>2 DEF Keeps, historyVars, Log!vars
  <2>3. CASE Takes
    BY <2>3 DEF Takes, Log!Next, Log!Accept
  <2>4. ASSUME NEW F \in SUBSET Pending, Writes(F)
        PROVE  Log!Deliver(F)
    <3>1. Range(sent') = Range(sent) \cup F
      BY <2>1, <2>4, RangeConcat DEF Writes
    <3> QED BY <2>4, <3>1 DEF Writes, Releases, Log!Deliver, Log!Oldest
  <2>5. ASSUME NEW F \in SUBSET Pending, Discards(F) \/ Overruns(F)
        PROVE  Log!GiveUp(F)
    BY <2>5 DEF Discards, Overruns, Releases, Log!GiveUp, Log!Oldest
  <2> QED BY <2>1, <2>2, <2>3, <2>4, <2>5 DEF Moves, Log!Next
<1> QED BY <1>1, <1>2, Invariance, PTL DEF Spec, ImplementsLossyLog, Log!Spec

(* Messages are overrun only in a long batch, and then the oldest ones.    *)
THEOREM OverrunDropsOldest == Spec => DropsOldest
<1> DEFINE A == /\ Len(toWrite) > MaxPending
                /\ \A m \in overrun' \ overrun, n \in Pending' : m < n
                /\ StampsIn(SubSeq(toWrite, Len(toWrite) - 1, Len(toWrite))) \subseteq Pending'
<1>1. ASSUME IInv, [Next]_vars, overrun' # overrun
      PROVE  A
  <2>1. LogTrim
    BY <1>1 DEF Next, CtlStep, LogStep, LogSendEnd, Append1, Terminated, Start, Stop,
       StopNotify, StopJoin, TelPrintf, AppendCheck, AppendFits, AppendRolls, LogStart,
       LogStartAborts, LogLoop, LogExit, LogWait, LogTimeout, LogSwap, LogSkip, LogSendBegin,
       LogSendDone, LogSendFails, LogRecycle, ClientComes, ClientGoes, vars, historyVars
  <2>2. /\ toWrite' = Newest(toWrite) /\ sendIdx' = 1 /\ data' = data
        /\ overrun' = overrun \cup (StampsIn(toWrite) \ StampsIn(toWrite'))
    BY <1>1, <2>1 DEF LogTrim, IInv, TypeInv, Shape
  <2>3. Len(toWrite) > MaxPending
    BY <1>1, <2>2 DEF Newest
  <2>4. PICK F \in SUBSET Pending : Overruns(F)
    BY <1>1, InvStep DEF Moves, Keeps, Takes, Writes, Discards, historyVars
  <2>5. \A m \in overrun' \ overrun, n \in Pending' : m < n
    BY <2>4 DEF Overruns, Releases
  <2>6. toWrite' = SubSeq(toWrite, Len(toWrite) - 1, Len(toWrite))
    BY <2>2, <2>3 DEF Newest
  <2>7. StampsIn(toWrite') \subseteq Pending'
    <3>1. TypeOK'
      BY <1>1, InvStep DEF IInv, TypeInv
    <3> DEFINE tw == toWrite'
               h  == Held'
               k  == Len(tw)
               n  == Len(h)
    <3>2. /\ tw \in Seq(Buffer) /\ buffers' \in Seq(Buffer) /\ currentBuffer' \in Buffer
          /\ h = tw \o Append(buffers', currentBuffer')
      BY <3>1 DEF TypeOK, Held
    <3>3. Pending' = UNION {Range(data[h[i]]) : i \in 1 .. n}
      BY <2>2 DEF Pending, Unsent, StampsOf
    <3>4. StampsIn(toWrite') = UNION {Range(data[tw[i]]) : i \in 1 .. k}
      BY DEF StampsIn, StampsOf
    <3> HIDE DEF tw, h
    <3>5. /\ k \in Nat /\ n = k + Len(buffers') + 1 /\ Len(buffers') \in Nat
          /\ \A i \in 1 .. k : h[i] = tw[i]
      BY <3>2, HeldFacts, SeqFacts
    <3>6. \A i \in 1 .. k : i \in 1 .. n
      BY <3>5
    <3> QED BY <3>3, <3>4, <3>5, <3>6
  <2> QED BY <2>3, <2>5, <2>6, <2>7
<1>2. IInv /\ [Next]_vars => [overrun' # overrun => A]_vars
  BY <1>1
<1> QED BY <1>2, Invariance, PTL DEF Spec, DropsOldest
=============================================================================
