-------------------------- MODULE ThreadPoolProofs ---------------------------
(***************************************************************************)
(* Proofs about ThreadPool and the Monitor under it, for any number of     *)
(* callers, workers and tasks and for every size of the queue.             *)
(*                                                                         *)
(* The assertions are about holder_, which is a field of its own.  Guarded *)
(* is why they hold: holder_ and the pthread mutex name the same thread,   *)
(* and that thread is the one at a place inside the critical section.      *)
(***************************************************************************)
EXTENDS ThreadPool, SequenceTheorems, TLAPS

(* Who owns the mutex is inside, and only who waits is at the wait.        *)
Guarded ==
  /\ holder = mutex
  /\ \A t \in Threads : pc[t] \in {"locked", "again"} <=> mutex = t
  /\ \A t \in Threads : waits[t] # "none" <=> pc[t] = "waiting"

Unstarted == threads = {} => \A w \in Workers : pc[w] = "idle"

Bounded == maxQueueSize > 0 => Len(queue) <= maxQueueSize

(* A thread has a task exactly while it puts one on the queue or runs one, *)
(* and tasks are numbered by the calls of run.                             *)
InHand ==
  /\ \A p \in Producers : task[p] # 0 <=> pc[p] # "idle"
  /\ \A w \in Workers : task[w] # 0 <=> pc[w] = "task"
  /\ task[Owner] = 0
  /\ \A p \in Producers : pc[p] \in {"idle", "locking", "locked", "again", "waiting"}
  /\ \A w \in Workers : pc[w] \in {"idle", "locking", "locked", "again", "waiting", "loop", "task", "exit"}
  /\ \A t \in Threads : task[t] <= submitted
  /\ \A i \in DOMAIN queue : queue[i] \in 1 .. submitted
  /\ ran \subseteq 1 .. submitted

IInv == TypeOK /\ Guarded /\ Unstarted /\ Bounded /\ InHand /\ EachTaskOnce

-----------------------------------------------------------------------------
(* The constants.                                                          *)
LEMMA Constants ==
  /\ NoThread \notin Threads
  /\ Owner \in Threads /\ Producers \subseteq Threads /\ Workers \subseteq Threads
  /\ Owner \notin Producers /\ Owner \notin Workers /\ Producers \cap Workers = {}
  /\ Threads = Producers \cup Workers \cup {Owner}
  /\ Conditions = {"notEmpty", "notFull"}
  /\ QueueSizes \subseteq Nat /\ MaxTasks \in Nat
BY MonitorAssumption, ThreadPoolAssumption

(* A signal changes who waits for a condition, not who is in a wait.       *)
InWait == \A t \in Threads : waits'[t] # "none" <=> waits[t] # "none"
WaitsType == [Threads -> Conditions \cup {"none", "woken"}]

LEMMA NotifyKeeps ==
  ASSUME waits \in WaitsType, NEW c \in Conditions, notify(c) \/ notifyAll(c) \/ waits' = waits
  PROVE  waits' \in WaitsType /\ InWait
<1>1. c # "none" /\ c # "woken"
  BY Constants
<1>2. CASE notify(c)
  BY <1>1, <1>2 DEF notify, Waiters, WaitsType, InWait
<1>3. CASE notifyAll(c)
  BY <1>1, <1>3 DEF notifyAll, WaitsType, InWait
<1>4. CASE waits' = waits
  BY <1>4 DEF InWait
<1> QED BY <1>2, <1>3, <1>4

(* The monitor: a thread that goes from one place outside the critical     *)
(* section to another does not disturb it.                                 *)
LEMMA MoveOutside ==
  ASSUME TypeOK, Guarded, UNCHANGED monitor, NEW t \in Threads, NEW to, Goes(t, to),
         pc[t] \notin {"locked", "again", "waiting"}, to \notin {"locked", "again", "waiting"}
  PROVE  Guarded'
BY DEF TypeOK, MonitorTypeOK, Guarded, monitor, Goes

(* A thread that gives the mutex back leaves the critical section.         *)
LEMMA LeaveSection ==
  ASSUME TypeOK, Guarded, NEW t \in Threads, InSection(t), unlock, InWait, waits' \in WaitsType,
         NEW to, Goes(t, to), to \notin {"locked", "again", "waiting"}
  PROVE  Guarded'
BY Constants DEF TypeOK, MonitorTypeOK, Guarded, InSection, At, unlock, unassignHolder, InWait, Goes

-----------------------------------------------------------------------------
LEMMA InitInv == Init => IInv
<1> SUFFICES ASSUME Init PROVE IInv
  OBVIOUS
<1> USE DEF Init, MonitorInit
<1>1. TypeOK
  <2>1. queue \in Seq(1 .. MaxTasks) /\ submitted \in 0 .. MaxTasks
        /\ task \in [Threads -> 0 .. MaxTasks]
    BY Constants
  <2> QED BY <2>1, Constants DEF TypeOK, MonitorTypeOK
<1>2. Guarded /\ Unstarted
  BY Constants DEF Guarded, Unstarted
<1>3. Len(queue) = 0 /\ DOMAIN queue = {}
  OBVIOUS
<1>4. Bounded /\ EachTaskOnce
  <2>1. Bounded
    BY <1>1, <1>3, Constants DEF TypeOK, Bounded
  <2>2. \A t \in Threads : task[t] = 0
    OBVIOUS
  <2>3. \A k : k \notin 1 .. submitted
    OBVIOUS
  <2> QED BY <1>3, <2>1, <2>2, <2>3 DEF EachTaskOnce
<1>5. InHand
  BY <1>1, <1>3, Constants DEF InHand
<1> QED BY <1>1, <1>2, <1>4, <1>5 DEF IInv

LEMMA LockInv == ASSUME IInv, NEW t \in Threads, Lock(t) PROVE IInv'
<1> USE DEF Lock, lock, assignHolder, At, Goes, data
<1>1. TypeOK'
  BY DEF IInv, TypeOK, MonitorTypeOK
<1>2. Guarded'
  BY Constants DEF IInv, TypeOK, MonitorTypeOK, Guarded
<1>3. Unstarted' /\ Bounded'
  BY Constants DEF IInv, TypeOK, Unstarted, Bounded
<1>4. InHand'
  BY Constants DEF IInv, TypeOK, InHand
<1>5. EachTaskOnce'
  BY DEF IInv, EachTaskOnce, Queued, Held
<1> QED BY <1>1, <1>2, <1>3, <1>4, <1>5 DEF IInv

LEMMA WakeInv == ASSUME IInv, NEW t \in Threads, Wake(t) PROVE IInv'
<1> USE DEF Wake, wake, assignHolder, At, Goes, data
<1>1. TypeOK'
  BY DEF IInv, TypeOK, MonitorTypeOK
<1>2. Guarded'
  BY Constants DEF IInv, TypeOK, MonitorTypeOK, Guarded
<1>3. Unstarted' /\ Bounded'
  BY Constants DEF IInv, TypeOK, Unstarted, Bounded
<1>4. InHand'
  BY Constants DEF IInv, TypeOK, InHand
<1>5. EachTaskOnce'
  BY DEF IInv, EachTaskOnce, Queued, Held
<1> QED BY <1>1, <1>2, <1>3, <1>4, <1>5 DEF IInv

LEMMA WaitInv ==
  ASSUME IInv, NEW t \in Threads, t # Owner, InSection(t), NEW c \in Conditions, Wait(t, c)
  PROVE  IInv'
<1> USE DEF Wait, wait, unlock, unassignHolder, InSection, At, Goes, data
<1>1. TypeOK'
  BY DEF IInv, TypeOK, MonitorTypeOK
<1>2. Guarded'
  BY Constants DEF IInv, TypeOK, MonitorTypeOK, Guarded
<1>3. Unstarted' /\ Bounded'
  BY Constants DEF IInv, TypeOK, Unstarted, Bounded
<1>4. InHand'
  BY Constants DEF IInv, TypeOK, InHand
<1>5. EachTaskOnce'
  BY DEF IInv, EachTaskOnce, Queued, Held
<1> QED BY <1>1, <1>2, <1>3, <1>4, <1>5 DEF IInv

LEMMA SpuriousInv == ASSUME IInv, NEW t \in Threads, Spurious(t) PROVE IInv'
<1> USE DEF Spurious, SpuriousWakeup, At, data
<1>1. TypeOK'
  BY DEF IInv, TypeOK, MonitorTypeOK
<1>2. Guarded'
  BY Constants DEF IInv, TypeOK, MonitorTypeOK, Guarded
<1>3. Unstarted' /\ Bounded' /\ InHand' /\ EachTaskOnce'
  BY DEF IInv, Unstarted, Bounded, InHand, EachTaskOnce, Queued, Held
<1> QED BY <1>1, <1>2, <1>3 DEF IInv

-----------------------------------------------------------------------------
(* start and stop *)

LEMMA StartInv == ASSUME IInv, start PROVE IInv'
<1> USE DEF start, startThreads, At
<1>1. TypeOK'
  BY Constants DEF IInv, TypeOK, MonitorTypeOK, monitor
<1>6. /\ \A w \in Workers : pc[w] = "idle"
      /\ \A t \in Threads : pc'[t] = IF t \in threads' THEN "loop" ELSE pc[t]
      /\ threads' \subseteq Workers
  BY DEF IInv, Unstarted
<1>2. Guarded'
  BY <1>6 DEF IInv, Guarded, monitor
<1>3. Unstarted' /\ Bounded'
  BY <1>6, Constants DEF IInv, Unstarted, Bounded
<1>4. InHand'
  BY Constants DEF IInv, TypeOK, Unstarted, InHand
<1>5. EachTaskOnce'
  BY DEF IInv, EachTaskOnce, Queued, Held
<1> QED BY <1>1, <1>2, <1>3, <1>4, <1>5 DEF IInv

LEMMA OwnerMovesInv == ASSUME IInv, CallStop \/ Joined PROVE IInv'
<1> USE DEF CallStop, Joined, At, Goes, data
<1>1. TypeOK'
  <2>1. MonitorTypeOK'
    BY DEF IInv, TypeOK, MonitorTypeOK, monitor
  <2>2. pc' \in [Threads -> {"idle", "locking", "locked", "again", "waiting", "loop", "task",
                           "exit", "joining", "stopped"}]
    BY Constants DEF IInv, TypeOK
  <2> QED BY <2>1, <2>2 DEF IInv, TypeOK
<1>2. Guarded'
  BY Constants, MoveOutside DEF IInv
<1>3. Unstarted' /\ Bounded'
  BY Constants DEF IInv, TypeOK, Unstarted, Bounded
<1>4. InHand'
  <2>1. \A t \in Threads \ {Owner} : pc'[t] = pc[t]
    BY DEF IInv, TypeOK
  <2>2. \A t \in Producers \cup Workers : pc'[t] = pc[t]
    BY <2>1, Constants
  <2> QED BY <2>2 DEF IInv, InHand
<1>5. EachTaskOnce'
  BY DEF IInv, EachTaskOnce, Queued, Held
<1> QED BY <1>1, <1>2, <1>3, <1>4, <1>5 DEF IInv

LEMMA StopInv == ASSUME IInv, stop PROVE IInv'
<1>1. waits' \in WaitsType /\ InWait
  BY Constants, NotifyKeeps DEF IInv, TypeOK, MonitorTypeOK, WaitsType, stop, WakesAll
<1>2. Guarded'
  BY <1>1, Constants, LeaveSection DEF IInv, stop
<1> USE DEF stop, InSection, At, Goes
<1>3. TypeOK'
  BY <1>1, Constants DEF IInv, TypeOK, MonitorTypeOK, unlock, unassignHolder, WaitsType
<1>4. Unstarted' /\ Bounded'
  BY Constants DEF IInv, TypeOK, Unstarted, Bounded
<1>5. InHand'
  BY Constants DEF IInv, TypeOK, InHand
<1>6. EachTaskOnce'
  BY DEF IInv, EachTaskOnce, Queued, Held
<1> QED BY <1>2, <1>3, <1>4, <1>5, <1>6 DEF IInv

-----------------------------------------------------------------------------
(* run *)

LEMMA CallRunInv == ASSUME IInv, NEW p \in Producers, CallRun(p) PROVE IInv'
<1> USE DEF CallRun, At, Goes
<1>0. PICK n \in 1 .. MaxTasks : n = submitted + 1
  BY Constants DEF IInv, TypeOK
<1>1. /\ submitted \in Nat /\ submitted' = n /\ n \notin 1 .. submitted
      /\ 1 .. submitted' = (1 .. submitted) \cup {n}
      /\ p \in Threads /\ task[p] = 0 /\ p # Owner /\ p \notin Workers
      /\ n \notin ran /\ ~Queued(n) /\ ~Held(n)
  <2>1. submitted \in Nat /\ n \notin 1 .. submitted
    BY <1>0 DEF IInv, TypeOK
  <2>2. p \in Threads /\ task[p] = 0 /\ p # Owner /\ p \notin Workers
    BY Constants DEF IInv, InHand
  <2>3. n \notin ran /\ ~Queued(n)
    BY <2>1 DEF IInv, InHand, Queued
  <2>4. ~Held(n)
    BY <1>0, <2>1 DEF IInv, TypeOK, InHand, Held
  <2> QED BY <1>0, <2>1, <2>2, <2>3, <2>4
<1>2. TypeOK'
  <2>1. submitted' \in 0 .. MaxTasks /\ ran' \subseteq 1 .. MaxTasks
    <3>1. submitted' \in 0 .. MaxTasks
      BY <1>0, <1>1, Constants
    <3>2. ran' = ran \/ ran' = ran \cup {n}
      BY <1>1
    <3> QED BY <1>0, <3>1, <3>2 DEF IInv, TypeOK
  <2>2. /\ pc' \in [Threads -> {"idle", "locking", "locked", "again", "waiting", "loop", "task",
                                "exit", "joining", "stopped"}]
        /\ task' \in [Threads -> 0 .. MaxTasks]
    <3>1. CASE UNCHANGED <<pc, task>>
      BY <3>1 DEF IInv, TypeOK
    <3>2. CASE pc' = [pc EXCEPT ![p] = "locking"] /\ task' = [task EXCEPT ![p] = n]
      <4>1. n \in 0 .. MaxTasks
        BY <1>0, Constants
      <4> QED BY <3>2, <4>1, <1>1 DEF IInv, TypeOK
    <3> QED BY <1>1, <3>1, <3>2
  <2>3. MonitorTypeOK'
    BY DEF IInv, TypeOK, MonitorTypeOK, monitor
  <2> QED BY <2>1, <2>2, <2>3 DEF IInv, TypeOK
<1>3. Guarded'
  <2>1. CASE UNCHANGED pc
    BY <2>1 DEF IInv, Guarded, monitor
  <2>2. CASE Goes(p, "locking")
    BY <1>1, <2>2, MoveOutside DEF IInv
  <2> QED BY <2>1, <2>2
<1>4. Unstarted' /\ Bounded'
  BY <1>1 DEF IInv, TypeOK, Unstarted, Bounded
<1>5. CASE threads = {}
  <2>1. ran' = ran \cup {n} /\ UNCHANGED <<pc, task, queue>>
    BY <1>1, <1>5
  <2>2. InHand'
    BY <1>1, <2>1 DEF IInv, TypeOK, InHand
  <2>3. EachTaskOnce'
    <3> SUFFICES ASSUME NEW k \in 1 .. submitted'
                 PROVE  /\ Queued(k) \/ Held(k) \/ k \in ran'
                        /\ ~(Queued(k) /\ Held(k)) /\ ~(Queued(k) /\ k \in ran')
                        /\ ~(Held(k) /\ k \in ran')
      BY <2>1 DEF IInv, EachTaskOnce, Queued, Held
    <3>1. CASE k = n
      BY <1>1, <2>1, <3>1
    <3>2. CASE k # n
      <4>1. k \in 1 .. submitted
        BY <1>1, <3>2
      <4> QED BY <4>1, <2>1, <3>2 DEF IInv, EachTaskOnce
    <3> QED BY <3>1, <3>2
  <2> QED BY <1>2, <1>3, <1>4, <2>2, <2>3 DEF IInv
<1>6. CASE threads # {}
  <2>1. /\ ran' = ran /\ queue' = queue /\ pc' = [pc EXCEPT ![p] = "locking"]
        /\ task' = [task EXCEPT ![p] = n]
    BY <1>1, <1>6
  <2>2. InHand'
    BY <1>1, <2>1 DEF IInv, TypeOK, InHand
  <2>3. \A k \in 1 .. submitted : Held(k)' <=> Held(k)
    BY <1>1, <2>1 DEF IInv, TypeOK, Held
  <2>4. Held(n)'
    BY <1>1, <2>1 DEF IInv, TypeOK, Held
  <2>5. EachTaskOnce'
    <3>1. \A t, u \in Threads : task'[t] = task'[u] /\ task'[t] # 0 => t = u
      BY <1>1, <2>1 DEF IInv, TypeOK, EachTaskOnce, Held
    <3>2. \A k : Queued(k)' <=> Queued(k)
      BY <2>1 DEF Queued
    <3>3. ASSUME NEW k \in 1 .. submitted'
          PROVE  /\ Queued(k)' \/ Held(k)' \/ k \in ran'
                 /\ ~(Queued(k)' /\ Held(k)') /\ ~(Queued(k)' /\ k \in ran')
                 /\ ~(Held(k)' /\ k \in ran')
      <4>1. CASE k = n
        BY <1>1, <2>1, <2>4, <3>2, <4>1
      <4>2. CASE k # n
        <5>1. k \in 1 .. submitted
          BY <1>1, <4>2
        <5> QED BY <5>1, <2>1, <2>3, <3>2 DEF IInv, EachTaskOnce
      <4> QED BY <4>1, <4>2
    <3> QED BY <2>1, <3>1, <3>3 DEF IInv, EachTaskOnce
  <2> QED BY <1>2, <1>3, <1>4, <2>2, <2>5 DEF IInv
<1> QED BY <1>5, <1>6

LEMMA PutInv == ASSUME IInv, NEW p \in Producers, PutOrWait(p) PROVE IInv'
<1>1. CASE WaitsWhile(p) /\ Wait(p, "notFull")
  BY <1>1, Constants, WaitInv DEF PutOrWait
<1>2. CASE ~WaitsWhile(p)
  <2> DEFINE k == task[p]
  <2>1. /\ ~isFull /\ queue' = Append(queue, k) /\ notify("notEmpty") /\ unlock
        /\ Goes(p, "idle") /\ task' = [task EXCEPT ![p] = 0] /\ InSection(p)
        /\ UNCHANGED <<maxQueueSize, threads, running, submitted, ran, aborted>>
    BY <1>2 DEF PutOrWait, WaitsWhile, Wait
  <2>2. /\ p \in Threads /\ p # Owner /\ p \notin Workers
        /\ k \in 1 .. submitted /\ k \in 1 .. MaxTasks /\ submitted \in Nat
        /\ ~Queued(k) /\ k \notin ran /\ Held(k)
    <3>1. p \in Threads /\ p # Owner /\ p \notin Workers
      BY Constants
    <3>2. k \in 1 .. submitted /\ k \in 1 .. MaxTasks /\ submitted \in Nat
      BY <2>1, <3>1 DEF IInv, TypeOK, InHand, InSection, At
    <3>3. Held(k)
      BY <3>1 DEF Held
    <3> QED BY <3>1, <3>2, <3>3 DEF IInv, EachTaskOnce
  <2>3. waits' \in WaitsType /\ InWait
    BY <2>1, Constants, NotifyKeeps DEF IInv, TypeOK, MonitorTypeOK, WaitsType
  <2>4. Guarded'
    BY <2>1, <2>2, <2>3, LeaveSection DEF IInv
  <2>5. /\ queue \in Seq(1 .. MaxTasks) /\ queue' \in Seq(1 .. MaxTasks)
        /\ Len(queue) \in Nat /\ Len(queue') = Len(queue) + 1
        /\ DOMAIN queue = 1 .. Len(queue) /\ DOMAIN queue' = 1 .. Len(queue) + 1
        /\ \A i \in 1 .. Len(queue) : queue'[i] = queue[i]
        /\ queue'[Len(queue) + 1] = k
    BY <2>1, <2>2 DEF IInv, TypeOK
  <2>6. TypeOK'
    <3>1. MonitorTypeOK'
      BY <2>1, <2>3 DEF MonitorTypeOK, unlock, unassignHolder, WaitsType
    <3>2. /\ pc' \in [Threads -> {"idle", "locking", "locked", "again", "waiting", "loop", "task",
                                  "exit", "joining", "stopped"}]
          /\ task' \in [Threads -> 0 .. MaxTasks]
      BY <2>1, <2>2, Constants DEF IInv, TypeOK, Goes
    <3> QED BY <2>1, <2>5, <3>1, <3>2 DEF IInv, TypeOK
  <2>7. Unstarted' /\ Bounded'
    <3>1. maxQueueSize \in Nat
      BY Constants DEF IInv, TypeOK
    <3> QED BY <2>1, <2>2, <2>5, <3>1 DEF IInv, TypeOK, Unstarted, Bounded, isFull, Goes
  <2>8. InHand'
    BY <2>1, <2>2, <2>5 DEF IInv, TypeOK, InHand, Goes, InSection, At
  <2>9. EachTaskOnce'
    <3>1. \A i, j \in DOMAIN queue' : queue'[i] = queue'[j] => i = j
      BY <2>2, <2>5 DEF IInv, EachTaskOnce, Queued
    <3>2. \A t \in Threads : task'[t] = IF t = p THEN 0 ELSE task[t]
      BY <2>1 DEF IInv, TypeOK
    <3>3. \A t, u \in Threads : task'[t] = task'[u] /\ task'[t] # 0 => t = u
      BY <3>2 DEF IInv, EachTaskOnce
    <3>4. \A m \in 1 .. submitted : Queued(m)' <=> (Queued(m) \/ m = k)
      BY <2>5 DEF Queued
    <3>5. \A m \in 1 .. submitted : Held(m)' <=> (Held(m) /\ m # k)
      BY <2>2, <3>2 DEF IInv, EachTaskOnce, Held
    <3> QED BY <2>1, <2>2, <3>1, <3>3, <3>4, <3>5 DEF IInv, EachTaskOnce
  <2> QED BY <2>4, <2>6, <2>7, <2>8, <2>9 DEF IInv
<1> QED BY <1>1, <1>2 DEF PutOrWait

-----------------------------------------------------------------------------
(* runInThread *)

LEMMA WorkerMovesInv == ASSUME IInv, NEW w \in Workers, Loop(w) \/ ThreadEnds(w) PROVE IInv'
<1> USE DEF Loop, ThreadEnds, At, Goes, data
<1>1. w \in Threads /\ \A t \in Threads \ {w} : pc'[t] = pc[t]
  BY Constants DEF IInv, TypeOK
<1>2. TypeOK'
  <2>1. MonitorTypeOK'
    BY DEF IInv, TypeOK, MonitorTypeOK, monitor
  <2> QED BY <1>1, <2>1 DEF IInv, TypeOK
<1>3. Guarded'
  BY <1>1, MoveOutside DEF IInv
<1>4. Unstarted' /\ Bounded'
  BY <1>1 DEF IInv, TypeOK, Unstarted, Bounded
<1>5. InHand'
  <2>1. w \notin Producers /\ w # Owner /\ task[w] = 0 /\ pc'[w] \in {"locking", "exit"}
    BY <1>1, Constants DEF IInv, TypeOK, InHand
  <2>2. \A t \in Producers \cup Workers : t # w => pc'[t] = pc[t]
    BY <1>1, Constants
  <2>3. \A p \in Producers : p # w
    BY <2>1
  <2>4. \A v \in Workers : /\ task[v] # 0 <=> pc'[v] = "task"
                           /\ pc'[v] \in {"idle", "locking", "locked", "again", "waiting",
                                          "loop", "task", "exit"}
    BY <2>1, <2>2 DEF IInv, InHand
  <2> QED BY <2>2, <2>3, <2>4 DEF IInv, InHand
<1>6. EachTaskOnce'
  BY DEF IInv, EachTaskOnce, Queued, Held
<1> QED BY <1>2, <1>3, <1>4, <1>5, <1>6 DEF IInv

(* A worker that finds the queue empty after stop.                         *)
LEMMA TakeNothingInv ==
  ASSUME IInv, NEW w \in Workers, InSection(w), unlock, waits' = waits, Goes(w, "loop"),
         UNCHANGED <<data, task>>
  PROVE  IInv'
<1>1. waits' \in WaitsType /\ InWait
  BY DEF IInv, TypeOK, MonitorTypeOK, WaitsType, InWait
<1>2. w \in Threads /\ \A t \in Threads \ {w} : pc'[t] = pc[t]
  BY Constants DEF IInv, TypeOK, Goes
<1>3. Guarded'
  BY <1>1, <1>2, LeaveSection DEF IInv
<1> USE DEF data, InSection, At
<1>4. TypeOK'
  BY <1>1, <1>2 DEF IInv, TypeOK, MonitorTypeOK, unlock, unassignHolder, WaitsType, Goes
<1>5. Unstarted' /\ Bounded'
  BY <1>2 DEF IInv, TypeOK, Unstarted, Bounded
<1>6. InHand'
  BY <1>2, Constants DEF IInv, TypeOK, InHand, Goes
<1>7. EachTaskOnce'
  BY DEF IInv, EachTaskOnce, Queued, Held
<1> QED BY <1>3, <1>4, <1>5, <1>6, <1>7 DEF IInv

LEMMA TakeTaskInv ==
  ASSUME IInv, NEW w \in Workers, InSection(w), queue # <<>>,
         task' = [task EXCEPT ![w] = Head(queue)], queue' = Popped, TellsFull, unlock,
         Goes(w, "task"), UNCHANGED <<maxQueueSize, threads, running, submitted, ran, aborted>>
  PROVE  IInv'
<1>0. Head(queue) \in 1 .. MaxTasks
  BY HeadTailProperties, Zenon DEF IInv, TypeOK
<1>1. PICK k \in 1 .. MaxTasks : k = Head(queue)
  BY <1>0
<1>2. /\ Len(queue) \in Nat \ {0} /\ queue' \in Seq(1 .. MaxTasks) /\ Len(queue') = Len(queue) - 1
      /\ DOMAIN queue = 1 .. Len(queue) /\ DOMAIN queue' = 1 .. Len(queue) - 1
      /\ k = queue[1] /\ \A i \in 1 .. Len(queue) - 1 : queue'[i] = queue[i + 1]
  BY <1>1 DEF IInv, TypeOK, Popped
<1>3. /\ w \in Threads /\ w # Owner /\ w \notin Producers
      /\ k \in 1 .. submitted /\ Queued(k) /\ ~Held(k) /\ k \notin ran
      /\ task[w] = 0
  <2>1. w \in Threads /\ w # Owner /\ w \notin Producers
    BY Constants
  <2>2. Queued(k) /\ k \in 1 .. submitted
    BY <1>2 DEF Queued, IInv, InHand
  <2>3. task[w] = 0
    BY DEF IInv, InHand, InSection, At
  <2> QED BY <2>1, <2>2, <2>3 DEF IInv, EachTaskOnce
<1>4. waits' \in WaitsType /\ InWait
  BY Constants, NotifyKeeps DEF IInv, TypeOK, MonitorTypeOK, WaitsType, TellsFull
<1>5. Guarded'
  BY <1>3, <1>4, LeaveSection DEF IInv
<1>6. TypeOK'
  <2>1. MonitorTypeOK'
    BY <1>4 DEF MonitorTypeOK, unlock, unassignHolder, WaitsType
  <2>2. /\ pc' \in [Threads -> {"idle", "locking", "locked", "again", "waiting", "loop", "task",
                                "exit", "joining", "stopped"}]
        /\ task' \in [Threads -> 0 .. MaxTasks]
    BY <1>1, <1>3, Constants DEF IInv, TypeOK, Goes
  <2> QED BY <1>2, <2>1, <2>2 DEF IInv, TypeOK
<1>7. \A t \in Threads : /\ pc'[t] = IF t = w THEN "task" ELSE pc[t]
                         /\ task'[t] = IF t = w THEN k ELSE task[t]
  BY <1>1 DEF IInv, TypeOK, Goes
<1>8. Unstarted' /\ Bounded'
  <2>1. maxQueueSize \in Nat
    BY Constants DEF IInv, TypeOK
  <2>2. Unstarted'
    BY <1>3, <1>7, Constants DEF IInv, Unstarted, Guarded, InSection, At
  <2> QED BY <1>2, <2>1, <2>2 DEF IInv, Bounded
<1>9. InHand'
  <2>1. k # 0 /\ k <= submitted
    BY <1>3 DEF IInv, TypeOK
  <2>2. \A i \in DOMAIN queue' : queue'[i] \in 1 .. submitted
    BY <1>2 DEF IInv, InHand
  <2> QED BY <1>3, <1>7, <2>1, <2>2, Constants DEF IInv, InHand
<1>10. EachTaskOnce'
  <2>1. \A i, j \in DOMAIN queue' : queue'[i] = queue'[j] => i = j
    <3>1. \A i \in DOMAIN queue' : i + 1 \in DOMAIN queue
      BY <1>2
    <3> QED BY <1>2, <3>1 DEF IInv, EachTaskOnce
  <2>2. \A t, u \in Threads : task'[t] = task'[u] /\ task'[t] # 0 => t = u
    BY <1>3, <1>7 DEF IInv, EachTaskOnce, Held
  <2>3. \A m \in 1 .. submitted : Queued(m)' <=> (Queued(m) /\ m # k)
    <3>1. \A i \in DOMAIN queue : i = 1 \/ (i - 1 \in DOMAIN queue' /\ queue'[i - 1] = queue[i])
      BY <1>2
    <3>2. \A i \in DOMAIN queue' : i + 1 \in DOMAIN queue /\ queue'[i] = queue[i + 1] /\ i + 1 # 1
      BY <1>2
    <3>3. \A i \in DOMAIN queue : queue[i] = k => i = 1
      BY <1>2 DEF IInv, EachTaskOnce
    <3>4. ASSUME NEW m \in 1 .. submitted, Queued(m)' PROVE Queued(m) /\ m # k
      BY <3>2, <3>3, <3>4 DEF Queued
    <3>5. ASSUME NEW m \in 1 .. submitted, Queued(m), m # k PROVE Queued(m)'
      BY <1>2, <3>1, <3>5 DEF Queued
    <3> QED BY <3>4, <3>5
  <2>4. \A m \in 1 .. submitted : Held(m)' <=> (Held(m) \/ m = k)
    BY <1>3, <1>7 DEF Held
  <2> QED BY <1>3, <2>1, <2>2, <2>3, <2>4 DEF IInv, EachTaskOnce
<1> QED BY <1>5, <1>6, <1>8, <1>9, <1>10 DEF IInv

LEMMA TakeInv == ASSUME IInv, NEW w \in Workers, take(w) PROVE IInv'
<1>1. CASE queue = <<>> /\ running /\ Wait(w, "notEmpty")
  BY <1>1, Constants, WaitInv DEF take
<1>2. CASE queue = <<>> /\ ~running /\ unlock /\ waits' = waits /\ Goes(w, "loop")
           /\ UNCHANGED <<data, task>>
  BY <1>2, TakeNothingInv DEF take
<1>3. CASE queue # <<>>
  BY <1>3, TakeTaskInv DEF take
<1> QED BY <1>1, <1>2, <1>3 DEF take

LEMMA RunTaskInv == ASSUME IInv, NEW w \in Workers, RunTask(w) PROVE IInv'
<1> USE DEF RunTask, At
<1>1. PICK k \in 1 .. MaxTasks : k = task[w]
  BY Constants DEF IInv, TypeOK, InHand
<1>2. /\ w \in Threads /\ w # Owner /\ w \notin Producers
      /\ k \in 1 .. submitted /\ Held(k) /\ ~Queued(k) /\ k \notin ran
  <2>1. w \in Threads /\ w # Owner /\ w \notin Producers
    BY Constants
  <2>2. Held(k) /\ k \in 1 .. submitted
    BY <1>1, <2>1 DEF Held, IInv, TypeOK, InHand
  <2> QED BY <2>1, <2>2 DEF IInv, EachTaskOnce
<1>3. \A t \in Threads : /\ pc'[t] = IF t = w THEN "loop" ELSE pc[t]
                         /\ task'[t] = IF t = w THEN 0 ELSE task[t]
  BY DEF IInv, TypeOK, Goes
<1>4. TypeOK'
  <2>1. MonitorTypeOK'
    BY DEF IInv, TypeOK, MonitorTypeOK, monitor
  <2>2. /\ pc' \in [Threads -> {"idle", "locking", "locked", "again", "waiting", "loop", "task",
                                "exit", "joining", "stopped"}]
        /\ task' \in [Threads -> 0 .. MaxTasks]
    BY <1>2, Constants DEF IInv, TypeOK, Goes
  <2>3. ran' \subseteq 1 .. MaxTasks
    BY <1>1 DEF IInv, TypeOK
  <2> QED BY <2>1, <2>2, <2>3 DEF IInv, TypeOK
<1>5. Guarded'
  BY <1>2, MoveOutside DEF IInv
<1>6. Unstarted' /\ Bounded'
  BY <1>2, <1>3 DEF IInv, Unstarted, Bounded
<1>7. InHand'
  <2>1. ran' \subseteq 1 .. submitted
    BY <1>1, <1>2 DEF IInv, InHand
  <2> QED BY <1>2, <1>3, <2>1, Constants DEF IInv, TypeOK, InHand
<1>8. EachTaskOnce'
  <2>1. \A t, u \in Threads : task'[t] = task'[u] /\ task'[t] # 0 => t = u
    BY <1>3 DEF IInv, EachTaskOnce
  <2>2. \A m \in 1 .. submitted : Held(m)' <=> (Held(m) /\ m # k)
    BY <1>1, <1>2, <1>3 DEF IInv, EachTaskOnce, Held
  <2>3. \A m : Queued(m)' <=> Queued(m)
    BY DEF Queued
  <2> QED BY <1>1, <1>2, <2>1, <2>2, <2>3 DEF IInv, EachTaskOnce
<1> QED BY <1>4, <1>5, <1>6, <1>7, <1>8 DEF IInv

LEMMA TaskThrowsInv == ASSUME IInv, NEW w \in Workers, TaskThrows(w) PROVE IInv'
<1> USE DEF TaskThrows, monitor
<1>1. TypeOK' /\ Guarded' /\ Unstarted' /\ Bounded'
  BY DEF IInv, TypeOK, MonitorTypeOK, Guarded, Unstarted, Bounded
<1>2. InHand' /\ EachTaskOnce'
  BY DEF IInv, InHand, EachTaskOnce, Queued, Held
<1> QED BY <1>1, <1>2 DEF IInv

-----------------------------------------------------------------------------
LEMMA StepInv == IInv /\ [Next]_vars => IInv'
<1> SUFFICES ASSUME IInv, [Next]_vars PROVE IInv'
  OBVIOUS
<1>1. CASE start
  BY <1>1, StartInv
<1>2. CASE CallStop \/ Stopper
  BY <1>2, Constants, OwnerMovesInv, LockInv, StopInv DEF Stopper
<1>3. ASSUME NEW p \in Producers, Producer(p) PROVE IInv'
  BY <1>3, Constants, CallRunInv, LockInv, WakeInv, PutInv DEF Producer
<1>4. ASSUME NEW w \in Workers, Worker(w) PROVE IInv'
  BY <1>4, Constants, WorkerMovesInv, LockInv, WakeInv, TakeInv, RunTaskInv, TaskThrowsInv DEF Worker
<1>5. ASSUME NEW t \in Threads, Spurious(t) PROVE IInv'
  BY <1>5, SpuriousInv
<1>6. CASE UNCHANGED vars
  <2> USE <1>6 DEF vars, monitor, data
  <2>1. TypeOK' /\ Guarded' /\ Unstarted' /\ Bounded'
    BY DEF IInv, TypeOK, MonitorTypeOK, Guarded, Unstarted, Bounded
  <2>2. InHand' /\ EachTaskOnce'
    BY DEF IInv, InHand, EachTaskOnce, Queued, Held
  <2> QED BY <2>1, <2>2 DEF IInv
<1> QED BY <1>1, <1>2, <1>3, <1>4, <1>5, <1>6 DEF Next

(* The inductive invariant holds in every behaviour of the pool.           *)
THEOREM Invariance == Spec => []IInv
BY InitInv, StepInv, PTL DEF Spec

(* The variables keep their types, the waiting sets of the conditions and  *)
(* the tasks of the threads included.                                      *)
THEOREM TypeCorrect == Spec => []TypeOK
<1>1. IInv => TypeOK
  BY DEF IInv
<1> QED BY <1>1, Invariance, PTL

(* The assertions of ThreadPool.cc and Mutex.h hold: assertLocked wherever *)
(* it is called, mutual exclusion, and the size of the queue after a put.  *)
THEOREM AssertionsHold == Spec => []PoolAssertions
<1>1. IInv => PoolAssertions
  BY DEF IInv, Guarded, Bounded, PoolAssertions, InSection, At, isLockedByThisThread
<1> QED BY <1>1, Invariance, PTL

(* No task is lost, queued twice or taken by two workers, however the      *)
(* wake-ups are stolen or come for no reason.                              *)
THEOREM TasksInOnePlace == Spec => []EachTaskOnce
<1>1. IInv => EachTaskOnce
  BY DEF IInv
<1> QED BY <1>1, Invariance, PTL
=============================================================================
