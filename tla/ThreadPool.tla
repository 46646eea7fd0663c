----------------------------- MODULE ThreadPool -----------------------------
(***************************************************************************)
(* muduo::ThreadPool: callers of run put tasks on a queue that may be      *)
(* bounded, worker threads take and run them, stop lets the workers finish *)
(* the task they are at and joins them.  A critical section is the step    *)
(* that locks, followed by the one that works and unlocks or waits.        *)
(***************************************************************************)
EXTENDS Monitor, Sequences

CONSTANTS
  Producers, Workers, Owner,   (* callers of run, workers, who starts and stops *)
  QueueSizes,                  (* what setMaxQueueSize is given              *)
  MaxTasks                     (* bound on the calls of run                  *)

ASSUME ThreadPoolAssumption ==
  /\ Threads = Producers \cup Workers \cup {Owner} /\ Producers \cap Workers = {}
  /\ Owner \notin Producers \cup Workers
  /\ Conditions = {"notEmpty", "notFull"} /\ QueueSizes \subseteq Nat /\ MaxTasks \in Nat

VARIABLES
  maxQueueSize, threads, queue, running,
  pc, task,                    (* per thread: where it is, the task it has   *)
  submitted, ran, aborted

data == <<maxQueueSize, threads, queue, running, submitted, ran, aborted>>
vars == <<monitor, data, pc, task>>

TypeOK ==
  /\ MonitorTypeOK
  /\ maxQueueSize \in QueueSizes /\ threads \in {{}, Workers}
  /\ queue \in Seq(1 .. MaxTasks) /\ running \in BOOLEAN /\ aborted \in BOOLEAN
  /\ pc \in [Threads -> {"idle", "locking", "locked", "again", "waiting", "loop", "task",
                         "exit", "joining", "stopped"}]
  /\ task \in [Threads -> 0 .. MaxTasks]
  /\ submitted \in 0 .. MaxTasks /\ ran \subseteq 1 .. MaxTasks

Init ==
  /\ MonitorInit
  /\ maxQueueSize \in QueueSizes /\ threads = {} /\ queue = <<>> /\ running = FALSE
  /\ pc = [t \in Threads |-> "idle"] /\ task = [t \in Threads |-> 0]
  /\ submitted = 0 /\ ran = {} /\ aborted = FALSE

Goes(t, to)     == pc' = [pc EXCEPT ![t] = to]
At(t, places)   == ~aborted /\ pc[t] \in places
InSection(t)    == At(t, {"locked", "again"})

Lock(t)  == At(t, {"locking"}) /\ lock(t) /\ Goes(t, "locked") /\ UNCHANGED <<data, task>>
Wake(t)  == At(t, {"waiting"}) /\ wake(t) /\ Goes(t, "again") /\ UNCHANGED <<data, task>>
Wait(t, c) == wait(t, c) /\ Goes(t, "waiting") /\ UNCHANGED <<data, task>>
Spurious(t) == At(t, {"waiting"}) /\ SpuriousWakeup(t) /\ UNCHANGED <<data, pc, task>>

-----------------------------------------------------------------------------
(* start and stop *)

(* Thread::start of the workers: each begins in runInThread. *)
startThreads(new) == pc' = [t \in Threads |-> IF t \in new THEN "loop" ELSE pc[t]]

start ==
  /\ At(Owner, {"idle"}) /\ ~running /\ threads = {}
  /\ running' = TRUE /\ threads' \in {{}, Workers} /\ startThreads(threads')
  /\ UNCHANGED <<monitor, maxQueueSize, queue, submitted, ran, aborted, task>>

CallStop == At(Owner, {"idle"}) /\ running /\ Goes(Owner, "locking")
            /\ UNCHANGED <<monitor, data, task>>

WakesOne == notify("notEmpty")
WakesAll == notifyAll("notEmpty")

stop ==
  /\ InSection(Owner) /\ running' = FALSE /\ WakesAll /\ unlock /\ Goes(Owner, "joining")
  /\ UNCHANGED <<maxQueueSize, threads, queue, submitted, ran, aborted, task>>

Joined ==
  /\ At(Owner, {"joining"}) /\ \A t \in threads : pc[t] = "exit"
  /\ Goes(Owner, "stopped") /\ UNCHANGED <<monitor, data, task>>

-----------------------------------------------------------------------------
(* run: without threads the caller runs the task itself *)

isFull == maxQueueSize > 0 /\ Len(queue) >= maxQueueSize

CallRun(p) ==
  /\ At(p, {"idle"}) /\ submitted < MaxTasks /\ submitted' = submitted + 1
  /\ IF threads = {} THEN ran' = ran \cup {submitted'} /\ UNCHANGED <<pc, task>>
     ELSE Goes(p, "locking") /\ task' = [task EXCEPT ![p] = submitted'] /\ ran' = ran
  /\ UNCHANGED <<monitor, maxQueueSize, threads, queue, running, aborted>>

WaitsOnce(p)  == isFull /\ pc[p] = "locked"
WaitsWhile(p) == isFull

PutOrWait(p) ==
  /\ InSection(p)
  /\ \/ WaitsWhile(p) /\ Wait(p, "notFull")
     \/ /\ ~WaitsWhile(p) /\ queue' = Append(queue, task[p])
        /\ notify("notEmpty") /\ unlock
        /\ Goes(p, "idle") /\ task' = [task EXCEPT ![p] = 0]
        /\ UNCHANGED <<maxQueueSize, threads, running, submitted, ran, aborted>>

Producer(p) == CallRun(p) \/ Lock(p) \/ Wake(p) \/ PutOrWait(p)

-----------------------------------------------------------------------------
(* runInThread *)

Loop(w) ==
  /\ At(w, {"loop"}) /\ running /\ Goes(w, "locking")
  /\ UNCHANGED <<monitor, data, task>>

(* The loop ends, and with it the function that Thread::runInThread calls. *)
ThreadEnds(w) ==
  /\ At(w, {"loop"}) /\ ~running /\ Goes(w, "exit")
  /\ UNCHANGED <<monitor, data, task>>

NoNotice  == waits' = waits
TellsFull == IF maxQueueSize > 0 THEN notify("notFull") ELSE waits' = waits

(* The task taken leaves the queue before the mutex is given back.         *)
LeftThere == queue
Popped    == Tail(queue)

take(w) ==
  /\ InSection(w)
  /\ \/ queue = <<>> /\ running /\ Wait(w, "notEmpty")
     \/ /\ queue = <<>> /\ ~running /\ unlock /\ waits' = waits
        /\ Goes(w, "loop") /\ UNCHANGED <<data, task>>
     \/ /\ queue # <<>> /\ task' = [task EXCEPT ![w] = Head(queue)] /\ queue' = Popped
        /\ TellsFull /\ unlock /\ Goes(w, "task")
        /\ UNCHANGED <<maxQueueSize, threads, running, submitted, ran, aborted>>

RunTask(w) ==
  /\ At(w, {"task"}) /\ ran' = ran \cup {task[w]} /\ task' = [task EXCEPT ![w] = 0]
  /\ Goes(w, "loop")
  /\ UNCHANGED <<monitor, maxQueueSize, threads, queue, running, submitted, aborted>>

(* Whatever a task throws ends the process, here or in Thread::runInThread. *)
TaskThrows(w) ==
  /\ At(w, {"task"}) /\ aborted' = TRUE
  /\ UNCHANGED <<monitor, maxQueueSize, threads, queue, running, submitted, ran, pc, task>>

Worker(w) ==
  Loop(w) \/ ThreadEnds(w) \/ Lock(w) \/ Wake(w) \/ take(w) \/ RunTask(w) \/ TaskThrows(w)
Stopper   == Lock(Owner) \/ stop \/ Joined

Next ==
  \/ start \/ CallStop \/ Stopper
  \/ \E p \in Producers : Producer(p)
  \/ \E w \in Workers : Worker(w)
  \/ \E t \in Threads : Spurious(t)

(* Every thread is scheduled, and a blocked pthread_mutex_lock gets the    *)
(* mutex when it is free often enough; nobody has to call anything.        *)
Spec == Init /\ [][Next]_vars
FairSpec ==
  /\ Spec /\ WF_vars(Stopper) /\ SF_vars(Lock(Owner))
  /\ \A t \in Producers \cup Workers : SF_vars(Lock(t) \/ Wake(t))
  /\ \A p \in Producers : WF_vars(PutOrWait(p))
  /\ \A w \in Workers : WF_vars(Worker(w))

-----------------------------------------------------------------------------
(* Properties *)

(* The assertions of the pool and of Mutex.h: whoever asks isFull, or      *)
(* takes, holds the mutex by its holder_ field, nobody else is inside, and *)
(* a put never exceeds the size that was set, so that assert(!isFull())    *)
(* holds after every wait.                                                 *)
PoolAssertions ==
  /\ \A t \in Threads : InSection(t) => isLockedByThisThread(t) /\ mutex = t
  /\ maxQueueSize > 0 => Len(queue) <= maxQueueSize

(* A task that was handed to run is in one place: at one place of the      *)
(* queue, in the hands of one thread, or run.  So none is lost between a   *)
(* caller and a worker, and no two workers run the same.                   *)
Queued(k) == \E i \in DOMAIN queue : queue[i] = k
Held(k)   == \E t \in Threads : task[t] = k
EachTaskOnce ==
  /\ \A i, j \in DOMAIN queue : queue[i] = queue[j] => i = j
  /\ \A t, u \in Threads : task[t] = task[u] /\ task[t] # 0 => t = u
  /\ \A k \in 1 .. submitted :
       /\ Queued(k) \/ Held(k) \/ k \in ran
       /\ ~(Queued(k) /\ Held(k)) /\ ~(Queued(k) /\ k \in ran) /\ ~(Held(k) /\ k \in ran)

(* A call of run returns unless the pool was stopped or the process ended: *)
(* no notification for a free place is lost, whoever takes the place.      *)
RunReturns ==
  \A p \in Producers : (pc[p] = "locking") ~> (pc[p] = "idle" \/ ~running \/ aborted)

(* A task on the queue is run, and stop returns when the workers have      *)
(* ended the task they were at; what is then left in the queue is not run. *)
TasksRunOrStopped ==
  /\ \A k \in 1 .. MaxTasks : (running /\ \E i \in DOMAIN queue : queue[i] = k)
                                ~> (k \in ran \/ ~running \/ aborted)
  /\ (pc[Owner] = "locking") ~> (pc[Owner] = "stopped" \/ aborted)
=============================================================================
