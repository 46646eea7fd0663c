------------------------------ MODULE Monitor -------------------------------
(***************************************************************************)
(* MutexLock with its MutexLockGuard, and the Conditions that wait on it:  *)
(* the pthread mutex, the holder_ field that assertLocked reads, and the   *)
(* threads that are blocked in pthread_cond_wait.  A woken thread competes *)
(* for the mutex with every other, and may be woken for no reason.         *)
(***************************************************************************)
EXTENDS Naturals, FiniteSets

CONSTANTS Threads, Conditions, NoThread

ASSUME MonitorAssumption == NoThread \notin Threads /\ "none" \notin Conditions
                            /\ "woken" \notin Conditions

VARIABLES
  mutex,     (* the thread that owns the pthread mutex                       *)
  holder,    (* holder_                                                      *)
  waits      (* the condition a thread waits for, "woken" until it owns the mutex again *)

monitor == <<mutex, holder, waits>>

MonitorTypeOK ==
  /\ mutex \in Threads \cup {NoThread} /\ holder \in Threads \cup {NoThread}
  /\ waits \in [Threads -> Conditions \cup {"none", "woken"}]

MonitorInit == mutex = NoThread /\ holder = NoThread /\ waits = [t \in Threads |-> "none"]

assignHolder(t) == holder' = t
unassignHolder  == holder' = NoThread

lock(t) == mutex = NoThread /\ mutex' = t /\ assignHolder(t) /\ waits' = waits
unlock  == mutex' = NoThread /\ unassignHolder

isLockedByThisThread(t) == holder = t

(* Condition::wait, in two parts: UnassignGuard surrounds the blocking call. *)
wait(t, c) == unlock /\ waits' = [waits EXCEPT ![t] = c]
wake(t)    == waits[t] = "woken" /\ mutex = NoThread /\ mutex' = t /\ assignHolder(t)
              /\ waits' = [waits EXCEPT ![t] = "none"]

Waiters(c) == {t \in Threads : waits[t] = c}

notify(c) ==
  IF Waiters(c) = {} THEN waits' = waits
  ELSE \E t \in Waiters(c) : waits' = [waits EXCEPT ![t] = "woken"]

notifyAll(c) == waits' = [t \in Threads |-> IF waits[t] = c THEN "woken" ELSE waits[t]]

SpuriousWakeup(t) ==
  waits[t] \in Conditions /\ waits' = [waits EXCEPT ![t] = "woken"] /\ UNCHANGED <<mutex, holder>>
=============================================================================
