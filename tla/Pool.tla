-------------------------------- MODULE Pool --------------------------------
(***************************************************************************)
(* internal/worker/pool.go with the part of worker.go that starts and stops*)
(* the goroutine of a worker. What a worker does with a task is the matter *)
(* of module Worker; here it is busy or not. A critical section of the pool*)
(* is one step.                                                            *)
(***************************************************************************)
EXTENDS Metrics

CONSTANTS MinWorkers, MaxWorkers   \* as NewPool adjusts them

ASSUME PoolAssumption ==
    /\ MinWorkers \in Nat /\ MaxWorkers \in Nat
    /\ 1 <= MinWorkers /\ MinWorkers <= MaxWorkers

VARIABLES
    workerStates,   \* worker -> its state in the pool, "none" when it is not there
    goroutine,      \* worker -> "idle" in its select, "busy" with a task, or "gone"
    running,        \* workers whose running flag is set
    signalled,      \* workers whose shutdownChan is closed
    poolDone        \* whether the pool's context is cancelled

poolVars == <<workerStates, goroutine, running, signalled, poolDone>>

WorkerState == {"idle", "shutting_down"}

(* The keys of p.workers; those of p.workerStates are the same.            *)
workers == {w \in WorkerId : workerStates[w] # "none"}

GetWorkerCount == Cardinality(workers)

PoolInit ==
    /\ workerStates = [w \in WorkerId |-> "none"]
    /\ goroutine = [w \in WorkerId |-> "gone"]
    /\ running = {} /\ signalled = {}
    /\ poolDone = FALSE

(* Names nothing refers to any more. The pool numbers its workers without  *)
(* end; taking up such a name again cannot be told from a new number.      *)
Unused == {w \in WorkerId : workerStates[w] = "none" /\ goroutine[w] = "gone"
                              /\ w \notin Registered}

(* A new worker is started, entered into the maps and registered.          *)
Enter(w) ==
    /\ workerStates' = [workerStates EXCEPT ![w] = "idle"]
    /\ goroutine' = [goroutine EXCEPT ![w] = "idle"]
    /\ running' = running \cup {w}
    /\ signalled' = signalled \ {w}
    /\ RegisterWorker(w)
    /\ UNCHANGED poolDone

(* A slip in AddWorker: the capacity is checked by the caller only.        *)
AddWorker_Unchecked == \E w \in Unused : Enter(w)

(* AddWorker: refused at the maximum.                                      *)
AddWorker ==
    IF GetWorkerCount >= MaxWorkers THEN UNCHANGED <<poolVars, metricsVars>>
    ELSE \E w \in Unused : Enter(w)

(* What GetIdleWorker may return: the iteration order of a map is random.  *)
GetIdleWorker == {w \in WorkerId : workerStates[w] = "idle"}

(* RemoveWorker is allowed: the worker is there, and not the last one the  *)
(* minimum leaves.                                                         *)
MayRemove(w) == w \in workers /\ GetWorkerCount > MinWorkers

(* The first critical section of RemoveWorker.                             *)
MarkShuttingDown(w) ==
    /\ workerStates' = [workerStates EXCEPT ![w] = "shutting_down"]
    /\ UNCHANGED <<goroutine, running, signalled, poolDone>>

(* A slip in Shutdown: the flag is cleared and the channel left open.      *)
Shutdown_Silent(w) ==
    /\ running' = running \ {w}
    /\ UNCHANGED <<workerStates, goroutine, signalled, poolDone>>

(* Shutdown of a worker up to its wait: nothing when the flag is not set.  *)
Shutdown(w) ==
    /\ running' = running \ {w}
    /\ signalled' = IF w \in running THEN signalled \cup {w} ELSE signalled
    /\ UNCHANGED <<workerStates, goroutine, poolDone>>

(* The second critical section of RemoveWorker.                            *)
Delete(w) ==
    /\ workerStates' = [workerStates EXCEPT ![w] = "none"]
    /\ UNCHANGED <<goroutine, running, signalled, poolDone>>

-----------------------------------------------------------------------------
(* The goroutine of a worker. Go's select takes any ready case, so that a  *)
(* worker that is told to stop may poll again before it notices.           *)

(* The ticker fires and the poll finds a task.                             *)
TakeTask(w) ==
    /\ goroutine[w] = "idle"
    /\ goroutine' = [goroutine EXCEPT ![w] = "busy"]
    /\ UNCHANGED <<workerStates, running, signalled, poolDone, metricsVars>>

FinishTask(w) ==
    /\ goroutine[w] = "busy"
    /\ goroutine' = [goroutine EXCEPT ![w] = "idle"]
    /\ UNCHANGED <<workerStates, running, signalled, poolDone, metricsVars>>

(* run returns: its context is cancelled or its channel closed.            *)
Leave(w) ==
    /\ goroutine[w] = "idle"
    /\ poolDone \/ w \in signalled
    /\ goroutine' = [goroutine EXCEPT ![w] = "gone"]
    /\ running' = running \ {w}
    /\ UNCHANGED <<workerStates, signalled, poolDone, metricsVars>>
=============================================================================
