-------------------------- MODULE InstrumentedWorker --------------------------
(***************************************************************************)
(* internal/worker/instrumented.go: a worker whose counters a second       *)
(* goroutine copies into the metrics, and the start and stop of both. The  *)
(* counters of tasks in metrics.go are here, those of workers in Metrics.  *)
(* What a worker does to a task is in the module Worker; here it takes one,*)
(* and succeeds or fails with it.                                          *)
(***************************************************************************)
EXTENDS Metrics, Counting

CONSTANTS Stoppable,    \* bound: the workers somebody calls Stop or Shutdown for
          MaxTasks      \* bound: attempts of all workers

ASSUME InstrumentedAssumption == Stoppable \subseteq WorkerId /\ MaxTasks \in Nat

VARIABLES
    goroutine,        \* worker -> run: "off", "idle", "busy" or "gone"
    running,          \* workers whose flag is set
    signalled,        \* workers whose shutdownChan is closed
    cancelled,        \* the context all were started with is done
    processed, failed,             \* worker -> its own counters
    sync,             \* worker -> where syncStatsLoop is
    seen,             \* worker -> what it read from Stats
    batch,            \* worker -> what it has recorded of that so far
    lastProcessed, lastFailed,     \* worker -> what it had read the time before
    syncStopped,      \* workers whose stopStatsSyncChan is closed
    stop,             \* worker -> how far its Stop or Shutdown is
    timedOut,         \* workers whose Shutdown gave up waiting
    tasksProcessed, tasksInProgress,   \* of the metrics
    workerStats       \* worker -> its entry in the metrics, or NoStats

runVars == <<goroutine, running, signalled>>
countVars == <<processed, failed>>
syncVars == <<sync, seen, batch, lastProcessed, lastFailed>>
stopVars == <<syncStopped, stop, timedOut>>
taskVars == <<tasksProcessed, tasksInProgress>>
vars == <<metricsVars, runVars, cancelled, countVars, syncVars, stopVars, taskVars, workerStats>>

Zero == [ok |-> 0, bad |-> 0]
NoStats == [ok |-> -1, bad |-> -1]
Tracked == {w \in WorkerId : workerStats[w] # NoStats}

Init ==
    /\ MetricsInit
    /\ goroutine = [w \in WorkerId |-> "off"] /\ running = {} /\ signalled = {}
    /\ cancelled = FALSE
    /\ processed = [w \in WorkerId |-> 0] /\ failed = [w \in WorkerId |-> 0]
    /\ sync = [w \in WorkerId |-> "off"]
    /\ seen = [w \in WorkerId |-> Zero] /\ batch = [w \in WorkerId |-> Zero]
    /\ lastProcessed = [w \in WorkerId |-> 0] /\ lastFailed = [w \in WorkerId |-> 0]
    /\ syncStopped = {} /\ stop = [w \in WorkerId |-> "no"] /\ timedOut = {}
    /\ tasksProcessed = 0 /\ tasksInProgress = 0
    /\ workerStats = [w \in WorkerId |-> NoStats]

-----------------------------------------------------------------------------
(* The worker.                                                             *)

(* Start: register, start the loop that copies, start the worker.          *)
Start(w) ==
    /\ goroutine[w] = "off"
    /\ RegisterWorker(w)
    /\ workerStats' = [workerStats EXCEPT ![w] = Zero]
    /\ sync' = [sync EXCEPT ![w] = "wait"]
    /\ running' = running \cup {w}
    /\ goroutine' = [goroutine EXCEPT ![w] = "idle"]
    /\ UNCHANGED <<signalled, cancelled, countVars, seen, batch, lastProcessed, lastFailed,
                   stopVars, taskVars>>

(* The attempts made and under way.                                        *)
Attempts ==
    Total(processed) + Total(failed) + Cardinality({w \in WorkerId : goroutine[w] = "busy"})

TakeTask(w) ==
    /\ goroutine[w] = "idle" /\ Attempts < MaxTasks
    /\ goroutine' = [goroutine EXCEPT ![w] = "busy"]
    /\ UNCHANGED <<metricsVars, running, signalled, cancelled, countVars, syncVars, stopVars,
                   taskVars, workerStats>>

(* A failed attempt counts as a failure even if the task is tried again.   *)
FinishTask(w) ==
    /\ goroutine[w] = "busy"
    /\ goroutine' = [goroutine EXCEPT ![w] = "idle"]
    /\ \/ processed' = [processed EXCEPT ![w] = @ + 1] /\ UNCHANGED failed
       \/ failed' = [failed EXCEPT ![w] = @ + 1] /\ UNCHANGED processed
    /\ UNCHANGED <<metricsVars, running, signalled, cancelled, syncVars, stopVars, taskVars,
                   workerStats>>

(* run returns: its context is cancelled or its channel closed.            *)
Leave(w) ==
    /\ goroutine[w] = "idle" /\ (cancelled \/ w \in signalled)
    /\ goroutine' = [goroutine EXCEPT ![w] = "gone"]
    /\ running' = running \ {w}
    /\ UNCHANGED <<metricsVars, signalled, cancelled, countVars, syncVars, stopVars, taskVars,
                   workerStats>>

Cancel ==
    /\ ~cancelled /\ cancelled' = TRUE
    /\ UNCHANGED <<metricsVars, runVars, countVars, syncVars, stopVars, taskVars, workerStats>>

-----------------------------------------------------------------------------
(* syncStatsLoop.                                                          *)

Sync(w, from, to) ==
    /\ sync[w] = from /\ sync' = [sync EXCEPT ![w] = to]
    /\ UNCHANGED <<runVars, cancelled, countVars, stopVars>>

(* The ticker's case is taken and the counters of the worker are read. It  *)
(* may be taken when the loop has been told to end as well.                *)
SyncTick(w) ==
    /\ Sync(w, "wait", "check")
    /\ seen' = [seen EXCEPT ![w] = [ok |-> processed[w], bad |-> failed[w]]]
    /\ UNCHANGED <<metricsVars, batch, lastProcessed, lastFailed, taskVars, workerStats>>

New(w) == [ok |-> seen[w].ok - lastProcessed[w], bad |-> seen[w].bad - lastFailed[w]]

(* The round is over and its variables with it.                            *)
Forget(w) == seen' = [seen EXCEPT ![w] = Zero]

(* A slip: a round with failures only is passed over.                      *)
SyncCheck_SuccessesOnly(w) ==
    /\ \/ w \in running /\ New(w).ok > 0 /\ Sync(w, "check", "count") /\ UNCHANGED seen
       \/ ~(w \in running /\ New(w).ok > 0) /\ Sync(w, "check", "wait") /\ Forget(w)
    /\ UNCHANGED <<metricsVars, batch, lastProcessed, lastFailed, taskVars, workerStats>>

(* Nothing is copied for a worker that does not run any more.              *)
SyncCheck(w) ==
    /\ \/ w \in running /\ New(w) # Zero /\ Sync(w, "check", "count") /\ UNCHANGED seen
       \/ ~(w \in running /\ New(w) # Zero) /\ Sync(w, "check", "wait") /\ Forget(w)
    /\ UNCHANGED <<metricsVars, batch, lastProcessed, lastFailed, taskVars, workerStats>>

(* A slip: what this worker has done is stored and not added.              *)
RecordTaskCompleted_Stores(w) ==
    /\ batch[w].ok < New(w).ok
    /\ Sync(w, "count", "credit")
    /\ tasksProcessed' = lastProcessed[w] + batch[w].ok + 1
    /\ tasksInProgress' = tasksInProgress - 1
    /\ UNCHANGED <<metricsVars, seen, batch, lastProcessed, lastFailed, workerStats>>

(* RecordTaskCompleted, for each new success.                              *)
RecordTaskCompleted(w) ==
    /\ batch[w].ok < New(w).ok
    /\ Sync(w, "count", "credit")
    /\ tasksProcessed' = tasksProcessed + 1
    /\ tasksInProgress' = tasksInProgress - 1
    /\ UNCHANGED <<metricsVars, seen, batch, lastProcessed, lastFailed, workerStats>>

(* RecordWorkerTaskCompleted: nothing for a worker that has no entry.      *)
Credit(w, outcome) ==
    /\ batch' = [batch EXCEPT ![w][outcome] = @ + 1]
    /\ workerStats' = IF w \in Tracked THEN [workerStats EXCEPT ![w][outcome] = @ + 1]
                      ELSE workerStats
    /\ UNCHANGED <<metricsVars, seen, lastProcessed, lastFailed, taskVars>>

CreditSuccess(w) == Sync(w, "credit", "count") /\ Credit(w, "ok")

CreditFailure(w) ==
    /\ batch[w].ok = New(w).ok /\ batch[w].bad < New(w).bad
    /\ Sync(w, "count", "count")
    /\ Credit(w, "bad")

(* A slip: the counters are read again when the batch is done.             *)
SyncDone_ReadsAgain(w) ==
    /\ batch[w] = New(w)
    /\ Sync(w, "count", "wait")
    /\ lastProcessed' = [lastProcessed EXCEPT ![w] = processed[w]]
    /\ lastFailed' = [lastFailed EXCEPT ![w] = failed[w]]
    /\ batch' = [batch EXCEPT ![w] = Zero] /\ Forget(w)
    /\ MarkWorkerIdle(w)
    /\ UNCHANGED <<taskVars, workerStats>>

(* What was read is remembered and the worker marked idle.                 *)
SyncDone(w) ==
    /\ batch[w] = New(w)
    /\ Sync(w, "count", "wait")
    /\ lastProcessed' = [lastProcessed EXCEPT ![w] = seen[w].ok]
    /\ lastFailed' = [lastFailed EXCEPT ![w] = seen[w].bad]
    /\ batch' = [batch EXCEPT ![w] = Zero] /\ Forget(w)
    /\ MarkWorkerIdle(w)
    /\ UNCHANGED <<taskVars, workerStats>>

(* A slip: the loop only listens to its context.                           *)
SyncExit_ContextOnly(w) ==
    /\ cancelled
    /\ Sync(w, "wait", "ended")
    /\ UNCHANGED <<metricsVars, seen, batch, lastProcessed, lastFailed, taskVars, workerStats>>

SyncExit(w) ==
    /\ cancelled \/ w \in syncStopped
    /\ Sync(w, "wait", "ended")
    /\ UNCHANGED <<metricsVars, seen, batch, lastProcessed, lastFailed, taskVars, workerStats>>

-----------------------------------------------------------------------------
(* Stop and Shutdown of an instrumented worker, which is started.          *)

StopStep(w, from, to) ==
    /\ stop[w] = from /\ stop' = [stop EXCEPT ![w] = to]
    /\ UNCHANGED <<goroutine, cancelled, countVars, syncVars, taskVars>>

(* Either one closes stopStatsSyncChan first.                              *)
StopSync(w) ==
    /\ goroutine[w] # "off" /\ w \in Stoppable
    /\ StopStep(w, "no", "halt")
    /\ syncStopped' = syncStopped \cup {w}
    /\ UNCHANGED <<metricsVars, running, signalled, timedOut, workerStats>>

(* A slip: the error is handled by taking the worker out, which happens    *)
(* afterwards once more.                                                   *)
Halt_Unregisters(w) ==
    /\ \/ /\ w \in running /\ StopStep(w, "halt", "await")
          /\ running' = running \ {w} /\ signalled' = signalled \cup {w}
          /\ UNCHANGED metricsVars
       \/ /\ w \notin running /\ StopStep(w, "halt", "unregister")
          /\ UnregisterWorker(w)
          /\ UNCHANGED <<running, signalled>>
    /\ UNCHANGED <<syncStopped, timedOut, workerStats>>

(* A worker that does not run is an error and not waited for.              *)
Halt(w) ==
    /\ \/ /\ w \in running /\ StopStep(w, "halt", "await")
          /\ running' = running \ {w} /\ signalled' = signalled \cup {w}
       \/ /\ w \notin running /\ StopStep(w, "halt", "unregister")
          /\ UNCHANGED <<running, signalled>>
    /\ UNCHANGED <<metricsVars, syncStopped, timedOut, workerStats>>

(* A slip: the channel is closed and nobody waits.                         *)
Awaited_AtOnce(w) ==
    /\ StopStep(w, "await", "unregister")
    /\ UNCHANGED <<metricsVars, running, signalled, syncStopped, timedOut, workerStats>>

Awaited(w) ==
    /\ goroutine[w] = "gone"
    /\ StopStep(w, "await", "unregister")
    /\ UNCHANGED <<metricsVars, running, signalled, syncStopped, timedOut, workerStats>>

(* Shutdown only: its context is done first.                               *)
TimesOut(w) ==
    /\ StopStep(w, "await", "unregister")
    /\ timedOut' = timedOut \cup {w}
    /\ UNCHANGED <<metricsVars, running, signalled, syncStopped, workerStats>>

(* Whatever the worker answered, it is taken out of the metrics.           *)
Unregister(w) ==
    /\ StopStep(w, "unregister", "done")
    /\ UnregisterWorker(w)
    /\ workerStats' = [workerStats EXCEPT ![w] = NoStats]
    /\ UNCHANGED <<running, signalled, syncStopped, timedOut>>

-----------------------------------------------------------------------------
Record(w) == RecordTaskCompleted(w) \/ CreditSuccess(w) \/ CreditFailure(w) \/ SyncDone(w)
SyncStep(w) == SyncTick(w) \/ SyncCheck(w) \/ Record(w)
Stopping(w) == Halt(w) \/ Awaited(w) \/ Unregister(w)

Next ==
    \/ Cancel
    \/ \E w \in WorkerId :
          \/ Start(w) \/ TakeTask(w) \/ FinishTask(w) \/ Leave(w)
          \/ SyncStep(w) \/ SyncExit(w)
          \/ StopSync(w) \/ Stopping(w) \/ TimesOut(w)

Spec == Init /\ [][Next]_vars

(* Handlers return; tickers fire; Stop goes on. Neither loop chooses its   *)
(* ticker forever when it has been told to end.                            *)
FairSpec ==
    /\ Spec
    /\ \A w \in WorkerId :
          /\ WF_vars(FinishTask(w)) /\ SF_vars(Leave(w))
          /\ WF_vars(SyncStep(w)) /\ SF_vars(SyncExit(w))
          /\ WF_vars(Stopping(w))

-----------------------------------------------------------------------------
(* Properties.                                                             *)

Counts == [ok : Nat, bad : Nat]

(* Every variable has its type. The idle count is a number of workers; the *)
(* busy one and the tasks in progress may be negative.                     *)
TypeOK ==
    /\ activeWorkers \in Nat /\ idleWorkers \in Nat /\ busyWorkers \in Int
    /\ idleFor \in [WorkerId -> {NotIdle, 0}] /\ queueDepth = 0
    /\ goroutine \in [WorkerId -> {"off", "idle", "busy", "gone"}]
    /\ running \subseteq WorkerId /\ signalled \subseteq WorkerId /\ cancelled \in BOOLEAN
    /\ processed \in [WorkerId -> Nat] /\ failed \in [WorkerId -> Nat]
    /\ sync \in [WorkerId -> {"off", "wait", "check", "count", "credit", "ended"}]
    /\ seen \in [WorkerId -> Counts] /\ batch \in [WorkerId -> Counts]
    /\ lastProcessed \in [WorkerId -> Nat] /\ lastFailed \in [WorkerId -> Nat]
    /\ syncStopped \subseteq WorkerId /\ timedOut \subseteq WorkerId
    /\ stop \in [WorkerId -> {"no", "halt", "await", "unregister", "done"}]
    /\ tasksProcessed \in Nat /\ tasksInProgress \in Int
    /\ workerStats \in [WorkerId -> Counts \cup {NoStats}]

(* Successes of a worker the metrics have counted.                         *)
Counted(w) ==
    lastProcessed[w] + batch[w].ok + (IF sync[w] = "credit" THEN 1 ELSE 0)

(* The total is what the loops have counted, task by task: rounds of       *)
(* several workers do not lose each other's increments, and a Stop in the  *)
(* middle of a round takes nothing back.                                   *)
CountedOnce == tasksProcessed = Total([w \in WorkerId |-> Counted(w)])

(* A finished task is copied at most once, however the reads of the        *)
(* counters, tasks that finish during a batch, and Stop interleave; and    *)
(* what the metrics say of a worker they still know is what its loop has   *)
(* copied of each outcome.                                                 *)
CopiedOnce ==
    \A w \in WorkerId :
        /\ Counted(w) <= processed[w]
        /\ lastFailed[w] + batch[w].bad <= failed[w]
        /\ w \in Tracked =>
              workerStats[w] = [ok  |-> lastProcessed[w] + batch[w].ok,
                                bad |-> lastFailed[w] + batch[w].bad]

(* Idle workers the metrics have and do not know.                          *)
Ghosts == Registered \ Tracked

(* The three counts of workers stay consistent with the entries behind     *)
(* them. The only error the copying can bring in is a worker that its loop *)
(* marks idle after Stop took it out: it is idle for ever, and the busy    *)
(* count pays for it.                                                      *)
GhostsOnly ==
    /\ activeWorkers = Cardinality(Tracked)
    /\ Tracked \subseteq Registered
    /\ idleWorkers = activeWorkers + Cardinality(Ghosts)
    /\ busyWorkers = -Cardinality(Ghosts)
    /\ \A w \in Ghosts : stop[w] = "done"

(* When Stop has taken a worker out of the metrics, its goroutine is gone, *)
(* unless Shutdown ran out of time.                                        *)
StopWaits ==
    \A w \in WorkerId : stop[w] = "done" => goroutine[w] = "gone" \/ w \in timedOut

(* As long as a worker runs its counters reach the metrics in the end.     *)
CatchesUp ==
    \A w \in WorkerId :
        <>[](w \in running /\ ~cancelled /\ stop[w] = "no") =>
            <>[](lastProcessed[w] = processed[w] /\ lastFailed[w] = failed[w])

(* Stop and Shutdown come to an end, and with them both goroutines of the  *)
(* worker, one that Shutdown gave up on included.                          *)
StopEnds ==
    \A w \in WorkerId :
        stop[w] # "no" ~> stop[w] = "done" /\ sync[w] = "ended" /\ goroutine[w] = "gone"
=============================================================================
