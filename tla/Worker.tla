------------------------------- MODULE Worker -------------------------------
(***************************************************************************)
(* internal/worker/worker.go: the loop of one worker goroutine, from the   *)
(* tick that polls the queue to the acknowledgement, the retry or the dead *)
(* letter queue. Actions are named after the functions they stand for.     *)
(***************************************************************************)
EXTENDS RedisStorage

CONSTANTS MaxCrashes   \* bound: how often a worker or a request may die

ASSUME CrashAssumption == MaxCrashes \in Nat

VARIABLES
    counters,   \* worker -> tasksProcessed, tasksFailed, tasksRetried
    crashes,    \* clients that died so far
    attempts    \* history: id -> how often it was taken up to start its handler

workerVars == <<counters, crashes, attempts>>

NoCount == [processed |-> 0, failed |-> 0, retried |-> 0]

WorkerInit ==
    /\ counters = [w \in Worker |-> NoCount]
    /\ crashes = 0
    /\ attempts = [id \in TaskId |-> 0]

(* What a queue call of a worker leaves alone.                             *)
QueueOnly == UNCHANGED <<storeVars, workerVars>>

(* What a step of a worker outside the queue leaves alone.                 *)
QueueUntouched == UNCHANGED <<redisVars, ctxDone, fresh, got, scan, purgeVars>>

(* The ticker fires in run and pollAndExecute calls Dequeue. Go's select   *)
(* takes any ready case, so this happens after a cancellation as well.     *)
Poll(w) == pc[w] = "idle" /\ DequeueCall(w) /\ QueueOnly

(* A slip in run: the select has no case for the context.                  *)
Exit_Deaf(w) == FALSE /\ UNCHANGED <<queueVars, storeVars, workerVars>>

(* run returns when it sees the context cancelled.                         *)
Exit(w) ==
    /\ pc[w] = "idle"
    /\ w \in ctxDone
    /\ Goto(w, "stopped")
    /\ UNCHANGED <<faults, cur, arrived>>
    /\ QueueUntouched
    /\ QueueOnly

DequeueStep(w) == (DequeueLPop(w) \/ DequeueGet(w) \/ DequeueRequeue(w)) /\ QueueOnly

(* pollAndExecute got a task: MarkStarted, SaveTask, start the handler.    *)
Start(w) ==
    /\ pc[w] = "start"
    /\ cur' = [cur EXCEPT ![w] = MarkStarted(@)]
    /\ SaveTask(w, MarkStarted(cur[w]))
    /\ Goto(w, "exec")
    /\ attempts' = [attempts EXCEPT ![cur[w].id] = @ + 1]
    /\ arrived' = [arrived EXCEPT ![w] = {}]
    /\ QueueUntouched
    /\ UNCHANGED <<index, result, counters, crashes>>

(* What comes after a SaveTask: the handler, Ack, the sleep, EnqueueDLQ.   *)
AfterSave == {"exec", "ack", "backoff", "dlq"}

(* SaveTask, begun by Start, SaveCompleted or HandleTaskFailure, returns;  *)
(* whether it failed makes no difference to the worker.                    *)
EndSaveTask(w) ==
    /\ pc[w] \in AfterSave
    /\ SaveTaskIndex(w)
    /\ UNCHANGED <<pc, cur, arrived, workerVars>>
    /\ QueueUntouched

(* executeTask when the handler and the encoding of its output succeed.    *)
ExecuteSuccess(w) ==
    /\ pc[w] = "exec" /\ Saved(w)
    /\ SaveResult(w, cur[w].id, "success")
    /\ cur' = [cur EXCEPT ![w] = MarkCompleted(@)]
    /\ counters' = [counters EXCEPT ![w].processed = @ + 1]
    /\ Goto(w, "completed")
    /\ QueueUntouched
    /\ UNCHANGED <<store, index, indexing, crashes, attempts, arrived>>

(* A slip in executeTask: the error of Execute is not returned.            *)
ExecuteFailure_Swallowed(w) ==
    /\ pc[w] = "exec" /\ Saved(w)
    /\ SaveResult(w, cur[w].id, "failure")
    /\ counters' = [counters EXCEPT ![w].processed = @ + 1]
    /\ Goto(w, "completed")
    /\ QueueUntouched
    /\ UNCHANGED <<cur, store, index, indexing, crashes, attempts, arrived>>

(* executeTask when Execute returns an error: the handler's, whether or not*)
(* the deadline has passed ("failure"), or that of a type without a handler*)
(* which has no result ("none").                                           *)
ExecuteFailure(w) ==
    /\ pc[w] = "exec" /\ Saved(w)
    /\ \E r \in {"failure", "none"} : SaveResult(w, cur[w].id, r)
    /\ counters' = [counters EXCEPT ![w].failed = @ + 1]
    /\ Goto(w, "failed")
    /\ QueueUntouched
    /\ UNCHANGED <<cur, store, index, indexing, crashes, attempts, arrived>>

(* pollAndExecute after a success: MarkCompleted, SaveTask, then Ack.      *)
SaveCompleted(w) ==
    /\ pc[w] = "completed"
    /\ cur' = [cur EXCEPT ![w] = MarkCompleted(@)]
    /\ SaveTask(w, MarkCompleted(cur[w]))
    /\ Goto(w, "ack")
    /\ QueueUntouched
    /\ UNCHANGED <<index, result, workerVars, arrived>>

(* Two slips in handleTaskFailure: every failure is counted as a retry, and*)
(* every failure is retried.                                               *)
RetryOrBury_CountsAll(w, t) ==
    /\ counters' = [counters EXCEPT ![w].retried = @ + 1]
    /\ Goto(w, IF t.state = "retrying" THEN "backoff" ELSE "dlq")

RetryOrBury_AlwaysRetries(w, t) ==
    /\ counters' = [counters EXCEPT ![w].retried = @ + 1]
    /\ Goto(w, "backoff")

(* MarkFailed has decided: count the retry and sleep, or go to the DLQ.    *)
RetryOrBury(w, t) ==
    \/ /\ t.state = "retrying"
       /\ counters' = [counters EXCEPT ![w].retried = @ + 1]
       /\ Goto(w, "backoff")
    \/ t.state # "retrying" /\ UNCHANGED counters /\ Goto(w, "dlq")

(* handleTaskFailure up to the sleep or the move to the DLQ.               *)
HandleTaskFailure(w) ==
    /\ pc[w] = "failed"
    /\ cur' = [cur EXCEPT ![w] = MarkFailed(@)]
    /\ SaveTask(w, MarkFailed(cur[w]))
    /\ RetryOrBury(w, MarkFailed(cur[w]))
    /\ QueueUntouched
    /\ UNCHANGED <<index, result, crashes, attempts, arrived>>

(* A slip in the retry: only the id is pushed, as Nack with requeue does,  *)
(* and the stored task keeps its old retry count.                          *)
Retry_KeepsOldData(w) ==
    pc[w] = "backoff" /\ Saved(w) /\ EnqueueCall_NoData(w, cur[w]) /\ QueueOnly

(* The retry delay is over: the worker that slept enqueues the task.       *)
Retry(w) == pc[w] = "backoff" /\ Saved(w) /\ EnqueueCall(w, cur[w]) /\ QueueOnly

EnqueueStep(w) ==
    /\ EnqueueSet(w) \/ EnqueuePush(w) \/ EnqueueUnset(w) \/ EnqueueCount(w)
    /\ QueueOnly

MoveToDLQ(w) == Saved(w) /\ (EnqueueDLQ(w) \/ EnqueueDLQMeta(w) \/ Nack(w)) /\ QueueOnly

AckTask(w) == Saved(w) /\ Ack(w) /\ QueueOnly

(* One worker dies and is started again: what it held in memory is gone,   *)
(* the keys in Redis stay. A process that ends (it is killed, a handler    *)
(* panics and nothing recovers, or main returns) takes all its workers     *)
(* along: that is as many of these steps, one after the other, and each of *)
(* them counts.                                                            *)
Crash(w) ==
    /\ crashes < MaxCrashes
    /\ pc[w] \notin {"idle", "stopped"}
    /\ crashes' = crashes + 1
    /\ Return(w)
    /\ LeaveDequeue(w)
    /\ ctxDone' = ctxDone \ {w}
    /\ counters' = [counters EXCEPT ![w] = NoCount]
    /\ arrived' = [arrived EXCEPT ![w] = {}]
    /\ indexing' = indexing \ {w}
    /\ UNCHANGED <<redisVars, faults, purgeVars, store, index, result, attempts>>

(* One iteration of the loop, apart from the poll that begins it.          *)
Handle(w) ==
    \/ DequeueStep(w) \/ Start(w) \/ ExecuteSuccess(w) \/ ExecuteFailure(w)
    \/ SaveCompleted(w) \/ AckTask(w) \/ HandleTaskFailure(w) \/ EndSaveTask(w)
    \/ Retry(w) \/ EnqueueStep(w) \/ MoveToDLQ(w)
=============================================================================
