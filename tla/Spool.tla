-------------------------------- MODULE Spool --------------------------------
(***************************************************************************)
(* The task path of Spool: HTTP requests put tasks into Redis, workers take*)
(* them out, run them, retry them or give them up; the administrator purges*)
(* the queue, the pool's context is cancelled, clients die. What is checked*)
(* of it, and under which of these disturbances, is in the runs.           *)
(***************************************************************************)
EXTENDS Broker, Counting

CONSTANTS MayCancel,      \* whether the context of the workers is ever cancelled
          MayDisconnect   \* whether HTTP clients ever go away

ASSUME SwitchAssumption == MayCancel \in BOOLEAN /\ MayDisconnect \in BOOLEAN

vars == <<queueVars, storeVars, workerVars, brokerVars>>

Init == QueueInit /\ StorageInit /\ WorkerInit /\ BrokerInit

(* cmd/worker cancels the context all its workers were started with, and   *)
(* goes on to Pool.Shutdown, which waits for none of them: main may return *)
(* at any moment from here on, and the workers still running then Crash.   *)
Cancel ==
    /\ MayCancel
    /\ Worker \cap ctxDone = {}
    /\ ctxDone' = ctxDone \cup Worker
    /\ UNCHANGED <<redisVars, faults, fresh, pc, cur, got, scan, purgeVars, arrived,
                   storeVars, workerVars, brokerVars>>

WorkerStep(w) == (Poll(w) \/ Exit(w) \/ Handle(w) \/ Crash(w)) /\ UNCHANGED brokerVars

RequestStep(p) == Submit(p) \/ BrokerCrash(p)

Next ==
    \/ \E w \in Worker : WorkerStep(w)
    \/ \E p \in Producer : RequestStep(p)
    \/ HandlePurge
    \/ MayDisconnect /\ \E c \in Producer \cup {Admin} : Disconnect(c)
    \/ Cancel

Spec == Init /\ [][Next]_vars

(* The scheduler runs every goroutine, the ticker keeps firing and handlers*)
(* return: a worker inside an iteration goes on with it and an idle one    *)
(* polls again. A select with two ready cases picks one at random, so that *)
(* a worker whose context is cancelled does not choose the ticker forever. *)
(* A process may end at any moment all the same (Crash).                   *)
Fairness ==
    /\ \A w \in Worker : /\ WF_vars((Poll(w) \/ Handle(w)) /\ UNCHANGED brokerVars)
                         /\ SF_vars(Exit(w) /\ UNCHANGED brokerVars)
    /\ \A p \in Producer : WF_vars(Submit(p))

FairSpec == Spec /\ Fairness

-----------------------------------------------------------------------------
(* Vocabulary of the properties.                                           *)

(* The tasks of all requests.                                              *)
Submitted == UNION {Range(Request[p]) : p \in Producer}

(* The attempts a task is allowed: its retries and the first one.          *)
Attempts(t) == 1 + (IF ShouldRetry(t) THEN t.maxRetries - t.retryCount ELSE 0)

SubmittedIds == {t.id : t \in Submitted}

AttemptsOf == [id \in SubmittedIds |-> Attempts(CHOOSE t \in Submitted : t.id = id)]

Listed(id) == \E k \in ListKey : id \in Range(lists[k])

(* The id a client has in its hands: popped and not yet given back, settled*)
(* or pushed again, or about to be pushed for the first time.              *)
HandlesTask == {"start", "exec", "completed", "ack", "failed", "backoff", "set", "push",
                "dlq", "dlqMeta", "nack"}
Held(c) ==
    IF pc[c] \in {"get", "requeue"} THEN got[c]
    ELSE IF pc[c] \in HandlesTask THEN cur[c].id ELSE NoId

HeldBySome(id) == \E c \in Client : Held(c) = id

Recorded(id, s) == store[id] # NoTask /\ store[id].state = s

InDLQ(id) == \E i \in DOMAIN dlq : dlq[i].id = id

Finished(id) == Recorded(id, "completed") \/ InDLQ(id)

(* Nothing brings the task to a worker any more: it is not queued with its *)
(* data, nobody has it in hand, and it is not finished.                    *)
Lost(id) == ~(Listed(id) /\ taskData[id] # NoTask) /\ ~HeldBySome(id) /\ ~Finished(id)

(* No command went wrong, nobody died and no worker was cancelled.         *)
Calm == faults = 0 /\ crashes = 0 /\ Worker \cap ctxDone = {}

AtRest == \A c \in Client : pc[c] \in {"idle", "stopped"}

-----------------------------------------------------------------------------
(* Types.                                                                  *)

QueueTypeOK ==
    /\ lists \in [ListKey -> Seq(TaskId)]
    /\ taskData \in [TaskId -> Task \cup {NoTask}]
    /\ processing \subseteq TaskId
    /\ dlq \in Seq(Task)
    /\ dlqMeta \subseteq TaskId
    /\ stats \in [Counter -> Nat]
    /\ faults \in Nat
    /\ ctxDone \subseteq Client
    /\ fresh \subseteq Client

CallTypeOK ==
    /\ pc \in [Client -> Pc]
    /\ \A p \in Producer : pc[p] \in {"idle", "set", "push", "unset", "count"}
    /\ pc[Admin] \in {"idle", "purgeLists", "purgeData", "purgeProcessing"}
    /\ \A w \in Worker : pc[w] \notin {"purgeLists", "purgeData", "purgeProcessing"}
    /\ cur \in [Client -> Task \cup {NoTask}]
    /\ got \in [Worker -> TaskId \cup {NoId}]
    /\ scan \in [Worker -> Priority]
    /\ purgeLists \subseteq Priority
    /\ purgeData \subseteq TaskId
    /\ purges \in Nat
    /\ arrived \in [Worker -> SUBSET TaskId]

(* A client that is past Dequeue, or inside Enqueue, has a task at hand,   *)
(* and a worker that popped an id knows it.                                *)
FrameOK ==
    /\ \A c \in Client : pc[c] \in HandlesTask \cup {"unset", "count"} => cur[c] \in Task
    /\ \A w \in Worker : pc[w] \in {"get", "requeue"} => got[w] \in TaskId

RecordTypeOK ==
    /\ store \in [TaskId -> Task \cup {NoTask}]
    /\ index \in [State -> SUBSET TaskId]
    /\ result \in [TaskId -> Result]
    /\ indexing \subseteq Worker
    /\ counters \in [Worker -> [processed : Nat, failed : Nat, retried : Nat]]
    /\ crashes \in Nat
    /\ attempts \in [TaskId -> Nat]
    /\ sent \in [Producer -> Nat]
    /\ \A p \in Producer : sent[p] <= Len(Request[p])
    /\ accepted \subseteq TaskId

(* Every variable has its type, and no step of the code dereferences a nil *)
(* task: pollAndExecute, handleTaskFailure and Enqueue have one at hand.   *)
TypeOK == QueueTypeOK /\ CallTypeOK /\ FrameOK /\ RecordTypeOK

-----------------------------------------------------------------------------
(* Custody: where the id of a task may be.                                 *)

(* No id is in two positions of the lists.                                 *)
ListedOnce ==
    \A k, l \in ListKey : \A i \in DOMAIN lists[k], j \in DOMAIN lists[l] :
        lists[k][i] = lists[l][j] => k = l /\ i = j

(* An id in some client's hands is in no list.                             *)
HeldNotListed ==
    \A c \in Client : Held(c) # NoId =>
        \A k \in ListKey : \A i \in DOMAIN lists[k] : lists[k][i] # Held(c)

(* No two clients have the same id in hand: in particular no two workers   *)
(* ever run the same task at the same time.                                *)
Exclusive ==
    \A c, d \in Client : c # d /\ Held(c) # NoId => Held(c) # Held(d)

(* Whatever fails, dies, is cancelled or purged, an id is in at most one   *)
(* place: one position of one list, or the hands of one client. Dequeue's  *)
(* LPOP, the push back after a failed GET, the retry's RPUSH and the purge *)
(* hand it on without ever duplicating it. It takes requests with distinct *)
(* ids and a client library that does not send a command twice.            *)
Custody == ListedOnce /\ HeldNotListed /\ Exclusive

-----------------------------------------------------------------------------
(* Safety under every disturbance but repeated commands.                   *)

(* A handler is started at most 1 + MaxRetries times, whatever goes wrong  *)
(* between the attempts (MarkFailed, handleTaskFailure, Enqueue).          *)
AttemptsBounded == \A t \in Submitted : attempts[t.id] <= Attempts(t)

(* The dead letter queue holds a task once, only after its last attempt,   *)
(* and the id is in no queue any more (handleTaskFailure, EnqueueDLQ).     *)
DeadLetterSound ==
    \A i \in DOMAIN dlq :
        /\ \A t \in Submitted : t.id = dlq[i].id => attempts[t.id] = Attempts(t)
        /\ ~Listed(dlq[i].id)
        /\ \A j \in DOMAIN dlq : dlq[i].id = dlq[j].id => i = j

(* A task recorded as completed or dead never gets another state: no late  *)
(* or second execution overwrites the outcome (SaveTask).                  *)
OutcomeIsFinal ==
    [][\A id \in TaskId : \A s \in {"completed", "dead_letter"} :
        Recorded(id, s) => Recorded(id, s)']_vars

(* A command that goes wrong, or one worker or request that dies, costs at *)
(* most one of the tasks the broker answered for: what is cleaned up after *)
(* a failed push, pushed back, deleted after a lost outcome or popped by a *)
(* worker that dies is never another one's. A process that runs n workers  *)
(* and dies counts n times, and may cost n tasks. A worker that is stopped *)
(* may lose what it has popped without any failure, and a purge deletes    *)
(* what is queued.                                                         *)
LossBounded ==
    Worker \cap ctxDone = {} => Cardinality({id \in accepted : Lost(id)}) <= faults + crashes

-----------------------------------------------------------------------------
(* Safety when nothing goes wrong.                                         *)

(* A task the broker answered for is queued with its data, in somebody's   *)
(* hands, or finished: no interleaving of the commands of two calls drops  *)
(* it (SET before RPUSH in Enqueue, LPOP before GET in Dequeue).           *)
NoLostTask == \A id \in accepted : ~Lost(id)

(* When Dequeue hands out a task, every task that is queued at a higher    *)
(* priority was pushed while Dequeue was already running.                  *)
PriorityRespected ==
    \A w \in Worker : pc[w] = "start" =>
        \A k \in Priority : k > cur[w].priority =>
            \A id \in Range(lists[k]) : taskData[id] # NoTask => id \in arrived[w]

(* A task recorded as completed has the result of a success, and a dead one*)
(* never has: SaveResult and SaveTask are separate writes, and the results *)
(* of earlier attempts are overwritten.                                    *)
ResultMatchesState ==
    \A id \in TaskId :
        /\ Recorded(id, "completed") => result[id] = "success"
        /\ Recorded(id, "dead_letter") => result[id] # "success"

Sum(field) == Total([w \in Worker |-> counters[w][field]])

Size == Total([k \in Priority |-> Len(lists[k])])

(* When everyone is idle the counters of the queue and of the workers agree*)
(* with each other and with what is queued (Ack, Nack, EnqueueDLQ, Enqueue *)
(* against Stats and Size).                                                *)
Accounting ==
    AtRest =>
        /\ stats["total"] = stats["completed"] + stats["failed"] + Sum("retried") + Size
        /\ stats["completed"] = Sum("processed")
        /\ Sum("failed") = stats["failed"] + Sum("retried")
        /\ stats["dlq"] = stats["failed"] /\ Len(dlq) = stats["dlq"]

(* The life of each task as its queue entries and records show it.         *)
Unsent(id) ==
    \E p \in Producer :
        \/ \E i \in DOMAIN Request[p] : i > sent[p] /\ Request[p][i].id = id
        \/ pc[p] \in {"set", "push"} /\ cur[p].id = id

StatusOf(id) ==
    IF Recorded(id, "completed") THEN "completed"
    ELSE IF InDLQ(id) THEN "dead_letter"
    ELSE IF Unsent(id) THEN "new"
    ELSE IF \E w \in Worker : pc[w] \in HandlesTask \ {"start"} /\ cur[w].id = id
         THEN "running"
    ELSE "queued"

Lifecycle == INSTANCE TaskLifecycle WITH
    TaskId <- SubmittedIds,
    Budget <- AttemptsOf,
    status <- [id \in SubmittedIds |-> StatusOf(id)],
    tries <- [id \in SubmittedIds |-> attempts[id]]

(* The queue, the workers and the records together do to each task only    *)
(* what the life cycle allows, in that order.                              *)
ImplementsLifecycle == Lifecycle!Spec

(* Every task the broker answered for is executed until it completes or    *)
(* ends in the dead letter queue, and its data is then removed from the    *)
(* queue: there comes a time when this is so of all of them.               *)
EventuallyFinished ==
    accepted # {} ~> \A id \in accepted : Finished(id) /\ taskData[id] = NoTask

-----------------------------------------------------------------------------
(* Cancellation and crashes.                                               *)

(* As long as no command has failed, neither a crash nor the cancellation  *)
(* of a context deletes the data of a task that is not finished: Ack and   *)
(* Nack delete it only after the outcome was recorded, and the cleanup in  *)
(* Enqueue is refused together with the push. The id may be in no list any *)
(* more; the task can still be recovered by hand.                          *)
DataKept == faults = 0 => \A id \in accepted : taskData[id] # NoTask \/ Finished(id)

(* A worker whose context is cancelled stops, unless its process dies and  *)
(* is started again first.                                                 *)
ShutdownCompletes ==
    \A w \in Worker : w \in ctxDone ~> (pc[w] = "stopped" \/ w \notin ctxDone)

(* As long as Redis answers, a worker that sleeps off a retry delay when   *)
(* its context is cancelled still puts the task back into its list, because*)
(* Enqueue then works with a context of its own, unless its process ends   *)
(* before: cmd/worker returns as soon as Pool.Shutdown does, and that does *)
(* not wait for the worker.                                                *)
BackoffSurvivesShutdown ==
    \A w \in Worker, id \in TaskId :
        pc[w] = "backoff" /\ w \in ctxDone /\ cur[w].id = id
            ~> Listed(id) \/ w \notin ctxDone

-----------------------------------------------------------------------------
(* Purge.                                                                  *)

(* As long as no command has failed and no client has gone away, task data *)
(* in Redis belongs to an id that is queued or in somebody's hands, or the *)
(* running Purge is going to delete it: because Purge deletes the lists and*)
(* scans for data only then, it leaves none that nobody would ever read.   *)
NoOrphanData ==
    faults = 0 /\ ctxDone = {} =>
        \A id \in TaskId : taskData[id] # NoTask =>
            \/ Listed(id) \/ HeldBySome(id)
            \/ pc[Admin] = "purgeLists"
            \/ pc[Admin] = "purgeData" /\ id \in purgeData

-----------------------------------------------------------------------------
(* What the documentation says and the code does not keep.                 *)

(* docs/reliability.md: "No data loss if Redis recovers": a task the broker*)
(* answered for keeps its data until it is finished, also when a command   *)
(* fails on the way (Enqueue's cleanup on the retry path, Nack after an    *)
(* EnqueueDLQ that failed).                                                *)
OutageLosesNothing ==
    \A id \in accepted : taskData[id] # NoTask \/ Finished(id) \/ result[id] = "success"

(* docs/reliability.md: "In-flight tasks either complete or return to      *)
(* queue" when the pool is shut down: once the workers have stopped, every *)
(* task is finished or queued with its data.                               *)
InFlightCompletesOrReturns ==
    (\A c \in Client : pc[c] = IF c \in Worker THEN "stopped" ELSE "idle") =>
        \A id \in accepted : Finished(id) \/ (Listed(id) /\ taskData[id] # NoTask)

(* A query by state finds every task that is in that state, through all the*)
(* states a retried task goes back and forth between. Three things make it *)
(* miss one: a command failed, somebody died or was cancelled before; its  *)
(* worker is between the SET and the SADD of SaveTask; or the query has a  *)
(* limit and the set has more ids. SaveTask never takes an id out of the   *)
(* set of the previous state, so that with time it is ids whose tasks have *)
(* gone on that crowd out the others.                                      *)
QueryFindsAll ==
    Calm => \A id \in TaskId : store[id] # NoTask =>
        LET s == store[id].state IN
        \/ \E w \in indexing : cur[w].id = id
        \/ \A limit \in QueryLimit :
              \/ limit > 0 /\ Cardinality(index[s]) > limit
              \/ \A tasks \in GetTasksByState(s, limit) : store[id] \in tasks
=============================================================================
