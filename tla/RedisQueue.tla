----------------------------- MODULE RedisQueue -----------------------------
(***************************************************************************)
(* internal/queue/redis.go: the Redis-backed priority queue, one step per  *)
(* Redis command or per run of commands whose results the code ignores and *)
(* whose keys no other client reads.                                       *)
(*                                                                         *)
(* Redis executes commands one at a time, so a command is atomic; a method *)
(* of RedisQueue is a sequence of them and is not. Each client (a worker,  *)
(* an HTTP request, the administrator's purge) has the frame of the call it*)
(* is in: pc, the task at hand, the id just popped, the level being tried. *)
(***************************************************************************)
EXTENDS Task, Sequences, Functions

CONSTANTS Worker,      \* goroutines that run Worker.run
          Producer,    \* HTTP requests that submit tasks
          Admin,       \* the HTTP request that purges the queue
          FaultKinds,  \* how a Redis command may go wrong
          MaxFaults    \* bound: how often one may go wrong

(* What a command that goes wrong has done. "error": nothing. "lost": it   *)
(* was executed and the reply did not arrive, so the caller sees an error. *)
(* "twice": the reply to the first execution was lost and the client       *)
(* library sent the command again (NewRedisQueue sets MaxRetries to 3).    *)
FaultKind == {"error", "lost", "twice"}

ASSUME ClientAssumption == /\ Worker \cap Producer = {}
                           /\ Admin \notin Worker \cup Producer
ASSUME FaultAssumption == FaultKinds \subseteq FaultKind /\ MaxFaults \in Nat

Client == Worker \cup Producer \cup {Admin}

(* queueKeys maps the four priorities to their lists. Looking up any other *)
(* priority gives "", the key of a list that no method of the queue reads. *)
Unkeyed == -1
ListKey == Priority \cup {Unkeyed}

(* A slip in NewRedisQueue: no entry for the high priority.                *)
queueKeys_NoHigh(priority) ==
    IF priority \in Priority \ {PriorityHigh} THEN priority ELSE Unkeyed

queueKeys(priority) == IF priority \in Priority THEN priority ELSE Unkeyed

VARIABLES
    lists,       \* spool:queue:*       list key -> ids, head first
    taskData,    \* spool:task:<id>     id -> the task, or NoTask
    processing,  \* spool:processing:*  ids that have the key
    dlq,         \* spool:dlq:tasks     the dead letter list
    dlqMeta,     \* spool:dlq:meta:*    ids that have the key
    stats,       \* spool:stats:*       the counters
    faults,      \* commands that went wrong so far
    ctxDone,     \* clients whose context is cancelled
    fresh,       \* clients whose current queue call made a context of its own
    pc,          \* where each client is
    cur,         \* client -> the task it handles, or NoTask
    got,         \* worker -> the id LPOP returned, or NoId
    scan,        \* worker -> the priority Dequeue is trying
    purgeLists,  \* lists the running Purge has still to delete
    purgeData,   \* keys the running Purge has still to delete
    purges,      \* purges started so far
    arrived      \* history: ids pushed since the worker's Dequeue began

redisVars == <<lists, taskData, processing, dlq, dlqMeta, stats>>
purgeVars == <<purgeLists, purgeData, purges>>
queueVars == <<redisVars, faults, ctxDone, fresh, pc, cur, got, scan, purgeVars, arrived>>

Pc == {"idle", "stopped",                                  \* Worker.run
       "lpop", "get", "requeue",                           \* Dequeue
       "start", "exec", "completed", "ack",                \* pollAndExecute
       "failed", "backoff", "dlq", "dlqMeta", "nack",      \* handleTaskFailure
       "set", "push", "unset", "count",                    \* Enqueue
       "purgeLists", "purgeData", "purgeProcessing"}       \* Purge

Counter == {"total", "completed", "failed", "dlq"}

QueueInit ==
    /\ lists = [k \in ListKey |-> <<>>]
    /\ taskData = [id \in TaskId |-> NoTask]
    /\ processing = {}
    /\ dlq = <<>>
    /\ dlqMeta = {}
    /\ stats = [s \in Counter |-> 0]
    /\ faults = 0
    /\ ctxDone = {}
    /\ fresh = {}
    /\ pc = [c \in Client |-> "idle"]
    /\ cur = [c \in Client |-> NoTask]
    /\ got = [w \in Worker |-> NoId]
    /\ scan = [w \in Worker |-> PriorityCritical]
    /\ purgeLists = {}
    /\ purgeData = {}
    /\ purges = 0
    /\ arrived = [w \in Worker |-> {}]

-----------------------------------------------------------------------------
(* Redis commands.                                                         *)

(* go-redis refuses to send a command whose context is cancelled.          *)
Refused(c) == c \in ctxDone \ fresh

Executed(o) == o # "error"            \* the server ran the command
Answered(o) == o \in {"ok", "twice"}  \* the caller sees no error

(* Client c issues one command and o is its outcome.                       *)
Command(c, o) ==
    \/ Refused(c) /\ o = "error" /\ UNCHANGED faults
    \/ ~Refused(c) /\ o = "ok" /\ UNCHANGED faults
    \/ ~Refused(c) /\ o \in FaultKinds /\ faults < MaxFaults /\ faults' = faults + 1

Outcome == {"ok"} \cup FaultKind

(* Client c issues the commands named in all, whose errors it ignores or   *)
(* which have no effect on the server; done are the ones that were run.    *)
Commands(c, all, done) ==
    \/ Refused(c) /\ done = {} /\ UNCHANGED faults
    \/ ~Refused(c) /\ done = all /\ UNCHANGED faults
    \/ /\ ~Refused(c) /\ done # all
       /\ "error" \in FaultKinds /\ faults < MaxFaults /\ faults' = faults + 1

DropFirst(l) == IF l = <<>> THEN l ELSE Tail(l)

(* A slip in Dequeue: the id is read as Peek does, with LINDEX.            *)
Popped_Peeks(l, o) == l

(* LPOP: the list it leaves behind and the id it answers with.             *)
Popped(l, o) ==
    IF ~Executed(o) THEN l
    ELSE IF o = "twice" THEN DropFirst(DropFirst(l)) ELSE DropFirst(l)
PopReply(l, o) ==
    LET m == IF o = "twice" THEN DropFirst(l) ELSE l
    IN  IF m = <<>> THEN NoId ELSE Head(m)

(* RPUSH and LPUSH.                                                        *)
RPushed(l, x, o) ==
    IF ~Executed(o) THEN l
    ELSE IF o = "twice" THEN Append(Append(l, x), x) ELSE Append(l, x)
LPushed(l, x, o) ==
    IF ~Executed(o) THEN l
    ELSE IF o = "twice" THEN <<x, x>> \o l ELSE <<x>> \o l

(* An id pushed while a worker is inside Dequeue (bookkeeping only).       *)
NoteArrival(id, o) ==
    arrived' = IF ~Executed(o) THEN arrived
               ELSE [w \in Worker |-> IF pc[w] \in {"lpop", "get", "start"}
                                      THEN arrived[w] \cup {id} ELSE arrived[w]]

-----------------------------------------------------------------------------
(* Calls and returns.                                                      *)

(* A slip in Enqueue and Dequeue: the cancelled context is used.           *)
OwnContext_Never(c) == fresh' = fresh \ {c}

(* Enqueue and Dequeue make a context of their own when the one they are   *)
(* given is already cancelled; the other methods do not.                   *)
OwnContext(c) == fresh' = IF c \in ctxDone THEN fresh \cup {c} ELSE fresh \ {c}

(* The queue call of c returns and c is done with its task.                *)
Return(c) ==
    /\ pc' = [pc EXCEPT ![c] = "idle"]
    /\ cur' = [cur EXCEPT ![c] = NoTask]
    /\ fresh' = fresh \ {c}

(* A slip in Dequeue: the list of priorities begins with the normal one.   *)
LeaveDequeue_FromNormal(w) ==
    /\ got' = [got EXCEPT ![w] = NoId]
    /\ scan' = [scan EXCEPT ![w] = PriorityNormal]

(* Dequeue forgets its local variables; the next one begins at the top.    *)
LeaveDequeue(w) ==
    /\ got' = [got EXCEPT ![w] = NoId]
    /\ scan' = [scan EXCEPT ![w] = PriorityCritical]

Goto(c, label) == pc' = [pc EXCEPT ![c] = label]

-----------------------------------------------------------------------------
(* Enqueue.                                                                *)

(* A slip in Enqueue: the id is pushed and the task is not stored.         *)
EnqueueCall_NoData(c, t) ==
    /\ Goto(c, "push")
    /\ cur' = [cur EXCEPT ![c] = t]
    /\ OwnContext(c)
    /\ UNCHANGED <<redisVars, faults, ctxDone, got, scan, purgeVars, arrived>>

EnqueueCall(c, t) ==
    /\ Goto(c, "set")
    /\ cur' = [cur EXCEPT ![c] = t]
    /\ OwnContext(c)
    /\ UNCHANGED <<redisVars, faults, ctxDone, got, scan, purgeVars, arrived>>

EnqueueSet(c) ==
    /\ pc[c] = "set"
    /\ \E o \in Outcome :
        /\ Command(c, o)
        /\ taskData' = IF Executed(o) THEN [taskData EXCEPT ![cur[c].id] = cur[c]]
                                      ELSE taskData
        /\ \/ Answered(o) /\ Goto(c, "push") /\ UNCHANGED <<cur, fresh>>
           \/ ~Answered(o) /\ Return(c)
    /\ UNCHANGED <<lists, processing, dlq, dlqMeta, stats, ctxDone, got, scan,
                   purgeVars, arrived>>

EnqueuePush(c) ==
    /\ pc[c] = "push"
    /\ \E o \in Outcome :
        /\ Command(c, o)
        /\ lists' = [lists EXCEPT ![queueKeys(cur[c].priority)] = RPushed(@, cur[c].id, o)]
        /\ NoteArrival(cur[c].id, o)
        /\ Goto(c, IF Answered(o) THEN "count" ELSE "unset")
    /\ UNCHANGED <<taskData, processing, dlq, dlqMeta, stats, ctxDone, fresh, cur,
                   got, scan, purgeVars>>

(* A change to Enqueue: the cleanup is done with a context of its own, so  *)
(* that it succeeds where the push was refused.                            *)
EnqueueUnset_Always(c) ==
    /\ pc[c] = "unset"
    /\ taskData' = [taskData EXCEPT ![cur[c].id] = NoTask]
    /\ Return(c)
    /\ UNCHANGED <<lists, processing, dlq, dlqMeta, stats, faults, ctxDone, got, scan,
                   purgeVars, arrived>>

(* The cleanup after a failed push; Enqueue returns the error.             *)
EnqueueUnset(c) ==
    /\ pc[c] = "unset"
    /\ \E done \in SUBSET {"del"} :
        /\ Commands(c, {"del"}, done)
        /\ taskData' = IF done = {} THEN taskData
                       ELSE [taskData EXCEPT ![cur[c].id] = NoTask]
    /\ Return(c)
    /\ UNCHANGED <<lists, processing, dlq, dlqMeta, stats, ctxDone, got, scan,
                   purgeVars, arrived>>

EnqueueCount(c) ==
    /\ pc[c] = "count"
    /\ \E done \in SUBSET {"total"} :
        /\ Commands(c, {"total"}, done)
        /\ stats' = IF done = {} THEN stats ELSE [stats EXCEPT !["total"] = @ + 1]
    /\ Return(c)
    /\ UNCHANGED <<lists, taskData, processing, dlq, dlqMeta, ctxDone, got, scan,
                   purgeVars, arrived>>

-----------------------------------------------------------------------------
(* Dequeue.                                                                *)

DequeueCall(w) ==
    /\ Goto(w, "lpop")
    /\ OwnContext(w)
    /\ arrived' = [arrived EXCEPT ![w] = {}]
    /\ UNCHANGED <<redisVars, faults, ctxDone, cur, got, scan, purgeVars>>

(* A slip in Dequeue: the loop does not end at the lowest priority.        *)
NextPriority_PastLow(w) ==
    /\ Goto(w, "lpop")
    /\ scan' = [scan EXCEPT ![w] = @ - 1]
    /\ got' = [got EXCEPT ![w] = NoId]
    /\ UNCHANGED <<cur, fresh>>

(* The loop goes on with the next lower priority, or ends with no task.    *)
NextPriority(w) ==
    \/ /\ scan[w] # PriorityLow
       /\ Goto(w, "lpop")
       /\ scan' = [scan EXCEPT ![w] = @ - 1]
       /\ got' = [got EXCEPT ![w] = NoId]
       /\ UNCHANGED <<cur, fresh>>
    \/ scan[w] = PriorityLow /\ Return(w) /\ LeaveDequeue(w)

DequeueLPop(w) ==
    /\ pc[w] = "lpop"
    /\ \E o \in Outcome :
        LET l == lists[scan[w]] IN
        /\ Command(w, o)
        /\ lists' = [lists EXCEPT ![scan[w]] = Popped(l, o)]
        /\ \/ ~Answered(o) /\ Return(w) /\ LeaveDequeue(w)
           \/ Answered(o) /\ PopReply(l, o) = NoId /\ NextPriority(w)
           \/ /\ Answered(o) /\ PopReply(l, o) # NoId
              /\ Goto(w, "get")
              /\ got' = [got EXCEPT ![w] = PopReply(l, o)]
              /\ UNCHANGED <<cur, fresh, scan>>
    /\ UNCHANGED <<taskData, processing, dlq, dlqMeta, stats, ctxDone, purgeVars, arrived>>

(* GET, then SET of the processing key. An id without data sends the loop  *)
(* to the next priority, whatever else is queued at this one.              *)
DequeueGet(w) ==
    /\ pc[w] = "get"
    /\ \E done \in SUBSET {"get", "set"} :
        /\ Commands(w, {"get", "set"}, done)
        /\ \/ "get" \notin done /\ Goto(w, "requeue") /\ UNCHANGED <<cur, fresh, got, scan, processing>>
           \/ /\ "get" \in done /\ taskData[got[w]] = NoTask
              /\ NextPriority(w) /\ UNCHANGED processing
           \/ /\ "get" \in done /\ taskData[got[w]] # NoTask
              /\ processing' = IF "set" \in done THEN processing \cup {got[w]} ELSE processing
              /\ cur' = [cur EXCEPT ![w] = taskData[got[w]]]
              /\ Goto(w, "start")
              /\ LeaveDequeue(w)
              /\ fresh' = fresh \ {w}
    /\ UNCHANGED <<lists, taskData, dlq, dlqMeta, stats, ctxDone, purgeVars, arrived>>

(* LPUSH puts the id back after GET failed; its own error is ignored.      *)
DequeueRequeue(w) ==
    /\ pc[w] = "requeue"
    /\ \E o \in Outcome :
        /\ Command(w, o)
        /\ lists' = [lists EXCEPT ![scan[w]] = LPushed(@, got[w], o)]
        /\ NoteArrival(got[w], o)
    /\ Return(w)
    /\ LeaveDequeue(w)
    /\ UNCHANGED <<taskData, processing, dlq, dlqMeta, stats, ctxDone, purgeVars>>

-----------------------------------------------------------------------------
(* Ack, Nack without requeue, EnqueueDLQ.                                  *)

(* Both delete the processing key and the data and count the task; both    *)
(* refuse an empty id.                                                     *)
Settle(w, counter) ==
    /\ \E done \in SUBSET {"processing", "data", "stats"} :
        LET id == cur[w].id
            all == IF id = EmptyId THEN {} ELSE {"processing", "data", "stats"}
        IN  /\ done \subseteq all
            /\ Commands(w, all, done)
            /\ processing' = IF "processing" \in done THEN processing \ {id} ELSE processing
            /\ taskData' = IF "data" \in done THEN [taskData EXCEPT ![id] = NoTask] ELSE taskData
            /\ stats' = IF "stats" \in done THEN [stats EXCEPT ![counter] = @ + 1] ELSE stats
    /\ Return(w)
    /\ UNCHANGED <<lists, dlq, dlqMeta, ctxDone, got, scan, purgeVars, arrived>>

Ack(w) == pc[w] = "ack" /\ Settle(w, "completed")

Nack(w) == pc[w] = "nack" /\ Settle(w, "failed")

(* RPUSH of the whole task, then the metadata and the counter. The caller  *)
(* goes on with Nack whether or not EnqueueDLQ returns an error.           *)
EnqueueDLQ(w) ==
    /\ pc[w] = "dlq"
    /\ \E o \in Outcome :
        /\ Command(w, o)
        /\ dlq' = RPushed(dlq, [cur[w] EXCEPT !.state = "dead_letter"], o)
        /\ Goto(w, IF Answered(o) THEN "dlqMeta" ELSE "nack")
    /\ UNCHANGED <<lists, taskData, processing, dlqMeta, stats, ctxDone, fresh, cur, got,
                   scan, purgeVars, arrived>>

EnqueueDLQMeta(w) ==
    /\ pc[w] = "dlqMeta"
    /\ \E done \in SUBSET {"meta", "stats"} :
        /\ Commands(w, {"meta", "stats"}, done)
        /\ dlqMeta' = IF "meta" \in done THEN dlqMeta \cup {cur[w].id} ELSE dlqMeta
        /\ stats' = IF "stats" \in done THEN [stats EXCEPT !["dlq"] = @ + 1] ELSE stats
    /\ Goto(w, "nack")
    /\ UNCHANGED <<lists, taskData, processing, dlq, ctxDone, fresh, cur, got, scan,
                   purgeVars, arrived>>

-----------------------------------------------------------------------------
(* Purge: the lists in the order Go iterates over a map, the data keys in  *)
(* the order SCAN returns them, the processing keys. SCAN returns a key    *)
(* that exists from start to end and may or may not return a later one.    *)

(* A slip in Purge: the first scan uses the prefix of the processing keys. *)
TaskKeys_Processing == processing

(* The data keys there are when the first SCAN begins.                     *)
TaskKeys == {id \in TaskId : taskData[id] # NoTask}

PurgeReturn ==
    /\ Return(Admin)
    /\ purgeLists' = {}
    /\ purgeData' = {}
    /\ UNCHANGED purges

PurgeCall ==
    /\ pc[Admin] = "idle"
    /\ Goto(Admin, "purgeLists")
    /\ purgeLists' = Priority
    /\ purges' = purges + 1
    /\ UNCHANGED <<redisVars, faults, ctxDone, fresh, cur, got, scan, purgeData, arrived>>

PurgeList ==
    /\ pc[Admin] = "purgeLists"
    /\ \E k \in purgeLists, o \in Outcome :
        /\ Command(Admin, o)
        /\ lists' = IF Executed(o) THEN [lists EXCEPT ![k] = <<>>] ELSE lists
        /\ \/ ~Answered(o) /\ PurgeReturn
           \/ /\ Answered(o) /\ purgeLists # {k}
              /\ purgeLists' = purgeLists \ {k}
              /\ UNCHANGED <<pc, cur, fresh, purgeData, purges>>
           \/ /\ Answered(o) /\ purgeLists = {k}
              /\ purgeLists' = {}
              /\ purgeData' = TaskKeys
              /\ Goto(Admin, "purgeData")
              /\ UNCHANGED <<cur, fresh, purges>>
    /\ UNCHANGED <<taskData, processing, dlq, dlqMeta, stats, ctxDone, got, scan, arrived>>

(* DEL of one key SCAN returned; its error is ignored.                     *)
PurgeKey ==
    /\ pc[Admin] = "purgeData"
    /\ \E id \in purgeData \cup TaskKeys, done \in SUBSET {"del"} :
        /\ Commands(Admin, {"del"}, done)
        /\ taskData' = IF done = {} THEN taskData ELSE [taskData EXCEPT ![id] = NoTask]
        /\ purgeData' = purgeData \ {id}
    /\ UNCHANGED <<lists, processing, dlq, dlqMeta, stats, ctxDone, fresh, pc, cur, got,
                   scan, purgeLists, purges, arrived>>

(* The scan is over, or SCAN itself fails and Purge returns its error.     *)
PurgeScanned ==
    /\ pc[Admin] = "purgeData"
    /\ \E o \in Outcome :
        /\ Command(Admin, o)
        /\ \/ Answered(o) /\ purgeData = {} /\ Goto(Admin, "purgeProcessing")
              /\ UNCHANGED <<cur, fresh, purgeVars>>
           \/ ~Answered(o) /\ PurgeReturn
    /\ UNCHANGED <<redisVars, ctxDone, got, scan, arrived>>

PurgeProcessing ==
    /\ pc[Admin] = "purgeProcessing"
    /\ \E done \in SUBSET {"scan"} :
        /\ Commands(Admin, {"scan"}, done)
        /\ processing' = IF done = {} THEN processing ELSE {}
    /\ PurgeReturn
    /\ UNCHANGED <<lists, taskData, dlq, dlqMeta, stats, ctxDone, got, scan, arrived>>

Purge == PurgeList \/ PurgeKey \/ PurgeScanned \/ PurgeProcessing
=============================================================================
