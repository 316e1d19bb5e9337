---------------------------- MODULE CustodyProof ----------------------------
(***************************************************************************)
(* Type correctness of Spool, and custody of task ids: at any time an id is*)
(* in one position of one list, or in the hands of one client, or nowhere. *)
(* Both hold for any numbers of workers, requests and tasks and any bounds *)
(* on faults, crashes and purges. Custody alone is not inductive: a popped *)
(* id must be the id of the task its data decodes to, and the ids of tasks *)
(* not yet submitted must be nowhere at all.                               *)
(***************************************************************************)
EXTENDS Spool, TLAPS

-----------------------------------------------------------------------------
(* Types.                                                                  *)

(* The methods of a task keep it a task, with its id and priority.         *)
LEMMA TaskMethods ==
    ASSUME NEW t \in Task
    PROVE  /\ MarkStarted(t) \in Task /\ MarkStarted(t).id = t.id
           /\ MarkCompleted(t) \in Task /\ MarkCompleted(t).id = t.id
           /\ MarkFailed(t) \in Task /\ MarkFailed(t).id = t.id
           /\ [t EXCEPT !.state = "dead_letter"] \in Task
           /\ t.id \in TaskId /\ t.state \in State
<1> USE DEF Task, State
<1>1. MarkStarted(t) \in Task /\ MarkStarted(t).id = t.id
  BY DEF MarkStarted
<1>2. MarkCompleted(t) \in Task /\ MarkCompleted(t).id = t.id
  BY DEF MarkCompleted
<1>3. MarkFailed(t) \in Task /\ MarkFailed(t).id = t.id
  <2>1. t.retryCount + 1 \in Int
    OBVIOUS
  <2>2. (IF ShouldRetry(t) THEN "retrying" ELSE "dead_letter") \in State
    OBVIOUS
  <2> QED
    BY <2>1, <2>2 DEF MarkFailed
<1>4. [t EXCEPT !.state = "dead_letter"] \in Task
  OBVIOUS
<1> QED
  BY <1>1, <1>2, <1>3, <1>4

(* Every priority, valid or not, has a list.                               *)
LEMMA KeyOfPriority ==
    ASSUME NEW x PROVE queueKeys(x) \in ListKey
BY DEF queueKeys, ListKey, Unkeyed

LEMMA PriorityKeys == Priority \subseteq ListKey
BY DEF ListKey

(* The list commands keep a list of ids a list of ids.                     *)
LEMMA ListCommands ==
    ASSUME NEW S, NEW l \in Seq(S), NEW o, NEW x \in S
    PROVE  /\ RPushed(l, x, o) \in Seq(S)
           /\ LPushed(l, x, o) \in Seq(S)
           /\ Popped(l, o) \in Seq(S)
           /\ PopReply(l, o) \in S \cup {NoId}
<1>1. RPushed(l, x, o) \in Seq(S)
  BY DEF RPushed
<1>2. LPushed(l, x, o) \in Seq(S)
  BY DEF LPushed
<1>3. \A m \in Seq(S) : DropFirst(m) \in Seq(S)
  BY DEF DropFirst
<1>4. Popped(l, o) \in Seq(S)
  BY <1>3 DEF Popped
<1>5. PopReply(l, o) \in S \cup {NoId}
  BY <1>3 DEF PopReply
<1> QED
  BY <1>1, <1>2, <1>4, <1>5

LEMMA IdListCommands ==
    ASSUME NEW l \in Seq(TaskId), NEW o
    PROVE  /\ Popped(l, o) \in Seq(TaskId)
           /\ PopReply(l, o) \in TaskId \cup {NoId}
           /\ \A x \in TaskId : RPushed(l, x, o) \in Seq(TaskId) /\ LPushed(l, x, o) \in Seq(TaskId)
<1>1. CASE TaskId = {}
  BY <1>1 DEF Popped, PopReply, DropFirst
<1>2. CASE TaskId # {}
  BY <1>2, ListCommands
<1> QED
  BY <1>1, <1>2

-----------------------------------------------------------------------------
(* Types of the queue's keys and of the frames of its callers: each        *)
(* operation of the queue keeps them, whoever calls it.                    *)

CallsOK == QueueTypeOK /\ CallTypeOK /\ FrameOK

LEMMA CommandType ==
    ASSUME faults \in Nat, NEW c, NEW o, Command(c, o)
    PROVE  faults' \in Nat
BY DEF Command

LEMMA CommandsType ==
    ASSUME faults \in Nat, NEW c, NEW all, NEW done, Commands(c, all, done)
    PROVE  faults' \in Nat
BY DEF Commands

LEMMA EnqueueCallType ==
    ASSUME CallsOK, NEW c \in Worker \cup Producer, NEW t \in Task, EnqueueCall(c, t)
    PROVE  CallsOK'
<1> USE ClientAssumption
<1>1. QueueTypeOK'
  BY DEF CallsOK, QueueTypeOK, EnqueueCall, redisVars, OwnContext, Client
<1>2. CallTypeOK'
  BY DEF CallsOK, CallTypeOK, EnqueueCall, purgeVars, Goto, Client, Pc
<1>3. FrameOK'
  BY DEF CallsOK, CallTypeOK, FrameOK, EnqueueCall, Goto, Client
<1> QED
  BY <1>1, <1>2, <1>3 DEF CallsOK

LEMMA EnqueueSetType ==
    ASSUME CallsOK, NEW c \in Worker \cup Producer, EnqueueSet(c)
    PROVE  CallsOK'
<1> USE ClientAssumption DEF CallsOK
<1>1. QueueTypeOK'
  BY CommandType, TaskMethods DEF EnqueueSet, QueueTypeOK, FrameOK, HandlesTask, Goto, Return, Client
<1>2. CallTypeOK'
  BY DEF EnqueueSet, CallTypeOK, purgeVars, Goto, Return, Client, Pc
<1>3. FrameOK'
  BY DEF EnqueueSet, CallTypeOK, FrameOK, HandlesTask, Goto, Return, Client
<1> QED
  BY <1>1, <1>2, <1>3

LEMMA EnqueuePushType ==
    ASSUME CallsOK, NEW c \in Worker \cup Producer, EnqueuePush(c)
    PROVE  CallsOK'
<1> USE ClientAssumption DEF CallsOK
<1>1. QueueTypeOK'
  <2> PICK o \in Outcome :
        /\ Command(c, o)
        /\ lists' = [lists EXCEPT ![queueKeys(cur[c].priority)] = RPushed(@, cur[c].id, o)]
    BY DEF EnqueuePush
  <2>1. cur[c].id \in TaskId
    BY TaskMethods DEF EnqueuePush, FrameOK, HandlesTask, Client
  <2>2. RPushed(lists[queueKeys(cur[c].priority)], cur[c].id, o) \in Seq(TaskId)
    BY <2>1, IdListCommands, KeyOfPriority DEF QueueTypeOK
  <2>3. lists' \in [ListKey -> Seq(TaskId)]
    BY <2>2 DEF QueueTypeOK
  <2> QED
    BY <2>3, CommandType DEF EnqueuePush, QueueTypeOK
<1>2. CallTypeOK'
  <2>1. cur[c].id \in TaskId
    BY TaskMethods DEF EnqueuePush, FrameOK, HandlesTask, Client
  <2>2. arrived' \in [Worker -> SUBSET TaskId]
    BY <2>1 DEF EnqueuePush, CallTypeOK, NoteArrival
  <2> QED
    BY <2>2 DEF EnqueuePush, CallTypeOK, purgeVars, Goto, Client, Pc
<1>3. FrameOK'
  BY DEF EnqueuePush, CallTypeOK, FrameOK, HandlesTask, Goto, Client
<1> QED
  BY <1>1, <1>2, <1>3

LEMMA EnqueueUnsetType ==
    ASSUME CallsOK, NEW c \in Worker \cup Producer, EnqueueUnset(c)
    PROVE  CallsOK'
<1> USE ClientAssumption DEF CallsOK
<1>1. QueueTypeOK'
  BY CommandsType DEF EnqueueUnset, QueueTypeOK, FrameOK, Return, Client
<1>2. CallTypeOK'
  BY DEF EnqueueUnset, CallTypeOK, purgeVars, Return, Client, Pc
<1>3. FrameOK'
  BY DEF EnqueueUnset, CallTypeOK, FrameOK, HandlesTask, Return, Client
<1> QED
  BY <1>1, <1>2, <1>3

LEMMA EnqueueCountType ==
    ASSUME CallsOK, NEW c \in Worker \cup Producer, EnqueueCount(c)
    PROVE  CallsOK'
<1> USE ClientAssumption DEF CallsOK
<1>1. QueueTypeOK'
  BY CommandsType DEF EnqueueCount, QueueTypeOK, Return, Counter, Client
<1>2. CallTypeOK'
  BY DEF EnqueueCount, CallTypeOK, purgeVars, Return, Client, Pc
<1>3. FrameOK'
  BY DEF EnqueueCount, CallTypeOK, FrameOK, HandlesTask, Return, Client
<1> QED
  BY <1>1, <1>2, <1>3

LEMMA DequeueCallType ==
    ASSUME CallsOK, NEW w \in Worker, DequeueCall(w)
    PROVE  CallsOK'
<1> USE ClientAssumption DEF CallsOK
<1>1. QueueTypeOK'
  BY DEF DequeueCall, QueueTypeOK, redisVars, OwnContext, Client
<1>2. CallTypeOK'
  BY DEF DequeueCall, CallTypeOK, purgeVars, Goto, Client, Pc
<1>3. FrameOK'
  BY DEF DequeueCall, CallTypeOK, FrameOK, HandlesTask, Goto, Client
<1> QED
  BY <1>1, <1>2, <1>3

LEMMA DequeueLPopType ==
    ASSUME CallsOK, NEW w \in Worker, DequeueLPop(w)
    PROVE  CallsOK'
<1> USE ClientAssumption DEF CallsOK
<1>1. QueueTypeOK'
  <2> PICK o \in Outcome :
        /\ Command(w, o)
        /\ lists' = [lists EXCEPT ![scan[w]] = Popped(lists[scan[w]], o)]
    BY DEF DequeueLPop
  <2>1. Popped(lists[scan[w]], o) \in Seq(TaskId)
    BY IdListCommands, PriorityKeys DEF QueueTypeOK, CallTypeOK
  <2>2. lists' \in [ListKey -> Seq(TaskId)]
    BY <2>1 DEF QueueTypeOK
  <2>3. fresh' \subseteq Client
    BY DEF DequeueLPop, QueueTypeOK, NextPriority, Return
  <2> QED
    BY <2>2, <2>3, CommandType DEF DequeueLPop, QueueTypeOK
<1>2. CallTypeOK'
  <2>1. \A o : PopReply(lists[scan[w]], o) \in TaskId \cup {NoId}
    BY IdListCommands, PriorityKeys DEF QueueTypeOK, CallTypeOK
  <2>2. \/ Return(w) /\ LeaveDequeue(w)
        \/ NextPriority(w)
        \/ /\ Goto(w, "get")
           /\ \E o : got' = [got EXCEPT ![w] = PopReply(lists[scan[w]], o)]
           /\ UNCHANGED <<cur, fresh, scan>>
    BY DEF DequeueLPop
  <2>3. UNCHANGED <<purgeVars, arrived>>
    BY DEF DequeueLPop
  <2>4. scan' \in [Worker -> Priority]
    BY <2>2 DEF CallTypeOK, NextPriority, LeaveDequeue, Priority, PriorityLow, PriorityCritical
  <2>5. got' \in [Worker -> TaskId \cup {NoId}]
    BY <2>1, <2>2 DEF CallTypeOK, NextPriority, LeaveDequeue
  <2> QED
    BY <2>2, <2>3, <2>4, <2>5 DEF CallTypeOK, NextPriority, purgeVars, Goto, Return, Client, Pc
<1>3. FrameOK'
  <2>1. \A o : PopReply(lists[scan[w]], o) \in TaskId \cup {NoId}
    BY IdListCommands, PriorityKeys DEF QueueTypeOK, CallTypeOK
  <2>2. \/ Return(w) /\ LeaveDequeue(w)
        \/ NextPriority(w)
        \/ /\ Goto(w, "get")
           /\ \E o : /\ PopReply(lists[scan[w]], o) # NoId
                    /\ got' = [got EXCEPT ![w] = PopReply(lists[scan[w]], o)]
           /\ UNCHANGED <<cur, fresh, scan>>
    BY DEF DequeueLPop
  <2> QED
    BY <2>1, <2>2 DEF CallTypeOK, FrameOK, HandlesTask, NextPriority, LeaveDequeue, Goto, Return, Client
<1> QED
  BY <1>1, <1>2, <1>3

LEMMA DequeueGetType ==
    ASSUME CallsOK, NEW w \in Worker, DequeueGet(w)
    PROVE  CallsOK'
<1> USE ClientAssumption DEF CallsOK
<1>1. QueueTypeOK'
  BY CommandsType DEF DequeueGet, QueueTypeOK, FrameOK, NextPriority, Goto, Return, Client
<1>2. CallTypeOK'
  <2>1. \/ Goto(w, "requeue") /\ UNCHANGED <<cur, fresh, got, scan, processing>>
        \/ NextPriority(w)
        \/ /\ cur' = [cur EXCEPT ![w] = taskData[got[w]]]
           /\ Goto(w, "start") /\ LeaveDequeue(w)
    BY DEF DequeueGet
  <2>2. taskData[got[w]] \in Task \cup {NoTask}
    BY DEF DequeueGet, QueueTypeOK, FrameOK
  <2>3. scan' \in [Worker -> Priority] /\ got' \in [Worker -> TaskId \cup {NoId}]
    BY <2>1 DEF CallTypeOK, NextPriority, LeaveDequeue, Priority, PriorityLow, PriorityCritical
  <2>4. UNCHANGED <<purgeVars, arrived>>
    BY DEF DequeueGet
  <2> QED
    BY <2>1, <2>2, <2>3, <2>4 DEF CallTypeOK, NextPriority, purgeVars, Goto, Return, Client, Pc
<1>3. FrameOK'
  BY DEF DequeueGet, CallTypeOK, QueueTypeOK, FrameOK, HandlesTask, NextPriority, LeaveDequeue, Goto, Return, Client
<1> QED
  BY <1>1, <1>2, <1>3

LEMMA DequeueRequeueType ==
    ASSUME CallsOK, NEW w \in Worker, DequeueRequeue(w)
    PROVE  CallsOK'
<1> USE ClientAssumption DEF CallsOK
<1>1. QueueTypeOK'
  BY CommandType, ListCommands, PriorityKeys DEF DequeueRequeue, QueueTypeOK, CallTypeOK, FrameOK, Return, Client
<1>2. CallTypeOK'
  BY DEF DequeueRequeue, CallTypeOK, FrameOK, NoteArrival, LeaveDequeue, purgeVars, Return, Client, Pc, Priority, PriorityLow, PriorityCritical
<1>3. FrameOK'
  BY DEF DequeueRequeue, CallTypeOK, FrameOK, HandlesTask, LeaveDequeue, Return, Client
<1> QED
  BY <1>1, <1>2, <1>3

LEMMA SettleType ==
    ASSUME CallsOK, NEW w \in Worker, NEW k \in {"completed", "failed"}, pc[w] \in HandlesTask, Settle(w, k)
    PROVE  CallsOK'
<1> USE ClientAssumption DEF CallsOK
<1>1. QueueTypeOK'
  <2>1. cur[w].id \in TaskId
    BY TaskMethods DEF FrameOK, Client
  <2>2. faults' \in Nat
    BY CommandsType DEF Settle, QueueTypeOK
  <2>3. taskData' \in [TaskId -> Task \cup {NoTask}] /\ processing' \subseteq TaskId
    BY <2>1 DEF Settle, QueueTypeOK
  <2>4. stats' \in [Counter -> Nat]
    BY DEF Settle, QueueTypeOK, Counter
  <2> QED
    BY <2>2, <2>3, <2>4 DEF Settle, QueueTypeOK, Return
<1>2. CallTypeOK'
  BY DEF Settle, CallTypeOK, purgeVars, Return, Client, Pc
<1>3. FrameOK'
  BY DEF Settle, CallTypeOK, FrameOK, HandlesTask, Return, Client
<1> QED
  BY <1>1, <1>2, <1>3

LEMMA EnqueueDLQType ==
    ASSUME CallsOK, NEW w \in Worker, EnqueueDLQ(w)
    PROVE  CallsOK'
<1> USE ClientAssumption DEF CallsOK
<1>1. QueueTypeOK'
  <2> PICK o \in Outcome :
        /\ Command(w, o)
        /\ dlq' = RPushed(dlq, [cur[w] EXCEPT !.state = "dead_letter"], o)
    BY DEF EnqueueDLQ
  <2>1. [cur[w] EXCEPT !.state = "dead_letter"] \in Task
    BY TaskMethods DEF EnqueueDLQ, FrameOK, HandlesTask, Client
  <2>2. dlq' \in Seq(Task)
    BY <2>1, ListCommands DEF QueueTypeOK
  <2> QED
    BY <2>2, CommandType DEF EnqueueDLQ, QueueTypeOK
<1>2. CallTypeOK'
  BY DEF EnqueueDLQ, CallTypeOK, purgeVars, Goto, Client, Pc
<1>3. FrameOK'
  BY DEF EnqueueDLQ, CallTypeOK, FrameOK, HandlesTask, Goto, Client
<1> QED
  BY <1>1, <1>2, <1>3

LEMMA EnqueueDLQMetaType ==
    ASSUME CallsOK, NEW w \in Worker, EnqueueDLQMeta(w)
    PROVE  CallsOK'
<1> USE ClientAssumption DEF CallsOK
<1>1. QueueTypeOK'
  <2>1. cur[w].id \in TaskId
    BY TaskMethods DEF EnqueueDLQMeta, FrameOK, HandlesTask, Client
  <2>2. faults' \in Nat
    BY CommandsType DEF EnqueueDLQMeta, QueueTypeOK
  <2>3. stats' \in [Counter -> Nat]
    BY DEF EnqueueDLQMeta, QueueTypeOK, Counter
  <2> QED
    BY <2>1, <2>2, <2>3 DEF EnqueueDLQMeta, QueueTypeOK
<1>2. CallTypeOK'
  BY DEF EnqueueDLQMeta, CallTypeOK, purgeVars, Goto, Client, Pc
<1>3. FrameOK'
  BY DEF EnqueueDLQMeta, CallTypeOK, FrameOK, HandlesTask, Goto, Client
<1> QED
  BY <1>1, <1>2, <1>3

LEMMA PurgeCallType ==
    ASSUME CallsOK, PurgeCall
    PROVE  CallsOK'
<1> USE ClientAssumption DEF CallsOK
<1>1. QueueTypeOK'
  BY DEF PurgeCall, QueueTypeOK, redisVars
<1>2. CallTypeOK'
  BY DEF PurgeCall, CallTypeOK, Goto, Client, Pc
<1>3. FrameOK'
  BY DEF PurgeCall, CallTypeOK, FrameOK, HandlesTask, Goto, Client
<1> QED
  BY <1>1, <1>2, <1>3

LEMMA PurgeType ==
    ASSUME CallsOK, Purge
    PROVE  CallsOK'
<1> USE ClientAssumption DEF CallsOK
<1>1. ASSUME PurgeList PROVE CallsOK'
  <2>1. QueueTypeOK'
    BY <1>1, CommandType, PriorityKeys DEF PurgeList, PurgeReturn, Return, QueueTypeOK, CallTypeOK
  <2>2. CallTypeOK'
    BY <1>1 DEF PurgeList, PurgeReturn, Return, TaskKeys, Goto, CallTypeOK, Client, Pc
  <2>3. FrameOK'
    BY <1>1 DEF PurgeList, PurgeReturn, Return, Goto, CallTypeOK, FrameOK, HandlesTask, Client
  <2> QED
    BY <2>1, <2>2, <2>3
<1>2. ASSUME PurgeKey PROVE CallsOK'
  <2>1. QueueTypeOK'
    BY <1>2, CommandsType DEF PurgeKey, TaskKeys, QueueTypeOK, CallTypeOK
  <2>2. CallTypeOK' /\ FrameOK'
    BY <1>2 DEF PurgeKey, CallTypeOK, FrameOK
  <2> QED
    BY <2>1, <2>2
<1>3. ASSUME PurgeScanned \/ PurgeProcessing PROVE CallsOK'
  <2>1. QueueTypeOK'
    BY <1>3, CommandType, CommandsType
       DEF PurgeScanned, PurgeProcessing, PurgeReturn, Return, redisVars, QueueTypeOK
  <2>2. CallTypeOK'
    BY <1>3 DEF PurgeScanned, PurgeProcessing, PurgeReturn, Return, purgeVars, Goto,
                CallTypeOK, Client, Pc
  <2>3. FrameOK'
    BY <1>3 DEF PurgeScanned, PurgeProcessing, PurgeReturn, Return, Goto, CallTypeOK, FrameOK,
                HandlesTask, Client
  <2> QED
    BY <2>1, <2>2, <2>3
<1> QED
  BY <1>1, <1>2, <1>3 DEF Purge

-----------------------------------------------------------------------------
(* Types of the records, the workers and the broker.                       *)

LEMMA SaveTaskType ==
    ASSUME QueueTypeOK, RecordTypeOK, NEW w \in Worker, NEW t \in Task, SaveTask(w, t)
    PROVE  /\ store' \in [TaskId -> Task \cup {NoTask}]
           /\ indexing' \subseteq Worker
           /\ faults' \in Nat
<1>1. t.id \in TaskId
  BY TaskMethods
<1>2. CASE t.id = EmptyId
  BY <1>2 DEF SaveTask, QueueTypeOK, RecordTypeOK
<1>3. CASE t.id # EmptyId
  <2> PICK o \in Outcome :
        /\ Command(w, o)
        /\ store' = IF Executed(o) THEN [store EXCEPT ![t.id] = t] ELSE store
        /\ indexing' = IF Answered(o) THEN indexing \cup {w} ELSE indexing
    BY <1>3 DEF SaveTask
  <2>1. faults' \in Nat
    BY CommandType DEF QueueTypeOK
  <2> QED
    BY <1>1, <2>1 DEF RecordTypeOK
<1> QED
  BY <1>2, <1>3

LEMMA SaveTaskIndexType ==
    ASSUME QueueTypeOK, RecordTypeOK, NEW w \in Worker, cur[w] \in Task, SaveTaskIndex(w)
    PROVE  /\ index' \in [State -> SUBSET TaskId]
           /\ indexing' \subseteq Worker
           /\ faults' \in Nat
<1>1. cur[w].id \in TaskId /\ cur[w].state \in State
  BY TaskMethods
<1>2. faults' \in Nat
  BY CommandsType DEF SaveTaskIndex, QueueTypeOK
<1>3. index' \in [State -> SUBSET TaskId] /\ indexing' \subseteq Worker
  BY <1>1 DEF SaveTaskIndex, RecordTypeOK
<1> QED
  BY <1>2, <1>3

LEMMA SaveResultType ==
    ASSUME QueueTypeOK, RecordTypeOK, NEW w, NEW id \in TaskId, NEW r \in Result,
           SaveResult(w, id, r)
    PROVE  result' \in [TaskId -> Result] /\ faults' \in Nat
<1>1. faults' \in Nat
  BY CommandsType DEF SaveResult, QueueTypeOK
<1>2. result' \in [TaskId -> Result]
  BY DEF SaveResult, RecordTypeOK
<1> QED
  BY <1>1, <1>2

LEMMA RecordsUntouched ==
    ASSUME RecordTypeOK, UNCHANGED <<storeVars, workerVars, brokerVars>>
    PROVE  RecordTypeOK'
BY DEF RecordTypeOK, storeVars, workerVars, brokerVars

LEMMA CountersType ==
    ASSUME RecordTypeOK, NEW w \in Worker
    PROVE  LET CT == [Worker -> [processed : Nat, failed : Nat, retried : Nat]] IN
           /\ [counters EXCEPT ![w].processed = @ + 1] \in CT
           /\ [counters EXCEPT ![w].failed = @ + 1] \in CT
           /\ [counters EXCEPT ![w].retried = @ + 1] \in CT
<1> DEFINE R == [processed : Nat, failed : Nat, retried : Nat]
<1>1. counters \in [Worker -> R] /\ counters[w] \in R
  BY DEF RecordTypeOK
<1>2. /\ [counters[w] EXCEPT !.processed = @ + 1] \in R
      /\ [counters[w] EXCEPT !.failed = @ + 1] \in R
      /\ [counters[w] EXCEPT !.retried = @ + 1] \in R
  BY <1>1
<1> HIDE DEF R
<1>3. \A r \in R : [counters EXCEPT ![w] = r] \in [Worker -> R]
  BY <1>1
<1> QED
  BY <1>1, <1>2, <1>3 DEF R

(* A step of pollAndExecute or handleTaskFailure between two queue calls:  *)
(* it moves the worker on and replaces its task.                           *)
LEMMA BetweenCallsType ==
    ASSUME CallsOK, NEW w \in Worker, NEW t \in Task,
           NEW l \in {"exec", "completed", "ack", "failed", "backoff", "dlq"},
           Goto(w, l), cur' = [cur EXCEPT ![w] = t], QueueUntouched, faults' \in Nat,
           arrived' \in [Worker -> SUBSET TaskId]
    PROVE  CallsOK'
<1> USE ClientAssumption DEF CallsOK
<1>1. QueueTypeOK'
  BY DEF QueueTypeOK, QueueUntouched, redisVars
<1>2. CallTypeOK'
  BY DEF CallTypeOK, QueueUntouched, purgeVars, Goto, Client, Pc
<1>3. FrameOK'
  BY DEF CallTypeOK, FrameOK, QueueUntouched, HandlesTask, Goto, Client
<1> QED
  BY <1>1, <1>2, <1>3

LEMMA WorkerStepType ==
    ASSUME TypeOK, NEW w \in Worker, WorkerStep(w)
    PROVE  TypeOK'
<1> USE ClientAssumption
<1>0. CallsOK /\ RecordTypeOK /\ UNCHANGED brokerVars
  BY DEF TypeOK, CallsOK, WorkerStep
<1>a. w \in Worker \cup Producer /\ w \in Client
  BY DEF Client
<1>b. ASSUME CallsOK', QueueOnly PROVE TypeOK'
  BY <1>0, <1>b, RecordsUntouched DEF TypeOK, CallsOK, QueueOnly
<1>c. pc[w] \in HandlesTask \cup {"unset", "count"} => cur[w] \in Task /\ cur[w].id \in TaskId
  BY <1>0, <1>a, TaskMethods DEF CallsOK, FrameOK
<1>1. CASE Poll(w)
  BY <1>0, <1>b, <1>1, DequeueCallType DEF Poll
<1>2. CASE Exit(w)
  <2>1. QueueTypeOK'
    BY <1>0, <1>2 DEF Exit, CallsOK, QueueTypeOK, QueueUntouched, redisVars
  <2>2. CallTypeOK'
    BY <1>0, <1>2 DEF Exit, CallsOK, CallTypeOK, QueueUntouched, purgeVars, Goto, Client, Pc
  <2>3. FrameOK'
    BY <1>0, <1>2 DEF Exit, CallsOK, CallTypeOK, FrameOK, QueueUntouched, HandlesTask, Goto, Client
  <2> QED
    BY <1>b, <1>2, <2>1, <2>2, <2>3 DEF Exit, CallsOK
<1>3. CASE DequeueStep(w)
  BY <1>0, <1>b, <1>3, DequeueLPopType, DequeueGetType, DequeueRequeueType DEF DequeueStep
<1>4. CASE Start(w)
  <2>1. MarkStarted(cur[w]) \in Task
    BY <1>4, <1>c, TaskMethods DEF Start, HandlesTask
  <2>2. SaveTask(w, MarkStarted(cur[w])) /\ cur' = [cur EXCEPT ![w] = MarkStarted(cur[w])]
    BY <1>4 DEF Start
  <2>3. /\ store' \in [TaskId -> Task \cup {NoTask}]
        /\ indexing' \subseteq Worker
        /\ faults' \in Nat
    BY <1>0, <2>1, <2>2, SaveTaskType DEF CallsOK
  <2>4. arrived' \in [Worker -> SUBSET TaskId]
    BY <1>0, <1>4 DEF Start, CallsOK, CallTypeOK
  <2>5. CallsOK'
    BY <1>0, <1>4, <2>1, <2>2, <2>3, <2>4, BetweenCallsType DEF Start
  <2>6. RecordTypeOK'
    <3>1. attempts' \in [TaskId -> Nat]
      BY <1>0, <1>4, <1>c DEF Start, RecordTypeOK, HandlesTask
    <3> QED
      BY <1>0, <1>4, <2>3, <3>1 DEF Start, RecordTypeOK, brokerVars
  <2> QED
    BY <2>5, <2>6 DEF TypeOK, CallsOK
<1>5. CASE ExecuteSuccess(w)
  <2>1. MarkCompleted(cur[w]) \in Task /\ cur[w].id \in TaskId
    BY <1>5, <1>c, TaskMethods DEF ExecuteSuccess, HandlesTask
  <2>2. result' \in [TaskId -> Result] /\ faults' \in Nat
    BY <1>0, <1>5, <2>1, SaveResultType DEF ExecuteSuccess, CallsOK, Result
  <2>3. CallsOK'
    <3>1. cur' = [cur EXCEPT ![w] = MarkCompleted(cur[w])] /\ arrived' \in [Worker -> SUBSET TaskId]
      BY <1>0, <1>5 DEF ExecuteSuccess, CallsOK, CallTypeOK
    <3> QED
      BY <1>0, <1>5, <2>1, <2>2, <3>1, BetweenCallsType DEF ExecuteSuccess
  <2>4. RecordTypeOK'
    <3>1. counters' = [counters EXCEPT ![w].processed = @ + 1]
      BY <1>5 DEF ExecuteSuccess
    <3>2. counters' \in [Worker -> [processed : Nat, failed : Nat, retried : Nat]]
      BY <1>0, <3>1, CountersType
    <3> QED
      BY <1>0, <1>5, <2>2, <3>2 DEF ExecuteSuccess, RecordTypeOK, brokerVars
  <2> QED
    BY <2>3, <2>4 DEF TypeOK, CallsOK
<1>6. CASE ExecuteFailure(w)
  <2>1. cur[w] \in Task /\ cur[w].id \in TaskId
    BY <1>6, <1>c DEF ExecuteFailure, HandlesTask
  <2>2. result' \in [TaskId -> Result] /\ faults' \in Nat
    BY <1>0, <1>6, <2>1, SaveResultType DEF ExecuteFailure, CallsOK, Result
  <2>3. CallsOK'
    <3>1. cur' = [cur EXCEPT ![w] = cur[w]] /\ arrived' \in [Worker -> SUBSET TaskId]
      BY <1>0, <1>6 DEF ExecuteFailure, CallsOK, CallTypeOK
    <3> QED
      BY <1>0, <1>6, <2>1, <2>2, <3>1, BetweenCallsType DEF ExecuteFailure
  <2>4. RecordTypeOK'
    <3>1. counters' = [counters EXCEPT ![w].failed = @ + 1]
      BY <1>6 DEF ExecuteFailure
    <3>2. counters' \in [Worker -> [processed : Nat, failed : Nat, retried : Nat]]
      BY <1>0, <3>1, CountersType
    <3> QED
      BY <1>0, <1>6, <2>2, <3>2 DEF ExecuteFailure, RecordTypeOK, brokerVars
  <2> QED
    BY <2>3, <2>4 DEF TypeOK, CallsOK
<1>7. CASE SaveCompleted(w)
  <2>1. MarkCompleted(cur[w]) \in Task
    BY <1>7, <1>c, TaskMethods DEF SaveCompleted, HandlesTask
  <2>2. /\ store' \in [TaskId -> Task \cup {NoTask}]
        /\ indexing' \subseteq Worker
        /\ faults' \in Nat
    BY <1>0, <1>7, <2>1, SaveTaskType DEF SaveCompleted, CallsOK
  <2>3. CallsOK'
    <3>1. cur' = [cur EXCEPT ![w] = MarkCompleted(cur[w])] /\ arrived' \in [Worker -> SUBSET TaskId]
      BY <1>0, <1>7 DEF SaveCompleted, CallsOK, CallTypeOK
    <3> QED
      BY <1>0, <1>7, <2>1, <2>2, <3>1, BetweenCallsType DEF SaveCompleted
  <2>4. RecordTypeOK'
    BY <1>0, <1>7, <2>2 DEF SaveCompleted, RecordTypeOK, workerVars, brokerVars
  <2> QED
    BY <2>3, <2>4 DEF TypeOK, CallsOK
<1>8. CASE AckTask(w)
  BY <1>0, <1>b, <1>8, SettleType DEF AckTask, Ack, HandlesTask
<1>9. CASE HandleTaskFailure(w)
  <2>1. MarkFailed(cur[w]) \in Task
    BY <1>9, <1>c, TaskMethods DEF HandleTaskFailure, HandlesTask
  <2>2. /\ store' \in [TaskId -> Task \cup {NoTask}]
        /\ indexing' \subseteq Worker
        /\ faults' \in Nat
    BY <1>0, <1>9, <2>1, SaveTaskType DEF HandleTaskFailure, CallsOK
  <2>3. CallsOK'
    <3>1. cur' = [cur EXCEPT ![w] = MarkFailed(cur[w])] /\ arrived' \in [Worker -> SUBSET TaskId]
      BY <1>0, <1>9 DEF HandleTaskFailure, CallsOK, CallTypeOK
    <3>2. Goto(w, "backoff") \/ Goto(w, "dlq")
      BY <1>9 DEF HandleTaskFailure, RetryOrBury
    <3> QED
      BY <1>0, <1>9, <2>1, <2>2, <3>1, <3>2, BetweenCallsType DEF HandleTaskFailure
  <2>4. counters' \in [Worker -> [processed : Nat, failed : Nat, retried : Nat]]
    <3>1. \/ counters' = [counters EXCEPT ![w].retried = @ + 1]
          \/ counters' = counters
      BY <1>9 DEF HandleTaskFailure, RetryOrBury
    <3>2. counters \in [Worker -> [processed : Nat, failed : Nat, retried : Nat]]
      BY <1>0 DEF RecordTypeOK
    <3>3. [counters EXCEPT ![w].retried = @ + 1]
            \in [Worker -> [processed : Nat, failed : Nat, retried : Nat]]
      BY <1>0, CountersType
    <3> QED
      BY <3>1, <3>2, <3>3
  <2>5. RecordTypeOK'
    BY <1>0, <1>9, <2>2, <2>4 DEF HandleTaskFailure, RecordTypeOK, brokerVars
  <2> QED
    BY <2>3, <2>5 DEF TypeOK, CallsOK
<1>10. CASE Retry(w)
  BY <1>0, <1>a, <1>b, <1>c, <1>10, EnqueueCallType DEF Retry, HandlesTask
<1>11. CASE EnqueueStep(w)
  BY <1>0, <1>a, <1>b, <1>11, EnqueueSetType, EnqueuePushType, EnqueueUnsetType,
     EnqueueCountType DEF EnqueueStep
<1>12. CASE MoveToDLQ(w)
  BY <1>0, <1>b, <1>12, EnqueueDLQType, EnqueueDLQMetaType, SettleType
     DEF MoveToDLQ, Nack, HandlesTask
<1>13. CASE Crash(w)
  <2>1. QueueTypeOK'
    BY <1>0, <1>13 DEF Crash, Return, CallsOK, QueueTypeOK, redisVars
  <2>2. CallTypeOK'
    BY <1>0, <1>13 DEF Crash, Return, LeaveDequeue, CallsOK, CallTypeOK, purgeVars, Client, Pc,
                       Priority, PriorityLow, PriorityCritical
  <2>3. FrameOK'
    BY <1>0, <1>13 DEF Crash, Return, LeaveDequeue, CallsOK, CallTypeOK, FrameOK, HandlesTask, Client
  <2>4. RecordTypeOK'
    BY <1>0, <1>13 DEF Crash, NoCount, RecordTypeOK, brokerVars
  <2> QED
    BY <2>1, <2>2, <2>3, <2>4 DEF TypeOK
<1>14. CASE EndSaveTask(w)
  <2>1. /\ index' \in [State -> SUBSET TaskId]
        /\ indexing' \subseteq Worker
        /\ faults' \in Nat
    BY <1>0, <1>14, <1>c, SaveTaskIndexType DEF EndSaveTask, AfterSave, HandlesTask, CallsOK
  <2>2. CallsOK'
    <3>1. QueueTypeOK'
      BY <1>0, <1>14, <2>1 DEF EndSaveTask, CallsOK, QueueTypeOK, QueueUntouched, redisVars
    <3>2. CallTypeOK' /\ FrameOK'
      BY <1>0, <1>14 DEF EndSaveTask, CallsOK, CallTypeOK, FrameOK, QueueUntouched, purgeVars
    <3> QED
      BY <3>1, <3>2 DEF CallsOK
  <2>3. RecordTypeOK'
    BY <1>0, <1>14, <2>1 DEF EndSaveTask, SaveTaskIndex, RecordTypeOK, workerVars, brokerVars
  <2> QED
    BY <2>2, <2>3 DEF TypeOK, CallsOK
<1> QED
  BY <1>1, <1>2, <1>3, <1>4, <1>5, <1>6, <1>7, <1>8, <1>9, <1>10, <1>11, <1>12, <1>13, <1>14
     DEF WorkerStep, Handle

LEMMA BrokerStepType ==
    ASSUME TypeOK, NEW p \in Producer, RequestStep(p)
    PROVE  TypeOK'
<1> USE ClientAssumption
<1>0. CallsOK /\ RecordTypeOK
  BY DEF TypeOK, CallsOK
<1>a. p \in Worker \cup Producer /\ p \in Client /\ p \notin Worker
  BY DEF Client
<1>b. Request[p] \in Seq(Task) /\ sent[p] \in Nat
  BY <1>0, RequestAssumption DEF RecordTypeOK
<1>c. ASSUME CallsOK', UNCHANGED <<storeVars, workerVars, brokerVars>> PROVE TypeOK'
  BY <1>0, <1>c, RecordsUntouched DEF TypeOK, CallsOK
<1>1. CASE HandleSubmit(p)
  <2>1. sent[p] + 1 \in Nat /\ sent[p] + 1 <= Len(Request[p]) /\ Request[p][sent[p] + 1] \in Task
    BY <1>1, <1>b DEF HandleSubmit
  <2>2. CallsOK'
    BY <1>0, <1>1, <1>a, <2>1, EnqueueCallType DEF HandleSubmit
  <2>3. RecordTypeOK'
    BY <1>0, <1>1, <2>1 DEF HandleSubmit, RecordTypeOK, storeVars, workerVars
  <2> QED
    BY <2>2, <2>3 DEF TypeOK, CallsOK
<1>2. CASE SubmitStep(p)
  BY <1>0, <1>2, <1>a, <1>c, EnqueueSetType, EnqueuePushType, EnqueueUnsetType DEF SubmitStep
<1>3. CASE SubmitAccepted(p)
  <2>1. CallsOK'
    BY <1>0, <1>3, <1>a, EnqueueCountType DEF SubmitAccepted
  <2>2. cur[p].id \in TaskId
    BY <1>0, <1>3, <1>a, TaskMethods DEF SubmitAccepted, EnqueueCount, CallsOK, FrameOK
  <2>3. RecordTypeOK'
    BY <1>0, <1>3, <2>2 DEF SubmitAccepted, RecordTypeOK, storeVars, workerVars
  <2> QED
    BY <2>1, <2>3 DEF TypeOK, CallsOK
<1>4. CASE BrokerCrash(p)
  <2>1. QueueTypeOK'
    BY <1>0, <1>4 DEF BrokerCrash, Return, CallsOK, QueueTypeOK, redisVars
  <2>2. CallTypeOK'
    BY <1>0, <1>4, <1>a DEF BrokerCrash, Return, CallsOK, CallTypeOK, purgeVars, Client, Pc
  <2>3. FrameOK'
    BY <1>0, <1>4, <1>a DEF BrokerCrash, Return, CallsOK, CallTypeOK, FrameOK, HandlesTask, Client
  <2>4. Len(Request[p]) \in Nat
    BY <1>b
  <2>5. RecordTypeOK'
    BY <1>0, <1>4, <2>4 DEF BrokerCrash, RecordTypeOK, storeVars
  <2> QED
    BY <2>1, <2>2, <2>3, <2>5 DEF TypeOK
<1> QED
  BY <1>1, <1>2, <1>3, <1>4 DEF RequestStep, Submit

(* The remaining steps of Next: the purge and the cancelled contexts.      *)
LEMMA OtherStepType ==
    ASSUME TypeOK,
           HandlePurge \/ Cancel \/ \E c \in Producer \cup {Admin} : Disconnect(c)
    PROVE  TypeOK'
<1>0. CallsOK /\ RecordTypeOK
  BY DEF TypeOK, CallsOK
<1>1. CASE HandlePurge
  BY <1>0, <1>1, PurgeCallType, PurgeType, RecordsUntouched DEF HandlePurge, TypeOK, CallsOK
<1>2. CASE Cancel \/ \E c \in Producer \cup {Admin} : Disconnect(c)
  <2>1. ctxDone' \subseteq Client
    BY <1>0, <1>2 DEF Cancel, Disconnect, CallsOK, QueueTypeOK, Client
  <2>2. UNCHANGED <<redisVars, faults, fresh, pc, cur, got, scan, purgeVars, arrived,
                    storeVars, workerVars, brokerVars>>
    BY <1>2 DEF Cancel, Disconnect
  <2>3. QueueTypeOK'
    BY <1>0, <2>1, <2>2 DEF CallsOK, QueueTypeOK, redisVars
  <2>4. CallTypeOK' /\ FrameOK'
    BY <1>0, <2>2 DEF CallsOK, CallTypeOK, FrameOK, purgeVars
  <2> QED
    BY <1>0, <2>2, <2>3, <2>4, RecordsUntouched DEF TypeOK
<1> QED
  BY <1>1, <1>2

LEMMA InitType == Init => TypeOK
<1> SUFFICES ASSUME Init PROVE TypeOK
  OBVIOUS
<1> USE ClientAssumption DEF Init
<1>1. QueueTypeOK
  BY DEF QueueInit, QueueTypeOK, Counter
<1>2. CallTypeOK /\ FrameOK
  BY DEF QueueInit, CallTypeOK, FrameOK, HandlesTask, Client, Pc, Priority, PriorityLow, PriorityCritical
<1>3. RecordTypeOK
  BY RequestAssumption DEF StorageInit, WorkerInit, BrokerInit, NoCount, Result, RecordTypeOK
<1> QED
  BY <1>1, <1>2, <1>3 DEF TypeOK

LEMMA NextType == TypeOK /\ [Next]_vars => TypeOK'
<1> SUFFICES ASSUME TypeOK, [Next]_vars PROVE TypeOK'
  OBVIOUS
<1>1. CASE \E w \in Worker : WorkerStep(w)
  BY <1>1, WorkerStepType
<1>2. CASE \E p \in Producer : RequestStep(p)
  BY <1>2, BrokerStepType
<1>3. CASE HandlePurge \/ Cancel \/ \E c \in Producer \cup {Admin} : Disconnect(c)
  BY <1>3, OtherStepType
<1>4. CASE UNCHANGED vars
  <2>1. QueueTypeOK'
    BY <1>4 DEF TypeOK, QueueTypeOK, vars, queueVars, redisVars
  <2>2. CallTypeOK' /\ FrameOK'
    BY <1>4 DEF TypeOK, CallTypeOK, FrameOK, vars, queueVars, purgeVars
  <2> QED
    BY <1>4, <2>1, <2>2, RecordsUntouched DEF TypeOK, vars
<1> QED
  BY <1>1, <1>2, <1>3, <1>4 DEF Next

(* Every variable keeps its type in every run, and no step of a worker, a  *)
(* request or Enqueue finds a nil task where the code dereferences one.    *)
THEOREM TypeCorrect == Spec => []TypeOK
BY InitType, NextType, PTL DEF Spec

-----------------------------------------------------------------------------
(* Custody.                                                                *)

(* The requests carry distinct ids: the broker does not check it.          *)
UniqueIds ==
    \A p, q \in Producer : \A i \in DOMAIN Request[p], j \in DOMAIN Request[q] :
        Request[p][i].id = Request[q][j].id => p = q /\ i = j

(* The client library never sends a command a second time.                 *)
NoRepeats == "twice" \notin FaultKinds

(* Data is stored under the id of the task it holds.                       *)
DataKeyed == \A id \in TaskId : taskData[id] # NoTask => taskData[id].id = id

Holder == [c \in Client |-> Held(c)]

(* Where ids are, as a statement about lists L, holders h and the numbers  *)
(* s of tasks taken up from each request.                                  *)
Placed(L, h, s) ==
    /\ \A k, l \in ListKey : \A i \in DOMAIN L[k], j \in DOMAIN L[l] :
            L[k][i] = L[l][j] => k = l /\ i = j
    /\ \A c \in Client : h[c] # NoId => \A k \in ListKey : \A i \in DOMAIN L[k] : L[k][i] # h[c]
    /\ \A c, d \in Client : c # d /\ h[c] # NoId => h[c] # h[d]
    /\ \A p \in Producer : \A i \in DOMAIN Request[p] : i > s[p] =>
            /\ \A k \in ListKey : \A j \in DOMAIN L[k] : L[k][j] # Request[p][i].id
            /\ \A c \in Client : h[c] # Request[p][i].id

IInv == TypeOK /\ DataKeyed /\ Placed(lists, Holder, sent)

(* The invariant contains Custody.                                         *)
LEMMA PlacedGivesCustody == IInv => Custody
<1> SUFFICES ASSUME IInv PROVE Custody
  OBVIOUS
<1>1. \A c \in Client : Holder[c] = Held(c)
  BY DEF Holder
<1> HIDE DEF Holder
<1> QED
  BY <1>1 DEF IInv, Placed, Custody, ListedOnce, HeldNotListed, Exclusive

-----------------------------------------------------------------------------
(* Five ways in which ids move.                                            *)

LEMMA RequestIds ==
    ASSUME NEW p \in Producer, NEW i \in DOMAIN Request[p]
    PROVE  i \in Nat /\ Request[p][i] \in Task /\ Request[p][i].id \in TaskId /\ Request[p][i].id # NoId
<1>1. Request[p] \in Seq(Task)
  BY RequestAssumption
<1>2. i \in Nat /\ Request[p][i] \in Task
  BY <1>1
<1> QED
  BY <1>2, TaskAssumption, TaskMethods

Lists == [ListKey -> Seq(TaskId)]
Sents == [Producer -> Nat]
Holders == [Client -> TaskId \cup {NoId}]

(* The lists after LPOP, RPUSH and LPUSH on list k.                        *)
Advanced(L, k) == [L EXCEPT ![k] = Tail(@)]
PushedLast(L, k, x) == [L EXCEPT ![k] = Append(@, x)]
PushedFirst(L, k, x) == [L EXCEPT ![k] = <<x>> \o @]

(* Clients let go of ids; nothing else changes.                            *)
LEMMA Release ==
    ASSUME NEW L \in Lists, NEW h, NEW g, NEW s \in Sents, NEW s1 \in Sents,
           Placed(L, h, s),
           \A c \in Client : g[c] \in {h[c], NoId},
           \A p \in Producer : s1[p] >= s[p]
    PROVE  Placed(L, g, s1)
<1>0. \A p \in Producer : \A i \in DOMAIN Request[p] :
        i \in Nat /\ Request[p][i].id \in TaskId /\ Request[p][i].id # NoId
  BY RequestIds
<1>1. \A p \in Producer : \A i \in DOMAIN Request[p] : i > s1[p] => i > s[p]
  BY <1>0 DEF Sents
<1> QED
  BY <1>0, <1>1 DEF Placed

(* A list is emptied.                                                      *)
LEMMA Empty ==
    ASSUME NEW L \in Lists, NEW h, NEW s, NEW k \in ListKey, Placed(L, h, s)
    PROVE  Placed([L EXCEPT ![k] = <<>>], h, s)
BY DEF Placed, Lists

(* The head of a list passes into the hands of a client that had nothing,  *)
(* or is lost on the way.                                                  *)
LEMMA Pop ==
    ASSUME NEW L \in Lists, NEW h, NEW g, NEW s, NEW k \in ListKey, NEW w \in Client,
           Placed(L, h, s), L[k] # <<>>,
           g[w] \in {Head(L[k]), NoId},
           \A c \in Client : c # w => g[c] = h[c]
    PROVE  Placed(Advanced(L, k), g, s)
<1> DEFINE M == [L EXCEPT ![k] = Tail(@)]
<1>1. /\ L[k] \in Seq(TaskId) /\ Len(L[k]) \in Nat /\ Len(L[k]) > 0
      /\ Head(L[k]) = L[k][1] /\ 1 \in DOMAIN L[k]
  BY DEF Lists
<1>2. \A l \in ListKey : l # k => M[l] = L[l]
  BY DEF Lists
<1>3. \A i \in DOMAIN M[k] : i + 1 \in DOMAIN L[k] /\ M[k][i] = L[k][i + 1] /\ i \in Nat /\ i > 0
  BY <1>1 DEF Lists
<1> HIDE DEF M
<1>4. \A l \in ListKey : \A i \in DOMAIN M[l] :
        \E j \in DOMAIN L[l] : M[l][i] = L[l][j] /\ (l = k => j = i + 1) /\ (l # k => j = i)
  BY <1>2, <1>3
<1>5. \A l, m \in ListKey : \A i \in DOMAIN M[l], j \in DOMAIN M[m] :
        M[l][i] = M[m][j] => l = m /\ i = j
  BY <1>2, <1>3 DEF Placed
<1>6. \A l \in ListKey : \A i \in DOMAIN M[l] : M[l][i] # Head(L[k])
  BY <1>1, <1>2, <1>3 DEF Placed
<1>7. \A c \in Client : g[c] # NoId => \A l \in ListKey : \A i \in DOMAIN M[l] : M[l][i] # g[c]
  BY <1>4, <1>6 DEF Placed
<1>8. \A c, d \in Client : c # d /\ g[c] # NoId => g[c] # g[d]
  BY <1>1 DEF Placed
<1>9. \A p \in Producer : \A i \in DOMAIN Request[p] : i > s[p] =>
        /\ \A l \in ListKey : \A j \in DOMAIN M[l] : M[l][j] # Request[p][i].id
        /\ \A c \in Client : g[c] # Request[p][i].id
  <2>1. \A p \in Producer : \A i \in DOMAIN Request[p] : Request[p][i].id # NoId
    BY RequestIds
  <2> QED
    BY <1>1, <1>4, <2>1 DEF Placed
<1> QED
  BY <1>5, <1>7, <1>8, <1>9 DEF Placed, Advanced, M

(* A client pushes the id it has in hand at one end of a list.             *)
LEMMA Push ==
    ASSUME NEW L \in Lists, NEW h, NEW g, NEW s, NEW k \in ListKey, NEW w \in Client,
           NEW M \in Lists, Placed(L, h, s), h[w] \in TaskId, g[w] = NoId,
           \A c \in Client : c # w => g[c] = h[c],
           M = PushedLast(L, k, h[w]) \/ M = PushedFirst(L, k, h[w])
    PROVE  Placed(M, g, s)
<1>0. h[w] # NoId /\ L[k] \in Seq(TaskId) /\ Len(L[k]) \in Nat
  BY TaskAssumption DEF Lists
<1>1. \A l \in ListKey : l # k => M[l] = L[l]
  BY DEF Lists, PushedLast, PushedFirst
<1>2. \E d \in {0, 1}, n \in Nat : \A i \in DOMAIN M[k] :
        /\ i \in Int
        /\ i = n => M[k][i] = h[w]
        /\ i # n => i - d \in DOMAIN L[k] /\ M[k][i] = L[k][i - d]
  <2>1. CASE M = PushedLast(L, k, h[w])
    <3>1. M[k] = Append(L[k], h[w])
      BY <2>1 DEF Lists, PushedLast
    <3>2. \A i \in DOMAIN M[k] :
            /\ i \in Int
            /\ i = Len(L[k]) + 1 => M[k][i] = h[w]
            /\ i # Len(L[k]) + 1 => i - 0 \in DOMAIN L[k] /\ M[k][i] = L[k][i - 0]
      BY <1>0, <3>1
    <3> WITNESS 0 \in {0, 1}, Len(L[k]) + 1 \in Nat
    <3> QED
      BY <3>2
  <2>2. CASE M = PushedFirst(L, k, h[w])
    <3>1. M[k] = <<h[w]>> \o L[k]
      BY <2>2 DEF Lists, PushedFirst
    <3>2. \A i \in DOMAIN M[k] :
            /\ i \in Int
            /\ i = 1 => M[k][i] = h[w]
            /\ i # 1 => i - 1 \in DOMAIN L[k] /\ M[k][i] = L[k][i - 1]
      BY <1>0, <3>1
    <3> QED
      BY <3>2
  <2> QED
    BY <2>1, <2>2
<1> PICK d \in {0, 1}, n \in Nat : \A i \in DOMAIN M[k] :
        /\ i \in Int
        /\ i = n => M[k][i] = h[w]
        /\ i # n => i - d \in DOMAIN L[k] /\ M[k][i] = L[k][i - d]
  BY <1>2
<1>3. \A l \in ListKey : \A i \in DOMAIN L[l] : L[l][i] # h[w]
  BY <1>0 DEF Placed
<1>4. \A l \in ListKey : \A i \in DOMAIN M[l] :
        M[l][i] # h[w] => \E j \in DOMAIN L[l] : M[l][i] = L[l][j]
  BY <1>1
<1>5. \A l, m \in ListKey : \A i \in DOMAIN M[l], j \in DOMAIN M[m] :
        M[l][i] = M[m][j] => l = m /\ i = j
  <2> TAKE l, m \in ListKey
  <2> TAKE i \in DOMAIN M[l], j \in DOMAIN M[m]
  <2> HAVE M[l][i] = M[m][j]
  <2>1. CASE l = k /\ m = k
    <3>1. CASE i # n /\ j # n
      <4>1. /\ i \in Int /\ i - d \in DOMAIN L[k] /\ M[k][i] = L[k][i - d]
            /\ j \in Int /\ j - d \in DOMAIN L[k] /\ M[k][j] = L[k][j - d]
        BY <2>1, <3>1
      <4>2. i - d = j - d
        BY <2>1, <4>1 DEF Placed
      <4> QED
        BY <2>1, <4>1, <4>2
    <3> QED
      BY <1>3, <2>1, <3>1
  <2>2. CASE l # k /\ m # k
    BY <1>1, <2>2 DEF Placed
  <2>3. CASE l = k /\ m # k
    BY <1>1, <1>3, <2>3 DEF Placed
  <2>4. CASE l # k /\ m = k
    BY <1>1, <1>3, <2>4 DEF Placed
  <2> QED
    BY <2>1, <2>2, <2>3, <2>4
<1>6. \A c \in Client : g[c] # NoId => \A l \in ListKey : \A i \in DOMAIN M[l] : M[l][i] # g[c]
  BY <1>0, <1>4 DEF Placed
<1>7. \A c, e \in Client : c # e /\ g[c] # NoId => g[c] # g[e]
  BY DEF Placed
<1>8. \A p \in Producer : \A i \in DOMAIN Request[p] : i > s[p] =>
        /\ \A l \in ListKey : \A j \in DOMAIN M[l] : M[l][j] # Request[p][i].id
        /\ \A c \in Client : g[c] # Request[p][i].id
  <2>1. \A p \in Producer : \A i \in DOMAIN Request[p] : Request[p][i].id # NoId
    BY RequestIds
  <2> QED
    BY <1>4, <2>1 DEF Placed
<1> QED
  BY <1>5, <1>6, <1>7, <1>8 DEF Placed

LEMMA PushLast ==
    ASSUME NEW L \in Lists, NEW h, NEW g, NEW s, NEW k \in ListKey, NEW w \in Client,
           Placed(L, h, s), h[w] \in TaskId, g[w] = NoId,
           \A c \in Client : c # w => g[c] = h[c]
    PROVE  Placed(PushedLast(L, k, h[w]), g, s)
<1>1. PushedLast(L, k, h[w]) \in Lists
  BY DEF PushedLast, Lists
<1> DEFINE M == PushedLast(L, k, h[w])
<1>2. M \in Lists /\ M = PushedLast(L, k, h[w])
  BY <1>1
<1> HIDE DEF M
<1>3. Placed(M, g, s)
  BY <1>2, Push
<1> QED
  BY <1>3 DEF M

LEMMA PushFirst ==
    ASSUME NEW L \in Lists, NEW h, NEW g, NEW s, NEW k \in ListKey, NEW w \in Client,
           Placed(L, h, s), h[w] \in TaskId, g[w] = NoId,
           \A c \in Client : c # w => g[c] = h[c]
    PROVE  Placed(PushedFirst(L, k, h[w]), g, s)
<1>1. PushedFirst(L, k, h[w]) \in Lists
  BY DEF PushedFirst, Lists
<1> DEFINE M == PushedFirst(L, k, h[w])
<1>2. M \in Lists /\ M = PushedFirst(L, k, h[w])
  BY <1>1
<1> HIDE DEF M
<1>3. Placed(M, g, s)
  BY <1>2, Push
<1> QED
  BY <1>3 DEF M

(* A request's next task comes into the hands of its handler.              *)
LEMMA Submission ==
    ASSUME NEW L, NEW h, NEW g, NEW s \in Sents, NEW p \in Producer,
           UniqueIds, Placed(L, h, s), s[p] + 1 \in DOMAIN Request[p],
           g[p] = Request[p][s[p] + 1].id,
           \A c \in Client : c # p => g[c] = h[c]
    PROVE  Placed(L, g, [s EXCEPT ![p] = @ + 1])
<1> DEFINE s1 == [s EXCEPT ![p] = @ + 1]
           x == Request[p][s[p] + 1].id
<1>0. s[p] \in Nat /\ s[p] + 1 > s[p]
  BY DEF Sents
<1>1. /\ \A k \in ListKey : \A j \in DOMAIN L[k] : L[k][j] # x
      /\ \A c \in Client : h[c] # x
  BY <1>0 DEF Placed
<1>2. \A q \in Producer : \A i \in DOMAIN Request[q] : i > s1[q] => i > s[q] /\ Request[q][i].id # x
  <2> TAKE q \in Producer
  <2> TAKE i \in DOMAIN Request[q]
  <2> HAVE i > s1[q]
  <2>1. i \in Nat /\ s[q] \in Nat
    BY RequestIds DEF Sents
  <2>2. CASE q = p
    <3>1. s1[q] = s[p] + 1
      BY <2>2 DEF Sents
    <3> QED
      BY <1>0, <2>1, <2>2, <3>1 DEF UniqueIds
  <2>3. CASE q # p
    BY <2>3 DEF Sents, UniqueIds
  <2> QED
    BY <2>2, <2>3
<1> HIDE DEF s1, x
<1>3. \A c, d \in Client : c # d /\ g[c] # NoId => g[c] # g[d]
  BY <1>1 DEF Placed, x
<1>4. \A c \in Client : g[c] # NoId => \A k \in ListKey : \A i \in DOMAIN L[k] : L[k][i] # g[c]
  BY <1>1 DEF Placed, x
<1>5. \A q \in Producer : \A i \in DOMAIN Request[q] : i > s1[q] =>
        /\ \A k \in ListKey : \A j \in DOMAIN L[k] : L[k][j] # Request[q][i].id
        /\ \A c \in Client : g[c] # Request[q][i].id
  BY <1>2 DEF Placed, x
<1>6. \A k, l \in ListKey : \A i \in DOMAIN L[k], j \in DOMAIN L[l] :
            L[k][i] = L[l][j] => k = l /\ i = j
  BY DEF Placed
<1> QED
  BY <1>3, <1>4, <1>5, <1>6 DEF Placed, s1

-----------------------------------------------------------------------------
(* Steps of one client leave the hands of the others alone.                *)

OthersKeep(c) ==
    /\ \A d \in Client : d # c => pc'[d] = pc[d] /\ cur'[d] = cur[d]
    /\ \A d \in Worker : d # c => got'[d] = got[d]

LEMMA OthersHold ==
    ASSUME TypeOK, TypeOK', NEW c \in Client, OthersKeep(c)
    PROVE  \A d \in Client : d # c => Holder'[d] = Holder[d]
<1> USE ClientAssumption
<1> TAKE d \in Client
<1> HAVE d # c
<1>1. pc'[d] = pc[d] /\ cur'[d] = cur[d]
  BY DEF OthersKeep
<1>2. pc[d] \in {"get", "requeue"} => d \in Worker
  BY DEF TypeOK, CallTypeOK, Client
<1>3. Held(d)' = Held(d)
  BY <1>1, <1>2 DEF Held, OthersKeep
<1> QED
  BY <1>3 DEF Holder

LEMMA HolderType ==
    ASSUME TypeOK PROVE Holder \in Holders
<1> USE ClientAssumption
<1> SUFFICES ASSUME NEW c \in Client PROVE Held(c) \in TaskId \cup {NoId}
  BY DEF Holder, Holders
<1>1. CASE pc[c] \in {"get", "requeue"}
  <2>1. c \in Worker
    BY <1>1 DEF TypeOK, CallTypeOK, Client
  <2> QED
    BY <1>1, <2>1 DEF Held, TypeOK, FrameOK
<1>2. CASE pc[c] \notin {"get", "requeue"} /\ pc[c] \in HandlesTask
  BY <1>2, TaskMethods DEF Held, TypeOK, FrameOK
<1>3. CASE pc[c] \notin {"get", "requeue"} /\ pc[c] \notin HandlesTask
  BY <1>3 DEF Held
<1> QED
  BY <1>1, <1>2, <1>3

(* The common case: the lists stay, the client keeps what it has or lets go*)
(* of it, and requests only move on.                                       *)
LEMMA Quiet ==
    ASSUME IInv, TypeOK', DataKeyed', NEW c \in Client, OthersKeep(c),
           Held(c)' \in {Held(c), NoId},
           lists' = lists, \A p \in Producer : sent'[p] >= sent[p]
    PROVE  IInv'
<1>1. \A d \in Client : d # c => Holder'[d] = Holder[d]
  BY OthersHold DEF IInv
<1>2. Holder'[c] \in {Holder[c], NoId}
  BY DEF Holder
<1>3. \A d \in Client : Holder'[d] \in {Holder[d], NoId}
  BY <1>1, <1>2
<1>4. lists \in Lists /\ sent \in Sents /\ sent' \in Sents /\ Placed(lists, Holder, sent)
  BY DEF IInv, TypeOK, QueueTypeOK, RecordTypeOK, Lists, Sents
<1>5. Placed(lists, Holder', sent')
  BY <1>3, <1>4, Release
<1>6. Placed(lists', Holder', sent')
  BY <1>5
<1> QED
  BY <1>6 DEF IInv

LEMMA DataOnlyDeleted ==
    ASSUME TypeOK, DataKeyed, TypeOK',
           \A id \in TaskId : taskData'[id] \in {taskData[id], NoTask}
    PROVE  DataKeyed'
BY DEF DataKeyed

LEMMA FrameOfWorker ==
    ASSUME TypeOK, NEW w \in Worker, WorkerStep(w)
    PROVE  OthersKeep(w)
<1> USE ClientAssumption DEF OthersKeep, TypeOK, CallTypeOK, Goto, Return, LeaveDequeue, Client
<1>1. CASE Poll(w)
  BY <1>1 DEF Poll, DequeueCall
<1>2. CASE Exit(w)
  BY <1>2 DEF Exit, QueueUntouched
<1>3. CASE DequeueStep(w)
  BY <1>3 DEF DequeueStep, DequeueLPop, DequeueGet, DequeueRequeue, NextPriority
<1>4. CASE Start(w)
  BY <1>4 DEF Start, QueueUntouched
<1>5. CASE ExecuteSuccess(w) \/ ExecuteFailure(w)
  BY <1>5 DEF ExecuteSuccess, ExecuteFailure, QueueUntouched
<1>6. CASE SaveCompleted(w)
  BY <1>6 DEF SaveCompleted, QueueUntouched
<1>7. CASE AckTask(w)
  BY <1>7 DEF AckTask, Ack, Settle
<1>8. CASE HandleTaskFailure(w)
  BY <1>8 DEF HandleTaskFailure, RetryOrBury, QueueUntouched
<1>9. CASE Retry(w)
  BY <1>9 DEF Retry, EnqueueCall
<1>10. CASE EnqueueStep(w)
  BY <1>10 DEF EnqueueStep, EnqueueSet, EnqueuePush, EnqueueUnset, EnqueueCount
<1>11. CASE MoveToDLQ(w)
  BY <1>11 DEF MoveToDLQ, EnqueueDLQ, EnqueueDLQMeta, Nack, Settle
<1>12. CASE Crash(w)
  BY <1>12 DEF Crash
<1>13. CASE EndSaveTask(w)
  BY <1>13 DEF EndSaveTask, QueueUntouched
<1> QED
  BY <1>1, <1>2, <1>3, <1>4, <1>5, <1>6, <1>7, <1>8, <1>9, <1>10, <1>11, <1>12, <1>13
     DEF WorkerStep, Handle

LEMMA FrameOfRequest ==
    ASSUME TypeOK, NEW p \in Producer, RequestStep(p)
    PROVE  OthersKeep(p)
<1> USE ClientAssumption DEF OthersKeep, TypeOK, CallTypeOK, Goto, Return, Client
<1>1. CASE HandleSubmit(p)
  BY <1>1 DEF HandleSubmit, EnqueueCall
<1>2. CASE SubmitStep(p)
  BY <1>2 DEF SubmitStep, EnqueueSet, EnqueuePush, EnqueueUnset
<1>3. CASE SubmitAccepted(p)
  BY <1>3 DEF SubmitAccepted, EnqueueCount
<1>4. CASE BrokerCrash(p)
  BY <1>4 DEF BrokerCrash
<1> QED
  BY <1>1, <1>2, <1>3, <1>4 DEF RequestStep, Submit

-----------------------------------------------------------------------------
(* The operations of the queue keep the invariant.                         *)

LEMMA OutcomeKinds ==
    ASSUME NoRepeats, NEW c, NEW o, Command(c, o)
    PROVE  o # "twice"
BY DEF NoRepeats, Command

LEMMA EnqueueSetPlaced ==
    ASSUME IInv, TypeOK', NEW c \in Worker \cup Producer, EnqueueSet(c), OthersKeep(c), sent' = sent
    PROVE  IInv'
<1> USE ClientAssumption
<1>1. c \in Client /\ pc[c] = "set" /\ cur[c] \in Task /\ cur[c].id \in TaskId
  BY TaskMethods DEF EnqueueSet, IInv, TypeOK, FrameOK, HandlesTask, Client
<1>2. Held(c)' \in {Held(c), NoId}
  BY <1>1 DEF EnqueueSet, Held, HandlesTask, Goto, Return, IInv, TypeOK, CallTypeOK
<1>3. DataKeyed'
  BY <1>1 DEF EnqueueSet, IInv, DataKeyed, TypeOK, QueueTypeOK
<1>4. lists' = lists /\ \A p \in Producer : sent'[p] >= sent[p]
  BY DEF EnqueueSet, IInv, TypeOK, RecordTypeOK
<1> QED
  BY <1>1, <1>2, <1>3, <1>4, Quiet

LEMMA EnqueuePushPlaced ==
    ASSUME IInv, TypeOK', NoRepeats, NEW c \in Worker \cup Producer, EnqueuePush(c),
           OthersKeep(c), sent' = sent
    PROVE  IInv'
<1> USE ClientAssumption
<1> DEFINE k == queueKeys(cur[c].priority)
<1> PICK o \in Outcome :
        /\ Command(c, o)
        /\ lists' = [lists EXCEPT ![k] = RPushed(@, cur[c].id, o)]
        /\ Goto(c, IF Answered(o) THEN "count" ELSE "unset")
  BY DEF EnqueuePush
<1>1. c \in Client /\ pc[c] = "push" /\ cur[c].id \in TaskId /\ k \in ListKey
  BY TaskMethods, KeyOfPriority DEF EnqueuePush, IInv, TypeOK, FrameOK, HandlesTask, Client
<1>2. Holder[c] = cur[c].id /\ Holder[c] \in TaskId /\ Holder'[c] = NoId
  BY <1>1 DEF Holder, Held, HandlesTask, Goto, IInv, TypeOK, CallTypeOK
<1>3. DataKeyed'
  BY DEF EnqueuePush, IInv, DataKeyed
<1>4. lists \in Lists /\ lists' \in Lists /\ Placed(lists, Holder, sent)
  BY DEF IInv, TypeOK, QueueTypeOK, Lists
<1>5. \A d \in Client : d # c => Holder'[d] = Holder[d]
  BY <1>1, OthersHold DEF IInv
<1>6. CASE o = "error"
  <2>1. lists' = lists
    BY <1>1, <1>4, <1>6 DEF RPushed, Executed, Lists
  <2>2. Held(c)' \in {Held(c), NoId} /\ \A p \in Producer : sent'[p] >= sent[p]
    BY <1>1, <1>2 DEF Holder, IInv, TypeOK, RecordTypeOK
  <2> QED
    BY <1>1, <1>3, <2>1, <2>2, Quiet
<1>7. CASE o # "error"
  <2>1. lists' = PushedLast(lists, k, Holder[c])
    BY <1>2, <1>7, OutcomeKinds DEF RPushed, Executed, PushedLast
  <2> HIDE DEF k
  <2>2. Placed(lists', Holder', sent)
    BY ONLY <1>1, <1>2, <1>4, <1>5, <2>1, PushLast, Zenon
  <2> QED
    BY <1>3, <2>2 DEF IInv
<1> QED
  BY <1>6, <1>7

LEMMA EnqueueEndPlaced ==
    ASSUME IInv, TypeOK', NEW c \in Worker \cup Producer, EnqueueUnset(c) \/ EnqueueCount(c),
           OthersKeep(c), sent' = sent
    PROVE  IInv'
<1> USE ClientAssumption
<1>1. c \in Client /\ lists' = lists /\ \A p \in Producer : sent'[p] >= sent[p]
  BY DEF EnqueueUnset, EnqueueCount, Client, IInv, TypeOK, RecordTypeOK
<1>2. Held(c)' = NoId
  BY <1>1 DEF EnqueueUnset, EnqueueCount, Held, HandlesTask, Return, IInv, TypeOK, CallTypeOK
<1>3. DataKeyed'
  BY DataOnlyDeleted DEF EnqueueUnset, EnqueueCount, IInv, TypeOK, QueueTypeOK
<1> QED
  BY <1>1, <1>2, <1>3, Quiet

LEMMA DequeueLPopPlaced ==
    ASSUME IInv, TypeOK', NoRepeats, NEW w \in Worker, DequeueLPop(w), OthersKeep(w), sent' = sent
    PROVE  IInv'
<1> USE ClientAssumption
<1> DEFINE k == scan[w]
           l == lists[k]
<1> PICK o \in Outcome :
        /\ Command(w, o)
        /\ lists' = [lists EXCEPT ![k] = Popped(l, o)]
        /\ \/ ~Answered(o) /\ Return(w) /\ LeaveDequeue(w)
           \/ Answered(o) /\ PopReply(l, o) = NoId /\ NextPriority(w)
           \/ /\ Answered(o) /\ PopReply(l, o) # NoId
              /\ Goto(w, "get")
              /\ got' = [got EXCEPT ![w] = PopReply(l, o)]
              /\ UNCHANGED <<cur, fresh, scan>>
  BY DEF DequeueLPop
<1>1. w \in Client /\ pc[w] = "lpop" /\ k \in ListKey /\ o # "twice"
  BY PriorityKeys, OutcomeKinds DEF DequeueLPop, IInv, TypeOK, CallTypeOK, Client
<1>2. DataKeyed'
  BY DEF DequeueLPop, IInv, DataKeyed
<1>3. lists \in Lists /\ l \in Seq(TaskId) /\ Placed(lists, Holder, sent)
  BY <1>1 DEF IInv, TypeOK, QueueTypeOK, Lists
<1>4. \A d \in Client : d # w => Holder'[d] = Holder[d]
  BY <1>1, OthersHold DEF IInv
<1>5. \/ Holder'[w] = NoId
      \/ l # <<>> /\ o # "error" /\ Holder'[w] = Head(l)
  <2>1. ASSUME Return(w) \/ NextPriority(w) PROVE Held(w)' = NoId
    BY <1>1, <2>1 DEF NextPriority, Return, Goto, Held, HandlesTask, IInv, TypeOK, CallTypeOK
  <2>2. ASSUME Answered(o), PopReply(l, o) # NoId, Goto(w, "get"),
               got' = [got EXCEPT ![w] = PopReply(l, o)]
        PROVE  l # <<>> /\ o # "error" /\ Held(w)' = Head(l)
    BY <1>1, <2>2 DEF Answered, PopReply, Goto, Held, IInv, TypeOK, CallTypeOK
  <2> QED
    BY <1>1, <2>1, <2>2 DEF Holder
<1>6. CASE o = "error" \/ l = <<>>
  <2>1. lists' = lists
    BY <1>1, <1>3, <1>6 DEF Popped, Executed, DropFirst, Lists
  <2>2. Held(w)' \in {Held(w), NoId} /\ \A p \in Producer : sent'[p] >= sent[p]
    BY <1>1, <1>5, <1>6 DEF Holder, IInv, TypeOK, RecordTypeOK
  <2> QED
    BY <1>1, <1>2, <2>1, <2>2, Quiet
<1>7. CASE o # "error" /\ l # <<>>
  <2>1. lists' = Advanced(lists, k)
    BY <1>1, <1>7 DEF Popped, Executed, DropFirst, Advanced
  <2>2. Holder'[w] \in {Head(lists[k]), NoId} /\ lists[k] # <<>>
    BY <1>5, <1>7
  <2> HIDE DEF k, l
  <2>3. Placed(lists', Holder', sent)
    BY ONLY <1>1, <1>3, <1>4, <2>1, <2>2, Pop, Zenon
  <2> QED
    BY <1>2, <2>3 DEF IInv
<1> QED
  BY <1>6, <1>7

LEMMA DequeueGetPlaced ==
    ASSUME IInv, TypeOK', NEW w \in Worker, DequeueGet(w), OthersKeep(w), sent' = sent
    PROVE  IInv'
<1> USE ClientAssumption
<1>1. w \in Client /\ pc[w] = "get" /\ got[w] \in TaskId /\ Held(w) = got[w]
  BY DEF DequeueGet, IInv, TypeOK, FrameOK, Held, Client
<1>2. lists' = lists /\ taskData' = taskData /\ \A p \in Producer : sent'[p] >= sent[p]
  BY DEF DequeueGet, IInv, TypeOK, RecordTypeOK
<1>3. \/ Goto(w, "requeue") /\ UNCHANGED got
      \/ NextPriority(w)
      \/ /\ taskData[got[w]] # NoTask
         /\ cur' = [cur EXCEPT ![w] = taskData[got[w]]]
         /\ Goto(w, "start")
  BY DEF DequeueGet
<1>4. Held(w)' \in {Held(w), NoId}
  <2>1. CASE Goto(w, "requeue") /\ UNCHANGED got
    BY <1>1, <2>1 DEF Goto, Held, IInv, TypeOK, CallTypeOK
  <2>2. CASE NextPriority(w)
    BY <1>1, <2>2 DEF NextPriority, Return, Goto, Held, HandlesTask, IInv, TypeOK, CallTypeOK
  <2>3. CASE /\ taskData[got[w]] # NoTask
             /\ cur' = [cur EXCEPT ![w] = taskData[got[w]]]
             /\ Goto(w, "start")
    BY <1>1, <2>3 DEF Goto, Held, HandlesTask, IInv, DataKeyed, TypeOK, CallTypeOK
  <2> QED
    BY <1>3, <2>1, <2>2, <2>3
<1>5. DataKeyed'
  BY <1>2 DEF IInv, DataKeyed
<1> QED
  BY <1>1, <1>2, <1>4, <1>5, Quiet

LEMMA DequeueRequeuePlaced ==
    ASSUME IInv, TypeOK', NoRepeats, NEW w \in Worker, DequeueRequeue(w), OthersKeep(w), sent' = sent
    PROVE  IInv'
<1> USE ClientAssumption
<1> PICK o \in Outcome :
        /\ Command(w, o)
        /\ lists' = [lists EXCEPT ![scan[w]] = LPushed(@, got[w], o)]
  BY DEF DequeueRequeue
<1>1. w \in Client /\ pc[w] = "requeue" /\ got[w] \in TaskId /\ scan[w] \in ListKey
  BY PriorityKeys DEF DequeueRequeue, IInv, TypeOK, CallTypeOK, FrameOK, Client
<1>2. Holder[w] = got[w] /\ Holder[w] \in TaskId /\ Holder'[w] = NoId
  BY <1>1 DEF DequeueRequeue, Return, Holder, Held, HandlesTask, IInv, TypeOK, CallTypeOK
<1>3. DataKeyed'
  BY DEF DequeueRequeue, IInv, DataKeyed
<1>4. lists \in Lists /\ lists' \in Lists /\ Placed(lists, Holder, sent)
  BY DEF IInv, TypeOK, QueueTypeOK, Lists
<1>5. \A d \in Client : d # w => Holder'[d] = Holder[d]
  BY <1>1, OthersHold DEF IInv
<1>6. CASE o = "error"
  <2>1. lists' = lists
    BY <1>1, <1>4, <1>6 DEF LPushed, Executed, Lists
  <2>2. Held(w)' \in {Held(w), NoId} /\ \A p \in Producer : sent'[p] >= sent[p]
    BY <1>1, <1>2 DEF Holder, IInv, TypeOK, RecordTypeOK
  <2> QED
    BY <1>1, <1>3, <2>1, <2>2, Quiet
<1>7. CASE o # "error"
  <2>1. lists' = PushedFirst(lists, scan[w], Holder[w])
    BY <1>2, <1>7, OutcomeKinds DEF LPushed, Executed, PushedFirst
  <2>2. Placed(lists', Holder', sent)
    BY ONLY <1>1, <1>2, <1>4, <1>5, <2>1, PushFirst, Zenon
  <2> QED
    BY <1>3, <2>2 DEF IInv
<1> QED
  BY <1>6, <1>7
(* Entering Enqueue with a task, and leaving a task behind.                *)
LEMMA CallOrLeave ==
    ASSUME IInv, TypeOK', NEW c \in Client, OthersKeep(c), sent' = sent, lists' = lists,
           \A id \in TaskId : taskData'[id] \in {taskData[id], NoTask},
           \/ pc'[c] \notin HandlesTask \cup {"get", "requeue"}
           \/ /\ pc[c] \in HandlesTask /\ pc'[c] \in HandlesTask
              /\ cur'[c].id = cur[c].id
    PROVE  IInv'
<1>1. Held(c)' \in {Held(c), NoId}
  BY DEF Held, HandlesTask
<1>2. DataKeyed'
  BY DataOnlyDeleted DEF IInv
<1>3. \A p \in Producer : sent'[p] >= sent[p]
  BY DEF IInv, TypeOK, RecordTypeOK
<1> QED
  BY <1>1, <1>2, <1>3, Quiet

(* Ack, Nack.                                                              *)
LEMMA SettlePlaced ==
    ASSUME IInv, TypeOK', NEW w \in Worker, NEW k, Settle(w, k), OthersKeep(w), sent' = sent
    PROVE  IInv'
<1>1. w \in Client /\ lists' = lists
  BY DEF Settle, Client
<1>2. \A id \in TaskId : taskData'[id] \in {taskData[id], NoTask}
  BY DEF Settle, IInv, TypeOK, QueueTypeOK
<1>3. pc'[w] = "idle"
  BY <1>1 DEF Settle, Return, IInv, TypeOK, CallTypeOK
<1> QED
  BY <1>1, <1>2, <1>3, CallOrLeave DEF HandlesTask

(* Every step of a worker keeps the invariant.                             *)
LEMMA WorkerPlaced ==
    ASSUME IInv, TypeOK', NoRepeats, NEW w \in Worker, WorkerStep(w)
    PROVE  IInv'
<1> USE ClientAssumption
<1>0. TypeOK /\ OthersKeep(w) /\ sent' = sent /\ w \in Client /\ w \in Worker \cup Producer
  BY FrameOfWorker DEF IInv, WorkerStep, brokerVars, Client
<1>a. pc \in [Client -> Pc] /\ cur \in [Client -> Task \cup {NoTask}]
  BY <1>0 DEF TypeOK, CallTypeOK
<1>b. pc[w] \in HandlesTask => cur[w] \in Task
  BY <1>0 DEF TypeOK, FrameOK
<1>c. ASSUME lists' = lists, taskData' = taskData,
             \/ pc'[w] \notin HandlesTask \cup {"get", "requeue"}
             \/ /\ pc[w] \in HandlesTask /\ pc'[w] \in HandlesTask
                /\ cur'[w].id = cur[w].id
      PROVE  IInv'
  BY <1>0, <1>c, CallOrLeave
<1>1. CASE Poll(w)
  <2>1. lists' = lists /\ taskData' = taskData /\ pc'[w] = "lpop"
    BY <1>0, <1>a, <1>1 DEF Poll, DequeueCall, Goto, redisVars
  <2> QED
    BY <1>c, <2>1 DEF HandlesTask
<1>2. CASE Exit(w)
  <2>1. lists' = lists /\ taskData' = taskData /\ pc'[w] = "stopped"
    BY <1>0, <1>a, <1>2 DEF Exit, Goto, QueueUntouched, redisVars
  <2> QED
    BY <1>c, <2>1 DEF HandlesTask
<1>3. CASE DequeueStep(w)
  BY <1>0, <1>3, DequeueLPopPlaced, DequeueGetPlaced, DequeueRequeuePlaced DEF DequeueStep
<1>4. CASE Start(w)
  <2>1. lists' = lists /\ taskData' = taskData /\ pc[w] = "start" /\ pc'[w] = "exec"
    BY <1>0, <1>a, <1>4 DEF Start, Goto, QueueUntouched, redisVars
  <2>2. cur'[w].id = cur[w].id
    BY <1>0, <1>a, <1>b, <1>4, <2>1, TaskMethods DEF Start, HandlesTask
  <2> QED
    BY <1>c, <2>1, <2>2 DEF HandlesTask
<1>5. CASE ExecuteSuccess(w)
  <2>1. lists' = lists /\ taskData' = taskData /\ pc[w] = "exec" /\ pc'[w] = "completed"
    BY <1>0, <1>a, <1>5 DEF ExecuteSuccess, Goto, QueueUntouched, redisVars
  <2>2. cur'[w].id = cur[w].id
    BY <1>0, <1>a, <1>b, <1>5, <2>1, TaskMethods DEF ExecuteSuccess, HandlesTask
  <2> QED
    BY <1>c, <2>1, <2>2 DEF HandlesTask
<1>6. CASE ExecuteFailure(w)
  <2>1. lists' = lists /\ taskData' = taskData /\ pc[w] = "exec" /\ pc'[w] = "failed" /\ cur' = cur
    BY <1>0, <1>a, <1>6 DEF ExecuteFailure, Goto, QueueUntouched, redisVars
  <2> QED
    BY <1>c, <2>1 DEF HandlesTask
<1>7. CASE SaveCompleted(w)
  <2>1. lists' = lists /\ taskData' = taskData /\ pc[w] = "completed" /\ pc'[w] = "ack"
    BY <1>0, <1>a, <1>7 DEF SaveCompleted, Goto, QueueUntouched, redisVars
  <2>2. cur'[w].id = cur[w].id
    BY <1>0, <1>a, <1>b, <1>7, <2>1, TaskMethods DEF SaveCompleted, HandlesTask
  <2> QED
    BY <1>c, <2>1, <2>2 DEF HandlesTask
<1>8. CASE AckTask(w)
  BY <1>0, <1>8, SettlePlaced DEF AckTask, Ack
<1>9. CASE HandleTaskFailure(w)
  <2>1. lists' = lists /\ taskData' = taskData /\ pc[w] = "failed" /\ pc'[w] \in {"backoff", "dlq"}
    BY <1>0, <1>a, <1>9 DEF HandleTaskFailure, RetryOrBury, Goto, QueueUntouched, redisVars
  <2>2. cur'[w].id = cur[w].id
    BY <1>0, <1>a, <1>b, <1>9, <2>1, TaskMethods DEF HandleTaskFailure, HandlesTask
  <2> QED
    BY <1>c, <2>1, <2>2 DEF HandlesTask
<1>10. CASE Retry(w)
  <2>1. lists' = lists /\ taskData' = taskData /\ pc[w] = "backoff" /\ pc'[w] = "set"
    BY <1>0, <1>a, <1>10 DEF Retry, EnqueueCall, Goto, redisVars
  <2>2. cur'[w].id = cur[w].id
    BY <1>0, <1>a, <1>10 DEF Retry, EnqueueCall
  <2> QED
    BY <1>c, <2>1, <2>2 DEF HandlesTask
<1>11. CASE EnqueueStep(w)
  BY <1>0, <1>11, EnqueueSetPlaced, EnqueuePushPlaced, EnqueueEndPlaced DEF EnqueueStep
<1>12. CASE MoveToDLQ(w)
  <2>1. CASE EnqueueDLQ(w) \/ EnqueueDLQMeta(w)
    <3>1. lists' = lists /\ taskData' = taskData /\ pc[w] \in {"dlq", "dlqMeta"} /\ cur' = cur
      BY <2>1 DEF EnqueueDLQ, EnqueueDLQMeta
    <3>2. pc'[w] \in {"dlqMeta", "nack"}
      BY <1>0, <1>a, <2>1 DEF EnqueueDLQ, EnqueueDLQMeta, Goto
    <3> QED
      BY <1>c, <3>1, <3>2 DEF HandlesTask
  <2>2. CASE Nack(w)
    BY <1>0, <2>2, SettlePlaced DEF Nack
  <2> QED
    BY <1>12, <2>1, <2>2 DEF MoveToDLQ
<1>13. CASE Crash(w)
  <2>1. lists' = lists /\ taskData' = taskData /\ pc'[w] = "idle"
    BY <1>0, <1>a, <1>13 DEF Crash, Return, redisVars
  <2> QED
    BY <1>c, <2>1 DEF HandlesTask
<1>14. CASE EndSaveTask(w)
  BY <1>c, <1>14 DEF EndSaveTask, AfterSave, QueueUntouched, redisVars, HandlesTask
<1> QED
  BY <1>1, <1>2, <1>3, <1>4, <1>5, <1>6, <1>7, <1>8, <1>9, <1>10, <1>11, <1>12, <1>13, <1>14
     DEF WorkerStep, Handle

(* Every step of a request keeps the invariant.                            *)
LEMMA RequestPlaced ==
    ASSUME IInv, TypeOK', UniqueIds, NoRepeats, NEW p \in Producer, RequestStep(p)
    PROVE  IInv'
<1> USE ClientAssumption
<1>0. TypeOK /\ OthersKeep(p) /\ p \in Client /\ p \in Worker \cup Producer
  BY FrameOfRequest DEF IInv, Client
<1>a. pc \in [Client -> Pc] /\ cur \in [Client -> Task \cup {NoTask}] /\ sent \in Sents
  BY <1>0 DEF TypeOK, CallTypeOK, RecordTypeOK, Sents
<1>1. CASE HandleSubmit(p)
  <2>1. /\ lists' = lists /\ taskData' = taskData /\ pc'[p] = "set"
        /\ cur'[p] = Request[p][sent[p] + 1] /\ sent' = [sent EXCEPT ![p] = @ + 1]
    BY <1>0, <1>a, <1>1 DEF HandleSubmit, EnqueueCall, Goto, redisVars
  <2>2. sent[p] + 1 \in DOMAIN Request[p]
    <3>1. Request[p] \in Seq(Task) /\ sent[p] \in Nat /\ sent[p] < Len(Request[p])
      BY <1>a, <1>1, RequestAssumption DEF HandleSubmit, Sents
    <3> QED
      BY <3>1
  <2>3. Holder'[p] = Request[p][sent[p] + 1].id
    BY <1>0, <2>1 DEF Holder, Held, HandlesTask
  <2>4. \A d \in Client : d # p => Holder'[d] = Holder[d]
    BY <1>0, OthersHold
  <2>5. Placed(lists, Holder, sent)
    BY DEF IInv
  <2>6. Placed(lists, Holder', [sent EXCEPT ![p] = @ + 1])
    BY ONLY UniqueIds, <1>a, <2>2, <2>3, <2>4, <2>5, p \in Producer, Submission
  <2>7. Placed(lists', Holder', sent')
    BY <2>1, <2>6
  <2>8. DataKeyed'
    BY <2>1 DEF IInv, DataKeyed
  <2> QED
    BY <2>7, <2>8 DEF IInv
<1>2. CASE SubmitStep(p) \/ SubmitAccepted(p)
  <2>1. sent' = sent
    BY <1>2 DEF SubmitStep, SubmitAccepted, brokerVars
  <2> QED
    BY <1>0, <1>2, <2>1, EnqueueSetPlaced, EnqueuePushPlaced, EnqueueEndPlaced
       DEF SubmitStep, SubmitAccepted
<1>3. CASE BrokerCrash(p)
  <2>1. lists' = lists /\ taskData' = taskData /\ pc'[p] = "idle"
    BY <1>0, <1>a, <1>3 DEF BrokerCrash, Return, redisVars
  <2>2. \A q \in Producer : sent'[q] >= sent[q]
    BY <1>0, <1>a, <1>3, RequestAssumption DEF BrokerCrash, TypeOK, RecordTypeOK, Sents
  <2>3. Held(p)' = NoId /\ DataKeyed'
    BY <2>1 DEF Held, HandlesTask, IInv, DataKeyed
  <2> QED
    BY <1>0, <2>1, <2>2, <2>3, Quiet
<1> QED
  BY <1>1, <1>2, <1>3 DEF RequestStep, Submit

(* So does a step of the purge.                                            *)
LEMMA PurgePlaced ==
    ASSUME IInv, TypeOK', HandlePurge
    PROVE  IInv'
<1> USE ClientAssumption
<1>0. TypeOK /\ sent' = sent /\ Admin \in Client /\ got' = got
  BY DEF IInv, HandlePurge, brokerVars, Client, PurgeCall, Purge, PurgeList, PurgeKey,
         PurgeScanned, PurgeProcessing
<1>1. /\ pc' = pc \/ \E l : pc' = [pc EXCEPT ![Admin] = l]
      /\ cur' = cur \/ cur' = [cur EXCEPT ![Admin] = NoTask]
  BY DEF HandlePurge, PurgeCall, Purge, PurgeList, PurgeKey, PurgeScanned, PurgeProcessing,
         PurgeReturn, Return, Goto
<1>2. OthersKeep(Admin)
  BY <1>0, <1>1 DEF OthersKeep, TypeOK, CallTypeOK
<1>3. Held(Admin) = NoId /\ Held(Admin)' = NoId
  BY <1>0 DEF Held, HandlesTask, TypeOK, CallTypeOK
<1>4. DataKeyed'
  <2>1. \A id \in TaskId : taskData'[id] \in {taskData[id], NoTask}
    BY <1>0 DEF HandlePurge, PurgeCall, Purge, PurgeList, PurgeKey, PurgeScanned,
                PurgeProcessing, redisVars, TypeOK, QueueTypeOK
  <2> QED
    BY <2>1, DataOnlyDeleted DEF IInv
<1>5. lists' = lists \/ \E k \in ListKey : lists' = [lists EXCEPT ![k] = <<>>]
  BY <1>0, PriorityKeys DEF HandlePurge, PurgeCall, Purge, PurgeList, PurgeKey, PurgeScanned,
         PurgeProcessing, redisVars, TypeOK, CallTypeOK
<1>6. CASE lists' = lists
  <2>1. \A p \in Producer : sent'[p] >= sent[p]
    BY <1>0 DEF TypeOK, RecordTypeOK
  <2> QED
    BY <1>0, <1>2, <1>3, <1>4, <1>6, <2>1, Quiet
<1>7. CASE \E k \in ListKey : lists' = [lists EXCEPT ![k] = <<>>]
  <2> PICK k \in ListKey : lists' = [lists EXCEPT ![k] = <<>>]
    BY <1>7
  <2>1. lists \in Lists /\ Placed(lists, Holder, sent)
    BY <1>0 DEF IInv, TypeOK, QueueTypeOK, Lists
  <2>2. Placed([lists EXCEPT ![k] = <<>>], Holder, sent)
    BY <2>1, Empty
  <2>3. \A d \in Client : Holder'[d] = Holder[d]
    BY <1>0, <1>2, <1>3, OthersHold DEF Holder
  <2>4. Placed(lists', Holder, sent)
    BY <2>2
  <2>5. Placed(lists', Holder', sent')
    <3> HIDE DEF Holder
    <3> QED
      BY ONLY <1>0, <2>3, <2>4 DEF Placed
  <2> QED
    BY <1>4, <2>5 DEF IInv
<1> QED
  BY <1>5, <1>6, <1>7

LEMMA InitPlaced == Init => IInv
<1> SUFFICES ASSUME Init PROVE IInv
  OBVIOUS
<1>1. TypeOK
  BY InitType
<1>2. DataKeyed
  BY DEF Init, QueueInit, DataKeyed
<1>3. \A k \in ListKey : DOMAIN lists[k] = {}
  BY DEF Init, QueueInit
<1>4. \A c \in Client : Holder[c] = NoId
  BY DEF Init, QueueInit, Holder, Held, HandlesTask
<1>5. \A p \in Producer : \A i \in DOMAIN Request[p] : Request[p][i].id # NoId
  BY RequestIds
<1>6. Placed(lists, Holder, sent)
  BY <1>3, <1>4, <1>5 DEF Placed
<1> QED
  BY <1>1, <1>2, <1>6 DEF IInv

LEMMA NextPlaced ==
    ASSUME UniqueIds, NoRepeats, IInv, [Next]_vars
    PROVE  IInv'
<1>0. TypeOK /\ TypeOK'
  BY NextType DEF IInv
<1>1. CASE \E w \in Worker : WorkerStep(w)
  BY <1>0, <1>1, WorkerPlaced
<1>2. CASE \E p \in Producer : RequestStep(p)
  BY <1>0, <1>2, RequestPlaced
<1>3. CASE HandlePurge
  BY <1>0, <1>3, PurgePlaced
<1>4. CASE Cancel \/ (\E c \in Producer \cup {Admin} : Disconnect(c)) \/ UNCHANGED vars
  <2>1. UNCHANGED <<lists, taskData, pc, cur, got, sent>>
    BY <1>4 DEF Cancel, Disconnect, vars, queueVars, redisVars, brokerVars
  <2>2. Holder' = Holder
    BY <2>1 DEF Holder, Held
  <2>3. Placed(lists', Holder', sent')
    BY <2>1, <2>2 DEF IInv
  <2> QED
    BY <1>0, <2>1, <2>3 DEF IInv, DataKeyed
<1> QED
  BY <1>1, <1>2, <1>3, <1>4 DEF Next

(* An id is never in two positions of the lists, never in a list and in a  *)
(* client's hands at once, and never in the hands of two clients, for any  *)
(* number of workers, requests, crashes, failed commands, cancellations and*)
(* purges: no interleaving of Enqueue, Dequeue, the retry path and Purge   *)
(* lets two workers run the same task at the same time. The requests have  *)
(* distinct ids and the Redis client does not send a command again.        *)
THEOREM CustodyHolds ==
    ASSUME UniqueIds, NoRepeats
    PROVE  Spec => []Custody
<1>1. Init => IInv
  BY InitPlaced
<1>2. IInv /\ [Next]_vars => IInv'
  BY NextPlaced
<1>3. IInv => Custody
  BY PlacedGivesCustody
<1> QED
  BY <1>1, <1>2, <1>3, PTL DEF Spec
=============================================================================
