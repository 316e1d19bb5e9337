------------------------------ MODULE DataProof ------------------------------
(***************************************************************************)
(* Task data, records and results. Every theorem here is an argument about *)
(* who may write a key: the first part lists, for each piece of state, the *)
(* steps that change it and where their client is; the invariants of the   *)
(* other parts are then shown from these facts alone.                      *)
(***************************************************************************)
EXTENDS RetryProof

-----------------------------------------------------------------------------
(* Who acts, and between which labels.                                     *)

(* Client c is at label l and goes to one of the labels in S.              *)
Moves(c, l, S) == pc[c] = l /\ pc'[c] \in S

LEMMA WorkerActions ==
    ASSUME TypeOK, NEW w \in Worker, WorkerStep(w)
    PROVE  \/ Poll(w) /\ Moves(w, "idle", {"lpop"})
           \/ Exit(w) /\ Moves(w, "idle", {"stopped"})
           \/ DequeueLPop(w) /\ QueueOnly /\ Moves(w, "lpop", {"idle", "lpop", "get"})
           \/ DequeueGet(w) /\ QueueOnly /\ Moves(w, "get", {"idle", "lpop", "requeue", "start"})
           \/ DequeueRequeue(w) /\ QueueOnly /\ Moves(w, "requeue", {"idle"})
           \/ Start(w) /\ Moves(w, "start", {"exec"})
           \/ ExecuteSuccess(w) /\ Moves(w, "exec", {"completed"})
           \/ ExecuteFailure(w) /\ Moves(w, "exec", {"failed"})
           \/ SaveCompleted(w) /\ Moves(w, "completed", {"ack"})
           \/ AckTask(w) /\ Moves(w, "ack", {"idle"})
           \/ HandleTaskFailure(w) /\ Moves(w, "failed", {"backoff", "dlq"})
           \/ Retry(w) /\ Moves(w, "backoff", {"set"})
           \/ EnqueueSet(w) /\ QueueOnly /\ Moves(w, "set", {"push", "idle"})
           \/ EnqueuePush(w) /\ QueueOnly /\ Moves(w, "push", {"count", "unset"})
           \/ EnqueueUnset(w) /\ QueueOnly /\ Moves(w, "unset", {"idle"})
           \/ EnqueueCount(w) /\ QueueOnly /\ Moves(w, "count", {"idle"})
           \/ EnqueueDLQ(w) /\ Saved(w) /\ QueueOnly /\ Moves(w, "dlq", {"dlqMeta", "nack"})
           \/ EnqueueDLQMeta(w) /\ QueueOnly /\ Moves(w, "dlqMeta", {"nack"})
           \/ Nack(w) /\ QueueOnly /\ Moves(w, "nack", {"idle"})
           \/ Crash(w) /\ pc'[w] = "idle"
           \/ EndSaveTask(w) /\ UNCHANGED <<pc, cur>> /\ QueueUntouched
<1>0. w \in Client /\ pc \in [Client -> Pc]
  BY DEF Client, TypeOK, CallTypeOK
<1> USE DEF Moves, Goto, Return
<1>1. CASE Poll(w)
  BY <1>0, <1>1 DEF Poll, DequeueCall
<1>2. CASE Exit(w)
  BY <1>0, <1>2 DEF Exit
<1>3. CASE DequeueLPop(w) /\ QueueOnly
  BY <1>0, <1>3 DEF DequeueLPop, NextPriority
<1>4. CASE DequeueGet(w) /\ QueueOnly
  BY <1>0, <1>4 DEF DequeueGet, NextPriority
<1>5. CASE DequeueRequeue(w) /\ QueueOnly
  BY <1>0, <1>5 DEF DequeueRequeue
<1>6. CASE Start(w) \/ ExecuteSuccess(w) \/ ExecuteFailure(w) \/ SaveCompleted(w)
  BY <1>0, <1>6 DEF Start, ExecuteSuccess, ExecuteFailure, SaveCompleted
<1>7. CASE HandleTaskFailure(w)
  BY <1>0, <1>7 DEF HandleTaskFailure, RetryOrBury
<1>8. CASE Retry(w)
  BY <1>0, <1>8 DEF Retry, EnqueueCall
<1>9. CASE AckTask(w) \/ (Nack(w) /\ QueueOnly)
  BY <1>0, <1>9 DEF AckTask, Ack, Nack, Settle
<1>10. CASE (EnqueueSet(w) \/ EnqueuePush(w) \/ EnqueueUnset(w) \/ EnqueueCount(w)) /\ QueueOnly
  BY <1>0, <1>10 DEF EnqueueSet, EnqueuePush, EnqueueUnset, EnqueueCount
<1>11. CASE Saved(w) /\ (EnqueueDLQ(w) \/ EnqueueDLQMeta(w)) /\ QueueOnly
  BY <1>0, <1>11 DEF EnqueueDLQ, EnqueueDLQMeta
<1>12. CASE Crash(w)
  BY <1>0, <1>12 DEF Crash
<1>13. CASE EndSaveTask(w)
  BY <1>13 DEF EndSaveTask
<1> QED
  BY <1>1, <1>2, <1>3, <1>4, <1>5, <1>6, <1>7, <1>8, <1>9, <1>10, <1>11, <1>12, <1>13
     DEF WorkerStep, Handle, DequeueStep, EnqueueStep, MoveToDLQ

LEMMA RequestActions ==
    ASSUME TypeOK, NEW p \in Producer, RequestStep(p)
    PROVE  \/ HandleSubmit(p) /\ Moves(p, "idle", {"set"})
           \/ EnqueueSet(p) /\ SubmitStep(p) /\ Moves(p, "set", {"push", "idle"})
           \/ EnqueuePush(p) /\ SubmitStep(p) /\ Moves(p, "push", {"count", "unset"})
           \/ EnqueueUnset(p) /\ SubmitStep(p) /\ Moves(p, "unset", {"idle"})
           \/ EnqueueCount(p) /\ SubmitAccepted(p) /\ Moves(p, "count", {"idle"})
           \/ BrokerCrash(p) /\ pc'[p] = "idle"
<1>0. p \in Client /\ pc \in [Client -> Pc]
  BY DEF Client, TypeOK, CallTypeOK
<1> USE DEF Moves, Goto, Return
<1>1. CASE HandleSubmit(p)
  BY <1>0, <1>1 DEF HandleSubmit, EnqueueCall
<1>2. CASE SubmitStep(p)
  BY <1>0, <1>2 DEF SubmitStep, EnqueueSet, EnqueuePush, EnqueueUnset
<1>3. CASE SubmitAccepted(p)
  BY <1>0, <1>3 DEF SubmitAccepted, EnqueueCount
<1>4. CASE BrokerCrash(p)
  BY <1>0, <1>4 DEF BrokerCrash
<1> QED
  BY <1>1, <1>2, <1>3, <1>4 DEF RequestStep, Submit

(* What the purge leaves alone.                                            *)
LEMMA PurgeFrame ==
    ASSUME TypeOK, HandlePurge
    PROVE  /\ OthersKeep(Admin)
           /\ UNCHANGED <<dlq, ctxDone, got, scan, arrived, storeVars, workerVars, brokerVars>>
<1>1. UNCHANGED <<dlq, ctxDone, got, scan, arrived, storeVars, workerVars, brokerVars>>
  BY DEF HandlePurge, PurgeCall, Purge, PurgeList, PurgeKey, PurgeScanned, PurgeProcessing, redisVars
<1>2. /\ pc' = pc \/ \E l : pc' = [pc EXCEPT ![Admin] = l]
      /\ cur' = cur \/ cur' = [cur EXCEPT ![Admin] = NoTask]
  BY DEF HandlePurge, PurgeCall, Purge, PurgeList, PurgeKey, PurgeScanned, PurgeProcessing,
         PurgeReturn, Return, Goto
<1> QED
  BY <1>1, <1>2 DEF OthersKeep, TypeOK, CallTypeOK

(* Steps in which no client moves.                                         *)
Still ==
    /\ UNCHANGED <<redisVars, faults, fresh, pc, cur, got, scan, purgeVars, arrived,
                   storeVars, workerVars, brokerVars>>
    /\ ctxDone \subseteq ctxDone'

(* Every step is one client's, or only a context is cancelled.             *)
LEMMA StepKinds ==
    ASSUME TypeOK, [Next]_vars
    PROVE  \/ \E w \in Worker : WorkerStep(w) /\ OthersKeep(w)
           \/ \E p \in Producer : RequestStep(p) /\ OthersKeep(p)
           \/ HandlePurge /\ OthersKeep(Admin)
           \/ Still
<1>1. CASE Cancel \/ (\E c \in Producer \cup {Admin} : Disconnect(c)) \/ UNCHANGED vars
  BY <1>1 DEF Cancel, Disconnect, vars, queueVars, Still
<1> QED
  BY <1>1, FrameOfWorker, FrameOfRequest, PurgeFrame DEF Next

(* Client c stays where it is, with what it has in hand.                   *)
Keeps(c) ==
    /\ pc'[c] = pc[c] /\ cur'[c] = cur[c]
    /\ c \in Worker => got'[c] = got[c] /\ scan'[c] = scan[c]

LEMMA ScanFrame ==
    ASSUME TypeOK, NEW w \in Worker, WorkerStep(w)
    PROVE  \A d \in Worker : d # w => scan'[d] = scan[d]
<1>0. scan \in [Worker -> Priority]
  BY DEF TypeOK, CallTypeOK
<1>1. scan' = scan \/ \E n : scan' = [scan EXCEPT ![w] = n]
  BY DEF WorkerStep, Handle, Poll, DequeueCall, Exit, QueueUntouched, DequeueStep, DequeueLPop,
         NextPriority, LeaveDequeue, DequeueGet, DequeueRequeue, Start, ExecuteSuccess,
         ExecuteFailure, SaveCompleted, AckTask, Ack, Settle, HandleTaskFailure, Retry,
         EnqueueCall, EnqueueStep, EnqueueSet, EnqueuePush, EnqueueUnset, EnqueueCount,
         MoveToDLQ, EnqueueDLQ, EnqueueDLQMeta, Nack, Crash, EndSaveTask
<1> QED
  BY <1>0, <1>1

(* A client that does not keep what it has is the one that acts.           *)
LEMMA Actor ==
    ASSUME TypeOK, [Next]_vars, NEW c \in Client, ~Keeps(c)
    PROVE  \/ c \in Worker /\ WorkerStep(c)
           \/ c \in Producer /\ RequestStep(c)
           \/ c = Admin /\ HandlePurge
<1> USE ClientAssumption
<1>1. CASE \E w \in Worker : WorkerStep(w) /\ OthersKeep(w)
  BY <1>1, ScanFrame DEF Keeps, OthersKeep
<1>2. CASE \E p \in Producer : RequestStep(p) /\ OthersKeep(p)
  <2> PICK p \in Producer : RequestStep(p) /\ OthersKeep(p)
    BY <1>2
  <2>1. scan' = scan /\ got' = got
    BY DEF RequestStep, Submit, HandleSubmit, EnqueueCall, SubmitStep, EnqueueSet, EnqueuePush,
           EnqueueUnset, SubmitAccepted, EnqueueCount, BrokerCrash
  <2> QED
    BY <2>1 DEF Keeps, OthersKeep
<1>3. CASE HandlePurge /\ OthersKeep(Admin)
  BY <1>3, PurgeFrame DEF Keeps, OthersKeep
<1>4. CASE Still
  BY <1>4 DEF Still, Keeps
<1> QED
  BY <1>1, <1>2, <1>3, <1>4, StepKinds

(* How a client gets to a label.                                           *)
LEMMA Arrives ==
    ASSUME TypeOK, TypeOK', [Next]_vars, NEW c \in Client, ~Keeps(c)
    PROVE  /\ pc'[c] = "set" => (c \in Producer /\ HandleSubmit(c)) \/ (c \in Worker /\ Retry(c))
           /\ pc'[c] = "push" => c \in Worker \cup Producer /\ EnqueueSet(c)
           /\ pc'[c] \in {"count", "unset"} => c \in Worker \cup Producer /\ EnqueuePush(c)
           /\ pc'[c] = "get" => c \in Worker /\ DequeueLPop(c)
           /\ pc'[c] \in {"requeue", "start"} => c \in Worker /\ DequeueGet(c)
           /\ pc'[c] = "lpop" => c \in Worker /\ (Poll(c) \/ DequeueLPop(c) \/ DequeueGet(c))
           /\ pc'[c] = "exec" => c \in Worker /\ Start(c)
           /\ pc'[c] = "completed" => c \in Worker /\ ExecuteSuccess(c)
           /\ pc'[c] = "failed" => c \in Worker /\ ExecuteFailure(c)
           /\ pc'[c] = "ack" => c \in Worker /\ SaveCompleted(c)
           /\ pc'[c] \in {"backoff", "dlq"} => c \in Worker /\ HandleTaskFailure(c)
           /\ pc'[c] = "dlqMeta" => c \in Worker /\ EnqueueDLQ(c)
           /\ pc'[c] = "nack" => c \in Worker /\ (EnqueueDLQ(c) \/ EnqueueDLQMeta(c))
<1>1. CASE c \in Worker /\ WorkerStep(c)
  BY <1>1, WorkerActions DEF Moves, Keeps, QueueUntouched
<1>2. CASE c \in Producer /\ RequestStep(c)
  BY <1>2, RequestActions DEF Moves
<1>3. CASE c = Admin
  <2>1. pc'[c] \in {"idle", "purgeLists", "purgeData", "purgeProcessing"}
    BY <1>3 DEF TypeOK, CallTypeOK
  <2> QED
    BY <2>1
<1> QED
  BY <1>1, <1>2, <1>3, Actor

-----------------------------------------------------------------------------
(* Who changes what.                                                       *)

(* The task at hand, at the labels that have one.                          *)
LEMMA TaskAtHand ==
    ASSUME TypeOK, NEW c \in Client, pc[c] \in HandlesTask \cup {"unset", "count"}
    PROVE  cur[c] \in Task /\ cur[c].id \in TaskId /\ cur[c].id # NoId /\ cur[c] # NoTask
BY TaskMethods, TaskAssumption, NoTaskAssumption DEF TypeOK, FrameOK

(* The data of x is written by SET, and deleted by the cleanup in Enqueue, *)
(* by Ack and Nack, or by the purge.                                       *)
LEMMA DataWriters ==
    ASSUME TypeOK, [Next]_vars, NEW x \in TaskId, taskData'[x] # taskData[x]
    PROVE  \/ \E c \in Worker \cup Producer :
                /\ EnqueueSet(c) /\ pc[c] = "set" /\ cur[c].id = x /\ taskData'[x] = cur[c]
           \/ /\ taskData'[x] = NoTask
              /\ \E c \in Worker \cup Producer :
                    /\ pc[c] \in {"unset", "ack", "nack"} /\ cur[c].id = x /\ ~Refused(c)
                    /\ pc'[c] = "idle" /\ (pc[c] # "unset" => c \in Worker /\ x # EmptyId)
           \/ taskData'[x] = NoTask /\ pc[Admin] = "purgeData" /\ HandlePurge
<1>0. taskData \in [TaskId -> Task \cup {NoTask}] /\ pc \in [Client -> Pc]
  BY DEF TypeOK, QueueTypeOK, CallTypeOK
<1>1. \/ \E c \in Worker \cup Producer : EnqueueSet(c) \/ EnqueueUnset(c)
      \/ \E w \in Worker : Ack(w) \/ Nack(w)
      \/ HandlePurge /\ PurgeKey
  BY DEF Next, WorkerStep, RequestStep, Submit, HandlePurge, Disconnect, Cancel, HandleSubmit,
         EnqueueCall, SubmitStep, SubmitAccepted, BrokerCrash, Poll, DequeueCall, Exit, Crash,
         Handle, DequeueStep, DequeueLPop, DequeueGet, DequeueRequeue, Start, ExecuteSuccess,
         ExecuteFailure, SaveCompleted, HandleTaskFailure, EndSaveTask, QueueUntouched, AckTask,
         Retry, EnqueueStep, EnqueuePush, EnqueueCount, MoveToDLQ, EnqueueDLQ, EnqueueDLQMeta,
         PurgeCall, Purge, PurgeList, PurgeScanned, PurgeProcessing, vars, queueVars, redisVars
<1>2. ASSUME NEW c \in Worker \cup Producer, EnqueueSet(c)
      PROVE  pc[c] = "set" /\ cur[c].id = x /\ taskData'[x] = cur[c]
  <2>1. cur[c].id \in TaskId
    BY <1>2, TaskAtHand DEF EnqueueSet, HandlesTask, Client
  <2> QED
    BY <1>0, <1>2, <2>1 DEF EnqueueSet
<1>3. ASSUME NEW c \in Worker \cup Producer, EnqueueUnset(c)
      PROVE  /\ taskData'[x] = NoTask /\ pc[c] = "unset" /\ cur[c].id = x /\ ~Refused(c)
             /\ pc'[c] = "idle"
  <2>1. cur[c].id \in TaskId
    BY <1>3, TaskAtHand DEF EnqueueUnset, Client
  <2> QED
    BY <1>0, <1>3, <2>1 DEF EnqueueUnset, Commands, Return, Client
<1>4. ASSUME NEW w \in Worker, Ack(w) \/ Nack(w)
      PROVE  /\ taskData'[x] = NoTask /\ pc[w] \in {"ack", "nack"} /\ cur[w].id = x /\ ~Refused(w)
             /\ pc'[w] = "idle" /\ x # EmptyId
  <2>1. pc[w] \in {"ack", "nack"} /\ \E k : Settle(w, k)
    BY <1>4 DEF Ack, Nack
  <2>2. cur[w].id \in TaskId
    BY <2>1, TaskAtHand DEF HandlesTask, Client
  <2> QED
    BY <1>0, <2>1, <2>2 DEF Settle, Commands, Return, Client
<1>5. ASSUME PurgeKey PROVE taskData'[x] = NoTask /\ pc[Admin] = "purgeData"
  BY <1>0, <1>5 DEF PurgeKey
<1> QED
  BY <1>1, <1>2, <1>3, <1>4, <1>5

(* Data stays under the id of the task it holds.                           *)
LEMMA KeyedStays ==
    ASSUME TypeOK, DataKeyed, [Next]_vars
    PROVE  DataKeyed'
<1> SUFFICES ASSUME NEW x \in TaskId, taskData'[x] # NoTask PROVE taskData'[x].id = x
  BY DEF DataKeyed
<1> QED
  BY DataWriters DEF DataKeyed

(* The result of x is written by the worker that executes it.              *)
LEMMA ResultWriters ==
    ASSUME TypeOK, [Next]_vars, NEW x \in TaskId, result'[x] # result[x]
    PROVE  \E w \in Worker : /\ pc[w] = "exec" /\ cur[w].id = x /\ x # EmptyId
                             /\ \/ ExecuteSuccess(w) /\ result'[x] = "success"
                                \/ ExecuteFailure(w) /\ result'[x] # "success"
<1>0. result \in [TaskId -> Result]
  BY DEF TypeOK, RecordTypeOK
<1>1. PICK w \in Worker : ExecuteSuccess(w) \/ ExecuteFailure(w)
  BY DEF Next, WorkerStep, RequestStep, Submit, HandlePurge, Disconnect, Cancel, HandleSubmit,
         SubmitStep, SubmitAccepted, BrokerCrash, Poll, Exit, Crash, Handle, DequeueStep,
         Start, SaveCompleted, HandleTaskFailure, EndSaveTask, SaveTaskIndex, AckTask, Retry,
         EnqueueStep, MoveToDLQ, QueueOnly, vars, storeVars
<1>2. PICK r \in Result : /\ SaveResult(w, cur[w].id, r)
                          /\ ExecuteSuccess(w) => r = "success"
                          /\ ExecuteFailure(w) /\ ~ExecuteSuccess(w) => r # "success"
  BY <1>1 DEF ExecuteSuccess, ExecuteFailure, Result
<1>3. pc[w] = "exec" /\ cur[w].id \in TaskId
  BY <1>1, TaskAtHand DEF ExecuteSuccess, ExecuteFailure, HandlesTask, Client
<1>4. result' = [result EXCEPT ![cur[w].id] = r] /\ cur[w].id # EmptyId
  BY <1>2 DEF SaveResult
<1> QED
  BY <1>0, <1>1, <1>2, <1>3, <1>4

(* EnqueueDLQ alone writes the dead letter list.                           *)
LEMMA DeadLetterWriters ==
    ASSUME TypeOK, [Next]_vars
    PROVE  dlq' = dlq \/ \E w \in Worker : EnqueueDLQ(w)
<1>1. \A c : EnqueueSet(c) \/ EnqueuePush(c) \/ EnqueueUnset(c) \/ EnqueueCount(c) => dlq' = dlq
  BY DEF EnqueueSet, EnqueuePush, EnqueueUnset, EnqueueCount
<1>2. ASSUME NEW w \in Worker, WorkerStep(w), ~EnqueueDLQ(w) PROVE dlq' = dlq
  <2>1. CASE Poll(w) \/ Exit(w) \/ Retry(w) \/ DequeueStep(w) \/ Crash(w)
    BY <2>1 DEF Poll, DequeueCall, Exit, QueueUntouched, Retry, EnqueueCall, DequeueStep, DequeueLPop,
                DequeueGet, DequeueRequeue, Crash, redisVars
  <2>2. CASE Start(w) \/ ExecuteSuccess(w) \/ ExecuteFailure(w) \/ SaveCompleted(w)
             \/ HandleTaskFailure(w) \/ EndSaveTask(w)
    BY <2>2 DEF Start, ExecuteSuccess, ExecuteFailure, SaveCompleted, HandleTaskFailure, EndSaveTask,
                QueueUntouched, redisVars
  <2>3. CASE AckTask(w) \/ MoveToDLQ(w)
    BY <1>2, <2>3 DEF AckTask, Ack, MoveToDLQ, EnqueueDLQMeta, Nack, Settle
  <2> QED
    BY <1>1, <1>2, <2>1, <2>2, <2>3 DEF WorkerStep, Handle, EnqueueStep
<1>3. ASSUME NEW p \in Producer, RequestStep(p) PROVE dlq' = dlq
  BY <1>1, <1>3 DEF RequestStep, Submit, HandleSubmit, EnqueueCall, SubmitStep, SubmitAccepted,
                    BrokerCrash, redisVars
<1> QED
  BY <1>2, <1>3, StepKinds, PurgeFrame DEF Still, redisVars

(* The dead letter list only grows.                                        *)
LEMMA DeadLettersStay ==
    ASSUME TypeOK, [Next]_vars, NEW x, InDLQ(x)
    PROVE  InDLQ(x)'
<1>0. dlq \in Seq(Task)
  BY DEF TypeOK, QueueTypeOK
<1>1. dlq' = dlq \/ \E w \in Worker : EnqueueDLQ(w)
  BY DeadLetterWriters
<1>2. CASE dlq' = dlq
  BY <1>2 DEF InDLQ
<1>3. ASSUME NEW w \in Worker, EnqueueDLQ(w) PROVE InDLQ(x)'
  <2> PICK u, o : dlq' = RPushed(dlq, u, o)
    BY <1>3 DEF EnqueueDLQ
  <2> PICK i \in DOMAIN dlq : dlq[i].id = x
    BY DEF InDLQ
  <2>1. i \in DOMAIN dlq' /\ dlq'[i] = dlq[i]
    <3>1. DOMAIN dlq = 1 .. Len(dlq) /\ Len(dlq) \in Nat
      BY <1>0
    <3>2. CASE dlq' = dlq
      BY <3>2
    <3>3. CASE dlq' = Append(dlq, u)
      BY <1>0, <3>1, <3>3
    <3>4. CASE dlq' = Append(Append(dlq, u), u)
      BY <1>0, <3>1, <3>4
    <3> QED
      BY <3>2, <3>3, <3>4 DEF RPushed
  <2> QED
    BY <2>1 DEF InDLQ
<1> QED
  BY <1>1, <1>2, <1>3

(* Every worker inside Dequeue takes note of the arrival of x.             *)
Noted(x) == \A w \in Worker : pc[w] \in {"lpop", "get", "start"} => x \in arrived'[w]

LEMMA PushedRange ==
    ASSUME NEW l \in Seq(TaskId), NEW y \in TaskId, NEW o, NEW m,
           m = RPushed(l, y, o) \/ m = LPushed(l, y, o)
    PROVE  \A x \in Range(m) : x \in Range(l) \/ (x = y /\ Executed(o))
<1> TAKE x \in Range(m)
<1> PICK i \in DOMAIN m : m[i] = x
  BY DEF Range
<1> DEFINE From(j) == j \in DOMAIN l /\ m[i] = l[j]
<1>1. CASE m = l
  BY <1>1 DEF Range
<1>2. CASE m = Append(l, y)
  <2>1. m[i] = y \/ From(i)
    BY <1>2
  <2> QED
    BY <1>2, <2>1, Append(l, y) # l DEF Range, RPushed, LPushed
<1>3. CASE m = Append(Append(l, y), y)
  <2>1. m[i] = y \/ From(i)
    BY <1>3
  <2>2. m # l
    BY <1>3
  <2> QED
    BY <2>1, <2>2 DEF Range, RPushed, LPushed
<1>4. CASE m = <<y>> \o l
  <2>1. m[i] = y \/ From(i - 1)
    BY <1>4
  <2>2. m # l
    BY <1>4
  <2> QED
    BY <2>1, <2>2 DEF Range, RPushed, LPushed
<1>5. CASE m = <<y, y>> \o l
  <2>1. m[i] = y \/ From(i - 2)
    BY <1>5
  <2>2. m # l
    BY <1>5
  <2> QED
    BY <2>1, <2>2 DEF Range, RPushed, LPushed
<1> QED
  BY <1>1, <1>2, <1>3, <1>4, <1>5 DEF RPushed, LPushed

LEMMA PoppedRange ==
    ASSUME NEW l \in Seq(TaskId), NEW o
    PROVE  /\ Range(Popped(l, o)) \subseteq Range(l)
           /\ o # "twice" => \A x \in Range(l) \ Range(Popped(l, o)) : l # <<>> /\ x = Head(l)
<1> DEFINE m == DropFirst(l)
           n == DropFirst(m)
<1>1. m \in Seq(TaskId) /\ Range(m) \subseteq Range(l)
      /\ \A x \in Range(l) \ Range(m) : l # <<>> /\ x = Head(l)
  <2>1. CASE l = <<>>
    BY <2>1 DEF DropFirst
  <2>2. CASE l # <<>>
    <3>1. m = Tail(l) /\ m \in Seq(TaskId) /\ Head(l) = l[1]
      BY <2>2 DEF DropFirst
    <3>2. \A i \in DOMAIN m : i + 1 \in DOMAIN l /\ m[i] = l[i + 1]
      BY <2>2 DEF DropFirst
    <3>3. \A i \in DOMAIN l : i = 1 \/ (i - 1 \in DOMAIN m /\ l[i] = m[i - 1])
      BY <2>2 DEF DropFirst
    <3> HIDE DEF m
    <3>4. Range(m) \subseteq Range(l)
      BY <3>2 DEF Range
    <3>5. ASSUME NEW x \in Range(l), x \notin Range(m) PROVE x = Head(l)
      <4> PICK i \in DOMAIN l : l[i] = x
        BY DEF Range
      <4> QED
        BY <3>1, <3>3, <3>5 DEF Range
    <3> QED
      BY <2>2, <3>1, <3>4, <3>5
  <2> QED
    BY <2>1, <2>2
<1>2. Range(n) \subseteq Range(m)
  <2>1. CASE m = <<>>
    BY <2>1 DEF DropFirst
  <2>2. CASE m # <<>>
    <3> HIDE DEF m
    <3>1. \A i \in DOMAIN n : i + 1 \in DOMAIN m /\ n[i] = m[i + 1]
      BY <1>1, <2>2 DEF DropFirst
    <3> HIDE DEF n
    <3> QED
      BY <3>1 DEF Range
  <2> QED
    BY <2>1, <2>2
<1>3. Popped(l, o) \in {l, m, n} /\ (o # "twice" => Popped(l, o) \in {l, m})
  BY DEF Popped
<1> HIDE DEF m, n
<1> QED
  BY <1>1, <1>2, <1>3

LEMMA ListActions ==
    ASSUME TypeOK, [Next]_vars
    PROVE  \/ lists' = lists
           \/ \E c \in Worker \cup Producer : EnqueuePush(c)
           \/ \E w \in Worker : DequeueLPop(w) \/ DequeueRequeue(w)
           \/ HandlePurge /\ PurgeList
BY DEF Next, WorkerStep, RequestStep, Submit, HandlePurge, Disconnect, Cancel, HandleSubmit,
       EnqueueCall, SubmitStep, SubmitAccepted, BrokerCrash, Poll, DequeueCall, Exit, Crash,
       Handle, DequeueStep, DequeueGet, Start, ExecuteSuccess, ExecuteFailure, SaveCompleted,
       HandleTaskFailure, EndSaveTask, QueueUntouched, AckTask, Ack, Settle, Retry, EnqueueStep,
       EnqueueSet, EnqueueUnset, EnqueueCount, MoveToDLQ, EnqueueDLQ, EnqueueDLQMeta, Nack, PurgeCall,
       Purge, PurgeKey, PurgeScanned, PurgeProcessing, vars, queueVars, redisVars

(* What the commands on the lists do.                                      *)
LEMMA PushEffect ==
    ASSUME TypeOK, NEW c \in Worker \cup Producer, EnqueuePush(c)
    PROVE  /\ pc[c] = "push" /\ cur[c].id \in TaskId /\ cur'[c] = cur[c]
           /\ \A l \in ListKey : l # queueKeys(cur[c].priority) => lists'[l] = lists[l]
           /\ \A x \in Range(lists'[queueKeys(cur[c].priority)]) :
                x \in Range(lists[queueKeys(cur[c].priority)]) \/ (x = cur[c].id /\ Noted(x))
<1> PICK k \in ListKey : k = queueKeys(cur[c].priority)
  BY KeyOfPriority
<1> PICK o \in Outcome :
        /\ lists' = [lists EXCEPT ![k] = RPushed(@, cur[c].id, o)]
        /\ NoteArrival(cur[c].id, o)
  BY DEF EnqueuePush
<1>1. lists \in [ListKey -> Seq(TaskId)] /\ lists[k] \in Seq(TaskId)
  BY DEF TypeOK, QueueTypeOK
<1>2. pc[c] = "push" /\ cur[c].id \in TaskId /\ cur'[c] = cur[c]
  BY TaskAtHand DEF EnqueuePush, HandlesTask, Client
<1>3. lists'[k] = RPushed(lists[k], cur[c].id, o) /\ \A l \in ListKey : l # k => lists'[l] = lists[l]
  BY <1>1
<1>4. Executed(o) => Noted(cur[c].id)
  BY DEF NoteArrival, Noted
<1>5. \A x \in Range(lists'[k]) : x \in Range(lists[k]) \/ (x = cur[c].id /\ Executed(o))
  <2> PICK l \in Seq(TaskId), y \in TaskId, m \in {lists'[k]} :
        l = lists[k] /\ y = cur[c].id /\ m = lists'[k] /\ m = RPushed(l, y, o)
    BY <1>1, <1>2, <1>3
  <2>1. m = RPushed(l, y, o)
    OBVIOUS
  <2>2. \A x \in Range(m) : x \in Range(l) \/ (x = y /\ Executed(o))
    BY ONLY l \in Seq(TaskId), y \in TaskId, <2>1, PushedRange, Zenon
  <2> QED
    BY <2>2
<1> QED
  BY <1>2, <1>3, <1>4, <1>5

LEMMA RequeueEffect ==
    ASSUME TypeOK, NEW w \in Worker, DequeueRequeue(w)
    PROVE  /\ pc[w] = "requeue" /\ got[w] \in TaskId /\ scan[w] \in ListKey
           /\ \A l \in ListKey : l # scan[w] => lists'[l] = lists[l]
           /\ \A x \in Range(lists'[scan[w]]) :
                x \in Range(lists[scan[w]]) \/ (x = got[w] /\ Noted(x))
<1> PICK k \in ListKey : k = scan[w]
  BY PriorityKeys DEF TypeOK, CallTypeOK
<1> PICK o \in Outcome :
        /\ lists' = [lists EXCEPT ![k] = LPushed(@, got[w], o)]
        /\ NoteArrival(got[w], o)
  BY DEF DequeueRequeue
<1>1. lists \in [ListKey -> Seq(TaskId)] /\ lists[k] \in Seq(TaskId)
  BY DEF TypeOK, QueueTypeOK
<1>2. pc[w] = "requeue" /\ got[w] \in TaskId
  BY DEF DequeueRequeue, TypeOK, FrameOK
<1>3. lists'[k] = LPushed(lists[k], got[w], o) /\ \A l \in ListKey : l # k => lists'[l] = lists[l]
  BY <1>1
<1>4. Executed(o) => Noted(got[w])
  BY DEF NoteArrival, Noted
<1>5. \A x \in Range(lists'[k]) : x \in Range(lists[k]) \/ (x = got[w] /\ Executed(o))
  <2> PICK l \in Seq(TaskId), y \in TaskId, m \in {lists'[k]} :
        l = lists[k] /\ y = got[w] /\ m = lists'[k] /\ m = LPushed(l, y, o)
    BY <1>1, <1>2, <1>3
  <2>1. m = LPushed(l, y, o)
    OBVIOUS
  <2>2. \A x \in Range(m) : x \in Range(l) \/ (x = y /\ Executed(o))
    BY ONLY l \in Seq(TaskId), y \in TaskId, <2>1, PushedRange, Zenon
  <2> QED
    BY <2>2
<1> QED
  BY <1>2, <1>3, <1>4, <1>5

LEMMA PopEffect ==
    ASSUME TypeOK, NEW w \in Worker, DequeueLPop(w)
    PROVE  /\ pc[w] = "lpop" /\ scan[w] \in ListKey
           /\ \A l \in ListKey : l # scan[w] => lists'[l] = lists[l]
           /\ Range(lists'[scan[w]]) \subseteq Range(lists[scan[w]])
           /\ pc'[w] = "get" => got'[w] \in Range(lists[scan[w]]) /\ scan'[w] = scan[w]
           /\ \A x \in Range(lists[scan[w]]) \ Range(lists'[scan[w]]) :
                faults' = faults => pc'[w] = "get" /\ got'[w] = x
           /\ pc'[w] = "lpop" => /\ scan'[w] = scan[w] - 1
                                 /\ faults' = faults \/ "twice" \notin FaultKinds =>
                                        lists[scan[w]] = <<>>
<1> PICK k \in ListKey : k = scan[w]
  BY PriorityKeys DEF TypeOK, CallTypeOK
<1>0. /\ w \in Client /\ pc \in [Client -> Pc] /\ got \in [Worker -> TaskId \cup {NoId}]
      /\ scan \in [Worker -> Priority] /\ faults \in Nat
      /\ lists \in [ListKey -> Seq(TaskId)] /\ lists[k] \in Seq(TaskId)
  BY DEF TypeOK, QueueTypeOK, CallTypeOK, Client
<1> PICK o \in Outcome :
        /\ Command(w, o)
        /\ lists' = [lists EXCEPT ![k] = Popped(lists[k], o)]
        /\ \/ ~Answered(o) /\ Return(w) /\ LeaveDequeue(w)
           \/ Answered(o) /\ PopReply(lists[k], o) = NoId /\ NextPriority(w)
           \/ /\ Answered(o) /\ PopReply(lists[k], o) # NoId
              /\ Goto(w, "get")
              /\ got' = [got EXCEPT ![w] = PopReply(lists[k], o)]
              /\ UNCHANGED <<cur, fresh, scan>>
  BY DEF DequeueLPop
<1>1. lists'[k] = Popped(lists[k], o) /\ \A l \in ListKey : l # k => lists'[l] = lists[l]
  BY <1>0
<1>2. pc[w] = "lpop"
  BY DEF DequeueLPop
<1>3. faults' = faults => o \in {"ok", "error"}
  BY <1>0 DEF Command
<1>4. o = "twice" => "twice" \in FaultKinds /\ faults' # faults
  BY <1>0 DEF Command
<1>5. Range(lists'[k]) \subseteq Range(lists[k])
  BY <1>0, <1>1, PoppedRange
<1>6. ASSUME pc'[w] = "get" PROVE got'[w] \in Range(lists[k]) /\ scan'[w] = scan[w]
  <2>1. /\ PopReply(lists[k], o) # NoId /\ got'[w] = PopReply(lists[k], o) /\ scan' = scan
    BY <1>0, <1>6 DEF Return, NextPriority, Goto
  <2>2. \A l \in Seq(TaskId) : l # <<>> => Head(l) \in Range(l)
    BY DEF Range
  <2>3. DropFirst(lists[k]) \in Seq(TaskId) /\ Range(DropFirst(lists[k])) \subseteq Range(lists[k])
    <3>1. Popped(lists[k], "ok") = DropFirst(lists[k])
      BY DEF Popped, Executed
    <3>2. Range(DropFirst(lists[k])) \subseteq Range(lists[k])
      BY ONLY <1>0, <3>1, PoppedRange, Zenon
    <3> QED
      BY <1>0, <3>2 DEF DropFirst
  <2> QED
    BY <1>0, <2>1, <2>2, <2>3 DEF PopReply
<1>7. ASSUME NEW x \in Range(lists[k]), x \notin Range(lists'[k]), faults' = faults
      PROVE  pc'[w] = "get" /\ got'[w] = x
  <2>1. lists[k] # <<>> /\ x = Head(lists[k])
    BY <1>0, <1>1, <1>4, <1>7, PoppedRange
  <2>2. o = "ok"
    BY <1>1, <1>3, <1>7 DEF Popped, Executed
  <2>3. PopReply(lists[k], o) = x /\ x # NoId
    BY <1>0, <2>1, <2>2, TaskAssumption DEF PopReply
  <2> QED
    BY <1>0, <2>2, <2>3 DEF Answered, Goto
<1>8. ASSUME pc'[w] = "lpop"
      PROVE  scan'[w] = scan[w] - 1 /\ (faults' = faults \/ "twice" \notin FaultKinds => lists[k] = <<>>)
  <2>1. PopReply(lists[k], o) = NoId /\ scan'[w] = scan[w] - 1
    BY <1>0, <1>8 DEF Return, NextPriority, Goto
  <2>2. o # "twice" => lists[k] = <<>>
    BY <1>0, <2>1, TaskAssumption DEF PopReply
  <2> QED
    BY <1>4, <2>1, <2>2
<1> QED
  BY <1>1, <1>2, <1>5, <1>6, <1>7, <1>8

(* How an id gets into a list, and out of it.                              *)
LEMMA ListedFrom ==
    ASSUME TypeOK, [Next]_vars, NEW x \in TaskId, NEW k \in ListKey,
           x \in Range(lists'[k]), x \notin Range(lists[k])
    PROVE  /\ Noted(x)
           /\ \/ \E c \in Worker \cup Producer : /\ EnqueuePush(c) /\ pc[c] = "push"
                                                 /\ cur[c].id = x /\ k = queueKeys(cur[c].priority)
              \/ \E w \in Worker : /\ DequeueRequeue(w) /\ pc[w] = "requeue"
                                   /\ got[w] = x /\ k = scan[w]
<1>1. ASSUME NEW w \in Worker, DequeueLPop(w) PROVE FALSE
  BY <1>1, PopEffect
<1>2. ASSUME PurgeList PROVE FALSE
  <2>1. lists \in [ListKey -> Seq(TaskId)]
    BY DEF TypeOK, QueueTypeOK
  <2>2. lists'[k] = lists[k] \/ lists'[k] = <<>>
    BY <1>2, <2>1 DEF PurgeList
  <2>3. Range(<<>>) = {}
    BY DEF Range
  <2> QED
    BY <2>2, <2>3
<1>3. ASSUME NEW c \in Worker \cup Producer, EnqueuePush(c)
      PROVE  pc[c] = "push" /\ cur[c].id = x /\ k = queueKeys(cur[c].priority) /\ Noted(x)
  BY <1>3, PushEffect
<1>4. ASSUME NEW w \in Worker, DequeueRequeue(w)
      PROVE  pc[w] = "requeue" /\ got[w] = x /\ k = scan[w] /\ Noted(x)
  BY <1>4, RequeueEffect
<1> QED
  BY <1>1, <1>2, <1>3, <1>4, ListActions

LEMMA ListedTo ==
    ASSUME TypeOK, [Next]_vars, NEW x \in TaskId, NEW k \in ListKey,
           x \in Range(lists[k]), x \notin Range(lists'[k])
    PROVE  \/ \E w \in Worker : /\ DequeueLPop(w) /\ k = scan[w]
                                /\ faults' = faults => pc'[w] = "get" /\ got'[w] = x
           \/ HandlePurge /\ PurgeList
<1>1. ASSUME NEW w \in Worker, DequeueLPop(w)
      PROVE  k = scan[w] /\ (faults' = faults => pc'[w] = "get" /\ got'[w] = x)
  BY <1>1, PopEffect
<1>2. ASSUME NEW l \in Seq(TaskId), NEW y \in TaskId, NEW o
      PROVE  Range(l) \subseteq Range(RPushed(l, y, o)) /\ Range(l) \subseteq Range(LPushed(l, y, o))
  <2>1. Range(l) \subseteq Range(Append(l, y))
    <3>1. \A i \in DOMAIN l : i \in DOMAIN Append(l, y) /\ Append(l, y)[i] = l[i]
      OBVIOUS
    <3> QED
      BY <3>1 DEF Range
  <2>2. Range(l) \subseteq Range(Append(Append(l, y), y))
    <3>1. \A i \in DOMAIN l : /\ i \in DOMAIN Append(Append(l, y), y)
                              /\ Append(Append(l, y), y)[i] = l[i]
      OBVIOUS
    <3> QED
      BY <3>1 DEF Range
  <2>3. Range(l) \subseteq Range(<<y>> \o l)
    <3>1. \A i \in DOMAIN l : i + 1 \in DOMAIN (<<y>> \o l) /\ (<<y>> \o l)[i + 1] = l[i]
      OBVIOUS
    <3> QED
      BY <3>1 DEF Range
  <2>4. Range(l) \subseteq Range(<<y, y>> \o l)
    <3>1. \A i \in DOMAIN l : i + 2 \in DOMAIN (<<y, y>> \o l) /\ (<<y, y>> \o l)[i + 2] = l[i]
      OBVIOUS
    <3> QED
      BY <3>1 DEF Range
  <2> QED
    BY <2>1, <2>2, <2>3, <2>4 DEF RPushed, LPushed
<1>3. lists \in [ListKey -> Seq(TaskId)] /\ lists[k] \in Seq(TaskId)
  BY DEF TypeOK, QueueTypeOK
<1>4. ASSUME NEW c \in Worker \cup Producer, EnqueuePush(c) PROVE FALSE
  <2>1. cur[c].id \in TaskId /\ \A l \in ListKey : l # queueKeys(cur[c].priority) => lists'[l] = lists[l]
    BY <1>4, PushEffect
  <2>2. \E o : lists'[k] = RPushed(lists[k], cur[c].id, o)
    BY <1>3, <1>4, <2>1 DEF EnqueuePush
  <2> QED
    BY <1>2, <1>3, <2>1, <2>2
<1>5. ASSUME NEW w \in Worker, DequeueRequeue(w) PROVE FALSE
  <2>1. got[w] \in TaskId /\ \A l \in ListKey : l # scan[w] => lists'[l] = lists[l]
    BY <1>5, RequeueEffect
  <2>2. \E o : lists'[k] = LPushed(lists[k], got[w], o)
    BY <1>3, <1>5, <2>1 DEF DequeueRequeue
  <2> QED
    BY <1>2, <1>3, <2>1, <2>2
<1> QED
  BY <1>1, <1>4, <1>5, ListActions

(* How an id gets into a client's hands.                                   *)
LEMMA HeldFrom ==
    ASSUME TypeOK, TypeOK', DataKeyed, [Next]_vars, NEW d \in Client, NEW x \in TaskId,
           Held(d)' = x, Held(d) # x
    PROVE  \/ d \in Worker /\ DequeueLPop(d) /\ pc'[d] = "get" /\ Listed(x)
           \/ d \in Producer /\ HandleSubmit(d) /\ pc'[d] = "set" /\ Waiting(x)
<1>0. x # NoId /\ pc'[d] \in HandlesTask \cup {"get", "requeue"}
  BY TaskAssumption DEF Held
<1>1. ~Keeps(d)
  <2>1. pc[d] \in {"get", "requeue"} => d \in Worker
    BY DEF TypeOK, CallTypeOK, Client
  <2> QED
    BY <2>1 DEF Keeps, Held
<1>t. /\ pc \in [Client -> Pc] /\ cur \in [Client -> Task \cup {NoTask}]
      /\ got \in [Worker -> TaskId \cup {NoId}]
  BY DEF TypeOK, CallTypeOK
<1>2. CASE pc'[d] = "get"
  <2>1. d \in Worker /\ DequeueLPop(d)
    BY <1>1, <1>2, Arrives
  <2>2. scan[d] \in ListKey /\ got'[d] \in Range(lists[scan[d]])
    BY <1>2, <2>1, PopEffect
  <2>3. Listed(x)
    BY <1>2, <2>2 DEF Held, Listed
  <2> QED
    BY <1>2, <2>1, <2>3
<1>3. CASE pc'[d] \in {"requeue", "start"}
  <2>1. d \in Worker /\ DequeueGet(d) /\ pc[d] = "get"
    BY <1>1, <1>3, Arrives DEF DequeueGet
  <2>2. got[d] \in TaskId
    BY <2>1 DEF TypeOK, FrameOK
  <2>3. CASE pc'[d] = "requeue"
    <3>1. got'[d] = got[d]
      BY <1>t, <2>1, <2>3 DEF DequeueGet, Goto, NextPriority, Return, LeaveDequeue
    <3> QED
      BY <2>1, <2>3, <3>1 DEF Held
  <2>4. CASE pc'[d] = "start"
    <3>1. cur'[d] = taskData[got[d]] /\ taskData[got[d]] # NoTask
      BY <1>t, <2>1, <2>4 DEF DequeueGet, Goto, NextPriority, Return, LeaveDequeue
    <3> QED
      BY <2>1, <2>2, <2>4, <3>1 DEF Held, DataKeyed, HandlesTask
  <2> QED
    BY <1>3, <2>3, <2>4
<1>4. CASE pc'[d] = "set"
  <2>1. CASE d \in Producer /\ HandleSubmit(d)
    <3>1. cur'[d] = Request[d][sent[d] + 1]
      BY <1>t, <2>1 DEF HandleSubmit, EnqueueCall
    <3> QED
      BY <1>4, <2>1, <3>1, NextOfRequest DEF Held, HandlesTask
  <2>2. CASE d \in Worker /\ Retry(d)
    <3>1. pc[d] = "backoff" /\ cur'[d] = cur[d]
      BY <1>t, <2>2 DEF Retry, EnqueueCall
    <3> QED
      BY <1>4, <3>1 DEF Held, HandlesTask
  <2> QED
    BY <1>1, <1>4, <2>1, <2>2, Arrives
<1>5. CASE pc'[d] \in {"exec", "completed", "failed", "ack", "backoff", "dlq"}
  <2>1. Start(d) \/ ExecuteSuccess(d) \/ ExecuteFailure(d) \/ SaveCompleted(d) \/ HandleTaskFailure(d)
    BY <1>1, <1>5, Arrives
  <2>2. pc[d] \in {"start", "exec", "completed", "failed"}
    BY <2>1 DEF Start, ExecuteSuccess, ExecuteFailure, SaveCompleted, HandleTaskFailure
  <2>3. cur[d] \in Task
    BY <2>2, TaskAtHand DEF HandlesTask
  <2> PICK t \in Task : t = cur[d]
    BY <2>3
  <2>4. cur'[d] \in {t, MarkStarted(t), MarkCompleted(t), MarkFailed(t)}
    BY <1>t, <2>1 DEF Start, ExecuteSuccess, ExecuteFailure, SaveCompleted, HandleTaskFailure
  <2>5. MarkStarted(t).id = t.id /\ MarkCompleted(t).id = t.id /\ MarkFailed(t).id = t.id
    BY TaskMethods
  <2>6. cur'[d].id = cur[d].id
    BY <2>4, <2>5
  <2> QED
    BY <1>5, <2>2, <2>6 DEF Held, HandlesTask
<1>6. CASE pc'[d] \in {"push", "dlqMeta", "nack"}
  <2>1. EnqueueSet(d) \/ EnqueueDLQ(d) \/ EnqueueDLQMeta(d)
    BY <1>1, <1>6, Arrives
  <2>2. pc[d] \in {"set", "dlq", "dlqMeta"} /\ cur'[d] = cur[d]
    BY <1>t, <1>6, <2>1 DEF EnqueueSet, EnqueueDLQ, EnqueueDLQMeta, Return
  <2> QED
    BY <1>6, <2>2 DEF Held, HandlesTask
<1> QED
  BY <1>0, <1>2, <1>3, <1>4, <1>5, <1>6 DEF HandlesTask

LEMMA RequestsMoveOn ==
    ASSUME TypeOK, [Next]_vars
    PROVE  Onward
<1>0. sent \in [Producer -> Nat] /\ \A p \in Producer : sent[p] <= Len(Request[p])
  BY DEF TypeOK, RecordTypeOK
<1>1. \/ sent' = sent
      \/ \E p \in Producer : HandleSubmit(p) \/ BrokerCrash(p)
  BY DEF Next, WorkerStep, RequestStep, Submit, HandlePurge, Disconnect, Cancel, SubmitStep,
         SubmitAccepted, vars, brokerVars
<1>2. CASE sent' = sent
  BY <1>0, <1>2 DEF Onward
<1>3. ASSUME NEW p \in Producer, HandleSubmit(p) \/ BrokerCrash(p) PROVE Onward
  <2>1. sent' = [sent EXCEPT ![p] = sent[p] + 1] \/ sent' = [sent EXCEPT ![p] = Len(Request[p])]
    BY <1>3 DEF HandleSubmit, BrokerCrash
  <2>2. Len(Request[p]) \in Nat /\ sent[p] <= Len(Request[p])
    BY <1>0, RequestAssumption
  <2> QED
    BY <1>0, <2>1, <2>2 DEF Onward
<1> QED
  BY <1>1, <1>2, <1>3

(* A cancelled context stays so until its worker dies.                     *)
LEMMA ContextsStay ==
    ASSUME TypeOK, [Next]_vars
    PROVE  \/ ctxDone \subseteq ctxDone'
           \/ \E w \in Worker : Crash(w)
<1>1. \A c : EnqueueSet(c) \/ EnqueuePush(c) \/ EnqueueUnset(c) \/ EnqueueCount(c)
                => ctxDone' = ctxDone
  BY DEF EnqueueSet, EnqueuePush, EnqueueUnset, EnqueueCount
<1>2. ASSUME NEW w \in Worker, WorkerStep(w), ~Crash(w) PROVE ctxDone' = ctxDone
  <2>1. CASE Poll(w) \/ Exit(w) \/ Retry(w) \/ DequeueStep(w)
    BY <2>1 DEF Poll, DequeueCall, Exit, QueueUntouched, Retry, EnqueueCall, DequeueStep, DequeueLPop,
                DequeueGet, DequeueRequeue
  <2>2. CASE Start(w) \/ ExecuteSuccess(w) \/ ExecuteFailure(w) \/ SaveCompleted(w)
             \/ HandleTaskFailure(w) \/ EndSaveTask(w)
    BY <2>2 DEF Start, ExecuteSuccess, ExecuteFailure, SaveCompleted, HandleTaskFailure, EndSaveTask,
                QueueUntouched
  <2>3. CASE AckTask(w) \/ MoveToDLQ(w)
    BY <2>3 DEF AckTask, Ack, MoveToDLQ, EnqueueDLQ, EnqueueDLQMeta, Nack, Settle
  <2> QED
    BY <1>1, <1>2, <2>1, <2>2, <2>3 DEF WorkerStep, Handle, EnqueueStep
<1>3. ASSUME NEW p \in Producer, RequestStep(p) PROVE ctxDone' = ctxDone
  BY <1>1, <1>3 DEF RequestStep, Submit, HandleSubmit, EnqueueCall, SubmitStep, SubmitAccepted, BrokerCrash
<1> QED
  BY <1>2, <1>3, StepKinds, PurgeFrame DEF Still

(* A client whose commands are refused goes on being refused until its call*)
(* returns or the next one begins.                                         *)
LEMMA RefusedStays ==
    ASSUME TypeOK, [Next]_vars, NEW c \in Client, Refused(c), pc'[c] \notin {"idle", "lpop", "set"}
    PROVE  Refused(c)'
<1>0. pc \in [Client -> Pc]
  BY DEF TypeOK, CallTypeOK
<1>1. c \in ctxDone'
  <2>1. \/ ctxDone \subseteq ctxDone'
        \/ \E w \in Worker : Crash(w)
    BY ContextsStay
  <2>2. ASSUME NEW w \in Worker, Crash(w) PROVE c \in ctxDone'
    BY <1>0, <2>2 DEF Crash, Return, Refused
  <2> QED
    BY <2>1, <2>2 DEF Refused
<1>2. c \notin fresh'
  <2>1. \/ fresh' \subseteq fresh
        \/ \E d \in Client : EnqueueCall(d, cur'[d]) \/ (d \in Worker /\ DequeueCall(d))
    <3>1. \A d : Return(d) => fresh' \subseteq fresh
      BY DEF Return
    <3>2. ASSUME NEW p \in Producer, HandleSubmit(p) PROVE EnqueueCall(p, cur'[p])
      BY <3>2 DEF HandleSubmit, EnqueueCall, TypeOK, CallTypeOK, Client
    <3>3. ASSUME NEW w \in Worker, Retry(w) PROVE EnqueueCall(w, cur'[w])
      BY <3>3 DEF Retry, EnqueueCall, TypeOK, CallTypeOK, Client
    <3>4. HandlePurge => fresh' \subseteq fresh
      BY <3>1 DEF HandlePurge, PurgeCall, Purge, PurgeList, PurgeKey, PurgeScanned,
            PurgeProcessing, PurgeReturn
    <3>5. \A d : EnqueueSet(d) \/ EnqueuePush(d) \/ EnqueueUnset(d) \/ EnqueueCount(d) =>
                fresh' \subseteq fresh
      BY <3>1 DEF EnqueueSet, EnqueuePush, EnqueueUnset, EnqueueCount
    <3>6. \A w : DequeueLPop(w) \/ DequeueGet(w) \/ DequeueRequeue(w) => fresh' \subseteq fresh
      BY <3>1 DEF DequeueLPop, DequeueGet, DequeueRequeue, NextPriority
    <3>7. \A w : EnqueueDLQ(w) \/ EnqueueDLQMeta(w) \/ Ack(w) \/ Nack(w) \/ Exit(w) \/ Crash(w) =>
                fresh' \subseteq fresh
      BY <3>1 DEF EnqueueDLQ, EnqueueDLQMeta, Ack, Nack, Settle, Exit, Crash, QueueUntouched
    <3>8. \A w : Start(w) \/ ExecuteSuccess(w) \/ ExecuteFailure(w) \/ SaveCompleted(w)
                \/ HandleTaskFailure(w) \/ EndSaveTask(w) => fresh' \subseteq fresh
      BY DEF Start, ExecuteSuccess, ExecuteFailure, SaveCompleted, HandleTaskFailure, EndSaveTask,
             QueueUntouched
    <3>9. \A d : Disconnect(d) \/ Cancel \/ UNCHANGED vars => fresh' \subseteq fresh
      BY DEF Disconnect, Cancel, vars, queueVars
    <3> QED
      BY <3>1, <3>2, <3>3, <3>4, <3>5, <3>6, <3>7, <3>8, <3>9
         DEF Next, WorkerStep, RequestStep, Submit, SubmitStep, SubmitAccepted, BrokerCrash, Poll,
             Handle, DequeueStep, AckTask, EnqueueStep, MoveToDLQ, Client
  <2>2. ASSUME NEW d \in Client, EnqueueCall(d, cur'[d]) \/ DequeueCall(d) PROVE c \notin fresh'
    <3>1. pc'[d] \in {"set", "lpop"} /\ fresh' \subseteq fresh \cup {d}
      BY <1>0, <2>2 DEF EnqueueCall, DequeueCall, Goto, OwnContext
    <3> QED
      BY <3>1 DEF Refused
  <2> QED
    BY <2>1, <2>2 DEF Refused
<1> QED
  BY <1>1, <1>2 DEF Refused

LEMMA FaultsAdd ==
    ASSUME TypeOK, [Next]_vars
    PROVE  faults' \in {faults, faults + 1} /\ faults \in Nat
<1>0. faults \in Nat
  BY DEF TypeOK, QueueTypeOK
<1>1. \A c, o : Command(c, o) => faults' \in {faults, faults + 1}
  BY DEF Command
<1>2. \A c, S, T : Commands(c, S, T) => faults' \in {faults, faults + 1}
  BY DEF Commands
<1>3. \A c, t : SaveTask(c, t) \/ SaveTaskIndex(c) => faults' \in {faults, faults + 1}
  BY <1>1, <1>2 DEF SaveTask, SaveTaskIndex
<1>4. \A c, x, r : SaveResult(c, x, r) => faults' \in {faults, faults + 1}
  BY <1>2 DEF SaveResult
<1>5. \A w, k : Settle(w, k) => faults' \in {faults, faults + 1}
  BY <1>2 DEF Settle
<1>6. HandlePurge => faults' \in {faults, faults + 1}
  BY <1>1, <1>2 DEF HandlePurge, PurgeCall, Purge, PurgeList, PurgeKey, PurgeScanned, PurgeProcessing
<1>7. \A c : EnqueueSet(c) \/ EnqueuePush(c) \/ EnqueueUnset(c) \/ EnqueueCount(c) =>
            faults' \in {faults, faults + 1}
  BY <1>1, <1>2 DEF EnqueueSet, EnqueuePush, EnqueueUnset, EnqueueCount
<1>8. \A w : DequeueLPop(w) \/ DequeueGet(w) \/ DequeueRequeue(w) \/ EnqueueDLQ(w) \/ EnqueueDLQMeta(w) =>
            faults' \in {faults, faults + 1}
  BY <1>1, <1>2 DEF DequeueLPop, DequeueGet, DequeueRequeue, EnqueueDLQ, EnqueueDLQMeta
<1> QED
  BY <1>0, <1>3, <1>4, <1>5, <1>6, <1>7, <1>8
     DEF Next, WorkerStep, RequestStep, Submit, Disconnect, Cancel, HandleSubmit, EnqueueCall,
         SubmitStep, SubmitAccepted, BrokerCrash, Poll, DequeueCall, Exit, Crash, Handle,
         DequeueStep, Start, ExecuteSuccess, ExecuteFailure, SaveCompleted, HandleTaskFailure,
         EndSaveTask, AckTask, Ack, Retry, EnqueueStep, MoveToDLQ, Nack, vars, queueVars

(* An id that nobody will start stays so.                                  *)
LEMMA GoneStays ==
    ASSUME TypeOK, TypeOK', DataKeyed, [Next]_vars, NEW x \in TaskId, NEW S,
           S = {} \/ S = {"completed", "ack"}, Gone(x, S)
    PROVE  Gone(x, S)'
<1>1. ASSUME NEW c \in Client, Held(c) = x PROVE pc[c] \in {"completed", "ack"}
  BY <1>1 DEF Gone
<1>2. ~Listed(x)'
  <2> SUFFICES ASSUME NEW k \in ListKey, x \in Range(lists'[k]) PROVE FALSE
    BY DEF Listed
  <2>1. x \notin Range(lists[k])
    BY DEF Gone, Listed
  <2>2. ASSUME NEW c \in Worker \cup Producer, pc[c] = "push", cur[c].id = x PROVE FALSE
    BY <1>1, <2>2 DEF Held, HandlesTask, Client
  <2>3. ASSUME NEW w \in Worker, pc[w] = "requeue", got[w] = x PROVE FALSE
    BY <1>1, <2>3 DEF Held, Client
  <2> QED
    BY <2>1, <2>2, <2>3, ListedFrom
<1>3. ~Waiting(x)'
  BY RequestsMoveOn, StillWaiting DEF Gone
<1>4. ASSUME NEW c \in Client, Held(c)' = x PROVE pc'[c] \in S
  <2>1. Held(c) = x /\ pc[c] \in S
    BY <1>4, HeldFrom DEF Gone
  <2>2. CASE Keeps(c)
    BY <2>1, <2>2 DEF Keeps
  <2>3. CASE ~Keeps(c)
    <3>1. pc[c] \in {"completed", "ack"} /\ x # NoId
      BY <2>1, TaskAssumption
    <3>2. pc'[c] \in HandlesTask \cup {"get", "requeue"}
      BY <1>4, <3>1 DEF Held
    <3>3. pc'[c] = "ack"
      BY <2>3, <3>1, <3>2, Arrives
         DEF HandlesTask, HandleSubmit, Retry, EnqueueSet, DequeueLPop, DequeueGet, Start,
             ExecuteSuccess, ExecuteFailure, HandleTaskFailure, EnqueueDLQ, EnqueueDLQMeta
    <3> QED
      BY <2>1, <3>3
  <2> QED
    BY <2>2, <2>3
<1> QED
  BY <1>2, <1>3, <1>4 DEF Gone

-----------------------------------------------------------------------------
(* Records and results.                                                    *)

(* No command fails without having been executed.                          *)
NoErrors == "error" \notin FaultKinds

(* The record of x is written by the worker that handles it.               *)
LEMMA RecordWriters ==
    ASSUME TypeOK, [Next]_vars, NEW x \in TaskId, store'[x] # store[x]
    PROVE  \E w \in Worker :
            /\ cur[w] \in Task /\ cur[w].id = x /\ Held(w) = x /\ ~Refused(w) /\ x # EmptyId
            /\ \/ Start(w) /\ store'[x] = MarkStarted(cur[w])
               \/ SaveCompleted(w) /\ store'[x] = MarkCompleted(cur[w])
               \/ HandleTaskFailure(w) /\ store'[x] = MarkFailed(cur[w])
<1>0. store \in [TaskId -> Task \cup {NoTask}]
  BY DEF TypeOK, RecordTypeOK
<1>1. PICK w \in Worker : Start(w) \/ SaveCompleted(w) \/ HandleTaskFailure(w)
  BY DEF Next, WorkerStep, RequestStep, Submit, HandlePurge, Disconnect, Cancel, HandleSubmit,
         SubmitStep, SubmitAccepted, BrokerCrash, Poll, Exit, Crash, Handle, DequeueStep,
         ExecuteSuccess, ExecuteFailure, EndSaveTask, SaveTaskIndex, AckTask, Retry, EnqueueStep,
         MoveToDLQ, QueueOnly, vars, storeVars
<1>2. pc[w] \in {"start", "completed", "failed"}
  BY <1>1 DEF Start, SaveCompleted, HandleTaskFailure
<1>3. cur[w] \in Task /\ Held(w) = cur[w].id
  BY <1>2, TaskAtHand DEF HandlesTask, Held, Client
<1> PICK u \in Task : u = cur[w]
  BY <1>3
<1>4. ASSUME NEW t \in Task, t.id = u.id, SaveTask(w, t)
      PROVE  u.id = x /\ ~Refused(w) /\ x # EmptyId /\ store'[x] = t
  <2>1. store' = [store EXCEPT ![t.id] = t] /\ ~Refused(w) /\ t.id # EmptyId
    BY <1>4 DEF SaveTask, Command, Executed
  <2> QED
    BY <1>0, <1>4, <2>1
<1>5. /\ MarkStarted(u) \in Task /\ MarkStarted(u).id = u.id
      /\ MarkCompleted(u) \in Task /\ MarkCompleted(u).id = u.id
      /\ MarkFailed(u) \in Task /\ MarkFailed(u).id = u.id
  BY TaskMethods
<1>6. CASE Start(w)
  <2>1. SaveTask(w, MarkStarted(u))
    BY <1>6 DEF Start
  <2> QED
    BY <1>3, <1>4, <1>5, <1>6, <2>1
<1>7. CASE SaveCompleted(w)
  <2>1. SaveTask(w, MarkCompleted(u))
    BY <1>7 DEF SaveCompleted
  <2> QED
    BY <1>3, <1>4, <1>5, <1>7, <2>1
<1>8. CASE HandleTaskFailure(w)
  <2>1. SaveTask(w, MarkFailed(u))
    BY <1>8 DEF HandleTaskFailure
  <2> QED
    BY <1>3, <1>4, <1>5, <1>8, <2>1
<1> QED
  BY <1>1, <1>6, <1>7, <1>8

(* The state a record gets.                                                *)
LEMMA MarkedStates ==
    ASSUME NEW t \in Task
    PROVE  /\ MarkStarted(t).state = "processing"
           /\ MarkCompleted(t).state = "completed"
           /\ MarkFailed(t).state \in {"retrying", "dead_letter"}
BY DEF Task, MarkStarted, MarkCompleted, MarkFailed

Succeeded == {"completed", "ack"}

(* A task with the result of a success will not be started again, and is   *)
(* not dead; the record of a completion was preceded by that result.       *)
ResultInv ==
    /\ BudgetInv
    /\ \A x \in TaskId :
        /\ result[x] = "success" => Gone(x, Succeeded) /\ ~Recorded(x, "dead_letter")
        /\ Recorded(x, "completed") => result[x] = "success"
    /\ \A w \in Worker : pc[w] = "completed" =>
        result[cur[w].id] = "success" \/ Refused(w) \/ cur[w].id = EmptyId

(* The result of a success is not overwritten.                             *)
LEMMA SuccessStays ==
    ASSUME ResultInv, [Next]_vars, NEW x \in TaskId, result[x] = "success"
    PROVE  result'[x] = "success"
<1> SUFFICES ASSUME result'[x] # result[x] PROVE FALSE
  OBVIOUS
<1>1. TypeOK
  BY DEF ResultInv, BudgetInv, IInv
<1> PICK w \in Worker : pc[w] = "exec" /\ cur[w].id = x
  BY <1>1, ResultWriters
<1>2. Held(w) = x /\ w \in Client
  BY DEF Held, HandlesTask, Client
<1> QED
  BY <1>2 DEF ResultInv, Gone, Succeeded

LEMMA ResultStays ==
    ASSUME UniqueIds, NoRepeats, NoErrors, ResultInv, [Next]_vars
    PROVE  ResultInv'
<1>0. BudgetInv /\ BudgetInv' /\ TypeOK /\ TypeOK' /\ DataKeyed /\ IInv'
  BY NextBudget DEF ResultInv, BudgetInv, IInv
<1>1. ASSUME NEW x \in TaskId, result'[x] = "success"
      PROVE  Gone(x, Succeeded)' /\ ~Recorded(x, "dead_letter")'
  <2>1. CASE result[x] = "success"
    <3>1. Gone(x, Succeeded) /\ ~Recorded(x, "dead_letter")
      BY <2>1 DEF ResultInv
    <3>2. Gone(x, Succeeded)'
      BY <1>0, <3>1, GoneStays DEF Succeeded
    <3>3. ASSUME store'[x] # store[x] PROVE store'[x].state = "completed"
      <4> PICK w \in Worker :
            /\ cur[w] \in Task /\ Held(w) = x
            /\ \/ Start(w) /\ store'[x] = MarkStarted(cur[w])
               \/ SaveCompleted(w) /\ store'[x] = MarkCompleted(cur[w])
               \/ HandleTaskFailure(w) /\ store'[x] = MarkFailed(cur[w])
        BY <1>0, <3>3, RecordWriters
      <4>1. pc[w] \in Succeeded
        BY <3>1 DEF Gone, Client
      <4>2. SaveCompleted(w) /\ store'[x] = MarkCompleted(cur[w])
        BY <4>1 DEF Succeeded, Start, HandleTaskFailure
      <4> QED
        BY <4>2, MarkedStates
    <3> QED
      BY <3>1, <3>2, <3>3 DEF Recorded
  <2>2. CASE result[x] # "success"
    <3> PICK w \in Worker : pc[w] = "exec" /\ cur[w].id = x /\ ExecuteSuccess(w)
      BY <1>0, <1>1, <2>2, ResultWriters
    <3>1. Held(w) = x /\ w \in Client /\ cur[w] \in Task
      BY <1>0, TaskAtHand DEF Held, HandlesTask, Client
    <3>2. ~Decided(x)
      BY <1>0, <3>1, InHand DEF Settling
    <3>3. pc'[w] = "completed" /\ cur'[w] = MarkCompleted(cur[w]) /\ store' = store
      BY <1>0, <3>1 DEF ExecuteSuccess, Goto, TypeOK, CallTypeOK
    <3>4. Held(w)' = x
      BY <3>1, <3>3, TaskMethods DEF Held, HandlesTask
    <3>5. ~Waiting(x)' /\ ~Listed(x)' /\ \A d \in Client : d # w => Held(d)' # x
      BY <1>0, <3>1, <3>4, AloneNext DEF OnePlace
    <3>6. Gone(x, Succeeded)'
      BY <3>3, <3>5 DEF Gone, Succeeded
    <3> QED
      BY <3>2, <3>3, <3>6 DEF Decided, Recorded
  <2> QED
    BY <2>1, <2>2
<1>2. ASSUME NEW x \in TaskId, Recorded(x, "completed")' PROVE result'[x] = "success"
  <2>1. CASE store'[x] = store[x]
    BY <1>2, <2>1, SuccessStays DEF ResultInv, Recorded
  <2>2. CASE store'[x] # store[x]
    <3> PICK w \in Worker :
            /\ cur[w] \in Task /\ cur[w].id = x /\ ~Refused(w) /\ x # EmptyId
            /\ \/ Start(w) /\ store'[x] = MarkStarted(cur[w])
               \/ SaveCompleted(w) /\ store'[x] = MarkCompleted(cur[w])
               \/ HandleTaskFailure(w) /\ store'[x] = MarkFailed(cur[w])
      BY <1>0, <2>2, RecordWriters
    <3>1. SaveCompleted(w)
      BY <1>2, MarkedStates DEF Recorded
    <3>2. pc[w] = "completed"
      BY <3>1 DEF SaveCompleted
    <3> QED
      BY <3>2, SuccessStays DEF ResultInv
  <2> QED
    BY <2>1, <2>2
<1>3. ASSUME NEW w \in Worker, pc'[w] = "completed"
      PROVE  result'[cur'[w].id] = "success" \/ Refused(w)' \/ cur'[w].id = EmptyId
  <2>0. w \in Client
    BY DEF Client
  <2>1. CASE Keeps(w)
    <3>1. pc[w] = "completed" /\ cur'[w] = cur[w] /\ cur[w].id \in TaskId
      BY <1>0, <1>3, <2>0, <2>1, TaskAtHand DEF Keeps, HandlesTask
    <3>2. Refused(w) => Refused(w)'
      BY <1>0, <1>3, <2>0, RefusedStays
    <3> QED
      BY <3>1, <3>2, SuccessStays DEF ResultInv
  <2>2. CASE ~Keeps(w)
    <3>1. ExecuteSuccess(w)
      BY <1>0, <1>3, <2>0, <2>2, Arrives
    <3>2. cur[w] \in Task /\ cur[w].id \in TaskId
      BY <1>0, <2>0, <3>1, TaskAtHand DEF ExecuteSuccess, HandlesTask
    <3>3. cur'[w].id = cur[w].id
      BY <1>0, <2>0, <3>1, <3>2, TaskMethods DEF ExecuteSuccess, TypeOK, CallTypeOK
    <3>4. Refused(w) => Refused(w)'
      BY <1>0, <1>3, <2>0, RefusedStays
    <3>5. SaveResult(w, cur[w].id, "success") /\ result \in [TaskId -> Result]
      BY <1>0, <3>1 DEF ExecuteSuccess, TypeOK, RecordTypeOK
    <3>6. result'[cur[w].id] = "success" \/ Refused(w) \/ cur[w].id = EmptyId
      BY <3>2, <3>5 DEF SaveResult, Commands, NoErrors
    <3> QED
      BY <3>3, <3>4, <3>6
  <2> QED
    BY <2>1, <2>2
<1> QED
  BY <1>0, <1>1, <1>2, <1>3 DEF ResultInv

(* The records and results of a task agree in every reachable state.       *)
LEMMA ResultHolds ==
    ASSUME UniqueIds, NoRepeats, NoErrors
    PROVE  Spec => []ResultInv
<1>1. Init => ResultInv
  <2> SUFFICES ASSUME Init PROVE ResultInv
    OBVIOUS
  <2>1. BudgetInv
    BY InitBudget
  <2>2. /\ \A x \in TaskId : result[x] # "success" /\ store[x] = NoTask
        /\ \A w \in Worker : pc[w] # "completed"
    BY DEF Init, StorageInit, QueueInit, Client
  <2> QED
    BY <2>1, <2>2 DEF ResultInv, Recorded
<1>2. ResultInv /\ [Next]_vars => ResultInv'
  BY ResultStays
<1> QED
  BY <1>1, <1>2, PTL DEF Spec

(* A task recorded as completed has the result of a success and a dead one *)
(* has not, for any number of workers, requests and retries, through       *)
(* crashes, cancellations, purges and lost replies: SaveResult comes before*)
(* SaveTask, a context that refuses the first refuses the second as well,  *)
(* and no other attempt is under way. A SaveResult that fails breaks it.   *)
THEOREM ResultsMatchStates ==
    ASSUME UniqueIds, NoRepeats, NoErrors
    PROVE  Spec => []ResultMatchesState
<1>1. Spec => []ResultInv
  BY ResultHolds
<1>2. ResultInv => ResultMatchesState
  BY DEF ResultInv, ResultMatchesState
<1> QED
  BY <1>1, <1>2, PTL

-----------------------------------------------------------------------------
(* Data outlives crashes and cancellations.                                *)

NoPurge == MaxPurges = 0

Unpurged == purges = 0 /\ pc[Admin] = "idle"

(* The variables of a running purge are its own.                           *)
LEMMA OnlyPurge ==
    ASSUME [Next]_vars, ~HandlePurge
    PROVE  UNCHANGED purgeVars
<1>1. \A c : EnqueueSet(c) \/ EnqueuePush(c) \/ EnqueueUnset(c) \/ EnqueueCount(c) =>
            UNCHANGED purgeVars
  BY DEF EnqueueSet, EnqueuePush, EnqueueUnset, EnqueueCount, purgeVars
<1>2. \A w : DequeueStep(w) => UNCHANGED purgeVars
  BY DEF DequeueStep, DequeueLPop, DequeueGet, DequeueRequeue, purgeVars
<1>3. \A w : AckTask(w) \/ MoveToDLQ(w) \/ Retry(w) => UNCHANGED purgeVars
  BY DEF AckTask, Ack, Settle, MoveToDLQ, EnqueueDLQ, EnqueueDLQMeta, Nack, Retry, EnqueueCall,
         purgeVars
<1>4. \A w : \/ Start(w) \/ ExecuteSuccess(w) \/ ExecuteFailure(w) \/ SaveCompleted(w)
            \/ HandleTaskFailure(w) \/ EndSaveTask(w) \/ Poll(w) \/ Exit(w) \/ Crash(w)
                => UNCHANGED purgeVars
  BY DEF Start, ExecuteSuccess, ExecuteFailure, SaveCompleted, HandleTaskFailure, EndSaveTask,
         QueueUntouched, Poll, DequeueCall, Exit, Crash, purgeVars
<1>5. \A w : WorkerStep(w) => UNCHANGED purgeVars
  BY <1>1, <1>2, <1>3, <1>4 DEF WorkerStep, Handle, EnqueueStep
<1>6. \A p : RequestStep(p) => UNCHANGED purgeVars
  BY <1>1 DEF RequestStep, Submit, HandleSubmit, EnqueueCall, SubmitStep, SubmitAccepted,
         BrokerCrash, purgeVars
<1> QED
  BY <1>5, <1>6 DEF Next, Disconnect, Cancel, vars, queueVars, purgeVars

LEMMA NoPurgeSteps ==
    ASSUME NoPurge, TypeOK, Unpurged, [Next]_vars
    PROVE  Unpurged' /\ ~HandlePurge
<1> USE ClientAssumption
<1>1. ~HandlePurge
  BY DEF NoPurge, Unpurged, HandlePurge, Purge, PurgeList, PurgeKey, PurgeScanned, PurgeProcessing
<1>2. Admin \in Client
  BY DEF Client
<1>3. Keeps(Admin)
  BY <1>1, <1>2, Actor
<1>4. purges' = purges
  BY <1>1, OnlyPurge DEF purgeVars
<1> QED
  BY <1>1, <1>3, <1>4 DEF Unpurged, Keeps

Stored(x) == taskData[x] # NoTask \/ Finished(x)

(* Why a client that is about to delete data may do it.                    *)
MayDelete ==
    /\ \A c \in Client : pc[c] = "unset" => Refused(c)
    /\ \A w \in Worker :
        /\ pc[w] = "ack" => Recorded(cur[w].id, "completed") \/ Refused(w) \/ cur[w].id = EmptyId
        /\ pc[w] \in Buried => InDLQ(cur[w].id) \/ Refused(w)

KeptInv ==
    /\ BudgetInv /\ Unpurged
    /\ faults = 0 =>
        /\ MayDelete
        /\ \A x \in accepted : Stored(x)
        /\ \A c \in Client : pc[c] \in {"push", "count"} => Stored(cur[c].id)

LEMMA FinishedStays ==
    ASSUME BudgetInv, [Next]_vars, NEW x \in TaskId, Finished(x)
    PROVE  Finished(x)'
<1>1. TypeOK
  BY DEF BudgetInv, IInv
<1>2. CASE Recorded(x, "completed")
  BY <1>2, DecidedStays DEF Decided, Recorded, Finished
<1>3. CASE InDLQ(x)
  BY <1>1, <1>3, DeadLettersStay DEF Finished
<1> QED
  BY <1>2, <1>3 DEF Finished

LEMMA StoredStays ==
    ASSUME NoPurge, KeptInv, faults = 0, [Next]_vars, NEW x \in TaskId, Stored(x)
    PROVE  Stored(x)'
<1>0. TypeOK /\ BudgetInv /\ MayDelete /\ ~HandlePurge
  BY NoPurgeSteps DEF KeptInv, BudgetInv, IInv
<1>1. CASE Finished(x)
  BY <1>0, <1>1, FinishedStays DEF Stored
<1>2. CASE ~Finished(x) /\ taskData[x] # NoTask
  <2> SUFFICES ASSUME taskData'[x] = NoTask PROVE Finished(x)
    BY <1>0, FinishedStays DEF Stored
  <2>1. ASSUME NEW c \in Worker \cup Producer, pc[c] = "set", taskData'[x] = cur[c] PROVE FALSE
    BY <1>0, <2>1, TaskAtHand DEF HandlesTask, Client
  <2> PICK c \in Worker \cup Producer :
            /\ pc[c] \in {"unset", "ack", "nack"} /\ cur[c].id = x /\ ~Refused(c)
            /\ pc[c] # "unset" => c \in Worker /\ x # EmptyId
    BY <1>0, <1>2, <2>1, DataWriters
  <2>2. pc[c] # "unset"
    BY <1>0 DEF MayDelete, Client
  <2> QED
    BY <1>0, <2>2 DEF MayDelete, Buried, Finished
<1> QED
  BY <1>1, <1>2 DEF Stored

(* A step in which no command goes wrong.                                  *)
LEMMA CleanCommand ==
    ASSUME TypeOK, faults' = faults, NEW c
    PROVE  /\ \A o : Command(c, o) => (o = "ok" /\ ~Refused(c)) \/ (o = "error" /\ Refused(c))
           /\ \A all, done : Commands(c, all, done) =>
                (done = all /\ ~Refused(c)) \/ (done = {} /\ Refused(c))
<1>1. faults' # faults + 1
  BY DEF TypeOK, QueueTypeOK
<1> QED
  BY <1>1 DEF Command, Commands

LEMMA CleanPush ==
    ASSUME TypeOK, faults' = faults, NEW c \in Worker \cup Producer, EnqueuePush(c)
    PROVE  \/ pc'[c] = "count" /\ Listed(cur[c].id)' /\ ~Refused(c)
           \/ pc'[c] = "unset" /\ Refused(c)
<1>0. /\ c \in Client /\ pc \in [Client -> Pc] /\ lists \in Lists
      /\ cur[c].id \in TaskId /\ cur'[c] = cur[c]
  BY PushEffect DEF TypeOK, QueueTypeOK, CallTypeOK, Client, Lists
<1> PICK y \in TaskId : y = cur[c].id
  BY <1>0
<1> PICK k \in ListKey : k = queueKeys(cur[c].priority)
  BY KeyOfPriority
<1> PICK o \in Outcome :
        /\ Command(c, o)
        /\ lists' = [lists EXCEPT ![k] = RPushed(@, y, o)]
        /\ Goto(c, IF Answered(o) THEN "count" ELSE "unset")
  BY DEF EnqueuePush
<1>1. CASE o = "ok" /\ ~Refused(c)
  <2>1. lists' = PushedLast(lists, k, y)
    BY <1>1 DEF RPushed, Executed, PushedLast
  <2>2. In(lists', y)
    BY ONLY <1>0, <2>1, k \in ListKey, y \in TaskId, InAfterPush, Zenon
  <2> QED
    BY <1>0, <1>1, <2>2 DEF In, Listed, Goto, Answered
<1>2. CASE o = "error" /\ Refused(c)
  BY <1>0, <1>2 DEF Goto, Answered
<1> QED
  BY <1>1, <1>2, CleanCommand

LEMMA CleanBurial ==
    ASSUME TypeOK, faults' = faults, NEW w \in Worker, EnqueueDLQ(w)
    PROVE  \/ pc'[w] = "dlqMeta" /\ InDLQ(cur[w].id)' /\ ~Refused(w)
           \/ pc'[w] = "nack" /\ Refused(w)
<1>0. w \in Client /\ pc \in [Client -> Pc] /\ dlq \in Seq(Task) /\ cur[w] \in Task /\ cur' = cur
  BY TaskAtHand DEF EnqueueDLQ, HandlesTask, TypeOK, QueueTypeOK, CallTypeOK, Client
<1> PICK u \in Task : u = [cur[w] EXCEPT !.state = "dead_letter"] /\ u.id = cur[w].id
  BY <1>0, TaskMethods DEF Task
<1> PICK o \in Outcome : /\ Command(w, o) /\ dlq' = RPushed(dlq, u, o)
                         /\ Goto(w, IF Answered(o) THEN "dlqMeta" ELSE "nack")
  BY DEF EnqueueDLQ
<1>1. CASE o = "ok" /\ ~Refused(w)
  <2>1. dlq' = Append(dlq, u)
    BY <1>1 DEF RPushed, Executed
  <2>2. Len(dlq) + 1 \in DOMAIN dlq' /\ dlq'[Len(dlq) + 1] = u
    BY <1>0, <2>1
  <2> QED
    BY <1>0, <1>1, <2>2 DEF InDLQ, Goto, Answered
<1>2. CASE o = "error" /\ Refused(w)
  BY <1>0, <1>2 DEF Goto, Answered
<1> QED
  BY <1>1, <1>2, CleanCommand

LEMMA CleanCompletion ==
    ASSUME TypeOK, faults' = faults, NEW w \in Worker, SaveCompleted(w)
    PROVE  /\ cur[w].id \in TaskId /\ cur'[w].id = cur[w].id
           /\ Recorded(cur[w].id, "completed")' \/ Refused(w) \/ cur[w].id = EmptyId
<1>0. w \in Client /\ cur[w] \in Task /\ cur \in [Client -> Task \cup {NoTask}]
      /\ store \in [TaskId -> Task \cup {NoTask}]
  BY TaskAtHand DEF SaveCompleted, HandlesTask, TypeOK, CallTypeOK, RecordTypeOK, Client
<1> PICK t \in Task : t = MarkCompleted(cur[w]) /\ t.id = cur[w].id /\ t.state = "completed"
  BY <1>0, TaskMethods, MarkedStates
<1>1. SaveTask(w, t) /\ cur'[w] = t /\ t.id \in TaskId
  BY <1>0, TaskMethods DEF SaveCompleted
<1>2. store' = [store EXCEPT ![t.id] = t] \/ Refused(w) \/ t.id = EmptyId
  BY <1>1, CleanCommand DEF SaveTask, Executed
<1>3. CASE store' = [store EXCEPT ![t.id] = t]
  <2>1. store'[t.id] = t
    BY <1>0, <1>1, <1>3
  <2> QED
    BY <1>1, <2>1, NoTaskAssumption DEF Recorded
<1> QED
  BY <1>1, <1>2, <1>3

LEMMA MayDeleteStays ==
    ASSUME TypeOK, TypeOK', BudgetInv, MayDelete, faults' = faults, [Next]_vars
    PROVE  MayDelete'
<1>1. ASSUME NEW c \in Client, pc'[c] = "unset" PROVE Refused(c)'
  <2>1. Refused(c)
    BY <1>1, Arrives, CleanPush DEF MayDelete, Keeps
  <2> QED
    BY <1>1, <2>1, RefusedStays
<1>2. ASSUME NEW w \in Worker, pc'[w] = "ack"
      PROVE  Recorded(cur[w].id, "completed")' \/ Refused(w)' \/ cur'[w].id = EmptyId
  <2>1. w \in Client /\ (Refused(w) => Refused(w)')
    BY <1>2, RefusedStays DEF Client
  <2>2. CASE Keeps(w)
    <3>1. pc[w] = "ack" /\ cur'[w] = cur[w] /\ cur[w].id \in TaskId
      BY <1>2, <2>1, <2>2, TaskAtHand DEF Keeps, HandlesTask
    <3>2. Recorded(cur[w].id, "completed") => Recorded(cur[w].id, "completed")'
      BY <3>1, DecidedStays DEF Decided, Recorded
    <3> QED
      BY <2>1, <3>1, <3>2 DEF MayDelete
  <2>3. CASE ~Keeps(w)
    <3>1. SaveCompleted(w)
      BY <1>2, <2>1, <2>3, Arrives
    <3>2. /\ cur'[w].id = cur[w].id
          /\ Recorded(cur[w].id, "completed")' \/ Refused(w) \/ cur[w].id = EmptyId
      BY <3>1, CleanCompletion
    <3> QED
      BY <2>1, <3>2 DEF Recorded
  <2> QED
    BY <2>2, <2>3
<1>3. ASSUME NEW w \in Worker, pc'[w] \in Buried
      PROVE  InDLQ(cur[w].id)' \/ Refused(w)'
  <2>1. w \in Client /\ (Refused(w) => Refused(w)')
    BY <1>3, RefusedStays DEF Client, Buried
  <2>2. ASSUME pc[w] \in Buried, cur'[w] = cur[w] PROVE InDLQ(cur[w].id)' \/ Refused(w)'
    <3> PICK x : x = cur[w].id
      OBVIOUS
    <3>1. InDLQ(x) => InDLQ(x)'
      BY DeadLettersStay
    <3>2. InDLQ(cur[w].id) = InDLQ(x) /\ InDLQ(cur[w].id)' = InDLQ(x)'
      BY <2>2
    <3> QED
      BY <2>1, <2>2, <3>1, <3>2 DEF MayDelete
  <2>3. CASE Keeps(w)
    BY <1>3, <2>2, <2>3 DEF Keeps
  <2>4. CASE ~Keeps(w) /\ EnqueueDLQMeta(w)
    BY <2>2, <2>4 DEF EnqueueDLQMeta, Buried
  <2>5. CASE ~Keeps(w) /\ EnqueueDLQ(w)
    <3>1. cur' = cur
      BY <2>5 DEF EnqueueDLQ
    <3> QED
      BY <2>1, <2>5, <3>1, CleanBurial DEF InDLQ
  <2> QED
    BY <1>3, <2>1, <2>3, <2>4, <2>5, Arrives DEF Buried
<1> QED
  BY <1>1, <1>2, <1>3 DEF MayDelete

(* An id is reported as enqueued when Enqueue has counted it.              *)
LEMMA AcceptedFrom ==
    ASSUME [Next]_vars, NEW x \in accepted', x \notin accepted
    PROVE  \E p \in Producer : SubmitAccepted(p) /\ pc[p] = "count" /\ cur[p].id = x
<1>1. PICK p \in Producer : SubmitAccepted(p)
  BY DEF Next, WorkerStep, RequestStep, Submit, HandlePurge, Disconnect, Cancel, HandleSubmit,
         SubmitStep, BrokerCrash, vars, brokerVars
<1> QED
  BY <1>1 DEF SubmitAccepted, EnqueueCount

LEMMA KeptStays ==
    ASSUME UniqueIds, NoRepeats, NoPurge, KeptInv, [Next]_vars
    PROVE  KeptInv'
<1>0. BudgetInv /\ BudgetInv' /\ TypeOK /\ TypeOK' /\ Unpurged'
  BY NextBudget, NoPurgeSteps DEF KeptInv, BudgetInv, IInv
<1> SUFFICES ASSUME faults' = 0
             PROVE  /\ MayDelete'
                    /\ \A x \in accepted' : Stored(x)'
                    /\ \A c \in Client : pc'[c] \in {"push", "count"} => Stored(cur[c].id)'
  BY <1>0 DEF KeptInv
<1>1. faults = 0 /\ faults' = faults
  BY <1>0, FaultsAdd
<1>2. MayDelete'
  BY <1>0, <1>1, MayDeleteStays DEF KeptInv
<1>3. ASSUME NEW x \in accepted' PROVE Stored(x)'
  <2>1. Stored(x)
    BY <1>0, <1>1, <1>3, AcceptedFrom DEF KeptInv, Client
  <2>2. x \in TaskId
    BY <1>0, <1>3 DEF TypeOK, RecordTypeOK
  <2> QED
    BY <1>1, <2>1, <2>2, StoredStays
<1>4. ASSUME NEW c \in Client, pc'[c] \in {"push", "count"} PROVE Stored(cur[c].id)'
  <2> PICK y \in TaskId : y = cur'[c].id
    BY <1>0, <1>4, TaskMethods DEF TypeOK, FrameOK, HandlesTask
  <2>1. Stored(cur[c].id)' = Stored(y)'
    OBVIOUS
  <2>2. CASE Keeps(c)
    <3>1. Stored(y)
      BY <1>1, <1>4, <2>2 DEF KeptInv, Keeps
    <3> QED
      BY <1>1, <2>1, <3>1, StoredStays
  <2>3. CASE ~Keeps(c) /\ pc'[c] = "push"
    <3>1. c \in Worker \cup Producer /\ EnqueueSet(c)
      BY <1>0, <2>3, Arrives
    <3>2. cur[c] \in Task /\ cur[c] # NoTask
      BY <1>0, <3>1, TaskAtHand DEF EnqueueSet, HandlesTask
    <3>3. cur'[c] = cur[c] /\ taskData' = [taskData EXCEPT ![cur[c].id] = cur[c]]
      BY <1>0, <2>3, <3>1 DEF EnqueueSet, Return, Answered, Executed, TypeOK, CallTypeOK
    <3>4. taskData'[y] # NoTask
      BY <1>0, <3>2, <3>3 DEF TypeOK, QueueTypeOK
    <3> QED
      BY <2>1, <3>4 DEF Stored
  <2>4. CASE ~Keeps(c) /\ pc'[c] = "count"
    <3>1. c \in Worker \cup Producer /\ EnqueuePush(c)
      BY <1>0, <2>4, Arrives
    <3>2. pc[c] = "push" /\ cur'[c] = cur[c]
      BY <1>0, <3>1, PushEffect
    <3>3. Stored(y)
      BY <1>1, <3>2 DEF KeptInv
    <3> QED
      BY <1>1, <2>1, <3>3, StoredStays
  <2> QED
    BY <1>4, <2>2, <2>3, <2>4
<1> QED
  BY <1>2, <1>3, <1>4

(* Deletions come after the outcome in every reachable state.              *)
LEMMA KeptHolds ==
    ASSUME UniqueIds, NoRepeats, NoPurge
    PROVE  Spec => []KeptInv
<1>1. Init => KeptInv
  <2> SUFFICES ASSUME Init PROVE KeptInv
    OBVIOUS
  <2>1. BudgetInv
    BY InitBudget
  <2>2. \A c \in Client : pc[c] = "idle"
    BY DEF Init, QueueInit
  <2>3. Unpurged /\ accepted = {}
    BY <2>2 DEF Init, QueueInit, BrokerInit, Unpurged, Client
  <2> QED
    BY <2>1, <2>2, <2>3 DEF KeptInv, MayDelete, Buried, Client
<1>2. KeptInv /\ [Next]_vars => KeptInv'
  BY KeptStays
<1> QED
  BY <1>1, <1>2, PTL DEF Spec

(* As long as no command has failed, the data of a task the broker answered*)
(* for is there until the task is finished, for any number of workers and  *)
(* requests, whichever of them die, are cancelled or go away: the delete in*)
(* Enqueue's cleanup is refused together with the push it cleans up after, *)
(* and Ack and Nack come after the record or the dead letter, or are       *)
(* refused with them. A purge deletes data of any task, and is left out.   *)
THEOREM DataIsKept ==
    ASSUME UniqueIds, NoRepeats, NoPurge
    PROVE  Spec => []DataKept
<1>1. Spec => []KeptInv
  BY KeptHolds
<1>2. KeptInv => DataKept
  BY DEF KeptInv, DataKept, Stored
<1> QED
  BY <1>1, <1>2, PTL

-----------------------------------------------------------------------------
(* Purge leaves no data behind that nobody would read.                     *)

NoCrash == MaxCrashes = 0

NamedIds == EmptyId \notin TaskId

(* Without a failure a client lets go of an id only into a list, or when   *)
(* its data is gone.                                                       *)
LEMMA HeldTo ==
    ASSUME TypeOK, TypeOK', DataKeyed, NoCrash, NamedIds, [Next]_vars, faults' = faults,
           NEW c \in Client, ~Refused(c), pc[c] # "requeue",
           NEW x \in TaskId, Held(c) = x, Held(c)' # x
    PROVE  /\ Listed(x)' \/ taskData'[x] = NoTask
           /\ pc[c] \in {"get", "push", "ack", "nack"}
<1>0. /\ pc \in [Client -> Pc] /\ cur \in [Client -> Task \cup {NoTask}]
      /\ got \in [Worker -> TaskId \cup {NoId}] /\ taskData \in [TaskId -> Task \cup {NoTask}]
  BY DEF TypeOK, CallTypeOK, QueueTypeOK
<1>1. x # NoId /\ pc[c] \in HandlesTask \cup {"get"}
  BY TaskAssumption DEF Held
<1>2. ~Keeps(c)
  BY <1>0, <1>1 DEF Keeps, Held, Client, TypeOK, CallTypeOK
<1>3. crashes \in Nat /\ ~(crashes < MaxCrashes)
  BY DEF TypeOK, RecordTypeOK, NoCrash
<1>4. CASE pc[c] = "get"
  <2>1. c \in Worker /\ DequeueGet(c)
    <3>1. c \in Worker
      BY <1>4 DEF TypeOK, CallTypeOK, Client
    <3> QED
      BY <1>2, <1>3, <1>4, <3>1, Actor, WorkerActions, ClientAssumption
         DEF Moves, Crash, EndSaveTask, AfterSave
  <2>2. got[c] = x
    BY <1>4 DEF Held
  <2>3. PICK done : Commands(c, {"get", "set"}, done) /\
        \/ "get" \notin done
        \/ taskData[x] = NoTask
        \/ taskData[x] # NoTask /\ cur'[c] = taskData[x] /\ pc'[c] = "start"
    BY <1>0, <2>1, <2>2 DEF DequeueGet, Goto
  <2>4. taskData' = taskData
    BY <2>1 DEF DequeueGet
  <2>5. "get" \in done
    BY <2>3, CleanCommand
  <2>6. taskData[x] = NoTask
    BY <2>3, <2>5 DEF Held, HandlesTask, DataKeyed
  <2> QED
    BY <1>4, <2>4, <2>6
<1>5. CASE pc[c] \in HandlesTask
  <2>1. cur[c] \in Task /\ cur[c].id = x /\ x # EmptyId
    BY <1>5, TaskAtHand DEF Held, HandlesTask, NamedIds
  <2>2. (c \in Worker /\ WorkerStep(c)) \/ (c \in Producer /\ RequestStep(c))
    BY <1>2, <1>5, Actor DEF TypeOK, CallTypeOK, HandlesTask
  <2>a. ASSUME EnqueueSet(c), c \in Worker \cup Producer PROVE FALSE
    <3>1. pc'[c] = "push" /\ cur'[c] = cur[c]
      BY <1>0, <2>a, CleanCommand DEF EnqueueSet, Goto, Answered
    <3> QED
      BY <2>1, <3>1 DEF Held, HandlesTask
  <2>b. ASSUME EnqueuePush(c), c \in Worker \cup Producer PROVE Listed(x)'
    <3>1. cur'[c] = cur[c] /\ Listed(cur[c].id)'
      BY <2>b, PushEffect, CleanPush
    <3> QED
      BY <2>1, <3>1 DEF Listed
  <2>c. ASSUME Ack(c) \/ Nack(c), c \in Worker PROVE taskData'[x] = NoTask
    <3>1. \E k : Settle(c, k)
      BY <2>c DEF Ack, Nack
    <3>2. taskData' = [taskData EXCEPT ![x] = NoTask]
      BY <2>1, <3>1, CleanCommand DEF Settle
    <3> QED
      BY <1>0, <3>2
  <2>d. ASSUME Start(c) \/ ExecuteSuccess(c) \/ ExecuteFailure(c) \/ SaveCompleted(c)
                 \/ HandleTaskFailure(c),
               pc'[c] \in HandlesTask
        PROVE  FALSE
    <3> PICK t \in Task : t = cur[c]
      BY <2>1
    <3>1. cur'[c] \in {t, MarkStarted(t), MarkCompleted(t), MarkFailed(t)}
      BY <1>0, <2>d DEF Start, ExecuteSuccess, ExecuteFailure, SaveCompleted, HandleTaskFailure
    <3>2. MarkStarted(t).id = t.id /\ MarkCompleted(t).id = t.id /\ MarkFailed(t).id = t.id
      BY TaskMethods
    <3> QED
      BY <2>1, <2>d, <3>1, <3>2 DEF Held, HandlesTask
  <2>e. ASSUME Retry(c) \/ EnqueueDLQ(c) \/ EnqueueDLQMeta(c), pc'[c] \in HandlesTask PROVE FALSE
    <3>1. cur'[c] = cur[c]
      BY <1>0, <2>e DEF Retry, EnqueueCall, EnqueueDLQ, EnqueueDLQMeta
    <3> QED
      BY <2>1, <2>e, <3>1 DEF Held, HandlesTask
  <2>3. CASE c \in Worker /\ WorkerStep(c)
    <3>1. \/ Start(c) /\ Moves(c, "start", {"exec"})
          \/ ExecuteSuccess(c) /\ Moves(c, "exec", {"completed"})
          \/ ExecuteFailure(c) /\ Moves(c, "exec", {"failed"})
          \/ SaveCompleted(c) /\ Moves(c, "completed", {"ack"})
          \/ AckTask(c)
          \/ HandleTaskFailure(c) /\ Moves(c, "failed", {"backoff", "dlq"})
          \/ Retry(c) /\ Moves(c, "backoff", {"set"})
          \/ EnqueueSet(c) \/ EnqueuePush(c)
          \/ EnqueueDLQ(c) /\ Moves(c, "dlq", {"dlqMeta", "nack"})
          \/ EnqueueDLQMeta(c) /\ Moves(c, "dlqMeta", {"nack"})
          \/ Nack(c)
      BY <1>2, <1>3, <1>5, <2>3, WorkerActions DEF Moves, Crash, Keeps, QueueUntouched, HandlesTask
    <3>2. EnqueuePush(c) \/ AckTask(c) \/ Nack(c)
      BY <2>a, <2>d, <2>e, <2>3, <3>1 DEF Moves, HandlesTask
    <3> QED
      BY <2>b, <2>c, <2>3, <3>2 DEF AckTask, Ack, Nack, EnqueuePush
  <2>4. CASE c \in Producer /\ RequestStep(c)
    <3>1. EnqueueSet(c) \/ EnqueuePush(c)
      BY <1>3, <1>5, <2>4, RequestActions DEF Moves, BrokerCrash, HandlesTask
    <3> QED
      BY <2>a, <2>b, <2>4, <3>1 DEF EnqueuePush
  <2> QED
    BY <2>2, <2>3, <2>4
<1> QED
  BY <1>1, <1>4, <1>5

(* Contexts are only ever cancelled: a new one comes with a new process.   *)
(* Only Cancel cancels the workers'.                                       *)
LEMMA Cancellations ==
    ASSUME TypeOK, NoCrash, [Next]_vars
    PROVE  ctxDone \subseteq ctxDone' /\ (~MayCancel => Worker \cap ctxDone' \subseteq ctxDone)
<1>1. crashes \in Nat /\ ~(crashes < MaxCrashes)
  BY DEF TypeOK, RecordTypeOK, NoCrash
<1>2. ASSUME NEW w \in Worker, WorkerStep(w) PROVE ctxDone' = ctxDone
  <2> USE <1>1, <1>2
  <2>1. CASE Poll(w) \/ Exit(w) \/ Crash(w)
    BY <2>1 DEF Poll, DequeueCall, Exit, QueueUntouched, Crash
  <2>2. CASE Start(w) \/ ExecuteSuccess(w) \/ ExecuteFailure(w) \/ SaveCompleted(w)
               \/ HandleTaskFailure(w) \/ EndSaveTask(w)
    BY <2>2 DEF Start, ExecuteSuccess, ExecuteFailure, SaveCompleted, HandleTaskFailure,
                EndSaveTask, QueueUntouched
  <2>3. CASE DequeueLPop(w) \/ DequeueGet(w) \/ DequeueRequeue(w)
    BY <2>3 DEF DequeueLPop, DequeueGet, DequeueRequeue
  <2>4. CASE AckTask(w) \/ Retry(w) \/ EnqueueDLQ(w) \/ EnqueueDLQMeta(w) \/ Nack(w)
    BY <2>4 DEF AckTask, Ack, Nack, Settle, Retry, EnqueueCall, EnqueueDLQ, EnqueueDLQMeta
  <2>5. CASE EnqueueSet(w) \/ EnqueuePush(w) \/ EnqueueUnset(w) \/ EnqueueCount(w)
    BY <2>5 DEF EnqueueSet, EnqueuePush, EnqueueUnset, EnqueueCount
  <2> QED
    BY <1>2, <2>1, <2>2, <2>3, <2>4, <2>5, WorkerActions
<1>3. ASSUME NEW p \in Producer, RequestStep(p) PROVE ctxDone' = ctxDone
  BY <1>1, <1>3 DEF RequestStep, Submit, HandleSubmit, SubmitStep, SubmitAccepted, BrokerCrash,
     EnqueueCall, EnqueueSet, EnqueuePush, EnqueueUnset, EnqueueCount
<1>4. HandlePurge => ctxDone' = ctxDone
  BY PurgeFrame
<1> QED
  BY <1>2, <1>3, <1>4, ClientAssumption DEF Next, Disconnect, Cancel, vars, queueVars

(* The data belongs to an id that is queued or in somebody's hands, or the *)
(* running Purge is going to delete it.                                    *)
Swept(x) == pc[Admin] = "purgeLists" \/ (pc[Admin] = "purgeData" /\ x \in purgeData)

Clean == faults = 0 /\ ctxDone = {}

OrphanInv ==
    /\ TypeOK /\ DataKeyed
    /\ Clean =>
        /\ \A c \in Client : pc[c] \notin {"unset", "requeue"}
        /\ \A x \in TaskId : taskData[x] # NoTask => Listed(x) \/ HeldBySome(x) \/ Swept(x)

(* What a running Purge will delete it either still will, or has deleted.  *)
LEMMA SweptStays ==
    ASSUME TypeOK, TypeOK', [Next]_vars, Clean, faults' = faults, NEW x \in TaskId, Swept(x)
    PROVE  Swept(x)' \/ taskData'[x] = NoTask
<1>0. ~Refused(Admin) /\ pc[Admin] # "idle" /\ pc \in [Client -> Pc] /\ Admin \in Client
      /\ taskData \in [TaskId -> Task \cup {NoTask}]
  BY DEF Clean, Refused, Swept, TypeOK, CallTypeOK, QueueTypeOK, Client
<1>1. CASE ~HandlePurge
  <2>1. purgeData' = purgeData
    BY <1>1, OnlyPurge DEF purgeVars
  <2>2. pc'[Admin] = pc[Admin]
    BY <1>0, <1>1, Actor, ClientAssumption DEF Keeps
  <2> QED
    BY <2>1, <2>2 DEF Swept
<1>2. CASE HandlePurge
  <2>1. CASE PurgeList
    <3>1. PICK k \in purgeLists, o \in Outcome :
            /\ Command(Admin, o)
            /\ \/ ~Answered(o)
               \/ UNCHANGED pc
               \/ purgeData' = TaskKeys /\ Goto(Admin, "purgeData")
      BY <2>1 DEF PurgeList
    <3>2. Answered(o)
      BY <1>0, <3>1, CleanCommand DEF Answered
    <3>3. taskData' = taskData /\ pc[Admin] = "purgeLists"
      BY <2>1 DEF PurgeList
    <3>4. CASE UNCHANGED pc
      BY <3>3, <3>4 DEF Swept
    <3>5. CASE purgeData' = TaskKeys /\ Goto(Admin, "purgeData")
      BY <1>0, <3>3, <3>5 DEF Swept, TaskKeys, Goto
    <3> QED
      BY <3>1, <3>2, <3>4, <3>5
  <2>2. CASE PurgeKey
    <3>1. PICK id \in purgeData \cup TaskKeys, done \in SUBSET {"del"} :
            /\ Commands(Admin, {"del"}, done)
            /\ taskData' = IF done = {} THEN taskData ELSE [taskData EXCEPT ![id] = NoTask]
            /\ purgeData' = purgeData \ {id}
      BY <2>2 DEF PurgeKey
    <3>2. done = {"del"}
      BY <1>0, <3>1, CleanCommand
    <3>3. pc' = pc /\ pc[Admin] = "purgeData"
      BY <2>2 DEF PurgeKey
    <3> QED
      BY <1>0, <3>1, <3>2, <3>3 DEF Swept
  <2>3. CASE PurgeScanned
    <3>1. PICK o \in Outcome : Command(Admin, o) /\ (purgeData = {} \/ ~Answered(o))
      BY <2>3 DEF PurgeScanned
    <3>2. Answered(o)
      BY <1>0, <3>1, CleanCommand DEF Answered
    <3> QED
      BY <2>3, <3>1, <3>2 DEF Swept, PurgeScanned
  <2> QED
    BY <1>0, <1>2, <2>1, <2>2, <2>3 DEF HandlePurge, Purge, PurgeCall, PurgeProcessing, Swept
<1> QED
  BY <1>1, <1>2

LEMMA OrphanStays ==
    ASSUME NoCrash, NamedIds, OrphanInv, [Next]_vars
    PROVE  OrphanInv'
<1>1. TypeOK /\ DataKeyed /\ TypeOK' /\ DataKeyed'
  BY NextType, KeyedStays DEF OrphanInv
<1> SUFFICES ASSUME Clean'
             PROVE  /\ \A c \in Client : pc'[c] \notin {"unset", "requeue"}
                    /\ \A x \in TaskId : taskData'[x] # NoTask =>
                            Listed(x)' \/ HeldBySome(x)' \/ Swept(x)'
  BY <1>1 DEF OrphanInv
<1>2. Clean /\ faults' = faults
  BY <1>1, FaultsAdd, Cancellations DEF Clean
<1>3. /\ \A c \in Client : pc[c] \notin {"unset", "requeue"}
      /\ \A x \in TaskId : taskData[x] # NoTask => Listed(x) \/ HeldBySome(x) \/ Swept(x)
      /\ \A c : ~Refused(c)
  BY <1>2 DEF OrphanInv, Clean, Refused
<1>4. ASSUME NEW c \in Client, pc'[c] \in {"unset", "requeue"} PROVE FALSE
  <2>0. ~Keeps(c)
    BY <1>3, <1>4 DEF Keeps
  <2>1. CASE pc'[c] = "unset"
    <3>1. c \in Worker \cup Producer /\ EnqueuePush(c)
      BY <1>1, <2>0, <2>1, Arrives
    <3> QED
      BY <1>1, <1>2, <1>3, <2>1, <3>1, CleanPush
  <2>2. CASE pc'[c] = "requeue"
    <3>1. c \in Worker /\ DequeueGet(c)
      BY <1>1, <2>0, <2>2, Arrives
    <3>2. PICK done : Commands(c, {"get", "set"}, done) /\
          ("get" \notin done \/ pc' # [pc EXCEPT ![c] = "requeue"])
      <4>1. pc \in [Client -> Pc]
        BY <1>1 DEF TypeOK, CallTypeOK
      <4>2. [pc EXCEPT ![c] = "lpop"][c] = "lpop" /\ [pc EXCEPT ![c] = "idle"][c] = "idle"
            /\ [pc EXCEPT ![c] = "start"][c] = "start"
        BY <4>1
      <4> QED
        BY <2>2, <3>1, <4>2 DEF DequeueGet, Goto, NextPriority, Return
    <3>3. pc' = [pc EXCEPT ![c] = "requeue"]
      <4>1. pc \in [Client -> Pc]
        BY <1>1 DEF TypeOK, CallTypeOK
      <4>2. [pc EXCEPT ![c] = "lpop"][c] = "lpop" /\ [pc EXCEPT ![c] = "idle"][c] = "idle"
            /\ [pc EXCEPT ![c] = "start"][c] = "start"
        BY <4>1
      <4> QED
        BY <2>2, <3>1, <4>2 DEF DequeueGet, Goto, NextPriority, Return
    <3> QED
      BY <1>1, <1>2, <1>3, <3>2, <3>3, CleanCommand
  <2> QED
    BY <1>4, <2>1, <2>2
<1>5. ASSUME NEW x \in TaskId, taskData'[x] # NoTask PROVE Listed(x)' \/ HeldBySome(x)' \/ Swept(x)'
  <2>1. CASE taskData[x] = NoTask
    <3>1. PICK c \in Worker \cup Producer :
            EnqueueSet(c) /\ pc[c] = "set" /\ cur[c].id = x
      BY <1>1, <1>5, <2>1, DataWriters
    <3>2. pc'[c] = "push" /\ cur'[c] = cur[c]
      <4>1. pc \in [Client -> Pc] /\ c \in Client
        BY <1>1 DEF TypeOK, CallTypeOK, Client
      <4> QED
        BY <1>1, <1>2, <1>3, <3>1, <4>1, CleanCommand DEF EnqueueSet, Goto, Answered
    <3> QED
      BY <3>1, <3>2 DEF HeldBySome, Held, HandlesTask, Client
  <2>2. CASE Listed(x)
    <3>1. PICK k \in ListKey : x \in Range(lists[k])
      BY <2>2 DEF Listed
    <3>2. CASE x \in Range(lists'[k])
      BY <3>2 DEF Listed
    <3>3. CASE x \notin Range(lists'[k])
      <4>1. CASE \E w \in Worker : pc'[w] = "get" /\ got'[w] = x
        BY <4>1 DEF HeldBySome, Held, Client
      <4>2. CASE HandlePurge /\ PurgeList
        <5>1. Swept(x)
          BY <4>2 DEF PurgeList, Swept
        <5> QED
          BY <1>1, <1>2, <1>5, <5>1, SweptStays
      <4> QED
        BY <1>1, <1>2, <3>1, <3>3, <4>1, <4>2, ListedTo
    <3> QED
      BY <3>2, <3>3
  <2>3. CASE HeldBySome(x)
    <3>1. PICK c \in Client : Held(c) = x
      BY <2>3 DEF HeldBySome
    <3>2. CASE Held(c)' = x
      BY <3>2 DEF HeldBySome
    <3>3. CASE Held(c)' # x
      BY <1>1, <1>2, <1>3, <1>5, <3>1, <3>3, HeldTo
    <3> QED
      BY <3>2, <3>3
  <2>4. CASE Swept(x)
    BY <1>1, <1>2, <1>5, <2>4, SweptStays
  <2> QED
    BY <1>3, <2>1, <2>2, <2>3, <2>4
<1> QED
  BY <1>4, <1>5

(* As long as Redis answers and no context is cancelled, all task data in  *)
(* Redis belongs to an id that is queued or being handled, or the running  *)
(* Purge is still going to delete it, however Purge interleaves with       *)
(* Enqueue and Dequeue. No process may die, which drops what it held, and  *)
(* no id may be "", for which Ack and Nack delete nothing.                 *)
THEOREM PurgeLeavesNoOrphans ==
    ASSUME NoCrash, NamedIds
    PROVE  Spec => []NoOrphanData
<1>1. Init => OrphanInv
  <2> SUFFICES ASSUME Init PROVE OrphanInv
    OBVIOUS
  <2>1. TypeOK
    BY InitType
  <2>2. taskData = [id \in TaskId |-> NoTask] /\ pc = [c \in Client |-> "idle"]
    BY DEF Init, QueueInit
  <2> QED
    BY <2>1, <2>2 DEF OrphanInv, DataKeyed
<1>2. OrphanInv /\ [Next]_vars => OrphanInv'
  BY OrphanStays
<1>3. OrphanInv => NoOrphanData
  BY DEF OrphanInv, NoOrphanData, Clean, Swept
<1> QED
  BY <1>1, <1>2, <1>3, PTL DEF Spec

-----------------------------------------------------------------------------
(* Priorities. An id without data in a list would send Dequeue on to the   *)
(* next lower priority although other tasks are queued at this one: so the *)
(* argument begins with what is in the lists having its data, in the list  *)
(* of its priority.                                                        *)

(* No command is executed whose answer gets lost.                          *)
NoLostAnswers == "lost" \notin FaultKinds

(* The data of x says that x belongs into list k.                          *)
Filed(x, k) == taskData[x] # NoTask /\ queueKeys(taskData[x].priority) = k

(* Whatever is queued above level n was pushed during the Dequeue of w.    *)
Seen(w, n) == \A k \in Priority : k > n => Range(lists[k]) \subseteq arrived[w]

FiledInv ==
    /\ \A k \in ListKey : \A x \in Range(lists[k]) : Filed(x, k)
    /\ \A w \in Worker : pc[w] \in {"get", "requeue"} => Filed(got[w], scan[w])
    /\ \A c \in Client : pc[c] = "push" => taskData[cur[c].id] = cur[c]
    /\ \A c \in Client : pc[c] = "unset" => Gone(cur[c].id, {})

ScanInv ==
    \A w \in Worker :
        /\ pc[w] \notin {"lpop", "get", "requeue"} => scan[w] = PriorityCritical
        /\ pc[w] \in {"lpop", "get"} => Seen(w, scan[w])
        /\ pc[w] = "start" => Seen(w, cur[w].priority)

PrioInv == BudgetInv /\ Unpurged /\ FiledInv /\ ScanInv

(* The data of a task changes only in the hands of the client that settles *)
(* it or puts it back, or when it is nowhere any more.                     *)
LEMMA DataOfOthers ==
    ASSUME BudgetInv, FiledInv, ~HandlePurge, [Next]_vars, NEW x \in TaskId,
           Listed(x) \/ \E c \in Client : Held(c) = x /\ pc[c] \notin {"set", "ack", "nack"}
    PROVE  taskData'[x] = taskData[x]
<1> SUFFICES ASSUME taskData'[x] # taskData[x] PROVE FALSE
  OBVIOUS
<1>1. TypeOK /\ OnePlace
  BY Alone DEF BudgetInv, IInv
<1>2. PICK d \in Worker \cup Producer : pc[d] \in {"set", "unset", "ack", "nack"} /\ cur[d].id = x
  BY <1>1, DataWriters
<1>3. d \in Client
  BY DEF Client
<1>4. CASE pc[d] = "unset"
  <2>1. Gone(x, {})
    BY <1>2, <1>3, <1>4 DEF FiledInv
  <2> QED
    BY <2>1 DEF Gone
<1>5. CASE pc[d] # "unset"
  <2>1. Held(d) = x
    BY <1>2, <1>5 DEF Held, HandlesTask
  <2> QED
    BY <1>1, <1>2, <1>3, <1>5, <2>1 DEF OnePlace
<1> QED
  BY <1>4, <1>5

LEMMA ListedStayFiled ==
    ASSUME BudgetInv, FiledInv, ~HandlePurge, [Next]_vars, TypeOK',
           NEW k \in ListKey, NEW x \in Range(lists'[k])
    PROVE  Filed(x, k)'
<1>1. TypeOK
  BY DEF BudgetInv, IInv
<1>2. x \in TaskId
  BY DEF TypeOK, QueueTypeOK, Range
<1>3. CASE x \in Range(lists[k])
  <2>1. Filed(x, k) /\ Listed(x)
    BY <1>3 DEF FiledInv, Listed
  <2>2. taskData'[x] = taskData[x]
    BY <1>2, <2>1, DataOfOthers
  <2> QED
    BY <2>1, <2>2 DEF Filed
<1>4. CASE x \notin Range(lists[k])
  <2>1. CASE \E c \in Worker \cup Producer : /\ EnqueuePush(c) /\ pc[c] = "push"
                                             /\ cur[c].id = x /\ k = queueKeys(cur[c].priority)
    <3>1. PICK c \in Worker \cup Producer : /\ EnqueuePush(c) /\ pc[c] = "push"
                                            /\ cur[c].id = x /\ k = queueKeys(cur[c].priority)
      BY <2>1
    <3>2. taskData[x] = cur[c] /\ cur[c] # NoTask
      BY <1>1, <3>1, TaskAtHand DEF FiledInv, Client, HandlesTask
    <3>3. taskData' = taskData
      BY <3>1 DEF EnqueuePush
    <3> QED
      BY <3>1, <3>2, <3>3 DEF Filed
  <2>2. CASE \E w \in Worker : /\ DequeueRequeue(w) /\ pc[w] = "requeue"
                               /\ got[w] = x /\ k = scan[w]
    <3>1. PICK w \in Worker : /\ DequeueRequeue(w) /\ pc[w] = "requeue"
                              /\ got[w] = x /\ k = scan[w]
      BY <2>2
    <3>2. Filed(x, k)
      BY <3>1 DEF FiledInv
    <3>3. taskData' = taskData
      BY <3>1 DEF DequeueRequeue
    <3> QED
      BY <3>2, <3>3 DEF Filed
  <2> QED
    BY <1>1, <1>2, <1>4, <2>1, <2>2, ListedFrom
<1> QED
  BY <1>3, <1>4

LEMMA PoppedStaysFiled ==
    ASSUME BudgetInv, FiledInv, ~HandlePurge, [Next]_vars, TypeOK',
           NEW w \in Worker, pc'[w] \in {"get", "requeue"}
    PROVE  Filed(got[w], scan[w])'
<1>1. TypeOK /\ w \in Client
  BY DEF BudgetInv, IInv, Client
<1>2. CASE Keeps(w)
  <2>1. Filed(got[w], scan[w]) /\ Held(w) = got[w] /\ got[w] \in TaskId
        /\ got'[w] = got[w] /\ scan'[w] = scan[w]
    BY <1>1, <1>2 DEF FiledInv, Keeps, Held, TypeOK, FrameOK
  <2>2. taskData'[got[w]] = taskData[got[w]]
    BY <1>1, <1>2, <2>1, DataOfOthers DEF Keeps
  <2> QED
    BY <2>1, <2>2 DEF Filed
<1>3. CASE ~Keeps(w) /\ pc'[w] = "get"
  <2>1. DequeueLPop(w)
    BY <1>1, <1>3, Arrives
  <2>2. got'[w] \in Range(lists[scan[w]]) /\ scan'[w] = scan[w] /\ scan[w] \in ListKey
    BY <1>1, <1>3, <2>1, PopEffect
  <2>3. Filed(got'[w], scan'[w])
    BY <2>2 DEF FiledInv
  <2>4. taskData' = taskData
    BY <2>1 DEF DequeueLPop
  <2> QED
    BY <2>3, <2>4 DEF Filed
<1>4. CASE ~Keeps(w) /\ pc'[w] = "requeue"
  <2>1. DequeueGet(w)
    BY <1>1, <1>4, Arrives
  <2>2. pc[w] = "get" /\ taskData' = taskData
    BY <2>1 DEF DequeueGet
  <2>3. got' = got /\ scan' = scan
    <3>1. pc \in [Client -> Pc]
      BY <1>1 DEF TypeOK, CallTypeOK
    <3>2. [pc EXCEPT ![w] = "lpop"][w] = "lpop" /\ [pc EXCEPT ![w] = "idle"][w] = "idle"
          /\ [pc EXCEPT ![w] = "start"][w] = "start"
      BY <1>1, <3>1
    <3> QED
      BY <1>4, <2>1, <3>2 DEF DequeueGet, Goto, NextPriority, Return
  <2> QED
    BY <2>2, <2>3 DEF FiledInv, Filed
<1> QED
  BY <1>2, <1>3, <1>4

LEMMA PushHasData ==
    ASSUME BudgetInv, FiledInv, ~HandlePurge, [Next]_vars, TypeOK',
           NEW c \in Client, pc'[c] = "push"
    PROVE  taskData'[cur'[c].id] = cur'[c]
<1>1. TypeOK
  BY DEF BudgetInv, IInv
<1>2. CASE Keeps(c)
  <2>1. pc[c] = "push" /\ cur'[c] = cur[c]
    BY <1>2 DEF Keeps
  <2>2. taskData[cur[c].id] = cur[c] /\ Held(c) = cur[c].id /\ cur[c].id \in TaskId
    BY <1>1, <2>1, TaskAtHand DEF FiledInv, Held, HandlesTask
  <2>3. taskData'[cur[c].id] = taskData[cur[c].id]
    BY <2>1, <2>2, DataOfOthers
  <2> QED
    BY <2>1, <2>2, <2>3
<1>3. CASE ~Keeps(c)
  <2>1. c \in Worker \cup Producer /\ EnqueueSet(c)
    BY <1>1, <1>3, Arrives
  <2>2. pc \in [Client -> Pc] /\ taskData \in [TaskId -> Task \cup {NoTask}] /\ pc[c] = "set"
    BY <1>1, <2>1 DEF TypeOK, CallTypeOK, QueueTypeOK, EnqueueSet
  <2>3. PICK y \in TaskId : y = cur[c].id
    BY <1>1, <2>2, TaskAtHand DEF HandlesTask
  <2>4. [pc EXCEPT ![c] = "idle"][c] = "idle"
    BY <2>2
  <2>5. taskData' = [taskData EXCEPT ![y] = cur[c]] /\ cur' = cur
    BY <2>1, <2>3, <2>4 DEF EnqueueSet, Answered, Executed, Return
  <2> QED
    BY <2>2, <2>3, <2>5
<1> QED
  BY <1>2, <1>3

(* A push that is answered with an error was not executed.                 *)
LEMMA UnpushedIsGone ==
    ASSUME NoRepeats, NoLostAnswers, BudgetInv, FiledInv, [Next]_vars, TypeOK',
           NEW c \in Client, pc'[c] = "unset"
    PROVE  Gone(cur[c].id, {})'
<1>1. TypeOK /\ DataKeyed /\ OnePlace
  BY Alone DEF BudgetInv, IInv
<1>2. PICK x \in TaskId : x = cur'[c].id
  <2>1. cur'[c] \in Task
    BY DEF TypeOK, FrameOK
  <2> QED
    BY <2>1 DEF Task
<1> SUFFICES Gone(x, {})'
  BY <1>2 DEF Gone
<1>3. CASE Keeps(c)
  <2>1. Gone(x, {})
    BY <1>2, <1>3 DEF Keeps, FiledInv
  <2> QED
    BY <1>1, <2>1, GoneStays
<1>4. CASE ~Keeps(c)
  <2>1. c \in Worker \cup Producer /\ EnqueuePush(c)
    BY <1>1, <1>4, Arrives
  <2>2. pc[c] = "push" /\ cur' = cur /\ Held(c) = x
    BY <1>2, <2>1 DEF EnqueuePush, Held, HandlesTask
  <2>3. lists' = lists
    <3>1. pc \in [Client -> Pc] /\ lists \in [ListKey -> Seq(TaskId)]
      BY <1>1 DEF TypeOK, CallTypeOK, QueueTypeOK
    <3>2. PICK o \in Outcome :
            /\ Command(c, o) /\ Goto(c, IF Answered(o) THEN "count" ELSE "unset")
            /\ lists' = [lists EXCEPT ![queueKeys(cur[c].priority)] = RPushed(@, cur[c].id, o)]
      BY <2>1 DEF EnqueuePush
    <3>3. ~Answered(o)
      BY <3>1, <3>2 DEF Goto
    <3>4. o = "error"
      BY <3>2, <3>3 DEF Answered, Outcome, FaultKind, Command, NoLostAnswers
    <3>5. lists' = [lists EXCEPT ![queueKeys(cur[c].priority)] = @]
      BY <3>2, <3>4 DEF RPushed, Executed
    <3> QED
      BY <3>1, <3>5
  <2>4. ~Listed(x) /\ ~Waiting(x) /\ \A d \in Client : d # c => Held(d) # x
    BY <1>1, <2>2 DEF OnePlace
  <2>5. ~Listed(x)' /\ ~Waiting(x)'
    BY <1>1, <2>3, <2>4, RequestsMoveOn, StillWaiting DEF Listed
  <2>6. ASSUME NEW d \in Client, Held(d)' = x PROVE FALSE
    <3>1. Held(d) = x
      BY <1>1, <2>4, <2>6, HeldFrom
    <3>2. d = c
      BY <2>4, <3>1
    <3>3. Held(c)' = NoId
      BY DEF Held, HandlesTask
    <3> QED
      BY <2>6, <3>2, <3>3, TaskAssumption
  <2> QED
    BY <2>5, <2>6 DEF Gone
<1> QED
  BY <1>3, <1>4

(* What a worker has noted it keeps until its task is started.             *)
LEMMA ArrivalsAdd ==
    ASSUME TypeOK, [Next]_vars, NEW w \in Worker,
           pc[w] \in {"lpop", "get", "start"}, pc'[w] \in {"lpop", "get", "start"}
    PROVE  arrived[w] \subseteq arrived'[w]
<1>0. arrived \in [Worker -> SUBSET TaskId] /\ w \in Client
  BY DEF TypeOK, CallTypeOK, Client
<1>1. \A x, o : NoteArrival(x, o) => arrived[w] \subseteq arrived'[w]
  BY <1>0 DEF NoteArrival
<1>2. ASSUME NEW d \in Worker, WorkerStep(d), OthersKeep(d) PROVE arrived[w] \subseteq arrived'[w]
  <2> USE <1>0, <1>1, <1>2
  <2>1. CASE Poll(d) \/ Start(d) \/ Crash(d)
    <3>1. pc \in [Client -> Pc] /\ d \in Client
      BY DEF TypeOK, CallTypeOK, Client
    <3>2. pc[d] = "idle" \/ pc'[d] \in {"exec", "idle"}
      BY <2>1, <3>1 DEF Poll, Start, Crash, Goto, Return
    <3>3. d # w
      BY <3>2
    <3> QED
      BY <2>1, <3>3 DEF Poll, DequeueCall, Start, Crash
  <2>2. CASE Exit(d) \/ ExecuteSuccess(d) \/ ExecuteFailure(d) \/ SaveCompleted(d)
               \/ HandleTaskFailure(d) \/ EndSaveTask(d)
    BY <2>2 DEF Exit, ExecuteSuccess, ExecuteFailure, SaveCompleted, HandleTaskFailure, EndSaveTask
  <2>3. CASE DequeueLPop(d) \/ DequeueGet(d) \/ DequeueRequeue(d)
    BY <2>3 DEF DequeueLPop, DequeueGet, DequeueRequeue
  <2>4. CASE AckTask(d) \/ Retry(d) \/ EnqueueDLQ(d) \/ EnqueueDLQMeta(d) \/ Nack(d)
    BY <2>4 DEF AckTask, Ack, Nack, Settle, Retry, EnqueueCall, EnqueueDLQ, EnqueueDLQMeta
  <2>5. CASE EnqueueSet(d) \/ EnqueuePush(d) \/ EnqueueUnset(d) \/ EnqueueCount(d)
    BY <2>5 DEF EnqueueSet, EnqueuePush, EnqueueUnset, EnqueueCount
  <2> QED
    BY <1>2, <2>1, <2>2, <2>3, <2>4, <2>5, WorkerActions
<1>3. ASSUME NEW p \in Producer, RequestStep(p) PROVE arrived[w] \subseteq arrived'[w]
  BY <1>1, <1>3 DEF RequestStep, Submit, HandleSubmit, SubmitStep, SubmitAccepted, BrokerCrash,
     EnqueueCall, EnqueueSet, EnqueuePush, EnqueueUnset, EnqueueCount
<1> QED
  BY <1>2, <1>3, StepKinds, PurgeFrame DEF Still

LEMMA FiledStays ==
    ASSUME NoRepeats, NoLostAnswers, BudgetInv, FiledInv, ~HandlePurge, [Next]_vars, TypeOK'
    PROVE  FiledInv'
<1>1. \A k \in ListKey : \A x \in Range(lists'[k]) : Filed(x, k)'
  BY ListedStayFiled
<1>2. \A w \in Worker : pc'[w] \in {"get", "requeue"} => Filed(got[w], scan[w])'
  BY PoppedStaysFiled
<1>3. \A c \in Client : pc'[c] = "push" => taskData'[cur'[c].id] = cur'[c]
  BY PushHasData
<1>4. \A c \in Client : pc'[c] = "unset" => Gone(cur[c].id, {})'
  BY UnpushedIsGone
<1> QED
  BY <1>1, <1>2, <1>3, <1>4 DEF FiledInv

(* Every Dequeue begins at the top.                                        *)
LEMMA ScanAtTop ==
    ASSUME TypeOK, ScanInv, [Next]_vars, NEW w \in Worker,
           pc'[w] \notin {"lpop", "get", "requeue"}
    PROVE  scan'[w] = PriorityCritical
<1>1. w \in Client /\ pc \in [Client -> Pc] /\ scan \in [Worker -> Priority]
  BY DEF TypeOK, CallTypeOK, Client
<1>2. CASE Keeps(w)
  BY <1>2 DEF Keeps, ScanInv
<1>3. CASE WorkerStep(w)
  <2>1. CASE pc[w] \notin {"lpop", "get", "requeue"} /\ scan' = scan
    BY <2>1 DEF ScanInv
  <2>2. CASE LeaveDequeue(w)
    BY <1>1, <2>2 DEF LeaveDequeue
  <2>3. CASE Poll(w) \/ Exit(w) \/ Crash(w)
    BY <2>1, <2>2, <2>3 DEF Poll, DequeueCall, Exit, QueueUntouched, Crash
  <2>4. CASE Start(w) \/ ExecuteSuccess(w) \/ ExecuteFailure(w) \/ SaveCompleted(w)
               \/ HandleTaskFailure(w) \/ EndSaveTask(w)
    BY <2>1, <2>4 DEF Start, ExecuteSuccess, ExecuteFailure, SaveCompleted, HandleTaskFailure,
                EndSaveTask, QueueUntouched
  <2>5. CASE DequeueLPop(w) \/ DequeueGet(w) \/ DequeueRequeue(w)
    <3>1. /\ [pc EXCEPT ![w] = "lpop"][w] = "lpop" /\ [pc EXCEPT ![w] = "get"][w] = "get"
          /\ [pc EXCEPT ![w] = "requeue"][w] = "requeue"
      BY <1>1
    <3>2. LeaveDequeue(w)
      BY <2>5, <3>1 DEF DequeueLPop, DequeueGet, DequeueRequeue, NextPriority, Goto
    <3> QED
      BY <2>2, <3>2
  <2>6. CASE AckTask(w) \/ Retry(w) \/ EnqueueDLQ(w) \/ EnqueueDLQMeta(w) \/ Nack(w)
    BY <2>1, <2>6 DEF AckTask, Ack, Nack, Settle, Retry, EnqueueCall, EnqueueDLQ, EnqueueDLQMeta
  <2>7. CASE EnqueueSet(w) \/ EnqueuePush(w) \/ EnqueueUnset(w) \/ EnqueueCount(w)
    BY <2>1, <2>7 DEF EnqueueSet, EnqueuePush, EnqueueUnset, EnqueueCount
  <2> QED
    BY <1>3, <2>3, <2>4, <2>5, <2>6, <2>7, WorkerActions
<1> QED
  BY <1>1, <1>2, <1>3, Actor, ClientAssumption

(* What was queued above level n and noted by w, or is pushed now, is noted*)
(* after the step, unless w forgets it.                                    *)
LEMMA SeenStays ==
    ASSUME TypeOK, TypeOK', [Next]_vars, NEW w \in Worker, NEW n, Seen(w, n),
           pc[w] \in {"lpop", "get", "start"}, pc'[w] \in {"lpop", "get", "start"}
    PROVE  \A k \in Priority : k > n => Range(lists'[k]) \subseteq arrived'[w]
<1> SUFFICES ASSUME NEW k \in Priority, k > n, NEW x \in Range(lists'[k])
             PROVE  x \in arrived'[w]
  OBVIOUS
<1>1. k \in ListKey /\ x \in TaskId
  <2>1. k \in ListKey
    BY PriorityKeys
  <2> QED
    BY <2>1 DEF TypeOK, QueueTypeOK, Range
<1>2. CASE x \in Range(lists[k])
  BY <1>2, ArrivalsAdd DEF Seen
<1>3. CASE x \notin Range(lists[k])
  BY <1>1, <1>3, ListedFrom DEF Noted
<1> QED
  BY <1>2, <1>3

LEMMA ScanStays ==
    ASSUME NoRepeats, BudgetInv, FiledInv, ScanInv, ~HandlePurge, [Next]_vars, TypeOK'
    PROVE  ScanInv'
<1>1. TypeOK
  BY DEF BudgetInv, IInv
<1>2. ASSUME NEW w \in Worker, pc'[w] \in {"lpop", "get"} PROVE Seen(w, scan[w])'
  <2>0. w \in Client /\ scan \in [Worker -> Priority] /\ pc \in [Client -> Pc]
        /\ taskData \in [TaskId -> Task \cup {NoTask}]
    BY <1>1 DEF TypeOK, CallTypeOK, QueueTypeOK, Client
  <2>1. CASE pc[w] \in {"lpop", "get"} /\ scan'[w] = scan[w]
    <3>1. Seen(w, scan[w])
      BY <2>1 DEF ScanInv
    <3> QED
      BY <1>1, <1>2, <2>1, <3>1, SeenStays DEF Seen
  <2>2. CASE Keeps(w)
    BY <1>2, <2>1, <2>2 DEF Keeps
  <2>3. CASE Poll(w)
    <3>1. scan'[w] = PriorityCritical
      BY <2>3 DEF Poll, DequeueCall, ScanInv
    <3> QED
      BY <3>1 DEF Seen, Priority, PriorityCritical, PriorityLow
  <2>4. CASE DequeueLPop(w)
    <3>1. pc[w] = "lpop" /\ (pc'[w] = "get" => scan'[w] = scan[w])
      BY <1>1, <2>4, PopEffect
    <3>2. CASE pc'[w] = "get"
      BY <2>1, <3>1, <3>2
    <3>3. CASE pc'[w] = "lpop"
      <4>1. scan'[w] = scan[w] - 1 /\ lists[scan[w]] = <<>>
        BY <1>1, <2>4, <3>3, PopEffect DEF NoRepeats
      <4>2. \A k \in Priority : k > scan[w] => Range(lists'[k]) \subseteq arrived'[w]
        <5>1. Seen(w, scan[w])
          BY <3>1 DEF ScanInv
        <5> QED
          BY <1>1, <3>1, <3>3, <5>1, SeenStays
      <4>3. Range(lists'[scan[w]]) = {}
        <5>1. Range(lists'[scan[w]]) \subseteq Range(lists[scan[w]])
          BY <1>1, <2>4, PopEffect
        <5>2. Range(lists[scan[w]]) = {}
          BY <4>1 DEF Range
        <5> QED
          BY <5>1, <5>2
      <4>4. \A k \in Priority : k > scan[w] - 1 => k = scan[w] \/ k > scan[w]
        BY <2>0 DEF Priority, PriorityLow, PriorityCritical
      <4> QED
        BY <4>1, <4>2, <4>3, <4>4 DEF Seen
    <3> QED
      BY <1>2, <3>2, <3>3
  <2>5. CASE DequeueGet(w)
    <3>1. pc[w] = "get"
      BY <2>5 DEF DequeueGet
    <3>2. taskData[got[w]] # NoTask
      BY <3>1 DEF FiledInv, Filed
    <3>3. [pc EXCEPT ![w] = "requeue"][w] = "requeue" /\ [pc EXCEPT ![w] = "start"][w] = "start"
      BY <2>0
    <3> QED
      BY <1>2, <2>5, <3>2, <3>3 DEF DequeueGet, Goto
  <2> QED
    BY <1>1, <1>2, <2>0, <2>2, <2>3, <2>4, <2>5, Arrives
<1>3. ASSUME NEW w \in Worker, pc'[w] = "start" PROVE Seen(w, cur[w].priority)'
  <2>0. w \in Client /\ scan \in [Worker -> Priority] /\ pc \in [Client -> Pc]
        /\ cur \in [Client -> Task \cup {NoTask}]
    BY <1>1 DEF TypeOK, CallTypeOK, Client
  <2>1. CASE Keeps(w)
    <3>1. Seen(w, cur[w].priority) /\ pc[w] = "start" /\ cur'[w] = cur[w]
      BY <1>3, <2>1 DEF ScanInv, Keeps
    <3> QED
      BY <1>1, <1>3, <3>1, SeenStays DEF Seen
  <2>2. CASE ~Keeps(w)
    <3>1. DequeueGet(w)
      BY <1>1, <1>3, <2>0, <2>2, Arrives
    <3>2. pc[w] = "get" /\ Seen(w, scan[w]) /\ Filed(got[w], scan[w])
      <4>1. pc[w] = "get"
        BY <3>1 DEF DequeueGet
      <4> QED
        BY <4>1 DEF ScanInv, FiledInv
    <3>3. cur'[w] = taskData[got[w]]
      <4>1. [pc EXCEPT ![w] = "requeue"][w] = "requeue" /\ [pc EXCEPT ![w] = "lpop"][w] = "lpop"
            /\ [pc EXCEPT ![w] = "idle"][w] = "idle"
        BY <2>0
      <4> QED
        BY <1>3, <2>0, <3>1, <4>1 DEF DequeueGet, Goto, NextPriority, Return
    <3>4. queueKeys(cur'[w].priority) = scan[w] /\ scan[w] \in Priority
      BY <2>0, <3>2, <3>3 DEF Filed
    <3>5. cur'[w].priority = scan[w]
      BY <3>4 DEF queueKeys, Unkeyed, Priority, PriorityLow, PriorityCritical
    <3>6. \A k \in Priority : k > scan[w] => Range(lists'[k]) \subseteq arrived'[w]
      BY <1>1, <1>3, <3>2, SeenStays
    <3> QED
      BY <3>5, <3>6 DEF Seen
  <2> QED
    BY <2>1, <2>2
<1> QED
  BY <1>1, <1>2, <1>3, ScanAtTop DEF ScanInv

(* The lists and the scans are in order in every reachable state.          *)
LEMMA PrioHolds ==
    ASSUME UniqueIds, NoRepeats, NoLostAnswers, NoPurge
    PROVE  Spec => []PrioInv
<1>1. Init => PrioInv
  <2> SUFFICES ASSUME Init PROVE PrioInv
    OBVIOUS
  <2>1. BudgetInv
    BY InitBudget
  <2>2. /\ pc = [c \in Client |-> "idle"] /\ lists = [k \in ListKey |-> <<>>]
        /\ scan = [w \in Worker |-> PriorityCritical] /\ purges = 0
    BY DEF Init, QueueInit
  <2>3. \A k \in ListKey : Range(lists[k]) = {}
    BY <2>2 DEF Range
  <2> QED
    BY <2>1, <2>2, <2>3 DEF PrioInv, Unpurged, FiledInv, ScanInv, Client
<1>2. PrioInv /\ [Next]_vars => PrioInv'
  <2> SUFFICES ASSUME PrioInv, [Next]_vars PROVE PrioInv'
    OBVIOUS
  <2>1. BudgetInv' /\ TypeOK /\ TypeOK'
    BY NextBudget, NextType DEF PrioInv, BudgetInv, IInv
  <2>2. Unpurged' /\ ~HandlePurge
    BY <2>1, NoPurgeSteps DEF PrioInv
  <2>3. FiledInv' /\ ScanInv'
    BY <2>1, <2>2, FiledStays, ScanStays DEF PrioInv
  <2> QED
    BY <2>1, <2>2, <2>3 DEF PrioInv
<1> QED
  BY <1>1, <1>2, PTL DEF Spec

(* When Dequeue hands out a task, whatever is queued with its data at a    *)
(* higher priority was pushed after the call began, however the commands of*)
(* other clients fall between its LPOPs. It takes distinct ids, that no    *)
(* command is sent twice or executed without an answer (which leaves an id *)
(* without data in a list, and that sends Dequeue to the next level), and  *)
(* no Purge, which does the same.                                          *)
THEOREM PrioritiesAreRespected ==
    ASSUME UniqueIds, NoRepeats, NoLostAnswers, NoPurge
    PROVE  Spec => []PriorityRespected
<1>1. Spec => []PrioInv
  BY PrioHolds
<1>2. PrioInv => PriorityRespected
  BY DEF PrioInv, ScanInv, Seen, PriorityRespected
<1> QED
  BY <1>1, <1>2, PTL

-----------------------------------------------------------------------------
(* Queries by state.                                                       *)

(* A worker that is inside SaveTask does nothing else before its end.      *)
SavingInv == \A w \in indexing : pc[w] \in AfterSave

LEMMA SavingKeeps ==
    ASSUME TypeOK, SavingInv, [Next]_vars, NEW w \in indexing, w \in indexing'
    PROVE  pc'[w] = pc[w] /\ cur'[w] = cur[w]
<1>1. w \in Worker /\ w \in Client /\ pc[w] \in AfterSave
  BY DEF TypeOK, RecordTypeOK, Client, SavingInv
<1>2. CASE Keeps(w)
  BY <1>2 DEF Keeps
<1>3. CASE ~Keeps(w)
  <2>1. WorkerStep(w)
    BY <1>1, <1>3, Actor, ClientAssumption
  <2>2. Crash(w) \/ EndSaveTask(w)
    BY <1>1, <2>1, WorkerActions
       DEF Moves, AfterSave, Saved, ExecuteSuccess, ExecuteFailure, AckTask, Retry
  <2> QED
    BY <2>2 DEF Crash, EndSaveTask
<1> QED
  BY <1>2, <1>3

(* Who writes the records and their sets.                                  *)
Saves(w) == Start(w) \/ SaveCompleted(w) \/ HandleTaskFailure(w)

LEMMA IndexWriters ==
    ASSUME [Next]_vars
    PROVE  \/ UNCHANGED <<store, index, indexing>>
           \/ \E w \in Worker : Saves(w) \/ EndSaveTask(w) \/ Crash(w)
BY DEF Next, WorkerStep, RequestStep, Submit, HandlePurge, Disconnect, Cancel, HandleSubmit,
       SubmitStep, SubmitAccepted, BrokerCrash, Poll, Exit, Handle, DequeueStep, ExecuteSuccess,
       ExecuteFailure, AckTask, Retry, EnqueueStep, MoveToDLQ, QueueOnly, vars, storeVars, Saves

(* As long as no command fails, nobody dies and no worker is cancelled,    *)
(* the record of a task and the set of its state are apart only while the  *)
(* worker that wrote the record is on its way to the set.                  *)
IndexInv ==
    /\ TypeOK /\ SavingInv
    /\ Calm => \A x \in TaskId : store[x] # NoTask =>
            \/ x \in index[store[x].state]
            \/ \E w \in indexing : cur[w] = store[x] /\ cur[w].id = x

(* Who is calm after a step was calm before.                               *)
LEMMA CalmBefore ==
    ASSUME TypeOK, [Next]_vars, Calm'
    PROVE  /\ Calm /\ faults' = faults
           /\ \A w \in Worker : ~Crash(w) /\ ~Refused(w)
<1>0. faults \in Nat /\ crashes \in Nat
  BY DEF TypeOK, QueueTypeOK, RecordTypeOK
<1>1. faults = 0 /\ faults' = 0
  BY <1>0, FaultsAdd DEF Calm
<1>2. crashes' = crashes \/ crashes' = crashes + 1
  <2>1. \A w : Poll(w) \/ Exit(w) \/ DequeueStep(w) \/ AckTask(w) \/ Retry(w) \/ EnqueueStep(w)
              \/ MoveToDLQ(w) => crashes' = crashes
    BY DEF Poll, Exit, DequeueStep, AckTask, Retry, EnqueueStep, MoveToDLQ, QueueOnly, workerVars
  <2>2. \A w : Start(w) \/ ExecuteSuccess(w) \/ ExecuteFailure(w) \/ SaveCompleted(w)
              \/ HandleTaskFailure(w) \/ EndSaveTask(w) => crashes' = crashes
    BY DEF Start, ExecuteSuccess, ExecuteFailure, SaveCompleted, HandleTaskFailure, EndSaveTask,
           workerVars
  <2>3. \A w : WorkerStep(w) => crashes' \in {crashes, crashes + 1}
    BY <2>1, <2>2 DEF WorkerStep, Handle, Crash
  <2> QED
    BY <2>3 DEF Next, RequestStep, Submit, HandleSubmit, SubmitStep, SubmitAccepted, BrokerCrash,
                HandlePurge, Disconnect, Cancel, vars, workerVars
<1>3. crashes = 0 /\ crashes' = 0
  BY <1>0, <1>2 DEF Calm
<1>4. \A w \in Worker : ~Crash(w)
  BY <1>3 DEF Crash
<1>5. ctxDone \subseteq ctxDone'
  BY <1>4, ContextsStay
<1> QED
  BY <1>1, <1>3, <1>4, <1>5 DEF Calm, Refused

LEMMA IndexStays ==
    ASSUME IndexInv, [Next]_vars
    PROVE  IndexInv'
<1>0. TypeOK /\ TypeOK' /\ SavingInv
  BY NextType DEF IndexInv
<1>1. /\ store \in [TaskId -> Task \cup {NoTask}] /\ index \in [State -> SUBSET TaskId]
      /\ indexing \subseteq Worker
      /\ pc \in [Client -> Pc] /\ cur \in [Client -> Task \cup {NoTask}]
  BY <1>0 DEF TypeOK, RecordTypeOK, CallTypeOK
<1>2. ASSUME NEW w \in Worker, Saves(w)
      PROVE  \E t \in Task : /\ SaveTask(w, t) /\ t.id \in TaskId /\ cur'[w] = t
                             /\ UNCHANGED index /\ pc'[w] \in AfterSave
  <2>1. cur[w] \in Task /\ w \in Client
    BY <1>0, <1>2, TaskAtHand DEF Saves, Start, SaveCompleted, HandleTaskFailure, HandlesTask, Client
  <2>2. CASE Start(w)
    BY <1>1, <2>1, <2>2, TaskMethods DEF Start, Goto, AfterSave
  <2>3. CASE SaveCompleted(w)
    BY <1>1, <2>1, <2>3, TaskMethods DEF SaveCompleted, Goto, AfterSave
  <2>4. CASE HandleTaskFailure(w)
    BY <1>1, <2>1, <2>4, TaskMethods DEF HandleTaskFailure, RetryOrBury, Goto, AfterSave
  <2> QED
    BY <1>2, <2>2, <2>3, <2>4 DEF Saves
<1>3. SavingInv'
  <2> SUFFICES ASSUME NEW v \in indexing' PROVE pc'[v] \in AfterSave
    BY DEF SavingInv
  <2>1. CASE v \in indexing
    BY <1>0, <2>1, SavingKeeps DEF SavingInv
  <2>2. CASE v \notin indexing
    <3>1. v \in Worker /\ Saves(v)
      BY <1>2, <2>2, IndexWriters DEF SaveTask, EndSaveTask, SaveTaskIndex, Crash
    <3> QED
      BY <1>2, <3>1
  <2> QED
    BY <2>1, <2>2
<1>4. ASSUME Calm', NEW x \in TaskId, store'[x] # NoTask
      PROVE  \/ x \in index'[store'[x].state]
             \/ \E w \in indexing' : cur'[w] = store'[x] /\ cur'[w].id = x
  <2>0. Calm /\ faults' = faults /\ \A w \in Worker : ~Crash(w) /\ ~Refused(w)
    BY <1>0, <1>4, CalmBefore
  <2>1. CASE UNCHANGED <<store, index, indexing>>
    BY <1>0, <1>4, <2>0, <2>1, SavingKeeps DEF IndexInv
  <2>2. ASSUME NEW w \in Worker, Saves(w)
        PROVE  \/ x \in index'[store'[x].state]
               \/ \E v \in indexing' : cur'[v] = store'[x] /\ cur'[v].id = x
    <3> PICK t \in Task : SaveTask(w, t) /\ t.id \in TaskId /\ cur'[w] = t /\ UNCHANGED index
      BY <1>2, <2>2
    <3>1. \/ UNCHANGED <<store, indexing>>
          \/ store' = [store EXCEPT ![t.id] = t] /\ indexing' = indexing \cup {w}
      BY <1>0, <2>0, CleanCommand DEF SaveTask, Executed, Answered
    <3>2. CASE x = t.id /\ store' = [store EXCEPT ![t.id] = t] /\ indexing' = indexing \cup {w}
      BY <1>1, <3>2
    <3>3. CASE store'[x] = store[x]
      BY <1>0, <1>4, <2>0, <3>1, <3>3, SavingKeeps DEF IndexInv
    <3> QED
      BY <1>1, <3>1, <3>2, <3>3
  <2>3. ASSUME NEW w \in Worker, EndSaveTask(w)
        PROVE  \/ x \in index'[store'[x].state]
               \/ \E v \in indexing' : cur'[v] = store'[x] /\ cur'[v].id = x
    <3>1. /\ store' = store /\ indexing' = indexing \ {w}
          /\ index' = [index EXCEPT ![cur[w].state] = @ \cup {cur[w].id}]
      BY <1>0, <2>0, <2>3, CleanCommand DEF EndSaveTask, SaveTaskIndex
    <3>2. store[x] \in Task /\ store[x].state \in State
      BY <1>1, <1>4, <3>1, TaskMethods
    <3>3. CASE x \in index[store[x].state]
      BY <1>1, <3>1, <3>2, <3>3
    <3>4. CASE cur[w] = store[x] /\ cur[w].id = x
      BY <1>1, <3>1, <3>2, <3>4
    <3>5. CASE \E v \in indexing' : cur[v] = store[x] /\ cur[v].id = x
      BY <1>0, <3>1, <3>5, SavingKeeps
    <3> QED
      BY <1>4, <2>0, <3>1, <3>3, <3>4, <3>5 DEF IndexInv
  <2> QED
    BY <2>0, <2>1, <2>2, <2>3, IndexWriters
<1> QED
  BY <1>0, <1>3, <1>4 DEF IndexInv

(* A query by state misses a task that is in the state only while the task *)
(* is on its way into the set of that state, or because more ids are in the*)
(* set than the query asks for, unless a command failed, somebody died or a*)
(* worker was cancelled before. This is so for any number of workers and   *)
(* requests and whatever ids these carry.                                  *)
THEOREM QueriesFindAll == Spec => []QueryFindsAll
<1>1. Init => IndexInv
  BY InitType DEF Init, StorageInit, IndexInv, SavingInv
<1>2. IndexInv /\ [Next]_vars => IndexInv'
  BY IndexStays
<1>3. IndexInv => QueryFindsAll
  <2> SUFFICES ASSUME IndexInv, Calm, NEW x \in TaskId, store[x] # NoTask,
                      x \in index[store[x].state], NEW limit \in QueryLimit,
                      ~(limit > 0 /\ Cardinality(index[store[x].state]) > limit),
                      NEW tasks \in GetTasksByState(store[x].state, limit)
               PROVE  store[x] \in tasks
    BY DEF IndexInv, QueryFindsAll
  <2> DEFINE s == store[x].state
  <2>1. ~(limit > 0 /\ limit < Cardinality(index[s]))
    OBVIOUS
  <2>2. tasks = {GetTask(id) : id \in {i \in index[s] : store[i] # NoTask}}
    BY <2>1 DEF GetTasksByState, Sampled
  <2> QED
    BY <2>2 DEF GetTask
<1> QED
  BY <1>1, <1>2, <1>3, PTL DEF Spec
=============================================================================
