---------------------------- MODULE LifecycleProof ----------------------------
(***************************************************************************)
(* The task path keeps its promises when nothing fails: no task is lost,   *)
(* and each task goes through the life cycle of TaskLifecycle. The whole   *)
(* argument rests on custody: a step moves the one task its client has in  *)
(* hand, so at most one task changes its status in a step, and where its   *)
(* client is tells from which status to which. Two more results have the   *)
(* same source: the counters add up, and a failure costs at most the one   *)
(* task that is at stake in the step that fails.                           *)
(***************************************************************************)
EXTENDS DataProof, CountingProof

(* Every command succeeds, no process dies and the workers are not stopped.*)
Undisturbed == FaultKinds = {} /\ MaxCrashes = 0 /\ ~MayCancel

(* The task with id x is past the start of an attempt in some worker.      *)
Running(x) == \E w \in Worker : pc[w] \in HandlesTask \ {"start"} /\ cur[w].id = x

Moved(x) == StatusOf(x)' # StatusOf(x) \/ attempts'[x] # attempts[x]

(* What the life cycle allows.                                             *)
Legal(x) ==
    \/ StatusOf(x) = "new" /\ StatusOf(x)' = "queued" /\ attempts'[x] = attempts[x]
    \/ /\ StatusOf(x) = "queued" /\ StatusOf(x)' = "running"
       /\ attempts[x] < AttemptsOf[x] /\ attempts'[x] = attempts[x] + 1
    \/ StatusOf(x) = "running" /\ StatusOf(x)' = "completed" /\ attempts'[x] = attempts[x]
    \/ /\ StatusOf(x) = "running" /\ StatusOf(x)' = "queued"
       /\ attempts[x] < AttemptsOf[x] /\ attempts'[x] = attempts[x]
    \/ /\ StatusOf(x) = "running" /\ StatusOf(x)' = "dead_letter"
       /\ attempts[x] = AttemptsOf[x] /\ attempts'[x] = attempts[x]

(* A step that moves no task stutters, and one that moves one task as the  *)
(* life cycle allows is a step of the life cycle.                          *)
LEMMA LegalStep ==
    ASSUME \A x \in SubmittedIds : Moved(x) => Legal(x),
           \A x, y \in SubmittedIds : Moved(x) /\ Moved(y) => x = y
    PROVE  [Lifecycle!Next]_<<[id \in SubmittedIds |-> StatusOf(id)],
                              [id \in SubmittedIds |-> attempts[id]]>>
<1> DEFINE st == [id \in SubmittedIds |-> StatusOf(id)]
           tr == [id \in SubmittedIds |-> attempts[id]]
<1>1. CASE \A x \in SubmittedIds : ~Moved(x)
  <2>1. st' = st /\ tr' = tr
    BY <1>1 DEF Moved
  <2> QED
    BY <2>1
<1>2. CASE \E x \in SubmittedIds : Moved(x)
  <2>1. PICK x \in SubmittedIds : Moved(x)
    BY <1>2
  <2>2. Legal(x) /\ \A y \in SubmittedIds : y # x => ~Moved(y)
    BY <2>1
  <2>3. st' = [st EXCEPT ![x] = StatusOf(x)'] /\ st[x] = StatusOf(x)
    BY <2>2 DEF Moved
  <2>4. tr' = [tr EXCEPT ![x] = attempts'[x]] /\ tr[x] = attempts[x]
    BY <2>2 DEF Moved
  <2>5. attempts'[x] = attempts[x] => tr' = tr
    BY <2>4
  <2>6. attempts'[x] = attempts[x] + 1 => tr' = [tr EXCEPT ![x] = @ + 1]
    BY <2>4
  <2> HIDE DEF st, tr
  <2>7. \/ Lifecycle!Submit(x) \/ Lifecycle!Take(x) \/ Lifecycle!Complete(x)
        \/ Lifecycle!Retry(x) \/ Lifecycle!Bury(x)
    BY <2>2, <2>3, <2>4, <2>5, <2>6
       DEF Legal, Lifecycle!Submit, Lifecycle!Take, Lifecycle!Complete, Lifecycle!Retry,
           Lifecycle!Bury, Lifecycle!Move, st, tr
  <2> QED
    BY <2>7 DEF Lifecycle!Next
<1> QED
  BY <1>1, <1>2

-----------------------------------------------------------------------------
(* Undisturbed steps.                                                      *)

LEMMA NothingFails ==
    ASSUME Undisturbed, [Next]_vars
    PROVE  faults' = faults
<1>1. \A c, o : Command(c, o) => faults' = faults
  BY DEF Command, Undisturbed
<1>2. \A c, S, T : Commands(c, S, T) => faults' = faults
  BY DEF Commands, Undisturbed
<1>3. \A c, t : SaveTask(c, t) => faults' = faults
  BY <1>1 DEF SaveTask
<1>9. \A c : SaveTaskIndex(c) => faults' = faults
  BY <1>2 DEF SaveTaskIndex
<1>4. \A c, x, r : SaveResult(c, x, r) => faults' = faults
  BY <1>2 DEF SaveResult
<1>5. \A w, k : Settle(w, k) => faults' = faults
  BY <1>2 DEF Settle
<1>6. HandlePurge => faults' = faults
  BY <1>1, <1>2 DEF HandlePurge, PurgeCall, Purge, PurgeList, PurgeKey, PurgeScanned, PurgeProcessing
<1>7. \A c : EnqueueSet(c) \/ EnqueuePush(c) \/ EnqueueUnset(c) \/ EnqueueCount(c) =>
            faults' = faults
  BY <1>1, <1>2 DEF EnqueueSet, EnqueuePush, EnqueueUnset, EnqueueCount
<1>8. \A w : DequeueLPop(w) \/ DequeueGet(w) \/ DequeueRequeue(w) \/ EnqueueDLQ(w) \/ EnqueueDLQMeta(w) =>
            faults' = faults
  BY <1>1, <1>2 DEF DequeueLPop, DequeueGet, DequeueRequeue, EnqueueDLQ, EnqueueDLQMeta
<1> QED
  BY <1>3, <1>4, <1>5, <1>6, <1>7, <1>8, <1>9
     DEF Next, WorkerStep, RequestStep, Submit, Disconnect, Cancel, HandleSubmit, EnqueueCall,
         SubmitStep, SubmitAccepted, BrokerCrash, Poll, DequeueCall, Exit, Crash, Handle,
         DequeueStep, Start, ExecuteSuccess, ExecuteFailure, SaveCompleted, HandleTaskFailure,
         EndSaveTask, AckTask, Ack, Retry, EnqueueStep, MoveToDLQ, Nack, vars, queueVars

(* Records and results agree, data is deleted only after the outcome is    *)
(* recorded, and no worker ever meets a command that fails.                *)
LiveInv ==
    /\ ResultInv /\ MayDelete
    /\ \A w \in Worker : w \notin ctxDone /\ pc[w] # "requeue"

LEMMA LiveStays ==
    ASSUME UniqueIds, Undisturbed, LiveInv, [Next]_vars
    PROVE  LiveInv'
<1>1. BudgetInv /\ TypeOK /\ TypeOK' /\ faults' = faults
  BY NextType, NothingFails DEF LiveInv, ResultInv, BudgetInv, IInv
<1>2. ResultInv'
  BY ResultStays DEF LiveInv, Undisturbed, NoRepeats, NoErrors
<1>3. MayDelete'
  BY <1>1, MayDeleteStays DEF LiveInv
<1>4. ASSUME NEW w \in Worker PROVE w \notin ctxDone' /\ pc'[w] # "requeue"
  <2>1. w \notin ctxDone'
    BY <1>1, Cancellations DEF LiveInv, Undisturbed, NoCrash
  <2>2. ASSUME pc'[w] = "requeue" PROVE FALSE
    <3>1. w \in Client /\ ~Keeps(w) /\ ~Refused(w)
      BY <2>2 DEF LiveInv, Keeps, Client, Refused
    <3>2. DequeueGet(w)
      BY <1>1, <2>2, <3>1, Arrives
    <3>3. pc \in [Client -> Pc]
      BY <1>1 DEF TypeOK, CallTypeOK
    <3>4. [pc EXCEPT ![w] = "lpop"][w] = "lpop" /\ [pc EXCEPT ![w] = "idle"][w] = "idle"
          /\ [pc EXCEPT ![w] = "start"][w] = "start"
      BY <3>1, <3>3
    <3>5. PICK done : Commands(w, {"get", "set"}, done) /\ "get" \notin done
      BY <2>2, <3>2, <3>4 DEF DequeueGet, Goto, NextPriority, Return
    <3> QED
      BY <1>1, <3>1, <3>5, CleanCommand
  <2> QED
    BY <2>1, <2>2
<1> QED
  BY <1>2, <1>3, <1>4 DEF LiveInv

LEMMA LiveHolds ==
    ASSUME UniqueIds, Undisturbed
    PROVE  Spec => []LiveInv
<1>1. Init => LiveInv
  <2> SUFFICES ASSUME Init PROVE LiveInv
    OBVIOUS
  <2>1. BudgetInv
    BY InitBudget
  <2>2. /\ \A x \in TaskId : result[x] # "success" /\ store[x] = NoTask
        /\ \A c \in Client : pc[c] = "idle" /\ c \notin ctxDone
    BY DEF Init, StorageInit, QueueInit
  <2> QED
    BY <2>1, <2>2 DEF LiveInv, ResultInv, MayDelete, Recorded, Buried, Client
<1>2. LiveInv /\ [Next]_vars => LiveInv'
  BY LiveStays
<1> QED
  BY <1>1, <1>2, PTL DEF Spec

-----------------------------------------------------------------------------
(* No task is lost.                                                        *)

(* A worker has the task, or will get it, or it is finished.               *)
Safe(x) == Listed(x) \/ (\E w \in Worker : Held(w) = x) \/ Finished(x)

LEMMA SafeStays ==
    ASSUME Undisturbed, NamedIds, LiveInv, PrioInv, ~HandlePurge, [Next]_vars,
           NEW x \in TaskId, Safe(x)
    PROVE  Safe(x)'
<1>1. BudgetInv /\ TypeOK /\ TypeOK' /\ DataKeyed /\ FiledInv /\ NoCrash /\ faults' = faults
  BY NextType, NothingFails DEF PrioInv, BudgetInv, IInv, Undisturbed, NoCrash
<1>2. CASE Finished(x)
  BY <1>1, <1>2, FinishedStays DEF Safe
<1>3. CASE Listed(x)
  <2>1. PICK k \in ListKey : x \in Range(lists[k])
    BY <1>3 DEF Listed
  <2>2. CASE x \in Range(lists'[k])
    BY <2>2 DEF Safe, Listed
  <2>3. CASE x \notin Range(lists'[k])
    <3>1. PICK w \in Worker : pc'[w] = "get" /\ got'[w] = x
      BY <1>1, <2>1, <2>3, ListedTo
    <3> QED
      BY <3>1 DEF Safe, Held
  <2> QED
    BY <2>2, <2>3
<1>4. ASSUME NEW w \in Worker, Held(w) = x, ~Finished(x) PROVE Safe(x)'
  <2>1. w \in Client /\ ~Refused(w) /\ pc[w] # "requeue"
    BY DEF LiveInv, Refused, Client
  <2>2. CASE Held(w)' = x
    BY <2>2 DEF Safe
  <2>3. CASE Held(w)' # x
    <3>1. (Listed(x)' \/ taskData'[x] = NoTask) /\ pc[w] \in {"get", "push", "ack", "nack"}
      BY <1>1, <1>4, <2>1, <2>3, HeldTo
    <3>2. pc[w] \notin {"ack", "nack"}
      BY <1>4, <2>1 DEF LiveInv, MayDelete, Held, HandlesTask, Finished, Buried, NamedIds
    <3>3. taskData[x] # NoTask
      <4>1. CASE pc[w] = "get"
        BY <1>1, <1>4, <4>1 DEF Held, FiledInv, Filed
      <4>2. CASE pc[w] = "push"
        BY <1>1, <1>4, <2>1, <4>2, TaskAtHand DEF Held, HandlesTask, FiledInv
      <4> QED
        BY <3>1, <3>2, <4>1, <4>2
    <3>4. taskData'[x] = taskData[x]
      BY <1>1, <1>4, <2>1, <3>1, <3>2, DataOfOthers
    <3> QED
      BY <3>1, <3>3, <3>4 DEF Safe
  <2> QED
    BY <2>2, <2>3
<1> QED
  BY <1>2, <1>3, <1>4 DEF Safe

SafeInv ==
    /\ \A x \in accepted : Safe(x)
    /\ \A p \in Producer : pc[p] = "count" => Safe(cur[p].id)

LEMMA AllSafe ==
    ASSUME Undisturbed, NamedIds, NoPurge, LiveInv, PrioInv, SafeInv, [Next]_vars
    PROVE  SafeInv'
<1>1. TypeOK /\ TypeOK' /\ faults' = faults
  BY NextType, NothingFails DEF PrioInv, BudgetInv, IInv
<1>2. ~HandlePurge
  BY <1>1, NoPurgeSteps DEF PrioInv
<1>3. ASSUME NEW x \in accepted' PROVE Safe(x)'
  <2>1. x \in TaskId /\ Safe(x)
    BY <1>1, <1>3, AcceptedFrom DEF SafeInv, TypeOK, RecordTypeOK
  <2> QED
    BY <1>2, <2>1, SafeStays
<1>4. ASSUME NEW p \in Producer, pc'[p] = "count" PROVE Safe(cur[p].id)'
  <2>0. p \in Client
    BY DEF Client
  <2> PICK y \in TaskId : y = cur'[p].id
    BY <1>1, <1>4, <2>0, TaskMethods DEF TypeOK, FrameOK
  <2>1. Safe(cur[p].id)' = Safe(y)'
    OBVIOUS
  <2>2. CASE Keeps(p)
    <3>1. Safe(y)
      BY <1>4, <2>2 DEF Keeps, SafeInv
    <3> QED
      BY <1>2, <2>1, <3>1, SafeStays
  <2>3. CASE ~Keeps(p)
    <3>1. EnqueuePush(p)
      BY <1>1, <1>4, <2>0, <2>3, Arrives
    <3>2. Listed(cur[p].id)' /\ cur' = cur
      BY <1>1, <1>4, <3>1, CleanPush DEF EnqueuePush
    <3>3. Listed(y)'
      BY <3>2
    <3> QED
      BY <2>1, <3>3 DEF Safe
  <2> QED
    BY <2>2, <2>3
<1> QED
  BY <1>3, <1>4 DEF SafeInv

(* A task the broker answered for is queued with its data, in a worker's   *)
(* hands or finished, for any number of workers, requests, tasks and       *)
(* retries and every interleaving of their commands, also when HTTP clients*)
(* go away: Enqueue stores the data before it pushes the id, Dequeue pops  *)
(* it before it reads the data, and Ack and Nack come after the outcome.   *)
(* It takes commands that succeed, workers that are neither killed nor     *)
(* stopped, no Purge, and ids that are distinct and not empty.             *)
THEOREM NoTaskIsLost ==
    ASSUME UniqueIds, NamedIds, Undisturbed, NoPurge
    PROVE  Spec => []NoLostTask
<1>1. Init => SafeInv
  BY DEF Init, QueueInit, BrokerInit, SafeInv, Client
<1>2. SafeInv /\ LiveInv /\ PrioInv /\ [Next]_vars => SafeInv'
  BY AllSafe
<1>3. Spec => []LiveInv
  BY LiveHolds
<1>4. Spec => []PrioInv
  BY PrioHolds DEF Undisturbed, NoRepeats, NoLostAnswers
<1>5. SafeInv /\ PrioInv => NoLostTask
  <2> SUFFICES ASSUME SafeInv, PrioInv, NEW x \in accepted
               PROVE  (Listed(x) /\ taskData[x] # NoTask) \/ HeldBySome(x) \/ Finished(x)
    BY DEF NoLostTask, Lost
  <2>1. Listed(x) => taskData[x] # NoTask
    BY DEF PrioInv, FiledInv, Filed, Listed
  <2> QED
    BY <2>1 DEF SafeInv, Safe, HeldBySome, Client
<1> QED
  BY <1>1, <1>2, <1>3, <1>4, <1>5, PTL DEF Spec

-----------------------------------------------------------------------------
(* The life cycle: which step moves a task, and how.                       *)

(* The client that has x in hand tells where x is in its life.             *)
Located ==
    \A x \in TaskId :
        /\ ~Waiting(x) /\ (\A c \in Client : Held(c) # x) => ~Unsent(x) /\ ~Running(x)
        /\ \A c \in Client : Held(c) = x =>
            /\ Unsent(x) <=> c \in Producer /\ pc[c] \in {"set", "push"}
            /\ Running(x) <=> c \in Worker /\ pc[c] \in HandlesTask \ {"start"}

LEMMA HolderTells == IInv => Located
<1> SUFFICES ASSUME IInv, NEW x \in TaskId
             PROVE  /\ ~Waiting(x) /\ (\A c \in Client : Held(c) # x) => ~Unsent(x) /\ ~Running(x)
                    /\ \A c \in Client : Held(c) = x =>
                        /\ Unsent(x) <=> c \in Producer /\ pc[c] \in {"set", "push"}
                        /\ Running(x) <=> c \in Worker /\ pc[c] \in HandlesTask \ {"start"}
  BY DEF Located
<1>1. OnePlace
  BY Alone
<1>2. ASSUME NEW p \in Producer, pc[p] \in {"set", "push"}, cur[p].id = x PROVE p \in Client /\ Held(p) = x
  BY <1>2 DEF Held, HandlesTask, Client
<1>3. ASSUME NEW w \in Worker, pc[w] \in HandlesTask, cur[w].id = x PROVE w \in Client /\ Held(w) = x
  BY <1>3 DEF Held, HandlesTask, Client
<1>4. Unsent(x) <=> Waiting(x) \/ \E p \in Producer : pc[p] \in {"set", "push"} /\ cur[p].id = x
  BY DEF Unsent, Waiting
<1>5. ASSUME NEW c \in Client, Held(c) = x
      PROVE  /\ Unsent(x) <=> c \in Producer /\ pc[c] \in {"set", "push"}
             /\ Running(x) <=> c \in Worker /\ pc[c] \in HandlesTask \ {"start"}
  <2>1. ~Waiting(x) /\ \A d \in Client : d # c => Held(d) # x
    BY <1>1, <1>5 DEF OnePlace
  <2>2. pc[c] \in HandlesTask => cur[c].id = x
    BY <1>5 DEF Held, HandlesTask
  <2>3. Unsent(x) <=> c \in Producer /\ pc[c] \in {"set", "push"}
    BY <1>2, <1>4, <2>1, <2>2 DEF HandlesTask
  <2>4. Running(x) <=> c \in Worker /\ pc[c] \in HandlesTask \ {"start"}
    BY <1>3, <2>1, <2>2 DEF Running
  <2> QED
    BY <2>3, <2>4
<1>6. ~Waiting(x) /\ (\A c \in Client : Held(c) # x) => ~Unsent(x) /\ ~Running(x)
  BY <1>2, <1>3, <1>4 DEF Running
<1> QED
  BY <1>5, <1>6

LEMMA HolderTellsNext == IInv' => Located'
BY HolderTells, PTL

LEMMA AttemptWriters ==
    ASSUME TypeOK, [Next]_vars, NEW x \in TaskId, attempts'[x] # attempts[x]
    PROVE  \E w \in Worker : Start(w) /\ Held(w) = x
<1>1. PICK w \in Worker : Start(w)
  BY DEF Next, WorkerStep, RequestStep, Submit, HandlePurge, Disconnect, Cancel, HandleSubmit,
         SubmitStep, SubmitAccepted, BrokerCrash, Poll, Exit, Crash, Handle, DequeueStep,
         ExecuteSuccess, ExecuteFailure, SaveCompleted, HandleTaskFailure, EndSaveTask, AckTask,
         Retry, EnqueueStep, MoveToDLQ, QueueOnly, vars, workerVars
<1>2. attempts' = [attempts EXCEPT ![cur[w].id] = @ + 1] /\ pc[w] = "start"
  BY <1>1 DEF Start
<1>3. cur[w].id = x
  BY <1>2 DEF TypeOK, RecordTypeOK
<1> QED
  BY <1>1, <1>2, <1>3 DEF Held, HandlesTask

LEMMA Burials ==
    ASSUME TypeOK, [Next]_vars, NEW x \in TaskId, InDLQ(x)', ~InDLQ(x)
    PROVE  \E w \in Worker : EnqueueDLQ(w) /\ Held(w) = x
<1>0. dlq \in Seq(Task)
  BY DEF TypeOK, QueueTypeOK
<1>1. PICK w \in Worker : EnqueueDLQ(w)
  BY DeadLetterWriters DEF InDLQ
<1>2. pc[w] = "dlq" /\ w \in Client
  BY <1>1 DEF EnqueueDLQ, Client
<1>3. cur[w] \in Task
  BY <1>2, TaskAtHand DEF HandlesTask
<1> PICK u \in Task : u = [cur[w] EXCEPT !.state = "dead_letter"] /\ u.id = cur[w].id
  BY <1>3, TaskMethods DEF Task
<1> PICK o : dlq' = RPushed(dlq, u, o)
  BY <1>1 DEF EnqueueDLQ
<1> PICK i \in DOMAIN dlq' : dlq'[i].id = x
  BY DEF InDLQ
<1>4. dlq'[i] = u \/ (i \in DOMAIN dlq /\ dlq'[i] = dlq[i])
  <2>1. DOMAIN dlq = 1 .. Len(dlq) /\ Len(dlq) \in Nat
    BY <1>0
  <2>2. CASE dlq' = dlq
    BY <2>2
  <2>3. CASE dlq' = Append(dlq, u)
    BY <1>0, <2>1, <2>3
  <2>4. CASE dlq' = Append(Append(dlq, u), u)
    <3>1. Append(dlq, u) \in Seq(Task) /\ Len(Append(dlq, u)) = Len(dlq) + 1
      BY <1>0
    <3>2. i \in 1 .. Len(dlq) + 2
      BY <1>0, <2>4, <3>1
    <3> QED
      BY <1>0, <2>1, <2>4, <3>1, <3>2
  <2> QED
    BY <2>2, <2>3, <2>4 DEF RPushed
<1> QED
  BY <1>1, <1>2, <1>4 DEF InDLQ, Held, HandlesTask

LEMMA Completions ==
    ASSUME BudgetInv, [Next]_vars, NEW x \in TaskId,
           Recorded(x, "completed")' # Recorded(x, "completed")
    PROVE  \E w \in Worker : (SaveCompleted(w) \/ Start(w)) /\ Held(w) = x
<1>1. TypeOK
  BY DEF BudgetInv, IInv
<1>2. store'[x] # store[x]
  BY DEF Recorded
<1>3. PICK w \in Worker :
        /\ cur[w] \in Task /\ cur[w].id = x /\ Held(w) = x
        /\ Start(w) \/ SaveCompleted(w) \/ (HandleTaskFailure(w) /\ store'[x] = MarkFailed(cur[w]))
  BY <1>1, <1>2, RecordWriters
<1>4. CASE HandleTaskFailure(w) /\ store'[x] = MarkFailed(cur[w])
  <2>1. pc[w] = "failed" /\ w \in Client
    BY <1>4 DEF HandleTaskFailure, Client
  <2>2. ~Recorded(x, "completed")
    BY <1>3, <2>1, InHand DEF Settling, Decided
  <2>3. store'[x].state # "completed"
    BY <1>3, <1>4, MarkedStates
  <2> QED
    BY <2>2, <2>3 DEF Recorded
<1> QED
  BY <1>3, <1>4

(* A request turns to its tasks one after the other.                       *)
LEMMA TakenUp ==
    ASSUME TypeOK, Undisturbed, [Next]_vars, NEW x \in TaskId, Waiting(x), ~Waiting(x)'
    PROVE  Unsent(x)'
<1>0. PICK p \in Producer : \E i \in DOMAIN Request[p] : i > sent[p] /\ Request[p][i].id = x
  BY DEF Waiting
<1>1. PICK i \in DOMAIN Request[p] : i > sent[p] /\ Request[p][i].id = x
  BY <1>0
<1>2. ~(i > sent'[p])
  BY <1>1 DEF Waiting
<1>3. sent'[p] # sent[p]
  BY <1>1, <1>2
<1>4. sent \in [Producer -> Nat] /\ pc \in [Client -> Pc] /\ cur \in [Client -> Task \cup {NoTask}]
      /\ p \in Client /\ crashes \in Nat /\ i \in Nat
  BY RequestIds DEF TypeOK, RecordTypeOK, CallTypeOK, Client
<1>5. HandleSubmit(p)
  <2>1. PICK q \in Producer : HandleSubmit(q) \/ BrokerCrash(q)
    BY <1>3 DEF Next, WorkerStep, RequestStep, Submit, HandlePurge, Disconnect, Cancel,
         SubmitStep, SubmitAccepted, vars, brokerVars
  <2>2. HandleSubmit(q)
    BY <1>4, <2>1 DEF BrokerCrash, Undisturbed
  <2>3. q = p
    BY <1>3, <1>4, <2>2 DEF HandleSubmit
  <2> QED
    BY <2>2, <2>3
<1>6. sent'[p] = sent[p] + 1 /\ i = sent[p] + 1
  <2>1. sent'[p] = sent[p] + 1
    BY <1>4, <1>5 DEF HandleSubmit
  <2>2. sent[p] \in Nat
    BY <1>4
  <2> QED
    BY <1>1, <1>2, <1>4, <2>1, <2>2
<1>7. pc'[p] = "set" /\ cur'[p] = Request[p][i]
  BY <1>4, <1>5, <1>6 DEF HandleSubmit, EnqueueCall, Goto
<1> QED
  BY <1>1, <1>7 DEF Unsent

LEMMA Submissions ==
    ASSUME BudgetInv, IInv', Undisturbed, [Next]_vars, NEW x \in TaskId, Unsent(x)' # Unsent(x)
    PROVE  \E p \in Producer : Held(p) = x /\ pc[p] \in {"set", "push"} /\ Held(p)' # x
<1>1. TypeOK /\ TypeOK' /\ DataKeyed /\ Located /\ Located'
  BY HolderTells, HolderTellsNext DEF BudgetInv, IInv
<1>2. ASSUME NEW p \in Producer
      PROVE  /\ p \in Client /\ p \notin Worker
             /\ Held(p) = x <=> pc[p] \in {"set", "push"} /\ cur[p].id = x
             /\ Held(p)' = x <=> pc'[p] \in {"set", "push"} /\ cur'[p].id = x
  BY <1>1, ClientAssumption, TaskAssumption DEF TypeOK, CallTypeOK, Client, Held, HandlesTask
<1>3. Waiting(x)' => Waiting(x)
  BY <1>1, RequestsMoveOn, StillWaiting
<1>4. CASE Unsent(x)' /\ ~Unsent(x)
  <2>1. ~Waiting(x)
    BY <1>4 DEF Unsent, Waiting
  <2>2. PICK p \in Producer : pc'[p] \in {"set", "push"} /\ cur'[p].id = x
    BY <1>3, <1>4, <2>1 DEF Unsent, Waiting
  <2>3. Held(p)' = x /\ Held(p) # x
    BY <1>1, <1>2, <1>4, <2>2 DEF Unsent
  <2> QED
    BY <1>1, <1>2, <2>1, <2>3, HeldFrom
<1>5. CASE Unsent(x) /\ ~Unsent(x)'
  <2>1. ~Waiting(x)
    <3>1. ~Waiting(x)'
      BY <1>5 DEF Unsent, Waiting
    <3> QED
      BY <1>1, <1>5, <3>1, TakenUp
  <2>2. PICK p \in Producer : pc[p] \in {"set", "push"} /\ cur[p].id = x
    BY <1>5, <2>1 DEF Unsent, Waiting
  <2>3. Held(p) = x
    BY <1>2, <2>2
  <2>4. Held(p)' # x
    BY <1>2, <1>5 DEF Unsent
  <2> QED
    BY <2>2, <2>3, <2>4
<1> QED
  BY <1>4, <1>5 DEF Unsent

LEMMA Attempting ==
    ASSUME LiveInv, IInv', NamedIds, Undisturbed, [Next]_vars, NEW x \in TaskId,
           Running(x)' # Running(x)
    PROVE  \E w \in Worker : /\ Held(w) = x
                             /\ Start(w) \/ EnqueuePush(w) \/ (pc[w] \in {"ack", "nack"} /\ Held(w)' # x)
<1>1. BudgetInv /\ TypeOK /\ TypeOK' /\ DataKeyed /\ Located /\ Located' /\ faults' = faults
  BY HolderTells, HolderTellsNext, NothingFails DEF LiveInv, ResultInv, BudgetInv, IInv
<1>a. \A w : ~Crash(w)
  BY <1>1 DEF Crash, Undisturbed, TypeOK, RecordTypeOK
<1>2. CASE Running(x)' /\ ~Running(x)
  <2>1. PICK w \in Worker : pc'[w] \in HandlesTask \ {"start"} /\ cur'[w].id = x
    BY <1>2 DEF Running
  <2>2. w \in Client /\ w \notin Producer /\ Held(w)' = x
    BY <2>1, ClientAssumption DEF Client, Held, HandlesTask
  <2>3. ~Keeps(w)
    BY <1>2, <2>1 DEF Keeps, Running
  <2>4. Held(w) = x
    BY <1>1, <2>1, <2>2, HeldFrom DEF HandlesTask
  <2>5. WorkerStep(w)
    BY <1>1, <2>2, <2>3, Actor, ClientAssumption
  <2>6. pc[w] \in {"start", "get"}
    BY <1>1, <1>2, <2>2, <2>4, TaskAssumption DEF Located, Held, LiveInv
  <2>7. Start(w)
    BY <1>1, <1>a, <2>1, <2>5, <2>6, WorkerActions DEF Moves, HandlesTask
  <2> QED
    BY <2>4, <2>7
<1>3. CASE Running(x) /\ ~Running(x)'
  <2>1. PICK w \in Worker : pc[w] \in HandlesTask \ {"start"} /\ cur[w].id = x
    BY <1>3 DEF Running
  <2>2. w \in Client /\ w \notin Producer /\ Held(w) = x /\ ~Refused(w) /\ pc[w] # "requeue"
    BY <2>1, ClientAssumption DEF Client, Held, HandlesTask, LiveInv, Refused
  <2>3. ~Keeps(w)
    BY <1>3, <2>1 DEF Keeps, Running
  <2>4. WorkerStep(w)
    BY <1>1, <2>2, <2>3, Actor, ClientAssumption
  <2>5. pc'[w] \notin {"start", "get", "requeue"}
    BY <1>1, <2>1, <2>4, WorkerActions DEF Moves, HandlesTask
  <2>6. Held(w)' # x
    BY <1>3, <2>5, TaskAssumption DEF Running, Held
  <2>7. pc[w] \in {"push", "ack", "nack"}
    BY <1>1, <2>1, <2>2, <2>6, HeldTo DEF Undisturbed, NoCrash, HandlesTask
  <2>8. CASE pc[w] = "push"
    <3>1. EnqueuePush(w)
      BY <1>1, <1>a, <2>4, <2>8, WorkerActions DEF Moves, EndSaveTask, AfterSave
    <3> QED
      BY <2>2, <3>1
  <2> QED
    BY <2>2, <2>6, <2>7, <2>8
<1> QED
  BY <1>2, <1>3 DEF Running

(* The actions that move the task with id x.                               *)
Takes(w, x) == Start(w) /\ Held(w) = x
Completes(w, x) == SaveCompleted(w) /\ Held(w) = x
Buries(w, x) == EnqueueDLQ(w) /\ Held(w) = x
PutsBack(w, x) == EnqueuePush(w) /\ Held(w) = x
Submits(p, x) == Held(p) = x /\ pc[p] \in {"set", "push"} /\ Held(p)' # x

Mover(x) ==
    \/ \E w \in Worker : Takes(w, x) \/ Completes(w, x) \/ Buries(w, x) \/ PutsBack(w, x)
    \/ \E p \in Producer : Submits(p, x)

LEMMA MovedByHolder ==
    ASSUME NamedIds, Undisturbed, LiveInv, IInv', [Next]_vars, NEW x \in TaskId, Moved(x)
    PROVE  Mover(x)
<1>1. BudgetInv /\ TypeOK
  BY DEF LiveInv, ResultInv, BudgetInv, IInv
<1>2. CASE attempts'[x] # attempts[x]
  BY <1>1, <1>2, AttemptWriters DEF Mover, Takes
<1>3. CASE Recorded(x, "completed")' # Recorded(x, "completed")
  BY <1>1, <1>3, Completions DEF Mover, Takes, Completes
<1>4. CASE InDLQ(x)' # InDLQ(x)
  <2>1. InDLQ(x)' /\ ~InDLQ(x)
    BY <1>1, <1>4, DeadLettersStay DEF InDLQ
  <2> QED
    BY <1>1, <2>1, Burials DEF Mover, Buries
<1>5. CASE Unsent(x)' # Unsent(x)
  BY <1>1, <1>5, Submissions DEF Mover, Submits
<1>6. CASE Running(x)' # Running(x) /\ ~Recorded(x, "completed") /\ ~InDLQ(x)
  <2>1. PICK w \in Worker : /\ Held(w) = x
                            /\ Start(w) \/ EnqueuePush(w) \/ pc[w] \in {"ack", "nack"}
    BY <1>6, Attempting
  <2>2. pc[w] \notin {"ack", "nack"}
    BY <1>6, <2>1 DEF LiveInv, MayDelete, Held, HandlesTask, Refused, Buried, NamedIds
  <2> QED
    BY <2>1, <2>2 DEF Mover, Takes, PutsBack
<1>7. CASE /\ attempts'[x] = attempts[x]
           /\ Recorded(x, "completed")' = Recorded(x, "completed")
           /\ InDLQ(x)' = InDLQ(x) /\ Unsent(x)' = Unsent(x)
           /\ Running(x)' = Running(x) \/ Recorded(x, "completed") \/ InDLQ(x)
  <2>1. StatusOf(x) = IF Recorded(x, "completed") THEN "completed"
                      ELSE IF InDLQ(x) THEN "dead_letter"
                      ELSE IF Unsent(x) THEN "new" ELSE IF Running(x) THEN "running" ELSE "queued"
    BY DEF StatusOf, Running
  <2>2. StatusOf(x)' = IF Recorded(x, "completed")' THEN "completed"
                      ELSE IF InDLQ(x)' THEN "dead_letter"
                      ELSE IF Unsent(x)' THEN "new" ELSE IF Running(x)' THEN "running" ELSE "queued"
    BY DEF StatusOf, Running
  <2> QED
    BY <1>7, <2>1, <2>2 DEF Moved
<1> QED
  BY <1>2, <1>3, <1>4, <1>5, <1>6, <1>7

(* Only the client that acts moves a task, and it has one in hand.         *)
LEMMA OneMover ==
    ASSUME TypeOK, TypeOK', [Next]_vars, NEW x \in TaskId, NEW y \in TaskId, Mover(x), Mover(y)
    PROVE  x = y
<1>0. pc \in [Client -> Pc]
  BY DEF TypeOK, CallTypeOK
<1>1. ASSUME NEW z \in TaskId, Mover(z)
      PROVE  \E c \in Worker \cup Producer : Held(c) = z /\ ~Keeps(c)
  <2>1. ASSUME NEW w \in Worker, Takes(w, z) \/ Completes(w, z) \/ Buries(w, z) \/ PutsBack(w, z)
        PROVE  Held(w) = z /\ pc'[w] # pc[w]
    BY <1>0, <2>1 DEF Takes, Completes, Buries, PutsBack, Start, SaveCompleted, EnqueueDLQ,
       EnqueuePush, Goto, Client
  <2>2. ASSUME NEW p \in Producer, Submits(p, z) PROVE Held(p) = z /\ ~Keeps(p)
    BY <2>2 DEF Submits, Keeps, Held, HandlesTask
  <2> QED
    BY <1>1, <2>1, <2>2 DEF Mover, Keeps
<1>2. PICK c \in Worker \cup Producer : Held(c) = x /\ ~Keeps(c)
  BY <1>1
<1>3. PICK d \in Worker \cup Producer : Held(d) = y /\ ~Keeps(d)
  BY <1>1
<1>4. c = d
  <2>1. ASSUME NEW e \in Worker \cup Producer, ~Keeps(e)
        PROVE  /\ e \in Worker => \A f \in Client : f # e => Keeps(f)
               /\ e \in Producer => \A f \in Producer : f # e => Keeps(f)
    <3>1. (e \in Worker /\ WorkerStep(e)) \/ (e \in Producer /\ RequestStep(e))
      BY <2>1, Actor, ClientAssumption DEF Client
    <3>2. OthersKeep(e)
      BY <3>1, FrameOfWorker, FrameOfRequest
    <3> QED
      BY <3>1, <3>2, ScanFrame, ClientAssumption DEF OthersKeep, Keeps, Client
  <2> QED
    BY <1>2, <1>3, <2>1 DEF Client
<1> QED
  BY <1>2, <1>3, <1>4

-----------------------------------------------------------------------------
(* Every move is one the life cycle allows.                                *)

LEMMA SubmittedTasks ==
    ASSUME NEW x \in SubmittedIds
    PROVE  x \in TaskId /\ \E t \in Submitted : t.id = x /\ AttemptsOf[x] = Attempts(t)
<1>1. \A t \in Submitted : t \in Task
  BY RequestIds DEF Submitted, Range
<1>2. PICK t \in Submitted : t.id = x
  BY DEF SubmittedIds
<1>3. x \in TaskId
  BY <1>1, <1>2 DEF Task
<1>4. (CHOOSE u \in Submitted : u.id = x) \in Submitted /\ (CHOOSE u \in Submitted : u.id = x).id = x
  BY <1>2
<1> QED
  BY <1>3, <1>4 DEF AttemptsOf

(* Where a task is that some client has in hand.                           *)
LEMMA StatusInHand ==
    ASSUME LiveInv, NEW c \in Client, NEW x \in TaskId, Held(c) = x
    PROVE  /\ pc[c] = "start" => StatusOf(x) = "queued"
           /\ c \in Worker /\ pc[c] \in {"completed", "dlq", "push"} => StatusOf(x) = "running"
           /\ c \in Producer => StatusOf(x) = "new"
<1>1. BudgetInv /\ IInv /\ TypeOK /\ Located
  BY HolderTells DEF LiveInv, ResultInv, BudgetInv, IInv
<1>2. pc[c] \notin Buried => ~InDLQ(x)
  BY <1>1, InHand
<1>3. pc[c] # "ack" => ~Recorded(x, "completed")
  <2>1. Recorded(x, "completed") => Gone(x, Succeeded)
    BY DEF LiveInv, ResultInv
  <2>2. pc[c] = "completed" => ~Recorded(x, "completed")
    BY <1>1, InHand DEF Settling, Decided
  <2> QED
    BY <2>1, <2>2 DEF Gone, Succeeded
<1>4. /\ Unsent(x) <=> c \in Producer /\ pc[c] \in {"set", "push"}
      /\ Running(x) <=> c \in Worker /\ pc[c] \in HandlesTask \ {"start"}
  BY <1>1 DEF Located
<1>5. c \in Producer => c \notin Worker /\ pc[c] \in {"set", "push"}
  BY <1>1, ClientAssumption, TaskAssumption DEF TypeOK, CallTypeOK, Held, HandlesTask
<1>6. pc[c] = "start" => c \notin Producer
  BY <1>5
<1>7. StatusOf(x) = IF Recorded(x, "completed") THEN "completed"
                    ELSE IF InDLQ(x) THEN "dead_letter"
                    ELSE IF Unsent(x) THEN "new" ELSE IF Running(x) THEN "running" ELSE "queued"
  BY DEF StatusOf, Running
<1>8. CASE pc[c] = "start"
  BY <1>2, <1>3, <1>4, <1>6, <1>7, <1>8 DEF Buried
<1>9. CASE c \in Worker /\ pc[c] \in {"completed", "dlq", "push"}
  BY <1>2, <1>3, <1>4, <1>5, <1>7, <1>9 DEF Buried, HandlesTask
<1>10. CASE c \in Producer
  BY <1>2, <1>3, <1>4, <1>5, <1>7, <1>10 DEF Buried
<1> QED
  BY <1>6, <1>8, <1>9, <1>10, ClientAssumption

(* A task that left its client without an outcome is queued.               *)
LEMMA StatusLeft ==
    ASSUME LiveInv, IInv', [Next]_vars, NEW c \in Client, NEW x \in TaskId,
           Held(c) = x, pc[c] \in {"set", "push"}, Held(c)' # x
    PROVE  StatusOf(x)' = "queued"
<1>1. BudgetInv /\ TypeOK /\ TypeOK' /\ DataKeyed /\ OnePlace /\ Located'
  BY Alone, HolderTellsNext DEF LiveInv, ResultInv, BudgetInv, IInv
<1>2. ~Waiting(x) /\ ~Listed(x) /\ \A d \in Client : d # c => Held(d) # x
  BY <1>1 DEF OnePlace
<1>3. ~Waiting(x)' /\ \A d \in Client : Held(d)' # x
  BY <1>1, <1>2, RequestsMoveOn, StillWaiting, HeldFrom
<1>4. ~Unsent(x)' /\ ~Running(x)'
  BY <1>1, <1>3 DEF Located
<1>5. ~InDLQ(x) /\ ~Recorded(x, "completed")
  BY <1>1, InHand DEF Buried, Settling, Decided
<1>6. ~InDLQ(x)'
  <2>1. ASSUME NEW w \in Worker, EnqueueDLQ(w), Held(w) = x PROVE FALSE
    BY <1>2, <2>1 DEF EnqueueDLQ, Client
  <2> QED
    BY <1>1, <1>5, <2>1, Burials
<1>7. ~Recorded(x, "completed")'
  <2>1. ASSUME NEW w \in Worker, SaveCompleted(w) \/ Start(w), Held(w) = x PROVE FALSE
    BY <1>2, <2>1 DEF SaveCompleted, Start, Client
  <2>2. Recorded(x, "completed")' = Recorded(x, "completed")
    BY <1>1, <2>1, Completions
  <2> QED
    BY <1>5, <2>2
<1> QED
  BY <1>4, <1>6, <1>7 DEF StatusOf, Running

LEMMA TakeLegal ==
    ASSUME LiveInv, IInv', [Next]_vars, NEW x \in SubmittedIds, NEW w \in Worker, Takes(w, x)
    PROVE  Legal(x)
<1>0. x \in TaskId /\ w \in Client /\ pc[w] = "start" /\ Held(w) = x /\ Start(w)
  BY SubmittedTasks DEF Takes, Start, Client
<1>1. BudgetInv /\ TypeOK /\ Located' /\ attempts \in [TaskId -> Nat]
      /\ store \in [TaskId -> Task \cup {NoTask}] /\ pc \in [Client -> Pc]
      /\ cur \in [Client -> Task \cup {NoTask}]
  BY HolderTellsNext DEF LiveInv, ResultInv, BudgetInv, IInv, TypeOK, RecordTypeOK, CallTypeOK
<1>2. PICK t \in Task : t = cur[w] /\ t.id = x
  BY <1>0, <1>1, TaskAtHand DEF Held, HandlesTask
<1>3. PICK s \in Submitted : s.id = x /\ AttemptsOf[x] = Attempts(s)
  BY SubmittedTasks
<1>4. attempts[x] < AttemptsOf[x]
  <2>1. Left(x, Attempts(t))
    BY <1>0, <1>1, <1>2, InHand DEF HandFits
  <2>2. attempts[x] + Attempts(t) = Attempts(s)
    BY <1>3, <2>1 DEF Left
  <2>3. Attempts(t) \in Nat /\ Attempts(t) >= 1 /\ attempts[x] \in Nat
    BY <1>0, <1>1, AttemptsLeft
  <2> QED
    BY <1>3, <2>2, <2>3
<1>5. attempts'[x] = attempts[x] + 1
  BY <1>0, <1>1, <1>2 DEF Start
<1>6. StatusOf(x)' = "running"
  <2>1. MarkStarted(t).id = x
    BY <1>2, TaskMethods
  <2>2. pc'[w] = "exec" /\ cur'[w] = MarkStarted(t)
    BY <1>0, <1>1, <1>2 DEF Start, Goto
  <2>3. Held(w)' = x
    BY <2>1, <2>2 DEF Held, HandlesTask
  <2>4. Running(x)' /\ ~Unsent(x)'
    BY <1>0, <1>1, <2>2, <2>3, ClientAssumption DEF Located, HandlesTask
  <2>5. ~InDLQ(x)'
    <3>1. ~InDLQ(x) /\ dlq' = dlq
      BY <1>0, <1>1, InHand DEF Buried, Start, QueueUntouched, redisVars
    <3> QED
      BY <3>1 DEF InDLQ
  <2>6. ~Recorded(x, "completed")'
    <3>1. ~Recorded(x, "completed")
      BY <1>0, <1>1, InHand DEF Settling, Decided
    <3>2. MarkStarted(t) \in Task /\ MarkStarted(t).state # "completed"
      BY MarkedStates, TaskMethods
    <3>3. store'[x] \in {store[x], MarkStarted(t)}
      <4>1. SaveTask(w, MarkStarted(t))
        BY <1>0, <1>2 DEF Start
      <4> QED
        BY <1>1, <2>1, <3>2, <4>1, SavedTask
    <3> QED
      BY <3>1, <3>2, <3>3 DEF Recorded
  <2> QED
    BY <2>4, <2>5, <2>6 DEF StatusOf, Running
<1> QED
  BY <1>0, <1>4, <1>5, <1>6, StatusInHand DEF Legal

LEMMA CompleteLegal ==
    ASSUME NamedIds, Undisturbed, LiveInv, [Next]_vars,
           NEW x \in SubmittedIds, NEW w \in Worker, Completes(w, x)
    PROVE  Legal(x)
<1>0. x \in TaskId /\ w \in Client /\ pc[w] = "completed" /\ Held(w) = x /\ SaveCompleted(w)
  BY SubmittedTasks DEF Completes, SaveCompleted, Client
<1>1. TypeOK /\ faults' = faults /\ ~Refused(w)
  BY NothingFails DEF LiveInv, ResultInv, BudgetInv, IInv, Refused
<1>2. cur[w].id = x /\ x # EmptyId
  BY <1>0 DEF Held, HandlesTask, NamedIds
<1>3. Recorded(x, "completed")'
  <2>1. Recorded(cur[w].id, "completed")' /\ cur'[w].id = cur[w].id
    BY <1>0, <1>1, <1>2, CleanCompletion
  <2> QED
    BY <1>0, <1>1, <1>2, <2>1, CleanCompletion DEF Recorded
<1>4. StatusOf(x)' = "completed" /\ attempts' = attempts
  BY <1>0, <1>3 DEF StatusOf, SaveCompleted, workerVars
<1> QED
  BY <1>0, <1>4, StatusInHand DEF Legal

LEMMA BuryLegal ==
    ASSUME Undisturbed, LiveInv, [Next]_vars,
           NEW x \in SubmittedIds, NEW w \in Worker, Buries(w, x)
    PROVE  Legal(x)
<1>0. x \in TaskId /\ w \in Client /\ pc[w] = "dlq" /\ Held(w) = x /\ EnqueueDLQ(w)
  BY SubmittedTasks DEF Buries, EnqueueDLQ, Client
<1>1. BudgetInv /\ TypeOK /\ faults' = faults /\ ~Refused(w) /\ attempts \in [TaskId -> Nat]
  BY NothingFails DEF LiveInv, ResultInv, BudgetInv, IInv, Refused, TypeOK, RecordTypeOK
<1>2. cur[w].id = x /\ cur' = cur
  BY <1>0 DEF Held, HandlesTask, EnqueueDLQ
<1>3. InDLQ(x)'
  <2>1. InDLQ(cur[w].id)'
    BY <1>0, <1>1, CleanBurial
  <2> QED
    BY <1>2, <2>1 DEF InDLQ
<1>4. store' = store /\ attempts' = attempts
  <2>1. pc'[w] \in {"dlqMeta", "nack"}
    BY <1>0, <1>1, CleanBurial
  <2>2. WorkerStep(w)
    BY <1>0, <1>1, <2>1, Actor, ClientAssumption DEF Keeps
  <2>3. QueueOnly
    BY <1>0, <1>1, <2>1, <2>2, WorkerActions DEF Moves
  <2> QED
    BY <2>3 DEF QueueOnly, storeVars, workerVars
<1>5. ~Recorded(x, "completed")
  <2>1. Recorded(x, "completed") => Gone(x, Succeeded)
    BY <1>0 DEF LiveInv, ResultInv
  <2> QED
    BY <1>0, <2>1 DEF Gone, Succeeded
<1>6. StatusOf(x)' = "dead_letter"
  BY <1>3, <1>4, <1>5 DEF StatusOf, Recorded
<1>7. attempts[x] = AttemptsOf[x]
  <2>1. PICK s \in Submitted : s.id = x /\ AttemptsOf[x] = Attempts(s)
    BY SubmittedTasks
  <2>2. Left(x, 0)
    BY <1>0, <1>1, InHand DEF HandFits
  <2>3. attempts[x] + 0 = Attempts(s)
    BY <2>1, <2>2 DEF Left
  <2> QED
    BY <1>0, <1>1, <2>1, <2>3
<1> QED
  BY <1>0, <1>4, <1>6, <1>7, StatusInHand DEF Legal

LEMMA PutBackLegal ==
    ASSUME LiveInv, IInv', [Next]_vars, NEW x \in SubmittedIds, NEW w \in Worker, PutsBack(w, x)
    PROVE  Legal(x)
<1>0. x \in TaskId /\ w \in Client /\ pc[w] = "push" /\ Held(w) = x /\ EnqueuePush(w)
  BY SubmittedTasks DEF PutsBack, EnqueuePush, Client
<1>1. BudgetInv /\ TypeOK /\ attempts \in [TaskId -> Nat] /\ pc \in [Client -> Pc]
  BY DEF LiveInv, ResultInv, BudgetInv, IInv, TypeOK, RecordTypeOK, CallTypeOK
<1>2. pc'[w] \in {"count", "unset"}
  BY <1>0, <1>1 DEF EnqueuePush, Goto
<1>3. StatusOf(x)' = "queued"
  <2>1. Held(w)' # x
    BY <1>0, <1>2, TaskAssumption DEF Held, HandlesTask
  <2> QED
    BY <1>0, <2>1, StatusLeft
<1>4. attempts' = attempts
  <2>1. WorkerStep(w)
    BY <1>0, <1>1, <1>2, Actor, ClientAssumption DEF Keeps
  <2>2. QueueOnly
    BY <1>0, <1>1, <1>2, <2>1, WorkerActions DEF Moves
  <2> QED
    BY <2>2 DEF QueueOnly, workerVars
<1>5. attempts[x] < AttemptsOf[x]
  <2>1. PICK s \in Submitted : s.id = x /\ AttemptsOf[x] = Attempts(s)
    BY SubmittedTasks
  <2>2. PICK t \in Task : t = cur[w]
    BY <1>0, <1>1, TaskAtHand DEF HandlesTask
  <2>3. Left(x, Attempts(t))
    BY <1>0, <1>1, <2>2, InHand DEF HandFits
  <2>4. attempts[x] + Attempts(t) = Attempts(s)
    BY <2>1, <2>3 DEF Left
  <2>5. Attempts(t) \in Nat /\ Attempts(t) >= 1 /\ attempts[x] \in Nat
    BY <1>0, <1>1, <2>2, AttemptsLeft
  <2> QED
    BY <2>1, <2>4, <2>5
<1> QED
  BY <1>0, <1>3, <1>4, <1>5, StatusInHand DEF Legal

LEMMA SubmitLegal ==
    ASSUME LiveInv, IInv', [Next]_vars, NEW x \in SubmittedIds, NEW p \in Producer, Submits(p, x)
    PROVE  Legal(x)
<1>0. x \in TaskId /\ p \in Client /\ pc[p] \in {"set", "push"} /\ Held(p) = x /\ Held(p)' # x
  BY SubmittedTasks DEF Submits, Client
<1>1. TypeOK /\ OnePlace
  BY Alone DEF LiveInv, ResultInv, BudgetInv, IInv
<1>2. StatusOf(x)' = "queued" /\ StatusOf(x) = "new"
  BY <1>0, StatusLeft, StatusInHand
<1>3. attempts'[x] = attempts[x]
  <2>1. ASSUME NEW w \in Worker, Start(w), Held(w) = x PROVE FALSE
    BY <1>0, <1>1, <2>1 DEF OnePlace, Start, Client
  <2> QED
    BY <1>0, <1>1, <2>1, AttemptWriters
<1> QED
  BY <1>2, <1>3 DEF Legal

(* The queue, the workers and the records do to each task only what the    *)
(* life cycle of TaskLifecycle allows: it is submitted, taken by one worker*)
(* at a time, at most 1 + MaxRetries times, and ends completed or dead, for*)
(* any number of workers, requests and tasks, through purges and clients   *)
(* that go away. Failing commands, crashes and a shutdown are left out, for*)
(* they let Ack or Nack settle a task whose outcome was not recorded.      *)
THEOREM LifecycleIsImplemented ==
    ASSUME UniqueIds, NamedIds, Undisturbed
    PROVE  Spec => ImplementsLifecycle
<1> DEFINE st == [id \in SubmittedIds |-> StatusOf(id)]
           tr == [id \in SubmittedIds |-> attempts[id]]
<1>1. Init => Lifecycle!Init
  <2> SUFFICES ASSUME Init PROVE Lifecycle!Init
    OBVIOUS
  <2>1. ASSUME NEW x \in SubmittedIds PROVE StatusOf(x) = "new" /\ attempts[x] = 0
    <3>1. x \in TaskId
      BY SubmittedTasks
    <3>2. PICK p \in Producer : \E i \in DOMAIN Request[p] : Request[p][i].id = x
      BY DEF SubmittedIds, Submitted, Range
    <3>3. PICK i \in DOMAIN Request[p] : Request[p][i].id = x
      BY <3>2
    <3>4. sent[p] = 0 /\ i > 0
      <4>1. Request[p] \in Seq(Task)
        BY RequestAssumption
      <4> QED
        BY <4>1 DEF Init, BrokerInit
    <3>5. Unsent(x)
      BY <3>3, <3>4 DEF Unsent
    <3>6. store[x] = NoTask /\ dlq = <<>> /\ attempts[x] = 0
      BY <3>1 DEF Init, StorageInit, QueueInit, WorkerInit
    <3> QED
      BY <3>5, <3>6 DEF StatusOf, Recorded, InDLQ
  <2> QED
    BY <2>1 DEF Lifecycle!Init
<1>2. LiveInv /\ LiveInv' /\ [Next]_vars => [Lifecycle!Next]_<<st, tr>>
  <2> SUFFICES ASSUME LiveInv, LiveInv', [Next]_vars PROVE [Lifecycle!Next]_<<st, tr>>
    OBVIOUS
  <2>1. TypeOK /\ TypeOK' /\ IInv'
    BY DEF LiveInv, ResultInv, BudgetInv, IInv
  <2>2. ASSUME NEW x \in SubmittedIds, Moved(x) PROVE x \in TaskId /\ Mover(x)
    BY <2>1, <2>2, SubmittedTasks, MovedByHolder
  <2>3. ASSUME NEW x \in SubmittedIds, Moved(x) PROVE Legal(x)
    BY <2>1, <2>2, <2>3, TakeLegal, CompleteLegal, BuryLegal, PutBackLegal, SubmitLegal DEF Mover
  <2>4. \A x, y \in SubmittedIds : Moved(x) /\ Moved(y) => x = y
    BY <2>1, <2>2, OneMover
  <2> QED
    BY <2>3, <2>4, LegalStep
<1>3. Spec => []LiveInv
  BY LiveHolds
<1> QED
  BY <1>1, <1>2, <1>3, PTL DEF Spec, ImplementsLifecycle, Lifecycle!Spec

-----------------------------------------------------------------------------
(* The counters of the dead letter queue.                                  *)

(* The workers at label l.                                                 *)
At(l) == {w \in Worker : pc[w] = l}

(* A dead letter is counted in "dlq" one step after it is in the list, and *)
(* in "failed" one step later.                                             *)
CountInv ==
    /\ Len(dlq) = stats["dlq"] + Cardinality(At("dlqMeta"))
    /\ stats["dlq"] = stats["failed"] + Cardinality(At("nack"))

(* Nobody else goes to or leaves the labels at which it is counted.        *)
LEMMA CountedElsewhere ==
    ASSUME TypeOK, TypeOK', Undisturbed, [Next]_vars, NEW w \in Worker,
           pc[w] \in {"dlqMeta", "nack"} \/ pc'[w] \in {"dlqMeta", "nack"}, pc'[w] # pc[w]
    PROVE  WorkerStep(w) /\ (EnqueueDLQ(w) \/ EnqueueDLQMeta(w) \/ Nack(w))
<1>1. w \in Client /\ ~Keeps(w) /\ ~Crash(w)
  BY DEF Client, Keeps, Crash, Undisturbed, TypeOK, RecordTypeOK
<1>2. WorkerStep(w)
  BY <1>1, Actor, ClientAssumption
<1> QED
  BY <1>1, <1>2, WorkerActions DEF Moves

LEMMA CountersOfDLQ ==
    ASSUME TypeOK, [Next]_vars, ~\E w \in Worker : EnqueueDLQ(w) \/ EnqueueDLQMeta(w) \/ Nack(w)
    PROVE  dlq' = dlq /\ stats'["dlq"] = stats["dlq"] /\ stats'["failed"] = stats["failed"]
<1>0. stats \in [Counter -> Nat]
  BY DEF TypeOK, QueueTypeOK
<1>1. dlq' = dlq
  BY DeadLetterWriters
<1>2. \A c : EnqueueCount(c) => stats'["dlq"] = stats["dlq"] /\ stats'["failed"] = stats["failed"]
  BY <1>0 DEF EnqueueCount, Counter
<1>3. \A w : AckTask(w) => stats'["dlq"] = stats["dlq"] /\ stats'["failed"] = stats["failed"]
  BY <1>0 DEF AckTask, Ack, Settle, Counter
<1>4. \A c : EnqueueSet(c) \/ EnqueuePush(c) \/ EnqueueUnset(c) => stats' = stats
  BY DEF EnqueueSet, EnqueuePush, EnqueueUnset
<1>5. \A w : \/ Poll(w) \/ Exit(w) \/ Crash(w) \/ DequeueStep(w) \/ Start(w) \/ ExecuteSuccess(w)
             \/ ExecuteFailure(w) \/ SaveCompleted(w) \/ HandleTaskFailure(w)
             \/ EndSaveTask(w) \/ Retry(w)
             => stats' = stats
  BY DEF Poll, DequeueCall, Exit, Crash, DequeueStep, DequeueLPop, DequeueGet, DequeueRequeue,
         Start, ExecuteSuccess, ExecuteFailure, SaveCompleted, HandleTaskFailure, EndSaveTask,
         QueueUntouched, Retry, EnqueueCall, redisVars
<1>6. ASSUME NEW w \in Worker, WorkerStep(w)
      PROVE  stats'["dlq"] = stats["dlq"] /\ stats'["failed"] = stats["failed"]
  BY <1>2, <1>3, <1>4, <1>5, <1>6 DEF WorkerStep, Handle, EnqueueStep, MoveToDLQ
<1>7. ASSUME NEW p \in Producer, RequestStep(p)
      PROVE  stats'["dlq"] = stats["dlq"] /\ stats'["failed"] = stats["failed"]
  BY <1>2, <1>4, <1>7 DEF RequestStep, Submit, HandleSubmit, EnqueueCall, SubmitStep,
     SubmitAccepted, BrokerCrash, redisVars
<1>8. HandlePurge => stats' = stats
  BY DEF HandlePurge, PurgeCall, Purge, PurgeList, PurgeKey, PurgeScanned, PurgeProcessing, redisVars
<1> QED
  BY <1>1, <1>6, <1>7, <1>8 DEF Next, Disconnect, Cancel, vars, queueVars, redisVars

LEMMA CountStays ==
    ASSUME IsFiniteSet(Worker), Undisturbed, NamedIds, LiveInv, LiveInv', CountInv, [Next]_vars
    PROVE  CountInv'
<1>1. TypeOK /\ TypeOK' /\ faults' = faults /\ (\A w \in Worker : ~Refused(w))
  BY NothingFails DEF LiveInv, ResultInv, BudgetInv, IInv, Refused
<1>2. /\ pc \in [Client -> Pc] /\ stats \in [Counter -> Nat] /\ dlq \in Seq(Task)
      /\ \A w \in Worker : w \in Client
  BY <1>1 DEF TypeOK, CallTypeOK, QueueTypeOK, Client
<1>3. \A l : IsFiniteSet(At(l)) /\ Cardinality(At(l)) \in Nat
  <2>1. \A l : At(l) \subseteq Worker
    BY DEF At
  <2> QED
    BY <2>1, FS_Subset, FS_CardinalityType
<1>4. CASE ~\E w \in Worker : EnqueueDLQ(w) \/ EnqueueDLQMeta(w) \/ Nack(w)
  <2>1. At("dlqMeta")' = At("dlqMeta") /\ At("nack")' = At("nack")
    BY <1>1, <1>4, CountedElsewhere DEF At
  <2>2. dlq' = dlq /\ stats'["dlq"] = stats["dlq"] /\ stats'["failed"] = stats["failed"]
    BY <1>1, <1>4, CountersOfDLQ
  <2> QED
    BY <2>1, <2>2 DEF CountInv
<1>5. ASSUME NEW w \in Worker, EnqueueDLQ(w) \/ EnqueueDLQMeta(w) \/ Nack(w)
      PROVE  CountInv'
  <2>1. pc[w] \in {"dlq", "dlqMeta", "nack"} /\ pc'[w] # pc[w]
    BY <1>2, <1>5 DEF EnqueueDLQ, EnqueueDLQMeta, Nack, Settle, Goto, Return
  <2>2. \A d \in Worker : d # w => pc'[d] = pc[d]
    BY <1>2, <1>5 DEF EnqueueDLQ, EnqueueDLQMeta, Nack, Settle, Goto, Return
  <2>3. CASE EnqueueDLQ(w)
    <3>1. pc[w] = "dlq" /\ pc'[w] = "dlqMeta" /\ stats' = stats
      BY <1>1, <2>3, CleanBurial DEF EnqueueDLQ
    <3>2. Len(dlq') = Len(dlq) + 1
      <4>1. PICK u, o : Command(w, o) /\ dlq' = RPushed(dlq, u, o)
        BY <2>3 DEF EnqueueDLQ
      <4>2. o = "ok"
        BY <1>1, <4>1, CleanCommand
      <4> QED
        BY <1>2, <4>1, <4>2 DEF RPushed, Executed
    <3>3. At("dlqMeta")' = At("dlqMeta") \cup {w} /\ w \notin At("dlqMeta") /\ At("nack")' = At("nack")
      BY <2>2, <3>1 DEF At
    <3>4. Cardinality(At("dlqMeta")') = Cardinality(At("dlqMeta")) + 1
      BY <1>3, <3>3, FS_AddElement
    <3> QED
      BY <1>2, <1>3, <3>1, <3>2, <3>3, <3>4 DEF CountInv, Counter
  <2>4. CASE EnqueueDLQMeta(w)
    <3>1. pc[w] = "dlqMeta" /\ pc'[w] = "nack" /\ dlq' = dlq
      BY <1>2, <2>4 DEF EnqueueDLQMeta, Goto
    <3>2. stats' = [stats EXCEPT !["dlq"] = @ + 1]
      <4>1. PICK done : /\ Commands(w, {"meta", "stats"}, done)
                        /\ stats' = IF "stats" \in done THEN [stats EXCEPT !["dlq"] = @ + 1] ELSE stats
        BY <2>4 DEF EnqueueDLQMeta
      <4>2. done = {"meta", "stats"}
        BY <1>1, <4>1, CleanCommand
      <4> QED
        BY <4>1, <4>2
    <3>3. /\ At("dlqMeta")' = At("dlqMeta") \ {w} /\ w \in At("dlqMeta")
          /\ At("nack")' = At("nack") \cup {w} /\ w \notin At("nack")
      BY <2>2, <3>1 DEF At
    <3>4. /\ Cardinality(At("dlqMeta")') = Cardinality(At("dlqMeta")) - 1
          /\ Cardinality(At("nack")') = Cardinality(At("nack")) + 1
      BY <1>3, <3>3, FS_AddElement, FS_RemoveElement
    <3>5. stats'["dlq"] = stats["dlq"] + 1 /\ stats'["failed"] = stats["failed"]
          /\ stats["dlq"] \in Nat /\ stats["failed"] \in Nat
      BY <1>2, <3>2 DEF Counter
    <3> QED
      BY <1>2, <1>3, <3>1, <3>4, <3>5 DEF CountInv
  <2>5. CASE Nack(w)
    <3>1. pc[w] = "nack" /\ pc'[w] = "idle" /\ dlq' = dlq
      BY <1>2, <2>5 DEF Nack, Settle, Return
    <3>2. cur[w].id # EmptyId
      BY <1>1, <1>2, <3>1, TaskAtHand DEF HandlesTask, NamedIds
    <3>3. stats' = [stats EXCEPT !["failed"] = @ + 1]
      BY <1>1, <2>5, <3>2, CleanCommand DEF Nack, Settle
    <3>4. /\ At("dlqMeta")' = At("dlqMeta")
          /\ At("nack")' = At("nack") \ {w} /\ w \in At("nack")
      BY <2>2, <3>1 DEF At
    <3>5. /\ Cardinality(At("nack")') = Cardinality(At("nack")) - 1
          /\ Cardinality(At("dlqMeta")') = Cardinality(At("dlqMeta"))
      BY <1>3, <3>4, FS_RemoveElement
    <3>6. stats'["dlq"] = stats["dlq"] /\ stats'["failed"] = stats["failed"] + 1
          /\ stats["dlq"] \in Nat /\ stats["failed"] \in Nat
      BY <1>2, <3>3 DEF Counter
    <3>7. Cardinality(At("nack")) \in Nat /\ Cardinality(At("dlqMeta")) \in Nat
      BY <1>3
    <3>8. Len(dlq') = stats'["dlq"] + Cardinality(At("dlqMeta")')
      BY <3>1, <3>5, <3>6 DEF CountInv
    <3>9. stats'["dlq"] = stats'["failed"] + Cardinality(At("nack")')
      BY <3>5, <3>6, <3>7 DEF CountInv
    <3> QED
      BY <3>8, <3>9 DEF CountInv
  <2> QED
    BY <1>5, <2>3, <2>4, <2>5
<1> QED
  BY <1>4, <1>5

(* The last part of Accounting, which needs less than the others: when     *)
(* everyone is idle, the list of dead letters, the counter EnqueueDLQ keeps*)
(* of it and the counter of failures that Nack keeps agree, also when      *)
(* clients go away or purge the queue.                                     *)
THEOREM DeadLettersAreCounted ==
    ASSUME IsFiniteSet(Worker), UniqueIds, NamedIds, Undisturbed
    PROVE  Spec => [](AtRest => stats["dlq"] = stats["failed"] /\ Len(dlq) = stats["dlq"])
<1>1. Init => CountInv
  <2> SUFFICES ASSUME Init PROVE CountInv
    OBVIOUS
  <2>1. At("dlqMeta") = {} /\ At("nack") = {}
    BY DEF Init, QueueInit, At, Client
  <2>2. dlq = <<>> /\ stats["dlq"] = 0 /\ stats["failed"] = 0
    BY DEF Init, QueueInit, Counter
  <2>3. Cardinality(At("dlqMeta")) = 0 /\ Cardinality(At("nack")) = 0
    BY <2>1, FS_EmptySet
  <2> QED
    BY <2>2, <2>3 DEF CountInv
<1>2. CountInv /\ LiveInv /\ LiveInv' /\ [Next]_vars => CountInv'
  BY CountStays
<1>3. Spec => []LiveInv
  BY LiveHolds
<1>4. CountInv /\ LiveInv => (AtRest => stats["dlq"] = stats["failed"] /\ Len(dlq) = stats["dlq"])
  <2> SUFFICES ASSUME CountInv, LiveInv, AtRest
               PROVE  stats["dlq"] = stats["failed"] /\ Len(dlq) = stats["dlq"]
    OBVIOUS
  <2>1. At("dlqMeta") = {} /\ At("nack") = {}
    BY DEF AtRest, At, Client
  <2>2. stats["dlq"] \in Nat /\ stats["failed"] \in Nat
    BY DEF LiveInv, ResultInv, BudgetInv, IInv, TypeOK, QueueTypeOK, Counter
  <2>3. Cardinality(At("dlqMeta")) = 0 /\ Cardinality(At("nack")) = 0
    BY <2>1, FS_EmptySet
  <2> QED
    BY <2>2, <2>3 DEF CountInv
<1> QED
  BY <1>1, <1>2, <1>3, <1>4, PTL DEF Spec

-----------------------------------------------------------------------------
(* The accounts.                                                           *)

(* The clients at the labels of L.                                         *)
Busy(L) == {c \in Client : pc[c] \in L}

(* Their number changes by n.                                              *)
Shift(L, n) == Cardinality(Busy(L))' = Cardinality(Busy(L)) + n

LEMMA Moving ==
    ASSUME IsFiniteSet(Client), NEW c \in Client, OthersKeep(c), NEW L
    PROVE  /\ Cardinality(Busy(L)) \in Nat
           /\ (pc[c] \in L <=> pc'[c] \in L) => Shift(L, 0)
           /\ pc[c] \notin L /\ pc'[c] \in L => Shift(L, 1)
           /\ pc[c] \in L /\ pc'[c] \notin L => Shift(L, -1)
<1>1. /\ Busy(L) \subseteq Client /\ Busy(L)' \subseteq Client
      /\ \A d \in Client : d # c => (d \in Busy(L)' <=> d \in Busy(L))
      /\ c \in Busy(L) <=> pc[c] \in L
      /\ c \in Busy(L)' <=> pc'[c] \in L
  BY DEF Busy, OthersKeep
<1>2. IsFiniteSet(Busy(L)) /\ IsFiniteSet(Busy(L)')
  BY <1>1, FS_Subset
<1>3. Cardinality(Busy(L)) \in Nat /\ Cardinality(Busy(L)') \in Nat
  BY <1>2, FS_CardinalityType
<1>4. (pc[c] \in L <=> pc'[c] \in L) => Busy(L)' = Busy(L)
  BY <1>1
<1>5. pc[c] \notin L /\ pc'[c] \in L => c \notin Busy(L) /\ Busy(L)' = Busy(L) \cup {c}
  BY <1>1
<1>6. pc[c] \in L /\ pc'[c] \notin L => c \notin Busy(L)' /\ Busy(L) = Busy(L)' \cup {c}
  BY <1>1
<1> HIDE DEF Busy
<1>7. pc[c] \in L /\ pc'[c] \notin L => Cardinality(Busy(L)) = Cardinality(Busy(L)') + 1
  BY <1>2, <1>6, FS_AddElement
<1>8. pc[c] \notin L /\ pc'[c] \in L => Cardinality(Busy(L)') = Cardinality(Busy(L)) + 1
  BY <1>2, <1>5, FS_AddElement
<1> QED
  BY <1>3, <1>4, <1>7, <1>8 DEF Shift

Fields == {"processed", "failed", "retried"}

Column(f) == [w \in Worker |-> counters[w][f]]

LEMMA ColumnType ==
    ASSUME TypeOK, NEW f \in Fields
    PROVE  Column(f) \in [Worker -> Nat]
<1>1. \A w \in Worker : counters[w] \in [processed : Nat, failed : Nat, retried : Nat]
  BY DEF TypeOK, RecordTypeOK
<1>2. \A r \in [processed : Nat, failed : Nat, retried : Nat] : r[f] \in Nat
  BY DEF Fields
<1> QED
  BY <1>1, <1>2 DEF Column

(* A worker counts one more in field f, and nothing else.                  *)
Counts(w, f) ==
    /\ counters'[w][f] = counters[w][f] + 1
    /\ \A g \in Fields : g # f => counters'[w][g] = counters[w][g]
    /\ \A d \in Worker : d # w => counters'[d] = counters[d]

LEMMA CountersCount ==
    ASSUME TypeOK, NEW w \in Worker
    PROVE  /\ counters' = [counters EXCEPT ![w].processed = @ + 1] => Counts(w, "processed")
           /\ counters' = [counters EXCEPT ![w].failed = @ + 1] => Counts(w, "failed")
           /\ counters' = [counters EXCEPT ![w].retried = @ + 1] => Counts(w, "retried")
<1>1. counters \in [Worker -> [processed : Nat, failed : Nat, retried : Nat]]
  BY DEF TypeOK, RecordTypeOK
<1> QED
  BY <1>1 DEF Counts, Fields

LEMMA SumUp ==
    ASSUME TypeOK, TypeOK', NEW w \in Worker, NEW f \in Fields, Counts(w, f),
           \A g \in Fields : IsFiniteSet(Units(Column(g)))
    PROVE  /\ \A g \in Fields : IsFiniteSet(Units(Column(g)'))
           /\ Sum(f)' = Sum(f) + 1
           /\ \A g \in Fields : g # f => Sum(g)' = Sum(g)
<1>1. Column(f) \in [Worker -> Nat]
  BY ColumnType
<1>2. Column(f)' \in [Worker -> Nat]
  <2>1. \A d \in Worker : counters'[d] \in [processed : Nat, failed : Nat, retried : Nat]
    BY DEF TypeOK, RecordTypeOK
  <2>2. \A r \in [processed : Nat, failed : Nat, retried : Nat] : r[f] \in Nat
    BY DEF Fields
  <2> QED
    BY <2>1, <2>2 DEF Column
<1>3. Column(f)'[w] = Column(f)[w] + 1 /\ \A d \in Worker : d # w => Column(f)'[d] = Column(f)[d]
  BY DEF Column, Counts
<1>4. IsFiniteSet(Units(Column(f)'))
  BY <1>1, <1>2, <1>3, TotalUp
<1>5. Sum(f)' = Sum(f) + 1
  BY <1>1, <1>2, <1>3, TotalUp DEF Sum, Column
<1>6. ASSUME NEW g \in Fields, g # f PROVE Column(g)' = Column(g)
  BY <1>6 DEF Column, Counts
<1> QED
  BY <1>4, <1>5, <1>6 DEF Sum, Column

Depths == [k \in Priority |-> Len(lists[k])]

LEMMA DepthsType == TypeOK => Depths \in [Priority -> Nat]
BY PriorityKeys DEF Depths, TypeOK, QueueTypeOK

LEMMA SizeUp ==
    ASSUME TypeOK, TypeOK', IsFiniteSet(Units(Depths)), NEW k \in Priority, NEW x \in TaskId,
           lists' = [lists EXCEPT ![k] = Append(@, x)]
    PROVE  IsFiniteSet(Units(Depths')) /\ Size' = Size + 1
<1>1. Depths \in [Priority -> Nat]
  BY DepthsType
<1>2. Depths' \in [Priority -> Nat]
  BY PriorityKeys DEF Depths, TypeOK, QueueTypeOK
<1>3. Depths'[k] = Depths[k] + 1 /\ \A l \in Priority : l # k => Depths'[l] = Depths[l]
  BY PriorityKeys DEF Depths, TypeOK, QueueTypeOK
<1>4. Size = Total(Depths) /\ Size' = Total(Depths')
  BY DEF Size, Depths
<1> HIDE DEF Depths
<1> QED
  BY <1>1, <1>2, <1>3, <1>4, TotalUp

LEMMA SizeDown ==
    ASSUME TypeOK, TypeOK', IsFiniteSet(Units(Depths)), NEW k \in Priority, lists[k] # <<>>,
           lists' = [lists EXCEPT ![k] = Tail(@)]
    PROVE  IsFiniteSet(Units(Depths')) /\ Size = Size' + 1
<1>1. Depths \in [Priority -> Nat]
  BY DepthsType
<1>2. Depths' \in [Priority -> Nat]
  BY PriorityKeys DEF Depths, TypeOK, QueueTypeOK
<1>3. Depths[k] = Depths'[k] + 1 /\ \A l \in Priority : l # k => Depths'[l] = Depths[l]
  <2>1. lists[k] \in Seq(TaskId) /\ lists'[k] = Tail(lists[k])
    BY PriorityKeys DEF TypeOK, QueueTypeOK
  <2>2. \A l \in Seq(TaskId) : l # <<>> => Len(l) = Len(Tail(l)) + 1
    OBVIOUS
  <2>3. Len(lists[k]) = Len(lists'[k]) + 1
    BY <2>1, <2>2
  <2> QED
    BY <2>3, PriorityKeys DEF Depths, TypeOK, QueueTypeOK
<1>4. Size = Total(Depths) /\ Size' = Total(Depths')
  BY DEF Size, Depths
<1> HIDE DEF Depths
<1> QED
  BY <1>1, <1>2, <1>3, <1>4, TotalDown
-----------------------------------------------------------------------------
(* Every request names one of the four priorities: the broker does not     *)
(* check it, and a task of any other is in a list that Size does not count.*)
KnownPriorities == \A t \in Submitted : t.priority \in Priority

KnownInv ==
    /\ \A x \in TaskId : taskData[x] # NoTask => taskData[x].priority \in Priority
    /\ \A c \in Client : cur[c] # NoTask => cur[c].priority \in Priority

LEMMA MarksKeepPriority ==
    ASSUME NEW t \in Task
    PROVE  /\ MarkStarted(t).priority = t.priority
           /\ MarkCompleted(t).priority = t.priority
           /\ MarkFailed(t).priority = t.priority
BY DEF MarkStarted, MarkCompleted, MarkFailed, Task

(* Where the task in a client's hands comes from.                          *)
LEMMA TaskFrom ==
    ASSUME TypeOK, [Next]_vars, NEW c \in Client
    PROVE  \/ cur'[c] \in {cur[c], NoTask}
           \/ cur[c] \in Task /\ cur'[c] \in {MarkStarted(cur[c]), MarkCompleted(cur[c]), MarkFailed(cur[c])}
           \/ \E x \in TaskId : taskData[x] # NoTask /\ cur'[c] = taskData[x]
           \/ \E t \in Submitted : cur'[c] = t
<1>0. cur \in [Client -> Task \cup {NoTask}]
  BY DEF TypeOK, CallTypeOK
<1>1. CASE Keeps(c)
  BY <1>1 DEF Keeps
<1>2. CASE c \in Worker /\ WorkerStep(c)
  <2>1. CASE DequeueLPop(c) \/ DequeueRequeue(c) \/ EnqueueSet(c) \/ EnqueuePush(c) \/ EnqueueUnset(c)
             \/ EnqueueCount(c) \/ EnqueueDLQ(c) \/ EnqueueDLQMeta(c) \/ Nack(c) \/ AckTask(c)
             \/ Poll(c) \/ Exit(c) \/ Crash(c) \/ Retry(c) \/ ExecuteFailure(c)
             \/ EndSaveTask(c)
    BY <1>0, <2>1 DEF DequeueLPop, DequeueRequeue, EnqueueSet, EnqueuePush, EnqueueUnset, EnqueueCount,
       EnqueueDLQ, EnqueueDLQMeta, Nack, AckTask, Ack, Settle, Poll, DequeueCall, Exit, Crash,
       Retry, EnqueueCall, ExecuteFailure, EndSaveTask, Return, NextPriority
  <2>2. CASE DequeueGet(c)
    <3>1. got[c] \in TaskId
      BY <1>2, <2>2 DEF DequeueGet, TypeOK, FrameOK
    <3> QED
      BY <1>0, <2>2, <3>1 DEF DequeueGet, NextPriority, Return
  <2>3. CASE Start(c) \/ ExecuteSuccess(c) \/ SaveCompleted(c) \/ HandleTaskFailure(c)
    <3>1. cur[c] \in Task
      BY <2>3, TaskAtHand DEF Start, ExecuteSuccess, SaveCompleted, HandleTaskFailure, HandlesTask
    <3> QED
      BY <1>0, <2>3, <3>1 DEF Start, ExecuteSuccess, SaveCompleted, HandleTaskFailure
  <2> QED
    BY <1>2, <2>1, <2>2, <2>3, WorkerActions
<1>3. CASE c \in Producer /\ RequestStep(c)
  <2>1. CASE HandleSubmit(c)
    <3>1. cur'[c] = Request[c][sent[c] + 1] /\ sent[c] + 1 \in DOMAIN Request[c]
      <4>1. sent[c] \in Nat /\ Request[c] \in Seq(Task)
        BY <1>3, RequestAssumption DEF TypeOK, RecordTypeOK
      <4> QED
        BY <1>0, <2>1, <4>1 DEF HandleSubmit, EnqueueCall
    <3>2. Request[c][sent[c] + 1] \in Submitted
      BY <1>3, <3>1 DEF Submitted, Range
    <3> QED
      BY <3>1, <3>2
  <2>2. CASE EnqueueSet(c) \/ EnqueuePush(c) \/ EnqueueUnset(c) \/ EnqueueCount(c) \/ BrokerCrash(c)
    BY <1>0, <2>2 DEF EnqueueSet, EnqueuePush, EnqueueUnset, EnqueueCount, BrokerCrash, Return
  <2> QED
    BY <1>3, <2>1, <2>2, RequestActions
<1>4. CASE c = Admin /\ HandlePurge
  <2>1. cur' = cur \/ cur' = [cur EXCEPT ![Admin] = NoTask]
    BY <1>4 DEF HandlePurge, PurgeCall, Purge, PurgeList, PurgeKey, PurgeScanned, PurgeProcessing,
         PurgeReturn, Return
  <2> QED
    BY <1>0, <1>4, <2>1
<1> QED
  BY <1>1, <1>2, <1>3, <1>4, Actor

LEMMA KnownStays ==
    ASSUME KnownPriorities, TypeOK, KnownInv, [Next]_vars
    PROVE  KnownInv'
<1>1. ASSUME NEW x \in TaskId, taskData'[x] # NoTask PROVE taskData'[x].priority \in Priority
  <2>1. CASE taskData'[x] = taskData[x]
    BY <1>1, <2>1 DEF KnownInv
  <2>2. CASE taskData'[x] # taskData[x]
    <3>1. PICK c \in Worker \cup Producer : taskData'[x] = cur[c]
      BY <1>1, <2>2, DataWriters
    <3> QED
      BY <1>1, <3>1 DEF KnownInv, Client
  <2> QED
    BY <2>1, <2>2
<1>2. ASSUME NEW c \in Client, cur'[c] # NoTask PROVE cur'[c].priority \in Priority
  <2>1. CASE cur'[c] = cur[c]
    BY <1>2, <2>1 DEF KnownInv
  <2>2. CASE cur[c] \in Task /\ cur'[c] \in {MarkStarted(cur[c]), MarkCompleted(cur[c]), MarkFailed(cur[c])}
    <3>1. cur[c].priority \in Priority
      BY <2>2, NoTaskAssumption DEF KnownInv
    <3> QED
      BY <2>2, <3>1, MarksKeepPriority
  <2>3. CASE \E x \in TaskId : taskData[x] # NoTask /\ cur'[c] = taskData[x]
    BY <2>3 DEF KnownInv
  <2>4. CASE \E t \in Submitted : cur'[c] = t
    BY <2>4 DEF KnownPriorities
  <2> QED
    BY <1>2, <2>1, <2>2, <2>3, <2>4, TaskFrom
<1> QED
  BY <1>1, <1>2 DEF KnownInv

-----------------------------------------------------------------------------
(* Every task that was ever queued is accounted for at any time: what is   *)
(* not yet in the counters is in the hands of a client, and its label tells*)
(* which counters it is going to change.                                   *)

InWork == {"get", "start", "exec", "completed", "ack", "failed", "dlq", "dlqMeta", "nack"}

Failing == {"failed", "dlq", "dlqMeta", "nack"}

LedgerInv ==
    /\ IsFiniteSet(Units(Depths)) /\ \A f \in Fields : IsFiniteSet(Units(Column(f)))
    /\ stats["total"] + Cardinality(Busy({"count"}))
        = stats["completed"] + stats["failed"] + Sum("retried") + Size + Cardinality(Busy(InWork))
    /\ Sum("processed") = stats["completed"] + Cardinality(Busy(Succeeded))
    /\ Sum("failed") = stats["failed"] + Sum("retried") + Cardinality(Busy(Failing))

LEMMA LedgerTypes ==
    ASSUME TypeOK, IsFiniteSet(Units(Depths)), \A f \in Fields : IsFiniteSet(Units(Column(f)))
    PROVE  /\ Size \in Nat /\ Sum("processed") \in Nat /\ Sum("failed") \in Nat /\ Sum("retried") \in Nat
           /\ stats["total"] \in Nat /\ stats["completed"] \in Nat /\ stats["failed"] \in Nat
<1>1. Size \in Nat
  BY FS_CardinalityType DEF Size, Depths, Total
<1>2. \A f \in Fields : Sum(f) \in Nat
  BY FS_CardinalityType DEF Sum, Column, Total
<1>3. stats["total"] \in Nat /\ stats["completed"] \in Nat /\ stats["failed"] \in Nat
  BY DEF TypeOK, QueueTypeOK, Counter
<1> QED
  BY <1>1, <1>2, <1>3 DEF Fields

(* The sums stay what they are.                                            *)
LEMMA SameSums ==
    ASSUME counters' = counters
    PROVE  \A f : Column(f)' = Column(f) /\ Sum(f)' = Sum(f)
BY DEF Column, Sum

LEMMA SameSize ==
    ASSUME lists' = lists
    PROVE  Depths' = Depths /\ Size' = Size
BY DEF Depths, Size

(* The counters of stats that the accounts read.                           *)
StatsMove(t, m, f) ==
    /\ stats'["total"] = stats["total"] + t
    /\ stats'["completed"] = stats["completed"] + m
    /\ stats'["failed"] = stats["failed"] + f

LEMMA StatsStay ==
    ASSUME TypeOK
    PROVE  /\ stats' = stats => StatsMove(0, 0, 0)
           /\ stats' = [stats EXCEPT !["total"] = @ + 1] => StatsMove(1, 0, 0)
           /\ stats' = [stats EXCEPT !["completed"] = @ + 1] => StatsMove(0, 1, 0)
           /\ stats' = [stats EXCEPT !["failed"] = @ + 1] => StatsMove(0, 0, 1)
           /\ stats' = [stats EXCEPT !["dlq"] = @ + 1] => StatsMove(0, 0, 0)
BY DEF TypeOK, QueueTypeOK, Counter, StatsMove

(* How the sums of the workers' counters and the size of the queue change. *)
SumsMove(p, q, r) ==
    /\ \A f \in Fields : IsFiniteSet(Units(Column(f)))'
    /\ Sum("processed")' = Sum("processed") + p
    /\ Sum("failed")' = Sum("failed") + q
    /\ Sum("retried")' = Sum("retried") + r

SizeMoves(z) == IsFiniteSet(Units(Depths))' /\ Size' = Size + z

LEMMA SumsStay ==
    ASSUME TypeOK, TypeOK', LedgerInv, NEW w \in Worker
    PROVE  /\ counters' = counters => SumsMove(0, 0, 0)
           /\ Counts(w, "processed") => SumsMove(1, 0, 0)
           /\ Counts(w, "failed") => SumsMove(0, 1, 0)
           /\ Counts(w, "retried") => SumsMove(0, 0, 1)
<1>0. /\ \A f \in Fields : IsFiniteSet(Units(Column(f)))
      /\ Sum("processed") \in Nat /\ Sum("failed") \in Nat /\ Sum("retried") \in Nat
  BY LedgerTypes DEF LedgerInv
<1>1. counters' = counters => SumsMove(0, 0, 0)
  BY <1>0 DEF SumsMove, Column, Sum
<1>2. \A f \in Fields : Counts(w, f) =>
        /\ \A g \in Fields : IsFiniteSet(Units(Column(g)))'
        /\ Sum(f)' = Sum(f) + 1
        /\ \A g \in Fields : g # f => Sum(g)' = Sum(g)
  BY <1>0, SumUp
<1>3. "processed" \in Fields /\ "failed" \in Fields /\ "retried" \in Fields
  BY DEF Fields
<1>4. Counts(w, "processed") => SumsMove(1, 0, 0)
  BY <1>0, <1>2, <1>3 DEF SumsMove
<1>5. Counts(w, "failed") => SumsMove(0, 1, 0)
  BY <1>0, <1>2, <1>3 DEF SumsMove
<1>6. Counts(w, "retried") => SumsMove(0, 0, 1)
  BY <1>0, <1>2, <1>3 DEF SumsMove
<1> QED
  BY <1>1, <1>4, <1>5, <1>6

LEMMA SizeStays ==
    ASSUME TypeOK, LedgerInv, lists' = lists
    PROVE  SizeMoves(0)
<1>1. Size \in Nat /\ IsFiniteSet(Units(Depths))
  BY LedgerTypes DEF LedgerInv
<1> QED
  BY <1>1 DEF SizeMoves, Depths, Size

LEMMA SizeDrops ==
    ASSUME IsFiniteSet(Units(Depths')), Size = Size' + 1
    PROVE  SizeMoves(-1)
<1>1. Size' \in Nat
  BY FS_CardinalityType DEF Size, Depths, Total
<1>2. \A i, j : i \in Nat /\ j = i + 1 => i = j + (-1)
  OBVIOUS
<1>3. Size' = Size + (-1)
  BY <1>1, <1>2
<1> QED
  BY <1>3 DEF SizeMoves

(* The accounts stay balanced when the changes of a step balance.          *)
LEMMA Balanced ==
    ASSUME TypeOK, LedgerInv, IsFiniteSet(Client),
           NEW t \in Int, NEW m \in Int, NEW f \in Int, StatsMove(t, m, f),
           NEW p \in Int, NEW q \in Int, NEW r \in Int, SumsMove(p, q, r),
           NEW z \in Int, SizeMoves(z),
           NEW n1 \in Int, Shift({"count"}, n1), NEW n2 \in Int, Shift(InWork, n2),
           NEW n3 \in Int, Shift(Succeeded, n3), NEW n4 \in Int, Shift(Failing, n4),
           t + n1 = m + f + r + z + n2, p = m + n3, q = f + r + n4
    PROVE  LedgerInv'
<1>1. /\ Size \in Nat /\ Sum("processed") \in Nat /\ Sum("failed") \in Nat /\ Sum("retried") \in Nat
      /\ stats["total"] \in Nat /\ stats["completed"] \in Nat /\ stats["failed"] \in Nat
  BY LedgerTypes DEF LedgerInv
<1>2. \A L : Cardinality(Busy(L)) \in Nat
  <2>1. \A L : Busy(L) \subseteq Client
    BY DEF Busy
  <2> QED
    BY <2>1, FS_Subset, FS_CardinalityType
<1>3. /\ stats["total"] + Cardinality(Busy({"count"}))
            = stats["completed"] + stats["failed"] + Sum("retried") + Size + Cardinality(Busy(InWork))
      /\ Sum("processed") = stats["completed"] + Cardinality(Busy(Succeeded))
      /\ Sum("failed") = stats["failed"] + Sum("retried") + Cardinality(Busy(Failing))
  BY DEF LedgerInv
<1>4. PICK k1 \in Nat, k2 \in Nat, k3 \in Nat, k4 \in Nat :
            /\ k1 = Cardinality(Busy({"count"})) /\ k2 = Cardinality(Busy(InWork))
            /\ k3 = Cardinality(Busy(Succeeded)) /\ k4 = Cardinality(Busy(Failing))
  BY <1>2
<1>5. PICK T \in Nat, C \in Nat, F \in Nat :
            T = stats["total"] /\ C = stats["completed"] /\ F = stats["failed"]
  BY <1>1
<1>6. PICK P \in Nat, Q \in Nat, R \in Nat, S \in Nat :
            P = Sum("processed") /\ Q = Sum("failed") /\ R = Sum("retried") /\ S = Size
  BY <1>1
<1>7. T + k1 = C + F + R + S + k2 /\ P = C + k3 /\ Q = F + R + k4
  BY <1>3, <1>4, <1>5, <1>6
<1>8. /\ (T + t) + (k1 + n1) = (C + m) + (F + f) + (R + r) + (S + z) + (k2 + n2)
      /\ P + p = (C + m) + (k3 + n3)
      /\ Q + q = (F + f) + (R + r) + (k4 + n4)
  BY ONLY <1>7, t + n1 = m + f + r + z + n2, p = m + n3, q = f + r + n4,
     t \in Int, m \in Int, f \in Int, p \in Int, q \in Int, r \in Int, z \in Int,
     n1 \in Int, n2 \in Int, n3 \in Int, n4 \in Int,
     k1 \in Nat, k2 \in Nat, k3 \in Nat, k4 \in Nat, T \in Nat, C \in Nat, F \in Nat,
     P \in Nat, Q \in Nat, R \in Nat, S \in Nat
<1> QED
  BY <1>4, <1>5, <1>6, <1>8 DEF LedgerInv, StatsMove, SumsMove, SizeMoves, Shift

(* The numbers of clients at the four kinds of labels change like this.    *)
Shifts(n1, n2, n3, n4) ==
    Shift({"count"}, n1) /\ Shift(InWork, n2) /\ Shift(Succeeded, n3) /\ Shift(Failing, n4)

LEMMA LabelShifts ==
    ASSUME IsFiniteSet(Client), NEW c \in Client, OthersKeep(c)
    PROVE  LET Out == {"idle", "stopped", "lpop", "backoff", "set", "push", "unset"}
           IN  /\ pc[c] \in Out /\ pc'[c] \in Out => Shifts(0, 0, 0, 0)
               /\ pc'[c] = pc[c] => Shifts(0, 0, 0, 0)
               /\ pc[c] = "lpop" /\ pc'[c] = "get" => Shifts(0, 1, 0, 0)
               /\ pc[c] = "get" /\ pc'[c] = "start" => Shifts(0, 0, 0, 0)
               /\ pc[c] = "start" /\ pc'[c] = "exec" => Shifts(0, 0, 0, 0)
               /\ pc[c] = "exec" /\ pc'[c] = "completed" => Shifts(0, 0, 1, 0)
               /\ pc[c] = "completed" /\ pc'[c] = "ack" => Shifts(0, 0, 0, 0)
               /\ pc[c] = "ack" /\ pc'[c] = "idle" => Shifts(0, -1, -1, 0)
               /\ pc[c] = "exec" /\ pc'[c] = "failed" => Shifts(0, 0, 0, 1)
               /\ pc[c] = "failed" /\ pc'[c] = "backoff" => Shifts(0, -1, 0, -1)
               /\ pc[c] = "failed" /\ pc'[c] = "dlq" => Shifts(0, 0, 0, 0)
               /\ pc[c] = "dlq" /\ pc'[c] = "dlqMeta" => Shifts(0, 0, 0, 0)
               /\ pc[c] = "dlqMeta" /\ pc'[c] = "nack" => Shifts(0, 0, 0, 0)
               /\ pc[c] = "nack" /\ pc'[c] = "idle" => Shifts(0, -1, 0, -1)
               /\ pc[c] = "push" /\ pc'[c] = "count" => Shifts(1, 0, 0, 0)
               /\ pc[c] = "count" /\ pc'[c] = "idle" => Shifts(-1, 0, 0, 0)
<1>1. /\ (pc[c] = "count" <=> pc'[c] = "count") => Shift({"count"}, 0)
      /\ pc[c] # "count" /\ pc'[c] = "count" => Shift({"count"}, 1)
      /\ pc[c] = "count" /\ pc'[c] # "count" => Shift({"count"}, -1)
  BY Moving
<1>2. /\ (pc[c] \in InWork <=> pc'[c] \in InWork) => Shift(InWork, 0)
      /\ pc[c] \notin InWork /\ pc'[c] \in InWork => Shift(InWork, 1)
      /\ pc[c] \in InWork /\ pc'[c] \notin InWork => Shift(InWork, -1)
  BY Moving
<1>3. /\ (pc[c] \in Succeeded <=> pc'[c] \in Succeeded) => Shift(Succeeded, 0)
      /\ pc[c] \notin Succeeded /\ pc'[c] \in Succeeded => Shift(Succeeded, 1)
      /\ pc[c] \in Succeeded /\ pc'[c] \notin Succeeded => Shift(Succeeded, -1)
  BY Moving
<1>4. /\ (pc[c] \in Failing <=> pc'[c] \in Failing) => Shift(Failing, 0)
      /\ pc[c] \notin Failing /\ pc'[c] \in Failing => Shift(Failing, 1)
      /\ pc[c] \in Failing /\ pc'[c] \notin Failing => Shift(Failing, -1)
  BY Moving
<1> QED
  BY <1>1, <1>2, <1>3, <1>4 DEF Shifts, InWork, Succeeded, Failing

(* What a worker in an undisturbed run does to the accounts.               *)
LEMMA PopLedger ==
    ASSUME IsFiniteSet(Client), TypeOK, TypeOK', LedgerInv, faults' = faults,
           NEW w \in Worker, ~Refused(w), OthersKeep(w), DequeueLPop(w), QueueOnly
    PROVE  LedgerInv'
<1>0. /\ w \in Client /\ pc \in [Client -> Pc] /\ lists \in [ListKey -> Seq(TaskId)]
      /\ scan[w] \in Priority /\ scan[w] \in ListKey
  BY PriorityKeys DEF TypeOK, QueueTypeOK, CallTypeOK, Client
<1>1. counters' = counters /\ stats' = stats
  BY DEF QueueOnly, workerVars, DequeueLPop
<1>2. SumsMove(0, 0, 0) /\ StatsMove(0, 0, 0)
  BY <1>1, SumsStay, StatsStay
<1> PICK k \in Priority : k = scan[w] /\ k \in ListKey /\ lists[k] \in Seq(TaskId)
  BY <1>0
<1> PICK o : /\ Command(w, o)
             /\ lists' = [lists EXCEPT ![k] = Popped(lists[k], o)]
             /\ \/ ~Answered(o) /\ Return(w) /\ LeaveDequeue(w)
                \/ Answered(o) /\ PopReply(lists[k], o) = NoId /\ NextPriority(w)
                \/ Answered(o) /\ PopReply(lists[k], o) # NoId /\ Goto(w, "get")
  BY DEF DequeueLPop
<1>3. o = "ok"
  BY CleanCommand
<1>4. pc[w] = "lpop"
  BY DEF DequeueLPop
<1>5. CASE lists[k] = <<>>
  <2>1. lists' = lists
    BY <1>0, <1>3, <1>5 DEF Popped, Executed, DropFirst
  <2>2. pc'[w] \in {"idle", "lpop"}
    BY <1>0, <1>3, <1>5 DEF PopReply, Answered, NextPriority, Goto, Return
  <2>3. Shifts(0, 0, 0, 0)
    BY <1>0, <1>4, <2>2, LabelShifts
  <2>4. SizeMoves(0)
    BY <2>1, SizeStays
  <2> QED
    BY <1>2, <2>3, <2>4, Balanced DEF Shifts
<1>6. CASE lists[k] # <<>>
  <2>1. lists' = [lists EXCEPT ![k] = Tail(@)]
    BY <1>3, <1>6 DEF Popped, Executed, DropFirst
  <2>2. PopReply(lists[k], o) # NoId
    BY <1>3, <1>6, TaskAssumption DEF PopReply
  <2>3. pc'[w] = "get"
    BY <1>0, <1>3, <2>2 DEF Answered, Goto
  <2>4. Shifts(0, 1, 0, 0)
    BY <1>0, <1>4, <2>3, LabelShifts
  <2>5. IsFiniteSet(Units(Depths')) /\ Size = Size' + 1
    BY <1>6, <2>1, SizeDown DEF LedgerInv
  <2>6. SizeMoves(-1)
    BY <2>5, SizeDrops
  <2>7. 0 + 0 = 0 + 0 + 0 + (-1) + 1 /\ 0 = 0 + 0 /\ 0 = 0 + 0 + 0
    OBVIOUS
  <2> QED
    BY <1>2, <2>4, <2>6, <2>7, Balanced DEF Shifts
<1> QED
  BY <1>5, <1>6

LEMMA PushLedger ==
    ASSUME IsFiniteSet(Client), TypeOK, TypeOK', LedgerInv, KnownInv, faults' = faults,
           NEW c \in Worker \cup Producer, ~Refused(c), OthersKeep(c), EnqueuePush(c),
           counters' = counters
    PROVE  LedgerInv'
<1>0. /\ c \in Client /\ pc \in [Client -> Pc] /\ lists \in [ListKey -> Seq(TaskId)]
      /\ pc[c] = "push" /\ cur[c] \in Task /\ cur[c].id \in TaskId /\ cur[c] # NoTask
  BY TaskAtHand DEF TypeOK, QueueTypeOK, CallTypeOK, Client, EnqueuePush, HandlesTask
<1>1. stats' = stats
  BY DEF EnqueuePush
<1>2. SumsMove(0, 0, 0) /\ StatsMove(0, 0, 0)
  <2>1. SumsMove(0, 0, 0)
    BY LedgerTypes DEF SumsMove, LedgerInv, Column, Sum
  <2> QED
    BY <1>1, <2>1, StatsStay
<1> PICK k \in Priority, x \in TaskId : k = queueKeys(cur[c].priority) /\ x = cur[c].id
  BY <1>0 DEF KnownInv, queueKeys
<1> PICK o : /\ Command(c, o)
             /\ lists' = [lists EXCEPT ![k] = RPushed(@, x, o)]
             /\ Goto(c, IF Answered(o) THEN "count" ELSE "unset")
  BY DEF EnqueuePush
<1>3. o = "ok"
  BY CleanCommand
<1>4. lists' = [lists EXCEPT ![k] = Append(@, x)] /\ pc'[c] = "count"
  BY <1>0, <1>3 DEF RPushed, Executed, Answered, Goto
<1>5. IsFiniteSet(Units(Depths')) /\ Size' = Size + 1
  BY <1>4, SizeUp DEF LedgerInv
<1>6. SizeMoves(1)
  BY <1>5 DEF SizeMoves
<1>7. Shifts(1, 0, 0, 0)
  BY <1>0, <1>4, LabelShifts
<1>8. 0 + 1 = 0 + 0 + 0 + 1 + 0 /\ 0 = 0 + 0 /\ 0 = 0 + 0 + 0
  OBVIOUS
<1> QED
  BY <1>2, <1>6, <1>7, <1>8, Balanced DEF Shifts

LEMMA CountLedger ==
    ASSUME IsFiniteSet(Client), TypeOK, TypeOK', LedgerInv, faults' = faults,
           NEW c \in Worker \cup Producer, ~Refused(c), OthersKeep(c), EnqueueCount(c),
           counters' = counters
    PROVE  LedgerInv'
<1>0. c \in Client /\ pc \in [Client -> Pc] /\ pc[c] = "count" /\ lists' = lists
  BY DEF TypeOK, CallTypeOK, Client, EnqueueCount
<1>1. pc'[c] = "idle"
  BY <1>0 DEF EnqueueCount, Return
<1> PICK done : /\ Commands(c, {"total"}, done)
                /\ stats' = IF done = {} THEN stats ELSE [stats EXCEPT !["total"] = @ + 1]
  BY DEF EnqueueCount
<1>2. stats' = [stats EXCEPT !["total"] = @ + 1]
  BY CleanCommand
<1>3. SumsMove(0, 0, 0)
  BY LedgerTypes DEF SumsMove, LedgerInv, Column, Sum
<1>4. StatsMove(1, 0, 0) /\ SizeMoves(0) /\ Shifts(-1, 0, 0, 0)
  BY <1>0, <1>1, <1>2, StatsStay, SizeStays, LabelShifts
<1>5. 1 + (-1) = 0 + 0 + 0 + 0 + 0 /\ 0 = 0 + 0 /\ 0 = 0 + 0 + 0 /\ -1 \in Int
  OBVIOUS
<1> QED
  BY <1>3, <1>4, <1>5, Balanced DEF Shifts

LEMMA SettleLedger ==
    ASSUME IsFiniteSet(Client), NamedIds, TypeOK, TypeOK', LedgerInv, faults' = faults,
           NEW w \in Worker, ~Refused(w), OthersKeep(w), Ack(w) \/ Nack(w), QueueOnly
    PROVE  LedgerInv'
<1>0. w \in Client /\ pc \in [Client -> Pc] /\ pc[w] \in {"ack", "nack"} /\ lists' = lists
  BY DEF TypeOK, CallTypeOK, Client, Ack, Nack, Settle
<1>1. pc'[w] = "idle" /\ counters' = counters
  BY <1>0 DEF Ack, Nack, Settle, Return, QueueOnly, workerVars
<1>2. cur[w].id # EmptyId
  BY <1>0, TaskAtHand DEF HandlesTask, NamedIds
<1>3. SumsMove(0, 0, 0) /\ SizeMoves(0)
  BY <1>0, <1>1, SumsStay, SizeStays
<1>4. CASE Ack(w)
  <2>1. stats' = [stats EXCEPT !["completed"] = @ + 1]
    BY <1>2, <1>4, CleanCommand DEF Ack, Settle
  <2>2. StatsMove(0, 1, 0) /\ Shifts(0, -1, -1, 0)
    BY <1>0, <1>1, <1>4, <2>1, StatsStay, LabelShifts DEF Ack
  <2>3. 0 + 0 = 1 + 0 + 0 + 0 + (-1) /\ 0 = 1 + (-1) /\ 0 = 0 + 0 + 0 /\ -1 \in Int
    OBVIOUS
  <2> QED
    BY <1>3, <2>2, <2>3, Balanced DEF Shifts
<1>5. CASE Nack(w)
  <2>1. stats' = [stats EXCEPT !["failed"] = @ + 1]
    BY <1>2, <1>5, CleanCommand DEF Nack, Settle
  <2>2. StatsMove(0, 0, 1) /\ Shifts(0, -1, 0, -1)
    BY <1>0, <1>1, <1>5, <2>1, StatsStay, LabelShifts DEF Nack
  <2>3. 0 + 0 = 0 + 1 + 0 + 0 + (-1) /\ 0 = 0 + 0 /\ 0 = 1 + 0 + (-1) /\ -1 \in Int
    OBVIOUS
  <2> QED
    BY <1>3, <2>2, <2>3, Balanced DEF Shifts
<1> QED
  BY <1>4, <1>5

(* An attempt succeeds, fails, or failed and is going to be repeated.      *)
LEMMA AttemptLedger ==
    ASSUME IsFiniteSet(Client), TypeOK, TypeOK', LedgerInv, NEW w \in Worker, OthersKeep(w),
           ExecuteSuccess(w) \/ ExecuteFailure(w) \/ HandleTaskFailure(w)
    PROVE  LedgerInv'
<1>0. w \in Client /\ pc \in [Client -> Pc] /\ lists' = lists /\ stats' = stats
  BY DEF TypeOK, CallTypeOK, Client, ExecuteSuccess, ExecuteFailure, HandleTaskFailure,
         QueueUntouched, redisVars
<1>1. StatsMove(0, 0, 0) /\ SizeMoves(0)
  BY <1>0, StatsStay, SizeStays
<1>2. CASE ExecuteSuccess(w)
  <2>1. pc[w] = "exec" /\ pc'[w] = "completed" /\ Counts(w, "processed")
    BY <1>0, <1>2, CountersCount DEF ExecuteSuccess, Goto
  <2>2. SumsMove(1, 0, 0) /\ Shifts(0, 0, 1, 0)
    BY <1>0, <2>1, SumsStay, LabelShifts
  <2>3. 0 + 0 = 0 + 0 + 0 + 0 + 0 /\ 1 = 0 + 1 /\ 0 = 0 + 0 + 0
    OBVIOUS
  <2> QED
    BY <1>1, <2>2, <2>3, Balanced DEF Shifts
<1>3. CASE ExecuteFailure(w)
  <2>1. pc[w] = "exec" /\ pc'[w] = "failed" /\ Counts(w, "failed")
    BY <1>0, <1>3, CountersCount DEF ExecuteFailure, Goto
  <2>2. SumsMove(0, 1, 0) /\ Shifts(0, 0, 0, 1)
    BY <1>0, <2>1, SumsStay, LabelShifts
  <2>3. 0 + 0 = 0 + 0 + 0 + 0 + 0 /\ 0 = 0 + 0 /\ 1 = 0 + 0 + 1
    OBVIOUS
  <2> QED
    BY <1>1, <2>2, <2>3, Balanced DEF Shifts
<1>4. CASE HandleTaskFailure(w)
  <2>0. pc[w] = "failed"
    BY <1>4 DEF HandleTaskFailure
  <2>1. CASE pc'[w] = "backoff" /\ Counts(w, "retried")
    <3>1. SumsMove(0, 0, 1) /\ Shifts(0, -1, 0, -1)
      BY <1>0, <2>0, <2>1, SumsStay, LabelShifts
    <3>2. 0 + 0 = 0 + 0 + 1 + 0 + (-1) /\ 0 = 0 + 0 /\ 0 = 0 + 1 + (-1) /\ -1 \in Int
      OBVIOUS
    <3> QED
      BY <1>1, <3>1, <3>2, Balanced DEF Shifts
  <2>2. CASE pc'[w] = "dlq" /\ counters' = counters
    <3>1. SumsMove(0, 0, 0) /\ Shifts(0, 0, 0, 0)
      BY <1>0, <2>0, <2>2, SumsStay, LabelShifts
    <3>2. 0 + 0 = 0 + 0 + 0 + 0 + 0 /\ 0 = 0 + 0 /\ 0 = 0 + 0 + 0
      OBVIOUS
    <3> QED
      BY <1>1, <3>1, <3>2, Balanced DEF Shifts
  <2> QED
    BY <1>0, <1>4, <2>1, <2>2, CountersCount DEF HandleTaskFailure, RetryOrBury, Goto
<1> QED
  BY <1>2, <1>3, <1>4

(* A step that changes neither a counter nor the lists.                    *)
LEMMA QuietLedger ==
    ASSUME TypeOK, TypeOK', LedgerInv, IsFiniteSet(Client), lists' = lists, counters' = counters,
           StatsMove(0, 0, 0), Shifts(0, 0, 0, 0)
    PROVE  LedgerInv'
<1>1. SizeMoves(0)
  BY SizeStays
<1>2. SumsMove(0, 0, 0)
  BY LedgerTypes DEF SumsMove, LedgerInv, Column, Sum
<1>3. 0 + 0 = 0 + 0 + 0 + 0 + 0 /\ 0 = 0 + 0 /\ 0 = 0 + 0 + 0
  OBVIOUS
<1> QED
  BY <1>1, <1>2, <1>3, Balanced DEF Shifts

LEMMA WorkerLedger ==
    ASSUME IsFiniteSet(Client), Undisturbed, NamedIds, LiveInv, LiveInv', PrioInv, KnownInv, LedgerInv,
           faults' = faults, NEW w \in Worker, WorkerStep(w), OthersKeep(w)
    PROVE  LedgerInv'
<1>1. /\ TypeOK /\ TypeOK' /\ ~Refused(w) /\ w \in Client /\ w \in Worker \cup Producer
      /\ pc \in [Client -> Pc] /\ pc'[w] # "requeue" /\ pc[w] # "requeue"
  BY DEF LiveInv, ResultInv, BudgetInv, IInv, Refused, Client, TypeOK, CallTypeOK
<1>2. QueueOnly => counters' = counters
  BY DEF QueueOnly, workerVars
<1>3. CASE DequeueLPop(w) /\ QueueOnly
  BY <1>1, <1>3, PopLedger
<1>4. CASE EnqueuePush(w) /\ QueueOnly
  BY <1>1, <1>2, <1>4, PushLedger
<1>5. CASE EnqueueCount(w) /\ QueueOnly
  BY <1>1, <1>2, <1>5, CountLedger
<1>6. CASE AckTask(w) \/ (Nack(w) /\ QueueOnly)
  BY <1>1, <1>6, SettleLedger DEF AckTask
<1>7. CASE ExecuteSuccess(w) \/ ExecuteFailure(w) \/ HandleTaskFailure(w)
  BY <1>1, <1>7, AttemptLedger
<1>8. CASE \/ Poll(w) /\ Moves(w, "idle", {"lpop"})
           \/ Exit(w) /\ Moves(w, "idle", {"stopped"})
           \/ Retry(w) /\ Moves(w, "backoff", {"set"})
           \/ EnqueueSet(w) /\ QueueOnly /\ Moves(w, "set", {"push", "idle"})
           \/ EnqueueUnset(w) /\ QueueOnly /\ Moves(w, "unset", {"idle"})
  <2>1. lists' = lists /\ stats' = stats /\ counters' = counters
    BY <1>2, <1>8 DEF Poll, DequeueCall, Exit, QueueUntouched, Retry, EnqueueCall, EnqueueSet,
       EnqueueUnset, redisVars
  <2>2. Shifts(0, 0, 0, 0)
    BY <1>1, <1>8, LabelShifts DEF Moves
  <2> QED
    BY <1>1, <2>1, <2>2, StatsStay, QuietLedger
<1>9. CASE \/ Start(w) /\ Moves(w, "start", {"exec"})
           \/ SaveCompleted(w) /\ Moves(w, "completed", {"ack"})
           \/ EndSaveTask(w)
  <2>1. lists' = lists /\ stats' = stats /\ counters' = counters
    BY <1>9 DEF Start, SaveCompleted, EndSaveTask, QueueUntouched, redisVars, workerVars
  <2>2. Shifts(0, 0, 0, 0)
    BY <1>1, <1>9, LabelShifts DEF Moves, EndSaveTask
  <2> QED
    BY <1>1, <2>1, <2>2, StatsStay, QuietLedger
<1>10. CASE DequeueGet(w) /\ QueueOnly /\ pc[w] = "get"
  <2>1. taskData[got[w]] # NoTask
    BY <1>10 DEF PrioInv, FiledInv, Filed
  <2>2. pc'[w] = "start"
    <3>1. pc'[w] = [pc EXCEPT ![w] = "requeue"][w] => pc'[w] = "requeue"
      BY <1>1
    <3> QED
      BY <1>1, <1>10, <2>1, <3>1 DEF DequeueGet, Goto
  <2>3. lists' = lists /\ stats' = stats /\ counters' = counters
    BY <1>2, <1>10 DEF DequeueGet
  <2>4. Shifts(0, 0, 0, 0)
    BY <1>1, <1>10, <2>2, LabelShifts
  <2> QED
    BY <1>1, <2>3, <2>4, StatsStay, QuietLedger
<1>11. CASE EnqueueDLQ(w) /\ QueueOnly /\ pc[w] = "dlq"
  <2>1. pc'[w] = "dlqMeta"
    BY <1>1, <1>11, CleanBurial
  <2>2. lists' = lists /\ stats' = stats /\ counters' = counters
    BY <1>2, <1>11 DEF EnqueueDLQ
  <2>3. Shifts(0, 0, 0, 0)
    BY <1>1, <1>11, <2>1, LabelShifts
  <2> QED
    BY <1>1, <2>2, <2>3, StatsStay, QuietLedger
<1>12. CASE EnqueueDLQMeta(w) /\ QueueOnly /\ Moves(w, "dlqMeta", {"nack"})
  <2>1. lists' = lists /\ counters' = counters
    BY <1>2, <1>12 DEF EnqueueDLQMeta
  <2>2. stats' = stats \/ stats' = [stats EXCEPT !["dlq"] = @ + 1]
    BY <1>12 DEF EnqueueDLQMeta
  <2>3. Shifts(0, 0, 0, 0)
    BY <1>1, <1>12, LabelShifts DEF Moves
  <2> QED
    BY <1>1, <2>1, <2>2, <2>3, StatsStay, QuietLedger
<1>13. ~Crash(w)
  BY <1>1 DEF Crash, Undisturbed, TypeOK, RecordTypeOK
<1> QED
  BY <1>1, <1>3, <1>4, <1>5, <1>6, <1>7, <1>8, <1>9, <1>10, <1>11, <1>12, <1>13, WorkerActions DEF Moves

LEMMA RequestLedger ==
    ASSUME IsFiniteSet(Client), Undisturbed, TypeOK, TypeOK', KnownInv, LedgerInv, faults' = faults,
           NEW p \in Producer, ~Refused(p), RequestStep(p), OthersKeep(p)
    PROVE  LedgerInv'
<1>1. p \in Client /\ p \in Worker \cup Producer /\ counters' = counters
  BY DEF Client, RequestStep, Submit, HandleSubmit, SubmitStep, SubmitAccepted, BrokerCrash, workerVars
<1>2. CASE EnqueuePush(p)
  BY <1>1, <1>2, PushLedger
<1>3. CASE EnqueueCount(p)
  BY <1>1, <1>3, CountLedger
<1>4. CASE \/ HandleSubmit(p) /\ Moves(p, "idle", {"set"})
           \/ EnqueueSet(p) /\ Moves(p, "set", {"push", "idle"})
           \/ EnqueueUnset(p) /\ Moves(p, "unset", {"idle"})
  <2>1. lists' = lists /\ stats' = stats
    BY <1>4 DEF HandleSubmit, EnqueueCall, EnqueueSet, EnqueueUnset, redisVars
  <2>2. Shifts(0, 0, 0, 0)
    BY <1>1, <1>4, LabelShifts DEF Moves
  <2> QED
    BY <1>1, <2>1, <2>2, StatsStay, QuietLedger
<1>5. ~BrokerCrash(p)
  BY DEF BrokerCrash, Undisturbed, TypeOK, RecordTypeOK
<1> QED
  BY <1>2, <1>3, <1>4, <1>5, RequestActions

(* No client's context is ever cancelled.                                  *)
LEMMA NobodyLeaves ==
    ASSUME Undisturbed, ~MayDisconnect, TypeOK, ctxDone = {}, [Next]_vars
    PROVE  ctxDone' = {}
<1>1. ~Cancel
  BY DEF Cancel, Undisturbed
<1>2. \A c : EnqueueSet(c) \/ EnqueuePush(c) \/ EnqueueUnset(c) \/ EnqueueCount(c) => ctxDone' = ctxDone
  BY DEF EnqueueSet, EnqueuePush, EnqueueUnset, EnqueueCount
<1>3. \A w : DequeueStep(w) \/ MoveToDLQ(w) \/ AckTask(w) \/ Retry(w) => ctxDone' = ctxDone
  BY DEF DequeueStep, DequeueLPop, DequeueGet, DequeueRequeue, MoveToDLQ, EnqueueDLQ, EnqueueDLQMeta,
     Nack, AckTask, Ack, Settle, Retry, EnqueueCall
<1>4. \A w : WorkerStep(w) => ctxDone' = ctxDone \/ ctxDone' = ctxDone \ {w}
  BY <1>2, <1>3 DEF WorkerStep, Handle, EnqueueStep, Poll, DequeueCall, Exit, QueueUntouched, Crash,
     Start, ExecuteSuccess, ExecuteFailure, SaveCompleted, HandleTaskFailure, EndSaveTask
<1>5. \A p : RequestStep(p) => ctxDone' = ctxDone
  BY <1>2 DEF RequestStep, Submit, HandleSubmit, EnqueueCall, SubmitStep, SubmitAccepted, BrokerCrash
<1>6. HandlePurge => ctxDone' = ctxDone
  BY PurgeFrame
<1> QED
  BY <1>1, <1>4, <1>5, <1>6 DEF Next, vars, queueVars

AccountInv == LedgerInv /\ KnownInv /\ ctxDone = {}

LEMMA AccountsStay ==
    ASSUME IsFiniteSet(Client), Undisturbed, NamedIds, NoPurge, ~MayDisconnect, KnownPriorities,
           LiveInv, LiveInv', PrioInv, AccountInv, [Next]_vars
    PROVE  AccountInv'
<1>1. TypeOK /\ TypeOK' /\ faults' = faults /\ LedgerInv /\ KnownInv /\ \A c : ~Refused(c)
  BY NothingFails DEF LiveInv, ResultInv, BudgetInv, IInv, Refused, AccountInv
<1>2. KnownInv' /\ ctxDone' = {}
  BY <1>1, KnownStays, NobodyLeaves DEF AccountInv
<1>3. ~HandlePurge
  BY <1>1, NoPurgeSteps DEF PrioInv
<1>4. LedgerInv'
  <2>1. CASE \E w \in Worker : WorkerStep(w) /\ OthersKeep(w)
    BY <1>1, <2>1, WorkerLedger
  <2>2. CASE \E p \in Producer : RequestStep(p) /\ OthersKeep(p)
    BY <1>1, <2>2, RequestLedger
  <2>3. CASE Still
    <3>1. lists' = lists /\ stats' = stats /\ counters' = counters /\ pc' = pc
      BY <2>3 DEF Still, redisVars, workerVars
    <3>2. \A L : Busy(L)' = Busy(L)
      BY <3>1 DEF Busy
    <3> QED
      BY <1>1, <3>1, <3>2 DEF LedgerInv, Depths, Column, Size, Sum
  <2> QED
    BY <1>1, <1>3, <2>1, <2>2, <2>3, StepKinds
<1> QED
  BY <1>2, <1>4 DEF AccountInv

(* When everyone is idle, the counters of Redis, the counters of all the   *)
(* workers and the lengths of the lists agree, for any number of workers,  *)
(* requests, tasks and retries and every interleaving: each task that was  *)
(* queued was completed, buried, taken out for a retry or is still queued, *)
(* and each outcome was counted once in the worker and once in Redis. It   *)
(* takes what NoTaskIsLost takes, and besides HTTP clients that wait for   *)
(* the answer (a cancelled request leaves a queued task uncounted) and     *)
(* priorities that have a list which Size reads.                           *)
THEOREM AccountsAgree ==
    ASSUME IsFiniteSet(Client), UniqueIds, NamedIds, Undisturbed, NoPurge, ~MayDisconnect,
           KnownPriorities
    PROVE  Spec => []Accounting
<1>1. Init => AccountInv
  <2> SUFFICES ASSUME Init PROVE AccountInv
    OBVIOUS
  <2>1. \A L : "idle" \notin L => Busy(L) = {}
    BY DEF Init, QueueInit, Busy
  <2>2. /\ Cardinality(Busy({"count"})) = 0 /\ Cardinality(Busy(InWork)) = 0
        /\ Cardinality(Busy(Succeeded)) = 0 /\ Cardinality(Busy(Failing)) = 0
    BY <2>1, FS_EmptySet DEF InWork, Succeeded, Failing
  <2>3. IsFiniteSet(Units(Depths)) /\ Size = 0
    <3>1. Depths \in [Priority -> Nat] /\ \A k \in Priority : Depths[k] = 0
      BY PriorityKeys DEF Depths, Init, QueueInit
    <3> QED
      BY <3>1, TotalZero DEF Size, Depths
  <2>4. ASSUME NEW f \in Fields PROVE IsFiniteSet(Units(Column(f))) /\ Sum(f) = 0
    <3>1. Column(f) \in [Worker -> Nat] /\ \A w \in Worker : Column(f)[w] = 0
      BY DEF Column, Init, WorkerInit, NoCount, Fields
    <3> QED
      BY <3>1, TotalZero DEF Sum, Column
  <2>5. stats["total"] = 0 /\ stats["completed"] = 0 /\ stats["failed"] = 0
    BY DEF Init, QueueInit, Counter
  <2>6. LedgerInv
    BY <2>2, <2>3, <2>4, <2>5 DEF LedgerInv, Fields
  <2>7. KnownInv /\ ctxDone = {}
    BY DEF Init, QueueInit, KnownInv
  <2> QED
    BY <2>6, <2>7 DEF AccountInv
<1>2. AccountInv /\ LiveInv /\ LiveInv' /\ PrioInv /\ [Next]_vars => AccountInv'
  BY AccountsStay
<1>3. Spec => []LiveInv
  BY LiveHolds
<1>4. Spec => []PrioInv
  BY PrioHolds DEF Undisturbed, NoRepeats, NoLostAnswers
<1>5. IsFiniteSet(Worker)
  BY FS_Subset DEF Client
<1>6. Spec => [](AtRest => stats["dlq"] = stats["failed"] /\ Len(dlq) = stats["dlq"])
  BY <1>5, DeadLettersAreCounted
<1>7. /\ AccountInv /\ LiveInv
      /\ AtRest => stats["dlq"] = stats["failed"] /\ Len(dlq) = stats["dlq"]
      => Accounting
  <2> SUFFICES ASSUME AccountInv, LiveInv, AtRest,
                      stats["dlq"] = stats["failed"] /\ Len(dlq) = stats["dlq"]
               PROVE  /\ stats["total"] = stats["completed"] + stats["failed"] + Sum("retried") + Size
                      /\ stats["completed"] = Sum("processed")
                      /\ Sum("failed") = stats["failed"] + Sum("retried")
    BY DEF Accounting
  <2>1. \A L : "idle" \notin L /\ "stopped" \notin L => Busy(L) = {}
    BY DEF AtRest, Busy
  <2>2. /\ Cardinality(Busy({"count"})) = 0 /\ Cardinality(Busy(InWork)) = 0
        /\ Cardinality(Busy(Succeeded)) = 0 /\ Cardinality(Busy(Failing)) = 0
    BY <2>1, FS_EmptySet DEF InWork, Succeeded, Failing
  <2>3. TypeOK
    BY DEF LiveInv, ResultInv, BudgetInv, IInv
  <2>4. /\ Size \in Nat /\ Sum("processed") \in Nat /\ Sum("failed") \in Nat /\ Sum("retried") \in Nat
        /\ stats["total"] \in Nat /\ stats["completed"] \in Nat /\ stats["failed"] \in Nat
    BY <2>3, LedgerTypes DEF AccountInv, LedgerInv
  <2> QED
    BY <2>2, <2>4 DEF AccountInv, LedgerInv
<1> QED
  BY <1>1, <1>2, <1>3, <1>4, <1>6, <1>7, PTL DEF Spec
-----------------------------------------------------------------------------
(* What a failure costs.                                                   *)

(* An Enqueue whose push failed is going to delete the data of x.          *)
Cleanup(x) == \E c \in Client : pc[c] = "unset" /\ cur[c].id = x

(* Where a worker relies on the data that is stored.                       *)
NeedsData == {"get", "requeue", "push"}

(* A worker has x in hand and has not yet failed to give it an outcome.    *)
InGoodHands(x) ==
    \E w \in Worker : /\ Held(w) = x /\ pc[w] \notin {"ack", "dlqMeta", "nack"}
                      /\ pc[w] \in NeedsData => taskData[x] # NoTask

(* Only a failure of its own can take x from the workers.                  *)
Secure(x) ==
    \/ Finished(x)
    \/ ~Cleanup(x) /\ ((Listed(x) /\ taskData[x] # NoTask) \/ InGoodHands(x))

(* The ids the broker has answered for or is about to.                     *)
Answerable(x) == x \in accepted \/ \E p \in Producer : pc[p] = "count" /\ cur[p].id = x

AtRisk == {x \in TaskId : Answerable(x) /\ ~Secure(x)}

(* Workers are not stopped, and an id that is still to be pushed for the   *)
(* first time is nobody's: not answered for, not counted, not cleaned up.  *)
ServingInv ==
    /\ KeptInv
    /\ \A w \in Worker : w \notin ctxDone
    /\ \A x \in accepted : ~Unsent(x)
    /\ \A c \in Client : pc[c] \in {"unset", "count"} => ~Unsent(cur[c].id)
    /\ \A p \in Producer : pc[p] = "push" => taskData[cur[p].id] # NoTask

LEMMA UnsentFrom ==
    ASSUME TypeOK, TypeOK', [Next]_vars, NEW x \in TaskId, Unsent(x)'
    PROVE  Unsent(x)
<1>1. CASE Waiting(x)'
  BY <1>1, RequestsMoveOn, StillWaiting DEF Waiting, Unsent
<1>2. ASSUME NEW p \in Producer, pc'[p] \in {"set", "push"}, cur'[p].id = x
      PROVE  Unsent(x)
  <2>0. p \in Client /\ p \notin Worker /\ pc \in [Client -> Pc]
        /\ cur \in [Client -> Task \cup {NoTask}]
    BY ClientAssumption DEF Client, TypeOK, CallTypeOK
  <2>1. CASE Keeps(p)
    BY <1>2, <2>1 DEF Keeps, Unsent
  <2>2. CASE EnqueueSet(p) /\ pc'[p] = "push"
    <3>1. pc[p] = "set" /\ cur'[p] = cur[p]
      BY <2>0, <2>2 DEF EnqueueSet, Return
    <3> QED
      BY <1>2, <3>1 DEF Unsent
  <2>3. CASE HandleSubmit(p)
    <3>1. cur'[p] = Request[p][sent[p] + 1]
      BY <2>0, <2>3 DEF HandleSubmit, EnqueueCall
    <3> QED
      BY <1>2, <2>3, <3>1, NextOfRequest DEF Waiting, Unsent
  <2> QED
    BY <1>2, <2>0, <2>1, <2>2, <2>3, Arrives
<1> QED
  BY <1>1, <1>2 DEF Waiting, Unsent

(* After a push the id is not unsent, whatever became of the command.      *)
LEMMA PushedIsSent ==
    ASSUME IInv, TypeOK', [Next]_vars, NEW c \in Worker \cup Producer, EnqueuePush(c),
           pc'[c] \in {"count", "unset"}, NEW x \in TaskId, cur[c].id = x
    PROVE  ~Unsent(x)'
<1>1. TypeOK /\ c \in Client /\ pc[c] = "push" /\ Held(c) = x
  BY DEF IInv, Client, EnqueuePush, Held, HandlesTask
<1>2. ~Waiting(x) /\ \A d \in Client : d # c => Held(d) # x
  BY <1>1, Alone DEF OnePlace
<1>3. ~Waiting(x)'
  BY <1>1, <1>2, RequestsMoveOn, StillWaiting
<1>4. ASSUME NEW p \in Producer, pc'[p] \in {"set", "push"}, cur'[p].id = x
      PROVE  FALSE
  <2>1. p \in Client /\ p # c /\ Held(p)' = x
    BY <1>4 DEF Client, Held, HandlesTask
  <2>2. Held(p) # x
    BY <1>2, <2>1
  <2>3. HandleSubmit(p) /\ Waiting(x)
    BY <1>1, <2>1, <2>2, HeldFrom, ClientAssumption DEF IInv
  <2> QED
    BY <1>2, <2>3
<1> QED
  BY <1>3, <1>4 DEF Unsent, Waiting

(* Who may delete the data of a task that is queued or in hand.            *)
LEMMA DataLost ==
    ASSUME BudgetInv, ~HandlePurge, [Next]_vars, NEW x \in TaskId,
           taskData[x] # NoTask, taskData'[x] = NoTask
    PROVE  \/ Cleanup(x)
           \/ \E w \in Worker : Held(w) = x /\ pc[w] \in {"ack", "nack"}
<1>1. TypeOK
  BY DEF BudgetInv, IInv
<1>2. ASSUME NEW c \in Worker \cup Producer, pc[c] = "set", taskData'[x] = cur[c] PROVE FALSE
  BY <1>1, <1>2, TaskAtHand DEF HandlesTask, Client
<1> PICK c \in Worker \cup Producer :
        /\ pc[c] \in {"unset", "ack", "nack"} /\ cur[c].id = x
        /\ pc[c] # "unset" => c \in Worker
  BY <1>1, <1>2, DataWriters
<1> QED
  BY DEF Cleanup, Client, Held, HandlesTask

(* Nobody stops the workers when the pool is not shut down.                *)
LEMMA WorkersServe ==
    ASSUME ~MayCancel, [Next]_vars, NEW w \in Worker, w \notin ctxDone
    PROVE  w \notin ctxDone'
<1> USE ClientAssumption
<1>1. \A c : EnqueueSet(c) \/ EnqueuePush(c) \/ EnqueueUnset(c) \/ EnqueueCount(c) =>
            ctxDone' = ctxDone
  BY DEF EnqueueSet, EnqueuePush, EnqueueUnset, EnqueueCount
<1>2. \A v : DequeueStep(v) \/ AckTask(v) \/ MoveToDLQ(v) \/ Retry(v) => ctxDone' = ctxDone
  BY DEF DequeueStep, DequeueLPop, DequeueGet, DequeueRequeue, AckTask, Ack, Settle, MoveToDLQ,
         EnqueueDLQ, EnqueueDLQMeta, Nack, Retry, EnqueueCall
<1>3. \A v : Start(v) \/ ExecuteSuccess(v) \/ ExecuteFailure(v) \/ SaveCompleted(v)
            \/ HandleTaskFailure(v) \/ EndSaveTask(v) \/ Poll(v) \/ Exit(v) => ctxDone' = ctxDone
  BY DEF Start, ExecuteSuccess, ExecuteFailure, SaveCompleted, HandleTaskFailure, EndSaveTask,
         QueueUntouched, Poll, DequeueCall, Exit
<1>4. \A v : WorkerStep(v) => ctxDone' \subseteq ctxDone
  BY <1>1, <1>2, <1>3 DEF WorkerStep, Handle, EnqueueStep, Crash
<1>5. \A p : RequestStep(p) => ctxDone' = ctxDone
  BY <1>1 DEF RequestStep, Submit, HandleSubmit, EnqueueCall, SubmitStep, SubmitAccepted,
         BrokerCrash
<1>6. HandlePurge => ctxDone' = ctxDone
  BY DEF HandlePurge, PurgeCall, Purge, PurgeList, PurgeKey, PurgeScanned, PurgeProcessing
<1> QED
  BY <1>4, <1>5, <1>6 DEF Next, Cancel, Disconnect, vars, queueVars

LEMMA ServingStays ==
    ASSUME UniqueIds, NoRepeats, NoPurge, ~MayCancel, ServingInv, [Next]_vars
    PROVE  ServingInv'
<1>1. KeptInv' /\ KeptInv
  BY KeptStays DEF ServingInv
<1>2. BudgetInv /\ IInv /\ TypeOK /\ TypeOK' /\ ~HandlePurge
  BY <1>1, NoPurgeSteps DEF KeptInv, BudgetInv, IInv
<1>3. \A w \in Worker : w \notin ctxDone'
  BY WorkersServe DEF ServingInv
<1>4. ASSUME NEW x \in accepted' PROVE ~Unsent(x)'
  <2>1. x \in TaskId
    BY <1>2, <1>4 DEF TypeOK, RecordTypeOK
  <2>2. CASE x \in accepted
    BY <1>2, <2>1, <2>2, UnsentFrom DEF ServingInv
  <2>3. CASE x \notin accepted
    <3> PICK p \in Producer : pc[p] = "count" /\ cur[p].id = x
      BY <1>4, <2>3, AcceptedFrom
    <3>1. ~Unsent(cur[p].id)
      BY DEF ServingInv, Client
    <3> QED
      BY <1>2, <2>1, <3>1, UnsentFrom
  <2> QED
    BY <2>2, <2>3
<1>5. ASSUME NEW c \in Client, pc'[c] \in {"unset", "count"} PROVE ~Unsent(cur[c].id)'
  <2> PICK x \in TaskId : x = cur'[c].id
    BY <1>2, <1>5, TaskMethods DEF TypeOK, FrameOK
  <2>1. Unsent(cur[c].id)' = Unsent(x)'
    BY DEF Unsent
  <2>2. CASE Keeps(c)
    BY <1>2, <1>5, <2>1, <2>2, UnsentFrom DEF Keeps, ServingInv
  <2>3. CASE ~Keeps(c)
    <3>1. c \in Worker \cup Producer /\ EnqueuePush(c)
      BY <1>2, <1>5, <2>3, Arrives
    <3>2. cur[c].id = x
      BY <1>2, <3>1, PushEffect
    <3> QED
      BY <1>2, <1>5, <2>1, <3>1, <3>2, PushedIsSent
  <2> QED
    BY <2>2, <2>3
<1>6. ASSUME NEW p \in Producer, pc'[p] = "push" PROVE taskData'[cur'[p].id] # NoTask
  <2>0. p \in Client /\ p \notin Worker
    BY ClientAssumption DEF Client
  <2> PICK x \in TaskId : x = cur'[p].id
    BY <1>2, <1>6, <2>0, TaskMethods DEF TypeOK, FrameOK, HandlesTask
  <2>1. CASE Keeps(p)
    <3>1. pc[p] = "push" /\ cur[p].id = x /\ taskData[x] # NoTask
      BY <1>6, <2>1 DEF Keeps, ServingInv
    <3>2. Held(p) = x /\ Unsent(x)
      BY <3>1 DEF Held, HandlesTask, Unsent
    <3>3. ~Cleanup(x)
      BY <3>2 DEF ServingInv, Cleanup
    <3>4. \A w \in Worker : Held(w) # x
      BY <1>2, <2>0, <3>2, Alone DEF OnePlace, Client
    <3> QED
      BY <1>2, <3>1, <3>3, <3>4, DataLost
  <2>2. CASE ~Keeps(p)
    <3>1. EnqueueSet(p)
      BY <1>2, <1>6, <2>0, <2>2, Arrives
    <3>2. cur[p] \in Task /\ cur[p] # NoTask
      BY <1>2, <2>0, <3>1, TaskAtHand DEF EnqueueSet, HandlesTask
    <3>3. cur'[p] = cur[p] /\ taskData' = [taskData EXCEPT ![cur[p].id] = cur[p]]
      BY <1>2, <1>6, <2>0, <3>1 DEF EnqueueSet, Return, Answered, Executed, TypeOK, CallTypeOK
    <3> QED
      BY <1>2, <3>2, <3>3 DEF TypeOK, QueueTypeOK
  <2> QED
    BY <2>1, <2>2
<1> QED
  BY <1>1, <1>3, <1>4, <1>5, <1>6 DEF ServingInv

(* The id client c may lose when its step goes wrong.                      *)
Stake(c) ==
    IF c \in Worker /\ pc[c] = "lpop"
    THEN IF lists[scan[c]] = <<>> THEN NoId ELSE Head(lists[scan[c]])
    ELSE Held(c)

(* A cleanup is announced by the client whose push failed.                 *)
LEMMA CleanupFrom ==
    ASSUME TypeOK, TypeOK', [Next]_vars, NEW x \in TaskId, ~Cleanup(x), Cleanup(x)'
    PROVE  \E c \in Worker \cup Producer :
                EnqueuePush(c) /\ ~Keeps(c) /\ pc'[c] = "unset" /\ Held(c) = x
<1> PICK c \in Client : pc'[c] = "unset" /\ cur'[c].id = x
  BY DEF Cleanup
<1>1. ~Keeps(c)
  BY DEF Cleanup, Keeps
<1>2. c \in Worker \cup Producer /\ EnqueuePush(c)
  BY <1>1, Arrives
<1>3. pc[c] = "push" /\ cur'[c] = cur[c]
  BY <1>2, PushEffect
<1> QED
  BY <1>1, <1>2, <1>3 DEF Held, HandlesTask

LEMMA HolderKeeps ==
    ASSUME TypeOK, NEW d \in Client, Keeps(d)
    PROVE  Held(d)' = Held(d)
BY DEF Keeps, Held, TypeOK, CallTypeOK, Client

(* A step of c leaves every task but the one at its stake secure.          *)
LEMMA OthersSecure ==
    ASSUME NoRepeats, BudgetInv, TypeOK', ~HandlePurge, [Next]_vars, NEW x \in TaskId, Secure(x),
           \A c \in Client : ~Keeps(c) => Stake(c) # x
    PROVE  Secure(x)'
<1>1. TypeOK /\ OnePlace /\ x # NoId
  BY Alone, TaskAssumption DEF BudgetInv, IInv
<1>2. CASE Finished(x)
  BY <1>2, FinishedStays DEF Secure
<1>3. CASE ~Finished(x)
  <2>1. ~Cleanup(x) /\ ((Listed(x) /\ taskData[x] # NoTask) \/ InGoodHands(x))
    BY <1>3 DEF Secure
  <2>2. ~Cleanup(x)'
    <3> SUFFICES ASSUME Cleanup(x)' PROVE FALSE
      OBVIOUS
    <3> PICK c \in Worker \cup Producer : EnqueuePush(c) /\ ~Keeps(c) /\ Held(c) = x
      BY <1>1, <2>1, CleanupFrom
    <3>1. c \in Client /\ Stake(c) = x
      BY DEF EnqueuePush, Stake, Client
    <3> QED
      BY <3>1
  <2>3. CASE Listed(x) /\ taskData[x] # NoTask
    <3>1. taskData'[x] # NoTask
      BY <1>1, <2>1, <2>3, DataLost DEF OnePlace, Client
    <3>2. Listed(x)'
      <4> PICK k \in ListKey : x \in Range(lists[k])
        BY <2>3 DEF Listed
      <4> SUFFICES ASSUME x \notin Range(lists'[k]) PROVE FALSE
        BY DEF Listed
      <4>1. PICK w \in Worker : DequeueLPop(w) /\ k = scan[w]
        BY <1>1, ListedTo
      <4>2. w \in Client /\ pc[w] = "lpop" /\ lists[k] \in Seq(TaskId)
            /\ lists \in [ListKey -> Seq(TaskId)]
        BY <1>1, <4>1 DEF DequeueLPop, Client, TypeOK, QueueTypeOK
      <4>3. PICK o \in Outcome : Command(w, o) /\ lists' = [lists EXCEPT ![k] = Popped(lists[k], o)]
        BY <4>1 DEF DequeueLPop
      <4>4. o # "twice"
        BY <4>3 DEF Command, NoRepeats
      <4>5. lists'[k] = Popped(lists[k], o)
        BY <4>2, <4>3
      <4>6. lists[k] # <<>> /\ x = Head(lists[k])
        BY <4>2, <4>4, <4>5, PoppedRange
      <4>7. ~Keeps(w)
        <5>1. pc'[w] # "lpop" \/ scan'[w] # scan[w]
          BY <1>1, <4>1, <4>2, <4>6, PopEffect DEF NoRepeats
        <5> QED
          BY <4>2, <5>1 DEF Keeps
      <4> QED
        BY <4>1, <4>2, <4>6, <4>7 DEF Stake
    <3> QED
      BY <2>2, <3>1, <3>2 DEF Secure
  <2>4. CASE InGoodHands(x)
    <3> PICK w \in Worker : /\ Held(w) = x /\ pc[w] \notin {"ack", "dlqMeta", "nack"}
                            /\ pc[w] \in NeedsData => taskData[x] # NoTask
      BY <2>4 DEF InGoodHands
    <3>1. w \in Client /\ Keeps(w)
      BY <1>1 DEF Client, Stake, Held, HandlesTask
    <3>2. Held(w)' = x /\ pc'[w] = pc[w]
      BY <1>1, <3>1, HolderKeeps DEF Keeps
    <3>3. pc[w] \in NeedsData => taskData'[x] # NoTask
      BY <1>1, <2>1, <3>1, DataLost DEF OnePlace, Client
    <3> QED
      BY <2>2, <3>2, <3>3 DEF Secure, InGoodHands
  <2> QED
    BY <2>1, <2>3, <2>4
<1> QED
  BY <1>2, <1>3

LEMMA CleanRequeue ==
    ASSUME TypeOK, faults' = faults, NEW w \in Worker, ~Refused(w), DequeueRequeue(w),
           NEW x \in TaskId, got[w] = x
    PROVE  Listed(x)' /\ taskData' = taskData
<1>1. scan[w] \in ListKey /\ lists \in Lists
  BY RequeueEffect DEF TypeOK, QueueTypeOK, Lists
<1> PICK k \in ListKey : k = scan[w]
  BY <1>1
<1> PICK o \in Outcome : Command(w, o) /\ lists' = [lists EXCEPT ![k] = LPushed(@, x, o)]
  BY DEF DequeueRequeue
<1>2. o = "ok"
  BY CleanCommand
<1>3. lists' = PushedFirst(lists, k, x)
  BY <1>2 DEF LPushed, Executed, PushedFirst
<1>4. In(lists', x)
  BY ONLY <1>1, <1>3, k \in ListKey, x \in TaskId, InAfterPush, Zenon
<1> QED
  BY <1>4 DEF DequeueRequeue, In, Listed

(* A worker whose step does not go wrong keeps its task secure.            *)
LEMMA OwnSecure ==
    ASSUME NamedIds, BudgetInv, TypeOK', faults' = faults, crashes' = crashes, [Next]_vars,
           NEW w \in Worker, ~Refused(w), WorkerStep(w),
           NEW x \in TaskId, Stake(w) = x, Secure(x), ~Finished(x), ~Cleanup(x)'
    PROVE  Secure(x)'
<1>0. /\ TypeOK /\ DataKeyed /\ OnePlace /\ x # NoId /\ w \in Client
      /\ pc \in [Client -> Pc] /\ cur \in [Client -> Task \cup {NoTask}]
      /\ taskData \in [TaskId -> Task \cup {NoTask}]
  BY Alone, TaskAssumption DEF BudgetInv, IInv, Client, TypeOK, CallTypeOK, QueueTypeOK
<1>1. ~Crash(w)
  BY <1>0 DEF Crash, TypeOK, RecordTypeOK
<1>2. (Listed(x) /\ taskData[x] # NoTask) \/ InGoodHands(x)
  BY DEF Secure
<1> DEFINE Kept == Held(w)' = x /\ pc'[w] \notin {"ack", "dlqMeta", "nack"}
                   /\ (pc'[w] \in NeedsData => taskData'[x] # NoTask)
<1>3. Kept => Secure(x)'
  BY DEF Secure, InGoodHands
<1>4. Listed(x)' /\ taskData'[x] # NoTask => Secure(x)'
  BY DEF Secure
<1>5. Finished(x)' => Secure(x)'
  BY DEF Secure
<1> HIDE DEF Kept
<1>6. CASE pc[w] = "lpop"
  <2>1. DequeueLPop(w) /\ taskData' = taskData /\ scan[w] \in ListKey
    BY <1>0, <1>1, <1>6, WorkerActions, PriorityKeys
       DEF Moves, DequeueLPop, EndSaveTask, AfterSave, TypeOK, CallTypeOK
  <2>2. lists[scan[w]] # <<>> /\ x = Head(lists[scan[w]]) /\ lists[scan[w]] \in Seq(TaskId)
    BY <1>0, <1>6, <2>1 DEF Stake, TypeOK, QueueTypeOK
  <2>3. x \in Range(lists[scan[w]])
    BY <2>2 DEF Range
  <2>4. Listed(x) /\ \A v \in Worker : Held(v) # x
    BY <1>0, <2>1, <2>3 DEF Listed, OnePlace, Client
  <2>5. taskData'[x] # NoTask
    BY <1>2, <2>1, <2>4 DEF InGoodHands
  <2>6. CASE x \in Range(lists'[scan[w]])
    BY <1>4, <2>1, <2>5, <2>6 DEF Listed
  <2>7. CASE x \notin Range(lists'[scan[w]])
    <3>1. pc'[w] = "get" /\ got'[w] = x
      BY <1>0, <2>1, <2>3, <2>7, PopEffect
    <3> QED
      BY <1>3, <2>5, <3>1 DEF Kept, Held
  <2> QED
    BY <2>6, <2>7
<1>7. CASE pc[w] # "lpop"
  <2>1. Held(w) = x /\ ~Listed(x) /\ \A v \in Client : v # w => Held(v) # x
    BY <1>0, <1>7 DEF Stake, OnePlace
  <2>2. /\ pc[w] \in (HandlesTask \cup {"get", "requeue"}) \ {"ack", "dlqMeta", "nack"}
        /\ pc[w] \in NeedsData => taskData[x] # NoTask
    BY <1>0, <1>2, <2>1 DEF InGoodHands, Held, Client
  <2>3. CASE pc[w] = "get"
    <3>1. DequeueGet(w) /\ got[w] = x /\ taskData[x] # NoTask
      BY <1>0, <1>1, <2>1, <2>2, <2>3, WorkerActions
         DEF Moves, Held, NeedsData, EndSaveTask, AfterSave
    <3>2. cur'[w] = taskData[x] /\ pc'[w] = "start"
      BY <1>0, <3>1, CleanCommand DEF DequeueGet, Goto
    <3>3. Held(w)' = x
      BY <1>0, <3>1, <3>2 DEF Held, HandlesTask, DataKeyed
    <3> QED
      BY <1>3, <3>2, <3>3 DEF Kept, NeedsData
  <2>4. CASE pc[w] = "requeue"
    <3>1. DequeueRequeue(w) /\ got[w] = x /\ taskData[x] # NoTask
      BY <1>0, <1>1, <2>1, <2>2, <2>4, WorkerActions
         DEF Moves, Held, NeedsData, EndSaveTask, AfterSave
    <3> QED
      BY <1>0, <1>4, <3>1, CleanRequeue
  <2>5. CASE pc[w] \in HandlesTask
    <3>0. cur[w] \in Task /\ cur[w].id = x /\ x # EmptyId /\ cur[w] # NoTask
      BY <1>0, <2>1, <2>5, TaskAtHand DEF Held, HandlesTask, NamedIds
    <3>1. \/ Start(w) /\ Moves(w, "start", {"exec"})
          \/ ExecuteSuccess(w) /\ Moves(w, "exec", {"completed"})
          \/ ExecuteFailure(w) /\ Moves(w, "exec", {"failed"})
          \/ SaveCompleted(w)
          \/ HandleTaskFailure(w) /\ Moves(w, "failed", {"backoff", "dlq"})
          \/ Retry(w) /\ Moves(w, "backoff", {"set"})
          \/ EndSaveTask(w) /\ pc[w] # "ack"
          \/ EnqueueSet(w) \/ EnqueuePush(w) \/ EnqueueDLQ(w)
      BY <1>0, <1>1, <2>2, <2>5, WorkerActions DEF Moves, HandlesTask
    <3>2. CASE \/ Start(w) /\ Moves(w, "start", {"exec"})
               \/ ExecuteSuccess(w) /\ Moves(w, "exec", {"completed"})
               \/ ExecuteFailure(w) /\ Moves(w, "exec", {"failed"})
               \/ HandleTaskFailure(w) /\ Moves(w, "failed", {"backoff", "dlq"})
               \/ Retry(w) /\ Moves(w, "backoff", {"set"})
               \/ EndSaveTask(w) /\ pc[w] # "ack"
      <4> PICK t \in Task : t = cur[w]
        BY <3>0
      <4>1. cur'[w] \in {t, MarkStarted(t), MarkCompleted(t), MarkFailed(t)}
        BY <1>0, <3>2 DEF Start, ExecuteSuccess, ExecuteFailure, HandleTaskFailure, Retry, EnqueueCall,
           EndSaveTask
      <4>2. MarkStarted(t).id = t.id /\ MarkCompleted(t).id = t.id /\ MarkFailed(t).id = t.id
        BY TaskMethods
      <4>3. pc'[w] \in {"exec", "completed", "failed", "backoff", "dlq", "set"}
        BY <3>2 DEF Moves, EndSaveTask, AfterSave
      <4> QED
        BY <1>3, <3>0, <4>1, <4>2, <4>3 DEF Kept, Held, HandlesTask, NeedsData
    <3>3. CASE SaveCompleted(w)
      <4>1. Recorded(cur[w].id, "completed")'
        BY <1>0, <3>0, <3>3, CleanCompletion
      <4>2. cur'[w].id = x
        BY <1>0, <3>0, <3>3, CleanCompletion
      <4> QED
        BY <1>5, <4>1, <4>2 DEF Finished, Recorded
    <3>4. CASE EnqueueSet(w)
      <4>1. pc'[w] = "push" /\ cur'[w] = cur[w] /\ taskData' = [taskData EXCEPT ![x] = cur[w]]
        BY <1>0, <3>0, <3>4, CleanCommand DEF EnqueueSet, Goto, Answered, Executed
      <4>2. taskData'[x] # NoTask
        BY <1>0, <3>0, <4>1
      <4> QED
        BY <1>3, <3>0, <4>1, <4>2 DEF Kept, Held, HandlesTask
    <3>5. CASE EnqueuePush(w)
      <4>1. taskData' = taskData /\ pc[w] = "push" /\ cur' = cur
        BY <3>5 DEF EnqueuePush
      <4>2. Listed(cur[w].id)'
        BY <1>0, <3>5, CleanPush
      <4>3. Listed(x)'
        BY <3>0, <4>1, <4>2 DEF Listed
      <4> QED
        BY <1>4, <2>2, <4>1, <4>3 DEF NeedsData
    <3>6. CASE EnqueueDLQ(w)
      <4>1. InDLQ(cur[w].id)' /\ cur' = cur
        BY <1>0, <3>6, CleanBurial DEF EnqueueDLQ
      <4> QED
        BY <1>5, <3>0, <4>1 DEF InDLQ, Finished
    <3> QED
      BY <3>1, <3>2, <3>3, <3>4, <3>5, <3>6
  <2> QED
    BY <2>2, <2>3, <2>4, <2>5
<1> QED
  BY <1>6, <1>7

(* Failures are only ever counted up, one at a time.                       *)
LEMMA FailuresAdd ==
    ASSUME TypeOK, [Next]_vars
    PROVE  /\ faults \in Nat /\ crashes \in Nat
           /\ faults' \in {faults, faults + 1} /\ crashes' \in {crashes, crashes + 1}
<1>1. \A w : DequeueStep(w) \/ AckTask(w) \/ EnqueueStep(w) \/ MoveToDLQ(w) \/ Retry(w) \/ Poll(w)
            \/ Exit(w) => crashes' = crashes
  BY DEF DequeueStep, AckTask, EnqueueStep, MoveToDLQ, Retry, Poll, Exit, QueueOnly, workerVars
<1>2. \A w : Start(w) \/ ExecuteSuccess(w) \/ ExecuteFailure(w) \/ SaveCompleted(w)
            \/ HandleTaskFailure(w) \/ EndSaveTask(w) => crashes' = crashes
  BY DEF Start, ExecuteSuccess, ExecuteFailure, SaveCompleted, HandleTaskFailure, EndSaveTask,
         workerVars
<1>3. \A w : WorkerStep(w) => crashes' \in {crashes, crashes + 1}
  BY <1>1, <1>2 DEF WorkerStep, Handle, Crash
<1>4. \A p : RequestStep(p) => crashes' \in {crashes, crashes + 1}
  BY DEF RequestStep, Submit, HandleSubmit, SubmitStep, SubmitAccepted, BrokerCrash, workerVars
<1>5. crashes' \in {crashes, crashes + 1}
  BY <1>3, <1>4 DEF Next, HandlePurge, Disconnect, Cancel, vars, workerVars
<1> QED
  BY <1>5, FaultsAdd DEF TypeOK, RecordTypeOK

(* A task that is no longer secure was at the stake of the client whose    *)
(* step went wrong, and so was every other one this step has harmed.       *)
LEMMA Harmed ==
    ASSUME NoRepeats, NamedIds, ServingInv, TypeOK', ~HandlePurge, [Next]_vars,
           NEW x \in TaskId, Answerable(x), Secure(x), ~Secure(x)'
    PROVE  /\ \E c \in Client : ~Keeps(c) /\ Stake(c) = x
           /\ faults' # faults \/ crashes' # crashes
<1>1. BudgetInv /\ TypeOK /\ x # NoId
  BY TaskAssumption DEF ServingInv, KeptInv, BudgetInv, IInv
<1>2. PICK c \in Client : ~Keeps(c) /\ Stake(c) = x
  BY <1>1, OthersSecure
<1>3. ~Unsent(x)
  <2>1. CASE x \in accepted
    BY <2>1 DEF ServingInv
  <2>2. ASSUME NEW p \in Producer, pc[p] = "count", cur[p].id = x PROVE ~Unsent(x)
    <3>1. ~Unsent(cur[p].id)
      BY <2>2 DEF ServingInv, Client
    <3> QED
      BY <2>2, <3>1
  <2> QED
    BY <2>1, <2>2 DEF Answerable
<1>4. c \in Worker
  <2>1. c \notin Worker => Held(c) = x
    BY <1>2 DEF Stake
  <2>2. c = Admin => Held(c) # x
    BY <1>1 DEF Held, HandlesTask, TypeOK, CallTypeOK
  <2>3. c \in Producer /\ Held(c) = x => Unsent(x)
    BY <1>1 DEF Held, HandlesTask, TypeOK, CallTypeOK, Unsent
  <2> QED
    BY <1>3, <2>1, <2>2, <2>3 DEF Client
<1>5. WorkerStep(c) /\ ~Refused(c)
  BY <1>1, <1>2, <1>4, Actor, ClientAssumption DEF ServingInv, Refused
<1>6. ASSUME faults' = faults, crashes' = crashes PROVE FALSE
  <2>1. ~Finished(x)
    BY <1>1, FinishedStays DEF Secure
  <2>2. ~Cleanup(x)
    BY <2>1 DEF Secure
  <2>3. ~Cleanup(x)'
    <3> SUFFICES ASSUME Cleanup(x)' PROVE FALSE
      OBVIOUS
    <3> PICK d \in Worker \cup Producer : EnqueuePush(d) /\ pc'[d] = "unset" /\ Held(d) = x
      BY <1>1, <2>2, CleanupFrom
    <3>1. Refused(d)
      BY <1>1, <1>6, CleanPush
    <3>2. d \in Producer
      BY <3>1 DEF ServingInv, Refused
    <3>3. Unsent(x)
      BY <3>2 DEF EnqueuePush, Held, HandlesTask, Unsent
    <3> QED
      BY <1>3, <3>3
  <2> QED
    BY <1>1, <1>2, <1>4, <1>5, <1>6, <2>1, <2>3, OwnSecure
<1> QED
  BY <1>2, <1>6

(* The broker answers for a task that is secure.                           *)
LEMMA AnswersSecure ==
    ASSUME NoRepeats, ServingInv, TypeOK', [Next]_vars,
           NEW x \in TaskId, Answerable(x)', ~Answerable(x)
    PROVE  Secure(x)'
<1>1. IInv /\ TypeOK
  BY DEF ServingInv, KeptInv, BudgetInv, IInv
<1>2. x \notin accepted'
  BY AcceptedFrom DEF Answerable
<1>3. PICK p \in Producer : pc'[p] = "count" /\ cur'[p].id = x
  BY <1>2 DEF Answerable
<1>4. p \in Client /\ ~Keeps(p)
  BY <1>3 DEF Client, Keeps, Answerable
<1>5. EnqueuePush(p)
  BY <1>1, <1>3, <1>4, Arrives
<1>6. pc[p] = "push" /\ cur' = cur /\ cur[p].id = x /\ taskData' = taskData /\ pc \in [Client -> Pc]
  BY <1>1, <1>3, <1>5 DEF EnqueuePush, TypeOK, CallTypeOK
<1>7. faults' = faults
  <2> PICK o \in Outcome : Command(p, o) /\ Goto(p, IF Answered(o) THEN "count" ELSE "unset")
    BY <1>5 DEF EnqueuePush
  <2>1. Answered(o)
    BY <1>3, <1>4, <1>6 DEF Goto
  <2> QED
    BY <2>1, FaultAssumption DEF Answered, Command, NoRepeats, FaultKind
<1>8. Listed(x)'
  <2>1. Listed(cur[p].id)'
    BY <1>1, <1>3, <1>5, <1>7, CleanPush
  <2> QED
    BY <1>6, <2>1 DEF Listed
<1>9. taskData'[x] # NoTask
  BY <1>6 DEF ServingInv
<1>10. Unsent(x)
  BY <1>6 DEF Unsent
<1>11. ~Cleanup(x)
  BY <1>10 DEF ServingInv, Cleanup
<1>12. ~Cleanup(x)'
  <2> SUFFICES ASSUME Cleanup(x)' PROVE FALSE
    OBVIOUS
  <2> PICK d \in Worker \cup Producer : EnqueuePush(d) /\ pc'[d] = "unset" /\ Held(d) = x
    BY <1>1, <1>11, CleanupFrom
  <2>1. d # p /\ d \in Client
    BY <1>3 DEF Client
  <2>2. Held(p) = x
    BY <1>6 DEF Held, HandlesTask
  <2> QED
    BY <1>1, <1>4, <2>1, <2>2, Alone DEF OnePlace
<1> QED
  BY <1>8, <1>9, <1>12 DEF Secure

LEMMA OneActs ==
    ASSUME TypeOK, ~HandlePurge, [Next]_vars, NEW c \in Client, NEW d \in Client,
           ~Keeps(c), ~Keeps(d)
    PROVE  c = d
<1> USE ClientAssumption
<1>1. \A b \in Client : ~Keeps(b) => \/ b \in Worker /\ WorkerStep(b)
                                     \/ b \in Producer /\ RequestStep(b)
  BY Actor
<1>2. \A b \in Client, e \in Client : b \in Worker /\ WorkerStep(b) /\ e # b => Keeps(e)
  BY FrameOfWorker, ScanFrame DEF Keeps, OthersKeep
<1>3. \A b \in Client, e \in Producer : b \in Producer /\ RequestStep(b) /\ e # b => Keeps(e)
  BY FrameOfRequest DEF Keeps, OthersKeep, Client
<1> QED
  BY <1>1, <1>2, <1>3

(* As many tasks at most are at risk as failures have happened.            *)
RiskInv == IsFiniteSet(AtRisk) /\ Cardinality(AtRisk) <= faults + crashes

LEMMA RiskStays ==
    ASSUME NoRepeats, NamedIds, NoPurge, ServingInv, TypeOK', RiskInv, [Next]_vars
    PROVE  RiskInv'
<1>1. TypeOK /\ ~HandlePurge
  BY NoPurgeSteps DEF ServingInv, KeptInv, BudgetInv, IInv
<1>2. /\ faults \in Nat /\ crashes \in Nat
      /\ faults' \in {faults, faults + 1} /\ crashes' \in {crashes, crashes + 1}
  BY <1>1, FailuresAdd
<1> DEFINE A == AtRisk
           B == AtRisk'
<1>3. \A x \in B : x \in TaskId /\ Answerable(x)' /\ ~Secure(x)'
  BY DEF AtRisk
<1>4. \A x \in TaskId : Answerable(x) /\ ~Secure(x) => x \in A
  BY DEF AtRisk
<1>5. ASSUME NEW x \in B, x \notin A
      PROVE  /\ \E c \in Client : ~Keeps(c) /\ Stake(c) = x
             /\ faults' # faults \/ crashes' # crashes
  <2>1. x \in TaskId /\ Answerable(x)' /\ ~Secure(x)'
    BY <1>3, <1>5
  <2>2. Answerable(x)
    BY <2>1, AnswersSecure
  <2>3. Secure(x)
    BY <1>4, <1>5, <2>1, <2>2
  <2> QED
    BY <1>1, <2>1, <2>2, <2>3, Harmed
<1>6. IsFiniteSet(A) /\ Cardinality(A) \in Nat /\ Cardinality(A) <= faults + crashes
  BY FS_CardinalityType DEF RiskInv
<1> HIDE DEF A, B
<1>7. IsFiniteSet(B) /\ Cardinality(B) <= faults' + crashes'
  <2>1. CASE B \subseteq A
    <3>1. IsFiniteSet(B) /\ Cardinality(B) <= Cardinality(A)
      BY <1>6, <2>1, FS_Subset
    <3>2. Cardinality(B) \in Nat
      BY <3>1, FS_CardinalityType
    <3> QED
      BY <1>2, <1>6, <3>1, <3>2
  <2>2. ASSUME NEW y \in B, y \notin A PROVE IsFiniteSet(B) /\ Cardinality(B) <= faults' + crashes'
    <3>1. B \subseteq A \cup {y}
      BY <1>1, <1>5, <2>2, OneActs
    <3>2. IsFiniteSet(A \cup {y}) /\ Cardinality(A \cup {y}) = Cardinality(A) + 1
      BY <1>6, <2>2, FS_AddElement
    <3>3. IsFiniteSet(B) /\ Cardinality(B) <= Cardinality(A \cup {y})
      BY <3>1, <3>2, FS_Subset
    <3>4. Cardinality(B) \in Nat
      BY <3>3, FS_CardinalityType
    <3>5. faults' # faults \/ crashes' # crashes
      BY <1>5, <2>2
    <3> QED
      BY <1>2, <1>6, <3>2, <3>3, <3>4, <3>5
  <2> QED
    BY <2>1, <2>2
<1> QED
  BY <1>7 DEF RiskInv, B

(* However many workers, requests, tasks and retries there are, a command  *)
(* that fails or whose answer is lost, a worker or a broker that dies costs*)
(* at most one of the tasks the broker answered for, for all the shared    *)
(* lists and keys: the losses never exceed the failures. Requests whose    *)
(* clients go away cost nothing. It takes ids that are distinct and not    *)
(* empty, a client library that does not repeat commands, no Purge, and    *)
(* workers that are not stopped: a worker whose context is cancelled loses *)
(* what it has in hand without any failure (InFlightCompletesOrReturns).   *)
THEOREM LossesAreBounded ==
    ASSUME UniqueIds, NoRepeats, NamedIds, NoPurge, ~MayCancel
    PROVE  Spec => []LossBounded
<1>1. Init => ServingInv /\ RiskInv
  <2> SUFFICES ASSUME Init PROVE ServingInv /\ RiskInv
    OBVIOUS
  <2>1. BudgetInv
    BY InitBudget
  <2>2. /\ \A c \in Client : pc[c] = "idle" /\ c \notin ctxDone
        /\ accepted = {} /\ faults = 0 /\ crashes = 0 /\ purges = 0
    BY DEF Init, QueueInit, BrokerInit, WorkerInit
  <2>3. ServingInv
    BY <2>1, <2>2 DEF ServingInv, KeptInv, MayDelete, Unpurged, Buried, Client
  <2>4. AtRisk = {}
    BY <2>2 DEF AtRisk, Answerable, Client
  <2> QED
    BY <2>2, <2>3, <2>4, FS_EmptySet DEF RiskInv
<1>2. ServingInv /\ [Next]_vars => ServingInv'
  BY ServingStays
<1>3. ServingInv /\ ServingInv' /\ RiskInv /\ [Next]_vars => RiskInv'
  <2>1. ServingInv' => TypeOK'
    BY DEF ServingInv, KeptInv, BudgetInv, IInv
  <2> QED
    BY <2>1, RiskStays
<1>4. ServingInv /\ RiskInv => LossBounded
  <2> SUFFICES ASSUME ServingInv, RiskInv PROVE LossBounded
    OBVIOUS
  <2>1. \A x \in accepted : x \in TaskId /\ Answerable(x)
    BY DEF ServingInv, KeptInv, BudgetInv, IInv, TypeOK, RecordTypeOK, Answerable
  <2>2. \A x \in TaskId : Secure(x) => ~Lost(x)
    BY DEF Secure, InGoodHands, Lost, HeldBySome, Client
  <2> DEFINE L == {id \in accepted : Lost(id)}
  <2>3. L \subseteq AtRisk
    BY <2>1, <2>2 DEF AtRisk
  <2>4. IsFiniteSet(L) /\ Cardinality(L) <= Cardinality(AtRisk)
    BY <2>3, FS_Subset DEF RiskInv
  <2>5. Cardinality(L) \in Nat /\ Cardinality(AtRisk) \in Nat /\ faults \in Nat /\ crashes \in Nat
    BY <2>4, FS_CardinalityType DEF RiskInv, ServingInv, KeptInv, BudgetInv, IInv, TypeOK,
         QueueTypeOK, RecordTypeOK
  <2> QED
    BY <2>4, <2>5 DEF RiskInv, LossBounded
<1> QED
  BY <1>1, <1>2, <1>3, <1>4, PTL DEF Spec
=============================================================================
