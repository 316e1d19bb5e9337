------------------------------ MODULE RetryProof ------------------------------
(***************************************************************************)
(* Attempts and outcomes of a task. With an id in one place at a time      *)
(* (CustodyProof), the retry count travels with it: wherever the id may    *)
(* start from again, the attempts made and the attempts left add up to what*)
(* the request allows, and an id whose outcome is known is never started   *)
(* again.                                                                  *)
(***************************************************************************)
EXTENDS CustodyProof

(* The task with id x has made all but n of its attempts.                  *)
Left(x, n) == \A t \in Submitted : t.id = x => attempts[x] + n = Attempts(t)

(* The data stored for x allows as many attempts as are left.              *)
DataFits(x) == taskData[x] # NoTask => Left(x, Attempts(taskData[x]))

(* The copy of x that client c has in hand allows as many attempts as are  *)
(* left, the one under way included; none is left when x goes to the DLQ.  *)
HandFits(c, x) ==
    /\ pc[c] \in {"get", "requeue", "push"} => DataFits(x)
    /\ pc[c] \in {"start", "backoff", "set", "push"} => Left(x, Attempts(cur[c]))
    /\ pc[c] \in {"exec", "failed"} => Left(x, Attempts(cur[c]) - 1)
    /\ pc[c] = "dlq" => Left(x, 0)

Bounded(x) == \A t \in Submitted : t.id = x => attempts[x] <= Attempts(t)

(* The id is still to be taken up from its request.                        *)
Waiting(x) ==
    \E p \in Producer : \E i \in DOMAIN Request[p] : i > sent[p] /\ Request[p][i].id = x

(* Nobody will start x: it is in no list and in no request to come, and    *)
(* only clients that are at S have it in hand.                             *)
Gone(x, S) ==
    /\ ~Listed(x) /\ ~Waiting(x)
    /\ \A c \in Client : Held(c) = x => pc[c] \in S

Buried == {"dlqMeta", "nack"}
Settling == {"ack", "dlq", "dlqMeta", "nack"}

Decided(x) == Recorded(x, "completed") \/ Recorded(x, "dead_letter")

BuriedOnce(x) == \A i, j \in DOMAIN dlq : dlq[i].id = x /\ dlq[j].id = x => i = j

Account(x) ==
    /\ Bounded(x)
    /\ Listed(x) => DataFits(x)
    /\ \A c \in Client : Held(c) = x => HandFits(c, x)
    /\ Waiting(x) => attempts[x] = 0
    /\ InDLQ(x) => Left(x, 0) /\ Gone(x, Buried)
    /\ BuriedOnce(x)
    /\ Decided(x) => Gone(x, Settling)

BudgetInv == IInv /\ \A x \in TaskId : Account(x)

(* The invariant contains what is to be shown.                             *)
LEMMA BudgetGivesBound == BudgetInv => AttemptsBounded /\ DeadLetterSound
<1> SUFFICES ASSUME BudgetInv PROVE AttemptsBounded /\ DeadLetterSound
  OBVIOUS
<1>1. \A t \in Submitted : t.id \in TaskId
  <2> TAKE t \in Submitted
  <2> PICK p \in Producer : t \in Range(Request[p])
    BY DEF Submitted
  <2>1. PICK i \in DOMAIN Request[p] : t = Request[p][i]
    BY DEF Range
  <2> QED
    BY <2>1, RequestIds
<1>2. AttemptsBounded
  BY <1>1 DEF BudgetInv, Account, Bounded, AttemptsBounded
<1>3. DeadLetterSound
  <2> SUFFICES ASSUME NEW i \in DOMAIN dlq
               PROVE  /\ \A t \in Submitted : t.id = dlq[i].id => attempts[t.id] = Attempts(t)
                      /\ ~Listed(dlq[i].id)
                      /\ \A j \in DOMAIN dlq : dlq[i].id = dlq[j].id => i = j
    BY DEF DeadLetterSound
  <2> DEFINE x == dlq[i].id
  <2>1. dlq[i] \in Task
    BY DEF BudgetInv, IInv, TypeOK, QueueTypeOK
  <2>2. x \in TaskId /\ Account(x) /\ InDLQ(x)
    BY <2>1, TaskMethods DEF BudgetInv, InDLQ
  <2>3. attempts[x] \in Nat
    BY <2>2 DEF BudgetInv, IInv, TypeOK, RecordTypeOK
  <2> QED
    BY <2>2, <2>3 DEF Account, BuriedOnce, Left, Gone
<1> QED
  BY <1>2, <1>3

-----------------------------------------------------------------------------
(* Where an id is after a step.                                            *)

(* Custody, from the id's point of view.                                   *)
OnePlace ==
    \A x \in TaskId :
        /\ Listed(x) => ~Waiting(x) /\ \A c \in Client : Held(c) # x
        /\ \A c \in Client : Held(c) = x =>
                ~Waiting(x) /\ ~Listed(x) /\ \A d \in Client : d # c => Held(d) # x

LEMMA Alone == IInv => OnePlace
<1> SUFFICES ASSUME IInv, NEW x \in TaskId
             PROVE  /\ Listed(x) => ~Waiting(x) /\ \A c \in Client : Held(c) # x
                    /\ \A c \in Client : Held(c) = x =>
                        ~Waiting(x) /\ ~Listed(x) /\ \A d \in Client : d # c => Held(d) # x
  BY DEF OnePlace
<1>1. \A c \in Client : Holder[c] = Held(c)
  BY DEF Holder
<1>2. Placed(lists, Holder, sent) /\ x # NoId
  BY TaskAssumption DEF IInv
<1>3. ASSUME Listed(x) PROVE ~Waiting(x) /\ \A c \in Client : Held(c) # x
  <2> PICK k \in ListKey : x \in Range(lists[k])
    BY <1>3 DEF Listed
  <2> PICK i \in DOMAIN lists[k] : lists[k][i] = x
    BY DEF Range
  <2>1. ~Waiting(x)
    BY <1>2 DEF Waiting, Placed
  <2>2. \A c \in Client : Held(c) # x
    BY <1>1, <1>2 DEF Placed
  <2> QED
    BY <2>1, <2>2
<1>4. ASSUME NEW c \in Client, Held(c) = x
      PROVE  ~Waiting(x) /\ ~Listed(x) /\ \A d \in Client : d # c => Held(d) # x
  <2>1. ~Waiting(x)
    BY <1>1, <1>2, <1>4 DEF Waiting, Placed
  <2>2. ~Listed(x)
    BY <1>3, <1>4
  <2>3. \A d \in Client : d # c => Held(d) # x
    BY <1>1, <1>2, <1>4 DEF Placed
  <2> QED
    BY <2>1, <2>2, <2>3
<1> QED
  BY <1>3, <1>4

LEMMA AloneNext == IInv' => OnePlace'
BY Alone, PTL

(* A step in which x is neither stored nor started nor buried nor recorded.*)
Untouched(x) ==
    /\ taskData'[x] \in {taskData[x], NoTask}
    /\ attempts'[x] = attempts[x]
    /\ store'[x] = store[x]
    /\ \A i \in DOMAIN dlq' : dlq'[i].id = x => i \in DOMAIN dlq /\ dlq[i].id = x

(* Requests only move on.                                                  *)
Onward == \A p \in Producer : sent'[p] >= sent[p]

LEMMA StillWaiting ==
    ASSUME TypeOK, TypeOK', Onward, NEW x
    PROVE  Waiting(x)' => Waiting(x)
<1>1. \A p \in Producer : \A i \in DOMAIN Request[p] : i \in Nat
  BY RequestIds
<1> QED
  BY <1>1 DEF Onward, Waiting, TypeOK, RecordTypeOK

(* An id that stays where it is, or that somebody lets go of.              *)
LEMMA Bystander ==
    ASSUME NEW x \in TaskId, Account(x), Untouched(x),
           Listed(x)' => Listed(x), Waiting(x)' => Waiting(x),
           \A d \in Client : Held(d)' = x => Held(d) = x /\ pc'[d] = pc[d] /\ cur'[d] = cur[d]
    PROVE  Account(x)'
<1>1. \A n : Left(x, n) => Left(x, n)'
  BY DEF Left, Untouched
<1>2. DataFits(x) => DataFits(x)'
  BY <1>1 DEF DataFits, Untouched
<1>3. \A c \in Client : Held(c)' = x => HandFits(c, x)'
  BY <1>1, <1>2 DEF Account, HandFits
<1>4. \A S : Gone(x, S) => Gone(x, S)'
  BY DEF Gone
<1>5. InDLQ(x)' => InDLQ(x)
  BY DEF InDLQ, Untouched
<1>6. Decided(x)' => Decided(x)
  BY DEF Decided, Recorded, Untouched
<1>7. BuriedOnce(x)'
  BY DEF Account, BuriedOnce, Untouched
<1>8. Bounded(x)'
  BY DEF Account, Bounded, Untouched
<1>9. Waiting(x)' => attempts'[x] = 0
  BY DEF Account, Untouched
<1> QED
  BY <1>1, <1>2, <1>3, <1>4, <1>5, <1>6, <1>7, <1>8, <1>9 DEF Account

(* The id stays in the hands of c.                                         *)
LEMMA StaysInHand ==
    ASSUME IInv', NEW x \in TaskId, NEW c \in Client, Held(c)' = x,
           HandFits(c, x)', Bounded(x)', BuriedOnce(x)',
           InDLQ(x)' => Left(x, 0)' /\ pc'[c] \in Buried,
           Decided(x)' => pc'[c] \in Settling
    PROVE  Account(x)'
<1>1. ~Waiting(x)' /\ ~Listed(x)' /\ \A d \in Client : d # c => Held(d)' # x
  BY AloneNext DEF OnePlace
<1>2. InDLQ(x)' => Gone(x, Buried)'
  BY <1>1 DEF Gone
<1>3. Decided(x)' => Gone(x, Settling)'
  BY <1>1 DEF Gone
<1> QED
  BY <1>1, <1>2, <1>3 DEF Account

(* The id is put into a list.                                              *)
LEMMA GoesToList ==
    ASSUME IInv', NEW x \in TaskId, Listed(x)', DataFits(x)', Bounded(x)', BuriedOnce(x)',
           ~InDLQ(x)', ~Decided(x)'
    PROVE  Account(x)'
<1>1. ~Waiting(x)' /\ \A d \in Client : Held(d)' # x
  BY AloneNext DEF OnePlace
<1> QED
  BY <1>1 DEF Account

(* The id is nowhere any more, whatever is stored for it.                  *)
LEMMA IsDropped ==
    ASSUME NEW x \in TaskId, Account(x), ~Listed(x)', ~Waiting(x)',
           \A d \in Client : Held(d)' # x,
           attempts' = attempts, store' = store, dlq' = dlq
    PROVE  Account(x)'
<1>1. Bounded(x)' /\ BuriedOnce(x)'
  BY DEF Account, Bounded, BuriedOnce
<1>2. InDLQ(x)' => Left(x, 0)' /\ Gone(x, Buried)'
  BY DEF Account, InDLQ, Left, Gone
<1>3. Decided(x)' => Gone(x, Settling)'
  BY DEF Gone
<1> QED
  BY <1>1, <1>2, <1>3 DEF Account

(* A step of c leaves the other ids where they are.                        *)
LEMMA Elsewhere ==
    ASSUME BudgetInv, TypeOK', NEW c \in Client, OthersKeep(c), Onward,
           NEW x \in TaskId, Untouched(x), Listed(x)' => Listed(x), Held(c)' # x
    PROVE  Account(x)'
<1>1. TypeOK /\ Account(x)
  BY DEF BudgetInv, IInv
<1>2. Waiting(x)' => Waiting(x)
  BY <1>1, StillWaiting
<1>3. ASSUME NEW d \in Client, Held(d)' = x
      PROVE  Held(d) = x /\ pc'[d] = pc[d] /\ cur'[d] = cur[d]
  <2>1. d # c
    BY <1>3
  <2>2. Holder'[d] = Holder[d]
    BY <1>1, <2>1, OthersHold
  <2>3. Held(d)' = Held(d)
    BY <2>2 DEF Holder
  <2> QED
    BY <1>3, <2>1, <2>3 DEF OthersKeep
<1> QED
  BY <1>1, <1>2, <1>3, Bystander

(* An id that was in hand was in no list, and its outcome open unless its  *)
(* holder was past the decision.                                           *)
LEMMA InHand ==
    ASSUME BudgetInv, NEW c \in Client, NEW x \in TaskId, Held(c) = x
    PROVE  /\ ~Listed(x) /\ ~Waiting(x) /\ HandFits(c, x)
           /\ pc[c] \notin Settling => ~Decided(x)
           /\ pc[c] \notin Buried => ~InDLQ(x)
BY Alone DEF BudgetInv, OnePlace, Account, Gone

-----------------------------------------------------------------------------
(* Which ids are in the lists after a command.                             *)

In(L, x) == \E k \in ListKey : x \in Range(L[k])

LEMMA InAfterPush ==
    ASSUME NEW L \in Lists, NEW k \in ListKey, NEW y \in TaskId, NEW M,
           M = PushedLast(L, k, y) \/ M = PushedFirst(L, k, y)
    PROVE  In(M, y) /\ \A x : In(M, x) => In(L, x) \/ x = y
<1>1. L[k] \in Seq(TaskId) /\ \A l \in ListKey : l # k => M[l] = L[l]
  BY DEF Lists, PushedLast, PushedFirst
<1>2. M[k] = Append(L[k], y) \/ M[k] = <<y>> \o L[k]
  BY DEF Lists, PushedLast, PushedFirst
<1>3. y \in Range(M[k]) /\ Range(M[k]) \subseteq Range(L[k]) \cup {y}
  <2>1. CASE M[k] = Append(L[k], y)
    <3>1. M[k][Len(L[k]) + 1] = y /\ Len(L[k]) + 1 \in DOMAIN M[k]
      BY <1>1, <2>1
    <3>2. \A i \in DOMAIN M[k] : M[k][i] = y \/ (i \in DOMAIN L[k] /\ M[k][i] = L[k][i])
      BY <1>1, <2>1
    <3> QED
      BY <3>1, <3>2 DEF Range
  <2>2. CASE M[k] = <<y>> \o L[k]
    <3>1. M[k][1] = y /\ 1 \in DOMAIN M[k]
      BY <1>1, <2>2
    <3>2. \A i \in DOMAIN M[k] : M[k][i] = y \/ (i - 1 \in DOMAIN L[k] /\ M[k][i] = L[k][i - 1])
      BY <1>1, <2>2
    <3> QED
      BY <3>1, <3>2 DEF Range
  <2> QED
    BY <1>2, <2>1, <2>2
<1> QED
  BY <1>1, <1>3 DEF In

LEMMA InAfterPop ==
    ASSUME NEW L \in Lists, NEW k \in ListKey, L[k] # <<>>
    PROVE  In(L, Head(L[k])) /\ \A x : In(Advanced(L, k), x) => In(L, x)
<1> DEFINE M == Advanced(L, k)
<1>1. L[k] \in Seq(TaskId) /\ M[k] = Tail(L[k]) /\ \A l \in ListKey : l # k => M[l] = L[l]
  BY DEF Lists, Advanced
<1>2. Head(L[k]) = L[k][1] /\ 1 \in DOMAIN L[k]
  BY <1>1
<1>3. \A i \in DOMAIN M[k] : i + 1 \in DOMAIN L[k] /\ M[k][i] = L[k][i + 1]
  BY <1>1
<1> HIDE DEF M
<1>4. Range(M[k]) \subseteq Range(L[k]) /\ Head(L[k]) \in Range(L[k])
  BY <1>2, <1>3 DEF Range
<1> QED
  BY <1>1, <1>4 DEF In, M

-----------------------------------------------------------------------------
(* The operations of the queue keep the invariant.                         *)

(* What is common to the steps of a client inside a queue call.            *)
QueueStep(c) == OthersKeep(c) /\ sent' = sent /\ store' = store /\ attempts' = attempts

LEMMA QueueStepFacts ==
    ASSUME BudgetInv, IInv', NEW c \in Worker \cup Producer, QueueStep(c)
    PROVE  /\ c \in Client /\ TypeOK /\ TypeOK' /\ OthersKeep(c) /\ Onward
           /\ pc \in [Client -> Pc] /\ cur \in [Client -> Task \cup {NoTask}]
           /\ got \in [Worker -> TaskId \cup {NoId}]
           /\ pc[c] \in HandlesTask => cur[c] \in Task /\ cur[c].id \in TaskId /\ Held(c) = cur[c].id
<1>1. c \in Client /\ TypeOK /\ TypeOK'
  BY DEF Client, BudgetInv, IInv
<1>2. Onward
  BY <1>1 DEF QueueStep, Onward, TypeOK, RecordTypeOK
<1>3. pc[c] \in HandlesTask => cur[c] \in Task /\ cur[c].id \in TaskId /\ Held(c) = cur[c].id
  BY <1>1, TaskMethods DEF TypeOK, FrameOK, Held, HandlesTask
<1> QED
  BY <1>1, <1>2, <1>3 DEF QueueStep, TypeOK, CallTypeOK

(* The client lets go of the id it had in hand, and nobody gets it.        *)
LEMMA LetsGo ==
    ASSUME BudgetInv, TypeOK', NEW c \in Client, OthersKeep(c), Onward,
           NEW x \in TaskId, Held(c) = x, Held(c)' # x, ~Listed(x)',
           attempts' = attempts, store' = store, dlq' = dlq
    PROVE  Account(x)'
<1>1. TypeOK /\ OnePlace /\ Account(x)
  BY Alone DEF BudgetInv, IInv
<1>2. ~Waiting(x)'
  BY <1>1, StillWaiting DEF OnePlace
<1>3. ASSUME NEW d \in Client, d # c PROVE Held(d)' # x
  <2>1. Held(d)' = Held(d)
    BY <1>1, <1>3, OthersHold DEF Holder
  <2> QED
    BY <1>1, <1>3, <2>1 DEF OnePlace
<1> QED
  BY <1>1, <1>2, <1>3, IsDropped

LEMMA EnqueueSetBudget ==
    ASSUME BudgetInv, IInv', NEW c \in Worker \cup Producer, EnqueueSet(c), QueueStep(c)
    PROVE  BudgetInv'
<1>0. /\ c \in Client /\ TypeOK /\ TypeOK' /\ OthersKeep(c) /\ Onward
      /\ pc \in [Client -> Pc] /\ cur \in [Client -> Task \cup {NoTask}]
  BY QueueStepFacts
<1> PICK y \in TaskId : y = cur[c].id
  BY QueueStepFacts DEF EnqueueSet, HandlesTask
<1>1. pc[c] = "set" /\ Held(c) = y
  BY QueueStepFacts DEF EnqueueSet, HandlesTask
<1>2. lists' = lists /\ dlq' = dlq /\ attempts' = attempts /\ store' = store
  BY DEF EnqueueSet, QueueStep
<1>3. taskData \in [TaskId -> Task \cup {NoTask}] /\ attempts \in [TaskId -> Nat]
  BY <1>0 DEF TypeOK, QueueTypeOK, RecordTypeOK
<1>4. \/ taskData' = [taskData EXCEPT ![y] = cur[c]] /\ pc'[c] = "push" /\ cur'[c] = cur[c]
      \/ /\ taskData' = [taskData EXCEPT ![y] = cur[c]] \/ taskData' = taskData
         /\ pc'[c] = "idle"
  BY <1>0 DEF EnqueueSet, Answered, Executed, Goto, Return
<1>5. (pc'[c] = "push" => Held(c)' = y) /\ (pc'[c] = "idle" => Held(c)' = NoId)
  BY <1>4 DEF Held, HandlesTask
<1>6. \A x : Listed(x)' => Listed(x)
  BY <1>2 DEF Listed
<1>7. ASSUME NEW x \in TaskId, x # y PROVE Account(x)'
  <2>1. Untouched(x)
    BY <1>2, <1>3, <1>4, <1>7 DEF Untouched
  <2>2. Held(c)' # x
    BY <1>4, <1>5, <1>7, TaskAssumption
  <2> QED
    BY <1>0, <1>6, <2>1, <2>2, Elsewhere
<1>8. Account(y)'
  <2>1. ~Listed(y) /\ HandFits(c, y) /\ ~Decided(y) /\ ~InDLQ(y)
    BY <1>0, <1>1, InHand DEF Settling, Buried
  <2>2. CASE pc'[c] = "push"
    <3>1. taskData'[y] = cur[c] /\ cur'[c] = cur[c]
      BY <1>3, <1>4, <2>2
    <3>2. Left(y, Attempts(cur[c]))'
      BY <1>1, <1>2, <2>1, <3>1 DEF HandFits, Left
    <3>3. HandFits(c, y)'
      BY <2>2, <3>1, <3>2 DEF HandFits, DataFits
    <3>4. Bounded(y)' /\ BuriedOnce(y)'
      BY <1>2 DEF BudgetInv, Account, Bounded, BuriedOnce
    <3>5. ~Decided(y)' /\ ~InDLQ(y)'
      BY <1>2, <2>1 DEF Decided, Recorded, InDLQ
    <3> QED
      BY <1>0, <1>5, <2>2, <3>3, <3>4, <3>5, StaysInHand
  <2>3. CASE pc'[c] = "idle"
    BY <1>0, <1>1, <1>2, <1>5, <1>6, <2>1, <2>3, LetsGo, TaskAssumption
  <2> QED
    BY <1>4, <2>2, <2>3
<1> QED
  BY <1>7, <1>8 DEF BudgetInv

(* A step of c that ends with nothing in its hands and puts nothing into   *)
(* the lists.                                                              *)
LEMMA Leaves ==
    ASSUME BudgetInv, IInv', NEW c \in Client, OthersKeep(c), Onward, Held(c)' = NoId,
           \A x \in TaskId : Untouched(x) /\ (Listed(x)' => Listed(x))
    PROVE  BudgetInv'
<1> SUFFICES ASSUME NEW x \in TaskId PROVE Account(x)'
  BY DEF BudgetInv
<1>1. TypeOK' /\ Held(c)' # x
  BY TaskAssumption DEF IInv
<1> QED
  BY <1>1, Elsewhere

(* A step of c that keeps the id y in its hands.                           *)
LEMMA Proceeds ==
    ASSUME BudgetInv, IInv', NEW c \in Client, OthersKeep(c), Onward, NEW y \in TaskId,
           Held(c)' = y, lists' = lists, dlq' = dlq,
           \A x \in TaskId : x # y => Untouched(x),
           HandFits(c, y)', Bounded(y)',
           InDLQ(y) => Left(y, 0)' /\ pc'[c] \in Buried,
           Decided(y)' => pc'[c] \in Settling
    PROVE  BudgetInv'
<1>0. TypeOK'
  BY DEF IInv
<1>1. ASSUME NEW x \in TaskId, x # y PROVE Account(x)'
  <2>1. Listed(x)' => Listed(x)
    BY DEF Listed
  <2> QED
    BY <1>0, <1>1, <2>1, Elsewhere
<1>2. Account(y)'
  <2>1. BuriedOnce(y)' /\ (InDLQ(y)' => InDLQ(y))
    BY DEF BudgetInv, Account, BuriedOnce, InDLQ
  <2> QED
    BY <2>1, StaysInHand
<1> QED
  BY <1>1, <1>2 DEF BudgetInv

LEMMA EnqueuePushBudget ==
    ASSUME BudgetInv, IInv', NoRepeats, NEW c \in Worker \cup Producer, EnqueuePush(c), QueueStep(c)
    PROVE  BudgetInv'
<1>0. /\ c \in Client /\ TypeOK /\ TypeOK' /\ OthersKeep(c) /\ Onward
      /\ pc \in [Client -> Pc] /\ cur \in [Client -> Task \cup {NoTask}]
  BY QueueStepFacts
<1> PICK y \in TaskId : y = cur[c].id
  BY QueueStepFacts DEF EnqueuePush, HandlesTask
<1> PICK k \in ListKey : k = queueKeys(cur[c].priority)
  BY KeyOfPriority
<1> PICK o \in Outcome :
        /\ Command(c, o)
        /\ lists' = [lists EXCEPT ![k] = RPushed(@, y, o)]
        /\ Goto(c, IF Answered(o) THEN "count" ELSE "unset")
  BY DEF EnqueuePush
<1>1. pc[c] = "push" /\ Held(c) = y /\ lists \in Lists /\ o # "twice"
  BY <1>0, QueueStepFacts, OutcomeKinds DEF EnqueuePush, HandlesTask, TypeOK, QueueTypeOK, Lists
<1>2. taskData' = taskData /\ dlq' = dlq /\ attempts' = attempts /\ store' = store
  BY DEF EnqueuePush, QueueStep
<1>3. Held(c)' = NoId
  BY <1>0 DEF Goto, Held, HandlesTask
<1>4. \A x : Untouched(x)
  BY <1>2 DEF Untouched
<1>5. CASE o = "error"
  <2>1. lists' = lists
    BY <1>1, <1>5 DEF RPushed, Executed, Lists
  <2>2. \A x : Listed(x)' => Listed(x)
    BY <2>1 DEF Listed
  <2> QED
    BY <1>0, <1>3, <1>4, <2>2, Leaves
<1>6. CASE o # "error"
  <2>1. lists' = PushedLast(lists, k, y)
    BY <1>1, <1>6 DEF RPushed, Executed, PushedLast
  <2>2. In(lists', y) /\ \A x : In(lists', x) => In(lists, x) \/ x = y
    BY ONLY <1>1, <2>1, k \in ListKey, y \in TaskId, InAfterPush, Zenon
  <2>3. Listed(y)' /\ \A x : x # y => (Listed(x)' => Listed(x))
    BY <2>2 DEF In, Listed
  <2>4. ASSUME NEW x \in TaskId, x # y PROVE Account(x)'
    BY <1>0, <1>3, <1>4, <2>3, <2>4, Elsewhere, TaskAssumption
  <2>5. HandFits(c, y) /\ ~Decided(y) /\ ~InDLQ(y)
    BY <1>0, <1>1, InHand DEF Settling, Buried
  <2>6. DataFits(y)' /\ ~Decided(y)' /\ ~InDLQ(y)'
    BY <1>1, <1>2, <2>5 DEF HandFits, DataFits, Left, Decided, Recorded, InDLQ
  <2>7. Bounded(y)' /\ BuriedOnce(y)'
    BY <1>2 DEF BudgetInv, Account, Bounded, BuriedOnce
  <2>8. Account(y)'
    BY <2>3, <2>6, <2>7, GoesToList
  <2> QED
    BY <2>4, <2>8 DEF BudgetInv
<1> QED
  BY <1>5, <1>6

LEMMA EnqueueEndBudget ==
    ASSUME BudgetInv, IInv', NEW c \in Worker \cup Producer, EnqueueUnset(c) \/ EnqueueCount(c),
           QueueStep(c)
    PROVE  BudgetInv'
<1>0. /\ c \in Client /\ TypeOK /\ OthersKeep(c) /\ Onward
      /\ pc \in [Client -> Pc]
  BY QueueStepFacts
<1>1. Held(c)' = NoId
  BY <1>0 DEF EnqueueUnset, EnqueueCount, Held, HandlesTask, Return
<1>2. /\ \A x \in TaskId : taskData'[x] \in {taskData[x], NoTask}
      /\ dlq' = dlq /\ attempts' = attempts /\ store' = store /\ lists' = lists
  BY <1>0 DEF EnqueueUnset, EnqueueCount, QueueStep, TypeOK, QueueTypeOK
<1>3. \A x \in TaskId : Untouched(x) /\ (Listed(x)' => Listed(x))
  BY <1>2 DEF Untouched, Listed
<1> QED
  BY <1>0, <1>1, <1>3, Leaves

LEMMA SettleBudget ==
    ASSUME BudgetInv, IInv', NEW w \in Worker, NEW k, Settle(w, k), QueueStep(w)
    PROVE  BudgetInv'
<1>0. w \in Client /\ TypeOK /\ OthersKeep(w) /\ Onward /\ pc \in [Client -> Pc]
  BY QueueStepFacts
<1>1. Held(w)' = NoId
  BY <1>0 DEF Settle, Held, HandlesTask, Return
<1>2. /\ \A x \in TaskId : taskData'[x] \in {taskData[x], NoTask}
      /\ dlq' = dlq /\ attempts' = attempts /\ store' = store /\ lists' = lists
  BY <1>0 DEF Settle, QueueStep, TypeOK, QueueTypeOK
<1>3. \A x \in TaskId : Untouched(x) /\ (Listed(x)' => Listed(x))
  BY <1>2 DEF Untouched, Listed
<1> QED
  BY <1>0, <1>1, <1>3, Leaves

LEMMA DequeueLPopBudget ==
    ASSUME BudgetInv, IInv', NoRepeats, NEW w \in Worker, DequeueLPop(w), QueueStep(w)
    PROVE  BudgetInv'
<1>0. /\ w \in Client /\ TypeOK /\ TypeOK' /\ OthersKeep(w) /\ Onward
      /\ pc \in [Client -> Pc] /\ got \in [Worker -> TaskId \cup {NoId}]
  BY QueueStepFacts
<1> PICK k \in ListKey : k = scan[w]
  BY <1>0, PriorityKeys DEF TypeOK, CallTypeOK
<1> PICK o \in Outcome :
        /\ Command(w, o)
        /\ lists' = [lists EXCEPT ![k] = Popped(lists[k], o)]
        /\ \/ ~Answered(o) /\ Return(w)
           \/ PopReply(lists[k], o) = NoId /\ NextPriority(w)
           \/ /\ Answered(o) /\ PopReply(lists[k], o) # NoId
              /\ Goto(w, "get")
              /\ got' = [got EXCEPT ![w] = PopReply(lists[k], o)]
  BY DEF DequeueLPop
<1>1. o # "twice" /\ lists \in Lists /\ lists[k] \in Seq(TaskId)
  BY <1>0, OutcomeKinds DEF TypeOK, QueueTypeOK, Lists
<1>2. taskData' = taskData /\ dlq' = dlq /\ attempts' = attempts /\ store' = store
  BY DEF DequeueLPop, QueueStep
<1>3. \A x : Untouched(x)
  BY <1>2 DEF Untouched
<1>4. \A x : Listed(x)' => Listed(x)
  <2>1. CASE o = "error" \/ lists[k] = <<>>
    <3>1. lists' = lists
      BY <1>1, <2>1 DEF Popped, Executed, DropFirst, Lists
    <3> QED
      BY <3>1 DEF Listed
  <2>2. CASE o # "error" /\ lists[k] # <<>>
    <3>1. lists' = Advanced(lists, k)
      BY <1>1, <2>2 DEF Popped, Executed, DropFirst, Advanced
    <3>2. \A x : In(lists', x) => In(lists, x)
      BY ONLY <1>1, <2>2, <3>1, k \in ListKey, InAfterPop, Zenon
    <3> QED
      BY <3>2 DEF In, Listed
  <2> QED
    BY <2>1, <2>2
<1>5. CASE Return(w) \/ NextPriority(w)
  <2>1. Held(w)' = NoId
    BY <1>0, <1>5 DEF Return, NextPriority, Goto, Held, HandlesTask
  <2> QED
    BY <1>0, <1>3, <1>4, <2>1, Leaves
<1>6. CASE /\ Answered(o) /\ PopReply(lists[k], o) # NoId
           /\ Goto(w, "get")
           /\ got' = [got EXCEPT ![w] = PopReply(lists[k], o)]
  <2>1. lists[k] # <<>> /\ PopReply(lists[k], o) = Head(lists[k])
    BY <1>1, <1>6 DEF PopReply
  <2> PICK y \in TaskId : y = Head(lists[k])
    BY <1>1, <2>1
  <2>2. pc'[w] = "get" /\ Held(w)' = y
    BY <1>0, <1>6, <2>1 DEF Goto, Held
  <2>3. In(lists, y)
    BY ONLY <1>1, <2>1, k \in ListKey, y = Head(lists[k]), InAfterPop, Zenon
  <2>4. Listed(y)
    BY <2>3 DEF In, Listed
  <2>5. DataFits(y) /\ Bounded(y) /\ BuriedOnce(y) /\ ~InDLQ(y) /\ ~Decided(y)
    BY <2>4 DEF BudgetInv, Account, Gone
  <2>6. DataFits(y)' /\ Bounded(y)' /\ BuriedOnce(y)' /\ ~InDLQ(y)' /\ ~Decided(y)'
    BY <1>2, <2>5 DEF DataFits, Left, Bounded, BuriedOnce, InDLQ, Decided, Recorded
  <2>7. HandFits(w, y)'
    BY <2>2, <2>6 DEF HandFits
  <2>8. Account(y)'
    BY <1>0, <2>2, <2>6, <2>7, StaysInHand
  <2>9. ASSUME NEW x \in TaskId, x # y PROVE Account(x)'
    BY <1>0, <1>3, <1>4, <2>2, <2>9, Elsewhere
  <2> QED
    BY <2>8, <2>9 DEF BudgetInv
<1> QED
  BY <1>5, <1>6

LEMMA DequeueGetBudget ==
    ASSUME BudgetInv, IInv', NEW w \in Worker, DequeueGet(w), QueueStep(w)
    PROVE  BudgetInv'
<1>0. /\ w \in Client /\ TypeOK /\ OthersKeep(w) /\ Onward
      /\ pc \in [Client -> Pc] /\ cur \in [Client -> Task \cup {NoTask}]
      /\ got \in [Worker -> TaskId \cup {NoId}]
  BY QueueStepFacts
<1> PICK y \in TaskId : y = got[w]
  BY <1>0 DEF DequeueGet, TypeOK, FrameOK
<1>1. pc[w] = "get" /\ Held(w) = y
  BY DEF DequeueGet, Held
<1>2. taskData' = taskData /\ dlq' = dlq /\ lists' = lists /\ attempts' = attempts /\ store' = store
  BY DEF DequeueGet, QueueStep
<1>3. \A x : Untouched(x) /\ (Listed(x)' => Listed(x))
  BY <1>2 DEF Untouched, Listed
<1>4. \/ pc'[w] = "requeue" /\ got' = got
      \/ NextPriority(w)
      \/ /\ taskData[y] # NoTask /\ cur'[w] = taskData[y] /\ pc'[w] = "start"
  BY <1>0 DEF DequeueGet, Goto
<1>5. HandFits(w, y) /\ ~Decided(y) /\ ~InDLQ(y) /\ Bounded(y)
  BY <1>0, <1>1, InHand DEF Settling, Buried, BudgetInv, Account
<1>6. DataFits(y)' /\ Bounded(y)' /\ ~Decided(y)'
  BY <1>1, <1>2, <1>5 DEF HandFits, DataFits, Left, Bounded, Decided, Recorded
<1>7. CASE pc'[w] = "requeue" /\ got' = got
  <2>1. Held(w)' = y /\ HandFits(w, y)'
    BY <1>6, <1>7 DEF Held, HandFits
  <2> QED
    BY <1>0, <1>2, <1>3, <1>5, <1>6, <2>1, Proceeds
<1>8. CASE NextPriority(w)
  <2>1. Held(w)' = NoId
    BY <1>0, <1>8 DEF Return, NextPriority, Goto, Held, HandlesTask
  <2> QED
    BY <1>0, <1>3, <2>1, Leaves
<1>9. CASE taskData[y] # NoTask /\ cur'[w] = taskData[y] /\ pc'[w] = "start"
  <2>1. Held(w)' = y
    BY <1>9 DEF BudgetInv, IInv, DataKeyed, Held, HandlesTask
  <2>2. HandFits(w, y)'
    BY <1>2, <1>6, <1>9 DEF HandFits, DataFits
  <2> QED
    BY <1>0, <1>2, <1>3, <1>5, <1>6, <2>1, <2>2, Proceeds
<1> QED
  BY <1>4, <1>7, <1>8, <1>9

LEMMA DequeueRequeueBudget ==
    ASSUME BudgetInv, IInv', NoRepeats, NEW w \in Worker, DequeueRequeue(w), QueueStep(w)
    PROVE  BudgetInv'
<1>0. /\ w \in Client /\ TypeOK /\ TypeOK' /\ OthersKeep(w) /\ Onward
      /\ pc \in [Client -> Pc] /\ got \in [Worker -> TaskId \cup {NoId}]
  BY QueueStepFacts
<1> PICK y \in TaskId : y = got[w]
  BY <1>0 DEF DequeueRequeue, TypeOK, FrameOK
<1> PICK k \in ListKey : k = scan[w]
  BY <1>0, PriorityKeys DEF TypeOK, CallTypeOK
<1> PICK o \in Outcome :
        /\ Command(w, o)
        /\ lists' = [lists EXCEPT ![k] = LPushed(@, y, o)]
  BY DEF DequeueRequeue
<1>1. pc[w] = "requeue" /\ Held(w) = y /\ lists \in Lists /\ o # "twice"
  BY <1>0, OutcomeKinds DEF DequeueRequeue, Held, TypeOK, QueueTypeOK, Lists
<1>2. taskData' = taskData /\ dlq' = dlq /\ attempts' = attempts /\ store' = store
  BY DEF DequeueRequeue, QueueStep
<1>3. Held(w)' = NoId
  BY <1>0 DEF DequeueRequeue, Return, Held, HandlesTask
<1>4. \A x : Untouched(x)
  BY <1>2 DEF Untouched
<1>5. CASE o = "error"
  <2>1. lists' = lists
    BY <1>1, <1>5 DEF LPushed, Executed, Lists
  <2>2. \A x : Listed(x)' => Listed(x)
    BY <2>1 DEF Listed
  <2> QED
    BY <1>0, <1>3, <1>4, <2>2, Leaves
<1>6. CASE o # "error"
  <2>1. lists' = PushedFirst(lists, k, y)
    BY <1>1, <1>6 DEF LPushed, Executed, PushedFirst
  <2>2. In(lists', y) /\ \A x : In(lists', x) => In(lists, x) \/ x = y
    BY ONLY <1>1, <2>1, k \in ListKey, y \in TaskId, InAfterPush, Zenon
  <2>3. Listed(y)' /\ \A x : x # y => (Listed(x)' => Listed(x))
    BY <2>2 DEF In, Listed
  <2>4. ASSUME NEW x \in TaskId, x # y PROVE Account(x)'
    BY <1>0, <1>3, <1>4, <2>3, <2>4, Elsewhere, TaskAssumption
  <2>5. HandFits(w, y) /\ ~Decided(y) /\ ~InDLQ(y)
    BY <1>0, <1>1, InHand DEF Settling, Buried
  <2>6. DataFits(y)' /\ ~Decided(y)' /\ ~InDLQ(y)'
    BY <1>1, <1>2, <2>5 DEF HandFits, DataFits, Left, Decided, Recorded, InDLQ
  <2>7. Bounded(y)' /\ BuriedOnce(y)'
    BY <1>2 DEF BudgetInv, Account, Bounded, BuriedOnce
  <2>8. Account(y)'
    BY <2>3, <2>6, <2>7, GoesToList
  <2> QED
    BY <2>4, <2>8 DEF BudgetInv
<1> QED
  BY <1>5, <1>6

LEMMA EnqueueDLQBudget ==
    ASSUME BudgetInv, IInv', NoRepeats, NEW w \in Worker, EnqueueDLQ(w), QueueStep(w)
    PROVE  BudgetInv'
<1>0. /\ w \in Client /\ TypeOK /\ TypeOK' /\ OthersKeep(w) /\ Onward
      /\ pc \in [Client -> Pc] /\ cur \in [Client -> Task \cup {NoTask}]
  BY QueueStepFacts
<1> PICK y \in TaskId : y = cur[w].id
  BY QueueStepFacts DEF EnqueueDLQ, HandlesTask
<1> PICK u \in Task : u = [cur[w] EXCEPT !.state = "dead_letter"] /\ u.id = y
  BY <1>0, QueueStepFacts, TaskMethods DEF EnqueueDLQ, HandlesTask, Task
<1> PICK o \in Outcome : Command(w, o) /\ dlq' = RPushed(dlq, u, o)
  BY DEF EnqueueDLQ
<1>1. pc[w] = "dlq" /\ Held(w) = y /\ o # "twice" /\ dlq \in Seq(Task)
  BY <1>0, QueueStepFacts, OutcomeKinds DEF EnqueueDLQ, HandlesTask, TypeOK, QueueTypeOK
<1>2. lists' = lists /\ taskData' = taskData /\ attempts' = attempts /\ store' = store /\ cur' = cur
  BY DEF EnqueueDLQ, QueueStep
<1>3. pc'[w] \in Buried /\ Held(w)' = y
  BY <1>0, <1>2 DEF EnqueueDLQ, Goto, Buried, Held, HandlesTask
<1>4. dlq' = dlq \/ dlq' = Append(dlq, u)
  BY <1>1 DEF RPushed
<1>5. \A i \in DOMAIN dlq' : dlq'[i] = u \/ (i \in DOMAIN dlq /\ dlq'[i] = dlq[i])
  BY <1>1, <1>4
<1>6. ASSUME NEW x \in TaskId, x # y PROVE Account(x)'
  <2>1. Untouched(x)
    BY <1>2, <1>5, <1>6 DEF Untouched
  <2>2. Listed(x)' => Listed(x)
    BY <1>2 DEF Listed
  <2> QED
    BY <1>0, <1>3, <1>6, <2>1, <2>2, Elsewhere
<1>7. Account(y)'
  <2>1. HandFits(w, y) /\ ~InDLQ(y) /\ Bounded(y)
    BY <1>0, <1>1, InHand DEF Buried, BudgetInv, Account
  <2>2. Left(y, 0)' /\ Bounded(y)'
    BY <1>1, <1>2, <2>1 DEF HandFits, Left, Bounded
  <2>3. BuriedOnce(y)'
    <3>1. CASE dlq' = dlq
      BY <2>1, <3>1 DEF BuriedOnce, InDLQ
    <3>2. CASE dlq' = Append(dlq, u)
      <4>1. \A i \in DOMAIN dlq' : i = Len(dlq) + 1 \/ (i \in DOMAIN dlq /\ dlq'[i] = dlq[i])
        BY <1>1, <3>2
      <4>2. \A i \in DOMAIN dlq' : dlq'[i].id = y => i = Len(dlq) + 1
        BY <2>1, <4>1 DEF InDLQ
      <4> QED
        BY <4>2 DEF BuriedOnce
    <3> QED
      BY <1>4, <3>1, <3>2
  <2>4. HandFits(w, y)' /\ pc'[w] \in Settling
    BY <1>3 DEF HandFits, Buried, Settling
  <2> QED
    BY <1>0, <1>3, <2>2, <2>3, <2>4, StaysInHand
<1> QED
  BY <1>6, <1>7 DEF BudgetInv

LEMMA EnqueueDLQMetaBudget ==
    ASSUME BudgetInv, IInv', NEW w \in Worker, EnqueueDLQMeta(w), QueueStep(w)
    PROVE  BudgetInv'
<1>0. /\ w \in Client /\ TypeOK /\ OthersKeep(w) /\ Onward
      /\ pc \in [Client -> Pc] /\ cur \in [Client -> Task \cup {NoTask}]
  BY QueueStepFacts
<1> PICK y \in TaskId : y = cur[w].id
  BY QueueStepFacts DEF EnqueueDLQMeta, HandlesTask
<1>1. pc[w] = "dlqMeta" /\ pc'[w] = "nack" /\ Held(w) = y
  BY <1>0, QueueStepFacts DEF EnqueueDLQMeta, Goto, HandlesTask
<1>2. /\ lists' = lists /\ taskData' = taskData /\ dlq' = dlq /\ cur' = cur
      /\ attempts' = attempts /\ store' = store
  BY DEF EnqueueDLQMeta, QueueStep
<1>3. Held(w)' = y /\ HandFits(w, y)' /\ pc'[w] \in Buried /\ pc'[w] \in Settling
  BY <1>1, <1>2 DEF Held, HandlesTask, HandFits, Buried, Settling
<1>4. Bounded(y)' /\ (InDLQ(y) => Left(y, 0)')
  BY <1>2 DEF BudgetInv, Account, Bounded, Left
<1>5. \A x : Untouched(x)
  BY <1>2 DEF Untouched
<1> QED
  BY <1>0, <1>2, <1>3, <1>4, <1>5, Proceeds

-----------------------------------------------------------------------------
(* The steps of a worker between two queue calls.                          *)

(* The attempts that are left, through the methods of a task.              *)
LEMMA AttemptsLeft ==
    ASSUME NEW t \in Task
    PROVE  /\ Attempts(t) \in Nat /\ Attempts(t) >= 1
           /\ Attempts(MarkStarted(t)) = Attempts(t)
           /\ ShouldRetry(t) => Attempts(MarkFailed(t)) = Attempts(t) - 1
           /\ ~ShouldRetry(t) => Attempts(t) = 1
           /\ MarkFailed(t).state = IF ShouldRetry(t) THEN "retrying" ELSE "dead_letter"
<1>1. /\ t.retryCount \in Int /\ t.maxRetries \in Int
      /\ MarkFailed(t).retryCount = t.retryCount + 1 /\ MarkFailed(t).maxRetries = t.maxRetries
      /\ MarkStarted(t).retryCount = t.retryCount /\ MarkStarted(t).maxRetries = t.maxRetries
      /\ MarkFailed(t).state = IF ShouldRetry(t) THEN "retrying" ELSE "dead_letter"
  BY DEF Task, MarkFailed, MarkStarted
<1> QED
  BY <1>1 DEF Attempts, ShouldRetry

(* What is recorded by SaveTask.                                           *)
LEMMA SavedTask ==
    ASSUME TypeOK, NEW w, NEW t \in Task, SaveTask(w, t)
    PROVE  \/ store' = store
           \/ store' = [store EXCEPT ![t.id] = t] /\ store'[t.id] = t
<1>1. store \in [TaskId -> Task \cup {NoTask}] /\ t.id \in TaskId
  BY TaskMethods DEF TypeOK, RecordTypeOK
<1> QED
  BY <1>1 DEF SaveTask

LEMMA StartBudget ==
    ASSUME BudgetInv, IInv', NEW w \in Worker, Start(w), OthersKeep(w), sent' = sent
    PROVE  BudgetInv'
<1>0. /\ w \in Client /\ TypeOK /\ TypeOK'
      /\ pc \in [Client -> Pc] /\ cur \in [Client -> Task \cup {NoTask}]
      /\ attempts \in [TaskId -> Nat] /\ store \in [TaskId -> Task \cup {NoTask}]
  BY DEF Client, BudgetInv, IInv, TypeOK, CallTypeOK, RecordTypeOK
<1>1. Onward
  BY <1>0 DEF Onward, TypeOK, RecordTypeOK
<1> PICK t \in Task : t = cur[w]
  BY <1>0 DEF Start, TypeOK, FrameOK, HandlesTask
<1> PICK y \in TaskId : y = t.id
  BY TaskMethods
<1>2. /\ pc[w] = "start" /\ pc'[w] = "exec" /\ cur'[w] = MarkStarted(t)
      /\ MarkStarted(t) \in Task /\ MarkStarted(t).id = y
  BY <1>0, TaskMethods DEF Start, Goto
<1>3. Held(w) = y /\ Held(w)' = y
  BY <1>2 DEF Held, HandlesTask
<1>4. lists' = lists /\ taskData' = taskData /\ dlq' = dlq
  BY DEF Start, QueueUntouched, redisVars
<1>5. attempts' = [attempts EXCEPT ![y] = @ + 1]
  BY DEF Start
<1>6. store' = store \/ (store' = [store EXCEPT ![y] = MarkStarted(t)] /\ store'[y] = MarkStarted(t))
  BY <1>0, <1>2, SavedTask DEF Start
<1>7. \A x \in TaskId : x # y => Untouched(x)
  BY <1>0, <1>4, <1>5, <1>6 DEF Untouched
<1>8. HandFits(w, y) /\ ~Decided(y) /\ ~InDLQ(y)
  BY <1>0, <1>2, <1>3, InHand DEF Settling, Buried
<1>9. \A n \in Submitted : n.id = y => attempts[y] + Attempts(t) = Attempts(n)
  BY <1>2, <1>8 DEF HandFits, Left
<1>10. attempts'[y] = attempts[y] + 1 /\ attempts[y] \in Nat
  BY <1>0, <1>5
<1>11. Bounded(y)'
  BY <1>9, <1>10, AttemptsLeft DEF Bounded
<1>12. HandFits(w, y)'
  <2>1. Left(y, Attempts(cur[w]) - 1)'
    BY <1>2, <1>9, <1>10, AttemptsLeft DEF Left
  <2> QED
    BY <1>2, <2>1 DEF HandFits
<1>13. ~Decided(y)'
  <2>1. MarkStarted(t).state = "processing"
    BY DEF MarkStarted, Task
  <2> QED
    BY <1>6, <1>8, <2>1 DEF Decided, Recorded
<1> QED
  BY <1>0, <1>1, <1>3, <1>4, <1>7, <1>8, <1>11, <1>12, <1>13, Proceeds

(* A step of worker w after Dequeue that keeps the task t in its hands and *)
(* starts no attempt.                                                      *)
LEMMA GoesOn ==
    ASSUME BudgetInv, IInv', NEW w \in Worker, OthersKeep(w), sent' = sent,
           NEW t \in Task, t = cur[w], NEW y \in TaskId, y = t.id, cur'[w].id = y,
           pc[w] \in HandlesTask \ Settling, pc'[w] \in HandlesTask,
           lists' = lists, taskData' = taskData, dlq' = dlq, attempts' = attempts,
           \A x \in TaskId : x # y => store'[x] = store[x],
           HandFits(w, y) => HandFits(w, y)',
           ~Decided(y) => (Decided(y)' => pc'[w] \in Settling)
    PROVE  BudgetInv'
<1>0. w \in Client /\ TypeOK /\ Onward
  BY DEF Client, BudgetInv, IInv, Onward, TypeOK, RecordTypeOK
<1>1. Held(w) = y /\ Held(w)' = y
  BY DEF Held, HandlesTask
<1>2. HandFits(w, y) /\ ~Decided(y) /\ ~InDLQ(y)
  BY <1>0, <1>1, InHand DEF Settling, Buried
<1>3. Bounded(y)'
  BY DEF BudgetInv, Account, Bounded
<1>4. \A x \in TaskId : x # y => Untouched(x)
  BY DEF Untouched
<1>5. HandFits(w, y)' /\ (Decided(y)' => pc'[w] \in Settling)
  BY <1>2
<1> QED
  BY <1>0, <1>1, <1>2, <1>3, <1>4, <1>5, Proceeds

(* The facts about w that the steps after Dequeue have in common.          *)
LEMMA AtTask ==
    ASSUME BudgetInv, NEW w \in Worker, pc[w] \in HandlesTask
    PROVE  /\ w \in Client /\ TypeOK /\ cur[w] \in Task /\ cur[w].id \in TaskId
           /\ pc \in [Client -> Pc] /\ cur \in [Client -> Task \cup {NoTask}]
           /\ store \in [TaskId -> Task \cup {NoTask}] /\ attempts \in [TaskId -> Nat]
BY TaskMethods DEF Client, BudgetInv, IInv, TypeOK, CallTypeOK, RecordTypeOK, FrameOK

LEMMA ExecuteBudget ==
    ASSUME BudgetInv, IInv', NEW w \in Worker, ExecuteSuccess(w) \/ ExecuteFailure(w),
           OthersKeep(w), sent' = sent
    PROVE  BudgetInv'
<1>1. pc[w] = "exec"
  BY DEF ExecuteSuccess, ExecuteFailure
<1>2. /\ w \in Client /\ cur[w] \in Task /\ cur[w].id \in TaskId
      /\ pc \in [Client -> Pc] /\ cur \in [Client -> Task \cup {NoTask}]
  BY <1>1, AtTask DEF HandlesTask
<1> PICK t \in Task : t = cur[w]
  BY <1>2
<1> PICK y \in TaskId : y = t.id
  BY <1>2
<1>3. /\ lists' = lists /\ taskData' = taskData /\ dlq' = dlq
      /\ attempts' = attempts /\ store' = store
  BY DEF ExecuteSuccess, ExecuteFailure, QueueUntouched, redisVars
<1>4. \/ pc'[w] = "completed" /\ cur'[w] = MarkCompleted(t)
      \/ pc'[w] = "failed" /\ cur'[w] = t
  BY <1>2 DEF ExecuteSuccess, ExecuteFailure, Goto
<1>5. cur'[w].id = y
  BY <1>4, TaskMethods
<1>6. HandFits(w, y) => HandFits(w, y)'
  BY <1>1, <1>3, <1>4 DEF HandFits, Left
<1>7. ~Decided(y)  => ~Decided(y)'
  BY <1>3 DEF Decided, Recorded
<1> QED
  BY <1>1, <1>3, <1>4, <1>5, <1>6, <1>7, GoesOn DEF HandlesTask, Settling

LEMMA SaveCompletedBudget ==
    ASSUME BudgetInv, IInv', NEW w \in Worker, SaveCompleted(w), OthersKeep(w), sent' = sent
    PROVE  BudgetInv'
<1>1. pc[w] = "completed"
  BY DEF SaveCompleted
<1>2. /\ w \in Client /\ TypeOK /\ cur[w] \in Task /\ cur[w].id \in TaskId
      /\ pc \in [Client -> Pc] /\ cur \in [Client -> Task \cup {NoTask}]
      /\ store \in [TaskId -> Task \cup {NoTask}]
  BY <1>1, AtTask DEF HandlesTask
<1> PICK t \in Task : t = cur[w]
  BY <1>2
<1> PICK y \in TaskId : y = t.id
  BY <1>2
<1>3. /\ lists' = lists /\ taskData' = taskData /\ dlq' = dlq /\ attempts' = attempts
  BY DEF SaveCompleted, QueueUntouched, redisVars, workerVars
<1>4. /\ pc'[w] = "ack" /\ cur'[w] = MarkCompleted(t)
      /\ MarkCompleted(t) \in Task /\ MarkCompleted(t).id = y
  BY <1>2, TaskMethods DEF SaveCompleted, Goto
<1>5. store' = store \/ store' = [store EXCEPT ![y] = MarkCompleted(t)]
  BY <1>2, <1>4, SavedTask DEF SaveCompleted
<1>6. HandFits(w, y)'
  BY <1>4 DEF HandFits
<1>7. \A x \in TaskId : x # y => store'[x] = store[x]
  BY <1>2, <1>5
<1>8. pc'[w] \in Settling /\ pc'[w] \in HandlesTask /\ pc[w] \in HandlesTask \ Settling
  BY <1>1, <1>4 DEF Settling, HandlesTask
<1> QED
  BY <1>3, <1>4, <1>6, <1>7, <1>8, GoesOn

LEMMA FailureBudget ==
    ASSUME BudgetInv, IInv', NEW w \in Worker, HandleTaskFailure(w), OthersKeep(w), sent' = sent
    PROVE  BudgetInv'
<1>1. pc[w] = "failed"
  BY DEF HandleTaskFailure
<1>2. /\ w \in Client /\ TypeOK /\ cur[w] \in Task /\ cur[w].id \in TaskId
      /\ pc \in [Client -> Pc] /\ cur \in [Client -> Task \cup {NoTask}]
      /\ store \in [TaskId -> Task \cup {NoTask}] /\ attempts \in [TaskId -> Nat]
  BY <1>1, AtTask DEF HandlesTask
<1> PICK t \in Task : t = cur[w]
  BY <1>2
<1> PICK y \in TaskId : y = t.id
  BY <1>2
<1> PICK f \in Task : f = MarkFailed(t) /\ f.id = y
  BY TaskMethods
<1>3. /\ lists' = lists /\ taskData' = taskData /\ dlq' = dlq /\ attempts' = attempts
  BY DEF HandleTaskFailure, QueueUntouched, redisVars
<1>4. /\ cur'[w] = f
      /\ pc'[w] = IF f.state = "retrying" THEN "backoff" ELSE "dlq"
  BY <1>2 DEF HandleTaskFailure, RetryOrBury, Goto
<1>5. store' = store \/ (store' = [store EXCEPT ![y] = f] /\ store'[y] = f)
  BY <1>2, SavedTask DEF HandleTaskFailure
<1>6. \A x \in TaskId : x # y => store'[x] = store[x]
  BY <1>2, <1>5
<1>7. /\ Attempts(t) \in Nat
      /\ ShouldRetry(t) => f.state = "retrying" /\ Attempts(f) = Attempts(t) - 1
      /\ ~ShouldRetry(t) => f.state = "dead_letter" /\ Attempts(t) = 1
  BY AttemptsLeft
<1>8. ASSUME HandFits(w, y) PROVE HandFits(w, y)'
  <2>1. \A n \in Submitted : n.id = y => attempts[y] + (Attempts(t) - 1) = Attempts(n)
    BY <1>1, <1>8 DEF HandFits, Left
  <2>2. CASE ShouldRetry(t)
    <3>1. pc'[w] = "backoff" /\ Left(y, Attempts(cur[w]))'
      BY <1>3, <1>4, <1>7, <2>1, <2>2 DEF Left
    <3> QED
      BY <3>1 DEF HandFits
  <2>3. CASE ~ShouldRetry(t)
    <3>1. pc'[w] = "dlq" /\ Left(y, 0)'
      BY <1>3, <1>4, <1>7, <2>1, <2>3 DEF Left
    <3> QED
      BY <3>1 DEF HandFits
  <2> QED
    BY <2>2, <2>3
<1>9. ASSUME ~Decided(y), Decided(y)' PROVE pc'[w] \in Settling
  <2>1. f.state # "retrying"
    BY <1>5, <1>9 DEF Decided, Recorded
  <2> QED
    BY <1>4, <2>1 DEF Settling
<1>10. pc'[w] \in HandlesTask /\ pc[w] \in HandlesTask \ Settling
  BY <1>1, <1>4 DEF Settling, HandlesTask
<1> QED
  BY <1>3, <1>4, <1>6, <1>8, <1>9, <1>10, GoesOn

LEMMA RetryBudget ==
    ASSUME BudgetInv, IInv', NEW w \in Worker, Retry(w), OthersKeep(w), sent' = sent
    PROVE  BudgetInv'
<1>1. pc[w] = "backoff"
  BY DEF Retry
<1>2. /\ w \in Client /\ cur[w] \in Task /\ cur[w].id \in TaskId
      /\ pc \in [Client -> Pc] /\ cur \in [Client -> Task \cup {NoTask}]
  BY <1>1, AtTask DEF HandlesTask
<1> PICK t \in Task : t = cur[w]
  BY <1>2
<1> PICK y \in TaskId : y = t.id
  BY <1>2
<1>3. /\ lists' = lists /\ taskData' = taskData /\ dlq' = dlq
      /\ attempts' = attempts /\ store' = store
  BY DEF Retry, EnqueueCall, redisVars, QueueOnly, storeVars, workerVars
<1>4. pc'[w] = "set" /\ cur'[w] = t
  BY <1>2 DEF Retry, EnqueueCall, Goto
<1>5. HandFits(w, y) => HandFits(w, y)'
  BY <1>1, <1>3, <1>4 DEF HandFits, Left
<1>6. ~Decided(y)  => ~Decided(y)'
  BY <1>3 DEF Decided, Recorded
<1> QED
  BY <1>1, <1>3, <1>4, <1>5, <1>6, GoesOn DEF HandlesTask, Settling

(* The poll, the end of the loop and the death of a worker.                *)
LEMMA IdleBudget ==
    ASSUME BudgetInv, IInv', NEW w \in Worker, Poll(w) \/ Exit(w) \/ Crash(w), OthersKeep(w),
           sent' = sent
    PROVE  BudgetInv'
<1>0. w \in Client /\ pc \in [Client -> Pc] /\ TypeOK
  BY DEF Client, BudgetInv, IInv, TypeOK, CallTypeOK
<1>1. Onward
  BY <1>0 DEF Onward, TypeOK, RecordTypeOK
<1>2. Held(w)' = NoId
  BY <1>0 DEF Poll, Exit, Crash, DequeueCall, Goto, Return, Held, HandlesTask
<1>3. /\ lists' = lists /\ taskData' = taskData /\ dlq' = dlq
      /\ attempts' = attempts /\ store' = store
  BY DEF Poll, Exit, Crash, DequeueCall, redisVars, QueueUntouched, QueueOnly, storeVars, workerVars
<1>4. \A x \in TaskId : Untouched(x) /\ (Listed(x)' => Listed(x))
  BY <1>3 DEF Untouched, Listed
<1> QED
  BY <1>0, <1>1, <1>2, <1>4, Leaves

(* The end of SaveTask.                                                    *)
LEMMA IndexBudget ==
    ASSUME BudgetInv, IInv', NEW w \in Worker, EndSaveTask(w), sent' = sent
    PROVE  BudgetInv'
<1>1. /\ UNCHANGED <<lists, taskData, dlq, attempts, store, pc, cur, got>>
  BY DEF EndSaveTask, SaveTaskIndex, QueueUntouched, redisVars, workerVars
<1> SUFFICES ASSUME NEW x \in TaskId PROVE Account(x)'
  BY DEF BudgetInv
<1>2. Account(x) /\ Untouched(x) /\ Listed(x)' = Listed(x) /\ Waiting(x)' = Waiting(x)
  BY <1>1 DEF BudgetInv, Untouched, Listed, Waiting
<1>3. \A d \in Client : Held(d)' = Held(d)
  BY <1>1 DEF Held
<1> QED
  BY <1>1, <1>2, <1>3, Bystander

(* Every step of a worker keeps the invariant.                             *)
LEMMA WorkerBudget ==
    ASSUME BudgetInv, IInv', NoRepeats, NEW w \in Worker, WorkerStep(w)
    PROVE  BudgetInv'
<1>0. OthersKeep(w) /\ sent' = sent /\ w \in Worker \cup Producer
  BY FrameOfWorker DEF WorkerStep, brokerVars, BudgetInv, IInv
<1>1. QueueOnly => QueueStep(w)
  BY <1>0 DEF QueueOnly, QueueStep, storeVars, workerVars
<1>2. CASE Poll(w) \/ Exit(w) \/ Crash(w)
  BY <1>0, <1>2, IdleBudget
<1>3. CASE DequeueStep(w)
  BY <1>1, <1>3, DequeueLPopBudget, DequeueGetBudget, DequeueRequeueBudget DEF DequeueStep
<1>4. CASE Start(w)
  BY <1>0, <1>4, StartBudget
<1>5. CASE ExecuteSuccess(w) \/ ExecuteFailure(w)
  BY <1>0, <1>5, ExecuteBudget
<1>6. CASE SaveCompleted(w)
  BY <1>0, <1>6, SaveCompletedBudget
<1>7. CASE AckTask(w)
  BY <1>1, <1>7, SettleBudget DEF AckTask, Ack
<1>8. CASE HandleTaskFailure(w)
  BY <1>0, <1>8, FailureBudget
<1>9. CASE Retry(w)
  BY <1>0, <1>9, RetryBudget
<1>10. CASE EnqueueStep(w)
  BY <1>0, <1>1, <1>10, EnqueueSetBudget, EnqueuePushBudget, EnqueueEndBudget DEF EnqueueStep
<1>11. CASE MoveToDLQ(w)
  BY <1>1, <1>11, EnqueueDLQBudget, EnqueueDLQMetaBudget, SettleBudget DEF MoveToDLQ, Nack
<1>12. CASE EndSaveTask(w)
  BY <1>0, <1>12, IndexBudget
<1> QED
  BY <1>2, <1>3, <1>4, <1>5, <1>6, <1>7, <1>8, <1>9, <1>10, <1>11, <1>12 DEF WorkerStep, Handle

-----------------------------------------------------------------------------
(* Requests and the purge.                                                 *)

(* With distinct ids a submitted task is known by its id.                  *)
LEMMA KnownById ==
    ASSUME UniqueIds, NEW p \in Producer, NEW i \in DOMAIN Request[p], NEW t \in Submitted,
           t.id = Request[p][i].id
    PROVE  t = Request[p][i]
<1> PICK q \in Producer : t \in Range(Request[q])
  BY DEF Submitted
<1> PICK j \in DOMAIN Request[q] : t = Request[q][j]
  BY DEF Range
<1> QED
  BY DEF UniqueIds

(* The next task of request p.                                             *)
LEMMA NextOfRequest ==
    ASSUME TypeOK, NEW p \in Producer, HandleSubmit(p)
    PROVE  /\ sent[p] + 1 \in DOMAIN Request[p] /\ sent[p] + 1 > sent[p]
           /\ Request[p][sent[p] + 1] \in Task /\ Request[p][sent[p] + 1].id \in TaskId
           /\ Waiting(Request[p][sent[p] + 1].id)
<1>1. Request[p] \in Seq(Task) /\ sent[p] \in Nat /\ sent[p] < Len(Request[p])
  BY RequestAssumption DEF HandleSubmit, TypeOK, RecordTypeOK
<1>2. sent[p] + 1 \in DOMAIN Request[p] /\ sent[p] + 1 > sent[p]
  BY <1>1
<1> QED
  BY <1>2, RequestIds DEF Waiting

LEMMA SubmitBudget ==
    ASSUME BudgetInv, IInv', UniqueIds, NEW p \in Producer, HandleSubmit(p), OthersKeep(p)
    PROVE  BudgetInv'
<1>0. /\ p \in Client /\ TypeOK /\ sent \in [Producer -> Nat]
      /\ pc \in [Client -> Pc] /\ cur \in [Client -> Task \cup {NoTask}]
  BY DEF Client, BudgetInv, IInv, TypeOK, CallTypeOK, RecordTypeOK
<1> PICK i \in DOMAIN Request[p] : i = sent[p] + 1
  BY <1>0, NextOfRequest
<1> PICK t \in Task : t = Request[p][i]
  BY <1>0, NextOfRequest
<1> PICK y \in TaskId : y = t.id
  BY TaskMethods
<1>1. Waiting(y)
  BY <1>0, NextOfRequest
<1>2. /\ lists' = lists /\ taskData' = taskData /\ dlq' = dlq
      /\ attempts' = attempts /\ store' = store
  BY DEF HandleSubmit, EnqueueCall, redisVars, storeVars, workerVars
<1>3. pc'[p] = "set" /\ cur'[p] = t /\ Held(p)' = y
  BY <1>0 DEF HandleSubmit, EnqueueCall, Goto, Held, HandlesTask
<1>4. Onward
  BY <1>0 DEF HandleSubmit, Onward
<1>5. attempts[y] = 0 /\ ~InDLQ(y) /\ ~Decided(y) /\ Bounded(y)
  BY <1>1 DEF BudgetInv, Account, Gone
<1>6. Left(y, Attempts(t))
  BY <1>5, KnownById, AttemptsLeft DEF Left
<1>7. HandFits(p, y)' /\ Bounded(y)' /\ ~Decided(y)'
  BY <1>2, <1>3, <1>5, <1>6 DEF HandFits, Left, Bounded, Decided, Recorded
<1>8. \A x : Untouched(x)
  BY <1>2 DEF Untouched
<1> QED
  BY <1>0, <1>2, <1>3, <1>4, <1>5, <1>7, <1>8, Proceeds

LEMMA RequestBudget ==
    ASSUME BudgetInv, IInv', UniqueIds, NoRepeats, NEW p \in Producer, RequestStep(p)
    PROVE  BudgetInv'
<1>0. OthersKeep(p) /\ p \in Worker \cup Producer /\ p \in Client /\ TypeOK
  BY FrameOfRequest DEF BudgetInv, IInv, Client
<1>1. CASE HandleSubmit(p)
  BY <1>0, <1>1, SubmitBudget
<1>2. CASE SubmitStep(p) \/ SubmitAccepted(p)
  <2>1. QueueStep(p)
    BY <1>0, <1>2 DEF SubmitStep, SubmitAccepted, QueueStep, storeVars, workerVars, brokerVars
  <2> QED
    BY <1>0, <1>2, <2>1, EnqueueSetBudget, EnqueuePushBudget, EnqueueEndBudget
       DEF SubmitStep, SubmitAccepted
<1>3. CASE BrokerCrash(p)
  <2>1. /\ lists' = lists /\ taskData' = taskData /\ dlq' = dlq
        /\ attempts' = attempts /\ store' = store
    BY <1>3 DEF BrokerCrash, redisVars, storeVars
  <2>2. Held(p)' = NoId
    BY <1>0, <1>3 DEF BrokerCrash, Return, Held, HandlesTask, TypeOK, CallTypeOK
  <2>3. Onward
    BY <1>0, <1>3, RequestAssumption DEF BrokerCrash, Onward, TypeOK, RecordTypeOK
  <2>4. \A x \in TaskId : Untouched(x) /\ (Listed(x)' => Listed(x))
    BY <2>1 DEF Untouched, Listed
  <2> QED
    BY <1>0, <2>2, <2>3, <2>4, Leaves
<1> QED
  BY <1>1, <1>2, <1>3 DEF RequestStep, Submit

LEMMA PurgeBudget ==
    ASSUME BudgetInv, IInv', HandlePurge
    PROVE  BudgetInv'
<1> USE ClientAssumption
<1>0. Admin \in Client /\ TypeOK /\ TypeOK' /\ sent' = sent /\ got' = got
  BY DEF BudgetInv, IInv, HandlePurge, brokerVars, Client, PurgeCall, Purge, PurgeList, PurgeKey,
         PurgeScanned, PurgeProcessing
<1>1. /\ pc' = pc \/ \E l : pc' = [pc EXCEPT ![Admin] = l]
      /\ cur' = cur \/ cur' = [cur EXCEPT ![Admin] = NoTask]
  BY DEF HandlePurge, PurgeCall, Purge, PurgeList, PurgeKey, PurgeScanned, PurgeProcessing,
         PurgeReturn, Return, Goto
<1>2. OthersKeep(Admin) /\ Onward
  BY <1>0, <1>1 DEF OthersKeep, Onward, TypeOK, CallTypeOK, RecordTypeOK
<1>3. Held(Admin)' = NoId
  BY <1>0 DEF Held, HandlesTask, TypeOK, CallTypeOK
<1>4. /\ dlq' = dlq /\ attempts' = attempts /\ store' = store
      /\ \A x \in TaskId : taskData'[x] \in {taskData[x], NoTask}
  BY <1>0 DEF HandlePurge, PurgeCall, Purge, PurgeList, PurgeKey, PurgeScanned, PurgeProcessing,
              redisVars, storeVars, workerVars, TypeOK, QueueTypeOK
<1>5. \A k \in ListKey : lists'[k] = lists[k] \/ lists'[k] = <<>>
  <2>1. lists' = lists \/ \E k \in ListKey : lists' = [lists EXCEPT ![k] = <<>>]
    BY <1>0, PriorityKeys DEF HandlePurge, PurgeCall, Purge, PurgeList, PurgeKey, PurgeScanned,
           PurgeProcessing, redisVars, TypeOK, CallTypeOK
  <2> QED
    BY <1>0, <2>1 DEF TypeOK, QueueTypeOK
<1>6. \A x \in TaskId : Untouched(x) /\ (Listed(x)' => Listed(x))
  BY <1>4, <1>5 DEF Untouched, Listed, Range
<1> QED
  BY <1>0, <1>2, <1>3, <1>6, Leaves

LEMMA InitBudget == Init => BudgetInv
<1> SUFFICES ASSUME Init PROVE BudgetInv
  OBVIOUS
<1>1. IInv
  BY InitPlaced
<1>2. \A t \in Submitted : t \in Task
  <2> TAKE t \in Submitted
  <2> PICK p \in Producer : t \in Range(Request[p])
    BY DEF Submitted
  <2> PICK i \in DOMAIN Request[p] : t = Request[p][i]
    BY DEF Range
  <2> QED
    BY RequestIds
<1> SUFFICES ASSUME NEW x \in TaskId PROVE Account(x)
  BY <1>1 DEF BudgetInv
<1>3. attempts[x] = 0 /\ store[x] = NoTask /\ taskData[x] = NoTask /\ dlq = <<>>
  BY DEF Init, QueueInit, StorageInit, WorkerInit
<1>4. ~Listed(x) /\ \A c \in Client : Held(c) # x
  BY TaskAssumption DEF Init, QueueInit, Listed, Held, HandlesTask, Range
<1>5. ~InDLQ(x) /\ ~Decided(x) /\ BuriedOnce(x)
  BY <1>3 DEF InDLQ, Decided, Recorded, BuriedOnce
<1>6. Bounded(x)
  BY <1>2, <1>3, AttemptsLeft DEF Bounded
<1> QED
  BY <1>3, <1>4, <1>5, <1>6 DEF Account

LEMMA NextBudget ==
    ASSUME UniqueIds, NoRepeats, BudgetInv, [Next]_vars
    PROVE  BudgetInv'
<1>0. IInv /\ IInv'
  BY NextPlaced DEF BudgetInv
<1>1. CASE \E w \in Worker : WorkerStep(w)
  BY <1>0, <1>1, WorkerBudget
<1>2. CASE \E p \in Producer : RequestStep(p)
  BY <1>0, <1>2, RequestBudget
<1>3. CASE HandlePurge
  BY <1>0, <1>3, PurgeBudget
<1>4. CASE Cancel \/ (\E c \in Producer \cup {Admin} : Disconnect(c)) \/ UNCHANGED vars
  <2>1. UNCHANGED <<lists, taskData, dlq, pc, cur, got, sent, store, attempts>>
    BY <1>4 DEF Cancel, Disconnect, vars, queueVars, redisVars, storeVars, workerVars, brokerVars
  <2>2. \A x \in TaskId : Untouched(x)
    BY <2>1 DEF Untouched
  <2>3. \A x \in TaskId : (Listed(x)' => Listed(x)) /\ (Waiting(x)' => Waiting(x))
    BY <2>1 DEF Listed, Waiting
  <2>4. \A d \in Client : Held(d)' = Held(d)
    BY <2>1 DEF Held
  <2>5. \A x \in TaskId : Account(x)'
    BY <2>1, <2>2, <2>3, <2>4, Bystander DEF BudgetInv
  <2> QED
    BY <1>0, <2>5 DEF BudgetInv
<1> QED
  BY <1>1, <1>2, <1>3, <1>4 DEF Next

-----------------------------------------------------------------------------
(* The results.                                                            *)

(* A record is written only by the worker that has the task in hand and is *)
(* not past the decision.                                                  *)
LEMMA OnlyHolderRecords ==
    ASSUME BudgetInv, [Next]_vars, NEW x \in TaskId, store'[x] # store[x]
    PROVE  \E w \in Worker : /\ pc[w] \in {"start", "completed", "failed"}
                             /\ cur[w].id = x /\ Held(w) = x
<1>1. PICK w \in Worker : Start(w) \/ SaveCompleted(w) \/ HandleTaskFailure(w)
  BY DEF Next, WorkerStep, RequestStep, Submit, HandlePurge, Disconnect, Cancel, HandleSubmit,
         SubmitStep, SubmitAccepted, BrokerCrash, Poll, Exit, Crash, Handle, DequeueStep,
         ExecuteSuccess, ExecuteFailure, EndSaveTask, SaveTaskIndex, AckTask, Retry, EnqueueStep,
         MoveToDLQ, QueueOnly, vars, storeVars
<1>2. pc[w] \in {"start", "completed", "failed"}
  BY <1>1 DEF Start, SaveCompleted, HandleTaskFailure
<1>3. cur[w] \in Task /\ TypeOK /\ Held(w) = cur[w].id
  BY <1>2, AtTask DEF HandlesTask, Held
<1>4. PICK t \in Task : t.id = cur[w].id /\ SaveTask(w, t)
  BY <1>1, <1>3, TaskMethods DEF Start, SaveCompleted, HandleTaskFailure
<1>5. store' = store \/ store' = [store EXCEPT ![t.id] = t]
  BY <1>3, <1>4, SavedTask
<1>6. t.id = x
  BY <1>3, <1>5 DEF TypeOK, RecordTypeOK
<1> QED
  BY <1>2, <1>3, <1>4, <1>6

LEMMA DecidedStays ==
    ASSUME BudgetInv, [Next]_vars, NEW x \in TaskId, Decided(x)
    PROVE  store'[x] = store[x]
<1> SUFFICES ASSUME store'[x] # store[x] PROVE FALSE
  OBVIOUS
<1> PICK w \in Worker : pc[w] \in {"start", "completed", "failed"} /\ Held(w) = x
  BY OnlyHolderRecords
<1> QED
  BY InHand DEF Settling, Client

(* The inductive invariant of the two theorems on attempts.                *)
LEMMA BudgetHolds ==
    ASSUME UniqueIds, NoRepeats
    PROVE  Spec => []BudgetInv
<1>1. Init => BudgetInv
  BY InitBudget
<1>2. BudgetInv /\ [Next]_vars => BudgetInv'
  BY NextBudget
<1> QED
  BY <1>1, <1>2, PTL DEF Spec

(* No handler is started more often than the task's retries allow, for any *)
(* number of workers, requests, crashes, failed commands, cancellations and*)
(* purges: the count MarkFailed increments is the count the next worker    *)
(* decodes, whichever command of the retry fails in between. The requests  *)
(* have distinct ids and the Redis client does not send a command again.   *)
THEOREM RetriesAreBounded ==
    ASSUME UniqueIds, NoRepeats
    PROVE  Spec => []AttemptsBounded
<1>1. BudgetInv => AttemptsBounded
  BY BudgetGivesBound
<1> QED
  BY <1>1, BudgetHolds, PTL

(* The dead letter queue holds no task that has attempts left, no task     *)
(* twice and no task that is still queued: handleTaskFailure buries a task *)
(* only after its last attempt, and nothing puts its id back into a list.  *)
THEOREM DeadLettersAreSound ==
    ASSUME UniqueIds, NoRepeats
    PROVE  Spec => []DeadLetterSound
<1>1. BudgetInv => DeadLetterSound
  BY BudgetGivesBound
<1> QED
  BY <1>1, BudgetHolds, PTL

(* A task recorded as completed or dead keeps that record: no SaveTask of a*)
(* late, repeated or concurrent execution overwrites it, because an id with*)
(* an outcome is in no list and only with a client that will not start it. *)
THEOREM OutcomesAreFinal ==
    ASSUME UniqueIds, NoRepeats
    PROVE  Spec => OutcomeIsFinal
<1>1. ASSUME BudgetInv, [Next]_vars
      PROVE  [\A id \in TaskId : \A s \in {"completed", "dead_letter"} :
                 Recorded(id, s) => Recorded(id, s)']_vars
  BY <1>1, DecidedStays DEF Decided, Recorded
<1> QED
  BY <1>1, BudgetHolds, PTL DEF Spec, OutcomeIsFinal
=============================================================================
