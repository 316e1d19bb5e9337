------------------------------ MODULE MCSpool ------------------------------
(***************************************************************************)
(* Spool with small requests: who submits what.                            *)
(***************************************************************************)
EXTENDS Spool, TLC

CONSTANTS p1, p2, w1, w2, a, b, c

(* Two requests race: a low task with one retry, a high one with none.     *)
TwoRequests ==
    p1 :> <<NewTask(a, PriorityLow, 1)>> @@ p2 :> <<NewTask(b, PriorityHigh, 0)>>

(* One batch: a high task without retries, then a low one with a retry.    *)
OneBatch == p1 :> <<NewTask(b, PriorityHigh, 0), NewTask(a, PriorityLow, 1)>>

(* A single request for a task with one retry.                             *)
OneTask == p1 :> <<NewTask(a, PriorityNormal, 1)>>

(* Two requests: a high task, and a batch of a high and a low one.         *)
ThreeTasks ==
    p1 :> <<NewTask(b, PriorityHigh, 0)>>
    @@ p2 :> <<NewTask(c, PriorityHigh, 0), NewTask(a, PriorityLow, 0)>>

(* No guard of the specification reads the remaining variables, nor do the *)
(* properties of the runs that use this view.                              *)
WithoutBookkeeping ==
    <<lists, taskData, dlq, faults, ctxDone, fresh, pc, cur, got, scan, purgeVars,
      store, indexing, crashes, attempts, brokerVars>>

WorkerSymmetry == Permutations(Worker)
=============================================================================
