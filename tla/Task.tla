-------------------------------- MODULE Task --------------------------------
(***************************************************************************)
(* internal/task: the task record and the methods that move it through its *)
(* life cycle. A task is a value here: Go passes *Task, but every copy a   *)
(* goroutine holds was decoded from JSON for it alone, so no two goroutines*)
(* share one. The fields the other packages branch on are kept; payload,   *)
(* type, timeout, timestamps, error text and metadata are not.             *)
(***************************************************************************)
EXTENDS Integers

CONSTANTS TaskId,   \* the task identifiers in play
          NoTask,   \* a nil *Task, or a Redis key that holds no task
          NoId,     \* no task identifier
          EmptyId   \* the identifier "": decoded from a request without one

ASSUME TaskAssumption == NoId \notin TaskId

PriorityLow == 0
PriorityNormal == 1
PriorityHigh == 2
PriorityCritical == 3

Priority == PriorityLow .. PriorityCritical

State == {"pending", "processing", "completed", "failed", "retrying", "dead_letter"}

(* Priority and both counts are decoded from the request's JSON: they are  *)
(* any integers.                                                           *)
Task == [id : TaskId, priority : Int, state : State,
         maxRetries : Int, retryCount : Int]

ASSUME NoTaskAssumption == NoTask \notin Task

(* NewTask followed by WithPriority and WithMaxRetries.                    *)
NewTask(id, priority, maxRetries) ==
    [id |-> id, priority |-> priority, state |-> "pending",
     maxRetries |-> maxRetries, retryCount |-> 0]

ShouldRetry(t) == t.retryCount < t.maxRetries

MarkStarted(t) == [t EXCEPT !.state = "processing"]

MarkCompleted(t) == [t EXCEPT !.state = "completed"]

(* Two slips in MarkFailed: one retry too many, one too few.               *)
MarkFailed_OneMore(t) ==
    [t EXCEPT !.retryCount = @ + 1,
              !.state = IF t.retryCount <= t.maxRetries THEN "retrying" ELSE "dead_letter"]

MarkFailed_OneLess(t) ==
    [t EXCEPT !.retryCount = @ + 1,
              !.state = IF t.retryCount + 1 < t.maxRetries THEN "retrying" ELSE "dead_letter"]

(* The retry decision is taken on the count before it is incremented.      *)
MarkFailed(t) ==
    [t EXCEPT !.retryCount = @ + 1,
              !.state = IF ShouldRetry(t) THEN "retrying" ELSE "dead_letter"]
=============================================================================
