---------------------------- MODULE TaskLifecycle ----------------------------
(***************************************************************************)
(* What the task queue promises of every task: it is taken by one worker at*)
(* a time, is attempted again after a failure until its attempts are used  *)
(* up, and ends either completed or in the dead letter queue. Queues,      *)
(* Redis commands and workers do not appear here.                          *)
(***************************************************************************)
EXTENDS Naturals

CONSTANTS TaskId,   \* the task identifiers in play
          Budget    \* id -> the attempts a task is allowed

VARIABLES status,   \* id -> where the task is in its life
          tries     \* id -> attempts started so far

Status == {"new", "queued", "running", "completed", "dead_letter"}

Init ==
    /\ status = [id \in TaskId |-> "new"]
    /\ tries = [id \in TaskId |-> 0]

Move(id, from, to) ==
    /\ status[id] = from
    /\ status' = [status EXCEPT ![id] = to]

Submit(id) == Move(id, "new", "queued") /\ UNCHANGED tries

Take(id) ==
    /\ Move(id, "queued", "running")
    /\ tries[id] < Budget[id]
    /\ tries' = [tries EXCEPT ![id] = @ + 1]

Complete(id) == Move(id, "running", "completed") /\ UNCHANGED tries

Retry(id) == Move(id, "running", "queued") /\ tries[id] < Budget[id] /\ UNCHANGED tries

Bury(id) == Move(id, "running", "dead_letter") /\ tries[id] = Budget[id] /\ UNCHANGED tries

Next == \E id \in TaskId : Submit(id) \/ Take(id) \/ Complete(id) \/ Retry(id) \/ Bury(id)

Spec == Init /\ [][Next]_<<status, tries>>
=============================================================================
