---------------------------- MODULE RedisStorage ----------------------------
(***************************************************************************)
(* internal/storage/redis_store.go: what is recorded about tasks and their *)
(* results, and how tasks are found by state. Keys expire after days;      *)
(* expiry is not modelled. UpdateTaskState has no caller.                  *)
(***************************************************************************)
EXTENDS RedisQueue, FiniteSets

CONSTANTS QueryLimit   \* the limits GetTasksByState is called with

ASSUME QueryAssumption == QueryLimit \subseteq Nat

VARIABLES
    store,     \* spool:store:task:<id>    id -> the task as last saved, or NoTask
    index,     \* spool:index:state:<s>    state -> ids added to its set
    result,    \* spool:store:result:<id>  id -> the result as last saved
    indexing   \* workers whose SaveTask has stored the task, SADD is still to come

storeVars == <<store, index, result, indexing>>

Result == {"none", "success", "failure"}

StorageInit ==
    /\ store = [id \in TaskId |-> NoTask]
    /\ index = [s \in State |-> {}]
    /\ result = [id \in TaskId |-> "none"]
    /\ indexing = {}

(* SaveTask up to the SET of the task. An empty id is refused; when SET    *)
(* fails the id is not indexed. The worker goes on in either case.         *)
SaveTask(w, t) ==
    /\ w \notin indexing
    /\ \/ t.id = EmptyId /\ UNCHANGED <<faults, store, indexing>>
       \/ /\ t.id # EmptyId
          /\ \E o \in Outcome :
                /\ Command(w, o)
                /\ store' = IF Executed(o) THEN [store EXCEPT ![t.id] = t] ELSE store
                /\ indexing' = IF Answered(o) THEN indexing \cup {w} ELSE indexing

(* A slip in SaveTask: a task that was saved before is not indexed again.  *)
SaveTaskIndex_Once(w) ==
    /\ w \in indexing
    /\ \E done \in SUBSET {"sadd"} :
        /\ Commands(w, {"sadd"}, done)
        /\ index' = IF done = {} \/ (\E s \in State : cur[w].id \in index[s]) THEN index
                    ELSE [index EXCEPT ![cur[w].state] = @ \cup {cur[w].id}]
    /\ indexing' = indexing \ {w}
    /\ UNCHANGED <<store, result>>

(* The rest of SaveTask: SADD of the id to the set of the task's state. The*)
(* id stays in the set of the state it had before.                         *)
SaveTaskIndex(w) ==
    /\ w \in indexing
    /\ \E done \in SUBSET {"sadd"} :
        /\ Commands(w, {"sadd"}, done)
        /\ index' = IF done = {} THEN index
                    ELSE [index EXCEPT ![cur[w].state] = @ \cup {cur[w].id}]
    /\ indexing' = indexing \ {w}
    /\ UNCHANGED <<store, result>>

(* SaveTask has returned.                                                  *)
Saved(w) == w \notin indexing

(* A result that is nil is not saved.                                      *)
SaveResult(c, id, r) ==
    \E done \in SUBSET {"set"} :
        LET all == IF id = EmptyId \/ r = "none" THEN {} ELSE {"set"}
        IN  /\ done \subseteq all
            /\ Commands(c, all, done)
            /\ result' = IF "set" \in done THEN [result EXCEPT ![id] = r] ELSE result

GetTask(id) == store[id]

(* The ids SRANDMEMBER, or without a limit SMEMBERS, may answer with.      *)
Sampled(s, limit) ==
    {ids \in SUBSET index[s] :
        IF limit > 0 /\ limit < Cardinality(index[s])
        THEN Cardinality(ids) = limit ELSE ids = index[s]}

(* What a query by state may return: of the sampled ids those whose task   *)
(* can be read, whatever state the task is in by then.                     *)
GetTasksByState(s, limit) ==
    {{GetTask(id) : id \in {i \in ids : store[i] # NoTask}} : ids \in Sampled(s, limit)}
=============================================================================
