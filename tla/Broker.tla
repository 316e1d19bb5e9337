------------------------------- MODULE Broker -------------------------------
(***************************************************************************)
(* internal/broker/broker.go: the HTTP requests that change the queue. A   *)
(* producer is one request; its body is a sequence of tasks. handleSubmit  *)
(* is the case of one task, handleBatchSubmit goes through all of them and *)
(* skips the ones that cannot be enqueued. Nothing in the body is checked: *)
(* id, priority, state and counters are the client's.                      *)
(***************************************************************************)
EXTENDS Worker

CONSTANTS Request,    \* producer -> the tasks in the body of its request
          MaxPurges   \* bound: how many times the queue is purged

ASSUME RequestAssumption == Request \in [Producer -> Seq(Task)]
ASSUME PurgeAssumption == MaxPurges \in Nat

VARIABLES
    sent,      \* producer -> how many tasks of the request were taken up
    accepted   \* ids reported as enqueued in a response

brokerVars == <<sent, accepted>>

BrokerInit ==
    /\ sent = [p \in Producer |-> 0]
    /\ accepted = {}

(* The handler turns to the next task of the request.                      *)
HandleSubmit(p) ==
    /\ pc[p] = "idle"
    /\ sent[p] < Len(Request[p])
    /\ sent' = [sent EXCEPT ![p] = @ + 1]
    /\ EnqueueCall(p, Request[p][sent[p] + 1])
    /\ UNCHANGED <<storeVars, workerVars, accepted>>

SubmitStep(p) ==
    /\ EnqueueSet(p) \/ EnqueuePush(p) \/ EnqueueUnset(p)
    /\ UNCHANGED <<storeVars, workerVars, brokerVars>>

(* Enqueue returns nil and the id goes into the response.                  *)
SubmitAccepted(p) ==
    /\ EnqueueCount(p)
    /\ accepted' = accepted \cup {cur[p].id}
    /\ UNCHANGED <<storeVars, workerVars, sent>>

(* The client of request c goes away and the request's context with it.    *)
Disconnect(c) ==
    /\ c \in Producer => pc[c] # "idle" \/ sent[c] < Len(Request[c])
    /\ c = Admin => pc[c] # "idle"
    /\ c \notin ctxDone
    /\ ctxDone' = ctxDone \cup {c}
    /\ UNCHANGED <<redisVars, faults, fresh, pc, cur, got, scan, purgeVars, arrived,
                   storeVars, workerVars, brokerVars>>

(* The broker dies while it serves request p.                              *)
BrokerCrash(p) ==
    /\ crashes < MaxCrashes
    /\ pc[p] # "idle"
    /\ crashes' = crashes + 1
    /\ Return(p)
    /\ sent' = [sent EXCEPT ![p] = Len(Request[p])]
    /\ UNCHANGED <<redisVars, faults, ctxDone, got, scan, purgeVars, arrived, storeVars,
                   counters, attempts, accepted>>

HandlePurge ==
    /\ \/ purges < MaxPurges /\ PurgeCall
       \/ Purge
    /\ UNCHANGED <<storeVars, workerVars, brokerVars>>

Submit(p) == HandleSubmit(p) \/ SubmitStep(p) \/ SubmitAccepted(p)
=============================================================================
