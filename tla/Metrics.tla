------------------------------- MODULE Metrics -------------------------------
(***************************************************************************)
(* internal/monitoring/metrics.go, the part the auto-scaler decides on: the*)
(* counts of workers, since when each is idle, and the measured depth of   *)
(* the queue. Instants are modelled by the time that has passed since them.*)
(***************************************************************************)
EXTENDS Integers, FiniteSets

CONSTANTS WorkerId,            \* names of workers
          ScaleDownIdleTime    \* idle time the scaler compares with, in ticks

ASSUME MetricsAssumption == ScaleDownIdleTime \in Nat

VARIABLES
    activeWorkers, idleWorkers, busyWorkers,   \* the three counters
    idleFor,      \* worker -> time since workerLastIdle[worker], or NotIdle
    queueDepth    \* the depth measured last

metricsVars == <<activeWorkers, idleWorkers, busyWorkers, idleFor, queueDepth>>

NotIdle == -1   \* no entry in workerLastIdle

MetricsInit ==
    /\ activeWorkers = 0 /\ idleWorkers = 0 /\ busyWorkers = 0
    /\ idleFor = [w \in WorkerId |-> NotIdle]
    /\ queueDepth = 0

Registered == {w \in WorkerId : idleFor[w] # NotIdle}

RegisterWorker(w) ==
    /\ activeWorkers' = activeWorkers + 1
    /\ idleWorkers' = idleWorkers + 1
    /\ idleFor' = [idleFor EXCEPT ![w] = 0]
    /\ UNCHANGED <<busyWorkers, queueDepth>>

(* Two slips in UnregisterWorker: the entry is deleted before it is looked *)
(* up, and the entry is not deleted.                                       *)
UnregisterWorker_LooksLate(w) ==
    /\ busyWorkers' = busyWorkers - 1
    /\ activeWorkers' = activeWorkers - 1
    /\ idleFor' = [idleFor EXCEPT ![w] = NotIdle]
    /\ UNCHANGED <<idleWorkers, queueDepth>>

UnregisterWorker_KeepsEntry(w) ==
    /\ idleWorkers' = idleWorkers - 1
    /\ activeWorkers' = activeWorkers - 1
    /\ UNCHANGED <<busyWorkers, idleFor, queueDepth>>

(* A worker without an entry in workerLastIdle is taken for a busy one.    *)
UnregisterWorker(w) ==
    /\ IF idleFor[w] # NotIdle
       THEN idleWorkers' = idleWorkers - 1 /\ UNCHANGED busyWorkers
       ELSE busyWorkers' = busyWorkers - 1 /\ UNCHANGED idleWorkers
    /\ activeWorkers' = activeWorkers - 1
    /\ idleFor' = [idleFor EXCEPT ![w] = NotIdle]
    /\ UNCHANGED queueDepth

(* A slip in MarkWorkerIdle: it does not look whether the worker is idle.  *)
MarkWorkerIdle_Always(w) ==
    /\ idleFor' = [idleFor EXCEPT ![w] = 0]
    /\ busyWorkers' = busyWorkers - 1
    /\ idleWorkers' = idleWorkers + 1
    /\ UNCHANGED <<activeWorkers, queueDepth>>

(* Whoever has no entry in workerLastIdle gets one and moves from the busy *)
(* to the idle count, also a worker that is not registered.                *)
MarkWorkerIdle(w) ==
    /\ IF idleFor[w] = NotIdle
       THEN /\ idleFor' = [idleFor EXCEPT ![w] = 0]
            /\ busyWorkers' = busyWorkers - 1
            /\ idleWorkers' = idleWorkers + 1
       ELSE UNCHANGED <<idleFor, busyWorkers, idleWorkers>>
    /\ UNCHANGED <<activeWorkers, queueDepth>>

(* UpdateQueueDepth when Size answers; when it fails nothing changes.      *)
UpdateQueueDepth(depth) ==
    /\ queueDepth' = depth
    /\ UNCHANGED <<activeWorkers, idleWorkers, busyWorkers, idleFor>>

(* getOldestIdleTime() > limit: some worker has been idle for longer.      *)
OldestIdleExceeds(limit) == \E w \in Registered : idleFor[w] > limit

(* Time passes; beyond the limit the scaler does not tell ages apart.      *)
Older == [w \in WorkerId |->
            IF w \in Registered /\ idleFor[w] <= ScaleDownIdleTime
            THEN idleFor[w] + 1 ELSE idleFor[w]]
=============================================================================
