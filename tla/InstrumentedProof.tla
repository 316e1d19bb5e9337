-------------------------- MODULE InstrumentedProof --------------------------
(***************************************************************************)
(* The worker counts of the metrics, the tasks they count and the end of   *)
(* Stop, for any number of instrumented workers and tasks.                 *)
(***************************************************************************)
EXTENDS InstrumentedWorker, CountingProof

-----------------------------------------------------------------------------
(* Types, but for the two counts that only GhostsOnly bounds from below.   *)

MetricTypes ==
    /\ activeWorkers \in Int /\ idleWorkers \in Int /\ busyWorkers \in Int
    /\ idleFor \in [WorkerId -> {NotIdle, 0}] /\ queueDepth = 0
    /\ tasksProcessed \in Nat /\ tasksInProgress \in Int
    /\ workerStats \in [WorkerId -> Counts \cup {NoStats}]

WorkerTypes ==
    /\ goroutine \in [WorkerId -> {"off", "idle", "busy", "gone"}]
    /\ running \subseteq WorkerId /\ signalled \subseteq WorkerId /\ cancelled \in BOOLEAN
    /\ processed \in [WorkerId -> Nat] /\ failed \in [WorkerId -> Nat]
    /\ syncStopped \subseteq WorkerId /\ timedOut \subseteq WorkerId
    /\ stop \in [WorkerId -> {"no", "halt", "await", "unregister", "done"}]

LoopTypes ==
    /\ sync \in [WorkerId -> {"off", "wait", "check", "count", "credit", "ended"}]
    /\ seen \in [WorkerId -> Counts] /\ batch \in [WorkerId -> Counts]
    /\ lastProcessed \in [WorkerId -> Nat] /\ lastFailed \in [WorkerId -> Nat]

LEMMA CountsFacts ==
    /\ Zero \in Counts /\ Zero # NoStats /\ NoStats \notin Counts
    /\ \A x \in Counts : [x EXCEPT !["ok"] = @ + 1] \in Counts /\ [x EXCEPT !["bad"] = @ + 1] \in Counts
BY DEF Zero, NoStats, Counts

LEMMA CountUp ==
    ASSUME NEW x \in Counts, NEW o \in {"ok", "bad"} PROVE [x EXCEPT ![o] = @ + 1] \in Counts
BY CountsFacts

LEMMA WorkerTypesStep == ASSUME WorkerTypes, [Next]_vars PROVE WorkerTypes'
<1> USE DEF WorkerTypes
<1>1. CASE UNCHANGED <<runVars, cancelled, countVars, stopVars>>
  BY <1>1 DEF runVars, countVars, stopVars
<1>2. CASE Cancel
  BY <1>2 DEF Cancel, runVars, countVars, stopVars
<1>3. CASE UNCHANGED vars
  BY <1>1, <1>3 DEF vars
<1>4. ASSUME NEW w \in WorkerId, Start(w) \/ TakeTask(w) \/ Leave(w) PROVE WorkerTypes'
  BY <1>4 DEF Start, TakeTask, Leave, countVars, stopVars
<1>5. ASSUME NEW w \in WorkerId, FinishTask(w) PROVE WorkerTypes'
  <2>1. processed[w] + 1 \in Nat /\ failed[w] + 1 \in Nat
    OBVIOUS
  <2>2. processed' \in [WorkerId -> Nat] /\ failed' \in [WorkerId -> Nat]
    BY <1>5, <2>1 DEF FinishTask
  <2> QED
    BY <1>5, <2>2 DEF FinishTask, stopVars
<1>6. ASSUME NEW w \in WorkerId, SyncStep(w) \/ SyncExit(w)
      PROVE  UNCHANGED <<runVars, cancelled, countVars, stopVars>>
  BY <1>6 DEF SyncStep, SyncTick, SyncCheck, Record, RecordTaskCompleted, CreditSuccess,
              CreditFailure, SyncDone, SyncExit, Sync
<1>7. ASSUME NEW w \in WorkerId, StopSync(w) \/ Stopping(w) \/ TimesOut(w) PROVE WorkerTypes'
  BY <1>7 DEF StopSync, Stopping, Halt, Awaited, Unregister, TimesOut, StopStep, countVars
<1> QED
  BY <1>1, <1>2, <1>3, <1>4, <1>5, <1>6, <1>7 DEF Next

LEMMA LoopTypesStep == ASSUME WorkerTypes, LoopTypes, [Next]_vars PROVE LoopTypes'
<1> USE DEF LoopTypes
<1>1. CASE UNCHANGED syncVars
  BY <1>1 DEF syncVars
<1>2. ASSUME NEW w \in WorkerId, Start(w) PROVE LoopTypes'
  BY <1>2 DEF Start
<1>3. ASSUME NEW w \in WorkerId, SyncTick(w) PROVE LoopTypes'
  <2>1. [ok |-> processed[w], bad |-> failed[w]] \in Counts
    BY DEF WorkerTypes, Counts
  <2> QED
    BY <1>3, <2>1 DEF SyncTick, Sync
<1>4. ASSUME NEW w \in WorkerId, SyncCheck(w) PROVE LoopTypes'
  BY <1>4, CountsFacts DEF SyncCheck, Sync, Forget
<1>5. ASSUME NEW w \in WorkerId, RecordTaskCompleted(w) PROVE LoopTypes'
  BY <1>5 DEF RecordTaskCompleted, Sync
<1>6. ASSUME NEW w \in WorkerId, CreditSuccess(w) \/ CreditFailure(w) PROVE LoopTypes'
  <2>1. PICK o \in {"ok", "bad"} : Credit(w, o)
    BY <1>6 DEF CreditSuccess, CreditFailure
  <2>2. batch' = [batch EXCEPT ![w][o] = @ + 1] /\ UNCHANGED <<seen, lastProcessed, lastFailed>>
    BY <2>1 DEF Credit
  <2>3. batch' \in [WorkerId -> Counts]
    <3>1. [batch[w] EXCEPT ![o] = @ + 1] \in Counts
      BY CountUp
    <3> QED
      BY <2>2, <3>1
  <2>4. sync' \in [WorkerId -> {"off", "wait", "check", "count", "credit", "ended"}]
    BY <1>6 DEF CreditSuccess, CreditFailure, Sync
  <2> QED
    BY <2>2, <2>3, <2>4
<1>7. ASSUME NEW w \in WorkerId, SyncDone(w) PROVE LoopTypes'
  <2>1. seen[w].ok \in Nat /\ seen[w].bad \in Nat
    BY DEF Counts
  <2> QED
    BY <1>7, <2>1, CountsFacts DEF SyncDone, Sync, Forget
<1>8. ASSUME NEW w \in WorkerId, SyncExit(w) PROVE LoopTypes'
  BY <1>8 DEF SyncExit, Sync
<1>9. ASSUME NEW w \in WorkerId,
             TakeTask(w) \/ FinishTask(w) \/ Leave(w) \/ StopSync(w) \/ Stopping(w) \/ TimesOut(w)
      PROVE  UNCHANGED syncVars
  BY <1>9 DEF TakeTask, FinishTask, Leave, StopSync, Stopping, Halt, Awaited, Unregister,
              TimesOut, StopStep
<1>10. CASE Cancel \/ UNCHANGED vars
  BY <1>1, <1>10 DEF Cancel, vars
<1> QED
  BY <1>1, <1>2, <1>3, <1>4, <1>5, <1>6, <1>7, <1>8, <1>9, <1>10 DEF Next, SyncStep, Record

LEMMA MetricTypesStep == ASSUME MetricTypes, LoopTypes, [Next]_vars PROVE MetricTypes'
<1> USE DEF MetricTypes
<1>1. CASE UNCHANGED <<metricsVars, taskVars, workerStats>>
  BY <1>1 DEF metricsVars, taskVars
<1>2. ASSUME NEW w \in WorkerId, Start(w) PROVE MetricTypes'
  BY <1>2, CountsFacts DEF Start, RegisterWorker, taskVars
<1>3. ASSUME NEW w \in WorkerId, RecordTaskCompleted(w) PROVE MetricTypes'
  BY <1>3 DEF RecordTaskCompleted, metricsVars
<1>4. ASSUME NEW w \in WorkerId, CreditSuccess(w) \/ CreditFailure(w) PROVE MetricTypes'
  <2>1. PICK o \in {"ok", "bad"} : Credit(w, o)
    BY <1>4 DEF CreditSuccess, CreditFailure
  <2>2. workerStats' \in [WorkerId -> Counts \cup {NoStats}]
    <3>1. CASE w \in Tracked
      <4>1. workerStats' = [workerStats EXCEPT ![w][o] = @ + 1] /\ workerStats[w] \in Counts
        BY <2>1, <3>1 DEF Credit, Tracked
      <4>2. [workerStats[w] EXCEPT ![o] = @ + 1] \in Counts
        BY <4>1, CountUp
      <4> QED
        BY <4>1, <4>2
    <3> QED
      BY <2>1, <3>1 DEF Credit
  <2> QED
    BY <2>1, <2>2 DEF Credit, metricsVars, taskVars
<1>5. ASSUME NEW w \in WorkerId, SyncDone(w) PROVE MetricTypes'
  BY <1>5 DEF SyncDone, MarkWorkerIdle, taskVars
<1>6. ASSUME NEW w \in WorkerId, Unregister(w) PROVE MetricTypes'
  BY <1>6 DEF Unregister, UnregisterWorker, StopStep, taskVars
<1>7. ASSUME NEW w \in WorkerId,
             \/ TakeTask(w) \/ FinishTask(w) \/ Leave(w) \/ SyncTick(w) \/ SyncCheck(w)
             \/ SyncExit(w) \/ StopSync(w) \/ Halt(w) \/ Awaited(w) \/ TimesOut(w)
      PROVE  UNCHANGED <<metricsVars, taskVars, workerStats>>
  BY <1>7 DEF TakeTask, FinishTask, Leave, SyncTick, SyncCheck, SyncExit, StopSync, Halt,
              Awaited, TimesOut, StopStep
<1>8. CASE Cancel \/ UNCHANGED vars
  BY <1>1, <1>8 DEF Cancel, vars
<1> QED
  BY <1>1, <1>2, <1>3, <1>4, <1>5, <1>6, <1>7, <1>8 DEF Next, SyncStep, Record, Stopping

-----------------------------------------------------------------------------
(* The entries behind the counts. A worker has an entry in the metrics from*)
(* Start to Unregister; nothing of it is there before.                     *)

Entries ==
    /\ \A w \in WorkerId : w \in Tracked <=> goroutine[w] # "off" /\ stop[w] # "done"
    /\ \A w \in WorkerId : goroutine[w] = "off" =>
            sync[w] = "off" /\ stop[w] = "no" /\ idleFor[w] = NotIdle
    /\ Tracked \subseteq Registered

(* The counts are those of the entries.                                    *)
Balanced ==
    /\ IsFiniteSet(Tracked) /\ IsFiniteSet(Ghosts)
    /\ activeWorkers = Cardinality(Tracked)
    /\ idleWorkers = Cardinality(Tracked) + Cardinality(Ghosts)
    /\ busyWorkers = -Cardinality(Ghosts)

(* A goroutine that runs is known to the flag until Stop has looked at it. *)
Alive ==
    \A w \in WorkerId : goroutine[w] \in {"idle", "busy"} =>
        w \in running \/ stop[w] \notin {"no", "halt"}

Waited ==
    \A w \in WorkerId : stop[w] \in {"unregister", "done"} =>
        goroutine[w] = "gone" \/ w \in timedOut

LEMMA StopStepShape ==
    ASSUME WorkerTypes, NEW w \in WorkerId, NEW from, NEW to, StopStep(w, from, to)
    PROVE  /\ stop[w] = from /\ stop'[w] = to /\ \A v \in WorkerId \ {w} : stop'[v] = stop[v]
           /\ goroutine' = goroutine /\ sync' = sync
BY DEF WorkerTypes, StopStep, syncVars

LEMMA AliveStep ==
    ASSUME WorkerTypes, Entries, Alive, Waited, [Next]_vars PROVE Alive' /\ Waited'
<1> USE DEF Alive, Waited
<1>1. CASE UNCHANGED <<goroutine, running, stop, timedOut>>
  BY <1>1
<1>2. ASSUME NEW w \in WorkerId, Start(w) PROVE Alive' /\ Waited'
  <2>1. stop[w] = "no"
    BY <1>2 DEF Start, Entries
  <2> QED
    BY <1>2, <2>1 DEF Start, stopVars, WorkerTypes
<1>3. ASSUME NEW w \in WorkerId, TakeTask(w) \/ FinishTask(w) \/ Leave(w) PROVE Alive' /\ Waited'
  BY <1>3 DEF TakeTask, FinishTask, Leave, stopVars, WorkerTypes
<1>4. ASSUME NEW w \in WorkerId, SyncStep(w) \/ SyncExit(w)
      PROVE  UNCHANGED <<goroutine, running, stop, timedOut>>
  BY <1>4 DEF SyncStep, SyncTick, SyncCheck, Record, RecordTaskCompleted, CreditSuccess,
              CreditFailure, SyncDone, SyncExit, Sync, runVars, stopVars
<1>5. ASSUME NEW w \in WorkerId, StopSync(w) PROVE Alive' /\ Waited'
  BY <1>5, StopStepShape DEF StopSync
<1>6. ASSUME NEW w \in WorkerId, Halt(w) PROVE Alive' /\ Waited'
  <2>1. goroutine[w] # "off" /\ stop[w] = "halt" /\ timedOut' = timedOut
    BY <1>6, StopStepShape DEF Halt, Entries
  <2>2. CASE w \in running
    BY <1>6, <2>1, <2>2, StopStepShape DEF Halt
  <2>3. CASE w \notin running
    <3>1. goroutine[w] = "gone"
      BY <2>1, <2>3 DEF WorkerTypes
    <3> QED
      BY <1>6, <2>1, <2>3, <3>1, StopStepShape DEF Halt
  <2> QED
    BY <2>2, <2>3
<1>7. ASSUME NEW w \in WorkerId, Awaited(w) PROVE Alive' /\ Waited'
  BY <1>7, StopStepShape DEF Awaited
<1>8. ASSUME NEW w \in WorkerId, TimesOut(w) PROVE Alive' /\ Waited'
  BY <1>8, StopStepShape DEF TimesOut
<1>9. ASSUME NEW w \in WorkerId, Unregister(w) PROVE Alive' /\ Waited'
  BY <1>9, StopStepShape DEF Unregister
<1>10. CASE Cancel \/ UNCHANGED vars
  BY <1>1, <1>10 DEF Cancel, vars, runVars, stopVars
<1> QED
  BY <1>1, <1>2, <1>3, <1>4, <1>5, <1>6, <1>7, <1>8, <1>9, <1>10 DEF Next, Stopping

(* Steps that neither touch the entries nor start or end a worker.         *)
LEMMA EntriesKept ==
    ASSUME Entries, Balanced, Tracked' = Tracked, UNCHANGED metricsVars,
           \A w \in WorkerId :
              /\ goroutine'[w] = "off" <=> goroutine[w] = "off"
              /\ stop'[w] = "done" <=> stop[w] = "done"
              /\ goroutine[w] = "off" => sync'[w] = sync[w] /\ stop'[w] = stop[w]
    PROVE  Entries' /\ Balanced'
<1>1. Registered' = Registered /\ Ghosts' = Ghosts
  BY DEF Registered, Ghosts, metricsVars
<1>2. Entries'
  BY <1>1 DEF Entries, metricsVars
<1> QED
  BY <1>1, <1>2 DEF Balanced, metricsVars

LEMMA EntriesStep ==
    ASSUME WorkerTypes, LoopTypes, MetricTypes, Entries, Balanced, [Next]_vars
    PROVE  Entries' /\ Balanced'
<1>1. ASSUME NEW w \in WorkerId, Start(w) PROVE Entries' /\ Balanced'
  <2>1. /\ goroutine[w] = "off" /\ sync[w] = "off" /\ stop[w] = "no" /\ stop' = stop
        /\ w \notin Tracked /\ w \notin Registered
    BY <1>1 DEF Start, Entries, stopVars, Registered
  <2>2. /\ activeWorkers' = activeWorkers + 1 /\ idleWorkers' = idleWorkers + 1
        /\ busyWorkers' = busyWorkers
    BY <1>1 DEF Start, RegisterWorker
  <2>3. Tracked' = Tracked \cup {w}
    BY <1>1, CountsFacts DEF Start, Tracked, MetricTypes
  <2>4. Registered' = Registered \cup {w}
    BY <1>1 DEF Start, RegisterWorker, Registered, MetricTypes, NotIdle
  <2>5. Ghosts' = Ghosts
    BY <2>1, <2>3, <2>4 DEF Ghosts
  <2>6. Entries'
    BY <1>1, <2>1, <2>3, <2>4 DEF Entries, Start, RegisterWorker, WorkerTypes, LoopTypes, MetricTypes
  <2>7. IsFiniteSet(Tracked') /\ Cardinality(Tracked') = Cardinality(Tracked) + 1
    BY <2>1, <2>3, FS_AddElement DEF Balanced
  <2>8. Cardinality(Tracked) \in Nat /\ Cardinality(Ghosts) \in Nat
    BY FS_CardinalityType DEF Balanced
  <2> QED
    BY <2>2, <2>5, <2>6, <2>7, <2>8 DEF Balanced
<1>2. ASSUME NEW w \in WorkerId, Unregister(w) PROVE Entries' /\ Balanced'
  <2>1. /\ stop[w] = "unregister" /\ stop'[w] = "done"
        /\ \A v \in WorkerId \ {w} : stop'[v] = stop[v]
        /\ goroutine' = goroutine /\ sync' = sync
    BY <1>2, StopStepShape DEF Unregister
  <2>2. goroutine[w] # "off" /\ w \in Tracked /\ w \in Registered
    BY <2>1 DEF Entries
  <2>3. /\ activeWorkers' = activeWorkers - 1 /\ idleWorkers' = idleWorkers - 1
        /\ busyWorkers' = busyWorkers
    BY <1>2, <2>2 DEF Unregister, UnregisterWorker, Registered
  <2>4. Tracked' = Tracked \ {w}
    BY <1>2 DEF Unregister, Tracked, MetricTypes
  <2>5. Registered' = Registered \ {w}
    BY <1>2 DEF Unregister, UnregisterWorker, Registered, MetricTypes, NotIdle
  <2>6. Ghosts' = Ghosts
    BY <2>2, <2>4, <2>5 DEF Ghosts
  <2>7. Entries'
    <3>1. Tracked' \subseteq Registered'
      BY <2>4, <2>5 DEF Entries
    <3>2. ASSUME NEW v \in WorkerId PROVE v \in Tracked' <=> goroutine'[v] # "off" /\ stop'[v] # "done"
      BY <2>1, <2>2, <2>4 DEF Entries
    <3>3. ASSUME NEW v \in WorkerId, goroutine'[v] = "off"
          PROVE  sync'[v] = "off" /\ stop'[v] = "no" /\ idleFor'[v] = NotIdle
      BY <1>2, <2>1, <2>2, <3>3 DEF Entries, Unregister, UnregisterWorker, MetricTypes
    <3> QED
      BY <3>1, <3>2, <3>3 DEF Entries
  <2>8. IsFiniteSet(Tracked') /\ Cardinality(Tracked') = Cardinality(Tracked) - 1
    BY <2>2, <2>4, FS_RemoveElement DEF Balanced
  <2>9. Cardinality(Tracked) \in Nat /\ Cardinality(Ghosts) \in Nat
    BY FS_CardinalityType DEF Balanced
  <2> QED
    BY <2>3, <2>6, <2>7, <2>8, <2>9 DEF Balanced
<1>3. ASSUME NEW w \in WorkerId, SyncDone(w) PROVE Entries' /\ Balanced'
  <2>1. /\ sync[w] = "count" /\ sync' = [sync EXCEPT ![w] = "wait"]
        /\ UNCHANGED <<goroutine, stop, workerStats, activeWorkers>>
    BY <1>3 DEF SyncDone, Sync, MarkWorkerIdle, runVars, stopVars
  <2>2. goroutine[w] # "off" /\ Tracked' = Tracked
    BY <2>1 DEF Entries, Tracked
  <2>3. CASE idleFor[w] # NotIdle
    <3>1. UNCHANGED metricsVars
      BY <1>3, <2>3 DEF SyncDone, MarkWorkerIdle, metricsVars
    <3> QED
      BY <2>1, <2>2, <3>1, EntriesKept DEF LoopTypes
  <2>4. CASE idleFor[w] = NotIdle
    <3>1. w \notin Registered /\ w \notin Tracked
      BY <2>4 DEF Registered, Entries
    <3>2. /\ idleFor' = [idleFor EXCEPT ![w] = 0]
          /\ busyWorkers' = busyWorkers - 1 /\ idleWorkers' = idleWorkers + 1
      BY <1>3, <2>4 DEF SyncDone, MarkWorkerIdle
    <3>3. Registered' = Registered \cup {w}
      BY <3>2 DEF Registered, MetricTypes, NotIdle
    <3>4. Ghosts' = Ghosts \cup {w} /\ w \notin Ghosts
      BY <2>2, <3>1, <3>3 DEF Ghosts
    <3>5. Entries'
      BY <2>1, <2>2, <3>2, <3>3 DEF Entries, MetricTypes, LoopTypes
    <3>6. IsFiniteSet(Ghosts') /\ Cardinality(Ghosts') = Cardinality(Ghosts) + 1
      BY <3>4, FS_AddElement DEF Balanced
    <3>7. Cardinality(Tracked) \in Nat /\ Cardinality(Ghosts) \in Nat
      BY FS_CardinalityType DEF Balanced
    <3> QED
      BY <2>1, <2>2, <3>2, <3>5, <3>6, <3>7 DEF Balanced
  <2> QED
    BY <2>3, <2>4
<1>4. ASSUME NEW w \in WorkerId, CreditSuccess(w) \/ CreditFailure(w) PROVE Entries' /\ Balanced'
  <2>1. PICK o \in {"ok", "bad"} : Credit(w, o)
    BY <1>4 DEF CreditSuccess, CreditFailure
  <2>2. /\ UNCHANGED metricsVars
        /\ workerStats' = IF w \in Tracked THEN [workerStats EXCEPT ![w][o] = @ + 1]
                          ELSE workerStats
    BY <2>1 DEF Credit
  <2>3. Tracked' = Tracked
    <3>1. CASE w \in Tracked
      <4>1. workerStats[w] \in Counts /\ workerStats' = [workerStats EXCEPT ![w][o] = @ + 1]
        BY <2>2, <3>1 DEF Tracked, MetricTypes
      <4>2. [workerStats[w] EXCEPT ![o] = @ + 1] \in Counts
        BY <4>1, CountUp
      <4>3. workerStats'[w] # NoStats /\ \A v \in WorkerId \ {w} : workerStats'[v] = workerStats[v]
        BY <4>1, <4>2, CountsFacts DEF MetricTypes
      <4> QED
        BY <3>1, <4>3 DEF Tracked
    <3> QED
      BY <2>2, <3>1 DEF Tracked
  <2>4. UNCHANGED <<goroutine, stop>> /\ \A v \in WorkerId : goroutine[v] = "off" => sync'[v] = sync[v]
    BY <1>4 DEF CreditSuccess, CreditFailure, Sync, runVars, stopVars, Entries, LoopTypes
  <2> QED
    BY <2>2, <2>3, <2>4, EntriesKept
<1>5. ASSUME NEW w \in WorkerId,
             SyncTick(w) \/ SyncCheck(w) \/ RecordTaskCompleted(w) \/ SyncExit(w)
      PROVE  Entries' /\ Balanced'
  <2>1. UNCHANGED <<metricsVars, goroutine, stop, workerStats>>
    BY <1>5 DEF SyncTick, SyncCheck, RecordTaskCompleted, SyncExit, Sync, runVars, stopVars
  <2>2. \A v \in WorkerId : goroutine[v] = "off" => sync'[v] = sync[v]
    BY <1>5 DEF SyncTick, SyncCheck, RecordTaskCompleted, SyncExit, Sync, Entries, LoopTypes
  <2> QED
    BY <2>1, <2>2, EntriesKept DEF Tracked
<1>6. ASSUME NEW w \in WorkerId, TakeTask(w) \/ FinishTask(w) \/ Leave(w) PROVE Entries' /\ Balanced'
  <2>1. UNCHANGED <<metricsVars, stop, sync, workerStats>>
    BY <1>6 DEF TakeTask, FinishTask, Leave, syncVars, stopVars
  <2>2. \A v \in WorkerId : goroutine'[v] = "off" <=> goroutine[v] = "off"
    BY <1>6 DEF TakeTask, FinishTask, Leave, WorkerTypes
  <2> QED
    BY <2>1, <2>2, EntriesKept DEF Tracked
<1>7. ASSUME NEW w \in WorkerId, StopSync(w) \/ Halt(w) \/ Awaited(w) \/ TimesOut(w)
      PROVE  Entries' /\ Balanced'
  <2>1. UNCHANGED <<metricsVars, workerStats>>
    BY <1>7 DEF StopSync, Halt, Awaited, TimesOut
  <2>2. PICK from \in {"no", "halt", "await"}, to \in {"halt", "await", "unregister"} :
            StopStep(w, from, to)
    BY <1>7 DEF StopSync, Halt, Awaited, TimesOut
  <2>3. goroutine[w] # "off"
    BY <1>7, StopStepShape DEF StopSync, Halt, Awaited, TimesOut, Entries
  <2>4. /\ stop[w] # "done" /\ stop'[w] # "done" /\ \A v \in WorkerId \ {w} : stop'[v] = stop[v]
        /\ goroutine' = goroutine /\ sync' = sync
    BY <2>2, StopStepShape
  <2> QED
    BY <2>1, <2>3, <2>4, EntriesKept DEF Tracked
<1>8. CASE Cancel \/ UNCHANGED vars
  <2>1. UNCHANGED <<metricsVars, goroutine, stop, sync, workerStats>>
    BY <1>8 DEF Cancel, vars, runVars, syncVars, stopVars
  <2> QED
    BY <2>1, EntriesKept DEF Tracked
<1> QED
  BY <1>1, <1>2, <1>3, <1>4, <1>5, <1>6, <1>7, <1>8 DEF Next, SyncStep, Record, Stopping

-----------------------------------------------------------------------------
Types == WorkerTypes /\ LoopTypes /\ MetricTypes
IInv == Types /\ Entries /\ Balanced /\ Alive /\ Waited

LEMMA InitIInv == Init => IInv
<1> SUFFICES ASSUME Init PROVE IInv
  OBVIOUS
<1>1. Types
  <2>1. WorkerTypes
    BY DEF Init, WorkerTypes
  <2>2. LoopTypes
    BY CountsFacts DEF Init, LoopTypes
  <2>3. MetricTypes
    BY DEF Init, MetricsInit, MetricTypes
  <2> QED
    BY <2>1, <2>2, <2>3 DEF Types
<1>2. Tracked = {} /\ Registered = {} /\ Ghosts = {}
  BY DEF Init, MetricsInit, Tracked, Registered, Ghosts
<1>3. Entries
  BY <1>2 DEF Init, MetricsInit, Entries
<1>4. Balanced
  BY <1>2, FS_EmptySet DEF Init, MetricsInit, Balanced
<1>5. Alive /\ Waited
  BY DEF Init, Alive, Waited
<1> QED
  BY <1>1, <1>3, <1>4, <1>5 DEF IInv

LEMMA IInvHolds == Spec => []IInv
<1>1. IInv /\ [Next]_vars => IInv'
  BY WorkerTypesStep, LoopTypesStep, MetricTypesStep, EntriesStep, AliveStep DEF IInv, Types
<1> QED
  BY InitIInv, <1>1, PTL DEF Spec

LEMMA CountsFollow == IInv => TypeOK /\ GhostsOnly /\ StopWaits
<1> SUFFICES ASSUME IInv PROVE TypeOK /\ GhostsOnly /\ StopWaits
  OBVIOUS
<1>1. Cardinality(Tracked) \in Nat /\ Cardinality(Ghosts) \in Nat
  BY FS_CardinalityType DEF IInv, Balanced
<1>2. TypeOK
  BY <1>1 DEF IInv, Types, WorkerTypes, LoopTypes, MetricTypes, Balanced, TypeOK
<1>3. ASSUME NEW w \in Ghosts PROVE stop[w] = "done"
  <2>1. w \in WorkerId /\ idleFor[w] # NotIdle /\ w \notin Tracked
    BY DEF Ghosts, Registered
  <2> QED
    BY <2>1 DEF IInv, Entries
<1>4. GhostsOnly
  BY <1>1, <1>3 DEF IInv, Balanced, Entries, GhostsOnly
<1>5. StopWaits
  BY DEF IInv, Waited, StopWaits
<1> QED
  BY <1>2, <1>4, <1>5

(* The counters of the metrics keep their types; in particular the number  *)
(* of idle workers is never negative, although the busy one may be.        *)
THEOREM InstrumentedTypes == Spec => []TypeOK
BY IInvHolds, CountsFollow, PTL

(* With any number of workers started and stopped in any order, the counts *)
(* are off by exactly the workers marked idle after their Stop.            *)
THEOREM GhostsOnlyHolds == Spec => []GhostsOnly
BY IInvHolds, CountsFollow, PTL

(* Stop does not take a worker out of the metrics before its goroutine is  *)
(* gone, unless Shutdown ran out of time.                                  *)
THEOREM StopWaitsHolds == Spec => []StopWaits
BY IInvHolds, CountsFollow, PTL

-----------------------------------------------------------------------------
(* What the loop copies. Between its read and the end of its round it has  *)
(* recorded no more than it read, and the worker has done at least that.   *)

Copying(w) ==
    /\ lastProcessed[w] + batch[w].ok <= processed[w]
    /\ lastFailed[w] + batch[w].bad <= failed[w]
    /\ sync[w] \in {"check", "count", "credit"} =>
          /\ lastProcessed[w] + batch[w].ok <= seen[w].ok /\ seen[w].ok <= processed[w]
          /\ lastFailed[w] + batch[w].bad <= seen[w].bad /\ seen[w].bad <= failed[w]
    /\ sync[w] = "credit" => lastProcessed[w] + batch[w].ok < seen[w].ok
    /\ sync[w] \notin {"count", "credit"} => batch[w].ok = 0 /\ batch[w].bad = 0
    /\ sync[w] = "off" => lastProcessed[w] = 0 /\ lastFailed[w] = 0
    /\ w \in Tracked =>
          /\ workerStats[w].ok = lastProcessed[w] + batch[w].ok
          /\ workerStats[w].bad = lastFailed[w] + batch[w].bad

(* Of one worker, everything Copying depends on.                           *)
Loop(w) == <<sync[w], seen[w], batch[w], lastProcessed[w], lastFailed[w], workerStats[w]>>
Own(w) == <<processed[w], failed[w]>>

LEMMA CopyTypes ==
    ASSUME Types, NEW w \in WorkerId
    PROVE  /\ processed[w] \in Nat /\ failed[w] \in Nat
           /\ lastProcessed[w] \in Nat /\ lastFailed[w] \in Nat
           /\ batch[w] \in Counts /\ batch[w].ok \in Nat /\ batch[w].bad \in Nat
           /\ seen[w] \in Counts /\ seen[w].ok \in Nat /\ seen[w].bad \in Nat
BY DEF Types, WorkerTypes, LoopTypes, Counts

(* A step that leaves the loop of w alone, while w may finish tasks.       *)
LEMMA CopyIdle ==
    ASSUME Types, Types', NEW w \in WorkerId, Copying(w), Loop(w)' = Loop(w),
           processed'[w] >= processed[w], failed'[w] >= failed[w]
    PROVE  Copying(w)'
<1>1. w \in Tracked' <=> w \in Tracked
  BY DEF Loop, Tracked
<1>2. processed'[w] \in Nat /\ failed'[w] \in Nat
  BY DEF Types, WorkerTypes
<1> QED
  BY <1>1, <1>2, CopyTypes DEF Copying, Loop

(* The steps of other workers and loops.                                   *)
LEMMA LoopOfOthers ==
    ASSUME Types, NEW w \in WorkerId, NEW v \in WorkerId, v # w,
           \/ Start(w) \/ TakeTask(w) \/ FinishTask(w) \/ Leave(w) \/ SyncStep(w) \/ SyncExit(w)
           \/ StopSync(w) \/ Stopping(w) \/ TimesOut(w)
    PROVE  Loop(v)' = Loop(v)
BY DEF Loop, Start, TakeTask, FinishTask, Leave, SyncStep, SyncTick, SyncCheck, Record,
       RecordTaskCompleted, CreditSuccess, CreditFailure, Credit, SyncDone, SyncExit, Sync, Forget,
       StopSync, Stopping, Halt, Awaited, Unregister, TimesOut, StopStep, syncVars,
       Types, LoopTypes, MetricTypes

LEMMA CopyOthers ==
    ASSUME Types, Types', NEW w \in WorkerId, NEW v \in WorkerId, v # w, Copying(v),
           \/ Start(w) \/ TakeTask(w) \/ FinishTask(w) \/ Leave(w) \/ SyncStep(w) \/ SyncExit(w)
           \/ StopSync(w) \/ Stopping(w) \/ TimesOut(w)
    PROVE  Copying(v)'
<1>1. Loop(v)' = Loop(v)
  BY LoopOfOthers
<1>2. Own(v)' = Own(v)
  BY DEF Own, Start, TakeTask, FinishTask, Leave, SyncStep, SyncTick, SyncCheck, Record,
         RecordTaskCompleted, CreditSuccess, CreditFailure, SyncDone, SyncExit, Sync,
         StopSync, Stopping, Halt, Awaited, Unregister, TimesOut, StopStep, countVars,
         Types, WorkerTypes
<1> QED
  BY <1>1, <1>2, CopyIdle, CopyTypes DEF Own


(* The steps of w itself and of its loop.                                  *)
LEMMA CopyOwn ==
    ASSUME IInv, Types', NEW w \in WorkerId, Copying(w),
           \/ Start(w) \/ TakeTask(w) \/ FinishTask(w) \/ Leave(w) \/ SyncStep(w) \/ SyncExit(w)
           \/ StopSync(w) \/ Stopping(w) \/ TimesOut(w)
    PROVE  Copying(w)'
<1>0. Types
  BY DEF IInv
<1>1. CASE TakeTask(w) \/ FinishTask(w) \/ Leave(w) \/ StopSync(w) \/ Halt(w) \/ Awaited(w) \/ TimesOut(w)
  <2>1. Loop(w)' = Loop(w)
    BY <1>1 DEF Loop, TakeTask, FinishTask, Leave, StopSync, Halt, Awaited, TimesOut, StopStep, syncVars
  <2>2. processed'[w] >= processed[w] /\ failed'[w] >= failed[w]
    BY <1>0, <1>1, CopyTypes DEF TakeTask, FinishTask, Leave, StopSync, Halt, Awaited, TimesOut,
       StopStep, countVars, Types, WorkerTypes
  <2> QED
    BY <1>0, <2>1, <2>2, CopyIdle
<1>2. CASE Start(w)
  <2>1. sync[w] = "off" /\ sync'[w] = "wait" /\ workerStats'[w] = Zero
    BY <1>0, <1>2 DEF Start, IInv, Entries, Types, LoopTypes, MetricTypes
  <2>2. /\ batch' = batch /\ lastProcessed' = lastProcessed /\ lastFailed' = lastFailed
        /\ processed' = processed /\ failed' = failed
    BY <1>2 DEF Start, countVars
  <2>3. workerStats'[w].ok = 0 /\ workerStats'[w].bad = 0
    BY <2>1 DEF Zero
  <2> QED
    BY <1>0, <2>1, <2>2, <2>3, CopyTypes DEF Copying
<1>3. CASE SyncTick(w)
  <2>1. /\ sync[w] = "wait" /\ sync'[w] = "check"
        /\ seen'[w].ok = processed[w] /\ seen'[w].bad = failed[w]
    BY <1>0, <1>3 DEF SyncTick, Sync, Types, LoopTypes
  <2>2. /\ batch' = batch /\ lastProcessed' = lastProcessed /\ lastFailed' = lastFailed
        /\ processed' = processed /\ failed' = failed /\ Tracked' = Tracked /\ workerStats' = workerStats
    BY <1>3 DEF SyncTick, Sync, countVars, Tracked
  <2> QED
    BY <1>0, <2>1, <2>2, CopyTypes DEF Copying
<1>4. CASE SyncCheck(w)
  <2>1. /\ batch' = batch /\ lastProcessed' = lastProcessed /\ lastFailed' = lastFailed
        /\ processed' = processed /\ failed' = failed /\ Tracked' = Tracked /\ workerStats' = workerStats
    BY <1>4 DEF SyncCheck, Sync, countVars, Tracked
  <2>2. sync[w] = "check" /\ (sync'[w] = "wait" \/ (sync'[w] = "count" /\ seen' = seen))
    <3>1. \/ Sync(w, "check", "count") /\ seen' = seen
          \/ Sync(w, "check", "wait")
      BY <1>4 DEF SyncCheck
    <3>2. \A l : Sync(w, "check", l) => sync[w] = "check" /\ sync'[w] = l
      BY <1>0 DEF Sync, Types, LoopTypes
    <3> QED
      BY <3>1, <3>2
  <2> QED
    BY <1>0, <2>1, <2>2, CopyTypes DEF Copying
<1>5. CASE RecordTaskCompleted(w)
  <2>1. /\ batch' = batch /\ lastProcessed' = lastProcessed /\ lastFailed' = lastFailed
        /\ seen' = seen /\ processed' = processed /\ failed' = failed
        /\ Tracked' = Tracked /\ workerStats' = workerStats
    BY <1>5 DEF RecordTaskCompleted, Sync, countVars, Tracked
  <2>2. sync[w] = "count" /\ sync'[w] = "credit" /\ batch[w].ok < seen[w].ok - lastProcessed[w]
    BY <1>0, <1>5 DEF RecordTaskCompleted, Sync, New, Types, LoopTypes
  <2> QED
    BY <1>0, <2>1, <2>2, CopyTypes DEF Copying
<1>6. ASSUME NEW o \in {"ok", "bad"}, Credit(w, o)
      PROVE  /\ batch'[w].ok = batch[w].ok + (IF o = "ok" THEN 1 ELSE 0)
             /\ batch'[w].bad = batch[w].bad + (IF o = "bad" THEN 1 ELSE 0)
             /\ w \in Tracked' => w \in Tracked
             /\ w \in Tracked =>
                   /\ workerStats'[w].ok = workerStats[w].ok + (IF o = "ok" THEN 1 ELSE 0)
                   /\ workerStats'[w].bad = workerStats[w].bad + (IF o = "bad" THEN 1 ELSE 0)
  <2>1. batch'[w] = [batch[w] EXCEPT ![o] = @ + 1] /\ batch[w] \in Counts
    BY <1>0, <1>6 DEF Credit, Types, LoopTypes
  <2>2. /\ batch'[w].ok = batch[w].ok + (IF o = "ok" THEN 1 ELSE 0)
        /\ batch'[w].bad = batch[w].bad + (IF o = "bad" THEN 1 ELSE 0)
    BY <2>1 DEF Counts
  <2>3. w \in Tracked' => w \in Tracked
    BY <1>6 DEF Credit, Tracked
  <2>4. ASSUME w \in Tracked
        PROVE  /\ workerStats'[w].ok = workerStats[w].ok + (IF o = "ok" THEN 1 ELSE 0)
               /\ workerStats'[w].bad = workerStats[w].bad + (IF o = "bad" THEN 1 ELSE 0)
    <3>1. workerStats'[w] = [workerStats[w] EXCEPT ![o] = @ + 1] /\ workerStats[w] \in Counts
      BY <1>0, <1>6, <2>4 DEF Credit, Types, MetricTypes, Tracked
    <3> QED
      BY <3>1 DEF Counts
  <2> QED
    BY <2>2, <2>3, <2>4
<1>7. CASE CreditSuccess(w)
  <2>1. sync[w] = "credit" /\ sync'[w] = "count" /\ Credit(w, "ok")
    BY <1>0, <1>7 DEF CreditSuccess, Sync, Types, LoopTypes
  <2>2. /\ lastProcessed' = lastProcessed /\ lastFailed' = lastFailed
        /\ seen' = seen /\ processed' = processed /\ failed' = failed
    BY <1>7 DEF CreditSuccess, Credit, Sync, countVars
  <2>3. /\ batch'[w].ok = batch[w].ok + 1 /\ batch'[w].bad = batch[w].bad
        /\ w \in Tracked' => w \in Tracked
        /\ w \in Tracked => /\ workerStats'[w].ok = workerStats[w].ok + 1
                            /\ workerStats'[w].bad = workerStats[w].bad + 0
    BY <1>0, <1>6, <2>1, CopyTypes
  <2>4. /\ lastProcessed[w] \in Nat /\ lastFailed[w] \in Nat /\ batch[w].ok \in Nat /\ batch[w].bad \in Nat
        /\ seen[w].ok \in Nat /\ seen[w].bad \in Nat /\ processed[w] \in Nat /\ failed[w] \in Nat
    BY <1>0, CopyTypes
  <2>5. /\ lastProcessed'[w] + batch'[w].ok <= seen'[w].ok /\ seen'[w].ok <= processed'[w]
        /\ lastFailed'[w] + batch'[w].bad <= seen'[w].bad /\ seen'[w].bad <= failed'[w]
        /\ lastProcessed'[w] + batch'[w].ok <= processed'[w] /\ lastFailed'[w] + batch'[w].bad <= failed'[w]
    BY <2>1, <2>2, <2>3, <2>4 DEF Copying
  <2>6. w \in Tracked' => /\ workerStats'[w].ok = lastProcessed'[w] + batch'[w].ok
                          /\ workerStats'[w].bad = lastFailed'[w] + batch'[w].bad
    BY <2>2, <2>3, <2>4 DEF Copying
  <2> QED
    BY <2>1, <2>5, <2>6 DEF Copying
<1>8. CASE CreditFailure(w)
  <2>1. /\ sync[w] = "count" /\ sync'[w] = "count" /\ Credit(w, "bad")
        /\ batch[w].bad < seen[w].bad - lastFailed[w]
    BY <1>0, <1>8 DEF CreditFailure, New, Sync, Types, LoopTypes
  <2>2. /\ lastProcessed' = lastProcessed /\ lastFailed' = lastFailed
        /\ seen' = seen /\ processed' = processed /\ failed' = failed
    BY <1>8 DEF CreditFailure, Credit, Sync, countVars
  <2>3. /\ batch'[w].ok = batch[w].ok /\ batch'[w].bad = batch[w].bad + 1
        /\ w \in Tracked' => w \in Tracked
        /\ w \in Tracked => /\ workerStats'[w].ok = workerStats[w].ok + 0
                            /\ workerStats'[w].bad = workerStats[w].bad + 1
    BY <1>0, <1>6, <2>1, CopyTypes
  <2>4. /\ lastProcessed[w] \in Nat /\ lastFailed[w] \in Nat /\ batch[w].ok \in Nat /\ batch[w].bad \in Nat
        /\ seen[w].ok \in Nat /\ seen[w].bad \in Nat /\ processed[w] \in Nat /\ failed[w] \in Nat
    BY <1>0, CopyTypes
  <2>5. /\ lastProcessed'[w] + batch'[w].ok <= seen'[w].ok /\ seen'[w].ok <= processed'[w]
        /\ lastFailed'[w] + batch'[w].bad <= seen'[w].bad /\ seen'[w].bad <= failed'[w]
        /\ lastProcessed'[w] + batch'[w].ok <= processed'[w] /\ lastFailed'[w] + batch'[w].bad <= failed'[w]
    BY <2>1, <2>2, <2>3, <2>4 DEF Copying
  <2>6. w \in Tracked' => /\ workerStats'[w].ok = lastProcessed'[w] + batch'[w].ok
                          /\ workerStats'[w].bad = lastFailed'[w] + batch'[w].bad
    BY <2>2, <2>3, <2>4 DEF Copying
  <2> QED
    BY <2>1, <2>5, <2>6 DEF Copying
<1>9. CASE SyncDone(w)
  <2>1. /\ sync[w] = "count" /\ sync'[w] = "wait"
        /\ lastProcessed'[w] = seen[w].ok /\ lastFailed'[w] = seen[w].bad
        /\ batch'[w].ok = 0 /\ batch'[w].bad = 0
    BY <1>0, <1>9 DEF SyncDone, Sync, Zero, Types, LoopTypes
  <2>2. batch[w].ok = seen[w].ok - lastProcessed[w] /\ batch[w].bad = seen[w].bad - lastFailed[w]
    BY <1>9 DEF SyncDone, New
  <2>3. processed' = processed /\ failed' = failed /\ Tracked' = Tracked /\ workerStats' = workerStats
    BY <1>9 DEF SyncDone, Sync, countVars, Tracked
  <2> QED
    BY <1>0, <2>1, <2>2, <2>3, CopyTypes DEF Copying
<1>10. CASE SyncExit(w)
  <2>1. /\ batch' = batch /\ lastProcessed' = lastProcessed /\ lastFailed' = lastFailed
        /\ processed' = processed /\ failed' = failed /\ Tracked' = Tracked /\ workerStats' = workerStats
    BY <1>10 DEF SyncExit, Sync, countVars, Tracked
  <2>2. sync[w] = "wait" /\ sync'[w] = "ended"
    BY <1>0, <1>10 DEF SyncExit, Sync, Types, LoopTypes
  <2> QED
    BY <1>0, <2>1, <2>2, CopyTypes DEF Copying
<1>11. CASE Unregister(w)
  <2>1. w \notin Tracked'
    BY <1>0, <1>11 DEF Unregister, Tracked, Types, MetricTypes
  <2>2. /\ batch' = batch /\ lastProcessed' = lastProcessed /\ lastFailed' = lastFailed
        /\ seen' = seen /\ sync' = sync /\ processed' = processed /\ failed' = failed
    BY <1>11 DEF Unregister, StopStep, countVars, syncVars
  <2> QED
    BY <2>1, <2>2 DEF Copying
<1> QED
  BY <1>1, <1>2, <1>3, <1>4, <1>5, <1>7, <1>8, <1>9, <1>10, <1>11 DEF SyncStep, Record, Stopping

CopyInv == \A w \in WorkerId : Copying(w)

LEMMA CopyInvStep ==
    ASSUME IInv, IInv', CopyInv, [Next]_vars
    PROVE  CopyInv'
<1>1. Types /\ Types'
  BY DEF IInv
<1>2. CASE Cancel \/ UNCHANGED vars
  <2>1. \A w \in WorkerId : Loop(w)' = Loop(w) /\ processed'[w] = processed[w] /\ failed'[w] = failed[w]
    BY <1>2 DEF Cancel, vars, Loop, countVars, syncVars
  <2> QED
    BY <1>1, <2>1, CopyIdle, CopyTypes DEF CopyInv
<1>3. ASSUME NEW w \in WorkerId,
             \/ Start(w) \/ TakeTask(w) \/ FinishTask(w) \/ Leave(w) \/ SyncStep(w) \/ SyncExit(w)
             \/ StopSync(w) \/ Stopping(w) \/ TimesOut(w)
      PROVE  CopyInv'
  BY <1>1, <1>3, CopyOthers, CopyOwn DEF CopyInv
<1> QED
  BY <1>2, <1>3 DEF Next

LEMMA CopyInvHolds == Spec => []CopyInv
<1>1. Init => CopyInv
  <2> SUFFICES ASSUME Init, NEW w \in WorkerId PROVE Copying(w)
    BY DEF CopyInv
  <2>1. w \notin Tracked
    BY DEF Init, Tracked
  <2>2. batch[w].ok = 0 /\ batch[w].bad = 0
    BY DEF Init, Zero
  <2> QED
    BY <2>1, <2>2 DEF Init, Copying
<1>2. IInv /\ IInv' /\ CopyInv /\ [Next]_vars => CopyInv'
  BY CopyInvStep
<1> QED
  BY <1>1, <1>2, IInvHolds, PTL DEF Spec

(* With any number of workers, tasks and stops no task is copied into the  *)
(* metrics twice, and the entry of a worker is what its loop has copied:   *)
(* what a round of syncStatsLoop remembers is what it read at its start,   *)
(* not what the worker has done since.                                     *)
THEOREM CopiedOnceHolds == Spec => []CopiedOnce
<1>1. IInv /\ CopyInv => CopiedOnce
  <2> SUFFICES ASSUME IInv, CopyInv, NEW w \in WorkerId
               PROVE  /\ Counted(w) <= processed[w]
                      /\ lastFailed[w] + batch[w].bad <= failed[w]
                      /\ w \in Tracked =>
                            workerStats[w] = [ok  |-> lastProcessed[w] + batch[w].ok,
                                              bad |-> lastFailed[w] + batch[w].bad]
    BY DEF CopiedOnce
  <2>1. Types /\ Copying(w)
    BY DEF IInv, CopyInv
  <2>2. Counted(w) <= processed[w]
    BY <2>1, CopyTypes DEF Counted, Copying
  <2>3. ASSUME w \in Tracked
        PROVE  workerStats[w] = [ok |-> workerStats[w].ok, bad |-> workerStats[w].bad]
    BY <2>1, <2>3 DEF Types, MetricTypes, Tracked, Counts
  <2> QED
    BY <2>1, <2>2, <2>3 DEF Copying
<1> QED
  BY <1>1, IInvHolds, CopyInvHolds, PTL

-----------------------------------------------------------------------------
(* The total of the metrics.                                               *)

Tally == [w \in WorkerId |-> Counted(w)]

LEMMA TallyType == ASSUME Types PROVE Tally \in [WorkerId -> Nat]
<1>1. \A w \in WorkerId : Counted(w) \in Nat
  BY CopyTypes DEF Counted
<1> QED
  BY <1>1 DEF Tally

(* Which steps of w and its loop change what is counted of it.             *)
LEMMA TallyOwn ==
    ASSUME IInv, Types', NEW w \in WorkerId, Copying(w),
           \/ Start(w) \/ TakeTask(w) \/ FinishTask(w) \/ Leave(w) \/ SyncStep(w) \/ SyncExit(w)
           \/ StopSync(w) \/ Stopping(w) \/ TimesOut(w)
    PROVE  \/ Counted(w)' = Counted(w) + 1 /\ tasksProcessed' = tasksProcessed + 1
           \/ Counted(w)' = Counted(w) /\ tasksProcessed' = tasksProcessed
<1>0. Types /\ batch[w].ok \in Nat /\ lastProcessed[w] \in Nat
  BY CopyTypes DEF IInv
<1>1. CASE TakeTask(w) \/ FinishTask(w) \/ Leave(w) \/ StopSync(w) \/ Halt(w) \/ Awaited(w)
           \/ TimesOut(w) \/ Unregister(w)
  BY <1>1 DEF TakeTask, FinishTask, Leave, StopSync, Halt, Awaited, TimesOut, Unregister, StopStep,
     syncVars, taskVars, Counted
<1>2. CASE Start(w)
  <2>1. sync[w] = "off" /\ sync'[w] = "wait"
    BY <1>0, <1>2 DEF Start, IInv, Entries, Types, LoopTypes
  <2> QED
    BY <1>2, <2>1 DEF Start, taskVars, Counted
<1>3. CASE SyncTick(w) \/ SyncCheck(w) \/ SyncExit(w)
  <2>1. sync[w] # "credit" /\ sync'[w] # "credit"
    BY <1>0, <1>3 DEF SyncTick, SyncCheck, SyncExit, Sync, Types, LoopTypes
  <2> QED
    BY <1>3, <2>1 DEF SyncTick, SyncCheck, SyncExit, taskVars, Counted
<1>4. CASE RecordTaskCompleted(w)
  <2>1. sync[w] = "count" /\ sync'[w] = "credit"
    BY <1>0, <1>4 DEF RecordTaskCompleted, Sync, Types, LoopTypes
  <2>2. Counted(w) = lastProcessed[w] + batch[w].ok
    BY <1>0, <2>1 DEF Counted
  <2>3. Counted(w)' = lastProcessed[w] + batch[w].ok + 1
    BY <1>0, <1>4, <2>1 DEF RecordTaskCompleted, Counted
  <2> QED
    BY <1>4, <2>2, <2>3 DEF RecordTaskCompleted
<1>5. CASE CreditSuccess(w)
  <2>1. sync[w] = "credit" /\ sync'[w] = "count" /\ lastProcessed' = lastProcessed
    BY <1>0, <1>5 DEF CreditSuccess, Credit, Sync, Types, LoopTypes
  <2>2. batch'[w].ok = batch[w].ok + 1
    <3>1. batch'[w] = [batch[w] EXCEPT !["ok"] = @ + 1] /\ batch[w] \in Counts
      BY <1>0, <1>5 DEF CreditSuccess, Credit, Types, LoopTypes
    <3> QED
      BY <3>1 DEF Counts
  <2> QED
    BY <1>0, <1>5, <2>1, <2>2 DEF CreditSuccess, Credit, taskVars, Counted
<1>6. CASE CreditFailure(w)
  <2>1. sync[w] = "count" /\ sync'[w] = "count" /\ lastProcessed' = lastProcessed
    BY <1>0, <1>6 DEF CreditFailure, Credit, Sync, Types, LoopTypes
  <2>2. batch'[w].ok = batch[w].ok
    <3>1. batch'[w] = [batch[w] EXCEPT !["bad"] = @ + 1] /\ batch[w] \in Counts
      BY <1>0, <1>6 DEF CreditFailure, Credit, Types, LoopTypes
    <3> QED
      BY <3>1 DEF Counts
  <2> QED
    BY <1>0, <1>6, <2>1, <2>2 DEF CreditFailure, Credit, taskVars, Counted
<1>7. CASE SyncDone(w)
  <2>1. sync[w] = "count" /\ sync'[w] = "wait" /\ lastProcessed'[w] = seen[w].ok /\ batch'[w].ok = 0
    BY <1>0, <1>7 DEF SyncDone, Sync, Zero, Types, LoopTypes
  <2>2. batch[w].ok = seen[w].ok - lastProcessed[w] /\ seen[w].ok \in Nat
    BY <1>0, <1>7, CopyTypes DEF SyncDone, New
  <2> QED
    BY <1>0, <1>7, <2>1, <2>2 DEF SyncDone, taskVars, Counted
<1> QED
  BY <1>1, <1>2, <1>3, <1>4, <1>5, <1>6, <1>7 DEF SyncStep, Record, Stopping

TallyInv == IsFiniteSet(Units(Tally)) /\ CountedOnce

LEMMA TallyStep ==
    ASSUME IInv, IInv', CopyInv, TallyInv, [Next]_vars
    PROVE  TallyInv'
<1>1. Types /\ Types' /\ Tally \in [WorkerId -> Nat]
  BY TallyType DEF IInv
<1>2. ASSUME Tally' = Tally, tasksProcessed' = tasksProcessed PROVE TallyInv'
  BY <1>2 DEF TallyInv, CountedOnce, Tally
<1>3. CASE Cancel \/ UNCHANGED vars
  BY <1>2, <1>3 DEF Cancel, vars, syncVars, taskVars, Tally, Counted
<1>4. ASSUME NEW w \in WorkerId,
             \/ Start(w) \/ TakeTask(w) \/ FinishTask(w) \/ Leave(w) \/ SyncStep(w) \/ SyncExit(w)
             \/ StopSync(w) \/ Stopping(w) \/ TimesOut(w)
      PROVE  TallyInv'
  <2>1. \A v \in WorkerId : v # w => Counted(v)' = Counted(v)
    BY <1>1, <1>4, LoopOfOthers DEF Loop, Counted
  <2>2. CASE Counted(w)' = Counted(w) /\ tasksProcessed' = tasksProcessed
    BY <1>2, <2>1, <2>2 DEF Tally
  <2>3. CASE Counted(w)' = Counted(w) + 1 /\ tasksProcessed' = tasksProcessed + 1
    <3>1. Tally'[w] = Tally[w] + 1 /\ \A v \in WorkerId : v # w => Tally'[v] = Tally[v]
      BY <2>1, <2>3 DEF Tally
    <3>2. Tally' \in [WorkerId -> Nat]
      <4>1. \A v \in WorkerId : Tally[v] + 1 \in Nat /\ Tally'[v] \in {Tally[v], Tally[v] + 1}
        BY <1>1, <3>1
      <4>2. Tally' = [v \in WorkerId |-> Tally'[v]]
        BY DEF Tally
      <4> QED
        BY <1>1, <4>1, <4>2
    <3>3. tasksProcessed = Total(Tally) /\ IsFiniteSet(Units(Tally))
      BY DEF TallyInv, CountedOnce, Tally
    <3>4. IsFiniteSet(Units(Tally')) /\ Total(Tally') = Total(Tally) + 1
      BY <1>1, <3>1, <3>2, <3>3, TotalUp
    <3>5. tasksProcessed' = Total(Tally')
      BY <2>3, <3>3, <3>4
    <3> QED
      BY <3>4, <3>5 DEF TallyInv, CountedOnce, Tally
  <2> QED
    BY <1>4, <2>2, <2>3, TallyOwn DEF CopyInv, IInv
<1> QED
  BY <1>3, <1>4 DEF Next

(* The total of finished tasks in the metrics is the sum, over all workers *)
(* there ever were, of what their loops have counted: with any number of   *)
(* workers the increments of concurrent rounds add up, the two writes of a *)
(* success count it once, and a Stop takes nothing back.                   *)
THEOREM CountedOnceHolds == Spec => []CountedOnce
<1>1. Init => TallyInv
  <2> SUFFICES ASSUME Init PROVE TallyInv
    OBVIOUS
  <2>1. Tally \in [WorkerId -> Nat] /\ \A w \in WorkerId : Tally[w] = 0
    <3>1. \A w \in WorkerId : Counted(w) = 0
      BY DEF Init, Zero, Counted
    <3> QED
      BY <3>1 DEF Tally
  <2>2. IsFiniteSet(Units(Tally)) /\ Total(Tally) = 0
    BY <2>1, TotalZero
  <2> QED
    BY <2>2 DEF TallyInv, CountedOnce, Tally, Init
<1>2. IInv /\ IInv' /\ CopyInv /\ TallyInv /\ [Next]_vars => TallyInv'
  BY TallyStep
<1>3. TallyInv => CountedOnce
  BY DEF TallyInv
<1> QED
  BY <1>1, <1>2, <1>3, IInvHolds, CopyInvHolds, PTL DEF Spec
=============================================================================
