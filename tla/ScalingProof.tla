---------------------------- MODULE ScalingProof ----------------------------
(***************************************************************************)
(* For every pool size, set of depths, threshold and cooldown: the pool    *)
(* keeps its bounds, the metrics count its workers, decisions ask for sizes*)
(* within the bounds and no goroutine is left behind.                      *)
(***************************************************************************)
EXTENDS AutoScaler, FiniteSetTheorems, TLAPS

(* The worker that is deleted and not yet unregistered.                    *)
Leaving == IF pc = "unregister" THEN target ELSE {}

(* A goroutine that runs has its flag set or its channel closed.           *)
Alive == \A w \in WorkerId : goroutine[w] # "gone" => w \in running \cup signalled

(* The pool, its goroutines and the metrics agree; gone are the workers    *)
(* that are deleted and not yet unregistered.                              *)
Consistent(gone) ==
    /\ MetricsTypeOK /\ PoolTypeOK
    /\ IsFiniteSet(workers)
    /\ Cardinality(workers) <= MaxWorkers
    /\ gone \cap workers = {}
    /\ IsFiniteSet(gone)
    /\ Registered = workers \cup gone
    /\ activeWorkers = idleWorkers /\ busyWorkers = 0
    /\ idleWorkers = Cardinality(Registered)
    /\ Alive /\ NoLeak

(* Where the goroutine of Start, then the scaler, is: what it still has to *)
(* add, and which worker it is removing. While it waits for a worker there *)
(* is one more than the minimum, since nobody else removes.                *)
InBoot == pc = "boot" => todo >= 1 /\ Cardinality(workers) + todo = MinWorkers
Beyond == pc # "boot" => Cardinality(workers) >= MinWorkers
Removing ==
    /\ pc \in {"shutdown", "await", "delete"} =>
          /\ \E w \in workers : target = {w}
          /\ Cardinality(workers) > MinWorkers
    /\ pc = "unregister" => \E w \in WorkerId : target = {w}
    /\ pc \notin {"shutdown", "await", "delete", "unregister"} => target = {}
    /\ pc \in {"await", "delete"} =>
          \A w \in target : goroutine[w] # "gone" => w \in signalled

IInv ==
    /\ ScalerTypeOK /\ Consistent(Leaving)
    /\ InBoot /\ Beyond /\ Removing
    /\ TargetsInRange

-----------------------------------------------------------------------------
(* A scale-up from below the maximum asks for more workers, at most the    *)
(* maximum and at most half of the pool and one more (calculateScaleUpTarget).*)
LEMMA UpTarget ==
    ASSUME NEW c \in Nat, queueDepth \in Nat, c < MaxWorkers
    PROVE  /\ ScaleUpTarget(c) \in Nat
           /\ c < ScaleUpTarget(c) /\ ScaleUpTarget(c) <= MaxWorkers
           /\ ScaleUpTarget(c) - c <= c \div 2 + 1
<1>1. queueDepth \div 50 \in Nat /\ c \div 2 \in Nat
  BY SMT
<1> QED
  BY <1>1, PoolAssumption DEF ScaleUpTarget, AtMost, AtLeast

(* A scale-down from above the minimum asks for fewer workers, at least the*)
(* minimum, and removes one or at most a quarter of the pool               *)
(* (calculateScaleDownTarget); it needs a positive count of idle workers.  *)
LEMMA DownTarget ==
    ASSUME NEW c \in Nat, snapshot.idle \in Nat, snapshot.idle # 0, c > MinWorkers
    PROVE  /\ ScaleDownTarget(c) \in Nat
           /\ MinWorkers <= ScaleDownTarget(c) /\ ScaleDownTarget(c) < c
           /\ c - ScaleDownTarget(c) = 1 \/ 4 * (c - ScaleDownTarget(c)) <= c
<1>1. c \div 4 \in Nat /\ 4 * (c \div 4) <= c
  BY SMT
<1> QED
  BY <1>1, PoolAssumption DEF ScaleDownTarget, AtLeast

(* AddWorker keeps pool and metrics consistent, adds a worker below the    *)
(* maximum and none at it, and does not touch the workers that are there.  *)
LEMMA AddWorkerStep ==
    ASSUME NEW gone, Consistent(gone), AddWorker
    PROVE  /\ Consistent(gone)'
           /\ Cardinality(workers) < MaxWorkers => Cardinality(workers') = Cardinality(workers) + 1
           /\ Cardinality(workers') >= Cardinality(workers)
           /\ workers \subseteq workers'
           /\ \A w \in Registered : goroutine'[w] = goroutine[w]
                                    /\ (w \in signalled => w \in signalled')
<1>c. Cardinality(workers) \in Nat /\ Cardinality(Registered) \in Nat
      /\ IsFiniteSet(Registered)
  BY FS_CardinalityType, FS_Union DEF Consistent
<1>1. CASE GetWorkerCount >= MaxWorkers
  <2>1. UNCHANGED <<poolVars, metricsVars>>
    BY <1>1 DEF AddWorker
  <2>2. workers' = workers /\ Registered' = Registered
    BY <2>1 DEF workers, Registered, poolVars, metricsVars
  <2> QED
    BY <1>1, <1>c, <2>1, <2>2, PoolAssumption DEF Consistent, MetricsTypeOK, PoolTypeOK, Alive,
       NoLeak, poolVars, metricsVars, GetWorkerCount
<1>2. CASE ~(GetWorkerCount >= MaxWorkers)
  <2>1. PICK w \in Unused : Enter(w)
    BY <1>2 DEF AddWorker
  <2>2. w \in WorkerId /\ w \notin workers /\ w \notin Registered
    BY DEF Unused, workers
  <2>3. workers' = workers \cup {w}
    BY <2>1, <2>2 DEF Enter, workers, Consistent, PoolTypeOK
  <2>4. Registered' = Registered \cup {w}
    BY <2>1, <2>2 DEF Enter, RegisterWorker, Registered, NotIdle, Consistent, MetricsTypeOK
  <2>5. IsFiniteSet(workers') /\ Cardinality(workers') = Cardinality(workers) + 1
    BY <2>2, <2>3, FS_AddElement DEF Consistent
  <2>6. Cardinality(Registered') = Cardinality(Registered) + 1
    BY <1>c, <2>2, <2>4, FS_AddElement
  <2>7. MetricsTypeOK' /\ PoolTypeOK'
    BY <2>1, <2>2 DEF Enter, RegisterWorker, Consistent, MetricsTypeOK, PoolTypeOK, WorkerState
  <2>8. (Alive /\ NoLeak)'
    BY <2>1, <2>2, <2>3 DEF Enter, Consistent, Alive, NoLeak, PoolTypeOK
  <2>9. Cardinality(workers') <= MaxWorkers
    BY <1>2, <1>c, <2>5, PoolAssumption DEF GetWorkerCount
  <2>10. /\ activeWorkers' = idleWorkers' /\ busyWorkers' = 0
         /\ idleWorkers' = Cardinality(Registered')
    BY <2>1, <2>6 DEF Enter, RegisterWorker, Consistent, MetricsTypeOK
  <2>11. gone \cap workers' = {} /\ Registered' = workers' \cup gone
    BY <2>2, <2>3, <2>4 DEF Consistent
  <2>12. Consistent(gone)'
    BY <2>5, <2>7, <2>8, <2>9, <2>10, <2>11 DEF Consistent
  <2>13. \A v \in Registered : goroutine'[v] = goroutine[v] /\ (v \in signalled => v \in signalled')
    BY <2>1, <2>2 DEF Enter, Consistent, PoolTypeOK, Registered
  <2> QED
    BY <1>c, <2>3, <2>5, <2>12, <2>13
<1> QED
  BY <1>1, <1>2

(* A step that leaves pool and metrics alone, apart from ages and depth.   *)
LEMMA QuietStep ==
    ASSUME NEW gone, Consistent(gone), UNCHANGED poolVars,
           UNCHANGED <<activeWorkers, idleWorkers, busyWorkers>>,
           Registered' = Registered, MetricsTypeOK'
    PROVE  Consistent(gone)' /\ workers' = workers
<1>1. workers' = workers
  BY DEF workers, poolVars
<1> QED
  BY <1>1 DEF Consistent, PoolTypeOK, Alive, NoLeak, poolVars

(* A step of a goroutine that changes neither the map nor the metrics.     *)
LEMMA GoroutineKeeps ==
    ASSUME NEW gone, NEW w \in WorkerId, Consistent(gone),
           TakeTask(w) \/ FinishTask(w) \/ Leave(w)
    PROVE  /\ Consistent(gone)' /\ workers' = workers
           /\ \A v \in WorkerId : goroutine[v] = "gone" => goroutine'[v] = "gone"
           /\ signalled' = signalled /\ UNCHANGED metricsVars
<1>1. workers' = workers /\ Registered' = Registered
  BY DEF workers, Registered, TakeTask, FinishTask, Leave, metricsVars
<1>2. MetricsTypeOK' /\ PoolTypeOK'
  BY DEF Consistent, MetricsTypeOK, PoolTypeOK, TakeTask, FinishTask, Leave, metricsVars
<1>3. Alive' /\ NoLeak'
  BY <1>1 DEF Consistent, Alive, NoLeak, PoolTypeOK, TakeTask, FinishTask, Leave
<1>4. \A v \in WorkerId : goroutine[v] = "gone" => goroutine'[v] = "gone"
  BY DEF Consistent, PoolTypeOK, TakeTask, FinishTask, Leave
<1>5. signalled' = signalled /\ UNCHANGED metricsVars
  BY DEF TakeTask, FinishTask, Leave
<1> QED
  BY <1>1, <1>2, <1>3, <1>4, <1>5 DEF Consistent, metricsVars

-----------------------------------------------------------------------------
(* The initial state satisfies the invariant.                              *)
LEMMA InitInv == Init => IInv
<1> SUFFICES ASSUME Init PROVE IInv
  OBVIOUS
<1>1. workers = {} /\ Registered = {} /\ Leaving = {}
  BY DEF Init, PoolInit, MetricsInit, workers, Registered, Leaving, NotIdle
<1>2. IsFiniteSet({}) /\ Cardinality({}) = 0
  BY FS_EmptySet
<1>3. ScalerTypeOK
  BY PoolAssumption DEF Init, ScalerTypeOK, NoSnapshot, Action
<1>4. MetricsTypeOK /\ Alive /\ NoLeak
  BY DEF Init, PoolInit, MetricsInit, MetricsTypeOK, Alive, NoLeak, NotIdle
<1>7. poolDone \in BOOLEAN
  BY DEF Init, PoolInit
<1>8. PoolTypeOK
  BY <1>7 DEF Init, PoolInit, PoolTypeOK, WorkerState
<1>5. Consistent(Leaving)
  BY <1>1, <1>2, <1>4, <1>8, PoolAssumption DEF Consistent, Init, MetricsInit
<1>6. InBoot /\ Beyond /\ Removing /\ TargetsInRange
  BY <1>1, <1>2, PoolAssumption DEF Init, InBoot, Beyond, Removing, TargetsInRange
<1> QED
  BY <1>3, <1>5, <1>6 DEF IInv

(* AddWorker at any moment outside of Start keeps what holds of the scaler.*)
LEMMA AddKeeps ==
    ASSUME IInv, AddWorker, pc # "boot", UNCHANGED <<pc, target>>
    PROVE  Consistent(Leaving)' /\ InBoot' /\ Beyond' /\ Removing'
<1>1. PICK gone : gone = Leaving
  OBVIOUS
<1>2. Leaving' = gone
  BY <1>1 DEF Leaving
<1>3. Consistent(gone)
  BY <1>1 DEF IInv
<1>4. /\ Consistent(gone)'
      /\ Cardinality(workers') >= Cardinality(workers)
      /\ workers \subseteq workers'
      /\ \A w \in Registered : goroutine'[w] = goroutine[w]
                               /\ (w \in signalled => w \in signalled')
  BY <1>3, AddWorkerStep
<1>5. Consistent(Leaving)'
  BY <1>2, <1>4
<1>6. Cardinality(workers) \in Nat /\ Cardinality(workers') \in Nat
  BY <1>3, <1>4, FS_CardinalityType DEF Consistent
<1>7. InBoot' /\ Beyond'
  BY <1>4, <1>6, PoolAssumption DEF IInv, InBoot, Beyond
<1>8. workers \subseteq Registered
  BY <1>3 DEF Consistent
<1>9. Removing'
  BY <1>4, <1>6, <1>8, PoolAssumption DEF IInv, Removing
<1> QED
  BY <1>5, <1>7, <1>9
(* What a step keeps that leaves the pool's map, the metrics' entries and  *)
(* the removal under way alone.                                            *)
LEMMA QuietKeeps ==
    ASSUME IInv, UNCHANGED <<poolVars, activeWorkers, idleWorkers, busyWorkers, target>>,
           Registered' = Registered, MetricsTypeOK',
           pc # "boot", pc' # "boot", Leaving' = Leaving,
           pc' = pc \/ {pc, pc'} \cap {"shutdown", "await", "delete", "unregister"} = {}
    PROVE  Consistent(Leaving)' /\ InBoot' /\ Beyond' /\ Removing'
<1>1. PICK gone : gone = Leaving
  OBVIOUS
<1>2. Consistent(gone)
  BY <1>1 DEF IInv
<1>3. Consistent(gone)' /\ workers' = workers
  BY <1>2, QuietStep DEF poolVars
<1>4. Consistent(Leaving)'
  BY <1>1, <1>3
<1>5. Cardinality(workers') = Cardinality(workers)
  BY <1>3
<1>6. InBoot' /\ Beyond'
  BY <1>5 DEF IInv, InBoot, Beyond
<1>7. Removing'
  BY <1>3, <1>5 DEF IInv, Removing, poolVars
<1> QED
  BY <1>4, <1>6, <1>7

(* Every step preserves the invariant.                                     *)
LEMMA NextInv == IInv /\ [Next]_vars => IInv'
<1> SUFFICES ASSUME IInv, [Next]_vars PROVE IInv'
  OBVIOUS
<1>t. ScalerTypeOK /\ MetricsTypeOK /\ PoolTypeOK /\ TargetsInRange
  BY DEF IInv, Consistent
<1>c. Cardinality(workers) \in Nat
  BY FS_CardinalityType DEF IInv, Consistent
<1>1. CASE PoolStart
  <2>1. Leaving = {} /\ Leaving' = {}
    BY <1>1 DEF PoolStart, Leaving
  <2>2. Consistent({})
    BY <2>1 DEF IInv
  <2>3. todo >= 1 /\ Cardinality(workers) + todo = MinWorkers /\ todo \in Int
    BY <1>1, <1>t DEF PoolStart, IInv, InBoot, ScalerTypeOK
  <2>4. Cardinality(workers) < MaxWorkers
    BY <1>c, <2>3, PoolAssumption
  <2>5. Consistent({})' /\ Cardinality(workers') = Cardinality(workers) + 1
    BY <1>1, <2>2, <2>4, AddWorkerStep DEF PoolStart
  <2>6. Consistent(Leaving)'
    BY <2>1, <2>5
  <2>7. ScalerTypeOK' /\ TargetsInRange'
    BY <1>1, <1>t DEF PoolStart, ScalerTypeOK, TargetsInRange, mainVars
  <2>8. InBoot' /\ Beyond'
    BY <1>1, <1>c, <2>3, <2>5, PoolAssumption DEF PoolStart, InBoot, Beyond
  <2>9. Removing'
    BY <1>1 DEF PoolStart, IInv, Removing
  <2> QED
    BY <2>6, <2>7, <2>8, <2>9 DEF IInv
<1>2. ASSUME NEW depth \in Depth, Measure(depth) PROVE IInv'
  <2>1. Registered' = Registered /\ MetricsTypeOK'
    BY <1>2, <1>t, ScalerAssumption DEF Measure, UpdateQueueDepth, Registered, MetricsTypeOK
  <2>2. OldestIdleExceeds(ScaleDownIdleTime) \in BOOLEAN
    BY DEF OldestIdleExceeds
  <2>3. ScalerTypeOK' /\ TargetsInRange'
    BY <1>2, <1>t, <2>2 DEF Measure, ScalerTypeOK, TargetsInRange, mainVars, MetricsTypeOK
  <2>4. Consistent(Leaving)' /\ InBoot' /\ Beyond' /\ Removing'
    BY <1>2, <2>1, QuietKeeps DEF Measure, UpdateQueueDepth, Leaving
  <2> QED
    BY <2>3, <2>4 DEF IInv
<1>3. CASE Decide
  <2>1. Registered' = Registered /\ MetricsTypeOK'
    BY <1>3, <1>t DEF Decide, metricsVars, Registered, MetricsTypeOK
  <2>2. Consistent(Leaving)' /\ InBoot' /\ Beyond' /\ Removing'
    BY <1>3, <2>1, QuietKeeps DEF Decide, metricsVars, Leaving
  <2> DEFINE c == GetWorkerCount
  <2>3. c \in Nat
    BY <1>c DEF GetWorkerCount
  <2>4. IdleStreak(c) \in Nat
    BY <1>t, <2>3, PoolAssumption DEF IdleStreak, ScalerTypeOK
  <2>5. consecutiveIdle' \in Nat
    BY <1>3, <1>t, <2>4 DEF Decide, ScalerTypeOK
  <2>6. CASE ShouldScaleUp(c)
    <3>1. /\ ScaleUpTarget(c) \in Nat /\ c < ScaleUpTarget(c) /\ ScaleUpTarget(c) <= MaxWorkers
          /\ ScaleUpTarget(c) - c <= c \div 2 + 1
      BY <1>t, <2>3, <2>6, UpTarget DEF ShouldScaleUp, MetricsTypeOK
    <3>2. /\ decision' = [action |-> "scale_up", current |-> c, desired |-> ScaleUpTarget(c)]
          /\ todo' = ScaleUpTarget(c) - c /\ pc' = "add"
      BY <1>3, <2>6 DEF Decide, DecideTo
    <3>3. TargetsInRange'
      BY <3>1, <3>2 DEF TargetsInRange
    <3>4. ScalerTypeOK'
      BY <1>3, <1>t, <2>3, <2>5, <3>1, <3>2 DEF Decide, ScalerTypeOK, Action, NoSnapshot, mainVars
    <3> QED
      BY <2>2, <3>3, <3>4 DEF IInv
  <2>7. CASE ~ShouldScaleUp(c) /\ ShouldScaleDown(c)
    <3>1. /\ ScaleDownTarget(c) \in Nat
          /\ MinWorkers <= ScaleDownTarget(c) /\ ScaleDownTarget(c) < c
          /\ c - ScaleDownTarget(c) = 1 \/ 4 * (c - ScaleDownTarget(c)) <= c
      BY <1>t, <2>3, <2>7, DownTarget DEF ShouldScaleDown, ScalerTypeOK
    <3>2. /\ decision' = [action |-> "scale_down", current |-> c, desired |-> ScaleDownTarget(c)]
          /\ todo' = c - ScaleDownTarget(c) /\ pc' = "remove"
      BY <1>3, <2>7 DEF Decide, DecideTo
    <3>3. TargetsInRange'
      BY <3>1, <3>2 DEF TargetsInRange
    <3>4. ScalerTypeOK'
      BY <1>3, <1>t, <2>3, <2>5, <3>1, <3>2 DEF Decide, ScalerTypeOK, Action, NoSnapshot, mainVars
    <3> QED
      BY <2>2, <3>3, <3>4 DEF IInv
  <2>8. CASE ~ShouldScaleUp(c) /\ ~ShouldScaleDown(c)
    <3>1. /\ decision' = [action |-> "no_action", current |-> c, desired |-> c]
          /\ todo' = 0 /\ pc' = "wait"
      BY <1>3, <2>8 DEF Decide, DecideTo
    <3>2. TargetsInRange'
      BY <3>1 DEF TargetsInRange
    <3>3. ScalerTypeOK'
      BY <1>3, <1>t, <2>3, <2>5, <3>1 DEF Decide, ScalerTypeOK, Action, NoSnapshot, mainVars
    <3> QED
      BY <2>2, <3>2, <3>3 DEF IInv
  <2> QED
    BY <2>6, <2>7, <2>8
<1>4. CASE ScaleUpAdd \/ ManualAdd
  <2>1. AddWorker /\ pc # "boot" /\ UNCHANGED <<pc, target>>
    BY <1>4 DEF ScaleUpAdd, ManualAdd, scalerVars
  <2>2. ScalerTypeOK' /\ TargetsInRange'
    BY <1>4, <1>t DEF ScaleUpAdd, ManualAdd, scalerVars, mainVars, ScalerTypeOK, TargetsInRange
  <2> QED
    BY <2>1, <2>2, AddKeeps DEF IInv
<1>5. CASE ScaleUpDone \/ ScaleDownDone \/ ScalerExit
  <2>1. Registered' = Registered /\ MetricsTypeOK'
    BY <1>5, <1>t DEF ScaleUpDone, ScaleDownDone, ScalerExit, metricsVars, Registered,
       MetricsTypeOK
  <2>2. ScalerTypeOK' /\ TargetsInRange'
    BY <1>5, <1>t, ScalerAssumption DEF ScaleUpDone, ScaleDownDone, ScalerExit, mainVars,
       ScalerTypeOK, TargetsInRange
  <2>3. Consistent(Leaving)' /\ InBoot' /\ Beyond' /\ Removing'
    BY <1>5, <2>1, QuietKeeps DEF ScaleUpDone, ScaleDownDone, ScalerExit, metricsVars, Leaving
  <2> QED
    BY <2>2, <2>3 DEF IInv
<1>6. CASE ScaleDownPick
  <2>1. Registered' = Registered /\ MetricsTypeOK' /\ Leaving = {} /\ Leaving' = {}
    BY <1>6, <1>t DEF ScaleDownPick, metricsVars, Registered, MetricsTypeOK, Leaving
  <2>2. CASE UNCHANGED <<poolVars, pc, target>>
    <3>1. ScalerTypeOK' /\ TargetsInRange'
      BY <1>6, <1>t, <2>2 DEF ScaleDownPick, mainVars, ScalerTypeOK, TargetsInRange
    <3>2. Consistent(Leaving)' /\ InBoot' /\ Beyond' /\ Removing'
      BY <1>6, <2>1, <2>2, QuietKeeps DEF ScaleDownPick, metricsVars
    <3> QED
      BY <3>1, <3>2 DEF IInv
  <2>3. ASSUME NEW w \in GetIdleWorker, MayRemove(w), MarkShuttingDown(w), target' = {w},
               pc' = "shutdown", UNCHANGED todo
        PROVE  IInv'
    <3>1. w \in WorkerId /\ w \in workers /\ Cardinality(workers) > MinWorkers
      BY <2>3 DEF MayRemove, workers, GetWorkerCount
    <3>2. workers' = workers
      BY <2>3, <3>1, <1>t DEF MarkShuttingDown, workers, PoolTypeOK
    <3>3. PoolTypeOK'
      BY <2>3, <3>1, <1>t DEF MarkShuttingDown, PoolTypeOK, WorkerState
    <3>4. Consistent({})
      BY <2>1 DEF IInv
    <3>5. (Alive /\ NoLeak)'
      BY <2>3, <3>2, <3>4 DEF MarkShuttingDown, Consistent, Alive, NoLeak
    <3>6. Consistent({})'
      BY <1>6, <2>1, <3>2, <3>3, <3>4, <3>5 DEF Consistent, ScaleDownPick, metricsVars
    <3>7. Consistent(Leaving)'
      BY <2>1, <3>6
    <3>8. ScalerTypeOK' /\ TargetsInRange'
      BY <1>6, <1>t, <2>3, <3>1 DEF ScaleDownPick, mainVars, ScalerTypeOK, TargetsInRange
    <3>9. Cardinality(workers') = Cardinality(workers)
      BY <3>2
    <3>10. InBoot' /\ Beyond' /\ Removing'
      BY <1>c, <2>3, <3>1, <3>2, <3>9, PoolAssumption DEF InBoot, Beyond, Removing
    <3> QED
      BY <3>7, <3>8, <3>10 DEF IInv
  <2> QED
    BY <1>6, <2>2, <2>3 DEF ScaleDownPick
<1>7. CASE ScaleDownShutdown
  <2>1. PICK w \in workers : target = {w}
    BY <1>7 DEF ScaleDownShutdown, IInv, Removing
  <2>2. w \in WorkerId /\ Shutdown(w) /\ pc = "shutdown"
        /\ pc' = IF w \in running THEN "await" ELSE "delete"
    BY <1>7, <2>1 DEF ScaleDownShutdown, workers
  <2>3. workers' = workers /\ Registered' = Registered /\ MetricsTypeOK'
    BY <1>7, <1>t, <2>2 DEF ScaleDownShutdown, Shutdown, workers, metricsVars, Registered,
       MetricsTypeOK
  <2>4. PoolTypeOK'
    BY <1>t, <2>2 DEF Shutdown, PoolTypeOK
  <2>5. Leaving = {} /\ Leaving' = {}
    BY <2>2 DEF Leaving
  <2>6. Consistent({})
    BY <2>5 DEF IInv
  <2>7. Alive' /\ NoLeak' /\ (goroutine[w] # "gone" => w \in signalled')
    BY <2>2, <2>3, <2>6 DEF Shutdown, Consistent, Alive, NoLeak
  <2>8. Consistent({})'
    BY <1>7, <2>3, <2>4, <2>6, <2>7 DEF Consistent, ScaleDownShutdown, metricsVars
  <2>9. Consistent(Leaving)'
    BY <2>5, <2>8
  <2>10. ScalerTypeOK' /\ TargetsInRange'
    BY <1>7, <1>t, <2>2 DEF ScaleDownShutdown, mainVars, ScalerTypeOK, TargetsInRange
  <2>11. Cardinality(workers') = Cardinality(workers) /\ target' = target
         /\ goroutine' = goroutine
    BY <1>7, <2>2, <2>3 DEF ScaleDownShutdown, Shutdown
  <2>12. Cardinality(workers) > MinWorkers
    BY <2>2 DEF IInv, Removing
  <2>13. InBoot' /\ Beyond' /\ Removing'
    BY <1>c, <2>1, <2>2, <2>3, <2>7, <2>11, <2>12, PoolAssumption DEF InBoot, Beyond, Removing
  <2> QED
    BY <2>9, <2>10, <2>13 DEF IInv
<1>8. CASE ScaleDownAwaited
  <2>1. Registered' = Registered /\ MetricsTypeOK' /\ Leaving = {} /\ Leaving' = {}
    BY <1>8, <1>t DEF ScaleDownAwaited, metricsVars, Registered, MetricsTypeOK, Leaving
  <2>2. Consistent({})
    BY <2>1 DEF IInv
  <2>3. Consistent({})' /\ workers' = workers
    BY <1>8, <2>1, <2>2, QuietStep DEF ScaleDownAwaited, metricsVars
  <2>4. Consistent(Leaving)'
    BY <2>1, <2>3
  <2>5. ScalerTypeOK' /\ TargetsInRange'
    BY <1>8, <1>t DEF ScaleDownAwaited, mainVars, ScalerTypeOK, TargetsInRange
  <2>6. Cardinality(workers') = Cardinality(workers)
    BY <2>3
  <2>7. InBoot' /\ Beyond' /\ Removing'
    BY <1>8, <2>3, <2>6 DEF ScaleDownAwaited, IInv, InBoot, Beyond, Removing, poolVars
  <2> QED
    BY <2>4, <2>5, <2>7 DEF IInv
<1>9. CASE ScaleDownDelete
  <2>1. PICK w \in workers : target = {w}
    BY <1>9 DEF ScaleDownDelete, IInv, Removing
  <2>2. w \in WorkerId /\ Delete(w) /\ pc = "delete" /\ pc' = "unregister" /\ target' = target
    BY <1>9, <2>1 DEF ScaleDownDelete, workers
  <2>3. workers' = workers \ {w}
    BY <1>t, <2>2 DEF Delete, workers, PoolTypeOK
  <2>4. Registered' = Registered /\ MetricsTypeOK'
    BY <1>9, <1>t DEF ScaleDownDelete, metricsVars, Registered, MetricsTypeOK
  <2>5. PoolTypeOK'
    BY <1>t, <2>2 DEF Delete, PoolTypeOK
  <2>6. Leaving = {} /\ Leaving' = {w}
    BY <2>1, <2>2 DEF Leaving
  <2>7. Consistent({})
    BY <2>6 DEF IInv
  <2>8. IsFiniteSet(workers') /\ Cardinality(workers') = Cardinality(workers) - 1
    BY <2>1, <2>3, <2>7, FS_RemoveElement DEF Consistent
  <2>9. goroutine[w] # "gone" => w \in signalled
    BY <2>1, <2>2 DEF IInv, Removing
  <2>10. Alive' /\ NoLeak'
    BY <2>2, <2>3, <2>7, <2>9 DEF Delete, Consistent, Alive, NoLeak
  <2>11. Cardinality(workers') <= MaxWorkers
    BY <1>c, <2>7, <2>8, PoolAssumption DEF Consistent
  <2>12. IsFiniteSet({w}) /\ {w} \cap workers' = {} /\ Registered' = workers' \cup {w}
    BY <2>1, <2>3, <2>4, <2>7, FS_Singleton DEF Consistent
  <2>13. Consistent({w})'
    BY <1>9, <2>4, <2>5, <2>7, <2>8, <2>10, <2>11, <2>12 DEF Consistent, ScaleDownDelete,
       metricsVars
  <2>14. Consistent(Leaving)'
    BY <2>6, <2>13
  <2>15. ScalerTypeOK' /\ TargetsInRange'
    BY <1>9, <1>t DEF ScaleDownDelete, mainVars, ScalerTypeOK, TargetsInRange
  <2>16. Cardinality(workers) > MinWorkers
    BY <2>2 DEF IInv, Removing
  <2>17. InBoot' /\ Beyond' /\ Removing'
    BY <1>c, <2>1, <2>2, <2>8, <2>16, PoolAssumption DEF InBoot, Beyond, Removing
  <2> QED
    BY <2>14, <2>15, <2>17 DEF IInv
<1>10. CASE ScaleDownUnregister
  <2>1. PICK w \in WorkerId : target = {w}
    BY <1>10 DEF ScaleDownUnregister, IInv, Removing
  <2>2. UnregisterWorker(w) /\ pc = "unregister" /\ pc' = "remove" /\ target' = {}
    BY <1>10, <2>1 DEF ScaleDownUnregister
  <2>3. Leaving = {w} /\ Leaving' = {}
    BY <2>1, <2>2 DEF Leaving
  <2>4. Consistent({w})
    BY <2>3 DEF IInv
  <2>5. w \in Registered /\ w \notin workers
    BY <2>4 DEF Consistent
  <2>6. UNCHANGED poolVars /\ workers' = workers
    BY <1>10 DEF ScaleDownUnregister, poolVars, workers
  <2>7. Registered' = Registered \ {w}
    BY <1>t, <2>2 DEF UnregisterWorker, Registered, NotIdle, MetricsTypeOK
  <2>8. IsFiniteSet(Registered)
    BY <2>4, FS_Union DEF Consistent
  <2>9. Cardinality(Registered) \in Nat /\ Cardinality(Registered') \in Nat
        /\ Cardinality(Registered') = Cardinality(Registered) - 1
    BY <2>5, <2>7, <2>8, FS_RemoveElement, FS_CardinalityType
  <2>10. activeWorkers' = activeWorkers - 1 /\ idleWorkers' = idleWorkers - 1
         /\ busyWorkers' = busyWorkers /\ queueDepth' = queueDepth
         /\ idleFor' = [idleFor EXCEPT ![w] = NotIdle]
    BY <2>2, <2>5 DEF UnregisterWorker, Registered
  <2>11. /\ activeWorkers' = idleWorkers' /\ busyWorkers' = 0
         /\ idleWorkers' = Cardinality(Registered')
         /\ activeWorkers' \in Nat /\ idleWorkers' \in Nat /\ busyWorkers' \in Nat
    BY <2>4, <2>9, <2>10 DEF Consistent
  <2>12. MetricsTypeOK'
    BY <1>t, <2>10, <2>11 DEF MetricsTypeOK, NotIdle
  <2>13. Registered' = workers' \cup {} /\ IsFiniteSet({})
    BY <2>4, <2>5, <2>6, <2>7, FS_EmptySet DEF Consistent
  <2>14. PoolTypeOK' /\ Alive' /\ NoLeak'
    BY <2>4, <2>6 DEF Consistent, PoolTypeOK, Alive, NoLeak, poolVars
  <2>15. Consistent({})'
    BY <2>4, <2>6, <2>11, <2>12, <2>13, <2>14 DEF Consistent
  <2>16. Consistent(Leaving)'
    BY <2>3, <2>15
  <2>17. ScalerTypeOK' /\ TargetsInRange'
    BY <1>10, <1>t DEF ScaleDownUnregister, mainVars, ScalerTypeOK, TargetsInRange
  <2>18. Cardinality(workers') = Cardinality(workers)
    BY <2>6
  <2>19. InBoot' /\ Beyond' /\ Removing'
    BY <2>2, <2>18 DEF IInv, InBoot, Beyond, Removing
  <2> QED
    BY <2>16, <2>17, <2>19 DEF IInv
<1>11. CASE Quit \/ StopScaler \/ PoolShutdown \/ PoolShutdownReturns
  <2>1. /\ UNCHANGED <<metricsVars, scalerVars, manualAdds>>
        /\ UNCHANGED <<workerStates, goroutine, running, signalled>>
        /\ quitting' \in {"cancelled", "stopped", "shutting", "graceful", "timeout"}
    BY <1>11 DEF Quit, StopScaler, PoolShutdown, PoolShutdownReturns, QuitStep, poolVars
  <2>a. poolDone' = poolDone \/ poolDone' = TRUE
    BY <1>11 DEF Quit, StopScaler, PoolShutdown, PoolShutdownReturns, poolVars
  <2>b. poolDone \in BOOLEAN
    BY <1>t DEF PoolTypeOK
  <2>2. poolDone' \in BOOLEAN
    BY <2>a, <2>b, Zenon
  <2>3. workers' = workers /\ Registered' = Registered /\ Leaving' = Leaving
    BY <2>1 DEF workers, Registered, Leaving, metricsVars, scalerVars
  <2>4. MetricsTypeOK' /\ ScalerTypeOK' /\ TargetsInRange'
    BY <1>t, <2>1 DEF MetricsTypeOK, ScalerTypeOK, TargetsInRange, metricsVars, scalerVars
  <2>5. PoolTypeOK'
    BY <1>t, <2>1, <2>2 DEF PoolTypeOK
  <2>6. Alive' /\ NoLeak'
    BY <2>1, <2>3 DEF IInv, Consistent, Alive, NoLeak
  <2>7. Consistent(Leaving)'
    BY <2>1, <2>3, <2>4, <2>5, <2>6 DEF IInv, Consistent, metricsVars
  <2>8. Cardinality(workers') = Cardinality(workers)
    BY <2>3
  <2>9. InBoot' /\ Beyond' /\ Removing'
    BY <2>1, <2>3, <2>8 DEF IInv, InBoot, Beyond, Removing, scalerVars
  <2> QED
    BY <2>4, <2>7, <2>9 DEF IInv
<1>12. CASE Tick
  <2>1. MetricsTypeOK' /\ Registered' = Registered
    BY <1>12, <1>t, MetricsAssumption DEF Tick, Older, MetricsTypeOK, Registered, NotIdle
  <2>2. PICK gone : gone = Leaving
    OBVIOUS
  <2>3. Consistent(gone)' /\ workers' = workers
    BY <1>12, <2>1, <2>2, QuietStep DEF Tick, IInv, poolVars
  <2>4. Leaving' = gone
    BY <1>12, <2>2 DEF Tick, Leaving
  <2>5. Consistent(Leaving)'
    BY <2>3, <2>4
  <2>6. ScalerTypeOK' /\ TargetsInRange'
    BY <1>12, <1>t DEF Tick, Less, ScalerTypeOK, TargetsInRange, mainVars
  <2>7. Cardinality(workers') = Cardinality(workers)
    BY <2>3
  <2>8. InBoot' /\ Beyond' /\ Removing'
    BY <1>12, <2>3, <2>7 DEF Tick, IInv, InBoot, Beyond, Removing, poolVars
  <2> QED
    BY <2>5, <2>6, <2>8 DEF IInv
<1>13. ASSUME NEW w \in WorkerId, GoroutineStep(w) PROVE IInv'
  <2>1. PICK gone : gone = Leaving
    OBVIOUS
  <2>2. /\ Consistent(gone)' /\ workers' = workers
        /\ \A v \in WorkerId : goroutine[v] = "gone" => goroutine'[v] = "gone"
        /\ signalled' = signalled
    BY <1>13, <2>1, GoroutineKeeps DEF GoroutineStep, IInv
  <2>3. UNCHANGED <<scalerVars, mainVars>>
    BY <1>13 DEF GoroutineStep
  <2>4. Consistent(Leaving)'
    BY <2>1, <2>2, <2>3 DEF Leaving, scalerVars
  <2>5. ScalerTypeOK' /\ TargetsInRange'
    BY <1>t, <2>3 DEF ScalerTypeOK, TargetsInRange, scalerVars, mainVars
  <2>6. Cardinality(workers') = Cardinality(workers)
    BY <2>2
  <2>7. target \subseteq WorkerId
    BY <1>t DEF ScalerTypeOK
  <2>8. InBoot' /\ Beyond' /\ Removing'
    BY <2>2, <2>3, <2>6, <2>7 DEF IInv, InBoot, Beyond, Removing, scalerVars
  <2> QED
    BY <2>4, <2>5, <2>8 DEF IInv
<1>14. CASE UNCHANGED vars
  <2>1. workers' = workers /\ Registered' = Registered /\ Leaving' = Leaving
    BY <1>14 DEF vars, workers, Registered, Leaving, metricsVars, poolVars, scalerVars
  <2>2. MetricsTypeOK' /\ ScalerTypeOK' /\ TargetsInRange' /\ PoolTypeOK' /\ Alive' /\ NoLeak'
    BY <1>14, <1>t, <2>1 DEF IInv, Consistent, vars, MetricsTypeOK, ScalerTypeOK, TargetsInRange,
       PoolTypeOK, Alive, NoLeak, metricsVars, poolVars, scalerVars, mainVars
  <2>3. Consistent(Leaving)'
    BY <1>14, <2>1, <2>2 DEF IInv, Consistent, vars, metricsVars
  <2>4. Cardinality(workers') = Cardinality(workers)
    BY <2>1
  <2>5. InBoot' /\ Beyond' /\ Removing'
    BY <1>14, <2>1, <2>4 DEF IInv, InBoot, Beyond, Removing, vars, poolVars, scalerVars
  <2> QED
    BY <2>2, <2>3, <2>5 DEF IInv
<1> QED
  BY <1>1, <1>2, <1>3, <1>4, <1>5, <1>6, <1>7, <1>8, <1>9, <1>10, <1>11, <1>12, <1>13, <1>14
     DEF Next, ScalerStep, MainStep

(* The invariant holds in every reachable state.                           *)
LEMMA Invariance == Spec => []IInv
BY InitInv, NextInv, PTL DEF Spec

-----------------------------------------------------------------------------
(* Every variable keeps its type and no counter of the metrics becomes     *)
(* negative (RegisterWorker, UnregisterWorker).                            *)
THEOREM ScalerTypes == Spec => []TypeOK
<1>1. IInv => TypeOK
  BY DEF IInv, Consistent, TypeOK
<1> QED
  BY <1>1, Invariance, PTL

(* The pool's size stays between minimum and maximum, whoever else adds    *)
(* workers, as long as the scaler alone removes them (AddWorker,           *)
(* RemoveWorker).                                                          *)
THEOREM PoolBoundsHold == Spec => []PoolBounds
<1>1. IInv => PoolBounds
  BY DEF IInv, Consistent, Beyond, PoolBounds, GetWorkerCount
<1> QED
  BY <1>1, Invariance, PTL

(* The metrics count each worker of the pool once (RegisterWorker in       *)
(* AddWorker, UnregisterWorker after the delete in RemoveWorker).          *)
THEOREM CountsHold == Spec => []CountsAgree
<1>1. IInv => CountsAgree
  BY DEF IInv, Consistent, MetricsTypeOK, Leaving, CountsAgree
<1> QED
  BY <1>1, Invariance, PTL

(* Every decision asks for a size within the bounds, above the present one *)
(* by at most half of it plus one, or below it by at most a quarter or one *)
(* (decide and the two targets).                                           *)
THEOREM TargetsHold == Spec => []TargetsInRange
<1>1. IInv => TargetsInRange
  BY DEF IInv
<1> QED
  BY <1>1, Invariance, PTL

(* No goroutine is left without a pool entry and without a stop signal     *)
(* (RemoveWorker, Shutdown).                                               *)
THEOREM NoLeakHolds == Spec => []NoLeak
<1>1. IInv => NoLeak
  BY DEF IInv, Consistent
<1> QED
  BY <1>1, Invariance, PTL
=============================================================================
