----------------------------- MODULE AutoScaler -----------------------------
(***************************************************************************)
(* internal/monitoring/scaler.go on top of the pool, driven the way        *)
(* examples/autoscaling does it: start the pool, start the scaler, quit on *)
(* a signal. Other goroutines may add workers through the pool's interface;*)
(* the scaler alone removes them. A cooldown is modelled by the time that  *)
(* is left of it, and the queue by the depths Size may answer with.        *)
(***************************************************************************)
EXTENDS Pool

CONSTANTS Depth,               \* the depths a measurement may give
          ScaleUpThreshold,
          ScaleUpCooldown, ScaleDownCooldown,   \* in ticks
          MaxManualAdds        \* bound: calls of AddWorker by others

ASSUME ScalerAssumption ==
    /\ Depth \subseteq Nat
    /\ {ScaleUpThreshold, ScaleUpCooldown, ScaleDownCooldown, MaxManualAdds} \subseteq Nat

VARIABLES
    pc,                \* of the goroutine that starts the pool, then of the scaler
    todo,              \* iterations left of the loop it is in
    target,            \* the workers RemoveWorker is busy with: none or one
    snapshot,          \* what evaluate took from the metrics
    decision,          \* the last decision: action, CurrentCount, DesiredCount
    consecutiveIdle,
    upCooldown, downCooldown,   \* time left
    quitting,          \* how far main is with quitting
    manualAdds

scalerVars == <<pc, todo, target, snapshot, decision, consecutiveIdle, upCooldown,
                downCooldown>>
mainVars == <<quitting, manualAdds>>
vars == <<metricsVars, poolVars, scalerVars, mainVars>>

Action == {"scale_up", "scale_down", "no_action"}

NoSnapshot == [idle |-> 0, idleTooLong |-> FALSE]

Init ==
    /\ MetricsInit /\ PoolInit
    /\ pc = "boot" /\ todo = MinWorkers /\ target = {} /\ snapshot = NoSnapshot
    /\ decision = [action |-> "no_action", current |-> 0, desired |-> 0]
    /\ consecutiveIdle = 0 /\ upCooldown = 0 /\ downCooldown = 0
    /\ quitting = "no" /\ manualAdds = 0

(* An iteration of Pool.Start; after the last one main starts the scaler.  *)
PoolStart ==
    /\ pc = "boot"
    /\ AddWorker
    /\ todo' = todo - 1
    /\ pc' = IF todo = 1 THEN "wait" ELSE "boot"
    /\ UNCHANGED <<target, snapshot, decision, consecutiveIdle, upCooldown, downCooldown,
                   mainVars>>

-----------------------------------------------------------------------------
(* evaluate.                                                               *)

(* The ticker fires, Size answers and a snapshot of the metrics is taken.  *)
(* When Size fails, as it does once the context is cancelled, evaluate     *)
(* returns and nothing has changed.                                        *)
Measure(depth) ==
    /\ pc = "wait" /\ quitting = "no"
    /\ UpdateQueueDepth(depth)
    /\ snapshot' = [idle |-> idleWorkers, idleTooLong |-> OldestIdleExceeds(ScaleDownIdleTime)]
    /\ pc' = "decide"
    /\ UNCHANGED <<poolVars, todo, target, decision, consecutiveIdle, upCooldown,
                   downCooldown, mainVars>>

ShouldScaleUp(current) ==
    /\ current < MaxWorkers
    /\ upCooldown = 0
    /\ \/ queueDepth > ScaleUpThreshold
       \/ snapshot.idle = 0 /\ queueDepth > 0
       \/ queueDepth > current * 10

MostlyIdle(current) == queueDepth = 0 /\ snapshot.idle >= current \div 2

ShouldScaleDown(current) ==
    /\ current > MinWorkers /\ snapshot.idle # 0 /\ downCooldown = 0
    /\ IF snapshot.idleTooLong THEN consecutiveIdle + 1 >= 2 ELSE MostlyIdle(current)

(* What shouldScaleDown leaves in consecutiveIdle.                         *)
IdleStreak(current) ==
    CASE current <= MinWorkers -> consecutiveIdle
      [] current > MinWorkers /\ snapshot.idle = 0 -> 0
      [] current > MinWorkers /\ snapshot.idle # 0 ->
            IF downCooldown > 0 THEN consecutiveIdle
            ELSE IF snapshot.idleTooLong THEN consecutiveIdle + 1
            ELSE IF MostlyIdle(current) THEN consecutiveIdle ELSE 0

AtMost(n, limit) == IF n > limit THEN limit ELSE n
AtLeast(n, limit) == IF n < limit THEN limit ELSE n

(* Two slips in calculateScaleUpTarget: the cap is forgotten, and half of  *)
(* the pool is rounded down.                                               *)
ScaleUpTarget_Uncapped(current) ==
    AtMost(AtLeast(current + queueDepth \div 50, current + 1), current + current \div 2 + 1)

ScaleUpTarget_Half(current) ==
    AtMost(AtMost(AtLeast(current + queueDepth \div 50, current + 1), MaxWorkers),
           current + current \div 2)

(* calculateScaleUpTarget: a worker per 50 tasks and at least one, up to   *)
(* the maximum, and half of the pool plus one at a time. Its comment says  *)
(* at most 50%; the one that is added makes two workers grow to four.      *)
ScaleUpTarget(current) ==
    AtMost(AtMost(AtLeast(current + queueDepth \div 50, current + 1), MaxWorkers),
           current + current \div 2 + 1)

(* A slip in calculateScaleDownTarget: a quarter is rounded down.          *)
ScaleDownTarget_Quarter(current) ==
    AtLeast(AtLeast(current - snapshot.idle, MinWorkers), current - current \div 4)

(* calculateScaleDownTarget: the idle workers, down to the minimum, and a  *)
(* quarter of the pool at a time.                                          *)
ScaleDownTarget(current) ==
    AtLeast(AtLeast(current - snapshot.idle, MinWorkers),
            current - AtLeast(current \div 4, 1))

DecideTo(action, current, desired) ==
    decision' = [action |-> action, current |-> current, desired |-> desired]

(* The pool's count is taken later than the snapshot: a worker may have    *)
(* been added in between.                                                  *)
Decide ==
    LET current == GetWorkerCount
        up == ShouldScaleUp(current)
        down == ~up /\ ShouldScaleDown(current)
    IN  /\ pc = "decide"
        /\ consecutiveIdle' = IF up THEN consecutiveIdle ELSE IdleStreak(current)
        /\ \/ /\ up
              /\ DecideTo("scale_up", current, ScaleUpTarget(current))
              /\ todo' = ScaleUpTarget(current) - current
              /\ pc' = "add"
           \/ /\ down
              /\ DecideTo("scale_down", current, ScaleDownTarget(current))
              /\ todo' = current - ScaleDownTarget(current)
              /\ pc' = "remove"
           \/ /\ ~up /\ ~down
              /\ DecideTo("no_action", current, current)
              /\ todo' = 0
              /\ pc' = "wait"
        /\ snapshot' = NoSnapshot
        /\ UNCHANGED <<metricsVars, poolVars, target, upCooldown, downCooldown, mainVars>>

-----------------------------------------------------------------------------
(* scaleUp and scaleDown.                                                  *)

ScaleUpAdd ==
    /\ pc = "add" /\ todo > 0
    /\ AddWorker
    /\ todo' = todo - 1
    /\ UNCHANGED <<pc, target, snapshot, decision, consecutiveIdle, upCooldown,
                   downCooldown, mainVars>>

ScaleUpDone ==
    /\ pc = "add" /\ todo <= 0
    /\ upCooldown' = ScaleUpCooldown
    /\ pc' = "wait"
    /\ UNCHANGED <<metricsVars, poolVars, todo, target, snapshot, decision, consecutiveIdle,
                   downCooldown, mainVars>>

(* GetIdleWorker, and RemoveWorker up to its first unlock. The loop ends   *)
(* when no worker is idle and goes on when the pool refuses.               *)
ScaleDownPick ==
    /\ pc = "remove" /\ todo > 0
    /\ IF GetIdleWorker = {}
       THEN todo' = 0 /\ UNCHANGED <<poolVars, pc, target>>
       ELSE \E w \in GetIdleWorker :
               IF MayRemove(w)
               THEN /\ MarkShuttingDown(w) /\ target' = {w} /\ pc' = "shutdown"
                    /\ UNCHANGED todo
               ELSE todo' = todo - 1 /\ UNCHANGED <<poolVars, pc, target>>
    /\ UNCHANGED <<metricsVars, snapshot, decision, consecutiveIdle, upCooldown,
                   downCooldown, mainVars>>

(* RemoveWorker calls Shutdown, which returns at once for a worker that    *)
(* does not run any more.                                                  *)
ScaleDownShutdown ==
    /\ pc = "shutdown"
    /\ \E w \in target : Shutdown(w) /\ pc' = IF w \in running THEN "await" ELSE "delete"
    /\ UNCHANGED <<metricsVars, todo, target, snapshot, decision, consecutiveIdle, upCooldown,
                   downCooldown, mainVars>>

(* Shutdown's wait is over: the goroutine has ended, or it is still busy   *)
(* when the timeout passes or the scaler's context is cancelled.           *)
ScaleDownAwaited ==
    /\ pc = "await"
    /\ pc' = "delete"
    /\ UNCHANGED <<metricsVars, poolVars, todo, target, snapshot, decision, consecutiveIdle,
                   upCooldown, downCooldown, mainVars>>

ScaleDownDelete ==
    /\ pc = "delete"
    /\ \E w \in target : Delete(w)
    /\ pc' = "unregister"
    /\ UNCHANGED <<metricsVars, todo, target, snapshot, decision, consecutiveIdle, upCooldown,
                   downCooldown, mainVars>>

ScaleDownUnregister ==
    /\ pc = "unregister"
    /\ \E w \in target : UnregisterWorker(w)
    /\ target' = {}
    /\ todo' = todo - 1
    /\ pc' = "remove"
    /\ UNCHANGED <<poolVars, snapshot, decision, consecutiveIdle, upCooldown,
                   downCooldown, mainVars>>

ScaleDownDone ==
    /\ pc = "remove" /\ todo <= 0
    /\ downCooldown' = ScaleDownCooldown
    /\ consecutiveIdle' = 0
    /\ pc' = "wait"
    /\ UNCHANGED <<metricsVars, poolVars, todo, target, snapshot, decision, upCooldown,
                   mainVars>>

(* run returns: its context is cancelled or stopChan closed.               *)
ScalerExit ==
    /\ pc = "wait" /\ quitting # "no"
    /\ pc' = "exited"
    /\ UNCHANGED <<metricsVars, poolVars, todo, target, snapshot, decision, consecutiveIdle,
                   upCooldown, downCooldown, mainVars>>

-----------------------------------------------------------------------------
(* The surroundings.                                                       *)

(* Somebody else calls AddWorker, at any moment of what the scaler does.   *)
ManualAdd ==
    /\ manualAdds < MaxManualAdds /\ pc # "boot"
    /\ AddWorker
    /\ manualAdds' = manualAdds + 1
    /\ UNCHANGED <<scalerVars, quitting>>

QuitStep(from, to) ==
    /\ quitting = from /\ quitting' = to
    /\ UNCHANGED <<metricsVars, scalerVars, manualAdds>>

(* A signal arrives: main cancels the scaler's context, stops the scaler,  *)
(* which does not wait for its loop, and cancels the pool's context.       *)
Quit == pc # "boot" /\ QuitStep("no", "cancelled") /\ UNCHANGED poolVars
StopScaler == QuitStep("cancelled", "stopped") /\ UNCHANGED poolVars
PoolShutdown ==
    /\ QuitStep("stopped", "shutting")
    /\ poolDone' = TRUE
    /\ UNCHANGED <<workerStates, goroutine, running, signalled>>

(* Pool.Shutdown returns nil when its wait group is zero, or an error when *)
(* its context is done. Nothing ever adds to the wait group.               *)
PoolShutdownReturns ==
    /\ \E r \in {"graceful", "timeout"} : QuitStep("shutting", r)
    /\ UNCHANGED poolVars

Less(n) == IF n > 0 THEN n - 1 ELSE 0

Tick ==
    /\ idleFor' = Older
    /\ upCooldown' = Less(upCooldown)
    /\ downCooldown' = Less(downCooldown)
    /\ UNCHANGED <<activeWorkers, idleWorkers, busyWorkers, queueDepth, poolVars,
                   pc, todo, target, snapshot, decision, consecutiveIdle, mainVars>>

-----------------------------------------------------------------------------
ScalerStep ==
    \/ PoolStart
    \/ \E depth \in Depth : Measure(depth)
    \/ Decide
    \/ ScaleUpAdd \/ ScaleUpDone
    \/ ScaleDownPick \/ ScaleDownShutdown \/ ScaleDownAwaited
    \/ ScaleDownDelete \/ ScaleDownUnregister \/ ScaleDownDone
    \/ ScalerExit

GoroutineStep(w) ==
    (TakeTask(w) \/ FinishTask(w) \/ Leave(w)) /\ UNCHANGED <<scalerVars, mainVars>>

MainStep == ManualAdd \/ Quit \/ StopScaler \/ PoolShutdown \/ PoolShutdownReturns

Next == ScalerStep \/ MainStep \/ Tick \/ \E w \in WorkerId : GoroutineStep(w)

Spec == Init /\ [][Next]_vars

(* The scheduler runs the scaler, whose ticker keeps firing and whose      *)
(* measurements succeed; time passes; tasks end; a worker that is told to  *)
(* stop does not choose its ticker forever.                                *)
FairSpec ==
    /\ Spec
    /\ WF_vars(ScalerStep)
    /\ WF_vars(Tick)
    /\ \A w \in WorkerId :
          /\ WF_vars(FinishTask(w) /\ UNCHANGED <<scalerVars, mainVars>>)
          /\ SF_vars(Leave(w) /\ UNCHANGED <<scalerVars, mainVars>>)

-----------------------------------------------------------------------------
(* Properties.                                                             *)

MetricsTypeOK ==
    /\ activeWorkers \in Nat /\ idleWorkers \in Nat /\ busyWorkers \in Nat
    /\ idleFor \in [WorkerId -> Nat \cup {NotIdle}]
    /\ queueDepth \in Nat

PoolTypeOK ==
    /\ workerStates \in [WorkerId -> WorkerState \cup {"none"}]
    /\ goroutine \in [WorkerId -> {"idle", "busy", "gone"}]
    /\ running \subseteq WorkerId /\ signalled \subseteq WorkerId
    /\ poolDone \in BOOLEAN

ScalerTypeOK ==
    /\ pc \in {"boot", "wait", "decide", "add", "remove", "shutdown", "await", "delete",
               "unregister", "exited"}
    /\ todo \in Int
    /\ target \subseteq WorkerId
    /\ snapshot \in [idle : Nat, idleTooLong : BOOLEAN]
    /\ decision \in [action : Action, current : Nat, desired : Nat]
    /\ consecutiveIdle \in Nat /\ upCooldown \in Nat /\ downCooldown \in Nat
    /\ quitting \in {"no", "cancelled", "stopped", "shutting", "graceful", "timeout"}
    /\ manualAdds \in Nat

(* Every variable has its type; in particular no counter of the metrics    *)
(* becomes negative.                                                       *)
TypeOK == MetricsTypeOK /\ PoolTypeOK /\ ScalerTypeOK

(* The pool never has more workers than its maximum, and from the end of   *)
(* Start on never fewer than its minimum, although RemoveWorker checks the *)
(* count, unlocks, waits and only then deletes, and others add meanwhile.  *)
PoolBounds ==
    /\ GetWorkerCount <= MaxWorkers
    /\ pc # "boot" => GetWorkerCount >= MinWorkers

(* The metrics count every worker of the pool once: the counters agree with*)
(* each other and with the entries, and differ from the pool only by the   *)
(* worker that RemoveWorker has deleted and not yet unregistered.          *)
CountsAgree ==
    /\ activeWorkers = idleWorkers + busyWorkers
    /\ idleWorkers = Cardinality(Registered) /\ busyWorkers = 0
    /\ Registered = workers \cup (IF pc = "unregister" THEN target ELSE {})

(* A decision asks for a size within the bounds that differs from the one  *)
(* it was made for in its direction: by at most one more than half of the  *)
(* pool upwards, which is a pool's doubling at two workers and not the 50% *)
(* of the comment in the code; by a quarter downwards, but at least by one *)
(* (calculateScaleUpTarget and calculateScaleDownTarget under the          *)
(* conditions of decide).                                                  *)
TargetsInRange ==
    LET d == decision IN
    /\ d.action = "scale_up" =>
          d.current < d.desired /\ d.desired <= MaxWorkers
          /\ d.desired - d.current <= d.current \div 2 + 1
    /\ d.action = "scale_down" =>
          MinWorkers <= d.desired /\ d.desired < d.current
          /\ (d.current - d.desired = 1 \/ 4 * (d.current - d.desired) <= d.current)

(* A goroutine that still runs is one of the pool's or has been told to    *)
(* stop, also when the removal gave up waiting for it (RemoveWorker,       *)
(* Shutdown, the timeout between them).                                    *)
NoLeak == \A w \in WorkerId : goroutine[w] # "gone" => w \in workers \cup signalled

(* If every measurement from some point on exceeds the threshold, the pool *)
(* reaches its maximum again and again, unless workers that the metrics    *)
(* call idle keep being removed; in that case workers keep being added as  *)
(* well: no cooldown, idle streak or order of the two conditions in decide *)
(* starves the scaling up.                                                 *)
GrowsUnderLoad ==
    <>[](queueDepth > ScaleUpThreshold /\ quitting = "no") =>
        \/ []<>(GetWorkerCount = MaxWorkers)
        \/ []<>(pc = "add" /\ todo > 0) /\ []<>(pc = "remove")

(* If the queue is measured empty from some point on, the pool shrinks to  *)
(* its minimum and stays there (shouldScaleDown, scaleDown).               *)
ShrinksWhenEmpty ==
    <>[](queueDepth = 0 /\ pc # "boot" /\ quitting = "no") => <>[](GetWorkerCount = MinWorkers)

(* docs/reliability.md: "WaitGroup ensures all goroutines complete": when  *)
(* Pool.Shutdown returns without an error no worker's goroutine runs.      *)
ShutdownWaits == quitting = "graceful" => \A w \in WorkerId : goroutine[w] = "gone"
=============================================================================
