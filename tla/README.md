# Spool: a TLA+ model of a Redis task queue

Spool is a task queue in Go. Clients submit tasks over HTTP to a broker, the
broker stores them in Redis, workers poll Redis, run a handler for each task,
retry failures with a delay and move what keeps failing to a dead letter queue.
A pool starts and stops workers, an auto-scaler resizes the pool, metrics and a
dashboard watch. This directory models the path of a task through the system,
the pool with its auto-scaler, and the monitoring that watches both; it checks
them with TLC on small instances and proves the central invariants with TLAPS.

## 1. Inventory

| Component | State | Operations | Interacts with | What makes it correct |
|---|---|---|---|---|
| task (`internal/task`) | record: id, priority, state, retry count | `MarkStarted`, `MarkCompleted`, `MarkFailed`, `ShouldRetry`, `GetRetryDelay` | value passed through JSON between all others | as many attempts as the budget, retry decision before the increment, delay never negative |
| queue (`internal/queue/redis.go`) | Redis: a list of ids per priority, data per id, processing keys, dead letter list, counters | `Enqueue`, `Dequeue`, `Ack`, `Nack`, `EnqueueDLQ`, `Purge`, sizes | Redis, several commands per call, no transaction | an id in one place, no task lost, priority order, counters that add up |
| storage (`internal/storage`) | Redis: task and result per id, a set of ids per state | `SaveTask`, `SaveResult`, queries | written by workers, read by the broker | an outcome is final, result and state agree |
| worker (`internal/worker/worker.go`) | goroutine: the task at hand, counters, running flag | `run`, `pollAndExecute`, `executeTask`, `handleTaskFailure`, `Stop`, `Shutdown` | queue, storage, registry | retries end, shutdown completes, a task in hand is not dropped |
| registry (`internal/task/handler.go`) | handlers by type | `Register`, `Execute` | worker | result and error agree |
| broker (`internal/broker`) | one goroutine per request | submit, batch, purge, queries | queue, storage | what it answers for is queued |
| pool (`internal/worker/pool.go`) | workers by id, their states, a context | `AddWorker`, `RemoveWorker`, `Shutdown` | workers, scaler, metrics | size within bounds, shutdown waits |
| instrumented worker (`internal/worker/instrumented.go`) | last counters seen, a channel that ends the copying | `Start`, `syncStatsLoop`, `Stop`, `Shutdown` | worker, metrics | a task is counted at most once and in the end, both goroutines end |
| metrics (`internal/monitoring/metrics.go`) | counts of idle, busy, active workers, series | register, mark busy/idle, record | pool, scaler, dashboard | counts agree with the registry |
| auto-scaler (`internal/monitoring/scaler.go`) | cooldowns, idle streak, history | `evaluate`, `decide`, `scaleUp`, `scaleDown` | metrics, pool | targets within bounds, no flapping |
| dashboard (`web/server.go`) | connections with a channel each, a channel of updates, one of events, recent events | `handleWebSocket`, `updateMetricsLoop`, `broadcastMetrics`, `BroadcastTaskEvent`, `Start`, `Stop` | metrics, net/http | updates in order, the last one shown, no send on a closed channel, nothing left of a client that left |
| config, logger, `cmd/*`, examples, benchmarks | none of their own | wiring, I/O | | not modelled |

What is hard here:

* *Interleaving.* A method of the queue is a sequence of Redis commands; those
  of other workers, requests and the purge come in between.
* *Failure.* A command may fail without effect, or take effect and the answer
  is lost; the code ignores most errors and cleans up after some.
* *Crashes.* A worker's process may die between any two commands. Nothing looks
  at the processing keys afterwards.
* *Cancellation.* `Enqueue` and `Dequeue` replace a context that is already
  cancelled when they are called; one that is cancelled during the call makes
  all further commands of the call fail, and every other method fails at once.
* *Channels.* The dashboard drops what does not fit into a channel; two
  goroutines close the same one; a `select` takes any case that is ready.

The list of hazards, line by line, is in `PROJECT.json`.

## 2. Modules

| Module | Models |
|---|---|
| `Task` | `internal/task/task.go`: the record and its methods |
| `RedisQueue` | `internal/queue/redis.go`: Redis, the outcome of a command, each queue method command by command |
| `RedisStorage` | `internal/storage/redis_store.go` |
| `Worker` | `internal/worker/worker.go`: the loop of one worker, its crash |
| `Broker` | `internal/broker/broker.go`: submissions, purge, disconnects, the broker's crash |
| `Spool` | all of the above composed, fairness, properties |
| `TaskLifecycle` | abstract: what the system does to one task |
| `MCSpool` | small requests, a view and a symmetry set for TLC |
| `CustodyProof` | proofs of type correctness and that an id is in one place |
| `RetryProof` | proofs about attempts, dead letters and outcomes |
| `DataProof` | proofs about task data, records, results, the purge and priorities |
| `LifecycleProof` | proofs that no task is lost, that `Spool` implements `TaskLifecycle`, that the counters add up, and how many tasks failures can lose |
| `Counting`, `CountingProof` | sums of counters, and how they change when one counter does |
| `Metrics` | `internal/monitoring/metrics.go`: worker counts, idle times, queue depth |
| `Pool` | `internal/worker/pool.go`, and the start and stop of a worker in `worker.go` |
| `AutoScaler` | `internal/monitoring/scaler.go` driving the pool, main that quits, properties |
| `MCScaling` | depths and a symmetry set for TLC |
| `ScalingProof` | proofs about the pool and the scaler |
| `InstrumentedWorker` | `internal/worker/instrumented.go` and the task counters of `metrics.go` |
| `InstrumentedProof` | proofs about the worker counts, what is copied, the totals and `Stop` |
| `Dashboard` | `web/server.go`, the streaming part, driven as `examples/dashboard` does |
| `DashboardProof` | proofs about its channels, connections, updates and events |

There are three towers. `Task`, `RedisQueue`, `RedisStorage`, `Worker`, `Broker`,
`Spool` each extend the one before; `TaskLifecycle` is instantiated by `Spool`
under a refinement mapping. `Metrics`, `Pool`, `AutoScaler` likewise. They meet
in the worker: the first tower has everything a worker does to a task and takes
the set of workers as given, the second has the set of workers change and only
tells whether a worker is inside a task. The third is the monitoring:
`InstrumentedWorker` extends `Metrics` as well, and `Dashboard`, which sees the
rest of the program as a number of finished tasks, stands alone. `Counting` has
the sums that `Spool` and `InstrumentedWorker` take over workers and lists.

### The task path

**State.** `lists`, `taskData`, `processing`, `dlq`, `dlqMeta`, `stats` are the
Redis keys of the queue, `store`, `index`, `result` those of the storage;
`indexing` are the workers between the two commands of `SaveTask`. Every
client (a worker, an HTTP request, the purge) has a program counter `pc` and
the local variables of the call it is in: `cur` the task, `got` the id just
popped, `scan` the priority being tried. `ctxDone` are the clients whose context
is cancelled, `fresh` those whose current call made a context of its own.
`arrived` and `attempts` are history variables that no guard reads.

**Steps.** A Redis command that can decide what happens next is a step of its
own: SET, RPUSH and the cleanup DEL of `Enqueue`; LPOP, GET and the LPUSH back
of `Dequeue`; each DEL of `Purge`; the RPUSH of `EnqueueDLQ`; the SET and the
SADD of `SaveTask` (`SaveTask`, `EndSaveTask`). Commands whose
errors the code ignores and whose keys no other client touches at that time form
one step, whose result is any subset of them (`Commands`): those of `Ack` and
`Nack`, the processing key after a GET, the DLQ metadata. A context that is cancelled between two commands of such a step has
the effect of an error on the later ones, which the runs with faults cover.

**Faults.** `Command` gives a command one of four outcomes: executed and
answered; `"error"`, not executed; `"lost"`, executed, the caller sees an error;
`"twice"`, executed, the answer lost, sent again by go-redis (`MaxRetries: 3`)
and executed again. A command whose context is cancelled is refused. A run
enables the kinds it is about, `MaxFaults` times; a group of ignored commands
counts as one fault however many of them fail.

**Abstractions.** Payload, task type, timestamps, error text, timeouts and
metadata are left out. A handler's success, failure or timeout is a free choice;
the deadline makes no difference, since both paths record a failure and return
an error. Redis data is never corrupt JSON, as every writer encodes a task.
Expiry of keys (processing after an hour, records after days) is not modelled. A
task's id is a value; `EmptyId` is the empty string, which `Ack`, `Nack` and the
storage refuse. SCAN returns every key present from its start to its end and may
return later ones. Redis itself keeps its data. A query by state is an operator,
not a step: it changes nothing, and its answer is that of one moment. A crash
takes one worker. `cmd/worker` runs several in one process, and a process ends
when it is killed, when a handler panics (nothing recovers it) or when main
returns; all its workers then go together. That is several crashes in a row,
each of which `crashes` counts. Priorities and counts of retries come from the
client and are any integers, without their width of 64 bits.

### Pool, metrics and scaler

**State.** `workerStates` is the pool's map (its keys are `workers`);
`goroutine`, `running` and `signalled` are the goroutine, the flag and the
channel of each worker. `activeWorkers`, `idleWorkers`, `busyWorkers`, `idleFor`
and `queueDepth` are the metrics. `pc`, `todo` and `target` say where the scaler
is in `evaluate`, in the loops of `scaleUp` and `scaleDown` and in
`RemoveWorker`; `quitting` says how far main is.

**Steps.** A critical section of the pool or of the metrics is a step. One
evaluation is `Measure` (queue depth and snapshot), `Decide` (count of the pool,
decision), then one step per worker added, and five per worker removed: pick and
mark, signal, wait, delete, unregister. Meanwhile workers take and finish tasks,
time passes, somebody else may add a worker, and main may quit: cancel, `Stop`,
`Pool.Shutdown`.

**Time.** An instant is represented by the time since it (`idleFor`) or until
its cooldown is over (`upCooldown`), and `Tick` advances all of them. Beyond the
values the scaler compares with they are not told apart, so the state space is
finite without a bound on time. The timeout of a shutdown may pass at any time.

**Abstractions.** The queue is the set of depths `Size` may answer with; a failed
`Size` ends the evaluation and changes nothing, so it is no step at all. Names of
workers are reused when nothing refers to them any more, where the pool counts
up. Of the decisions the last one is kept. Throughput, high and low marks,
histories and per-worker statistics are left out. That no code marks a worker of
the pool busy is in the model as it is in the code: `idleWorkers` counts all.

### Instrumented worker

**State.** `goroutine`, `running`, `signalled`, `processed` and `failed` are the
worker's; `sync` says where `syncStatsLoop` is, `seen`, `batch`,
`lastProcessed`, `lastFailed` are its variables; `stop` says how far `Stop` or
`Shutdown` is. `tasksProcessed`, `tasksInProgress` and `workerStats` are the
metrics' beside those of `Metrics`.

**Steps.** Each call into the metrics is a critical section of its own and a
step, so that tasks finish and `Stop` goes on in the middle of a round of the
loop. `Stop` is: close the loop's channel; signal the worker, or find that it
does not run; wait; unregister. A worker's counting and its return from a task
are one step, and so are the three calls of `Start`, which nobody else sees.
`Stoppable` are the workers that main stops.

**Left out.** A worker that is registered twice: `examples/dashboard/main.go:204`
registers the worker that `instrumented.go:31` registers again, which leaves the
idle count one too high for each of them. Durations, throughput samples, percentiles, series. Nothing but
tests calls `MarkWorkerBusy`, `RecordTaskStarted`, `RecordTaskFailed`,
`RecordTaskRetried` and the `InstrumentedPool`.

### Dashboard

**State.** A metrics update is the number of tasks finished when it was
collected, an event the number of its task in the order of `recentEvents`, a
client its one request for a stream. `send[c]` and `feed[c]` are the two
channels of a connection, `broadcast` and `taskEvents` the two all share;
`closedSend` are the closed ones. `locked` says that `mu` is held by a handler
that panicked. `shown[c]` and `live[c]` are what a client has been sent,
`greeted` are the clients that have seen no update after their greeting.

**Steps.** A handler goes through *register* (under `mu`), *greet* (collect and
write the metrics), *replay* (write the recent events, start the goroutine that
reads `taskEvents`) and its loop, in which it writes an update or an event or
sees its request cancelled and returns. The deferred close of its channel under
`mu` is part of the return: after `Stop` has closed the channel it panics, which
net/http recovers. An update is collected, sent, taken and delivered in four
steps, an event is announced, sent, taken and written in four. `Stop` closes
`done`, closes and clears the connections, and shuts the HTTP server down, which
waits for handlers until its timeout.

**External.** Of net/http: `Shutdown` refuses new requests and waits for the
ones under way; a request's context is cancelled when the client leaves or a
write fails; a panic of a handler is recovered.

**Left out.** What is replayed; the answer to a connection that cannot stream;
the handlers that only read; calls of `Stop` before `Ready` or a second time,
which panic or leave the listener open. A cancellation before the loop is not
told apart from one at its beginning, since the handler looks only there. When a
handler has returned, what its channels hold is forgotten. The write timeout of
the HTTP server, 15 seconds (`server.go:183`), ends every stream; in the model
that is a client that leaves, which it may but need not do.

## 3. Runs

| Run | Instance | Checks | Result |
|---|---|---|---|
| `nominal` | 2 workers, 2 requests (low with one retry, high with none), no faults | `TypeOK`, `NoLostTask`, `PriorityRespected`, `ResultMatchesState`, `Accounting`, `QueryFindsAll`, `ImplementsLifecycle`, `EventuallyFinished` | holds, 168 thousand states |
| `hostile` | 2 workers, a batch of 2, one fault (error or lost), one crash, cancellation | `Custody`, `AttemptsBounded`, `DeadLetterSound`, `DataKept`, `LossBounded`, `OutcomeIsFinal` | holds, 940 thousand states |
| `purge` | 2 workers, 1 task, a purge, one fault, disconnects | `Custody`, `NoOrphanData` | holds, 382 thousand states |
| `shutdown` | 1 worker, a batch of 2, cancellation, one crash | `ShutdownCompletes`, `BackoffSurvivesShutdown` | holds, 140 thousand states |
| `redis_outage` | 2 workers, 1 task, one failed command | `OutageLosesNothing` | violated |
| `shutdown_returns` | 2 workers, 1 task, cancellation | `InFlightCompletesOrReturns` | violated |
| `scaling` | pool of 2 to 4 workers, depths 0, 1 and 101, one worker added by others | `TypeOK`, `PoolBounds`, `CountsAgree`, `TargetsInRange`, `NoLeak` | holds, 702 thousand states |
| `elasticity` | pool of 1 to 3 workers, the same depths | `GrowsUnderLoad`, `ShrinksWhenEmpty` | holds, 240 thousand states |
| `pool_shutdown` | pool of 1 or 2 workers, the same depths | `ShutdownWaits` | violated |
| `instrumented` | 2 workers, one of them stopped, 2 attempts, `Stop`, `Shutdown` and cancellation | `TypeOK`, `CountedOnce`, `CopiedOnce`, `GhostsOnly`, `StopWaits`, `CatchesUp`, `StopEnds` | holds, 42 thousand states |
| `dashboard` | 1 client, 1 task, 2 updates buffered, other buffers 1 | `TypeOK`, `NoSendOnClosed`, `NoPanicWhileServing`, `PipelineInOrder`, `ClientSeesAll`, `ClientLeavesNothing`, `StopEnds` | holds, 94 thousand states |
| `dashboard_stop` | 2 clients, no task | `HandlersEnd` | violated |

The four violations are statements of the documentation or of a comment that the
code does not keep; `PROJECT.json` quotes them under "findings".

* `redis_outage`: RPUSH fails while a worker re-enqueues for a retry; the
  cleanup DEL succeeds and removes the only copy of a task that was accepted.
* `shutdown_returns`: the context is cancelled between LPOP and GET of a
  `Dequeue` that began before; GET and the LPUSH back are both refused.
* `pool_shutdown`: `Pool.Shutdown` waits for a wait group nothing adds to; it
  returns nil with workers still inside their tasks.
* `dashboard_stop`: `Stop` has closed the channels; the first client that leaves
  panics its handler between lock and unlock of `mu`. The handlers of all other
  clients wait for `mu` for ever when these leave.

Some properties are weaker than one would like, because of what the code does:

* `QueryFindsAll` is one half of a correct query by state, and only where the
  limit covers the set. `SaveTask` never takes an id out of a set, so that a
  finished task is still in the set "processing", and with a limit (50 in the
  broker, 16 in the dashboard) SRANDMEMBER picks from former members as well:
  with time most tasks of a state are missed. Between SET and SADD, and after a
  crash, a cancellation or a failure there, a task is in no set of its state. The
  broker lists "pending" and the dashboard "failed" tasks, states in which no
  `SaveTask` ever records one.
* `LossBounded` counts workers that die, not processes.
* `BackoffSurvivesShutdown` holds until the process ends. `cmd/worker` returns as
  soon as `Pool.Shutdown` does, and that waits for nobody (`pool_shutdown`), so in
  practice the sleeping worker seldom gets to its `Enqueue`.
* `PriorityRespected` needs runs without a purge. A purge deletes the lists, a
  request pushes its id, the purge deletes the request's data; `Dequeue` pops the
  id, finds no data and goes on with the *next lower* list, passing over tasks
  of the same level.
* `CopiedOnce` says at most once. What a worker did since the last tick before
  `Stop` never reaches the metrics, since the loop copies nothing for a worker
  that does not run. `tasksInProgress` only ever sinks.
* `GhostsOnly` bounds an error instead of excluding it: a loop that is inside a
  round when `Stop` unregisters its worker marks it idle afterwards, and the idle
  and the busy count (which goes below zero) stay off by one for ever.
* `PipelineInOrder` exempts the greeting. A handler joins the connections before
  it collects the initial metrics, so an update that was under way is older than
  the greeting and is written after it: a stream may go back once.
  `ClientSeesAll` says that this does not last. After `Stop` a stream shows zero
  values, as often as its loop turns, until its request ends.
* `GrowsUnderLoad` does not say that the pool reaches its maximum. As every worker
  counts as idle from its registration on, a pool is "idle too long" after
  `ScaleDownIdleTime`, whatever the queue holds, and a scale-down may follow every
  scale-up: with three sizes or more the pool may go up and down below its maximum
  for ever. What holds is that the scaling up is never starved.

**Comments the code contradicts.** Beside the four violations there are two,
for which the theorems state what the code does:

* `scaler.go:279` says "add at most 50% of current workers at once". The line below
  allows half plus one, and two workers become four. `TargetsInRange` has the
  code's bound.
* `server.go:700` says that `BroadcastTaskEvent` goes "to all connected clients",
  and line 719 "to all connections". The goroutines of all connections receive
  from one channel (`server.go:334`), so that one of them gets the event.
  `EventsOnce`, proved in `DashboardProof` for any number of clients, says so.

**Bounds.** Two workers are enough for two holders of one id, which is what the
exclusion properties are about; the proofs remove the bound. One retry makes both
outcomes of `MarkFailed` happen; two tasks of different priority make `Dequeue`
choose and let the purge or a crash hit one and not the other. One fault and one
crash can fall between any two commands, and both in one behaviour; with two
accepted tasks to lose, the bound of `LossBounded` is tight while only one of the
two has happened. Two crashes, which include the end of a process that runs both
workers, make 1.8 million states: the properties of `hostile` hold there as well,
but the run takes TLC too long to be repeated each time, and the proofs have any
number of crashes. In `purge` the task moves through all of `Enqueue`,
`Dequeue`, failure and retry, so that one task meets every command of the other
actor. In `shutdown` each worker is cancelled, wakes and stops by itself, and its
second task is what it may still take after the cancellation; two workers, one
task and a crash (295 thousand states) take TLC more than five minutes with
liveness. The limits 0, 1 and 2 of a query are none, one that a set of two
exceeds and one it does not. Four workers and
the depth 101 make `scaleUp` add two at a time and each cap of
`calculateScaleUpTarget` bind; a fifth name lets a worker that outlived its
removal exist beside a full pool. Ages and cooldowns of one tick have both
outcomes of every comparison. In `elasticity` three workers are the fewest with a
size between minimum and maximum. In `instrumented` the workers share nothing but the
sums; one of them is stopped, and the attempts let one worker finish while the
other is being copied. In `dashboard`
one client is enough for updates to be dropped at every stage and for all the
liveness properties. The proofs cover any number.

**View and symmetry.** `hostile` and `purge` use a view that leaves out
variables no guard and no checked property reads (counters, results,
processing keys, the history of arrivals) and the symmetry of the workers; their
properties are safety properties that treat workers alike. So do those of
`scaling`, which uses the symmetry of the names of workers.

**Deadlock.** Where the workers may stop for good (`hostile`, `shutdown`,
`instrumented`, `dashboard`) the system may stop, and the configuration says so.
In `nominal` and `purge` a worker can always poll. In the scaling runs time can
always pass, so that deadlock shows nothing there; `elasticity` checks that the
scaler gets on.

**Fairness.** `FairSpec` assumes weak fairness of each worker's next step and of
each request's next step: the Go scheduler runs every runnable goroutine, the
ticker keeps firing, handlers return (they run under a deadline) and Redis
answers. A worker whose context is cancelled chooses at random between the
ticker and the context, so it does not choose the ticker forever: strong
fairness of `Exit`, and of `Leave` in the pool. The scaler's `FairSpec` assumes
that its loop goes on (the ticker fires, measurements succeed, a shutdown ends or
times out), that time passes and that tasks end. The copying loop, the two loops
of the dashboard and a handler's setup and writes go on by weak fairness; that a
loop sees its closed channel or its context needs strong fairness, for the same
reason as `Exit`. Nothing makes tasks finish, clients come or leave, or `Stop`
begin. Crashes, faults, cancellations, disconnects and purges are never assumed
to happen. A process may also end because main returns; this is a crash, which
fairness does not exclude, and the properties of `shutdown` say what it does.
`ClientSeesAll` is about streams that last; the server's write timeout ends them
after 15 seconds, and what such a client has not been shown by then it is not.

## 4. Proofs

`CustodyProof` begins with `TypeCorrect`: `Spec => []TypeOK`, for any sets of workers,
requests and tasks and any bounds. `TypeOK` is inductive as it stands; the part
that carries content is `FrameOK`: past `Dequeue` and inside `Enqueue` a client
has a task at hand, so no step dereferences nil. There is one lemma per queue
operation, used by whoever calls the operation.

It goes on with `CustodyHolds`: `Spec => []Custody`, under two hypotheses,
each necessary: `UniqueIds`, the requests carry distinct ids (the broker does not
check it), and `NoRepeats`, no command is sent twice. `Custody` says that an id
is in at most one place: one position of one list, or the hands of one client.
It is not inductive. The invariant `IInv` adds

* `DataKeyed`: data is stored under the id of the task it holds. `Dequeue` holds
  the id it popped until GET and the id *of the decoded task* afterwards;
* that the id of a task not yet taken up from its request is nowhere: otherwise
  a submission could duplicate it.

The placement of ids is stated as `Placed(L, h, s)` about arbitrary lists,
holders and progress of requests. Five lemmas cover the five ways ids move (let
go, list emptied, popped, pushed at either end, submitted); each action is then
one of them or leaves the lists alone (`Quiet`).

`RetryProof` extends this to attempts and outcomes: `RetriesAreBounded`,
`DeadLettersAreSound` and `OutcomesAreFinal`, under the same two hypotheses and
through crashes, failing commands, cancellations and purges. None of the three
is inductive, because how often a task may still be started is written in the
copy of it that will be decoded next. `BudgetInv` adds to `IInv`, for each id
(`Account`):

* where the id is in a list, or with a client that will start it or put it back,
  the attempts made and the `Attempts` its copy still allows add up to those of
  the request; one fewer while an attempt runs (`HandFits`), none on the way to
  the dead letter queue. This is the argument that `MarkFailed` counts before
  `Enqueue` stores, whichever command fails in between;
* an id not yet taken up has made none;
* an id in the dead letter queue or with a recorded outcome is `Gone`: in no list
  and in no request to come, and held only by clients past the decision.

A step touches at most the id its client has in hand. The lemmas about `Untouched`
ids settle all others, so that each action is argued for one id.

`DataProof` begins with a list of who writes what: for every key of Redis, the
actions that change it and the labels their client is at (`DataWriters`,
`ResultWriters`, `DeadLetterWriters`, `RecordWriters`). The rest argues from
these facts instead of from `Next`.

| Theorem | Hypotheses | Why they are needed |
|---|---|---|
| `QueriesFindAll` | none | the property itself speaks of calm behaviours (no fault, crash or cancelled worker so far), of tasks whose `SaveTask` has returned and of limits the set does not exceed |
| `ResultsMatchStates` | `UniqueIds`, `NoRepeats`, `NoErrors` | a `SaveResult` that fails is ignored, and the task is recorded as completed |
| `DataIsKept` | `UniqueIds`, `NoRepeats`, `NoPurge` | a purge deletes the data of tasks under way. The property itself speaks of behaviours up to the first fault |
| `PurgeLeavesNoOrphans` | `NoCrash`, `NamedIds` | a crash drops the id held and leaves its data; `Ack` and `Nack` refuse the empty id |
| `PrioritiesAreRespected` | `UniqueIds`, `NoRepeats`, `NoLostAnswers`, `NoPurge` | a push whose answer is lost, or a purge, leaves an id without data in a list, and `Dequeue` then goes on with the next lower one |

* `IndexInv` (for `QueryFindsAll`) says that in a calm behaviour the record of a
  task and the set of its state are apart only while the worker that wrote the
  record is on its way to the set, with the same task still in hand. The latter
  is `SavingInv`: a worker inside `SaveTask` does nothing else before its end.
* `ResultInv` (for `ResultMatchesState`) adds to `BudgetInv` that the result of a
  success makes the id `Gone`, so that no later failure overwrites it, and that a
  worker about to record a completion has written the result, or is cancelled,
  and then the record is refused as well.
* `KeptInv` (for `DataKept`) adds `MayDelete`: a worker at `Ack` has recorded the
  completion, one past the dead letter has buried it, unless its context is
  cancelled, and then the delete is refused too.
* `OrphanInv` (for `NoOrphanData`) needs no custody and no distinct ids, only
  types and `DataKeyed`; data whose id is nowhere must be one the running purge
  has still to delete (`Swept`).
* `PrioInv` (for `PriorityRespected`) is `FiledInv`, what is in a list has its
  data and that data says it belongs into this list, and `ScanInv`, what is
  queued above the level that is being scanned arrived during the call.

`LifecycleProof` proves what holds when nothing fails, and then what failures can
cost. `Undisturbed` means that
commands succeed, no process dies and the workers are not stopped; clients may go
away at any time, which cancels their request's context between any two commands.

* `NoTaskIsLost` also excludes a purge. Each hypothesis is needed: the runs
  `redis_outage` and `shutdown_returns` show a failed command and a cancellation
  losing a task, a crash drops the id held, a purge deletes what is queued.
  `SafeInv` says that an accepted task, and one about to be accepted, is listed,
  held by a worker or finished; `FiledInv` gives the data of what is listed.
* `LifecycleIsImplemented` is the refinement, with purges. `Located` says that
  the client that has an id in hand determines its status. With custody, a step
  changes the status of at most one task, the one its client holds (`Mover`), and
  there are five ways to do it; each is one of the moves `TaskLifecycle` allows
  (`Legal`), with the number of attempts from `BudgetInv`. A purge moves no task:
  an id it drops stays "queued" for the abstract specification, and so does one
  whose client went away before the push. That an accepted task is really there
  is `NoTaskIsLost`.
* `DeadLettersAreCounted` is the last conjunct of `Accounting`, with purges and
  clients that go away. `CountInv` says by how many workers on their way the three
  numbers differ. It needs a finite set of workers, to count them.
* `AccountsAgree` is all of `Accounting`. A task that some counter does not show
  yet is in the hands of a client, and the client's label tells which counters it
  is still going to change: `LedgerInv` adds the number of clients at these labels
  to each equation, and a step that moves a client from one group of labels to
  another moves the counters by the same amount. `KnownInv` says that every copy
  of a task has one of the four priorities. Beside the hypotheses of
  `NoTaskIsLost` it needs `~MayDisconnect`, since a request cancelled after its
  push leaves a task in the queue that `total` does not count, `KnownPriorities`,
  since `Size` reads four lists only, and finitely many clients.

`Accounting` and `CountedOnce` are sums over workers and lists, and that changing
one term changes a sum takes an induction if the sum is a fold. `Counting` says
it as a cardinality instead: one unit for each thing counted. `CountingProof`
shows from the theorems about finite sets that raising one term by one adds one
unit (`TotalUp`, `TotalDown`), which is all the code ever does.

**What failures cost.** `LossesAreBounded` is about behaviours with failures:
failed and unanswered commands, workers and requests that die (a process that ends
is one death for each worker it ran), clients that go away. An accepted task is `Lost` when it is not finished, nobody has it in hand,
and it is not both listed and with its data. `LossBounded` says that there are at
most `faults + crashes` of them: one failed command or one death never costs more than one task, also
when it hits a cleanup, a step inside another call, or a task that an earlier
failure left half done. It is not inductive, because a task may be doomed before
it is lost: a worker that failed to bury it will delete it, a push whose answer
was lost will be cleaned up.

* `Secure(id)`: finished, or no cleanup of it is pending and it is listed with
  its data or in the hands of a worker that has not yet failed to give it an
  outcome (`InGoodHands`). `AtRisk` are the ids answered for, or about to be, that
  are not secure; it contains the lost ones, and `RiskInv` bounds its size.
* Only the client that acts can harm a task, and only the one it has in hand or
  is about to pop (`Stake`); `OthersSecure` settles all others, `OwnSecure` shows
  that its own stays secure unless the step fails or the client dies. So a step
  adds at most one id to `AtRisk` (`Harmed`), and only when it raises `faults` or
  `crashes` (`FailuresAdd`).
* `ServingInv` adds to `KeptInv` that an id still to be pushed for the first time
  is not accepted, not counted and not cleaned up: a request that dies before its
  push costs nothing.

The hypotheses are `UniqueIds`, `NoRepeats` and `NamedIds`; `NoPurge`, as a purge
deletes what is queued; and `~MayCancel`, as a worker that is stopped drops the
id between LPOP and GET without any failure, which is `shutdown_returns`. In
`hostile`, where the workers may be stopped, the property speaks of the states
before that (`Worker \cap ctxDone = {}`); for the theorem this would not be
enough, since a process that dies and is started again has a new context.

Assumptions used: the client sets are disjoint, `NoId` is not an id, `NoTask` is
not a task, requests are sequences of tasks, the bounds are numbers. TLC
evaluates all of them in every run.

`ScalingProof` proves all safety properties of the `scaling` run, for every pool
size, set of depths, threshold and cooldown: `ScalerTypes`, `PoolBoundsHold`,
`CountsHold`, `TargetsHold`, `NoLeakHolds`. `TargetsHold` has the step the code
takes, half plus one upwards. They rest on one invariant, `IInv`,
because they depend on each other: a target is in range only if the idle count is
not negative, which follows from the counts, which need the set of registered
workers to be the pool's and the one being removed. `IInv` adds

* `Removing`: while the scaler waits for a worker the pool has one more than its
  minimum. This is what makes the check before the unlock good for the delete
  after it, and it needs that nobody else removes;
* `Alive`: a goroutine that runs has its flag set or its channel closed, so that
  a `Shutdown` that finds the flag unset has nothing to stop;
* `InBoot`: how many workers `Start` has still to add.

`Consistent(gone)` states the agreement of pool, goroutines and metrics with the
deleted, not yet unregistered workers as a parameter. The arithmetic of the two
targets is in the lemmas `UpTarget` and `DownTarget`, the cardinalities in
`AddWorkerStep` and the steps for delete and unregister.

`DashboardProof` proves all safety properties of the `dashboard` run, and
`EventsOnce`, for any number of clients and tasks and any buffers of at least one. `TypeOK` is
inductive as it stands. `Closing` adds to `NoSendOnClosed` and
`NoPanicWhileServing` that a channel is closed only when its handler has ended or
`Stop` has cleared the map, and only after the handler registered: without that a
client could register a closed channel. `EventsOnce` is inductive together with
the types, which say that the number of a new event is greater than all there
are. `PipelineInOrder` speaks of a concatenation; `StagesInOrder` says the same
stage by stage, each in order and everything in one not newer than anything in
the next, which is what the sends and receives keep, and `ConcatType` gets back
to the concatenation. What a stream has shown is the first stage, from its first
update after the greeting on (`SeenInOrder`).

`InstrumentedProof` proves `InstrumentedTypes`, `GhostsOnlyHolds`,
`StopWaitsHolds`, `CopiedOnceHolds` and `CountedOnceHolds`. The invariant adds `Entries` (a worker has an entry in the
metrics exactly from `Start` to `Unregister`), `Balanced` (the counts are
cardinalities of the entries, which are finite) and `Alive` (a goroutine that
runs has its flag set until `Stop` has looked at it). That idle workers are never
negative, a part of `TypeOK`, is a consequence. `CopyInv` is about one worker and
its loop: inside a round the loop has recorded no more than it read and the
worker has done at least that, outside of one nothing is half recorded, and the
worker's entry is what was recorded. `TallyInv` is about all workers together:
the total is the sum of what each loop has counted, and it stays so because only
the loop that increments the total moves its own share.

Every invariant and action property of the passing runs is stated by a theorem.
Only model-checked is liveness (`EventuallyFinished`, `ShutdownCompletes`,
`BackoffSurvivesShutdown`, `GrowsUnderLoad`, `ShrinksWhenEmpty`, `CatchesUp`,
`ClientSeesAll`, `ClientLeavesNothing`, both `StopEnds`): it needs fairness and
`ENABLED`, which the provers at hand do not handle.

## 5. Not modelled, and the plan

Not modelled on purpose:

* logger, configuration, the `cmd` programs, benchmarks, HTML: they keep no state
  that several steps could get wrong. Of the examples only how `autoscaling` and
  `dashboard` start, feed and stop the library;
* handlers of the broker and of the dashboard that only read; `Nack` with
  requeue, `UpdateTaskState`, `DeleteTask`, `Peek`, the `InstrumentedPool`,
  marking workers busy, a second `Start` of a scaler or of a worker: nothing but
  tests calls them that way;
* `GetRetryDelay`: a 64-bit product, negative from 34 retries on and zero from
  55, beyond the 32-bit integers of TLC. The delay only makes a worker sleep;
* expiry of Redis keys, throughput, percentiles, everything in floating point.

What could be added:

1. Commands that are sent twice are in the model (`"twice"`) and in the type
   theorem only: a second RPUSH puts an id into a list twice, and the properties
   on custody and attempts fail. What a repeated command can cost at most could be
   stated and proved the way `LossesAreBounded` does it for the other faults.
2. The same for workers that are stopped: how many tasks a shutdown can drop.
3. `docs/concurrency.md` says that cooldowns prevent oscillation. Each direction
   has a cooldown of its own: `shouldScaleDown` looks at the last scale-down only,
   and a burst followed by an empty queue makes the scaler remove a worker inside
   the cooldown of the scale-up that added it (TLC shows it in seven steps). What
   the two cooldowns do guarantee would have to be stated.

## 6. Running

    tlc -workers 2 -config nominal.cfg MCSpool
    tlc -workers 2 -config scaling.cfg MCScaling
    tlc -workers 2 -config instrumented.cfg InstrumentedWorker
    tlc -workers 2 -config dashboard.cfg Dashboard
    tlapm LifecycleProof.tla
