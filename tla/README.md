# Loadify: a verification project

Loadify is a distributed load-testing platform. An API server keeps tests and
runs in Postgres and asks a coordinator to execute them; the coordinator admits,
queues and dispatches runs to workers over gRPC streams; workers generate load
and stream one metric batch per second back; the coordinator aggregates the
batches, writes rollups to ClickHouse and feeds live views. This directory holds
TLA+ modules of the parts whose correctness depends on interleavings, failures
and restarts, the TLC configurations that check them on small instances, and
proofs that TLAPS checks for every value of the constants.

`PROJECT.json` lists the components, the runs, for every definition the source
lines it models, for every property a mutation of the code it detects, the
findings, the hazards and the theorems.

## 1. The system

| Component | State | Operations | Interacts with |
|---|---|---|---|
| Coordinator service (`internal/coordinator/service.go`, `runner.go`) | run states, admission counter, FIFO queue, timers; memory only | `StartRun`, `StopRun`, `autoStopRun`, `workerFinished`, `forceFinalize`, `reapOnce`, `rehydrate`, `drainLocked`, the `Connect` stream handler | API server (gRPC), workers (stream), aggregators (goroutine and callback per run) |
| Registry (`registry/registry.go`) | one entry per connected worker, with its send channel and last heartbeat | `Add`, `Remove`, `Touch`, `Available` | coordinator; has a lock of its own |
| Aggregator (`aggregator/aggregator.go`) | a bucket per second, emission watermark, listeners, breaker window and streak | `Ingest`, `Subscribe`, `Run` with `finalize`, `collect`, `evalAutoStop`, `closeListeners` | stream handlers, live streams, ClickHouse writer, `autoStopRun` |
| Worker agent (`internal/worker/agent.go`) | running tasks with their cancel functions, 256-slot send buffer that outlives the stream | `session`, `startRun`, `stopRun`, `finishRun`, `enqueue`, `flushLoop`, heartbeats | coordinator, executors, sampler |
| Executors (`internal/worker/executor`) | pool of virtual users (closed model) or of job workers (open model), rendezvous barrier with timers | `Run`, `scaleTo`, `runVU`, `barrier.wait`; `ArrivalExecutor.Run`, `worker` | agent, sampler, drivers |
| API server's run lifecycle (`internal/apisrv/handlers.go`, `auth.go`) | goroutines that watch runs, a reaper per replica; the truth is the row in Postgres | `launchRun`, `watchRun`, `finalizeRun`, `reapOnce`, `replayDispatch`, `finalizeForgotten`, `handleStopRun`, `handleGetRun`, `handleDeleteRun` | Postgres, coordinator, ClickHouse, webhooks |
| Catalogue (`apisrv/handlers.go`, `environments.go`, `schedules.go`, `store/postgres`) | tests, environments, schedules and runs as rows with owners and references; a scheduler loop per replica | create, update, archive, enable, delete, set baseline; `fireDueSchedules`, `ClaimDueSchedule` | `launchRun`, Postgres |
| Accounts (`apisrv/auth.go`, `revocation.go`, `apitoken.go`, `internal/auth`, `store/postgres/users.go`) | account rows, session and API tokens, a cache of account states per replica | login, `validateClaims`, `cachedAuthState`, account administration | HTTP middleware, Postgres |
| Script engine (`internal/script`) | a JavaScript runtime per virtual user, results of the iteration in progress | `vuFor`, `ExecMulti`, `callBounded`, the generated scenario harness | executors (goroutines and VU ids), timers |
| Pure algorithms | none | `SliceRamp`, `splitEven`, `RateAt`, `TargetAt`, `thinker`, `Plan.Validate`, breaker and alert, assertions, `rateLimiter.allow` | scheduler, executors, drivers, `watchRun` |
| The rest: importers, network drivers, reports, MCP server, command line, web console, deployment | – | request-response code, parsing, rendering, network I/O | – |

What is hard in this system:

* **One critical section, many callers.** Four paths end a run (the last
  `Finished`, a stop whose grace period expires, the watchdog, the breaker) and
  three admit one (`StartRun`, a freed slot, a registering worker). All of them
  go through `finalizeLocked` and `dispatchLocked`, under a lock that `StopRun`
  and `reapOnce` release between deciding and acting.
* **Two memories of the same run.** The coordinator forgets everything when it
  restarts; workers go on and report their active runs when they redial; the
  API server replays what Postgres says is active. The three may meet in any
  order.
* **Streams.** A worker redials before the handler of its old stream has
  unwound; its send buffer survives the stream and so holds messages of the
  previous session; channels are bounded and sends do not block.
* **Late data.** Batches come in any order around the finalization of their
  second, and `finalize` works in several steps of which only the first holds
  the lock.
* **Goroutines that nobody waits for.** Watchers, stop timers, barrier timers and
  cancelled virtual users outlive what started them.
* **Read, then write.** Handlers, schedulers and cache fills read a row in one
  statement and act on it in another, on several replicas.

## 2. Modules

| Module | Models |
|---|---|
| `RunLifecycle` | abstract: what the life of runs looks like to a client of the coordinator |
| `Coordinator` | state of service, run states and registry; one action per critical section |
| `Cluster` | extends `Coordinator` with the streams, the agents' run goroutines and the faults; has the next-state relations, the fairness, the properties and the refinement mapping to `RunLifecycle` |
| `Aggregator` | the aggregator of one run with its callers |
| `RunRecord` | the Postgres record of one run and every goroutine of the API server that moves it, over an abstraction of the coordinator |
| `Executor` | the closed-model pool and the rendezvous |
| `Arrival` | the open-model pacer and pool |
| `Reporter` | sampler, flush loops, final flush, heartbeat and send buffer of a worker with several runs |
| `Script` | the script driver: runtimes, timers, scenario iterations |
| `Ramp`, `Plan`, `HttpDriver`, `RateLimit` | pure algorithms as operators |
| `Assignment` | properties of those operators, over one input at a time |
| `Access` | accounts, sessions, API tokens and the revocation cache |
| `Catalog` | tests, environments, schedules, runs, and the scheduler loops |
| `ClusterProofs`, `AggregatorProofs`, `RunRecordProofs`, `AccessProofs`, `CatalogProofs` | the theorems about the module of that name, each with its inductive invariant |
| `WorkerProofs` | the theorems about `Executor`, `Arrival`, `Script` and `Reporter`, and about the types of `MCWorker` |
| `AssignmentProofs` | the theorems about `Assignment`, for inputs without bounds |
| `SumProofs` | lemmas: the laws of a finite sum, for the modules above |
| `MCCluster`, `MCAggregator`, `MCRunRecord`, `MCWorker`, `MCAccess`, `MCCatalog` | model values and definitions for TLC; `MCWorker` puts the parts of a worker and `Assignment` side by side, one part per behaviour |

### Coordinator and Cluster

A `runState` is spread over functions and sets indexed by run (`status`,
`ended` for `endedAt`, `slotHeld`, `assigned`, `finished`, `lost` for
`workersLostAt`, `agg`, ...); `status = "none"` means that `s.runs` has no
entry. Every action that the code runs under `s.mu` is guarded by `Unlocked`.
`drainLocked` is a loop over dispatches, each of which is a choice of its own,
so it is one step per iteration with `draining` as the held lock; everything else
under the lock is one step. `StopRun` is split at its unlock (`StopRun`, then
`SignalStop`, then the timer `StopTimeout`), `reapOnce` at its unlock
(`ReapScan`, `ReapFinalize`), the `Register` handler into its three critical
sections (`RegisterAdd`, `RegisterRehydrate`, `RegisterDrain`). Timers and the
aggregators' drain grace carry no clock: once pending they may fire at any
step. CPU and memory thresholds and the heartbeat timeout are one bit per worker
(`busy`).

`up[w]` is `Agent.sendCh` together with the stream behind it; a broken stream
loses a prefix of it and the coordinator's channel `send[w]`. A task is a
goroutine of `startRun` with the phase it is in; `cancelOf` is `Agent.runs`.
Faults are a broken stream, a crashed worker (which may come back under its id)
and a coordinator restart, which empties everything but the workers.

Simplifications: the registry snapshot of `reapOnce` is taken in the same step
as its scan; a worker has one `Register` handler at a time; the blocking send of
`RegisterAck` is left out (the channel is new and empty); metric batches and
heartbeat payloads, which do not touch run states, are in `Aggregator` or left
out; the saturation counters are left out; `Rehydrate` of an empty list takes the
lock, which the code skips.

### Aggregator

`Run` is one goroutine and `pc` says where it is. It holds `Aggregator.mu` only
in `"collect"`; `Ingest` and `Subscribe` interleave everywhere else, also after
`Run` has returned. A bucket is the set of batches it has merged; a tick keeps
request, error and VU totals. The ticker's channel holds one tick, so `Ticker`
may work with any earlier time. Rate comparisons are in integers (`e * 100 >
RatePct * c`).

### RunRecord

One row, one launch, any number of watchers (counted per step), one reaper per
replica, a stop and a page poll, each call to Postgres, ClickHouse or the coordinator a
step of its own that may fail (`StoreMayFail` says whether those to the two stores do, so
that a run can leave Postgres out of what goes wrong). The coordinator is reduced to what the API server can
see: the status reported for the run, whether its stream is closed, whether
workers execute it, whether a request is left in the queue. An SLA verdict is a
choice in `FinishRun`. The age of the run is two bits: past the 15 seconds in
which the reaper leaves it alone, and past `maxRunAge`. The 20 attempts of
`watchRun` are not counted: it may give up after any failure. Deleting a finished
run is left out. Whether the coordinator ever ends a run that it reports as RUNNING is
left open: `EndRun` may happen at any time or never.

### Executor

The control loop, each VU and each barrier timer is a process. What the ramp
asks for is any target at any tick. `BarrierWait` is `wait` up to `cond.Wait`,
`BarrierLeave` the wake-up; a timer fires (`TimerFire`) before its callback gets
the mutex (`TimerCallback`), so `timer.Stop` may come too late. A request is one
step and may take arbitrarily long. The pause after a request is merged with the
top of the next iteration: a VU whose context is done returns from either.
`Executor.Stop` has no caller and is left out.

### RunLifecycle

The abstract specification knows, for every run, whether it is new, waiting, live
or over, the verdict that would be reported and the line of waiting runs. Its steps
are `Wait`, `Admit`, `ServeLine` (the head of the line), `Abort` and `Finish`. `Cluster`
maps its run states to it (`lifeOf`, `verdictOf`) and the property `Lifecycle`, proved and
checked, says that every step of the cluster, with all its messages and faults, is one of these
or invisible.

### Arrival

Pool goroutines in the same place are alike and counted (`at`). `PacerTick` takes
the number of iterations due as an input; the sends, the measurement of the
demand and the growth of the pool are separate steps, as the counters they read
move meanwhile. The idle timer may fire at any time, so all goroutines may retire
at the same moment.

### Reporter

Each run has an agent goroutine (the tail of `startRun`) and a flush loop; they
share `sendCh` and `droppedSend` with each other and the heartbeat. A batch is the
number of results in it. A flush loop may leave at any time, as its context may be
cancelled while the executor still runs. History variables count what was recorded, lost and
dropped, so that conservation can be stated.

### Script

A goroutine of an executor looks up or builds the runtime of its VU id, starts the
timer, runs the steps, and returns. The timer of an iteration may fire at any step
until it is stopped; goja notices an interrupt between steps. Requests are
outcomes. `OpenModel` says which executor the goroutines belong to: only the
closed one sets VU ids.

### Ramp, Plan, HttpDriver, RateLimit and Assignment

Rates are fractions, and durations small integers. A plan is a record of what
`Validate` looks at; an optional configuration is a set of at most one record; an
address is well formed or not. Timeouts are in milliseconds, and `stallSec` cuts off the
fraction of a second as the code does. `execTime` is how long the driver of a plan may be
without a result: what the stall limit is compared with.

Texts are tokens, among them numerals, a text that only begins with one (`200ms`), a word
that only Go takes for a number (`inf`), the words of JSON and the empty text. Each
language has conversions of its own: `parse` and `parseBool` are Go's `ParseFloat` and
`ParseBool`, `parseFloat` and `asString` are those of JavaScript, and `want` is what
becomes of an empty value that the embedded specification leaves out. A value that a path
finds has a JSON type and a text; that both languages find the same value is assumed.

### Access and Catalog

Both have a clock, as their properties are about how long something may still
happen. Every statement is a step, the lookup of an API token and the validation of its
claims too; a request ends at its context's timeout. Token
contents are those that `Issue` writes, with whole seconds for `iat`. The one clock of
`Access` is that of the API servers, which stamp tokens (`jwt.go:40`) and cache entries,
and that of Postgres, which stamps changes (`users.go:125`): clocks that differ move the
bounds by their difference. In `Catalog`
a row is its owner, references and flags; `creator` and `offSince` are history, and so are
`by`, who wrote the row last, and `part`, which says whether that was the row as a whole, a
baseline, or the switching-off of schedules by an archival; and
the scheduler loop of a replica may crash between its statements.

## 3. Runs

Related facts are stated as named definitions and checked together, as one
property whose conjuncts they are: the table gives the property and, after a
colon, its parts. Passing runs:

| Run | Instance | Shows |
|---|---|---|
| `cluster_lifetime` | 1 worker, 2 runs, 1 slot, one plan that the worker cannot start, a stop of each run, fair | `TypeOK`; `AdmissionIsSound`: the counter is the number of slots held (`SlotAccounting`), at most `MaxRuns` (`AdmissionBound`), slots belong to live runs (`SlotsAreLiveRuns`), queue and QUEUED states agree (`QueueConsistent`); the abstract life of runs is implemented (`Lifecycle`); `RunsProgress`: runs end (`RunsEnd`), the queue drains (`QueueDrains`), stops end runs, the one that hangs included (`StopTerminates`) |
| `cluster_faults` | 2 workers, 1 run on both, breaker armed, one stop, full send channels, one stream break or crash | a COMPLETED run generates no load (`CompletedIsQuiet`); `RunsHaveAggregators`: no run state without aggregator is met (`AggregatorForEveryRun`), and it is in the phase of its run (`StatusMatchesAggregator`); no worker executes a run twice (`NoDoubleExecution`); an old stream's teardown evicts nobody (`LiveWorkerRegistered`); `Lifecycle` across faults, which implies that ended runs stay ended and aborts stick (`EndedIsFinal`, `AbortSticks`: proved on their own) |
| `cluster_restart` | 1 worker, 2 runs, 1 slot, overload, a plan that cannot start, full buffers, two restarts or crashes | the counter never falls below the slots held (`NoUnderflow`): the one accounting fact that survives restarts; lost runs are reaped (`OrphansAreReaped`) |
| `aggregator` | 4 batches of 2 workers over 3 seconds, one second reported twice, grace 2, one subscriber with a one-slot channel, breaker window 2 and stall 2 | `BatchesAccounted`: every batch counted once (`CountedOnce`), no bucket lost (`NoBucketDropped`); ticks ascend (`TicksInOrder`), the grace is kept (`InGraceIsMerged`), `BreakerIsExact`: the breaker agrees in both directions with a reference over the whole history (`BreakerHasCause`, `BreakerMissesNothing`); streams close (`EarlyStreamsClose`) |
| `run_record` | 1 replica, one stop, two failures among failed calls to coordinator and stores, lost answers, coordinator and server restarts | a run that never ran is never green (`NoGreenWithoutRun`); `RecordSettles`: no writer replaces a verdict by another (`VerdictsStand`; what may happen is that a late "queued" reopens the record), the record becomes terminal for good once the coordinator has stopped running the run for good, and while the coordinator runs it for ever it says running, unless it has been ended |
| `worker`, closed | up to 3 VUs, rendezvous of 3, targets 0, 1 and more than the ceiling, VUs gather in two generations | `WorkerTypeOK`, the types of all parts; `BarrierIsExact`: the barrier's counter is exact (`WaitingIsExact`), every sleeper will be woken (`WaitersHaveATimer`); no late timer opens a later gather (`NoEarlyRelease`), the pool consists of working VUs (`PoolIsLive`) and drains (`VUsDrain`) |
| `worker`, open | a pool of up to 3, up to 4 iterations at a tick, 5 in all | `PoolAccounting`: no iteration lost (`IterationsConserved`), counters are the goroutines (`PoolIsExact`); `LoadIsServed`: a backlog is worked off though all retired at once (`BacklogServed`), `Run` returns (`RunReturns`) |
| `worker`, report | 2 runs, a send buffer of 1, a result, a tick | `ReportsAreTrue`: every result counted once (`ResultsConserved`), every drop told of once (`DropsAccounted`), no VUs of an ended run, if its flush loop was gone (`EndedRunsHaveNoVUs`) |
| `worker`, script | 2 goroutines of the closed model, 1 setup and 2 work steps in sequence, 2 iterations | runtimes are not shared (`RuntimeIsOwned`); `IterationsAreOwn`: results are those of the iteration (`ResultsAreOwn`), interruptions have a timeout behind them (`InterruptsAreTimeouts`), the setup runs once (`SetupRunsOnce`), a transaction is as good as all of its steps (`TransactionsAreHonest`) |
| `worker`, assign | 117,000 inputs: profiles of up to 3 stages on up to 3 workers, think times, breakers with 3 ticks, plans of every protocol, assertions on responses, 5 login attempts | `LoadFollowsThePlan`: slices add up, follow the plan and keep the rate (`SlicesAddUp`, `SlicesFollowThePlan`, `OpenRatesAddUp`, `StagesAreFollowed`); `ValidPlansRun`: accepted plans have a driver, a script plan without a script excepted (`ValidPlansHaveADriver`), sound pauses (`PausesAreSound`), and a stall limit above their requests where it is sized by them, above a minute elsewhere (`StallOutlastsRequests`); Go and JavaScript judge alike wherever they convert alike (`VerdictsAgree`; `differs` is the list of where they do not); `WindowsHold`: the alert precedes the breaker, if it sees the same ticks (`AlertWarnsFirst`), the login window (`LoginsAreThrottled`) |
| `access` | 2 accounts, one of them an administrator, 1 replica, 2 requests at a time, 3 requests, 4 ticks with a cache life of 2 | `RevocationTakesEffect`: who is disabled or deleted is out within `revCacheTTL` (`GoneTakesEffect`), and so is every session issued before the second in which the account's credentials changed (`OldSessionsEnd`); a slow cache fill does not make an entry look newer than it is (`CacheIsAsOld`) |
| `catalog` | 2 users, one of them an administrator, 1 test, environment and schedule, 2 runs, 2 requests at a time, 4 requests, 2 replicas | references are live (`References`); only creators and administrators edit, but that any operator sets a baseline and whoever may archive a test switches off the schedules on it, and none on (`EditedByOwner`); `LaunchesAreDue`: a schedule fires once per interval (`FiredOnce`), and what was archived or switched off is not launched, but for what had begun (`ArchivedIsNotRun`, `OffIsNotFired`) |

The bounds are the smallest in which the interesting cases meet: two runs for
one slot (so that one queues), two workers for one run (so that one reports or
dies first), two faults (so that recovery is itself disturbed), a window and a
streak shorter than the history, a channel that fills at once, a gather of three
(so that two sleep while a third decides), a send buffer of one (so that the
`Finished` behind a batch is dropped and the next run has to tell of it), two
iterations (so that one inherits what the other left), more login attempts than
two windows admit, and a clock that outlasts a cache entry or an interval by one
tick, with a request begun before and ended after.

The parts of a worker are checked one per behaviour: a run has one executor, the
executor hands results and a VU count to the reporter, and nothing flows back.

Deadlock is not checked: clients and faults are bounded, and a system whose runs
have ended really stops.

Runs in which the code disagrees with what the repository says of it:

| Run | Property | What happens |
|---|---|---|
| `cluster_rehydrate_queued` | `SlotAccounting` | After a restart the run is replayed as QUEUED, then its worker registers with it. `rehydrate` takes it up but leaves the request in the queue; the drain of the same handler dispatches it again. One run is counted twice and a slot is gone until the next restart |
| `run_record_blind` | `LiveIsNotGreen` | The reaper takes any error of `GetRunState` for a forgotten run. It finds the stored payload, but the `StartRun` of its replay gets no answer either, as during a redeploy: a run with metrics becomes "completed" while workers execute it. Postgres does not fail here |
| `catalog_owner` | `ScheduledRunsAreOwned` | `ClaimDueSchedule` does not return the schedule's creator, so scheduled runs have no owner and only administrators may stop or delete them |
| `script_shared` | `RuntimeIsOwned` | The goroutines of the open model never set a VU id, so all of them execute scripts in the one runtime of VU 0, at the same time; cookie jars of the HTTP driver are shared alike |

Met while modelling and not given a run.

In the coordinator and the record:

* Stopping a queued run is answered with success and does nothing
  (`service.go:610`): it is dispatched later and completes. `StopHonoured` in
  `Cluster` states the contrary; TLC refutes it with two runs for one slot and a
  stop.
* A crashed worker that comes back under its id, or one of two that stays away,
  leaves the run RUNNING for ever, with its slot (`service.go:357`): the watchdog
  only looks for runs all of whose workers are absent. TLC refutes `RunsEnd` when
  faults are not excepted. The same goes for a plan that the worker cannot start.
* The breaker may turn a COMPLETED verdict into ABORTED while the run drains; the
  end of an overload does not drain the queue; a live stream opened after the
  aggregator returned never closes; `StopRun` iterates over `rs.assigned` after
  unlocking.
* An overdue run that the coordinator still calls RUNNING is never aborted: the case of
  a RUNNING run comes before the overdue one (`handlers.go:771-775`), although the comment
  on `StartReaper` says of a run that "has outlived maxRunAge" that it "is finalized so it
  never stays running forever" (`handlers.go:725-727`). With a coordinator that never ends
  a run it cannot start (above), such a record stays running; this is why `RecordSettles`
  distinguishes the two cases and why no fairness of `EndRun` is assumed.
* `replayDispatch`, and a launch that was answered "queued", may reactivate a row that a
  stop has just finished (`handlers.go:811`, `postgres.go:244`: no condition on the row),
  after which it may be finished with another verdict; a lost
  answer of `StartRun` marks a live run as failed; and a run that was queued at
  launch and then stopped is not shown as aborted before `maxRunAge`.
* A worker whose send channel is full when a run is dispatched is left out
  (`service.go:565-570`), and its slice of the load with it; `LoadFollowsThePlan` is about
  slices that were delivered.

In the worker:

* A `Register` goes through the same 256-slot buffer as everything else
  (`agent.go:134`): if it finds the buffer full it is dropped, and the worker has an
  open stream and no place in the registry until it redials. `LiveWorkersAreRegistered`
  excepts this case.
* A tick of the flush loop may come after `finishRun` and set the active count of a
  finished run again; nothing removes it (`agent.go:322`), although `agent.go:47-51` and
  `354-355` say that a finished run stops contributing. `EndedRunsHaveNoVUs` excepts this
  case.
* If all pool goroutines retire just before the deadline, jobs that are queued then
  are neither executed nor counted as dropped (`arrival.go:17`).
* A timer that fires between `ClearInterrupt` and `timer.Stop` interrupts the next
  iteration; `InterruptsAreTimeouts` counts interruptions against timers and so
  allows it. An iteration that is cut off after its first step reports that step
  only, without a failure for the timeout (`script.go:155`), although `plan.go:64`
  says that it is counted as one.
* A stage of no duration is the last that is followed; a stage with both VUs and a
  rate runs the closed model on a worker whose share of the rate is 0; a gaussian
  think time around 0 never pauses.
* In plans: a script plan without a script is accepted and has no driver. A plan
  that carries an HTTP configuration beside that of its protocol sizes the stall
  breaker by the former, and scripts, scenarios and websockets are sized by the default of
  30 seconds: an iteration that is legitimately longer than the limit trips the breaker,
  although `plan.go:213-215` says that a slow target "must never be mistaken for a hang".
  A negative timeout is accepted and means none to the HTTP client. `int` cuts off the
  fraction of three timeouts (`service.go:532`): 20.5 seconds give 61, not 61.5.
* Assertions that an HTTP plan and a scenario step judge differently: `exists` on the body,
  which `Validate` accepts (`plan.go:306-313`) and Go always fails; `exists` on null, true in
  Go and false in JavaScript; an empty value, which is "undefined" in a scenario; a value
  such as `200ms`, a number to `parseFloat` and none to `ParseFloat`, or `inf`, the
  other way round; booleans in comparisons of order and against `0`; arrays and objects,
  whose text in JavaScript is not their JSON. And a scenario step with assertions
  such as `status lt 500` passes on a transport error, whose status is 0.

In the API server:

* A login that reads the account before a change of its role and issues the token
  in the same second or later keeps the old role for the life of the token
  (`revocation.go:11` speaks of the cache's 30 seconds); two administrators who demote each other at the same
  time leave none (`auth.go:232` says that an instance always keeps one).
* Two writes escape "shared read, owner-or-admin write" (`handlers.go:119-123`): any
  operator sets the baseline of anybody's test (`handlers.go:324-339`, `server.go:144`), and
  archiving a test switches off the schedules that others have on it (`postgres.go:155`).
  `EditedByOwner` names them. Schedules may be created for archived
  tests, where they fire and launch nothing; a run that is stopped and deleted
  between `CreateRun` and `StartRun` is dispatched all the same; a crash between
  claim and launch loses that firing.

### Fairness

Weak fairness stands for what the code's runtime gives: runnable goroutines run,
streams deliver or break, pending timers fire, tickers of the watchdog and the
reaper tick, agents redial (`Agent.Run` loops with a backoff). Clients, faults,
load changes and batches have none. `NoRedialSpec` drops the fairness of
redialling, for a worker that is gone for good. `Drain` in `Aggregator` has
strong fairness: when both its context and its ticker are ready, Go's `select`
picks at random and so takes the context in the end. `RunRecord` assumes that each
replica's reaper goes on, and not that the coordinator ends a run it dispatched: a plan
that cannot start, or a worker that died as one of two, keeps it RUNNING for ever. In the worker, VU goroutines, timers, the
pacer and pool goroutines are weakly fair. `TakeJob` in `Arrival` is strongly fair:
a goroutine retires only after `workerIdleTimeout` without a job, so that it cannot
be the timer that always wins against a job in the queue. `Reporter`, `Script`,
`Access` and `Catalog` have safety properties only and assume no fairness.

## 4. Proofs

The theorems hold for every value of the constants that the named assumptions of
the modules allow: finite sets of any size, natural numbers as bounds. None assumes
fairness. A module of proofs about a specification has one or more inductive
invariants; TLC checked them on the instances of section 3 before they were proved.
Every invariant and every action property that a passing run checks is also stated by
a theorem.

### The cluster (`ClusterProofs`)

For `Spec`, with restarts: `TypeCorrect` and `CounterNeverUnderflows`. Types need
the latter: `running - 1` is a natural number only because a run that holds a slot
is counted. A step changes counter and slots in one of few ways
(`EveryStepIsSlotStep`): a dispatch adds at most one slot and exactly one to the
counter, a rehydration at most as many slots as it counts, an end removes one of
each, a restart empties both. `LiveWorkersAreRegistered` also holds across restarts.
Its hypothesis `~BufferMayFill` is needed: a `Register` that finds the agent's
buffer full is lost.

For `LifetimeSpec`, everything but a coordinator restart:

* `SlotsAreCounted`, `AdmissionIsBounded`, `SlotsFollowRuns`, `QueueAgrees`,
  `AggregatorsExist`, `StatusAgrees`, and the action properties `EndedStaysEnded` and
  `AbortsStick`. `AdmissionHolds` and `AggregatorsAgree` put them together as the
  invariants `AdmissionIsSound` and `RunsHaveAggregators` that the runs check.
  They rest on `LifetimeInv`, none of whose parts is inductive alone. The counter is
  exact only if `dispatchLocked` never meets a run that already holds a slot, which
  needs the queue to hold QUEUED runs only and each once; the queue stays so only if
  no `Finished` and no `Register` concerns a queued run, which is
  `AggregatorForEveryRun`, a statement about everything on the streams, in the
  handlers and in the workers; that in turn needs that aggregators never disappear,
  and statuses to match them. The proof first classifies the steps by what they do
  to the run states (`EveryStepIsRunStep`: quiet, queue, dispatch, end, abort, close)
  and proves each part per class; the part about streams and workers is proved per
  action. `cluster_rehydrate_queued` shows that the invariant really is one of a
  lifetime.
* `LifecycleHolds`: `Cluster` implements `RunLifecycle`. The same classes of steps
  are mapped one by one to `Wait`, `Admit`, `ServeLine`, `Abort`, `Finish` or a
  stutter; `LifetimeInv` says that the queue is the abstract line.
* `CompletedRunsAreQuiet` and `ExecutedOnce`, from `WorkInv`. That a run is
  COMPLETED only when nobody generates its load is a fact about messages: whoever has
  a task, or an assignment on the way to him (`Owes`), is among the run's workers, has
  not reported and has no report on the way; and an assignment is on the way to a
  worker at most once, and never to one that already has the task.

### The aggregator (`AggregatorProofs`)

`MergeInv` gives `BatchesAreAccounted`, `TicksAscend` and the action property
`GraceIsKept`. `finalize` drops the lock after collecting, so that the order of
ticks needs that everything emitted lies below `lastEmitted` (`Emitted`), and the
grace that the cutoff of a `finalize` under way is not newer than the clock allows,
unless it is the last (`GraceKept`). `BreakerInv` gives `BreakerAgreesWithHistory`:
until the breaker fires, the window that `evalAutoStop` slides is the end of the
whole history, the streak that it counts is the length of the stall at the end of the
history, and no earlier tick called for a stop. Where an argument picks the least
second or the least tick, it does so by the well-foundedness of the numbers
(`LeastNumber` in `SumProofs`). `AggregatorTypeCorrect` needs that the totals of a tick
are numbers, which are sums over the batches and over the workers of a bucket: this is
`Counted`, proved on top of `MergeInv`.

### The record (`RunRecordProofs`)

`RecordTypeCorrect`, and `GreenMeansExecuted` from `RecordInv`: whatever the API
server can take for a sign that a run was executed (the coordinator's status, a
worker at work, metrics, a goroutine that has decided to write "completed") comes
after a dispatch, whichever calls fail and whoever restarts in between.
`VerdictsAreKept` says that no step of any goroutine replaces a verdict by another or by
"running"; it needs no invariant, as each statement's condition is enough, and it leaves
out the one statement that has none, `SetRunStatus`.

### The worker (`WorkerProofs`)

`ExecutorInv` gives `BarrierCounts`, `PoolWorks` and the action property
`ReleasedWithCause`: nobody waits for a generation to come, VUs are numbered in the
order in which they start, and the pool holds each once, so that a cancelled VU is
in no later pool. `ArrivalInv` gives `PoolIsAccounted` and `PoolIsBounded`.

`ScriptInv` gives `RuntimesAreOwned` and `IterationsAnswerForThemselves`, under the
hypothesis `~OpenModel`, that is for the executor that sets VU ids; `script_shared`
shows that the first is false without it. The invariant follows a goroutine through
`ExecMulti` (`Sound`): results in its runtime are those of its iteration, the steps
left are the last of the sequence and those done gave the last results (`Midway`),
so that the transaction's verdict, computed along the way, is that of all its steps.
Interruptions are counted against timers by `TimersCounted`: each interruption so
far, and each interrupt flag that is still up, has a timer of its own that fired.

`ReporterInv` gives `ReportsHold` and `ReporterTypeCorrect`. What was recorded is a sum
over the places where results can be: a sampler, a batch that is being built, the
batches in the send buffer, the batches that got through, those lost. A step moves a
result, or a tally of dropped messages, from one place to the next, so that the proof
is that each step changes two terms by the same amount (`weigh` is what a buffer
carries; appending and removing a message change it by the message's weight). That an
ended run keeps no virtual users needs to know which flush loops still run
(`LoopsEnd`). `WorkerTypeCorrect` puts the types of the parts together.

### Accounts and catalogue (`AccessProofs`, `CatalogProofs`)

`RevocationInv` gives `AccessTypeCorrect`, `CacheIsHonest` and `RevocationIsTimely`.
Its core is `Known`: a cached state, or one that a slow fill is about to store, knows
everything that changed before it was fetched; with the fetch time taken before the
query, an answer that is served for `RevTTL` from then on is not late. `RevTTL > 0` is
the one assumption on a duration; `revCacheTTL` is 30 seconds.

`CatalogInv` gives `ReferencesHold`, `OwnersWrite` and `LaunchesHold`. A handler
checks the owner in one statement and writes in another: the write is legal since
creators never change and a request keeps whom it was checked for (`Checked`,
`Owned`). The last write of a row is its creator's, an administrator's, a baseline or
an archival's (`Rightful`, the part of `Owned` that `OwnersWrite` states); the last case
rests on a schedule staying on its test, whose creator or administrator archived it. A schedule fires once per interval on any number of replicas since no two
loops have claimed it (`OneLoop`), and a claim, which moves the next firing an
interval ahead, outlives its transaction by no more than the timeout (`Claimed`,
`Launched`).

### Sums (`SumProofs`)

`SumFunction` is a recursion over the domain that picks an element at each step. That it
is well defined, does not depend on the choices, and grows and shrinks as a sum does is
an induction over finite sets. The library's induction theorems have a predicate as
parameter, which the provers cannot instantiate; `NumberInduction` and `SubsetInduction`
are about a set of numbers, or of sets, instead and are proved from the least
counterexample. With them: the recursion exists and is unique (`RecursionExists`,
`RecursionUnique`), any element may be taken out first (`RecursionAnyOrder`), and the sum
is an integer, changes with one value by the difference, is additive and homogeneous, is
within its bounds, and depends only on where the function is not 0 (`SumSupport`).

### Pure algorithms (`AssignmentProofs`)

The theorems say of any `input` in `AnyInput` what the run checks for each input that it
enumerates. `AnyInput` has profiles of any number of stages with any durations and
targets, any number of workers, any time, any think times, any sequence of ticks and any
breaker, plans with any timeouts and numbers, any sequence of assertions and any
sequence of login attempts; `InputsAreCovered` says that the inputs of the run are among
them.

* `LoadIsThePlan`. A target at some time is a mean of two targets of the profile, with
  weights that depend on the durations and the time only (`Weights`). All slices have
  the durations of the plan, so they mix their shares with the same weights, and as
  shares add up, so do the means (`MixAddsUp`); each worker rounds by at most a half,
  which gives the bound on the VUs (`RoundedSum`). Workers without a share of the rate
  add 0 to its sum (`SumSupport`). Within a stage the target lies between its ends, and
  the stage that `TargetAt` finds is the one that the time is in, as the begins of stages
  ascend (`BeginsGrow`, `FirstCurrent`).
* `WindowsAlwaysHold`. The attempts that share a bucket of the login limiter are
  consecutive and lie within a window of the first (`Grouped`), and any stretch of a
  window's length meets at most two buckets (`TwoWindows`). The alert's threshold is
  reached at the tick where the breaker trips.
* `AcceptedPlansRun` and `VerdictsAlwaysAgree` are case distinctions over protocols,
  operators and the types of the value that is found, the latter for each of any number
  of assertions. For the stall limit, which of a plan's configurations sizes it is
  compared with which one its driver uses, for any timeouts in milliseconds, and the whole
  seconds of `service.go:532` with the timeout (`StallsOutlast`). That
  assertions agree is shown per kind of operator: for order, both languages must read the
  two texts as the same numbers (`NumbersAgree`), for equality the types decide
  (`EqualAgrees`). Trying them showed that the guards of some CASE expressions of the model
  overlapped (`driverConfig`, `RequestTimeout`, `assertOne`), where TLC takes the first
  and TLA+ an arbitrary one; they now exclude each other, in the order of the code.

Limits: the texts, numerals and answers of HTTP are the finite sets of the model, as its
conversions, one set of tables for each language, are tables; an alert is one that is switched on.

### Only model-checked

* Every liveness property: the prover has no fairness and no `ENABLED`.
* That the code violates what is said of it: the four runs that expect a violation.

## 5. Plan

Done: the cluster with its proofs and its abstract specification; the aggregator; the
record; the worker's executors, reporting, script engine and pure algorithms; accounts;
the catalogue with its schedules; inductive invariants and proofs for all of them. What
would come next is in section 6: the other protocol drivers, and the live stream with
its slow subscribers.

## 6. Not modelled

Network drivers, importers, HTML reports, share links, webhooks, audit log, MCP
server, command line, web console and deployment files: parsing, rendering,
network I/O or reads without a protocol of their own. Signatures, password hashes
and the identity provider are libraries. Latency histograms and quantiles, the
comparison of SLA thresholds with them and the generator-saturation counters are
numeric data that no property here distinguishes. Wall-clock durations are
abstracted but in the aggregator, whose clock counts seconds, and in `Access` and
`Catalog`, whose clocks count ticks.
