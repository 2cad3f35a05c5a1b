------------------------------- MODULE Cluster -------------------------------
(***************************************************************************)
(* The coordinator together with its workers: the bidirectional Connect    *)
(* stream, the worker agent's run goroutines (internal/worker/agent.go),   *)
(* and the faults both sides are written for: a stream that breaks, a      *)
(* worker process that dies, a coordinator process that restarts.          *)
(*                                                                         *)
(* A worker's outgoing messages wait in Agent.sendCh, which outlives the   *)
(* stream: what was queued before a reconnect is sent before the new       *)
(* Register.  A break loses the messages already handed to the stream (a   *)
(* prefix of the sequence) and everything in the coordinator's channel.    *)
(* Metric batches and heartbeats' payloads are not here: they do not touch *)
(* the run states (Aggregator has the metrics).                            *)
(***************************************************************************)
EXTENDS Coordinator

CONSTANTS
    BadPlan,        \* runs whose plan, data or driver a worker cannot start
    BufferMayFill,  \* may the agent's 256-slot sendCh be found full?
    Faults,         \* which of "break", "crash", "restart" may happen
    MaxFaults       \* bound: how many faults in one behaviour

ASSUME BadPlanAssumption == BadPlan \subseteq Run
ASSUME BufferMayFillAssumption == BufferMayFill \in BOOLEAN
ASSUME FaultsAssumption == Faults \subseteq {"break", "crash", "restart"}
ASSUME MaxFaultsAssumption == MaxFaults \in Nat

VARIABLES
    link,      \* workers whose stream is open
    teardown,  \* workers with a broken stream whose handler has not returned
    up,        \* [Worker -> Seq(WMsg)]: Agent.sendCh and the stream behind it
    handler,   \* [Worker -> Handler]: where the Register handler is
    tasks,     \* [Worker -> SUBSET Task]: the agent's run goroutines
    cancelOf,  \* [Worker -> [Run -> Nat]]: Agent.runs, by the goroutine's seq
    faults     \* faults so far

workerVars == <<link, teardown, up, handler, tasks, cancelOf>>
vars == <<coordVars, workerVars, faults>>

\* starting: before the run is in Agent.runs; waiting: for StartAtUnixMs;
\* finishing: past its last message, Agent.runs not yet cleaned
Phase == {"starting", "waiting", "executing", "finishing"}
Task == [run : Run, seq : Nat, phase : Phase]
WMsg == [kind : {"register"}, active : SUBSET Run]
          \cup [kind : {"finished"}, run : Run]
Handler == [step : {"idle", "rehydrate", "drain"}, active : SUBSET Run]

Idle == [step |-> "idle", active |-> {}]

ClusterInit ==
    /\ Init
    /\ link = {}
    /\ teardown = {}
    /\ up = [w \in Worker |-> <<>>]
    /\ handler = [w \in Worker |-> Idle]
    /\ tasks = [w \in Worker |-> {}]
    /\ cancelOf = [w \in Worker |-> [r \in Run |-> 0]]
    /\ faults = 0

\* Agent.enqueue: the outcomes of a non-blocking send of m to sendCh.
enqueue(w, m) ==
    \/ up' = [up EXCEPT ![w] = Append(@, m)]
    \/ BufferMayFill /\ UNCHANGED up

-----------------------------------------------------------------------------
(* Worker agent                                                            *)

activeRuns(w) == {r \in Run : cancelOf[w][r] # 0}

\* session: a new stream, and the Register that reports the active runs.
Connect(w) ==
    /\ w \notin link
    /\ link' = link \cup {w}
    /\ enqueue(w, [kind |-> "register", active |-> activeRuns(w)])
    /\ UNCHANGED <<coordVars, teardown, handler, tasks, cancelOf, faults>>

\* Only the stream whose channel the registry holds delivers anything.
incoming(w, kind) ==
    /\ w \in link
    /\ owner[w] = "current"
    /\ send[w] # <<>>
    /\ Head(send[w]).kind = kind

\* Mutant of received: a message is delivered again.
receivedAgain(w) == send' = send

received(w) == send' = [send EXCEPT ![w] = Tail(@)]

\* handle, Assignment: startRun in a goroutine of its own.
ReceiveAssignment(w) ==
    /\ incoming(w, "assign")
    /\ received(w)
    /\ LET m == Head(send[w])
       IN  tasks' = [tasks EXCEPT ![w] =
                       @ \cup {[run |-> m.run, seq |-> m.seq,
                                phase |-> "starting"]}]
    /\ UNCHANGED <<runVars, admissionVars, timerVars, registryVars,
                   historyVars, link, teardown, up, handler, cancelOf, faults>>

moved(w, t, phase) ==
    tasks' = [tasks EXCEPT ![w] = (@ \ {t}) \cup {[t EXCEPT !.phase = phase]}]

\* startRun up to the registration in Agent.runs; a plan that cannot be
\* started ends the goroutine without a Finished.
StartTask(w, t) ==
    /\ t.phase = "starting"
    /\ IF t.run \in BadPlan
       THEN /\ tasks' = [tasks EXCEPT ![w] = @ \ {t}]
            /\ UNCHANGED cancelOf
       ELSE /\ moved(w, t, "waiting")
            /\ cancelOf' = [cancelOf EXCEPT ![w][t.run] = t.seq]
    /\ UNCHANGED <<coordVars, link, teardown, up, handler, faults>>

\* The synchronized start time has come.
BeginTask(w, t) ==
    /\ t.phase = "waiting"
    /\ moved(w, t, "executing")
    /\ UNCHANGED <<coordVars, link, teardown, up, handler, cancelOf, faults>>

\* The executor returned, because its ramp ended or its context was cancelled.
EndTask(w, t) ==
    /\ t.phase = "executing"
    /\ enqueue(w, [kind |-> "finished", run |-> t.run])
    /\ moved(w, t, "finishing")
    /\ UNCHANGED <<coordVars, link, teardown, handler, cancelOf, faults>>

\* finishRun deletes the run's entry, whichever goroutine made it.
FinishTask(w, t) ==
    /\ t.phase = "finishing"
    /\ tasks' = [tasks EXCEPT ![w] = @ \ {t}]
    /\ cancelOf' = [cancelOf EXCEPT ![w][t.run] = 0]
    /\ UNCHANGED <<coordVars, link, teardown, up, handler, faults>>

\* stopRun cancels the goroutine in Agent.runs, if there is one yet.  One that
\* still waits for its start time leaves without a Finished; an executing one
\* goes on to EndTask, which needs no cancel to be enabled.
ReceiveStop(w) ==
    /\ incoming(w, "stop")
    /\ received(w)
    /\ LET r == Head(send[w]).run
           waiting == {t \in tasks[w] : /\ t.run = r
                                        /\ t.seq = cancelOf[w][r]
                                        /\ t.phase = "waiting"}
       IN  tasks' = [tasks EXCEPT ![w] =
                       (@ \ waiting) \cup
                       {[t EXCEPT !.phase = "finishing"] : t \in waiting}]
    /\ UNCHANGED <<runVars, admissionVars, timerVars, registryVars,
                   historyVars, link, teardown, up, handler, cancelOf, faults>>

-----------------------------------------------------------------------------
(* Coordinator's side of the stream                                        *)

\* The handler of a stream receives its messages one at a time.
arrived(w, kind) ==
    /\ w \in link
    /\ up[w] # <<>>
    /\ Head(up[w]).kind = kind
    /\ handler[w] = Idle

taken(w) == up' = [up EXCEPT ![w] = Tail(@)]

\* Connect's handler of Register, in its three critical sections.
RegisterAdd(w) ==
    /\ arrived(w, "register")
    /\ taken(w)
    /\ Add(w)
    /\ handler' = [handler EXCEPT ![w] = [step |-> "rehydrate",
                                          active |-> Head(up[w]).active]]
    /\ UNCHANGED <<link, teardown, tasks, cancelOf, faults>>

RegisterRehydrate(w) ==
    /\ handler[w].step = "rehydrate"
    /\ Rehydrate(w, handler[w].active)
    /\ handler' = [handler EXCEPT ![w] = [step |-> "drain", active |-> {}]]
    /\ UNCHANGED <<link, teardown, up, tasks, cancelOf, faults>>

RegisterDrain(w) ==
    /\ handler[w].step = "drain"
    /\ BeginDrain
    /\ handler' = [handler EXCEPT ![w] = Idle]
    /\ UNCHANGED <<link, teardown, up, tasks, cancelOf, faults>>

ReceiveFinished(w) ==
    /\ arrived(w, "finished")
    /\ taken(w)
    /\ WorkerFinished(w, Head(up[w]).run)
    /\ UNCHANGED <<link, teardown, handler, tasks, cancelOf, faults>>

\* Connect returns: the deferred Remove.
Teardown(w) ==
    /\ w \in teardown
    /\ handler[w] = Idle
    /\ teardown' = teardown \ {w}
    /\ Remove(w)
    /\ UNCHANGED <<link, up, handler, tasks, cancelOf, faults>>

-----------------------------------------------------------------------------
(* Faults                                                                  *)

\* The stream of w is gone: what was in it, in either direction, is lost.
broken(w) ==
    /\ link' = link \ {w}
    /\ teardown' = teardown \cup {w}
    /\ owner' = [owner EXCEPT ![w] = IF @ = "current" THEN "stale" ELSE @]
    /\ send' = [send EXCEPT ![w] = <<>>]

\* What may be left of a worker's messages when their stream is gone.
suffixes(w) == {SubSeq(up[w], k + 1, Len(up[w])) : k \in 0..Len(up[w])}

BreakLink(w) ==
    /\ "break" \in Faults
    /\ faults < MaxFaults
    /\ w \in link
    /\ broken(w)
    /\ \E rest \in suffixes(w) : up' = [up EXCEPT ![w] = rest]
    /\ faults' = faults + 1
    /\ UNCHANGED <<runVars, admissionVars, timerVars, busy, historyVars,
                   handler, tasks, cancelOf>>

\* The worker's process dies with everything it ran; it may come back under
\* the same id (its host name).
CrashWorker(w) ==
    /\ "crash" \in Faults
    /\ faults < MaxFaults
    /\ w \in link
    /\ broken(w)
    /\ up' = [up EXCEPT ![w] = <<>>]
    /\ tasks' = [tasks EXCEPT ![w] = {}]
    /\ cancelOf' = [cancelOf EXCEPT ![w] = [r \in Run |-> 0]]
    /\ faults' = faults + 1
    /\ UNCHANGED <<runVars, admissionVars, timerVars, busy, historyVars,
                   handler>>

\* The coordinator restarts empty; the workers keep running and reconnect.
\* Of each worker's messages a prefix is lost with the streams.
RestartCoordinator ==
    /\ "restart" \in Faults
    /\ faults < MaxFaults
    /\ CoordinatorReset
    /\ link' = {}
    /\ teardown' = {}
    /\ handler' = [w \in Worker |-> Idle]
    /\ up' \in {f \in [Worker -> UNION {suffixes(w) : w \in Worker}] :
                  \A w \in Worker : /\ f[w] \in suffixes(w)
                                    /\ w \notin link => f[w] = up[w]}
    /\ faults' = faults + 1
    /\ UNCHANGED <<tasks, cancelOf>>

-----------------------------------------------------------------------------
CoordinatorStep ==
    /\ \/ \E r \in Run : \/ StartRun(r) \/ StopRun(r) \/ SignalStop(r)
                         \/ AutoStopRun(r) \/ StopTimeout(r)
                         \/ ReapFinalize(r) \/ AggregatorExit(r)
       \/ DrainDispatch
       \/ DrainExit
       \/ \E late \in SUBSET lost : ReapScan(late)
       \/ \E w \in Worker : Touch(w)
    /\ UNCHANGED <<workerVars, faults>>

StreamStep(w) ==
    \/ RegisterAdd(w) \/ RegisterRehydrate(w) \/ RegisterDrain(w)
    \/ ReceiveFinished(w) \/ Teardown(w)

AgentWork(w) ==
    \/ ReceiveAssignment(w) \/ ReceiveStop(w)
    \/ \E t \in tasks[w] : \/ StartTask(w, t) \/ BeginTask(w, t)
                           \/ EndTask(w, t) \/ FinishTask(w, t)

AgentStep(w) == Connect(w) \/ AgentWork(w)

\* Everything but a coordinator restart: one lifetime of the coordinator.
LifetimeNext ==
    \/ CoordinatorStep
    \/ \E w \in Worker : \/ StreamStep(w) \/ AgentStep(w)
                         \/ BreakLink(w) \/ CrashWorker(w)

Next == LifetimeNext \/ RestartCoordinator

Spec == ClusterInit /\ [][Next]_vars

LifetimeSpec == ClusterInit /\ [][LifetimeNext]_vars

\* Goroutines that can run do run, streams deliver, timers fire, the watchdog
\* ticks and workers redial.  Clients, faults and load changes have none.
ServiceFairness ==
    /\ WF_vars((DrainDispatch \/ DrainExit) /\ UNCHANGED <<workerVars, faults>>)
    /\ \A r \in Run :
          WF_vars(/\ \/ SignalStop(r) \/ StopTimeout(r)
                     \/ ReapFinalize(r) \/ AggregatorExit(r)
                  /\ UNCHANGED <<workerVars, faults>>)
    /\ WF_vars(/\ ReapScan(allWorkersGone \cap lost)
               /\ UNCHANGED <<workerVars, faults>>)

WorkerFairness ==
    \A w \in Worker : WF_vars(StreamStep(w)) /\ WF_vars(AgentWork(w))

RedialFairness == \A w \in Worker : WF_vars(Connect(w))

FairSpec == Spec /\ ServiceFairness /\ WorkerFairness /\ RedialFairness

\* A worker that is gone may stay away for good.
NoRedialSpec == Spec /\ ServiceFairness /\ WorkerFairness

-----------------------------------------------------------------------------
(* Properties                                                              *)

RunTypeOK ==
    /\ status \in [Run -> Status]
    /\ reason \in [Run -> Reason]
    /\ ended \subseteq Run
    /\ slotHeld \subseteq Run
    /\ assigned \in [Run -> SUBSET Worker]
    /\ finished \in [Run -> SUBSET Worker]
    /\ lost \subseteq Run
    /\ agg \in [Run -> AggState]
    /\ armed \subseteq Run
    /\ fired \subseteq Run

ServiceTypeOK ==
    /\ queue \in Seq(Run)
    /\ running \in Nat
    /\ draining \in BOOLEAN
    /\ stopping \in [Run -> Nat]
    /\ stopTimers \in [Run -> Nat]
    /\ orphaned \subseteq Run
    /\ owner \in [Worker -> Owner]
    /\ busy \subseteq Worker
    /\ send \in [Worker -> Seq(Msg)]
    /\ dispatches \in [Run -> Nat]
    /\ stopAsked \subseteq Run
    /\ stopCalls \in [Run -> Nat]

WorkerTypeOK ==
    /\ link \subseteq Worker
    /\ teardown \subseteq Worker
    /\ up \in [Worker -> Seq(WMsg)]
    /\ handler \in [Worker -> Handler]
    /\ tasks \in [Worker -> SUBSET Task]
    /\ cancelOf \in [Worker -> [Run -> Nat]]
    /\ faults \in Nat

\* The coordinator's and the workers' state, each variable in its type.
TypeOK == RunTypeOK /\ ServiceTypeOK /\ WorkerTypeOK

\* The admission counter is the number of runs that hold a slot, whichever of
\* the five paths took or freed it.
SlotAccounting == running = Cardinality(slotHeld)

\* At most maxConcurrent runs are dispatched at once.
AdmissionBound == running <= MaxRuns

\* The runs that hold a slot are exactly the dispatched runs that have not
\* ended: no path ends a run and keeps its slot, or frees it twice.
SlotsAreLiveRuns == slotHeld = {r \in Run : agg[r] # "none"} \ ended

\* The queue and the QUEUED run states agree, and no request waits twice: no
\* run is stranded as QUEUED outside the queue or dispatched from a leftover.
QueueConsistent ==
    /\ {queue[i] : i \in 1..Len(queue)} = {r \in Run : status[r] = "queued"}
    /\ \A i, j \in 1..Len(queue) : queue[i] = queue[j] => i = j

\* The admission of runs is sound on every path that starts, stops or ends one:
\* counter, slots, limit, run states and queue agree.
AdmissionIsSound ==
    SlotAccounting /\ AdmissionBound /\ SlotsAreLiveRuns /\ QueueConsistent

\* A run the coordinator calls COMPLETED generates no load any more: none of
\* the workers is about to start it or still executes it.
CompletedIsQuiet ==
    \A r \in Run : status[r] = "completed" =>
        \A w \in Worker :
            /\ \A t \in tasks[w] : t.run = r => t.phase = "finishing"
            /\ \A i \in 1..Len(send[w]) :
                  ~(send[w][i].kind = "assign" /\ send[w][i].run = r)

\* Whatever a worker holds, is sent, or reports names a run that has an
\* aggregator: ingest and workerFinished never meet a run state without one.
AggregatorForEveryRun ==
    \A w \in Worker :
        /\ \A t \in tasks[w] : agg[t.run] # "none"
        /\ \A r \in Run : cancelOf[w][r] # 0 => agg[r] # "none"
        /\ \A r \in handler[w].active : agg[r] # "none"
        /\ \A i \in 1..Len(send[w]) :
              send[w][i].kind = "assign" => agg[send[w][i].run] # "none"
        /\ \A i \in 1..Len(up[w]) :
              /\ up[w][i].kind = "finished" => agg[up[w][i].run] # "none"
              /\ up[w][i].kind = "register" =>
                    \A r \in up[w][i].active : agg[r] # "none"

\* A run has an aggregator from its dispatch on, and an end only with a verdict.
StatusMatchesAggregator ==
    \A r \in Run :
        /\ agg[r] = "none" <=> status[r] \in {"none", "queued"}
        /\ r \in ended => status[r] \in {"completed", "aborted"}

\* Run states, aggregators and all that is on the streams agree: no handler meets a
\* run state without the aggregator it uses.
RunsHaveAggregators == AggregatorForEveryRun /\ StatusMatchesAggregator

\* A worker executes a run at most once at a time, however often its streams
\* break and its registrations overlap with dispatches.
NoDoubleExecution ==
    \A w \in Worker : \A t, u \in tasks[w] : t.run = u.run => t = u

\* A worker whose open stream has registered stays in the registry: the late
\* teardown of an older stream does not evict it.
LiveWorkerRegistered ==
    \A w \in link : owner[w] # "current" =>
        \E i \in 1..Len(up[w]) : up[w][i].kind = "register"

\* Once ended, a run stays ended: it is never queued or dispatched again.
EndedIsFinal ==
    [][\A r \in ended : r \in ended' /\ status'[r] \in {"completed", "aborted"}]_vars

\* A stop verdict survives everything that still arrives for the run.
AbortSticks ==
    [][\A r \in Run : status[r] = "aborted" => status'[r] = "aborted"]_vars

\* A run that was stopped before it ended is never reported as COMPLETED.
StopHonoured == \A r \in stopAsked : status[r] # "completed"

\* The admission counter never falls below the number of runs that hold a
\* slot, across coordinator restarts too: it cannot underflow.
NoUnderflow == running >= Cardinality(slotHeld)

\* A stopped run ends, even when no worker acknowledges the stop or its plan
\* never started, unless a restart makes the coordinator forget the run.
StopTerminates ==
    \A r \in Run : status[r] = "aborted" ~> r \in ended \/ status[r] # "aborted"

\* A run whose workers have all gone ends, unless one of them comes back.
OrphansAreReaped ==
    \A r \in Run : r \in allWorkersGone ~> r \notin allWorkersGone

\* Without faults every dispatched run that its workers can start ends.
RunsEnd ==
    \A r \in Run \ BadPlan : status[r] = "running" ~> r \in ended \/ faults > 0

\* A queued run is dispatched at last, unless there is no worker, a fault
\* interferes or a run that never ends holds a slot.
QueueDrains ==
    \A r \in Run : status[r] = "queued" ~> \/ status[r] # "queued"
                                           \/ link = {}
                                           \/ faults > 0
                                           \/ slotHeld \cap BadPlan # {}

\* Runs go on to their end: a queued run is dispatched, a dispatched one ends, a
\* stopped one ends even if its worker never answers.
RunsProgress == QueueDrains /\ RunsEnd /\ StopTerminates

-----------------------------------------------------------------------------
(* What the coordinator promises                                           *)

\* The phase and the verdict of a run, as its client sees them.
lifeOf(r) ==
    CASE r \in ended -> "over"
      [] r \notin ended /\ agg[r] # "none" -> "live"
      [] r \notin ended /\ agg[r] = "none" /\ status[r] = "queued" -> "waiting"
      [] OTHER -> "new"

verdictOf(r) == IF status[r] \in {"completed", "aborted"} THEN status[r] ELSE "none"

LC == INSTANCE RunLifecycle
        WITH life <- [r \in Run |-> lifeOf(r)],
             verdict <- [r \in Run |-> verdictOf(r)],
             line <- queue

\* Through broken streams, crashed workers and repeated registrations, every
\* coordinator step is a step of a run's life or none of it: a run goes live once, in
\* its turn and within the limit, ends once, and keeps its verdict.
Lifecycle == LC!LifeSpec

=============================================================================
