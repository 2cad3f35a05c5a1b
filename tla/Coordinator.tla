----------------------------- MODULE Coordinator -----------------------------
(***************************************************************************)
(* The coordinator service: admission, the queue, dispatch, the run states *)
(* and every path that ends a run (internal/coordinator/service.go with    *)
(* runner.go, registry/registry.go and scheduler.PickWorkers).             *)
(*                                                                         *)
(* This module holds the coordinator's state and one action per critical   *)
(* section of its handlers; the workers and the streams that call them are *)
(* in Cluster, which extends this module and has the next-state relation.  *)
(*                                                                         *)
(* Service.mu.  Every action that the code runs under s.mu has the guard   *)
(* Unlocked.  The one critical section that is a loop, drainLocked, is one *)
(* step per iteration: while it runs, `draining' is TRUE and the mutex is  *)
(* taken.  The registry has a lock of its own, so its actions interleave   *)
(* with the loop.                                                          *)
(*                                                                         *)
(* Time.  Timers carry no clock: a pending timer may fire at any later     *)
(* step.  Whether a worker is over its CPU or memory threshold, or has     *)
(* missed heartbeats for longer than the registry's TTL, is one bit per    *)
(* worker (`busy') that the heartbeats flip.                               *)
(***************************************************************************)
EXTENDS Naturals, FiniteSets, Sequences

CONSTANTS
    Worker,        \* worker ids
    Run,           \* run ids
    MaxRuns,       \* Service.maxRuns: runs dispatched at once
    Desired,       \* StartRunRequest.DesiredWorkers of each run, 0 for all
    Guarded,       \* runs whose plan leaves the auto-stop breaker enabled
    Overloadable,  \* workers whose load may cross the admission thresholds
    SendMayFail,   \* may a worker's 64-slot send channel be found full?
    MaxStops       \* bound: how often clients stop each run

ASSUME WorkerAssumption == IsFiniteSet(Worker)
ASSUME RunAssumption == IsFiniteSet(Run)
ASSUME MaxRunsAssumption == MaxRuns \in Nat \ {0}
ASSUME DesiredAssumption == Desired \in [Run -> Nat]
ASSUME GuardedAssumption == Guarded \subseteq Run
ASSUME OverloadableAssumption == Overloadable \subseteq Worker
ASSUME SendMayFailAssumption == SendMayFail \in BOOLEAN
ASSUME MaxStopsAssumption == MaxStops \in Nat

VARIABLES
    \* runState of each run; status "none" when s.runs has no entry for it
    status,      \* [Run -> Status]
    reason,      \* [Run -> Reason]
    ended,       \* runs whose endedAt is set
    slotHeld,    \* runs whose slotHeld is TRUE
    assigned,    \* [Run -> SUBSET Worker]
    finished,    \* [Run -> SUBSET Worker]
    lost,        \* runs whose workersLostAt is set
    agg,         \* [Run -> AggState]: the run's aggregator
    armed,       \* runs whose aggregator has the auto-stop callback
    fired,       \* runs whose aggregator has used it (autoFired)
    \* Service
    queue,       \* Seq(Run): requests waiting for admission
    running,     \* the admission counter
    draining,    \* is some goroutine inside drainLocked, holding s.mu?
    \* goroutines and timers of the coordinator
    stopping,    \* [Run -> Nat]: StopRun calls between unlock and signalling
    stopTimers,  \* [Run -> Nat]: pending stopGrace timers
    orphaned,    \* runs reapOnce has decided to force-finalize
    \* registry, and the channel behind each entry
    owner,       \* [Worker -> Owner]: whose stream the entry belongs to
    busy,        \* workers that Available leaves out
    send,        \* [Worker -> Seq(Msg)]: the entry's send channel
    \* history
    dispatches,  \* [Run -> Nat]: how often the run was dispatched
    stopAsked,   \* runs for which StopRun was accepted before they ended
    stopCalls    \* [Run -> Nat]: StopRun calls from clients, for the bound

runVars == <<status, reason, ended, slotHeld, assigned, finished, lost, agg,
             armed, fired>>
admissionVars == <<queue, running, draining>>
timerVars == <<stopping, stopTimers, orphaned>>
registryVars == <<owner, busy>>
historyVars == <<dispatches, stopAsked, stopCalls>>
coordVars == <<runVars, admissionVars, timerVars, registryVars, send,
               historyVars>>

Status == {"none", "queued", "running", "completed", "aborted"}
Reason == {"", "user", "auto", "lost", "unacknowledged"}
\* none: no aggregator; live: ingesting; closing: cancel comes after the drain
\* grace; closed: Run has returned
AggState == {"none", "live", "closing", "closed"}
\* none: not registered; current: the worker's open stream; stale: a stream
\* that has broken and whose handler has not yet removed the entry
Owner == {"none", "current", "stale"}
Msg == [kind : {"assign", "stop"}, run : Run, seq : Nat]

Unlocked == ~draining

Registered == {w \in Worker : owner[w] # "none"}

Available == Registered \ busy

\* The subsets of the candidates a request for n workers may be given: the
\* registry is a map, so any n of them.
PickWorkers(candidates, n) ==
    IF n = 0 \/ n >= Cardinality(candidates)
    THEN {candidates}
    ELSE {p \in SUBSET candidates : Cardinality(p) = n}

\* The workers of S that a round of non-blocking sends may reach.
Reached(S) == IF SendMayFail THEN SUBSET S ELSE {S}

-----------------------------------------------------------------------------
Init ==
    /\ status = [r \in Run |-> "none"]
    /\ reason = [r \in Run |-> ""]
    /\ ended = {}
    /\ slotHeld = {}
    /\ assigned = [r \in Run |-> {}]
    /\ finished = [r \in Run |-> {}]
    /\ lost = {}
    /\ agg = [r \in Run |-> "none"]
    /\ armed = {}
    /\ fired = {}
    /\ queue = <<>>
    /\ running = 0
    /\ draining = FALSE
    /\ stopping = [r \in Run |-> 0]
    /\ stopTimers = [r \in Run |-> 0]
    /\ orphaned = {}
    /\ owner = [w \in Worker |-> "none"]
    /\ busy = {}
    /\ send = [w \in Worker |-> <<>>]
    /\ dispatches = [r \in Run |-> 0]
    /\ stopAsked = {}
    /\ stopCalls = [r \in Run |-> 0]

-----------------------------------------------------------------------------
(* Dispatch                                                                *)

canDispatch == running < MaxRuns /\ Available # {}

\* dispatchLocked once the assignment reached the workers in `got': a fresh
\* runState replaces whatever s.runs held for the run.
dispatched(r, got) ==
    /\ status' = [status EXCEPT ![r] = "running"]
    /\ reason' = [reason EXCEPT ![r] = ""]
    /\ ended' = ended \ {r}
    /\ slotHeld' = slotHeld \cup {r}
    /\ assigned' = [assigned EXCEPT ![r] = got]
    /\ finished' = [finished EXCEPT ![r] = {}]
    /\ lost' = lost \ {r}
    /\ agg' = [agg EXCEPT ![r] = "live"]
    /\ armed' = IF r \in Guarded THEN armed \cup {r} ELSE armed \ {r}
    /\ fired' = fired \ {r}
    /\ running' = running + 1
    /\ dispatches' = [dispatches EXCEPT ![r] = @ + 1]
    /\ send' = [w \in Worker |->
                  IF w \in got
                  THEN Append(send[w], [kind |-> "assign", run |-> r,
                                        seq |-> dispatches[r] + 1])
                  ELSE send[w]]

dispatchLocked(r) ==
    \E picked \in PickWorkers(Available, Desired[r]) :
        \E got \in Reached(picked) : got # {} /\ dispatched(r, got)

\* Mutant of StartRun: only a dispatched id counts as a repeat.
StartRunRepeated(r) ==
    /\ Unlocked
    /\ status[r] \in {"none", "queued"}
    /\ \/ /\ canDispatch
          /\ dispatchLocked(r)
          /\ UNCHANGED queue
       \/ /\ ~canDispatch
          /\ queue' = Append(queue, r)
          /\ status' = [status EXCEPT ![r] = "queued"]
          /\ UNCHANGED <<reason, ended, slotHeld, assigned, finished, lost,
                         agg, armed, fired, running, send, dispatches>>
    /\ UNCHANGED <<draining, timerVars, registryVars, stopAsked,
                   stopCalls>>

\* StartRun for an id s.runs does not know.  A known id, and a dispatch that
\* reaches no worker, only produce an answer and change nothing.
StartRun(r) ==
    /\ Unlocked
    /\ status[r] = "none"
    /\ \/ /\ canDispatch
          /\ dispatchLocked(r)
          /\ UNCHANGED queue
       \/ /\ ~canDispatch
          /\ queue' = Append(queue, r)
          /\ status' = [status EXCEPT ![r] = "queued"]
          /\ UNCHANGED <<reason, ended, slotHeld, assigned, finished, lost,
                         agg, armed, fired, running, send, dispatches>>
    /\ UNCHANGED <<draining, timerVars, registryVars, stopAsked,
                   stopCalls>>

\* Mutant of DrainDispatch: the request that came last is served first.
DrainDispatchLast ==
    /\ draining
    /\ queue # <<>>
    /\ running < MaxRuns
    /\ Available # {}
    /\ dispatchLocked(queue[Len(queue)])
    /\ queue' = SubSeq(queue, 1, Len(queue) - 1)
    /\ UNCHANGED <<draining, timerVars, registryVars, stopAsked,
                   stopCalls>>

\* One iteration of drainLocked's loop.
DrainDispatch ==
    /\ draining
    /\ queue # <<>>
    /\ running < MaxRuns
    /\ Available # {}
    /\ dispatchLocked(Head(queue))
    /\ queue' = Tail(queue)
    /\ UNCHANGED <<draining, timerVars, registryVars, stopAsked,
                   stopCalls>>

\* The loop ends: nothing queued, no slot, no eligible worker, or a dispatch
\* that reached nobody (its request goes back to the front).
DrainExit ==
    /\ draining
    /\ \/ queue = <<>>
       \/ running >= MaxRuns
       \/ Available = {}
       \/ SendMayFail
    /\ draining' = FALSE
    /\ UNCHANGED <<runVars, queue, running, timerVars, registryVars, send,
                   historyVars>>

-----------------------------------------------------------------------------
(* Ending a run                                                            *)

\* What the mutants of finalizeLocked have in common with it.
endLocked(r) ==
    /\ ended' = ended \cup {r}
    /\ agg' = [agg EXCEPT ![r] = IF @ = "live" THEN "closing" ELSE @]

\* Mutant of finalizeLocked: freeing a slot does not drain the queue.
finalizeNoDrain(r, fallback) ==
    /\ endLocked(r)
    /\ status' = [status EXCEPT ![r] = IF @ = "running" THEN fallback ELSE @]
    /\ slotHeld' = slotHeld \ {r}
    /\ running' = IF r \in slotHeld THEN running - 1 ELSE running
    /\ UNCHANGED draining

\* finalizeLocked on a run that has not ended, and the delayed cancel of its
\* aggregator.  Freeing a slot goes on into drainLocked under the same lock.
finalizeLocked(r, fallback) ==
    /\ status' = [status EXCEPT ![r] = IF @ = "running" THEN fallback ELSE @]
    /\ ended' = ended \cup {r}
    /\ agg' = [agg EXCEPT ![r] = IF @ = "live" THEN "closing" ELSE @]
    /\ slotHeld' = slotHeld \ {r}
    /\ running' = IF r \in slotHeld THEN running - 1 ELSE running
    /\ draining' = (r \in slotHeld)

\* A Finished that ends the run under the condition `last'.
finishedIf(w, r, last) ==
    /\ Unlocked
    /\ status[r] # "none"
    /\ finished' = [finished EXCEPT ![r] = @ \cup {w}]
    /\ IF last /\ r \notin ended
       THEN finalizeLocked(r, "completed")
       ELSE UNCHANGED <<status, ended, agg, slotHeld, running, draining>>
    /\ UNCHANGED <<reason, assigned, lost, armed, fired, queue, timerVars,
                   registryVars, send, historyVars>>

\* Mutant of WorkerFinished: the first Finished ends the run.
WorkerFinishedFirst(w, r) == finishedIf(w, r, TRUE)

\* Mutant of WorkerFinished: the last report frees the slot whether or not the
\* run has ended.
WorkerFinishedTwice(w, r) ==
    /\ Unlocked
    /\ status[r] # "none"
    /\ finished' = [finished EXCEPT ![r] = @ \cup {w}]
    /\ IF Cardinality(finished'[r]) >= Cardinality(assigned[r])
       THEN /\ endLocked(r)
            /\ status' = [status EXCEPT ![r] = IF @ = "running" THEN "completed"
                                                               ELSE @]
            /\ slotHeld' = slotHeld \ {r}
            /\ running' = running - 1
            /\ draining' = TRUE
       ELSE UNCHANGED <<status, ended, agg, slotHeld, running, draining>>
    /\ UNCHANGED <<reason, assigned, lost, armed, fired, queue, timerVars,
                   registryVars, send, historyVars>>

\* workerFinished: a worker reports that it is done with its share of the run.
WorkerFinished(w, r) ==
    /\ Unlocked
    /\ IF status[r] = "none"
       THEN UNCHANGED <<status, ended, agg, slotHeld, running, draining,
                        finished>>
       ELSE /\ finished' = [finished EXCEPT ![r] = @ \cup {w}]
            /\ IF /\ Cardinality(finished'[r]) >= Cardinality(assigned[r])
                  /\ r \notin ended
               THEN finalizeLocked(r, "completed")
               ELSE UNCHANGED <<status, ended, agg, slotHeld, running,
                                draining>>
    /\ UNCHANGED <<reason, assigned, lost, armed, fired, queue, timerVars,
                   registryVars, send, historyVars>>

\* What forceFinalize does if the condition `due' holds.
finalizeIf(r, default, due) ==
    IF due
    THEN /\ reason' = [reason EXCEPT ![r] = IF @ = "" THEN default ELSE @]
         /\ finalizeLocked(r, "aborted")
    ELSE UNCHANGED <<status, reason, ended, agg, slotHeld, running, draining>>

\* forceFinalize: ends a dispatched run without waiting for its workers.
forceFinalize(r, default) ==
    IF r \in slotHeld \ ended
    THEN /\ reason' = [reason EXCEPT ![r] = IF @ = "" THEN default ELSE @]
         /\ finalizeLocked(r, "aborted")
    ELSE UNCHANGED <<status, reason, ended, agg, slotHeld, running, draining>>

\* The stopGrace timer that StopRun started.
StopTimeout(r) ==
    /\ Unlocked
    /\ stopTimers[r] > 0
    /\ stopTimers' = [stopTimers EXCEPT ![r] = @ - 1]
    /\ forceFinalize(r, "unacknowledged")
    /\ UNCHANGED <<assigned, finished, lost, armed, fired, queue, stopping,
                   orphaned, registryVars, send, historyVars>>

\* The RUNNING runs none of whose assigned workers is in the registry.
allWorkersGone ==
    {r \in Run : /\ status[r] = "running"
                 /\ r \notin ended
                 /\ assigned[r] # {}
                 /\ assigned[r] \cap Registered = {}}

\* Mutant of ReapScan: every pass starts the grace period anew.
ReapScanForgets(late) ==
    /\ Unlocked
    /\ orphaned = {}
    /\ late \subseteq allWorkersGone \cap lost
    /\ lost' = {}
    /\ orphaned' = late
    /\ UNCHANGED <<status, reason, ended, slotHeld, assigned, finished, agg,
                   armed, fired, admissionVars, stopping, stopTimers,
                   registryVars, send, historyVars>>

\* reapOnce's pass over the runs.  `late' are the runs whose workersLostAt is
\* at least orphanGrace ago.
ReapScan(late) ==
    /\ Unlocked
    /\ orphaned = {}
    /\ late \subseteq allWorkersGone \cap lost
    /\ lost' = allWorkersGone
    /\ orphaned' = late
    /\ UNCHANGED <<status, reason, ended, slotHeld, assigned, finished, agg,
                   armed, fired, admissionVars, stopping, stopTimers,
                   registryVars, send, historyVars>>

\* reapOnce force-finalizes what the pass collected, after it released s.mu.
ReapFinalize(r) ==
    /\ Unlocked
    /\ r \in orphaned
    /\ orphaned' = orphaned \ {r}
    /\ forceFinalize(r, "lost")
    /\ UNCHANGED <<assigned, finished, lost, armed, fired, queue, stopping,
                   stopTimers, registryVars, send, historyVars>>

\* Mutant of AggregatorExit: the run is forgotten with its aggregator.
AggregatorExitForgets(r) ==
    /\ agg[r] = "closing"
    /\ agg' = [agg EXCEPT ![r] = "none"]
    /\ status' = [status EXCEPT ![r] = "none"]
    /\ ended' = ended \ {r}
    /\ UNCHANGED <<reason, slotHeld, assigned, finished, lost,
                   armed, fired, admissionVars, timerVars, registryVars, send,
                   historyVars>>

\* The aggregator's drain grace is over: cancel, flush, close the listeners.
AggregatorExit(r) ==
    /\ agg[r] = "closing"
    /\ agg' = [agg EXCEPT ![r] = "closed"]
    /\ UNCHANGED <<status, reason, ended, slotHeld, assigned, finished, lost,
                   armed, fired, admissionVars, timerVars, registryVars, send,
                   historyVars>>

-----------------------------------------------------------------------------
(* Stopping a run                                                          *)

\* StopRun's critical section.  A run with no assigned workers (a queued one)
\* has nobody to signal, so its timer starts at once.
StopRun(r) ==
    /\ Unlocked
    /\ status[r] # "none"
    /\ stopCalls[r] < MaxStops
    /\ stopCalls' = [stopCalls EXCEPT ![r] = @ + 1]
    /\ IF status[r] = "running"
       THEN /\ status' = [status EXCEPT ![r] = "aborted"]
            /\ reason' = [reason EXCEPT ![r] = "user"]
       ELSE UNCHANGED <<status, reason>>
    /\ stopAsked' = IF r \in ended THEN stopAsked ELSE stopAsked \cup {r}
    /\ IF assigned[r] = {}
       THEN /\ stopTimers' = [stopTimers EXCEPT ![r] = @ + 1]
            /\ UNCHANGED stopping
       ELSE /\ stopping' = [stopping EXCEPT ![r] = @ + 1]
            /\ UNCHANGED stopTimers
    /\ UNCHANGED <<ended, slotHeld, assigned, finished, lost, agg, armed,
                   fired, admissionVars, orphaned, registryVars, send,
                   dispatches>>

\* The aggregator's breaker calls autoStopRun: it writes the verdict, whatever
\* the run's status is, and goes on into StopRun, whose critical section finds
\* the run ABORTED and adds nothing.
AutoStopRun(r) ==
    /\ Unlocked
    /\ agg[r] \in {"live", "closing"}
    /\ r \in armed \ fired
    /\ fired' = fired \cup {r}
    /\ status' = [status EXCEPT ![r] = "aborted"]
    /\ reason' = [reason EXCEPT ![r] = "auto"]
    /\ stopping' = [stopping EXCEPT ![r] = @ + 1]
    /\ stopAsked' = IF r \in ended THEN stopAsked ELSE stopAsked \cup {r}
    /\ UNCHANGED <<ended, slotHeld, assigned, finished, lost, agg, armed,
                   admissionVars, stopTimers, orphaned, registryVars, send,
                   dispatches, stopCalls>>

\* The rest of StopRun, without s.mu: a Stop to every assigned worker that is
\* in the registry, then the stopGrace timer.
SignalStop(r) ==
    /\ stopping[r] > 0
    /\ stopping' = [stopping EXCEPT ![r] = @ - 1]
    /\ stopTimers' = [stopTimers EXCEPT ![r] = @ + 1]
    /\ \E got \in Reached(assigned[r] \cap Registered) :
          send' = [w \in Worker |->
                     IF w \in got
                     THEN Append(send[w], [kind |-> "stop", run |-> r,
                                           seq |-> 0])
                     ELSE send[w]]
    /\ UNCHANGED <<runVars, admissionVars, orphaned, registryVars,
                   historyVars>>

-----------------------------------------------------------------------------
(* Registration                                                            *)

\* registry.Add: a fresh handle, with a fresh channel, replaces the entry.
Add(w) ==
    /\ owner' = [owner EXCEPT ![w] = "current"]
    /\ busy' = busy \ {w}
    /\ send' = [send EXCEPT ![w] = <<>>]
    /\ UNCHANGED <<runVars, admissionVars, timerVars, historyVars>>

\* Mutant of unknown: a run whose aggregator is gone is taken up again.
unknownClosed(active) == {r \in active : agg[r] # "live"}

\* The runs a Register message makes the coordinator take up: unknown to it,
\* or known without an aggregator.
unknown(active) == {r \in active : agg[r] = "none"}

\* Mutant of Rehydrate: what is taken up again holds a slot nobody counted.
RehydrateUncounted(w, active) ==
    LET fresh == unknown(active)
    IN  /\ Unlocked
        /\ status' = [r \in Run |-> IF r \in fresh THEN "running"
                                                   ELSE status[r]]
        /\ slotHeld' = slotHeld \cup fresh
        /\ assigned' = [r \in Run |-> IF r \in active THEN assigned[r] \cup {w}
                                                       ELSE assigned[r]]
        /\ agg' = [r \in Run |-> IF r \in fresh THEN "live" ELSE agg[r]]
        /\ UNCHANGED <<reason, ended, finished, lost, armed, fired,
                       admissionVars, timerVars, registryVars, send,
                       historyVars>>

\* rehydrate: run states for what the worker says it is executing.
Rehydrate(w, active) ==
    LET fresh == unknown(active)
    IN  /\ Unlocked
        /\ status' = [r \in Run |-> IF r \in fresh THEN "running"
                                                   ELSE status[r]]
        /\ reason' = [r \in Run |-> IF r \in fresh THEN "" ELSE reason[r]]
        /\ ended' = ended \ fresh
        /\ slotHeld' = slotHeld \cup fresh
        /\ assigned' = [r \in Run |-> IF r \in fresh THEN {w}
                                      ELSE IF r \in active
                                      THEN assigned[r] \cup {w}
                                      ELSE assigned[r]]
        /\ finished' = [r \in Run |-> IF r \in fresh THEN {}
                                                     ELSE finished[r]]
        /\ lost' = lost \ fresh
        /\ agg' = [r \in Run |-> IF r \in fresh THEN "live" ELSE agg[r]]
        /\ armed' = armed \ fresh
        /\ fired' = fired \ fresh
        /\ running' = running + Cardinality(fresh)
        /\ UNCHANGED <<queue, draining, timerVars, registryVars, send,
                       historyVars>>

\* The end of the Register handler: a new worker is fresh capacity.
BeginDrain ==
    /\ Unlocked
    /\ draining' = TRUE
    /\ UNCHANGED <<runVars, queue, running, timerVars, registryVars, send,
                   historyVars>>

\* Mutant of Remove: by id alone.
RemoveById(w) ==
    /\ owner' = [owner EXCEPT ![w] = "none"]
    /\ UNCHANGED <<runVars, admissionVars, timerVars, busy, send, historyVars>>

\* The deferred registry.Remove of a broken stream's handler: it takes the
\* entry away only if the entry is still that stream's.
Remove(w) ==
    /\ owner' = [owner EXCEPT ![w] = IF @ = "stale" THEN "none" ELSE @]
    /\ UNCHANGED <<runVars, admissionVars, timerVars, busy, send, historyVars>>

\* Heartbeats (or their absence) move a worker across the admission
\* thresholds.  Nothing is drained here.
Touch(w) ==
    /\ w \in Overloadable \cap Registered
    /\ busy' = IF w \in busy THEN busy \ {w} ELSE busy \cup {w}
    /\ UNCHANGED <<runVars, admissionVars, timerVars, owner, send,
                   historyVars>>

\* The process dies and starts again with nothing.
CoordinatorReset ==
    /\ status' = [r \in Run |-> "none"]
    /\ reason' = [r \in Run |-> ""]
    /\ ended' = {}
    /\ slotHeld' = {}
    /\ assigned' = [r \in Run |-> {}]
    /\ finished' = [r \in Run |-> {}]
    /\ lost' = {}
    /\ agg' = [r \in Run |-> "none"]
    /\ armed' = {}
    /\ fired' = {}
    /\ queue' = <<>>
    /\ running' = 0
    /\ draining' = FALSE
    /\ stopping' = [r \in Run |-> 0]
    /\ stopTimers' = [r \in Run |-> 0]
    /\ orphaned' = {}
    /\ owner' = [w \in Worker |-> "none"]
    /\ busy' = {}
    /\ send' = [w \in Worker |-> <<>>]
    /\ UNCHANGED historyVars
=============================================================================
