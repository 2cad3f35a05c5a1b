------------------------------ MODULE RunRecord ------------------------------
(***************************************************************************)
(* The record of one run in Postgres and everything in the API server that *)
(* moves it: launchRun, the watcher goroutines, the reaper of each         *)
(* replica, a client's stop and a page's poll (internal/apisrv/handlers.go *)
(* and auth.go over internal/store/postgres/postgres.go).  Records of      *)
(* different runs do not influence each other, so the module follows one.  *)
(*                                                                         *)
(* The coordinator is the abstraction of Cluster that the API server can   *)
(* see: the status it reports, whether the live stream of the run is       *)
(* closed, whether workers execute the run, and whether a request for it   *)
(* is still queued after a Register took the run up.                       *)
(*                                                                         *)
(* Every call to the coordinator or to the database is a step of its own.  *)
(* A call may fail: each failure takes one of MaxFaults.  StoreMayFail is  *)
(* FALSE for the question of what the coordinator's failures alone can do. *)
(***************************************************************************)
EXTENDS Naturals, FiniteSets

CONSTANTS
    Replica,    \* API server processes, each with its reaper
    MaxStops,   \* bound: stops by clients
    MaxFaults,  \* bound: failed calls and process restarts
    StoreMayFail \* may calls to Postgres and ClickHouse fail?

ASSUME ReplicaAssumption == IsFiniteSet(Replica)
ASSUME MaxStopsAssumption == MaxStops \in Nat
ASSUME MaxFaultsAssumption == MaxFaults \in Nat
ASSUME StoreMayFailAssumption == StoreMayFail \in BOOLEAN

VARIABLES
    row,       \* the run's status in Postgres, "none" before the insert
    payload,   \* is dispatch_payload set?
    launch,    \* where launchRun is
    watch,     \* [WatchStep -> Nat]: how many watchRun goroutines are there
    reap,      \* [Replica -> [step : ReapStep, seen : RowStatus]]
    stop,      \* where handleStopRun is
    page,      \* where handleGetRun is
    settled,   \* is the run at least 15 seconds old?
    overdue,   \* is the run older than maxRunAge?
    coord,     \* the status the coordinator reports, "none" if unknown
    closed,    \* has the run's aggregator returned?
    executing, \* do workers execute the run?
    leftover,  \* is a request for it queued although it was taken up?
    metrics,   \* has ClickHouse rollups of the run?
    stops, faults,
    executed   \* history: the run was dispatched

recordVars == <<row, payload>>
ageVars == <<settled, overdue>>
apiVars == <<launch, watch, reap, stop, page>>
coordVars == <<coord, closed, executing, leftover, metrics, executed>>
vars == <<recordVars, ageVars, apiVars, coordVars, stops, faults>>

Active == {"pending", "queued", "running"}
Terminal == {"completed", "failed", "aborted"}
RowStatus == {"none"} \cup Active \cup Terminal
CoordStatus == {"none", "queued", "running", "completed", "aborted"}
LaunchStep == {"create", "store", "start", "queued", "running", "failed", "done"}
WatchStep == {"attach", "follow", "hung", "query", "aborted", "completed"}
ReapStep == {"idle", "query", "payload", "start", "queued", "running",
             "reflect", "forgotten", "completed", "aborted"}
StopStep == {"idle", "ask", "finish"}
PageStep == {"idle", "running"}

Idle == [step |-> "idle", seen |-> "none"]

Init ==
    /\ row = "none"
    /\ payload = FALSE
    /\ launch = "create"
    /\ watch = [s \in WatchStep |-> 0]
    /\ reap = [a \in Replica |-> Idle]
    /\ stop = "idle"
    /\ page = "idle"
    /\ settled = FALSE
    /\ overdue = FALSE
    /\ coord = "none"
    /\ closed = FALSE
    /\ executing = FALSE
    /\ leftover = FALSE
    /\ metrics = FALSE
    /\ stops = 0
    /\ faults = 0
    /\ executed = FALSE

\* Something fails that may fail.
fault == faults < MaxFaults /\ faults' = faults + 1

\* A call to Postgres or ClickHouse fails.
storeFault == StoreMayFail /\ fault

-----------------------------------------------------------------------------
(* Postgres                                                                *)

SetRunRunning ==
    /\ row' = IF row \in {"pending", "queued"} THEN "running" ELSE row
    /\ UNCHANGED payload

SetRunStatus(s) == row' = s /\ UNCHANGED payload

\* finalizeRunReason and FinishRun: an SLA that is not met turns the verdict
\* into "failed".
FinishRun(verdict) ==
    IF row \in Terminal
    THEN UNCHANGED recordVars
    ELSE row' \in {verdict, "failed"} /\ payload' = FALSE

\* A write that fails is logged or ignored, and the caller goes on.
orFails(written) ==
    \/ written /\ UNCHANGED faults
    \/ storeFault /\ UNCHANGED recordVars

-----------------------------------------------------------------------------
(* The coordinator as the API server sees it                               *)

dispatchedNow == coord' = "running" /\ closed' = FALSE /\ executing' = TRUE
                   /\ executed' = TRUE

\* StartRun: a known run is left alone.
StartRun ==
    \/ coord # "none" /\ UNCHANGED coordVars
    \/ coord = "none" /\ dispatchedNow /\ UNCHANGED <<leftover, metrics>>
    \/ /\ coord = "none"
       /\ coord' = "queued"
       /\ UNCHANGED <<closed, executing, leftover, metrics, executed>>

\* What StartRun answers; "queued" for every run that is not RUNNING.
answer == IF coord' = "running" THEN "running" ELSE "queued"

apiUnchanged == UNCHANGED <<recordVars, ageVars, apiVars, stops>>

\* drainLocked dispatches the queued request, or a leftover one again.
Dispatch ==
    /\ coord = "queued" \/ leftover
    /\ dispatchedNow
    /\ leftover' = FALSE
    /\ UNCHANGED metrics
    /\ apiUnchanged /\ UNCHANGED faults

\* A worker's batch reaches the store.
Report ==
    /\ executing /\ ~closed /\ coord \notin {"none", "queued"}
    /\ metrics' = TRUE
    /\ UNCHANGED <<coord, closed, executing, leftover, executed>>
    /\ apiUnchanged /\ UNCHANGED faults

\* The run ends, by itself, by the breaker or by the watchdog.  The breaker may
\* also fire while a completed run drains.
EndRun ==
    /\ \/ coord = "running" /\ coord' = "completed" /\ executing' = FALSE
       \/ coord = "running" /\ coord' = "aborted" /\ UNCHANGED executing
       \/ /\ coord = "completed" /\ ~closed
          /\ coord' = "aborted"
          /\ UNCHANGED executing
    /\ UNCHANGED <<closed, leftover, metrics, executed>>
    /\ apiUnchanged /\ UNCHANGED faults

\* The aggregator returns and closes the live streams.
CloseStream ==
    /\ coord \in {"completed", "aborted"} /\ ~closed
    /\ closed' = TRUE
    /\ UNCHANGED <<coord, executing, leftover, metrics, executed>>
    /\ apiUnchanged /\ UNCHANGED faults

\* The workers are done with a run the coordinator has aborted or forgotten.
WorkersDone ==
    /\ executing /\ coord # "running"
    /\ executing' = FALSE
    /\ UNCHANGED <<coord, closed, leftover, metrics, executed>>
    /\ apiUnchanged /\ UNCHANGED faults

\* A worker registers with the run among its active ones.
Rehydrate ==
    /\ executing /\ coord \in {"none", "queued"}
    /\ coord' = "running"
    /\ closed' = FALSE
    /\ leftover' = (leftover \/ coord = "queued")
    /\ UNCHANGED <<executing, metrics, executed>>
    /\ apiUnchanged /\ UNCHANGED faults

\* The coordinator's process restarts; streams to it end.
CoordinatorRestart ==
    /\ fault
    /\ coord' = "none"
    /\ closed' = FALSE
    /\ leftover' = FALSE
    /\ watch' = [watch EXCEPT !["follow"] = 0, !["hung"] = 0,
                              !["query"] = @ + watch["follow"] + watch["hung"]]
    /\ UNCHANGED <<executing, metrics, executed, recordVars, ageVars, launch,
                   reap, stop, page, stops>>

-----------------------------------------------------------------------------
(* launchRun                                                               *)

others == <<ageVars, stops, page>>

\* A watchRun goroutine starts.
spawned == watch' = [watch EXCEPT !["attach"] = @ + 1]

\* The row is inserted under a new id.
CreateRun ==
    /\ launch = "create"
    /\ row = "none"
    /\ row' = "pending"
    /\ launch' = "store"
    /\ UNCHANGED <<payload, watch, reap, stop, coordVars, others, faults>>

\* A scenario that does not compile leaves the pending row behind; otherwise
\* the dispatch payload is stored.
StoreDispatch ==
    /\ launch = "store"
    /\ \/ launch' = "done" /\ UNCHANGED <<recordVars, faults>>
       \/ /\ launch' = "start"
          /\ orFails(payload' = TRUE /\ UNCHANGED row)
    /\ UNCHANGED <<watch, reap, stop, coordVars, others>>

\* The call fails, or only its answer is lost.
LaunchStart ==
    /\ launch = "start"
    /\ \/ StartRun /\ launch' = answer /\ UNCHANGED faults
       \/ fault /\ StartRun /\ launch' = "failed"
       \/ fault /\ UNCHANGED coordVars /\ launch' = "failed"
    /\ UNCHANGED <<recordVars, watch, reap, stop, others>>

LaunchEnd ==
    /\ launch' = "done"
    /\ \/ launch = "queued" /\ orFails(SetRunStatus("queued"))
          /\ UNCHANGED watch
       \/ launch = "running" /\ orFails(SetRunRunning) /\ spawned
       \/ launch = "failed" /\ orFails(FinishRun("failed"))
          /\ UNCHANGED watch
    /\ UNCHANGED <<reap, stop, coordVars, others>>

\* The replica that launches and watches restarts.
ServerRestart ==
    /\ fault
    /\ launch # "create"
    /\ launch' = "done"
    /\ watch' = [s \in WatchStep |-> 0]
    /\ stop' = "idle"
    /\ page' = "idle"
    /\ \E a \in Replica : reap' = [reap EXCEPT ![a] = Idle]
    /\ UNCHANGED <<recordVars, coordVars, ageVars, stops>>

-----------------------------------------------------------------------------
(* watchRun                                                                *)

\* One of the goroutines at a step goes on to another, or returns.
goes(from, to) == watch' = [watch EXCEPT ![from] = @ - 1, ![to] = @ + 1]
returns(from) == watch' = [watch EXCEPT ![from] = @ - 1]

unwatched == <<recordVars, launch, reap, stop, coordVars, others>>

\* StreamLive: it fails for an unknown or queued run; a stream on a returned
\* aggregator is never closed.
WatchAttach ==
    /\ watch["attach"] > 0
    /\ \/ coord \in {"none", "queued"} /\ goes("attach", "query")
          /\ UNCHANGED faults
       \/ /\ coord \notin {"none", "queued"}
          /\ goes("attach", IF closed THEN "hung" ELSE "follow")
          /\ UNCHANGED faults
       \/ fault /\ goes("attach", "query")
    /\ UNCHANGED unwatched

\* The stream ends with the run's aggregator, or breaks.
WatchEnd ==
    /\ \/ watch["follow"] > 0 /\ closed /\ goes("follow", "query")
          /\ UNCHANGED faults
       \/ \E s \in {"follow", "hung"} :
             watch[s] > 0 /\ fault /\ goes(s, "query")
    /\ UNCHANGED unwatched

\* GetRunState decides.  Without an answer the watcher tries again, and after
\* 20 attempts in a row, which are not counted here, leaves the run to the
\* reaper.
WatchQuery ==
    /\ watch["query"] > 0
    /\ \/ /\ coord # "none"
          /\ goes("query", IF coord \in {"queued", "running"} THEN "attach"
                                                             ELSE coord)
          /\ UNCHANGED faults
       \/ /\ (coord = "none" /\ UNCHANGED faults) \/ fault
          /\ goes("query", "attach") \/ returns("query")
    /\ UNCHANGED unwatched

\* Mutant of WatchFinish: a goroutine that has returned finishes the run again.
WatchFinishAgain ==
    /\ \E verdict \in {"aborted", "completed"} :
          /\ coord = verdict
          /\ orFails(FinishRun(verdict))
          /\ returns(verdict)
    /\ UNCHANGED <<launch, reap, stop, coordVars, others>>

WatchFinish ==
    /\ \E verdict \in {"aborted", "completed"} :
          /\ watch[verdict] > 0
          /\ orFails(FinishRun(verdict))
          /\ returns(verdict)
    /\ UNCHANGED <<launch, reap, stop, coordVars, others>>

-----------------------------------------------------------------------------
(* The reaper                                                              *)

\* What the pass saw of the row matters up to its query only.
next(a, step) == reap' = [reap EXCEPT ![a] = [Idle EXCEPT !.step = step]]

unreaped == <<launch, stop, others>>

\* ListActiveRuns, and the pass comes to the run.
ReapList(a) ==
    /\ reap[a].step = "idle"
    /\ settled
    /\ row \in Active
    /\ reap' = [reap EXCEPT ![a] = [step |-> "query", seen |-> row]]
    /\ UNCHANGED <<recordVars, watch, coordVars, unreaped, faults>>

\* Mutant of reconcile: only COMPLETED ends a record.
reconcileCompleted(seen) ==
    CASE coord = "completed" -> "completed"
      [] coord = "running" /\ seen # "running" -> "reflect"
      [] OTHER -> "idle"

\* What the pass does about a run the coordinator knows.
reconcile(seen) ==
    CASE coord = "completed" -> "completed"
      [] coord = "running" /\ seen # "running" -> "reflect"
      [] coord \in {"queued", "aborted"} /\ overdue -> "aborted"
      [] OTHER -> "idle"

\* GetRunState; any error counts as a coordinator that lost the run.
ReapQuery(a) ==
    /\ reap[a].step = "query"
    /\ \/ coord # "none" /\ next(a, reconcile(reap[a].seen)) /\ UNCHANGED faults
       \/ coord = "none" /\ next(a, "payload") /\ UNCHANGED faults
       \/ coord # "none" /\ fault /\ next(a, "payload")
    /\ UNCHANGED <<recordVars, watch, coordVars, unreaped>>

\* replayDispatch: GetRunDispatch.  Without an answer, or with no payload, the
\* run cannot be replayed.
ReapPayload(a) ==
    /\ reap[a].step = "payload"
    /\ \/ next(a, IF payload THEN "start" ELSE "forgotten") /\ UNCHANGED faults
       \/ storeFault /\ next(a, "forgotten")
    /\ UNCHANGED <<recordVars, watch, coordVars, unreaped>>

\* replayDispatch: StartRun, which may fail or lose its answer.
ReapStart(a) ==
    /\ reap[a].step = "start"
    /\ \/ StartRun /\ next(a, answer) /\ UNCHANGED faults
       \/ fault /\ StartRun /\ next(a, "forgotten")
       \/ fault /\ UNCHANGED coordVars /\ next(a, "forgotten")
    /\ UNCHANGED <<recordVars, watch, unreaped>>

\* The record follows the coordinator; a replayed run that runs is watched.
ReapReflect(a) ==
    /\ \/ reap[a].step = "queued" /\ orFails(SetRunStatus("queued"))
          /\ UNCHANGED watch
       \/ reap[a].step = "running" /\ orFails(SetRunRunning) /\ spawned
       \/ reap[a].step = "reflect" /\ orFails(SetRunRunning)
          /\ UNCHANGED watch
    /\ next(a, "idle")
    /\ UNCHANGED <<coordVars, unreaped>>

\* Mutant of ReapForgotten: green whether or not it produced metrics.
ReapForgottenGreen(a) ==
    /\ reap[a].step = "forgotten"
    /\ next(a, "completed")
    /\ UNCHANGED <<recordVars, watch, coordVars, unreaped, faults>>

\* finalizeForgotten: completed only with metrics.
ReapForgotten(a) ==
    /\ reap[a].step = "forgotten"
    /\ \/ next(a, IF metrics THEN "completed" ELSE "aborted") /\ UNCHANGED faults
       \/ storeFault /\ next(a, "aborted")
    /\ UNCHANGED <<recordVars, watch, coordVars, unreaped>>

ReapFinish(a) ==
    /\ reap[a].step \in {"completed", "aborted"}
    /\ orFails(FinishRun(reap[a].step))
    /\ next(a, "idle")
    /\ UNCHANGED <<watch, coordVars, unreaped>>

-----------------------------------------------------------------------------
(* handleStopRun                                                           *)

unstopped == <<launch, watch, reap, page, ageVars>>

\* A client's stop of a run that is not finished.
StopAsk ==
    /\ stop = "idle"
    /\ stops < MaxStops
    /\ row \in Active
    /\ stops' = stops + 1
    /\ stop' = "ask"
    /\ UNCHANGED <<recordVars, coordVars, unstopped, faults>>

\* The coordinator's StopRun.  For a run it does not know the record is
\* finished directly.
StopCall ==
    /\ stop = "ask"
    /\ \/ /\ coord = "none"
          /\ stop' = "finish"
          /\ UNCHANGED <<coord, faults>>
       \/ /\ coord # "none"
          /\ stop' = "idle"
          /\ coord' = IF coord = "running" THEN "aborted" ELSE coord
          /\ UNCHANGED faults
       \/ fault /\ stop' = "idle" /\ UNCHANGED coord
    /\ UNCHANGED <<recordVars, closed, executing, leftover, metrics, executed,
                   unstopped, stops>>

StopFinish ==
    /\ stop = "finish"
    /\ orFails(FinishRun("aborted"))
    /\ stop' = "idle"
    /\ UNCHANGED <<coordVars, unstopped, stops>>

-----------------------------------------------------------------------------
(* handleGetRun                                                            *)

\* A page asks for a run whose record says queued while the coordinator has
\* dispatched it.
PageQuery ==
    /\ page = "idle"
    /\ row = "queued" /\ coord = "running"
    /\ page' = "running"
    /\ UNCHANGED <<recordVars, launch, watch, reap, stop, ageVars, coordVars,
                   stops, faults>>

\* The handler persists what it has learnt.
PageReflect ==
    /\ page = "running"
    /\ orFails(SetRunRunning)
    /\ page' = "idle"
    /\ UNCHANGED <<launch, watch, reap, stop, ageVars, coordVars, stops>>

-----------------------------------------------------------------------------
\* launchRun has at most the 15 seconds of its context.
Age ==
    /\ \/ ~settled /\ launch = "done" /\ settled' = TRUE /\ UNCHANGED overdue
       \/ settled /\ ~overdue /\ overdue' = TRUE /\ UNCHANGED settled
    /\ UNCHANGED <<recordVars, apiVars, coordVars, stops, faults>>

LaunchNext == CreateRun \/ StoreDispatch \/ LaunchStart \/ LaunchEnd

WatchNext == WatchAttach \/ WatchEnd \/ WatchQuery \/ WatchFinish

ReapNext(a) ==
    \/ ReapList(a) \/ ReapQuery(a) \/ ReapPayload(a) \/ ReapStart(a)
    \/ ReapReflect(a) \/ ReapForgotten(a) \/ ReapFinish(a)

CoordinatorNext ==
    Dispatch \/ Report \/ EndRun \/ CloseStream \/ WorkersDone \/ Rehydrate

Next ==
    \/ LaunchNext \/ CoordinatorNext \/ Age
    \/ WatchNext
    \/ \E a \in Replica : ReapNext(a)
    \/ StopAsk \/ StopCall \/ StopFinish \/ PageQuery \/ PageReflect
    \/ CoordinatorRestart \/ ServerRestart

Spec == Init /\ [][Next]_vars

\* Goroutines go on, reapers tick, time passes, and an aggregator whose run has
\* ended closes its streams.  Nothing makes a dispatched run end.
FairSpec ==
    /\ Spec
    /\ WF_vars(LaunchNext) /\ WF_vars(Age) /\ WF_vars(StopCall \/ StopFinish)
    /\ WF_vars(PageReflect)
    /\ WF_vars(CloseStream)
    /\ WF_vars(WatchAttach) /\ WF_vars(WatchEnd)
    /\ WF_vars(WatchQuery) /\ WF_vars(WatchFinish)
    /\ \A a \in Replica : WF_vars(ReapNext(a))

-----------------------------------------------------------------------------
(* Properties                                                              *)

\* Every variable of the record, its goroutines and the coordinator's view.
TypeOK ==
    /\ row \in RowStatus
    /\ payload \in BOOLEAN
    /\ launch \in LaunchStep
    /\ watch \in [WatchStep -> Nat]
    /\ reap \in [Replica -> [step : ReapStep, seen : RowStatus]]
    /\ stop \in StopStep
    /\ page \in PageStep
    /\ settled \in BOOLEAN
    /\ overdue \in BOOLEAN
    /\ coord \in CoordStatus
    /\ closed \in BOOLEAN
    /\ executing \in BOOLEAN
    /\ leftover \in BOOLEAN
    /\ metrics \in BOOLEAN
    /\ stops \in 0..MaxStops
    /\ faults \in 0..MaxFaults
    /\ executed \in BOOLEAN

\* A run that was never dispatched never reads as a green result, whatever
\* failed: finalizeForgotten and the watchers keep "completed" for real runs.
NoGreenWithoutRun == row = "completed" => executed

\* No writer of the record replaces a verdict by another or by "running"; what
\* the unconditional SetRunStatus of a launch or a replay may do is reopen the
\* run as queued.
VerdictsStand == [][(row \in Terminal => row' \in {row, "queued"})]_vars

\* The record follows the coordinator in the end, whichever goroutines, calls
\* and processes were lost on the way: once the coordinator has stopped running
\* it for good, because it ended or was forgotten, the record becomes terminal
\* and stays so, also one that was reopened; while the coordinator runs it for
\* good, the record says running (reapOnce leaves such a run alone however old
\* it is) unless it has been ended.
RecordSettles ==
    /\ VerdictsStand
    /\ <>(row # "none") /\ <>[](coord # "running") => <>[](row \in Terminal)
    /\ <>[](coord = "running") => <>[](row \in Terminal \cup {"running"})

\* No outage of the coordinator, a redeploy say, turns the record of a running
\* run that workers still execute into a completed one.
LiveIsNotGreen ==
    [][row = "running" /\ row' = "completed" => ~executing]_vars
=============================================================================
