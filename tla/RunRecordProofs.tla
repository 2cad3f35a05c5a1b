--------------------------- MODULE RunRecordProofs ---------------------------
(***************************************************************************)
(* Machine-checked proofs about the record of a run (RunRecord), for any   *)
(* number of API server replicas, stops and faults.                        *)
(***************************************************************************)
EXTENDS RunRecord, TLAPS

-----------------------------------------------------------------------------
(* The inductive invariant                                                 *)

\* The steps of a pass of the reaper, and of a watcher, that will write "completed".
GreenSoon ==
    watch["completed"] > 0 \/ \E a \in Replica : reap[a].step = "completed"

\* Whatever speaks for a run that was executed, the coordinator's status, a worker
\* at work, metrics, or a goroutine about to finish it, comes after its dispatch.
Evidence ==
    /\ coord \in {"running", "completed", "aborted"} => executed
    /\ executing => executed
    /\ metrics => executed
    /\ GreenSoon => executed
    /\ row = "completed" => executed

RecordInv == TypeOK /\ Evidence

-----------------------------------------------------------------------------
(* Facts about the parts                                                   *)

\* A fault is one more, within the bound.
LEMMA FaultTyped ==
    ASSUME TypeOK, fault
    PROVE  faults' \in 0..MaxFaults
BY MaxFaultsAssumption DEF TypeOK, fault

\* A write of the record, or its failure, keeps its type.
LEMMA WritesTyped ==
    ASSUME TypeOK
    PROVE  /\ orFails(SetRunRunning) => /\ row' \in RowStatus /\ payload' \in BOOLEAN
                                        /\ faults' \in 0..MaxFaults
                                        /\ row' = "completed" => row = "completed"
           /\ orFails(SetRunStatus("queued")) => /\ row' \in RowStatus /\ payload' \in BOOLEAN
                                                 /\ faults' \in 0..MaxFaults
                                                 /\ row' = "completed" => row = "completed"
           /\ orFails(payload' = TRUE /\ UNCHANGED row) => /\ row' \in RowStatus
                                                           /\ payload' \in BOOLEAN
                                                           /\ faults' \in 0..MaxFaults
                                                           /\ row' = row
           /\ \A v \in Terminal : orFails(FinishRun(v)) =>
                 /\ row' \in RowStatus /\ payload' \in BOOLEAN
                 /\ faults' \in 0..MaxFaults
                 /\ row' = "completed" => row = "completed" \/ v = "completed"
<1>1. row \in RowStatus /\ payload \in BOOLEAN /\ faults \in 0..MaxFaults
  BY DEF TypeOK
<1>2. fault => faults' \in 0..MaxFaults
  BY FaultTyped
<1>3. UNCHANGED faults => faults' \in 0..MaxFaults
  BY <1>1
<1>4. TRUE \in BOOLEAN /\ FALSE \in BOOLEAN
  OBVIOUS
<1> USE DEF orFails, storeFault, RowStatus, Active, Terminal, recordVars
<1>5. ASSUME orFails(SetRunRunning)
      PROVE  /\ row' \in RowStatus /\ payload' \in BOOLEAN /\ faults' \in 0..MaxFaults
             /\ row' = "completed" => row = "completed"
  BY <1>1, <1>2, <1>3, <1>5 DEF SetRunRunning
<1>6. ASSUME orFails(SetRunStatus("queued"))
      PROVE  /\ row' \in RowStatus /\ payload' \in BOOLEAN /\ faults' \in 0..MaxFaults
             /\ row' = "completed" => row = "completed"
  BY <1>1, <1>2, <1>3, <1>6 DEF SetRunStatus
<1>7. ASSUME orFails(payload' = TRUE /\ UNCHANGED row)
      PROVE  /\ row' \in RowStatus /\ payload' \in BOOLEAN /\ faults' \in 0..MaxFaults
             /\ row' = row
  BY <1>1, <1>2, <1>3, <1>7
<1>8. ASSUME NEW v \in Terminal, orFails(FinishRun(v))
      PROVE  /\ row' \in RowStatus /\ payload' \in BOOLEAN /\ faults' \in 0..MaxFaults
             /\ row' = "completed" => row = "completed" \/ v = "completed"
  BY <1>1, <1>2, <1>3, <1>8 DEF FinishRun
<1> QED
  BY <1>5, <1>6, <1>7, <1>8

\* What StartRun leaves behind.
LEMMA StartRunTyped ==
    ASSUME RecordInv, StartRun
    PROVE  /\ coord' \in CoordStatus /\ closed' \in BOOLEAN /\ executing' \in BOOLEAN
           /\ leftover' \in BOOLEAN /\ metrics' \in BOOLEAN /\ executed' \in BOOLEAN
           /\ executed => executed'
           /\ coord' \in {"running", "completed", "aborted"} => executed'
           /\ executing' => executed'
           /\ metrics' => executed'
           /\ answer \in {"queued", "running"}
<1>1. /\ coord \in CoordStatus /\ closed \in BOOLEAN /\ executing \in BOOLEAN
      /\ leftover \in BOOLEAN /\ metrics \in BOOLEAN /\ executed \in BOOLEAN
      /\ coord \in {"running", "completed", "aborted"} => executed
      /\ executing => executed
      /\ metrics => executed
  BY DEF RecordInv, TypeOK, Evidence
<1>2. CASE UNCHANGED coordVars
  BY <1>1, <1>2 DEF coordVars, answer
<1>3. CASE dispatchedNow /\ UNCHANGED <<leftover, metrics>>
  BY <1>1, <1>3 DEF dispatchedNow, CoordStatus, answer
<1>4. CASE coord' = "queued" /\ UNCHANGED <<closed, executing, leftover, metrics, executed>>
  BY <1>1, <1>4 DEF CoordStatus, answer
<1> QED
  BY <1>2, <1>3, <1>4 DEF StartRun

\* Watchers move without changing their number elsewhere.
LEMMA GoesTyped ==
    ASSUME TypeOK, NEW from \in WatchStep, watch[from] > 0
    PROVE  /\ \A to \in WatchStep : goes(from, to) /\ from # to =>
                 /\ watch' \in [WatchStep -> Nat]
                 /\ \A s \in WatchStep : watch'[s] > 0 => watch[s] > 0 \/ s = to
           /\ returns(from) =>
                 /\ watch' \in [WatchStep -> Nat]
                 /\ \A s \in WatchStep : watch'[s] > 0 => watch[s] > 0
BY DEF TypeOK, goes, returns

\* A reaper's step changes its own pass only.
LEMMA NextTyped ==
    ASSUME TypeOK, NEW a \in Replica, NEW s \in ReapStep, next(a, s)
    PROVE  /\ reap' \in [Replica -> [step : ReapStep, seen : RowStatus]]
           /\ \A b \in Replica : reap'[b].step = "completed" =>
                 reap[b].step = "completed" \/ s = "completed"
BY DEF TypeOK, next, Idle, RowStatus

-----------------------------------------------------------------------------
(* The steps                                                               *)

\* A step of the API server that does not call the coordinator.
LEMMA ApiStepKept ==
    ASSUME RecordInv, UNCHANGED coordVars, TypeOK',
           watch'["completed"] > 0 => watch["completed"] > 0 \/ executed,
           \A a \in Replica : reap'[a].step = "completed" =>
                reap[a].step = "completed" \/ executed,
           row' = "completed" => row = "completed" \/ executed
    PROVE  RecordInv'
<1>1. coord' = coord /\ executing' = executing /\ metrics' = metrics /\ executed' = executed
  BY DEF coordVars
<1>2. GreenSoon' => executed
  BY DEF GreenSoon, RecordInv, Evidence
<1>3. Evidence'
  BY <1>1, <1>2 DEF RecordInv, Evidence
<1> QED
  BY <1>3 DEF RecordInv

\* A step of the coordinator, by itself or called.
LEMMA CoordinatorStepKept ==
    ASSUME RecordInv, TypeOK', executed => executed',
           coord' \in {"running", "completed", "aborted"} => executed',
           executing' => executed', metrics' => executed',
           watch'["completed"] > 0 => watch["completed"] > 0,
           \A a \in Replica : reap'[a].step = "completed" => reap[a].step = "completed",
           row' = "completed" => row = "completed"
    PROVE  RecordInv'
<1>1. GreenSoon' => executed'
  BY DEF GreenSoon, RecordInv, Evidence
<1>2. Evidence'
  BY <1>1 DEF RecordInv, Evidence
<1> QED
  BY <1>2 DEF RecordInv

\* launchRun keeps the invariant.
LEMMA LaunchKept ==
    ASSUME RecordInv, LaunchNext
    PROVE  RecordInv'
<1>0. TypeOK /\ watch \in [WatchStep -> Nat] /\ "attach" \in WatchStep /\ "completed" \in WatchStep
  BY DEF RecordInv, TypeOK, WatchStep
<1>1. CASE CreateRun
  <2>1. TypeOK'
    BY <1>0, <1>1 DEF CreateRun, TypeOK, coordVars, others, ageVars, RowStatus, Active, LaunchStep
  <2> QED
    BY <1>1, <2>1, ApiStepKept DEF CreateRun, coordVars
<1>2. CASE StoreDispatch
  <2>1. row' \in RowStatus /\ payload' \in BOOLEAN /\ faults' \in 0..MaxFaults /\ row' = row
    BY <1>0, <1>2, WritesTyped DEF StoreDispatch, TypeOK, recordVars
  <2>2. launch' \in LaunchStep
        /\ UNCHANGED <<watch, reap, stop, coordVars, ageVars, stops, page>>
    BY <1>2 DEF StoreDispatch, LaunchStep, others
  <2>3. TypeOK'
    BY <1>0, <2>1, <2>2 DEF TypeOK, coordVars, ageVars
  <2> QED
    BY <2>1, <2>2, <2>3, ApiStepKept
<1>3. CASE LaunchStart
  <2>1. /\ faults' \in 0..MaxFaults
        /\ UNCHANGED <<row, payload, watch, reap, stop, ageVars, stops, page>>
    BY <1>0, <1>3, FaultTyped DEF LaunchStart, TypeOK, recordVars, others
  <2>2. CASE StartRun
    <3>1. launch' \in LaunchStep
      BY <1>3, <2>2, StartRunTyped DEF LaunchStart, LaunchStep
    <3>2. TypeOK'
      BY <1>0, <2>1, <2>2, <3>1, StartRunTyped DEF TypeOK, ageVars
    <3> QED
      BY <2>1, <2>2, <3>2, StartRunTyped, CoordinatorStepKept
  <2>3. CASE UNCHANGED coordVars /\ launch' = "failed"
    <3>1. TypeOK'
      BY <1>0, <2>1, <2>3 DEF TypeOK, ageVars, coordVars, LaunchStep
    <3> QED
      BY <2>1, <2>3, <3>1, ApiStepKept
  <2> QED
    BY <1>3, <2>2, <2>3 DEF LaunchStart
<1>4. CASE LaunchEnd
  <2>1. /\ row' \in RowStatus /\ payload' \in BOOLEAN /\ faults' \in 0..MaxFaults
        /\ row' = "completed" => row = "completed"
    BY <1>0, <1>4, WritesTyped DEF LaunchEnd, Terminal
  <2>2. watch' \in [WatchStep -> Nat] /\ watch'["completed"] = watch["completed"]
    BY <1>0, <1>4 DEF LaunchEnd, spawned
  <2>3. launch' \in LaunchStep /\ UNCHANGED <<reap, stop, coordVars, ageVars, stops, page>>
    BY <1>4 DEF LaunchEnd, others, LaunchStep
  <2>4. TypeOK'
    BY <1>0, <2>1, <2>2, <2>3 DEF TypeOK, coordVars, ageVars
  <2> QED
    BY <2>1, <2>2, <2>3, <2>4, ApiStepKept
<1> QED
  BY <1>1, <1>2, <1>3, <1>4 DEF LaunchNext

\* A step of the coordinator that leaves the API server alone.
LEMMA CoordinatorKept ==
    ASSUME RecordInv, CoordinatorNext
    PROVE  RecordInv'
<1>0. /\ coord \in CoordStatus /\ closed \in BOOLEAN /\ executing \in BOOLEAN
      /\ leftover \in BOOLEAN /\ metrics \in BOOLEAN /\ executed \in BOOLEAN
      /\ coord \in {"running", "completed", "aborted"} => executed
      /\ executing => executed
      /\ metrics => executed
      /\ TypeOK
  BY DEF RecordInv, TypeOK, Evidence
<1> DEFINE Result ==
      /\ coord' \in CoordStatus /\ closed' \in BOOLEAN /\ executing' \in BOOLEAN
      /\ leftover' \in BOOLEAN /\ metrics' \in BOOLEAN /\ executed' \in BOOLEAN
      /\ executed => executed'
      /\ coord' \in {"running", "completed", "aborted"} => executed'
      /\ executing' => executed'
      /\ metrics' => executed'
<1>1. ASSUME Dispatch PROVE Result
  BY <1>0, <1>1 DEF Dispatch, dispatchedNow, CoordStatus
<1>2. ASSUME Report PROVE Result
  BY <1>0, <1>2 DEF Report
<1>3. ASSUME EndRun PROVE Result
  BY <1>0, <1>3 DEF EndRun, CoordStatus
<1>4. ASSUME CloseStream PROVE Result
  BY <1>0, <1>4 DEF CloseStream
<1>5. ASSUME WorkersDone PROVE Result
  BY <1>0, <1>5 DEF WorkersDone
<1>6. ASSUME Rehydrate PROVE Result
  BY <1>0, <1>6 DEF Rehydrate, CoordStatus
<1>7. Result
  BY <1>1, <1>2, <1>3, <1>4, <1>5, <1>6 DEF CoordinatorNext
<1>8. UNCHANGED <<row, payload, settled, overdue, launch, watch, reap, stop, page, stops, faults>>
  BY DEF CoordinatorNext, Dispatch, Report, EndRun, CloseStream, WorkersDone, Rehydrate,
         apiUnchanged, recordVars, ageVars, apiVars
<1>9. TypeOK'
  BY <1>0, <1>7, <1>8 DEF TypeOK
<1> QED
  BY <1>7, <1>8, <1>9, CoordinatorStepKept

\* The watchers: only a goroutine that heard of the run from the coordinator finishes it.
LEMMA WatchKept ==
    ASSUME RecordInv, WatchNext
    PROVE  RecordInv'
<1>0. /\ TypeOK /\ watch \in [WatchStep -> Nat] /\ coord \in CoordStatus
      /\ coord \in {"running", "completed", "aborted"} => executed
      /\ watch["completed"] > 0 => executed
  BY DEF RecordInv, TypeOK, Evidence, GreenSoon
<1>1. CASE WatchAttach \/ WatchEnd \/ WatchQuery
  <2>1. UNCHANGED <<row, payload, launch, reap, stop, coordVars, ageVars, stops, page>>
    BY <1>1 DEF WatchAttach, WatchEnd, WatchQuery, unwatched, recordVars, others
  <2>2. faults' \in 0..MaxFaults
    BY <1>0, <1>1, FaultTyped DEF WatchAttach, WatchEnd, WatchQuery, TypeOK
  <2>3. /\ watch' \in [WatchStep -> Nat]
        /\ watch'["completed"] > 0 => watch["completed"] > 0 \/ executed
    <3>1. CASE WatchAttach
      BY <1>0, <3>1, GoesTyped DEF WatchAttach, WatchStep
    <3>2. CASE WatchEnd
      BY <1>0, <3>2, GoesTyped DEF WatchEnd, WatchStep
    <3>3. CASE WatchQuery
      <4>1. PICK to \in {"attach", "aborted", "completed"} :
               /\ goes("query", to) \/ returns("query")
               /\ to = "completed" => coord = "completed"
        BY <1>0, <3>3 DEF WatchQuery, CoordStatus
      <4>2. watch["query"] > 0
        BY <3>3 DEF WatchQuery
      <4> QED
        BY <1>0, <4>1, <4>2, GoesTyped DEF WatchStep
    <3> QED
      BY <1>1, <3>1, <3>2, <3>3
  <2>4. TypeOK'
    BY <1>0, <2>1, <2>2, <2>3 DEF TypeOK, coordVars, ageVars
  <2> QED
    BY <2>1, <2>3, <2>4, ApiStepKept
<1>2. CASE WatchFinish
  <2>1. PICK verdict \in {"aborted", "completed"} :
          watch[verdict] > 0 /\ orFails(FinishRun(verdict)) /\ returns(verdict)
    BY <1>2 DEF WatchFinish
  <2>2. verdict \in Terminal /\ verdict \in WatchStep /\ (verdict = "completed" => executed)
    BY <1>0, <2>1 DEF Terminal, WatchStep
  <2>3. /\ row' \in RowStatus /\ payload' \in BOOLEAN /\ faults' \in 0..MaxFaults
        /\ row' = "completed" => row = "completed" \/ executed
    BY <1>0, <2>1, <2>2, WritesTyped
  <2>4. /\ watch' \in [WatchStep -> Nat]
        /\ watch'["completed"] > 0 => watch["completed"] > 0
    BY <1>0, <2>1, <2>2, GoesTyped DEF WatchStep
  <2>5. UNCHANGED <<launch, reap, stop, coordVars, ageVars, stops, page>>
    BY <1>2 DEF WatchFinish, others
  <2>6. TypeOK'
    BY <1>0, <2>3, <2>4, <2>5 DEF TypeOK, coordVars, ageVars
  <2> QED
    BY <2>3, <2>4, <2>5, <2>6, ApiStepKept
<1> QED
  BY <1>1, <1>2 DEF WatchNext

\* The reaper: a record is closed as completed on the coordinator's word or on
\* metrics.
LEMMA ReapKept ==
    ASSUME RecordInv, NEW a \in Replica, ReapNext(a)
    PROVE  RecordInv'
<1>0. /\ TypeOK /\ watch \in [WatchStep -> Nat] /\ coord \in CoordStatus
      /\ coord \in {"running", "completed", "aborted"} => executed
      /\ metrics => executed
      /\ reap[a].step = "completed" => executed
      /\ reap \in [Replica -> [step : ReapStep, seen : RowStatus]]
      /\ "attach" \in WatchStep /\ "completed" \in WatchStep
  BY DEF RecordInv, TypeOK, Evidence, GreenSoon, WatchStep
<1>1. UNCHANGED <<launch, stop, ageVars, stops, page>>
  BY DEF ReapNext, ReapList, ReapQuery, ReapPayload, ReapStart, ReapReflect, ReapForgotten,
         ReapFinish, unreaped, others
<1>2. CASE ReapList(a)
  <2>1. reap' \in [Replica -> [step : ReapStep, seen : RowStatus]]
        /\ \A b \in Replica : reap'[b].step = "completed" => reap[b].step = "completed"
    BY <1>0, <1>2 DEF ReapList, TypeOK, ReapStep
  <2>2. UNCHANGED <<row, payload, watch, coordVars, faults>>
    BY <1>2 DEF ReapList, recordVars
  <2>3. TypeOK'
    BY <1>0, <1>1, <2>1, <2>2 DEF TypeOK, coordVars, ageVars
  <2> QED
    BY <2>1, <2>2, <2>3, ApiStepKept
<1>3. CASE ReapQuery(a) \/ ReapPayload(a) \/ ReapForgotten(a)
  <2>1. PICK s \in ReapStep : next(a, s) /\ (s = "completed" => executed)
    <3>1. CASE ReapQuery(a)
      <4>1. reconcile(reap[a].seen) \in ReapStep
            /\ (reconcile(reap[a].seen) = "completed" => coord = "completed")
        BY DEF reconcile, ReapStep
      <4> QED
        BY <1>0, <3>1, <4>1 DEF ReapQuery, ReapStep
    <3>2. CASE ReapPayload(a)
      BY <3>2 DEF ReapPayload, ReapStep
    <3>3. CASE ReapForgotten(a)
      BY <1>0, <3>3 DEF ReapForgotten, ReapStep
    <3> QED
      BY <1>3, <3>1, <3>2, <3>3
  <2>2. reap' \in [Replica -> [step : ReapStep, seen : RowStatus]]
        /\ \A b \in Replica : reap'[b].step = "completed" => reap[b].step = "completed" \/ executed
    BY <1>0, <2>1, NextTyped
  <2>3. UNCHANGED <<row, payload, watch, coordVars>>
    BY <1>3 DEF ReapQuery, ReapPayload, ReapForgotten, recordVars
  <2>4. faults' \in 0..MaxFaults
    BY <1>0, <1>3, FaultTyped DEF ReapQuery, ReapPayload, ReapForgotten, storeFault, TypeOK
  <2>5. TypeOK'
    BY <1>0, <1>1, <2>2, <2>3, <2>4 DEF TypeOK, coordVars, ageVars
  <2> QED
    BY <2>2, <2>3, <2>5, ApiStepKept
<1>4. CASE ReapStart(a)
  <2>1. faults' \in 0..MaxFaults /\ UNCHANGED <<row, payload, watch>>
    BY <1>0, <1>4, FaultTyped DEF ReapStart, TypeOK, recordVars
  <2>2. PICK s \in {"queued", "running", "forgotten"} :
          next(a, s) /\ (StartRun \/ UNCHANGED coordVars)
    BY <1>4, StartRunTyped DEF ReapStart
  <2>3. s \in ReapStep /\ s # "completed"
    BY DEF ReapStep
  <2>4. reap' \in [Replica -> [step : ReapStep, seen : RowStatus]]
        /\ \A b \in Replica : reap'[b].step = "completed" => reap[b].step = "completed"
    BY <1>0, <2>2, <2>3, NextTyped
  <2>5. CASE StartRun
    <3>1. TypeOK'
      BY <1>0, <1>1, <2>1, <2>4, <2>5, StartRunTyped DEF TypeOK, ageVars
    <3> QED
      BY <2>1, <2>4, <2>5, <3>1, StartRunTyped, CoordinatorStepKept
  <2>6. CASE UNCHANGED coordVars
    <3>1. TypeOK'
      BY <1>0, <1>1, <2>1, <2>4, <2>6 DEF TypeOK, ageVars, coordVars
    <3> QED
      BY <2>1, <2>4, <2>6, <3>1, ApiStepKept
  <2> QED
    BY <2>2, <2>5, <2>6
<1>5. CASE ReapReflect(a)
  <2>1. /\ row' \in RowStatus /\ payload' \in BOOLEAN /\ faults' \in 0..MaxFaults
        /\ row' = "completed" => row = "completed"
    BY <1>0, <1>5, WritesTyped DEF ReapReflect
  <2>2. watch' \in [WatchStep -> Nat] /\ watch'["completed"] = watch["completed"]
    BY <1>0, <1>5 DEF ReapReflect, spawned
  <2>3. "idle" \in ReapStep /\ next(a, "idle") /\ UNCHANGED coordVars
    BY <1>5 DEF ReapReflect, ReapStep
  <2>4. reap' \in [Replica -> [step : ReapStep, seen : RowStatus]]
        /\ \A b \in Replica : reap'[b].step = "completed" => reap[b].step = "completed"
    BY <1>0, <2>3, NextTyped
  <2>5. TypeOK'
    BY <1>0, <1>1, <2>1, <2>2, <2>3, <2>4 DEF TypeOK, coordVars, ageVars
  <2> QED
    BY <2>1, <2>2, <2>3, <2>4, <2>5, ApiStepKept
<1>6. CASE ReapFinish(a)
  <2> DEFINE v == reap[a].step
  <2>1. v \in Terminal /\ orFails(FinishRun(v))
    BY <1>6 DEF ReapFinish, Terminal
  <2>2. /\ row' \in RowStatus /\ payload' \in BOOLEAN /\ faults' \in 0..MaxFaults
        /\ row' = "completed" => row = "completed" \/ executed
    BY <1>0, <2>1, WritesTyped
  <2>3. "idle" \in ReapStep /\ next(a, "idle") /\ UNCHANGED <<coordVars, watch>>
    BY <1>6 DEF ReapFinish, ReapStep
  <2>4. reap' \in [Replica -> [step : ReapStep, seen : RowStatus]]
        /\ \A b \in Replica : reap'[b].step = "completed" => reap[b].step = "completed"
    BY <1>0, <2>3, NextTyped
  <2>5. TypeOK'
    BY <1>0, <1>1, <2>2, <2>3, <2>4 DEF TypeOK, coordVars, ageVars
  <2> QED
    BY <2>2, <2>3, <2>4, <2>5, ApiStepKept
<1> QED
  BY <1>2, <1>3, <1>4, <1>5, <1>6 DEF ReapNext

\* A client's stop and a page's poll never make a record green.
LEMMA ClientKept ==
    ASSUME RecordInv, StopAsk \/ StopCall \/ StopFinish \/ PageQuery \/ PageReflect \/ Age
    PROVE  RecordInv'
<1>0. TypeOK
  BY DEF RecordInv
<1>1. CASE StopAsk
  <2>1. stops' \in 0..MaxStops /\ stop' \in StopStep
    BY <1>0, <1>1, MaxStopsAssumption DEF StopAsk, TypeOK, StopStep
  <2>2. UNCHANGED <<row, payload, coordVars, launch, watch, reap, page, ageVars, faults>>
    BY <1>1 DEF StopAsk, recordVars, unstopped
  <2>3. TypeOK'
    BY <1>0, <2>1, <2>2 DEF TypeOK, coordVars, ageVars
  <2> QED
    BY <2>2, <2>3, ApiStepKept
<1>2. CASE StopCall
  <2>1. /\ stop' \in StopStep /\ faults' \in 0..MaxFaults
        /\ coord' = coord \/ (coord = "running" /\ coord' = "aborted")
    BY <1>0, <1>2, FaultTyped DEF StopCall, TypeOK, StopStep
  <2>2. UNCHANGED <<row, payload, closed, executing, leftover, metrics, executed, launch, watch,
                    reap, page, ageVars, stops>>
    BY <1>2 DEF StopCall, recordVars, unstopped
  <2>3. TypeOK'
    BY <1>0, <2>1, <2>2 DEF TypeOK, ageVars, CoordStatus
  <2>4. coord' \in {"running", "completed", "aborted"} => executed'
    BY <2>1, <2>2 DEF RecordInv, Evidence
  <2>5. (executing' => executed') /\ (metrics' => executed') /\ (executed => executed')
    BY <2>2 DEF RecordInv, Evidence
  <2> QED
    BY <2>2, <2>3, <2>4, <2>5, CoordinatorStepKept
<1>3. CASE StopFinish
  <2>1. /\ row' \in RowStatus /\ payload' \in BOOLEAN /\ faults' \in 0..MaxFaults
        /\ row' = "completed" => row = "completed"
    <3>1. "aborted" \in Terminal /\ "aborted" # "completed"
      BY DEF Terminal
    <3> QED
      BY <1>0, <1>3, <3>1, WritesTyped DEF StopFinish
  <2>2. stop' \in StopStep /\ UNCHANGED <<coordVars, launch, watch, reap, page, ageVars, stops>>
    BY <1>3 DEF StopFinish, StopStep, unstopped
  <2>3. TypeOK'
    BY <1>0, <2>1, <2>2 DEF TypeOK, coordVars, ageVars
  <2> QED
    BY <2>1, <2>2, <2>3, ApiStepKept
<1>4. CASE PageQuery
  <2>1. page' \in PageStep
        /\ UNCHANGED <<row, payload, coordVars, launch, watch, reap, stop, ageVars, stops, faults>>
    BY <1>4 DEF PageQuery, recordVars, PageStep
  <2>2. TypeOK'
    BY <1>0, <2>1 DEF TypeOK, coordVars, ageVars
  <2> QED
    BY <2>1, <2>2, ApiStepKept
<1>5. CASE PageReflect
  <2>1. /\ row' \in RowStatus /\ payload' \in BOOLEAN /\ faults' \in 0..MaxFaults
        /\ row' = "completed" => row = "completed"
    BY <1>0, <1>5, WritesTyped DEF PageReflect
  <2>2. page' \in PageStep /\ UNCHANGED <<coordVars, launch, watch, reap, stop, ageVars, stops>>
    BY <1>5 DEF PageReflect, PageStep
  <2>3. TypeOK'
    BY <1>0, <2>1, <2>2 DEF TypeOK, coordVars, ageVars
  <2> QED
    BY <2>1, <2>2, <2>3, ApiStepKept
<1>6. CASE Age
  <2>1. settled' \in BOOLEAN /\ overdue' \in BOOLEAN
    BY <1>0, <1>6 DEF Age, TypeOK
  <2>2. UNCHANGED <<row, payload, coordVars, launch, watch, reap, stop, page, stops, faults>>
    BY <1>6 DEF Age, recordVars, apiVars
  <2>3. TypeOK'
    BY <1>0, <2>1, <2>2 DEF TypeOK, coordVars
  <2> QED
    BY <2>2, <2>3, ApiStepKept
<1> QED
  BY <1>1, <1>2, <1>3, <1>4, <1>5, <1>6

\* Restarts forget, and make up nothing.
LEMMA RestartKept ==
    ASSUME RecordInv, CoordinatorRestart \/ ServerRestart
    PROVE  RecordInv'
<1>0. TypeOK /\ watch \in [WatchStep -> Nat]
      /\ reap \in [Replica -> [step : ReapStep, seen : RowStatus]]
  BY DEF RecordInv, TypeOK
<1>1. CASE CoordinatorRestart
  <2>1. faults' \in 0..MaxFaults
    BY <1>0, <1>1, FaultTyped DEF CoordinatorRestart
  <2>2. watch' \in [WatchStep -> Nat] /\ watch'["completed"] = watch["completed"]
    BY <1>0, <1>1 DEF CoordinatorRestart, WatchStep
  <2>3. /\ coord' = "none" /\ closed' = FALSE /\ leftover' = FALSE
        /\ UNCHANGED <<executing, metrics, executed, row, payload, ageVars, launch, reap, stop,
                       page, stops>>
    BY <1>1 DEF CoordinatorRestart, recordVars
  <2>4. TypeOK'
    BY <1>0, <2>1, <2>2, <2>3 DEF TypeOK, ageVars, CoordStatus
  <2>5. (executing' => executed') /\ (metrics' => executed') /\ (executed => executed')
    BY <2>3 DEF RecordInv, Evidence
  <2> QED
    BY <2>2, <2>3, <2>4, <2>5, CoordinatorStepKept
<1>2. CASE ServerRestart
  <2>1. faults' \in 0..MaxFaults
    BY <1>0, <1>2, FaultTyped DEF ServerRestart
  <2>2. watch' \in [WatchStep -> Nat] /\ watch'["completed"] = 0
    BY <1>2 DEF ServerRestart, WatchStep
  <2>3. reap' \in [Replica -> [step : ReapStep, seen : RowStatus]]
        /\ \A b \in Replica : reap'[b].step = "completed" => reap[b].step = "completed"
    <3>1. Idle \in [step : ReapStep, seen : RowStatus] /\ Idle.step # "completed"
      BY DEF Idle, ReapStep, RowStatus
    <3> QED
      BY <1>0, <1>2, <3>1 DEF ServerRestart
  <2>4. /\ launch' = "done" /\ stop' = "idle" /\ page' = "idle"
        /\ UNCHANGED <<row, payload, coordVars, ageVars, stops>>
    BY <1>2 DEF ServerRestart, recordVars
  <2>5. TypeOK'
    BY <1>0, <2>1, <2>2, <2>3, <2>4 DEF TypeOK, coordVars, ageVars, LaunchStep, StopStep, PageStep
  <2> QED
    BY <2>2, <2>3, <2>4, <2>5, ApiStepKept
<1> QED
  BY <1>1, <1>2

-----------------------------------------------------------------------------
(* The theorems                                                            *)

\* The invariant that the others rest on holds in every reachable state.
THEOREM RecordInvariant == Spec => []RecordInv
<1>1. Init => RecordInv
  <2> SUFFICES ASSUME Init PROVE RecordInv
    OBVIOUS
  <2>1. /\ row = "none" /\ payload = FALSE /\ launch = "create" /\ stop = "idle" /\ page = "idle"
        /\ settled = FALSE /\ overdue = FALSE /\ coord = "none" /\ closed = FALSE
        /\ executing = FALSE /\ leftover = FALSE /\ metrics = FALSE /\ executed = FALSE
        /\ stops = 0 /\ faults = 0
    BY DEF Init
  <2>2. watch \in [WatchStep -> Nat] /\ watch["completed"] = 0
    BY DEF Init, WatchStep
  <2>3. /\ reap \in [Replica -> [step : ReapStep, seen : RowStatus]]
        /\ \A a \in Replica : reap[a].step = "idle"
    BY DEF Init, Idle, ReapStep, RowStatus
  <2>4. stops \in 0..MaxStops /\ faults \in 0..MaxFaults
    BY <2>1, MaxStopsAssumption, MaxFaultsAssumption
  <2>5. TypeOK
    BY <2>1, <2>2, <2>3, <2>4 DEF TypeOK, RowStatus, LaunchStep, StopStep, PageStep, CoordStatus
  <2>6. Evidence
    BY <2>1, <2>2, <2>3 DEF Evidence, GreenSoon
  <2> QED
    BY <2>5, <2>6 DEF RecordInv
<1>2. RecordInv /\ [Next]_vars => RecordInv'
  <2> SUFFICES ASSUME RecordInv, [Next]_vars PROVE RecordInv'
    OBVIOUS
  <2>1. CASE UNCHANGED vars
    <3>1. UNCHANGED <<coordVars, row, payload, settled, overdue, launch, watch, reap, stop, page,
                      stops, faults>>
      BY <2>1 DEF vars, recordVars, ageVars, apiVars
    <3>2. TypeOK'
      BY <3>1 DEF RecordInv, TypeOK, coordVars
    <3> QED
      BY <3>1, <3>2, ApiStepKept
  <2> QED
    BY <2>1, LaunchKept, CoordinatorKept, WatchKept, ReapKept, ClientKept, RestartKept DEF Next
<1> QED
  BY <1>1, <1>2, PTL DEF Spec

\* Every variable of the record, its goroutines and the coordinator's view stays in
\* its type; stops and faults stay within their bounds.
THEOREM RecordTypeCorrect == Spec => []TypeOK
<1>1. RecordInv => TypeOK
  BY DEF RecordInv
<1> QED
  BY <1>1, RecordInvariant, PTL

\* The record of a run that was never dispatched never reads "completed": neither a
\* watcher, nor finalizeForgotten, nor a stop, nor any loss of a process or of an
\* answer turns it green.
THEOREM GreenMeansExecuted == Spec => []NoGreenWithoutRun
<1>1. RecordInv => NoGreenWithoutRun
  BY DEF RecordInv, Evidence, NoGreenWithoutRun
<1> QED
  BY <1>1, RecordInvariant, PTL

\* A verdict in Postgres is final but for one statement: no watcher, reaper, stop or
\* poll replaces it by another verdict or by "running"; SetRunStatus alone, of a launch
\* or a replay that was answered "queued", reopens the run.
THEOREM VerdictsAreKept == Spec => VerdictsStand
<1>1. [Next]_vars => [(row \in Terminal => row' \in {row, "queued"})]_vars
  <2> SUFFICES ASSUME Next, row \in Terminal PROVE row' \in {row, "queued"}
    OBVIOUS
  <2> DEFINE Kept == row' \in {row, "queued"}
  <2>0. row \notin {"none", "pending", "queued", "running"}
    BY DEF Terminal
  <2>1. /\ orFails(SetRunRunning) => Kept
        /\ orFails(SetRunStatus("queued")) => Kept
        /\ \A v : orFails(FinishRun(v)) => Kept
        /\ orFails(payload' = TRUE /\ UNCHANGED row) => Kept
        /\ UNCHANGED recordVars => Kept
    BY <2>0 DEF orFails, SetRunRunning, SetRunStatus, FinishRun, recordVars
  <2>2. CASE LaunchNext
    BY <2>0, <2>1, <2>2 DEF LaunchNext, CreateRun, StoreDispatch, LaunchStart, LaunchEnd
  <2>3. CASE WatchNext
    BY <2>1, <2>3 DEF WatchNext, WatchAttach, WatchEnd, WatchQuery, WatchFinish, unwatched
  <2>4. CASE \E a \in Replica : ReapNext(a)
    BY <2>1, <2>4 DEF ReapNext, ReapList, ReapQuery, ReapPayload, ReapStart, ReapReflect,
                     ReapForgotten, ReapFinish
  <2>5. CASE CoordinatorNext
    BY <2>1, <2>5 DEF CoordinatorNext, Dispatch, Report, EndRun, CloseStream, WorkersDone,
                     Rehydrate, apiUnchanged
  <2>6. CASE StopAsk \/ StopCall \/ StopFinish \/ PageQuery \/ PageReflect \/ Age
    BY <2>1, <2>6 DEF StopAsk, StopCall, StopFinish, PageQuery, PageReflect, Age
  <2>7. CASE CoordinatorRestart \/ ServerRestart
    BY <2>1, <2>7 DEF CoordinatorRestart, ServerRestart
  <2> QED
    BY <2>2, <2>3, <2>4, <2>5, <2>6, <2>7 DEF Next
<1> QED
  BY <1>1, PTL DEF Spec, VerdictsStand
=============================================================================
