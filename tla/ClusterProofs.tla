--------------------------- MODULE ClusterProofs ---------------------------
(***************************************************************************)
(* Machine-checked proofs about Cluster, for any finite sets of workers    *)
(* and runs and any value of the other constants.                          *)
(***************************************************************************)
EXTENDS Cluster, FiniteSetTheorems, SequenceTheorems, TLAPS

-----------------------------------------------------------------------------
(* Type correctness                                                        *)

\* The workers a dispatch or a stop reaches are workers.
LEMMA ReachedWorkers ==
    ASSUME NEW S \in SUBSET Worker, NEW got \in Reached(S)
    PROVE  got \subseteq Worker
BY DEF Reached

\* A round of sends puts messages into channels of messages.
LEMMA SendType ==
    ASSUME NEW ch \in [Worker -> Seq(Msg)], NEW m \in Msg, NEW got
    PROVE  [w \in Worker |-> IF w \in got THEN Append(ch[w], m) ELSE ch[w]]
              \in [Worker -> Seq(Msg)]
OBVIOUS

\* dispatchLocked writes only values of the right types.
LEMMA DispatchType ==
    ASSUME TypeOK, NEW r \in Run, dispatchLocked(r)
    PROVE  /\ RunTypeOK'
           /\ running' \in Nat
           /\ dispatches' \in [Run -> Nat]
           /\ send' \in [Worker -> Seq(Msg)]
<1>1. PICK picked \in PickWorkers(Available, Desired[r]) :
         \E got \in Reached(picked) : got # {} /\ dispatched(r, got)
  BY DEF dispatchLocked
<1>2. PICK got \in Reached(picked) : dispatched(r, got)
  BY <1>1
<1>3. picked \subseteq Worker
  BY <1>1 DEF PickWorkers, Available, Registered
<1>4. got \subseteq Worker
  BY <1>2, <1>3, ReachedWorkers
<1>5. RunTypeOK'
  BY <1>2, <1>4 DEF dispatched, TypeOK, RunTypeOK, Status, Reason, AggState
<1>6. running' \in Nat /\ dispatches' \in [Run -> Nat]
  <2>1. /\ running' = running + 1
        /\ dispatches' = [dispatches EXCEPT ![r] = dispatches[r] + 1]
    BY <1>2 DEF dispatched
  <2>2. running \in Nat /\ dispatches \in [Run -> Nat]
    BY DEF TypeOK, ServiceTypeOK
  <2> QED
    BY <2>1, <2>2
<1>7. [kind |-> "assign", run |-> r, seq |-> dispatches[r] + 1] \in Msg
  BY DEF TypeOK, ServiceTypeOK, Msg
<1>8. send' \in [Worker -> Seq(Msg)]
  <2> DEFINE m == [kind |-> "assign", run |-> r, seq |-> dispatches[r] + 1]
  <2>1. send' = [w \in Worker |-> IF w \in got THEN Append(send[w], m)
                                              ELSE send[w]]
    BY <1>2 DEF dispatched
  <2>2. send \in [Worker -> Seq(Msg)]
    BY DEF TypeOK, ServiceTypeOK
  <2> QED
    BY <1>7, <2>1, <2>2, SendType
<1> QED
  BY <1>5, <1>6, <1>8

\* A run that holds a slot is counted.
LEMMA HeldIsCounted ==
    ASSUME TypeOK, NoUnderflow, NEW r \in slotHeld
    PROVE  running > 0
<1>1. IsFiniteSet(slotHeld)
  BY RunAssumption, FS_Subset DEF TypeOK, RunTypeOK
<1>2. Cardinality(slotHeld) \in Nat /\ Cardinality(slotHeld) # 0
  BY <1>1, FS_CardinalityType, FS_EmptySet
<1> QED
  BY <1>2 DEF TypeOK, ServiceTypeOK, NoUnderflow

\* finalizeLocked writes only values of the right types.
LEMMA FinalizeType ==
    ASSUME TypeOK, NoUnderflow, NEW r \in Run,
           NEW v \in {"completed", "aborted"}, finalizeLocked(r, v)
    PROVE  /\ status' \in [Run -> Status]
           /\ ended' \subseteq Run
           /\ agg' \in [Run -> AggState]
           /\ slotHeld' \subseteq Run
           /\ running' \in Nat
           /\ draining' \in BOOLEAN
<1>1. r \in slotHeld => running > 0
  BY HeldIsCounted
<1> QED
  BY <1>1 DEF finalizeLocked, TypeOK, RunTypeOK, ServiceTypeOK, Status, AggState

\* forceFinalize writes only values of the right types.
LEMMA ForceFinalizeType ==
    ASSUME TypeOK, NoUnderflow, NEW r \in Run, NEW d \in Reason,
           forceFinalize(r, d)
    PROVE  /\ status' \in [Run -> Status]
           /\ reason' \in [Run -> Reason]
           /\ ended' \subseteq Run
           /\ agg' \in [Run -> AggState]
           /\ slotHeld' \subseteq Run
           /\ running' \in Nat
           /\ draining' \in BOOLEAN
<1>1. CASE r \in slotHeld \ ended
  <2>1. finalizeLocked(r, "aborted")
    BY <1>1 DEF forceFinalize
  <2>2. reason' = [reason EXCEPT ![r] = IF reason[r] = "" THEN d ELSE reason[r]]
    BY <1>1 DEF forceFinalize
  <2>3. reason' \in [Run -> Reason]
    BY <2>2 DEF TypeOK, RunTypeOK
  <2> QED
    BY <2>1, <2>3, FinalizeType
<1>2. CASE r \notin slotHeld \ ended
  BY <1>2 DEF forceFinalize, TypeOK, RunTypeOK, ServiceTypeOK
<1> QED
  BY <1>1, <1>2

\* What arrives from a worker is one of its messages.
LEMMA ArrivedType ==
    ASSUME TypeOK, NEW w \in Worker, up[w] # <<>>
    PROVE  /\ Head(up[w]) \in WMsg
           /\ Tail(up[w]) \in Seq(WMsg)
           /\ Head(up[w]).kind = "register" => Head(up[w]).active \in SUBSET Run
           /\ Head(up[w]).kind = "finished" => Head(up[w]).run \in Run
<1>1. up[w] \in Seq(WMsg)
  BY DEF TypeOK, WorkerTypeOK
<1>2. Head(up[w]) \in WMsg /\ Tail(up[w]) \in Seq(WMsg)
  BY <1>1
<1> QED
  BY <1>2 DEF WMsg

\* enqueue adds a message or drops it.
LEMMA EnqueueType ==
    ASSUME TypeOK, NEW w \in Worker, NEW m \in WMsg, enqueue(w, m)
    PROVE  up' \in [Worker -> Seq(WMsg)]
<1>1. up \in [Worker -> Seq(WMsg)]
  BY DEF TypeOK, WorkerTypeOK
<1>2. \/ up' = [up EXCEPT ![w] = Append(up[w], m)]
      \/ up' = up
  BY DEF enqueue
<1>3. Append(up[w], m) \in Seq(WMsg)
  BY <1>1
<1> QED
  BY <1>1, <1>2, <1>3

\* A break leaves a sequence of messages.
LEMMA SuffixType ==
    ASSUME TypeOK, NEW w \in Worker, NEW rest \in suffixes(w)
    PROVE  rest \in Seq(WMsg)
<1>1. up[w] \in Seq(WMsg)
  BY DEF TypeOK, WorkerTypeOK
<1>2. PICK k \in 0..Len(up[w]) : rest = SubSeq(up[w], k + 1, Len(up[w]))
  BY DEF suffixes
<1> QED
  BY <1>1, <1>2, SubSeqProperties

\* No action leaves the types.  Freeing a slot takes one from the counter, so
\* this needs that the counter has not fallen below the slots that are held.
LEMMA TypeStep ==
    ASSUME TypeOK, NoUnderflow, [Next]_vars
    PROVE  TypeOK'
<1>1. ASSUME NEW r \in Run, StartRun(r), UNCHANGED <<workerVars, faults>>
      PROVE  TypeOK'
  <2>1. RunTypeOK'
    <3>1. CASE canDispatch
      BY <1>1, <3>1, DispatchType DEF StartRun
    <3>2. CASE ~canDispatch
      BY <1>1, <3>2 DEF StartRun, TypeOK, RunTypeOK, runVars, Status, Reason, AggState
    <3> QED
      BY <3>1, <3>2
  <2>2. ServiceTypeOK'
    <3>1. CASE canDispatch
      <4>1. /\ running' \in Nat
            /\ dispatches' \in [Run -> Nat]
            /\ send' \in [Worker -> Seq(Msg)]
        BY <1>1, <3>1, DispatchType DEF StartRun
      <4>2. UNCHANGED <<queue, draining, timerVars, registryVars, stopAsked,
                        stopCalls>>
        BY <1>1, <3>1 DEF StartRun
      <4> QED
        BY <4>1, <4>2 DEF TypeOK, ServiceTypeOK, admissionVars, timerVars, registryVars, historyVars, Owner
    <3>2. CASE ~canDispatch
      <4>1. /\ queue' = Append(queue, r)
            /\ UNCHANGED <<running, send, dispatches, draining, timerVars,
                           registryVars, stopAsked, stopCalls>>
        BY <1>1, <3>2 DEF StartRun
      <4> QED
        BY <4>1 DEF TypeOK, ServiceTypeOK, admissionVars, timerVars, registryVars, historyVars, Owner
    <3> QED
      BY <3>1, <3>2
  <2>3. WorkerTypeOK'
    BY <1>1 DEF TypeOK, WorkerTypeOK, workerVars
  <2> QED
    BY <2>1, <2>2, <2>3 DEF TypeOK
<1>2. ASSUME NEW r \in Run, StopRun(r), UNCHANGED <<workerVars, faults>>
      PROVE  TypeOK'
  <2>1. RunTypeOK'
    BY <1>2 DEF StopRun, TypeOK, RunTypeOK, runVars, Status, Reason, AggState
  <2>2. ServiceTypeOK'
    <3>1. /\ stopCalls' = [stopCalls EXCEPT ![r] = stopCalls[r] + 1]
          /\ \/ stopping' = [stopping EXCEPT ![r] = stopping[r] + 1]
             \/ stopping' = stopping
          /\ \/ stopTimers' = [stopTimers EXCEPT ![r] = stopTimers[r] + 1]
             \/ stopTimers' = stopTimers
          /\ stopAsked' \in {stopAsked, stopAsked \cup {r}}
          /\ UNCHANGED <<admissionVars, orphaned, registryVars, send, dispatches>>
      BY <1>2 DEF StopRun
    <3>2. /\ stopCalls \in [Run -> Nat] /\ stopping \in [Run -> Nat]
          /\ stopTimers \in [Run -> Nat] /\ stopAsked \subseteq Run
      BY DEF TypeOK, ServiceTypeOK
    <3>3. /\ stopCalls' \in [Run -> Nat] /\ stopping' \in [Run -> Nat]
          /\ stopTimers' \in [Run -> Nat] /\ stopAsked' \subseteq Run
      BY <3>1, <3>2
    <3> QED
      BY <3>1, <3>3 DEF TypeOK, ServiceTypeOK, admissionVars, timerVars, registryVars, historyVars, Owner
  <2>3. WorkerTypeOK'
    BY <1>2 DEF TypeOK, WorkerTypeOK, workerVars
  <2> QED
    BY <2>1, <2>2, <2>3 DEF TypeOK
<1>3. ASSUME NEW r \in Run, SignalStop(r), UNCHANGED <<workerVars, faults>>
      PROVE  TypeOK'
  <2>1. RunTypeOK'
    BY <1>3 DEF SignalStop, TypeOK, RunTypeOK, runVars, Status, Reason, AggState
  <2>2. ServiceTypeOK'
    <3> DEFINE m == [kind |-> "stop", run |-> r, seq |-> 0]
    <3>1. PICK got : send' = [w \in Worker |-> IF w \in got
                                               THEN Append(send[w], m)
                                               ELSE send[w]]
      BY <1>3 DEF SignalStop
    <3>2. m \in Msg
      BY DEF Msg
    <3>3. send' \in [Worker -> Seq(Msg)]
      BY <3>1, <3>2, SendType DEF TypeOK, ServiceTypeOK
    <3>4. /\ stopping[r] > 0
          /\ stopping' = [stopping EXCEPT ![r] = stopping[r] - 1]
          /\ stopTimers' = [stopTimers EXCEPT ![r] = stopTimers[r] + 1]
          /\ UNCHANGED <<admissionVars, orphaned, registryVars, historyVars>>
      BY <1>3 DEF SignalStop
    <3>5. stopping \in [Run -> Nat] /\ stopTimers \in [Run -> Nat]
      BY DEF TypeOK, ServiceTypeOK
    <3>6. stopping' \in [Run -> Nat] /\ stopTimers' \in [Run -> Nat]
      BY <3>4, <3>5
    <3> QED
      BY <3>3, <3>4, <3>6 DEF TypeOK, ServiceTypeOK, admissionVars, timerVars, registryVars, historyVars, Owner
  <2>3. WorkerTypeOK'
    BY <1>3 DEF TypeOK, WorkerTypeOK, workerVars
  <2> QED
    BY <2>1, <2>2, <2>3 DEF TypeOK
<1>4. ASSUME NEW r \in Run, AutoStopRun(r), UNCHANGED <<workerVars, faults>>
      PROVE  TypeOK'
  <2>1. RunTypeOK'
    BY <1>4 DEF AutoStopRun, TypeOK, RunTypeOK, runVars, Status, Reason, AggState
  <2>2. ServiceTypeOK'
    BY <1>4 DEF AutoStopRun, TypeOK, ServiceTypeOK, admissionVars, timerVars, registryVars, historyVars, Owner
  <2>3. WorkerTypeOK'
    BY <1>4 DEF TypeOK, WorkerTypeOK, workerVars
  <2> QED
    BY <2>1, <2>2, <2>3 DEF TypeOK
<1>5. ASSUME NEW r \in Run, StopTimeout(r), UNCHANGED <<workerVars, faults>>
      PROVE  TypeOK'
  <2>1. RunTypeOK'
    BY <1>5, ForceFinalizeType DEF StopTimeout, TypeOK, RunTypeOK, runVars, Status, Reason, AggState
  <2>2. ServiceTypeOK'
    <3>1. running' \in Nat /\ draining' \in BOOLEAN
      BY <1>5, ForceFinalizeType DEF StopTimeout, Reason
    <3>2. /\ stopTimers[r] > 0
          /\ stopTimers' = [stopTimers EXCEPT ![r] = stopTimers[r] - 1]
          /\ UNCHANGED <<queue, stopping, orphaned, registryVars, send,
                         historyVars>>
      BY <1>5 DEF StopTimeout
    <3>3. stopTimers \in [Run -> Nat]
      BY DEF TypeOK, ServiceTypeOK
    <3>4. stopTimers' \in [Run -> Nat]
      BY <3>2, <3>3
    <3> QED
      BY <3>1, <3>2, <3>4 DEF TypeOK, ServiceTypeOK, admissionVars, timerVars, registryVars, historyVars, Owner
  <2>3. WorkerTypeOK'
    BY <1>5 DEF TypeOK, WorkerTypeOK, workerVars
  <2> QED
    BY <2>1, <2>2, <2>3 DEF TypeOK
<1>6. ASSUME NEW r \in Run, ReapFinalize(r), UNCHANGED <<workerVars, faults>>
      PROVE  TypeOK'
  <2>1. RunTypeOK'
    BY <1>6, ForceFinalizeType DEF ReapFinalize, TypeOK, RunTypeOK, runVars, Status, Reason, AggState
  <2>2. ServiceTypeOK'
    <3>1. running' \in Nat /\ draining' \in BOOLEAN
      BY <1>6, ForceFinalizeType DEF ReapFinalize, Reason
    <3>2. /\ orphaned' = orphaned \ {r}
          /\ UNCHANGED <<queue, stopping, stopTimers, registryVars, send,
                         historyVars>>
      BY <1>6 DEF ReapFinalize
    <3> QED
      BY <3>1, <3>2 DEF TypeOK, ServiceTypeOK, admissionVars, timerVars, registryVars, historyVars, Owner
  <2>3. WorkerTypeOK'
    BY <1>6 DEF TypeOK, WorkerTypeOK, workerVars
  <2> QED
    BY <2>1, <2>2, <2>3 DEF TypeOK
<1>7. ASSUME NEW r \in Run, AggregatorExit(r), UNCHANGED <<workerVars, faults>>
      PROVE  TypeOK'
  <2>1. RunTypeOK'
    BY <1>7 DEF AggregatorExit, TypeOK, RunTypeOK, runVars, Status, Reason, AggState
  <2>2. ServiceTypeOK'
    BY <1>7 DEF AggregatorExit, TypeOK, ServiceTypeOK, admissionVars, timerVars, registryVars, historyVars, Owner
  <2>3. WorkerTypeOK'
    BY <1>7 DEF TypeOK, WorkerTypeOK, workerVars
  <2> QED
    BY <2>1, <2>2, <2>3 DEF TypeOK
<1>8. ASSUME DrainDispatch, UNCHANGED <<workerVars, faults>>
      PROVE  TypeOK'
  <2>1. RunTypeOK'
    <3>1. Head(queue) \in Run
      BY <1>8 DEF DrainDispatch, TypeOK, ServiceTypeOK
    <3> QED
      BY <1>8, <3>1, DispatchType DEF DrainDispatch
  <2>2. ServiceTypeOK'
    <3>1. Head(queue) \in Run /\ Tail(queue) \in Seq(Run)
      BY <1>8 DEF DrainDispatch, TypeOK, ServiceTypeOK
    <3>2. /\ running' \in Nat
          /\ dispatches' \in [Run -> Nat]
          /\ send' \in [Worker -> Seq(Msg)]
      BY <1>8, <3>1, DispatchType DEF DrainDispatch
    <3>3. /\ queue' = Tail(queue)
          /\ UNCHANGED <<draining, timerVars, registryVars, stopAsked, stopCalls>>
      BY <1>8 DEF DrainDispatch
    <3> QED
      BY <3>1, <3>2, <3>3 DEF TypeOK, ServiceTypeOK, admissionVars, timerVars, registryVars, historyVars, Owner
  <2>3. WorkerTypeOK'
    BY <1>8 DEF TypeOK, WorkerTypeOK, workerVars
  <2> QED
    BY <2>1, <2>2, <2>3 DEF TypeOK
<1>9. ASSUME DrainExit, UNCHANGED <<workerVars, faults>>
      PROVE  TypeOK'
  <2>1. RunTypeOK'
    BY <1>9 DEF DrainExit, TypeOK, RunTypeOK, runVars, Status, Reason, AggState
  <2>2. ServiceTypeOK'
    BY <1>9 DEF DrainExit, TypeOK, ServiceTypeOK, admissionVars, timerVars, registryVars, historyVars, Owner
  <2>3. WorkerTypeOK'
    BY <1>9 DEF TypeOK, WorkerTypeOK, workerVars
  <2> QED
    BY <2>1, <2>2, <2>3 DEF TypeOK
<1>10. ASSUME NEW late \in SUBSET lost, ReapScan(late), UNCHANGED <<workerVars, faults>>
      PROVE  TypeOK'
  <2>1. RunTypeOK'
    BY <1>10 DEF ReapScan, allWorkersGone, TypeOK, RunTypeOK, runVars, Status, Reason, AggState
  <2>2. ServiceTypeOK'
    BY <1>10 DEF ReapScan, allWorkersGone, TypeOK, ServiceTypeOK, admissionVars, timerVars, registryVars, historyVars, Owner
  <2>3. WorkerTypeOK'
    BY <1>10 DEF TypeOK, WorkerTypeOK, workerVars
  <2> QED
    BY <2>1, <2>2, <2>3 DEF TypeOK
<1>11. ASSUME NEW w \in Worker, Touch(w), UNCHANGED <<workerVars, faults>>
      PROVE  TypeOK'
  <2>1. RunTypeOK'
    BY <1>11 DEF Touch, TypeOK, RunTypeOK, runVars, Status, Reason, AggState
  <2>2. ServiceTypeOK'
    BY <1>11 DEF Touch, TypeOK, ServiceTypeOK, admissionVars, timerVars, registryVars, historyVars, Owner
  <2>3. WorkerTypeOK'
    BY <1>11 DEF TypeOK, WorkerTypeOK, workerVars
  <2> QED
    BY <2>1, <2>2, <2>3 DEF TypeOK
<1>12. ASSUME NEW w \in Worker, RegisterAdd(w)
      PROVE  TypeOK'
  <2>1. RunTypeOK'
    BY <1>12 DEF RegisterAdd, Add, TypeOK, RunTypeOK, runVars, Status, Reason, AggState
  <2>2. ServiceTypeOK'
    BY <1>12 DEF RegisterAdd, Add, TypeOK, ServiceTypeOK, admissionVars, timerVars, registryVars, historyVars, Owner
  <2>3. WorkerTypeOK'
    <3>1. /\ up' = [up EXCEPT ![w] = Tail(up[w])]
          /\ handler' = [handler EXCEPT ![w] = [step |-> "rehydrate",
                                                active |-> Head(up[w]).active]]
          /\ up[w] # <<>>
          /\ Head(up[w]).kind = "register"
          /\ UNCHANGED <<link, teardown, tasks, cancelOf, faults>>
      BY <1>12 DEF RegisterAdd, arrived, taken
    <3>2. [step |-> "rehydrate", active |-> Head(up[w]).active] \in Handler
      BY <3>1, ArrivedType DEF Handler
    <3>3. Tail(up[w]) \in Seq(WMsg)
      BY <3>1, ArrivedType
    <3> QED
      BY <3>1, <3>2, <3>3 DEF TypeOK, WorkerTypeOK
  <2> QED
    BY <2>1, <2>2, <2>3 DEF TypeOK
<1>13. ASSUME NEW w \in Worker, RegisterRehydrate(w)
      PROVE  TypeOK'
  <2>1. RunTypeOK'
    <3>1. handler[w].active \subseteq Run
      BY DEF TypeOK, WorkerTypeOK, Handler
    <3> DEFINE active == handler[w].active
               fresh == unknown(active)
    <3>2. fresh \subseteq Run
      BY <3>1 DEF unknown
    <3> HIDE DEF active, fresh
    <3>3. /\ status' = [r \in Run |-> IF r \in fresh THEN "running" ELSE status[r]]
          /\ reason' = [r \in Run |-> IF r \in fresh THEN "" ELSE reason[r]]
          /\ finished' = [r \in Run |-> IF r \in fresh THEN {} ELSE finished[r]]
          /\ agg' = [r \in Run |-> IF r \in fresh THEN "live" ELSE agg[r]]
          /\ assigned' = [r \in Run |-> IF r \in fresh THEN {w}
                                        ELSE IF r \in active
                                        THEN assigned[r] \cup {w}
                                        ELSE assigned[r]]
      BY <1>13 DEF RegisterRehydrate, Rehydrate, active, fresh
    <3>4. /\ ended' = ended \ fresh
          /\ slotHeld' = slotHeld \cup fresh
          /\ lost' = lost \ fresh
          /\ armed' = armed \ fresh
          /\ fired' = fired \ fresh
      BY <1>13 DEF RegisterRehydrate, Rehydrate, active, fresh
    <3>5. /\ status' \in [Run -> Status]
          /\ reason' \in [Run -> Reason]
          /\ finished' \in [Run -> SUBSET Worker]
          /\ agg' \in [Run -> AggState]
          /\ assigned' \in [Run -> SUBSET Worker]
      BY <3>3 DEF TypeOK, RunTypeOK, Status, Reason, AggState
    <3> QED
      BY <3>2, <3>4, <3>5 DEF TypeOK, RunTypeOK
  <2>2. ServiceTypeOK'
    <3>1. IsFiniteSet(unknown(handler[w].active))
      <4>1. handler[w].active \subseteq Run
        BY DEF TypeOK, WorkerTypeOK, Handler
      <4> QED
        BY <4>1, RunAssumption, FS_Subset DEF unknown
    <3>2. Cardinality(unknown(handler[w].active)) \in Nat
      BY <3>1, FS_CardinalityType
    <3>3. /\ running' = running + Cardinality(unknown(handler[w].active))
          /\ UNCHANGED <<queue, draining, timerVars, registryVars, send,
                         historyVars>>
      BY <1>13 DEF RegisterRehydrate, Rehydrate
    <3>4. running' \in Nat
      BY <3>2, <3>3 DEF TypeOK, ServiceTypeOK
    <3> QED
      BY <3>3, <3>4 DEF TypeOK, ServiceTypeOK, admissionVars, timerVars, registryVars, historyVars, Owner
  <2>3. WorkerTypeOK'
    BY <1>13 DEF RegisterRehydrate, TypeOK, WorkerTypeOK, Handler
  <2> QED
    BY <2>1, <2>2, <2>3 DEF TypeOK
<1>14. ASSUME NEW w \in Worker, RegisterDrain(w)
      PROVE  TypeOK'
  <2>1. RunTypeOK'
    BY <1>14 DEF RegisterDrain, BeginDrain, TypeOK, RunTypeOK, runVars, Status, Reason, AggState
  <2>2. ServiceTypeOK'
    BY <1>14 DEF RegisterDrain, BeginDrain, TypeOK, ServiceTypeOK, admissionVars, timerVars, registryVars, historyVars, Owner
  <2>3. WorkerTypeOK'
    BY <1>14 DEF RegisterDrain, TypeOK, WorkerTypeOK, Handler, Idle
  <2> QED
    BY <2>1, <2>2, <2>3 DEF TypeOK
<1>15. ASSUME NEW w \in Worker, ReceiveFinished(w)
      PROVE  TypeOK'
  <2>1. RunTypeOK'
    <3> DEFINE r == Head(up[w]).run
    <3>1. r \in Run /\ WorkerFinished(w, r)
      BY <1>15, ArrivedType DEF ReceiveFinished, arrived
    <3> HIDE DEF r
    <3>2. CASE /\ status[r] # "none" /\ r \notin ended
               /\ Cardinality(finished'[r]) >= Cardinality(assigned[r])
      <4>1. /\ finalizeLocked(r, "completed")
            /\ finished' = [finished EXCEPT ![r] = finished[r] \cup {w}]
            /\ UNCHANGED <<reason, assigned, lost, armed, fired>>
        BY <3>1, <3>2 DEF WorkerFinished
      <4> QED
        BY <3>1, <4>1, FinalizeType DEF TypeOK, RunTypeOK
    <3>3. CASE ~(/\ status[r] # "none" /\ r \notin ended
                 /\ Cardinality(finished'[r]) >= Cardinality(assigned[r]))
      <4>1. /\ \/ finished' = [finished EXCEPT ![r] = finished[r] \cup {w}]
               \/ finished' = finished
            /\ UNCHANGED <<status, ended, agg, slotHeld, reason, assigned,
                           lost, armed, fired>>
        BY <3>1, <3>3 DEF WorkerFinished
      <4> QED
        BY <3>1, <4>1 DEF TypeOK, RunTypeOK
    <3> QED
      BY <3>2, <3>3
  <2>2. ServiceTypeOK'
    <3> DEFINE r == Head(up[w]).run
    <3>1. r \in Run /\ WorkerFinished(w, r)
      BY <1>15, ArrivedType DEF ReceiveFinished, arrived
    <3> HIDE DEF r
    <3>2. /\ \/ finalizeLocked(r, "completed")
             \/ UNCHANGED <<running, draining>>
          /\ UNCHANGED <<queue, timerVars, registryVars, send, historyVars>>
      BY <3>1 DEF WorkerFinished
    <3>3. running' \in Nat /\ draining' \in BOOLEAN
      BY <3>1, <3>2, FinalizeType DEF TypeOK, ServiceTypeOK
    <3> QED
      BY <3>2, <3>3 DEF TypeOK, ServiceTypeOK, admissionVars, timerVars, registryVars, historyVars, Owner
  <2>3. WorkerTypeOK'
    <3>1. /\ up' = [up EXCEPT ![w] = Tail(up[w])]
          /\ up[w] # <<>>
          /\ UNCHANGED <<link, teardown, handler, tasks, cancelOf, faults>>
      BY <1>15 DEF ReceiveFinished, arrived, taken
    <3> QED
      BY <3>1, ArrivedType DEF TypeOK, WorkerTypeOK
  <2> QED
    BY <2>1, <2>2, <2>3 DEF TypeOK
<1>16. ASSUME NEW w \in Worker, Teardown(w)
      PROVE  TypeOK'
  <2>1. RunTypeOK'
    BY <1>16 DEF Teardown, Remove, TypeOK, RunTypeOK, runVars, Status, Reason, AggState
  <2>2. ServiceTypeOK'
    BY <1>16 DEF Teardown, Remove, TypeOK, ServiceTypeOK, admissionVars, timerVars, registryVars, historyVars, Owner
  <2>3. WorkerTypeOK'
    BY <1>16 DEF Teardown, Remove, TypeOK, WorkerTypeOK
  <2> QED
    BY <2>1, <2>2, <2>3 DEF TypeOK
<1>17. ASSUME NEW w \in Worker, Connect(w)
      PROVE  TypeOK'
  <2>1. RunTypeOK'
    BY <1>17 DEF Connect, coordVars, TypeOK, RunTypeOK, runVars, Status, Reason, AggState
  <2>2. ServiceTypeOK'
    BY <1>17 DEF Connect, coordVars, TypeOK, ServiceTypeOK, admissionVars, timerVars, registryVars, historyVars, Owner
  <2>3. WorkerTypeOK'
    <3> DEFINE m == [kind |-> "register", active |-> activeRuns(w)]
    <3>1. m \in WMsg
      BY DEF WMsg, activeRuns
    <3>2. up' \in [Worker -> Seq(WMsg)]
      BY <1>17, <3>1, EnqueueType DEF Connect
    <3>3. /\ link' = link \cup {w}
          /\ UNCHANGED <<teardown, handler, tasks, cancelOf, faults>>
      BY <1>17 DEF Connect
    <3> QED
      BY <3>2, <3>3 DEF TypeOK, WorkerTypeOK
  <2> QED
    BY <2>1, <2>2, <2>3 DEF TypeOK
<1>18. ASSUME NEW w \in Worker, ReceiveAssignment(w)
      PROVE  TypeOK'
  <2>1. RunTypeOK'
    BY <1>18 DEF ReceiveAssignment, received, incoming, TypeOK, RunTypeOK, runVars, Status, Reason, AggState
  <2>2. ServiceTypeOK'
    BY <1>18 DEF ReceiveAssignment, received, incoming, TypeOK, ServiceTypeOK, admissionVars, timerVars, registryVars, historyVars, Owner
  <2>3. WorkerTypeOK'
    <3> DEFINE t == [run |-> Head(send[w]).run, seq |-> Head(send[w]).seq,
                     phase |-> "starting"]
    <3>1. Head(send[w]) \in Msg
      BY <1>18 DEF ReceiveAssignment, incoming, TypeOK, ServiceTypeOK
    <3>2. t \in Task
      BY <3>1 DEF Msg, Task, Phase
    <3>3. /\ tasks' = [tasks EXCEPT ![w] = tasks[w] \cup {t}]
          /\ UNCHANGED <<link, teardown, up, handler, cancelOf, faults>>
      BY <1>18 DEF ReceiveAssignment
    <3> QED
      BY <3>2, <3>3 DEF TypeOK, WorkerTypeOK
  <2> QED
    BY <2>1, <2>2, <2>3 DEF TypeOK
<1>19. ASSUME NEW w \in Worker, ReceiveStop(w)
      PROVE  TypeOK'
  <2>1. RunTypeOK'
    BY <1>19 DEF ReceiveStop, received, incoming, TypeOK, RunTypeOK, runVars, Status, Reason, AggState
  <2>2. ServiceTypeOK'
    BY <1>19 DEF ReceiveStop, received, incoming, TypeOK, ServiceTypeOK, admissionVars, timerVars, registryVars, historyVars, Owner
  <2>3. WorkerTypeOK'
    <3>1. tasks \in [Worker -> SUBSET Task]
      BY DEF TypeOK, WorkerTypeOK
    <3>2. PICK gone \in SUBSET tasks[w] :
             /\ tasks' = [tasks EXCEPT ![w] = (tasks[w] \ gone) \cup
                             {[t EXCEPT !.phase = "finishing"] : t \in gone}]
             /\ UNCHANGED <<link, teardown, up, handler, cancelOf, faults>>
      BY <1>19 DEF ReceiveStop
    <3>3. \A t \in Task : [t EXCEPT !.phase = "finishing"] \in Task
      BY DEF Task, Phase
    <3>4. {[t EXCEPT !.phase = "finishing"] : t \in gone} \subseteq Task
      BY <3>1, <3>3
    <3>5. tasks' \in [Worker -> SUBSET Task]
      BY <3>1, <3>2, <3>4
    <3> QED
      BY <3>2, <3>5 DEF TypeOK, WorkerTypeOK
  <2> QED
    BY <2>1, <2>2, <2>3 DEF TypeOK
<1>20. ASSUME NEW w \in Worker, NEW t \in tasks[w], StartTask(w, t)
      PROVE  TypeOK'
  <2>1. RunTypeOK'
    BY <1>20 DEF StartTask, coordVars, moved, TypeOK, RunTypeOK, runVars, Status, Reason, AggState
  <2>2. ServiceTypeOK'
    BY <1>20 DEF StartTask, coordVars, moved, TypeOK, ServiceTypeOK, admissionVars, timerVars, registryVars, historyVars, Owner
  <2>3. WorkerTypeOK'
    <3>1. t \in Task
      BY DEF TypeOK, WorkerTypeOK
    <3>2. [t EXCEPT !.phase = "waiting"] \in Task
      BY <3>1 DEF Task, Phase
    <3>3. /\ \/ tasks' = [tasks EXCEPT ![w] = tasks[w] \ {t}]
             \/ tasks' = [tasks EXCEPT ![w] = (tasks[w] \ {t}) \cup
                                       {[t EXCEPT !.phase = "waiting"]}]
          /\ \/ cancelOf' = cancelOf
             \/ cancelOf' = [cancelOf EXCEPT ![w][t.run] = t.seq]
          /\ UNCHANGED <<link, teardown, up, handler, faults>>
      BY <1>20 DEF StartTask, moved
    <3>4. t.run \in Run /\ t.seq \in Nat
      BY <3>1 DEF Task
    <3>5. tasks' \in [Worker -> SUBSET Task]
      <4>1. tasks \in [Worker -> SUBSET Task]
        BY DEF TypeOK, WorkerTypeOK
      <4>2. tasks[w] \ {t} \in SUBSET Task
        BY <4>1
      <4>3. (tasks[w] \ {t}) \cup {[t EXCEPT !.phase = "waiting"]} \in SUBSET Task
        BY <3>2, <4>1
      <4> QED
        BY <3>3, <4>1, <4>2, <4>3
    <3>6. cancelOf' \in [Worker -> [Run -> Nat]]
      <4>1. cancelOf \in [Worker -> [Run -> Nat]]
        BY DEF TypeOK, WorkerTypeOK
      <4>2. [cancelOf[w] EXCEPT ![t.run] = t.seq] \in [Run -> Nat]
        BY <3>4, <4>1
      <4>3. \/ cancelOf' = cancelOf
            \/ cancelOf' = [cancelOf EXCEPT ![w] =
                              [cancelOf[w] EXCEPT ![t.run] = t.seq]]
        BY <3>3
      <4> QED
        BY <4>1, <4>2, <4>3
    <3> QED
      BY <3>3, <3>5, <3>6 DEF TypeOK, WorkerTypeOK
  <2> QED
    BY <2>1, <2>2, <2>3 DEF TypeOK
<1>21. ASSUME NEW w \in Worker, NEW t \in tasks[w], BeginTask(w, t)
      PROVE  TypeOK'
  <2>1. RunTypeOK'
    BY <1>21 DEF BeginTask, coordVars, moved, TypeOK, RunTypeOK, runVars, Status, Reason, AggState
  <2>2. ServiceTypeOK'
    BY <1>21 DEF BeginTask, coordVars, moved, TypeOK, ServiceTypeOK, admissionVars, timerVars, registryVars, historyVars, Owner
  <2>3. WorkerTypeOK'
    <3>1. t \in Task
      BY DEF TypeOK, WorkerTypeOK
    <3>2. [t EXCEPT !.phase = "executing"] \in Task
      BY <3>1 DEF Task, Phase
    <3> QED
      BY <1>21, <3>2 DEF BeginTask, moved, TypeOK, WorkerTypeOK
  <2> QED
    BY <2>1, <2>2, <2>3 DEF TypeOK
<1>22. ASSUME NEW w \in Worker, NEW t \in tasks[w], EndTask(w, t)
      PROVE  TypeOK'
  <2>1. RunTypeOK'
    BY <1>22 DEF EndTask, coordVars, moved, enqueue, TypeOK, RunTypeOK, runVars, Status, Reason, AggState
  <2>2. ServiceTypeOK'
    BY <1>22 DEF EndTask, coordVars, moved, enqueue, TypeOK, ServiceTypeOK, admissionVars, timerVars, registryVars, historyVars, Owner
  <2>3. WorkerTypeOK'
    <3>1. t \in Task
      BY DEF TypeOK, WorkerTypeOK
    <3>2. [t EXCEPT !.phase = "finishing"] \in Task
      BY <3>1 DEF Task, Phase
    <3> DEFINE m == [kind |-> "finished", run |-> t.run]
    <3>3. m \in WMsg
      BY <3>1 DEF WMsg, Task
    <3>4. /\ tasks' = [tasks EXCEPT ![w] = (tasks[w] \ {t}) \cup
                                       {[t EXCEPT !.phase = "finishing"]}]
          /\ UNCHANGED <<link, teardown, handler, cancelOf, faults>>
      BY <1>22 DEF EndTask, moved
    <3>5. up' \in [Worker -> Seq(WMsg)]
      BY <1>22, <3>3, EnqueueType DEF EndTask
    <3> QED
      BY <3>2, <3>4, <3>5 DEF TypeOK, WorkerTypeOK
  <2> QED
    BY <2>1, <2>2, <2>3 DEF TypeOK
<1>23. ASSUME NEW w \in Worker, NEW t \in tasks[w], FinishTask(w, t)
      PROVE  TypeOK'
  <2>1. RunTypeOK'
    BY <1>23 DEF FinishTask, coordVars, TypeOK, RunTypeOK, runVars, Status, Reason, AggState
  <2>2. ServiceTypeOK'
    BY <1>23 DEF FinishTask, coordVars, TypeOK, ServiceTypeOK, admissionVars, timerVars, registryVars, historyVars, Owner
  <2>3. WorkerTypeOK'
    BY <1>23 DEF FinishTask, coordVars, TypeOK, WorkerTypeOK
  <2> QED
    BY <2>1, <2>2, <2>3 DEF TypeOK
<1>24. ASSUME NEW w \in Worker, BreakLink(w)
      PROVE  TypeOK'
  <2>1. RunTypeOK'
    BY <1>24 DEF BreakLink, broken, TypeOK, RunTypeOK, runVars, Status, Reason, AggState
  <2>2. ServiceTypeOK'
    BY <1>24 DEF BreakLink, broken, TypeOK, ServiceTypeOK, admissionVars, timerVars, registryVars, historyVars, Owner
  <2>3. WorkerTypeOK'
    <3>1. PICK rest \in suffixes(w) : up' = [up EXCEPT ![w] = rest]
      BY <1>24 DEF BreakLink
    <3>2. rest \in Seq(WMsg)
      BY SuffixType
    <3>3. /\ link' = link \ {w}
          /\ teardown' = teardown \cup {w}
          /\ faults' = faults + 1
          /\ UNCHANGED <<handler, tasks, cancelOf>>
      BY <1>24 DEF BreakLink, broken
    <3> QED
      BY <3>1, <3>2, <3>3 DEF TypeOK, WorkerTypeOK
  <2> QED
    BY <2>1, <2>2, <2>3 DEF TypeOK
<1>25. ASSUME NEW w \in Worker, CrashWorker(w)
      PROVE  TypeOK'
  <2>1. RunTypeOK'
    BY <1>25 DEF CrashWorker, broken, TypeOK, RunTypeOK, runVars, Status, Reason, AggState
  <2>2. ServiceTypeOK'
    BY <1>25 DEF CrashWorker, broken, TypeOK, ServiceTypeOK, admissionVars, timerVars, registryVars, historyVars, Owner
  <2>3. WorkerTypeOK'
    BY <1>25 DEF CrashWorker, broken, TypeOK, WorkerTypeOK
  <2> QED
    BY <2>1, <2>2, <2>3 DEF TypeOK
<1>26. ASSUME RestartCoordinator
      PROVE  TypeOK'
  <2>1. RunTypeOK'
    BY <1>26 DEF RestartCoordinator, CoordinatorReset, TypeOK, RunTypeOK, runVars, Status, Reason, AggState
  <2>2. ServiceTypeOK'
    <3>1. /\ queue' = <<>>
          /\ running' = 0
          /\ draining' = FALSE
          /\ orphaned' = {}
          /\ busy' = {}
          /\ UNCHANGED historyVars
      BY <1>26 DEF RestartCoordinator, CoordinatorReset
    <3>2. /\ stopping' = [r \in Run |-> 0]
          /\ stopTimers' = [r \in Run |-> 0]
          /\ owner' = [w \in Worker |-> "none"]
          /\ send' = [w \in Worker |-> <<>>]
      BY <1>26 DEF RestartCoordinator, CoordinatorReset
    <3>3. /\ stopping' \in [Run -> Nat]
          /\ stopTimers' \in [Run -> Nat]
          /\ owner' \in [Worker -> Owner]
          /\ send' \in [Worker -> Seq(Msg)]
      BY <3>2 DEF Owner
    <3>4. /\ dispatches' \in [Run -> Nat]
          /\ stopAsked' \subseteq Run
          /\ stopCalls' \in [Run -> Nat]
      BY <3>1 DEF TypeOK, ServiceTypeOK, historyVars
    <3>5. /\ queue' \in Seq(Run)
          /\ running' \in Nat
          /\ orphaned' \subseteq Run
          /\ busy' \subseteq Worker
      BY <3>1
    <3>6. draining' \in BOOLEAN
      BY <3>1
    <3> QED
      BY <3>3, <3>4, <3>5, <3>6 DEF ServiceTypeOK
  <2>3. WorkerTypeOK'
    <3>1. /\ link' = {} /\ teardown' = {}
          /\ handler' = [w \in Worker |-> Idle]
          /\ faults' = faults + 1
          /\ UNCHANGED <<tasks, cancelOf>>
      BY <1>26 DEF RestartCoordinator
    <3>2. /\ up' \in [Worker -> UNION {suffixes(w) : w \in Worker}]
          /\ \A w \in Worker : up'[w] \in suffixes(w)
      BY <1>26 DEF RestartCoordinator
    <3>3. up' \in [Worker -> Seq(WMsg)]
      BY <3>2, SuffixType
    <3>4. handler' \in [Worker -> Handler]
      BY <3>1 DEF Idle, Handler
    <3> QED
      BY <3>1, <3>3, <3>4 DEF TypeOK, WorkerTypeOK
  <2> QED
    BY <2>1, <2>2, <2>3 DEF TypeOK
<1>27. CASE UNCHANGED vars
  BY <1>27 DEF vars, coordVars, workerVars, runVars, admissionVars, timerVars,
     registryVars, historyVars, TypeOK, RunTypeOK, ServiceTypeOK, WorkerTypeOK
<1> QED
  BY <1>1, <1>2, <1>3, <1>4, <1>5, <1>6, <1>7, <1>8, <1>9, <1>10, <1>11, <1>12, <1>13, <1>14, <1>15, <1>16, <1>17, <1>18, <1>19, <1>20, <1>21, <1>22, <1>23, <1>24, <1>25, <1>26, <1>27 DEF Next, LifetimeNext,
     CoordinatorStep, StreamStep, AgentStep, AgentWork

-----------------------------------------------------------------------------
(* The admission counter, across restarts                                  *)

\* Adding at most one element, or removing one, moves a cardinality with the
\* counter.
LEMMA SlotsFinite ==
    ASSUME TypeOK
    PROVE  IsFiniteSet(slotHeld) /\ Cardinality(slotHeld) \in Nat
BY RunAssumption, FS_Subset, FS_CardinalityType DEF TypeOK, RunTypeOK

\* What dispatchLocked does to the slots and to the counter.
LEMMA DispatchSlots ==
    ASSUME TypeOK, NEW r \in Run, dispatchLocked(r)
    PROVE  /\ running' = running + 1
           /\ slotHeld' = slotHeld \cup {r}
           /\ Cardinality(slotHeld') =
                IF r \in slotHeld THEN Cardinality(slotHeld)
                                  ELSE Cardinality(slotHeld) + 1
<1>1. running' = running + 1 /\ slotHeld' = slotHeld \cup {r}
  BY DEF dispatchLocked, dispatched
<1> QED
  BY <1>1, SlotsFinite, FS_AddElement

\* What finalizeLocked does to the slots and to the counter.
LEMMA FinalizeSlots ==
    ASSUME TypeOK, NEW r \in Run, NEW v, finalizeLocked(r, v)
    PROVE  /\ running' = IF r \in slotHeld THEN running - 1 ELSE running
           /\ slotHeld' = slotHeld \ {r}
           /\ Cardinality(slotHeld') =
                IF r \in slotHeld THEN Cardinality(slotHeld) - 1
                                  ELSE Cardinality(slotHeld)
<1>1. /\ running' = IF r \in slotHeld THEN running - 1 ELSE running
      /\ slotHeld' = slotHeld \ {r}
  BY DEF finalizeLocked
<1> QED
  BY <1>1, SlotsFinite, FS_RemoveElement

\* What rehydrate does to the slots and to the counter.
LEMMA RehydrateSlots ==
    ASSUME TypeOK, NEW w \in Worker, NEW active \in SUBSET Run,
           Rehydrate(w, active)
    PROVE  /\ running' = running + Cardinality(unknown(active))
           /\ slotHeld' = slotHeld \cup unknown(active)
           /\ Cardinality(slotHeld') <=
                Cardinality(slotHeld) + Cardinality(unknown(active))
           /\ Cardinality(slotHeld') \in Nat
           /\ Cardinality(unknown(active)) \in Nat
<1>1. /\ running' = running + Cardinality(unknown(active))
      /\ slotHeld' = slotHeld \cup unknown(active)
  BY DEF Rehydrate
<1>2. IsFiniteSet(unknown(active))
  BY RunAssumption, FS_Subset DEF unknown
<1>3. IsFiniteSet(slotHeld)
  BY SlotsFinite
<1>4. /\ IsFiniteSet(slotHeld \cup unknown(active))
      /\ Cardinality(slotHeld \cup unknown(active)) =
           Cardinality(slotHeld) + Cardinality(unknown(active))
             - Cardinality(slotHeld \cap unknown(active))
  BY <1>2, <1>3, FS_Union
<1>5. Cardinality(slotHeld \cap unknown(active)) \in Nat
  BY <1>3, FS_Intersection, FS_CardinalityType
<1>6. /\ Cardinality(slotHeld) \in Nat
      /\ Cardinality(unknown(active)) \in Nat
      /\ Cardinality(slotHeld \cup unknown(active)) \in Nat
  BY <1>2, <1>3, <1>4, FS_CardinalityType
<1> QED
  BY <1>1, <1>4, <1>5, <1>6

\* A step changes the slots and the counter in one of four ways.
SlotStep ==
    \/ UNCHANGED <<running, slotHeld>>
    \/ \E r \in Run : dispatchLocked(r)
    \/ \E r \in Run : finalizeLocked(r, "completed") \/ finalizeLocked(r, "aborted")
    \/ \E w \in Worker : \E active \in SUBSET Run : Rehydrate(w, active)

\* Every step of a coordinator's lifetime is one of them.
LEMMA EveryStepIsSlotStep ==
    ASSUME TypeOK, [LifetimeNext]_vars
    PROVE  SlotStep
<1>1. ASSUME NEW r \in Run, StartRun(r) PROVE SlotStep
  BY <1>1 DEF StartRun, SlotStep
<1>2. ASSUME NEW r \in Run, StopRun(r) PROVE SlotStep
  BY <1>2 DEF StopRun, admissionVars, SlotStep
<1>3. ASSUME NEW r \in Run, SignalStop(r) PROVE SlotStep
  BY <1>3 DEF SignalStop, runVars, admissionVars, SlotStep
<1>4. ASSUME NEW r \in Run, AutoStopRun(r) PROVE SlotStep
  BY <1>4 DEF AutoStopRun, admissionVars, SlotStep
<1>5. ASSUME NEW r \in Run, StopTimeout(r) PROVE SlotStep
  BY <1>5 DEF StopTimeout, forceFinalize, SlotStep
<1>6. ASSUME NEW r \in Run, ReapFinalize(r) PROVE SlotStep
  BY <1>6 DEF ReapFinalize, forceFinalize, SlotStep
<1>7. ASSUME NEW r \in Run, AggregatorExit(r) PROVE SlotStep
  BY <1>7 DEF AggregatorExit, admissionVars, SlotStep
<1>8. ASSUME DrainDispatch PROVE SlotStep
  <2>1. Head(queue) \in Run
    BY <1>8 DEF DrainDispatch, TypeOK, ServiceTypeOK
  <2> QED
    BY <1>8, <2>1 DEF DrainDispatch, SlotStep
<1>9. ASSUME DrainExit PROVE SlotStep
  BY <1>9 DEF DrainExit, runVars, SlotStep
<1>10. ASSUME NEW late \in SUBSET lost, ReapScan(late) PROVE SlotStep
  BY <1>10 DEF ReapScan, admissionVars, SlotStep
<1>11. ASSUME NEW w \in Worker, Touch(w) PROVE SlotStep
  BY <1>11 DEF Touch, runVars, admissionVars, SlotStep
<1>12. ASSUME NEW w \in Worker, RegisterAdd(w) PROVE SlotStep
  BY <1>12 DEF RegisterAdd, Add, runVars, admissionVars, SlotStep
<1>13. ASSUME NEW w \in Worker, RegisterRehydrate(w) PROVE SlotStep
  <2>1. handler[w].active \in SUBSET Run
    BY DEF TypeOK, WorkerTypeOK, Handler
  <2> QED
    BY <1>13, <2>1 DEF RegisterRehydrate, SlotStep
<1>14. ASSUME NEW w \in Worker, RegisterDrain(w) PROVE SlotStep
  BY <1>14 DEF RegisterDrain, BeginDrain, runVars, SlotStep
<1>15. ASSUME NEW w \in Worker, ReceiveFinished(w) PROVE SlotStep
  <2>1. Head(up[w]).run \in Run
    BY <1>15, ArrivedType DEF ReceiveFinished, arrived
  <2> QED
    BY <1>15, <2>1 DEF ReceiveFinished, WorkerFinished, SlotStep
<1>16. ASSUME NEW w \in Worker, Teardown(w) PROVE SlotStep
  BY <1>16 DEF Teardown, Remove, runVars, admissionVars, SlotStep
<1>17. ASSUME NEW w \in Worker, Connect(w) PROVE SlotStep
  BY <1>17 DEF Connect, coordVars, runVars, admissionVars, SlotStep
<1>18. ASSUME NEW w \in Worker, ReceiveAssignment(w) PROVE SlotStep
  BY <1>18 DEF ReceiveAssignment, runVars, admissionVars, SlotStep
<1>19. ASSUME NEW w \in Worker, ReceiveStop(w) PROVE SlotStep
  BY <1>19 DEF ReceiveStop, runVars, admissionVars, SlotStep
<1>20. ASSUME NEW w \in Worker, NEW t \in tasks[w],
             StartTask(w, t) \/ BeginTask(w, t) \/ EndTask(w, t) \/ FinishTask(w, t)
      PROVE  SlotStep
  BY <1>20 DEF StartTask, BeginTask, EndTask, FinishTask, coordVars, runVars,
     admissionVars, SlotStep
<1>21. ASSUME NEW w \in Worker, BreakLink(w) \/ CrashWorker(w) PROVE SlotStep
  BY <1>21 DEF BreakLink, CrashWorker, runVars, admissionVars, SlotStep
<1>22. CASE UNCHANGED vars
  BY <1>22 DEF vars, coordVars, runVars, admissionVars, SlotStep
<1> QED
  BY <1>1, <1>2, <1>3, <1>4, <1>5, <1>6, <1>7, <1>8, <1>9, <1>10, <1>11, <1>12, <1>13, <1>14, <1>15, <1>16, <1>17, <1>18, <1>19, <1>20, <1>21, <1>22
     DEF LifetimeNext, CoordinatorStep, StreamStep, AgentStep, AgentWork

\* The counter never falls below the slots that are held, restarts included.
LEMMA NoUnderflowStep ==
    ASSUME TypeOK, NoUnderflow, [Next]_vars
    PROVE  NoUnderflow'
<1> DEFINE held == Cardinality(slotHeld)
<1>0. running \in Nat /\ held \in Nat /\ running >= held
  BY SlotsFinite DEF NoUnderflow, TypeOK, ServiceTypeOK
<1>1. CASE SlotStep
  <2>1. CASE UNCHANGED <<running, slotHeld>>
    BY <2>1 DEF NoUnderflow
  <2>2. ASSUME NEW r \in Run, dispatchLocked(r) PROVE NoUnderflow'
    <3>1. running' = running + 1 /\ held' \in {held, held + 1}
      BY <2>2, DispatchSlots
    <3>2. running' >= held'
      BY <1>0, <3>1
    <3> QED
      BY <3>2 DEF NoUnderflow
  <2>3. ASSUME NEW r \in Run, NEW v, finalizeLocked(r, v) PROVE NoUnderflow'
    <3>1. \/ running' = running - 1 /\ held' = held - 1
          \/ running' = running /\ held' = held
      BY <2>3, FinalizeSlots
    <3>2. running' >= held'
      BY <1>0, <3>1
    <3> QED
      BY <3>2 DEF NoUnderflow
  <2>4. ASSUME NEW w \in Worker, NEW active \in SUBSET Run, Rehydrate(w, active)
        PROVE  NoUnderflow'
    <3> DEFINE adopted == Cardinality(unknown(active))
    <3>1. /\ running' = running + adopted
          /\ held' <= held + adopted
          /\ held' \in Nat
          /\ adopted \in Nat
      BY <2>4, RehydrateSlots
    <3> HIDE DEF adopted
    <3>2. running' >= held'
      BY <1>0, <3>1
    <3> QED
      BY <3>2 DEF NoUnderflow
  <2> QED
    BY <1>1, <2>1, <2>2, <2>3, <2>4 DEF SlotStep
<1>2. CASE RestartCoordinator
  <2>1. running' = 0 /\ slotHeld' = {}
    BY <1>2 DEF RestartCoordinator, CoordinatorReset
  <2> QED
    BY <2>1, FS_EmptySet DEF NoUnderflow
<1> QED
  BY <1>1, <1>2, EveryStepIsSlotStep DEF Next

\* The initial state is typed, with nothing held and nothing counted.
LEMMA InitType ==
    ASSUME ClusterInit
    PROVE  TypeOK /\ NoUnderflow
<1>1. RunTypeOK
  <2>1. /\ status = [r \in Run |-> "none"]
        /\ reason = [r \in Run |-> ""]
        /\ assigned = [r \in Run |-> {}]
        /\ finished = [r \in Run |-> {}]
        /\ agg = [r \in Run |-> "none"]
    BY DEF ClusterInit, Init
  <2>2. ended = {} /\ slotHeld = {} /\ lost = {} /\ armed = {} /\ fired = {}
    BY DEF ClusterInit, Init
  <2> QED
    BY <2>1, <2>2 DEF RunTypeOK, Status, Reason, AggState
<1>2. ServiceTypeOK
  <2>1. /\ queue = <<>> /\ running = 0
        /\ orphaned = {} /\ busy = {} /\ stopAsked = {}
    BY DEF ClusterInit, Init
  <2>2. /\ stopping = [r \in Run |-> 0]
        /\ stopTimers = [r \in Run |-> 0]
        /\ dispatches = [r \in Run |-> 0]
        /\ stopCalls = [r \in Run |-> 0]
        /\ owner = [w \in Worker |-> "none"]
        /\ send = [w \in Worker |-> <<>>]
    BY DEF ClusterInit, Init
  <2>3. draining \in BOOLEAN
    BY DEF ClusterInit, Init
  <2> QED
    BY <2>1, <2>2, <2>3 DEF ServiceTypeOK, Owner
<1>3. WorkerTypeOK
  <2>1. /\ link = {} /\ teardown = {} /\ faults = 0
        /\ up = [w \in Worker |-> <<>>]
        /\ handler = [w \in Worker |-> Idle]
        /\ tasks = [w \in Worker |-> {}]
        /\ cancelOf = [w \in Worker |-> [r \in Run |-> 0]]
    BY DEF ClusterInit
  <2> QED
    BY <2>1 DEF WorkerTypeOK, Handler, Idle
<1>4. NoUnderflow
  <2>1. running = 0 /\ slotHeld = {}
    BY DEF ClusterInit, Init
  <2> QED
    BY <2>1, FS_EmptySet DEF NoUnderflow
<1> QED
  BY <1>1, <1>2, <1>3, <1>4 DEF TypeOK

\* Coordinator and workers stay within their types through any interleaving,
\* breaks, crashes and coordinator restarts included.
THEOREM TypeCorrect == Spec => []TypeOK
<1>1. ClusterInit => TypeOK /\ NoUnderflow
  BY InitType
<1>2. TypeOK /\ NoUnderflow /\ [Next]_vars => (TypeOK /\ NoUnderflow)'
  BY TypeStep, NoUnderflowStep
<1> QED
  BY <1>1, <1>2, PTL DEF Spec

\* The admission counter cannot underflow: it is never below the number of
\* runs that hold a slot, whatever a restart makes the coordinator forget and
\* rehydrate.
THEOREM CounterNeverUnderflows == Spec => []NoUnderflow
<1>1. ClusterInit => TypeOK /\ NoUnderflow
  BY InitType
<1>2. TypeOK /\ NoUnderflow /\ [Next]_vars => (TypeOK /\ NoUnderflow)'
  BY TypeStep, NoUnderflowStep
<1> QED
  BY <1>1, <1>2, PTL DEF Spec

-----------------------------------------------------------------------------
(* One lifetime of the coordinator                                         *)
(*                                                                         *)
(* Between two restarts the coordinator's bookkeeping is exact.  The       *)
(* invariant that carries the argument is AggregatorForEveryRun: whatever  *)
(* a worker can report is a run that was dispatched in this lifetime, so   *)
(* rehydrate never takes up a run and workerFinished never meets a queued  *)
(* one.                                                                    *)

\* The inductive invariant of a lifetime.
LifetimeInv ==
    /\ TypeOK
    /\ NoUnderflow
    /\ StatusMatchesAggregator
    /\ AggregatorForEveryRun
    /\ SlotsAreLiveRuns
    /\ QueueConsistent
    /\ SlotAccounting
    /\ AdmissionBound

QuietStep == UNCHANGED <<status, agg, ended, slotHeld, queue, running>>

QueueStep(r) ==
    /\ status[r] = "none"
    /\ queue' = Append(queue, r)
    /\ status' = [status EXCEPT ![r] = "queued"]
    /\ UNCHANGED <<agg, ended, slotHeld, running>>

DispatchStep(r) ==
    /\ running < MaxRuns
    /\ status' = [status EXCEPT ![r] = "running"]
    /\ agg' = [agg EXCEPT ![r] = "live"]
    /\ ended' = ended \ {r}
    /\ slotHeld' = slotHeld \cup {r}
    /\ running' = running + 1
    /\ \/ status[r] = "none" /\ queue' = queue
       \/ queue # <<>> /\ r = Head(queue) /\ queue' = Tail(queue)

FinalizeStep(r) ==
    /\ agg[r] # "none" /\ r \notin ended
    /\ \E v \in {"completed", "aborted"} : finalizeLocked(r, v)
    /\ UNCHANGED queue

AbortStep(r) ==
    /\ agg[r] # "none"
    /\ status' = [status EXCEPT ![r] = "aborted"]
    /\ UNCHANGED <<agg, ended, slotHeld, queue, running>>

CloseStep(r) ==
    /\ agg[r] = "closing"
    /\ agg' = [agg EXCEPT ![r] = "closed"]
    /\ UNCHANGED <<status, ended, slotHeld, queue, running>>

\* What a step of a lifetime may do to the run states, the queue and the
\* counter.
RunStep ==
    \/ QuietStep
    \/ \E r \in Run : \/ QueueStep(r) \/ DispatchStep(r) \/ FinalizeStep(r)
                      \/ AbortStep(r) \/ CloseStep(r)

\* The fields dispatchLocked writes.
LEMMA DispatchEffect ==
    ASSUME NEW r \in Run, dispatchLocked(r)
    PROVE  /\ status' = [status EXCEPT ![r] = "running"]
           /\ agg' = [agg EXCEPT ![r] = "live"]
           /\ ended' = ended \ {r}
           /\ slotHeld' = slotHeld \cup {r}
           /\ running' = running + 1
BY DEF dispatchLocked, dispatched

\* forceFinalize either ends a dispatched run or changes nothing here.
LEMMA ForceFinalizeEffect ==
    ASSUME SlotsAreLiveRuns, NEW r \in Run, NEW d, forceFinalize(r, d),
           queue' = queue
    PROVE  FinalizeStep(r) \/ QuietStep
<1>1. CASE r \in slotHeld \ ended
  BY <1>1 DEF forceFinalize, SlotsAreLiveRuns, FinalizeStep
<1>2. CASE r \notin slotHeld \ ended
  BY <1>2 DEF forceFinalize, QuietStep
<1> QED
  BY <1>1, <1>2

\* A rehydrate of runs that all have an aggregator takes up none of them.
LEMMA RehydrateIsQuiet ==
    ASSUME TypeOK, NEW w \in Worker, NEW active \in SUBSET Run,
           \A r \in active : agg[r] # "none",
           Rehydrate(w, active)
    PROVE  QuietStep
<1>1. unknown(active) = {}
  BY DEF unknown
<1>2. /\ status' = [r \in Run |-> status[r]]
      /\ agg' = [r \in Run |-> agg[r]]
      /\ ended' = ended
      /\ slotHeld' = slotHeld
      /\ running' = running + Cardinality({})
      /\ queue' = queue
  BY <1>1 DEF Rehydrate
<1>3. running' = running
  BY <1>2, FS_EmptySet DEF TypeOK, ServiceTypeOK
<1>4. status' = status /\ agg' = agg
  BY <1>2 DEF TypeOK, RunTypeOK
<1> QED
  BY <1>2, <1>3, <1>4 DEF QuietStep

\* Every step of a lifetime is a RunStep.
LEMMA EveryStepIsRunStep ==
    ASSUME LifetimeInv, [LifetimeNext]_vars
    PROVE  RunStep
<1>0. TypeOK /\ StatusMatchesAggregator /\ AggregatorForEveryRun /\ SlotsAreLiveRuns
  BY DEF LifetimeInv
<1>1. ASSUME NEW r \in Run, StartRun(r) PROVE RunStep
  <2>1. CASE canDispatch
    BY <1>1, <2>1, DispatchEffect DEF StartRun, canDispatch, DispatchStep, RunStep
  <2>2. CASE ~canDispatch
    BY <1>1, <2>2 DEF StartRun, QueueStep, RunStep
  <2> QED
    BY <2>1, <2>2
<1>2. ASSUME NEW r \in Run, StopRun(r) PROVE RunStep
  <2>1. CASE status[r] = "running"
    BY <1>0, <1>2, <2>1 DEF StopRun, admissionVars, StatusMatchesAggregator,
       AbortStep, RunStep
  <2>2. CASE status[r] # "running"
    BY <1>2, <2>2 DEF StopRun, admissionVars, QuietStep, RunStep
  <2> QED
    BY <2>1, <2>2
<1>3. ASSUME NEW r \in Run, SignalStop(r) PROVE RunStep
  BY <1>3 DEF SignalStop, runVars, admissionVars, QuietStep, RunStep
<1>4. ASSUME NEW r \in Run, AutoStopRun(r) PROVE RunStep
  BY <1>4 DEF AutoStopRun, admissionVars, AbortStep, RunStep
<1>5. ASSUME NEW r \in Run, StopTimeout(r) PROVE RunStep
  BY <1>0, <1>5, ForceFinalizeEffect DEF StopTimeout, RunStep
<1>6. ASSUME NEW r \in Run, ReapFinalize(r) PROVE RunStep
  BY <1>0, <1>6, ForceFinalizeEffect DEF ReapFinalize, RunStep
<1>7. ASSUME NEW r \in Run, AggregatorExit(r) PROVE RunStep
  BY <1>7 DEF AggregatorExit, admissionVars, CloseStep, RunStep
<1>8. ASSUME DrainDispatch PROVE RunStep
  <2>1. Head(queue) \in Run
    BY <1>0, <1>8 DEF DrainDispatch, TypeOK, ServiceTypeOK
  <2>2. DispatchStep(Head(queue))
    BY <1>8, <2>1, DispatchEffect DEF DrainDispatch, DispatchStep
  <2> QED
    BY <2>1, <2>2 DEF RunStep
<1>9. ASSUME DrainExit PROVE RunStep
  BY <1>9 DEF DrainExit, runVars, QuietStep, RunStep
<1>10. ASSUME NEW late \in SUBSET lost, ReapScan(late) PROVE RunStep
  BY <1>10 DEF ReapScan, admissionVars, QuietStep, RunStep
<1>11. ASSUME NEW w \in Worker, Touch(w) PROVE RunStep
  BY <1>11 DEF Touch, runVars, admissionVars, QuietStep, RunStep
<1>12. ASSUME NEW w \in Worker, RegisterAdd(w) PROVE RunStep
  BY <1>12 DEF RegisterAdd, Add, runVars, admissionVars, QuietStep, RunStep
<1>13. ASSUME NEW w \in Worker, RegisterRehydrate(w) PROVE RunStep
  <2>1. handler[w].active \in SUBSET Run
    BY <1>0 DEF TypeOK, WorkerTypeOK, Handler
  <2>2. \A r \in handler[w].active : agg[r] # "none"
    BY <1>0 DEF AggregatorForEveryRun
  <2>3. QuietStep
    BY <1>0, <1>13, <2>1, <2>2, RehydrateIsQuiet DEF RegisterRehydrate
  <2> QED
    BY <2>3 DEF RunStep
<1>14. ASSUME NEW w \in Worker, RegisterDrain(w) PROVE RunStep
  BY <1>14 DEF RegisterDrain, BeginDrain, runVars, QuietStep, RunStep
<1>15. ASSUME NEW w \in Worker, ReceiveFinished(w) PROVE RunStep
  <2> DEFINE r == Head(up[w]).run
  <2>1. /\ up[w] # <<>> /\ Head(up[w]).kind = "finished"
        /\ WorkerFinished(w, r)
    BY <1>15 DEF ReceiveFinished, arrived
  <2>2. r \in Run
    BY <1>0, <2>1, ArrivedType
  <2>3. agg[r] # "none"
    <3>1. up[w] \in Seq(WMsg)
      BY <1>0 DEF TypeOK, WorkerTypeOK
    <3>2. 1 \in 1..Len(up[w]) /\ Head(up[w]) = up[w][1]
      BY <2>1, <3>1
    <3> QED
      BY <1>0, <2>1, <3>2 DEF AggregatorForEveryRun
  <2> HIDE DEF r
  <2>4. FinalizeStep(r) \/ QuietStep
    BY <2>1, <2>3 DEF WorkerFinished, FinalizeStep, QuietStep
  <2> QED
    BY <2>2, <2>4 DEF RunStep
<1>16. ASSUME NEW w \in Worker, Teardown(w) PROVE RunStep
  BY <1>16 DEF Teardown, Remove, runVars, admissionVars, QuietStep, RunStep
<1>17. ASSUME NEW w \in Worker, Connect(w) PROVE RunStep
  BY <1>17 DEF Connect, coordVars, runVars, admissionVars, QuietStep, RunStep
<1>18. ASSUME NEW w \in Worker, ReceiveAssignment(w) \/ ReceiveStop(w)
       PROVE  RunStep
  BY <1>18 DEF ReceiveAssignment, ReceiveStop, runVars, admissionVars, QuietStep,
     RunStep
<1>19. ASSUME NEW w \in Worker, NEW t \in tasks[w],
              StartTask(w, t) \/ BeginTask(w, t) \/ EndTask(w, t) \/ FinishTask(w, t)
       PROVE  RunStep
  BY <1>19 DEF StartTask, BeginTask, EndTask, FinishTask, coordVars, runVars,
     admissionVars, QuietStep, RunStep
<1>20. ASSUME NEW w \in Worker, BreakLink(w) \/ CrashWorker(w) PROVE RunStep
  BY <1>20 DEF BreakLink, CrashWorker, runVars, admissionVars, QuietStep, RunStep
<1>21. CASE UNCHANGED vars
  BY <1>21 DEF vars, coordVars, runVars, admissionVars, QuietStep, RunStep
<1> QED
  BY <1>1, <1>2, <1>3, <1>4, <1>5, <1>6, <1>7, <1>8, <1>9, <1>10, <1>11, <1>12,
     <1>13, <1>14, <1>15, <1>16, <1>17, <1>18, <1>19, <1>20, <1>21
     DEF LifetimeNext, CoordinatorStep, StreamStep, AgentStep, AgentWork

\* A dispatched run was not dispatched before: it was new, or at the head of
\* the queue.
LEMMA DispatchIsFirst ==
    ASSUME LifetimeInv, NEW r \in Run, DispatchStep(r)
    PROVE  agg[r] = "none" /\ r \notin slotHeld /\ r \notin ended
<1>1. status[r] \in {"none", "queued"}
  <2>1. CASE status[r] = "none"
    BY <2>1
  <2>2. CASE queue # <<>> /\ r = Head(queue)
    <3>1. queue \in Seq(Run)
      BY DEF LifetimeInv, TypeOK, ServiceTypeOK
    <3>2. 1 \in 1..Len(queue) /\ r = queue[1]
      BY <2>2, <3>1
    <3> QED
      BY <3>2 DEF LifetimeInv, QueueConsistent
  <2> QED
    BY <2>1, <2>2 DEF DispatchStep
<1> QED
  BY <1>1 DEF LifetimeInv, StatusMatchesAggregator, SlotsAreLiveRuns

\* Status, aggregator and end of a run stay in step.
LEMMA StatusStep ==
    ASSUME LifetimeInv, RunStep
    PROVE  StatusMatchesAggregator'
<1>0. /\ StatusMatchesAggregator
      /\ status \in [Run -> Status] /\ agg \in [Run -> AggState]
  BY DEF LifetimeInv, TypeOK, RunTypeOK
<1>1. CASE QuietStep
  BY <1>0, <1>1 DEF QuietStep, StatusMatchesAggregator
<1>2. ASSUME NEW r \in Run, QueueStep(r) PROVE StatusMatchesAggregator'
  BY <1>0, <1>2 DEF QueueStep, StatusMatchesAggregator
<1>3. ASSUME NEW r \in Run, DispatchStep(r) PROVE StatusMatchesAggregator'
  BY <1>0, <1>3 DEF DispatchStep, StatusMatchesAggregator
<1>4. ASSUME NEW r \in Run, FinalizeStep(r) PROVE StatusMatchesAggregator'
  BY <1>0, <1>4 DEF FinalizeStep, finalizeLocked, StatusMatchesAggregator, Status
<1>5. ASSUME NEW r \in Run, AbortStep(r) PROVE StatusMatchesAggregator'
  BY <1>0, <1>5 DEF AbortStep, StatusMatchesAggregator
<1>6. ASSUME NEW r \in Run, CloseStep(r) PROVE StatusMatchesAggregator'
  BY <1>0, <1>6 DEF CloseStep, StatusMatchesAggregator
<1> QED
  BY <1>1, <1>2, <1>3, <1>4, <1>5, <1>6 DEF RunStep

\* The slots held are those of the dispatched runs that have not ended.
LEMMA SlotsStep ==
    ASSUME LifetimeInv, RunStep
    PROVE  SlotsAreLiveRuns'
<1>0. /\ SlotsAreLiveRuns
      /\ agg \in [Run -> AggState] /\ ended \subseteq Run /\ slotHeld \subseteq Run
  BY DEF LifetimeInv, TypeOK, RunTypeOK
<1>1. CASE QuietStep
  BY <1>0, <1>1 DEF QuietStep, SlotsAreLiveRuns
<1>2. ASSUME NEW r \in Run, QueueStep(r) PROVE SlotsAreLiveRuns'
  BY <1>0, <1>2 DEF QueueStep, SlotsAreLiveRuns
<1>3. ASSUME NEW r \in Run, DispatchStep(r) PROVE SlotsAreLiveRuns'
  BY <1>0, <1>3 DEF DispatchStep, SlotsAreLiveRuns
<1>4. ASSUME NEW r \in Run, FinalizeStep(r) PROVE SlotsAreLiveRuns'
  BY <1>0, <1>4 DEF FinalizeStep, finalizeLocked, SlotsAreLiveRuns
<1>5. ASSUME NEW r \in Run, AbortStep(r) PROVE SlotsAreLiveRuns'
  BY <1>0, <1>5 DEF AbortStep, SlotsAreLiveRuns
<1>6. ASSUME NEW r \in Run, CloseStep(r) PROVE SlotsAreLiveRuns'
  BY <1>0, <1>6 DEF CloseStep, SlotsAreLiveRuns
<1> QED
  BY <1>1, <1>2, <1>3, <1>4, <1>5, <1>6 DEF RunStep

\* The counter is the number of slots held.
LEMMA AccountingStep ==
    ASSUME LifetimeInv, RunStep
    PROVE  SlotAccounting'
<1> DEFINE held == Cardinality(slotHeld)
<1>0. TypeOK /\ running = held /\ running \in Nat /\ IsFiniteSet(slotHeld)
  BY SlotsFinite DEF LifetimeInv, SlotAccounting, TypeOK, ServiceTypeOK
<1>1. CASE UNCHANGED <<running, slotHeld>>
  BY <1>0, <1>1 DEF SlotAccounting
<1>2. ASSUME NEW r \in Run, DispatchStep(r) PROVE SlotAccounting'
  <2>1. r \notin slotHeld
    BY <1>2, DispatchIsFirst
  <2>2. running' = running + 1 /\ slotHeld' = slotHeld \cup {r}
    BY <1>2 DEF DispatchStep
  <2>3. held' = held + 1
    BY <1>0, <2>1, <2>2, FS_AddElement
  <2> QED
    BY <1>0, <2>2, <2>3 DEF SlotAccounting
<1>3. ASSUME NEW r \in Run, FinalizeStep(r) PROVE SlotAccounting'
  <2>1. PICK v : finalizeLocked(r, v)
    BY <1>3 DEF FinalizeStep
  <2>2. \/ running' = running - 1 /\ held' = held - 1
        \/ running' = running /\ held' = held
    BY <1>0, <2>1, FinalizeSlots
  <2> QED
    BY <1>0, <2>2 DEF SlotAccounting
<1> QED
  BY <1>1, <1>2, <1>3 DEF RunStep, QuietStep, QueueStep, AbortStep, CloseStep

\* Only a dispatch adds to the counter, and only below the limit.
LEMMA BoundStep ==
    ASSUME LifetimeInv, RunStep
    PROVE  AdmissionBound'
<1>0. TypeOK /\ running <= MaxRuns /\ running \in Nat /\ MaxRuns \in Nat
  BY MaxRunsAssumption DEF LifetimeInv, AdmissionBound, TypeOK, ServiceTypeOK
<1>1. CASE UNCHANGED running
  BY <1>0, <1>1 DEF AdmissionBound
<1>2. ASSUME NEW r \in Run, DispatchStep(r) PROVE AdmissionBound'
  BY <1>0, <1>2 DEF DispatchStep, AdmissionBound
<1>3. ASSUME NEW r \in Run, FinalizeStep(r) PROVE AdmissionBound'
  <2>1. PICK v : finalizeLocked(r, v)
    BY <1>3 DEF FinalizeStep
  <2>2. running' = running - 1 \/ running' = running
    BY <1>0, <2>1, FinalizeSlots
  <2> QED
    BY <1>0, <2>2 DEF AdmissionBound
<1> QED
  BY <1>1, <1>2, <1>3 DEF RunStep, QuietStep, QueueStep, AbortStep, CloseStep

\* The queue holds the QUEUED runs, each once.
LEMMA QueueStepKeepsQueue ==
    ASSUME LifetimeInv, RunStep
    PROVE  QueueConsistent'
<1>0. /\ queue \in Seq(Run) /\ status \in [Run -> Status]
      /\ \A i \in 1..Len(queue) : status[queue[i]] = "queued"
      /\ \A r \in Run : status[r] = "queued" => \E i \in 1..Len(queue) : queue[i] = r
      /\ \A i, j \in 1..Len(queue) : queue[i] = queue[j] => i = j
  <2>1. queue \in Seq(Run) /\ status \in [Run -> Status]
    BY DEF LifetimeInv, TypeOK, RunTypeOK, ServiceTypeOK
  <2>2. QueueConsistent
    BY DEF LifetimeInv
  <2> QED
    BY <2>1, <2>2 DEF QueueConsistent
<1>1. CASE UNCHANGED queue /\ \A r \in Run : status[r] = "queued" <=> status'[r] = "queued"
  BY <1>0, <1>1 DEF QueueConsistent
<1>2. ASSUME NEW r \in Run, QueueStep(r) PROVE QueueConsistent'
  <2>1. /\ queue' = Append(queue, r)
        /\ status' = [status EXCEPT ![r] = "queued"]
        /\ status[r] = "none"
    BY <1>2 DEF QueueStep
  <2>2. /\ Len(queue') = Len(queue) + 1 /\ Len(queue) \in Nat
        /\ \A i \in 1..Len(queue) : queue'[i] = queue[i]
        /\ queue'[Len(queue) + 1] = r
    BY <1>0, <2>1
  <2>3. \A i, j \in 1..Len(queue') : queue'[i] = queue'[j] => i = j
    BY <1>0, <2>1, <2>2
  <2>4. \A i \in 1..Len(queue') : queue'[i] \in Run /\ status'[queue'[i]] = "queued"
    BY <1>0, <2>1, <2>2
  <2>5. ASSUME NEW x \in Run, status'[x] = "queued"
        PROVE  \E i \in 1..Len(queue') : queue'[i] = x
    <3>1. CASE x = r
      BY <2>2, <3>1
    <3>2. CASE x # r
      <4>1. status[x] = "queued"
        BY <1>0, <2>1, <2>5, <3>2
      <4>2. PICK i \in 1..Len(queue) : queue[i] = x
        BY <1>0, <4>1
      <4> QED
        BY <2>2, <4>2
    <3> QED
      BY <3>1, <3>2
  <2> QED
    BY <2>3, <2>4, <2>5 DEF QueueConsistent
<1>3. ASSUME NEW r \in Run, DispatchStep(r) PROVE QueueConsistent'
  <2>1. status' = [status EXCEPT ![r] = "running"]
    BY <1>3 DEF DispatchStep
  <2>2. CASE status[r] = "none" /\ queue' = queue
    BY <1>0, <1>1, <2>1, <2>2
  <2>3. CASE queue # <<>> /\ r = Head(queue) /\ queue' = Tail(queue)
    <3>1. /\ Len(queue') = Len(queue) - 1 /\ Len(queue) \in Nat \ {0}
          /\ \A i \in 1..Len(queue') : queue'[i] = queue[i + 1]
          /\ r = queue[1]
      BY <1>0, <2>3
    <3>2. \A i, j \in 1..Len(queue') : queue'[i] = queue'[j] => i = j
      BY <1>0, <3>1
    <3>3. \A i \in 1..Len(queue') : queue'[i] \in Run /\ queue'[i] # r
      BY <1>0, <3>1
    <3>4. \A i \in 1..Len(queue') : status'[queue'[i]] = "queued"
      BY <1>0, <2>1, <3>1, <3>3
    <3>5. ASSUME NEW x \in Run, status'[x] = "queued"
          PROVE  \E i \in 1..Len(queue') : queue'[i] = x
      <4>1. x # r /\ status[x] = "queued"
        BY <1>0, <2>1, <3>5
      <4>2. PICK i \in 1..Len(queue) : queue[i] = x
        BY <1>0, <4>1
      <4>3. i # 1
        BY <3>1, <4>1, <4>2
      <4>4. i - 1 \in 1..Len(queue') /\ queue'[i - 1] = x
        BY <3>1, <4>2, <4>3
      <4> QED
        BY <4>4
    <3> QED
      BY <3>2, <3>3, <3>4, <3>5 DEF QueueConsistent
  <2> QED
    BY <1>3, <2>2, <2>3 DEF DispatchStep
<1>4. ASSUME NEW r \in Run, FinalizeStep(r) PROVE QueueConsistent'
  <2>1. agg[r] # "none" /\ status[r] \notin {"none", "queued"}
    BY <1>4 DEF FinalizeStep, LifetimeInv, StatusMatchesAggregator
  <2>2. PICK v \in {"completed", "aborted"} :
           status' = [status EXCEPT ![r] = IF status[r] = "running" THEN v
                                                                  ELSE status[r]]
    BY <1>4 DEF FinalizeStep, finalizeLocked
  <2>3. \A x \in Run : status[x] = "queued" <=> status'[x] = "queued"
    BY <1>0, <2>1, <2>2
  <2> QED
    BY <1>1, <1>4, <2>3 DEF FinalizeStep
<1>5. ASSUME NEW r \in Run, AbortStep(r) PROVE QueueConsistent'
  <2>1. status[r] \notin {"none", "queued"}
    BY <1>5 DEF AbortStep, LifetimeInv, StatusMatchesAggregator
  <2>2. \A x \in Run : status[x] = "queued" <=> status'[x] = "queued"
    BY <1>0, <1>5, <2>1 DEF AbortStep
  <2> QED
    BY <1>1, <1>5, <2>2 DEF AbortStep
<1> QED
  BY <1>1, <1>2, <1>3, <1>4, <1>5 DEF RunStep, QuietStep, CloseStep

\* AggregatorForEveryRun, place by place.
TasksKnown == \A w \in Worker : \A t \in tasks[w] : agg[t.run] # "none"
CancelsKnown == \A w \in Worker : \A r \in Run : cancelOf[w][r] # 0 => agg[r] # "none"
HandlersKnown == \A w \in Worker : \A r \in handler[w].active : agg[r] # "none"
AssignmentsKnown ==
    \A w \in Worker : \A i \in 1..Len(send[w]) :
        send[w][i].kind = "assign" => agg[send[w][i].run] # "none"
MsgKnown(a, m) ==
    /\ m.kind = "finished" => a[m.run] # "none"
    /\ m.kind = "register" => \A r \in m.active : a[r] # "none"
ReportsKnown ==
    \A w \in Worker : \A i \in 1..Len(up[w]) : MsgKnown(agg, up[w][i])

\* The places together are AggregatorForEveryRun.
LEMMA KnownParts ==
    AggregatorForEveryRun <=> /\ TasksKnown /\ CancelsKnown /\ HandlersKnown
                              /\ AssignmentsKnown /\ ReportsKnown
BY DEF AggregatorForEveryRun, TasksKnown, CancelsKnown, HandlersKnown,
   AssignmentsKnown, ReportsKnown, MsgKnown

\* The same of the next state.
LEMMA KnownPartsNext ==
    ASSUME TasksKnown', CancelsKnown', HandlersKnown', AssignmentsKnown',
           ReportsKnown'
    PROVE  AggregatorForEveryRun'
BY DEF AggregatorForEveryRun, TasksKnown, CancelsKnown, HandlersKnown,
   AssignmentsKnown, ReportsKnown, MsgKnown

\* An aggregator, once there, stays for the lifetime.
AggKept == \A r \in Run : agg[r] # "none" => agg'[r] # "none"

\* No step of a lifetime takes an aggregator away.
LEMMA AggStays ==
    ASSUME LifetimeInv, RunStep
    PROVE  AggKept
<1>0. agg \in [Run -> AggState]
  BY DEF LifetimeInv, TypeOK, RunTypeOK
<1> QED
  BY <1>0 DEF RunStep, QuietStep, QueueStep, DispatchStep, FinalizeStep,
     finalizeLocked, AbortStep, CloseStep, AggKept

\* What a step leaves alone stays known.
LEMMA KnownKept ==
    ASSUME TypeOK, AggKept
    PROVE  /\ TasksKnown /\ tasks' = tasks => TasksKnown'
           /\ CancelsKnown /\ cancelOf' = cancelOf => CancelsKnown'
           /\ HandlersKnown /\ handler' = handler => HandlersKnown'
           /\ AssignmentsKnown /\ send' = send => AssignmentsKnown'
           /\ ReportsKnown /\ up' = up => ReportsKnown'
<1>1. ASSUME TasksKnown, tasks' = tasks PROVE TasksKnown'
  <2>1. \A w \in Worker : \A t \in tasks[w] : t.run \in Run
    BY DEF TypeOK, WorkerTypeOK, Task
  <2> QED
    BY <1>1, <2>1 DEF TasksKnown, AggKept
<1>2. ASSUME CancelsKnown, cancelOf' = cancelOf PROVE CancelsKnown'
  BY <1>2 DEF CancelsKnown, AggKept
<1>3. ASSUME HandlersKnown, handler' = handler PROVE HandlersKnown'
  <2>1. \A w \in Worker : handler[w].active \subseteq Run
    BY DEF TypeOK, WorkerTypeOK, Handler
  <2> QED
    BY <1>3, <2>1 DEF HandlersKnown, AggKept
<1>4. ASSUME AssignmentsKnown, send' = send PROVE AssignmentsKnown'
  <2>1. send \in [Worker -> Seq(Msg)]
    BY DEF TypeOK, ServiceTypeOK
  <2>2. \A w \in Worker : \A i \in 1..Len(send[w]) : send[w][i] \in Msg
    BY <2>1
  <2>3. \A m \in Msg : m.run \in Run
    BY DEF Msg
  <2> QED
    BY <1>4, <2>2, <2>3 DEF AssignmentsKnown, AggKept
<1>5. ASSUME ReportsKnown, up' = up PROVE ReportsKnown'
  <2>1. \A w \in Worker : \A i \in 1..Len(up[w]) : up[w][i] \in WMsg
    BY DEF TypeOK, WorkerTypeOK
  <2>2. ASSUME NEW m \in WMsg, MsgKnown(agg, m) PROVE MsgKnown(agg', m)
    BY <2>2 DEF WMsg, MsgKnown, AggKept
  <2>3. \A w \in Worker : \A i \in 1..Len(up[w]) : MsgKnown(agg', up[w][i])
    BY <1>5, <2>1, <2>2 DEF ReportsKnown
  <2> QED
    BY <1>5, <2>3 DEF ReportsKnown
<1> QED
  BY <1>1, <1>2, <1>3, <1>4, <1>5

\* Appending known messages to channels keeps them known.
LEMMA SendKnown ==
    ASSUME TypeOK, AssignmentsKnown, AggKept, NEW m \in Msg, NEW got,
           m.kind = "assign" => agg'[m.run] # "none",
           send' = [w \in Worker |-> IF w \in got THEN Append(send[w], m)
                                                  ELSE send[w]]
    PROVE  AssignmentsKnown'
<1>1. SUFFICES ASSUME NEW w \in Worker, NEW i \in 1..Len(send'[w]),
                      send'[w][i].kind = "assign"
               PROVE  agg'[send'[w][i].run] # "none"
  BY DEF AssignmentsKnown
<1>0. \A x \in Msg : x.run \in Run
  BY DEF Msg
<1>2. send[w] \in Seq(Msg)
  BY DEF TypeOK, ServiceTypeOK
<1>3. CASE w \in got
  <2>1. send'[w] = Append(send[w], m)
    BY <1>3
  <2>2. CASE i \in 1..Len(send[w])
    <3>1. send'[w][i] = send[w][i] /\ send[w][i] \in Msg
      BY <1>2, <2>1, <2>2
    <3>2. agg[send[w][i].run] # "none" /\ send[w][i].run \in Run
      BY <1>0, <1>1, <2>2, <3>1 DEF AssignmentsKnown
    <3> QED
      BY <3>1, <3>2 DEF AggKept
  <2>3. CASE i = Len(send[w]) + 1
    <3>1. send'[w][i] = m
      BY <1>2, <2>1, <2>3
    <3> QED
      BY <1>1, <3>1
  <2> QED
    BY <1>2, <2>1, <2>2, <2>3
<1>4. CASE w \notin got
  <2>1. send'[w] = send[w]
    BY <1>4
  <2>2. i \in 1..Len(send[w]) /\ send[w][i].kind = "assign"
    BY <1>1, <2>1
  <2>4. send[w][i] \in Msg
    BY <1>2, <2>2
  <2>3. agg[send[w][i].run] # "none" /\ send[w][i].run \in Run
    BY <1>0, <2>2, <2>4 DEF AssignmentsKnown
  <2> QED
    BY <2>1, <2>3 DEF AggKept
<1> QED
  BY <1>3, <1>4

\* An assignment is sent together with the run's aggregator.
LEMMA DispatchKnown ==
    ASSUME TypeOK, AssignmentsKnown, AggKept, NEW r \in Run, dispatchLocked(r)
    PROVE  AssignmentsKnown'
<1> DEFINE m == [kind |-> "assign", run |-> r, seq |-> dispatches[r] + 1]
<1>1. PICK got : send' = [w \in Worker |-> IF w \in got THEN Append(send[w], m)
                                                        ELSE send[w]]
  BY DEF dispatchLocked, dispatched
<1>2. m \in Msg /\ m.run = r
  BY DEF TypeOK, ServiceTypeOK, Msg
<1>3. agg'[r] # "none"
  BY DispatchEffect DEF TypeOK, RunTypeOK
<1> HIDE DEF m
<1> QED
  BY <1>1, <1>2, <1>3, SendKnown

\* Taking the first message off, or emptying the channel, keeps the rest known.
LEMMA ChannelKnown ==
    ASSUME TypeOK, AssignmentsKnown, agg' = agg, NEW w \in Worker,
           \/ send' = [send EXCEPT ![w] = <<>>]
           \/ send[w] # <<>> /\ send' = [send EXCEPT ![w] = Tail(send[w])]
    PROVE  AssignmentsKnown'
<1>1. SUFFICES ASSUME NEW x \in Worker, NEW i \in 1..Len(send'[x])
               PROVE  \E j \in 1..Len(send[x]) : send'[x][i] = send[x][j]
  BY DEF AssignmentsKnown
<1>2. send \in [Worker -> Seq(Msg)]
  BY DEF TypeOK, ServiceTypeOK
<1>3. CASE x # w
  BY <1>2, <1>3
<1>4. CASE x = w /\ send' = [send EXCEPT ![w] = <<>>]
  BY <1>2, <1>4
<1>5. CASE x = w /\ send[w] # <<>> /\ send' = [send EXCEPT ![w] = Tail(send[w])]
  <2>1. /\ send'[x] = Tail(send[w])
        /\ Len(Tail(send[w])) = Len(send[w]) - 1
        /\ Len(send[w]) \in Nat \ {0}
    BY <1>2, <1>5
  <2>2. i + 1 \in 1..Len(send[x]) /\ send'[x][i] = send[x][i + 1]
    BY <1>2, <1>5, <2>1
  <2> QED
    BY <2>2
<1> QED
  BY <1>3, <1>4, <1>5

\* The same for a worker's messages: the rest after a receipt or a break.
LEMMA RestKnown ==
    ASSUME TypeOK, ReportsKnown, AggKept, NEW w \in Worker, NEW rest,
           up' = [up EXCEPT ![w] = rest],
           \A i \in 1..Len(rest) : \E j \in 1..Len(up[w]) : rest[i] = up[w][j]
    PROVE  ReportsKnown'
<1>0. up \in [Worker -> Seq(WMsg)]
  BY DEF TypeOK, WorkerTypeOK
<1>1. ASSUME NEW m \in WMsg, MsgKnown(agg, m) PROVE MsgKnown(agg', m)
  BY <1>1 DEF WMsg, MsgKnown, AggKept
<1>2. SUFFICES ASSUME NEW x \in Worker, NEW i \in 1..Len(up'[x])
               PROVE  \E j \in 1..Len(up[x]) : up'[x][i] = up[x][j]
  <2>1. \A x \in Worker : \A j \in 1..Len(up[x]) :
           up[x][j] \in WMsg /\ MsgKnown(agg, up[x][j])
    BY <1>0 DEF ReportsKnown
  <2>2. \A x \in Worker : \A j \in 1..Len(up[x]) : MsgKnown(agg', up[x][j])
    BY <1>1, <2>1
  <2> QED
    BY <2>2 DEF ReportsKnown
<1>3. CASE x = w
  BY <1>0, <1>3
<1>4. CASE x # w
  BY <1>0, <1>4
<1> QED
  BY <1>3, <1>4

\* A worker reports only what is known.
LEMMA EnqueueKnown ==
    ASSUME TypeOK, ReportsKnown, agg' = agg, NEW w \in Worker, NEW m \in WMsg,
           MsgKnown(agg, m), enqueue(w, m)
    PROVE  ReportsKnown'
<1>0. up \in [Worker -> Seq(WMsg)]
  BY DEF TypeOK, WorkerTypeOK
<1>1. CASE up' = up
  BY <1>1 DEF ReportsKnown
<1>2. CASE up' = [up EXCEPT ![w] = Append(up[w], m)]
  <2>1. SUFFICES ASSUME NEW x \in Worker, NEW i \in 1..Len(up'[x])
                 PROVE  MsgKnown(agg, up'[x][i])
    BY DEF ReportsKnown
  <2>2. CASE x # w
    BY <1>0, <1>2, <2>2 DEF ReportsKnown
  <2>3. CASE x = w
    <3>1. up'[x] = Append(up[w], m)
      BY <1>0, <1>2, <2>3
    <3>2. CASE i \in 1..Len(up[w])
      BY <1>0, <3>1, <3>2 DEF ReportsKnown
    <3>3. CASE i = Len(up[w]) + 1
      BY <1>0, <3>1, <3>3
    <3> QED
      BY <1>0, <3>1, <3>2, <3>3
  <2> QED
    BY <2>2, <2>3
<1> QED
  BY <1>1, <1>2 DEF enqueue

\* A worker's set of goroutines is replaced by one of known runs.
LEMMA TasksChange ==
    ASSUME TypeOK, TasksKnown, agg' = agg, NEW w \in Worker, NEW new,
           tasks' = [tasks EXCEPT ![w] = new],
           \A t \in new : agg[t.run] # "none"
    PROVE  TasksKnown'
<1>1. tasks \in [Worker -> SUBSET Task]
  BY DEF TypeOK, WorkerTypeOK
<1>2. \A x \in Worker : tasks'[x] = IF x = w THEN new ELSE tasks[x]
  BY <1>1
<1> QED
  BY <1>2 DEF TasksKnown

\* One entry of Agent.runs is set for a known run, or cleared.
LEMMA CancelChange ==
    ASSUME TypeOK, CancelsKnown, agg' = agg, NEW w \in Worker, NEW r \in Run, NEW v,
           cancelOf' = [cancelOf EXCEPT ![w][r] = v],
           v # 0 => agg[r] # "none"
    PROVE  CancelsKnown'
<1>1. cancelOf \in [Worker -> [Run -> Nat]]
  BY DEF TypeOK, WorkerTypeOK
<1>2. \A x \in Worker, q \in Run :
         cancelOf'[x][q] = IF x = w /\ q = r THEN v ELSE cancelOf[x][q]
  BY <1>1
<1> QED
  BY <1>2 DEF CancelsKnown

\* The Register handler of one stream moves on with known runs.
LEMMA HandlerChange ==
    ASSUME TypeOK, HandlersKnown, AggKept, NEW w \in Worker, NEW h \in Handler,
           handler' = [handler EXCEPT ![w] = h],
           \A r \in h.active : agg[r] # "none"
    PROVE  HandlersKnown'
<1>1. handler \in [Worker -> Handler]
  BY DEF TypeOK, WorkerTypeOK
<1>2. \A x \in Worker : handler'[x] = IF x = w THEN h ELSE handler[x]
  BY <1>1
<1>3. \A g \in Handler : g.active \subseteq Run
  BY DEF Handler
<1>4. \A x \in Worker : /\ handler'[x] \in Handler
                        /\ \A r \in handler'[x].active : agg[r] # "none"
  BY <1>1, <1>2 DEF HandlersKnown
<1> QED
  BY <1>3, <1>4 DEF HandlersKnown, AggKept

\* The tail of a worker's messages holds messages it held before.
LEMMA TakenKnown ==
    ASSUME TypeOK, ReportsKnown, AggKept, NEW w \in Worker, up[w] # <<>>, taken(w)
    PROVE  ReportsKnown'
<1>1. up[w] \in Seq(WMsg)
  BY DEF TypeOK, WorkerTypeOK
<1>2. up' = [up EXCEPT ![w] = Tail(up[w])]
  BY DEF taken
<1>3. \A i \in 1..Len(Tail(up[w])) : i + 1 \in 1..Len(up[w]) /\ Tail(up[w])[i] = up[w][i + 1]
  BY <1>1
<1> QED
  BY <1>2, <1>3, RestKnown

\* So does what a break leaves of them.
LEMMA SuffixKnown ==
    ASSUME TypeOK, ReportsKnown, AggKept, NEW w \in Worker, NEW rest \in suffixes(w),
           up' = [up EXCEPT ![w] = rest]
    PROVE  ReportsKnown'
<1>1. up[w] \in Seq(WMsg)
  BY DEF TypeOK, WorkerTypeOK
<1>2. PICK k \in 0..Len(up[w]) : rest = SubSeq(up[w], k + 1, Len(up[w]))
  BY DEF suffixes
<1>3. \A i \in 1..Len(rest) : i + k \in 1..Len(up[w]) /\ rest[i] = up[w][i + k]
  BY <1>1, <1>2
<1> QED
  BY <1>2, <1>3, RestKnown

\* The first message of a known sequence is known.
LEMMA HeadKnown ==
    ASSUME TypeOK, ReportsKnown, NEW w \in Worker, up[w] # <<>>
    PROVE  MsgKnown(agg, Head(up[w]))
<1>1. up[w] \in Seq(WMsg)
  BY DEF TypeOK, WorkerTypeOK
<1>2. 1 \in 1..Len(up[w]) /\ Head(up[w]) = up[w][1]
  BY <1>1
<1> QED
  BY <1>2 DEF ReportsKnown

\* Steps of the coordinator alone leave the workers' side as it is.
LEMMA KnownCoordinatorStep ==
    ASSUME LifetimeInv, CoordinatorStep, AggKept
    PROVE  AggregatorForEveryRun'
<1>0. TypeOK /\ TasksKnown /\ CancelsKnown /\ HandlersKnown /\ AssignmentsKnown
      /\ ReportsKnown
  BY KnownParts DEF LifetimeInv
<1>1. UNCHANGED <<up, handler, tasks, cancelOf>>
  BY DEF CoordinatorStep, workerVars
<1>2. AssignmentsKnown'
  <2>1. ASSUME send' = send PROVE AssignmentsKnown'
    BY <1>0, <2>1, KnownKept
  <2>2. ASSUME NEW r \in Run, StartRun(r) PROVE AssignmentsKnown'
    BY <1>0, <2>1, <2>2, DispatchKnown DEF StartRun
  <2>3. ASSUME DrainDispatch PROVE AssignmentsKnown'
    <3>1. Head(queue) \in Run
      BY <1>0, <2>3 DEF DrainDispatch, TypeOK, ServiceTypeOK
    <3> QED
      BY <1>0, <2>3, <3>1, DispatchKnown DEF DrainDispatch
  <2>4. ASSUME NEW r \in Run, SignalStop(r) PROVE AssignmentsKnown'
    <3> DEFINE m == [kind |-> "stop", run |-> r, seq |-> 0]
    <3>1. PICK got : send' = [w \in Worker |-> IF w \in got THEN Append(send[w], m)
                                                            ELSE send[w]]
      BY <2>4 DEF SignalStop
    <3>2. m \in Msg /\ m.kind = "stop"
      BY DEF Msg
    <3> HIDE DEF m
    <3> QED
      BY <1>0, <3>1, <3>2, SendKnown
  <2>5. ASSUME NEW r \in Run, \/ StopRun(r) \/ AutoStopRun(r) \/ StopTimeout(r)
                              \/ ReapFinalize(r) \/ AggregatorExit(r)
        PROVE  send' = send
    BY <2>5 DEF StopRun, AutoStopRun, StopTimeout, ReapFinalize, AggregatorExit
  <2>6. ASSUME \/ DrainExit \/ \E late \in SUBSET lost : ReapScan(late)
               \/ \E w \in Worker : Touch(w)
        PROVE  send' = send
    BY <2>6 DEF DrainExit, ReapScan, Touch
  <2> QED
    BY <2>1, <2>2, <2>3, <2>4, <2>5, <2>6 DEF CoordinatorStep
<1> QED
  BY <1>0, <1>1, <1>2, KnownKept, KnownPartsNext

\* Steps of a stream's handler.
LEMMA KnownStreamStep ==
    ASSUME LifetimeInv, NEW w \in Worker, StreamStep(w), AggKept
    PROVE  AggregatorForEveryRun'
<1>0. TypeOK /\ TasksKnown /\ CancelsKnown /\ HandlersKnown /\ AssignmentsKnown
      /\ ReportsKnown
  BY KnownParts DEF LifetimeInv
<1>1. ASSUME RegisterAdd(w) PROVE AggregatorForEveryRun'
  <2> DEFINE h == [step |-> "rehydrate", active |-> Head(up[w]).active]
  <2>1. /\ up[w] # <<>> /\ Head(up[w]).kind = "register" /\ taken(w)
        /\ handler' = [handler EXCEPT ![w] = h]
        /\ send' = [send EXCEPT ![w] = <<>>]
        /\ UNCHANGED <<agg, tasks, cancelOf>>
    BY <1>1 DEF RegisterAdd, arrived, Add, runVars
  <2>2. Head(up[w]).active \in SUBSET Run /\ \A r \in Head(up[w]).active : agg[r] # "none"
    BY <1>0, <2>1, ArrivedType, HeadKnown DEF MsgKnown
  <2>3. h \in Handler /\ \A r \in h.active : agg[r] # "none"
    BY <2>2 DEF Handler
  <2> HIDE DEF h
  <2>4. HandlersKnown'
    BY <1>0, <2>1, <2>3, HandlerChange
  <2>5. ReportsKnown'
    BY <1>0, <2>1, TakenKnown
  <2>6. AssignmentsKnown'
    BY <1>0, <2>1, ChannelKnown
  <2> QED
    BY <1>0, <2>1, <2>4, <2>5, <2>6, KnownKept, KnownPartsNext
<1>2. ASSUME RegisterRehydrate(w) \/ RegisterDrain(w) PROVE AggregatorForEveryRun'
  <2>1. PICK h \in {Idle, [step |-> "drain", active |-> {}]} :
           handler' = [handler EXCEPT ![w] = h]
    BY <1>2 DEF RegisterRehydrate, RegisterDrain
  <2>2. h \in Handler /\ h.active = {}
    BY <2>1 DEF Idle, Handler
  <2>3. HandlersKnown'
    BY <1>0, <2>1, <2>2, HandlerChange
  <2>4. UNCHANGED <<up, tasks, cancelOf, send>>
    BY <1>2 DEF RegisterRehydrate, RegisterDrain, Rehydrate, BeginDrain
  <2> QED
    BY <1>0, <2>3, <2>4, KnownKept, KnownPartsNext
<1>3. ASSUME ReceiveFinished(w) PROVE AggregatorForEveryRun'
  <2>1. up[w] # <<>> /\ taken(w) /\ UNCHANGED <<handler, tasks, cancelOf, send>>
    BY <1>3 DEF ReceiveFinished, arrived, WorkerFinished
  <2>2. ReportsKnown'
    BY <1>0, <2>1, TakenKnown
  <2> QED
    BY <1>0, <2>1, <2>2, KnownKept, KnownPartsNext
<1>4. ASSUME Teardown(w) PROVE AggregatorForEveryRun'
  <2>1. UNCHANGED <<up, handler, tasks, cancelOf, send>>
    BY <1>4 DEF Teardown, Remove
  <2> QED
    BY <1>0, <2>1, KnownKept, KnownPartsNext
<1> QED
  BY <1>1, <1>2, <1>3, <1>4 DEF StreamStep

\* Steps of the worker's agent.
LEMMA KnownAgentStep ==
    ASSUME LifetimeInv, NEW w \in Worker, AgentStep(w), AggKept
    PROVE  AggregatorForEveryRun'
<1>0. TypeOK /\ TasksKnown /\ CancelsKnown /\ HandlersKnown /\ AssignmentsKnown
      /\ ReportsKnown
  BY KnownParts DEF LifetimeInv
<1>1. ASSUME Connect(w) PROVE AggregatorForEveryRun'
  <2> DEFINE m == [kind |-> "register", active |-> activeRuns(w)]
  <2>1. enqueue(w, m) /\ UNCHANGED <<agg, handler, tasks, cancelOf, send>>
    BY <1>1 DEF Connect, coordVars, runVars
  <2>2. m \in WMsg
    BY DEF WMsg, activeRuns
  <2>3. MsgKnown(agg, m)
    BY <1>0 DEF MsgKnown, activeRuns, CancelsKnown
  <2> HIDE DEF m
  <2>4. ReportsKnown'
    BY <1>0, <2>1, <2>2, <2>3, EnqueueKnown
  <2> QED
    BY <1>0, <2>1, <2>4, KnownKept, KnownPartsNext
<1>2. ASSUME NEW kind, incoming(w, kind)
      PROVE  /\ send[w] # <<>> /\ Head(send[w]).kind = kind
             /\ Head(send[w]).run \in Run
             /\ kind = "assign" => agg[Head(send[w]).run] # "none"
  <2>1. send[w] \in Seq(Msg) /\ send[w] # <<>>
    BY <1>0, <1>2 DEF incoming, TypeOK, ServiceTypeOK
  <2>2. 1 \in 1..Len(send[w]) /\ Head(send[w]) = send[w][1] /\ send[w][1] \in Msg
    BY <2>1
  <2>3. \A m \in Msg : m.run \in Run
    BY DEF Msg
  <2> QED
    BY <1>0, <1>2, <2>1, <2>2, <2>3 DEF incoming, AssignmentsKnown
<1>3. ASSUME ReceiveAssignment(w) PROVE AggregatorForEveryRun'
  <2> DEFINE t == [run |-> Head(send[w]).run, seq |-> Head(send[w]).seq,
                   phase |-> "starting"]
  <2>1. /\ incoming(w, "assign")
        /\ send' = [send EXCEPT ![w] = Tail(send[w])]
        /\ tasks' = [tasks EXCEPT ![w] = tasks[w] \cup {t}]
        /\ UNCHANGED <<agg, up, handler, cancelOf>>
    BY <1>3 DEF ReceiveAssignment, received, runVars
  <2>2. send[w] # <<>> /\ agg[t.run] # "none"
    BY <1>2, <2>1
  <2> HIDE DEF t
  <2>3. \A x \in tasks[w] \cup {t} : agg[x.run] # "none"
    BY <1>0, <2>2 DEF TasksKnown
  <2>4. TasksKnown'
    BY <1>0, <2>1, <2>3, TasksChange
  <2>5. AssignmentsKnown'
    BY <1>0, <2>1, <2>2, ChannelKnown
  <2> QED
    BY <1>0, <2>1, <2>4, <2>5, KnownKept, KnownPartsNext
<1>4. ASSUME ReceiveStop(w) PROVE AggregatorForEveryRun'
  <2>1. PICK gone \in SUBSET tasks[w] :
           /\ incoming(w, "stop")
           /\ send' = [send EXCEPT ![w] = Tail(send[w])]
           /\ tasks' = [tasks EXCEPT ![w] = (tasks[w] \ gone) \cup
                           {[t EXCEPT !.phase = "finishing"] : t \in gone}]
           /\ UNCHANGED <<agg, up, handler, cancelOf>>
    BY <1>4 DEF ReceiveStop, received, runVars
  <2>2. send[w] # <<>>
    BY <1>2, <2>1
  <2>3. \A t \in gone : /\ agg[t.run] # "none"
                        /\ [t EXCEPT !.phase = "finishing"].run = t.run
    <3>1. \A t \in Task : [t EXCEPT !.phase = "finishing"].run = t.run
      BY DEF Task
    <3>2. gone \subseteq Task
      BY <1>0 DEF TypeOK, WorkerTypeOK
    <3> QED
      BY <1>0, <3>1, <3>2 DEF TasksKnown
  <2>4. \A x \in (tasks[w] \ gone) \cup {[t EXCEPT !.phase = "finishing"] : t \in gone} :
           agg[x.run] # "none"
    BY <1>0, <2>3 DEF TasksKnown
  <2>5. TasksKnown'
    BY <1>0, <2>1, <2>4, TasksChange
  <2>6. AssignmentsKnown'
    BY <1>0, <2>1, <2>2, ChannelKnown
  <2> QED
    BY <1>0, <2>1, <2>5, <2>6, KnownKept, KnownPartsNext
<1>5. ASSUME NEW t \in tasks[w]
      PROVE  /\ t \in Task /\ t.run \in Run /\ agg[t.run] # "none"
             /\ \A x \in tasks[w] \ {t} : agg[x.run] # "none"
             /\ \A p \in Phase : moved(w, t, p) /\ agg' = agg => TasksKnown'
  <2>1. t \in Task /\ agg[t.run] # "none" /\ \A x \in tasks[w] \ {t} : agg[x.run] # "none"
    BY <1>0 DEF TypeOK, WorkerTypeOK, TasksKnown
  <2>2. t.run \in Run
    BY <2>1 DEF Task
  <2>3. ASSUME NEW p \in Phase, moved(w, t, p), agg' = agg PROVE TasksKnown'
    <3> DEFINE u == [t EXCEPT !.phase = p]
    <3>1. u.run = t.run
      BY <2>1 DEF Task
    <3>2. tasks' = [tasks EXCEPT ![w] = (tasks[w] \ {t}) \cup {u}]
      BY <2>3 DEF moved
    <3> HIDE DEF u
    <3>3. \A x \in (tasks[w] \ {t}) \cup {u} : agg[x.run] # "none"
      BY <2>1, <3>1
    <3> QED
      BY <1>0, <2>3, <3>2, <3>3, TasksChange
  <2> QED
    BY <2>1, <2>2, <2>3
<1>6. ASSUME NEW t \in tasks[w], StartTask(w, t) PROVE AggregatorForEveryRun'
  <2>1. UNCHANGED <<agg, send, up, handler>>
    BY <1>6 DEF StartTask, coordVars, runVars
  <2>2. CASE t.run \in BadPlan
    <3>1. tasks' = [tasks EXCEPT ![w] = tasks[w] \ {t}] /\ cancelOf' = cancelOf
      BY <1>6, <2>2 DEF StartTask
    <3>2. TasksKnown'
      BY <1>0, <1>5, <2>1, <3>1, TasksChange
    <3> QED
      BY <1>0, <2>1, <3>1, <3>2, KnownKept, KnownPartsNext
  <2>3. CASE t.run \notin BadPlan
    <3>1. moved(w, t, "waiting") /\ cancelOf' = [cancelOf EXCEPT ![w][t.run] = t.seq]
      BY <1>6, <2>3 DEF StartTask
    <3>2. TasksKnown'
      BY <1>5, <2>1, <3>1 DEF Phase
    <3>3. CancelsKnown'
      BY <1>0, <1>5, <2>1, <3>1, CancelChange
    <3> QED
      BY <1>0, <2>1, <3>2, <3>3, KnownKept, KnownPartsNext
  <2> QED
    BY <2>2, <2>3
<1>7. ASSUME NEW t \in tasks[w], BeginTask(w, t) PROVE AggregatorForEveryRun'
  <2>1. moved(w, t, "executing") /\ UNCHANGED <<agg, send, up, handler, cancelOf>>
    BY <1>7 DEF BeginTask, coordVars, runVars
  <2>2. TasksKnown'
    BY <1>5, <2>1 DEF Phase
  <2> QED
    BY <1>0, <2>1, <2>2, KnownKept, KnownPartsNext
<1>8. ASSUME NEW t \in tasks[w], EndTask(w, t) PROVE AggregatorForEveryRun'
  <2> DEFINE m == [kind |-> "finished", run |-> t.run]
  <2>1. /\ enqueue(w, m) /\ moved(w, t, "finishing")
        /\ UNCHANGED <<agg, send, handler, cancelOf>>
    BY <1>8 DEF EndTask, coordVars, runVars
  <2>2. m \in WMsg /\ MsgKnown(agg, m)
    BY <1>5 DEF WMsg, MsgKnown
  <2> HIDE DEF m
  <2>3. TasksKnown'
    BY <1>5, <2>1 DEF Phase
  <2>4. ReportsKnown'
    BY <1>0, <2>1, <2>2, EnqueueKnown
  <2> QED
    BY <1>0, <2>1, <2>3, <2>4, KnownKept, KnownPartsNext
<1>9. ASSUME NEW t \in tasks[w], FinishTask(w, t) PROVE AggregatorForEveryRun'
  <2>1. /\ tasks' = [tasks EXCEPT ![w] = tasks[w] \ {t}]
        /\ cancelOf' = [cancelOf EXCEPT ![w][t.run] = 0]
        /\ UNCHANGED <<agg, send, up, handler>>
    BY <1>9 DEF FinishTask, coordVars, runVars
  <2>2. TasksKnown'
    BY <1>0, <1>5, <2>1, TasksChange
  <2>3. CancelsKnown'
    BY <1>0, <1>5, <2>1, CancelChange
  <2> QED
    BY <1>0, <2>1, <2>2, <2>3, KnownKept, KnownPartsNext
<1> QED
  BY <1>1, <1>3, <1>4, <1>6, <1>7, <1>8, <1>9 DEF AgentStep, AgentWork

\* Faults lose messages and goroutines, and bring none.
LEMMA KnownFaultStep ==
    ASSUME LifetimeInv, NEW w \in Worker, BreakLink(w) \/ CrashWorker(w), AggKept
    PROVE  AggregatorForEveryRun'
<1>0. TypeOK /\ TasksKnown /\ CancelsKnown /\ HandlersKnown /\ AssignmentsKnown
      /\ ReportsKnown
  BY KnownParts DEF LifetimeInv
<1>1. send' = [send EXCEPT ![w] = <<>>] /\ UNCHANGED <<agg, handler>>
  BY DEF BreakLink, CrashWorker, broken, runVars
<1>2. AssignmentsKnown'
  BY <1>0, <1>1, ChannelKnown
<1>3. CASE BreakLink(w)
  <2>1. PICK rest \in suffixes(w) : up' = [up EXCEPT ![w] = rest]
    BY <1>3 DEF BreakLink
  <2>2. ReportsKnown'
    BY <1>0, <2>1, SuffixKnown
  <2>3. UNCHANGED <<tasks, cancelOf>>
    BY <1>3 DEF BreakLink
  <2> QED
    BY <1>0, <1>1, <1>2, <2>2, <2>3, KnownKept, KnownPartsNext
<1>4. CASE CrashWorker(w)
  <2>1. /\ up' = [up EXCEPT ![w] = <<>>]
        /\ tasks' = [tasks EXCEPT ![w] = {}]
        /\ cancelOf' = [cancelOf EXCEPT ![w] = [r \in Run |-> 0]]
    BY <1>4 DEF CrashWorker
  <2>2. ReportsKnown'
    <3> DEFINE rest == <<>>
    <3>1. up' = [up EXCEPT ![w] = rest]
      BY <2>1
    <3>2. \A i \in 1..Len(rest) : \E j \in 1..Len(up[w]) : rest[i] = up[w][j]
      BY DEF rest
    <3> HIDE DEF rest
    <3> QED
      BY <1>0, <3>1, <3>2, RestKnown
  <2>3. TasksKnown'
    BY <1>0, <1>1, <2>1, TasksChange
  <2>4. CancelsKnown'
    <3>1. \A x \in Worker, r \in Run : cancelOf'[x][r] # 0 => cancelOf[x][r] # 0
      BY <1>0, <2>1 DEF TypeOK, WorkerTypeOK
    <3> QED
      BY <1>0, <1>1, <3>1 DEF CancelsKnown
  <2> QED
    BY <1>0, <1>1, <1>2, <2>2, <2>3, <2>4, KnownKept, KnownPartsNext
<1> QED
  BY <1>3, <1>4

\* Every step of a lifetime keeps AggregatorForEveryRun.
LEMMA KnownStep ==
    ASSUME LifetimeInv, RunStep, [LifetimeNext]_vars
    PROVE  AggregatorForEveryRun'
<1>1. AggKept
  BY AggStays
<1>2. CASE LifetimeNext
  BY <1>1, <1>2, KnownCoordinatorStep, KnownStreamStep, KnownAgentStep, KnownFaultStep
     DEF LifetimeNext
<1>3. CASE UNCHANGED vars
  <2>1. TypeOK /\ TasksKnown /\ CancelsKnown /\ HandlersKnown /\ AssignmentsKnown
        /\ ReportsKnown
    BY KnownParts DEF LifetimeInv
  <2>2. UNCHANGED <<up, handler, tasks, cancelOf, send>>
    BY <1>3 DEF vars, workerVars, coordVars
  <2> QED
    BY <1>1, <2>1, <2>2, KnownKept, KnownPartsNext
<1> QED
  BY <1>2, <1>3

\* The inductive invariant holds initially.
LEMMA LifetimeInit ==
    ASSUME ClusterInit
    PROVE  LifetimeInv
<1>1. TypeOK /\ NoUnderflow
  BY InitType
<1>2. /\ status = [r \in Run |-> "none"] /\ agg = [r \in Run |-> "none"]
      /\ ended = {} /\ slotHeld = {} /\ queue = <<>> /\ running = 0
  BY DEF ClusterInit, Init
<1>3. StatusMatchesAggregator /\ SlotsAreLiveRuns
  BY <1>2 DEF StatusMatchesAggregator, SlotsAreLiveRuns
<1>4. QueueConsistent
  BY <1>2 DEF QueueConsistent
<1>5. SlotAccounting /\ AdmissionBound
  BY <1>2, FS_EmptySet, MaxRunsAssumption DEF SlotAccounting, AdmissionBound
<1>6. AggregatorForEveryRun
  <2>1. /\ send = [w \in Worker |-> <<>>] /\ up = [w \in Worker |-> <<>>]
        /\ handler = [w \in Worker |-> Idle] /\ tasks = [w \in Worker |-> {}]
        /\ cancelOf = [w \in Worker |-> [r \in Run |-> 0]]
    BY DEF ClusterInit, Init
  <2> QED
    BY <2>1 DEF AggregatorForEveryRun, Idle
<1> QED
  BY <1>1, <1>3, <1>4, <1>5, <1>6 DEF LifetimeInv

\* Every step of a lifetime keeps the inductive invariant.
LEMMA LifetimeStep ==
    ASSUME LifetimeInv, [LifetimeNext]_vars
    PROVE  LifetimeInv'
<1>1. [Next]_vars
  BY DEF Next
<1>2. RunStep
  BY EveryStepIsRunStep
<1>3. TypeOK' /\ NoUnderflow'
  BY <1>1, TypeStep, NoUnderflowStep DEF LifetimeInv
<1> QED
  BY <1>2, <1>3, StatusStep, SlotsStep, AccountingStep, BoundStep,
     QueueStepKeepsQueue, KnownStep DEF LifetimeInv

\* Between two restarts of the coordinator the inductive invariant holds.
THEOREM LifetimeInvariant == LifetimeSpec => []LifetimeInv
<1>1. ClusterInit => LifetimeInv
  BY LifetimeInit
<1>2. LifetimeInv /\ [LifetimeNext]_vars => LifetimeInv'
  BY LifetimeStep
<1> QED
  BY <1>1, <1>2, PTL DEF LifetimeSpec

\* Service.running is the number of runs that hold a slot: dispatchLocked,
\* rehydrate and finalizeLocked take and free each slot exactly once.
THEOREM SlotsAreCounted == LifetimeSpec => []SlotAccounting
<1>1. LifetimeInv => SlotAccounting
  BY DEF LifetimeInv
<1> QED
  BY <1>1, LifetimeInvariant, PTL

\* canDispatchLocked and drainLocked keep the number of dispatched runs within
\* Service.maxRuns.
THEOREM AdmissionIsBounded == LifetimeSpec => []AdmissionBound
<1>1. LifetimeInv => AdmissionBound
  BY DEF LifetimeInv
<1> QED
  BY <1>1, LifetimeInvariant, PTL

\* A run holds a slot from its dispatch until endedAt is set, and not longer.
THEOREM SlotsFollowRuns == LifetimeSpec => []SlotsAreLiveRuns
<1>1. LifetimeInv => SlotsAreLiveRuns
  BY DEF LifetimeInv
<1> QED
  BY <1>1, LifetimeInvariant, PTL

\* The queue holds each QUEUED run once, and nothing else.
THEOREM QueueAgrees == LifetimeSpec => []QueueConsistent
<1>1. LifetimeInv => QueueConsistent
  BY DEF LifetimeInv
<1> QED
  BY <1>1, LifetimeInvariant, PTL

\* ingest and workerFinished never meet a run state without an aggregator.
THEOREM AggregatorsExist == LifetimeSpec => []AggregatorForEveryRun
<1>1. LifetimeInv => AggregatorForEveryRun
  BY DEF LifetimeInv
<1> QED
  BY <1>1, LifetimeInvariant, PTL

\* A run has an aggregator from its dispatch on, and endedAt only with a
\* terminal status.
THEOREM StatusAgrees == LifetimeSpec => []StatusMatchesAggregator
<1>1. LifetimeInv => StatusMatchesAggregator
  BY DEF LifetimeInv
<1> QED
  BY <1>1, LifetimeInvariant, PTL

\* Every path through StartRun, dispatchLocked, drainLocked and finalizeLocked keeps
\* counter, slots, limit, run states and queue in agreement.
THEOREM AdmissionHolds == LifetimeSpec => []AdmissionIsSound
<1>1. LifetimeInv => AdmissionIsSound
  BY DEF LifetimeInv, AdmissionIsSound
<1> QED
  BY <1>1, LifetimeInvariant, PTL

\* Run states, aggregators and messages agree: the stream handlers never
\* dereference a missing aggregator.
THEOREM AggregatorsAgree == LifetimeSpec => []RunsHaveAggregators
<1>1. LifetimeInv => RunsHaveAggregators
  BY DEF LifetimeInv, RunsHaveAggregators
<1> QED
  BY <1>1, LifetimeInvariant, PTL

\* One RunStep leaves an ended run ended, with a terminal status.
LEMMA EndedStays ==
    ASSUME LifetimeInv, RunStep, NEW r \in ended
    PROVE  r \in ended' /\ status'[r] \in {"completed", "aborted"}
<1>0. /\ r \in Run /\ status[r] \in {"completed", "aborted"} /\ agg[r] # "none"
      /\ status \in [Run -> Status]
  BY DEF LifetimeInv, TypeOK, RunTypeOK, StatusMatchesAggregator
<1>1. CASE QuietStep
  BY <1>0, <1>1 DEF QuietStep
<1>2. ASSUME NEW x \in Run, QueueStep(x)
      PROVE  r \in ended' /\ status'[r] \in {"completed", "aborted"}
  BY <1>0, <1>2 DEF QueueStep
<1>3. ASSUME NEW x \in Run, DispatchStep(x)
      PROVE  r \in ended' /\ status'[r] \in {"completed", "aborted"}
  <2>1. x # r
    BY <1>3, DispatchIsFirst
  <2> QED
    BY <1>0, <1>3, <2>1 DEF DispatchStep
<1>4. ASSUME NEW x \in Run, FinalizeStep(x)
      PROVE  r \in ended' /\ status'[r] \in {"completed", "aborted"}
  BY <1>0, <1>4 DEF FinalizeStep, finalizeLocked
<1>5. ASSUME NEW x \in Run, AbortStep(x) \/ CloseStep(x)
      PROVE  r \in ended' /\ status'[r] \in {"completed", "aborted"}
  BY <1>0, <1>5 DEF AbortStep, CloseStep
<1> QED
  BY <1>1, <1>2, <1>3, <1>4, <1>5 DEF RunStep

\* An ended run is never queued or dispatched again: no handler replaces its
\* runState.
THEOREM EndedStaysEnded == LifetimeSpec => EndedIsFinal
<1>1. LifetimeInv /\ [LifetimeNext]_vars =>
         [\A r \in ended : r \in ended' /\ status'[r] \in {"completed", "aborted"}]_vars
  BY EveryStepIsRunStep, EndedStays
<1> QED
  BY <1>1, LifetimeInvariant, PTL DEF LifetimeSpec, EndedIsFinal

\* One RunStep keeps a verdict of ABORTED.
LEMMA AbortStays ==
    ASSUME LifetimeInv, RunStep, NEW r \in Run, status[r] = "aborted"
    PROVE  status'[r] = "aborted"
<1>0. agg[r] # "none" /\ status \in [Run -> Status]
  BY DEF LifetimeInv, TypeOK, RunTypeOK, StatusMatchesAggregator
<1>1. CASE QuietStep
  BY <1>1 DEF QuietStep
<1>2. ASSUME NEW x \in Run, QueueStep(x) PROVE status'[r] = "aborted"
  BY <1>0, <1>2 DEF QueueStep
<1>3. ASSUME NEW x \in Run, DispatchStep(x) PROVE status'[r] = "aborted"
  <2>1. x # r
    BY <1>0, <1>3, DispatchIsFirst
  <2> QED
    BY <1>0, <1>3, <2>1 DEF DispatchStep
<1>4. ASSUME NEW x \in Run, FinalizeStep(x) PROVE status'[r] = "aborted"
  BY <1>0, <1>4 DEF FinalizeStep, finalizeLocked
<1>5. ASSUME NEW x \in Run, AbortStep(x) \/ CloseStep(x) PROVE status'[r] = "aborted"
  BY <1>0, <1>5 DEF AbortStep, CloseStep
<1> QED
  BY <1>1, <1>2, <1>3, <1>4, <1>5 DEF RunStep

\* A Finished that arrives after the stop does not turn ABORTED into COMPLETED,
\* and nothing else takes the stop verdict back.
THEOREM AbortsStick == LifetimeSpec => AbortSticks
<1>1. LifetimeInv /\ [LifetimeNext]_vars =>
         [\A r \in Run : status[r] = "aborted" => status'[r] = "aborted"]_vars
  BY EveryStepIsRunStep, AbortStays
<1> QED
  BY <1>1, LifetimeInvariant, PTL DEF LifetimeSpec, AbortSticks

-----------------------------------------------------------------------------
(* The refinement of RunLifecycle                                          *)

\* The phases of a run under the refinement mapping, from agg and ended alone.
LEMMA LifeCases ==
    ASSUME LifetimeInv, NEW r \in Run
    PROVE  /\ lifeOf(r) = "over" <=> r \in ended
           /\ lifeOf(r) = "live" <=> r \in slotHeld
           /\ lifeOf(r) = "waiting" <=> status[r] = "queued"
           /\ lifeOf(r) = "new" <=> status[r] = "none"
<1>1. /\ status[r] \in Status
      /\ slotHeld = {x \in Run : agg[x] # "none"} \ ended
      /\ agg[r] = "none" <=> status[r] \in {"none", "queued"}
      /\ r \in ended => status[r] \in {"completed", "aborted"}
  BY DEF LifetimeInv, TypeOK, RunTypeOK, StatusMatchesAggregator, SlotsAreLiveRuns
<1> QED
  BY <1>1 DEF lifeOf, Status

\* The live runs of the abstract specification are those that hold a slot.
LEMMA LiveAreSlots ==
    ASSUME LifetimeInv
    PROVE  LC!Live = slotHeld
<1>1. slotHeld \subseteq Run
  BY DEF LifetimeInv, TypeOK, RunTypeOK
<1> QED
  BY <1>1, LifeCases DEF LC!Live

\* Cardinality is the same operator in both modules.
LEMMA CardSame == \A S : LC!Cardinality(S) = Cardinality(S)
BY DEF LC!Cardinality, Cardinality

\* Each class of steps is a step of a run's life, or invisible.
LEMMA LifeStep ==
    ASSUME LifetimeInv, LifetimeInv', RunStep
    PROVE  [LC!LifeNext]_(LC!lifeVars)
<1> DEFINE L == [r \in Run |-> lifeOf(r)]
           V == [r \in Run |-> verdictOf(r)]
<1>0. /\ status \in [Run -> Status] /\ agg \in [Run -> AggState] /\ ended \subseteq Run
      /\ running = Cardinality(slotHeld)
  BY DEF LifetimeInv, TypeOK, RunTypeOK, SlotAccounting
<1>a. \A r \in Run : 
           /\ lifeOf(r) = "over" <=> r \in ended
           /\ lifeOf(r) = "live" <=> r \in slotHeld
           /\ lifeOf(r) = "waiting" <=> status[r] = "queued"
           /\ lifeOf(r) = "new" <=> status[r] = "none"
  BY LifeCases
<1>1. CASE QuietStep
  <2>1. L' = L /\ V' = V /\ queue' = queue
    BY <1>1 DEF QuietStep, lifeOf, verdictOf
  <2> QED
    BY <2>1 DEF LC!lifeVars
<1>2. ASSUME NEW r \in Run, QueueStep(r) PROVE LC!Wait(r)
  <2>1. L[r] = "new"
    BY <1>2, <1>a DEF QueueStep
  <2>2. r \notin ended /\ agg[r] = "none"
    BY <1>2 DEF QueueStep, LifetimeInv, StatusMatchesAggregator
  <2>3. L' = [L EXCEPT ![r] = "waiting"]
    BY <1>0, <1>2, <2>2 DEF QueueStep, lifeOf
  <2>4. V' = V
    BY <1>0, <1>2 DEF QueueStep, verdictOf
  <2> QED
    BY <1>2, <2>1, <2>3, <2>4 DEF QueueStep, LC!Wait
<1>3. ASSUME NEW r \in Run, DispatchStep(r) PROVE LC!Admit(r) \/ LC!ServeLine
  <2>1. agg[r] = "none" /\ r \notin ended /\ status[r] \in {"none", "queued"}
    BY <1>3, DispatchIsFirst DEF LifetimeInv, StatusMatchesAggregator
  <2>2. L' = [L EXCEPT ![r] = "live"]
    BY <1>0, <1>3, <2>1 DEF DispatchStep, lifeOf
  <2>3. V' = V
    BY <1>0, <1>3, <2>1 DEF DispatchStep, verdictOf
  <2>4. Cardinality(LC!Live) < MaxRuns
    BY <1>0, <1>3, LiveAreSlots DEF DispatchStep
  <2>5. LC!goLive(r)
    BY <2>2, <2>3, <2>4, CardSame DEF LC!goLive
  <2>6. CASE status[r] = "none" /\ queue' = queue
    <3>1. L[r] = "new"
      BY <2>6, <1>a
    <3> QED
      BY <2>5, <2>6, <3>1 DEF LC!Admit
  <2>7. CASE queue # <<>> /\ r = Head(queue) /\ queue' = Tail(queue)
    <3>1. queue \in Seq(Run)
      BY DEF LifetimeInv, TypeOK, ServiceTypeOK
    <3>2. Head(queue) = queue[1] /\ 1 \in 1..Len(queue)
      BY <2>7, <3>1
    <3>3. status[r] = "queued"
      BY <2>7, <3>2 DEF LifetimeInv, QueueConsistent
    <3>4. L[r] = "waiting"
      BY <3>3, <1>a
    <3> QED
      BY <2>5, <2>7, <3>4 DEF LC!ServeLine
  <2> QED
    BY <1>3, <2>6, <2>7 DEF DispatchStep
<1>4. ASSUME NEW r \in Run, FinalizeStep(r)
      PROVE  \E v \in {"completed", "aborted"} : LC!Finish(r, v)
  <2>1. PICK v \in {"completed", "aborted"} : finalizeLocked(r, v)
    BY <1>4 DEF FinalizeStep
  <2>2. agg[r] # "none" /\ r \notin ended /\ queue' = queue
        /\ status[r] \in {"running", "completed", "aborted"}
    BY <1>4, <1>0 DEF FinalizeStep, LifetimeInv, StatusMatchesAggregator, Status
  <2>3. L[r] = "live"
    BY <2>2 DEF lifeOf
  <2>4. L' = [L EXCEPT ![r] = "over"]
    BY <1>0, <2>1, <2>2 DEF finalizeLocked, lifeOf, AggState
  <2>5. V' = [V EXCEPT ![r] = IF V[r] = "none" THEN v ELSE V[r]]
    BY <1>0, <2>1, <2>2 DEF finalizeLocked, verdictOf
  <2> QED
    BY <2>2, <2>3, <2>4, <2>5 DEF LC!Finish
<1>5. ASSUME NEW r \in Run, AbortStep(r) PROVE LC!Abort(r)
  <2>1. L[r] \in {"live", "over"}
    BY <1>5 DEF AbortStep, lifeOf
  <2>2. V' = [V EXCEPT ![r] = "aborted"]
    BY <1>0, <1>5 DEF AbortStep, verdictOf
  <2>3. status[r] \notin {"none", "queued"}
    BY <1>5 DEF AbortStep, LifetimeInv, StatusMatchesAggregator
  <2>4. L' = L /\ queue' = queue
    BY <1>0, <1>5, <2>3 DEF AbortStep, lifeOf
  <2> QED
    BY <2>1, <2>2, <2>4 DEF LC!Abort
<1>6. ASSUME NEW r \in Run, CloseStep(r) PROVE UNCHANGED LC!lifeVars
  <2>1. L' = L /\ V' = V /\ queue' = queue
    BY <1>0, <1>6 DEF CloseStep, lifeOf, verdictOf
  <2> QED
    BY <2>1 DEF LC!lifeVars
<1> QED
  BY <1>1, <1>2, <1>3, <1>4, <1>5, <1>6 DEF RunStep, LC!LifeNext

\* At first no run is known.
LEMMA LifeInitial == ClusterInit => LC!LifeInit
BY DEF ClusterInit, Init, LC!LifeInit, lifeOf, verdictOf

\* Cluster implements RunLifecycle: StartRun and drainLocked admit a run once, in
\* its turn and within maxRuns, finalizeLocked ends it once, and its verdict stays,
\* whatever streams, workers and timers do.
THEOREM LifecycleHolds == LifetimeSpec => Lifecycle
<1>1. ClusterInit => LC!LifeInit
  BY LifeInitial
<1>2. LifetimeInv /\ LifetimeInv' /\ [LifetimeNext]_vars => [LC!LifeNext]_(LC!lifeVars)
  BY EveryStepIsRunStep, LifeStep
<1> QED
  BY <1>1, <1>2, LifetimeInvariant, PTL DEF LifetimeSpec, Lifecycle, LC!LifeSpec

-----------------------------------------------------------------------------
(* What the workers of a run owe the coordinator                           *)

\* Is an assignment of r in the channel s?
Assigns(s, r) == \E i \in 1..Len(s) : s[i].kind = "assign" /\ s[i].run = r

\* Is a Finished for r in the buffer q?
Reports(q, r) == \E i \in 1..Len(q) : q[i].kind = "finished" /\ q[i].run = r

\* No run is assigned twice in the channel s.
Unique(s) ==
    \A i, j \in 1..Len(s) :
        s[i].kind = "assign" /\ s[j].kind = "assign" /\ s[i].run = s[j].run => i = j

\* No two goroutines of ts are of the same run.
Single(ts) == \A t, u \in ts : t.run = u.run => t = u

\* Worker w may still generate load for r.
Owes(w, r) ==
    \/ Assigns(send[w], r)
    \/ \E t \in tasks[w] : t.run = r /\ t.phase # "finishing"

\* An assignment is in a channel or has become a goroutine, once.
OnceInv ==
    \A w \in Worker : /\ Unique(send[w])
                      /\ Single(tasks[w])
                      /\ \A t \in tasks[w] : ~Assigns(send[w], t.run)

\* Who may generate load is among the run's workers and has not reported.
OwesInv ==
    \A w \in Worker, r \in Run :
        Owes(w, r) => w \in assigned[r] \ finished[r] /\ ~Reports(up[w], r)

\* Only the run's workers report or have reported.
ReportInv ==
    \A r \in Run : /\ finished[r] \subseteq assigned[r]
                   /\ \A w \in Worker : Reports(up[w], r) => w \in assigned[r]

\* For a COMPLETED run nobody can generate load.
QuietInv == \A r \in Run : status[r] = "completed" => \A w \in Worker : ~Owes(w, r)

\* The inductive invariant about the work in progress.
WorkInv == OnceInv /\ OwesInv /\ ReportInv /\ QuietInv

\* Appending to a channel.
LEMMA AssignsAppend ==
    ASSUME NEW s \in Seq(Msg), NEW m \in Msg
    PROVE  /\ \A r : Assigns(Append(s, m), r) => Assigns(s, r) \/ (m.kind = "assign" /\ m.run = r)
           /\ Unique(s) /\ (m.kind = "assign" => ~Assigns(s, m.run)) => Unique(Append(s, m))
<1>1. /\ Len(Append(s, m)) = Len(s) + 1 /\ Len(s) \in Nat
      /\ \A i \in 1..Len(s) : Append(s, m)[i] = s[i]
      /\ Append(s, m)[Len(s) + 1] = m
  OBVIOUS
<1>2. ASSUME NEW r, Assigns(Append(s, m), r)
      PROVE  Assigns(s, r) \/ (m.kind = "assign" /\ m.run = r)
  <2>1. PICK i \in 1..Len(s) + 1 : Append(s, m)[i].kind = "assign" /\ Append(s, m)[i].run = r
    BY <1>1, <1>2 DEF Assigns
  <2>2. CASE i \in 1..Len(s)
    BY <1>1, <2>1, <2>2 DEF Assigns
  <2>3. CASE i = Len(s) + 1
    BY <1>1, <2>1, <2>3
  <2> QED
    BY <1>1, <2>2, <2>3
<1>3. ASSUME Unique(s), m.kind = "assign" => ~Assigns(s, m.run)
      PROVE  Unique(Append(s, m))
  <2>1. SUFFICES ASSUME NEW i \in 1..Len(s) + 1, NEW j \in 1..Len(s) + 1,
                        Append(s, m)[i].kind = "assign", Append(s, m)[j].kind = "assign",
                        Append(s, m)[i].run = Append(s, m)[j].run
                 PROVE  i = j
    BY <1>1 DEF Unique
  <2>2. CASE i \in 1..Len(s) /\ j \in 1..Len(s)
    BY <1>1, <1>3, <2>1, <2>2 DEF Unique
  <2>3. CASE i \in 1..Len(s) /\ j = Len(s) + 1
    BY <1>1, <1>3, <2>1, <2>3 DEF Assigns
  <2>4. CASE i = Len(s) + 1 /\ j \in 1..Len(s)
    BY <1>1, <1>3, <2>1, <2>4 DEF Assigns
  <2> QED
    BY <1>1, <2>2, <2>3, <2>4
<1> QED
  BY <1>2, <1>3

\* Taking the first message of a channel.
LEMMA AssignsTail ==
    ASSUME NEW s \in Seq(Msg), s # <<>>
    PROVE  /\ \A r : Assigns(Tail(s), r) => Assigns(s, r)
           /\ Unique(s) => Unique(Tail(s))
           /\ Head(s).kind = "assign" => Assigns(s, Head(s).run)
           /\ Head(s).kind = "assign" /\ Unique(s) => ~Assigns(Tail(s), Head(s).run)
<1>1. /\ Len(Tail(s)) = Len(s) - 1 /\ Len(s) \in Nat \ {0} /\ Head(s) = s[1]
      /\ \A i \in 1..Len(s) - 1 : Tail(s)[i] = s[i + 1]
  OBVIOUS
<1>2. \A r : Assigns(Tail(s), r) => Assigns(s, r)
  BY <1>1 DEF Assigns
<1>3. Unique(s) => Unique(Tail(s))
  BY <1>1 DEF Unique
<1>4. Head(s).kind = "assign" => Assigns(s, Head(s).run)
  BY <1>1 DEF Assigns
<1>5. ASSUME Head(s).kind = "assign", Unique(s), Assigns(Tail(s), Head(s).run) PROVE FALSE
  BY <1>1, <1>5 DEF Unique, Assigns
<1> QED
  BY <1>2, <1>3, <1>4, <1>5

\* Appending to a buffer.
LEMMA ReportsAppend ==
    ASSUME NEW q \in Seq(WMsg), NEW m \in WMsg
    PROVE  \A r : Reports(Append(q, m), r) => Reports(q, r) \/ (m.kind = "finished" /\ m.run = r)
<1>1. /\ Len(Append(q, m)) = Len(q) + 1 /\ Len(q) \in Nat
      /\ \A i \in 1..Len(q) : Append(q, m)[i] = q[i]
      /\ Append(q, m)[Len(q) + 1] = m
  OBVIOUS
<1>2. SUFFICES ASSUME NEW r, Reports(Append(q, m), r)
               PROVE  Reports(q, r) \/ (m.kind = "finished" /\ m.run = r)
  OBVIOUS
<1>3. PICK i \in 1..Len(q) + 1 : Append(q, m)[i].kind = "finished" /\ Append(q, m)[i].run = r
  BY <1>1, <1>2 DEF Reports
<1>4. CASE i \in 1..Len(q)
  BY <1>1, <1>3, <1>4 DEF Reports
<1>5. CASE i = Len(q) + 1
  BY <1>1, <1>3, <1>5
<1> QED
  BY <1>1, <1>4, <1>5

\* Taking the first message of a buffer.
LEMMA ReportsTail ==
    ASSUME NEW q \in Seq(WMsg), q # <<>>
    PROVE  /\ \A r : Reports(Tail(q), r) => Reports(q, r)
           /\ Head(q).kind = "finished" => Reports(q, Head(q).run)
<1>1. /\ Len(Tail(q)) = Len(q) - 1 /\ Len(q) \in Nat \ {0} /\ Head(q) = q[1]
      /\ \A i \in 1..Len(q) - 1 : Tail(q)[i] = q[i + 1]
  OBVIOUS
<1>2. ASSUME NEW r, Reports(Tail(q), r) PROVE Reports(q, r)
  <2>1. PICK i \in 1..Len(Tail(q)) : Tail(q)[i].kind = "finished" /\ Tail(q)[i].run = r
    BY <1>2 DEF Reports
  <2>2. i + 1 \in 1..Len(q) /\ q[i + 1] = Tail(q)[i]
    BY <1>1, <2>1
  <2> QED
    BY <2>1, <2>2 DEF Reports
<1>3. Head(q).kind = "finished" => Reports(q, Head(q).run)
  BY <1>1 DEF Reports
<1> QED
  BY <1>2, <1>3

\* Losing the first messages of a buffer.
LEMMA ReportsSuffix ==
    ASSUME NEW q \in Seq(WMsg), NEW k \in 0..Len(q)
    PROVE  \A r : Reports(SubSeq(q, k + 1, Len(q)), r) => Reports(q, r)
<1>1. /\ Len(q) \in Nat /\ Len(SubSeq(q, k + 1, Len(q))) = Len(q) - k
      /\ \A i \in 1..Len(q) - k : SubSeq(q, k + 1, Len(q))[i] = q[i + k]
  OBVIOUS
<1> QED
  BY <1>1 DEF Reports

\* What most steps do to the work in progress: nothing new is assigned or
\* reported, goroutines only move on, and no run becomes COMPLETED.
ChannelsShrink ==
    \A w \in Worker : /\ Unique(send[w]) => Unique(send'[w])
                      /\ \A r \in Run : Assigns(send'[w], r) => Assigns(send[w], r)
TasksMoveOn ==
    \A w \in Worker :
        /\ Single(tasks[w]) => Single(tasks'[w])
        /\ \A t \in tasks'[w] : \E u \in tasks[w] :
              t.run = u.run /\ (t.phase # "finishing" => u.phase # "finishing")
ReportsShrink ==
    \A w \in Worker, r \in Run : Reports(up'[w], r) => Reports(up[w], r)
LedgerKept ==
    \A r \in Run : /\ finished'[r] = finished[r]
                   /\ assigned[r] \subseteq assigned'[r]
                   /\ status'[r] = "completed" => status[r] = "completed"

\* Such a step keeps the invariant.
LEMMA WorkKept ==
    ASSUME WorkInv, TypeOK, TypeOK',
           ChannelsShrink, TasksMoveOn, ReportsShrink, LedgerKept
    PROVE  WorkInv'
<1>0. \A w \in Worker : \A t \in tasks'[w] : t.run \in Run
  BY DEF TypeOK, WorkerTypeOK, Task
<1>1. OnceInv'
  BY <1>0 DEF WorkInv, OnceInv, ChannelsShrink, TasksMoveOn
<1>2. \A w \in Worker, r \in Run : Owes(w, r)' => Owes(w, r)
  BY DEF Owes, ChannelsShrink, TasksMoveOn
<1>3. OwesInv'
  BY <1>2 DEF WorkInv, OwesInv, ReportsShrink, LedgerKept
<1>4. ReportInv'
  BY DEF WorkInv, ReportInv, ReportsShrink, LedgerKept
<1>5. QuietInv'
  BY <1>2 DEF WorkInv, QuietInv, LedgerKept
<1> QED
  BY <1>1, <1>3, <1>4, <1>5 DEF WorkInv

\* What a step leaves alone has not grown.
LEMMA Unmoved ==
    /\ send' = send => ChannelsShrink
    /\ tasks' = tasks => TasksMoveOn
    /\ up' = up => ReportsShrink
    /\ status' = status /\ finished' = finished /\ assigned' = assigned => LedgerKept
<1>1. ASSUME send' = send PROVE ChannelsShrink
  BY <1>1 DEF ChannelsShrink
<1>2. ASSUME tasks' = tasks PROVE TasksMoveOn
  BY <1>2 DEF TasksMoveOn
<1>3. ASSUME up' = up PROVE ReportsShrink
  BY <1>3 DEF ReportsShrink
<1>4. ASSUME status' = status, finished' = finished, assigned' = assigned PROVE LedgerKept
  BY <1>4 DEF LedgerKept
<1> QED
  BY <1>1, <1>2, <1>3, <1>4

\* dispatchLocked on a run that nobody knows yet: those it assigns owe their share.
LEMMA DispatchWork ==
    ASSUME WorkInv, LifetimeInv, TypeOK', NEW r \in Run, agg[r] = "none", dispatchLocked(r),
           UNCHANGED <<up, tasks>>
    PROVE  WorkInv'
<1> DEFINE m == [kind |-> "assign", run |-> r, seq |-> dispatches[r] + 1]
<1>0. /\ TypeOK /\ status \in [Run -> Status] /\ assigned \in [Run -> SUBSET Worker]
      /\ finished \in [Run -> SUBSET Worker] /\ send \in [Worker -> Seq(Msg)]
      /\ up \in [Worker -> Seq(WMsg)]
  BY DEF LifetimeInv, TypeOK, RunTypeOK, ServiceTypeOK, WorkerTypeOK
<1>1. PICK got :
        /\ send' = [w \in Worker |-> IF w \in got THEN Append(send[w], m) ELSE send[w]]
        /\ assigned' = [assigned EXCEPT ![r] = got]
        /\ finished' = [finished EXCEPT ![r] = {}]
        /\ status' = [status EXCEPT ![r] = "running"]
  BY DEF dispatchLocked, dispatched
<1>2. m \in Msg /\ m.run = r /\ m.kind = "assign"
  BY <1>0 DEF TypeOK, ServiceTypeOK, Msg
<1> HIDE DEF m
<1>3. \A w \in Worker : ~Assigns(send[w], r) /\ (\A t \in tasks[w] : t.run # r)
                        /\ ~Reports(up[w], r)
  BY DEF LifetimeInv, AggregatorForEveryRun, Assigns, Reports
<1>4. \A w \in Worker : /\ Unique(send[w]) => Unique(send'[w])
                        /\ \A x \in Run : Assigns(send'[w], x) =>
                              Assigns(send[w], x) \/ (x = r /\ w \in got)
  <2>1. SUFFICES ASSUME NEW w \in Worker
                 PROVE  /\ Unique(send[w]) => Unique(send'[w])
                        /\ \A x \in Run : Assigns(send'[w], x) =>
                              Assigns(send[w], x) \/ (x = r /\ w \in got)
    OBVIOUS
  <2>2. CASE w \in got
    <3>1. send'[w] = Append(send[w], m) /\ send[w] \in Seq(Msg)
      BY <1>0, <1>1, <2>2
    <3> QED
      BY <1>2, <1>3, <2>2, <3>1, AssignsAppend
  <2>3. CASE w \notin got
    <3>1. send'[w] = send[w]
      BY <1>0, <1>1, <2>3
    <3> QED
      BY <3>1
  <2> QED
    BY <2>2, <2>3
<1>5. \A w \in Worker : \A t \in tasks[w] : t.run \in Run
  BY <1>0 DEF TypeOK, WorkerTypeOK, Task
<1>6. OnceInv'
  BY <1>3, <1>4, <1>5 DEF WorkInv, OnceInv
<1>7. \A w \in Worker, x \in Run : Owes(w, x)' => IF x = r THEN w \in got ELSE Owes(w, x)
  BY <1>3, <1>4 DEF Owes
<1>8. \A x \in Run : /\ assigned'[x] = IF x = r THEN got ELSE assigned[x]
                     /\ finished'[x] = IF x = r THEN {} ELSE finished[x]
                     /\ status'[x] = IF x = r THEN "running" ELSE status[x]
  BY <1>0, <1>1
<1>9. OwesInv'
  BY <1>3, <1>7, <1>8 DEF WorkInv, OwesInv
<1>10. ReportInv'
  BY <1>3, <1>8 DEF WorkInv, ReportInv
<1>11. QuietInv'
  BY <1>7, <1>8 DEF WorkInv, QuietInv
<1> QED
  BY <1>6, <1>9, <1>10, <1>11 DEF WorkInv

\* A Stop in a channel is not an assignment.
LEMMA SignalShrinks ==
    ASSUME TypeOK, NEW r \in Run, SignalStop(r)
    PROVE  ChannelsShrink
<1> DEFINE m == [kind |-> "stop", run |-> r, seq |-> 0]
<1>0. send \in [Worker -> Seq(Msg)]
  BY DEF TypeOK, ServiceTypeOK
<1>1. PICK got : send' = [w \in Worker |-> IF w \in got THEN Append(send[w], m) ELSE send[w]]
  BY DEF SignalStop
<1>2. m \in Msg /\ m.kind # "assign"
  BY DEF Msg
<1> HIDE DEF m
<1>3. SUFFICES ASSUME NEW w \in Worker
               PROVE  /\ Unique(send[w]) => Unique(send'[w])
                      /\ \A x \in Run : Assigns(send'[w], x) => Assigns(send[w], x)
  BY DEF ChannelsShrink
<1>4. send[w] \in Seq(Msg) /\ (send'[w] = send[w] \/ send'[w] = Append(send[w], m))
  BY <1>0, <1>1
<1>5. /\ Unique(send[w]) => Unique(Append(send[w], m))
      /\ \A x : Assigns(Append(send[w], m), x) => Assigns(send[w], x)
  BY <1>2, <1>4, AssignsAppend
<1> QED
  BY <1>4, <1>5

\* The coordinator's own steps.
LEMMA WorkCoordinatorStep ==
    ASSUME WorkInv, LifetimeInv, LifetimeInv', RunStep, CoordinatorStep
    PROVE  WorkInv'
<1>0. TypeOK /\ TypeOK'
  BY DEF LifetimeInv
<1>a. /\ status \in [Run -> Status] /\ assigned \in [Run -> SUBSET Worker]
      /\ finished \in [Run -> SUBSET Worker]
  BY DEF LifetimeInv, TypeOK, RunTypeOK
<1>1. UNCHANGED <<up, tasks>>
  BY DEF CoordinatorStep, workerVars
<1>2. TasksMoveOn /\ ReportsShrink
  BY <1>1, Unmoved
<1>3. ASSUME ChannelsShrink, LedgerKept PROVE WorkInv'
  BY <1>0, <1>2, <1>3, WorkKept
<1>4. ASSUME NEW r \in Run, StartRun(r) PROVE WorkInv'
  <2>1. agg[r] = "none"
    BY <1>4 DEF StartRun, LifetimeInv, StatusMatchesAggregator
  <2>2. CASE dispatchLocked(r)
    BY <1>0, <1>1, <2>1, <2>2, DispatchWork
  <2>3. CASE /\ status' = [status EXCEPT ![r] = "queued"]
             /\ UNCHANGED <<send, assigned, finished>>
    <3>1. LedgerKept
      BY <1>a, <2>3 DEF LedgerKept
    <3> QED
      BY <1>3, <2>3, <3>1, Unmoved
  <2> QED
    BY <1>4, <2>2, <2>3 DEF StartRun
<1>5. ASSUME DrainDispatch PROVE WorkInv'
  <2>1. queue \in Seq(Run) /\ queue # <<>>
    BY <1>0, <1>5 DEF DrainDispatch, TypeOK, ServiceTypeOK
  <2>2. Head(queue) = queue[1] /\ 1 \in 1..Len(queue) /\ Head(queue) \in Run
    BY <2>1
  <2>3. agg[Head(queue)] = "none"
    BY <2>2 DEF LifetimeInv, QueueConsistent, StatusMatchesAggregator
  <2> QED
    BY <1>0, <1>1, <1>5, <2>2, <2>3, DispatchWork DEF DrainDispatch
<1>6. ASSUME NEW r \in Run, SignalStop(r) PROVE WorkInv'
  <2>1. LedgerKept
    BY <1>6, Unmoved DEF SignalStop, runVars
  <2> QED
    BY <1>0, <1>3, <1>6, <2>1, SignalShrinks
<1>7. ASSUME NEW r \in Run, StopTimeout(r) \/ ReapFinalize(r) PROVE WorkInv'
  <2>1. /\ UNCHANGED <<assigned, finished, send>>
        /\ \/ status' = status
           \/ status' = [status EXCEPT ![r] = IF status[r] = "running" THEN "aborted"
                                                                     ELSE status[r]]
    BY <1>7 DEF StopTimeout, ReapFinalize, forceFinalize, finalizeLocked
  <2>2. LedgerKept
    BY <1>a, <2>1 DEF LedgerKept
  <2> QED
    BY <1>3, <2>1, <2>2, Unmoved
<1>8. ASSUME NEW r \in Run, StopRun(r) \/ AutoStopRun(r) PROVE WorkInv'
  <2>1. /\ UNCHANGED <<assigned, finished, send>>
        /\ status' = status \/ status' = [status EXCEPT ![r] = "aborted"]
    BY <1>8 DEF StopRun, AutoStopRun
  <2>2. LedgerKept
    BY <1>a, <2>1 DEF LedgerKept
  <2> QED
    BY <1>3, <2>1, <2>2, Unmoved
<1>9. ASSUME \/ \E r \in Run : AggregatorExit(r)
             \/ DrainExit \/ \E late \in SUBSET lost : ReapScan(late)
             \/ \E w \in Worker : Touch(w)
      PROVE  WorkInv'
  <2>1. UNCHANGED <<status, assigned, finished, send>>
    BY <1>9 DEF AggregatorExit, DrainExit, ReapScan, Touch, runVars
  <2> QED
    BY <1>3, <2>1, Unmoved
<1> QED
  BY <1>4, <1>5, <1>6, <1>7, <1>8, <1>9 DEF CoordinatorStep

\* The first message of a buffer is taken off.
LEMMA TakenShrinks ==
    ASSUME TypeOK, NEW w \in Worker, up[w] # <<>>, taken(w)
    PROVE  ReportsShrink
<1>0. up \in [Worker -> Seq(WMsg)]
  BY DEF TypeOK, WorkerTypeOK
<1>1. \A x \in Worker : up'[x] = IF x = w THEN Tail(up[w]) ELSE up[x]
  BY <1>0 DEF taken
<1>2. \A r : Reports(Tail(up[w]), r) => Reports(up[w], r)
  BY <1>0, ReportsTail
<1> QED
  BY <1>1, <1>2 DEF ReportsShrink

\* A channel is emptied.
LEMMA ClearedShrinks ==
    ASSUME TypeOK, NEW w \in Worker, send' = [send EXCEPT ![w] = <<>>]
    PROVE  ChannelsShrink
<1>0. send \in [Worker -> Seq(Msg)]
  BY DEF TypeOK, ServiceTypeOK
<1>1. \A x \in Worker : send'[x] = IF x = w THEN <<>> ELSE send[x]
  BY <1>0
<1>2. Unique(<<>>) /\ \A r : ~Assigns(<<>>, r)
  BY DEF Unique, Assigns
<1> QED
  BY <1>1, <1>2 DEF ChannelsShrink

\* Steps of a stream's handler.  The Finished that completes a run is the last one
\* owed: those who reported are among those assigned, and as many.
LEMMA WorkStreamStep ==
    ASSUME WorkInv, LifetimeInv, LifetimeInv', NEW w \in Worker, StreamStep(w)
    PROVE  WorkInv'
<1>0. TypeOK /\ TypeOK'
  BY DEF LifetimeInv
<1>a. /\ status \in [Run -> Status] /\ assigned \in [Run -> SUBSET Worker]
      /\ finished \in [Run -> SUBSET Worker] /\ up \in [Worker -> Seq(WMsg)]
  BY DEF LifetimeInv, TypeOK, RunTypeOK, WorkerTypeOK
<1>1. ASSUME RegisterAdd(w) PROVE WorkInv'
  <2>1. /\ up[w] # <<>> /\ taken(w) /\ send' = [send EXCEPT ![w] = <<>>]
        /\ UNCHANGED <<status, assigned, finished, tasks>>
    BY <1>1 DEF RegisterAdd, arrived, Add, runVars
  <2> QED
    BY <1>0, <2>1, Unmoved, TakenShrinks, ClearedShrinks, WorkKept
<1>2. ASSUME RegisterRehydrate(w) PROVE WorkInv'
  <2> DEFINE active == handler[w].active
  <2>1. active \in SUBSET Run /\ \A r \in active : agg[r] # "none"
    BY <1>0 DEF TypeOK, WorkerTypeOK, Handler, LifetimeInv, AggregatorForEveryRun
  <2>2. Rehydrate(w, active) /\ UNCHANGED <<up, tasks, send>>
    BY <1>2 DEF RegisterRehydrate, Rehydrate
  <2>3. unknown(active) = {}
    BY <2>1 DEF unknown
  <2>4. \A r \in Run : /\ status'[r] = status[r] /\ finished'[r] = finished[r]
                       /\ assigned[r] \subseteq assigned'[r]
    BY <1>a, <2>2, <2>3 DEF Rehydrate
  <2>5. LedgerKept
    BY <2>4 DEF LedgerKept
  <2> QED
    BY <1>0, <2>2, <2>5, Unmoved, WorkKept
<1>3. ASSUME RegisterDrain(w) \/ Teardown(w) PROVE WorkInv'
  <2>1. UNCHANGED <<status, assigned, finished, up, tasks, send>>
    BY <1>3 DEF RegisterDrain, Teardown, BeginDrain, Remove, runVars
  <2> QED
    BY <1>0, <2>1, Unmoved, WorkKept
<1>4. ASSUME ReceiveFinished(w) PROVE WorkInv'
  <2> DEFINE r == Head(up[w]).run
  <2>1. /\ up[w] # <<>> /\ Head(up[w]).kind = "finished" /\ taken(w) /\ WorkerFinished(w, r)
        /\ UNCHANGED <<tasks, send, assigned>>
    BY <1>4 DEF ReceiveFinished, arrived, WorkerFinished
  <2>2. r \in Run
    BY <1>0, <2>1, ArrivedType
  <2>3. Reports(up[w], r)
    BY <1>a, <2>1, ReportsTail
  <2> HIDE DEF r
  <2>4. w \in assigned[r] /\ ~Owes(w, r)
    BY <2>2, <2>3 DEF WorkInv, ReportInv, OwesInv
  <2>5. ReportsShrink
    BY <1>0, <2>1, TakenShrinks
  <2>6. finished' = finished \/ finished' = [finished EXCEPT ![r] = finished[r] \cup {w}]
    BY <2>1 DEF WorkerFinished
  <2>7. \A x \in Run : finished'[x] \subseteq finished[x] \cup (IF x = r THEN {w} ELSE {})
    BY <1>a, <2>6
  <2>8. OnceInv'
    BY <2>1 DEF WorkInv, OnceInv
  <2>9. \A y \in Worker, x \in Run : Owes(y, x)' <=> Owes(y, x)
    BY <2>1 DEF Owes
  <2>10. OwesInv'
    BY <2>1, <2>4, <2>5, <2>7, <2>9 DEF WorkInv, OwesInv, ReportsShrink
  <2>11. ReportInv'
    BY <2>1, <2>4, <2>5, <2>7 DEF WorkInv, ReportInv, ReportsShrink
  <2>12. QuietInv'
    <3>1. SUFFICES ASSUME NEW x \in Run, status'[x] = "completed", status[x] # "completed"
                   PROVE  \A y \in Worker : ~Owes(y, x)
      BY <2>9 DEF WorkInv, QuietInv
    <3>2. /\ x = r
          /\ Cardinality(finished'[r]) >= Cardinality(assigned[r])
      BY <1>a, <2>1, <3>1 DEF WorkerFinished, finalizeLocked
    <3>3. finished'[r] \subseteq assigned[r] /\ IsFiniteSet(assigned[r])
      BY <1>a, <2>2, <2>11, <2>1, WorkerAssumption, FS_Subset DEF ReportInv
    <3>4. finished'[r] = assigned[r]
      BY <3>2, <3>3, FS_Subset, FS_CardinalityType
    <3> QED
      BY <2>2, <2>9, <2>10, <2>1, <3>2, <3>4 DEF OwesInv
  <2> QED
    BY <2>8, <2>10, <2>11, <2>12 DEF WorkInv
<1> QED
  BY <1>1, <1>2, <1>3, <1>4 DEF StreamStep

\* Replacing the set of goroutines of one worker.
LEMMA TasksReplaced ==
    ASSUME TypeOK, NEW w \in Worker, NEW new, tasks' = [tasks EXCEPT ![w] = new],
           Single(tasks[w]) => Single(new),
           \A t \in new : \E u \in tasks[w] :
               t.run = u.run /\ (t.phase # "finishing" => u.phase # "finishing")
    PROVE  TasksMoveOn
<1>1. tasks \in [Worker -> SUBSET Task]
  BY DEF TypeOK, WorkerTypeOK
<1>2. \A x \in Worker : tasks'[x] = IF x = w THEN new ELSE tasks[x]
  BY <1>1
<1> QED
  BY <1>2 DEF TasksMoveOn

\* A goroutine goes on to its next phase.
LEMMA MovedOn ==
    ASSUME TypeOK, NEW w \in Worker, NEW t \in tasks[w], NEW p \in Phase, moved(w, t, p),
           t.phase # "finishing"
    PROVE  TasksMoveOn
<1> DEFINE n == [t EXCEPT !.phase = p]
<1>0. t \in Task
  BY DEF TypeOK, WorkerTypeOK
<1>1. n.run = t.run
  BY <1>0 DEF Task
<1>2. tasks' = [tasks EXCEPT ![w] = (tasks[w] \ {t}) \cup {n}]
  BY DEF moved
<1> HIDE DEF n
<1>3. Single(tasks[w]) => Single((tasks[w] \ {t}) \cup {n})
  BY <1>1 DEF Single
<1>4. \A x \in (tasks[w] \ {t}) \cup {n} : \E u \in tasks[w] :
         x.run = u.run /\ (x.phase # "finishing" => u.phase # "finishing")
  BY <1>1
<1> QED
  BY <1>2, <1>3, <1>4, TasksReplaced

\* A goroutine returns.
LEMMA Gone ==
    ASSUME TypeOK, NEW w \in Worker, NEW t, tasks' = [tasks EXCEPT ![w] = tasks[w] \ {t}]
    PROVE  TasksMoveOn
<1>1. Single(tasks[w]) => Single(tasks[w] \ {t})
  BY DEF Single
<1>2. \A x \in tasks[w] \ {t} : \E u \in tasks[w] :
         x.run = u.run /\ (x.phase # "finishing" => u.phase # "finishing")
  OBVIOUS
<1> QED
  BY <1>1, <1>2, TasksReplaced

\* The first message of a channel is taken off.
LEMMA ReceivedShrinks ==
    ASSUME TypeOK, NEW w \in Worker, send[w] # <<>>, received(w)
    PROVE  ChannelsShrink
<1>0. send \in [Worker -> Seq(Msg)]
  BY DEF TypeOK, ServiceTypeOK
<1>1. \A x \in Worker : send'[x] = IF x = w THEN Tail(send[w]) ELSE send[x]
  BY <1>0 DEF received
<1>2. /\ Unique(send[w]) => Unique(Tail(send[w]))
      /\ \A r : Assigns(Tail(send[w]), r) => Assigns(send[w], r)
  BY <1>0, AssignsTail
<1> QED
  BY <1>1, <1>2 DEF ChannelsShrink

\* The effect of enqueue on what a worker reports.
LEMMA EnqueueReports ==
    ASSUME TypeOK, NEW w \in Worker, NEW m \in WMsg, enqueue(w, m)
    PROVE  \A x \in Worker, r \in Run :
              Reports(up'[x], r) =>
                 Reports(up[x], r) \/ (x = w /\ m.kind = "finished" /\ m.run = r)
<1>0. up \in [Worker -> Seq(WMsg)]
  BY DEF TypeOK, WorkerTypeOK
<1>1. CASE up' = up
  BY <1>1
<1>2. CASE up' = [up EXCEPT ![w] = Append(up[w], m)]
  <2>1. \A x \in Worker : up'[x] = IF x = w THEN Append(up[w], m) ELSE up[x]
    BY <1>0, <1>2
  <2>2. \A r : Reports(Append(up[w], m), r) =>
                  Reports(up[w], r) \/ (m.kind = "finished" /\ m.run = r)
    BY <1>0, ReportsAppend
  <2> QED
    BY <2>1, <2>2
<1> QED
  BY <1>1, <1>2 DEF enqueue

\* Steps of the worker's agent.  EndTask settles what the worker owes, as there is
\* no second goroutine and no second assignment of the run.
LEMMA WorkAgentStep ==
    ASSUME WorkInv, LifetimeInv, LifetimeInv', NEW w \in Worker, AgentStep(w)
    PROVE  WorkInv'
<1>0. TypeOK /\ TypeOK'
  BY DEF LifetimeInv
<1>a. send \in [Worker -> Seq(Msg)] /\ tasks \in [Worker -> SUBSET Task]
  BY <1>0 DEF TypeOK, ServiceTypeOK, WorkerTypeOK
<1>b. UNCHANGED <<status, assigned, finished>>
  BY DEF AgentStep, AgentWork, Connect, ReceiveAssignment, ReceiveStop, StartTask, BeginTask,
     EndTask, FinishTask, coordVars, runVars
<1>c. LedgerKept
  BY <1>b, Unmoved
<1>1. ASSUME Connect(w) PROVE WorkInv'
  <2> DEFINE m == [kind |-> "register", active |-> activeRuns(w)]
  <2>1. enqueue(w, m) /\ UNCHANGED <<tasks, send>>
    BY <1>1 DEF Connect, coordVars
  <2>2. m \in WMsg /\ m.kind # "finished"
    BY DEF WMsg, activeRuns
  <2> HIDE DEF m
  <2>3. ReportsShrink
    BY <1>0, <2>1, <2>2, EnqueueReports DEF ReportsShrink
  <2> QED
    BY <1>0, <1>c, <2>1, <2>3, Unmoved, WorkKept
<1>2. ASSUME ReceiveAssignment(w) PROVE WorkInv'
  <2> DEFINE t == [run |-> Head(send[w]).run, seq |-> Head(send[w]).seq,
                   phase |-> "starting"]
             r == Head(send[w]).run
  <2>1. /\ send[w] # <<>> /\ Head(send[w]).kind = "assign"
        /\ send' = [send EXCEPT ![w] = Tail(send[w])]
        /\ tasks' = [tasks EXCEPT ![w] = tasks[w] \cup {t}]
        /\ up' = up
    BY <1>2 DEF ReceiveAssignment, received, incoming
  <2>2. r \in Run /\ t.run = r /\ t.phase = "starting"
    <3>1. Head(send[w]) \in Msg
      BY <1>a, <2>1
    <3> QED
      BY <3>1 DEF Msg
  <2>3. /\ Assigns(send[w], r)
        /\ Unique(send[w]) => Unique(Tail(send[w])) /\ ~Assigns(Tail(send[w]), r)
        /\ \A x : Assigns(Tail(send[w]), x) => Assigns(send[w], x)
    BY <1>a, <2>1, AssignsTail
  <2> HIDE DEF r, t
  <2>4. \A x \in Worker : /\ send'[x] = IF x = w THEN Tail(send[w]) ELSE send[x]
                          /\ tasks'[x] = IF x = w THEN tasks[w] \cup {t} ELSE tasks[x]
    BY <1>a, <2>1
  <2>5. \A u \in tasks[w] : u.run # r
    BY <2>3 DEF WorkInv, OnceInv
  <2>6. Single(tasks[w] \cup {t})
    BY <2>2, <2>5 DEF WorkInv, OnceInv, Single
  <2>7. OnceInv'
    BY <2>2, <2>3, <2>4, <2>6 DEF WorkInv, OnceInv
  <2>8. \A x \in Worker, y \in Run : Owes(x, y)' => Owes(x, y)
    BY <2>2, <2>3, <2>4 DEF Owes
  <2>9. OwesInv' /\ ReportInv' /\ QuietInv'
    BY <1>b, <2>1, <2>8 DEF WorkInv, OwesInv, ReportInv, QuietInv
  <2> QED
    BY <2>7, <2>9 DEF WorkInv
<1>3. ASSUME ReceiveStop(w) PROVE WorkInv'
  <2>1. PICK gone \in SUBSET tasks[w] :
           /\ \A t \in gone : t.phase = "waiting"
           /\ tasks' = [tasks EXCEPT ![w] = (tasks[w] \ gone) \cup
                           {[t EXCEPT !.phase = "finishing"] : t \in gone}]
    BY <1>3 DEF ReceiveStop
  <2>2. send[w] # <<>> /\ received(w) /\ up' = up
    BY <1>3 DEF ReceiveStop, incoming
  <2> DEFINE fin(t) == [t EXCEPT !.phase = "finishing"]
             new == (tasks[w] \ gone) \cup {fin(t) : t \in gone}
  <2>3. \A t \in gone : fin(t).run = t.run /\ fin(t).phase = "finishing"
    BY <1>a DEF Task
  <2>4. tasks' = [tasks EXCEPT ![w] = new]
    BY <2>1
  <2>5. Single(tasks[w]) => Single(new)
    <3>1. SUFFICES ASSUME Single(tasks[w]), NEW x \in new, NEW y \in new, x.run = y.run
                   PROVE  x = y
      BY DEF Single
    <3>2. ASSUME NEW z \in new
          PROVE  \E u \in tasks[w] : /\ z.run = u.run
                                     /\ z = IF u \in gone THEN fin(u) ELSE u
      BY <2>1, <2>3
    <3>3. PICK u \in tasks[w] : x.run = u.run /\ x = IF u \in gone THEN fin(u) ELSE u
      BY <3>2
    <3>4. PICK v \in tasks[w] : y.run = v.run /\ y = IF v \in gone THEN fin(v) ELSE v
      BY <3>2
    <3>5. u = v
      BY <3>1, <3>3, <3>4 DEF Single
    <3> QED
      BY <3>3, <3>4, <3>5
  <2>6. \A x \in new : \E u \in tasks[w] :
           x.run = u.run /\ (x.phase # "finishing" => u.phase # "finishing")
    BY <2>1, <2>3
  <2> HIDE DEF new
  <2>7. TasksMoveOn
    BY <1>0, <2>4, <2>5, <2>6, TasksReplaced
  <2> QED
    BY <1>0, <1>c, <2>2, <2>7, Unmoved, ReceivedShrinks, WorkKept
<1>4. ASSUME NEW t \in tasks[w], StartTask(w, t) \/ BeginTask(w, t) \/ FinishTask(w, t)
      PROVE  WorkInv'
  <2>1. UNCHANGED <<send, up>>
    BY <1>4 DEF StartTask, BeginTask, FinishTask, coordVars
  <2>2. \/ tasks' = [tasks EXCEPT ![w] = tasks[w] \ {t}]
        \/ t.phase # "finishing" /\ \E p \in Phase : moved(w, t, p)
    BY <1>4 DEF StartTask, BeginTask, FinishTask, Phase
  <2>3. TasksMoveOn
    BY <1>0, <2>2, MovedOn, Gone
  <2> QED
    BY <1>0, <1>c, <2>1, <2>3, Unmoved, WorkKept
<1>5. ASSUME NEW t \in tasks[w], EndTask(w, t) PROVE WorkInv'
  <2> DEFINE m == [kind |-> "finished", run |-> t.run]
             n == [t EXCEPT !.phase = "finishing"]
  <2>1. /\ enqueue(w, m) /\ moved(w, t, "finishing") /\ send' = send
        /\ t.phase = "executing"
    BY <1>5 DEF EndTask, coordVars
  <2>2. t \in Task /\ t.run \in Run
    BY <1>a DEF Task
  <2>3. /\ m \in WMsg /\ m.run = t.run /\ n.run = t.run /\ n.phase = "finishing"
        /\ tasks' = [tasks EXCEPT ![w] = (tasks[w] \ {t}) \cup {n}]
    BY <2>1, <2>2 DEF WMsg, Task, moved
  <2> HIDE DEF m, n
  <2>4. TasksMoveOn
    BY <1>0, <2>1, MovedOn DEF Phase
  <2>5. ChannelsShrink
    BY <2>1, Unmoved
  <2>6. \A x \in Worker : \A u \in tasks'[x] : u.run \in Run
    BY <1>0 DEF TypeOK, WorkerTypeOK, Task
  <2>7. OnceInv'
    BY <2>4, <2>5, <2>6 DEF WorkInv, OnceInv, ChannelsShrink, TasksMoveOn
  <2>8. \A x \in Worker, y \in Run : Owes(x, y)' => Owes(x, y)
    BY <2>4, <2>5 DEF Owes, ChannelsShrink, TasksMoveOn
  <2>9. Owes(w, t.run)
    BY <2>1 DEF Owes
  <2>10. ~Owes(w, t.run)'
    <3>1. ~Assigns(send'[w], t.run)
      BY <2>1 DEF WorkInv, OnceInv
    <3>2. tasks'[w] = (tasks[w] \ {t}) \cup {n}
      BY <1>a, <2>3
    <3>3. \A u \in tasks[w] \ {t} : u.run # t.run
      BY DEF WorkInv, OnceInv, Single
    <3> QED
      BY <2>3, <3>1, <3>2, <3>3 DEF Owes
  <2>11. \A x \in Worker, y \in Run :
            Reports(up'[x], y) => Reports(up[x], y) \/ (x = w /\ y = t.run)
    BY <1>0, <2>1, <2>3, EnqueueReports
  <2>12. w \in assigned[t.run]
    BY <2>2, <2>9 DEF WorkInv, OwesInv
  <2>13. OwesInv'
    BY <1>b, <2>8, <2>10, <2>11 DEF WorkInv, OwesInv
  <2>14. ReportInv'
    BY <1>b, <2>11, <2>12 DEF WorkInv, ReportInv
  <2>15. QuietInv'
    BY <1>b, <2>8 DEF WorkInv, QuietInv
  <2> QED
    BY <2>7, <2>13, <2>14, <2>15 DEF WorkInv
<1> QED
  BY <1>1, <1>2, <1>3, <1>4, <1>5 DEF AgentStep, AgentWork

\* Broken streams and crashed workers only lose things.
LEMMA WorkFaultStep ==
    ASSUME WorkInv, LifetimeInv, LifetimeInv', NEW w \in Worker, BreakLink(w) \/ CrashWorker(w)
    PROVE  WorkInv'
<1>0. TypeOK /\ TypeOK' /\ up \in [Worker -> Seq(WMsg)]
  BY DEF LifetimeInv, TypeOK, WorkerTypeOK
<1>1. send' = [send EXCEPT ![w] = <<>>] /\ UNCHANGED <<status, assigned, finished>>
  BY DEF BreakLink, CrashWorker, broken, runVars
<1>2. ChannelsShrink /\ LedgerKept
  BY <1>0, <1>1, ClearedShrinks, Unmoved
<1>3. CASE BreakLink(w)
  <2>1. PICK k \in 0..Len(up[w]) : up' = [up EXCEPT ![w] = SubSeq(up[w], k + 1, Len(up[w]))]
    BY <1>3 DEF BreakLink, suffixes
  <2>2. tasks' = tasks
    BY <1>3 DEF BreakLink
  <2>3. \A r : Reports(SubSeq(up[w], k + 1, Len(up[w])), r) => Reports(up[w], r)
    BY <1>0, ReportsSuffix
  <2>4. \A x \in Worker : up'[x] = IF x = w THEN SubSeq(up[w], k + 1, Len(up[w])) ELSE up[x]
    BY <1>0, <2>1
  <2>5. ReportsShrink
    BY <2>3, <2>4 DEF ReportsShrink
  <2> QED
    BY <1>0, <1>2, <2>2, <2>5, Unmoved, WorkKept
<1>4. CASE CrashWorker(w)
  <2>1. up' = [up EXCEPT ![w] = <<>>] /\ tasks' = [tasks EXCEPT ![w] = {}]
    BY <1>4 DEF CrashWorker
  <2>2. \A x \in Worker : up'[x] = IF x = w THEN <<>> ELSE up[x]
    BY <1>0, <2>1
  <2>3. ReportsShrink
    BY <2>2 DEF ReportsShrink, Reports
  <2>4. TasksMoveOn
    <3>1. \A x \in Worker : tasks'[x] = IF x = w THEN {} ELSE tasks[x]
      BY <1>0, <2>1 DEF TypeOK, WorkerTypeOK
    <3> QED
      BY <3>1 DEF TasksMoveOn, Single
  <2> QED
    BY <1>0, <1>2, <2>3, <2>4, WorkKept
<1> QED
  BY <1>3, <1>4

\* Every step of a lifetime keeps the invariant.
LEMMA WorkStep ==
    ASSUME WorkInv, LifetimeInv, LifetimeInv', [LifetimeNext]_vars
    PROVE  WorkInv'
<1>1. CASE LifetimeNext
  BY <1>1, EveryStepIsRunStep, WorkCoordinatorStep, WorkStreamStep, WorkAgentStep, WorkFaultStep
     DEF LifetimeNext
<1>2. CASE UNCHANGED vars
  <2>1. UNCHANGED <<status, assigned, finished, up, tasks, send>> /\ TypeOK /\ TypeOK'
    BY <1>2 DEF vars, workerVars, coordVars, runVars, LifetimeInv
  <2> QED
    BY <2>1, Unmoved, WorkKept
<1> QED
  BY <1>1, <1>2

\* The invariant holds initially.
LEMMA WorkInit ==
    ASSUME ClusterInit
    PROVE  WorkInv
<1>1. /\ send = [w \in Worker |-> <<>>] /\ up = [w \in Worker |-> <<>>]
      /\ tasks = [w \in Worker |-> {}] /\ finished = [r \in Run |-> {}]
      /\ status = [r \in Run |-> "none"]
  BY DEF ClusterInit, Init
<1> QED
  BY <1>1 DEF WorkInv, OnceInv, OwesInv, ReportInv, QuietInv, Owes, Assigns, Reports, Unique, Single

\* Between two restarts the workers' debts are known to the coordinator.
THEOREM WorkInvariant == LifetimeSpec => []WorkInv
<1>1. ClusterInit => WorkInv
  BY WorkInit
<1>2. WorkInv /\ LifetimeInv /\ LifetimeInv' /\ [LifetimeNext]_vars => WorkInv'
  BY WorkStep
<1> QED
  BY <1>1, <1>2, LifetimeInvariant, PTL DEF LifetimeSpec

\* workerFinished calls a run COMPLETED only when no worker is about to start it or
\* executes it, whatever rehydrate added to its workers meanwhile.
THEOREM CompletedRunsAreQuiet == LifetimeSpec => []CompletedIsQuiet
<1>1. WorkInv => CompletedIsQuiet
  BY DEF WorkInv, QuietInv, CompletedIsQuiet, Owes, Assigns
<1> QED
  BY <1>1, WorkInvariant, PTL

\* startRun never executes a run a second time on a worker: a run is assigned to a
\* worker once in a lifetime, and the assignment is received once.
THEOREM ExecutedOnce == LifetimeSpec => []NoDoubleExecution
<1>1. WorkInv => NoDoubleExecution
  BY DEF WorkInv, OnceInv, NoDoubleExecution, Single
<1> QED
  BY <1>1, WorkInvariant, PTL

-----------------------------------------------------------------------------
(* The registry and the streams                                            *)

\* A Register appended to a buffer, or one that is not first, stays in it.
LEMMA RegisterKept ==
    ASSUME NEW q \in Seq(WMsg)
    PROVE  /\ \A m \in WMsg : m.kind = "register" =>
                 \E i \in 1..Len(Append(q, m)) : Append(q, m)[i].kind = "register"
           /\ \A m \in WMsg : (\E i \in 1..Len(q) : q[i].kind = "register") =>
                 \E i \in 1..Len(Append(q, m)) : Append(q, m)[i].kind = "register"
           /\ q # <<>> /\ Head(q).kind # "register"
                 /\ (\E i \in 1..Len(q) : q[i].kind = "register") =>
                 \E i \in 1..Len(Tail(q)) : Tail(q)[i].kind = "register"
<1>1. \A m \in WMsg : /\ Len(Append(q, m)) = Len(q) + 1 /\ Len(q) \in Nat
                      /\ \A i \in 1..Len(q) : Append(q, m)[i] = q[i]
                      /\ Append(q, m)[Len(q) + 1] = m
  OBVIOUS
<1>2. ASSUME NEW m \in WMsg, m.kind = "register"
      PROVE  \E i \in 1..Len(Append(q, m)) : Append(q, m)[i].kind = "register"
  <2>1. Len(q) + 1 \in 1..Len(Append(q, m))
    BY <1>1
  <2> QED
    BY <1>1, <1>2, <2>1
<1>3. ASSUME NEW m \in WMsg, NEW i \in 1..Len(q), q[i].kind = "register"
      PROVE  \E j \in 1..Len(Append(q, m)) : Append(q, m)[j].kind = "register"
  <2>1. i \in 1..Len(Append(q, m)) /\ Append(q, m)[i] = q[i]
    BY <1>1
  <2> QED
    BY <1>3, <2>1
<1>4. ASSUME q # <<>>, Head(q).kind # "register", NEW i \in 1..Len(q), q[i].kind = "register"
      PROVE  \E j \in 1..Len(Tail(q)) : Tail(q)[j].kind = "register"
  <2>1. Head(q) = q[1] /\ Len(Tail(q)) = Len(q) - 1 /\ Len(q) \in Nat
        /\ \A j \in 1..Len(q) - 1 : Tail(q)[j] = q[j + 1]
    BY <1>4
  <2>2. i # 1
    BY <1>4, <2>1
  <2>3. i - 1 \in 1..Len(Tail(q)) /\ Tail(q)[i - 1] = q[i]
    BY <2>1, <2>2
  <2> QED
    BY <1>4, <2>3
<1> QED
  BY <1>2, <1>3, <1>4

\* Connect puts a Register into a buffer that has room for it, and only
\* RegisterAdd, which makes the stream the registry's, takes one out.
LEMMA RegisteredStep ==
    ASSUME ~BufferMayFill, TypeOK, LiveWorkerRegistered, [Next]_vars
    PROVE  LiveWorkerRegistered'
<1> DEFINE Waiting(q) == \E i \in 1..Len(q) : q[i].kind = "register"
<1>0. /\ up \in [Worker -> Seq(WMsg)] /\ owner \in [Worker -> Owner] /\ link \subseteq Worker
  BY DEF TypeOK, WorkerTypeOK, ServiceTypeOK
<1>1. \A w \in link : owner[w] # "current" => Waiting(up[w])
  BY DEF LiveWorkerRegistered
<1>2. SUFFICES \A w \in link' : owner'[w] # "current" => Waiting(up'[w])
  BY DEF LiveWorkerRegistered
<1> HIDE DEF Waiting
<1>a. \A q \in Seq(WMsg) :
        /\ \A m \in WMsg : m.kind = "register" => Waiting(Append(q, m))
        /\ \A m \in WMsg : Waiting(q) => Waiting(Append(q, m))
        /\ q # <<>> /\ Head(q).kind # "register" /\ Waiting(q) => Waiting(Tail(q))
  BY RegisterKept DEF Waiting
<1>3. ASSUME UNCHANGED <<link, owner, up>>
      PROVE  \A w \in link' : owner'[w] # "current" => Waiting(up'[w])
  BY <1>1, <1>3
<1>4. ASSUME CoordinatorStep
      PROVE  \A w \in link' : owner'[w] # "current" => Waiting(up'[w])
  <2>1. UNCHANGED <<link, up>>
    BY <1>4 DEF CoordinatorStep, workerVars
  <2>2. owner' = owner
    BY <1>4 DEF CoordinatorStep, StartRun, StopRun, SignalStop, AutoStopRun, StopTimeout,
       ReapFinalize, AggregatorExit, DrainDispatch, DrainExit, ReapScan, Touch, registryVars
  <2> QED
    BY <1>3, <2>1, <2>2
<1>5. ASSUME NEW x \in Worker, StreamStep(x)
      PROVE  \A w \in link' : owner'[w] # "current" => Waiting(up'[w])
  <2>1. CASE RegisterAdd(x)
    <3>1. /\ owner' = [owner EXCEPT ![x] = "current"] /\ link' = link
          /\ up' = [up EXCEPT ![x] = Tail(up[x])]
      BY <2>1 DEF RegisterAdd, Add, taken
    <3> QED
      BY <1>0, <1>1, <3>1
  <2>2. CASE RegisterRehydrate(x) \/ RegisterDrain(x)
    <3>1. UNCHANGED <<link, owner, up>>
      BY <2>2 DEF RegisterRehydrate, RegisterDrain, Rehydrate, BeginDrain, registryVars
    <3> QED
      BY <1>3, <3>1
  <2>3. CASE ReceiveFinished(x)
    <3>1. /\ UNCHANGED <<link, owner>> /\ up[x] # <<>> /\ Head(up[x]).kind = "finished"
          /\ up' = [up EXCEPT ![x] = Tail(up[x])]
      BY <2>3 DEF ReceiveFinished, arrived, taken, WorkerFinished, registryVars
    <3>2. Waiting(up[x]) => Waiting(Tail(up[x]))
      <4>1. up[x] \in Seq(WMsg) /\ Head(up[x]).kind # "register"
        BY <1>0, <3>1
      <4> QED
        BY <1>a, <3>1, <4>1
    <3> QED
      BY <1>0, <1>1, <3>1, <3>2
  <2>4. CASE Teardown(x)
    <3>1. /\ UNCHANGED <<link, up>>
          /\ owner' = [owner EXCEPT ![x] = IF owner[x] = "stale" THEN "none" ELSE owner[x]]
      BY <2>4 DEF Teardown, Remove
    <3> QED
      BY <1>0, <1>1, <3>1
  <2> QED
    BY <1>5, <2>1, <2>2, <2>3, <2>4 DEF StreamStep
<1>6. ASSUME NEW x \in Worker, AgentStep(x)
      PROVE  \A w \in link' : owner'[w] # "current" => Waiting(up'[w])
  <2>1. CASE Connect(x)
    <3> DEFINE m == [kind |-> "register", active |-> activeRuns(x)]
    <3>1. /\ owner' = owner /\ link' = link \cup {x}
          /\ up' = [up EXCEPT ![x] = Append(up[x], m)]
      BY <2>1 DEF Connect, coordVars, registryVars, enqueue
    <3>2. m \in WMsg /\ m.kind = "register"
      BY DEF WMsg, activeRuns
    <3> HIDE DEF m
    <3>3. Waiting(Append(up[x], m))
      BY <1>0, <1>a, <3>2
    <3> QED
      BY <1>0, <1>1, <3>1, <3>3
  <2>2. ASSUME NEW t \in tasks[x], EndTask(x, t)
        PROVE  \A w \in link' : owner'[w] # "current" => Waiting(up'[w])
    <3> DEFINE m == [kind |-> "finished", run |-> t.run]
    <3>1. /\ UNCHANGED <<owner, link>>
          /\ up' = [up EXCEPT ![x] = Append(up[x], m)]
      BY <2>2 DEF EndTask, coordVars, registryVars, enqueue
    <3>2. m \in WMsg
      BY DEF WMsg, TypeOK, WorkerTypeOK, Task
    <3> HIDE DEF m
    <3>3. Waiting(up[x]) => Waiting(Append(up[x], m))
      BY <1>0, <1>a, <3>2
    <3> QED
      BY <1>0, <1>1, <3>1, <3>3
  <2>3. CASE \/ ReceiveAssignment(x) \/ ReceiveStop(x)
             \/ \E t \in tasks[x] : StartTask(x, t) \/ BeginTask(x, t) \/ FinishTask(x, t)
    <3>1. UNCHANGED <<link, owner, up>>
      BY <2>3 DEF ReceiveAssignment, ReceiveStop, StartTask, BeginTask, FinishTask, coordVars,
         registryVars
    <3> QED
      BY <1>3, <3>1
  <2> QED
    BY <1>6, <2>1, <2>2, <2>3 DEF AgentStep, AgentWork
<1>7. ASSUME NEW x \in Worker, BreakLink(x) \/ CrashWorker(x)
      PROVE  \A w \in link' : owner'[w] # "current" => Waiting(up'[w])
  <2>1. /\ link' = link \ {x}
        /\ owner' = [owner EXCEPT ![x] = IF owner[x] = "current" THEN "stale" ELSE owner[x]]
        /\ \E rest : up' = [up EXCEPT ![x] = rest]
    BY <1>7 DEF BreakLink, CrashWorker, broken
  <2> QED
    BY <1>0, <1>1, <2>1
<1>8. ASSUME RestartCoordinator
      PROVE  \A w \in link' : owner'[w] # "current" => Waiting(up'[w])
  BY <1>8 DEF RestartCoordinator
<1>9. CASE UNCHANGED vars
  BY <1>3, <1>9 DEF vars, workerVars, coordVars, registryVars
<1> QED
  BY <1>4, <1>5, <1>6, <1>7, <1>8, <1>9 DEF Next, LifetimeNext

\* registry.Remove with the stream's own handle never evicts a worker that has
\* redialled: an open stream is the registry's or has its Register on the way,
\* across restarts too, provided the agent's sendCh had room for the Register.
THEOREM LiveWorkersAreRegistered == ~BufferMayFill /\ Spec => []LiveWorkerRegistered
<1>1. ClusterInit => LiveWorkerRegistered
  BY DEF ClusterInit, LiveWorkerRegistered
<1>2. ~BufferMayFill /\ TypeOK /\ LiveWorkerRegistered /\ [Next]_vars => LiveWorkerRegistered'
  BY RegisteredStep
<1>3. CASE ~BufferMayFill
  <2>1. TypeOK /\ LiveWorkerRegistered /\ [Next]_vars => LiveWorkerRegistered'
    BY <1>2, <1>3
  <2> QED
    BY <1>1, <2>1, TypeCorrect, PTL DEF Spec
<1>4. CASE BufferMayFill
  BY <1>4
<1> QED
  BY <1>3, <1>4
=============================================================================
