------------------------------- MODULE Reporter -------------------------------
(***************************************************************************)
(* How a worker reports what its runs measure (internal/worker, agent.go   *)
(* and sampler/sampler.go): results are recorded in a sampler, a flush     *)
(* loop sends them every second, the agent sends the rest when the run     *)
(* ends, and a heartbeat carries the active VUs of all runs.               *)
(*                                                                         *)
(* Every run has a flush loop and an agent goroutine; they share the send  *)
(* buffer and the counter of dropped messages with the other runs and with *)
(* the heartbeat.  A batch is the number of results in it; the samples     *)
(* kept for the live log and the sizes of messages are left out.           *)
(***************************************************************************)
EXTENDS Naturals, Sequences, FiniteSetsExt

CONSTANTS
    RunId,       \* runs of the worker
    SendCap,     \* capacity of sendCh
    MaxResults,  \* bound: results recorded
    MaxTicks     \* bound: ticks of the flush loops and the heartbeat

ASSUME ReporterAssumption ==
    IsFiniteSet(RunId) /\ SendCap \in Nat /\ MaxResults \in Nat /\ MaxTicks \in Nat

VARIABLES
    rec,          \* [RunId -> Nat]: results in the sampler's recorder
    vus,          \* [RunId -> 0..1]: the sampler's activeVUs
    flusher,      \* [RunId -> flush loop]
    agent,        \* [RunId -> agent goroutine]
    activeByRun,  \* [RunId -> Nat], 0 when there is no entry
    sendCh,       \* Seq(message)
    droppedSend,  \* messages dropped since the last run ended
    got,          \* [RunId -> Nat]: results the stream was given
    told,         \* dropped messages the stream was told of
    results,      \* history: results recorded by a run
    lost,         \* history: results in messages that were dropped
    drops,        \* history: messages dropped
    untold,       \* history: drops in a Finished that was dropped itself
    late,         \* history: runs whose flush loop outlived finishRun
    ticks         \* ticks taken

reporterVars == <<rec, vus, flusher, agent, activeByRun, sendCh, droppedSend, got,
                  told, results, lost, drops, untold, late, ticks>>

Waiting == [step |-> "wait"]
Gone == [step |-> "gone"]

ReporterInit ==
    /\ rec = [r \in RunId |-> 0]
    /\ vus = [r \in RunId |-> 0]
    /\ flusher = [r \in RunId |-> Waiting]
    /\ agent = [r \in RunId |-> [step |-> "exec"]]
    /\ activeByRun = [r \in RunId |-> 0]
    /\ sendCh = <<>>
    /\ droppedSend = 0
    /\ got = [r \in RunId |-> 0]
    /\ told = 0
    /\ results = [r \in RunId |-> 0]
    /\ lost = [r \in RunId |-> 0]
    /\ drops = 0
    /\ untold = 0
    /\ late = {}
    /\ ticks = 0

\* A message that does not arrive takes its content with it.
forget(m) ==
    /\ lost' = IF m.kind = "batch" THEN [lost EXCEPT ![m.run] = @ + m.n] ELSE lost
    /\ untold' = IF m.kind = "finished" THEN untold + m.drops ELSE untold

\* enqueue: a full buffer drops the message and counts it.
enqueue(m) ==
    IF Len(sendCh) < SendCap
    THEN sendCh' = Append(sendCh, m) /\ UNCHANGED <<droppedSend, drops, lost, untold>>
    ELSE /\ droppedSend' = droppedSend + 1
         /\ drops' = drops + 1
         /\ forget(m)
         /\ UNCHANGED sendCh

sendVars == <<sendCh, droppedSend, drops, lost, untold>>

-----------------------------------------------------------------------------
(* The run                                                                 *)

\* Record, by any VU of the run; in the closed model a VU that Run did not wait
\* for may still be about to record when the run has ended.
Record(r) ==
    /\ SumFunction(results) < MaxResults
    /\ rec' = [rec EXCEPT ![r] = @ + 1]
    /\ results' = [results EXCEPT ![r] = @ + 1]
    /\ UNCHANGED <<vus, flusher, agent, activeByRun, sendVars, got, told, late,
                   ticks>>

\* SetActiveVUs by the executor.
SetActiveVUs(r) ==
    /\ agent[r].step = "exec"
    /\ vus' = [vus EXCEPT ![r] = 1 - @]
    /\ UNCHANGED <<rec, flusher, agent, activeByRun, sendVars, got, told, results,
                   late, ticks>>

\* exec.Run returns, with the VU count at 0 or, when cancelled, at its last
\* value; flushDone is closed.
EndRun(r) ==
    /\ agent[r].step = "exec"
    /\ agent' = [agent EXCEPT ![r] = [step |-> "tally"]]
    /\ vus' \in {vus, [vus EXCEPT ![r] = 0]}
    /\ UNCHANGED <<rec, flusher, activeByRun, sendVars, got, told, results, late,
                   ticks>>

\* Mutant of TallyDrops: the counter is read and not reset.
TallyDropsKeeps(r) ==
    /\ agent[r].step = "tally"
    /\ agent' = [agent EXCEPT ![r] = [step |-> "flush", drops |-> droppedSend]]
    /\ UNCHANGED <<rec, vus, flusher, activeByRun, sendVars, got, told, results,
                   late, ticks>>

\* droppedSend.Swap(0): the drops of all runs since a run last ended.
TallyDrops(r) ==
    /\ agent[r].step = "tally"
    /\ agent' = [agent EXCEPT ![r] = [step |-> "flush", drops |-> droppedSend]]
    /\ droppedSend' = 0
    /\ UNCHANGED <<rec, vus, flusher, activeByRun, sendCh, drops, lost, untold, got,
                   told, results, late, ticks>>

\* The final flush.
FinalFlush(r) ==
    /\ agent[r].step = "flush"
    /\ agent' = [agent EXCEPT ![r] = [step |-> "batch", drops |-> @.drops,
                                      n |-> rec[r]]]
    /\ rec' = [rec EXCEPT ![r] = 0]
    /\ UNCHANGED <<vus, flusher, activeByRun, sendVars, got, told, results, late,
                   ticks>>

SendFinalBatch(r) ==
    /\ agent[r].step = "batch"
    /\ enqueue([kind |-> "batch", run |-> r, n |-> agent[r].n])
    /\ agent' = [agent EXCEPT ![r] = [step |-> "finished", drops |-> @.drops]]
    /\ UNCHANGED <<rec, vus, flusher, activeByRun, got, told, results, late, ticks>>

SendFinished(r) ==
    /\ agent[r].step = "finished"
    /\ enqueue([kind |-> "finished", run |-> r, drops |-> agent[r].drops])
    /\ agent' = [agent EXCEPT ![r] = [step |-> "finish"]]
    /\ UNCHANGED <<rec, vus, flusher, activeByRun, got, told, results, late, ticks>>

\* finishRun: the run no longer counts in the heartbeat.
FinishRun(r) ==
    /\ agent[r].step = "finish"
    /\ agent' = [agent EXCEPT ![r] = Gone]
    /\ activeByRun' = [activeByRun EXCEPT ![r] = 0]
    /\ late' = IF flusher[r] = Gone THEN late ELSE late \cup {r}
    /\ UNCHANGED <<rec, vus, flusher, sendVars, got, told, results, ticks>>

-----------------------------------------------------------------------------
(* flushLoop, heartbeatLoop and the sender                                 *)

\* A tick of the flush loop, which may win its select although the run has
\* ended: the sampler's window is swapped out.
FlushTick(r) ==
    /\ flusher[r] = Waiting
    /\ ticks < MaxTicks
    /\ ticks' = ticks + 1
    /\ flusher' = [flusher EXCEPT ![r] = [step |-> "count", n |-> rec[r],
                                          vus |-> vus[r]]]
    /\ rec' = [rec EXCEPT ![r] = 0]
    /\ UNCHANGED <<vus, agent, activeByRun, sendVars, got, told, results, late>>

\* setActive.
FlushSetActive(r) ==
    /\ flusher[r].step = "count"
    /\ activeByRun' = [activeByRun EXCEPT ![r] = flusher[r].vus]
    /\ flusher' = [flusher EXCEPT ![r] = [step |-> "send", n |-> @.n]]
    /\ UNCHANGED <<rec, vus, agent, sendVars, got, told, results, late, ticks>>

FlushSend(r) ==
    /\ flusher[r].step = "send"
    /\ enqueue([kind |-> "batch", run |-> r, n |-> flusher[r].n])
    /\ flusher' = [flusher EXCEPT ![r] = Waiting]
    /\ UNCHANGED <<rec, vus, agent, activeByRun, got, told, results, late, ticks>>

\* The loop leaves when the run has ended or when its context is cancelled, by an
\* abort or by the agent itself: at any time, then, also before Run returns.
FlushExit(r) ==
    /\ flusher[r] = Waiting
    /\ flusher' = [flusher EXCEPT ![r] = Gone]
    /\ UNCHANGED <<rec, vus, agent, activeByRun, sendVars, got, told, results, late,
                   ticks>>

Heartbeat ==
    /\ ticks < MaxTicks
    /\ ticks' = ticks + 1
    /\ enqueue([kind |-> "beat", vus |-> SumFunction(activeByRun)])
    /\ UNCHANGED <<rec, vus, flusher, agent, activeByRun, got, told, results, late>>

\* The sender takes a message and gives it to the stream, for better or worse: a
\* stream that breaks is the matter of Cluster.
Send ==
    /\ sendCh # <<>>
    /\ sendCh' = Tail(sendCh)
    /\ LET m == Head(sendCh)
       IN  /\ got' = IF m.kind = "batch" THEN [got EXCEPT ![m.run] = @ + m.n] ELSE got
           /\ told' = IF m.kind = "finished" THEN told + m.drops ELSE told
    /\ UNCHANGED <<rec, vus, flusher, agent, activeByRun, droppedSend, drops, lost,
                   untold, results, late, ticks>>

-----------------------------------------------------------------------------
AgentStep(r) ==
    TallyDrops(r) \/ FinalFlush(r) \/ SendFinalBatch(r) \/ SendFinished(r)
        \/ FinishRun(r)

ReporterNext ==
    \/ \E r \in RunId :
          \/ Record(r) \/ SetActiveVUs(r) \/ EndRun(r) \/ AgentStep(r)
          \/ FlushTick(r) \/ FlushSetActive(r) \/ FlushSend(r) \/ FlushExit(r)
    \/ Heartbeat \/ Send

ReporterSpec == ReporterInit /\ [][ReporterNext]_reporterVars

-----------------------------------------------------------------------------
(* Properties                                                              *)

inBatches(r) ==
    SumFunction([i \in DOMAIN sendCh |->
        IF sendCh[i].kind = "batch" /\ sendCh[i].run = r THEN sendCh[i].n ELSE 0])

inFinished ==
    SumFunction([i \in DOMAIN sendCh |->
        IF sendCh[i].kind = "finished" THEN sendCh[i].drops ELSE 0])

\* Every variable of the reporter in its type, with the send buffer within its
\* capacity.
ReporterTypeOK ==
    /\ rec \in [RunId -> Nat] /\ vus \in [RunId -> 0..1]
    /\ \A r \in RunId :
          /\ flusher[r].step \in {"wait", "count", "send", "gone"}
          /\ agent[r].step \in {"exec", "tally", "flush", "batch", "finished",
                               "finish", "gone"}
    /\ activeByRun \in [RunId -> 0..1]
    /\ Len(sendCh) <= SendCap
    /\ \A i \in DOMAIN sendCh : sendCh[i].kind \in {"batch", "finished", "beat"}
    /\ droppedSend \in Nat /\ told \in Nat /\ drops \in Nat /\ untold \in Nat
    /\ got \in [RunId -> Nat] /\ results \in [RunId -> Nat] /\ lost \in [RunId -> Nat]
    /\ late \subseteq RunId
    /\ ticks \in 0..MaxTicks

carried(x, f) == IF f \in DOMAIN x THEN x[f] ELSE 0

\* Every result is counted exactly once, although the flush loop and the final
\* flush may both be at work on the sampler: it is in the sampler, in one batch
\* on its way or sent, or in a batch that was dropped.
ResultsConserved ==
    \A r \in RunId :
        results[r] = rec[r] + carried(flusher[r], "n") + carried(agent[r], "n")
                       + inBatches(r) + got[r] + lost[r]

\* Every dropped message is told of once, by whichever run ends next, or still
\* counted: the shared counter loses none to the race of two runs that end.
DropsAccounted ==
    drops = droppedSend + SumFunction([r \in RunId |-> carried(agent[r], "drops")])
              + inFinished + told + untold

\* A run that has ended counts no VUs in the heartbeat, if its flush loop was gone
\* when finishRun removed it.  (The agent does not wait for the loop: a last tick
\* may set the count of a finished run again, and nothing removes it then.)
EndedRunsHaveNoVUs ==
    \A r \in RunId : agent[r] = Gone /\ r \notin late => activeByRun[r] = 0

\* What the coordinator is told of results, of losses and of active VUs is true,
\* however flush loops, ending runs and the heartbeat interleave.
ReportsAreTrue == ResultsConserved /\ DropsAccounted /\ EndedRunsHaveNoVUs
=============================================================================
