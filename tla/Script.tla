------------------------------- MODULE Script -------------------------------
(***************************************************************************)
(* The script driver (internal/script, script.go and scenario.go): every   *)
(* VU id has a JavaScript runtime, in which the compiled scenario runs an  *)
(* iteration at a time under a time budget.                                *)
(*                                                                         *)
(* The goroutines that execute iterations, and their timers, are           *)
(* processes; the id they pass comes from the executor.  A step is a       *)
(* request with an outcome; goja notices an interrupt between steps.       *)
(***************************************************************************)
EXTENDS Naturals, Sequences, FiniteSets, FiniteSetsExt

CONSTANTS
    Gor,         \* goroutines, numbered from 1
    OpenModel,   \* are they the pool of the open model?
    Setup, Work, \* steps of scope once_per_vu, and of each iteration
    Mode,        \* ScenarioConfig.Mode
    MaxIter      \* bound: iterations of all goroutines

ASSUME ScriptAssumption ==
    /\ Gor \subseteq Nat \ {0} /\ OpenModel \in BOOLEAN
    /\ Setup \in Nat /\ Work \in Nat /\ MaxIter \in Nat
    /\ Mode \in {"sequence", "weighted"}

VARIABLES
    gor,      \* [Gor -> what the goroutine is about]
    rtOf,      \* [VU id -> runtime], Driver.vus; 0 when there is none
    rts,      \* Seq(runtime)
    budget,   \* [Gor -> runtime its timer is to interrupt], 0 when stopped
    fires, hits, \* history: timers that fired, iterations that were interrupted
    report    \* [Gor -> results that the last iteration returned]

scriptVars == <<gor, rtOf, rts, budget, fires, hits, report>>

\* Mutant of vuID: the executor sets no id in either model.
vuIDNone(g) == 0

\* VU.ID: numbered by the closed model, never set by the open one.
vuID(g) == IF OpenModel THEN 0 ELSE g

\* A runtime: goja's interrupt flag, how often the setup was begun in it, and the
\* results that were emitted.
Fresh(id) == [id |-> id, interrupt |-> FALSE, setups |-> 0, results |-> <<>>]
Idle == [pc |-> "idle", rt |-> 0, todo |-> <<>>, ran |-> 0, ok |-> TRUE,
         timeout |-> FALSE, n |-> 0]

ScriptInit ==
    /\ gor = [g \in Gor |-> Idle]
    /\ rtOf = [i \in {0} \cup Gor |-> 0]
    /\ rts = <<>>
    /\ budget = [g \in Gor |-> 0]
    /\ fires = 0 /\ hits = 0
    /\ report = [g \in Gor |-> <<>>]

rt(g) == rts[gor[g].rt]
goes(g, fields) == gor' = [gor EXCEPT ![g] = [f \in DOMAIN @ |->
                              IF f \in DOMAIN fields THEN fields[f] ELSE @[f]]]
\* A result, with the iteration that it comes from.
result(g, ok) == [of |-> <<g, gor[g].n>>, ok |-> ok]

-----------------------------------------------------------------------------
(* vuFor                                                                   *)

Lookup(g) ==
    /\ gor[g].pc = "idle"
    /\ MapThenSumSet(LAMBDA h : gor[h].n, Gor) < MaxIter
    /\ LET r == rtOf[vuID(g)]
       IN  goes(g, [pc |-> IF r = 0 THEN "build" ELSE "begin", rt |-> r,
                    n |-> gor[g].n + 1])
    /\ UNCHANGED <<rtOf, rts, budget, fires, hits, report>>

\* buildVU runs without the lock; the script may throw at its top level.
Build(g) ==
    /\ gor[g].pc = "build"
    /\ \/ /\ rts' = Append(rts, Fresh(vuID(g)))
          /\ rtOf' = [rtOf EXCEPT ![vuID(g)] = Len(rts) + 1]
          /\ goes(g, [pc |-> "begin", rt |-> Len(rts) + 1])
          /\ UNCHANGED report
       \/ /\ report' = [report EXCEPT ![g] = <<result(g, FALSE)>>]
          /\ goes(g, [pc |-> "idle"])
          /\ UNCHANGED <<rtOf, rts>>
    /\ UNCHANGED <<budget, fires, hits>>

-----------------------------------------------------------------------------
(* ExecMulti and callBounded                                               *)

\* The results are reset and the timer is started.
Begin(g) ==
    /\ gor[g].pc = "begin"
    /\ rts' = [rts EXCEPT ![gor[g].rt].results = <<>>]
    /\ budget' = [budget EXCEPT ![g] = gor[g].rt]
    /\ goes(g, [pc |-> "call", ran |-> 0, ok |-> TRUE, timeout |-> FALSE])
    /\ UNCHANGED <<rtOf, fires, hits, report>>

TimerFires(g) ==
    /\ budget[g] # 0
    /\ rts' = [rts EXCEPT ![budget[g]].interrupt = TRUE]
    /\ budget' = [budget EXCEPT ![g] = 0]
    /\ fires' = fires + 1
    /\ UNCHANGED <<gor, rtOf, hits, report>>

\* The call ends with an InterruptedError; the flag stays up.
Interrupted(g) ==
    /\ gor[g].pc \in {"call", "steps"}
    /\ rt(g).interrupt
    /\ goes(g, [pc |-> "clear", timeout |-> TRUE])
    /\ hits' = hits + 1
    /\ UNCHANGED <<rtOf, rts, budget, fires, report>>

\* Mutant of ClearInterrupt: cleared only when the call returned without an error.
ClearOnSuccess(g) ==
    /\ gor[g].pc = "clear"
    /\ rts' = IF gor[g].timeout THEN rts ELSE [rts EXCEPT ![gor[g].rt].interrupt = FALSE]
    /\ goes(g, [pc |-> "stop"])
    /\ UNCHANGED <<rtOf, budget, fires, hits, report>>

\* The flag is cleared, and the timer still runs.
ClearInterrupt(g) ==
    /\ gor[g].pc = "clear"
    /\ rts' = [rts EXCEPT ![gor[g].rt].interrupt = FALSE]
    /\ goes(g, [pc |-> "stop"])
    /\ UNCHANGED <<rtOf, budget, fires, hits, report>>

\* The timer is stopped and the results are copied out, if a step emitted one;
\* otherwise the accumulator's, which has failed: no request, or the call's error.
Return(g) ==
    /\ gor[g].pc = "stop"
    /\ budget' = [budget EXCEPT ![g] = 0]
    /\ report' = [report EXCEPT ![g] =
                     IF rt(g).results # <<>> THEN rt(g).results
                     ELSE <<result(g, FALSE)>>]
    /\ goes(g, [pc |-> "idle"])
    /\ UNCHANGED <<rtOf, rts, fires, hits>>

-----------------------------------------------------------------------------
(* iteration, in the harness of a scenario                                 *)

\* Steps 1..Setup are those of the setup; a workload runs all others in order or
\* one of them.
workloads ==
    IF Mode = "weighted" /\ Work > 0 THEN {<<Setup + i>> : i \in 1..Work}
    ELSE {[i \in 1..Work |-> Setup + i]}

\* _runSetupOnce marks the setup as done before it runs.
Enter(g) ==
    /\ gor[g].pc = "call"
    /\ ~rt(g).interrupt
    /\ LET done == rt(g).setups > 0
       IN  /\ rts' = [rts EXCEPT ![gor[g].rt].setups = IF done THEN @ ELSE @ + 1]
           /\ \E w \in workloads :
                 goes(g, [pc |-> "steps",
                          todo |-> (IF done THEN <<>> ELSE [i \in 1..Setup |-> i]) \o w])
    /\ UNCHANGED <<rtOf, budget, fires, hits, report>>

emit(g, ok) == rts' = [rts EXCEPT ![gor[g].rt].results = Append(@, result(g, ok))]

\* _runStep: the request, the assertions, the extracts and the result.
RunStep(g, ok) ==
    /\ gor[g].pc = "steps" /\ gor[g].todo # <<>>
    /\ ~rt(g).interrupt
    /\ emit(g, ok)
    /\ LET work == Head(gor[g].todo) > Setup
       IN  goes(g, [todo |-> Tail(gor[g].todo),
                    ran |-> gor[g].ran + (IF work THEN 1 ELSE 0),
                    ok |-> gor[g].ok /\ (work => ok)])
    /\ UNCHANGED <<rtOf, budget, fires, hits, report>>

\* A sequence of several steps ends with the result of the transaction.
EndIteration(g) ==
    /\ gor[g].pc = "steps" /\ gor[g].todo = <<>>
    /\ ~rt(g).interrupt
    /\ IF Mode = "sequence" /\ gor[g].ran > 1 THEN emit(g, gor[g].ok) ELSE UNCHANGED rts
    /\ goes(g, [pc |-> "clear"])
    /\ UNCHANGED <<rtOf, budget, fires, hits, report>>

-----------------------------------------------------------------------------
ScriptNext ==
    \E g \in Gor :
        \/ Lookup(g) \/ Build(g) \/ Begin(g) \/ Enter(g)
        \/ \E ok \in BOOLEAN : RunStep(g, ok)
        \/ EndIteration(g) \/ Interrupted(g) \/ ClearInterrupt(g) \/ Return(g)
        \/ TimerFires(g)

ScriptSpec == ScriptInit /\ [][ScriptNext]_scriptVars

-----------------------------------------------------------------------------
(* Properties                                                              *)

\* goja runtimes are not safe for concurrent use: no two goroutines are in the
\* same one.
RuntimeIsOwned ==
    \A g, h \in Gor :
        g # h /\ {gor[g].pc, gor[h].pc} \cap {"idle", "build"} = {} =>
            gor[g].rt # gor[h].rt

\* An iteration returns the results of its own steps, at least one, and not those
\* of the iteration before, whose slice is used again.
ResultsAreOwn ==
    \A g \in Gor :
        gor[g].pc = "idle" /\ gor[g].n > 0 =>
            /\ report[g] # <<>>
            /\ \A i \in DOMAIN report[g] : report[g][i].of = <<g, gor[g].n>>

\* A timer interrupts one iteration at most: the one it was started for or, when it
\* fires between ClearInterrupt and Stop, the next one in that runtime.
InterruptsAreTimeouts == hits <= fires

\* The setup of a VU runs once, in the only runtime it ever has, also when it fails
\* or is interrupted.
SetupRunsOnce ==
    \A i \in DOMAIN rts :
        /\ rts[i].setups <= 1
        /\ \A j \in DOMAIN rts : rts[i].id = rts[j].id => i = j

\* The transaction of an iteration that was not interrupted has failed if one of its
\* steps has.
TransactionsAreHonest ==
    \A g \in Gor :
        LET res == report[g]
        IN  gor[g].pc = "idle" /\ ~gor[g].timeout /\ gor[g].ran > 1 /\ Mode = "sequence"
              /\ Len(res) > Work
              => (res[Len(res)].ok =>
                    \A i \in Len(res) - Work..Len(res) : res[i].ok)

\* An iteration answers for itself: its results, its transaction, its setup and its
\* interruption are not another one's.
IterationsAreOwn ==
    ResultsAreOwn /\ InterruptsAreTimeouts /\ SetupRunsOnce /\ TransactionsAreHonest
=============================================================================
