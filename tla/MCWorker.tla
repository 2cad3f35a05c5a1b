------------------------------ MODULE MCWorker ------------------------------
(***************************************************************************)
(* The parts of a worker, one at a time, for TLC.  A run has one executor, *)
(* closed or open, which drives a driver and hands its results and its VU  *)
(* count to the reporter; none of them is asked for anything in return.    *)
(* No behaviour of a part depends on another part, and part says which of  *)
(* them a behaviour is about.                                              *)
(***************************************************************************)
EXTENDS Executor, Arrival, Reporter, Script, Assignment

CONSTANTS Parts, r1, r2

VARIABLE part

wvars == <<part, vars, arrivalVars, reporterVars, scriptVars, input>>

MCInit ==
    /\ part \in Parts
    /\ Init /\ ArrivalInit /\ ReporterInit /\ ScriptInit
    /\ IF part = "assign" THEN input \in Inputs ELSE input = NoInput

Closed(A) ==
    /\ part = "closed" /\ A
    /\ UNCHANGED <<part, arrivalVars, reporterVars, scriptVars, input>>
Open(A) ==
    /\ part = "open" /\ A
    /\ UNCHANGED <<part, vars, reporterVars, scriptVars, input>>
Report(A) ==
    /\ part = "report" /\ A
    /\ UNCHANGED <<part, vars, arrivalVars, scriptVars, input>>
Drive(A) ==
    /\ part = "script" /\ A
    /\ UNCHANGED <<part, vars, arrivalVars, reporterVars, input>>

MCNext ==
    Closed(Next) \/ Open(ArrivalNext) \/ Report(ReporterNext) \/ Drive(ScriptNext)

\* The fairness of FairSpec and of ArrivalFairSpec.
MCSpec ==
    /\ MCInit /\ [][MCNext]_wvars
    /\ \A v \in VU : WF_wvars(Closed(VUNext(v)))
    /\ WF_wvars(Closed(TimerStep))
    /\ WF_wvars(Open(PacerStep))
    /\ WF_wvars(Open(\E n \in Due : PacerTick(n)))
    /\ SF_wvars(Open(TakeJob))
    /\ WF_wvars(Open(StartJob \/ EndJob))
    /\ WF_wvars(Open(ReturnFromSelect))
    /\ WF_wvars(Open(Leave))

\* The parts of a worker in their types, its pools and buffers within their limits.
WorkerTypeOK == TypeOK /\ ArrivalTypeOK /\ ReporterTypeOK
=============================================================================
