------------------------------- MODULE Arrival -------------------------------
(***************************************************************************)
(* The open-model executor of a worker (internal/worker/executor,          *)
(* arrival.go): a pacer that schedules iterations at the rate of the ramp  *)
(* and a pool of goroutines that grows with the demand and retires when it *)
(* dries up.                                                               *)
(*                                                                         *)
(* The pacer and every pool goroutine are processes; goroutines in the     *)
(* same place are alike and only counted.  What the rate asks for at a     *)
(* tick is an input (see Ramp), and the idle timer may fire at any time.   *)
(***************************************************************************)
EXTENDS Naturals

CONSTANTS
    MaxPool,    \* ArrivalExecutor.maxVUs, also the capacity of jobs
    Due,        \* numbers of iterations that may be due at a tick
    MaxDue      \* bound: iterations scheduled in a run

ASSUME MaxPoolAssumption == MaxPool \in Nat \ {0}
ASSUME DueAssumption == Due \subseteq Nat /\ MaxDue \in Nat

VARIABLES
    pacer,      \* where Run is
    toPush,     \* iterations of this tick still to be queued
    need,       \* the size the pool has to reach in this tick
    jobs,       \* length of the channel of iterations
    live,       \* the atomic counter pool
    busy,       \* the atomic counter busy
    at,         \* [Place -> number of goroutines there]
    runDone,    \* is the context of the run cancelled?
    scheduled, dropped, executed   \* iterations so far

arrivalVars == <<pacer, toPush, need, jobs, live, busy, at, runDone, scheduled,
                 dropped, executed>>

\* A goroutine waits in its select, has taken a job, executes it, or is about to
\* leave the pool.
Place == {"ready", "taken", "exec", "leaving"}
goroutines == at["ready"] + at["taken"] + at["exec"] + at["leaving"]

ArrivalInit ==
    /\ pacer = "start"
    /\ toPush = 0 /\ need = 0 /\ jobs = 0 /\ live = 0 /\ busy = 0
    /\ at = [p \in Place |-> 0]
    /\ runDone = FALSE
    /\ scheduled = 0 /\ dropped = 0 /\ executed = 0

moves(from, to) == /\ at[from] > 0
                   /\ at' = [at EXCEPT ![from] = @ - 1, ![to] = @ + 1]

spawn == /\ live' = live + 1
         /\ at' = [at EXCEPT !["ready"] = @ + 1]

-----------------------------------------------------------------------------
(* Run                                                                     *)

\* Prepare fails, or Run starts with one goroutine.
StartPool ==
    /\ pacer = "start"
    /\ \/ pacer' = "done" /\ UNCHANGED <<live, at>>
       \/ pacer' = "wait" /\ spawn
    /\ UNCHANGED <<toPush, need, jobs, busy, runDone, scheduled, dropped, executed>>

\* A tick before the deadline: n iterations are due.
PacerTick(n) ==
    /\ pacer = "wait"
    /\ scheduled + n <= MaxDue
    /\ pacer' = "push"
    /\ toPush' = n
    /\ scheduled' = scheduled + n
    /\ UNCHANGED <<need, jobs, live, busy, at, runDone, dropped, executed>>

\* The non-blocking send of an iteration.
PushJob ==
    /\ pacer = "push" /\ toPush > 0
    /\ toPush' = toPush - 1
    /\ IF jobs < MaxPool
       THEN jobs' = jobs + 1 /\ UNCHANGED dropped
       ELSE dropped' = dropped + 1 /\ UNCHANGED jobs
    /\ UNCHANGED <<pacer, need, live, busy, at, runDone, scheduled, executed>>

\* Mutants of demand: not capped, and no growth at all.
demandUncapped == busy + jobs + 1
demandNone == 0

\* The goroutines that work, the backlog and one to spare, within the cap.
demand == IF busy + jobs + 1 > MaxPool THEN MaxPool ELSE busy + jobs + 1

Measure ==
    /\ pacer = "push" /\ toPush = 0
    /\ pacer' = "grow"
    /\ need' = demand
    /\ UNCHANGED <<toPush, jobs, live, busy, at, runDone, scheduled, dropped, executed>>

Grow ==
    /\ pacer = "grow"
    /\ IF live < need THEN spawn /\ UNCHANGED pacer
                      ELSE pacer' = "wait" /\ UNCHANGED <<live, at>>
    /\ UNCHANGED <<toPush, need, jobs, busy, runDone, scheduled, dropped, executed>>

\* The deadline has passed or the context is done: jobs is closed.
CloseJobs ==
    /\ pacer = "wait"
    /\ pacer' = "drain"
    /\ UNCHANGED <<toPush, need, jobs, live, busy, at, runDone, scheduled, dropped,
                   executed>>

\* wg.Wait has returned.
RunReturn ==
    /\ pacer = "drain"
    /\ goroutines = 0
    /\ pacer' = "done"
    /\ UNCHANGED <<toPush, need, jobs, live, busy, at, runDone, scheduled, dropped,
                   executed>>

CancelRun ==
    /\ ~runDone
    /\ runDone' = TRUE
    /\ UNCHANGED <<pacer, toPush, need, jobs, live, busy, at, scheduled, dropped,
                   executed>>

-----------------------------------------------------------------------------
(* worker                                                                  *)

pacerUnchanged == UNCHANGED <<pacer, toPush, need, runDone, scheduled, dropped>>

\* A closed channel still yields the jobs that are in it.
TakeJob ==
    /\ jobs > 0
    /\ jobs' = jobs - 1
    /\ moves("ready", "taken")
    /\ UNCHANGED <<live, busy, executed>>
    /\ pacerUnchanged

StartJob ==
    /\ moves("taken", "exec")
    /\ busy' = busy + 1
    /\ UNCHANGED <<jobs, live, executed>>
    /\ pacerUnchanged

\* The results are recorded unless the context is done (see Reporter).
EndJob ==
    /\ moves("exec", "ready")
    /\ busy' = busy - 1
    /\ executed' = executed + 1
    /\ UNCHANGED <<jobs, live>>
    /\ pacerUnchanged

\* The idle timer fires, though there may be jobs; the last one is reset.
Retire ==
    /\ live > 1
    /\ moves("ready", "leaving")
    /\ UNCHANGED <<jobs, live, busy, executed>>
    /\ pacerUnchanged

\* The context is done, or the channel is closed and empty.
ReturnFromSelect ==
    /\ runDone \/ (pacer = "drain" /\ jobs = 0)
    /\ moves("ready", "leaving")
    /\ UNCHANGED <<jobs, live, busy, executed>>
    /\ pacerUnchanged

\* Mutant of Leave: only a goroutine that retired is taken off the counter.
LeaveSilently ==
    /\ at["leaving"] > 0
    /\ at' = [at EXCEPT !["leaving"] = @ - 1]
    /\ live' = IF pacer = "drain" THEN live ELSE live - 1
    /\ UNCHANGED <<jobs, busy, executed>>
    /\ pacerUnchanged

Leave ==
    /\ at["leaving"] > 0
    /\ at' = [at EXCEPT !["leaving"] = @ - 1]
    /\ live' = live - 1
    /\ UNCHANGED <<jobs, busy, executed>>
    /\ pacerUnchanged

-----------------------------------------------------------------------------
PoolStep == TakeJob \/ StartJob \/ EndJob \/ ReturnFromSelect \/ Leave
PacerStep == StartPool \/ PushJob \/ Measure \/ Grow \/ RunReturn

ArrivalNext ==
    \/ PacerStep \/ PoolStep
    \/ \E n \in Due : PacerTick(n)
    \/ CloseJobs \/ CancelRun \/ Retire

ArrivalSpec == ArrivalInit /\ [][ArrivalNext]_arrivalVars

\* The pacer's ticker goes on and goroutines take their steps.  A goroutine that
\* retires has been idle for workerIdleTimeout, so that not all of them can retire
\* for ever in front of a backlog: TakeJob is strongly fair.
ArrivalFairSpec ==
    /\ ArrivalSpec
    /\ WF_arrivalVars(PacerStep)
    /\ WF_arrivalVars(\E n \in Due : PacerTick(n))
    /\ SF_arrivalVars(TakeJob)
    /\ WF_arrivalVars(StartJob \/ EndJob)
    /\ WF_arrivalVars(ReturnFromSelect)
    /\ WF_arrivalVars(Leave)

-----------------------------------------------------------------------------
(* Properties                                                              *)

\* Every variable of the open model in its type; the pool and the backlog stay
\* within maxVUs, whatever the rate and however the counters are read.
ArrivalTypeOK ==
    /\ pacer \in {"start", "wait", "push", "grow", "drain", "done"}
    /\ toPush \in Nat /\ need \in 0..MaxPool
    /\ jobs \in 0..MaxPool /\ live \in 0..MaxPool /\ busy \in 0..MaxPool
    /\ at \in [Place -> 0..MaxPool]
    /\ runDone \in BOOLEAN
    /\ scheduled \in Nat /\ dropped \in Nat /\ executed \in Nat

\* No iteration is lost or counted twice: one that the rate asked for is queued,
\* in the hands of a goroutine, executed, or counted as dropped.
IterationsConserved ==
    scheduled = toPush + jobs + at["taken"] + at["exec"] + executed + dropped

\* The counters that the pacer reads are the goroutines there are.
PoolIsExact == live = goroutines /\ busy = at["exec"]

\* Iterations and goroutines are accounted for, whatever retires, is dropped or is
\* cut off by the end of the run.
PoolAccounting == IterationsConserved /\ PoolIsExact

\* While the run goes on, a backlog is worked off, even when all goroutines
\* retired at the same moment, each counting on the other one.
BacklogServed == jobs > 0 ~> jobs = 0 \/ pacer \in {"drain", "done"}

\* Run returns once the channel is closed: its goroutines finish what is queued
\* and leave.
RunReturns == pacer = "drain" ~> pacer = "done"

\* The load is served as long as the run goes on, and then Run returns.
LoadIsServed == BacklogServed /\ RunReturns
=============================================================================
