------------------------------- MODULE Executor -------------------------------
(***************************************************************************)
(* The closed-model executor of a worker (internal/worker/executor,        *)
(* executor.go and barrier.go): a pool of virtual users that follows the   *)
(* ramp, and the rendezvous at which they gather before every request.     *)
(*                                                                         *)
(* Run's control loop, every VU goroutine and every barrier timer is a     *)
(* process.  The pool's mutex and the barrier's mutex guard one step each. *)
(* What the ramp asks for is an input: any target at any control tick, and *)
(* the end of the ramp at any tick.  What a request does, and the sampler  *)
(* that records it, are left out.                                          *)
(***************************************************************************)
EXTENDS Naturals, Sequences, FiniteSets

CONSTANTS
    MaxVUs,    \* the per-worker ceiling on the pool, 0 for none
    Targets,   \* VU counts the ramp may ask for
    Target,    \* RendezvousConfig.VUs, more than 1
    MaxSpawn,  \* bound: VUs started in one run
    MaxGen     \* bound: no VU goes to the barrier from this generation on

ASSUME MaxVUsAssumption == MaxVUs \in Nat
ASSUME TargetsAssumption == Targets \subseteq Nat
ASSUME TargetAssumption == Target \in Nat \ {0, 1}
ASSUME MaxSpawnAssumption == MaxSpawn \in Nat
ASSUME MaxGenAssumption == MaxGen \in Nat

VARIABLES
    ctxDone,    \* is the context of the run cancelled?
    pc,         \* Run: "run" or "done"
    pool,       \* Seq(VU): Executor.vus
    nextID,     \* Executor.nextID
    cancelled,  \* VUs whose handle was cancelled
    vu,         \* [VU -> VUStep]
    \* barrier
    waiting, gen,
    myGen,      \* [VU -> Nat]: the generation a VU waits for
    timers,     \* VUs whose timeout is pending
    expired     \* generations a timer callback is about to release

vars == <<ctxDone, pc, pool, nextID, cancelled, vu, waiting, gen, myGen, timers,
          expired>>
barrierVars == <<waiting, gen, myGen, timers, expired>>

VU == 1..MaxSpawn
VUStep == {"none", "top", "gather", "wait", "exec", "gone"}

Init ==
    /\ ctxDone = FALSE
    /\ pc = "run"
    /\ pool = <<>>
    /\ nextID = 0
    /\ cancelled = {}
    /\ vu = [v \in VU |-> "none"]
    /\ waiting = 0
    /\ gen = 0
    /\ myGen = [v \in VU |-> 0]
    /\ timers = {}
    /\ expired = {}

\* The context of a VU is done.
stopped(v) == ctxDone \/ v \in cancelled

-----------------------------------------------------------------------------
(* The pool                                                                *)

clampVUs(n) == IF MaxVUs > 0 /\ n > MaxVUs THEN MaxVUs ELSE n

\* Mutant of scaleTo: the oldest VUs are cancelled, the newest forgotten.
scaleToOldest(n) ==
    IF n >= Len(pool)
    THEN LET born == nextID + 1 .. nextID + n - Len(pool)
         IN  /\ pool' = pool \o [i \in 1..n - Len(pool) |-> nextID + i]
             /\ nextID' = nextID + n - Len(pool)
             /\ vu' = [v \in VU |-> IF v \in born THEN "top" ELSE vu[v]]
             /\ UNCHANGED cancelled
    ELSE /\ pool' = SubSeq(pool, 1, n)
         /\ cancelled' = cancelled \cup {pool[i] : i \in 1..Len(pool) - n}
         /\ UNCHANGED <<nextID, vu>>

\* scaleTo: spawn or cancel, the newest first, until the pool has n VUs.
scaleTo(n) ==
    IF n >= Len(pool)
    THEN LET born == nextID + 1 .. nextID + n - Len(pool)
         IN  /\ pool' = pool \o [i \in 1..n - Len(pool) |-> nextID + i]
             /\ nextID' = nextID + n - Len(pool)
             /\ vu' = [v \in VU |-> IF v \in born THEN "top" ELSE vu[v]]
             /\ UNCHANGED cancelled
    ELSE /\ pool' = SubSeq(pool, 1, n)
         /\ cancelled' = cancelled \cup {pool[i] : i \in n + 1..Len(pool)}
         /\ UNCHANGED <<nextID, vu>>

\* A control tick before the deadline.  Go may take it although the context is
\* done.
ControlTick(n) ==
    /\ pc = "run"
    /\ nextID + clampVUs(n) <= Len(pool) + MaxSpawn
    /\ scaleTo(clampVUs(n))
    /\ UNCHANGED <<ctxDone, pc, barrierVars>>

\* The ramp has elapsed, the context is done or the driver cannot be prepared.
RunEnd ==
    /\ pc = "run"
    /\ scaleTo(0)
    /\ pc' = "done"
    /\ UNCHANGED <<ctxDone, barrierVars>>

\* Agent.stopRun cancels the run's context.
Cancel ==
    /\ ~ctxDone
    /\ ctxDone' = TRUE
    /\ UNCHANGED <<pc, pool, nextID, cancelled, vu, barrierVars>>

-----------------------------------------------------------------------------
(* The barrier                                                             *)

release == waiting' = 0 /\ gen' = gen + 1

steps(v, s) == vu' = [vu EXCEPT ![v] = s]

poolUnchanged == UNCHANGED <<ctxDone, pc, pool, nextID, cancelled>>

\* Mutant of BarrierWait: one timer per gather, that of the first VU to come.
BarrierWaitFirst(v) ==
    /\ vu[v] = "gather"
    /\ \/ /\ waiting + 1 >= Target \/ stopped(v)
          /\ release
          /\ steps(v, "exec")
          /\ UNCHANGED <<myGen, timers>>
       \/ /\ waiting + 1 < Target /\ ~stopped(v)
          /\ waiting' = waiting + 1
          /\ myGen' = [myGen EXCEPT ![v] = gen]
          /\ timers' = IF timers = {} THEN {v} ELSE timers
          /\ steps(v, "wait")
          /\ UNCHANGED gen
    /\ UNCHANGED expired
    /\ poolUnchanged

\* wait up to cond.Wait: the VU that completes the gather releases it and goes
\* on; a VU whose context is done by then releases whoever is there.
BarrierWait(v) ==
    /\ vu[v] = "gather"
    /\ \/ /\ waiting + 1 >= Target \/ stopped(v)
          /\ release
          /\ steps(v, "exec")
          /\ UNCHANGED <<myGen, timers>>
       \/ /\ waiting + 1 < Target /\ ~stopped(v)
          /\ waiting' = waiting + 1
          /\ myGen' = [myGen EXCEPT ![v] = gen]
          /\ timers' = timers \cup {v}
          /\ steps(v, "wait")
          /\ UNCHANGED gen
    /\ UNCHANGED expired
    /\ poolUnchanged

\* Mutant of BarrierLeave: the waiter expects the very next generation.
BarrierLeaveNext(v) ==
    /\ vu[v] = "wait"
    /\ gen = myGen[v] + 1
    /\ timers' = timers \ {v}
    /\ steps(v, "exec")
    /\ UNCHANGED <<waiting, gen, myGen, expired>>
    /\ poolUnchanged

\* A waiter is woken by the broadcast of its generation's release, and by
\* nothing else: the end of its context does not wake it.
BarrierLeave(v) ==
    /\ vu[v] = "wait"
    /\ gen # myGen[v]
    /\ timers' = timers \ {v}
    /\ steps(v, "exec")
    /\ UNCHANGED <<waiting, gen, myGen, expired>>
    /\ poolUnchanged

\* A timeout fires; its callback still has to take the mutex.
TimerFire(v) ==
    /\ v \in timers
    /\ timers' = timers \ {v}
    /\ expired' = expired \cup {myGen[v]}
    /\ UNCHANGED <<vu, waiting, gen, myGen>>
    /\ poolUnchanged

\* Mutant of TimerCallback: it releases whichever generation it finds.
TimerCallbackAny(g) ==
    /\ g \in expired
    /\ release
    /\ expired' = expired \ {g}
    /\ UNCHANGED <<vu, myGen, timers>>
    /\ poolUnchanged

\* The timeout releases the generation it was started in, and no later one.
TimerCallback(g) ==
    /\ g \in expired
    /\ IF gen = g THEN release ELSE UNCHANGED <<waiting, gen>>
    /\ expired' = expired \ {g}
    /\ UNCHANGED <<vu, myGen, timers>>
    /\ poolUnchanged

-----------------------------------------------------------------------------
(* A virtual user                                                          *)

\* Before the barrier, after a request and in the pause that may follow it, a
\* VU whose context is done returns.
VUReturn(v) ==
    /\ vu[v] \in {"top", "exec"}
    /\ stopped(v)
    /\ steps(v, "gone")
    /\ UNCHANGED barrierVars
    /\ poolUnchanged

\* Its context is not done: the VU goes to the barrier.
VUIterate(v) ==
    /\ vu[v] = "top" /\ ~stopped(v)
    /\ gen < MaxGen
    /\ steps(v, "gather")
    /\ UNCHANGED barrierVars
    /\ poolUnchanged

\* The request is done and recorded; the pause ends at the next iteration.
VURequest(v) ==
    /\ vu[v] = "exec" /\ ~stopped(v)
    /\ steps(v, "top")
    /\ UNCHANGED barrierVars
    /\ poolUnchanged

-----------------------------------------------------------------------------
VUNext(v) ==
    VUIterate(v) \/ BarrierWait(v) \/ BarrierLeave(v) \/ VURequest(v)
        \/ VUReturn(v)

TimerStep == (\E v \in timers : TimerFire(v)) \/ (\E g \in expired : TimerCallback(g))

Next ==
    \/ \E n \in Targets : ControlTick(n)
    \/ RunEnd \/ Cancel
    \/ \E v \in VU : VUNext(v)
    \/ TimerStep

Spec == Init /\ [][Next]_vars

\* Goroutines run and timers fire.
FairSpec ==
    /\ Spec
    /\ \A v \in VU : WF_vars(VUNext(v))
    /\ WF_vars(TimerStep)

-----------------------------------------------------------------------------
(* Properties                                                              *)

\* Every variable of the pool and the barrier in its type.
TypeOK ==
    /\ ctxDone \in BOOLEAN
    /\ pc \in {"run", "done"}
    /\ pool \in Seq(VU)
    /\ nextID \in 0..MaxSpawn
    /\ cancelled \subseteq VU
    /\ vu \in [VU -> VUStep]
    /\ waiting \in Nat
    /\ gen \in Nat
    /\ myGen \in [VU -> Nat]
    /\ timers \subseteq VU
    /\ expired \subseteq Nat

\* The VUs that gather: asleep, and not yet released.
gathered == {v \in VU : vu[v] = "wait" /\ myGen[v] = gen}

\* The barrier's counter is the number of VUs that really wait for the current
\* generation, also while released ones have not woken up yet.
WaitingIsExact == waiting = Cardinality(gathered)

\* A waiting VU always has somebody who will wake it: its own timer, a callback
\* of its generation on the way, or a release that has happened.
WaitersHaveATimer ==
    \A v \in gathered : v \in timers \/ gen \in expired

\* The barrier knows who waits, and whoever waits will be woken.
BarrierIsExact == WaitingIsExact /\ WaitersHaveATimer

\* The pool counts working VUs: none of its VUs has returned or is told to,
\* unless the whole run is cancelled.
PoolIsLive ==
    ctxDone \/ \A i \in 1..Len(pool) :
                  pool[i] \notin cancelled /\ vu[pool[i]] # "gone"

\* A gather that is not complete is released only because one of its own VUs
\* timed out or has to return: a late timer of an earlier one never does it.
NoEarlyRelease ==
    [][gen' # gen =>
          \/ waiting + 1 >= Target
          \/ gen \in expired
          \/ \E v \in VU : vu[v] = "gather" /\ vu'[v] = "exec" /\ stopped(v)]_vars

\* When Run has returned every VU returns too, also one that sleeps at the
\* barrier with nobody left to complete the gather.
VUsDrain == pc = "done" ~> \A v \in VU : vu[v] \in {"none", "gone"}
=============================================================================
