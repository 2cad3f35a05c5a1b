---------------------------- MODULE RunLifecycle ----------------------------
(***************************************************************************)
(* What the coordinator promises about a run during one lifetime of its    *)
(* process, whatever its workers and their streams do: a run is admitted   *)
(* at once or waits in line, is live at most once and with at most MaxRuns *)
(* others, ends once, and an aborted run stays aborted.                    *)
(*                                                                         *)
(* Cluster implements this specification (Cluster!Lifecycle).              *)
(***************************************************************************)
EXTENDS Naturals, Sequences, FiniteSets

CONSTANTS Run, MaxRuns

VARIABLES
    life,     \* [Run -> {"new", "waiting", "live", "over"}]
    verdict,  \* [Run -> {"none", "completed", "aborted"}]
    line      \* Seq(Run): the waiting runs, the next one first

lifeVars == <<life, verdict, line>>

Live == {r \in Run : life[r] = "live"}

LifeInit ==
    /\ life = [r \in Run |-> "new"]
    /\ verdict = [r \in Run |-> "none"]
    /\ line = <<>>

\* No slot, or no worker to be seen.
Wait(r) ==
    /\ life[r] = "new"
    /\ life' = [life EXCEPT ![r] = "waiting"]
    /\ line' = Append(line, r)
    /\ UNCHANGED verdict

goLive(r) ==
    /\ Cardinality(Live) < MaxRuns
    /\ life' = [life EXCEPT ![r] = "live"]
    /\ UNCHANGED verdict

\* A new run may overtake those in line, which wait for more than a slot.
Admit(r) ==
    /\ life[r] = "new"
    /\ goLive(r)
    /\ UNCHANGED line

\* Those in line are served in order.
ServeLine ==
    /\ line # <<>>
    /\ life[Head(line)] = "waiting"
    /\ goLive(Head(line))
    /\ line' = Tail(line)

\* A stop; the breaker may also fire on a run that is just over.
Abort(r) ==
    /\ life[r] \in {"live", "over"}
    /\ verdict' = [verdict EXCEPT ![r] = "aborted"]
    /\ UNCHANGED <<life, line>>

\* The end sets the verdict if nothing has set it before.
Finish(r, v) ==
    /\ life[r] = "live"
    /\ life' = [life EXCEPT ![r] = "over"]
    /\ verdict' = [verdict EXCEPT ![r] = IF @ = "none" THEN v ELSE @]
    /\ UNCHANGED line

LifeNext ==
    \/ ServeLine
    \/ \E r \in Run : \/ Wait(r) \/ Admit(r) \/ Abort(r)
                      \/ \E v \in {"completed", "aborted"} : Finish(r, v)

LifeSpec == LifeInit /\ [][LifeNext]_lifeVars
=============================================================================
