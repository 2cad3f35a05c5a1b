-------------------------------- MODULE Ramp --------------------------------
(***************************************************************************)
(* The load profile of a run: how the coordinator slices it over workers   *)
(* (internal/coordinator/scheduler), what it asks a worker for at a time   *)
(* (internal/worker/executor, ramp.go), and the pause between iterations   *)
(* (think.go).                                                             *)
(*                                                                         *)
(* A stage is a record of a duration and two targets.  Interpolation is    *)
(* computed in exact fractions where the code uses float64.                *)
(***************************************************************************)
EXTENDS Integers, Sequences, FiniteSetsExt

-----------------------------------------------------------------------------
(* Slices                                                                  *)

\* Mutant of splitEven: the remainder is lost.
splitEvenFloor(total, n) == [i \in 1..n |-> total \div n]

\* The first shares take the remainder.
splitEven(total, n) ==
    [i \in 1..n |-> total \div n + (IF i <= total % n THEN 1 ELSE 0)]

SliceRamp(stages, n) ==
    [i \in 1..n |->
        [s \in DOMAIN stages |-> [dur |-> stages[s].dur,
                                  vus |-> splitEven(stages[s].vus, n)[i],
                                  rps |-> splitEven(stages[s].rps, n)[i]]]]

-----------------------------------------------------------------------------
(* The target over time                                                    *)

\* When stage k begins; Total is the beginning of the stage after the last.
begins(stages, k) == SumFunction([i \in 1..k - 1 |-> stages[i].dur])
Total(stages) == begins(stages, Len(stages) + 1)

\* Stages at which the search for time t stops: one that lasts beyond t, and one
\* of no duration.
current(stages, t) ==
    {k \in DOMAIN stages : t < begins(stages, k + 1) \/ stages[k].dur = 0}

before(target, k) == IF k = 1 THEN 0 ELSE target[k - 1]

\* The target at time t as a fraction: linear within the stage that is current,
\* the last one's at the end.
interpolate(stages, target, t) ==
    IF current(stages, t) = {}
    THEN [num |-> IF stages = <<>> THEN 0 ELSE target[Len(stages)], den |-> 1]
    ELSE LET k == Min(current(stages, t))
             dur == stages[k].dur
             prev == before(target, k)
         IN  IF dur = 0
             THEN [num |-> target[k], den |-> 1]
             ELSE [num |-> prev * dur + (t - begins(stages, k)) * (target[k] - prev),
                   den |-> dur]

RateAt(stages, t) == interpolate(stages, [k \in DOMAIN stages |-> stages[k].rps], t)

\* Rounded to the nearest VU, halves up.
TargetAt(stages, t) ==
    LET q == interpolate(stages, [k \in DOMAIN stages |-> stages[k].vus], t)
    IN  (2 * q.num + q.den) \div (2 * q.den)

\* Does a worker run the open model?
IsArrival(stages) == \E k \in DOMAIN stages : stages[k].rps > 0

-----------------------------------------------------------------------------
(* Think time                                                              *)

\* thinker.any, of a plan with a distribution.
anyPause(c) ==
    CASE c.distribution = "uniform" -> c.max > 0
      [] c.distribution \in {"gaussian", "poisson"} -> c.mean > 0
      [] OTHER -> c.min > 0

\* The pauses that thinker.next may draw; a gaussian has no upper end, and its
\* draws are modelled up to so many deviations.
Deviations == 3
pauses(c) ==
    CASE c.distribution = "uniform" ->
             IF c.max <= c.min THEN {c.min} ELSE c.min..c.max
      [] c.distribution = "gaussian" ->
             {Max({0, c.mean + d * c.stddev}) : d \in -Deviations..Deviations}
      [] c.distribution = "poisson" -> IF c.mean <= 0 THEN {0} ELSE 0..20 * c.mean
      [] OTHER -> {c.min}
=============================================================================
