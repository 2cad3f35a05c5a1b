------------------------------ MODULE RateLimit ------------------------------
(***************************************************************************)
(* The limit on login attempts (internal/apisrv/ratelimit.go): a counter   *)
(* per client address in a window that begins with the first attempt.      *)
(*                                                                         *)
(* The attempts of one address are a sequence of times that never falls;   *)
(* buckets of other addresses, pruned when there are many and theirs has   *)
(* expired, are left out: an expired bucket and none at all are alike.     *)
(***************************************************************************)
EXTENDS Integers, Sequences

NoBucket == [count |-> 0, reset |-> -1]

\* The bucket after an attempt at time t.
attempted(b, t, window) ==
    IF t > b.reset THEN [count |-> 1, reset |-> t + window]
    ELSE [b EXCEPT !.count = @ + 1]

\* The buckets after each of the attempts.
buckets(times, window) ==
    LET after[i \in 0..Len(times)] ==
          IF i = 0 THEN NoBucket ELSE attempted(after[i - 1], times[i], window)
    IN  after

\* The attempts that are let through.
allow(times, max, window) ==
    {i \in DOMAIN times : buckets(times, window)[i].count <= max}
=============================================================================
