---------------------------- MODULE MCAggregator ----------------------------
(***************************************************************************)
(* Instances of Aggregator for TLC: two workers report three seconds, one  *)
(* of them a second twice (its last flush falls into the second of the     *)
(* flush before), with failing requests, an idle second and a second that  *)
(* starts with transaction entries only.                                   *)
(***************************************************************************)
EXTENDS Aggregator

B(w, s, v, c, e, x, n) == [worker |-> w, sec |-> s, vus |-> v, count |-> c,
                           errors |-> e, txn |-> x, nr |-> n]

\* Load and errors: the breaker's two causes can both come about.
Mixed == {B("wb", 1, 1, 0, 0, 0, 1), B("wa", 2, 1, 2, 1, 0, 1),
          B("wa", 3, 1, 0, 0, 1, 1), B("wa", 3, 0, 2, 2, 0, 2)}
=============================================================================
