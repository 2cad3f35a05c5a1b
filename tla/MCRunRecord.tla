----------------------------- MODULE MCRunRecord -----------------------------
(***************************************************************************)
(* Instances of RunRecord for TLC: one API server, whose reaper, watchers, *)
(* launch and stop handlers interleave.                                    *)
(***************************************************************************)
EXTENDS RunRecord

CONSTANTS a1
=============================================================================
