------------------------------ MODULE MCCluster ------------------------------
(***************************************************************************)
(* Instances of Cluster for TLC.  Runs r1 and r2 ask for different numbers *)
(* of workers, so that runs on one worker and runs on all of them meet.    *)
(***************************************************************************)
EXTENDS Cluster, TLC

CONSTANTS w1, w2, r1, r2, r3

\* Every run asks for all the workers there are.
AskAll == [r \in Run |-> 0]

\* r1 asks for all the workers, the other runs for one.
AskMixed == [r \in Run |-> IF r = r1 THEN 0 ELSE 1]

WorkerSymmetry == Permutations({w1, w2})
=============================================================================
