------------------------------ MODULE MCCatalog ------------------------------
(* The instances of Catalog for TLC. *)
EXTENDS Catalog, TLC

CONSTANTS u1, a1, t1, s1, e1, r1, r2, q1, q2, p1, p2

Symmetry ==
    Permutations({r1, r2}) \cup Permutations({p1, p2}) \cup Permutations({q1, q2})
=============================================================================
