------------------------------- MODULE MCAccess -------------------------------
(***************************************************************************)
(* The instance of Access for TLC: an administrator, an account that is    *)
(* created on the way, and one operation of each route.                    *)
(***************************************************************************)
EXTENDS Access, TLC

CONSTANTS u1, u2, p1, q1, q2

set(f, v) == [field |-> f, value |-> v]

\* u2 is the account that administrators work on.
AllOps ==
    {[route |-> "update_user", target |-> u2,
      sets |-> <<set("role", "viewer"), set("disabled", TRUE)>>],
     [route |-> "change_password", target |-> None,
      sets |-> <<set("password", "new")>>],
     [route |-> "reset_token", target |-> None, sets |-> <<set("api", "new")>>],
     [route |-> "delete_user", target |-> u2, sets |-> <<>>],
     [route |-> "create_user", target |-> u2, role |-> "viewer"]}

ReqSymmetry == Permutations({q1, q2})
=============================================================================
