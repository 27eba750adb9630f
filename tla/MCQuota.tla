------------------------------- MODULE MCQuota -------------------------------
(* Small quotas for TLC. *)
EXTENDS Quota, TLC

CONSTANTS r1, r2

TwoReqs == {r1, r2}
Symm    == Permutations(Req)
=============================================================================
