------------------------------ MODULE MCBilling ------------------------------
(* Small accounts for TLC. *)
EXTENDS Billing

CONSTANTS r1, r2, c1, c2, c3, g1

OneReq  == {r1}
TwoReqs == {r1, r2}

TwoCharges == {c1, c2}
AllCharges == {c1, c2, c3}
OneCharge  == {c1}
OneGrant   == {g1}
NoGrants   == {}

(* c1 and c2 buy plans of different length, c3 a plan that is not for sale. *)
MCDays == [i \in Charge \cup Grant |-> CASE i = c1 -> 1 [] i = c2 -> 2 [] i = c3 -> 0
                                         [] OTHER -> 1]

Deployed    == {"activate", "grant", "revoke", "reconcile"}
WithSweep   == Deployed \cup {"sweep"}
PaymentsOnly == {"activate", "reconcile"}
=============================================================================
