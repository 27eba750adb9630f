------------------------------ MODULE FarmTable ------------------------------
(* The farm_devices table as its readers may rely on it, whoever writes it:   *)
(* rows are never removed, every commit may change any number of them, and    *)
(* status_since and the start of the LOWHASH alarm move only when the status  *)
(* changes and when a new alarm episode begins.  FarmSync implements this     *)
(* module.                                                                    *)
EXTENDS Naturals

CONSTANTS
    Dev,        \* devices
    Cont,       \* containers
    Status,     \* device statuses
    Null        \* a missing value

VARIABLES now, farm
vars == <<now, farm>>

(* The columns the readers decide on. *)
Row == [status : Status, since : Nat, cont : Cont \cup {Null}, inop : BOOLEAN,
        low : Nat \cup {Null}]

Init == /\ now = 0
        /\ farm = [d \in Dev |-> Null]

Pass == /\ now' > now
        /\ UNCHANGED farm

(* A committed update of a device from old to new. *)
Update(old, new) ==
    /\ new \in Row
    /\ new.since = IF old # Null /\ old.status = new.status THEN old.since ELSE now
    /\ new.low \in {Null, IF old # Null /\ old.low # Null THEN old.low ELSE now}

Commit == /\ \A d \in Dev : farm'[d] = farm[d] \/ Update(farm[d], farm'[d])
          /\ DOMAIN farm' = Dev
          /\ UNCHANGED now

Next == Pass \/ Commit

Spec == Init /\ [][Next]_vars
=============================================================================
