------------------------------ MODULE MCNotify -------------------------------
(* Small farms and one recipient for TLC; the time unit stands for a few      *)
(* minutes.                                                                   *)
EXTENDS Notify, TLC

CONSTANTS d1, d2, k1, p1

OneDev   == {d1}
TwoDevs  == {d1, d2}
OneCont  == {k1}
OneRcpt  == {p1}
Statuses == {"working", "offline"}

Set(types, hold, every, sleep, wake) ==
    [enabled |-> TRUE, types |-> types, hold |-> hold, every |-> every,
     sleep |-> sleep, wake |-> wake]

(* Everything on, and the same waking up the recipient when both are offline. *)
AllOn   == {Set(Types, 1, 2, TRUE, 0)}
AllOnWake == {Set(Types, 1, 2, TRUE, 2)}
Awake   == {Set(Types \ {"daily"}, 1, 1, FALSE, 0)}
OnlyOffline == {Set({"offline", "online"}, 1, 2, TRUE, 0)}
OfflineOrPower == OnlyOffline \cup {Set({"power", "online"}, 1, 2, TRUE, 0)}

Reading(s, a) == [status |-> s, cont |-> k1, inop |-> TRUE, alarm |-> a]
UpDown   == {Reading("working", FALSE), Reading("offline", FALSE)}
WithAlarm == UpDown \cup {Reading("working", TRUE)}
AlarmOut == WithAlarm \cup {[Reading("working", TRUE) EXCEPT !.inop = FALSE]}
InOut    == UpDown \cup {[Reading("offline", FALSE) EXCEPT !.inop = FALSE]}

Symm == Permutations(Dev)
=============================================================================
