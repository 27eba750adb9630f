----------------------------- MODULE MCFarmSync ------------------------------
(* Two small farms for TLC: a device of its own through every reading the     *)
(* feed may give of it, and three devices of one container going up and down. *)
(* Which of the two there is stays as it was at first; the devices of the     *)
(* other are never in the feed.                                               *)
EXTENDS FarmSync, TLC

CONSTANTS d0, d1, d2, d3, k1, a1, w1, i1
VARIABLE part

Devs     == {d0, d1, d2, d3}
OneCont  == {k1}
Codes1   == {a1}
Workers1 == {w1}
Ips1     == {i1}
Statuses == {"working", "offline", "suspended"}
MCHash   == {80, 91, 100}

(* Every reading of a device in operation that hashes fully or not at all;    *)
(* a device that lacks nothing may also hash low or be out of operation.      *)
Whole == {r \in Raw : r.cont # Null /\ r.worker # Null /\ r.ip # Null /\ r.codes = {}}
RowsFeed == {r \in Raw : r.inop /\ (r.status = "working") = (r.hash = 100)}
            \cup {r \in Whole : IF r.inop THEN r.status = "working" /\ r.hash # Null
                                           ELSE r.status = "offline"}

(* Devices of one container that are either up or down. *)
UpDownFeed == {r \in RowsFeed : r.inop /\ r.cont = k1 /\ r.worker = Null /\ r.ip = Null
                                /\ r.codes = {} /\ r.status # "suspended"
                                /\ (r.status = "working" => r.hash = 100)}

Absent == [d \in Devs |-> Null]
RowsAnswers == {[Absent EXCEPT ![d0] = r] : r \in Opt(RowsFeed)}
UpDownAnswers == {[d \in Devs |-> IF d = d0 THEN Null ELSE x[d]] :
                      x \in [{d1, d2, d3} -> Opt(UpDownFeed)]}

Symm == Permutations({d1, d2, d3})
Gaps == {5, 14, 46}

Farms == {[name |-> "rows",   gaps |-> {14, 46}, last |-> 74],
          [name |-> "updown", gaps |-> {5},      last |-> 20]}

FarmInit == Init /\ part \in Farms

FarmNext ==
    \/ \E g \in part.gaps : StartRun(g) /\ now' <= part.last /\ UNCHANGED part
    \/ \E raw \in IF part.name = "rows" THEN RowsAnswers ELSE UpDownAnswers :
          Apply(raw) /\ UNCHANGED part
    \/ Fail /\ UNCHANGED part
    \/ FinishRun /\ UNCHANGED part
    \/ Crash /\ UNCHANGED part

FarmSpec == FarmInit /\ [][FarmNext]_<<vars, part>>
=============================================================================
