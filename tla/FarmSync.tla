------------------------------ MODULE FarmSync -------------------------------
(* The CROFT -> Kirka sync of the farm, app/services/farm/sync.py: every pass  *)
(* upserts the devices of the feed, appends history events for what changed,  *)
(* accumulates hourly buckets, raises the synthetic LOWHASH alarm with a      *)
(* hysteresis (farm/settings.py), samples each container and opens or closes  *)
(* its mass-outage incident.  Everything a pass writes is one transaction; the*)
(* run row is committed before and after it.                                  *)
(*                                                                            *)
(* Time is in minutes.  Of the six columns whose changes are logged (status,  *)
(* worker, pool, ip, container, client) the model has status, worker, ip and  *)
(* container: pool and client are treated by the code exactly as worker is.   *)
EXTENDS Integers, FiniteSets

CONSTANTS
    Dev,        \* devices of the feed, by their ext_id
    Cont,       \* containers
    Code,       \* alarm codes CROFT reports
    Worker, Ip, \* values the feed shows for a device's worker and ip
    Status,     \* device statuses of the feed
    Hash,       \* hashrate of a working device, in percent of nominal
    Feed,       \* the readings the feed may give of a device
    LowPct,     \* setting lowhash_pct
    MinDevices, \* containers with fewer devices raise no incident (5)
    Gap,        \* minutes between the starts of two passes
    MaxTime,    \* bound on the clock
    Null        \* a missing value

LOWHASH == "LOWHASH"
Time == Nat
Opt(S) == S \cup {Null}
AnyCode == Code \cup {LOWHASH}

(* A device as the feed reports it; only a working one has a hashrate. *)
Raw == {r \in [status : Status, worker : Opt(Worker), ip : Opt(Ip), cont : Opt(Cont),
               inop : BOOLEAN, codes : SUBSET Code, hash : Opt(Hash)] :
           r.status # "working" => r.hash = Null}

ASSUME FarmSyncAssumption ==
    /\ IsFiniteSet(Dev)
    /\ {"working", "offline"} \subseteq Status
    /\ Feed \subseteq Raw
    /\ Hash \subseteq Nat
    /\ LowPct \in Nat /\ MinDevices \in Nat /\ MaxTime \in Nat
    /\ Gap \subseteq Nat \ {0}
    /\ LOWHASH \notin Code
    /\ Null \notin Nat \cup Cont \cup Worker \cup Ip

VARIABLES
    now,        \* the clock
    run,        \* the sync pass: [phase, ok], ok as in the last run row
    dev,        \* farm_devices: the row of a device, Null when it has none
    hourly,     \* farm_device_hourly: device and hour -> [sum, n] of online samples
    samples,    \* farm_container_samples of a container
    incidents,  \* farm_incidents of a container
    log         \* what the events of a device say of it (history variable)
vars == <<now, run, dev, hourly, samples, incidents, log>>

(* A row; low is the "since" of its LOWHASH alarm, online its online_sec_total. *)
Row == [status : Status, worker : Opt(Worker), ip : Opt(Ip), cont : Opt(Cont),
        inop : BOOLEAN, codes : SUBSET AnyCode, low : Opt(Time), since : Time, first : Time,
        updated : Time, online : Nat]

Logged == {"status", "worker", "ip", "cont"}

(* The state of a device as its event history alone tells it: each logged     *)
(* column as its last event left it (Null before the first) and when the last *)
(* status and LOWHASH alarm_on events were.                                   *)
View == [status : Opt(Status), worker : Opt(Worker), ip : Opt(Ip), cont : Opt(Cont),
         codes : SUBSET AnyCode, since : Opt(Time), low : Opt(Time), moved : SUBSET Logged]
NoView == [status |-> Null, worker |-> Null, ip |-> Null, cont |-> Null,
           codes |-> {}, since |-> Null, low |-> Null, moved |-> {}]

Hour  == 0..(MaxTime \div 60)
Phase == {"idle", "started", "applied"}

TypeOK ==
    /\ now \in Time
    /\ run \in [phase : Phase, ok : BOOLEAN]
    /\ dev \in [Dev -> Opt(Row)]
    /\ hourly \in [Dev -> [Hour -> [sum : Nat, n : Nat]]]
    /\ \A c \in Cont :
          /\ samples[c] \subseteq [at : Time, total : Nat, offline : Nat]
          /\ incidents[c] \subseteq [started : Time, ended : Opt(Time)]
    /\ log \in [Dev -> View]

Init ==
    /\ now = 0
    /\ run = [phase |-> "idle", ok |-> FALSE]
    /\ dev = [d \in Dev |-> Null]
    /\ hourly = [d \in Dev |-> [h \in Hour |-> [sum |-> 0, n |-> 0]]]
    /\ samples = [c \in Cont |-> {}]
    /\ incidents = [c \in Cont |-> {}]
    /\ log = [d \in Dev |-> NoView]

-----------------------------------------------------------------------------
(* low_hash_alarm *)

ThisHour == now \div 60

Bucket(d, h) == IF h \in Hour THEN hourly[d][h] ELSE [sum |-> 0, n |-> 0]

(* Sum of hashrates and number of online samples of this and the last hour. *)
Acc(d) == LET a == Bucket(d, ThisHour - 1)
              b == Bucket(d, ThisHour) IN
          [sum |-> a.sum + b.sum, n |-> a.n + b.n]

(* A new device has no buckets and no previous alarm. *)
HadLow(d) == dev[d] # Null /\ LOWHASH \in dev[d].codes

(* The average over the window with the current reading is below the limit,   *)
(* which is 2% higher while the alarm is on.                                  *)
Low(d, r) ==
    /\ r.hash # Null
    /\ Acc(d).sum + r.hash < (LowPct + IF HadLow(d) THEN 2 ELSE 0) * (Acc(d).n + 1)

Codes(d, r) == r.codes \cup IF Low(d, r) THEN {LOWHASH} ELSE {}

-----------------------------------------------------------------------------
(* One device of the feed *)

(* Mutant: every pass credits the whole time in this status. *)
GainAgain(d) == IF dev[d].status = "working" THEN now - dev[d].since ELSE 0

(* Minutes credited to online_sec_total: the device was working at its last   *)
(* update, and that is less than 15 minutes ago.                              *)
OnlineGain(d) ==
    LET dt == now - dev[d].updated IN
    IF dev[d].status = "working" /\ 0 < dt /\ dt < 15 THEN dt ELSE 0

(* Mutant: the column has no default. *)
OnlineUnset(d) == IF dev[d] = Null THEN Null ELSE dev[d].online + OnlineGain(d)

Online(d) == IF dev[d] = Null THEN 0 ELSE dev[d].online + OnlineGain(d)

(* Mutant: status_since moves with every pass. *)
SinceNow(d, r) == now

Since(d, r) == IF dev[d] # Null /\ dev[d].status = r.status THEN dev[d].since ELSE now

(* Mutant: the alarm is raised anew by every pass. *)
LowNow(d, r) == IF Low(d, r) THEN now ELSE Null

LowSince(d, r) == IF ~Low(d, r) THEN Null ELSE IF HadLow(d) THEN dev[d].low ELSE now

Upserted(d, r) ==
    [status  |-> r.status, worker |-> r.worker, ip |-> r.ip, cont |-> r.cont,
     inop    |-> r.inop,
     codes   |-> Codes(d, r),
     low     |-> LowSince(d, r),
     since   |-> Since(d, r),
     first   |-> IF dev[d] = Null THEN now ELSE dev[d].first,
     updated |-> now,
     online  |-> Online(d)]

(* Mutant: a value that disappears is not an event for any column. *)
ChangedKnown(d, r) ==
    IF dev[d] = Null THEN {"status"}
    ELSE {k \in {"status", "worker", "cont", "ip"} : dev[d][k] # r[k] /\ r[k] # Null}

(* Columns an event is written for: a new device is only "seen", and an ip    *)
(* that disappears is not an event.                                           *)
Changed(d, r) ==
    IF dev[d] = Null THEN {"status"}
    ELSE {k \in {"status", "worker", "cont"} : dev[d][k] # r[k]}
         \cup IF dev[d].ip # r.ip /\ r.ip # Null THEN {"ip"} ELSE {}

OldCodes(d) == IF dev[d] = Null THEN {} ELSE dev[d].codes
AlarmOn(d, r)  == Codes(d, r) \ OldCodes(d)
AlarmOff(d, r) == OldCodes(d) \ Codes(d, r)

(* The view after the events of this pass. *)
Replayed(d, r) ==
    LET v == log[d]
        ch == Changed(d, r) IN
    [status |-> IF "status" \in ch THEN r.status ELSE v.status,
     since  |-> IF "status" \in ch THEN now ELSE v.since,
     worker |-> IF "worker" \in ch THEN r.worker ELSE v.worker,
     ip     |-> IF "ip" \in ch THEN r.ip ELSE v.ip,
     cont   |-> IF "cont" \in ch THEN r.cont ELSE v.cont,
     codes  |-> (v.codes \cup AlarmOn(d, r)) \ AlarmOff(d, r),
     low    |-> IF LOWHASH \in AlarmOn(d, r) THEN now ELSE v.low,
     moved  |-> v.moved \cup ch]

(* _upsert_hourly: counters add up, and only online samples are counted. *)
Bucketed(d, r) ==
    [hourly[d] EXCEPT ![ThisHour] =
        [sum |-> @.sum + IF r.hash = Null THEN 0 ELSE r.hash,
         n   |-> @.n + IF r.status = "working" THEN 1 ELSE 0]]

-----------------------------------------------------------------------------
(* One container of the feed; raw[d] is Null for a device not in the feed *)

InFeed(raw) == {d \in Dev : raw[d] # Null}
Of(raw, c)  == {d \in InFeed(raw) : raw[d].cont = c}
Total(raw, c)   == Cardinality(Of(raw, c))
Offline(raw, c) == Cardinality({d \in Of(raw, c) : raw[d].status = "offline"})

Sampled(raw, c) ==
    IF Of(raw, c) = {} THEN samples[c]
    ELSE samples[c] \cup {[at |-> now, total |-> Total(raw, c), offline |-> Offline(raw, c)]}

Open(c)  == {i \in incidents[c] : i.ended = Null}
Older(c) == {s \in samples[c] : s.at <= now - 5}
Prev(c)  == CHOOSE s \in Older(c) : \A o \in Older(c) : o.at <= s.at

(* At least 80% are offline, and 40% more of them than in the latest sample   *)
(* that is 5 minutes old or older.                                            *)
Outage(raw, c) ==
    /\ Older(c) # {}
    /\ 10 * Offline(raw, c) >= 8 * Total(raw, c)
    /\ 10 * (Offline(raw, c) - Prev(c).offline) >= 4 * Total(raw, c)

Recovered(raw, c) == 10 * Offline(raw, c) < 2 * Total(raw, c)

(* Mutant: an outage is recorded whether or not one is open. *)
DetectedAgain(raw, c) ==
    IF Total(raw, c) < MinDevices \/ Of(raw, c) = {} THEN incidents[c]
    ELSE IF Outage(raw, c) THEN incidents[c] \cup {[started |-> now, ended |-> Null]}
    ELSE incidents[c]

(* _detect_incidents *)
Detected(raw, c) ==
    IF Total(raw, c) < MinDevices \/ Of(raw, c) = {} THEN incidents[c]
    ELSE IF Open(c) = {}
    THEN IF Outage(raw, c) THEN incidents[c] \cup {[started |-> now, ended |-> Null]}
                           ELSE incidents[c]
    ELSE IF Recovered(raw, c)
    THEN {IF i.ended = Null THEN [i EXCEPT !.ended = now] ELSE i : i \in incidents[c]}
    ELSE incidents[c]

-----------------------------------------------------------------------------
(* The worker's loop *)

Data == <<dev, hourly, samples, incidents, log>>

(* run_sync commits a run row, some time after the previous pass. *)
StartRun(g) ==
    /\ run.phase = "idle"
    /\ now + g <= MaxTime
    /\ now' = now + g
    /\ run' = [phase |-> "started", ok |-> FALSE]
    /\ UNCHANGED Data

(* _apply: the feed answered and its transaction commits. *)
Apply(raw) ==
    /\ run.phase = "started"
    /\ dev' = [d \in Dev |-> IF raw[d] = Null THEN dev[d] ELSE Upserted(d, raw[d])]
    /\ hourly' = [d \in Dev |-> IF raw[d] = Null THEN hourly[d] ELSE Bucketed(d, raw[d])]
    /\ log' = [d \in Dev |-> IF raw[d] = Null THEN log[d] ELSE Replayed(d, raw[d])]
    /\ samples' = [c \in Cont |-> Sampled(raw, c)]
    /\ incidents' = [c \in Cont |-> Detected(raw, c)]
    /\ run' = [run EXCEPT !.phase = "applied"]
    /\ UNCHANGED now

(* The feed or the transaction fails: rollback, the error goes to the run row. *)
Fail == /\ run.phase = "started"
        /\ run' = [phase |-> "idle", ok |-> FALSE]
        /\ UNCHANGED <<now, Data>>

(* The second commit of the run row. *)
FinishRun == /\ run.phase = "applied"
             /\ run' = [phase |-> "idle", ok |-> TRUE]
             /\ UNCHANGED <<now, Data>>

(* The worker dies and is restarted; the run row stays unfinished. *)
Crash == /\ run.phase # "idle"
         /\ run' = [run EXCEPT !.phase = "idle"]
         /\ UNCHANGED <<now, Data>>

Next == \/ \E g \in Gap : StartRun(g)
        \/ \E raw \in [Dev -> Opt(Feed)] : Apply(raw)
        \/ Fail \/ FinishRun \/ Crash

Spec == Init /\ [][Next]_vars

-----------------------------------------------------------------------------
(* Properties *)

(* The event history of a device accounts for its row, over any sequence of   *)
(* passes, failures, crashes and absences from the feed: status and alarms    *)
(* always, worker and container from their first change on, ip while one is   *)
(* known (_apply's events, shown as the device's history).                    *)
EventsTellTheRow ==
    \A d \in Dev :
        IF dev[d] = Null THEN log[d] = NoView
        ELSE /\ log[d].status = dev[d].status
             /\ log[d].codes = dev[d].codes
             /\ \A k \in {"worker", "cont"} \cap log[d].moved : log[d][k] = dev[d][k]
             /\ "ip" \in log[d].moved /\ dev[d].ip # Null => log[d].ip = dev[d].ip

(* status_since, which the notifier's hold timers count from, is the moment   *)
(* of the device's last seen or status event.                                 *)
SinceIsLastStatusEvent ==
    \A d \in Dev : dev[d] # Null => dev[d].since = log[d].since

(* The LOWHASH alarm carries the moment its episode began, however long its   *)
(* average swings inside the hysteresis band (low_hash_alarm's since).        *)
LowSinceIsAlarmOn ==
    \A d \in Dev : dev[d] # Null =>
        IF LOWHASH \in dev[d].codes THEN dev[d].low = log[d].low ELSE dev[d].low = Null

(* The time a device is credited as online never exceeds the time since it    *)
(* was first seen (online_sec_total).                                         *)
OnlineWithinLife ==
    \A d \in Dev : dev[d] # Null => dev[d].online <= dev[d].updated - dev[d].first

(* A device's history accounts for its row and for the times in it, after any *)
(* passes, failures, crashes and absences (_apply's events), and the device   *)
(* has not been online for longer than it has been known.                     *)
RowTellsItsHistory ==
    /\ EventsTellTheRow /\ SinceIsLastStatusEvent /\ LowSinceIsAlarmOn
    /\ OnlineWithinLife

(* The table the sync writes is the table its readers assume: a row's times   *)
(* move only with its status and its alarm (app/db/farm_models.py, _apply).   *)
Columns(r) == IF r = Null THEN Null
              ELSE [status |-> r.status, since |-> r.since, cont |-> r.cont,
                    inop |-> r.inop, low |-> r.low]
Table == INSTANCE FarmTable WITH farm <- [d \in Dev |-> Columns(dev[d])]
WritesTheTable == Table!Spec

(* A missing row is none of the rows there may be. *)
ASSUME NullIsNoRow == Null \notin Row \cup Table!Row

(* The incidents of a container never overlap: at most one is open and the    *)
(* others ended before the next began (_detect_incidents).                    *)
Disjoint(i, j) == \/ i.ended # Null /\ i.ended <= j.started
                  \/ j.ended # Null /\ j.ended <= i.started
IncidentsDisjoint ==
    \A c \in Cont : \A i, j \in incidents[c] : i # j => Disjoint(i, j)
=============================================================================
