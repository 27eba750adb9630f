----------------------------- MODULE FarmProofs ------------------------------
(* The farm sync, for every farm, feed and setting: what a pass writes is     *)
(* typed, a device's event history accounts for its row, the incidents of a   *)
(* container do not overlap, and the table is the one its readers assume.     *)
(*                                                                            *)
(* None of this is inductive alone.  A history tells the row it was written   *)
(* with; that the time online stays within the device's life needs its last   *)
(* update to be in the past, and that incidents do not overlap needs those    *)
(* that are over to have ended by now.                                        *)
EXTENDS FarmSync, FiniteSetTheorems, TLAPS

(* Clocks in a row do not run ahead. *)
RowsArePast ==
    \A d \in Dev : dev[d] # Null => dev[d].first <= dev[d].updated /\ dev[d].updated <= now

(* What is recorded of an outage has happened. *)
IncidentsArePast ==
    \A c \in Cont : \A i \in incidents[c] :
        i.started <= now /\ (i.ended # Null => i.ended <= now)

FarmInv == TypeOK /\ RowsArePast /\ RowTellsItsHistory /\ IncidentsArePast /\ IncidentsDisjoint

-----------------------------------------------------------------------------
(* A number is not missing, nor is a row. *)
LEMMA Missing ==
    /\ Null \notin Nat /\ \A r \in Row : r # Null
    /\ \A r \in Table!Row : r # Null
BY FarmSyncAssumption, NullIsNoRow

(* The sizes the sampler writes are numbers. *)
LEMMA Counts ==
    ASSUME NEW raw, NEW c
    PROVE  Total(raw, c) \in Nat /\ Offline(raw, c) \in Nat
<1>1. Of(raw, c) \in SUBSET Dev /\ {d \in Of(raw, c) : raw[d].status = "offline"} \in SUBSET Dev
  BY DEF Of, InFeed
<1>2. IsFiniteSet(Dev)
  BY FarmSyncAssumption
<1>. QED  BY <1>1, <1>2, FS_Subset, FS_CardinalityType DEF Total, Offline

(* A row is written typed. *)
LEMMA UpsertedTyped ==
    ASSUME TypeOK, RowsArePast, NEW d \in Dev, NEW r \in Feed
    PROVE  /\ Upserted(d, r) \in Row
           /\ Online(d) \in Nat
           /\ dev[d] # Null => Online(d) <= dev[d].online + (now - dev[d].updated)
           /\ dev[d] = Null => Online(d) = 0
<1>1. r \in Raw /\ Code \subseteq AnyCode
  BY FarmSyncAssumption DEF AnyCode
<1>2. now \in Nat /\ (dev[d] # Null => dev[d] \in Row)
  BY DEF TypeOK, Opt, Time
<1>3. ASSUME dev[d] # Null
      PROVE  /\ OnlineGain(d) \in Nat /\ OnlineGain(d) <= now - dev[d].updated
             /\ dev[d].online \in Nat /\ dev[d].updated \in Nat
  BY <1>2, <1>3 DEF OnlineGain, Row, RowsArePast, Time
<1>4. /\ Online(d) \in Nat
      /\ dev[d] # Null => Online(d) <= dev[d].online + (now - dev[d].updated)
      /\ dev[d] = Null => Online(d) = 0
  BY <1>2, <1>3 DEF Online
<1>5. Since(d, r) \in Nat
  BY <1>2 DEF Since, Row, Time
<1>6. LowSince(d, r) \in Opt(Time)
  BY <1>2 DEF LowSince, HadLow, Row, Opt, Time
<1>7. Codes(d, r) \in SUBSET AnyCode
  BY <1>1 DEF Codes, AnyCode, Raw
<1>8. /\ r.status \in Status /\ r.worker \in Opt(Worker) /\ r.ip \in Opt(Ip)
      /\ r.cont \in Opt(Cont) /\ r.inop \in BOOLEAN
  BY <1>1 DEF Raw
<1>9. (IF dev[d] = Null THEN now ELSE dev[d].first) \in Nat
  BY <1>2 DEF Row, Time
<1>. QED  BY <1>2, <1>4, <1>5, <1>6, <1>7, <1>8, <1>9 DEF Upserted, Row, Time

(* So is the view of its events. *)
LEMMA ReplayedTyped ==
    ASSUME TypeOK, NEW d \in Dev, NEW r \in Feed
    PROVE  Replayed(d, r) \in View
<1>. DEFINE v == log[d]
            ch == Changed(d, r)
<1>1. r \in Raw /\ v \in View /\ now \in Nat
  BY FarmSyncAssumption DEF TypeOK, Time
<1>2. Codes(d, r) \in SUBSET AnyCode
  BY <1>1 DEF Codes, AnyCode, Raw
<1>3. AlarmOn(d, r) \in SUBSET AnyCode
  BY <1>2 DEF AlarmOn
<1>4. ch \in SUBSET Logged
  BY DEF Changed, Logged
<1>5. /\ (IF "status" \in ch THEN r.status ELSE v.status) \in Opt(Status)
      /\ (IF "status" \in ch THEN now ELSE v.since) \in Opt(Time)
      /\ (IF "worker" \in ch THEN r.worker ELSE v.worker) \in Opt(Worker)
      /\ (IF "ip" \in ch THEN r.ip ELSE v.ip) \in Opt(Ip)
      /\ (IF "cont" \in ch THEN r.cont ELSE v.cont) \in Opt(Cont)
      /\ (IF LOWHASH \in AlarmOn(d, r) THEN now ELSE v.low) \in Opt(Time)
  BY <1>1 DEF Raw, View, Opt, Time
<1>6. (v.codes \cup AlarmOn(d, r)) \ AlarmOff(d, r) \in SUBSET AnyCode
  BY <1>1, <1>3 DEF View
<1>7. v.moved \cup ch \in SUBSET Logged
  BY <1>1, <1>4 DEF View
<1>. QED  BY <1>5, <1>6, <1>7 DEF Replayed, View

(* And the hourly counters. *)
LEMMA BucketedTyped ==
    ASSUME TypeOK, NEW d \in Dev, NEW r \in Feed
    PROVE  Bucketed(d, r) \in [Hour -> [sum : Nat, n : Nat]]
<1>1. r \in Raw /\ hourly[d] \in [Hour -> [sum : Nat, n : Nat]]
  BY FarmSyncAssumption DEF TypeOK
<1>2. r.hash = Null \/ r.hash \in Nat
  BY <1>1, FarmSyncAssumption DEF Raw, Opt
<1>. DEFINE old == hourly[d][ThisHour]
            new == [sum |-> old.sum + IF r.hash = Null THEN 0 ELSE r.hash,
                    n   |-> old.n + IF r.status = "working" THEN 1 ELSE 0]
<1>3. ThisHour \in Hour => new \in [sum : Nat, n : Nat]
  BY <1>1, <1>2
<1>4. Bucketed(d, r) = [hourly[d] EXCEPT ![ThisHour] = new]
  BY DEF Bucketed
<1>. HIDE DEF new
<1>. QED  BY <1>1, <1>3, <1>4

-----------------------------------------------------------------------------
(* One device through one pass *)

(* Its history accounts for its new row, column by column. *)
LEMMA HistoryStep ==
    ASSUME FarmInv, NEW d \in Dev, NEW r \in Feed,
           dev'[d] = Upserted(d, r), log'[d] = Replayed(d, r)
    PROVE  /\ dev'[d] # Null
           /\ log'[d].status = dev'[d].status
           /\ log'[d].codes = dev'[d].codes
           /\ \A k \in {"worker", "cont"} \cap log'[d].moved : log'[d][k] = dev'[d][k]
           /\ "ip" \in log'[d].moved /\ dev'[d].ip # Null => log'[d].ip = dev'[d].ip
           /\ dev'[d].since = log'[d].since
           /\ IF LOWHASH \in dev'[d].codes THEN dev'[d].low = log'[d].low
                                           ELSE dev'[d].low = Null
           /\ dev'[d].online <= dev'[d].updated - dev'[d].first
<1>. DEFINE u == Upserted(d, r)
            p == Replayed(d, r)
            ch == Changed(d, r)
<1>1. TypeOK /\ RowsArePast /\ EventsTellTheRow /\ SinceIsLastStatusEvent
      /\ LowSinceIsAlarmOn /\ OnlineWithinLife
  BY DEF FarmInv, RowTellsItsHistory
<1>2. r \in Raw /\ now \in Nat /\ (dev[d] # Null => dev[d] \in Row)
  BY <1>1, FarmSyncAssumption DEF TypeOK, Opt, Time
<1>3. u \in Row /\ u # Null
  BY <1>1, UpsertedTyped, Missing
<1>4. /\ u.status = r.status /\ u.worker = r.worker /\ u.ip = r.ip /\ u.cont = r.cont
      /\ u.codes = Codes(d, r) /\ u.low = LowSince(d, r) /\ u.since = Since(d, r)
      /\ u.first = (IF dev[d] = Null THEN now ELSE dev[d].first) /\ u.updated = now
      /\ u.online = Online(d)
  BY DEF Upserted
<1>5. /\ p.status = (IF "status" \in ch THEN r.status ELSE log[d].status)
      /\ p.since = (IF "status" \in ch THEN now ELSE log[d].since)
      /\ p.worker = (IF "worker" \in ch THEN r.worker ELSE log[d].worker)
      /\ p.ip = (IF "ip" \in ch THEN r.ip ELSE log[d].ip)
      /\ p.cont = (IF "cont" \in ch THEN r.cont ELSE log[d].cont)
      /\ p.codes = (log[d].codes \cup AlarmOn(d, r)) \ AlarmOff(d, r)
      /\ p.low = (IF LOWHASH \in AlarmOn(d, r) THEN now ELSE log[d].low)
      /\ p.moved = log[d].moved \cup ch
  BY DEF Replayed
<1>6. CASE dev[d] = Null
  <2>1. ch = {"status"} /\ log[d] = NoView
    BY <1>1, <1>6 DEF Changed, EventsTellTheRow
  <2>2. p.codes = Codes(d, r)
    BY <1>5, <1>6, <2>1 DEF NoView, AlarmOn, AlarmOff, OldCodes
  <2>3. p.moved = {"status"}
    BY <1>5, <2>1 DEF NoView
  <2>4. IF LOWHASH \in u.codes THEN u.low = p.low ELSE u.low = Null
    BY <1>2, <1>4, <1>5, <1>6, FarmSyncAssumption
       DEF Codes, LowSince, HadLow, AlarmOn, OldCodes, Raw
  <2>5. u.since = p.since
    BY <1>4, <1>5, <1>6, <2>1 DEF Since
  <2>6. u.online <= u.updated - u.first
    BY <1>1, <1>2, <1>4, <1>6, UpsertedTyped
  <2>. QED  BY <1>3, <1>4, <1>5, <2>1, <2>2, <2>3, <2>4, <2>5, <2>6
<1>7. CASE dev[d] # Null
  <2>1. \A k \in {"status", "worker", "cont"} : k \in ch <=> dev[d][k] # r[k]
    BY <1>7 DEF Changed
  <2>2. "ip" \in ch <=> dev[d].ip # r.ip /\ r.ip # Null
    BY <1>7 DEF Changed
  <2>3. p.status = u.status
    BY <1>1, <1>4, <1>5, <1>7, <2>1 DEF EventsTellTheRow
  <2>4. p.codes = u.codes
    BY <1>1, <1>4, <1>5, <1>7 DEF EventsTellTheRow, AlarmOn, AlarmOff, OldCodes
  <2>5. "worker" \in p.moved => p.worker = u.worker
    BY <1>1, <1>4, <1>5, <1>7, <2>1 DEF EventsTellTheRow
  <2>6. "cont" \in p.moved => p.cont = u.cont
    BY <1>1, <1>4, <1>5, <1>7, <2>1 DEF EventsTellTheRow
  <2>7. "ip" \in p.moved /\ u.ip # Null => p.ip = u.ip
    BY <1>1, <1>4, <1>5, <1>7, <2>2 DEF EventsTellTheRow
  <2>8. u.since = p.since
    BY <1>1, <1>4, <1>5, <1>7, <2>1 DEF Since, SinceIsLastStatusEvent
  <2>9. LOWHASH \in u.codes <=> Low(d, r)
    BY <1>2, <1>4, FarmSyncAssumption DEF Codes, Raw
  <2>10. IF LOWHASH \in u.codes THEN u.low = p.low ELSE u.low = Null
    BY <1>1, <1>4, <1>5, <1>7, <2>9 DEF LowSince, HadLow, AlarmOn, OldCodes, LowSinceIsAlarmOn
  <2>11. u.online <= u.updated - u.first
    <3>1. /\ dev[d].online <= dev[d].updated - dev[d].first
          /\ Online(d) <= dev[d].online + (now - dev[d].updated) /\ Online(d) \in Nat
      BY <1>1, <1>7, UpsertedTyped DEF OnlineWithinLife
    <3>2. /\ dev[d].online \in Nat /\ dev[d].updated \in Nat /\ dev[d].first \in Nat
      BY <1>2, <1>7 DEF Row, Time
    <3>. QED  BY <1>2, <1>4, <1>7, <3>1, <3>2
  <2>. QED  BY <1>3, <2>3, <2>4, <2>5, <2>6, <2>7, <2>8, <2>10, <2>11
<1>. QED  BY <1>6, <1>7

(* One container through one pass: what it closes ends now, and it opens an   *)
(* outage when all that were have ended.                                      *)
LEMMA IncidentsStep ==
    ASSUME FarmInv, NEW c \in Cont, NEW raw,
           incidents'[c] = Detected(raw, c), now' = now
    PROVE  /\ incidents'[c] \subseteq [started : Time, ended : Opt(Time)]
           /\ \A i \in incidents'[c] : i.started <= now' /\ (i.ended # Null => i.ended <= now')
           /\ \A i, j \in incidents'[c] : i # j => Disjoint(i, j)
<1>. DEFINE old == incidents[c]
            opened == [started |-> now, ended |-> Null]
            closed(i) == IF i.ended = Null THEN [i EXCEPT !.ended = now] ELSE i
<1>1. /\ old \subseteq [started : Time, ended : Opt(Time)] /\ now \in Nat
      /\ \A i \in old : i.started <= now /\ (i.ended # Null => i.ended <= now)
      /\ \A i, j \in old : i # j => Disjoint(i, j)
      /\ Null \notin Nat
  BY Missing DEF FarmInv, TypeOK, IncidentsArePast, IncidentsDisjoint, Time
<1>2. CASE incidents'[c] = old
  BY <1>1, <1>2
<1>3. CASE Open(c) = {} /\ incidents'[c] = old \cup {opened}
  <2>1. \A i \in old : Disjoint(i, opened) /\ Disjoint(opened, i)
    BY <1>1, <1>3 DEF Open, Disjoint
  <2>2. opened \in [started : Time, ended : Opt(Time)]
    BY <1>1 DEF Opt, Time
  <2>. QED  BY <1>1, <1>3, <2>1, <2>2
<1>4. CASE incidents'[c] = {closed(i) : i \in old}
  <2>1. ASSUME NEW i \in old
        PROVE  /\ closed(i) \in [started : Time, ended : Opt(Time)]
               /\ closed(i).started = i.started /\ i.started \in Nat
               /\ closed(i).ended = (IF i.ended = Null THEN now ELSE i.ended)
               /\ closed(i).ended \in Nat /\ closed(i).ended <= now
    BY <1>1, <2>1 DEF Opt, Time
  <2>2. ASSUME NEW i \in old, NEW j \in old, i # j
        PROVE  Disjoint(closed(i), closed(j))
    <3>1. Disjoint(i, j)
      BY <1>1, <2>2
    <3>. HIDE DEF closed
    <3>. QED  BY <1>1, <2>1, <3>1 DEF Disjoint
  <2>3. ASSUME NEW x \in incidents'[c]
        PROVE  /\ x \in [started : Time, ended : Opt(Time)]
               /\ x.started <= now /\ (x.ended # Null => x.ended <= now)
    <3>1. PICK i \in old : x = closed(i)
      BY <1>4, <2>3
    <3>. HIDE DEF closed
    <3>. QED  BY <1>1, <2>1, <3>1
  <2>4. ASSUME NEW x \in incidents'[c], NEW y \in incidents'[c], x # y
        PROVE  Disjoint(x, y)
    <3>1. PICK i \in old : x = closed(i)
      BY <1>4, <2>4
    <3>2. PICK j \in old : y = closed(j)
      BY <1>4, <2>4
    <3>. HIDE DEF closed
    <3>. QED  BY <2>2, <2>4, <3>1, <3>2
  <2>. QED  BY <2>3, <2>4
<1>. QED  BY <1>2, <1>3, <1>4 DEF Detected

-----------------------------------------------------------------------------
LEMMA InitHolds == Init => FarmInv
<1>. SUFFICES ASSUME Init PROVE FarmInv
  OBVIOUS
<1>. USE DEF Init
<1>1. NoView \in View
  BY DEF NoView, View, Opt
<1>2. TypeOK
  BY <1>1 DEF TypeOK, Opt, Time, Phase
<1>3. RowsArePast /\ IncidentsArePast /\ IncidentsDisjoint
  BY DEF RowsArePast, IncidentsArePast, IncidentsDisjoint
<1>4. RowTellsItsHistory
  BY DEF RowTellsItsHistory, EventsTellTheRow, SinceIsLastStatusEvent, LowSinceIsAlarmOn,
         OnlineWithinLife
<1>. QED  BY <1>2, <1>3, <1>4 DEF FarmInv

(* A pass that commits. *)
LEMMA ApplyStep ==
    ASSUME FarmInv, NEW raw \in [Dev -> Opt(Feed)], Apply(raw)
    PROVE  FarmInv'
<1>1. TypeOK /\ RowsArePast /\ RowTellsItsHistory
  BY DEF FarmInv
<1>2. \A d \in Dev : raw[d] = Null \/ raw[d] \in Feed
  BY DEF Opt
<1>3. now' = now /\ now \in Nat
  BY <1>1 DEF Apply, TypeOK, Time
<1>4. ASSUME NEW d \in Dev, raw[d] = Null
      PROVE  dev'[d] = dev[d] /\ log'[d] = log[d] /\ hourly'[d] = hourly[d]
  BY <1>4 DEF Apply
<1>5. ASSUME NEW d \in Dev, raw[d] \in Feed, raw[d] # Null
      PROVE  /\ dev'[d] = Upserted(d, raw[d]) /\ dev'[d] \in Row
             /\ log'[d] = Replayed(d, raw[d]) /\ log'[d] \in View
             /\ hourly'[d] = Bucketed(d, raw[d])
             /\ hourly'[d] \in [Hour -> [sum : Nat, n : Nat]]
  BY <1>1, <1>5, UpsertedTyped, ReplayedTyped, BucketedTyped DEF Apply
<1>6. TypeOK'
  <2>1. now' \in Time /\ run' \in [phase : Phase, ok : BOOLEAN]
    BY <1>1, <1>3 DEF Apply, TypeOK, Phase
  <2>2. dev' \in [Dev -> Opt(Row)]
    <3>1. \A d \in Dev : dev'[d] \in Opt(Row)
      BY <1>1, <1>2, <1>4, <1>5 DEF TypeOK, Opt
    <3>2. dev' = [d \in Dev |-> dev'[d]]
      BY DEF Apply
    <3>. QED  BY <3>1, <3>2
  <2>3. hourly' \in [Dev -> [Hour -> [sum : Nat, n : Nat]]]
    <3>1. \A d \in Dev : hourly'[d] \in [Hour -> [sum : Nat, n : Nat]]
      BY <1>1, <1>2, <1>4, <1>5 DEF TypeOK
    <3>2. hourly' = [d \in Dev |-> hourly'[d]]
      BY DEF Apply
    <3>. QED  BY <3>1, <3>2
  <2>4. log' \in [Dev -> View]
    <3>1. \A d \in Dev : log'[d] \in View
      BY <1>1, <1>2, <1>4, <1>5 DEF TypeOK
    <3>2. log' = [d \in Dev |-> log'[d]]
      BY DEF Apply
    <3>. QED  BY <3>1, <3>2
  <2>5. ASSUME NEW c \in Cont
        PROVE  samples'[c] \subseteq [at : Time, total : Nat, offline : Nat]
    <3>1. samples'[c] = Sampled(raw, c)
      BY DEF Apply
    <3>2. [at |-> now, total |-> Total(raw, c), offline |-> Offline(raw, c)]
              \in [at : Time, total : Nat, offline : Nat]
      BY <1>3, Counts DEF Time
    <3>. QED  BY <1>1, <3>1, <3>2 DEF Sampled, TypeOK
  <2>6. ASSUME NEW c \in Cont
        PROVE  incidents'[c] \subseteq [started : Time, ended : Opt(Time)]
    BY <1>3, IncidentsStep DEF Apply
  <2>. QED  BY <2>1, <2>2, <2>3, <2>4, <2>5, <2>6 DEF TypeOK
<1>7. RowsArePast'
  <2>1. ASSUME NEW d \in Dev, dev'[d] # Null
        PROVE  dev'[d].first <= dev'[d].updated /\ dev'[d].updated <= now'
    <3>1. CASE raw[d] = Null
      BY <1>1, <1>3, <1>4, <2>1, <3>1 DEF RowsArePast
    <3>2. CASE raw[d] \in Feed /\ raw[d] # Null
      <4>a. dev'[d] = Upserted(d, raw[d])
        BY <1>5, <3>2
      <4>1. /\ dev'[d].first = (IF dev[d] = Null THEN now ELSE dev[d].first)
            /\ dev'[d].updated = now
        BY <4>a DEF Upserted
      <4>2. dev[d] # Null => /\ dev[d].first <= dev[d].updated /\ dev[d].updated <= now
                             /\ dev[d].first \in Nat /\ dev[d].updated \in Nat
        BY <1>1 DEF RowsArePast, TypeOK, Opt, Row, Time
      <4>. QED  BY <1>3, <4>1, <4>2
    <3>. QED  BY <1>2, <3>1, <3>2
  <2>. QED  BY <2>1 DEF RowsArePast
<1>8. RowTellsItsHistory'
  <2>1. ASSUME NEW d \in Dev
        PROVE  \/ dev'[d] = dev[d] /\ log'[d] = log[d]
               \/ dev'[d] = Upserted(d, raw[d]) /\ log'[d] = Replayed(d, raw[d]) /\ raw[d] \in Feed
    BY <1>2, <1>4, <1>5
  <2>2. EventsTellTheRow'
    BY <1>1, <2>1, HistoryStep DEF EventsTellTheRow, RowTellsItsHistory
  <2>3. SinceIsLastStatusEvent'
    BY <1>1, <2>1, HistoryStep DEF SinceIsLastStatusEvent, RowTellsItsHistory
  <2>4. LowSinceIsAlarmOn'
    BY <1>1, <2>1, HistoryStep DEF LowSinceIsAlarmOn, RowTellsItsHistory
  <2>5. OnlineWithinLife'
    BY <1>1, <2>1, HistoryStep DEF OnlineWithinLife, RowTellsItsHistory
  <2>. QED  BY <2>2, <2>3, <2>4, <2>5 DEF RowTellsItsHistory
<1>9. ASSUME NEW c \in Cont
      PROVE  /\ \A i \in incidents'[c] :
                    i.started <= now' /\ (i.ended # Null => i.ended <= now')
             /\ \A i, j \in incidents'[c] : i # j => Disjoint(i, j)
  BY <1>3, IncidentsStep DEF Apply
<1>10. IncidentsArePast' /\ IncidentsDisjoint'
  BY <1>9 DEF IncidentsArePast, IncidentsDisjoint, Disjoint
<1>. QED  BY <1>6, <1>7, <1>8, <1>10 DEF FarmInv

LEMMA Step == FarmInv /\ [Next]_vars => FarmInv'
<1>. SUFFICES ASSUME FarmInv, [Next]_vars PROVE FarmInv'
  OBVIOUS
(* Time passes, or only the run row changes. *)
<1>1. ASSUME UNCHANGED Data, now' \in Nat, now <= now',
             run' \in [phase : Phase, ok : BOOLEAN]
      PROVE  FarmInv'
  <2>1. /\ TypeOK /\ RowsArePast /\ RowTellsItsHistory /\ IncidentsArePast /\ IncidentsDisjoint
        /\ now \in Nat
    BY DEF FarmInv, TypeOK, Time
  <2>2. TypeOK'
    BY <1>1, <2>1 DEF TypeOK, Data, Time
  <2>3. RowsArePast'
    BY <1>1, <2>1 DEF RowsArePast, Data, TypeOK, Opt, Row, Time
  <2>4. RowTellsItsHistory'
    BY <1>1, <2>1 DEF RowTellsItsHistory, EventsTellTheRow, SinceIsLastStatusEvent,
                      LowSinceIsAlarmOn, OnlineWithinLife, Data
  <2>5. IncidentsArePast'
    <3>1. \A c \in Cont : \A i \in incidents[c] :
              i.started \in Nat /\ (i.ended # Null => i.ended \in Nat)
      BY <2>1 DEF TypeOK, Opt, Time
    <3>. QED  BY <1>1, <2>1, <3>1 DEF IncidentsArePast, Data
  <2>6. IncidentsDisjoint'
    BY <1>1, <2>1 DEF IncidentsDisjoint, Disjoint, Data
  <2>. QED  BY <2>2, <2>3, <2>4, <2>5, <2>6 DEF FarmInv
<1>2. now \in Nat /\ run \in [phase : Phase, ok : BOOLEAN]
  BY DEF FarmInv, TypeOK, Time
<1>3. ASSUME NEW g \in Gap, StartRun(g)
      PROVE  FarmInv'
  <2>1. g \in Nat
    BY FarmSyncAssumption
  <2>. QED  BY <1>1, <1>2, <1>3, <2>1 DEF StartRun, Phase
<1>4. ASSUME NEW raw \in [Dev -> Opt(Feed)], Apply(raw)
      PROVE  FarmInv'
  BY <1>4, ApplyStep
<1>5. ASSUME Fail
      PROVE  FarmInv'
  BY <1>1, <1>2, <1>5 DEF Fail, Phase
<1>6. ASSUME FinishRun
      PROVE  FarmInv'
  BY <1>1, <1>2, <1>6 DEF FinishRun, Phase
<1>7. ASSUME Crash
      PROVE  FarmInv'
  BY <1>1, <1>2, <1>7 DEF Crash, Phase
<1>8. ASSUME UNCHANGED vars
      PROVE  FarmInv'
  BY <1>1, <1>2, <1>8 DEF vars, Data
<1>. QED  BY <1>3, <1>4, <1>5, <1>6, <1>7, <1>8 DEF Next

LEMMA Holds == Spec => []FarmInv
<1>1. FarmInv /\ [Next]_vars => FarmInv'
  BY Step
<1>. QED  BY InitHolds, <1>1, PTL DEF Spec

(* Whatever the feed answers, leaves out or fails to, every pass writes rows, *)
(* counters, samples and incidents of their types (_apply).                   *)
THEOREM Typed == Spec => []TypeOK
<1>1. FarmInv => TypeOK
  BY DEF FarmInv
<1>. QED  BY Holds, <1>1, PTL

(* In every farm the event history of a device accounts for its row, its      *)
(* status_since and its alarm's since, and its time online fits in its life   *)
(* (_apply).                                                                  *)
THEOREM HistoryAccounts == Spec => []RowTellsItsHistory
<1>1. FarmInv => RowTellsItsHistory
  BY DEF FarmInv
<1>. QED  BY Holds, <1>1, PTL

(* However fast the devices of a container go up and down, its incidents never*)
(* overlap and at most one is open (_detect_incidents).                       *)
THEOREM OutagesDisjoint == Spec => []IncidentsDisjoint
<1>1. FarmInv => IncidentsDisjoint
  BY DEF FarmInv
<1>. QED  BY Holds, <1>1, PTL

-----------------------------------------------------------------------------
(* The table its readers assume *)

LEMMA TableInit == Init => Table!Init
BY DEF Init, Table!Init, Columns

(* A row the pass writes is an update the readers expect. *)
LEMMA UpdateExpected ==
    ASSUME FarmInv, NEW d \in Dev, NEW r \in Feed
    PROVE  Table!Update(Columns(dev[d]), Columns(Upserted(d, r)))
<1>. DEFINE u == Upserted(d, r)
            old == Columns(dev[d])
            new == Columns(u)
<1>1. TypeOK /\ RowsArePast /\ LowSinceIsAlarmOn
  BY DEF FarmInv, RowTellsItsHistory
<1>2. u \in Row /\ u # Null
  BY <1>1, UpsertedTyped, Missing
<1>3. new = [status |-> u.status, since |-> u.since, cont |-> u.cont,
             inop |-> u.inop, low |-> u.low]
  BY <1>2 DEF Columns
<1>4. new \in Table!Row
  BY <1>2, <1>3 DEF Row, Opt, Time, Table!Row
<1>5. u.status = r.status /\ u.since = Since(d, r) /\ u.low = LowSince(d, r)
  BY DEF Upserted
<1>6. CASE dev[d] = Null
  <2>1. old = Null
    BY <1>6 DEF Columns
  <2>2. u.since = now /\ u.low \in {Null, now}
    BY <1>5, <1>6 DEF Since, LowSince, HadLow
  <2>. QED  BY <1>3, <1>4, <2>1, <2>2 DEF Table!Update
<1>7. CASE dev[d] # Null
  <2>1. dev[d] \in Row
    BY <1>1, <1>7 DEF TypeOK, Opt
  <2>2. old = [status |-> dev[d].status, since |-> dev[d].since, cont |-> dev[d].cont,
               inop |-> dev[d].inop, low |-> dev[d].low]
    BY <1>7 DEF Columns
  <2>3. old \in Table!Row /\ old # Null
    <3>1. old \in Table!Row
      BY <2>1, <2>2 DEF Row, Opt, Time, Table!Row
    <3>. QED  BY <3>1, Missing
  <2>4. u.since = IF dev[d].status = r.status THEN dev[d].since ELSE now
    BY <1>5, <1>7 DEF Since
  <2>5. u.low \in {Null, IF dev[d].low # Null THEN dev[d].low ELSE now}
    BY <1>1, <1>5, <1>7 DEF LowSince, HadLow, LowSinceIsAlarmOn
  <2>. QED  BY <1>3, <1>4, <1>5, <2>2, <2>3, <2>4, <2>5 DEF Table!Update
<1>. QED  BY <1>6, <1>7

LEMMA TableStep == FarmInv /\ [Next]_vars => [Table!Next]_Table!vars
<1>. SUFFICES ASSUME FarmInv, [Next]_vars PROVE [Table!Next]_Table!vars
  OBVIOUS
<1>. DEFINE farm == [d \in Dev |-> Columns(dev[d])]
<1>0. now \in Nat
  BY DEF FarmInv, TypeOK, Time
<1>1. ASSUME NEW g \in Gap, StartRun(g)
      PROVE  Table!Next
  <2>1. g \in Nat \ {0}
    BY FarmSyncAssumption
  <2>2. now' > now /\ farm' = farm
    BY <1>0, <1>1, <2>1 DEF StartRun, Data
  <2>. QED  BY <2>2 DEF Table!Next, Table!Pass
<1>2. ASSUME NEW raw \in [Dev -> Opt(Feed)], Apply(raw)
      PROVE  Table!Next
  <2>1. ASSUME NEW d \in Dev
        PROVE  farm'[d] = farm[d] \/ Table!Update(farm[d], farm'[d])
    <3>1. CASE raw[d] = Null
      BY <1>2, <3>1 DEF Apply
    <3>2. CASE raw[d] # Null
      <4>1. raw[d] \in Feed /\ dev'[d] = Upserted(d, raw[d])
        BY <1>2, <3>2 DEF Apply, Opt
      <4>2. Table!Update(Columns(dev[d]), Columns(dev'[d]))
        BY <4>1, UpdateExpected
      <4>. QED  BY <4>2
    <3>. QED  BY <3>1, <3>2
  <2>2. now' = now /\ DOMAIN farm' = Dev
    BY <1>2 DEF Apply
  <2>. QED  BY <2>1, <2>2 DEF Table!Next, Table!Commit
<1>3. ASSUME UNCHANGED <<now, dev>>
      PROVE  UNCHANGED Table!vars
  BY <1>3 DEF Table!vars
<1>4. Fail \/ FinishRun \/ Crash \/ UNCHANGED vars => UNCHANGED <<now, dev>>
  BY DEF Fail, FinishRun, Crash, vars, Data
<1>. QED  BY <1>1, <1>2, <1>3, <1>4 DEF Next

(* What the sync does to farm_devices is no more than its readers assume, in  *)
(* every farm: FarmSync implements FarmTable, the table Notify reports on.    *)
THEOREM ImplementsTable == Spec => WritesTheTable
<1>1. FarmInv /\ [Next]_vars => [Table!Next]_Table!vars
  BY TableStep
<1>. QED  BY Holds, TableInit, <1>1, PTL DEF Spec, WritesTheTable, Table!Spec
=============================================================================
