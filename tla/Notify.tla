-------------------------------- MODULE Notify -------------------------------
(* The farm notifier, app/services/notify/service.py: once a minute one thread*)
(* of the worker goes over the recipients (tick) and sends each a morning     *)
(* summary, a message on containers that lost power or got it back, and a     *)
(* digest of what changed since the state it saved for that recipient.        *)
(*                                                                            *)
(* The thread reads the farm in several statements and saves a recipient's    *)
(* state in several commits, with calls to Telegram in between; the farm sync *)
(* of another thread commits between any two of them, a call may fail, and    *)
(* the pass may die (Crash) with what it saved so far.                        *)
(*                                                                            *)
(* Low hashrate stands for the three kinds of alarm lines of a digest: errors *)
(* and low hashrate are compared with the saved state in the same way.        *)
EXTENDS Naturals, FiniteSets

CONSTANTS
    Dev, Cont, Status, Null,
    Rcpt,           \* recipients
    Prefs,          \* the settings a recipient may choose, a set of records
    Feed,           \* [status, cont, inop, alarm] readings the sync may write
    Day,            \* length of a day (1440 minutes)
    SleepFrom, SleepTo, DailyAt,    \* prefs sleep.from, sleep.to and daily_at
    PowerMin,       \* POWER_MIN (5): smaller containers are not scanned
    PowerHold,      \* POWER_HOLD (3 minutes)
    PowerWindow,    \* POWER_WINDOW (15 minutes)
    EvLimit,        \* pool and worker events read for one digest (500)
    MayFail,        \* TRUE when a call to Telegram may fail
    MayCrash,       \* TRUE when a pass may die
    PassTime,       \* bound on the time one pass over the recipients takes
    MaxTime,        \* bound on the clock
    MaxEv           \* bound on the number of pool and worker events

Types == {"power", "offline", "online", "lowhash", "pool", "daily"}
Time  == Nat
Opt(S) == S \cup {Null}

(* A row of farm_devices; low is the start of the alarm. *)
Row == [status : Status, since : Time, cont : Opt(Cont), inop : BOOLEAN, low : Opt(Time)]

ASSUME NotifyAssumption ==
    /\ Prefs \subseteq [enabled : BOOLEAN, types : SUBSET Types, hold : Nat, every : Nat,
                        sleep : BOOLEAN, wake : Nat]
    /\ Prefs # {}
    /\ Feed \subseteq [status : Status, cont : Opt(Cont), inop : BOOLEAN, alarm : BOOLEAN]
    /\ Day \in Nat \ {0}
    /\ {SleepFrom, SleepTo, DailyAt, PowerMin, PowerHold, PowerWindow, EvLimit,
        PassTime, MaxTime, MaxEv} \subseteq Nat
    /\ {MayFail, MayCrash} \subseteq BOOLEAN
    /\ Null \notin Nat \cup Cont \cup Row
    /\ \A D \in SUBSET Dev : D # Null
    /\ \A C \in SUBSET Cont : C # Null

VARIABLES
    now,        \* the clock
    farm,       \* farm_devices
    ev,         \* number of pool and worker events; their ids are 1..ev
    prefs,      \* notif:tg:<id>
    st,         \* notif_state:tg:<id>
    w,          \* the notifying thread
    told        \* what reached the recipients (history variable)
vars == <<now, farm, ev, prefs, st, w, told>>

(* A saved state; off, pwr and daily may be missing from it. *)
State == [off : Opt(SUBSET Dev), low : SUBSET Dev, ev : Nat, last : Time,
          daily : Opt(Nat), pwr : Opt(SUBSET Cont)]
NoState == [off |-> Null, low |-> {}, ev |-> 0, last |-> 0, daily |-> Null, pwr |-> Null]

Pc == {"idle", "next", "daily", "dailySend", "dailySave", "power", "powerCheck", "powerSend",
       "powerSave", "digest", "back", "events", "last", "send", "save"}

(* The thread: p and s are the recipient's settings and state as loaded, t the*)
(* time of the pass, new the state to save, and the rest what was read so far.*)
Thread == [pc : Pc, todo : SUBSET Rcpt, r : Opt(Rcpt), t : Time,
           p : Prefs, s : State, new : State,
           fresh : SUBSET Cont,                 \* power: burst containers not written of yet
           add : SUBSET Dev, drop : SUBSET Dev, \* power: devices to mark and unmark
           off : SUBSET Dev, low : SUBSET Dev,  \* digest: snapshot,
           seen : SUBSET (Dev \X Time),         \* and the episodes of its alarms
           back : SUBSET Dev, pool : SUBSET Nat,
           lines : SUBSET Types]                \* digest: the parts its text has

(* down: devices the recipient was last told are offline (or that were at the *)
(* baseline), pwr: containers last told as dark, ev: pool events told, low:   *)
(* episodes of alarms told, by device and start, daily: morning summaries per *)
(* day.                                                                       *)
Told == [down : SUBSET Dev, pwr : SUBSET Cont, ev : SUBSET Nat,
         low : SUBSET (Dev \X Time), daily : [0..(MaxTime \div Day) -> Nat]]

TypeOK ==
    /\ now \in Time
    /\ farm \in [Dev -> Opt(Row)]
    /\ ev \in 0..MaxEv
    /\ prefs \in [Rcpt -> Prefs]
    /\ st \in [Rcpt -> State]
    /\ w \in Thread
    /\ told \in [Rcpt -> Told]

Today(t) == t \div Day
Asleep(p, t) ==
    LET m == t % Day IN
    /\ p.sleep
    /\ SleepFrom # SleepTo
    /\ IF SleepFrom < SleepTo THEN SleepFrom <= m /\ m < SleepTo
                              ELSE m >= SleepFrom \/ m < SleepTo

AnyPrefs == CHOOSE p \in Prefs : TRUE
IdleThread == [pc |-> "idle", todo |-> {}, r |-> Null, t |-> 0, p |-> AnyPrefs,
               s |-> NoState, new |-> NoState, fresh |-> {}, add |-> {}, drop |-> {},
               off |-> {}, low |-> {}, seen |-> {}, back |-> {}, pool |-> {},
               lines |-> {}]

Init ==
    /\ now = 0
    /\ farm = [d \in Dev |-> Null]
    /\ ev = 0
    /\ prefs \in [Rcpt -> Prefs]
    /\ st = [r \in Rcpt |-> NoState]
    /\ w = IdleThread
    /\ told = [r \in Rcpt |-> [down |-> {}, pwr |-> {}, ev |-> {}, low |-> {},
                               daily |-> [n \in 0..(MaxTime \div Day) |-> 0]]]

-----------------------------------------------------------------------------
(* The others: the clock, the farm sync, the settings endpoint *)

Clock == /\ now < MaxTime
         /\ w.pc = "idle" \/ now < w.t + PassTime
         /\ now' = now + 1
         /\ UNCHANGED <<farm, ev, prefs, st, w, told>>

(* Mutants: status_since moves with every pass; it is not set on a change. *)
SinceNow(old, x)   == now
SinceUnset(old, x) == IF old # Null /\ old.status = x.status THEN old.since ELSE Null

Since(old, x) == IF old # Null /\ old.status = x.status THEN old.since ELSE now

Written(old, x) ==
    [status |-> x.status, cont |-> x.cont, inop |-> x.inop, since |-> Since(old, x),
     low    |-> IF ~x.alarm THEN Null
                ELSE IF old # Null /\ old.low # Null THEN old.low ELSE now]

(* What stays of the history when the table becomes f: the episodes of alarms *)
(* that still hold the attention of a snapshot.                               *)
InEpisode(f, D) ==
    {e \in D : f[e[1]].inop /\ f[e[1]].status # "offline" /\ f[e[1]].low = e[2]}
StayTold(f) == [r \in Rcpt |-> [told[r] EXCEPT !.low = InEpisode(f, @)]]

(* One commit of the sync updates the devices of f and may log pool events. *)
SyncCommit(f, n) ==
    /\ ev + n <= MaxEv
    /\ farm' = [d \in Dev |-> IF f[d] = Null THEN farm[d] ELSE Written(farm[d], f[d])]
    /\ farm' # farm \/ n > 0
    /\ ev' = ev + n
    /\ told' = StayTold(farm')
    /\ UNCHANGED <<now, prefs, st, w>>

SetPrefs(r, p) == /\ prefs[r] # p
                  /\ prefs' = [prefs EXCEPT ![r] = p]
                  /\ UNCHANGED <<now, farm, ev, st, w, told>>

-----------------------------------------------------------------------------
(* The thread *)

World  == <<now, farm, ev, prefs>>
At(pc) == w.pc = pc
Go(x)  == w' = x
To(pc) == Go([w EXCEPT !.pc = pc])
Outcome == IF MayFail THEN BOOLEAN ELSE {TRUE}
Tell(x) == told' = [told EXCEPT ![w.r] = x]
Save(x) == st' = [st EXCEPT ![w.r] = x]
Asleep1 == Asleep(w.p, w.t)
First   == w.s.off = Null

StartTick == /\ At("idle")
             /\ Go([IdleThread EXCEPT !.pc = "next", !.todo = Rcpt, !.t = now])
             /\ UNCHANGED <<World, st, told>>

EndTick == /\ At("next") /\ w.todo = {}
           /\ Go(IdleThread)
           /\ UNCHANGED <<World, st, told>>

(* What has held for long enough. *)
Held(since, p, t) == t >= since + p.hold
HeldDown(p, t) == {d \in Dev : /\ farm[d] # Null /\ farm[d].inop
                               /\ farm[d].status = "offline" /\ Held(farm[d].since, p, t)}

HeldLow(p, t)  == {d \in Dev : /\ farm[d] # Null /\ farm[d].inop
                               /\ farm[d].status # "offline" /\ farm[d].low # Null
                               /\ Held(farm[d].low, p, t)}

(* The next recipient; one that switched notifications off is passed over. *)
Pick(r) ==
    /\ At("next") /\ r \in w.todo
    /\ LET rest == [IdleThread EXCEPT !.pc = "next", !.todo = w.todo \ {r}, !.t = w.t] IN
       IF prefs[r].enabled
       THEN Go([rest EXCEPT !.pc = "daily", !.r = r, !.p = prefs[r], !.s = st[r]])
       ELSE Go(rest)
    /\ UNCHANGED <<World, st, told>>

NextRecipient == Go([IdleThread EXCEPT !.pc = "next", !.todo = w.todo, !.t = w.t])

(* The morning summary: once a day, not while asleep, not to a new recipient. *)
Daily ==
    /\ At("daily")
    /\ IF /\ "daily" \in w.p.types /\ ~Asleep1
          /\ w.s.daily # Today(w.t) /\ w.t % Day >= DailyAt
       THEN To(IF First THEN "dailySave" ELSE "dailySend")
       ELSE To("power")
    /\ UNCHANGED <<World, st, told>>

DailySend(ok) ==
    /\ At("dailySend")
    /\ IF ok THEN Tell([told[w.r] EXCEPT !.daily[Today(w.t)] = @ + 1]) ELSE UNCHANGED told
    /\ To("dailySave")
    /\ UNCHANGED <<World, st>>

(* Mutant: the day is not ticked off. *)
DailySaveNot ==
    /\ At("dailySave")
    /\ To("power")
    /\ UNCHANGED <<World, st, told>>

(* The day is ticked off whether or not the summary was delivered. *)
DailySave ==
    /\ At("dailySave")
    /\ LET s == [w.s EXCEPT !.daily = Today(w.t)] IN
       Save(s) /\ Go([w EXCEPT !.pc = "power", !.s = s])
    /\ UNCHANGED <<World, told>>

-----------------------------------------------------------------------------
(* power_scan and power_check *)

InOp(c)  == {d \in Dev : farm[d] # Null /\ farm[d].inop /\ farm[d].cont = c}
Down(c)  == {d \in InOp(c) : farm[d].status = "offline"}
Latest(c) == CHOOSE t \in {farm[d].since : d \in Down(c)} : \A d \in Down(c) : farm[d].since <= t

(* Containers that look without power at time t: 90% of the devices are       *)
(* offline and not all of them since less than PowerHold.                     *)
Dark(t) == {c \in Cont : /\ Cardinality(InOp(c)) >= PowerMin
                         /\ 10 * Cardinality(Down(c)) >= 9 * Cardinality(InOp(c))
                         /\ \E d \in Down(c) : t >= farm[d].since + PowerHold}

(* 80% of the devices went offline within one window. *)
Burst(c) == 10 * Cardinality({d \in Down(c) : farm[d].since + PowerWindow >= Latest(c)})
               >= 8 * Cardinality(InOp(c))

PowerScan ==
    /\ At("power")
    /\ IF "power" \notin w.p.types
       THEN To("digest") /\ UNCHANGED st
       ELSE IF w.s.pwr = Null
       THEN LET s == [w.s EXCEPT !.pwr = Dark(w.t)] IN
            Save(s) /\ Go([w EXCEPT !.pc = "digest", !.s = s])
       ELSE /\ Go([w EXCEPT !.pc = "powerCheck",
                            !.fresh = {c \in Dark(w.t) \ w.s.pwr : Burst(c)}])
            /\ UNCHANGED st
    /\ IF "power" \in w.p.types /\ w.s.pwr = Null
       THEN Tell([told[w.r] EXCEPT !.pwr = Dark(w.t)]) ELSE UNCHANGED told
    /\ UNCHANGED World

(* Containers written of whose offline devices are now less than half. *)
Restored(C) == {c \in C : InOp(c) = {} \/ 2 * Cardinality(Down(c)) < Cardinality(InOp(c))}
DevsOf(C)   == {d \in Dev : farm[d] # Null /\ farm[d].cont \in C}

(* Mutant: what may not be told now is saved all the same. *)
PowerCheckSaves ==
    LET back == Restored(w.s.pwr)
        s == [w.s EXCEPT !.pwr = (@ \ back) \cup w.fresh] IN
    /\ At("powerCheck")
    /\ IF (w.fresh # {} \/ back # {}) /\ (~Asleep1 \/ w.p.wake > 0)
       THEN Go([w EXCEPT !.pc = "powerSend", !.new  = s,
                  !.add  = {d \in DevsOf(w.fresh) : farm[d].status = "offline"},
                  !.drop = {d \in DevsOf(back) : farm[d].status # "offline"}]) /\ UNCHANGED st
       ELSE Save(s) /\ Go([w EXCEPT !.pc = "digest", !.s = s])
    /\ UNCHANGED <<World, told>>

(* With something to write and the right to, a message is sent; otherwise     *)
(* nothing is saved and the next pass looks again.                            *)
PowerCheck ==
    LET back == Restored(w.s.pwr) IN
    /\ At("powerCheck")
    /\ IF (w.fresh # {} \/ back # {}) /\ (~Asleep1 \/ w.p.wake > 0)
       THEN Go([w EXCEPT !.pc = "powerSend",
                  !.new  = [w.s EXCEPT !.pwr = (@ \ back) \cup w.fresh],
                  !.add  = {d \in DevsOf(w.fresh) : farm[d].status = "offline"},
                  !.drop = {d \in DevsOf(back) : farm[d].status # "offline"}])
       ELSE To("digest")
    /\ UNCHANGED <<World, st, told>>

(* Mutant: the state is saved whether or not the message was delivered. *)
PowerSendAnyway(ok) ==
    LET o == told[w.r] IN
    /\ At("powerSend")
    /\ IF ok THEN Tell([o EXCEPT !.pwr = w.new.pwr, !.down = (@ \cup w.add) \ w.drop])
             ELSE UNCHANGED told
    /\ To("powerSave")
    /\ UNCHANGED <<World, st>>

PowerSend(ok) ==
    LET o == told[w.r] IN
    /\ At("powerSend")
    /\ IF ok
       THEN /\ Tell([o EXCEPT !.pwr = w.new.pwr, !.down = (@ \cup w.add) \ w.drop])
            /\ To("powerSave")
       ELSE UNCHANGED told /\ To("digest")
    /\ UNCHANGED <<World, st>>

(* The devices of these containers count as reported. *)
PowerSave ==
    /\ At("powerSave")
    /\ LET off == IF w.s.off = Null THEN {} ELSE w.s.off
           s   == [w.new EXCEPT !.off = (off \cup w.add) \ w.drop] IN
       Save(s) /\ Go([w EXCEPT !.pc = "digest", !.s = s])
    /\ UNCHANGED <<World, told>>

-----------------------------------------------------------------------------
(* snapshot and build_digest *)

(* Not due yet: on to the next recipient.  Otherwise what has held for long   *)
(* enough: offline devices, and alarms of devices that are not offline.       *)
Digest ==
    /\ At("digest")
    /\ IF w.t < w.s.last + w.p.every /\ ~First
       THEN NextRecipient
       ELSE Go([w EXCEPT !.pc = "back",
                  !.off = HeldDown(w.p, w.t),
                  !.low = HeldLow(w.p, w.t),
                  !.seen = {<<d, farm[d].low>> : d \in HeldLow(w.p, w.t)}])
    /\ UNCHANGED <<World, st, told>>

Reported == IF First THEN {} ELSE w.s.off

(* Reported devices that are not in the snapshot: back when not offline, kept *)
(* as reported while offline for less than the hold.                          *)
Gone  == Reported \ w.off
Still == {d \in Gone : farm[d].status = "offline"}

(* Mutants: only what is in the snapshot is kept; every offline device is. *)
KeptHeld == w.off
KeptAll  == w.off \cup {d \in Dev : farm[d] # Null /\ farm[d].status = "offline"}

Kept == w.off \cup Still

ReadBack ==
    /\ At("back")
    /\ Go([w EXCEPT !.pc = "events", !.back = Gone \ Still,
             !.new = [off |-> Kept, low |-> w.low, ev |-> 0, last |-> w.t,
                      daily |-> w.s.daily, pwr |-> w.s.pwr]])
    /\ UNCHANGED <<World, st, told>>

(* Mutant: the event at the cursor is read again. *)
ReadEventsFrom ==
    /\ At("events")
    /\ Go([w EXCEPT !.pc = "last",
             !.pool = {e \in 1..ev : e >= w.s.ev /\ e < w.s.ev + EvLimit}])
    /\ UNCHANGED <<World, st, told>>

(* Events after the cursor, at most EvLimit of them ... *)
ReadEvents ==
    /\ At("events")
    /\ Go([w EXCEPT !.pc = "last",
             !.pool = {e \in 1..ev : e > w.s.ev /\ e <= w.s.ev + EvLimit}])
    /\ UNCHANGED <<World, st, told>>

(* Mutants: all that is in the snapshot is new. *)
AllOff == w.off
AllLow == w.low

NewOff == w.off \ Reported
NewLow == w.low \ w.s.low
NewEpisodes == {e \in w.seen : e[1] \in NewLow}

(* ... and, in a statement of its own, the id the cursor moves to.  While the *)
(* recipient sleeps only a mass outage is sent, and nothing else is saved.    *)
ReadLast ==
    LET has == [offline |-> NewOff, online |-> w.back, lowhash |-> NewLow, pool |-> w.pool]
        lines == IF First THEN {} ELSE {x \in DOMAIN has \cap w.p.types : has[x] # {}}
        wake == /\ w.p.wake > 0 /\ ~First
                /\ Cardinality(NewOff) >= w.p.wake /\ "offline" \in w.p.types
        done == [w EXCEPT !.new.ev = ev, !.lines = lines] IN
    /\ At("last")
    /\ IF Asleep1 /\ ~wake
       THEN IF First THEN Go([done EXCEPT !.pc = "save"]) ELSE NextRecipient
       ELSE Go([done EXCEPT !.pc = IF lines = {} THEN "save" ELSE "send"])
    /\ UNCHANGED <<World, st, told>>

(* What a delivered digest tells, by the lines it has. *)
Digested(o) ==
    [o EXCEPT !.down = (@ \cup IF "offline" \in w.lines THEN NewOff ELSE {})
                       \ IF "online" \in w.lines THEN w.back ELSE {},
              !.low  = InEpisode(farm, @ \cup IF "lowhash" \in w.lines THEN NewEpisodes ELSE {}),
              !.ev   = @ \cup IF "pool" \in w.lines THEN w.pool ELSE {}]

DigestSend(ok) ==
    /\ At("send")
    /\ IF ok THEN Tell(Digested(told[w.r])) ELSE UNCHANGED told
    /\ To("save")
    /\ UNCHANGED <<World, st>>

(* The new state is saved whether or not the digest was delivered.  The first *)
(* save is the baseline: what it holds is never reported.                     *)
DigestSave ==
    /\ At("save")
    /\ Save(w.new)
    /\ IF First
       THEN Tell([told[w.r] EXCEPT !.down = w.new.off, !.ev = 1..w.new.ev,
                                   !.low = InEpisode(farm, w.seen)])
       ELSE UNCHANGED told
    /\ NextRecipient
    /\ UNCHANGED World

(* The worker dies, or a statement raises and the loop logs it: the pass ends.*)
(* At MaxTime, where the model's clock stands still, no pass dies any more.   *)
Crash == /\ MayCrash /\ ~At("idle") /\ now < MaxTime
         /\ Go(IdleThread)
         /\ UNCHANGED <<World, st, told>>

Send(ok) == DailySend(ok) \/ PowerSend(ok) \/ DigestSend(ok)

ThreadStep ==
    \/ StartTick \/ EndTick \/ \E r \in Rcpt : Pick(r)
    \/ Daily \/ DailySave \/ PowerScan \/ PowerCheck \/ PowerSave
    \/ Digest \/ ReadBack \/ ReadEvents \/ ReadLast \/ DigestSave
    \/ \E ok \in Outcome : Send(ok)

Next == \/ Clock
        \/ \E f \in [Dev -> Opt(Feed)], n \in 0..MaxEv : SyncCommit(f, n)
        \/ \E r \in Rcpt, p \in Prefs : SetPrefs(r, p)
        \/ ThreadStep
        \/ Crash

Spec == Init /\ [][Next]_vars

(* The loop never stops, time passes, and a call to Telegram that is repeated *)
(* forever succeeds at some time.                                             *)
Fairness == WF_vars(ThreadStep) /\ WF_vars(Clock) /\ SF_vars(Send(TRUE))

FairSpec == Spec /\ Fairness

-----------------------------------------------------------------------------
(* Safety *)

Between == w.pc \in {"idle", "next"}

(* What a recipient's saved state counts as reported is exactly what the      *)
(* recipient was last told, by a digest or by a power message, however the    *)
(* sync changes the farm between the reads (tick, build_digest).              *)
SavedIsTold ==
    Between => \A r \in Rcpt : st[r].off # Null => st[r].off = told[r].down

(* A digest lists as offline only devices not yet written about, and as back  *)
(* only devices that were written about (build_digest).                       *)
OfflineThenBack ==
    [][\A ok \in BOOLEAN : DigestSend(ok) =>
          /\ "offline" \in w.lines => NewOff \cap told[w.r].down = {}
          /\ "online" \in w.lines => w.back \subseteq told[w.r].down]_vars

(* Power messages are never lost to a failed call: the containers a state     *)
(* holds as dark are those the recipient was told of (tick, power_check).     *)
PowerSavedIsTold ==
    Between => \A r \in Rcpt : st[r].pwr # Null => st[r].pwr = told[r].pwr

(* A pool or worker change is told at most once, and so is an episode of an   *)
(* alarm that the device neither goes offline nor leaves operation during,    *)
(* while the hold the recipient asks for is the same (snapshot, build_digest).*)
NothingToldTwice ==
    [][\A ok \in BOOLEAN : DigestSend(ok) =>
          /\ "pool" \in w.lines => w.pool \cap told[w.r].ev = {}
          /\ "lowhash" \in w.lines => NewEpisodes \cap told[w.r].low = {}]_vars

(* Every pool or worker change up to the saved cursor was told. *)
EventsTold == Between => \A r \in Rcpt : 1..st[r].ev \subseteq told[r].ev

(* At most one morning summary a day (tick). *)
DailyOnce == \A r \in Rcpt : \A n \in DOMAIN told[r].daily : told[r].daily[n] <= 1

-----------------------------------------------------------------------------
(* Liveness *)

(* A device that stays offline past the hold, and is not counted as reported, *)
(* is told of in the end, whatever hours the recipient sleeps and however many*)
(* passes died before (tick, build_digest).  The pass in flight must have     *)
(* these settings, for one begun with others may count the device as reported *)
(* and not tell it.  The clock of the model stops at MaxTime and must leave   *)
(* room for one more digest.                                                  *)
Wants(r, p, type) ==
    /\ prefs[r] = p /\ p.enabled /\ type \in p.types
    /\ w.r = r => w.p = p

Unreported(r, d, p) ==
    /\ Wants(r, p, "offline")
    /\ d \in HeldDown(p, now)
    /\ st[r].off # Null /\ d \notin st[r].off
    /\ now + p.every < MaxTime
HeldOfflineTold ==
    \A r \in Rcpt, d \in Dev, p \in Prefs :
        Unreported(r, d, p) ~> d \in told[r].down \/ d \notin HeldDown(p, now) \/ prefs[r] # p

(* A container that went dark at once is told of in the end, through the hours*)
(* of sleep and however many passes died before: a message that may not be    *)
(* sent now, or was not, is looked for by the next pass (tick, power_check).  *)
WentDark(c) == c \in Dark(now) /\ Burst(c)
UntoldDark(r, c, p) ==
    /\ Wants(r, p, "power")
    /\ WentDark(c)
    /\ st[r].pwr # Null /\ c \notin st[r].pwr
PowerTold ==
    \A r \in Rcpt, c \in Cont, p \in Prefs :
        UntoldDark(r, c, p) ~> c \in told[r].pwr \/ ~WentDark(c) \/ prefs[r] # p
=============================================================================
