------------------------------- MODULE Wallets -------------------------------
(* Watched wallets of one user: app/services/wallets/watch.py (adding an      *)
(* address, the poll, the pass of the worker), app/services/wallets/chains.py *)
(* (what a reader returns) and the endpoints of app/api/v1/wallets.py.        *)
(*                                                                            *)
(* Transfers are numbered in the order the chains confirm them.  The worker   *)
(* polls one wallet after the other, each in a transaction of its own, then   *)
(* selects the rows nobody was told of and sends them one by one; the site    *)
(* adds, deletes and mutes wallets meanwhile.  The ORM keeps what the worker  *)
(* loaded until a commit or a rollback expires it, and writing to a row that  *)
(* was deleted, or refreshing it, ends the pass.                              *)
(*                                                                            *)
(* What never changes in a run is in setting: whether the user has Telegram,  *)
(* and of each wallet its address and the kind of its chain's reader:         *)
(*   "page"   the latest transfers (BTC, LTC, DOGE, TRON, TON, ETH);          *)
(*   "sigs"   the latest past a position, but for those whose transaction the *)
(*            node does not find just then (SOL);                             *)
(*   "blocks" all past a position, back to a number of blocks (BSC).          *)
EXTENDS Integers, FiniteSets, FiniteSetsExt

CONSTANTS
    Watch,      \* a chain and an address the user may watch
    Address,    \* the addresses
    Settings,   \* settings considered
    MaxTx,      \* transfers confirmed in a run
    Of,         \* Of[t]: the wallet transfer t arrives on
    Class,      \* Class[t]: what classify makes of it
    Mutes,      \* wallets the user may mute
    Window,     \* transfers of a wallet one read returns at most
    Limit,      \* addresses the user may watch (limit_of)
    Req,        \* request threads adding a wallet
    MaxAdds,    \* bound on wallets added in a run
    MaxFaults   \* bound on restarts of the worker and answers of Telegram lost

Tx == 1..MaxTx

ASSUME WalletsAssumption ==
    /\ Settings \subseteq [tg     : BOOLEAN,
                            addr   : [Watch -> Address],
                            reader : [Watch -> {"page", "sigs", "blocks"}]]
    /\ Mutes \subseteq Watch
    /\ MaxTx \in Nat /\ MaxAdds \in Nat /\ MaxFaults \in Nat
    /\ Of \in [Tx -> Watch]
    /\ Class \in [Tx -> {"ok", "quiet", "alarm"}]
    /\ Window \in Nat \ {0}
    /\ Limit \in Nat
    /\ IsFiniteSet(Req) /\ IsFiniteSet(Watch) /\ Watch # {}

VARIABLES
    setting,
    n,          \* transfers 1..n are confirmed
    watch,      \* the wallet_watch rows
    row,        \* the wallet_tx rows, by transfer
    adds,       \* wallets added so far
    add,        \* the threads of POST /me/wallets
    pass,       \* the worker's pass
    told,       \* told[t]: messages sent of the present row of t (history)
    undone,     \* undone[t]: those whose answer, or mark, was lost (history)
    missed,     \* transfers no read will return again (history)
    faults
vars == <<setting, n, watch, row, adds, add, pass, told, undone, missed, faults>>

\* gen tells a wallet from an earlier one with the same address; created is the
\* number of transfers confirmed when it was added; read: the first poll succeeded.
WatchRow == [on : BOOLEAN, gen : 0..MaxAdds, muted : BOOLEAN, cursor : 0..MaxTx,
             created : 0..MaxTx, read : BOOLEAN]
RowState == {"none", "first", "hidden", "waiting", "closed"}
Adding   == [pc   : {"idle", "polls"},
             addr : Address,
             todo : SUBSET Watch,           \* chains of it still to be looked at
             new  : [Watch -> WatchRow],    \* flushed, not committed
             seen : SUBSET Tx]              \* what their readers returned
Entry    == [t : Tx, gen : 0..MaxAdds, muted : BOOLEAN]
Pass     == [pc      : {"idle", "polls", "write", "sends", "save"},
             todo    : SUBSET (Watch \X (0..MaxAdds)),  \* wallets still to be polled
             w       : Watch,                           \* being polled
             seen    : SUBSET Tx,                       \* what the reader returned
             at      : 0..MaxTx,                        \* where it stood
             pend    : SUBSET Entry,                    \* rows still to be sent
             dirty   : SUBSET Entry,                    \* marked, not committed
             expired : BOOLEAN]                         \* loaded rows are read anew

Off     == [on |-> FALSE, gen |-> 0, muted |-> FALSE, cursor |-> 0, created |-> 0, read |-> FALSE]
AnyW    == CHOOSE w \in Watch : TRUE
NoAdd   == [pc |-> "idle", addr |-> setting.addr[AnyW], todo |-> {},
            new |-> [w \in Watch |-> Off], seen |-> {}]
NoPass  == [pc |-> "idle", todo |-> {}, w |-> AnyW, seen |-> {}, at |-> 0,
            pend |-> {}, dirty |-> {}, expired |-> FALSE]

TypeOK ==
    /\ setting \in Settings
    /\ n \in 0..MaxTx
    /\ watch \in [Watch -> WatchRow]
    /\ row \in [Tx -> RowState]
    /\ adds \in 0..MaxAdds
    /\ add \in [Req -> Adding]
    /\ pass \in Pass
    /\ told \in [Tx -> Nat]
    /\ undone \in [Tx -> Nat]
    /\ missed \subseteq Tx
    /\ faults \in 0..MaxFaults

-----------------------------------------------------------------------------
On          == {w \in Watch : watch[w].on}
Alive(w, g) == watch[w].on /\ watch[w].gen = g

Addr(w)       == setting.addr[w]
Positioned(w) == setting.reader[w] # "page"

(* Transfers of w its reader has not passed yet, and the latest of them.      *)
Ahead(w, cursor) == {t \in 1..n : Of[t] = w /\ (Positioned(w) => t > cursor)}
Page(w, cursor)  == {t \in Ahead(w, cursor) :
                        Cardinality({u \in Ahead(w, cursor) : u > t}) < Window}

(* What a read of w may return.  How many blocks passed since the position,   *)
(* and so how far back a reader of blocks still looks, is left open.          *)
Reads(w, cursor) ==
    CASE setting.reader[w] = "page"   -> {Page(w, cursor)}
      [] setting.reader[w] = "sigs"   -> SUBSET Page(w, cursor)
      [] setting.reader[w] = "blocks" -> {{t \in Ahead(w, cursor) : t > back} : back \in 0..n}

(* Where a read leaves the position. *)
Stands(w) == IF Positioned(w) THEN n ELSE 0

(* What a committed poll of w at position at leaves behind for good. *)
Skipped(w, cursor, at, seen) ==
    IF Positioned(w) THEN {t \in Ahead(w, cursor) : t <= at} \ seen ELSE {}

(* Mutant: transfers of the first poll are news. *)
StoredLoud(t, first) == IF Class[t] # "ok" THEN "hidden" ELSE "waiting"

(* The row poll() inserts: only news is waiting to be sent. *)
Stored(t, first) ==
    IF first THEN "first" ELSE IF Class[t] # "ok" THEN "hidden" ELSE "waiting"

(* Mutant: the stored rows are forgotten. *)
InsertOnly(rows, seen, first) == [t \in seen |-> Stored(t, first)]

(* Rows after inserting those of seen that are not there yet. *)
Insert(rows, seen, first) ==
    [t \in Tx |-> IF t \in seen /\ rows[t] = "none" THEN Stored(t, first) ELSE rows[t]]

-----------------------------------------------------------------------------
Init ==
    /\ setting \in Settings
    /\ n = 0
    /\ watch = [w \in Watch |-> Off]
    /\ row = [t \in Tx |-> "none"]
    /\ adds = 0
    /\ add = [r \in Req |-> NoAdd]
    /\ pass = NoPass
    /\ told = [t \in Tx |-> 0]
    /\ undone = [t \in Tx |-> 0]
    /\ missed = {}
    /\ faults = 0

Confirm ==
    /\ n < MaxTx
    /\ n' = n + 1
    /\ UNCHANGED <<setting, watch, row, adds, add, pass, told, undone, missed, faults>>

-----------------------------------------------------------------------------
(* The site. *)

Watched == {Addr(w) : w \in On}

(* An address that is watched already may have more chains added. *)
RoomFor(a) == a \in Watched \/ Cardinality(Watched) + 1 <= Limit

(* add: the limit is checked.  An address stands for all its chains (0x: ETH  *)
(* and BSC) or for those of them that were asked for.                         *)
AddStart(r, a) ==
    /\ add[r].pc = "idle"
    /\ RoomFor(a)
    /\ \E use \in SUBSET {w \in Watch : Addr(w) = a} \ {{}} :
           /\ adds + Cardinality(use) <= MaxAdds
           /\ add' = [add EXCEPT ![r] = [NoAdd EXCEPT !.pc = "polls", !.addr = a, !.todo = use]]
    /\ UNCHANGED <<setting, n, watch, row, adds, pass, told, undone, missed, faults>>

(* The next chain, if its row is not there: flushed, and read for the first   *)
(* time.  A read that fails is noted on the row; there is no rollback, so a   *)
(* position the reader already wrote into the row is kept.                    *)
AddPoll(r) ==
    LET a == add[r]
        w == CHOOSE x \in a.todo : TRUE
        Row(c, read) == [on |-> TRUE, gen |-> 0, muted |-> FALSE, cursor |-> c,
                         created |-> n, read |-> read]
        On1(c, read, seen) == [a EXCEPT !.todo = @ \ {w}, !.new[w] = Row(c, read),
                                        !.seen = @ \cup seen] IN
    /\ a.pc = "polls" /\ a.todo # {}
    /\ \/ watch[w].on /\ add' = [add EXCEPT ![r].todo = @ \ {w}]
       \/ /\ ~watch[w].on
          /\ \/ \E seen \in Reads(w, 0) : add' = [add EXCEPT ![r] = On1(Stands(w), TRUE, seen)]
             \/ \E c \in {0, Stands(w)} : add' = [add EXCEPT ![r] = On1(c, FALSE, {})]
    /\ UNCHANGED <<setting, n, watch, row, adds, pass, told, undone, missed, faults>>

(* add commits the rows and the transfers that were there before them.  The   *)
(* refresh of the rates commits in the middle of a poll: where the request    *)
(* dies just then, the row stays as one never read, and the chains after it   *)
(* are not added.                                                             *)
AddCommit(r) ==
    LET a == add[r]
        New == {w \in Watch : a.new[w].on} IN
    /\ a.pc = "polls"
    /\ a.todo = {} \/ \E w \in New : ~a.new[w].read
    /\ New # {} /\ New \cap On = {}
    /\ adds' = adds + Cardinality(New)
    /\ adds' <= MaxAdds
    /\ watch' = [w \in Watch |-> IF w \in New THEN [a.new[w] EXCEPT !.gen = adds + 1]
                                             ELSE watch[w]]
    /\ row' = Insert(row, a.seen, TRUE)
    /\ add' = [add EXCEPT ![r] = NoAdd]
    /\ UNCHANGED <<setting, n, pass, told, undone, missed, faults>>

(* Nothing was new, another thread added it first (UNIQUE), or the request    *)
(* died.                                                                      *)
AddEnds(r) ==
    /\ add[r].pc = "polls"
    /\ add' = [add EXCEPT ![r] = NoAdd]
    /\ UNCHANGED <<setting, n, watch, row, adds, pass, told, undone, missed, faults>>

(* del_wallet; the transfers go with the wallet. *)
Delete(w) ==
    /\ watch[w].on
    /\ watch' = [watch EXCEPT ![w] = Off]
    /\ row' = [t \in Tx |-> IF Of[t] = w THEN "none" ELSE row[t]]
    /\ told' = [t \in Tx |-> IF Of[t] = w THEN 0 ELSE told[t]]
    /\ undone' = [t \in Tx |-> IF Of[t] = w THEN 0 ELSE undone[t]]
    /\ missed' = {t \in missed : Of[t] # w}
    /\ UNCHANGED <<setting, n, adds, add, pass, faults>>

Mute(w) ==
    /\ watch[w].on
    /\ watch' = [watch EXCEPT ![w].muted = ~@]
    /\ UNCHANGED <<setting, n, row, adds, add, pass, told, undone, missed, faults>>

-----------------------------------------------------------------------------
(* The worker: run_wallets. *)
Idle == UNCHANGED <<setting, n, adds, add>>

StartPass ==
    /\ pass.pc = "idle"
    /\ pass' = [NoPass EXCEPT !.pc = "polls", !.todo = {<<w, watch[w].gen>> : w \in On}]
    /\ Idle
    /\ UNCHANGED <<watch, row, told, undone, missed, faults>>

(* The wallets are polled in one order, by chain. *)
Turn == CHOOSE x \in pass.todo : TRUE

AtTurn(w) == pass.pc = "polls" /\ pass.todo # {} /\ Turn = <<w, watch[w].gen>> /\ watch[w].on

PollRead(w) ==
    /\ AtTurn(w)
    /\ \E seen \in Reads(w, watch[w].cursor) :
           pass' = [pass EXCEPT !.pc = "write", !.w = w, !.at = n, !.seen = seen]
    /\ Idle
    /\ UNCHANGED <<watch, row, told, undone, missed, faults>>

(* ChainError: rolled back, noted on the wallet, on to the next. *)
PollFails(w) ==
    /\ AtTurn(w)
    /\ pass' = [pass EXCEPT !.todo = @ \ {<<w, watch[w].gen>>}]
    /\ Idle
    /\ UNCHANGED <<watch, row, told, undone, missed, faults>>

(* The wallet the pass is at, still the one it loaded. *)
AtWallet == pass.pc = "write" /\ <<pass.w, watch[pass.w].gen>> \in pass.todo /\ watch[pass.w].on

(* Mutant: where the chain stands now, not where it stood at the read. *)
PositionNow(w) == IF Positioned(w) THEN n ELSE 0

(* The reader's position when the poll commits. *)
Position(w) == IF Positioned(w) THEN pass.at ELSE 0

(* The rows of seen and the reader's position are committed together. *)
Store(seen) ==
    /\ row' = Insert(row, seen, FALSE)
    /\ watch' = [watch EXCEPT ![pass.w].cursor = Position(pass.w)]
    /\ UNCHANGED <<setting, n, adds, add, told, undone>>

PollWrite ==
    /\ AtWallet
    /\ Store(pass.seen)
    /\ missed' = missed \cup Skipped(pass.w, watch[pass.w].cursor, pass.at, pass.seen)
    /\ pass' = [pass EXCEPT !.pc = "polls", !.todo = @ \ {<<pass.w, watch[pass.w].gen>>},
                            !.w = AnyW, !.seen = {}, !.at = 0]
    /\ UNCHANGED faults

(* Refreshing the rates, and journalling a fake or poisoning transfer, commit *)
(* in the middle of a poll: a restart just then keeps the position and only   *)
(* the rows so far.                                                           *)
CutPoll ==
    /\ faults < MaxFaults
    /\ AtWallet
    /\ \E last \in {0} \cup {t \in pass.seen : Class[t] = "alarm" /\ row[t] = "none"} :
        LET kept == {t \in pass.seen : t <= last} IN
        /\ Store(kept)
        /\ missed' = missed \cup Skipped(pass.w, watch[pass.w].cursor, pass.at, kept)
    /\ pass' = NoPass
    /\ faults' = faults + 1

(* Mutant: only the latest transfer is sent. *)
UnsentLatest == {t \in Tx : row[t] = "waiting" /\ t = n}

Unsent == {t \in Tx : row[t] = "waiting"}

(* Everything polled: the rows nobody was told of, with their wallets. *)
Select ==
    /\ pass.pc = "polls" /\ pass.todo = {}
    /\ pass' = [NoPass EXCEPT !.pc = "sends",
          !.pend = {[t |-> t, gen |-> watch[Of[t]].gen, muted |-> watch[Of[t]].muted] :
                       t \in Unsent}]
    /\ Idle
    /\ UNCHANGED <<watch, row, told, undone, missed, faults>>

(* The next row to be sent. *)
Head       == CHOOSE e \in pass.pend : \A f \in pass.pend : e.t <= f.t
Lives(e)   == Alive(Of[e.t], e.gen)
Usable     == pass.pc = "sends" /\ pass.pend # {} /\ (pass.expired => Lives(Head))
HeadMuted  == IF pass.expired THEN watch[Of[Head.t]].muted ELSE Head.muted

(* Muted, or its user has no Telegram. *)
Silenced   == HeadMuted \/ ~setting.tg

(* Mutant: a message Telegram refused is done with. *)
PassOverDone(e) == [pass EXCEPT !.pend = @ \ {e}, !.dirty = @ \cup {e}]

PassOver(e) == [pass EXCEPT !.pend = @ \ {e}]

SkipMuted ==
    /\ Usable /\ Silenced
    /\ pass' = [PassOver(Head) EXCEPT !.dirty = @ \cup {Head}]
    /\ Idle
    /\ UNCHANGED <<watch, row, told, undone, missed, faults>>

(* In the user's sleep hours, refused by Telegram or not got through to it:   *)
(* next pass again.                                                           *)
Leave ==
    /\ Usable /\ ~Silenced
    /\ pass' = PassOver(Head)
    /\ Idle
    /\ UNCHANGED <<watch, row, told, undone, missed, faults>>

Deliver == told' = IF Lives(Head) THEN [told EXCEPT ![Head.t] = @ + 1] ELSE told

Send ==
    /\ Usable /\ ~Silenced
    /\ Deliver
    /\ pass' = [pass EXCEPT !.pc = "save"]
    /\ Idle
    /\ UNCHANGED <<watch, row, undone, missed, faults>>

(* Mutant: the mark is not committed. *)
NotClosed(es) == row

Closed(es) == [t \in Tx |-> IF \E e \in es : e.t = t /\ Lives(e) THEN "closed" ELSE row[t]]

MarkLost(e) == undone' = IF Lives(e) THEN [undone EXCEPT ![e.t] = @ + 1] ELSE undone

(* Telegram took the message but its answer was lost, or came too late: the   *)
(* worker takes it as not sent.                                               *)
Unheard ==
    /\ faults < MaxFaults
    /\ Usable /\ ~Silenced
    /\ Deliver /\ MarkLost(Head)
    /\ pass' = PassOver(Head)
    /\ faults' = faults + 1
    /\ Idle
    /\ UNCHANGED <<watch, row, missed>>

(* What follows a commit, or a rollback, in the middle of the sends. *)
AfterSave == [PassOver(Head) EXCEPT !.pc = "sends", !.dirty = {}, !.expired = TRUE]

(* _log_sent commits the mark with the journal entry. *)
Save ==
    /\ pass.pc = "save"
    /\ row' = Closed(pass.dirty \cup {Head})
    /\ pass' = AfterSave
    /\ Idle
    /\ UNCHANGED <<watch, told, undone, missed, faults>>

(* A marked row was deleted: the journal swallows the error and rolls back.   *)
SaveRefused ==
    /\ pass.pc = "save"
    /\ \E e \in pass.dirty \cup {Head} : ~Lives(e)
    /\ MarkLost(Head)
    /\ pass' = AfterSave
    /\ Idle
    /\ UNCHANGED <<watch, row, told, missed, faults>>

Finish ==
    /\ pass.pc = "sends" /\ pass.pend = {}
    /\ row' = Closed(pass.dirty)
    /\ pass' = NoPass
    /\ Idle
    /\ UNCHANGED <<watch, told, undone, missed, faults>>

(* A wallet the pass needs was deleted: the exception ends the pass.          *)
Abort ==
    /\ \/ pass.pc = "polls" /\ pass.todo # {} /\ ~Alive(Turn[1], Turn[2])
       \/ pass.pc = "write" /\ ~AtWallet
       \/ pass.pc = "sends" /\ pass.pend # {} /\ pass.expired /\ ~Lives(Head)
       \/ pass.pc = "sends" /\ pass.pend = {} /\ \E e \in pass.dirty : ~Lives(e)
    /\ pass' = NoPass
    /\ Idle
    /\ UNCHANGED <<watch, row, told, undone, missed, faults>>

(* The worker restarts. *)
Crash ==
    /\ faults < MaxFaults
    /\ pass.pc # "idle"
    /\ IF pass.pc = "save" THEN MarkLost(Head) ELSE UNCHANGED undone
    /\ pass' = NoPass
    /\ faults' = faults + 1
    /\ Idle
    /\ UNCHANGED <<watch, row, told, missed>>

Consider == SkipMuted \/ Leave \/ Send \/ Unheard

Next ==
    \/ Confirm
    \/ \E r \in Req : AddPoll(r) \/ AddCommit(r) \/ AddEnds(r) \/ \E a \in Address : AddStart(r, a)
    \/ \E w \in Watch : Delete(w) \/ PollRead(w) \/ PollFails(w)
    \/ \E w \in Mutes : Mute(w)
    \/ StartPass \/ PollWrite \/ Select \/ Consider \/ Save \/ SaveRefused \/ Finish
    \/ Abort \/ Crash \/ CutPoll

Spec == Init /\ [][Next]_vars

(* The worker's loop goes on, a wallet that is read again and again is read   *)
(* successfully some day, and where messages are tried again and again, one   *)
(* gets through: passes come every three minutes and sleep ends every day.    *)
WorkerStep ==
    \/ StartPass \/ PollWrite \/ Select \/ Consider \/ Save \/ SaveRefused \/ Finish \/ Abort
    \/ \E w \in Watch : PollRead(w) \/ PollFails(w)
FairSpec ==
    /\ Spec
    /\ WF_vars(WorkerStep)
    /\ \A w \in Watch : SF_vars(PollRead(w))
    /\ SF_vars(Send)

-----------------------------------------------------------------------------
(* A transfer is told again only for an answer of Telegram, or a mark, that   *)
(* was lost between the message and its commit.                               *)
ToldOnce == \A t \in Tx : told[t] <= 1 + undone[t]

(* Nobody is told of a transfer older than the wallet, once its first poll    *)
(* succeeded, however it is deleted and added again around a pass.            *)
HistoryQuiet ==
    \A t \in Tx : LET w == Of[t] IN watch[w].read /\ t <= watch[w].created => told[t] = 0

(* A transfer on a wallet nobody mutes, of a user with Telegram, is closed    *)
(* only once it was told.                                                     *)
ClosedIsTold ==
    \A t \in Tx : row[t] = "closed" /\ setting.tg /\ Of[t] \notin Mutes => told[t] > 0

(* Whatever a reader's position has passed is stored, but for what the reader *)
(* passed over (what did not fit one read, a transaction not found, blocks    *)
(* too far back) and what a restart in the middle of a poll cut off: failed   *)
(* reads, deletions and overlapping additions lose nothing.                   *)
NothingSkipped ==
    \A t \in Tx : LET w == Of[t] IN
        watch[w].on /\ watch[w].created < t /\ t <= watch[w].cursor /\ row[t] = "none"
            => t \in missed

(* Overlapping additions exceed the limit by one address each. *)
LimitKept == Cardinality(Watched) < Limit + Cardinality(Req)

(* On a wallet that stays, unmuted, no transfer its reader has not passed yet *)
(* stays unstored for ever, and none stored stays unsent.                     *)
Settled(w)  == watch[w].on /\ ~watch[w].muted
InReach(t)  == LET w == Of[t] c == watch[w].cursor IN
                   t \in IF Positioned(w) THEN Ahead(w, c) ELSE Page(w, c)
Untold(t)   == row[t] = "waiting" \/ (row[t] = "none" /\ InReach(t))
NothingWaits ==
    \A w \in Watch : <>[]Settled(w) => <>[](\A t \in Tx : Of[t] = w => ~Untold(t))
=============================================================================
