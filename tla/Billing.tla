------------------------------- MODULE Billing -------------------------------
(* PRO time of one account: app/services/billing/service.py (activation of a  *)
(* Telegram Stars payment), app/services/billing/entitlement.py (lazy         *)
(* expiration and the sweep), grant and revoke of app/services/support.py and *)
(* the bot's payment relay.                                                   *)
(*                                                                            *)
(* Every endpoint runs in a thread of its own with a database session of its  *)
(* own: it loads the user row (Begin), works out what to write from that copy *)
(* and from rows it selects (Decide...), and commits (Commit...).  Requests   *)
(* interleave between these steps.  The ORM writes back only the columns whose*)
(* value differs from the copy it loaded.                                     *)
EXTENDS Naturals, FiniteSets, FiniteSetsExt

CONSTANTS
    Req,        \* request threads
    Charge,     \* Telegram payment charge ids
    Grant,      \* ids of admin grants, "gift:<uuid>"
    Days,       \* Days[i]: period of the plan behind i, 0 for a plan not for sale
    Ops,        \* the operations this deployment runs
    MayFail,    \* TRUE when a request may die before its commit
    MaxTime,    \* bound on the clock, in days
    Null        \* SQL NULL in premium_until

Id == Charge \cup Grant
AllOps == {"activate", "grant", "revoke", "reconcile", "sweep"}

ASSUME BillingAssumption ==
    /\ Days \in [Id -> Nat]
    /\ \A g \in Grant : Days[g] > 0
    /\ Charge \cap Grant = {}
    /\ Ops \subseteq AllOps
    /\ MayFail \in BOOLEAN
    /\ MaxTime \in Nat
    /\ Null \notin Nat

VARIABLES
    now,        \* the clock
    user,       \* the users row: is_pro and premium_until
    subs,       \* the subscriptions table, keyed by telegram_payment_charge_id
    relay,      \* where Telegram's successful_payment update of a charge is
    late,       \* the charges whose payer was told that the activation is late
    req         \* the request threads
vars == <<now, user, subs, relay, late, req>>

Time   == Nat
User   == [is_pro : BOOLEAN, until : Time \cup {Null}]
Status == {"none", "active", "expired", "revoked"}
Sub    == [status : Status, started : Time, expires : Time]
Relay  == {"unpaid", "pending", "dispatched", "acked"}
Request == [pc      : {"idle", "decide", "commit"},
            op      : AllOps,
            id      : Id \cup {Null},
            seen    : User,
            moment  : Time,
            expires : Time,
            rows    : SUBSET Id,
            keep    : BOOLEAN,      \* sweep: another active row has time left
            heard   : BOOLEAN]      \* the caller still waits for the answer

NoSub  == [status |-> "none", started |-> 0, expires |-> 0]
Free   == [is_pro |-> FALSE, until |-> Null]
Legacy == [is_pro |-> TRUE, until |-> Null]
Idle   == [pc |-> "idle", op |-> "reconcile", id |-> Null, seen |-> Free,
           moment |-> 0, expires |-> 0, rows |-> {}, keep |-> FALSE, heard |-> TRUE]

TypeOK ==
    /\ now \in Time
    /\ user \in User
    /\ subs \in [Id -> Sub]
    /\ relay \in [Charge -> Relay]
    /\ late \subseteq Charge
    /\ req \in [Req -> Request]

-----------------------------------------------------------------------------
(* Entitlement of a user row at time t, with the switch test_mode_all_pro off. *)
IsPro(u, t) == u.is_pro /\ (u.until = Null \/ u.until > t)

Exists(i) == subs[i].status # "none"
Active    == {i \in Id : subs[i].status = "active"}

(* Mutant: a purchase starts anew. *)
BaseNow(op, u, t) == t

(* activate_subscription stacks on any time left; grant only for a PRO flag.  *)
Base(op, u, t) ==
    IF u.until # Null /\ u.until > t /\ (op = "activate" \/ u.is_pro)
    THEN u.until ELSE t

(* The is_pro column after a commit that assigned v to a copy loaded as old:  *)
(* an assignment that changes nothing is not written.                         *)
FlagWritten(old, v) == IF old = v THEN user.is_pro ELSE v

(* Mutant: the UNIQUE constraint is missing. *)
NeverTaken(i) == FALSE

(* Inserting a row of this charge id violates the UNIQUE constraint. *)
Taken(i) == Exists(i)

(* Mutant: a day too many. *)
ExpiresLate(q) == Base(q.op, q.seen, now) + Days[q.id] + 1

Expires(q) == Base(q.op, q.seen, now) + Days[q.id]

(* Mutant: revoking clears the flag and leaves the date. *)
RevokedFlag(q) == [is_pro |-> FlagWritten(q.seen.is_pro, FALSE), until |-> user.until]

(* The users row after a revoke. *)
RevokedUser(q) == [is_pro |-> FlagWritten(q.seen.is_pro, FALSE), until |-> q.moment]

(* Mutant: a revoked row has no end. *)
RevokedEndless(rows, t) == [i \in Id |-> IF i \in rows
                                         THEN [subs[i] EXCEPT !.status = "revoked", !.expires = Null]
                                         ELSE subs[i]]

(* The subscriptions after revoking or expiring rows. *)
Revoked(rows, t) == [i \in Id |-> IF i \in rows
                                  THEN [subs[i] EXCEPT !.status = "revoked", !.expires = t]
                                  ELSE subs[i]]
Expired(rows) == [i \in Id |-> IF i \in rows THEN [subs[i] EXCEPT !.status = "expired"]
                                              ELSE subs[i]]

Init ==
    /\ now = 0
    /\ user \in {Free, Legacy}
    /\ subs = [i \in Id |-> NoSub]
    /\ relay = [c \in Charge |-> "unpaid"]
    /\ late = {}
    /\ req = [r \in Req |-> Idle]

Tick == /\ now < MaxTime
        /\ now' = now + 1
        /\ UNCHANGED <<user, subs, relay, late, req>>

-----------------------------------------------------------------------------
(* The bot *)

(* Telegram takes the Stars and queues the successful_payment update. *)
Pay(c) == /\ "activate" \in Ops
          /\ relay[c] = "unpaid"
          /\ relay' = [relay EXCEPT ![c] = "pending"]
          /\ UNCHANGED <<now, user, subs, late, req>>

(* Mutant: an update is confirmed before it is handled. *)
AckEarly(c) == /\ relay[c] \in {"pending", "dispatched"}
               /\ relay' = [relay EXCEPT ![c] = "acked"]
               /\ UNCHANGED <<now, user, subs, late, req>>

(* The next long poll confirms a dispatched update, whatever became of the    *)
(* handler's call: the handler reports a failed call to the user and returns. *)
Ack(c) == /\ relay[c] = "dispatched"
          /\ relay' = [relay EXCEPT ![c] = "acked"]
          /\ UNCHANGED <<now, user, subs, late, req>>

-----------------------------------------------------------------------------
(* A request starts and loads the user row *)

Load(r, op, i) == /\ req[r].pc = "idle"
                  /\ op \in Ops
                  /\ req' = [req EXCEPT ![r] = [Idle EXCEPT !.pc = "decide", !.op = op,
                                                            !.id = i, !.seen = user]]
                  /\ UNCHANGED <<now, user, subs, late>>

(* The relayed payment; an unconfirmed update is delivered again. *)
BeginActivate(r, c) == /\ relay[c] \in {"pending", "dispatched"}
                       /\ Load(r, "activate", c)
                       /\ relay' = [relay EXCEPT ![c] = "dispatched"]

(* A grant draws a fresh uuid. *)
BeginGrant(r, g) == /\ ~Exists(g)
                    /\ \A q \in Req : req[q].id # g
                    /\ Load(r, "grant", g)
                    /\ UNCHANGED relay

BeginOther(r, op) == /\ op \in {"revoke", "reconcile", "sweep"}
                     /\ Load(r, op, Null)
                     /\ UNCHANGED relay

-----------------------------------------------------------------------------
(* A request decides what to write *)

At(r, pc, op) == req[r].pc = pc /\ req[r].op = op
Finish(r)     == req' = [req EXCEPT ![r] = Idle]
Reads         == UNCHANGED <<now, user, subs, relay>>

(* The bot tells the payer when an activation it still waits for failed. *)
Failed(q) == late' = IF q.op = "activate" /\ q.heard THEN late \cup {q.id} ELSE late

WillCommit(r, fields) == req' = [req EXCEPT ![r] = fields]

DecideCredit(r) ==
    LET q == req[r] IN
    WillCommit(r, [q EXCEPT !.pc = "commit", !.moment = now,
                            !.expires = Expires(q)])

(* A known charge is returned untouched, a plan not for sale is refused. *)
DecideActivate(r) ==
    LET q == req[r] IN
    /\ At(r, "decide", "activate")
    /\ IF Exists(q.id) \/ Days[q.id] = 0
       THEN Finish(r) /\ IF Exists(q.id) THEN UNCHANGED late ELSE Failed(q)
       ELSE DecideCredit(r) /\ UNCHANGED late
    /\ Reads

DecideGrant(r) == At(r, "decide", "grant") /\ DecideCredit(r) /\ Reads /\ UNCHANGED late

DecideRevoke(r) ==
    /\ At(r, "decide", "revoke")
    /\ WillCommit(r, [req[r] EXCEPT !.pc = "commit", !.moment = now, !.rows = Active])
    /\ Reads /\ UNCHANGED late

(* Mutant: any date counts as lapsed. *)
LapsesAlways(q) == q.seen.is_pro /\ q.seen.until # Null

Lapses(q) == q.seen.is_pro /\ ~IsPro(q.seen, now)

(* reconcile_user writes only when the loaded flag is set and has lapsed. *)
DecideReconcile(r) ==
    LET q == req[r] IN
    /\ At(r, "decide", "reconcile")
    /\ IF Lapses(q)
       THEN WillCommit(r, [q EXCEPT !.pc = "commit", !.rows = Active])
       ELSE Finish(r)
    /\ Reads /\ UNCHANGED late

(* expire_subscriptions loads the users after the lapsed rows, and leaves the  *)
(* flag alone while another active row has time left.                         *)
DecideSweep(r) ==
    LET lapsed == {i \in Active : subs[i].expires < now}
        other  == \E i \in Active \ lapsed : subs[i].expires > now IN
    /\ At(r, "decide", "sweep")
    /\ IF lapsed # {}
       THEN WillCommit(r, [req[r] EXCEPT !.pc = "commit", !.rows = lapsed,
                                         !.seen = user, !.keep = other])
       ELSE Finish(r)
    /\ Reads /\ UNCHANGED late

-----------------------------------------------------------------------------
(* A request commits *)

(* The row and the user together; the UNIQUE charge id makes a second insert  *)
(* fail, and then nothing is written.                                         *)
CommitCredit(r) ==
    LET q == req[r] IN
    /\ q.pc = "commit" /\ q.op \in {"activate", "grant"}
    /\ IF Taken(q.id)
       THEN UNCHANGED <<user, subs>> /\ Failed(q)
       ELSE /\ UNCHANGED late
            /\ subs' = [subs EXCEPT ![q.id] = [status |-> "active", started |-> q.moment,
                                               expires |-> q.expires]]
            /\ user' = [is_pro |-> FlagWritten(q.seen.is_pro, TRUE), until |-> q.expires]
    /\ Finish(r)
    /\ UNCHANGED <<now, relay>>

CommitRevoke(r) ==
    LET q == req[r] IN
    /\ At(r, "commit", "revoke")
    /\ subs' = Revoked(q.rows, q.moment)
    /\ user' = RevokedUser(q)
    /\ Finish(r)
    /\ UNCHANGED <<now, relay, late>>

CommitReconcile(r) ==
    /\ At(r, "commit", "reconcile")
    /\ subs' = Expired(req[r].rows)
    /\ user' = [user EXCEPT !.is_pro = FALSE]
    /\ Finish(r)
    /\ UNCHANGED <<now, relay, late>>

CommitSweep(r) ==
    LET q == req[r] IN
    /\ At(r, "commit", "sweep")
    /\ subs' = Expired(q.rows)
    /\ user' = [user EXCEPT !.is_pro = IF q.keep THEN @ ELSE FlagWritten(q.seen.is_pro, FALSE)]
    /\ Finish(r)
    /\ UNCHANGED <<now, relay, late>>

(* The server or the connection dies: the session is rolled back. *)
Abort(r) == /\ MayFail
            /\ req[r].pc # "idle"
            /\ Finish(r) /\ Failed(req[r])
            /\ Reads

(* The call times out: the bot stops waiting, the request goes on. *)
GiveUp(r) == /\ MayFail
             /\ req[r].pc # "idle" /\ req[r].op = "activate" /\ req[r].heard
             /\ req' = [req EXCEPT ![r].heard = FALSE]
             /\ Failed(req[r])
             /\ Reads

-----------------------------------------------------------------------------
Begin(r) == \/ \E c \in Charge : BeginActivate(r, c)
            \/ \E g \in Grant : BeginGrant(r, g)
            \/ \E op \in AllOps : BeginOther(r, op)

Step(r) == \/ DecideActivate(r) \/ DecideGrant(r) \/ DecideRevoke(r)
           \/ DecideReconcile(r) \/ DecideSweep(r)
           \/ CommitCredit(r) \/ CommitRevoke(r) \/ CommitReconcile(r) \/ CommitSweep(r)

Next == \/ Tick
        \/ \E c \in Charge : Pay(c) \/ Ack(c)
        \/ \E r \in Req : Begin(r) \/ Step(r) \/ Abort(r) \/ GiveUp(r)

Spec == Init /\ [][Next]_vars

(* A started request is run to its end, and Telegram delivers and confirms    *)
(* its updates; nothing makes users pay, admins act or the clock reach a day. *)
Fairness ==
    /\ \A r \in Req : WF_vars(Step(r))
    /\ \A c \in Charge : /\ WF_vars(Ack(c))
                         /\ SF_vars(\E r \in Req : BeginActivate(r, c))

FairSpec == Spec /\ Fairness

-----------------------------------------------------------------------------
(* Safety *)

(* PRO time never exceeds what was paid for or granted: under any overlap of  *)
(* requests, retries and redeliveries the account's end is at most the days   *)
(* of the rows in the table away from now (activate_subscription, grant).     *)
NeverOvercredited ==
    user.until # Null =>
        user.until <= now + MapThenSumSet(LAMBDA i : Days[i], {i \in Id : Exists(i)})

(* A subscription row is written once: no later payment, retry or sweep       *)
(* changes when it started, removes it or makes it active again, and only a   *)
(* revoke moves its end (activate_subscription's idempotency).                *)
RowFrozen(i) ==
    Exists(i) => /\ subs'[i].started = subs[i].started
                 /\ subs'[i].status # "none"
                 /\ subs'[i].status = "active" => subs[i].status = "active"
                 /\ subs'[i].expires # subs[i].expires => subs'[i].expires <= now
RowsWrittenOnce == [][\A i \in Id : RowFrozen(i)]_vars

(* Revoking access takes effect whatever other request of the account is in   *)
(* flight: when revoke commits the account is not PRO (support.revoke).       *)
RevokeTakesEffect ==
    [][\A r \in Req : CommitRevoke(r) => ~IsPro(user', now)]_vars

(* Buying before expiry never loses paid days: an activation that commits     *)
(* while time is left moves the end by exactly its plan's days                *)
(* (activate_subscription).                                                   *)
PaidDaysKept ==
    [][\A r \in Req : CommitCredit(r) /\ req[r].op = "activate" /\ ~Exists(req[r].id)
                      /\ user.until # Null /\ user.until > now
                      => user'.until = user.until + Days[req[r].id]]_vars

(* Time that is left is taken from an account only by a revoke, or by a       *)
(* request whose copy of the row another one has overtaken: whatever commits  *)
(* on the row as it is leaves the flag up and moves no end back, though the   *)
(* flag and the date are two columns, written by five operations, and the ORM *)
(* leaves out the one it takes for unchanged (activate_subscription,          *)
(* reconcile_user, grant, revoke).                                            *)
TakesTime == /\ user.is_pro /\ user.until # Null /\ user.until > now
             /\ ~user'.is_pro \/ user'.until < user.until
OnlyOvertakenTakeTime ==
    [][TakesTime => \E r \in Req : \/ CommitRevoke(r)
                                   \/ req[r].seen # user /\ CommitCredit(r)
                                   \/ req[r].seen # user /\ CommitReconcile(r)]_vars

(* Every payment ends as a subscription row, or with the payer told that the  *)
(* activation is late: the call may fail or time out, the update be delivered *)
(* again, or be confirmed before the row is there, but no payment is dropped  *)
(* in silence (on_successful_payment).                                        *)
PaymentAnswered ==
    \A c \in Charge : relay[c] = "pending" ~> Exists(c) \/ c \in late

-----------------------------------------------------------------------------
(* The stored row as the point in time PRO lasts to: a flag that is down      *)
(* before its date counts as no PRO at all.                                   *)
Forever == Null
ProUntil ==
    IF user.is_pro THEN user.until
    ELSE IF user.until = Null \/ user.until > now THEN 0 ELSE user.until

(* The change that is being made: that of the request about to commit it. *)
NoChange    == [kind |-> "none", id |-> Null, at |-> 0]
Changing(q) == q.pc = "commit" /\ q.op \in {"activate", "grant", "revoke"}
ChangeOf(q) == IF q.op = "revoke" THEN [kind |-> "withdraw", id |-> Null, at |-> q.moment]
                                  ELSE [kind |-> "credit", id |-> q.id, at |-> q.moment]
Due == LET busy == {r \in Req : Changing(req[r])} IN
       IF busy = {} THEN NoChange ELSE ChangeOf(req[CHOOSE r \in busy : TRUE])

Promise == INSTANCE Entitlement WITH
              until <- ProUntil, credited <- {i \in Id : Exists(i)}, due <- Due, Nobody <- Null

(* Requests of one account that do not overlap keep the promise. *)
KeepsPromise == Promise!Spec
=============================================================================
