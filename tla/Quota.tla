-------------------------------- MODULE Quota --------------------------------
(* The free tier's calculations of one Telegram user:                         *)
(* app/services/calc/funnel.py (who may calculate), app/crud/calc.py (the     *)
(* calculation_runs rows it counts) and POST /internal/calc,                  *)
(* GET /internal/calc/status of app/api/v1/internal.py.                       *)
(*                                                                            *)
(* A request counts the user's runs, decides, calculates, and only then       *)
(* inserts its own run, with nothing held in between: requests of one user    *)
(* (a double tap, two chats, a retry) overlap.  created_at is the database's  *)
(* now(), which is the START of the transaction, so a run can carry the day   *)
(* before the one it was counted on, or, when a market refresh committed in   *)
(* between, the day after.                                                    *)
EXTENDS Integers, FiniteSets

CONSTANTS
    Req,        \* request threads
    Intro,      \* settings.free_intro_calcs
    Daily,      \* settings.free_calcs_per_day
    MaxDay,     \* bound on the clock, in UTC days
    MaxRuns     \* no request starts once this many runs are recorded

ASSUME QuotaAssumption ==
    /\ IsFiniteSet(Req) /\ Req # {}
    /\ Intro \in Nat
    /\ Daily \in Nat \ {0}
    /\ MaxDay \in Nat
    /\ MaxRuns \in Nat

VARIABLES
    day,        \* the current UTC day
    pro,        \* the user has PRO now (see Billing)
    total,      \* calculation_runs rows of the user
    made,       \* made[d]: those created on day d
    free,       \* free[d]: those of made[d] run on the daily quota (history)
    intro,      \* runs admitted from the introductory pool (history)
    req         \* the request threads
vars == <<day, pro, total, made, free, intro, req>>

Day   == 0..MaxDay
Stage == {"intro", "usdt_only", "pro"}
Request == [pc    : {"idle", "loaded", "counted", "calc"},
            save  : BOOLEAN,     \* a calculation; FALSE: only its status
            pro   : BOOLEAN,     \* entitlement of the loaded user
            total : Nat,         \* count_runs
            stage : Stage,
            since : Day]         \* start of the open transaction

Idle == [pc |-> "idle", save |-> FALSE, pro |-> FALSE, total |-> 0,
         stage |-> "intro", since |-> 0]

TypeOK ==
    /\ day \in Day
    /\ pro \in BOOLEAN
    /\ total \in Nat
    /\ made \in [Day -> Nat]
    /\ free \in [Day -> Nat]
    /\ intro \in Nat
    /\ req \in [Req -> Request]

-----------------------------------------------------------------------------
(* funnel.evaluate: n runs in all, k of them today. *)
Least(a, b)    == IF a <= b THEN a ELSE b
Greatest(a, b) == IF a >= b THEN a ELSE b

(* Mutant: the pool is one calculation larger. *)
SpentLate(n) == n > Intro

IntroSpent(n) == n >= Intro

(* Mutant: every run of today counts against the daily limit. *)
AllToday(n, k) == k

(* Mutant: the pool is refilled every day. *)
DailyPool(n, k) == k - Least(k, Intro)

(* The runs of today that are past the introductory pool.  n was counted      *)
(* first, so n - k can be negative.                                           *)
PostIntro(n, k) == k - Least(k, Greatest(Intro - (n - k), 0))

StageOf(isPro, n)    == IF isPro THEN "pro" ELSE IF IntroSpent(n) THEN "usdt_only" ELSE "intro"
Allowed(isPro, n, k) == isPro \/ ~IntroSpent(n) \/ PostIntro(n, k) < Daily

-----------------------------------------------------------------------------
Init ==
    /\ day = 0
    /\ pro = FALSE
    /\ total = 0
    /\ made = [d \in Day |-> 0]
    /\ free = [d \in Day |-> 0]
    /\ intro = 0
    /\ req = [r \in Req |-> Idle]

(* Loads the user and lowers an expired flag: Billing's reconcile. *)
Begin(r, save) ==
    /\ req[r].pc = "idle"
    /\ total < MaxRuns
    /\ req' = [req EXCEPT ![r] = [Idle EXCEPT !.pc = "loaded", !.save = save,
                                              !.pro = pro, !.since = day]]
    /\ UNCHANGED <<day, pro, total, made, free, intro>>

(* count_runs. *)
CountAll(r) ==
    /\ req[r].pc = "loaded"
    /\ req' = [req EXCEPT ![r].pc = "counted", ![r].total = total]
    /\ UNCHANGED <<day, pro, total, made, free, intro>>

(* Mutant: a step no later one takes up. *)
AfterStatus(q) ==
    IF Allowed(q.pro, q.total, made[day])
    THEN [q EXCEPT !.pc = "save", !.stage = StageOf(q.pro, q.total)]
    ELSE Idle

(* The request after the funnel's answer: refused, answered or calculating. *)
AfterFunnel(q) ==
    IF q.save /\ Allowed(q.pro, q.total, made[day])
    THEN [q EXCEPT !.pc = "calc", !.stage = StageOf(q.pro, q.total)]
    ELSE Idle

(* count_runs_today, then the funnel. *)
CountToday(r) ==
    /\ req[r].pc = "counted"
    /\ req' = [req EXCEPT ![r] = AfterFunnel(@)]
    /\ UNCHANGED <<day, pro, total, made, free, intro>>

(* A market or rate refresh commits; the next statement opens a transaction. *)
Refresh(r) ==
    /\ req[r].pc = "calc"
    /\ req' = [req EXCEPT ![r].since = day]
    /\ UNCHANGED <<day, pro, total, made, free, intro>>

(* record_run: only after the calculation succeeded. *)
Record(r) ==
    LET q == req[r] IN
    /\ q.pc = "calc"
    /\ total' = total + 1
    /\ made' = [made EXCEPT ![q.since] = @ + 1]
    /\ free' = IF q.stage = "usdt_only" THEN [free EXCEPT ![q.since] = @ + 1] ELSE free
    /\ intro' = IF q.stage = "intro" THEN intro + 1 ELSE intro
    /\ req' = [req EXCEPT ![r] = Idle]
    /\ UNCHANGED <<day, pro>>

(* 503, 404, 422 or a dead process: no slot is used. *)
Fail(r) ==
    /\ req[r].pc # "idle"
    /\ req' = [req EXCEPT ![r] = Idle]
    /\ UNCHANGED <<day, pro, total, made, free, intro>>

(* PRO is bought, granted, revoked or runs out. *)
EntitlementChanges ==
    /\ pro' = ~pro
    /\ UNCHANGED <<day, total, made, free, intro, req>>

Midnight ==
    /\ day < MaxDay
    /\ day' = day + 1
    /\ UNCHANGED <<pro, total, made, free, intro, req>>

Next ==
    \/ \E r \in Req, save \in BOOLEAN : Begin(r, save)
    \/ \E r \in Req : CountAll(r) \/ CountToday(r) \/ Refresh(r) \/ Record(r) \/ Fail(r)
    \/ EntitlementChanges
    \/ Midnight

Spec == Init /\ [][Next]_vars

-----------------------------------------------------------------------------
(* "3 calculations per UTC day" (funnel.py:9) is what requests that do not    *)
(* overlap get.  Overlapping ones may each see the same counts, and those     *)
(* that cross midnight are counted on one day and dated another: a day holds  *)
(* fewer than Daily plus two runs per thread, however often that happens.     *)
FreePerDay == \A d \in Day : free[d] < Daily + 2 * Cardinality(Req)

(* The introductory pool is overrun by at most the other requests in flight.  *)
IntroBounded == intro < Intro + Cardinality(Req)

(* Nobody is turned away early: at a refusal the user has spent the pool and  *)
(* has that day's runs behind them, though the two counts were not taken at   *)
(* one moment.                                                                *)
Refuses(r) == req[r].pc = "counted" /\ req[r].save /\ req'[r].pc = "idle"
              /\ ~Allowed(req[r].pro, req[r].total, made[day])
NoEarlyRefusal ==
    [][\A r \in Req : Refuses(r) => made[day] >= Daily /\ total >= Intro + Daily]_vars
=============================================================================
