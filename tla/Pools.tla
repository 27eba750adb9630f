-------------------------------- MODULE Pools --------------------------------
(* The page of the pools (pagePools, openPool in src/frontend/farm.js) and    *)
(* the days a page may ask for.  The dates and the coin are chosen on the     *)
(* server, the pool and the text on what it answers; links without hashrate   *)
(* are hidden and counted in the label of the box that shows them.  Nothing   *)
(* orders the answers: each one paints, with the filters of that moment.      *)
EXTENDS Integers, FiniteSets

CONSTANTS
    Acc,     \* observer links
    CoinOf, PoolOf,
    Found,   \* links the typed text finds
    Up,      \* Up[d]: the links that had hashrate on day d
    Now,     \* links with hashrate now
    Today,   \* the last day of the tests; days before it are smaller numbers
    MonthOf, WeekDay,
    Slot, MaxActs, None

VARIABLES
    pf,       \* S.pf: from, to, coin, pool, q, empty
    today,    \* mskToday()
    calls,    \* requests under way: the coin and the days they name
    view,     \* what the page shows
    typed,    \* a text is typed, its timer not fired
    promised, \* rows the page ought to show after the last click
    card,     \* the card of a link: its period and the one before
    chart,    \* the days the chart of the overview is asked for
    acts

vars == <<pf, today, calls, view, typed, promised, card, chart, acts>>

Coins == {CoinOf[a] : a \in Acc}
Pls   == {PoolOf[a] : a \in Acc}

(*---------------------------------- days -----------------------------------*)
Begins(x, d) == MonthOf[x] = MonthOf[d] /\ (x - 1 \in DOMAIN MonthOf => MonthOf[x - 1] # MonthOf[d])
FirstOf(d)  == CHOOSE x \in (d - 31)..d : Begins(x, d)
Presets(d)  == [today |-> <<d, d>>, yesterday |-> <<d - 1, d - 1>>,
                week |-> <<d - WeekDay[d], d>>, month |-> <<FirstOf(d), d>>,
                last |-> <<FirstOf(FirstOf(d) - 1), FirstOf(d) - 1>>]
Picked(a, b) == IF a > b THEN <<b, a>> ELSE <<a, b>>
PeriodHours(p) == (p[2] - p[1]) * 24 + 24

(* The period a card compares with: as long, and over when this one begins.   *)
Span(p)   == p[2] - p[1] + 1
Before(p) == <<p[1] - Span(p), p[1] - 1>>

(* The calendar has months of at most 31 days, and the month before today's.  *)
Constants ==
    /\ IsFiniteSet(Acc) /\ Today \in Int /\ MaxActs \in Nat /\ DOMAIN MonthOf \subseteq Int
    /\ \A d \in DOMAIN MonthOf : \E x \in DOMAIN MonthOf \cap ((d - 31)..d) : Begins(x, d)
    /\ \A d \in {Today - 1, Today} :
          {d, FirstOf(d) - 1} \subseteq DOMAIN MonthOf /\ WeekDay[d] \in 0..6
    /\ None \notin [coin : Coins \cup {""}, from : Int, to : Int]

(*--------------------------------- the list --------------------------------*)
AliveIn(a, from, to) == a \in Now \/ \E d \in from..to : a \in Up[d]

Answered(c) == {a \in Acc : c.coin \in {"", CoinOf[a]}}
Matching(c, x) == {a \in Answered(c) : x.pool \in {"", PoolOf[a]} /\ (x.q => a \in Found)}
Live(c, x)  == {a \in Matching(c, x) : AliveIn(a, c.from, c.to)}

Paint(c, x) ==
    [items  |-> IF x.empty THEN Matching(c, x) ELSE Live(c, x),
     hidden |-> Cardinality(Matching(c, x) \ Live(c, x)),
     empty  |-> x.empty, of |-> c]

(*--------------------------------- actions ---------------------------------*)
Does == acts < MaxActs /\ acts' = acts + 1
Quiet == ~typed /\ \A s \in Slot : calls[s] = None

Asked(x) == [coin |-> x.coin, from |-> x.from, to |-> x.to]

(* Every change of a filter asks anew.                                        *)
Ask(x) ==
    \E s \in Slot :
        /\ calls[s] = None /\ \A r \in Slot : calls[r] = None => s <= r
        /\ calls' = [calls EXCEPT ![s] = Asked(x)]
        /\ pf' = x

Change(x) ==
    /\ Does /\ x # pf /\ Ask(x) /\ promised' = None
    /\ UNCHANGED <<today, view, typed, card, chart>>

SetCoin(c) == Change([pf EXCEPT !.coin = c])
SetPool(p) == Change([pf EXCEPT !.pool = p])
SetFrom(d) == Change([pf EXCEPT !.from = d])
SetTo(d)   == Change([pf EXCEPT !.to = d])
Quick(n)   == Change([pf EXCEPT !.to = today, !.from = today - (n - 1)])
Month      == Change([pf EXCEPT !.to = today, !.from = FirstOf(today)])

(* The box says how many links it hides: ticked, it adds them to the list.    *)
ToggleEmpty ==
    /\ Does /\ Ask([pf EXCEPT !.empty = ~@])
    /\ promised' = IF ~Quiet \/ view.of # Asked(pf) THEN None
                   ELSE Cardinality(view.items)
                        + (IF view.empty THEN -view.hidden ELSE view.hidden)
    /\ UNCHANGED <<today, view, typed, card, chart>>

Type ==
    /\ Does /\ ~pf.q /\ ~typed /\ typed' = TRUE
    /\ UNCHANGED <<pf, today, calls, view, promised, card, chart>>

Debounced ==
    /\ typed /\ Ask([pf EXCEPT !.q = TRUE]) /\ typed' = FALSE /\ promised' = None
    /\ UNCHANGED <<today, view, card, chart, acts>>

Answer(s) ==
    /\ calls[s] # None
    /\ calls' = [calls EXCEPT ![s] = None]
    /\ view' = Paint(calls[s], pf)
    /\ UNCHANGED <<pf, today, typed, promised, card, chart, acts>>

(* openPool asks for the days of the page and for as many before them.        *)
OpenPool(a) ==
    /\ Does /\ a \in view.items
    /\ card' = [acc |-> a, now |-> <<pf.from, pf.to>>, before |-> Before(<<pf.from, pf.to>>)]
    /\ UNCHANGED <<pf, today, calls, view, typed, promised, chart>>

(* The button "period" of the overview: a ready period, or two days in either *)
(* order.                                                                     *)
Period(p) ==
    /\ Does /\ chart' = p
    /\ UNCHANGED <<pf, today, calls, view, typed, promised, card>>

Preset(k)      == Period(Presets(today)[k])
PickDays(a, b) == Period(Picked(a, b))

(* The page stays open over midnight; its dates are those it had.             *)
Midnight ==
    /\ today < Today /\ today' = today + 1
    /\ UNCHANGED <<pf, calls, view, typed, promised, card, chart, acts>>

(*------------------------------ specification ------------------------------*)
Init ==
    /\ today = Today - 1
    /\ pf = [from |-> today - 6, to |-> today, coin |-> "", pool |-> "", q |-> FALSE,
             empty |-> FALSE]
    /\ calls = [s \in Slot |-> None] /\ view = Paint(Asked(pf), pf)
    /\ typed = FALSE /\ promised = None /\ card = None
    /\ chart = None /\ acts = 0

Next ==
    \/ \E c \in Coins \cup {""} : SetCoin(c)
    \/ \E p \in Pls \cup {""} : SetPool(p)
    \/ \E d \in {Today - 8, Today - 1} : SetFrom(d) \/ SetTo(d)
    \/ \E n \in {7, 30} : Quick(n)
    \/ Month \/ ToggleEmpty \/ Type \/ Debounced \/ Midnight
    \/ \E s \in Slot : Answer(s)
    \/ \E a \in Acc : OpenPool(a)
    \/ \E k \in DOMAIN Presets(today) : Preset(k)
    \/ \E a, b \in Today - 2..Today : PickDays(a, b)

Spec == Init /\ [][Next]_vars

(*-------------------------------- properties -------------------------------*)
TypeOK ==
    /\ pf.from \in Int /\ pf.to \in Int /\ pf.coin \in Coins \cup {""}
    /\ pf.pool \in Pls \cup {""} /\ pf.q \in BOOLEAN /\ pf.empty \in BOOLEAN
    /\ view.items \subseteq Acc /\ typed \in BOOLEAN /\ acts \in 0..MaxActs
    /\ promised # None => promised >= 0

(* The box that shows the empty links adds to the list as many as its label   *)
(* says, under every filter of pool, coin, text and days, and takes as many   *)
(* away; once all that was asked has been answered, and unless what the page  *)
(* showed was a late answer to an older question.                             *)
BoxTells == Quiet /\ promised # None => Cardinality(view.items) = promised

(* Whatever days are chosen, in whatever order and over midnight, a chart     *)
(* covers whole days of at least one, the last month among them; and a card   *)
(* compares its days with as many that are over when they begin.              *)
PeriodsMatch ==
    /\ chart # None => /\ chart[1] <= chart[2]
                       /\ PeriodHours(chart) = 24 * Cardinality(chart[1]..chart[2])
    /\ card # None /\ card.now[1] <= card.now[2] =>
         LET D(p) == p[1]..p[2] IN
         /\ Cardinality(D(card.before)) = Cardinality(D(card.now))
         /\ card.before[2] + 1 = card.now[1]
=============================================================================
