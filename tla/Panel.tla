-------------------------------- MODULE Panel --------------------------------
(* The farm panel in the browser (src/frontend/farm.js): a page is opened,    *)
(* asks the server for its data and paints when the answer comes, while the   *)
(* user has perhaps gone elsewhere.  The pages share one element (#main), one *)
(* counter of requests (S.seq; the energy page has its own, EN.seq), the      *)
(* filters of the lists (S.f, S.ef), the selection (S.sel, S.order) and the   *)
(* history of the browser.                                                    *)
(*                                                                            *)
(* Devices do not change here: what is modelled is who asks, who answers, and *)
(* in which order.  An answer from a cache is an answer that comes at once.   *)
EXTENDS Naturals, Sequences

CONSTANTS
    Dev,      \* devices, numbered by their place: lists are in that order
    Cont,     \* containers
    Of,       \* Of[d]: the container of d
    Alarmed,  \* devices with an alarm
    Found,    \* devices the text typed into the search field finds
    Slot,     \* requests that may be under way at once
    MaxActs,  \* what the user does in all
    Acts,     \* the commands he uses
    Page,     \* the pages he opens
    Prompt,   \* every answer comes within the minute
    None

VARIABLES
    page, arg,  \* S.page, S.arg: where the user is
    sub,        \* EN.sub: the tab of the energy page
    f, ef,      \* S.f, S.ef: filters of the list of devices and of problems
    calls,      \* the requests under way
    view,       \* what #main shows
    hist, pos,  \* the entries of the browser's history, and the current one
    sel, order, last,  \* S.sel, S.order, S.lastIdx
    typed,      \* a search typed, its timer not yet fired
    acts,       \* commands given so far
    mute,       \* #main may stay wrong: see ShownIsAsked and LoadingEnds
    late,       \* a page that will be opened when its change has been saved
    trail       \* the pages the user has left, latest last, with the filters he saw

vars == <<page, arg, sub, f, ef, calls, view, hist, pos, sel, order, last,
          typed, acts, mute, late, trail>>

Filter   == [cont : Cont \cup {None}, ids : SUBSET Dev, q : BOOLEAN, quick : BOOLEAN]
EFilter  == [cont : Cont \cup {None}, q : BOOLEAN]
NoFilter == [cont |-> None, ids |-> Dev, q |-> FALSE, quick |-> FALSE]
Subs     == {"scheme", "hourly"}
Call     == [page : Page, arg : Cont \cup {None}, sub : Subs, fresh : BOOLEAN, own : BOOLEAN]
View     == [page : Page, arg : Cont \cup {None}, sub : Subs,
             what : {"loading", "list", "error"}, list : SUBSET Dev]
Entry    == [page : Page, arg : Cont \cup {None}, d : Nat,
             f : Filter \cup {None}, ef : EFilter \cup {None}]

(* Devices are numbered, the panel opens with the overview, and None is       *)
(* nothing of what it stands in for.                                          *)
Constants ==
    /\ Dev \subseteq Nat /\ Of \in [Dev -> Cont] /\ Alarmed \subseteq Dev
    /\ "today" \in Page /\ MaxActs \in Nat
    /\ None \notin Cont /\ None \notin Page /\ None \notin Filter
    /\ None \notin EFilter /\ None \notin Call

(* A page counts its requests, or only looks where the user is by the time of *)
(* the answer, or not even that.                                              *)
Loose      == {"calc", "notify", "conn", "wallets"}
Counter(p) == CASE p = "energy" -> "EN"
                [] p \in {"pools", "admin", "ev"} \cup Loose -> "none"
                [] OTHER -> "S"
PaintsLate(c) == c.page \in Loose \/ page = c.page  \* mutant: an older answer too
Paints(c)  == c.page \in Loose \/ (page = c.page /\ c.fresh)

(*---------------------------- lists and filters ----------------------------*)
(* A choice no device answers under the other filters is dropped.             *)
Pre(x) == {d \in x.ids : (x.q => d \in Found) /\ (x.quick => d \in Alarmed)}
Possible(x, S) == IF \E d \in S : Of[d] = x.cont THEN x ELSE [x EXCEPT !.cont = None]
InCont(x, S) == {d \in S : x.cont \in {None, Of[d]}}

FitF(x)  == Possible(x, Pre(x))
EPre(x)  == {d \in Alarmed : x.q => d \in Found}
FitE(x)  == Possible(x, EPre(x))

Listed(p, a, x, e) ==
    CASE p = "asics"  -> InCont(x, Pre(x))
      [] p = "errors" -> InCont(e, EPre(e))
      [] p = "cont"   -> {d \in Dev : Of[d] = a}
      [] OTHER        -> {}

(*-------------------------------- requests ---------------------------------*)
Free == {s \in Slot : calls[s] = None}

(* A page begins: the requests that share its counter are stale from now on.  *)
Ask(p, a, b, own) ==
    LET mine == CHOOSE s \in Free : TRUE
        Old(c) == IF c # None /\ Counter(c.page) = Counter(p) /\ Counter(p) # "none"
                  THEN [c EXCEPT !.fresh = FALSE] ELSE c IN
    /\ Free # {}
    /\ calls' = [s \in Slot |->
                   IF s = mine
                   THEN [page |-> p, arg |-> a, sub |-> b, fresh |-> TRUE, own |-> own]
                   ELSE Old(calls[s])]

Here(kept) == [page |-> page, arg |-> arg, f |-> f, ef |-> ef, kept |-> kept]

(* What go() puts in the place of the page before.                            *)
Wait ==
    view' = [view EXCEPT !.what = "loading", !.list = {}] /\ sel' = {} /\ mute' = FALSE

(* go(p, keep, a), the filters being x and e by then.  The entry that is left *)
(* keeps the filters, unless this page takes its place: then the page that is *)
(* left is in the history no more.                                            *)
Go(p, keep, a, b, x, e) ==
    LET here == hist[pos]
        new  == [page |-> p, arg |-> a, d |-> here.d, f |-> None, ef |-> None] IN
    /\ Ask(p, a, b, FALSE)
    /\ page' = p /\ arg' = a /\ sub' = b /\ f' = x /\ ef' = e
    /\ IF keep THEN UNCHANGED <<view, sel, mute>> ELSE Wait
    /\ IF <<here.page, here.arg>> = <<p, a>> THEN UNCHANGED <<hist, pos>>
       ELSE IF keep THEN hist' = [hist EXCEPT ![pos] = new] /\ pos' = pos
       ELSE /\ hist' = Append([SubSeq(hist, 1, pos) EXCEPT ![pos].f = x, ![pos].ef = e],
                              [new EXCEPT !.d = here.d + 1])
            /\ pos' = pos + 1
    /\ trail' = IF keep \/ <<p, a>> = <<page, arg>> THEN trail ELSE Append(trail, Here(TRUE))
    /\ UNCHANGED <<order, last, typed>>

(* A page calls its own function again, outside go(); by a timer perhaps when *)
(* another page is open, whose request is stale then if it counts them alike. *)
Again(p, a, x, e) ==
    /\ Ask(p, a, sub, TRUE)
    /\ f' = x /\ ef' = e
    /\ mute' = (mute \/ (page # p /\ Counter(page) = Counter(p)))
    /\ UNCHANGED <<page, arg, sub, view, hist, pos, sel, order, last, late, trail>>

(*--------------------------------- the user --------------------------------*)
Does(a) == a \in Acts /\ acts < MaxActs /\ acts' = acts + 1
On(p)   == view.page = p /\ view.what = "list" /\ page = p

Tab(p) ==
    /\ Does("tab") /\ p \in Page \ {"cont"} /\ UNCHANGED late
    /\ Go(p, FALSE, None, sub, IF p = "asics" THEN NoFilter ELSE f, ef)

(* A tile of the overview opens a list with a filter of its own.              *)
Tile ==
    /\ Does("tile") /\ On("today") /\ "asics" \in Page /\ UNCHANGED late
    /\ Go("asics", FALSE, None, sub, [NoFilter EXCEPT !.quick = TRUE], ef)

OpenCont(c) ==
    /\ Does("cont") /\ "cont" \in Page /\ UNCHANGED late
    /\ Go("cont", FALSE, c, sub, f, ef)

EnergyTab(b) ==
    /\ Does("sub") /\ page = "energy" /\ b # sub /\ UNCHANGED late
    /\ Go("energy", TRUE, None, b, f, ef)

(* The link over a container's name: the browser itself makes the entry, and  *)
(* nothing is kept in it or in the one that is left.                          *)
Crumb ==
    /\ Does("crumb") /\ On("cont") /\ "map" \in Page
    /\ Ask("map", None, sub, FALSE)
    /\ page' = "map" /\ arg' = None /\ Wait
    /\ hist' = Append(SubSeq(hist, 1, pos),
                      [page |-> "map", arg |-> None, d |-> 0, f |-> None, ef |-> None])
    /\ pos' = pos + 1
    /\ trail' = Append(trail, Here(FALSE))
    /\ UNCHANGED <<sub, f, ef, order, last, typed, late>>

(* Mutant: the filters stay those of the page that is left.                   *)
LandUnfiltered(n) ==
    LET e == hist[n] IN
    /\ pos' = n
    /\ IF <<e.page, e.arg>> # <<page, arg>>
       THEN /\ Ask(e.page, e.arg, sub, FALSE)
            /\ page' = e.page /\ arg' = e.arg /\ Wait
       ELSE UNCHANGED <<page, arg, view, sel, calls, mute>>
    /\ UNCHANGED <<sub, f, ef, hist, order, last, typed, late>>

(* Back and forward: the filters of the entry first, then its page, unless it *)
(* is the page that is open already, which is not asked for again.            *)
Land(n) ==
    LET e == hist[n] IN
    /\ pos' = n
    /\ f' = IF e.f # None THEN e.f ELSE f
    /\ ef' = IF e.ef # None THEN e.ef ELSE ef
    /\ IF <<e.page, e.arg>> # <<page, arg>>
       THEN /\ Ask(e.page, e.arg, sub, FALSE)
            /\ page' = e.page /\ arg' = e.arg /\ Wait
       ELSE /\ UNCHANGED <<page, arg, view, sel, calls>>
            /\ mute' = (mute \/ (view.what = "list" /\ <<f', ef'>> # <<f, ef>>))
    /\ UNCHANGED <<sub, hist, order, last, typed, late>>

Back ==
    /\ Does("back") /\ pos > 1 /\ Land(pos - 1)
    /\ trail' = IF trail = <<>> THEN trail ELSE SubSeq(trail, 1, Len(trail) - 1)

Forward ==
    /\ Does("forward") /\ pos < Len(hist) /\ Land(pos + 1)
    /\ trail' = Append(trail, Here(FALSE))

ChooseCont(c) ==
    /\ Does("filter") /\ UNCHANGED typed
    /\ \/ /\ On("asics") /\ \E d \in view.list : Of[d] = c
          /\ Again("asics", None, [f EXCEPT !.cont = c], ef)
       \/ /\ On("errors") /\ \E d \in view.list : Of[d] = c
          /\ Again("errors", None, f, [ef EXCEPT !.cont = c])

ResetFilters ==
    /\ Does("filter") /\ On("asics") /\ f # NoFilter
    /\ Again("asics", None, NoFilter, ef) /\ UNCHANGED typed

(* A search is asked for a quarter of a second after the last key.            *)
Type ==
    /\ Does("type") /\ On("asics") /\ typed' = TRUE
    /\ UNCHANGED <<page, arg, sub, f, ef, calls, view, hist, pos, sel, order, last, mute, late, trail>>

Debounced ==
    /\ typed /\ typed' = FALSE
    /\ Again("asics", None, [f EXCEPT !.q = TRUE], ef) /\ UNCHANGED acts

(*------------------------------- the selection -----------------------------*)
Select(S, l) ==
    /\ sel' = S /\ last' = l
    /\ UNCHANGED <<page, arg, sub, f, ef, calls, view, hist, pos, order, typed, mute, late, trail>>

Toggle(d) ==
    /\ Does("select") /\ d \in view.list
    /\ Select(IF d \in sel THEN sel \ {d} ELSE sel \cup {d}, d)

Between(a, b) == {d \in order : (a <= d /\ d <= b) \/ (b <= d /\ d <= a)}

SelectRange(d) ==
    /\ Does("select") /\ d \in view.list /\ last # None
    /\ {d, last} \subseteq order
    /\ Select(sel \cup Between(last, d), last)

(* By the keyboard, what the last list made holds; by the button, what is in  *)
(* sight.                                                                     *)
SelectAll ==
    /\ Does("all")
    /\ \/ page \in {"cont", "asics", "errors"} /\ Select(sel \cup order, last)
       \/ \E p \in {"asics", "errors"} : On(p) /\ Select(sel \cup view.list, last)

(* "Only these": the list of devices with the selection as its filter.        *)
ListSelected ==
    /\ Does("list") /\ sel # {} /\ "asics" \in Page /\ UNCHANGED late
    /\ Go("asics", TRUE, None, sub, [NoFilter EXCEPT !.ids = sel], ef)

(* A change is saved, and then the page it was made on is opened again where  *)
(* the user is by that time (the forms of connections, wallets, people).      *)
Save ==
    /\ Does("save") /\ page \in Loose /\ On(page) /\ late = None /\ late' = page
    /\ UNCHANGED <<page, arg, sub, f, ef, calls, view, hist, pos, sel, order, last,
                   typed, mute, trail>>

Saved ==
    /\ late # None /\ late' = None
    /\ Go(late, TRUE, None, sub, f, ef) /\ UNCHANGED acts

(*-------------------------------- the answers ------------------------------*)
(* The list a page would paint is made, and becomes the order of the          *)
(* selection, before the page looks whether it is still the one to paint.     *)
Answer(s) ==
    LET c == calls[s]
        x == IF c.page = "asics" THEN FitF(f) ELSE f
        e == IF c.page = "errors" THEN FitE(ef) ELSE ef
        L == Listed(c.page, c.arg, x, e) IN
    /\ c # None
    /\ calls' = [calls EXCEPT ![s] = None]
    /\ f' = x /\ ef' = e
    /\ order' = IF c.page \in {"asics", "errors", "cont"} THEN L ELSE order
    /\ IF Paints(c)
       THEN /\ view' = [page |-> c.page, arg |-> c.arg, sub |-> c.sub,
                        what |-> "list", list |-> L]
            /\ mute' = (page # c.page)
       ELSE UNCHANGED <<view, mute>>
    /\ UNCHANGED <<page, arg, sub, hist, pos, sel, last, typed, acts, late, trail>>

(* Mutant: nobody tells of an error.                                          *)
FailUnsaid(s) ==
    /\ calls[s] # None /\ "fail" \in Acts
    /\ calls' = [calls EXCEPT ![s] = None]
    /\ UNCHANGED <<view, mute>>
    /\ UNCHANGED <<page, arg, sub, f, ef, hist, pos, sel, order, last, typed, acts, late, trail>>

(* go() tells of an error if the user is on that page; nobody tells of one in *)
(* a request a page made by itself, though it may be the one to be painted.   *)
Fail(s) ==
    LET c == calls[s] IN
    /\ c # None /\ "fail" \in Acts
    /\ calls' = [calls EXCEPT ![s] = None]
    /\ IF c.own THEN view' = view /\ mute' = (mute \/ Paints(c))
       ELSE /\ view' = IF page # c.page THEN view
                       ELSE [view EXCEPT !.what = "error", !.list = {}]
            /\ UNCHANGED mute
    /\ UNCHANGED <<page, arg, sub, f, ef, hist, pos, sel, order, last, typed, acts, late, trail>>

(* Once a minute the page is asked for again, unless something is selected or *)
(* the page is one that is not asked for again; nor while the tab is hidden,  *)
(* a drawer, a form or a menu is open, or a field has the focus.  Those are   *)
(* not modelled: the step may come, and nothing says that it will.            *)
Tick ==
    /\ sel = {} /\ page \notin Loose
    /\ page = "energy" => sub = "scheme"
    /\ Prompt => \A s \in Slot : calls[s] = None
    /\ Go(page, TRUE, arg, sub, f, ef) /\ UNCHANGED <<acts, late>>

(*------------------------------ specification ------------------------------*)
Init ==
    /\ page = "today" /\ arg = None /\ sub = "scheme"
    /\ f = NoFilter /\ ef = [cont |-> None, q |-> FALSE]
    /\ calls = [s \in Slot |-> None]
    /\ view = [page |-> "today", arg |-> None, sub |-> "scheme",
               what |-> "list", list |-> {}]
    /\ hist = <<[page |-> "today", arg |-> None, d |-> 0, f |-> None, ef |-> None]>>
    /\ pos = 1
    /\ sel = {} /\ order = {} /\ last = None
    /\ typed = FALSE /\ acts = 0 /\ mute = FALSE /\ late = None /\ trail = <<>>

User ==
    \/ \E p \in Page : Tab(p)
    \/ Tile
    \/ \E c \in Cont : OpenCont(c) \/ ChooseCont(c)
    \/ \E b \in Subs : EnergyTab(b)
    \/ Crumb \/ Back \/ Forward \/ ResetFilters \/ Type
    \/ \E d \in Dev : Toggle(d) \/ SelectRange(d)
    \/ SelectAll \/ ListSelected \/ Save

Next ==
    \/ User \/ Debounced \/ Tick \/ Saved
    \/ \E s \in Slot : Answer(s) \/ Fail(s)

Spec == Init /\ [][Next]_vars

(* Requests are answered or fail; the user may stop at any point, and leave   *)
(* the tab hidden or a field in focus, so that the minute never comes.        *)
Fairness == \A s \in Slot : WF_vars(Answer(s) \/ Fail(s))

FairSpec == Spec /\ Fairness

(*-------------------------------- properties -------------------------------*)
TypeOK ==
    /\ page \in Page /\ arg \in Cont \cup {None} /\ sub \in Subs
    /\ f \in Filter /\ ef \in EFilter
    /\ calls \in [Slot -> Call \cup {None}] /\ view \in View
    /\ hist \in Seq(Entry) /\ pos \in 1..Len(hist)
    /\ sel \subseteq Dev /\ order \subseteq Dev /\ last \in Dev \cup {None}
    /\ typed \in BOOLEAN /\ mute \in BOOLEAN /\ acts \in 0..MaxActs
    /\ late \in Page \cup {None}

(* The panel's own Back button never leaves the panel: it is hidden where the *)
(* entry has depth 0, and an entry of depth n has n entries before it.        *)
BackStaysInside == hist[pos].d < pos

(* When nothing is under way, the page shows what was last asked for: the     *)
(* page, the container and the tab the user is on, with the list his filters  *)
(* give now; however the answers were ordered, and whichever page a late one  *)
(* was for.  Four things it cannot promise, until a page is painted again: a  *)
(* request outside go() that failed without a word; a late answer of a page   *)
(* that paints without looking; a step through the history that changes the   *)
(* filters but not the page; and a search whose timer ends on another page.   *)
Shows ==
    /\ view.page = page /\ view.arg = arg
    /\ page = "energy" => view.sub = sub
    /\ view.list = Listed(page, arg, f, ef)

ShownIsAsked ==
    (\A s \in Slot : calls[s] = None) /\ ~mute /\ view.what = "list" => Shows

(* Back lands on the page the user came from, with the filters it had; a page *)
(* that another took the place of is not in the history, and one left with    *)
(* the browser's own means keeps no filters.                                  *)
LandsWhereLeft ==
    Back /\ trail # <<>> =>
        LET t == trail[Len(trail)] IN
        /\ <<page', arg'>> = <<t.page, t.arg>>
        /\ page' = "asics" /\ t.kept => f' = t.f
        /\ page' = "errors" /\ t.kept => ef' = t.ef

BackIsPrevious == [][LandsWhereLeft]_vars

(* A page that says it is loading stops saying so: it shows a list or an      *)
(* error in the end, in whatever order answers come and whatever is typed,    *)
(* changed and saved meanwhile; as long as answers come within the minute.    *)
(* One thing can take its answer from it: a search typed on the list of       *)
(* devices before the user left, whose timer fires while the page waits.  The *)
(* answer is stale then, or is replaced by one whose failure nobody tells of  *)
(* (mute), and the page waits for the minute, which need not come.            *)
Loading == view.what = "loading"
LoadingEnds == Loading ~> ~Loading \/ mute
=============================================================================
