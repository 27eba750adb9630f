---------------------------------- MODULE Web --------------------------------
(* The panel in the browser, one part of it at a time: who is logged in       *)
(* (Session), the pages and their history (Panel), sites and clients (Scope), *)
(* lists and their filters (Lists), tables (Table), Energy, pools (Pools),    *)
(* the drawer and the search (Drawer), the administrators' page (Admin).      *)
(*                                                                            *)
(* "part" says which, and stays as it was at first.  The variables of the     *)
(* others are None, or stay put when they are those of the session; in the    *)
(* two parts of the session ("login" and "calls") all the others are None.    *)
(* Parts that name a variable of the code alike share it here.                *)
EXTENDS Session, Integers, Sequences

CONSTANTS
    Most,     \* Most[p]: what the user does in all, in part p
    Devs,     \* Devs[p]: the devices of part p
    Steps, Pages,  \* what he uses of the panel, in its two parts
    Of, Alarmed, Found,                            \* Panel
    Site, Client, SiteOf, ClientOf,                \* Scope
    Cont, Model, Class, DevSort, Section, KindOf,  \* Lists, and Drawer
    Row, Named, Num, Val, Expr, Given, PageN,      \* Table
    Name, Inputs, Ktp, Feeder, Load, Meter, Hour, Day, DayOf, File,  \* Energy
    Acc, CoinOf, PoolOf, FoundLinks, Now, Up, Today, MonthOf, WeekDay, \* Pools
    Card, Text, Query, Hits, Spin, Saves,          \* Drawer
    Person, Account, Job, MaxCalls                 \* Admin

VARIABLES
    part, acts,
    page, f, ef, calls, view, typed, fleet, promised, jobs,  \* of several parts
    arg, sub, hist, pos, sel, order, last, mute, late, trail,
    sum, all, site, client, devs, menu, fresh,
    scope, kind, cid, lf, err, due,
    rows, flt, by, list, n, head, opts, later, missed,
    named, kw, scheme, known, hours, meters, byDay, graph, torn,
    pf, today, card, chart,
    shut, pane, bound, field, typer, label, gone, text, wait, runs, box, modal,
    here, adm, pro, mgr, unread, marks

ofPanel  == <<arg, sub, hist, pos, sel, order, last, mute, late, trail>>
ofScope  == <<sum, all, site, client, devs, menu, fresh>>
ofLists  == <<scope, kind, cid, lf, err, due>>
ofTable  == <<rows, flt, by, list, n, head, opts, later, missed>>
ofEnergy == <<named, kw, scheme, known, hours, meters, byDay, graph, torn>>
ofPools  == <<pf, today, card, chart>>
ofDrawer == <<shut, pane, bound, field, typer, label, gone, text, wait, runs, box, modal>>
ofAdmin  == <<here, adm, pro, mgr, unread, marks>>
lens ==
    <<acts, page, f, ef, calls, view, typed, fleet, promised, jobs, ofPanel, ofScope,
      ofLists, ofTable, ofEnergy, ofPools, ofDrawer, ofAdmin>>
every == <<part, vars, lens>>

(*---------------------------------- parts ----------------------------------*)
(* The panel twice: few steps of every kind, or more to and fro.              *)
P(b) == INSTANCE Panel WITH
          Dev <- Devs["panel"], MaxActs <- Most[b], Acts <- Steps[b], Page <- Pages[b],
          Prompt <- TRUE
S == INSTANCE Scope WITH Dev <- Devs["scope"], MaxActs <- Most["scope"]
L == INSTANCE Lists WITH Dev <- Devs["lists"], MaxActs <- Most["lists"]
T == INSTANCE Table WITH timer <- later, lost <- missed, MaxActs <- Most["table"]
E == INSTANCE Energy WITH MaxActs <- Most["energy"]
O == INSTANCE Pools WITH Found <- FoundLinks, MaxActs <- Most["pools"]
D == INSTANCE Drawer WITH Job <- Saves, MaxActs <- Most["drawer"]
A == INSTANCE Admin WITH MaxActs <- Most["admin"]

PanelParts == {"panel", "back"}

ASSUME PanelAssumption  == \A b \in PanelParts : P(b)!Constants
ASSUME ScopeAssumption  == S!Constants
ASSUME ListsAssumption  == L!Constants
ASSUME TableAssumption  == T!Constants
ASSUME EnergyAssumption == E!Constants
ASSUME PoolsAssumption  == O!Constants
ASSUME DrawerAssumption == D!Constants
ASSUME AdminAssumption  == A!Constants

(*-------------------------------- a part's steps ---------------------------*)
Lens(p) == part = p /\ UNCHANGED <<part, vars>>

(* The session without its calls; and without the code that is scanned, and   *)
(* with one pair less.  With both at once there are too many states.          *)
LoginStep == part = "login" /\ UNCHANGED <<part, call, sends, lens>> /\ Next
CallsStep == part = "calls" /\ UNCHANGED <<part, sess, poll, lens>> /\ Next /\ made' < MaxPairs

OnPanel(b) ==
    /\ b \in PanelParts /\ Lens(b)
    /\ UNCHANGED <<fleet, promised, jobs, ofScope, ofLists, ofTable, ofEnergy, ofPools,
                   ofDrawer, ofAdmin>>
PanelStep == \E b \in PanelParts : OnPanel(b) /\ P(b)!Next
ScopeStep ==
    /\ Lens("scope") /\ S!Next
    /\ UNCHANGED <<page, f, ef, calls, view, typed, jobs, ofPanel, ofLists, ofTable,
                   ofEnergy, ofPools, ofDrawer, ofAdmin>>
ListsStep ==
    /\ Lens("lists") /\ L!Next
    /\ UNCHANGED <<calls, view, typed, jobs, ofPanel, ofScope, ofTable, ofEnergy, ofPools,
                   ofDrawer, ofAdmin>>
TableStep ==
    /\ Lens("table") /\ T!Next
    /\ UNCHANGED <<page, f, ef, calls, view, typed, fleet, promised, jobs, ofPanel,
                   ofScope, ofLists, ofEnergy, ofPools, ofDrawer, ofAdmin>>
EnergyStep ==
    /\ Lens("energy") /\ E!Next
    /\ UNCHANGED <<page, f, ef, calls, view, typed, fleet, promised, jobs, ofPanel,
                   ofScope, ofLists, ofTable, ofPools, ofDrawer, ofAdmin>>
PoolsStep ==
    /\ Lens("pools") /\ O!Next
    /\ UNCHANGED <<page, f, ef, fleet, jobs, ofPanel, ofScope, ofLists, ofTable, ofEnergy,
                   ofDrawer, ofAdmin>>
DrawerStep ==
    /\ Lens("drawer") /\ D!Next
    /\ UNCHANGED <<page, f, ef, view, typed, fleet, promised, ofPanel, ofScope, ofLists,
                   ofTable, ofEnergy, ofPools, ofAdmin>>
AdminStep ==
    /\ Lens("admin") /\ A!Next
    /\ UNCHANGED <<page, f, ef, typed, fleet, promised, ofPanel, ofScope, ofLists, ofTable,
                   ofEnergy, ofPools, ofDrawer>>

(* What the part does not have is None.                                       *)
Idle(owners, v) == part \notin owners => v = None
Rest ==
    /\ Idle(PanelParts \cup {"scope", "lists", "table", "energy", "pools", "drawer", "admin"}, acts)
    /\ Idle(PanelParts \cup {"lists"}, page)
    /\ Idle(PanelParts \cup {"lists"}, f) /\ Idle(PanelParts \cup {"lists"}, ef)
    /\ Idle(PanelParts \cup {"pools", "drawer", "admin"}, calls)
    /\ Idle(PanelParts \cup {"pools", "admin"}, view)
    /\ Idle(PanelParts \cup {"pools"}, typed)
    /\ Idle({"scope", "lists"}, fleet) /\ Idle({"scope", "lists", "pools"}, promised)
    /\ Idle({"drawer", "admin"}, jobs)
    /\ Idle(PanelParts, arg) /\ Idle(PanelParts, sub) /\ Idle(PanelParts, hist)
    /\ Idle(PanelParts, pos) /\ Idle(PanelParts, sel) /\ Idle(PanelParts, order)
    /\ Idle(PanelParts, last) /\ Idle(PanelParts, mute) /\ Idle(PanelParts, late)
    /\ Idle(PanelParts, trail)
    /\ Idle({"scope"}, sum) /\ Idle({"scope"}, all) /\ Idle({"scope"}, site)
    /\ Idle({"scope"}, client) /\ Idle({"scope"}, devs) /\ Idle({"scope"}, menu)
    /\ Idle({"scope"}, fresh)
    /\ Idle({"lists"}, scope) /\ Idle({"lists"}, kind) /\ Idle({"lists"}, cid)
    /\ Idle({"lists"}, lf) /\ Idle({"lists"}, err) /\ Idle({"lists"}, due)
    /\ Idle({"table"}, rows) /\ Idle({"table"}, flt) /\ Idle({"table"}, by)
    /\ Idle({"table"}, list) /\ Idle({"table"}, n) /\ Idle({"table"}, head)
    /\ Idle({"table"}, opts) /\ Idle({"table"}, later) /\ Idle({"table"}, missed)
    /\ Idle({"energy"}, named) /\ Idle({"energy"}, kw) /\ Idle({"energy"}, scheme)
    /\ Idle({"energy"}, known) /\ Idle({"energy"}, hours) /\ Idle({"energy"}, meters)
    /\ Idle({"energy"}, byDay) /\ Idle({"energy"}, graph) /\ Idle({"energy"}, torn)
    /\ Idle({"pools"}, pf) /\ Idle({"pools"}, today) /\ Idle({"pools"}, card)
    /\ Idle({"pools"}, chart)
    /\ Idle({"drawer"}, shut) /\ Idle({"drawer"}, pane) /\ Idle({"drawer"}, bound)
    /\ Idle({"drawer"}, field) /\ Idle({"drawer"}, typer) /\ Idle({"drawer"}, label)
    /\ Idle({"drawer"}, gone) /\ Idle({"drawer"}, text) /\ Idle({"drawer"}, wait)
    /\ Idle({"drawer"}, runs) /\ Idle({"drawer"}, box) /\ Idle({"drawer"}, modal)
    /\ Idle({"admin"}, here) /\ Idle({"admin"}, adm) /\ Idle({"admin"}, pro)
    /\ Idle({"admin"}, mgr) /\ Idle({"admin"}, unread) /\ Idle({"admin"}, marks)

WebInit ==
    /\ Init
    /\ \/ part \in {"login", "calls"}
       \/ /\ tok = 0
          /\ \/ part \in PanelParts /\ \E b \in {part} : P(b)!Init
             \/ part = "scope" /\ S!Init
             \/ part = "lists" /\ L!Init
             \/ part = "table" /\ T!Init
             \/ part = "energy" /\ E!Init
             \/ part = "pools" /\ O!Init
             \/ part = "drawer" /\ D!Init
             \/ part = "admin" /\ A!Init
    /\ Rest

WebNext ==
    \/ LoginStep \/ CallsStep \/ PanelStep \/ ScopeStep \/ ListsStep \/ TableStep
    \/ EnergyStep \/ PoolsStep \/ DrawerStep \/ AdminStep

(* The fairness of the part that something is to come of: a request is gone   *)
(* when it was answered or has failed.                                        *)
PanelFairness ==
    \A s \in Slot : WF_calls(OnPanel("panel") /\ (P("panel")!Answer(s) \/ P("panel")!Fail(s)))

WebSpec == WebInit /\ [][WebNext]_every /\ Fairness /\ PanelFairness

(*-------------------------------- properties -------------------------------*)
WebTypeOK ==
    /\ TypeOK
    /\ \A b \in PanelParts : part = b => P(b)!TypeOK
    /\ part = "scope" => S!TypeOK
    /\ part = "lists" => L!TypeOK
    /\ part = "table" => T!TypeOK
    /\ part = "energy" => E!TypeOK
    /\ part = "pools" => O!TypeOK
    /\ part = "drawer" => D!TypeOK
    /\ part = "admin" => A!TypeOK

(* What is shown when all is quiet is what was asked for last, whatever was   *)
(* answered meanwhile and in which order, and Back never leaves the panel     *)
(* (Panel); the administrators' page shows whom a message will go to (Admin). *)
ShownIsAsked ==
    /\ \A b \in PanelParts : part = b => P(b)!ShownIsAsked /\ P(b)!BackStaysInside
    /\ part = "admin" => A!QuietShows

(* Every number on an option, chip, row or box is the length of the list it   *)
(* leads to, and no choice made earlier leaves the pages empty (Scope, Lists, *)
(* Pools); a table shows the filters it applies (Table).                      *)
NumbersTell ==
    /\ part = "scope" => S!OptionTells /\ S!LabelsAgree /\ S!NeverEmpty
    /\ part = "lists" => L!ChoiceTells /\ L!ChoiceHasDevices
    /\ part = "pools" => O!BoxTells
    /\ part = "table" => T!FiltersShow

(* Figures that are computed apart agree: the shares of the substations with  *)
(* the load of the farm, the meters with the day, a period with the one it is *)
(* compared with (Energy, Pools).                                             *)
FiguresAgree ==
    /\ part = "energy" => E!SharesAddUp /\ E!StackReachesTotal
    /\ part = "pools" => O!PeriodsMatch

(* What a step does is what was seen before it: Back leads to the page that   *)
(* was left (Panel), an option lists what its number says (Table) and is kept *)
(* by the page (Lists), a button changes the row in sight (Drawer) and writes *)
(* to the person in sight (Admin).                                            *)
StepsKeepTheirWord ==
    [][/\ \A b \in PanelParts : part = b => P(b)!LandsWhereLeft
       /\ part = "table"  => T!ChosenIsListed
       /\ part = "lists"  => L!OfferIsKept
       /\ part = "drawer" => D!SentIsSeen
       /\ part = "admin"  => A!SentIsShown]_every

WaitsForPage == part = "panel" /\ P("panel")!Loading

(* A page that is loading ends up with a list or an error, unless a search    *)
(* typed elsewhere took its answer from it (Panel).                           *)
LoadingEnds ==
    WaitsForPage ~> ~WaitsForPage \/ mute
=============================================================================
