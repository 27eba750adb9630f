-------------------------------- MODULE MCWeb --------------------------------
(* The panel in the browser, for TLC: two to four of everything, so that a    *)
(* choice can leave some and drop others; two requests at once, so that the   *)
(* answers can come in another order; and few presses.                        *)
EXTENDS Web, TLC

CONSTANTS d1, d2, d3, d4, s1, s2, k1, k2, c1, c2, m1, m2, t1, q1

MCMost == [panel |-> 3, back |-> 5, scope |-> 2, lists |-> 2, table |-> 4, energy |-> 2,
           pools |-> 3, drawer |-> 4, admin |-> 4]
MCDevs == [panel |-> {1, 2}, scope |-> {d1, d2, d3, d4}, lists |-> {1, 2, 3}]

(*---------------------------------- the panel ------------------------------*)
MCPages == [panel |-> {"today", "map", "asics", "errors", "cont", "energy", "conn"},
            back  |-> {"today", "asics", "errors"}]
MCSteps == [panel |-> {"tab", "tile", "cont", "sub", "crumb", "back", "forward", "filter", "type",
                       "select", "all", "list", "save", "fail"},
            back  |-> {"tab", "tile", "back", "forward", "filter", "select", "list"}]
MCOf    == 1 :> c1 @@ 2 :> c2

(*----------------------------- sites and clients ---------------------------*)
MCSiteOf   == d1 :> s1 @@ d2 :> s1 @@ d3 :> s2 @@ d4 :> None
MCClientOf == d1 :> k1 @@ d2 :> k2 @@ d3 :> k1 @@ d4 :> None

(*--------------------------- lists of three devices ------------------------*)
Plain == [cont |-> c1, model |-> m1, status |-> "working", alarms |-> {}, hot |-> FALSE,
          placed |-> TRUE, hit |-> TRUE]
Alm(k, l, w) == [cls |-> k, lvl |-> l, low |-> w]
MCSort == {Plain,
           [Plain EXCEPT !.alarms = {Alm("hashrate", 1, TRUE)}, !.model = m2, !.hot = TRUE,
                         !.placed = FALSE],
           [Plain EXCEPT !.cont = c2, !.status = "offline", !.hit = FALSE,
                         !.alarms = {Alm("offline", 3, FALSE), Alm("hashrate", 1, TRUE)}],
           [Plain EXCEPT !.cont = None, !.status = "suspended"]}
MCKindOf == c1 :> "air" @@ c2 :> "hydro" @@ d1 :> "device" @@ k1 :> "pool" @@ m1 :> "wallet"

(*---------------------------- a table of four rows -------------------------*)
MCNum   == <<5, None, 7, 5>>
MCVal   == [kind |-> <<1, 1, 2, 2>>, state |-> <<1, 2, 2, 2>>]
MCExpr  == {[op |-> "-", a |-> 5, b |-> 6], [op |-> ">", a |-> 5, b |-> 0]}
MCGiven == {{1, 2, 3, 4}, {1, 3}}

(*------------------- two containers, two meters, three hours ---------------*)
(* "M" hangs on a KTP the scheme does not have.                               *)
MCInputs == "A" :> <<2, 3, 3>> @@ "M" :> <<7>> @@ "x" :> <<>>
MCFeeder == 1 :> "f1" @@ 2 :> "f1" @@ 3 :> "f2"
MCDayOf  == 1 :> "d1" @@ 2 :> "d1" @@ 3 :> "d2"
MCFile   == {m1 :> <<4, None, 5>>, m1 :> <<None, 6, 7>> @@ m2 :> <<1, 2, None>>,
             m2 :> <<None, None, None>>}

(*--------------------------- four links of two pools -----------------------*)
MCCoinOf  == <<"BTC", "BTC", "LTC", "BTC">>
MCPoolOf  == <<"p", "q", "p", "p">>
MCUp      == [d \in -80..70 |-> IF d >= 55 THEN {4} ELSE {}]
MCMonthOf == [d \in 0..70 |-> d \div 30]
MCWeekDay == [d \in 0..70 |-> d % 7]

(*------------------ cards of a device, of a link, of a wallet --------------*)
MCHits == q1 :> {d1}
=============================================================================
