-------------------------------- MODULE Lists --------------------------------
(* The lists of the farm panel and the numbers on their filters (farm.js):    *)
(* the overview, the containers, one container, the devices and the problems. *)
(* Every page counts, for each option of each filter, the devices it would    *)
(* list under the other filters; an option with none is not offered, and a    *)
(* choice that has become impossible is dropped.                              *)
(*                                                                            *)
(* The order in which answers come is Panel's matter.  Here a press changes a *)
(* filter, and then the page is computed, from devices that may have changed. *)
EXTENDS Naturals, FiniteSets

CONSTANTS
    Dev, Cont, Model, Class,
    DevSort,   \* what a device may be, as the server answers
    Section,   \* the devices of a site or client that may be chosen
    KindOf,    \* the kind of a container's layout, None without a layout
    MaxActs,   \* presses of the user in all
    None

VARIABLES
    fleet,     \* S.all
    scope,     \* S.devs: those of the chosen sites and clients
    page,      \* S.page
    f, ef,     \* S.f, S.ef: the filters of the devices and of the problems
    kind,      \* S.mf.kind
    cid, lf, err, \* S.cl: the container, and the filters of its page
    promised,  \* the number on what was pressed last, and what it was
    due,       \* the page has to be computed
    acts

vars == <<fleet, scope, page, f, ef, kind, cid, lf, err, promised, due, acts>>
data == <<fleet, scope>>

Status == {"working", "offline", "suspended"}
Alarm  == [cls : Class, lvl : 0..3, low : BOOLEAN]
Quick  == {"low", "hot", "noplace"}
Light  == {"ok", "okw", "bad", "susp"}
Page   == {"today", "map", "cont", "asics", "errors"}

NoF  == [cont |-> None, model |-> None, status |-> None, quick |-> None,
         q |-> FALSE, alarms |-> FALSE]
NoEF == [cls |-> None, cont |-> None, model |-> None, lvl |-> 0, q |-> FALSE, gk |-> None]

(*------------------------------ what devices are ---------------------------*)
IsLow(d) == fleet[d].status = "working" /\ \E a \in fleet[d].alarms : a.low
Alarms(D) == {d \in D : fleet[d].alarms # {}}
With(D, s) == {d \in D : s = None \/ fleet[d].status = s}
QuickFits(d, k) ==
    CASE k = "low" -> IsLow(d) [] k = "hot" -> fleet[d].hot 
      [] k = "noplace" -> fleet[d].cont # None /\ ~fleet[d].placed

LightOf(d) ==
    CASE fleet[d].status = "working"   -> IF fleet[d].alarms = {} THEN "ok" ELSE "okw"
      [] fleet[d].status = "offline"   -> "bad"
      [] fleet[d].status = "suspended" -> "susp"

(*-------------------------------- the devices ------------------------------*)
(* "skip" leaves one filter out: the one whose options are being counted.     *)
Base(x, skip) ==
    {d \in scope :
        /\ skip = "c" \/ x.cont \in {None, fleet[d].cont}
        /\ skip = "m" \/ x.model \in {None, fleet[d].model}
        /\ skip = "k" \/ x.quick = None \/ QuickFits(d, x.quick)
        /\ x.q => fleet[d].hit}

InCont(D, c)  == {d \in D : fleet[d].cont = c}
OfModel(D, m) == {d \in D : fleet[d].model = m}

(* An impossible container is dropped first, and then an impossible model.    *)
FitF(x) ==
    LET y == IF x.cont # None /\ InCont(Base(x, "c"), x.cont) = {}
             THEN [x EXCEPT !.cont = None] ELSE x IN
    IF y.model # None /\ OfModel(Base(y, "m"), y.model) = {}
    THEN [y EXCEPT !.model = None] ELSE y

Pre(x)   == Base(x, "")
Asics(x) == {d \in With(Pre(x), x.status) : x.alarms => fleet[d].alarms # {}}

(*------------------------------- the problems ------------------------------*)
Counts(x, a) == x.cls \in {None, a.cls} /\ a.lvl >= x.lvl
EBase(x, skip) ==
    {d \in scope :
        /\ \E a \in fleet[d].alarms : Counts(x, a)
        /\ x.q => fleet[d].hit
        /\ skip = "c" \/ x.cont \in {None, fleet[d].cont}
        /\ skip = "m" \/ x.model \in {None, fleet[d].model}}

InClass(D, k) == {d \in D : \E a \in fleet[d].alarms : a.cls = k}

FitE(x) ==
    LET w == IF x.cls # None /\ InClass(scope, x.cls) = {} THEN [x EXCEPT !.cls = None] ELSE x
        y == IF w.cont # None /\ InCont(EBase(w, "c"), w.cont) = {}
             THEN [w EXCEPT !.cont = None] ELSE w IN
    IF y.model # None /\ OfModel(EBase(y, "m"), y.model) = {}
    THEN [y EXCEPT !.model = None] ELSE y

(* A row is an alarm of a device; the groups are the alarms, "gk" the chosen. *)
Rows(x)     == {r \in EBase(x, "") \X Alarm : r[2] \in fleet[r[1]].alarms /\ Counts(x, r[2])}
Group(x, g) == {r[1] : r \in {r \in Rows(x) : r[2] = g}}
Errors(x)   == {r[1] : r \in {r \in Rows(x) : x.gk \in {None, r[2]}}}

(*------------------------- the containers, and one -------------------------*)
Boxes     == {fleet[d].cont : d \in scope} \ {None}
OfKind(k) == {c \in Boxes : k = None \/ KindOf[c] = k}
Kinds     == {KindOf[c] : c \in Boxes} \ {None}
FitKind(k) == IF k \in Kinds THEN k ELSE None

(* The page of a container shows all its devices, whatever the scope.         *)
Inside(c) == InCont(Dev, c)
ErrFits(d, k) == IF k \in Quick THEN QuickFits(d, k) ELSE \E a \in fleet[d].alarms : a.cls = k
ErrKeys(c) == Quick \cup {k \in Class : InClass(Inside(c), k) # {}}
OkErr(c, k) == {d \in Inside(c) : k = None \/ ErrFits(d, k)}
Shown(c, L, k) == {d \in OkErr(c, k) : L = {} \/ LightOf(d) \in L}
FitErr(c, k) == IF k \in ErrKeys(c) THEN k ELSE None

(*-------------------------------- the overview -----------------------------*)
(* What needs attention: devices of the scope, and the server's counts of the *)
(* classes, which are of the whole farm.                                      *)
Attention ==
    {<<"asics", k, {d \in scope : QuickFits(d, k)}>> : k \in Quick}
    \cup {<<"errors", k, InClass(Dev, k)>> : k \in Class \ {"offline"}}

(*---------------------------------- pages ----------------------------------*)
List == CASE page = "asics" -> Asics(f) [] page = "errors" -> Errors(ef)
          [] page = "map" -> OfKind(kind) [] page = "cont" -> Shown(cid, lf, err)
          [] OTHER -> {}

(* What the page does before it lists anything: choices that have become      *)
(* impossible are dropped.  A page about a container forgets its filters when *)
(* it was about another.                                                      *)
Compute ==
    /\ due /\ due' = FALSE
    /\ f' = IF page = "asics" THEN FitF(f) ELSE f
    /\ ef' = IF page = "errors" THEN FitE(ef) ELSE ef
    /\ kind' = IF page = "map" THEN FitKind(kind) ELSE kind
    /\ err' = IF page = "cont" THEN FitErr(cid, err) ELSE err
    /\ UNCHANGED <<data, page, cid, lf, promised, acts>>

Press == ~due /\ due' = TRUE /\ acts < MaxActs /\ acts' = acts + 1

(* The number on the button, and whether no filter is on that it leaves out.  *)
Promise(D, plain) == promised' = [n |-> Cardinality(D), plain |-> plain]
NoPromise == promised' = None

PressF(x)   == f' = x /\ UNCHANGED <<data, page, ef, kind, cid, lf, err>>
PressE(x)   == ef' = x /\ UNCHANGED <<data, page, f, kind, cid, lf, err>>
PressC(L, k) == lf' = L /\ err' = k /\ UNCHANGED <<data, page, f, ef, kind, cid>>

Open(p) ==
    /\ Press /\ NoPromise /\ page' = p /\ p # "cont"
    /\ f' = IF p = "asics" THEN NoF ELSE f
    /\ UNCHANGED <<data, ef, kind, cid, lf, err>>

OpenCont(c) ==
    /\ page \in {"map", "today"} /\ c \in Boxes /\ (page = "map" => c \in OfKind(kind))
    /\ Press /\ NoPromise /\ page' = "cont" /\ cid' = c
    /\ lf' = IF c = cid THEN lf ELSE {}
    /\ err' = IF c = cid THEN err ELSE None
    /\ UNCHANGED <<data, f, ef, kind>>

(*-------------------------- the page of the devices ------------------------*)
AsicsStatus(s) ==
    /\ page = "asics" /\ Press /\ (s = None \/ With(Pre(f), s) # {})
    /\ Promise(With(Pre(f), s), ~f.alarms) /\ PressF([f EXCEPT !.status = s])

AsicsAlarms ==
    /\ page = "asics" /\ Press /\ (f.alarms \/ Alarms(Pre(f)) # {})
    /\ IF f.alarms THEN NoPromise ELSE Promise(Alarms(Pre(f)), f.status = None)
    /\ PressF([f EXCEPT !.alarms = ~f.alarms])

NoStatus == f.status = None /\ ~f.alarms

AsicsQuick(k) ==
    LET D == {d \in Base(f, "k") : QuickFits(d, k)} IN
    /\ page = "asics" /\ Press /\ (k = f.quick \/ D # {})
    /\ IF k = f.quick THEN NoPromise ELSE Promise(D, NoStatus)
    /\ PressF([f EXCEPT !.quick = IF k = f.quick THEN None ELSE k])

AsicsCont(c) ==
    LET D == InCont(Base(f, "c"), c) IN
    /\ page = "asics" /\ D # {} /\ Press
    /\ Promise(D, NoStatus) /\ PressF([f EXCEPT !.cont = c])

AsicsModel(m) ==
    LET D == OfModel(Base(f, "m"), m) IN
    /\ page = "asics" /\ D # {} /\ Press
    /\ Promise(D, NoStatus) /\ PressF([f EXCEPT !.model = m])

AsicsSearch ==
    page = "asics" /\ Press /\ NoPromise /\ PressF([f EXCEPT !.q = ~f.q])

(*------------------------- the page of the problems ------------------------*)
ErrorsClass(k) ==
    LET D == InClass(scope, k) IN
    /\ page = "errors" /\ D # {} /\ Press
    /\ Promise(D, ef = [NoEF EXCEPT !.cls = ef.cls, !.gk = ef.gk])
    /\ PressE([ef EXCEPT !.cls = k, !.gk = None])

ErrorsCont(c) ==
    LET D == InCont(EBase(ef, "c"), c) IN
    /\ page = "errors" /\ D # {} /\ Press
    /\ Promise(D, ef.gk = None) /\ PressE([ef EXCEPT !.cont = c])

ErrorsModel(m) ==
    LET D == OfModel(EBase(ef, "m"), m) IN
    /\ page = "errors" /\ D # {} /\ Press
    /\ Promise(D, ef.gk = None) /\ PressE([ef EXCEPT !.model = m])

ErrorsLevel(n) ==
    page = "errors" /\ Press /\ NoPromise /\ PressE([ef EXCEPT !.lvl = n])

ErrorsGroup(g) ==
    LET D == Group(ef, g) IN
    /\ page = "errors" /\ D # {} /\ Press
    /\ IF g = ef.gk THEN NoPromise ELSE Promise(D, TRUE)
    /\ PressE([ef EXCEPT !.gk = IF g = ef.gk THEN None ELSE g])

(*-------------------- the pages of containers, the overview ----------------*)
(* The button of all kinds has the sum over the kinds.                        *)
MapKind(k) ==
    /\ page = "map" /\ k \in Kinds \cup {None} /\ Press
    /\ Promise({c \in Boxes : KindOf[c] # None /\ k \in {None, KindOf[c]}},
               k # None \/ \A c \in Boxes : KindOf[c] # None)
    /\ kind' = k /\ UNCHANGED <<data, page, f, ef, cid, lf, err>>

ContLight(l) ==
    LET D == {d \in OkErr(cid, err) : LightOf(d) = l} IN
    /\ page = "cont" /\ D # {} /\ Press
    /\ IF l \in lf THEN NoPromise ELSE Promise(D, lf = {})
    /\ PressC(IF l \in lf THEN lf \ {l} ELSE lf \cup {l}, err)

ContErr(k) ==
    /\ page = "cont" /\ k \in ErrKeys(cid) \cup {None} /\ OkErr(cid, k) # {} /\ Press
    /\ Promise(OkErr(cid, k), lf = {}) /\ PressC(lf, k)

ContReset == page = "cont" /\ Press /\ NoPromise /\ PressC({}, None)

(* A row or a tile of the overview: the filters of the devices are reset, of  *)
(* those of the problems only the class changes.                              *)
TodayRow(r) ==
    /\ page = "today" /\ r[3] # {} /\ Press /\ page' = r[1]
    /\ IF r[1] = "asics"
       THEN f' = [NoF EXCEPT !.quick = r[2]] /\ UNCHANGED ef /\ Promise(r[3], TRUE)
       ELSE /\ ef' = [ef EXCEPT !.cls = r[2]] /\ UNCHANGED f
            /\ Promise(r[3], scope = Dev /\ ef = [NoEF EXCEPT !.cls = ef.cls])
    /\ UNCHANGED <<data, kind, cid, lf, err>>

TodayTile(s) ==
    /\ page = "today" /\ Press /\ page' = "asics"
    /\ Promise(With(scope, s), TRUE) /\ f' = [NoF EXCEPT !.status = s]
    /\ UNCHANGED <<data, ef, kind, cid, lf, err>>

(*--------------------------------- the data --------------------------------*)
(* A device is answered anew, or other sites and clients are chosen.          *)
Answered(d, x) ==
    /\ acts < MaxActs /\ acts' = acts + 1 /\ due' = TRUE /\ NoPromise
    /\ fleet' = [fleet EXCEPT ![d] = x]
    /\ UNCHANGED <<scope, page, f, ef, kind, cid, lf, err>>

Chosen(D) ==
    /\ Press /\ NoPromise /\ scope' = D /\ page \notin {"cont"}
    /\ UNCHANGED <<fleet, page, f, ef, kind, cid, lf, err>>

(*------------------------------ specification ------------------------------*)
Init ==
    /\ fleet \in [Dev -> DevSort] /\ scope = Dev /\ page \in Page \ {"cont"}
    /\ f = NoF /\ ef = NoEF /\ kind = None /\ cid = None /\ lf = {} /\ err = None
    /\ promised = None /\ due = FALSE /\ acts = 0

Next ==
    \/ Compute
    \/ \E p \in Page : Open(p)
    \/ \E c \in Cont : OpenCont(c) \/ AsicsCont(c) \/ ErrorsCont(c)
    \/ \E s \in Status \cup {None} : AsicsStatus(s)
    \/ \E k \in Quick : AsicsQuick(k)
    \/ \E m \in Model : AsicsModel(m) \/ ErrorsModel(m)
    \/ AsicsAlarms \/ AsicsSearch
    \/ \E k \in Class : ErrorsClass(k)
    \/ \E n \in {0, 2} : ErrorsLevel(n)
    \/ \E d \in Dev : \E g \in fleet[d].alarms : ErrorsGroup(g)
    \/ \E k \in Kinds \cup {None} : MapKind(k)
    \/ \E l \in Light : ContLight(l)
    \/ \E k \in Quick \cup Class \cup {None} : ContErr(k)
    \/ ContReset
    \/ \E r \in Attention : TodayRow(r)
    \/ \E s \in {"working", "offline"} : TodayTile(s)
    \/ \E d \in Dev, x \in DevSort : Answered(d, x)
    \/ \E D \in {Dev, Section} : Chosen(D)

Spec == Init /\ [][Next]_vars

(* What a device may be, and that None is nothing of what it stands in for.   *)
Constants ==
    /\ Section \subseteq Dev /\ MaxActs \in Nat
    /\ DevSort \subseteq [cont : Cont \cup {None}, model : Model, status : Status,
                       alarms : SUBSET Alarm, hot : BOOLEAN, placed : BOOLEAN, hit : BOOLEAN]
    /\ None \notin Cont /\ None \notin Model /\ None \notin Class /\ None \notin Status
    /\ None \notin Quick /\ None \notin Alarm

(*-------------------------------- properties -------------------------------*)
TypeOK ==
    /\ fleet \in [Dev -> DevSort] /\ scope \in {Dev, Section} /\ page \in Page
    /\ f.cont \in Cont \cup {None} /\ f.model \in Model \cup {None}
    /\ f.status \in Status \cup {None} /\ f.quick \in Quick \cup {None}
    /\ ef.cls \in Class \cup {None} /\ ef.cont \in Cont \cup {None}
    /\ cid \in Cont \cup {None} /\ lf \subseteq Light

(* A container or a model that stays chosen has devices under the search and  *)
(* the quick filters: a page never comes up empty because of a choice that    *)
(* was made when the fleet, or the chosen client, was another.                *)
ChoiceHasDevices ==
    ~due =>
      /\ page = "asics" /\ (f.cont # None \/ f.model # None) => Pre(f) # {}
      /\ page = "errors" /\ (ef.cont # None \/ ef.model # None) => EBase(ef, "") # {}
      /\ page = "map" /\ Boxes # {} => OfKind(kind) # {}

(* The number on an option, chip, card or row is the length of the list it    *)
(* leads to, as long as no filter is on that the number leaves out.           *)
ChoiceTells == ~due /\ promised # None /\ promised.plain => Cardinality(List) = promised.n

(* The same of every press ("pressing = the number on the button",            *)
(* tools/qa/site_consistency.mjs): it fails where the number leaves out       *)
(* another filter that is on.                                                 *)
PressTells == ~due /\ promised # None => Cardinality(List) = promised.n

(* A choice that was offered is not dropped by the page it leads to.          *)
OfferIsKept ==
    Compute /\ promised # None =>
        /\ page = "asics" => f' = f
        /\ page = "errors" /\ promised.plain => ef' = ef

ChoiceStays == [][OfferIsKept]_vars
=============================================================================
