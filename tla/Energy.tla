-------------------------------- MODULE Energy -------------------------------
(* The power of the site (src/frontend/farm.js, the page "energy", and        *)
(* src/app/services/energy/hourly_import.py, src/app/api/v1/energy.py): what  *)
(* the containers take now, shared out over the transformer substations (KTP) *)
(* their inputs hang on; and the hours of the meters, loaded from the files   *)
(* of the power company and drawn one meter on top of another.                *)
EXTENDS Integers, FiniteSets, Sequences, FiniteSetsExt, SequencesExt

CONSTANTS
    Cont,    \* containers
    Name,    \* the names they may bear
    Inputs,  \* Inputs[x]: the KTP of each input of a container named x (EN_CT)
    Ktp,     \* the KTP of the scheme
    Feeder,  \* Feeder[k]: the feeder of KTP k (EN_FEED)
    Load,    \* what a container may take, divisible among its inputs
    Meter, Hour, Day,
    DayOf,   \* DayOf[h]
    File,    \* files: the hours of each meter they name
    MaxActs, \* changes of the farm and files loaded, in all
    None

VARIABLES
    named, kw,    \* the containers in CROFT: their names and what they take
    scheme,       \* the page "scheme" as painted
    known, hours, \* the meters, and the hours kept of each
    meters, byDay, \* answers of the page "hourly": the meters; hours or days
    graph,        \* its picture
    torn,         \* a file was loaded between the two answers
    acts

vars == <<named, kw, scheme, known, hours, meters, byDay, graph, torn, acts>>

Sum(g, S) == MapThenSumSet(LAMBDA x : g[x], S)

(*------------------------------- the scheme --------------------------------*)
Times(k, q) == Cardinality({i \in DOMAIN q : q[i] = k})

(* enModel: a container gives each KTP as many shares as it has inputs there; *)
(* one whose name says nothing of its inputs is left aside.                   *)
PartByKtp(c, k) ==  \* mutant: a KTP with two inputs gets one share
    LET q == Inputs[named[c]] IN IF k \in Range(q) THEN kw[c] \div Len(q) ELSE 0
Part(c, k) == LET q == Inputs[named[c]] IN
              IF q = <<>> THEN 0 ELSE (kw[c] \div Len(q)) * Times(k, q)
Aside == {c \in Cont : Inputs[named[c]] = <<>>}

(* A name with a KTP the scheme has not got ends the page with an error.      *)
Drawable == \A c \in Cont : \A k \in Range(Inputs[named[c]]) : k \in Ktp

PaintScheme ==
    /\ scheme' = IF ~Drawable THEN None
                 ELSE [ktp   |-> [k \in Ktp |-> Sum([c \in Cont |-> Part(c, k)], Cont)],
                       conts |-> [k \in Ktp |-> {c \in Cont : Times(k, Inputs[named[c]]) > 0}],
                       aside |-> Aside, load |-> kw]
    /\ UNCHANGED <<named, kw, known, hours, meters, byDay, graph, torn, acts>>

OfFeeder(f, s) == Sum(s.ktp, {k \in Ktp : Feeder[k] = f})

(*----------------------------- hours of meters -----------------------------*)
Does == acts < MaxActs /\ acts' = acts + 1

(* The farm changes; a container is renamed in CROFT.                         *)
Changes(c, x, w) ==
    /\ Does /\ named' = [named EXCEPT ![c] = x] /\ kw' = [kw EXCEPT ![c] = w]
    /\ UNCHANGED <<scheme, known, hours, meters, byDay, graph, torn>>

(* import_hourly: meters the file names are added, with or without hours; an  *)
(* hour already there takes the new value.  (One entered by hand would not;   *)
(* nothing in the code enters one.)                                           *)
Import(F) ==
    /\ Does
    /\ known' = known \cup DOMAIN F
    /\ hours' = [m \in Meter |-> IF m \notin DOMAIN F THEN hours[m]
                 ELSE [h \in Hour |-> IF F[m][h] # None THEN F[m][h] ELSE hours[m][h]]]
    /\ torn' = (torn \/ (meters # None /\ graph = None))
    /\ UNCHANGED <<named, kw, scheme, meters, byDay, graph>>

(* energy_hourly: hours with a value, gathered by the hour or by the day.     *)
Key(day, h)   == IF day THEN DayOf[h] ELSE h
Kept(m, day, t) == {h \in Hour : Key(day, h) = t /\ hours[m][h] # None}
Buckets(day)  == {Key(day, h) : h \in {x \in Hour : \E m \in known : hours[m][x] # None}}
Series(day) ==
    [t \in Buckets(day) |->
       LET by == [m \in {m \in known : Kept(m, day, t) # {}} |->
                    Sum(hours[m], Kept(m, day, t))] IN
       [kwh |-> Sum(by, DOMAIN by), by |-> by]]

(* The page asks for the meters and for the series at once; either may be     *)
(* answered first.                                                            *)
Open(day) ==
    /\ meters # None /\ graph # None
    /\ meters' = None /\ graph' = None /\ torn' = FALSE /\ byDay' = day
    /\ UNCHANGED <<named, kw, scheme, known, hours, acts>>

AnswerMeters ==
    /\ meters = None /\ meters' = known
    /\ UNCHANGED <<named, kw, scheme, known, hours, byDay, graph, torn, acts>>

AnswerHourly ==
    /\ graph = None /\ graph' = Series(byDay)
    /\ UNCHANGED <<named, kw, scheme, known, hours, meters, byDay, torn, acts>>

(* The picture stacks the meters of the first answer.                         *)
Stack(t) == Sum(graph[t].by, meters \cap DOMAIN graph[t].by)

(*------------------------------ specification ------------------------------*)
Init ==
    /\ named \in [Cont -> Name] /\ kw \in [Cont -> Load]
    /\ scheme = None /\ known = {} /\ hours = [m \in Meter |-> [h \in Hour |-> None]]
    /\ meters = {} /\ graph = <<>> /\ byDay = TRUE /\ torn = FALSE /\ acts = 0

Next ==
    \/ PaintScheme
    \/ \E c \in Cont, x \in Name, w \in Load : Changes(c, x, w)
    \/ \E F \in File : Import(F)
    \/ \E day \in BOOLEAN : Open(day)
    \/ AnswerMeters \/ AnswerHourly

Spec == Init /\ [][Next]_vars

(* What the constants may be: a load is shared out without a remainder.       *)
Constants ==
    /\ IsFiniteSet(Cont) /\ IsFiniteSet(Ktp) /\ MaxActs \in Nat
    /\ Load \subseteq Nat /\ Inputs \in [Name -> Seq(Nat)]
    /\ \A x \in Name : Inputs[x] # <<>> => \A w \in Load : w % Len(Inputs[x]) = 0
    /\ \A F \in File : DOMAIN F \subseteq Meter

(*-------------------------------- properties -------------------------------*)
TypeOK ==
    /\ named \in [Cont -> Name] /\ kw \in [Cont -> Load] /\ known \subseteq Meter
    /\ meters = None \/ meters \subseteq Meter
    /\ scheme = None \/ DOMAIN scheme.ktp = Ktp
    /\ byDay \in BOOLEAN /\ torn \in BOOLEAN /\ acts \in 0..MaxActs

(* The load of the feeders and of the containers left aside is the load of    *)
(* the farm, to the last kilowatt, whatever the inputs of a container are; a  *)
(* container that hangs on two feeders counts half here and half there.       *)
SharesAddUp ==
    scheme # None =>
        LET feeders == {Feeder[k] : k \in Ktp} IN
        Sum([f \in feeders |-> OfFeeder(f, scheme)], feeders) + Sum(scheme.load, scheme.aside)
        = Sum(scheme.load, Cont)

(* The stack of the meters reaches the figure of the hour or of the day: the  *)
(* two answers the page puts together agree, unless a file was loaded between *)
(* them, with files loaded again and meters that have no hours yet.           *)
StackReachesTotal ==
    meters # None /\ graph # None /\ ~torn =>
        \A t \in DOMAIN graph : Stack(t) = graph[t].kwh
=============================================================================
