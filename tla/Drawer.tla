-------------------------------- MODULE Drawer -------------------------------
(* The pane at the side of the panel (src/frontend/farm.js): the card of a    *)
(* device, of an observer link or of a wallet is asked for and painted when   *)
(* the answer comes.  Answers are not ordered, and a closed pane still takes  *)
(* them.  A card carries a field and buttons that change its own row on the   *)
(* server; cards are reached from the lists, the search and the comparison.   *)
EXTENDS Naturals, FiniteSets

CONSTANTS
    Card, KindOf,  \* KindOf[c]: "device", "pool" or "wallet"
    Text,          \* what a label may say
    Query, Hits,   \* Hits[q]: the devices the search finds for q
    Slot,          \* requests for cards that may be under way
    Job,           \* changes that may be under way
    MaxActs, None, Spin

VARIABLES
    shut,         \* the pane is hidden
    pane,         \* what it shows: nothing, the sign of waiting, a card
    bound,        \* the card its buttons act on
    field, typer, \* the text in the field, and the card it was typed under
    calls, jobs,
    label, gone,  \* the server: labels, rows deleted
    text, wait, runs, box,  \* the search: its text, timer, requests and list
    modal,        \* the devices compared
    acts

search == <<text, wait, runs, box>>
vars == <<shut, pane, bound, field, typer, calls, jobs, label, gone, search, modal, acts>>

Does == acts < MaxActs /\ acts' = acts + 1
Free(f) == {s \in DOMAIN f : f[s] = None}

(* openCard, openPool, openWallet.                                            *)
Ask(c) ==
    /\ Free(calls) # {}
    /\ calls' = [calls EXCEPT ![CHOOSE s \in Free(calls) : TRUE] = c]
    /\ pane' = Spin /\ shut' = FALSE
    /\ UNCHANGED <<bound, field, typer>>

(* A list lies under the pane: it is reached when the pane is closed, but the *)
(* card of a link lists devices of its own.                                   *)
Open(c) ==
    /\ Does /\ modal = {}
    /\ shut \/ (pane \in Card /\ KindOf[pane] = "pool" /\ KindOf[c] = "device")
    /\ Ask(c)
    /\ UNCHANGED <<jobs, label, gone, search, modal>>

Answer(s) ==
    LET c == calls[s] IN
    /\ c # None /\ calls' = [calls EXCEPT ![s] = None]
    /\ IF c \in gone THEN UNCHANGED <<pane, bound, field, typer>>
       ELSE pane' = c /\ bound' = c /\ field' = label[c] /\ typer' = c
    /\ UNCHANGED <<shut, jobs, label, gone, search, modal, acts>>

(* The pane goes on waiting.                                                  *)
Lose(s) ==
    /\ calls[s] # None /\ calls' = [calls EXCEPT ![s] = None]
    /\ UNCHANGED <<shut, pane, bound, field, typer, jobs, label, gone, search, modal, acts>>

Close ==
    /\ ~shut \/ modal # {}
    /\ shut' = TRUE /\ modal' = {}
    /\ UNCHANGED <<pane, bound, field, typer, calls, jobs, label, gone, search, acts>>

(*------------------------------- its own row -------------------------------*)
Own == ~shut /\ pane \in Card /\ KindOf[pane] # "device"

Edit(t) ==
    /\ Does /\ Own /\ field' = t /\ typer' = pane
    /\ UNCHANGED <<shut, pane, bound, calls, jobs, label, gone, search, modal>>

Send(op) ==
    /\ Does /\ Own /\ Free(jobs) # {}
    /\ jobs' = [jobs EXCEPT ![CHOOSE j \in Free(jobs) : TRUE] =
                  [op |-> op, card |-> bound, text |-> field]]
    /\ UNCHANGED <<shut, pane, bound, field, typer, calls, label, gone, search, modal>>

Save   == Send("save")
Remove == Send("delete")

(* A wallet is opened again when it is saved; the pane closes when a row is   *)
(* deleted, whatever it shows by then.                                        *)
Done(j) ==
    LET w == jobs[j] IN
    /\ w # None /\ jobs' = [jobs EXCEPT ![j] = None]
    /\ CASE w.card \in gone ->
              UNCHANGED <<shut, pane, bound, field, typer, calls, label, gone>>
         [] w.card \notin gone /\ w.op = "delete" ->
              /\ gone' = gone \cup {w.card} /\ shut' = TRUE
              /\ UNCHANGED <<pane, bound, field, typer, calls, label>>
         [] OTHER ->
              /\ label' = [label EXCEPT ![w.card] = w.text]
              /\ IF KindOf[w.card] = "wallet" THEN Ask(w.card)
                 ELSE UNCHANGED <<shut, pane, bound, field, typer, calls>>
              /\ UNCHANGED gone
    /\ UNCHANGED <<search, modal, acts>>

(*------------------------- the search, the comparison ----------------------*)
OnlySearch == UNCHANGED <<shut, pane, bound, field, typer, calls, jobs, label, gone, modal>>

Type(q) ==
    /\ Does /\ q # text /\ text' = q /\ wait' = TRUE
    /\ UNCHANGED <<runs, box>> /\ OnlySearch

(* A fifth of a second after the last key; the text of that moment is what is *)
(* looked for when the devices have come.                                     *)
Run ==
    /\ wait /\ wait' = FALSE
    /\ IF text = None THEN box' = None /\ UNCHANGED runs
       ELSE /\ Free(runs) # {} /\ UNCHANGED box
            /\ runs' = [runs EXCEPT ![CHOOSE s \in Free(runs) : TRUE] = text]
    /\ UNCHANGED <<text, acts>> /\ OnlySearch

List(s) ==
    /\ runs[s] # None /\ box' = runs[s] /\ runs' = [runs EXCEPT ![s] = None]
    /\ UNCHANGED <<text, wait, acts>> /\ OnlySearch

Pick(c) ==
    /\ Does /\ box # None /\ c \in Hits[box] /\ box' = None /\ Ask(c)
    /\ UNCHANGED <<jobs, label, gone, text, wait, runs, modal>>

Compare(D) ==
    /\ Does /\ shut /\ modal = {} /\ modal' = D
    /\ UNCHANGED <<shut, pane, bound, field, typer, calls, jobs, label, gone, search>>

FromCompared(c) ==
    /\ Does /\ c \in modal /\ modal' = {} /\ Ask(c)
    /\ UNCHANGED <<jobs, label, gone, search>>

(*------------------------------ specification ------------------------------*)
Devices == {c \in Card : KindOf[c] = "device"}

Init ==
    /\ shut = TRUE /\ pane = None /\ bound = None /\ field = None /\ typer = None
    /\ calls = [s \in Slot |-> None] /\ jobs = [j \in Job |-> None]
    /\ label = [c \in Card |-> None] /\ gone = {}
    /\ text = None /\ wait = FALSE /\ runs = [s \in Slot |-> None] /\ box = None
    /\ modal = {} /\ acts = 0

Next ==
    \/ \E c \in Card : Open(c) \/ Pick(c) \/ FromCompared(c)
    \/ \E s \in Slot : Answer(s) \/ Lose(s) \/ List(s)
    \/ \E t \in Text : Edit(t)
    \/ \E j \in Job : Done(j)
    \/ \E q \in Query \cup {None} : Type(q)
    \/ \E D \in (SUBSET Devices) \ {{}} : Compare(D)
    \/ Save \/ Remove \/ Close \/ Run

Spec == Init /\ [][Next]_vars

Constants == MaxActs \in Nat /\ Spin \notin Card

(*-------------------------------- properties -------------------------------*)
TypeOK ==
    /\ shut \in BOOLEAN /\ pane \in Card \cup {None, Spin} /\ bound \in Card \cup {None}
    /\ calls \in [Slot -> Card \cup {None}] /\ runs \in [Slot -> Query \cup {None}]
    /\ label \in [Card -> Text \cup {None}] /\ gone \subseteq Card
    /\ box \in Query \cup {None} /\ modal \subseteq Devices /\ acts \in 0..MaxActs

(* What a button of the pane sends is about the card in sight, and the text   *)
(* it saves was there or was typed under that very card: not under one that a *)
(* late answer has replaced, and not for one that was asked for since.        *)
SentIsSeen ==
    \A j \in Job : jobs[j] = None /\ jobs'[j] # None =>
        jobs'[j].card = pane /\ typer = pane /\ jobs'[j].text = field

SavesWhatIsSeen == [][SentIsSeen]_vars
=============================================================================
