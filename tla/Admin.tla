-------------------------------- MODULE Admin --------------------------------
(* The page of the administrators (pageAdmin in src/frontend/farm.js): the    *)
(* people who use the bot, the conversation with one of them, what may be     *)
(* done for him, and messages to several.  What is chosen and typed is kept   *)
(* in ADM; a click changes it and asks for the page again, and the page shows *)
(* it when the answer comes.  The server is as far as the page changes it.    *)
EXTENDS Naturals, Sequences, FiniteSets, SequencesExt

CONSTANTS
    Person,
    Account,   \* those of them with an account
    Text,      \* what may be typed
    Job,       \* changes that may be under way
    MaxCalls,  \* requests for the page that may be
    MaxActs,   \* clicks, texts and messages of people, in all
    None

Constants ==
    /\ IsFiniteSet(Person) /\ Account \subseteq Person
    /\ MaxCalls \in Nat \ {0} /\ MaxActs \in Nat /\ None \notin Person

VARIABLES
    here,    \* S.page = "admin"
    adm,     \* ADM: the person chosen, the boxes checked, drafts and files
    calls,   \* requests for the page, oldest first: whose messages they ask for
    view,    \* the page as painted, and as typed and checked on since
    jobs,
    pro, mgr, unread,  \* the server: who has access, manages, is not answered
    marks,   \* requests to mark messages as read
    acts

server == <<pro, mgr, unread>>
vars == <<here, adm, calls, view, jobs, server, marks, acts>>

NoAdm == [tg |-> None, sel |-> {}, draft |-> None, file |-> FALSE, bdraft |-> None,
          bfile |-> FALSE]
Blank == [what |-> "loading", head |-> None, chat |-> None, old |-> FALSE, n |-> 0, boxes |-> {},
          text |-> None, btext |-> None, pro |-> FALSE, mgr |-> {}, on |-> FALSE, busy |-> {}]

Does == acts < MaxActs /\ acts' = acts + 1

(* The buttons that were pressed are painted over.                            *)
Unseen == [j \in Job |-> IF jobs[j] = None THEN None ELSE [jobs[j] EXCEPT !.seen = FALSE]]

(* go("admin", true) with ADM as it is by then.                               *)
Again(a) ==
    /\ Len(calls) < MaxCalls
    /\ adm' = a /\ here' = TRUE
    /\ calls' = Append(calls, [tg |-> a.tg, old |-> FALSE])

Enter ==
    /\ Does /\ Again(adm) /\ view' = Blank /\ jobs' = Unseen
    /\ UNCHANGED <<server, marks>>

Leave ==
    /\ Does /\ here /\ here' = FALSE /\ view' = Blank /\ jobs' = Unseen
    /\ UNCHANGED <<adm, calls, server, marks>>

(* The minute; not while something is being written.                          *)
Tick ==
    /\ here /\ adm.draft = None /\ adm.bdraft = None /\ ~adm.file /\ ~adm.bfile
    /\ calls = <<>> /\ Again(adm)
    /\ UNCHANGED <<view, jobs, server, marks, acts>>

(*--------------------------------- answers ---------------------------------*)
(* Nobody counts the requests: an answer is painted whenever it comes, with   *)
(* the messages it brings and the person chosen by then.  Without messages    *)
(* for him there is an error; his own are marked as read in either case.      *)
Rest(i) == RemoveAt([k \in DOMAIN calls |->
                       IF k < i THEN [calls[k] EXCEPT !.old = TRUE] ELSE calls[k]], i)
Error == [Blank EXCEPT !.what = "error"]
Paint(c) ==
    IF adm.tg # None /\ c.tg = None THEN Error
    ELSE [what |-> "page", head |-> adm.tg, chat |-> IF adm.tg = None THEN None ELSE c.tg,
          old |-> c.old, n |-> Cardinality(adm.sel), boxes |-> adm.sel, text |-> adm.draft,
          btext |-> adm.bdraft, pro |-> adm.tg \in pro, mgr |-> mgr, on |-> adm.tg \in mgr,
          busy |-> {}]

Answer(i) ==
    /\ calls' = Rest(i)
    /\ IF here THEN view' = Paint(calls[i]) /\ jobs' = Unseen /\ marks' = marks \cup ({adm.tg} \cap unread)
       ELSE UNCHANGED <<view, jobs, marks>>
    /\ UNCHANGED <<here, adm, server, acts>>

Lose(i) ==
    /\ calls' = Rest(i)
    /\ IF here THEN view' = Error /\ jobs' = Unseen ELSE UNCHANGED <<view, jobs>>
    /\ UNCHANGED <<here, adm, server, marks, acts>>

(* Nobody waits for this one: it may fail.                                    *)
MarkRead(p, done) ==
    /\ p \in marks /\ marks' = marks \ {p}
    /\ unread' = IF done THEN unread \ {p} ELSE unread
    /\ UNCHANGED <<here, adm, calls, view, jobs, pro, mgr, acts>>

Writes(p) ==
    /\ Does /\ p \notin unread /\ unread' = unread \cup {p}
    /\ UNCHANGED <<here, adm, calls, view, jobs, pro, mgr, marks>>

(*---------------------------------- clicks ---------------------------------*)
On == here /\ view.what = "page"
Clicks(a) == Does /\ On /\ Again(a) /\ UNCHANGED <<jobs, server, marks>>

ClickRow(p) ==
    /\ Clicks([adm EXCEPT !.tg = IF @ = p THEN None ELSE p, !.draft = None, !.file = FALSE])
    /\ UNCHANGED view
CloseChat == view.head # None /\ Clicks([adm EXCEPT !.tg = None]) /\ UNCHANGED view

(* The browser shows a box as checked at once, the number on the button stays.*)
Check(p) ==
    LET boxes == IF p \in view.boxes THEN view.boxes \ {p} ELSE view.boxes \cup {p} IN
    /\ Clicks([adm EXCEPT !.sel = IF p \in boxes THEN @ \cup {p} ELSE @ \ {p}])
    /\ view' = [view EXCEPT !.boxes = boxes]
SelectAll  == Clicks([adm EXCEPT !.sel = Person]) /\ UNCHANGED view
SelectNone == view.n > 0 /\ Clicks([adm EXCEPT !.sel = {}]) /\ UNCHANGED view

Attach == view.head # None /\ Clicks([adm EXCEPT !.file = ~@]) /\ UNCHANGED view
AttachAll == view.n > 0 /\ Clicks([adm EXCEPT !.bfile = ~@]) /\ UNCHANGED view

Typing(a, v) == Does /\ On /\ adm' = a /\ view' = v /\ UNCHANGED <<here, calls, jobs, server, marks>>
Type(t) == view.head # None /\ Typing([adm EXCEPT !.draft = t], [view EXCEPT !.text = t])
TypeAll(t) == view.n > 0 /\ Typing([adm EXCEPT !.bdraft = t], [view EXCEPT !.btext = t])

(*--------------------------------- changes ---------------------------------*)
(* A button that was pressed is off until its request has failed or the page  *)
(* has been painted again.                                                    *)
Starts(op, to, text, file, v) ==
    /\ Does /\ On
    /\ \E j \in Job :
         /\ jobs[j] = None /\ \A k \in Job : k < j => jobs[k] # None
         /\ jobs' = [jobs EXCEPT ![j] = [op |-> op, to |-> to, text |-> text, file |-> file,
                                         seen |-> TRUE]]
    /\ view' = v /\ UNCHANGED <<here, adm, calls, server, marks>>
Press(op, to, text, file) ==
    op \notin view.busy /\ Starts(op, to, text, file, [view EXCEPT !.busy = @ \cup {op}])

Send ==
    view.head # None /\ (view.text # None \/ adm.file)
    /\ Press("chat", {view.head}, view.text, adm.file)
SendAll ==
    view.n > 0 /\ (view.btext # None \/ adm.bfile)
    /\ Press("all", adm.sel, view.btext, adm.bfile)
Access(op) ==
    /\ view.head \in Account /\ (op = "revoke" => view.pro)
    /\ Press(op, {view.head}, None, FALSE)

(* The whole list is sent, as it was when the page was painted.               *)
Manager ==
    LET ids == IF view.on THEN view.mgr \ {view.head} ELSE view.mgr \cup {view.head} IN
    /\ view.head # None /\ ids # {}
    /\ Starts("mgr", ids, None, FALSE, [view EXCEPT !.on = ~@])

(* What the server does of it: nothing for messages to nobody.                *)
Carried(w) ==
    /\ pro'    = CASE w.op = "grant" -> pro \cup w.to [] w.op = "revoke" -> pro \ w.to [] OTHER -> pro
    /\ mgr'    = IF w.op = "mgr" THEN w.to ELSE mgr
    /\ unread' = IF w.op \in {"chat", "all"} THEN unread \ w.to ELSE unread

Done(j) ==
    LET w == jobs[j] IN
    /\ w # None /\ w.to # {} /\ jobs' = [jobs EXCEPT ![j] = None]
    /\ Carried(w)
    /\ Again(CASE w.op = "chat" -> [adm EXCEPT !.draft = None, !.file = FALSE]
               [] w.op = "all"  -> [adm EXCEPT !.bdraft = None, !.bfile = FALSE, !.sel = {}]
               [] OTHER         -> adm)
    /\ UNCHANGED <<view, marks, acts>>

(* The server may have done it all the same.                                  *)
Failed(j, did) ==
    LET w == jobs[j] IN
    /\ w # None /\ (did => w.to # {}) /\ jobs' = [jobs EXCEPT ![j] = None]
    /\ IF did THEN Carried(w) ELSE UNCHANGED server
    /\ view' = IF w.seen THEN [view EXCEPT !.busy = @ \ {w.op}] ELSE view
    /\ UNCHANGED <<here, adm, calls, marks, acts>>

(*------------------------------ specification ------------------------------*)
(* The panel is opened at "#admin"; until a list is kept the managers are     *)
(* administrators, who have accounts.                                         *)
Init ==
    /\ here = TRUE /\ adm = NoAdm /\ calls = <<[tg |-> None, old |-> FALSE]>> /\ view = Blank /\ jobs = [j \in Job |-> None]
    /\ pro = {} /\ mgr \in (SUBSET Account) \ {{}} /\ unread = {} /\ marks = {} /\ acts = 0

Next ==
    \/ Enter \/ Leave \/ Tick \/ CloseChat \/ SelectAll \/ SelectNone \/ Attach \/ AttachAll
    \/ Send \/ SendAll \/ Manager
    \/ \E i \in DOMAIN calls : Answer(i) \/ Lose(i)
    \/ \E p \in Person : ClickRow(p) \/ Check(p) \/ Writes(p)
    \/ \E p \in Person, done \in BOOLEAN : MarkRead(p, done)
    \/ \E t \in Text : Type(t) \/ TypeAll(t)
    \/ \E op \in {"grant", "revoke"} : Access(op)
    \/ \E j \in Job : Done(j)
    \/ \E j \in Job, did \in BOOLEAN : Failed(j, did)

Spec == Init /\ [][Next]_vars

(*-------------------------------- properties -------------------------------*)
TypeOK ==
    /\ here \in BOOLEAN /\ adm.tg \in Person \cup {None} /\ adm.sel \subseteq Person
    /\ Len(calls) <= MaxCalls /\ view.what \in {"loading", "page", "error"}
    /\ view.head \in Person \cup {None} /\ view.boxes \subseteq Person
    /\ pro \subseteq Account /\ mgr \subseteq Person /\ mgr # {} /\ unread \subseteq Person
    /\ marks \subseteq Person /\ acts \in 0..MaxActs

(* When all is answered the page shows whom a message will go to: the person  *)
(* chosen, the boxes checked with their number on the button, the texts that  *)
(* are kept; and his own messages, unless an older answer came last.          *)
QuietShows ==
    here /\ view.what = "page" /\ calls = <<>> =>
        /\ view.head = adm.tg /\ view.text = adm.draft /\ view.btext = adm.bdraft
        /\ view.boxes = adm.sel /\ view.n = Cardinality(adm.sel)
        /\ ~view.old => view.chat = adm.tg

(* A message, a grant or a withdrawal is about the person whose name is in    *)
(* sight when the button is pressed, though another was clicked on meanwhile; *)
(* and a change of the managers adds or takes away nobody else, of those the  *)
(* page was painted with.                                                     *)
SentIsShown ==
    \A j \in Job : jobs[j] = None /\ jobs'[j] # None =>
        LET w == jobs'[j] IN
        /\ w.op \in {"chat", "grant", "revoke"} => w.to = {view.head}
        /\ w.op = "chat" => w.text = view.text
        /\ w.op = "mgr" => (w.to \ view.mgr) \cup (view.mgr \ w.to) \subseteq {view.head}

PressedIsMeant == [][SentIsShown]_vars
=============================================================================
