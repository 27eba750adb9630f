----------------------------- MODULE PagesProofs -----------------------------
(* Theorems about the parts of the panel (Web): each on its own.              *)
EXTENDS Web, Sums, SequenceTheorems, TLAPS

(*---------------------- the administrators' page (A) ----------------------*)
(* The administrators' page.  What is in sight is what is chosen, or a        *)
(* request is under way that will paint it; and the last request made, as     *)
(* long as some request is not older than an answer, is for the person chosen.*)

(* Its sizes are ours. *)
LEMMA ASizes ==
    \A X : A!Cardinality(X) = Cardinality(X) /\ A!IsFiniteSet(X) = IsFiniteSet(X)
BY DEF A!Cardinality, Cardinality, A!IsFiniteSet, IsFiniteSet

Op == {"chat", "all", "grant", "revoke", "mgr"}
AnyText == Text \cup {None}
Someone == Person \cup {None}
Adm  == [tg : Someone, sel : SUBSET Person, draft : AnyText, file : BOOLEAN,
         bdraft : AnyText, bfile : BOOLEAN]
Asking  == [tg : Someone, old : BOOLEAN]
View == [what : {"loading", "page", "error"}, head : Someone, chat : Someone, old : BOOLEAN,
         n : Nat, boxes : SUBSET Person, text : AnyText, btext : AnyText, pro : BOOLEAN,
         mgr : SUBSET Person, on : BOOLEAN, busy : SUBSET Op]
Work == [op : Op, to : SUBSET Person, text : AnyText,
         file : BOOLEAN, seen : BOOLEAN]

(* Access is given to those with an account. *)
Lawful(w) == w.op = "grant" => w.to \subseteq Account

ATyped ==
    /\ here \in BOOLEAN /\ adm \in Adm /\ view \in View /\ acts \in 0..Most["admin"]
    /\ calls \in Seq(Asking) /\ Len(calls) <= MaxCalls
    /\ jobs \in [Job -> Work \cup {None}]
    /\ \A j \in Job : jobs[j] # None => Lawful(jobs[j])
    /\ pro \subseteq Account /\ mgr \subseteq Person /\ mgr # {}
    /\ unread \subseteq Person /\ marks \subseteq Person

(* The fields and boxes in sight are those kept. *)
Seen ==
    /\ view.head = adm.tg /\ view.text = adm.draft /\ view.btext = adm.bdraft
    /\ view.boxes = adm.sel /\ view.n = Cardinality(adm.sel)
    /\ ~view.old => view.chat = adm.tg

AwayIsBlank == ~here => view.what # "page"
SeenOrAsked == view.what = "page" /\ calls = <<>> => Seen
LastIsChosen ==
    (\E k \in 1..Len(calls) : ~calls[k].old) => calls[Len(calls)].tg = adm.tg

AInv == ATyped /\ AwayIsBlank /\ SeenOrAsked /\ LastIsChosen

-----------------------------------------------------------------------------
(* A request leaves the line; those before it are older from then on.         *)
LEMMA RestIs ==
    ASSUME NEW i \in DOMAIN calls, calls \in Seq(Asking)
    PROVE  LET r == A!Rest(i) IN
           /\ r \in Seq(Asking) /\ Len(r) = Len(calls) - 1
           /\ \A k \in 1..Len(r) : IF k < i THEN r[k].old
                                   ELSE r[k] = calls[k + 1]
<1>. DEFINE s == [k \in DOMAIN calls |->
                    IF k < i THEN [calls[k] EXCEPT !.old = TRUE] ELSE calls[k]]
            a == SubSeq(s, 1, i - 1)
            b == SubSeq(s, i + 1, Len(s))
<1>1. DOMAIN calls = 1..Len(calls) /\ Len(calls) \in Nat /\ i \in 1..Len(calls)
  OBVIOUS
<1>2. \A k \in 1..Len(calls) : s[k] \in Asking /\ (k < i => s[k].old) /\ (k >= i => s[k] = calls[k])
  <2>. SUFFICES ASSUME NEW k \in 1..Len(calls)
                PROVE  s[k] \in Asking /\ (k < i => s[k].old) /\ (k >= i => s[k] = calls[k])
    OBVIOUS
  <2>1. calls[k] \in Asking
    OBVIOUS
  <2>2. [calls[k] EXCEPT !.old = TRUE] \in Asking /\ [calls[k] EXCEPT !.old = TRUE].old
    BY <2>1 DEF Asking
  <2>. QED  BY <1>1, <2>1, <2>2
<1>3. s \in Seq(Asking) /\ Len(s) = Len(calls)
  BY <1>1, <1>2
<1>4. A!Rest(i) = a \o b
  BY DEF A!Rest, A!RemoveAt
<1>. HIDE DEF s
<1>5. a \in Seq(Asking) /\ Len(a) = i - 1 /\ \A k \in 1..(i - 1) : a[k] = s[k]
  BY <1>1, <1>3
<1>6. /\ b \in Seq(Asking) /\ Len(b) = Len(calls) - i
      /\ \A k \in 1..(Len(calls) - i) : b[k] = s[i + k]
  BY <1>1, <1>3
<1>. HIDE DEF a, b
<1>7. /\ a \o b \in Seq(Asking) /\ Len(a \o b) = Len(a) + Len(b)
      /\ \A k \in 1..Len(a) + Len(b) : (a \o b)[k] = IF k <= Len(a) THEN a[k] ELSE b[k - Len(a)]
  BY <1>5, <1>6, ConcatProperties, Zenon
<1>8. Len(a \o b) = Len(calls) - 1
  BY <1>1, <1>5, <1>6, <1>7
<1>9. ASSUME NEW k \in 1..Len(calls) - 1, k < i PROVE (a \o b)[k].old
  <2>1. k \in 1..(i - 1) /\ k \in 1..Len(a) + Len(b) /\ k <= Len(a) /\ k \in 1..Len(calls)
    BY <1>1, <1>5, <1>6, <1>9
  <2>2. (a \o b)[k] = a[k]
    BY <1>7, <2>1
  <2>3. a[k] = s[k] /\ s[k].old
    BY <1>2, <1>5, <1>9, <2>1
  <2>. QED  BY <2>2, <2>3
<1>10. ASSUME NEW k \in 1..Len(calls) - 1, ~(k < i) PROVE (a \o b)[k] = calls[k + 1]
  <2>1. /\ k \in 1..Len(a) + Len(b) /\ ~(k <= Len(a)) /\ k - Len(a) \in 1..(Len(calls) - i)
        /\ i + (k - Len(a)) = k + 1 /\ k + 1 \in 1..Len(calls) /\ k + 1 >= i
    BY <1>1, <1>5, <1>6, <1>10
  <2>2. (a \o b)[k] = b[k - Len(a)]
    BY <1>7, <2>1
  <2>3. b[k - Len(a)] = s[i + (k - Len(a))]
    BY <1>6, <2>1
  <2>4. s[k + 1] = calls[k + 1]
    BY <1>2, <2>1
  <2>. QED  BY <2>1, <2>2, <2>3, <2>4
<1>. HIDE DEF A!Rest
<1>11. A!Rest(i) \in Seq(Asking) /\ Len(A!Rest(i)) = Len(calls) - 1
  BY <1>4, <1>7, <1>8
<1>12. \A k \in 1..Len(A!Rest(i)) : IF k < i THEN A!Rest(i)[k].old ELSE A!Rest(i)[k] = calls[k + 1]
  <2>. SUFFICES ASSUME NEW k \in 1..Len(A!Rest(i))
                PROVE  IF k < i THEN A!Rest(i)[k].old ELSE A!Rest(i)[k] = calls[k + 1]
    OBVIOUS
  <2>. QED  BY <1>4, <1>8, <1>9, <1>10
<1>. QED  BY <1>11, <1>12

(* A request for the page is for the person chosen, and is the last one.      *)
LEMMA AgainIs ==
    ASSUME A!Constants, ATyped, NEW a \in Adm, A!Again(a)
    PROVE  /\ here' = TRUE /\ adm' = a /\ calls' # <<>>
           /\ calls' \in Seq(Asking) /\ Len(calls') <= MaxCalls
           /\ LastIsChosen'
<1>. DEFINE c == [tg |-> a.tg, old |-> FALSE]
<1>1. calls \in Seq(Asking) /\ calls' = Append(calls, c) /\ adm' = a /\ here' = TRUE
  BY DEF ATyped, A!Again
<1>2. c \in Asking
  BY DEF Adm, Asking
<1>3. c.tg = a.tg
  OBVIOUS
<1>. HIDE DEF c
<1>4. /\ calls' \in Seq(Asking) /\ Len(calls') = Len(calls) + 1
      /\ calls'[Len(calls')] = c
  BY <1>1, <1>2
<1>5. Len(calls') <= MaxCalls /\ calls' # <<>>
  BY <1>1, <1>4 DEF A!Again, A!Constants
<1>. QED  BY <1>1, <1>3, <1>4, <1>5 DEF LastIsChosen

(* Painting over the buttons changes no request.                              *)
LEMMA UnseenIs ==
    ASSUME ATyped
    PROVE  /\ A!Unseen \in [Job -> Work \cup {None}]
           /\ \A j \in Job : A!Unseen[j] # None => Lawful(A!Unseen[j])
<1>. SUFFICES ASSUME NEW j \in Job
              PROVE  A!Unseen[j] \in Work \cup {None} /\ (A!Unseen[j] # None => Lawful(A!Unseen[j]))
  BY DEF A!Unseen
<1>1. CASE jobs[j] = None
  BY <1>1 DEF A!Unseen
<1>2. CASE jobs[j] # None
  <2>1. jobs[j] \in Work /\ Lawful(jobs[j])
    BY <1>2 DEF ATyped
  <2>2. A!Unseen[j] = [jobs[j] EXCEPT !.seen = FALSE]
    BY <1>2 DEF A!Unseen
  <2>. QED  BY <2>1, <2>2 DEF Work, Lawful
<1>. QED  BY <1>1, <1>2

(* What may be painted. *)
LEMMA PaintsAre ==
    ASSUME A!Constants, ATyped, NEW c \in Asking
    PROVE  /\ A!Blank \in View /\ A!Error \in View /\ A!Paint(c) \in View
           /\ A!Blank.what = "loading" /\ A!Error.what = "error"
<1>1. A!Blank \in View
  BY DEF A!Blank, View, AnyText, Someone
<1>2. A!Error \in View /\ A!Error.what = "error"
  BY <1>1 DEF A!Error, A!Blank, View
<1>3. Cardinality(adm.sel) \in Nat
  <2>1. adm.sel \subseteq Person /\ IsFiniteSet(Person)
    BY ASizes DEF A!Constants, ATyped, Adm
  <2>. QED  BY <2>1, FS_Subset, FS_CardinalityType
<1>4. A!Paint(c) \in View
  <2>1. adm \in Adm /\ mgr \subseteq Person /\ (adm.tg \in pro) \in BOOLEAN
        /\ (adm.tg \in mgr) \in BOOLEAN
    BY DEF ATyped
  <2>2. CASE adm.tg # None /\ c.tg = None
    BY <1>2, <2>2 DEF A!Paint
  <2>3. CASE ~(adm.tg # None /\ c.tg = None)
    <3>. DEFINE inPro == adm.tg \in pro
                inMgr == adm.tg \in mgr
                chat == IF adm.tg = None THEN None ELSE c.tg
    <3>1. inPro \in BOOLEAN /\ inMgr \in BOOLEAN /\ chat \in Someone
      BY DEF Asking, Someone
    <3>2. A!Paint(c) = [what |-> "page", head |-> adm.tg, chat |-> chat,
            old |-> c.old, n |-> Cardinality(adm.sel), boxes |-> adm.sel, text |-> adm.draft,
            btext |-> adm.bdraft, pro |-> inPro, mgr |-> mgr, on |-> inMgr, busy |-> {}]
      BY <2>3, ASizes, Zenon DEF A!Paint
    <3>. HIDE DEF inPro, inMgr, chat
    <3>. QED  BY <1>3, <2>1, <3>1, <3>2 DEF View, Adm, Asking
  <2>. QED  BY <2>2, <2>3
<1>. QED  BY <1>1, <1>2, <1>4 DEF A!Blank

(* The page opens blank, and has been asked for. *)
LEMMA AInit ==
    ASSUME A!Constants, A!Init
    PROVE  AInv
<1>1. adm \in Adm /\ view \in View /\ view.what = "loading"
  BY DEF A!Init, A!NoAdm, A!Blank, Adm, View, Someone, AnyText
<1>2. calls \in Seq(Asking) /\ Len(calls) = 1 /\ calls[1].tg = adm.tg
  BY DEF A!Init, A!NoAdm, Asking, Someone
<1>3. jobs \in [Job -> Work \cup {None}] /\ \A j \in Job : jobs[j] = None
  BY DEF A!Init
<1>4. mgr \subseteq Person /\ mgr # {} /\ pro = {} /\ unread = {} /\ marks = {}
  BY DEF A!Init, A!Constants
<1>5. here = TRUE /\ acts \in 0..Most["admin"] /\ Len(calls) <= MaxCalls
  BY <1>2 DEF A!Init, A!Constants
<1>6. ATyped
  BY <1>1, <1>2, <1>3, <1>4, <1>5 DEF ATyped
<1>. QED  BY <1>1, <1>2, <1>5, <1>6 DEF AInv, AwayIsBlank, SeenOrAsked, LastIsChosen

(* A click that asks for the page. *)
LEMMA ClickKeeps ==
    ASSUME A!Constants, AInv, NEW a \in Adm, A!Clicks(a), view' \in View, view'.what = view.what
    PROVE  AInv'
<1>1. /\ here' = TRUE /\ adm' = a /\ calls' # <<>>
      /\ calls' \in Seq(Asking) /\ Len(calls') <= MaxCalls /\ LastIsChosen'
  BY AgainIs DEF AInv, A!Clicks
<1>2. acts' \in 0..Most["admin"]
  BY DEF AInv, ATyped, A!Clicks, A!Does, A!Constants
<1>3. ATyped'
  BY <1>1, <1>2 DEF AInv, ATyped, A!Clicks, A!server
<1>. QED  BY <1>1, <1>3 DEF AInv, AwayIsBlank, SeenOrAsked

(* A button is pressed: a request with what is in sight. *)
LEMMA StartKeeps ==
    ASSUME A!Constants, AInv, NEW op \in Op,
           NEW to \in SUBSET Person, NEW txt \in AnyText, NEW file \in BOOLEAN, NEW v \in View,
           op = "grant" => to \subseteq Account, Seen => Seen', v.what = view.what,
           A!Starts(op, to, txt, file, v)
    PROVE  AInv'
<1>. DEFINE w == [op |-> op, to |-> to, text |-> txt, file |-> file, seen |-> TRUE]
<1>1. w \in Work /\ Lawful(w)
  BY DEF Work, Lawful
<1>2. PICK k \in Job : jobs' = [jobs EXCEPT ![k] = w]
  BY DEF A!Starts
<1>3. view' = v /\ acts' \in 0..Most["admin"]
      /\ UNCHANGED <<here, adm, calls, pro, mgr, unread, marks>>
  BY DEF AInv, ATyped, A!Starts, A!Does, A!server, A!Constants
<1>. HIDE DEF w
<1>4. jobs' \in [Job -> Work \cup {None}] /\ \A j \in Job : jobs'[j] # None => Lawful(jobs'[j])
  BY <1>1, <1>2 DEF AInv, ATyped
<1>5. ATyped'
  BY <1>3, <1>4 DEF AInv, ATyped
<1>. QED  BY <1>3, <1>5 DEF AInv, AwayIsBlank, SeenOrAsked, LastIsChosen

(* What the server does of a request leaves it somebody to manage the bot. *)
LEMMA CarriedKeeps ==
    ASSUME A!Constants, ATyped, NEW w \in Work, Lawful(w), w.to # {}, A!Carried(w)
    PROVE  pro' \subseteq Account /\ mgr' \subseteq Person /\ mgr' # {} /\ unread' \subseteq Person
<1>1. pro' \subseteq Account
  BY DEF A!Carried, ATyped, Work, Lawful
<1>2. mgr' \subseteq Person /\ mgr' # {}
  BY DEF A!Carried, ATyped, Work
<1>3. unread' \subseteq Person
  BY DEF A!Carried, ATyped, Work
<1>. QED  BY <1>1, <1>2, <1>3

(* An answer is painted, or a failure: the last request keeps its place, and  *)
(* when it is the one that is painted, it is for the person chosen.           *)
LEMMA AnswerKeeps ==
    ASSUME A!Constants, AInv, NEW i \in DOMAIN calls, A!Answer(i) \/ A!Lose(i)
    PROVE  AInv'
<1>1. /\ calls \in Seq(Asking) /\ Len(calls) \in Nat /\ i \in 1..Len(calls) /\ calls[i] \in Asking
      /\ adm \in Adm /\ view \in View /\ here \in BOOLEAN /\ Len(calls) <= MaxCalls
  BY DEF AInv, ATyped
<1>2. /\ calls' \in Seq(Asking) /\ Len(calls') = Len(calls) - 1
      /\ \A k \in 1..Len(calls') : IF k < i THEN calls'[k].old ELSE calls'[k] = calls[k + 1]
  BY RestIs, <1>1 DEF A!Answer, A!Lose
<1>3. UNCHANGED <<here, adm, pro, mgr, unread, acts>>
  BY DEF A!Answer, A!Lose, A!server
<1>4. jobs' \in [Job -> Work \cup {None}] /\ \A j \in Job : jobs'[j] # None => Lawful(jobs'[j])
  <2>1. jobs' = jobs \/ jobs' = A!Unseen
    BY DEF A!Answer, A!Lose
  <2>2. CASE jobs' = jobs
    BY <2>2 DEF AInv, ATyped
  <2>3. CASE jobs' = A!Unseen
    BY <2>3, UnseenIs DEF AInv
  <2>. QED  BY <2>1, <2>2, <2>3
<1>5. view' \in View
  BY <1>1, PaintsAre DEF AInv, A!Answer, A!Lose
<1>6. marks' \subseteq Person
  BY DEF A!Answer, A!Lose, AInv, ATyped
<1>7. ATyped'
  BY <1>1, <1>2, <1>3, <1>4, <1>5, <1>6 DEF AInv, ATyped, A!Constants
<1>8. AwayIsBlank'
  BY <1>3 DEF AInv, AwayIsBlank, A!Answer, A!Lose
<1>9. LastIsChosen'
  <2>. SUFFICES ASSUME NEW k \in 1..Len(calls'), ~calls'[k].old
                PROVE  calls'[Len(calls')].tg = adm.tg
    BY <1>3 DEF LastIsChosen
  <2>1. ~(k < i) /\ calls'[k] = calls[k + 1] /\ k + 1 \in 1..Len(calls)
    BY <1>1, <1>2
  <2>2. calls[Len(calls)].tg = adm.tg
    BY <2>1 DEF AInv, LastIsChosen
  <2>3. Len(calls') \in 1..Len(calls') /\ ~(Len(calls') < i) /\ Len(calls') + 1 = Len(calls)
    BY <1>1, <1>2, <2>1
  <2>. QED  BY <1>2, <2>2, <2>3
<1>10. SeenOrAsked'
  <2>. SUFFICES ASSUME view'.what = "page", calls' = <<>>  PROVE Seen'
    BY DEF SeenOrAsked
  <2>1. Len(calls) = 1 /\ i = 1
    BY <1>1, <1>2
  <2>2. here
    BY <1>3, <1>8 DEF AwayIsBlank
  <2>3. A!Answer(i) /\ view' = A!Paint(calls[i])
    BY <2>2, PaintsAre, <1>1 DEF A!Answer, A!Lose, AInv
  <2>4. ~(adm.tg # None /\ calls[i].tg = None)
    BY <2>3, PaintsAre, <1>1 DEF A!Paint, AInv
  <2>5. /\ view'.head = adm.tg /\ view'.text = adm.draft /\ view'.btext = adm.bdraft
        /\ view'.boxes = adm.sel /\ view'.n = Cardinality(adm.sel) /\ view'.old = calls[i].old
        /\ view'.chat = IF adm.tg = None THEN None ELSE calls[i].tg
    BY <2>3, <2>4, ASizes DEF A!Paint
  <2>6. ~calls[i].old => calls[i].tg = adm.tg
    BY <2>1 DEF AInv, LastIsChosen
  <2>. QED  BY <1>3, <2>5, <2>6 DEF Seen
<1>. QED  BY <1>7, <1>8, <1>9, <1>10 DEF AInv

(* Every step keeps it. *)
LEMMA AStep ==
    ASSUME A!Constants, AInv, [A!Next]_(A!vars)
    PROVE  AInv'
<1>. USE DEF A!server
<1>1. adm \in Adm /\ view \in View /\ ATyped
  BY DEF AInv, ATyped
<1>2. CASE A!Enter
  <2>1. A!Does /\ A!Again(adm) /\ view' = A!Blank /\ jobs' = A!Unseen
        /\ UNCHANGED <<pro, mgr, unread, marks>>
    BY <1>2 DEF A!Enter
  <2>2. acts' \in 0..Most["admin"]
    BY <1>1, <2>1 DEF A!Does, A!Constants, ATyped
  <2>3. view' \in View /\ view'.what = "loading"
    BY <1>1, <2>1 DEF A!Blank, View, Someone, AnyText
  <2>4. ATyped'
    BY <1>1, <2>1, <2>2, <2>3, AgainIs, UnseenIs DEF ATyped
  <2>. QED  BY <1>1, <2>1, <2>3, <2>4, AgainIs DEF AInv, AwayIsBlank, SeenOrAsked
<1>3. CASE A!Leave
  <2>1. A!Does /\ here' = FALSE /\ view' = A!Blank /\ jobs' = A!Unseen
        /\ UNCHANGED <<adm, calls, pro, mgr, unread, marks>>
    BY <1>3 DEF A!Leave
  <2>2. acts' \in 0..Most["admin"]
    BY <1>1, <2>1 DEF A!Does, A!Constants, ATyped
  <2>3. view' \in View /\ view'.what = "loading"
    BY <1>1, <2>1 DEF A!Blank, View, Someone, AnyText
  <2>4. ATyped'
    BY <1>1, <2>1, <2>2, <2>3, UnseenIs DEF ATyped
  <2>. QED  BY <2>1, <2>3, <2>4 DEF AInv, AwayIsBlank, SeenOrAsked, LastIsChosen
<1>4. CASE A!Tick
  <2>1. A!Again(adm) /\ UNCHANGED <<view, jobs, pro, mgr, unread, marks, acts>>
    BY <1>4 DEF A!Tick
  <2>2. ATyped'
    BY <1>1, <2>1, AgainIs DEF ATyped
  <2>. QED  BY <1>1, <2>1, <2>2, AgainIs DEF AInv, AwayIsBlank, SeenOrAsked
<1>5. ASSUME NEW i \in DOMAIN calls, A!Answer(i) \/ A!Lose(i) PROVE AInv'
  BY <1>5, AnswerKeeps
<1>6. ASSUME NEW p \in Person, A!Writes(p) PROVE AInv'
  <2>1. ATyped'
    BY <1>1, <1>6 DEF A!Writes, A!Does, A!Constants, ATyped
  <2>. QED  BY <1>6, <2>1 DEF AInv, AwayIsBlank, SeenOrAsked, LastIsChosen, Seen, A!Writes
<1>7. ASSUME NEW p \in Person, NEW done \in BOOLEAN, A!MarkRead(p, done) PROVE AInv'
  <2>1. ATyped'
    BY <1>1, <1>7 DEF A!MarkRead, ATyped
  <2>. QED  BY <1>7, <2>1 DEF AInv, AwayIsBlank, SeenOrAsked, LastIsChosen, Seen, A!MarkRead
<1>8. ASSUME NEW a \in Adm, A!Clicks(a), UNCHANGED view PROVE AInv'
  BY <1>1, <1>8, ClickKeeps
<1>9. ASSUME NEW p \in Person, A!ClickRow(p) PROVE AInv'
  <2>. DEFINE a == [adm EXCEPT !.tg = IF @ = p THEN None ELSE p, !.draft = None, !.file = FALSE]
  <2>1. a \in Adm
    BY <1>1 DEF Adm, Someone, AnyText
  <2>2. A!Clicks(a) /\ UNCHANGED view
    BY <1>9 DEF A!ClickRow
  <2>. HIDE DEF a
  <2>. QED  BY <1>8, <2>1, <2>2
<1>10. CASE A!CloseChat \/ A!SelectAll \/ A!SelectNone \/ A!Attach \/ A!AttachAll
  <2>1. /\ [adm EXCEPT !.tg = None] \in Adm /\ [adm EXCEPT !.sel = Person] \in Adm
        /\ [adm EXCEPT !.sel = {}] \in Adm /\ [adm EXCEPT !.file = ~@] \in Adm
        /\ [adm EXCEPT !.bfile = ~@] \in Adm
    BY <1>1 DEF Adm, Someone
  <2>2. \E a \in Adm : A!Clicks(a) /\ UNCHANGED view
    BY <1>10, <2>1 DEF A!CloseChat, A!SelectAll, A!SelectNone, A!Attach, A!AttachAll
  <2>. QED  BY <1>8, <2>2
<1>11. ASSUME NEW p \in Person, A!Check(p) PROVE AInv'
  <2>1. PICK b \in SUBSET Person, c \in SUBSET Person :
          A!Clicks([adm EXCEPT !.sel = c]) /\ view' = [view EXCEPT !.boxes = b]
    <3>. DEFINE boxes == IF p \in view.boxes THEN view.boxes \ {p} ELSE view.boxes \cup {p}
                picked   == IF p \in boxes THEN adm.sel \cup {p} ELSE adm.sel \ {p}
    <3>1. boxes \in SUBSET Person /\ picked \in SUBSET Person
      BY <1>1 DEF View, Adm
    <3>2. A!Clicks([adm EXCEPT !.sel = picked]) /\ view' = [view EXCEPT !.boxes = boxes]
      BY <1>11 DEF A!Check
    <3>. HIDE DEF boxes, picked
    <3>. QED  BY <3>1, <3>2
  <2>2. [adm EXCEPT !.sel = c] \in Adm
    BY <1>1 DEF Adm
  <2>3. [view EXCEPT !.boxes = b] \in View /\ [view EXCEPT !.boxes = b].what = view.what
    BY <1>1 DEF View
  <2>. QED  BY <2>1, <2>2, <2>3, ClickKeeps
<1>12. ASSUME NEW t \in Text, A!Type(t) \/ A!TypeAll(t) PROVE AInv'
  <2>1. /\ [adm EXCEPT !.draft = t] \in Adm /\ [adm EXCEPT !.bdraft = t] \in Adm
        /\ [view EXCEPT !.text = t] \in View /\ [view EXCEPT !.btext = t] \in View
    BY <1>1 DEF Adm, View, AnyText
  <2>2. acts' \in 0..Most["admin"] /\ UNCHANGED <<here, calls, jobs, pro, mgr, unread, marks>>
    BY <1>1, <1>12 DEF A!Type, A!TypeAll, A!Typing, A!Does, A!Constants, ATyped
  <2>3. ATyped'
    BY <1>1, <1>12, <2>1, <2>2 DEF A!Type, A!TypeAll, A!Typing, ATyped
  <2>4. view'.what = view.what /\ adm'.tg = adm.tg /\ (Seen => Seen')
    BY <1>1, <1>12 DEF A!Type, A!TypeAll, A!Typing, Seen, Adm, View
  <2>. QED  BY <2>2, <2>3, <2>4 DEF AInv, AwayIsBlank, SeenOrAsked, LastIsChosen
<1>13. ASSUME NEW op \in {"chat", "all", "grant", "revoke"}, NEW to \in SUBSET Person,
              NEW txt \in AnyText, NEW file \in BOOLEAN, op = "grant" => to \subseteq Account,
              A!Press(op, to, txt, file)
       PROVE  AInv'
  <2>. DEFINE v == [view EXCEPT !.busy = @ \cup {op}]
  <2>1. v \in View /\ v.what = view.what
    BY <1>1 DEF View, Op
  <2>2. A!Starts(op, to, txt, file, v)
    BY <1>13 DEF A!Press
  <2>3. Seen => Seen'
    BY <1>1, <2>2 DEF A!Starts, Seen, View
  <2>. HIDE DEF v
  <2>. QED  BY <1>13, <2>1, <2>2, <2>3, StartKeeps DEF Op
<1>14. CASE A!Send
  <2>1. A!Press("chat", {view.head}, view.text, adm.file) /\ {view.head} \in SUBSET Person
        /\ view.text \in AnyText /\ adm.file \in BOOLEAN
    BY <1>1, <1>14 DEF A!Send, View, Adm, Someone
  <2>. QED  BY <1>13, <2>1
<1>15. CASE A!SendAll
  <2>1. A!Press("all", adm.sel, view.btext, adm.bfile) /\ adm.sel \in SUBSET Person
        /\ view.btext \in AnyText /\ adm.bfile \in BOOLEAN
    BY <1>1, <1>15 DEF A!SendAll, View, Adm
  <2>. QED  BY <1>13, <2>1
<1>16. ASSUME NEW op \in {"grant", "revoke"}, A!Access(op) PROVE AInv'
  <2>1. A!Press(op, {view.head}, None, FALSE) /\ {view.head} \in SUBSET Person
        /\ {view.head} \subseteq Account /\ None \in AnyText
    BY <1>16 DEF A!Access, A!Constants, AnyText
  <2>. QED  BY <1>13, <2>1
<1>17. CASE A!Manager
  <2>. DEFINE ids == IF view.on THEN view.mgr \ {view.head} ELSE view.mgr \cup {view.head}
              v   == [view EXCEPT !.on = ~@]
  <2>1. ids \in SUBSET Person
    BY <1>1, <1>17 DEF A!Manager, View, Someone
  <2>2. v \in View /\ v.what = view.what
    <3>1. view.on \in BOOLEAN
      BY <1>1 DEF View
    <3>2. PICK b \in BOOLEAN : v = [view EXCEPT !.on = b]
      BY <3>1, Zenon
    <3>. HIDE DEF v
    <3>3. [view EXCEPT !.on = b] \in View
      BY <1>1 DEF View
    <3>4. [view EXCEPT !.on = b].what = view.what
      BY <1>1 DEF View
    <3>. QED  BY <3>2, <3>3, <3>4
  <2>3. A!Starts("mgr", ids, None, FALSE, v) /\ None \in AnyText
    BY <1>17 DEF A!Manager, AnyText
  <2>4. Seen => Seen'
    BY <1>1, <2>3 DEF A!Starts, Seen, View
  <2>. HIDE DEF ids, v
  <2>. QED  BY <2>1, <2>2, <2>3, <2>4, StartKeeps DEF Op
<1>18. ASSUME NEW j \in Job, A!Done(j) PROVE AInv'
  <2>1. PICK a \in Adm : A!Again(a)
    <3>1. /\ [adm EXCEPT !.draft = None, !.file = FALSE] \in Adm
          /\ [adm EXCEPT !.bdraft = None, !.bfile = FALSE, !.sel = {}] \in Adm
      BY <1>1 DEF Adm, AnyText
    <3>. QED  BY <1>1, <1>18, <3>1 DEF A!Done
  <2>2. jobs[j] \in Work /\ Lawful(jobs[j])
    BY <1>1, <1>18 DEF A!Done, ATyped
  <2>3. pro' \subseteq Account /\ mgr' \subseteq Person /\ mgr' # {} /\ unread' \subseteq Person
    BY <1>1, <1>18, <2>2, CarriedKeeps DEF A!Done
  <2>4. jobs' = [jobs EXCEPT ![j] = None] /\ UNCHANGED <<view, marks, acts>>
    BY <1>18 DEF A!Done
  <2>5. ATyped'
    BY <1>1, <2>1, <2>3, <2>4, AgainIs DEF ATyped
  <2>. QED  BY <1>1, <2>1, <2>4, <2>5, AgainIs DEF AInv, AwayIsBlank, SeenOrAsked
<1>19. ASSUME NEW j \in Job, NEW did \in BOOLEAN, A!Failed(j, did) PROVE AInv'
  <2>1. jobs[j] \in Work /\ Lawful(jobs[j])
    BY <1>1, <1>19 DEF A!Failed, ATyped
  <2>2. pro' \subseteq Account /\ mgr' \subseteq Person /\ mgr' # {} /\ unread' \subseteq Person
    BY <1>1, <1>19, <2>1, CarriedKeeps DEF A!Failed, ATyped
  <2>3. jobs' = [jobs EXCEPT ![j] = None] /\ UNCHANGED <<here, adm, calls, marks, acts>>
        /\ view' \in {view, [view EXCEPT !.busy = @ \ {jobs[j].op}]}
    BY <1>19 DEF A!Failed
  <2>4. view' \in View /\ view'.what = view.what
    BY <1>1, <2>3 DEF View
  <2>5. Seen => Seen'
    BY <1>1, <2>3 DEF Seen, View
  <2>6. ATyped'
    BY <1>1, <2>2, <2>3, <2>4 DEF ATyped
  <2>. QED  BY <2>3, <2>4, <2>5, <2>6 DEF AInv, AwayIsBlank, SeenOrAsked, LastIsChosen
<1>20. CASE UNCHANGED A!vars
  <2>1. UNCHANGED <<here, adm, calls, view, jobs, pro, mgr, unread, marks, acts>>
    BY <1>20 DEF A!vars
  <2>2. ATyped'
    BY <1>1, <2>1 DEF ATyped
  <2>. QED  BY <2>1, <2>2 DEF AInv, AwayIsBlank, SeenOrAsked, LastIsChosen, Seen
<1>. QED
  BY <1>2, <1>3, <1>4, <1>5, <1>6, <1>7, <1>9, <1>10, <1>11, <1>12, <1>14, <1>15, <1>16, <1>17,
     <1>18, <1>19, <1>20 DEF A!Next

(* The administrators' page keeps its types, whatever is lost or late, and    *)
(* somebody always manages the bot.                                           *)
THEOREM AdminTyped ==
    ASSUME A!Constants
    PROVE  A!Spec => []A!TypeOK
<1>1. AInv => A!TypeOK
  BY DEF AInv, ATyped, A!TypeOK, Adm, View, Someone
<1>. QED  BY <1>1, AInit, AStep, PTL DEF A!Spec

(* Once all is answered, the administrators' page shows whom a message will   *)
(* go to and what is kept to be sent, in whatever order the answers came and  *)
(* whatever was clicked, typed or left meanwhile (QuietShows).                *)
THEOREM AdminShowsChosen ==
    ASSUME A!Constants
    PROVE  A!Spec => []A!QuietShows
<1>1. AInv => A!QuietShows
  BY ASizes DEF AInv, SeenOrAsked, Seen, A!QuietShows
<1>. QED  BY <1>1, AInit, AStep, PTL DEF A!Spec

(* Every button that sends does so for the person, with the text in sight. *)
LEMMA ASends ==
    ASSUME AInv, A!Next
    PROVE  A!SentIsShown
<1>. SUFFICES ASSUME NEW j \in Job, jobs[j] = None, jobs'[j] # None
              PROVE  LET w == jobs'[j] IN
                     /\ w.op \in {"chat", "grant", "revoke"} => w.to = {view.head}
                     /\ w.op = "chat" => w.text = view.text
                     /\ w.op = "mgr" => (w.to \ view.mgr) \cup (view.mgr \ w.to) \subseteq {view.head}
  BY DEF A!SentIsShown
<1>1. jobs \in [Job -> Work \cup {None}]
  BY DEF AInv, ATyped
<1>2. ASSUME NEW op, NEW to, NEW txt, NEW file, NEW v, A!Starts(op, to, txt, file, v)
      PROVE  jobs'[j] = [op |-> op, to |-> to, text |-> txt, file |-> file, seen |-> TRUE]
  BY <1>1, <1>2 DEF A!Starts
<1>3. CASE A!Send
  <2>1. jobs'[j] = [op |-> "chat", to |-> {view.head}, text |-> view.text, file |-> adm.file,
                    seen |-> TRUE]
    BY <1>2, <1>3 DEF A!Send, A!Press
  <2>. QED  BY <2>1
<1>4. CASE A!SendAll
  <2>1. jobs'[j] = [op |-> "all", to |-> adm.sel, text |-> view.btext, file |-> adm.bfile,
                    seen |-> TRUE]
    BY <1>2, <1>4 DEF A!SendAll, A!Press
  <2>. QED  BY <2>1
<1>5. ASSUME NEW op \in {"grant", "revoke"}, A!Access(op)
      PROVE  jobs'[j].op = op /\ jobs'[j].to = {view.head}
  <2>1. jobs'[j] = [op |-> op, to |-> {view.head}, text |-> None, file |-> FALSE, seen |-> TRUE]
    BY <1>2, <1>5 DEF A!Access, A!Press
  <2>. QED  BY <2>1
<1>6. CASE A!Manager
  <2>. DEFINE ids == IF view.on THEN view.mgr \ {view.head} ELSE view.mgr \cup {view.head}
  <2>1. jobs'[j] = [op |-> "mgr", to |-> ids, text |-> None, file |-> FALSE, seen |-> TRUE]
    BY <1>2, <1>6 DEF A!Manager
  <2>2. (ids \ view.mgr) \cup (view.mgr \ ids) \subseteq {view.head}
    OBVIOUS
  <2>. HIDE DEF ids
  <2>. QED  BY <2>1, <2>2
<1>7. CASE ~(A!Send \/ A!SendAll \/ A!Manager \/ \E op \in {"grant", "revoke"} : A!Access(op))
  <2>1. jobs' = jobs \/ jobs' = A!Unseen \/ \E i \in Job : jobs' = [jobs EXCEPT ![i] = None]
    BY <1>7 DEF A!Next, A!Enter, A!Leave, A!Tick, A!CloseChat, A!SelectAll, A!SelectNone,
       A!Attach, A!AttachAll, A!Clicks, A!Answer, A!Lose, A!ClickRow, A!Check, A!Writes,
       A!MarkRead, A!Type, A!TypeAll, A!Typing, A!Done, A!Failed
  <2>2. A!Unseen[j] = None
    BY DEF A!Unseen
  <2>. QED  BY <1>1, <2>1, <2>2
<1>. QED  BY <1>3, <1>4, <1>5, <1>6, <1>7

(* What a click sends is about the person in sight: the text in sight goes to *)
(* him, the access is his, and no other manager comes or goes (PressedIsMeant).*)
THEOREM AdminSendsShown ==
    ASSUME A!Constants
    PROVE  A!Spec => A!PressedIsMeant
<1>1. AInv /\ [A!Next]_(A!vars) => [A!SentIsShown]_(A!vars)
  BY ASends
<1>. QED  BY <1>1, AInit, AStep, PTL DEF A!Spec, A!PressedIsMeant

(*---------------------- the page of the pools (O) ----------------------*)
(* The page of the pools.  With no request under way the page shows what is   *)
(* painted for the filters of the moment: they change only with a request.    *)

(* Its sizes are ours. *)
LEMMA OSizes ==
    \A X : O!Cardinality(X) = Cardinality(X) /\ O!IsFiniteSet(X) = IsFiniteSet(X)
BY DEF O!Cardinality, Cardinality, O!IsFiniteSet, IsFiniteSet

PoolCall   == [coin : O!Coins \cup {""}, from : Int, to : Int]
Filter == [from : Int, to : Int, coin : O!Coins \cup {""}, pool : O!Pls \cup {""},
           q : BOOLEAN, empty : BOOLEAN]

OTyped ==
    /\ pf \in Filter /\ today \in (Today - 1)..Today /\ calls \in [Slot -> PoolCall \cup {None}]
    /\ view.items \subseteq Acc /\ typed \in BOOLEAN /\ acts \in 0..Most["pools"]

(* A chart has a first and a last day; a card, the days of the page. *)
Periods ==
    /\ chart # None => chart \in Int \X Int /\ chart[1] <= chart[2]
    /\ card # None => card.now \in Int \X Int /\ card.before = O!Before(card.now)

NoCalls == \A s \in Slot : calls[s] = None
PaintedNow == NoCalls => view = O!Paint(view.of, pf)

(* What was promised is the length of the list the filters will give, and     *)
(* nothing else is asked for.                                                 *)
PromiseStands ==
    promised # None =>
        /\ promised = Cardinality(O!Paint(O!Asked(pf), pf).items)
        /\ \A s \in Slot : calls[s] \in {None, O!Asked(pf)}
        /\ NoCalls => view.of = O!Asked(pf)

OInv == OTyped /\ Periods /\ PaintedNow /\ PromiseStands

(* The first of a month is not after its days. *)
LEMMA FirstBefore ==
    ASSUME O!Constants, NEW d \in DOMAIN MonthOf
    PROVE  d \in Int /\ O!FirstOf(d) \in Int /\ O!FirstOf(d) <= d
<1>1. d \in Int
  BY DEF O!Constants
<1>2. \E x \in (d - 31)..d : O!Begins(x, d)
  BY DEF O!Constants
<1>3. O!FirstOf(d) \in (d - 31)..d
  BY <1>2 DEF O!FirstOf
<1>. QED  BY <1>1, <1>3

(* A ready period begins before it ends, the last month among them. *)
LEMMA PresetsRun ==
    ASSUME O!Constants, today \in (Today - 1)..Today, NEW k \in DOMAIN O!Presets(today)
    PROVE  O!Presets(today)[k] \in Int \X Int /\ O!Presets(today)[k][1] <= O!Presets(today)[k][2]
<1>0. Today \in Int
  BY DEF O!Constants
<1>1. today \in {Today - 1, Today}
  BY <1>0
<1>2. today \in DOMAIN MonthOf /\ O!FirstOf(today) - 1 \in DOMAIN MonthOf /\ WeekDay[today] \in 0..6
  BY <1>1 DEF O!Constants
<1>3. /\ today \in Int /\ O!FirstOf(today) \in Int /\ O!FirstOf(today) <= today
      /\ O!FirstOf(O!FirstOf(today) - 1) \in Int
      /\ O!FirstOf(O!FirstOf(today) - 1) <= O!FirstOf(today) - 1
  BY <1>2, FirstBefore
<1>4. k \in {"today", "yesterday", "week", "month", "last"}
  BY DEF O!Presets
<1>5. CASE k = "today"
  BY <1>3, <1>5 DEF O!Presets
<1>6. CASE k = "yesterday"
  BY <1>3, <1>6 DEF O!Presets
<1>7. CASE k = "week"
  BY <1>2, <1>3, <1>7 DEF O!Presets
<1>8. CASE k = "month"
  BY <1>3, <1>8 DEF O!Presets
<1>9. CASE k = "last"
  BY <1>3, <1>9 DEF O!Presets
<1>. QED  BY <1>4, <1>5, <1>6, <1>7, <1>8, <1>9

(* What is asked for is a request; what is painted are links. *)
LEMMA AskedPainted ==
    ASSUME O!Constants
    PROVE  /\ \A x \in Filter : O!Asked(x) \in PoolCall
           /\ \A c, x : O!Paint(c, x).items \subseteq Acc /\ O!Paint(c, x).of = c
<1>1. \A x \in Filter : O!Asked(x) \in PoolCall
  BY DEF O!Asked, Filter, PoolCall
<1>2. \A c, x : O!Paint(c, x).items \subseteq Acc /\ O!Paint(c, x).of = c
  BY DEF O!Paint, O!Live, O!Matching, O!Answered
<1>. QED  BY <1>1, <1>2

(* A change of the filters is asked for. *)
LEMMA AskIs ==
    ASSUME O!Constants, OTyped, NEW x \in Filter, O!Ask(x)
    PROVE  /\ pf' = x /\ calls' \in [Slot -> PoolCall \cup {None}] /\ ~NoCalls'
           /\ \E s \in Slot : calls' = [calls EXCEPT ![s] = O!Asked(x)]
<1>1. PICK s \in Slot : pf' = x /\ calls' = [calls EXCEPT ![s] = O!Asked(x)]
  BY DEF O!Ask
<1>2. O!Asked(x) \in PoolCall /\ O!Asked(x) # None
  BY AskedPainted DEF O!Constants, PoolCall
<1>3. calls \in [Slot -> PoolCall \cup {None}]
  BY DEF OTyped
<1>4. calls' \in [Slot -> PoolCall \cup {None}] /\ calls'[s] = O!Asked(x)
  BY <1>1, <1>2, <1>3
<1>. QED  BY <1>1, <1>2, <1>4 DEF NoCalls

(* A change of a filter keeps it all, and promises nothing. *)
LEMMA ChangeKeeps ==
    ASSUME O!Constants, OInv, NEW x \in Filter, O!Change(x)
    PROVE  OInv'
<1>1. O!Does /\ O!Ask(x) /\ promised' = None /\ UNCHANGED <<today, view, typed, card, chart>>
  BY DEF O!Change
<1>2. acts' \in 0..Most["pools"]
  <2>1. Most["pools"] \in Nat
    BY DEF O!Constants
  <2>. QED  BY <1>1, <2>1 DEF O!Does, OInv, OTyped
<1>3. pf' = x /\ calls' \in [Slot -> PoolCall \cup {None}] /\ ~NoCalls'
  BY <1>1, AskIs DEF OInv
<1>4. OTyped'
  BY <1>1, <1>2, <1>3 DEF OInv, OTyped
<1>. QED  BY <1>1, <1>3, <1>4 DEF OInv, Periods, PaintedNow, PromiseStands

(* The page opens as painted. *)
LEMMA OInit ==
    ASSUME O!Constants, O!Init
    PROVE  OInv
<1>1. Today \in Int /\ Most["pools"] \in Nat
  BY DEF O!Constants
<1>2. today = Today - 1 /\ acts = 0 /\ calls = [s \in Slot |-> None]
  BY DEF O!Init
<1>3. /\ calls \in [Slot -> PoolCall \cup {None}] /\ today \in (Today - 1)..Today
      /\ today \in Int /\ acts \in 0..Most["pools"]
  BY <1>1, <1>2
<1>6. pf \in Filter
  <2>1. today - 6 \in Int
    BY <1>3
  <2>2. PICK d \in Int : pf = [from |-> d, to |-> today, coin |-> "", pool |-> "", q |-> FALSE,
                               empty |-> FALSE]
    BY <2>1, Zenon DEF O!Init
  <2>. QED  BY <1>3, <2>2, Zenon DEF Filter
<1>4. view = O!Paint(O!Asked(pf), pf) /\ promised = None /\ chart = None /\ card = None
      /\ typed = FALSE
  BY DEF O!Init
<1>5. view.items \subseteq Acc /\ view.of = O!Asked(pf)
  BY <1>4, AskedPainted
<1>. QED  BY <1>3, <1>4, <1>5, <1>6 DEF OInv, OTyped, Periods, PaintedNow, PromiseStands

(* The box: what it hides and what it shows add up to what matches. *)
LEMMA BoxAddsUp ==
    ASSUME O!Constants, NEW c, NEW x \in Filter, NEW y \in Filter,
           y = [x EXCEPT !.empty = ~@]
    PROVE  LET p == O!Paint(c, x) IN
           Cardinality(O!Paint(c, y).items)
               = Cardinality(p.items) + (IF p.empty THEN -p.hidden ELSE p.hidden)
<1>. DEFINE M == O!Matching(c, x)
            live == O!Live(c, x)
<1>1. x.empty \in BOOLEAN /\ y.empty = ~x.empty /\ y.pool = x.pool /\ y.q = x.q
  BY DEF Filter
<1>2. O!Matching(c, y) = M /\ O!Live(c, y) = live
  BY <1>1 DEF O!Matching, O!Live
<1>3. IsFiniteSet(M) /\ live \subseteq M
  <2>1. IsFiniteSet(Acc)
    BY OSizes DEF O!Constants
  <2>2. M \subseteq Acc /\ live \subseteq M
    BY DEF O!Matching, O!Live, O!Answered
  <2>. QED  BY <2>1, <2>2, FS_Subset
<1>4. /\ Cardinality(M \ live) = Cardinality(M) - Cardinality(live)
      /\ Cardinality(M) \in Nat /\ Cardinality(live) \in Nat
  <2>1. M \cap live = live
    BY <1>3
  <2>2. IsFiniteSet(live)
    BY <1>3, FS_Subset
  <2>3. Cardinality(M \ live) = Cardinality(M) - Cardinality(M \cap live)
    BY <1>3, FS_Difference
  <2>. QED  BY <1>3, <2>1, <2>2, <2>3, FS_CardinalityType
<1>. HIDE DEF M, live
<1>5. CASE x.empty
  <2>1. O!Paint(c, x).items = M /\ O!Paint(c, x).empty
        /\ O!Paint(c, x).hidden = Cardinality(M \ live)
    BY <1>5, OSizes DEF O!Paint, M, live
  <2>2. O!Paint(c, y).items = live
    BY <1>1, <1>2, <1>5 DEF O!Paint
  <2>. QED  BY <1>4, <2>1, <2>2
<1>6. CASE ~x.empty
  <2>1. O!Paint(c, x).items = live /\ ~O!Paint(c, x).empty
        /\ O!Paint(c, x).hidden = Cardinality(M \ live)
    BY <1>6, OSizes DEF O!Paint, M, live
  <2>2. O!Paint(c, y).items = M
    BY <1>1, <1>2, <1>6 DEF O!Paint
  <2>. QED  BY <1>4, <2>1, <2>2
<1>. QED  BY <1>5, <1>6

(* Every step keeps it. *)
LEMMA OStep ==
    ASSUME O!Constants, OInv, [O!Next]_(O!vars)
    PROVE  OInv'
<1>1. pf \in Filter /\ today \in Int /\ Today \in Int /\ Most["pools"] \in Nat /\ OTyped
  <2>1. Today \in Int /\ Most["pools"] \in Nat
    BY DEF O!Constants
  <2>. QED  BY <2>1 DEF OInv, OTyped
<1>2. ASSUME NEW x \in Filter, O!Change(x) PROVE OInv'
  BY <1>2, ChangeKeeps
<1>3. ASSUME NEW c \in O!Coins \cup {""}, O!SetCoin(c) PROVE OInv'
  <2>1. [pf EXCEPT !.coin = c] \in Filter
    BY <1>1 DEF Filter
  <2>. QED  BY <1>2, <1>3, <2>1 DEF O!SetCoin
<1>4. ASSUME NEW p \in O!Pls \cup {""}, O!SetPool(p) PROVE OInv'
  <2>1. [pf EXCEPT !.pool = p] \in Filter
    BY <1>1 DEF Filter
  <2>. QED  BY <1>2, <1>4, <2>1 DEF O!SetPool
<1>5. ASSUME NEW d \in Int, O!SetFrom(d) \/ O!SetTo(d) PROVE OInv'
  <2>1. [pf EXCEPT !.from = d] \in Filter /\ [pf EXCEPT !.to = d] \in Filter
    BY <1>1 DEF Filter
  <2>. QED  BY <1>2, <1>5, <2>1 DEF O!SetFrom, O!SetTo
<1>6. ASSUME NEW i \in Int, O!Quick(i) PROVE OInv'
  <2>1. today - (i - 1) \in Int
    BY <1>1
  <2>2. [pf EXCEPT !.to = today, !.from = today - (i - 1)] \in Filter
    BY <1>1, <2>1 DEF Filter
  <2>. QED  BY <1>2, <1>6, <2>2 DEF O!Quick
<1>7. CASE O!Month
  <2>1. today \in DOMAIN MonthOf
    <3>1. today \in {Today - 1, Today}
      BY <1>1 DEF OTyped
    <3>. QED  BY <3>1 DEF O!Constants
  <2>2. [pf EXCEPT !.to = today, !.from = O!FirstOf(today)] \in Filter
    BY <1>1, <2>1, FirstBefore DEF Filter
  <2>. QED  BY <1>2, <1>7, <2>2 DEF O!Month
<1>8. CASE O!ToggleEmpty
  <2>. DEFINE y == [pf EXCEPT !.empty = ~@]
  <2>1. O!Does /\ O!Ask(y) /\ UNCHANGED <<today, view, typed, card, chart>>
    BY <1>8 DEF O!ToggleEmpty
  <2>2. y \in Filter
    <3>1. PICK b \in BOOLEAN : y = [pf EXCEPT !.empty = b]
      BY <1>1, Zenon DEF Filter
    <3>. HIDE DEF y
    <3>. QED  BY <1>1, <3>1 DEF Filter
  <2>3. O!Asked(y) = O!Asked(pf)
    BY <1>1 DEF O!Asked, Filter
  <2>4. y = [pf EXCEPT !.empty = ~@]
    OBVIOUS
  <2>5. promised' = None \/ /\ O!Quiet /\ view.of = O!Asked(pf)
                            /\ promised' = Cardinality(view.items)
                                  + (IF view.empty THEN -view.hidden ELSE view.hidden)
    BY <1>8, OSizes DEF O!ToggleEmpty
  <2>. HIDE DEF y
  <2>6. /\ pf' = y /\ calls' \in [Slot -> PoolCall \cup {None}] /\ ~NoCalls'
        /\ \E s \in Slot : calls' = [calls EXCEPT ![s] = O!Asked(y)]
    BY <1>1, <2>1, <2>2, AskIs
  <2>7. OTyped'
    BY <1>1, <2>1, <2>2, <2>6 DEF OTyped, O!Does
  <2>8. PromiseStands'
    <3>1. CASE promised' = None
      BY <3>1 DEF PromiseStands
    <3>2. CASE promised' # None
      <4>1. NoCalls /\ view = O!Paint(O!Asked(pf), pf)
        BY <2>5, <3>2 DEF O!Quiet, NoCalls, OInv, PaintedNow
      <4>2. promised' = Cardinality(O!Paint(O!Asked(pf), y).items)
        BY <1>1, <2>2, <2>4, <2>5, <3>2, <4>1, BoxAddsUp
      <4>3. \A s \in Slot : calls'[s] \in {None, O!Asked(y)}
        BY <1>1, <2>6, <4>1 DEF NoCalls, OTyped
      <4>. QED  BY <2>3, <2>6, <4>2, <4>3 DEF PromiseStands
    <3>. QED  BY <3>1, <3>2
  <2>. QED  BY <2>1, <2>6, <2>7, <2>8 DEF OInv, Periods, PaintedNow
<1>9. CASE O!Type
  <2>1. OTyped'
    BY <1>1, <1>9 DEF O!Type, O!Does, OTyped
  <2>. QED  BY <1>9, <2>1 DEF OInv, Periods, PaintedNow, PromiseStands, NoCalls, O!Type
<1>10. CASE O!Debounced
  <2>1. [pf EXCEPT !.q = TRUE] \in Filter
    BY <1>1 DEF Filter
  <2>2. O!Ask([pf EXCEPT !.q = TRUE]) /\ typed' = FALSE /\ promised' = None
        /\ UNCHANGED <<today, view, card, chart, acts>>
    BY <1>10 DEF O!Debounced
  <2>3. pf' \in Filter /\ calls' \in [Slot -> PoolCall \cup {None}] /\ ~NoCalls'
    BY <1>1, <2>1, <2>2, AskIs
  <2>4. OTyped'
    BY <1>1, <2>2, <2>3 DEF OTyped
  <2>. QED  BY <2>2, <2>3, <2>4 DEF OInv, Periods, PaintedNow, PromiseStands
<1>11. CASE O!Midnight
  <2>1. OTyped'
    BY <1>1, <1>11 DEF O!Midnight, OTyped
  <2>. QED  BY <1>11, <2>1 DEF OInv, Periods, PaintedNow, PromiseStands, NoCalls, O!Midnight
<1>12. ASSUME NEW s \in Slot, O!Answer(s) PROVE OInv'
  <2>1. calls[s] # None /\ calls' = [calls EXCEPT ![s] = None] /\ view' = O!Paint(calls[s], pf)
        /\ UNCHANGED <<pf, today, typed, promised, card, chart, acts>>
    BY <1>12 DEF O!Answer
  <2>2. view'.items \subseteq Acc /\ view'.of = calls[s]
    BY <2>1, AskedPainted
  <2>3. OTyped'
    BY <1>1, <2>1, <2>2 DEF OTyped
  <2>4. PromiseStands'
    BY <1>1, <2>1, <2>2 DEF OInv, PromiseStands, OTyped
  <2>5. PaintedNow'
    BY <2>1, <2>2 DEF PaintedNow
  <2>. QED  BY <2>1, <2>3, <2>4, <2>5 DEF OInv, Periods
<1>13. ASSUME NEW a \in Acc, O!OpenPool(a) PROVE OInv'
  <2>1. OTyped'
    BY <1>1, <1>13 DEF O!OpenPool, O!Does, OTyped
  <2>2. Periods'
    <3>1. card' = [acc |-> a, now |-> <<pf.from, pf.to>>, before |-> O!Before(<<pf.from, pf.to>>)]
          /\ UNCHANGED chart
      BY <1>13 DEF O!OpenPool
    <3>2. <<pf.from, pf.to>> \in Int \X Int
      BY <1>1 DEF Filter
    <3>3. card'.now = <<pf.from, pf.to>> /\ card'.before = O!Before(card'.now)
      BY <3>1
    <3>. QED  BY <3>1, <3>2, <3>3 DEF OInv, Periods
  <2>. QED  BY <1>13, <2>1, <2>2 DEF OInv, PaintedNow, PromiseStands, NoCalls, O!OpenPool
<1>14. ASSUME NEW p \in Int \X Int, p[1] <= p[2], O!Period(p) PROVE OInv'
  <2>1. OTyped'
    BY <1>1, <1>14 DEF O!Period, O!Does, OTyped
  <2>2. Periods'
    BY <1>14 DEF OInv, Periods, O!Period
  <2>. QED  BY <1>14, <2>1, <2>2 DEF OInv, PaintedNow, PromiseStands, NoCalls, O!Period
<1>15. ASSUME NEW k \in DOMAIN O!Presets(today), O!Preset(k) PROVE OInv'
  BY <1>1, <1>14, <1>15, PresetsRun DEF O!Preset, OTyped
<1>16. ASSUME NEW a \in Int, NEW b \in Int, O!PickDays(a, b) PROVE OInv'
  <2>1. O!Picked(a, b) \in Int \X Int /\ O!Picked(a, b)[1] <= O!Picked(a, b)[2]
    BY DEF O!Picked
  <2>. QED  BY <1>14, <1>16, <2>1 DEF O!PickDays
<1>17. CASE UNCHANGED O!vars
  <2>1. UNCHANGED <<pf, today, calls, view, typed, promised, card, chart, acts>>
    BY <1>17 DEF O!vars
  <2>2. OTyped'
    BY <1>1, <2>1 DEF OTyped
  <2>. QED  BY <2>1, <2>2 DEF OInv, Periods, PaintedNow, PromiseStands, NoCalls
<1>. QED
  <2>1. {Today - 8, Today - 1} \subseteq Int /\ {7, 30} \subseteq Int
        /\ (Today - 2)..Today \subseteq Int
    BY <1>1
  <2>. QED
    BY <1>3, <1>4, <1>5, <1>6, <1>7, <1>8, <1>9, <1>10, <1>11, <1>12, <1>13, <1>15, <1>16, <1>17,
       <2>1
       DEF O!Next

(* What was promised is a number of accounts. *)
LEMMA OIsTyped ==
    ASSUME O!Constants, OInv
    PROVE  O!TypeOK
<1>1. promised # None => promised >= 0
  <2>1. O!Paint(O!Asked(pf), pf).items \subseteq Acc /\ IsFiniteSet(Acc)
    BY AskedPainted, OSizes DEF O!Constants
  <2>2. Cardinality(O!Paint(O!Asked(pf), pf).items) \in Nat
    BY <2>1, FS_Subset, FS_CardinalityType
  <2>. QED  BY <2>2 DEF OInv, PromiseStands
<1>. QED  BY <1>1 DEF OInv, OTyped, O!TypeOK, Filter

(* The page of the pools keeps its types, and promises no negative number.    *)
THEOREM PoolsTyped ==
    ASSUME O!Constants
    PROVE  O!Spec => []O!TypeOK
<1>1. OInv => O!TypeOK
  BY OIsTyped
<1>. QED  BY <1>1, OInit, OStep, PTL DEF O!Spec

(* What is painted for the filters of the moment is what was promised. *)
LEMMA OBoxTells ==
    ASSUME OInv
    PROVE  O!BoxTells
<1>. SUFFICES ASSUME O!Quiet, promised # None PROVE Cardinality(view.items) = promised
  BY OSizes DEF O!BoxTells
<1>1. NoCalls
  BY DEF O!Quiet, NoCalls
<1>2. view = O!Paint(view.of, pf) /\ view.of = O!Asked(pf)
  BY <1>1 DEF OInv, PaintedNow, PromiseStands
<1>. QED  BY <1>2 DEF OInv, PromiseStands

(* The box of the empty links tells what it does, under every filter, however *)
(* late the answers are (BoxTells).                                           *)
THEOREM BoxTellsRight ==
    ASSUME O!Constants
    PROVE  O!Spec => []O!BoxTells
<1>1. OInv => O!BoxTells
  BY OBoxTells
<1>. QED  BY <1>1, OInit, OStep, PTL DEF O!Spec

(* The number of days from a to b. *)
LEMMA DaysBetween ==
    ASSUME NEW a \in Int, NEW b \in Int, a <= b
    PROVE  Cardinality(a..b) = b - a + 1
BY FS_Interval

(* Both periods have as many days. *)
LEMMA OPeriodsMatch ==
    ASSUME OInv
    PROVE  O!PeriodsMatch
<1>1. ASSUME chart # None
      PROVE  chart[1] <= chart[2] /\ O!PeriodHours(chart) = 24 * Cardinality(chart[1]..chart[2])
  <2>1. chart[1] \in Int /\ chart[2] \in Int /\ chart[1] <= chart[2]
    BY <1>1 DEF OInv, Periods
  <2>2. Cardinality(chart[1]..chart[2]) = chart[2] - chart[1] + 1
    BY <2>1, DaysBetween
  <2>3. O!PeriodHours(chart) = 24 * (chart[2] - chart[1] + 1)
    BY <2>1 DEF O!PeriodHours
  <2>. QED  BY <2>1, <2>2, <2>3
<1>2. ASSUME card # None, card.now[1] <= card.now[2]
      PROVE  /\ Cardinality(card.before[1]..card.before[2]) = Cardinality(card.now[1]..card.now[2])
             /\ card.before[2] + 1 = card.now[1]
  <2>. DEFINE a == card.now[1]
              b == card.now[2]
  <2>1. a \in Int /\ b \in Int /\ a <= b /\ card.before = O!Before(card.now)
    BY <1>2 DEF OInv, Periods
  <2>2. card.before[1] = a - (b - a + 1) /\ card.before[2] = a - 1
    BY <2>1 DEF O!Before, O!Span
  <2>. HIDE DEF a, b
  <2>3. /\ a - (b - a + 1) \in Int /\ a - 1 \in Int /\ a - (b - a + 1) <= a - 1
        /\ (a - 1) - (a - (b - a + 1)) + 1 = b - a + 1 /\ (a - 1) + 1 = a
    BY <2>1
  <2>4. Cardinality((a - (b - a + 1))..(a - 1)) = b - a + 1 /\ Cardinality(a..b) = b - a + 1
    BY <2>1, <2>3, DaysBetween
  <2>. QED  BY <2>2, <2>3, <2>4 DEF a, b
<1>. QED  BY <1>1, <1>2, OSizes DEF O!PeriodsMatch

(* A chart covers whole days, and a card compares its days with as many just  *)
(* before them, whatever was chosen and over midnight (PeriodsMatch).         *)
THEOREM PeriodsMatchAlways ==
    ASSUME O!Constants
    PROVE  O!Spec => []O!PeriodsMatch
<1>1. OInv => O!PeriodsMatch
  BY OPeriodsMatch
<1>. QED  BY <1>1, OInit, OStep, PTL DEF O!Spec

(*---------------------- sites and clients (S) ----------------------*)
(* Sites and clients.  While devices are listed, the choice, the list and the *)
(* menus are what scope() makes of the devices that were loaded; a number     *)
(* that was promised is the length of the list it will make.                  *)

(* Its sizes are ours, and its sums of the numbers on options. *)
LEMMA SSizes ==
    \A X : S!Cardinality(X) = Cardinality(X) /\ S!IsFiniteSet(X) = IsFiniteSet(X)
BY DEF S!Cardinality, Cardinality, S!IsFiniteSet, IsFiniteSet

LEMMA SSums ==
    \A g, X, y : S!Label(g, X, y) = IF X \cap DOMAIN g = {} THEN y ELSE Sum(g, X \cap DOMAIN g)
BY DEF S!Label, S!MapThenSumSet, S!MapThenFoldSet, Sum, Adds, First

STyped ==
    /\ fleet \in SUBSET Devs["scope"] /\ site \in SUBSET Site /\ client \in SUBSET Client
    /\ all = None \/ all \in SUBSET Devs["scope"]
    /\ sum = None \/ \E M \in SUBSET Devs["scope"] : sum = S!Known(M)
    /\ fresh \subseteq {"sum", "devs"} /\ acts \in 0..Most["scope"]
    /\ "sum" \in fresh => sum # None
    /\ "devs" \in fresh => all # None

Settled ==
    devs # None =>
        /\ all # None /\ sum # None
        /\ site = S!KeptSites(all) /\ client = S!KeptClients(all)
        /\ devs = S!Listed(all) /\ menu = S!Menu(all, sum)

WordStands == promised # None => all # None /\ promised = Cardinality(S!Listed(all))

SInv == STyped /\ Settled /\ WordStands

(* Applied once, the scope has nothing left to drop, and lists the same. *)
LEMMA ScopedSettles ==
    ASSUME NEW M, NEW told, S!Scoped(M, told), all' = M
    PROVE  /\ site' = S!KeptSites(all)' /\ client' = S!KeptClients(all)'
           /\ devs' = S!Listed(all)' /\ menu' = S!Menu(all, told)'
<1>1. site' = S!KeptSites(M) /\ client' = S!KeptClients(M) /\ devs' = S!Listed(M)
      /\ menu' = S!Menu(M, told)
  BY DEF S!Scoped
<1>2. S!KeptSites(all)' = S!KeptSites(M)
  BY <1>1 DEF S!KeptSites
<1>3. S!KeptClients(all)' = S!KeptClients(M)
  BY <1>1, <1>2 DEF S!KeptClients
<1>4. S!Listed(all)' = S!Listed(M)
  BY <1>2, <1>3 DEF S!Listed
<1>5. S!Menu(all, told)' = S!Menu(M, told)
  BY <1>2, <1>3 DEF S!Menu
<1>. QED  BY <1>1, <1>2, <1>3, <1>4, <1>5

(* What is listed: the devices of the sites and of the clients that are kept. *)
LEMMA ListedIs ==
    ASSUME NEW M
    PROVE  /\ S!Listed(M) = {d \in M : /\ S!KeptSites(M) = {} \/ SiteOf[d] \in S!KeptSites(M)
                                       /\ S!KeptClients(M) = {} \/ ClientOf[d] \in S!KeptClients(M)}
           /\ S!KeptClients(M) = {c \in client : c # None /\
                 \E d \in M : ClientOf[d] = c
                     /\ (S!KeptSites(M) = {} \/ SiteOf[d] \in S!KeptSites(M))}
           /\ S!KeptSites(M) = {s \in site : s # None /\ \E d \in M : SiteOf[d] = s}
BY DEF S!Listed, S!KeptSites, S!KeptClients, S!InSite, S!InClient, S!Sites, S!Clients

(* Devices that are there are listed, whatever is chosen. *)
LEMMA SomeListed ==
    ASSUME NEW M, M # {}
    PROVE  S!Listed(M) # {}
<1>1. \E d \in M : S!KeptSites(M) = {} \/ SiteOf[d] \in S!KeptSites(M)
  BY ListedIs
<1>2. S!KeptClients(M) # {} => \E d \in M : /\ ClientOf[d] \in S!KeptClients(M)
                                            /\ S!KeptSites(M) = {} \/ SiteOf[d] \in S!KeptSites(M)
  BY ListedIs
<1>. QED  BY <1>1, <1>2, ListedIs

(* The options, and the numbers beside them. *)
LEMMA MenuIs ==
    ASSUME Settled, devs # None
    PROVE  LET C == {d \in all : client = {} \/ ClientOf[d] \in client}
               M == {d \in all : site = {} \/ SiteOf[d] \in site} IN
           /\ DOMAIN menu.site = {x \in sum.sites : x \in site \/ \E d \in C : SiteOf[d] = x}
           /\ DOMAIN menu.client = {x \in sum.clients : x \in client \/ \E d \in M : ClientOf[d] = x}
           /\ \A x \in DOMAIN menu.site : menu.site[x] = Cardinality({d \in C : SiteOf[d] = x})
           /\ \A x \in DOMAIN menu.client : menu.client[x] = Cardinality({d \in M : ClientOf[d] = x})
           /\ menu.nAll = Cardinality(C) /\ menu.nCl = Cardinality(M)
<1>. DEFINE C == {d \in all : client = {} \/ ClientOf[d] \in client}
            M == {d \in all : site = {} \/ SiteOf[d] \in site}
<1>1. S!InClient(all, client) = C /\ S!InSite(all, site) = M
  BY DEF S!InClient, S!InSite
<1>2. menu = [site   |-> S!Options(sum.sites, site, C, SiteOf),
              client |-> S!Options(sum.clients, client, M, ClientOf),
              nAll   |-> S!Cardinality(C), nCl |-> S!Cardinality(M)]
  BY <1>1 DEF Settled, S!Menu
<1>. HIDE DEF C, M
<1>3. /\ menu.site = S!Options(sum.sites, site, C, SiteOf)
      /\ menu.client = S!Options(sum.clients, client, M, ClientOf)
      /\ menu.nAll = Cardinality(C) /\ menu.nCl = Cardinality(M)
  BY <1>2, SSizes
<1>4. /\ DOMAIN menu.site = {x \in sum.sites : x \in site \/ \E d \in C : SiteOf[d] = x}
      /\ \A x \in DOMAIN menu.site : menu.site[x] = Cardinality({d \in C : SiteOf[d] = x})
  BY <1>3, SSizes DEF S!Options
<1>5. /\ DOMAIN menu.client = {x \in sum.clients : x \in client \/ \E d \in M : ClientOf[d] = x}
      /\ \A x \in DOMAIN menu.client : menu.client[x] = Cardinality({d \in M : ClientOf[d] = x})
  BY <1>3, SSizes DEF S!Options
<1>. QED  BY <1>3, <1>4, <1>5 DEF C, M

(* The sites and clients with devices, and the devices on them, of a choice   *)
(* that is given.                                                             *)
OnSites(st, M)      == {x \in st : x # None /\ \E d \in M : SiteOf[d] = x}
OfClients(ct, s, M) == {x \in ct : x # None /\
                            \E d \in M : ClientOf[d] = x /\ (s = {} \/ SiteOf[d] \in s)}
Both(s, c, M)       == {d \in M : (s = {} \/ SiteOf[d] \in s) /\ (c = {} \/ ClientOf[d] \in c)}

LEMMA ListedNext ==
    S!Listed(all)' = Both(OnSites(site', all'),
                          OfClients(client', OnSites(site', all'), all'), all')
BY DEF S!Listed, S!KeptSites, S!KeptClients, S!InSite, S!InClient, S!Sites, S!Clients,
       OnSites, OfClients, Both

(* With everything else kept, one option chosen lists what stands beside it,  *)
(* and a menu cleared what stands beside "all".                               *)
LEMMA ChosenLists ==
    ASSUME S!Constants, STyped, Settled, devs # None, all' = all
    PROVE  /\ \A x : site' = {x} /\ client' = client /\ site = {} /\ x \in DOMAIN menu.site
                    => menu.site[x] = Cardinality(S!Listed(all)')
           /\ \A x : client' = {x} /\ site' = site /\ client = {} /\ x \in DOMAIN menu.client
                    => menu.client[x] = Cardinality(S!Listed(all)')
           /\ site' = {} /\ client' = client => menu.nAll = Cardinality(S!Listed(all)')
           /\ client' = {} /\ site' = site => menu.nCl = Cardinality(S!Listed(all)')
<1>. DEFINE C == {d \in all : client = {} \/ ClientOf[d] \in client}
            M == {d \in all : site = {} \/ SiteOf[d] \in site}
<1>1. site = OnSites(site, all) /\ client = OfClients(client, site, all)
  BY ListedIs DEF Settled, OnSites, OfClients
<1>2. /\ sum.sites = Site /\ sum.clients \subseteq Client /\ all \in SUBSET Devs["scope"]
      /\ None \notin Site /\ None \notin Client
  <2>1. \A X \in SUBSET Devs["scope"] : S!Clients(X) \subseteq Client
    BY DEF S!Constants, S!Clients
  <2>. QED  BY <2>1 DEF STyped, Settled, S!Known, S!Constants
<1>3. ASSUME NEW x, site' = {x}, client' = client, site = {}, x \in DOMAIN menu.site
      PROVE  menu.site[x] = Cardinality(S!Listed(all)')
  <2>1. x \in Site /\ (\E d \in C : SiteOf[d] = x)
            /\ menu.site[x] = Cardinality({d \in C : SiteOf[d] = x})
    BY <1>2, <1>3, MenuIs
  <2>. DEFINE c == {y \in client : y # None /\ \E d \in all : ClientOf[d] = y /\ SiteOf[d] = x}
  <2>2. S!Listed(all)' = {d \in all : SiteOf[d] = x /\ (c = {} \/ ClientOf[d] \in c)}
    <3>1. OnSites(site', all') = {x}
      BY <1>2, <1>3, <2>1 DEF OnSites
    <3>2. OfClients(client', {x}, all') = c
      BY <1>3 DEF OfClients
    <3>3. S!Listed(all)' = Both({x}, c, all')
      BY <3>1, <3>2, ListedNext
    <3>. QED  BY <3>3 DEF Both
  <2>3. S!Listed(all)' = {d \in C : SiteOf[d] = x}
    <3>1. None \notin client
      BY <1>2 DEF STyped
    <3>. QED  BY <2>1, <2>2, <3>1
  <2>. QED  BY <2>1, <2>3
<1>4. ASSUME NEW x, client' = {x}, site' = site, client = {}, x \in DOMAIN menu.client
      PROVE  menu.client[x] = Cardinality(S!Listed(all)')
  <2>1. x \in Client /\ (\E d \in M : ClientOf[d] = x)
            /\ menu.client[x] = Cardinality({d \in M : ClientOf[d] = x})
    BY <1>2, <1>4, MenuIs
  <2>2. OnSites(site', all') = site
    BY <1>1, <1>4
  <2>3. OfClients(client', site, all') = {x}
    BY <1>2, <1>4, <2>1 DEF OfClients
  <2>4. S!Listed(all)' = Both(site, {x}, all')
    BY <2>2, <2>3, ListedNext
  <2>5. S!Listed(all)' = {d \in M : ClientOf[d] = x}
    BY <2>4 DEF Both
  <2>. QED  BY <2>1, <2>5
<1>5. ASSUME site' = {}, client' = client PROVE menu.nAll = Cardinality(S!Listed(all)')
  <2>1. OnSites(site', all') = {}
    BY <1>5 DEF OnSites
  <2>2. OfClients(client', {}, all') = client
    BY <1>1, <1>5 DEF OfClients
  <2>3. S!Listed(all)' = Both({}, client, all')
    BY <2>1, <2>2, ListedNext
  <2>4. S!Listed(all)' = C
    BY <2>3 DEF Both
  <2>. QED  BY <2>4, MenuIs
<1>6. ASSUME client' = {}, site' = site PROVE menu.nCl = Cardinality(S!Listed(all)')
  <2>1. OnSites(site', all') = site
    BY <1>1, <1>6
  <2>2. OfClients(client', site, all') = {}
    BY <1>6 DEF OfClients
  <2>3. S!Listed(all)' = Both(site, {}, all')
    BY <2>1, <2>2, ListedNext
  <2>4. S!Listed(all)' = M
    BY <2>3 DEF Both
  <2>. QED  BY <2>4, MenuIs
<1>. QED  BY <1>3, <1>4, <1>5, <1>6

(* The sites that are chosen part the devices of the list, and so do the      *)
(* clients: the numbers beside them add up.                                   *)
LEMMA LabelsAddUp ==
    ASSUME S!Constants, SInv
    PROVE  S!LabelsAgree
<1>. SUFFICES ASSUME devs # None, site \subseteq sum.sites, client \subseteq sum.clients
              PROVE  /\ S!Label(menu.site, site, menu.nAll) = Cardinality(devs)
                     /\ S!Label(menu.client, client, menu.nCl) = Cardinality(devs)
  BY SSizes DEF S!LabelsAgree
<1>. DEFINE C == {d \in all : client = {} \/ ClientOf[d] \in client}
            M == {d \in all : site = {} \/ SiteOf[d] \in site}
<1>1. devs = {d \in all : (site = {} \/ SiteOf[d] \in site) /\ (client = {} \/ ClientOf[d] \in client)}
  BY ListedIs DEF SInv, Settled
<1>2. IsFiniteSet(site) /\ IsFiniteSet(client) /\ IsFiniteSet(C) /\ IsFiniteSet(M)
  <2>1. /\ site \subseteq Site /\ client \subseteq Client /\ C \subseteq Devs["scope"]
        /\ M \subseteq Devs["scope"]
        /\ IsFiniteSet(Site) /\ IsFiniteSet(Client) /\ IsFiniteSet(Devs["scope"])
    BY SSizes DEF S!Constants, SInv, STyped, Settled
  <2>. HIDE DEF C, M
  <2>. QED  BY <2>1, FS_Subset
<1>3. S!Label(menu.site, site, menu.nAll) = Cardinality(devs)
  <2>1. site \cap DOMAIN menu.site = site
    BY MenuIs DEF SInv
  <2>2. \A x \in site : menu.site[x] = Cardinality({d \in C : SiteOf[d] = x})
    BY MenuIs, <2>1 DEF SInv
  <2>3. menu.nAll = Cardinality(C)
    BY MenuIs DEF SInv
  <2>4. CASE site = {}
    <3>1. devs = C
      BY <1>1, <2>4
    <3>. QED  BY <2>1, <2>3, <2>4, <3>1, SSums
  <2>5. CASE site # {}
    <3>1. devs = {d \in C : SiteOf[d] \in site}
      BY <1>1, <2>5
    <3>. HIDE DEF C
    <3>2. Sum(menu.site, site) = Cardinality({d \in C : SiteOf[d] \in site})
      BY <1>2, <2>2, SumOfGroups
    <3>. QED  BY <2>1, <2>5, <3>1, <3>2, SSums
  <2>. QED  BY <2>4, <2>5
<1>4. S!Label(menu.client, client, menu.nCl) = Cardinality(devs)
  <2>1. client \cap DOMAIN menu.client = client
    BY MenuIs DEF SInv
  <2>2. \A x \in client : menu.client[x] = Cardinality({d \in M : ClientOf[d] = x})
    BY MenuIs, <2>1 DEF SInv
  <2>3. menu.nCl = Cardinality(M)
    BY MenuIs DEF SInv
  <2>4. CASE client = {}
    <3>1. devs = M
      BY <1>1, <2>4
    <3>. QED  BY <2>1, <2>3, <2>4, <3>1, SSums
  <2>5. CASE client # {}
    <3>1. devs = {d \in M : ClientOf[d] \in client}
      BY <1>1, <2>5
    <3>. HIDE DEF M
    <3>2. Sum(menu.client, client) = Cardinality({d \in M : ClientOf[d] \in client})
      BY <1>2, <2>2, SumOfGroups
    <3>. QED  BY <2>1, <2>5, <3>1, <3>2, SSums
  <2>. QED  BY <2>4, <2>5
<1>. QED  BY <1>3, <1>4

(* What scope() leaves of a choice is a choice, and devices that were loaded. *)
LEMMA ScopedTyped ==
    ASSUME S!Constants, STyped, NEW M \in SUBSET Devs["scope"], NEW told, S!Scoped(M, told)
    PROVE  site' \in SUBSET Site /\ client' \in SUBSET Client /\ devs' \in SUBSET Devs["scope"]
BY DEF STyped, S!Scoped, S!KeptSites, S!KeptClients, S!Listed, S!InClient, S!InSite

LEMMA SInit ==
    ASSUME S!Constants, S!Init
    PROVE  SInv
<1>1. Most["scope"] \in Nat
  BY DEF S!Constants
<1>. QED  BY <1>1 DEF S!Init, SInv, STyped, Settled, WordStands

LEMMA ByLoadSummary ==
    ASSUME S!Constants, SInv, S!LoadSummary
    PROVE  SInv'
<1>1. /\ sum' = IF "sum" \in fresh THEN sum ELSE S!Known(fleet)
      /\ fresh' = fresh \cup {"sum"} /\ UNCHANGED <<fleet, all, promised, acts>>
  BY DEF S!LoadSummary
<1>2. sum' # None /\ \E M \in SUBSET Devs["scope"] : sum' = S!Known(M)
  <2>1. S!Known(fleet) # None /\ fleet \in SUBSET Devs["scope"]
    BY DEF S!Constants, SInv, STyped
  <2>. QED  BY <1>1, <2>1 DEF SInv, STyped
<1>3. CASE all = None
  BY <1>1, <1>2, <1>3 DEF S!LoadSummary, SInv, STyped, Settled, WordStands
<1>4. CASE all # None
  <2>1. S!Scoped(all, sum') /\ all \in SUBSET Devs["scope"]
    BY <1>4 DEF S!LoadSummary, SInv, STyped
  <2>2. /\ site' = S!KeptSites(all) /\ client' = S!KeptClients(all) /\ devs' = S!Listed(all)
    BY <2>1 DEF S!Scoped
  <2>3. STyped'
    <3>1. site' \in SUBSET Site /\ client' \in SUBSET Client
      BY <2>2 DEF SInv, STyped, S!KeptSites, S!KeptClients
    <3>. QED  BY <1>1, <1>2, <3>1 DEF SInv, STyped
  <2>4. PICK told : told = sum' /\ S!Scoped(all, told)
    BY <2>1
  <2>5. /\ site' = S!KeptSites(all)' /\ client' = S!KeptClients(all)'
        /\ devs' = S!Listed(all)' /\ menu' = S!Menu(all, told)'
    BY <1>1, <2>4, ScopedSettles
  <2>6. Settled'
    BY <1>1, <1>2, <1>4, <2>4, <2>5 DEF Settled
  <2>7. WordStands'
    BY <1>1, <2>2, <2>5 DEF SInv, WordStands
  <2>. QED  BY <2>3, <2>6, <2>7 DEF SInv
<1>. QED  BY <1>3, <1>4

LEMMA ByLoadDevices ==
    ASSUME S!Constants, SInv, S!LoadDevices
    PROVE  SInv'
<1>1. /\ sum # None /\ all' = IF "devs" \in fresh THEN all ELSE fleet
      /\ promised' = IF "devs" \in fresh THEN promised ELSE None
      /\ S!Scoped(all', sum) /\ fresh' = fresh \cup {"devs"} /\ UNCHANGED <<fleet, sum, acts>>
  BY DEF S!LoadDevices
<1>2. PICK M \in SUBSET Devs["scope"] : all' = M /\ S!Scoped(M, sum) /\ M # None
  <2>1. fleet \in SUBSET Devs["scope"] /\ fleet # None
        /\ ("devs" \in fresh => all \in SUBSET Devs["scope"] /\ all # None)
    BY DEF SInv, STyped, S!Constants
  <2>. QED  BY <1>1, <2>1
<1>3. PICK told : told = sum /\ S!Scoped(M, told)
  BY <1>2
<1>4. /\ site' = S!KeptSites(all)' /\ client' = S!KeptClients(all)'
      /\ devs' = S!Listed(all)' /\ menu' = S!Menu(all, told)'
  BY <1>2, <1>3, ScopedSettles
<1>5. STyped'
  <2>1. site' \in SUBSET Site /\ client' \in SUBSET Client
    BY <1>2, ScopedTyped DEF SInv
  <2>. QED  BY <1>1, <1>2, <2>1 DEF SInv, STyped
<1>6. Settled'
  BY <1>1, <1>2, <1>3, <1>4 DEF Settled
<1>7. WordStands'
  <2>1. CASE "devs" \in fresh
    <3>1. all' = all /\ promised' = promised /\ devs' = S!Listed(all)
      BY <1>1, <1>2, <2>1 DEF S!Scoped
    <3>. QED  BY <1>4, <3>1 DEF SInv, WordStands
  <2>2. CASE "devs" \notin fresh
    BY <1>1, <2>2 DEF WordStands
  <2>. QED  BY <2>1, <2>2
<1>. QED  BY <1>5, <1>6, <1>7 DEF SInv

(* A choice in the menus: nothing is listed until the page is loaded again,   *)
(* and what was on the option is what will be.                                *)
LEMMA ByChoice ==
    ASSUME S!Constants, SInv, S!Apply, UNCHANGED <<fleet, sum, all, menu, fresh>>,
           site' \in SUBSET Site, client' \in SUBSET Client, WordStands'
    PROVE  SInv'
<1>1. acts' \in 0..Most["scope"]
  <2>1. Most["scope"] \in Nat
    BY DEF S!Constants
  <2>. QED  BY <2>1 DEF S!Apply, SInv, STyped
<1>. QED  BY <1>1 DEF S!Apply, SInv, STyped, Settled

LEMMA ByPick ==
    ASSUME S!Constants, SInv,
           \/ \E x \in Site : S!PickSite(x)
           \/ \E x \in Client : S!PickClient(x)
           \/ S!ClearSites \/ S!ClearClients
    PROVE  SInv'
<1>1. devs # None => all # None
  BY DEF SInv, Settled
<1>2. ASSUME NEW x \in Site, S!PickSite(x) PROVE SInv'
  <2>1. /\ x \in DOMAIN menu.site /\ S!Apply /\ site' = S!Flip(site, x)
        /\ promised' = (IF site = {} /\ devs # None THEN menu.site[x] ELSE None)
        /\ UNCHANGED <<fleet, sum, all, client, menu, fresh>>
    BY <1>2 DEF S!PickSite
  <2>2. site' \in SUBSET Site /\ client' \in SUBSET Client
    BY <2>1 DEF S!Flip, SInv, STyped
  <2>3. ASSUME site = {}, devs # None PROVE promised' = Cardinality(S!Listed(all)') /\ all' # None
    <3>1. site' = {x}
      BY <2>1, <2>3 DEF S!Flip
    <3>. QED  BY <1>1, <2>1, <2>3, <3>1, ChosenLists DEF SInv
  <2>. QED  BY <2>1, <2>2, <2>3, ByChoice DEF WordStands
<1>3. ASSUME NEW x \in Client, S!PickClient(x) PROVE SInv'
  <2>1. /\ x \in DOMAIN menu.client /\ S!Apply /\ client' = S!Flip(client, x)
        /\ promised' = (IF client = {} /\ devs # None THEN menu.client[x] ELSE None)
        /\ UNCHANGED <<fleet, sum, all, site, menu, fresh>>
    BY <1>3 DEF S!PickClient
  <2>2. site' \in SUBSET Site /\ client' \in SUBSET Client
    BY <2>1 DEF S!Flip, SInv, STyped
  <2>3. ASSUME client = {}, devs # None PROVE promised' = Cardinality(S!Listed(all)') /\ all' # None
    <3>1. client' = {x}
      BY <2>1, <2>3 DEF S!Flip
    <3>. QED  BY <1>1, <2>1, <2>3, <3>1, ChosenLists DEF SInv
  <2>. QED  BY <2>1, <2>2, <2>3, ByChoice DEF WordStands
<1>4. ASSUME S!ClearSites PROVE SInv'
  <2>1. /\ site' = {} /\ S!Apply /\ promised' = (IF devs # None THEN menu.nAll ELSE None)
        /\ UNCHANGED <<fleet, sum, all, client, menu, fresh>>
    BY <1>4 DEF S!ClearSites
  <2>2. site' \in SUBSET Site /\ client' \in SUBSET Client
    BY <2>1 DEF SInv, STyped
  <2>3. ASSUME devs # None PROVE promised' = Cardinality(S!Listed(all)') /\ all' # None
    BY <1>1, <2>1, <2>3, ChosenLists DEF SInv
  <2>. QED  BY <2>1, <2>2, <2>3, ByChoice DEF WordStands
<1>5. ASSUME S!ClearClients PROVE SInv'
  <2>1. /\ client' = {} /\ S!Apply /\ promised' = (IF devs # None THEN menu.nCl ELSE None)
        /\ UNCHANGED <<fleet, sum, all, site, menu, fresh>>
    BY <1>5 DEF S!ClearClients
  <2>2. site' \in SUBSET Site /\ client' \in SUBSET Client
    BY <2>1 DEF SInv, STyped
  <2>3. ASSUME devs # None PROVE promised' = Cardinality(S!Listed(all)') /\ all' # None
    BY <1>1, <2>1, <2>3, ChosenLists DEF SInv
  <2>. QED  BY <2>1, <2>2, <2>3, ByChoice DEF WordStands
<1>. QED  BY <1>2, <1>3, <1>4, <1>5

LEMMA BySetClient ==
    ASSUME S!Constants, SInv, NEW x \in Client, S!SetClient(x)
    PROVE  SInv'
<1>1. S!Apply /\ client' = {x} /\ promised' = None
      /\ UNCHANGED <<fleet, sum, all, site, menu, fresh>>
  BY DEF S!SetClient
<1>2. site' \in SUBSET Site /\ client' \in SUBSET Client /\ WordStands'
  BY <1>1 DEF SInv, STyped, WordStands
<1>. QED  BY <1>1, <1>2, ByChoice

(* The menus, the list and the choice are not touched. *)
LEMMA ScopeStays ==
    ASSUME SInv, UNCHANGED <<sum, all, site, client, devs, menu, promised>>
    PROVE  Settled' /\ WordStands'
<1>1. /\ S!KeptSites(all)' = S!KeptSites(all) /\ S!KeptClients(all)' = S!KeptClients(all)
      /\ S!Listed(all)' = S!Listed(all) /\ S!Menu(all, sum)' = S!Menu(all, sum)
  BY DEF S!KeptSites, S!KeptClients, S!Listed, S!Menu
<1>. QED  BY <1>1 DEF SInv, Settled, WordStands

LEMMA SNext ==
    ASSUME S!Constants, SInv, [S!Next]_S!vars
    PROVE  SInv'
<1>1. ASSUME S!Outdated PROVE SInv'
  <2>1. fresh' \subseteq fresh
        /\ UNCHANGED <<fleet, sum, all, site, client, devs, menu, promised, acts>>
    BY <1>1 DEF S!Outdated
  <2>. QED  BY <2>1, ScopeStays DEF SInv, STyped
<1>2. ASSUME NEW d \in Devs["scope"], S!Arrives(d) PROVE SInv'
  <2>1. /\ acts < Most["scope"] /\ acts' = acts + 1 /\ fleet' = S!Flip(fleet, d)
        /\ UNCHANGED <<sum, all, site, client, devs, menu, fresh, promised>>
    BY <1>2 DEF S!Arrives
  <2>2. acts' \in 0..Most["scope"]
    <3>1. Most["scope"] \in Nat
      BY DEF S!Constants
    <3>. QED  BY <2>1, <3>1 DEF SInv, STyped
  <2>3. fleet' \in SUBSET Devs["scope"]
    BY <2>1 DEF S!Flip, SInv, STyped
  <2>. QED  BY <2>1, <2>2, <2>3, ScopeStays DEF SInv, STyped
<1>3. ASSUME UNCHANGED S!vars PROVE SInv'
  <2>1. UNCHANGED <<fleet, sum, all, site, client, devs, menu, fresh, promised, acts>>
    BY <1>3 DEF S!vars
  <2>. QED  BY <2>1, ScopeStays DEF SInv, STyped
<1>. QED  BY <1>1, <1>2, <1>3, ByLoadSummary, ByLoadDevices, ByPick, BySetClient DEF S!Next

LEMMA SInductive ==
    ASSUME S!Constants
    PROVE  S!Spec => []SInv
<1>1. S!Init => SInv
  BY SInit
<1>2. SInv /\ [S!Next]_S!vars => SInv'
  BY SNext
<1>. QED  BY <1>1, <1>2, PTL DEF S!Spec

(* What is listed are devices. *)
LEMMA ScopeIsTyped ==
    ASSUME SInv
    PROVE  S!TypeOK
<1>1. devs \in (SUBSET Devs["scope"]) \cup {None}
  BY DEF SInv, STyped, Settled, S!Listed, S!InClient, S!InSite
<1>. QED  BY <1>1 DEF SInv, STyped, S!TypeOK

(* Scope.TypeOK, for every fleet, sites and clients (farm.js, scope).         *)
THEOREM ScopeTyped == ASSUME S!Constants PROVE S!Spec => []S!TypeOK
<1>1. SInv => S!TypeOK
  BY ScopeIsTyped
<1>. QED  BY <1>1, SInductive, PTL

(* Whatever was chosen and whatever has left the farm since, the pages list   *)
(* something while there are devices (Scope.NeverEmpty; farm.js, scope).      *)
THEOREM NeverComesUpEmpty == ASSUME S!Constants PROVE S!Spec => []S!NeverEmpty
<1>1. SInv => S!NeverEmpty
  BY SomeListed DEF SInv, Settled, S!NeverEmpty
<1>. QED  BY <1>1, SInductive, PTL

(* An option chosen alone in its menu lists as many devices as the number on  *)
(* it said (Scope.OptionTells), with caches of any age and whatever loads     *)
(* come between the press and the list.                                       *)
THEOREM OptionsKeepTheirWord == ASSUME S!Constants PROVE S!Spec => []S!OptionTells
<1>1. SInv => S!OptionTells
  BY SSizes DEF SInv, Settled, WordStands, S!OptionTells
<1>. QED  BY <1>1, SInductive, PTL

(* Both buttons say how many devices are listed (Scope.LabelsAgree): the      *)
(* numbers on the chosen options add up to the list.                          *)
THEOREM ButtonsAgree == ASSUME S!Constants PROVE S!Spec => []S!LabelsAgree
<1>1. SInv => S!LabelsAgree
  BY LabelsAddUp
<1>. QED  BY <1>1, SInductive, PTL

(*---------------------- the power of the site (E) ----------------------*)
(* The power of the site.  A picture of the hours names only meters that are  *)
(* known; the meters answered with it are those, unless it is torn.           *)

(* Its sizes and sums are ours. *)
LEMMA ESizes ==
    \A X : E!Cardinality(X) = Cardinality(X) /\ E!IsFiniteSet(X) = IsFiniteSet(X)
BY DEF E!Cardinality, Cardinality, E!IsFiniteSet, IsFiniteSet

LEMMA ESums ==
    \A g, X : E!Sum(g, X) = Sum(g, X)
BY DEF E!Sum, E!MapThenSumSet, E!MapThenFoldSet, Sum, Adds, First

ETyped == named \in [Cont -> Name] /\ kw \in [Cont -> Load]

(* The figures of a picture, whatever the meters are. *)
Drawn(g, M) == \A t \in DOMAIN g : g[t].kwh = Sum(g[t].by, DOMAIN g[t].by)
    /\ DOMAIN g[t].by \subseteq M

Stacked ==
    /\ graph # None => Drawn(graph, known)
    /\ meters # None /\ graph # None /\ ~torn => Drawn(graph, meters)
    /\ meters # None /\ graph = None /\ ~torn => meters = known

EInv == ETyped /\ E!TypeOK /\ E!SharesAddUp /\ Stacked

(* The shares of one container are what it takes, if its inputs are known. *)
LEMMA SharesOfOne ==
    ASSUME E!Constants, ETyped, E!Drawable, NEW c \in Cont
    PROVE  /\ \A k \in Ktp : E!Part(c, k) \in Nat
           /\ Sum([k \in Ktp |-> E!Part(c, k)], Ktp) = IF c \in E!Aside THEN 0 ELSE kw[c]
<1>. DEFINE q == Inputs[named[c]]
            times == [k \in Ktp |-> E!Times(k, q)]
            share  == [k \in Ktp |-> E!Part(c, k)]
<1>1. /\ named[c] \in Name /\ q \in Seq(Nat) /\ kw[c] \in Nat /\ IsFiniteSet(Ktp)
      /\ q # <<>> => kw[c] % Len(q) = 0
      /\ \A k \in E!Range(q) : k \in Ktp
  <2>1. named[c] \in Name /\ kw[c] \in Load
    BY DEF ETyped
  <2>. QED  BY <2>1, ESizes DEF E!Constants, E!Drawable
<1>. HIDE DEF q
<1>2. Len(q) \in Nat /\ DOMAIN q = 1..Len(q) /\ \A i \in DOMAIN q : q[i] \in Ktp
  BY <1>1 DEF E!Range
<1>3. IsFiniteSet(DOMAIN q) /\ Cardinality(DOMAIN q) = Len(q)
  <2>1. IsFiniteSet(1..Len(q)) /\ Cardinality(1..Len(q)) = IF 1 > Len(q) THEN 0 ELSE Len(q) - 1 + 1
    BY <1>2, FS_Interval
  <2>. QED  BY <1>2, <2>1
<1>4. \A k \in Ktp : times[k] = Cardinality({i \in DOMAIN q : q[i] = k}) /\ times[k] \in Nat
  <2>1. \A k \in Ktp : times[k] = Cardinality({i \in DOMAIN q : q[i] = k})
    BY ESizes DEF E!Times
  <2>2. \A k : {i \in DOMAIN q : q[i] = k} \subseteq DOMAIN q
    OBVIOUS
  <2>. HIDE DEF times
  <2>. QED  BY <1>3, <2>1, <2>2, FS_Subset, FS_CardinalityType
<1>5. Sum(times, Ktp) = Len(q)
  <2>1. {i \in DOMAIN q : q[i] \in Ktp} = DOMAIN q
    BY <1>2
  <2>. HIDE DEF times
  <2>2. Sum(times, Ktp) = Cardinality({i \in DOMAIN q : q[i] \in Ktp})
    BY <1>1, <1>3, <1>4, SumOfGroups
  <2>. QED  BY <1>3, <2>1, <2>2
<1>6. Counts(times, Ktp)
  BY <1>1, <1>4 DEF Counts
<1>7. c \in E!Aside <=> q = <<>>
  BY DEF E!Aside, q
<1>8. \A k \in Ktp : share[k] = (IF q = <<>> THEN 0 ELSE (kw[c] \div Len(q)) * times[k])
  BY DEF E!Part, q
<1>9. CASE q = <<>>
  <2>1. \A k \in Ktp : share[k] = 0 * times[k] /\ share[k] \in Nat
    BY <1>4, <1>8, <1>9
  <2>. HIDE DEF times, share
  <2>2. Sum(share, Ktp) = 0 * Sum(times, Ktp)
    BY <1>6, <2>1, SumTimes
  <2>3. Sum(share, Ktp) = 0
    BY <1>2, <1>5, <2>2
  <2>. QED  BY <1>7, <1>9, <2>1, <2>3 DEF share
<1>10. CASE q # <<>>
  <2>1. Len(q) \in Nat \ {0}
    BY <1>1, <1>10
  <2>. DEFINE per == kw[c] \div Len(q)
  <2>2. per \in Nat /\ per * Len(q) = kw[c]
    <3>1. \A u \in Nat, v \in Nat \ {0} : u % v = 0 => u \div v \in Nat /\ (u \div v) * v = u
      OBVIOUS
    <3>. QED  BY <1>1, <1>10, <2>1, <3>1
  <2>3. \A k \in Ktp : share[k] = per * times[k]
    BY <1>8, <1>10
  <2>. HIDE DEF per, times, share
  <2>4. Counts(share, Ktp) /\ Sum(share, Ktp) = per * Sum(times, Ktp)
    BY <1>6, <2>2, <2>3, SumTimes
  <2>. QED  BY <1>5, <1>7, <1>10, <2>2, <2>4 DEF Counts, share
<1>. QED  BY <1>9, <1>10

(* Summed up by feeder, the substations get what the containers take that are *)
(* not left aside.                                                            *)
LEMMA PaintAddsUp ==
    ASSUME E!Constants, ETyped, E!Drawable
    PROVE  LET ktp == [k \in Ktp |-> E!Sum([c \in Cont |-> E!Part(c, k)], Cont)]
               fs  == {Feeder[k] : k \in Ktp} IN
           E!Sum([u \in fs |-> E!Sum(ktp, {k \in Ktp : Feeder[k] = u})], fs) + E!Sum(kw, E!Aside)
           = E!Sum(kw, Cont)
<1>. DEFINE ktp == [k \in Ktp |-> Sum([c \in Cont |-> E!Part(c, k)], Cont)]
            fs  == {Feeder[k] : k \in Ktp}
            fed == [u \in fs |-> Sum(ktp, {k \in Ktp : Feeder[k] = u})]
            p   == [c \in Cont |-> [k \in Ktp |-> E!Part(c, k)]]
            own == [c \in Cont |-> Sum(p[c], Ktp)]
            In  == Cont \ E!Aside
<1>1. IsFiniteSet(Cont) /\ IsFiniteSet(Ktp) /\ \A c \in Cont : kw[c] \in Nat
  BY ESizes DEF E!Constants, ETyped
<1>2. \A c \in Cont : /\ p[c] = [k \in Ktp |-> E!Part(c, k)] /\ \A k \in Ktp : p[c][k] \in Nat
                      /\ Sum(p[c], Ktp) = IF c \in E!Aside THEN 0 ELSE kw[c]
  <2>1. ASSUME NEW c \in Cont
        PROVE  p[c] = [k \in Ktp |-> E!Part(c, k)] /\ \A k \in Ktp : p[c][k] = E!Part(c, k)
    OBVIOUS
  <2>. HIDE DEF p
  <2>. QED  BY <2>1, SharesOfOne
<1>3. ktp = [k \in Ktp |-> Sum([c \in Cont |-> p[c][k]], Cont)]
  <2>1. \A k \in Ktp : [c \in Cont |-> p[c][k]] = [c \in Cont |-> E!Part(c, k)]
    OBVIOUS
  <2>. QED  BY <2>1, Zenon
<1>4. Grid(p, Cont, Ktp)
  BY <1>1, <1>2 DEF Grid
<1>. HIDE DEF p
<1>5. Counts(own, Cont) /\ Counts(ktp, Ktp) /\ Sum(ktp, Ktp) = Sum(own, Cont)
  <2>1. /\ Counts([c \in Cont |-> Sum(p[c], Ktp)], Cont)
        /\ Counts([k \in Ktp |-> Sum([c \in Cont |-> p[c][k]], Cont)], Ktp)
        /\ Sum([k \in Ktp |-> Sum([c \in Cont |-> p[c][k]], Cont)], Ktp)
           = Sum([c \in Cont |-> Sum(p[c], Ktp)], Cont)
    BY <1>4, SumByRow, Zenon
  <2>. QED  BY <1>3, <2>1, Zenon
<1>6. Sum(fed, fs) = Sum(ktp, Ktp)
  <2>1. \A u \in fs : fed[u] = Sum(ktp, Bearing(Ktp, Feeder, u))
    BY DEF Bearing
  <2>2. fs = Borne(Ktp, Feeder)
    BY DEF Borne
  <2>. HIDE DEF ktp, fed, fs, own
  <2>3. Counts(ktp, Ktp)
    BY <1>5
  <2>. QED  BY <2>1, <2>2, <2>3, SumByGroup
<1>7. Counts(kw, Cont)
  BY <1>1 DEF Counts
<1>8. E!Aside \in SUBSET Cont /\ In \in SUBSET Cont /\ Cont = In \cup E!Aside
      /\ In \cap E!Aside = {}
  BY DEF E!Aside
<1>9. /\ \A c \in Cont : own[c] = (IF c \in E!Aside THEN 0 ELSE kw[c])
  BY <1>2
<1>. HIDE DEF ktp, fed, fs, own, In
<1>10. /\ Counts(own, In) /\ Counts(own, E!Aside) /\ Counts(kw, In) /\ Counts(kw, E!Aside)
       /\ Sum(kw, In) \in Nat /\ Sum(kw, E!Aside) \in Nat
  BY <1>5, <1>7, <1>8, CountsPart
<1>11. /\ Sum(own, Cont) = Sum(own, In) + Sum(own, E!Aside)
       /\ Sum(kw, Cont) = Sum(kw, In) + Sum(kw, E!Aside)
  BY <1>8, <1>10, SumApart
<1>12. Sum(own, In) = Sum(kw, In)
  <2>1. \A c \in In : own[c] = kw[c]
    BY <1>8, <1>9
  <2>. QED  BY <1>10, <2>1, SumMore
<1>13. Sum(own, E!Aside) = 0
  <2>1. \A c \in E!Aside : own[c] = 0 * kw[c]
    BY <1>1, <1>8, <1>9
  <2>2. Sum(own, E!Aside) = 0 * Sum(kw, E!Aside)
    BY <1>10, <2>1, SumTimes
  <2>. QED  BY <1>10, <2>2
<1>14. Sum(fed, fs) + Sum(kw, E!Aside) = Sum(kw, Cont)
  BY <1>5, <1>6, <1>10, <1>11, <1>12, <1>13
<1>. QED  BY <1>14, ESums DEF ktp, fed, fs

(* The page paints what adds up. *)
LEMMA ByPaint ==
    ASSUME E!Constants, ETyped, E!PaintScheme
    PROVE  E!SharesAddUp' /\ (scheme' = None \/ DOMAIN scheme'.ktp = Ktp)
<1>1. CASE ~E!Drawable
  BY <1>1 DEF E!PaintScheme, E!SharesAddUp
<1>2. CASE E!Drawable
  <2>. DEFINE ktp == [k \in Ktp |-> E!Sum([c \in Cont |-> E!Part(c, k)], Cont)]
              fs  == {Feeder[k] : k \in Ktp}
  <2>1. scheme'.ktp = ktp /\ scheme'.aside = E!Aside /\ scheme'.load = kw
    BY <1>2 DEF E!PaintScheme
  <2>2. E!Sum([u \in fs |-> E!Sum(ktp, {k \in Ktp : Feeder[k] = u})], fs) + E!Sum(kw, E!Aside)
        = E!Sum(kw, Cont)
    BY <1>2, PaintAddsUp
  <2>3. DOMAIN scheme'.ktp = Ktp
    BY <2>1
  <2>. HIDE DEF ktp
  <2>4. E!SharesAddUp'
    BY <2>1, <2>2 DEF E!SharesAddUp, E!OfFeeder
  <2>. QED  BY <2>3, <2>4
<1>. QED  BY <1>1, <1>2

LEMMA EInit ==
    ASSUME E!Constants, E!Init
    PROVE  EInv
<1>1. Most["energy"] \in Nat
  BY DEF E!Constants
<1>2. Stacked
  BY DEF E!Init, Stacked, Drawn
<1>3. E!SharesAddUp
  BY DEF E!Init, E!SharesAddUp
<1>4. acts \in 0..Most["energy"]
  BY <1>1 DEF E!Init
<1>5. byDay \in BOOLEAN /\ torn \in BOOLEAN
  BY DEF E!Init
<1>6. ETyped /\ E!TypeOK
  BY <1>4, <1>5 DEF E!Init, ETyped, E!TypeOK
<1>. QED  BY <1>2, <1>3, <1>6 DEF EInv

(* What is answered for the hours names known meters and adds up. *)
LEMMA SeriesDrawn ==
    ASSUME NEW day
    PROVE  Drawn(E!Series(day), known)
<1>1. ASSUME NEW t \in DOMAIN E!Series(day)
      PROVE  /\ E!Series(day)[t].kwh = Sum(E!Series(day)[t].by, DOMAIN E!Series(day)[t].by)
             /\ DOMAIN E!Series(day)[t].by \subseteq known
  <2>. DEFINE total == [m \in {m \in known : E!Kept(m, day, t) # {}} |->
                       E!Sum(hours[m], E!Kept(m, day, t))]
  <2>1. E!Series(day)[t] = [kwh |-> E!Sum(total, DOMAIN total), by |-> total]
    BY DEF E!Series
  <2>2. DOMAIN total \subseteq known
    OBVIOUS
  <2>. HIDE DEF total
  <2>. QED  BY <2>1, <2>2, ESums
<1>. QED  BY <1>1 DEF Drawn

(* The scheme stays as it was painted. *)
LEMMA SchemeStays ==
    ASSUME E!SharesAddUp, UNCHANGED scheme
    PROVE  E!SharesAddUp'
BY DEF E!SharesAddUp, E!OfFeeder

LEMMA ENext ==
    ASSUME E!Constants, EInv, [E!Next]_E!vars
    PROVE  EInv'
<1>0. Most["energy"] \in Nat /\ \A F \in File : DOMAIN F \subseteq Meter
  BY DEF E!Constants
<1>1. CASE E!PaintScheme
  <2>1. UNCHANGED <<named, kw, known, hours, meters, byDay, graph, torn, acts>>
    BY <1>1 DEF E!PaintScheme
  <2>. QED  BY <1>1, <2>1, ByPaint DEF EInv, ETyped, E!TypeOK, Stacked, Drawn
<1>2. ASSUME NEW c \in Cont, NEW x \in Name, NEW w \in Load, E!Changes(c, x, w) PROVE EInv'
  <2>1. UNCHANGED <<scheme, known, hours, meters, byDay, graph, torn>>
        /\ acts' \in 0..Most["energy"]
    BY <1>0, <1>2 DEF E!Changes, E!Does, EInv, E!TypeOK
  <2>2. ETyped'
    BY <1>2 DEF E!Changes, EInv, ETyped
  <2>. QED  BY <2>1, <2>2, SchemeStays DEF EInv, ETyped, E!TypeOK, Stacked, Drawn
<1>3. ASSUME NEW F \in File, E!Import(F) PROVE EInv'
  <2>1. UNCHANGED <<named, kw, scheme, meters, byDay, graph>> /\ acts' \in 0..Most["energy"]
    BY <1>0, <1>3 DEF E!Import, E!Does, EInv, E!TypeOK
  <2>2. known' = known \cup DOMAIN F /\ torn' = (torn \/ (meters # None /\ graph = None))
        /\ known' \subseteq Meter
    BY <1>0, <1>3 DEF E!Import, EInv, E!TypeOK
  <2>3. Stacked'
    BY <2>1, <2>2 DEF EInv, Stacked, Drawn
  <2>4. torn' \in BOOLEAN
    BY <2>2 DEF EInv, E!TypeOK
  <2>. QED  BY <2>1, <2>2, <2>3, <2>4, SchemeStays DEF EInv, ETyped, E!TypeOK
<1>4. ASSUME NEW day \in BOOLEAN, E!Open(day) PROVE EInv'
  <2>1. meters' = None /\ graph' = None /\ torn' = FALSE /\ byDay' = day
        /\ UNCHANGED <<named, kw, scheme, known, hours, acts>>
    BY <1>4 DEF E!Open
  <2>2. byDay' \in BOOLEAN /\ torn' \in BOOLEAN
    BY <2>1
  <2>. QED  BY <2>1, <2>2, SchemeStays DEF EInv, ETyped, E!TypeOK, Stacked
<1>5. CASE E!AnswerMeters
  <2>1. meters = None /\ meters' = known
        /\ UNCHANGED <<named, kw, scheme, known, hours, byDay, graph, torn, acts>>
    BY <1>5 DEF E!AnswerMeters
  <2>. QED  BY <2>1, SchemeStays DEF EInv, ETyped, E!TypeOK, Stacked, Drawn
<1>6. CASE E!AnswerHourly
  <2>1. graph = None /\ graph' = E!Series(byDay)
        /\ UNCHANGED <<named, kw, scheme, known, hours, byDay, meters, torn, acts>>
    BY <1>6 DEF E!AnswerHourly
  <2>2. Drawn(graph', known)
    BY <2>1, SeriesDrawn
  <2>3. Stacked'
    BY <2>1, <2>2 DEF EInv, Stacked
  <2>. QED  BY <2>1, <2>3, SchemeStays DEF EInv, ETyped, E!TypeOK
<1>7. CASE UNCHANGED E!vars
  <2>1. UNCHANGED <<named, kw, scheme, known, hours, meters, byDay, graph, torn, acts>>
    BY <1>7 DEF E!vars
  <2>. QED  BY <2>1, SchemeStays DEF EInv, ETyped, E!TypeOK, Stacked, Drawn
<1>. QED  BY <1>1, <1>2, <1>3, <1>4, <1>5, <1>6, <1>7 DEF E!Next

LEMMA EInductive ==
    ASSUME E!Constants
    PROVE  E!Spec => []EInv
<1>1. E!Init => EInv
  BY EInit
<1>2. EInv /\ [E!Next]_E!vars => EInv'
  BY ENext
<1>. QED  BY <1>1, <1>2, PTL DEF E!Spec

(* Energy.TypeOK, for every scheme, meters and files.                         *)
THEOREM EnergyTyped == ASSUME E!Constants PROVE E!Spec => []E!TypeOK
<1>1. EInv => E!TypeOK
  BY DEF EInv
<1>. QED  BY <1>1, EInductive, PTL

(* The loads of the feeders and of the containers left aside add up to the    *)
(* load of the farm (Energy.SharesAddUp; farm.js, enModel), for any number of *)
(* containers, of inputs, of substations and of feeders.                      *)
THEOREM ShareAddsUp == ASSUME E!Constants PROVE E!Spec => []E!SharesAddUp
<1>1. EInv => E!SharesAddUp
  BY DEF EInv
<1>. QED  BY <1>1, EInductive, PTL

(* A picture that is not torn stacks the meters it sums. *)
LEMMA EStacks ==
    ASSUME EInv
    PROVE  E!StackReachesTotal
<1>1. ASSUME meters # None, graph # None, ~torn, NEW t \in DOMAIN graph
      PROVE  E!Stack(t) = graph[t].kwh
  <2>1. meters \cap DOMAIN graph[t].by = DOMAIN graph[t].by
        /\ graph[t].kwh = Sum(graph[t].by, DOMAIN graph[t].by)
    BY <1>1 DEF EInv, Stacked, Drawn
  <2>. QED  BY <2>1, ESums DEF E!Stack
<1>. QED  BY <1>1 DEF E!StackReachesTotal

(* The stack of the meters reaches the figure of the hour or of the day       *)
(* (Energy.StackReachesTotal; farm.js, enPageHourly), whichever answer comes  *)
(* first and whatever was loaded before or after both.                        *)
THEOREM StackIsTotal == ASSUME E!Constants PROVE E!Spec => []E!StackReachesTotal
<1>1. EInv => E!StackReachesTotal
  BY EStacks
<1>. QED  BY <1>1, EInductive, PTL

(*---------------------- the table (T) ----------------------*)
(* The table of every page.  As long as no text reached a table already gone, *)
(* the list, the numbers on the options and the fields are what the filters   *)
(* in force make of the rows.                                                 *)

(* Its sizes are ours. *)
LEMMA TSizes ==
    \A X : T!Cardinality(X) = Cardinality(X) /\ T!IsFiniteSet(X) = IsFiniteSet(X)
BY DEF T!Cardinality, Cardinality, T!IsFiniteSet, IsFiniteSet

Fields == T!Col \cup T!Typed
Texts  == [k : T!Typed, v : Expr \cup {"text", None}, field : BOOLEAN, live : BOOLEAN]

TTyped ==
    /\ rows \subseteq Row /\ list \in Seq(Row) /\ n \in 0..Len(list)
    /\ flt = [k \in Fields |-> flt[k]] /\ head = [k \in Fields |-> head[k]] /\ by \in T!Sorts
    /\ \A c \in T!Col : flt[c] \in T!Vals(c) \cup {None}
    /\ later # None => later \in Texts /\ (later.field => later.live)
    /\ missed \in BOOLEAN /\ acts \in 0..Most["table"]

(* What a field shows: the option in force that has rows, a text in force, or *)
(* the text that is being typed.                                              *)
Shows(k) ==
    IF k \in T!Col THEN T!Selected(flt, opts, k)
    ELSE IF later # None /\ later.field /\ later.k = k THEN later.v ELSE flt[k]

UpToDate ==
    ~missed =>
        /\ list = T!Sorted(T!Passing(rows, flt), by)
        /\ opts = T!Options(rows, flt)
        /\ head = [k \in Fields |-> Shows(k)]

TInv == TTyped /\ UpToDate

(* Rows are in order by any column: no two are level. *)
LEMMA BeforeOrders ==
    ASSUME T!Constants, NEW s \in T!Sorts
    PROVE  /\ \A a, b \in Row : a = b \/ T!Before(s, a, b) \/ T!Before(s, b, a)
           /\ \A a, b \in Row : T!Before(s, a, b) => a # b /\ ~T!Before(s, b, a)
           /\ \A a, b, c \in Row : T!Before(s, a, b) /\ T!Before(s, b, c) => T!Before(s, a, c)
<1>1. /\ Row \subseteq Int /\ None \notin Int
      /\ \A r \in Row : T!Key(s.k, r) \in Int \cup {None}
  <2>1. s.k \in T!Col \cup {"num"}
    BY DEF T!Sorts
  <2>2. ASSUME NEW r \in Row PROVE T!Key(s.k, r) \in Int \cup {None}
    <3>1. CASE s.k = "num"
      BY <3>1 DEF T!Constants, T!Key
    <3>2. CASE s.k # "num"
      BY <2>1, <3>2 DEF T!Constants, T!Key, T!Vals
    <3>. QED  BY <3>1, <3>2
  <2>. QED  BY <2>2 DEF T!Constants
<1>2. \A a, b \in Row : a = b \/ T!Before(s, a, b) \/ T!Before(s, b, a)
  BY <1>1 DEF T!Before
<1>3. \A a, b \in Row : T!Before(s, a, b) => a # b /\ ~T!Before(s, b, a)
  BY <1>1 DEF T!Before
<1>4. \A a, b, c \in Row : T!Before(s, a, b) /\ T!Before(s, b, c) => T!Before(s, a, c)
  BY <1>1 DEF T!Before
<1>. QED  BY <1>2, <1>3, <1>4

(* Some row is the last. *)
LEMMA SomeLast ==
    ASSUME T!Constants, NEW s \in T!Sorts, NEW X \in SUBSET Row, X # {}
    PROVE  \E z \in X : \A y \in X : y = z \/ T!Before(s, y, z)
<1>. DEFINE Has(x) == \E z \in x : \A y \in x : y = z \/ T!Before(s, y, z)
            Y == {x \in SUBSET X : x # {} /\ ~Has(x)}
<1>1. IsFiniteSet(X)
  BY TSizes, FS_Subset DEF T!Constants
<1>2. SUFFICES ASSUME Y # {} PROVE FALSE
  OBVIOUS
<1>3. PICK x \in Y : \A z \in x : x \ {z} \notin Y
  BY <1>1, <1>2, Smallest
<1>4. PICK z \in x : TRUE
  BY <1>3
<1>5. CASE x \ {z} = {}
  BY <1>3, <1>4, <1>5
<1>6. CASE x \ {z} # {}
  <2>1. PICK w \in x \ {z} : \A y \in x \ {z} : y = w \/ T!Before(s, y, w)
    BY <1>3, <1>4, <1>6
  <2>2. x \subseteq Row
    BY <1>3
  <2>3. CASE T!Before(s, z, w)
    BY <1>3, <2>1, <2>3
  <2>4. CASE ~T!Before(s, z, w)
    <3>1. T!Before(s, w, z)
      BY <2>1, <2>2, <2>4, BeforeOrders
    <3>2. \A y \in x : y = z \/ T!Before(s, y, z)
      BY <2>1, <2>2, <3>1, BeforeOrders
    <3>. QED  BY <1>3, <1>4, <3>2
  <2>. QED  BY <2>3, <2>4
<1>. QED  BY <1>5, <1>6

(* Every place in the list is taken: some row has as many rows before it. *)
LEMMA EveryPlace ==
    ASSUME T!Constants, NEW s \in T!Sorts, NEW X \in SUBSET Row
    PROVE  /\ IsFiniteSet(X) /\ Cardinality(X) \in Nat
           /\ \A i \in 1..Cardinality(X) : \E r \in X : Cardinality({y \in X : T!Before(s, y, r)}) = i - 1
<1>. DEFINE Ahead(x, r) == {y \in x : T!Before(s, y, r)}
            Full(x) == \A i \in 1..Cardinality(x) : \E r \in x : Cardinality(Ahead(x, r)) = i - 1
            Y == {x \in SUBSET X : ~Full(x)}
<1>1. IsFiniteSet(X) /\ Cardinality(X) \in Nat
  BY TSizes, FS_Subset, FS_CardinalityType DEF T!Constants
<1>2. SUFFICES ASSUME Y # {} PROVE FALSE
  <2>1. X \in SUBSET X
    OBVIOUS
  <2>2. Y = {} => Full(X)
    <3>. HIDE DEF Full
    <3>. QED  BY <2>1
  <2>. QED  BY <1>1, <2>2
<1>3. PICK x \in Y : \A z \in x : x \ {z} \notin Y
  BY <1>1, <1>2, Smallest
<1>4. x \in SUBSET Row /\ x \in SUBSET X /\ ~Full(x) /\ IsFiniteSet(x) /\ Cardinality(x) \in Nat
  BY <1>1, <1>3, FS_Subset, FS_CardinalityType
<1>5. x # {}
  BY <1>4, FS_EmptySet
<1>6. PICK z \in x : \A y \in x : y = z \/ T!Before(s, y, z)
  BY <1>4, <1>5, SomeLast
<1>7. Full(x \ {z})
  BY <1>3, <1>6
<1>8. Cardinality(x \ {z}) = Cardinality(x) - 1
  BY <1>4, <1>6, FS_RemoveElement
<1>9. Ahead(x, z) = x \ {z}
  BY <1>4, <1>6, BeforeOrders
<1>10. \A r \in x \ {z} : Ahead(x, r) = Ahead(x \ {z}, r)
  BY <1>4, <1>6, BeforeOrders
<1>11. ASSUME NEW i \in 1..Cardinality(x)
       PROVE  \E r \in x : Cardinality(Ahead(x, r)) = i - 1
  <2>1. CASE i = Cardinality(x)
    BY <1>6, <1>8, <1>9, <2>1
  <2>2. CASE i # Cardinality(x)
    <3>1. i \in 1..Cardinality(x \ {z})
      BY <1>4, <1>8, <2>2
    <3>2. PICK r \in x \ {z} : Cardinality(Ahead(x \ {z}, r)) = i - 1
      BY <1>7, <3>1
    <3>. QED  BY <1>10, <3>2
  <2>. QED  BY <2>1, <2>2
<1>. QED  BY <1>4, <1>11

(* The list has the rows that pass, as many as there are. *)
LEMMA SortedIs ==
    ASSUME T!Constants, NEW s \in T!Sorts, NEW X \in SUBSET Row
    PROVE  T!Sorted(X, s) \in Seq(X) /\ Len(T!Sorted(X, s)) = Cardinality(X)
<1>1. Cardinality(X) \in Nat
  BY EveryPlace
<1>. DEFINE place(i) == CHOOSE r \in X : Cardinality({y \in X : T!Before(s, y, r)}) = i - 1
            q == [i \in 1..Cardinality(X) |-> place(i)]
<1>2. T!Sorted(X, s) = q
  BY DEF T!Sorted, T!Cardinality, Cardinality
<1>3. \A i \in 1..Cardinality(X) : place(i) \in X
  BY EveryPlace
<1>. HIDE DEF place
<1>4. q \in Seq(X) /\ Len(q) = Cardinality(X)
  BY <1>1, <1>3
<1>. QED  BY <1>2, <1>4

(* Filters that may be in force. *)
Kept(x) == x = [k \in Fields |-> x[k]] /\ \A c \in T!Col : x[c] \in T!Vals(c) \cup {None}

LEMMA KeptNone == Kept(T!NoFlt)
BY DEF Kept, T!NoFlt, Fields

LEMMA KeptMore ==
    ASSUME NEW x, NEW k \in Fields, NEW v, Kept(x), k \in T!Col => v \in T!Vals(k) \cup {None}
    PROVE  LET y == [x EXCEPT ![k] = v] IN
           /\ Kept(y) /\ y[k] = v /\ \A j \in Fields : j # k => y[j] = x[j]
           /\ \A u : [y EXCEPT ![k] = u] = [x EXCEPT ![k] = u]
<1>1. /\ [x EXCEPT ![k] = v][k] = v /\ \A j \in Fields : j # k => [x EXCEPT ![k] = v][j] = x[j]
      /\ \A u : [[x EXCEPT ![k] = v] EXCEPT ![k] = u] = [x EXCEPT ![k] = u]
  BY DEF Kept
<1>2. [x EXCEPT ![k] = v] = [j \in Fields |-> [x EXCEPT ![k] = v][j]]
  BY DEF Kept
<1>3. \A c \in T!Col : [x EXCEPT ![k] = v][c] \in T!Vals(c) \cup {None}
  <2>1. T!Col \subseteq Fields
    BY DEF Fields
  <2>. QED  BY <1>1, <2>1 DEF Kept
<1>. QED  BY <1>1, <1>2, <1>3 DEF Kept

(* The list made anew: its rows, its length, its first page. *)
LEMMA BodyIs ==
    ASSUME T!Constants, NEW R \in SUBSET Row, NEW x, NEW s \in T!Sorts, T!Body(R, x, s)
    PROVE  /\ rows' = R /\ flt' = x /\ by' = s /\ list' = T!Sorted(T!Passing(R, x), s)
           /\ list' \in Seq(Row) /\ n' \in 0..Len(list')
              /\ Len(list') = Cardinality(T!Passing(R, x))
<1>1. T!Passing(R, x) \in SUBSET Row
  BY DEF T!Passing
<1>2. rows' = R /\ flt' = x /\ by' = s /\ list' = T!Sorted(T!Passing(R, x), s)
      /\ n' = T!Least(PageN, Len(list'))
  BY DEF T!Body
<1>3. /\ T!Sorted(T!Passing(R, x), s) \in Seq(T!Passing(R, x))
      /\ Len(list') = Cardinality(T!Passing(R, x))
  BY <1>1, <1>2, SortedIs
<1>4. list' \in Seq(Row) /\ Len(list') \in Nat
  BY <1>1, <1>2, <1>3
<1>5. n' \in 0..Len(list')
  <2>1. PageN \in Nat
    BY DEF T!Constants
  <2>. QED  BY <1>2, <1>4, <2>1 DEF T!Least
<1>. QED  BY <1>2, <1>3, <1>4, <1>5

(* The numbers on the options of one column. *)
Numbers(R, x, c) ==
    [v \in T!Vals(c) |-> T!Cardinality({r \in T!Passing(R, [x EXCEPT ![c] = None]) : Val[c][r] = v})]

LEMMA OptionsAre ==
    ASSUME NEW R, NEW x
    PROVE  /\ T!Options(R, x) = [c \in T!Col |-> Numbers(R, x, c)]
           /\ \A c \in T!Col : T!Options(R, x)[c] = Numbers(R, x, c)
BY DEF T!Options, Numbers

(* A click or a redraw has the table painted anew, fields and all. *)
LEMMA ByRehead ==
    ASSUME T!Constants, TInv, NEW R \in SUBSET Row, NEW x, Kept(x), NEW s \in T!Sorts,
           NEW live \in BOOLEAN,
           T!Does, T!Body(R, x, s), T!Rehead(R, x), T!Orphan(live)
    PROVE  TInv'
<1>1. /\ rows' = R /\ flt' = x /\ by' = s /\ list' = T!Sorted(T!Passing(R, x), s)
      /\ list' \in Seq(Row) /\ n' \in 0..Len(list')
  BY BodyIs
<1>2. /\ opts' = T!Options(R, x) /\ missed' = FALSE
      /\ head' = [k \in Fields |-> IF k \in T!Col THEN T!Selected(x, opts', k) ELSE x[k]]
  BY DEF T!Rehead, Fields
<1>3. later' # None => later' \in Texts /\ later'.field = FALSE
  <2>1. CASE later = None
    BY <2>1 DEF T!Orphan
  <2>2. CASE later # None
    <3>1. later \in Texts
      BY <2>2 DEF TInv, TTyped
    <3>2. PICK b \in BOOLEAN : later' = [later EXCEPT !.field = FALSE, !.live = b]
      <4>1. (later.live /\ live) \in BOOLEAN
        OBVIOUS
      <4>. QED  BY <2>2, <4>1, Zenon DEF T!Orphan
    <3>. QED  BY <3>1, <3>2 DEF Texts
  <2>. QED  BY <2>1, <2>2
<1>4. acts' \in 0..Most["table"]
  <2>1. Most["table"] \in Nat
    BY DEF T!Constants
  <2>. QED  BY <2>1 DEF T!Does, TInv, TTyped
<1>5. head' = [k \in Fields |-> Shows(k)']
  <2>1. \A k \in Fields : Shows(k)' = IF k \in T!Col THEN T!Selected(x, opts', k) ELSE x[k]
    BY <1>1, <1>3 DEF Shows
  <2>. QED  BY <1>2, <2>1
<1>6. head' = [k \in Fields |-> head'[k]]
  BY <1>2
<1>7. TTyped'
  BY <1>1, <1>2, <1>3, <1>4, <1>6 DEF TTyped, Kept
<1>8. UpToDate'
  BY <1>1, <1>2, <1>5 DEF UpToDate
<1>. QED  BY <1>7, <1>8 DEF TInv

(* A filter of one column changes: the options of that column are not filled  *)
(* again, and need not be, for they do not depend on it.                      *)
LEMMA UpdIs ==
    ASSUME T!Constants, TInv, NEW k \in Fields, NEW v, T!Upd(k, v),
           k \in T!Col => v \in T!Vals(k) \cup {None}
    PROVE  /\ rows' = rows /\ by' = by /\ flt' = [flt EXCEPT ![k] = v] /\ Kept(flt') /\ flt'[k] = v
           /\ \A j \in Fields : j # k => flt'[j] = flt[j]
           /\ list' \in Seq(Row) /\ n' \in 0..Len(list')
              /\ Len(list') = Cardinality(T!Passing(rows', flt'))
           /\ ~missed => list' = T!Sorted(T!Passing(rows', flt'), by')
              /\ opts' = T!Options(rows', flt')
           /\ head' = [j \in Fields |-> head'[j]]
           /\ \A j \in Fields : head'[j] = IF j = k /\ k \in T!Col THEN v
                                           ELSE IF j \in T!Col THEN T!Selected(flt', T!Options(rows', flt'), j)
                                           ELSE head[j]
<1>. DEFINE x == [flt EXCEPT ![k] = v]
            o == T!Options(rows, x)
<1>1. /\ T!Body(rows, x, by)
      /\ opts' = [c \in T!Col |-> IF c = k THEN opts[c] ELSE o[c]]
      /\ head' = [j \in DOMAIN head |-> IF j = k /\ k \in T!Col THEN v
                                        ELSE IF j \in T!Col THEN T!Selected(x, o, j) ELSE head[j]]
  BY DEF T!Upd
<1>2. Kept(flt) /\ rows \in SUBSET Row /\ by \in T!Sorts /\ DOMAIN head = Fields
  BY DEF TInv, TTyped, Kept
<1>3. /\ Kept(x) /\ x[k] = v /\ \A j \in Fields : j # k => x[j] = flt[j]
      /\ \A u : [x EXCEPT ![k] = u] = [flt EXCEPT ![k] = u]
  BY <1>2, KeptMore, SMTT(30)
<1>. HIDE DEF x
<1>4. /\ rows' = rows /\ flt' = x /\ by' = by /\ list' = T!Sorted(T!Passing(rows, x), by)
      /\ list' \in Seq(Row) /\ n' \in 0..Len(list') /\ Len(list') = Cardinality(T!Passing(rows, x))
  BY <1>1, <1>2, BodyIs
<1>5. ASSUME ~missed PROVE opts' = o
  <2>1. opts = T!Options(rows, flt)
    BY <1>5 DEF TInv, UpToDate
  <2>2. ASSUME NEW c \in T!Col, c = k PROVE opts[c] = o[c]
    <3>1. Numbers(rows, flt, c) = Numbers(rows, x, c)
      BY <1>3, <2>2 DEF Numbers
    <3>. QED  BY <2>1, <3>1, OptionsAre
  <2>3. o = [c \in T!Col |-> o[c]]
    BY OptionsAre
  <2>. HIDE DEF o
  <2>. QED  BY <1>1, <2>2, <2>3
<1>6. T!Options(rows', flt') = o
  BY <1>4
<1>. HIDE DEF o
<1>7. head' = [j \in Fields |-> head'[j]]
  BY <1>1, <1>2
<1>8. \A j \in Fields : head'[j] = IF j = k /\ k \in T!Col THEN v
                                   ELSE IF j \in T!Col THEN T!Selected(flt', T!Options(rows', flt'), j)
                                   ELSE head[j]
  BY <1>1, <1>2, <1>4, <1>6
<1>. QED  BY <1>3, <1>4, <1>5, <1>6, <1>7, <1>8 DEF x

(* The fields under the typed columns when nothing but the filter changes. *)
LEMMA HeadTyped ==
    ASSUME T!Constants, TInv, ~missed, NEW k \in T!Typed
    PROVE  /\ k \in Fields /\ k \notin T!Col
           /\ head[k] = IF later # None /\ later.field /\ later.k = k THEN later.v ELSE flt[k]
BY DEF T!Constants, Fields, TInv, UpToDate, Shows

LEMMA ByChoose ==
    ASSUME T!Constants, TInv, NEW c \in T!Col, NEW v \in T!Vals(c) \cup {None}, T!Choose(c, v)
    PROVE  TInv'
<1>1. /\ T!Does /\ T!Upd(c, v) /\ UNCHANGED <<later, missed>> /\ (v # None => opts[c][v] > 0)
  BY DEF T!Choose
<1>2. c \in Fields
  BY DEF Fields
<1>3. /\ rows' = rows /\ by' = by /\ Kept(flt') /\ flt'[c] = v
      /\ \A j \in Fields : j # c => flt'[j] = flt[j]
      /\ list' \in Seq(Row) /\ n' \in 0..Len(list')
      /\ ~missed => list' = T!Sorted(T!Passing(rows', flt'), by') /\ opts' = T!Options(rows', flt')
      /\ head' = [j \in Fields |-> head'[j]]
      /\ \A j \in Fields : head'[j] = IF j = c /\ c \in T!Col THEN v
                                      ELSE IF j \in T!Col THEN T!Selected(flt', T!Options(rows', flt'), j)
                                      ELSE head[j]
  BY <1>1, <1>2, UpdIs
<1>4. acts' \in 0..Most["table"]
  <2>1. Most["table"] \in Nat
    BY DEF T!Constants
  <2>. QED  BY <1>1, <2>1 DEF T!Does, TInv, TTyped
<1>5. TTyped'
  BY <1>1, <1>3, <1>4 DEF TInv, TTyped, Kept
<1>6. ASSUME ~missed, NEW j \in Fields PROVE head'[j] = Shows(j)'
  <2>1. CASE j = c
    <3>1. opts = T!Options(rows, flt) /\ opts' = T!Options(rows', flt')
      BY <1>3, <1>6 DEF TInv, UpToDate
    <3>2. opts'[c] = opts[c]
      BY <1>1 DEF T!Upd
    <3>3. Shows(j)' = T!Selected(flt', opts', c)
      BY <2>1 DEF Shows
    <3>. QED  BY <1>1, <1>3, <2>1, <3>2, <3>3 DEF T!Selected
  <2>2. CASE j \in T!Col /\ j # c
    BY <1>3, <1>6, <2>2 DEF Shows
  <2>3. CASE j \notin T!Col
    <3>1. j \in T!Typed /\ j # c
      BY <2>3 DEF Fields
    <3>2. head[j] = IF later # None /\ later.field /\ later.k = j THEN later.v ELSE flt[j]
      BY <1>6, <3>1, HeadTyped
    <3>. QED  BY <1>1, <1>3, <2>3, <3>1, <3>2 DEF Shows
  <2>. QED  BY <2>1, <2>2, <2>3
<1>7. UpToDate'
  <2>1. ASSUME ~missed' PROVE head' = [j \in Fields |-> Shows(j)']
    BY <1>1, <1>3, <1>6, <2>1
  <2>. QED  BY <1>1, <1>3, <2>1 DEF UpToDate
<1>. QED  BY <1>5, <1>7 DEF TInv

LEMMA ByType ==
    ASSUME T!Constants, TInv, NEW k, NEW e,
           (k = "num" /\ e \in Expr \cup {None})
           \/ (k = "text" /\ e \in {"text", None}), T!Type(k, e)
    PROVE  TInv'
<1>1. /\ T!Does /\ (later # None => later.k = k) /\ head' = [head EXCEPT ![k] = e]
      /\ later' = [k |-> k, v |-> e, field |-> TRUE, live |-> TRUE]
      /\ UNCHANGED <<rows, flt, by, list, n, opts, missed>>
  BY DEF T!Type
<1>2. k \in T!Typed /\ k \in Fields /\ k \notin T!Col
  BY DEF T!Typed, T!Constants, Fields
<1>3. later' # None
  BY <1>1 DEF T!Constants
<1>4. later' \in Texts /\ later'.field /\ later'.live /\ later'.k = k /\ later'.v = e
  BY <1>1, <1>2 DEF Texts
<1>5. acts' \in 0..Most["table"]
  <2>1. Most["table"] \in Nat
    BY DEF T!Constants
  <2>. QED  BY <1>1, <2>1 DEF T!Does, TInv, TTyped
<1>6. /\ head' = [j \in Fields |-> head'[j]] /\ head'[k] = e
      /\ \A j \in Fields : j # k => head'[j] = head[j]
  <2>1. DOMAIN head = Fields
    BY DEF TInv, TTyped
  <2>. QED  BY <1>1, <1>2, <2>1
<1>7. TTyped'
  BY <1>1, <1>4, <1>5, <1>6 DEF TInv, TTyped
<1>8. ASSUME ~missed, NEW j \in Fields PROVE head'[j] = Shows(j)'
  <2>1. CASE j = k
    BY <1>2, <1>3, <1>4, <1>6, <2>1 DEF Shows
  <2>2. CASE j \in T!Col
    <3>1. j # k /\ head[j] = T!Selected(flt, opts, j)
      BY <1>2, <1>8, <2>2 DEF TInv, UpToDate, Shows
    <3>2. flt' = flt /\ opts' = opts
      BY <1>1
    <3>. QED  BY <1>6, <2>2, <3>1, <3>2 DEF Shows
  <2>3. CASE j \notin T!Col /\ j # k
    <3>1. j \in T!Typed
      BY <2>3 DEF Fields
    <3>2. head[j] = flt[j]
      BY <1>1, <1>8, <2>3, <3>1, HeadTyped
    <3>. QED  BY <1>1, <1>4, <1>6, <2>3, <3>2 DEF Shows
  <2>. QED  BY <2>1, <2>2, <2>3
<1>9. UpToDate'
  <2>1. ASSUME ~missed' PROVE head' = [j \in Fields |-> Shows(j)']
    BY <1>1, <1>6, <1>8, <2>1
  <2>. QED  BY <1>1, <2>1 DEF TInv, UpToDate
<1>. QED  BY <1>7, <1>9 DEF TInv

LEMMA ByFire ==
    ASSUME T!Constants, TInv, T!Fire
    PROVE  TInv'
<1>. DEFINE k == later.k
            v == later.v
<1>1. later # None /\ later' = None /\ missed' = (missed \/ ~later.field) /\ acts' = acts
  BY DEF T!Fire
<1>2. /\ k \in T!Typed /\ k \in Fields /\ k \notin T!Col /\ later.field \in BOOLEAN
      /\ later.live \in BOOLEAN
      /\ later.field => later.live
  BY <1>1 DEF TInv, TTyped, Texts, T!Constants, Fields
<1>3. missed' \in BOOLEAN
  BY <1>1, <1>2 DEF TInv, TTyped
<1>. HIDE DEF k, v
<1>4. CASE ~later.live
  <2>1. flt' = [flt EXCEPT ![k] = v] /\ UNCHANGED <<rows, by, list, n, head, opts>>
    BY <1>4 DEF T!Fire, k, v
  <2>2. Kept(flt')
    <3>1. Kept(flt)
      BY DEF TInv, TTyped, Kept
    <3>. QED  BY <1>2, <2>1, <3>1, KeptMore
  <2>3. TTyped'
    BY <1>1, <1>3, <2>1, <2>2 DEF TInv, TTyped, Kept
  <2>4. missed'
    BY <1>1, <1>2, <1>4
  <2>. QED  BY <2>3, <2>4 DEF TInv, UpToDate
<1>5. CASE later.live
  <2>1. T!Upd(k, v)
    BY <1>5 DEF T!Fire, k, v
  <2>2. /\ rows' = rows /\ by' = by /\ Kept(flt') /\ flt'[k] = v
        /\ \A j \in Fields : j # k => flt'[j] = flt[j]
        /\ list' \in Seq(Row) /\ n' \in 0..Len(list')
        /\ ~missed => list' = T!Sorted(T!Passing(rows', flt'), by')
           /\ opts' = T!Options(rows', flt')
        /\ head' = [j \in Fields |-> head'[j]]
        /\ \A j \in Fields : head'[j] = IF j = k /\ k \in T!Col THEN v
                                        ELSE IF j \in T!Col THEN T!Selected(flt', T!Options(rows', flt'), j)
                                        ELSE head[j]
    BY <1>2, <2>1, UpdIs
  <2>3. TTyped'
    BY <1>1, <1>3, <2>2 DEF TInv, TTyped, Kept
  <2>4. ASSUME ~missed', NEW j \in Fields PROVE head'[j] = Shows(j)'
    <3>1. ~missed /\ later.field
      BY <1>1, <1>2, <2>4
    <3>2. CASE j \in T!Col
      BY <1>2, <2>2, <3>1, <3>2 DEF Shows
    <3>3. CASE j \notin T!Col
      <4>1. j \in T!Typed
        BY <3>3 DEF Fields
      <4>2. head[j] = IF later.k = j THEN later.v ELSE flt[j]
        BY <1>1, <3>1, <4>1, HeadTyped
      <4>3. head'[j] = flt'[j]
        BY <2>2, <3>3, <4>2 DEF k, v
      <4>. QED  BY <1>1, <3>3, <4>3 DEF Shows
    <3>. QED  BY <3>2, <3>3
  <2>5. UpToDate'
    <3>1. ASSUME ~missed' PROVE head' = [j \in Fields |-> Shows(j)']
      BY <2>2, <2>4, <3>1
    <3>2. missed => missed'
      BY <1>1
    <3>. QED  BY <2>2, <3>1, <3>2 DEF UpToDate
  <2>. QED  BY <2>3, <2>5 DEF TInv
<1>. QED  BY <1>2, <1>4, <1>5

LEMMA ByMore ==
    ASSUME T!Constants, TInv, T!More \/ UNCHANGED T!vars
    PROVE  TInv'
<1>1. /\ UNCHANGED <<rows, flt, by, list, head, opts, later, missed, acts>>
      /\ n' = n \/ (n < Len(list) /\ n' = T!Least(n + PageN, Len(list)))
  BY DEF T!More, T!vars
<1>2. n' \in 0..Len(list)
  <2>1. PageN \in Nat /\ n \in 0..Len(list) /\ Len(list) \in Nat
    BY DEF T!Constants, TInv, TTyped
  <2>. QED  BY <1>1, <2>1 DEF T!Least
<1>3. TTyped'
  BY <1>1, <1>2 DEF TInv, TTyped
<1>4. \A j \in Fields : Shows(j)' = Shows(j)
  BY <1>1 DEF Shows
<1>5. UpToDate'
  BY <1>1, <1>4 DEF TInv, UpToDate
<1>. QED  BY <1>3, <1>5 DEF TInv

LEMMA TInit ==
    ASSUME T!Constants, T!Init
    PROVE  TInv
<1>1. PICK R \in Given :
          /\ rows = R /\ flt = T!NoFlt /\ by = [k |-> "num", desc |-> FALSE]
          /\ list = T!Sorted(R, by) /\ n = T!Least(PageN, Len(list))
          /\ opts = T!Options(R, T!NoFlt) /\ head = T!NoFlt
          /\ later = None /\ missed = FALSE /\ acts = 0
  BY DEF T!Init
<1>2. R \in SUBSET Row /\ PageN \in Nat /\ Most["table"] \in Nat
  BY DEF T!Constants
<1>3. by \in T!Sorts
  BY <1>1 DEF T!Sorts
<1>4. list \in Seq(Row) /\ Len(list) \in Nat
  BY <1>1, <1>2, <1>3, SortedIs
<1>5. n \in 0..Len(list) /\ acts \in 0..Most["table"]
  BY <1>1, <1>2, <1>4 DEF T!Least
<1>6. Kept(flt) /\ \A k \in Fields : flt[k] = None
  BY <1>1, KeptNone DEF T!NoFlt, Fields
<1>7. TTyped
  BY <1>1, <1>2, <1>3, <1>4, <1>5, <1>6 DEF TTyped, Kept
<1>8. T!Passing(R, flt) = R
  BY <1>6 DEF T!Passing, Fields, T!Typed
<1>9. \A k \in Fields : head[k] = Shows(k)
  BY <1>1, <1>6 DEF Shows, T!Selected, Fields
<1>10. head = [k \in Fields |-> Shows(k)]
  BY <1>1, <1>6, <1>9 DEF Kept
<1>11. UpToDate
  BY <1>1, <1>8, <1>10 DEF UpToDate
<1>. QED  BY <1>7, <1>11 DEF TInv

LEMMA TNext ==
    ASSUME T!Constants, TInv, [T!Next]_T!vars
    PROVE  TInv'
<1>1. Kept(flt) /\ rows \in SUBSET Row /\ by \in T!Sorts
  BY DEF TInv, TTyped, Kept
<1>2. ASSUME NEW R \in Given, T!Draw(R) PROVE TInv'
  <2>1. R \in SUBSET Row
    BY DEF T!Constants
  <2>. QED  BY <1>1, <1>2, <2>1, ByRehead DEF T!Draw
<1>3. ASSUME NEW k \in T!Col \cup {"num"}, T!Sort(k) PROVE TInv'
  <2>1. PICK d \in BOOLEAN : d = (by.k = k /\ ~by.desc)
    OBVIOUS
  <2>2. T!Does /\ T!Body(rows, flt, [k |-> k, desc |-> d]) /\ T!Rehead(rows, flt) /\ T!Orphan(TRUE)
    BY <1>3, <2>1, Zenon DEF T!Sort
  <2>3. [k |-> k, desc |-> d] \in T!Sorts
    BY DEF T!Sorts
  <2>. QED  BY <1>1, <2>2, <2>3, ByRehead
<1>4. ASSUME T!Clear PROVE TInv'
  BY <1>1, <1>4, KeptNone, ByRehead DEF T!Clear
<1>5. ASSUME NEW e \in Expr \cup {None}, T!Type("num", e) PROVE TInv'
  BY <1>5, ByType
<1>6. ASSUME NEW e \in {"text", None}, T!Type("text", e) PROVE TInv'
  BY <1>6, ByType
<1>. QED  BY <1>2, <1>3, <1>4, <1>5, <1>6, ByChoose, ByFire, ByMore DEF T!Next

LEMMA TInductive ==
    ASSUME T!Constants
    PROVE  T!Spec => []TInv
<1>1. T!Init => TInv
  BY TInit
<1>2. TInv /\ [T!Next]_T!vars => TInv'
  BY TNext
<1>. QED  BY <1>1, <1>2, PTL DEF T!Spec

(* There is a filter for every column. *)
LEMMA TIsTyped ==
    ASSUME TInv
    PROVE  T!TypeOK
<1>1. DOMAIN flt = T!Col \cup T!Typed /\ DOMAIN head = DOMAIN flt
  BY DEF TInv, TTyped, Fields
<1>2. ASSUME later # None PROVE later.k \in T!Typed /\ later.field \in BOOLEAN
  BY <1>2 DEF TInv, TTyped, Texts
<1>. QED  BY <1>1, <1>2 DEF TInv, TTyped, T!TypeOK

(* Table.TypeOK, for every table: no more rows are drawn than are listed.     *)
THEOREM TableTyped == ASSUME T!Constants PROVE T!Spec => []T!TypeOK
<1>1. TInv => T!TypeOK
  BY TIsTyped
<1>. QED  BY <1>1, TInductive, PTL

(* An option that rows pass is not shown as "all". *)
LEMMA TShowsFilters ==
    ASSUME T!Constants, TInv
    PROVE  T!FiltersShow
<1>. SUFFICES ASSUME list # <<>>, later = None, ~missed PROVE head = flt
  BY DEF T!FiltersShow
<1>1. /\ list = T!Sorted(T!Passing(rows, flt), by) /\ opts = T!Options(rows, flt)
      /\ head = [k \in Fields |-> Shows(k)] /\ flt = [k \in Fields |-> flt[k]]
      /\ rows \in SUBSET Row /\ by \in T!Sorts /\ list \in Seq(Row)
  BY DEF TInv, TTyped, UpToDate
<1>2. T!Passing(rows, flt) \in SUBSET Row
  BY <1>1 DEF T!Passing
<1>3. Cardinality(T!Passing(rows, flt)) # 0
  BY <1>1, <1>2, SortedIs
<1>4. ASSUME NEW c \in T!Col, flt[c] # None PROVE opts[c][flt[c]] > 0
  <2>1. flt[c] \in T!Vals(c)
    BY <1>4 DEF TInv, TTyped
  <2>. DEFINE y == [flt EXCEPT ![c] = None]
              X == {r \in T!Passing(rows, y) : Val[c][r] = flt[c]}
  <2>2. opts[c][flt[c]] = Cardinality(X)
    <3>1. opts[c][flt[c]] = T!Cardinality(X)
      <4>1. opts[c] = Numbers(rows, flt, c)
        BY <1>1, OptionsAre
      <4>. QED  BY <2>1, <4>1 DEF Numbers
    <3>. HIDE DEF X
    <3>. QED  BY <3>1, TSizes
  <2>3. X = T!Passing(rows, flt)
    <3>1. c \in Fields /\ \A j \in Fields : y[j] = IF j = c THEN None ELSE flt[j]
      BY <1>1 DEF Fields
    <3>2. T!Col \subseteq Fields /\ "text" \in Fields /\ "num" \in Fields /\ c # "text" /\ c # "num"
      BY DEF Fields, T!Typed, T!Constants
    <3>. HIDE DEF y
    <3>3. \A r \in rows : r \in X <=> r \in T!Passing(rows, flt)
      BY <1>4, <3>1, <3>2 DEF T!Passing
    <3>. QED  BY <3>3 DEF T!Passing
  <2>4. Cardinality(X) \in Nat
    BY <1>2, <2>3, <1>1, EveryPlace
  <2>. HIDE DEF X
  <2>. QED  BY <1>3, <2>2, <2>3, <2>4
<1>5. \A k \in Fields : Shows(k) = flt[k]
  BY <1>4 DEF Shows, T!Selected
<1>. QED  BY <1>1, <1>5

(* Whenever rows are listed, the fields show the filters in force             *)
(* (Table.FiltersShow; farm.js, DT): an option in force that rows pass has    *)
(* rows, and so is not shown as "all".                                        *)
THEOREM FiltersAreShown == ASSUME T!Constants PROVE T!Spec => []T!FiltersShow
<1>1. TInv => T!FiltersShow
  BY TShowsFilters
<1>. QED  BY <1>1, TInductive, PTL

(* The rows that pass with the option are those it was counted for. *)
LEMMA TListsOption ==
    ASSUME T!Constants, TInv
    PROVE  T!ChosenIsListed
<1>. SUFFICES ASSUME NEW c \in T!Col, NEW v \in T!Vals(c), T!Choose(c, v), ~missed
              PROVE  Len(list') = opts[c][v]
  BY DEF T!ChosenIsListed
<1>1. T!Upd(c, v) /\ c \in Fields
  BY DEF T!Choose, Fields
<1>2. /\ rows' = rows /\ flt' = [flt EXCEPT ![c] = v]
      /\ Len(list') = Cardinality(T!Passing(rows', flt'))
  BY <1>1, UpdIs
<1>3. opts = T!Options(rows, flt) /\ flt = [k \in Fields |-> flt[k]]
  BY DEF TInv, TTyped, UpToDate
<1>. DEFINE y == [flt EXCEPT ![c] = None]
            z == [flt EXCEPT ![c] = v]
            X == {r \in T!Passing(rows, y) : Val[c][r] = v}
<1>4. opts[c][v] = Cardinality(X)
  <2>1. opts[c][v] = T!Cardinality(X)
    <3>1. opts[c] = Numbers(rows, flt, c)
      BY <1>3, OptionsAre
    <3>. QED  BY <3>1 DEF Numbers
  <2>. HIDE DEF X
  <2>. QED  BY <2>1, TSizes
<1>5. X = T!Passing(rows, z)
  <2>1. /\ \A j \in Fields : y[j] = IF j = c THEN None ELSE flt[j]
        /\ \A j \in Fields : z[j] = IF j = c THEN v ELSE flt[j]
    BY <1>1, <1>3
  <2>2. T!Col \subseteq Fields /\ "text" \in Fields /\ "num" \in Fields /\ c # "text" /\ c # "num"
    BY DEF Fields, T!Typed, T!Constants
  <2>3. v # None
    BY DEF T!Constants
  <2>. HIDE DEF y, z
  <2>4. \A r \in rows : r \in X <=> r \in T!Passing(rows, z)
    BY <2>1, <2>2, <2>3 DEF T!Passing
  <2>. QED  BY <2>4 DEF T!Passing
<1>. QED  BY <1>2, <1>4, <1>5

(* The number beside an option is what choosing it lists (Table.OptionTells;  *)
(* farm.js, selOpts and upd), after any filters, clicks and redraws.          *)
THEOREM OptionIsListed == ASSUME T!Constants PROVE T!Spec => T!OptionTells
<1>1. TInv => T!ChosenIsListed
  BY TListsOption
<1>2. TInv /\ [T!Next]_T!vars => [T!ChosenIsListed]_T!vars
  BY <1>1
<1>. QED  BY <1>1, TInductive, PTL DEF T!Spec, T!OptionTells

(*---------------------- the drawer (D) ----------------------*)
(* The pane at the side.  While a card is in sight, the buttons act on it and *)
(* the text in its field is its own or was typed under it.                    *)

Change == [op : {"save", "delete"}, card : Card, text : AnyText]

DTyped ==
    /\ shut \in BOOLEAN /\ pane \in Card \cup {None, Spin} /\ bound \in Card \cup {None}
    /\ field \in AnyText /\ calls \in [Slot -> Card \cup {None}]
    /\ jobs \in [Saves -> Change \cup {None}]
    /\ label \in [Card -> AnyText] /\ gone \subseteq Card
    /\ text \in Query \cup {None} /\ runs \in [Slot -> Query \cup {None}]
    /\ box \in Query \cup {None} /\ modal \subseteq D!Devices /\ acts \in 0..Most["drawer"]

OneCard == pane \in Card => bound = pane /\ typer = pane

DInv == DTyped /\ OneCard

(* A card is asked for: the pane waits. *)
LEMMA DAsk ==
    ASSUME D!Constants, DInv, NEW c \in Card, D!Ask(c)
    PROVE  /\ calls' \in [Slot -> Card \cup {None}] /\ pane' = Spin /\ shut' = FALSE
           /\ UNCHANGED <<bound, field, typer>> /\ pane' \notin Card
<1>1. PICK s \in D!Free(calls) : calls' = [calls EXCEPT ![s] = c]
  BY DEF D!Ask
<1>2. s \in Slot
  BY DEF D!Free, DInv, DTyped
<1>. QED  BY <1>1, <1>2 DEF D!Ask, D!Constants, DInv, DTyped

LEMMA DDoes ==
    ASSUME D!Constants, DInv, D!Does
    PROVE  acts' \in 0..Most["drawer"]
<1>1. Most["drawer"] \in Nat
  BY DEF D!Constants
<1>. QED  BY <1>1 DEF D!Does, DInv, DTyped

(* The ways to a card. *)
LEMMA DOpens ==
    ASSUME D!Constants, DInv, NEW c \in Card, D!Open(c) \/ D!Pick(c) \/ D!FromCompared(c)
    PROVE  DInv'
<1>1. /\ D!Does /\ D!Ask(c) /\ UNCHANGED <<jobs, label, gone, text, runs>>
      /\ box' \in {box, None} /\ modal' \in {modal, {}}
  BY DEF D!Open, D!Pick, D!FromCompared, D!search
<1>2. /\ calls' \in [Slot -> Card \cup {None}] /\ pane' = Spin /\ shut' = FALSE
      /\ UNCHANGED <<bound, field, typer>> /\ pane' \notin Card /\ acts' \in 0..Most["drawer"]
  BY <1>1, DAsk, DDoes
<1>3. box' \in Query \cup {None} /\ modal' \subseteq D!Devices
  BY <1>1 DEF DInv, DTyped
<1>4. shut' \in BOOLEAN
  BY <1>2
<1>. QED  BY <1>1, <1>2, <1>3, <1>4 DEF DInv, DTyped, OneCard

(* Answers, asked for or not any more. *)
LEMMA DAnswers ==
    ASSUME D!Constants, DInv, NEW s \in Slot, D!Answer(s) \/ D!Lose(s) \/ D!List(s)
    PROVE  DInv'
<1>1. CASE D!Answer(s)
  <2>. DEFINE c == calls[s]
  <2>1. /\ c # None /\ calls' = [calls EXCEPT ![s] = None]
        /\ UNCHANGED <<shut, jobs, label, gone, text, runs, box, modal, acts>>
        /\ \/ UNCHANGED <<pane, bound, field, typer>>
           \/ pane' = c /\ bound' = c /\ field' = label[c] /\ typer' = c
    BY <1>1 DEF D!Answer, D!search
  <2>2. c \in Card /\ calls' \in [Slot -> Card \cup {None}] /\ label[c] \in AnyText
    BY <2>1 DEF DInv, DTyped
  <2>. HIDE DEF c
  <2>. QED  BY <2>1, <2>2 DEF DInv, DTyped, OneCard
<1>2. CASE D!Lose(s)
  <2>1. /\ calls' = [calls EXCEPT ![s] = None]
        /\ UNCHANGED <<shut, pane, bound, field, typer, jobs, label, gone, text, runs, box, modal, acts>>
    BY <1>2 DEF D!Lose, D!search
  <2>. QED  BY <2>1 DEF DInv, DTyped, OneCard
<1>3. CASE D!List(s)
  <2>1. /\ runs[s] # None /\ box' = runs[s] /\ runs' = [runs EXCEPT ![s] = None]
        /\ UNCHANGED <<shut, pane, bound, field, typer, calls, jobs, label, gone, text, modal, acts>>
    BY <1>3 DEF D!List, D!OnlySearch
  <2>. QED  BY <2>1 DEF DInv, DTyped, OneCard
<1>. QED  BY <1>1, <1>2, <1>3

(* What is sent is of the card in sight. *)
LEMMA DSends ==
    ASSUME D!Constants, DInv, D!Save \/ D!Remove
    PROVE  /\ DInv'
           /\ \E j \in Saves, w \in Change : /\ w.card = pane /\ w.text = field /\ typer = pane
                                           /\ jobs' = [jobs EXCEPT ![j] = w]
<1>1. PICK op \in {"save", "delete"} : D!Send(op)
  BY DEF D!Save, D!Remove
<1>. DEFINE w == [op |-> op, card |-> bound, text |-> field]
<1>2. /\ D!Does /\ D!Own /\ UNCHANGED <<shut, pane, bound, field, typer, calls, label, gone, text, wait, runs, box, modal>>
      /\ \E j \in D!Free(jobs) : jobs' = [jobs EXCEPT ![j] = w]
  BY <1>1 DEF D!Send, D!search
<1>3. bound = pane /\ typer = pane /\ pane \in Card /\ field \in AnyText
  BY <1>2 DEF D!Own, DInv, DTyped, OneCard
<1>4. w \in Change /\ w.card = pane /\ w.text = field
  BY <1>3 DEF Change
<1>. HIDE DEF w
<1>5. PICK j \in Saves : jobs' = [jobs EXCEPT ![j] = w]
  BY <1>2 DEF D!Free, DInv, DTyped
<1>6. jobs' \in [Saves -> Change \cup {None}]
  BY <1>4, <1>5 DEF DInv, DTyped
<1>7. acts' \in 0..Most["drawer"]
  BY <1>2, DDoes
<1>8. DInv'
  BY <1>2, <1>6, <1>7 DEF DInv, DTyped, OneCard
<1>. QED  BY <1>3, <1>4, <1>5, <1>8

(* A change is done: the row, and the card again if it is a wallet's. *)
LEMMA DDone ==
    ASSUME D!Constants, DInv, NEW j \in Saves, D!Done(j)
    PROVE  DInv' /\ jobs' = [jobs EXCEPT ![j] = None]
<1>. DEFINE w == jobs[j]
<1>1. w # None /\ jobs' = [jobs EXCEPT ![j] = None]
      /\ UNCHANGED <<text, wait, runs, box, modal, acts>>
  BY DEF D!Done, D!search
<1>2. w \in Change /\ w.card \in Card /\ w.text \in AnyText
  BY <1>1 DEF DInv, DTyped, Change
<1>3. jobs' \in [Saves -> Change \cup {None}]
  BY <1>1 DEF DInv, DTyped
<1>4. CASE w.card \in gone
  <2>1. UNCHANGED <<shut, pane, bound, field, typer, calls, label, gone>>
    BY <1>4 DEF D!Done
  <2>. QED  BY <1>1, <1>3, <2>1 DEF DInv, DTyped, OneCard
<1>5. CASE w.card \notin gone /\ w.op = "delete"
  <2>1. gone' = gone \cup {w.card} /\ shut' = TRUE
        /\ UNCHANGED <<pane, bound, field, typer, calls, label>>
    BY <1>5 DEF D!Done
  <2>2. gone' \subseteq Card /\ shut' \in BOOLEAN
    BY <1>2, <2>1 DEF DInv, DTyped
  <2>. HIDE DEF w
  <2>. QED  BY <1>1, <1>3, <2>1, <2>2 DEF DInv, DTyped, OneCard
<1>6. CASE w.card \notin gone /\ w.op # "delete"
  <2>1. /\ label' = [label EXCEPT ![w.card] = w.text] /\ UNCHANGED gone
        /\ D!Ask(w.card) \/ UNCHANGED <<shut, pane, bound, field, typer, calls>>
    BY <1>6 DEF D!Done
  <2>2. label' \in [Card -> AnyText]
    BY <1>2, <2>1 DEF DInv, DTyped
  <2>. HIDE DEF w
  <2>3. CASE D!Ask(w.card)
    <3>1. /\ calls' \in [Slot -> Card \cup {None}] /\ pane' = Spin /\ shut' = FALSE
          /\ UNCHANGED <<bound, field, typer>> /\ pane' \notin Card
      BY <1>2, <2>3, DAsk
    <3>2. shut' \in BOOLEAN
      BY <3>1
    <3>. QED  BY <1>1, <1>3, <2>1, <2>2, <3>1, <3>2 DEF DInv, DTyped, OneCard
  <2>4. CASE UNCHANGED <<shut, pane, bound, field, typer, calls>>
    BY <1>1, <1>3, <2>1, <2>2, <2>4 DEF DInv, DTyped, OneCard
  <2>. QED  BY <2>1, <2>3, <2>4
<1>. QED  BY <1>1, <1>4, <1>5, <1>6

(* The rest: the field, the search, the comparison, closing. *)
LEMMA DRest ==
    ASSUME D!Constants, DInv,
           \/ \E t \in Text : D!Edit(t)
           \/ \E q \in Query \cup {None} : D!Type(q)
           \/ \E X \in (SUBSET D!Devices) \ {{}} : D!Compare(X)
           \/ D!Close \/ D!Run \/ UNCHANGED D!vars
    PROVE  DInv' /\ jobs' = jobs
<1>1. ASSUME NEW t \in Text, D!Edit(t) PROVE DInv' /\ jobs' = jobs
  <2>1. /\ D!Does /\ D!Own /\ field' = t /\ typer' = pane
        /\ UNCHANGED <<shut, pane, bound, calls, jobs, label, gone, text, runs, box, modal>>
    BY <1>1 DEF D!Edit, D!search
  <2>2. field' \in AnyText /\ acts' \in 0..Most["drawer"]
    BY <2>1, DDoes DEF AnyText
  <2>. QED  BY <2>1, <2>2 DEF DInv, DTyped, OneCard
<1>2. ASSUME NEW q \in Query \cup {None}, D!Type(q) PROVE DInv' /\ jobs' = jobs
  <2>1. /\ D!Does /\ text' = q
        /\ UNCHANGED <<shut, pane, bound, field, typer, calls, jobs, label, gone, modal, runs, box>>
    BY <1>2 DEF D!Type, D!OnlySearch
  <2>2. acts' \in 0..Most["drawer"]
    BY <2>1, DDoes
  <2>. QED  BY <2>1, <2>2 DEF DInv, DTyped, OneCard
<1>3. ASSUME NEW X \in (SUBSET D!Devices) \ {{}}, D!Compare(X) PROVE DInv' /\ jobs' = jobs
  <2>1. /\ D!Does /\ modal' = X
        /\ UNCHANGED <<shut, pane, bound, field, typer, calls, jobs, label, gone, text, runs, box>>
    BY <1>3 DEF D!Compare, D!search
  <2>2. acts' \in 0..Most["drawer"]
    BY <2>1, DDoes
  <2>3. D!Devices' = D!Devices
    BY DEF D!Devices
  <2>. QED  BY <2>1, <2>2, <2>3 DEF DInv, DTyped, OneCard
<1>4. ASSUME D!Close PROVE DInv' /\ jobs' = jobs
  <2>1. /\ shut' = TRUE /\ modal' = {}
        /\ UNCHANGED <<pane, bound, field, typer, calls, jobs, label, gone, text, runs, box, acts>>
    BY <1>4 DEF D!Close, D!search
  <2>2. shut' \in BOOLEAN
    BY <2>1
  <2>. QED  BY <2>1, <2>2 DEF DInv, DTyped, OneCard
<1>5. ASSUME D!Run PROVE DInv' /\ jobs' = jobs
  <2>1. UNCHANGED <<shut, pane, bound, field, typer, calls, jobs, label, gone, modal, text, acts>>
    BY <1>5 DEF D!Run, D!OnlySearch
  <2>2. box' \in {None, box}
        /\ (runs' = runs \/ \E s \in D!Free(runs) : runs' = [runs EXCEPT ![s] = text])
    BY <1>5 DEF D!Run
  <2>3. box' \in Query \cup {None} /\ runs' \in [Slot -> Query \cup {None}]
    BY <2>2 DEF DInv, DTyped, D!Free
  <2>. QED  BY <2>1, <2>3 DEF DInv, DTyped, OneCard
<1>6. ASSUME UNCHANGED D!vars PROVE DInv' /\ jobs' = jobs
  BY <1>6 DEF D!vars, D!search, DInv, DTyped, OneCard
<1>. QED  BY <1>1, <1>2, <1>3, <1>4, <1>5, <1>6

LEMMA DInit ==
    ASSUME D!Constants, D!Init
    PROVE  DInv
<1>1. Most["drawer"] \in Nat
  BY DEF D!Constants
<1>2. acts \in 0..Most["drawer"] /\ shut \in BOOLEAN
  BY <1>1 DEF D!Init
<1>. QED  BY <1>2 DEF D!Init, DInv, DTyped, OneCard, AnyText

LEMMA DNext ==
    ASSUME D!Constants, DInv, [D!Next]_D!vars
    PROVE  DInv' /\ D!SentIsSeen
<1>0. D!SentIsSeen <=> \A j \in Saves : jobs[j] = None /\ jobs'[j] # None =>
                          jobs'[j].card = pane /\ typer = pane /\ jobs'[j].text = field
  BY DEF D!SentIsSeen
<1>1. ASSUME NEW c \in Card, D!Open(c) \/ D!Pick(c) \/ D!FromCompared(c) PROVE DInv' /\ jobs' = jobs
  BY <1>1, DOpens DEF D!Open, D!Pick, D!FromCompared
<1>2. ASSUME NEW s \in Slot, D!Answer(s) \/ D!Lose(s) \/ D!List(s) PROVE DInv' /\ jobs' = jobs
  BY <1>2, DAnswers DEF D!Answer, D!Lose, D!List, D!OnlySearch
<1>3. ASSUME NEW j \in Saves, D!Done(j) PROVE DInv' /\ D!SentIsSeen
  <2>1. jobs' = [jobs EXCEPT ![j] = None] /\ jobs \in [Saves -> Change \cup {None}]
    BY <1>3, DDone DEF DInv, DTyped
  <2>2. \A i \in Saves : jobs[i] = None => jobs'[i] = None
    BY <2>1
  <2>. QED  BY <1>0, <1>3, <2>2, DDone
<1>4. ASSUME D!Save \/ D!Remove PROVE DInv' /\ D!SentIsSeen
  <2>1. PICK j \in Saves, w \in Change : /\ w.card = pane /\ w.text = field /\ typer = pane
                                       /\ jobs' = [jobs EXCEPT ![j] = w]
    BY <1>4, DSends
  <2>2. \A i \in Saves : jobs'[i] = IF i = j THEN w ELSE jobs[i]
    BY <2>1 DEF DInv, DTyped
  <2>. QED  BY <1>0, <1>4, <2>1, <2>2, DSends
<1>5. (DInv' /\ jobs' = jobs) => DInv' /\ D!SentIsSeen
  BY <1>0
<1>. QED  BY <1>1, <1>2, <1>3, <1>4, <1>5, DRest DEF D!Next

LEMMA DInductive ==
    ASSUME D!Constants
    PROVE  D!Spec => []DInv
<1>1. D!Init => DInv
  BY DInit
<1>2. DInv /\ [D!Next]_D!vars => DInv'
  BY DNext
<1>. QED  BY <1>1, <1>2, PTL DEF D!Spec

(* Drawer.TypeOK, for any cards, texts, requests and changes under way.       *)
THEOREM DrawerTyped == ASSUME D!Constants PROVE D!Spec => []D!TypeOK
<1>1. DInv => D!TypeOK
  BY DEF DInv, DTyped, D!TypeOK, AnyText
<1>. QED  BY <1>1, DInductive, PTL

(* What a button of the pane sends is about the card in sight, with the text  *)
(* under it (Drawer.SavesWhatIsSeen; farm.js, openPool and openWallet),       *)
(* whatever answers came late.                                                *)
THEOREM ButtonsMeanTheirCard == ASSUME D!Constants PROVE D!Spec => D!SavesWhatIsSeen
<1>1. DInv /\ [D!Next]_D!vars => [D!SentIsSeen]_D!vars
  BY DNext
<1>. QED  BY <1>1, DInductive, PTL DEF D!Spec, D!SavesWhatIsSeen

(*---------------------- the lists (L) ----------------------*)

FSet == [cont : Cont \cup {None}, model : Model \cup {None}, status : L!Status \cup {None},
         quick : L!Quick \cup {None}, q : BOOLEAN, alarms : BOOLEAN]
ESet == [cls : Class \cup {None}, cont : Cont \cup {None}, model : Model \cup {None},
         lvl : {0, 2}, q : BOOLEAN, gk : L!Alarm \cup {None}]

LTyped ==
    /\ fleet \in [Devs["lists"] -> DevSort] /\ scope \in {Devs["lists"], Section} /\ page \in L!Page
    /\ f \in FSet /\ ef \in ESet /\ cid \in Cont \cup {None} /\ lf \subseteq L!Light

(* A choice is held when it still has devices: the page will not drop it.     *)
FHeld(x) == x.cont # None \/ x.model # None => L!Pre(x) # {}
EHeld(x) ==
    /\ x.cls # None => L!InClass(scope, x.cls) # {}
    /\ x.cont # None \/ x.model # None => L!EBase(x, "") # {}
KHeld(k) == k \in L!Kinds \cup {None}
CHeld(c, e) == e \in L!ErrKeys(c) \cup {None}

Held(p, x, y, k, c, e) ==
    /\ p = "asics" => FHeld(x)
    /\ p = "errors" => EHeld(y)
    /\ p = "map" => KHeld(k)
    /\ p = "cont" => CHeld(c, e)
ListOf(p, x, y, k, c, l, e) ==
    CASE p = "asics" -> L!Asics(x) [] p = "errors" -> L!Errors(y)
      [] p = "map" -> L!OfKind(k) [] p = "cont" -> L!Shown(c, l, e) [] OTHER -> {}

(* Every choice is held once the page has been computed; and before it has    *)
(* been, if it was made with a number on it and nothing else was on.          *)
LInv ==
    /\ LTyped
    /\ ~due => Held(page, f, ef, kind, cid, err)
    /\ promised # None /\ page = "asics" => FHeld(f)
    /\ promised # None /\ promised.plain =>
         /\ Held(page, f, ef, kind, cid, err)
         /\ Cardinality(ListOf(page, f, ef, kind, cid, lf, err)) = promised.n

LEMMA LSorts ==
    ASSUME L!Constants, LTyped, NEW d \in Devs["lists"]
    PROVE  /\ fleet[d].cont \in Cont \cup {None} /\ fleet[d].model \in Model
           /\ fleet[d].status \in L!Status /\ fleet[d].alarms \subseteq L!Alarm
<1>1. fleet[d] \in DevSort
  BY DEF LTyped
<1>. QED  BY <1>1, Zenon DEF L!Constants

(*-------------------------- what a page drops, it may ----------------------*)
(* The devices under a container that is chosen are those the other filters   *)
(* leave of it; the same for a model.                                         *)
LEMMA InPre ==
    ASSUME L!Constants, NEW x \in FSet
    PROVE  /\ x.cont # None => L!InCont(L!Base(x, "c"), x.cont) = L!Pre(x)
           /\ x.model # None => L!OfModel(L!Base(x, "m"), x.model) = L!Pre(x)
BY DEF L!InCont, L!OfModel, L!Base, L!Pre

LEMMA InEBase ==
    ASSUME L!Constants, NEW x \in ESet
    PROVE  /\ x.cont # None => L!InCont(L!EBase(x, "c"), x.cont) = L!EBase(x, "")
           /\ x.model # None => L!OfModel(L!EBase(x, "m"), x.model) = L!EBase(x, "")
BY DEF L!InCont, L!OfModel, L!EBase

(* What is held is kept. *)
LEMMA KeepsF ==
    ASSUME L!Constants, NEW x \in FSet, FHeld(x)
    PROVE  L!FitF(x) = x
BY InPre DEF FHeld, L!FitF

LEMMA KeepsE ==
    ASSUME L!Constants, NEW x \in ESet, EHeld(x)
    PROVE  L!FitE(x) = x
BY InEBase DEF EHeld, L!FitE

(* And what is left is held. *)
LEMMA FitsF ==
    ASSUME L!Constants, NEW x \in FSet
    PROVE  L!FitF(x) \in FSet /\ FHeld(L!FitF(x))
<1>. DEFINE y == IF x.cont # None /\ L!InCont(L!Base(x, "c"), x.cont) = {}
                 THEN [x EXCEPT !.cont = None] ELSE x
            z == IF y.model # None /\ L!OfModel(L!Base(y, "m"), y.model) = {}
                 THEN [y EXCEPT !.model = None] ELSE y
<1>1. L!FitF(x) = z
  BY DEF L!FitF
<1>2. y \in FSet /\ (y.cont # None => L!Pre(y) # {})
  BY InPre DEF FSet
<1>3. z \in FSet /\ z.cont = y.cont /\ z.quick = y.quick /\ z.q = y.q /\ z.model \in {None, y.model}
  BY <1>2 DEF FSet
<1>4. L!Pre(y) \subseteq L!Pre(z)
  <2>. HIDE DEF y, z
  <2>. QED  BY <1>3 DEF L!Pre, L!Base
<1>5. z.model # None => L!Pre(z) # {}
  <2>1. y.model # None => L!OfModel(L!Base(y, "m"), y.model) = L!Pre(y)
    BY <1>2, InPre
  <2>. HIDE DEF y
  <2>. QED  BY <1>2, <2>1 DEF FSet
<1>. QED  BY <1>1, <1>2, <1>3, <1>4, <1>5 DEF FHeld

LEMMA FitsE ==
    ASSUME L!Constants, NEW x \in ESet
    PROVE  L!FitE(x) \in ESet /\ EHeld(L!FitE(x))
<1>. DEFINE w == IF x.cls # None /\ L!InClass(scope, x.cls) = {} THEN [x EXCEPT !.cls = None] ELSE x
            y == IF w.cont # None /\ L!InCont(L!EBase(w, "c"), w.cont) = {}
                 THEN [w EXCEPT !.cont = None] ELSE w
            z == IF y.model # None /\ L!OfModel(L!EBase(y, "m"), y.model) = {}
                 THEN [y EXCEPT !.model = None] ELSE y
<1>1. L!FitE(x) = z
  BY DEF L!FitE
<1>2. w \in ESet /\ (w.cls # None => L!InClass(scope, w.cls) # {})
  BY DEF ESet
<1>3. y \in ESet /\ y.cls = w.cls /\ (y.cont # None => L!EBase(y, "") # {})
  <2>. HIDE DEF w
  <2>. QED  BY <1>2, InEBase DEF ESet
<1>4. z \in ESet /\ z.cls = y.cls /\ z.cont = y.cont /\ z.lvl = y.lvl /\ z.q = y.q
      /\ z.model \in {None, y.model}
  <2>. HIDE DEF y
  <2>. QED  BY <1>3 DEF ESet
<1>5. L!EBase(y, "") \subseteq L!EBase(z, "")
  <2>. HIDE DEF y, z
  <2>. QED  BY <1>4 DEF L!EBase, L!Counts
<1>6. z.model # None => L!EBase(z, "") # {}
  <2>1. y.model # None => L!OfModel(L!EBase(y, "m"), y.model) = L!EBase(y, "")
    BY <1>3, InEBase
  <2>. HIDE DEF y
  <2>. QED  BY <1>3, <2>1 DEF ESet
<1>. HIDE DEF w, y, z
<1>. QED  BY <1>1, <1>2, <1>3, <1>4, <1>5, <1>6 DEF EHeld

(*------------------------------- nothing moves -----------------------------*)
(* The devices being as they were, a list depends on the choices only.        *)
LEMMA PreStays ==
    ASSUME UNCHANGED <<fleet, scope>>
    PROVE  L!Pre(f)' = L!Pre(f') /\ L!Asics(f)' = L!Asics(f')
BY DEF L!Asics, L!With, L!Pre, L!Base, L!QuickFits, L!IsLow

LEMMA EBaseStays ==
    ASSUME UNCHANGED <<fleet, scope>>
    PROVE  /\ L!EBase(ef, "")' = L!EBase(ef', "") /\ L!Errors(ef)' = L!Errors(ef')
           /\ L!InClass(scope, ef.cls)' = L!InClass(scope, ef'.cls)
<1>1. L!EBase(ef, "")' = L!EBase(ef', "")
  BY DEF L!EBase, L!Counts
<1>2. L!Rows(ef)' = L!Rows(ef')
  BY <1>1 DEF L!Rows, L!Counts, L!Alarm
<1>3. L!Errors(ef)' = L!Errors(ef')
  BY <1>2 DEF L!Errors
<1>4. L!InClass(scope, ef.cls)' = L!InClass(scope, ef'.cls)
  BY DEF L!InClass
<1>. QED  BY <1>1, <1>3, <1>4

LEMMA BoxesStay ==
    ASSUME UNCHANGED <<fleet, scope>>
    PROVE  /\ L!OfKind(kind)' = L!OfKind(kind') /\ L!Kinds' = L!Kinds
           /\ L!Shown(cid, lf, err)' = L!Shown(cid', lf', err')
           /\ L!ErrKeys(cid)' = L!ErrKeys(cid')
<1>1. L!Boxes' = L!Boxes
  BY DEF L!Boxes
<1>2. L!Inside(cid)' = L!Inside(cid')
  BY DEF L!Inside, L!InCont
<1>3. L!OkErr(cid, err)' = L!OkErr(cid', err')
  BY <1>2 DEF L!OkErr, L!ErrFits, L!QuickFits, L!IsLow
<1>4. L!Shown(cid, lf, err)' = L!Shown(cid', lf', err')
  BY <1>3 DEF L!Shown, L!LightOf
<1>5. L!ErrKeys(cid)' = L!ErrKeys(cid')
  BY <1>2 DEF L!ErrKeys, L!InClass
<1>. QED  BY <1>1, <1>4, <1>5 DEF L!OfKind, L!Kinds

LEMMA HeldStays ==
    ASSUME UNCHANGED <<fleet, scope>>
    PROVE  /\ FHeld(f)' <=> FHeld(f')
           /\ Held(page, f, ef, kind, cid, err)' <=> Held(page', f', ef', kind', cid', err')
           /\ ListOf(page, f, ef, kind, cid, lf, err)' = ListOf(page', f', ef', kind', cid', lf', err')
<1>1. FHeld(f)' <=> FHeld(f')
  BY PreStays DEF FHeld
<1>2. EHeld(ef)' <=> EHeld(ef')
  BY EBaseStays DEF EHeld
<1>3. KHeld(kind)' <=> KHeld(kind')
  BY BoxesStay DEF KHeld
<1>4. CHeld(cid, err)' <=> CHeld(cid', err')
  BY BoxesStay DEF CHeld
<1>. QED  BY <1>1, <1>2, <1>3, <1>4, PreStays, EBaseStays, BoxesStay, Zenon DEF Held, ListOf

(*--------------------------------- the steps -------------------------------*)
(* A press without a number on it, or data that are new.                      *)
LEMMA ByAnything ==
    ASSUME LTyped', due' = TRUE, promised' = None
    PROVE  LInv'
BY DEF LInv

(* A press with a number: the choice is held, and its list is what was        *)
(* counted.                                                                   *)
LEMMA ByNumber ==
    ASSUME LTyped', UNCHANGED <<fleet, scope>>, due' = TRUE,
           NEW X, promised'.n = Cardinality(X),
           page' = "asics" => FHeld(f'),
           promised'.plain => /\ Held(page', f', ef', kind', cid', err')
                              /\ ListOf(page', f', ef', kind', cid', lf', err') = X
    PROVE  LInv'
BY HeldStays DEF LInv

LEMMA ByCompute ==
    ASSUME L!Constants, LInv, L!Compute
    PROVE  LInv' /\ L!OfferIsKept
<1>1. /\ due' = FALSE /\ UNCHANGED <<fleet, scope, page, cid, lf, promised>>
      /\ f' = IF page = "asics" THEN L!FitF(f) ELSE f
      /\ ef' = IF page = "errors" THEN L!FitE(ef) ELSE ef
      /\ kind' = IF page = "map" THEN L!FitKind(kind) ELSE kind
      /\ err' = IF page = "cont" THEN L!FitErr(cid, err) ELSE err
  BY DEF L!Compute, L!data
<1>2. f' \in FSet /\ (page = "asics" => FHeld(f'))
  BY <1>1, FitsF DEF LInv, LTyped
<1>3. ef' \in ESet /\ (page = "errors" => EHeld(ef'))
  BY <1>1, FitsE DEF LInv, LTyped
<1>4. page = "map" => KHeld(kind')
  BY <1>1 DEF KHeld, L!FitKind
<1>5. page = "cont" => CHeld(cid', err')
  BY <1>1 DEF CHeld, L!FitErr
<1>6. LTyped'
  BY <1>1, <1>2, <1>3 DEF LInv, LTyped
<1>7. Held(page', f', ef', kind', cid', err')
  BY <1>1, <1>2, <1>3, <1>4, <1>5 DEF Held
<1>8. promised # None /\ page = "asics" => f' = f
  BY <1>1, KeepsF DEF LInv, LTyped
<1>9. promised # None /\ promised.plain /\ page = "errors" => ef' = ef
  BY <1>1, KeepsE DEF LInv, LTyped, Held
<1>10. ASSUME promised # None, promised.plain
       PROVE  ListOf(page', f', ef', kind', cid', lf', err') = ListOf(page, f, ef, kind, cid, lf, err)
  <2>1. page = "map" => kind' = kind
    <3>1. page = "map" => KHeld(kind)
      BY <1>10 DEF LInv, Held
    <3>. QED  BY <1>1, <3>1 DEF KHeld, L!FitKind, L!Kinds
  <2>2. page = "cont" => err' = err
    <3>1. page = "cont" => CHeld(cid, err)
      BY <1>10 DEF LInv, Held
    <3>. QED  BY <1>1, <3>1 DEF CHeld, L!FitErr
  <2>. QED  BY <1>1, <1>8, <1>9, <1>10, <2>1, <2>2 DEF ListOf
<1>11. LInv'
  BY <1>1, <1>2, <1>6, <1>7, <1>10, HeldStays DEF LInv
<1>. QED  BY <1>8, <1>9, <1>11 DEF L!OfferIsKept

(*-------------------------- the page of the devices ------------------------*)
(* What a change of the filters counts, and that it lists just that.          *)
LEMMA AsicsCounts ==
    ASSUME L!Constants, LTyped, NEW x \in FSet, NEW s \in L!Status \cup {None}
    PROVE  /\ ~x.alarms => L!Asics([x EXCEPT !.status = s]) = L!With(L!Pre(x), s)
           /\ x.status = None => L!Asics([x EXCEPT !.alarms = TRUE]) = L!Alarms(L!Pre(x))
           /\ x.status = None /\ ~x.alarms => L!Asics(x) = L!Pre(x)
BY DEF FSet, L!Asics, L!With, L!Alarms, L!Pre, L!Base

LEMMA PreOf ==
    ASSUME L!Constants, LTyped, NEW x \in FSet
    PROVE  /\ \A s : L!Pre([x EXCEPT !.status = s]) = L!Pre(x)
           /\ \A b : L!Pre([x EXCEPT !.alarms = b]) = L!Pre(x)
           /\ \A k \in L!Quick : L!Pre([x EXCEPT !.quick = k])
                                   = {d \in L!Base(x, "k") : L!QuickFits(d, k)}
           /\ \A c \in Cont : L!Pre([x EXCEPT !.cont = c]) = L!InCont(L!Base(x, "c"), c)
           /\ \A m \in Model : L!Pre([x EXCEPT !.model = m]) = L!OfModel(L!Base(x, "m"), m)
<1>1. \A s : L!Pre([x EXCEPT !.status = s]) = L!Pre(x)
  BY DEF FSet, L!Pre, L!Base
<1>2. \A b : L!Pre([x EXCEPT !.alarms = b]) = L!Pre(x)
  BY DEF FSet, L!Pre, L!Base
<1>3. \A k \in L!Quick : L!Pre([x EXCEPT !.quick = k])
                           = {d \in L!Base(x, "k") : L!QuickFits(d, k)}
  BY DEF FSet, L!Pre, L!Base, L!Constants
<1>4. \A c \in Cont : L!Pre([x EXCEPT !.cont = c]) = L!InCont(L!Base(x, "c"), c)
  BY DEF FSet, L!Pre, L!Base, L!Constants, L!InCont
<1>5. \A m \in Model : L!Pre([x EXCEPT !.model = m]) = L!OfModel(L!Base(x, "m"), m)
  BY DEF FSet, L!Pre, L!Base, L!Constants, L!OfModel
<1>. QED  BY <1>1, <1>2, <1>3, <1>4, <1>5

LEMMA OnAsics ==
    ASSUME L!Constants, LInv, page = "asics", L!Press, NEW x \in FSet, L!PressF(x),
           NEW X, promised'.n = Cardinality(X), FHeld(x),
           promised'.plain => L!Asics(x) = X
    PROVE  LInv'
<1>1. /\ due' = TRUE /\ f' = x
      /\ UNCHANGED <<fleet, scope, page, ef, kind, cid, lf, err>>
  BY DEF L!Press, L!PressF, L!data
<1>2. LTyped'
  BY <1>1 DEF LInv, LTyped
<1>3. /\ Held(page', f', ef', kind', cid', err')
      /\ ListOf(page', f', ef', kind', cid', lf', err') = L!Asics(x)
  BY <1>1 DEF Held, ListOf
<1>. QED  BY <1>1, <1>2, <1>3, ByNumber

LEMMA OnAsicsQuiet ==
    ASSUME LInv, L!Press, NEW x \in FSet, L!PressF(x), L!NoPromise
    PROVE  LInv'
<1>1. /\ due' = TRUE /\ f' = x /\ promised' = None
      /\ UNCHANGED <<fleet, scope, page, ef, kind, cid, lf, err>>
  BY DEF L!Press, L!PressF, L!data, L!NoPromise
<1>2. LTyped'
  BY <1>1 DEF LInv, LTyped
<1>. QED  BY <1>1, <1>2, ByAnything

LEMMA ByAsics ==
    ASSUME L!Constants, LInv,
           \/ \E s \in L!Status \cup {None} : L!AsicsStatus(s)
           \/ \E k \in L!Quick : L!AsicsQuick(k)
           \/ \E c \in Cont : L!AsicsCont(c)
           \/ \E m \in Model : L!AsicsModel(m)
           \/ L!AsicsAlarms \/ L!AsicsSearch
    PROVE  LInv'
<1>0. f \in FSet /\ f.alarms \in BOOLEAN
  BY DEF LInv, LTyped, FSet
<1>1. page = "asics" /\ ~due => FHeld(f)
  BY DEF LInv, Held
<1>2. ASSUME NEW s \in L!Status \cup {None}, L!AsicsStatus(s) PROVE LInv'
  <2>. DEFINE x == [f EXCEPT !.status = s]
              X == L!With(L!Pre(f), s)
  <2>1. page = "asics" /\ L!Press /\ L!PressF(x) /\ L!Promise(X, ~f.alarms) /\ ~due
    BY <1>2 DEF L!AsicsStatus, L!Press
  <2>2. x \in FSet /\ x.cont = f.cont /\ x.model = f.model /\ L!Pre(x) = L!Pre(f)
    BY <1>0, PreOf DEF FSet, LInv
  <2>3. ~f.alarms => L!Asics(x) = X
    BY <1>0, AsicsCounts DEF LInv
  <2>4. FHeld(x)
    BY <1>1, <2>1, <2>2 DEF FHeld
  <2>5. promised'.n = Cardinality(X) /\ (promised'.plain <=> ~f.alarms)
    BY <2>1, Zenon DEF L!Promise, L!Cardinality, Cardinality
  <2>. HIDE DEF x, X
  <2>. QED  BY <2>1, <2>2, <2>3, <2>4, <2>5, OnAsics
<1>3. ASSUME NEW k \in L!Quick, L!AsicsQuick(k) PROVE LInv'
  <2>. DEFINE x == [f EXCEPT !.quick = k]
              X == {d \in L!Base(f, "k") : L!QuickFits(d, k)}
  <2>1. CASE k = f.quick
    <3>1. L!Press /\ L!PressF([f EXCEPT !.quick = None]) /\ L!NoPromise
      BY <1>3, <2>1 DEF L!AsicsQuick
    <3>2. [f EXCEPT !.quick = None] \in FSet
      BY <1>0 DEF FSet
    <3>. QED  BY <3>1, <3>2, OnAsicsQuiet
  <2>2. CASE k # f.quick
    <3>1. /\ page = "asics" /\ L!Press /\ L!PressF(x) /\ X # {}
          /\ L!Promise(X, L!NoStatus)
      BY <1>3, <2>2 DEF L!AsicsQuick
    <3>2. x \in FSet /\ x.status = f.status /\ x.alarms = f.alarms
      BY <1>0 DEF FSet
    <3>3. L!Pre(x) = X
      BY <1>0, PreOf DEF LInv
    <3>4. FHeld(x)
      BY <3>1, <3>3 DEF FHeld
    <3>5. promised'.n = Cardinality(X) /\ (promised'.plain <=> L!NoStatus)
      BY <3>1, Zenon DEF L!Promise, L!Cardinality, Cardinality
    <3>6. L!NoStatus => L!Asics(x) = X
      BY <3>2, <3>3, AsicsCounts DEF LInv, L!NoStatus
    <3>. HIDE DEF x, X
    <3>. QED  BY <3>1, <3>2, <3>4, <3>5, <3>6, OnAsics
  <2>. QED  BY <2>1, <2>2
<1>4. ASSUME NEW c \in Cont, L!AsicsCont(c) PROVE LInv'
  <2>. DEFINE x == [f EXCEPT !.cont = c]
              X == L!InCont(L!Base(f, "c"), c)
  <2>1. page = "asics" /\ L!Press /\ L!PressF(x) /\ X # {} /\ L!Promise(X, L!NoStatus)
    BY <1>4 DEF L!AsicsCont
  <2>2. x \in FSet /\ x.status = f.status /\ x.alarms = f.alarms
    BY <1>0 DEF FSet
  <2>3. L!Pre(x) = X
    BY <1>0, PreOf DEF LInv
  <2>4. FHeld(x)
    BY <2>1, <2>3 DEF FHeld
  <2>5. promised'.n = Cardinality(X) /\ (promised'.plain <=> L!NoStatus)
    BY <2>1, Zenon DEF L!Promise, L!Cardinality, Cardinality
  <2>6. L!NoStatus => L!Asics(x) = X
    BY <2>2, <2>3, AsicsCounts DEF LInv, L!NoStatus
  <2>. HIDE DEF x, X
  <2>. QED  BY <2>1, <2>2, <2>4, <2>5, <2>6, OnAsics
<1>5. ASSUME NEW m \in Model, L!AsicsModel(m) PROVE LInv'
  <2>. DEFINE x == [f EXCEPT !.model = m]
              X == L!OfModel(L!Base(f, "m"), m)
  <2>1. page = "asics" /\ L!Press /\ L!PressF(x) /\ X # {} /\ L!Promise(X, L!NoStatus)
    BY <1>5 DEF L!AsicsModel
  <2>2. x \in FSet /\ x.status = f.status /\ x.alarms = f.alarms
    BY <1>0 DEF FSet
  <2>3. L!Pre(x) = X
    BY <1>0, PreOf DEF LInv
  <2>4. FHeld(x)
    BY <2>1, <2>3 DEF FHeld
  <2>5. promised'.n = Cardinality(X) /\ (promised'.plain <=> L!NoStatus)
    BY <2>1, Zenon DEF L!Promise, L!Cardinality, Cardinality
  <2>6. L!NoStatus => L!Asics(x) = X
    BY <2>2, <2>3, AsicsCounts DEF LInv, L!NoStatus
  <2>. HIDE DEF x, X
  <2>. QED  BY <2>1, <2>2, <2>4, <2>5, <2>6, OnAsics
<1>6. ASSUME L!AsicsAlarms PROVE LInv'
  <2>. DEFINE x == [f EXCEPT !.alarms = ~f.alarms]
              X == L!Alarms(L!Pre(f))
  <2>1. page = "asics" /\ L!Press /\ L!PressF(x) /\ ~due
    BY <1>6 DEF L!AsicsAlarms, L!Press
  <2>2. x \in FSet /\ x.cont = f.cont /\ x.model = f.model
    BY <1>0 DEF FSet
  <2>3. L!Pre(x) = L!Pre(f)
    BY <1>0, PreOf DEF LInv
  <2>4. FHeld(x)
    BY <1>1, <2>1, <2>2, <2>3 DEF FHeld
  <2>5. CASE f.alarms
    <3>1. L!NoPromise
      BY <1>6, <2>5 DEF L!AsicsAlarms
    <3>. HIDE DEF x
    <3>. QED  BY <2>1, <2>2, <3>1, OnAsicsQuiet
  <2>6. CASE ~f.alarms
    <3>1. L!Promise(X, f.status = None)
      BY <1>6, <2>6 DEF L!AsicsAlarms
    <3>2. promised'.n = Cardinality(X) /\ (promised'.plain <=> f.status = None)
      BY <3>1, Zenon DEF L!Promise, L!Cardinality, Cardinality
    <3>3. x = [f EXCEPT !.alarms = TRUE]
      BY <2>6
    <3>4. f.status = None => L!Asics(x) = X
      BY <1>0, <3>3, AsicsCounts DEF LInv
    <3>. HIDE DEF x, X
    <3>. QED  BY <2>1, <2>2, <2>4, <3>2, <3>4, OnAsics
  <2>. QED  BY <2>5, <2>6
<1>7. ASSUME L!AsicsSearch PROVE LInv'
  <2>1. L!Press /\ L!PressF([f EXCEPT !.q = ~f.q]) /\ L!NoPromise
    BY <1>7 DEF L!AsicsSearch
  <2>2. [f EXCEPT !.q = ~f.q] \in FSet
    BY <1>0 DEF FSet
  <2>. QED  BY <2>1, <2>2, OnAsicsQuiet
<1>. QED  BY <1>2, <1>3, <1>4, <1>5, <1>6, <1>7

(*------------------------- the page of the problems ------------------------*)
LEMMA ErrorsCounts ==
    ASSUME L!Constants, LTyped, NEW x \in ESet
    PROVE  /\ x.gk = None => L!Errors(x) = L!EBase(x, "")
           /\ \A g \in L!Alarm : L!Errors([x EXCEPT !.gk = g]) = L!Group(x, g)
           /\ \A g : L!EBase([x EXCEPT !.gk = g], "") = L!EBase(x, "")
<1>1. L!EBase(x, "") \subseteq Devs["lists"]
  BY DEF L!EBase, LTyped, L!Constants
<1>2. ASSUME x.gk = None PROVE L!Errors(x) = L!EBase(x, "")
  <2>1. L!Errors(x) = {r[1] : r \in L!Rows(x)}
    BY <1>2 DEF L!Errors
  <2>2. \A r \in L!Rows(x) : r[1] \in L!EBase(x, "")
    BY DEF L!Rows
  <2>3. ASSUME NEW d \in L!EBase(x, "") PROVE \E r \in L!Rows(x) : r[1] = d
    <3>1. PICK a \in fleet[d].alarms : L!Counts(x, a)
      BY DEF L!EBase
    <3>2. a \in L!Alarm
      BY <1>1, LSorts
    <3>3. <<d, a>> \in L!Rows(x)
      BY <3>1, <3>2 DEF L!Rows
    <3>. QED  BY <3>3
  <2>. QED  BY <2>1, <2>2, <2>3
<1>3. ASSUME NEW g PROVE L!EBase([x EXCEPT !.gk = g], "") = L!EBase(x, "")
  BY DEF L!EBase, L!Counts, ESet
<1>4. ASSUME NEW g \in L!Alarm PROVE L!Errors([x EXCEPT !.gk = g]) = L!Group(x, g)
  <2>1. L!Rows([x EXCEPT !.gk = g]) = L!Rows(x)
    <3>1. L!EBase([x EXCEPT !.gk = g], "") = L!EBase(x, "")
      BY <1>3
    <3>2. \A a : L!Counts([x EXCEPT !.gk = g], a) <=> L!Counts(x, a)
      BY DEF L!Counts, ESet
    <3>. QED  BY <3>1, <3>2, Zenon DEF L!Rows
  <2>2. g # None /\ [x EXCEPT !.gk = g].gk = g
    BY DEF L!Constants, ESet
  <2>. QED  BY <2>1, <2>2 DEF L!Errors, L!Group
<1>. QED  BY <1>2, <1>3, <1>4

(* No filter of the problems is on, but for the class and the group. *)
OnlyClass(x) == x.cont = None /\ x.model = None /\ x.lvl = 0 /\ ~x.q

LEMMA EBaseOf ==
    ASSUME L!Constants, LTyped, NEW x \in ESet
    PROVE  /\ \A c \in Cont : L!EBase([x EXCEPT !.cont = c], "") = L!InCont(L!EBase(x, "c"), c)
           /\ \A m \in Model : L!EBase([x EXCEPT !.model = m], "") = L!OfModel(L!EBase(x, "m"), m)
           /\ OnlyClass(x) /\ x.cls # None => L!EBase(x, "") = L!InClass(scope, x.cls)
<1>1. \A c \in Cont : L!EBase([x EXCEPT !.cont = c], "") = L!InCont(L!EBase(x, "c"), c)
  BY DEF ESet, L!EBase, L!Counts, L!Constants, L!InCont
<1>2. \A m \in Model : L!EBase([x EXCEPT !.model = m], "") = L!OfModel(L!EBase(x, "m"), m)
  BY DEF ESet, L!EBase, L!Counts, L!Constants, L!OfModel
<1>3. ASSUME OnlyClass(x), x.cls # None PROVE L!EBase(x, "") = L!InClass(scope, x.cls)
  <2>1. \A d \in scope : \A a \in fleet[d].alarms : a.lvl >= 0
    <3>1. \A d \in scope : d \in Devs["lists"]
      BY DEF LTyped, L!Constants
    <3>. QED  BY <3>1, LSorts DEF L!Alarm
  <2>. QED  BY <1>3, <2>1 DEF L!EBase, L!Counts, L!InClass, OnlyClass
<1>. QED  BY <1>1, <1>2, <1>3

LEMMA OnErrors ==
    ASSUME L!Constants, LInv, page = "errors", L!Press, NEW x \in ESet, L!PressE(x),
           NEW X, promised'.n = Cardinality(X),
           promised'.plain => EHeld(x) /\ L!Errors(x) = X
    PROVE  LInv'
<1>1. /\ due' = TRUE /\ ef' = x
      /\ UNCHANGED <<fleet, scope, page, f, kind, cid, lf, err>>
  BY DEF L!Press, L!PressE, L!data
<1>2. LTyped'
  BY <1>1 DEF LInv, LTyped
<1>3. /\ EHeld(x) => Held(page', f', ef', kind', cid', err')
      /\ ListOf(page', f', ef', kind', cid', lf', err') = L!Errors(x)
  BY <1>1 DEF Held, ListOf
<1>. QED  BY <1>1, <1>2, <1>3, ByNumber

LEMMA OnErrorsQuiet ==
    ASSUME LInv, L!Press, NEW x \in ESet, L!PressE(x), L!NoPromise
    PROVE  LInv'
<1>1. /\ due' = TRUE /\ ef' = x /\ promised' = None
      /\ UNCHANGED <<fleet, scope, page, f, kind, cid, lf, err>>
  BY DEF L!Press, L!PressE, L!data, L!NoPromise
<1>2. LTyped'
  BY <1>1 DEF LInv, LTyped
<1>. QED  BY <1>1, <1>2, ByAnything

LEMMA ByErrors ==
    ASSUME L!Constants, LInv,
           \/ \E k \in Class : L!ErrorsClass(k)
           \/ \E c \in Cont : L!ErrorsCont(c)
           \/ \E m \in Model : L!ErrorsModel(m)
           \/ \E i \in {0, 2} : L!ErrorsLevel(i)
           \/ \E d \in Devs["lists"] : \E g \in fleet[d].alarms : L!ErrorsGroup(g)
    PROVE  LInv'
<1>0. ef \in ESet
  BY DEF LInv, LTyped
<1>1. page = "errors" /\ ~due => EHeld(ef)
  BY DEF LInv, Held
<1>2. ASSUME NEW k \in Class, L!ErrorsClass(k) PROVE LInv'
  <2>. DEFINE x == [ef EXCEPT !.cls = k, !.gk = None]
              X == L!InClass(scope, k)
              plain == ef = [L!NoEF EXCEPT !.cls = ef.cls, !.gk = ef.gk]
  <2>1. page = "errors" /\ L!Press /\ L!PressE(x) /\ X # {} /\ L!Promise(X, plain)
    BY <1>2 DEF L!ErrorsClass
  <2>2. x \in ESet
    BY <1>0 DEF ESet
  <2>3. promised'.n = Cardinality(X) /\ (promised'.plain <=> plain)
    BY <2>1, Zenon DEF L!Promise, L!Cardinality, Cardinality
  <2>4. ASSUME plain PROVE OnlyClass(x) /\ x.cls = k /\ x.gk = None /\ k # None
    <3>1. OnlyClass(ef)
      BY <2>4 DEF L!NoEF, OnlyClass
    <3>. QED  BY <1>0, <3>1 DEF ESet, OnlyClass, L!Constants
  <2>5. ASSUME plain PROVE EHeld(x) /\ L!Errors(x) = X
    <3>1. L!EBase(x, "") = X
      BY <2>2, <2>4, <2>5, EBaseOf DEF LInv
    <3>2. L!Errors(x) = X
      BY <2>2, <2>4, <2>5, <3>1, ErrorsCounts DEF LInv
    <3>3. EHeld(x)
      BY <2>1, <2>4, <2>5, <3>1 DEF EHeld
    <3>. QED  BY <3>2, <3>3
  <2>. HIDE DEF x, X, plain
  <2>. QED  BY <2>1, <2>2, <2>3, <2>5, OnErrors
<1>3. ASSUME NEW c \in Cont, L!ErrorsCont(c) PROVE LInv'
  <2>. DEFINE x == [ef EXCEPT !.cont = c]
              X == L!InCont(L!EBase(ef, "c"), c)
  <2>1. page = "errors" /\ L!Press /\ L!PressE(x) /\ X # {} /\ L!Promise(X, ef.gk = None) /\ ~due
    BY <1>3 DEF L!ErrorsCont, L!Press
  <2>2. x \in ESet /\ x.cls = ef.cls /\ x.gk = ef.gk
    BY <1>0 DEF ESet
  <2>3. promised'.n = Cardinality(X) /\ (promised'.plain <=> ef.gk = None)
    BY <2>1, Zenon DEF L!Promise, L!Cardinality, Cardinality
  <2>4. L!EBase(x, "") = X
    BY <1>0, EBaseOf DEF LInv
  <2>5. ef.gk = None => L!Errors(x) = X
    BY <2>2, <2>4, ErrorsCounts DEF LInv
  <2>6. EHeld(x)
    BY <1>1, <2>1, <2>2, <2>4 DEF EHeld
  <2>. HIDE DEF x, X
  <2>. QED  BY <2>1, <2>2, <2>3, <2>5, <2>6, OnErrors
<1>4. ASSUME NEW m \in Model, L!ErrorsModel(m) PROVE LInv'
  <2>. DEFINE x == [ef EXCEPT !.model = m]
              X == L!OfModel(L!EBase(ef, "m"), m)
  <2>1. page = "errors" /\ L!Press /\ L!PressE(x) /\ X # {} /\ L!Promise(X, ef.gk = None) /\ ~due
    BY <1>4 DEF L!ErrorsModel, L!Press
  <2>2. x \in ESet /\ x.cls = ef.cls /\ x.gk = ef.gk
    BY <1>0 DEF ESet
  <2>3. promised'.n = Cardinality(X) /\ (promised'.plain <=> ef.gk = None)
    BY <2>1, Zenon DEF L!Promise, L!Cardinality, Cardinality
  <2>4. L!EBase(x, "") = X
    BY <1>0, EBaseOf DEF LInv
  <2>5. ef.gk = None => L!Errors(x) = X
    BY <2>2, <2>4, ErrorsCounts DEF LInv
  <2>6. EHeld(x)
    BY <1>1, <2>1, <2>2, <2>4 DEF EHeld
  <2>. HIDE DEF x, X
  <2>. QED  BY <2>1, <2>2, <2>3, <2>5, <2>6, OnErrors
<1>5. ASSUME NEW i \in {0, 2}, L!ErrorsLevel(i) PROVE LInv'
  <2>1. L!Press /\ L!PressE([ef EXCEPT !.lvl = i]) /\ L!NoPromise
    BY <1>5 DEF L!ErrorsLevel
  <2>2. [ef EXCEPT !.lvl = i] \in ESet
    BY <1>0 DEF ESet
  <2>. QED  BY <2>1, <2>2, OnErrorsQuiet
<1>6. ASSUME NEW d \in Devs["lists"], NEW g \in fleet[d].alarms, L!ErrorsGroup(g) PROVE LInv'
  <2>0. g \in L!Alarm /\ g # None
    BY LSorts DEF LInv, L!Constants
  <2>. DEFINE x == [ef EXCEPT !.gk = g]
              X == L!Group(ef, g)
  <2>1. CASE g = ef.gk
    <3>1. L!Press /\ L!PressE([ef EXCEPT !.gk = None]) /\ L!NoPromise
      BY <1>6, <2>1 DEF L!ErrorsGroup
    <3>2. [ef EXCEPT !.gk = None] \in ESet
      BY <1>0 DEF ESet
    <3>. QED  BY <3>1, <3>2, OnErrorsQuiet
  <2>2. CASE g # ef.gk
    <3>1. page = "errors" /\ L!Press /\ L!PressE(x) /\ L!Promise(X, TRUE) /\ ~due
      BY <1>6, <2>2 DEF L!ErrorsGroup, L!Press
    <3>2. x \in ESet /\ x.cls = ef.cls /\ x.cont = ef.cont /\ x.model = ef.model
      BY <1>0, <2>0 DEF ESet
    <3>3. promised'.n = Cardinality(X)
      BY <3>1, Zenon DEF L!Promise, L!Cardinality, Cardinality
    <3>4. L!EBase(x, "") = L!EBase(ef, "") /\ L!Errors(x) = X
      BY <1>0, <2>0, ErrorsCounts DEF LInv
    <3>5. EHeld(x)
      BY <1>1, <3>1, <3>2, <3>4 DEF EHeld
    <3>. HIDE DEF x, X
    <3>. QED  BY <3>1, <3>2, <3>3, <3>4, <3>5, OnErrors
  <2>. QED  BY <2>1, <2>2
<1>. QED  BY <1>2, <1>3, <1>4, <1>5, <1>6

(*-------------------- the pages of containers, the overview ----------------*)
LEMMA ByKind ==
    ASSUME L!Constants, LInv, NEW k \in L!Kinds \cup {None}, L!MapKind(k)
    PROVE  LInv'
<1>. DEFINE X == {c \in L!Boxes : KindOf[c] # None /\ k \in {None, KindOf[c]}}
            plain == k # None \/ \A c \in L!Boxes : KindOf[c] # None
<1>1. /\ page = "map" /\ due' = TRUE /\ kind' = k /\ L!Promise(X, plain)
      /\ UNCHANGED <<fleet, scope, page, f, ef, cid, lf, err>>
  BY DEF L!MapKind, L!Press, L!data
<1>2. promised'.n = Cardinality(X) /\ (promised'.plain <=> plain)
  BY <1>1, Zenon DEF L!Promise, L!Cardinality, Cardinality
<1>3. plain => L!OfKind(k) = X
  BY DEF L!OfKind
<1>4. LTyped'
  BY <1>1 DEF LInv, LTyped
<1>5. /\ Held(page', f', ef', kind', cid', err')
      /\ ListOf(page', f', ef', kind', cid', lf', err') = L!OfKind(k)
  BY <1>1 DEF Held, ListOf, KHeld
<1>. HIDE DEF X, plain
<1>. QED  BY <1>1, <1>2, <1>3, <1>4, <1>5, ByNumber

LEMMA ByLight ==
    ASSUME L!Constants, LInv, NEW l \in L!Light, L!ContLight(l)
    PROVE  LInv'
<1>. DEFINE X == {d \in L!OkErr(cid, err) : L!LightOf(d) = l}
<1>1. /\ page = "cont" /\ due' = TRUE /\ ~due
      /\ lf' = (IF l \in lf THEN lf \ {l} ELSE lf \cup {l})
      /\ IF l \in lf THEN promised' = None ELSE L!Promise(X, lf = {})
      /\ UNCHANGED <<fleet, scope, page, f, ef, kind, cid, err>>
  BY DEF L!ContLight, L!Press, L!PressC, L!NoPromise, L!data
<1>2. LTyped'
  BY <1>1 DEF LInv, LTyped
<1>3. CASE l \in lf
  BY <1>1, <1>2, <1>3, ByAnything
<1>4. CASE l \notin lf
  <2>0. L!Promise(X, lf = {})
    BY <1>1, <1>4
  <2>1. promised'.n = Cardinality(X) /\ (promised'.plain <=> lf = {})
    BY <2>0, Zenon DEF L!Promise, L!Cardinality, Cardinality
  <2>2. ASSUME lf = {} PROVE L!Shown(cid, lf', err) = X
    <3>1. lf' = {l}
      BY <1>1, <1>4, <2>2
    <3>. QED  BY <3>1 DEF L!Shown
  <2>3. Held(page', f', ef', kind', cid', err')
    BY <1>1 DEF LInv, Held
  <2>4. ListOf(page', f', ef', kind', cid', lf', err') = L!Shown(cid, lf', err)
    BY <1>1 DEF ListOf
  <2>. HIDE DEF X
  <2>. QED  BY <1>1, <1>2, <2>1, <2>2, <2>3, <2>4, ByNumber
<1>. QED  BY <1>3, <1>4

LEMMA ByErr ==
    ASSUME L!Constants, LInv, NEW k, L!ContErr(k)
    PROVE  LInv'
<1>1. /\ page = "cont" /\ due' = TRUE /\ lf' = lf /\ err' = k
      /\ k \in L!ErrKeys(cid) \cup {None}
      /\ L!Promise(L!OkErr(cid, k), lf = {})
      /\ UNCHANGED <<fleet, scope, page, f, ef, kind, cid>>
  BY DEF L!ContErr, L!Press, L!PressC, L!data
<1>2. LTyped'
  BY <1>1 DEF LInv, LTyped
<1>3. promised'.n = Cardinality(L!OkErr(cid, k)) /\ (promised'.plain <=> lf = {})
  BY <1>1, Zenon DEF L!Promise, L!Cardinality, Cardinality
<1>4. lf = {} => L!Shown(cid, lf, k) = L!OkErr(cid, k)
  BY DEF L!Shown
<1>5. /\ Held(page', f', ef', kind', cid', err')
      /\ ListOf(page', f', ef', kind', cid', lf', err') = L!Shown(cid, lf, k)
  BY <1>1 DEF Held, ListOf, CHeld
<1>. QED  BY <1>1, <1>2, <1>3, <1>4, <1>5, ByNumber

(* Filters that are reset hold nothing, so that they are held. *)
LEMMA Reset ==
    ASSUME L!Constants, LTyped
    PROVE  /\ L!NoF \in FSet /\ L!NoEF \in ESet /\ FHeld(L!NoF) /\ EHeld(L!NoEF)
           /\ \A s \in L!Status : /\ [L!NoF EXCEPT !.status = s] \in FSet
                                  /\ FHeld([L!NoF EXCEPT !.status = s])
                                  /\ L!Asics([L!NoF EXCEPT !.status = s]) = L!With(scope, s)
           /\ \A k \in L!Quick : /\ [L!NoF EXCEPT !.quick = k] \in FSet
                                 /\ FHeld([L!NoF EXCEPT !.quick = k])
                                 /\ L!Asics([L!NoF EXCEPT !.quick = k])
                                      = {d \in scope : L!QuickFits(d, k)}
<1>1. L!NoF \in FSet /\ L!NoEF \in ESet /\ FHeld(L!NoF) /\ EHeld(L!NoEF)
  BY DEF L!NoF, L!NoEF, FSet, ESet, FHeld, EHeld
<1>2. ASSUME NEW s \in L!Status PROVE /\ [L!NoF EXCEPT !.status = s] \in FSet
                                      /\ FHeld([L!NoF EXCEPT !.status = s])
  BY DEF L!NoF, FSet, FHeld
<1>3. ASSUME NEW s \in L!Status
      PROVE  L!Asics([L!NoF EXCEPT !.status = s]) = L!With(scope, s)
  BY DEF L!NoF, L!Asics, L!With, L!Pre, L!Base
<1>4. ASSUME NEW k \in L!Quick PROVE /\ [L!NoF EXCEPT !.quick = k] \in FSet
                                     /\ FHeld([L!NoF EXCEPT !.quick = k])
  BY DEF L!NoF, FSet, FHeld
<1>5. ASSUME NEW k \in L!Quick
      PROVE  L!Asics([L!NoF EXCEPT !.quick = k]) = {d \in scope : L!QuickFits(d, k)}
  BY DEF L!NoF, L!Asics, L!With, L!Pre, L!Base, L!Constants
<1>. QED  BY <1>1, <1>2, <1>3, <1>4, <1>5

(* A row about devices, or a tile. *)
LEMMA ToAsics ==
    ASSUME L!Constants, LInv, due' = TRUE, page' = "asics", NEW x \in FSet, f' = x, FHeld(x),
           UNCHANGED <<fleet, scope, ef, kind, cid, lf, err>>,
           NEW X, L!Promise(X, TRUE), L!Asics(x) = X
    PROVE  LInv'
<1>1. promised'.n = Cardinality(X)
  BY Zenon DEF L!Promise, L!Cardinality, Cardinality
<1>2. LTyped'
  BY DEF LInv, LTyped, L!Page
<1>3. /\ Held(page', f', ef', kind', cid', err')
      /\ ListOf(page', f', ef', kind', cid', lf', err') = L!Asics(x)
  BY DEF Held, ListOf
<1>. QED  BY <1>1, <1>2, <1>3, ByNumber

LEMMA ByRow ==
    ASSUME L!Constants, LInv, NEW r \in L!Attention, L!TodayRow(r)
    PROVE  LInv'
<1>1. /\ page' = r[1] /\ r[3] # {} /\ due' = TRUE
      /\ UNCHANGED <<fleet, scope, kind, cid, lf, err>>
      /\ IF r[1] = "asics"
         THEN f' = [L!NoF EXCEPT !.quick = r[2]] /\ UNCHANGED ef /\ L!Promise(r[3], TRUE)
         ELSE /\ ef' = [ef EXCEPT !.cls = r[2]] /\ UNCHANGED f
              /\ L!Promise(r[3], scope = Devs["lists"] /\ ef = [L!NoEF EXCEPT !.cls = ef.cls])
  BY DEF L!TodayRow, L!Press, L!data
<1>2. CASE \E k \in L!Quick : r = <<"asics", k, {d \in scope : L!QuickFits(d, k)}>>
  <2>1. PICK k \in L!Quick : r = <<"asics", k, {d \in scope : L!QuickFits(d, k)}>>
    BY <1>2
  <2>. DEFINE X == {d \in scope : L!QuickFits(d, k)}
              x == [L!NoF EXCEPT !.quick = k]
  <2>2. r[1] = "asics" /\ r[2] = k /\ r[3] = X
    BY <2>1
  <2>3. f' = x /\ UNCHANGED ef /\ L!Promise(X, TRUE) /\ page' = "asics"
    BY <1>1, <2>2
  <2>4. x \in FSet /\ FHeld(x) /\ L!Asics(x) = X
    BY Reset DEF LInv
  <2>. HIDE DEF x, X
  <2>. QED  BY <1>1, <2>3, <2>4, ToAsics
<1>3. CASE \E k \in Class : r = <<"errors", k, L!InClass(Devs["lists"], k)>>
  <2>1. PICK k \in Class : r = <<"errors", k, L!InClass(Devs["lists"], k)>>
    BY <1>3
  <2>. DEFINE X == L!InClass(Devs["lists"], k)
              x == [ef EXCEPT !.cls = k]
              plain == scope = Devs["lists"] /\ ef = [L!NoEF EXCEPT !.cls = ef.cls]
  <2>2. r[1] = "errors" /\ r[2] = k /\ r[3] = X
    BY <2>1
  <2>3. /\ ef' = x /\ UNCHANGED f /\ L!Promise(X, plain)
        /\ page' = "errors" /\ X # {}
    BY <1>1, <2>2
  <2>4. x \in ESet /\ x.cls = k /\ k # None
    BY DEF LInv, LTyped, ESet, L!Constants
  <2>5. promised'.n = Cardinality(X) /\ (promised'.plain <=> plain)
    BY <2>3, Zenon DEF L!Promise, L!Cardinality, Cardinality
  <2>6. ASSUME plain PROVE OnlyClass(x) /\ x.gk = None
    <3>1. OnlyClass(ef) /\ ef.gk = None
      BY <2>6 DEF L!NoEF, OnlyClass
    <3>. QED  BY <3>1 DEF LInv, LTyped, ESet, OnlyClass
  <2>7. ASSUME plain PROVE EHeld(x) /\ L!Errors(x) = X
    <3>1. L!EBase(x, "") = X
      BY <2>4, <2>6, <2>7, EBaseOf DEF LInv
    <3>2. L!Errors(x) = X
      BY <2>4, <2>6, <2>7, <3>1, ErrorsCounts DEF LInv
    <3>3. EHeld(x)
      BY <2>3, <2>4, <2>6, <2>7 DEF EHeld, OnlyClass
    <3>. QED  BY <3>2, <3>3
  <2>. HIDE DEF x, X, plain
  <2>8. LTyped'
    BY <1>1, <2>3, <2>4 DEF LInv, LTyped, L!Page
  <2>9. /\ EHeld(x) => Held(page', f', ef', kind', cid', err')
        /\ ListOf(page', f', ef', kind', cid', lf', err') = L!Errors(x)
    BY <2>3 DEF Held, ListOf
  <2>. QED  BY <1>1, <2>3, <2>5, <2>7, <2>8, <2>9, ByNumber
<1>. QED  BY <1>2, <1>3 DEF L!Attention

LEMMA ByTile ==
    ASSUME L!Constants, LInv, NEW s \in {"working", "offline"}, L!TodayTile(s)
    PROVE  LInv'
<1>. DEFINE x == [L!NoF EXCEPT !.status = s]
<1>1. /\ page' = "asics" /\ f' = x /\ due' = TRUE /\ L!Promise(L!With(scope, s), TRUE)
      /\ UNCHANGED <<fleet, scope, ef, kind, cid, lf, err>>
  BY DEF L!TodayTile, L!Press, L!data
<1>2. x \in FSet /\ FHeld(x) /\ L!Asics(x) = L!With(scope, s)
  BY Reset DEF LInv, L!Status
<1>. HIDE DEF x
<1>. QED  BY <1>1, <1>2, ToAsics

LEMMA Otherwise ==
    ASSUME L!Constants, LInv,
           \/ \E p \in L!Page : L!Open(p)
           \/ \E c \in Cont : L!OpenCont(c)
           \/ L!ContReset
           \/ \E d \in Devs["lists"], x \in DevSort : L!Answered(d, x)
           \/ \E X \in {Devs["lists"], Section} : L!Chosen(X)
    PROVE  LInv'
<1>1. LTyped /\ L!NoF \in FSet
  BY Reset DEF LInv
<1>2. ASSUME NEW p \in L!Page, L!Open(p) PROVE LInv'
  BY <1>1, <1>2, ByAnything DEF L!Open, L!Press, L!NoPromise, L!data, LTyped
<1>3. ASSUME NEW c \in Cont, L!OpenCont(c) PROVE LInv'
  BY <1>1, <1>3, ByAnything DEF L!OpenCont, L!Press, L!NoPromise, L!data, LTyped, L!Page
<1>4. ASSUME L!ContReset PROVE LInv'
  BY <1>1, <1>4, ByAnything DEF L!ContReset, L!Press, L!PressC, L!NoPromise, L!data, LTyped
<1>5. ASSUME NEW d \in Devs["lists"], NEW x \in DevSort, L!Answered(d, x) PROVE LInv'
  BY <1>1, <1>5, ByAnything DEF L!Answered, L!NoPromise, LTyped
<1>6. ASSUME NEW X \in {Devs["lists"], Section}, L!Chosen(X) PROVE LInv'
  BY <1>1, <1>6, ByAnything DEF L!Chosen, L!Press, L!NoPromise, LTyped
<1>. QED  BY <1>2, <1>3, <1>4, <1>5, <1>6

(*------------------------------- the invariant -----------------------------*)
LEMMA LInit ==
    ASSUME L!Constants, L!Init
    PROVE  LInv
<1>1. LTyped
  <2>1. L!NoF \in FSet /\ L!NoEF \in ESet
    BY DEF L!NoF, L!NoEF, FSet, ESet
  <2>. QED  BY <2>1 DEF L!Init, LTyped
<1>2. Held(page, f, ef, kind, cid, err)
  BY <1>1, Reset DEF L!Init, Held, KHeld
<1>. QED  BY <1>1, <1>2 DEF L!Init, LInv

LEMMA LNext ==
    ASSUME L!Constants, LInv, [L!Next]_L!vars
    PROVE  LInv' /\ (L!OfferIsKept \/ UNCHANGED L!vars)
<1>1. CASE L!Compute
  BY <1>1, ByCompute
<1>2. CASE UNCHANGED L!vars
  <2>1. UNCHANGED <<fleet, scope, page, f, ef, kind, cid, lf, err, promised, due>>
    BY <1>2 DEF L!vars
  <2>2. LTyped'
    BY <2>1 DEF LInv, LTyped
  <2>. QED  BY <1>2, <2>1, <2>2, HeldStays DEF LInv
<1>3. ASSUME L!Next, ~L!Compute PROVE LInv' /\ L!OfferIsKept
  <2>1. LInv'
    BY <1>3, ByAsics, ByErrors, ByKind, ByLight, ByErr, ByRow, ByTile, Otherwise DEF L!Next
  <2>. QED  BY <1>3, <2>1 DEF L!OfferIsKept
<1>. QED  BY <1>1, <1>2, <1>3

LEMMA LInductive ==
    ASSUME L!Constants
    PROVE  L!Spec => []LInv
<1>1. L!Init => LInv
  BY LInit
<1>2. LInv /\ [L!Next]_L!vars => LInv'
  BY LNext
<1>. QED  BY <1>1, <1>2, PTL DEF L!Spec

(* Lists.TypeOK, for any devices, containers, models and classes.             *)
THEOREM ListsTyped == ASSUME L!Constants PROVE L!Spec => []L!TypeOK
<1>1. LInv => L!TypeOK
  BY DEF LInv, LTyped, FSet, ESet, L!TypeOK
<1>. QED  BY <1>1, LInductive, PTL

(* A choice that is held has devices. *)
LEMMA LHasDevices ==
    ASSUME LInv
    PROVE  L!ChoiceHasDevices
<1>1. ASSUME ~due, page = "map", L!Boxes # {} PROVE L!OfKind(kind) # {}
  <2>1. KHeld(kind)
    BY <1>1 DEF LInv, Held
  <2>2. kind = None \/ \E c \in L!Boxes : KindOf[c] = kind
    BY <2>1 DEF KHeld, L!Kinds
  <2>. QED  BY <1>1, <2>2 DEF L!OfKind
<1>2. ASSUME ~due, page = "asics" PROVE FHeld(f)
  BY <1>2 DEF LInv, Held
<1>3. ASSUME ~due, page = "errors" PROVE EHeld(ef)
  BY <1>3 DEF LInv, Held
<1>. QED  BY <1>1, <1>2, <1>3 DEF L!ChoiceHasDevices, FHeld, EHeld

(* No page comes up empty because of a choice made when the fleet, or the     *)
(* chosen client, was another (Lists.ChoiceHasDevices; farm.js, loadAsics,    *)
(* loadErrors and loadMap).                                                   *)
THEOREM ChoicesHaveDevices == ASSUME L!Constants PROVE L!Spec => []L!ChoiceHasDevices
<1>1. LInv => L!ChoiceHasDevices
  BY LHasDevices
<1>. QED  BY <1>1, LInductive, PTL

(* The list in sight is the one that was counted. *)
LEMMA LTells ==
    ASSUME LInv
    PROVE  L!ChoiceTells
<1>1. L!List = ListOf(page, f, ef, kind, cid, lf, err)
  BY DEF L!List, ListOf
<1>2. promised # None /\ promised.plain => Cardinality(L!List) = promised.n
  BY <1>1 DEF LInv
<1>. QED  BY <1>2, Zenon DEF L!ChoiceTells, L!Cardinality, Cardinality

(* The number on an option, chip, card or row is the length of the list it    *)
(* leads to (Lists.ChoiceTells), where no filter is on that it leaves out.    *)
THEOREM NumbersAreLists == ASSUME L!Constants PROVE L!Spec => []L!ChoiceTells
<1>1. LInv => L!ChoiceTells
  BY LTells
<1>. QED  BY <1>1, LInductive, PTL

(* The page keeps the choice it was opened with (Lists.ChoiceStays).          *)
THEOREM OffersAreKept == ASSUME L!Constants PROVE L!Spec => L!ChoiceStays
<1>1. LInv /\ [L!Next]_L!vars => [L!OfferIsKept]_L!vars
  BY LNext
<1>. QED  BY <1>1, LInductive, PTL DEF L!Spec, L!ChoiceStays
=============================================================================
