------------------------------- MODULE Session -------------------------------
(* Who is logged in, in a browser with two pages of the site open: the farm   *)
(* panel (farm.js) and the page of the account (calc.js).  They keep one pair *)
(* of tokens in the browser's storage.  A call sends the access token it has  *)
(* read; refused, it trades the refresh token for a new pair and is sent once *)
(* more.  The server checks, revokes and mints in transactions of its own     *)
(* (auth.py), and hands the pair of a scanned code to the page that polls for *)
(* it (qr_auth.py).  Requests overlap; answers may be lost.                   *)
(*                                                                            *)
(* Pairs are numbered as they are minted; 0 is "no tokens".                   *)
EXTENDS Naturals, FiniteSets

CONSTANTS
    MaxPairs,  \* pairs minted in all
    MaxSends,  \* calls the pages begin in all
    Code,      \* sessions of the QR login
    Slot,      \* requests of the pages at once
    Poller,    \* polls of a QR session at once
    Lossy,     \* answers may be lost
    None

ASSUME SessionAssumption ==
    MaxPairs \in Nat \ {0} /\ MaxSends \in Nat /\ Lossy \in BOOLEAN /\ None \notin Code

VARIABLES
    tok,      \* the pair in the storage
    made,     \* pairs minted
    stale,    \* pairs whose access token has run out
    revoked,  \* pairs whose refresh token has been traded
    lost,     \* pairs whose trade the page never heard of
    sess,     \* the server's QR sessions
    call,     \* requests of the two pages
    sends,    \* how many they have begun
    poll,     \* polls under way
    screen,   \* what the panel shows
    shown,    \* the code on its login screen
    timer,    \* the session its timer polls
    starts,   \* login screens that wait for their code
    failed,   \* a login screen said that the server does not answer
    ticks,    \* the panel was opened: its minute timer runs from then on
    dash      \* the account page shows the account, with its button to log out

vars == <<tok, made, stale, revoked, lost, sess, call, sends, poll, screen,
          shown, timer, starts, failed, ticks, dash>>
server == <<stale, revoked, lost, sess, poll>>
login  == <<screen, shown, timer, starts, failed, ticks>>

Pair  == 1..MaxPairs
Kind  == {"page", "quiet", "me", "acct", "login"}
Panel == {"page", "quiet"}
Call  == [kind : Kind, pair : 0..MaxPairs, again : BOOLEAN, rt : 0..MaxPairs,
          st : {"asked", "check", "revoke", "insert", "minted", "refused"},
          new : 0..MaxPairs]
Poll  == [s : Code, st : {"asked", "handing", "pending", "approved", "expired", "consumed"},
          new : 0..MaxPairs]

Ask(k, p, again) ==
    [kind |-> k, pair |-> p, again |-> again, rt |-> 0, st |-> "asked", new |-> 0]

(* Requests are alike: a new one takes the first place that is free.          *)
Takes(f, i) == f[i] = None /\ i = CHOOSE j \in DOMAIN f : f[j] = None

(* showLogin(): the panel is hidden, and a code is asked for.                 *)
ShowLogin ==
    screen' = "login" /\ failed' = FALSE /\ starts' = starts + 1 /\ UNCHANGED ticks

(*------------------------------ the login screen ---------------------------*)
StartAnswered(s) ==
    /\ starts > 0 /\ sess[s] = "none"
    /\ sess' = [sess EXCEPT ![s] = "pending"]
    /\ starts' = starts - 1 /\ shown' = s /\ timer' = s
    /\ UNCHANGED <<tok, made, sends, stale, revoked, lost, call, poll, screen, failed, ticks,
                   dash>>

StartFailed ==
    /\ Lossy /\ starts > 0
    /\ starts' = starts - 1 /\ failed' = TRUE
    /\ UNCHANGED <<tok, made, sends, server, call, screen, shown, timer, ticks, dash>>

(* The timer does not wait for the poll before.                               *)
TimerFires(i) ==
    /\ timer # None /\ Takes(poll, i)
    /\ poll' = [poll EXCEPT ![i] = [s |-> timer, st |-> "asked", new |-> 0]]
    /\ UNCHANGED <<tok, made, sends, stale, revoked, lost, sess, call, login, dash>>

(* The user scans the code and the bot approves it; or its two minutes end.   *)
Approve(s) ==
    /\ sess[s] = "pending" /\ sess' = [sess EXCEPT ![s] = "approved"]
    /\ UNCHANGED <<tok, made, sends, stale, revoked, lost, call, poll, login, dash>>

Expire(s) ==
    /\ sess[s] \in {"pending", "approved"} /\ sess' = [sess EXCEPT ![s] = "expired"]
    /\ UNCHANGED <<tok, made, sends, stale, revoked, lost, call, poll, login, dash>>

PollRead(i) ==
    /\ poll[i] # None /\ poll[i].st = "asked"
    /\ LET s == sess[poll[i].s] IN
       poll' = [poll EXCEPT ![i].st = IF s = "approved" THEN "handing" ELSE s]
    /\ UNCHANGED <<tok, made, sends, stale, revoked, lost, sess, call, login, dash>>

PollHand(i) ==
    /\ poll[i] # None /\ poll[i].st = "handing" /\ made < MaxPairs
    /\ made' = made + 1
    /\ sess' = [sess EXCEPT ![poll[i].s] = "consumed"]
    /\ poll' = [poll EXCEPT ![i].st = "approved", ![i].new = made + 1]
    /\ UNCHANGED <<tok, sends, stale, revoked, lost, call, login, dash>>

OpenPanel == screen' = "app" /\ ticks' = TRUE

(* Mutant: the timer is stopped, but no other code is asked for.              *)
PollAnsweredSilently(i) ==
    /\ poll[i] # None /\ poll[i].st \in {"pending", "approved", "expired", "consumed"}
    /\ poll' = [poll EXCEPT ![i] = None]
    /\ IF poll[i].st = "approved"
       THEN tok' = poll[i].new /\ timer' = None /\ OpenPanel
       ELSE /\ timer' = (IF poll[i].st = "pending" THEN timer ELSE None)
            /\ UNCHANGED <<tok, screen, ticks>>
    /\ UNCHANGED <<made, sends, stale, revoked, lost, sess, call, dash, shown, starts, failed>>

(* Mutant: the page waits for the tokens of a code already traded.            *)
PollAnsweredOnce(i) ==
    /\ poll[i] # None /\ poll[i].st \in {"pending", "approved", "expired", "consumed"}
    /\ poll' = [poll EXCEPT ![i] = None]
    /\ \/ /\ poll[i].st = "approved"
          /\ tok' = poll[i].new /\ timer' = None /\ OpenPanel
          /\ UNCHANGED <<shown, starts, failed>>
       \/ /\ poll[i].st = "expired"
          /\ timer' = None /\ ShowLogin
          /\ UNCHANGED <<tok, shown>>
       \/ poll[i].st \in {"pending", "consumed"} /\ UNCHANGED <<tok, login>>
    /\ UNCHANGED <<made, sends, stale, revoked, lost, sess, call, dash>>

PollAnswered(i) ==
    /\ poll[i] # None /\ poll[i].st \in {"pending", "approved", "expired", "consumed"}
    /\ poll' = [poll EXCEPT ![i] = None]
    /\ \/ /\ poll[i].st = "approved"
          /\ tok' = poll[i].new /\ timer' = None /\ OpenPanel
          /\ UNCHANGED <<shown, starts, failed>>
       \/ /\ poll[i].st \in {"expired", "consumed"}
          /\ timer' = None /\ ShowLogin
          /\ UNCHANGED <<tok, shown>>
       \/ poll[i].st = "pending" /\ UNCHANGED <<tok, login>>
    /\ UNCHANGED <<made, sends, stale, revoked, lost, sess, call, dash>>

PollLost(i) ==
    /\ Lossy /\ poll[i] # None /\ poll[i].st # "handing"
    /\ poll' = [poll EXCEPT ![i] = None]
    /\ UNCHANGED <<tok, made, sends, stale, revoked, lost, sess, call, login, dash>>

(*--------------------------------- the calls -------------------------------*)
(* The panel opens a page, by its minute timer also from behind the login     *)
(* screen, or asks for something whose failure nobody is told of.  The        *)
(* account page is opened and asks who the user is ("me"), showing the        *)
(* account meanwhile; a failure of its other calls is a line of text.         *)
Send(c, k) ==
    /\ Takes(call, c) /\ sends < MaxSends /\ sends' = sends + 1
    /\ k \in Panel => screen = "app" \/ (k = "page" /\ ticks)
    /\ k = "me" => tok # 0 /\ \A d \in Slot : call[d] # None => call[d].kind \in Panel
    /\ k = "acct" => dash
    /\ k = "login" => ~dash
    /\ call' = [call EXCEPT ![c] = Ask(k, tok, FALSE)]
    /\ dash' = (dash \/ k = "me")
    /\ UNCHANGED <<tok, made, server, login>>

(* The end of a call that was refused for good.                               *)
Refuse(c) ==
    /\ call' = [call EXCEPT ![c] = None]
    /\ CASE call[c].kind = "page" ->
              ShowLogin /\ UNCHANGED <<tok, shown, timer, dash>>
         [] call[c].kind = "me" -> tok' = 0 /\ dash' = FALSE /\ UNCHANGED login
         [] OTHER -> UNCHANGED <<tok, login, dash>>

(* The account page reads the storage again before it refreshes; the panel    *)
(* takes the refresh token it read with the access token.  A login is refused *)
(* for a wrong password, and goes the same way.                               *)
Served(c) ==
    /\ call[c] # None /\ call[c].st = "asked" /\ call[c].kind # "login"
    /\ call[c].pair \notin {0} \cup stale
    /\ call' = [call EXCEPT ![c] = None]
    /\ UNCHANGED <<tok, made, sends, server, login, dash>>

LoggedIn(c) ==
    /\ call[c] # None /\ call[c].st = "asked" /\ call[c].kind = "login"
    /\ made < MaxPairs
    /\ made' = made + 1 /\ tok' = made + 1 /\ dash' = TRUE
    /\ call' = [call EXCEPT ![c] = Ask("acct", made + 1, FALSE)]
    /\ UNCHANGED <<sends, server, login>>

Unauthorised(c) ==
    /\ call[c] # None /\ call[c].st = "asked"
    /\ call[c].kind = "login" \/ call[c].pair \in {0} \cup stale
    /\ LET rt == IF call[c].kind \in Panel THEN call[c].pair ELSE tok IN
       IF call[c].again \/ call[c].pair = 0 \/ rt = 0
       THEN Refuse(c)
       ELSE /\ call' = [call EXCEPT ![c].st = "check", ![c].rt = rt]
            /\ UNCHANGED <<tok, login, dash>>
    /\ UNCHANGED <<made, sends, server>>

(* refresh() on the server: is the token revoked; in revoke_token() once      *)
(* more, and it is inserted; a token inserted twice is an error.              *)
RefreshChecked(c) ==
    /\ call[c] # None /\ call[c].st = "check"
    /\ call' = [call EXCEPT ![c].st = IF call[c].rt \in revoked THEN "refused" ELSE "revoke"]
    /\ UNCHANGED <<tok, made, sends, server, login, dash>>

Mint(c) == made' = made + 1 /\ call' = [call EXCEPT ![c].st = "minted", ![c].new = made + 1]

RefreshRevokes(c) ==
    /\ call[c] # None /\ call[c].st = "revoke" /\ made < MaxPairs
    /\ IF call[c].rt \in revoked THEN Mint(c)
       ELSE call' = [call EXCEPT ![c].st = "insert"] /\ UNCHANGED made
    /\ UNCHANGED <<tok, sends, server, login, dash>>

RefreshInserts(c) ==
    /\ call[c] # None /\ call[c].st = "insert" /\ made < MaxPairs
    /\ IF call[c].rt \in revoked
       THEN call' = [call EXCEPT ![c].st = "refused"] /\ UNCHANGED made
       ELSE Mint(c)
    /\ revoked' = revoked \cup {call[c].rt}
    /\ UNCHANGED <<tok, sends, stale, lost, sess, poll, login, dash>>

(* Mutant: the new pair serves the one call and is not stored.                *)
RefreshedUnsaved(c) ==
    /\ call[c] # None /\ call[c].st = "minted"
    /\ call' = [call EXCEPT ![c] = Ask(call[c].kind, call[c].new, TRUE)]
    /\ UNCHANGED <<tok, made, sends, server, login, dash>>

(* The new pair is stored, and the call made once more with what is stored.   *)
Refreshed(c) ==
    /\ call[c] # None /\ call[c].st = "minted"
    /\ tok' = call[c].new
    /\ call' = [call EXCEPT ![c] = Ask(call[c].kind, call[c].new, TRUE)]
    /\ UNCHANGED <<made, sends, server, login, dash>>

RefreshRefused(c) ==
    /\ call[c] # None /\ call[c].st = "refused"
    /\ Refuse(c)
    /\ UNCHANGED <<made, sends, server>>

(* A fetch that throws: the panel tells of an error, the account page forgets *)
(* the tokens if it was asking who the user is.                               *)
CallLost(c) ==
    /\ Lossy /\ call[c] # None /\ call[c].st \in {"asked", "minted"}
    /\ lost' = IF call[c].st = "minted" THEN lost \cup {call[c].rt} ELSE lost
    /\ call' = [call EXCEPT ![c] = None]
    /\ IF call[c].kind = "me" THEN tok' = 0 /\ dash' = FALSE ELSE UNCHANGED <<tok, dash>>
    /\ UNCHANGED <<made, sends, stale, revoked, sess, poll, login>>

(*--------------------------------- the rest --------------------------------*)
Logout ==
    /\ screen = "app" /\ tok' = 0 /\ ShowLogin
    /\ UNCHANGED <<made, sends, server, call, shown, timer, dash>>

AccountLogout ==
    /\ dash /\ tok' = 0 /\ dash' = FALSE
    /\ UNCHANGED <<made, sends, server, call, login>>

(* (Only of a pair somebody still holds: another makes no difference.)        *)
AccessRunsOut(p) ==
    /\ p \notin stale
    /\ p = tok \/ \E c \in Slot : call[c] # None /\ call[c].pair = p
    /\ stale' = stale \cup {p}
    /\ UNCHANGED <<tok, made, sends, revoked, lost, sess, call, poll, login, dash>>

(* The panel is opened with tokens stored, or without.                        *)
Init ==
    /\ \/ tok = 1 /\ screen = "app" /\ starts = 0
       \/ tok = 0 /\ screen = "login" /\ starts = 1
    /\ made = tok /\ sends = 0 /\ stale = {} /\ revoked = {} /\ lost = {}
    /\ sess = [s \in Code |-> "none"]
    /\ call = [c \in Slot |-> None] /\ poll = [i \in Poller |-> None]
    /\ shown = None /\ timer = None /\ failed = FALSE /\ dash = FALSE
    /\ ticks = (screen = "app")

Next ==
    \/ \E s \in Code : StartAnswered(s) \/ Approve(s) \/ Expire(s)
    \/ StartFailed
    \/ \E i \in Poller : TimerFires(i) \/ PollRead(i) \/ PollHand(i) \/ PollAnswered(i)
                         \/ PollLost(i)
    \/ \E c \in Slot : \/ \E k \in Kind : Send(c, k)
                       \/ Served(c) \/ LoggedIn(c) \/ Unauthorised(c)
                       \/ RefreshChecked(c) \/ RefreshRevokes(c) \/ RefreshInserts(c)
                       \/ Refreshed(c) \/ RefreshRefused(c) \/ CallLost(c)
    \/ Logout \/ AccountLogout
    \/ \E p \in Pair : AccessRunsOut(p)

Spec == Init /\ [][Next]_vars

(* Timers fire, and however many answers are lost, some arrive; nobody need   *)
(* scan a code.                                                               *)
Fairness ==
    \A i \in Poller : /\ WF_vars(TimerFires(i)) /\ WF_vars(PollHand(i))
                      /\ SF_vars(PollRead(i)) /\ SF_vars(PollAnswered(i))

FairSpec == Spec /\ Fairness

(*-------------------------------- properties -------------------------------*)
TypeOK ==
    /\ tok \in 0..MaxPairs /\ made \in 0..MaxPairs /\ sends \in 0..MaxSends
    /\ stale \subseteq Pair /\ revoked \subseteq Pair /\ lost \subseteq Pair
    /\ sess \in [Code -> {"none", "pending", "approved", "expired", "consumed"}]
    /\ call \in [Slot -> Call \cup {None}] /\ poll \in [Poller -> Poll \cup {None}]
    /\ screen \in {"app", "login"} /\ starts \in Nat
    /\ shown \in Code \cup {None} /\ timer \in {shown, None}
    /\ failed \in BOOLEAN /\ dash \in BOOLEAN /\ ticks \in BOOLEAN

(* The refresh token in the storage is one the server still takes, unless the *)
(* answer that replaces it is on its way, or was lost: however many calls     *)
(* refresh at once, on whichever page, none leaves a traded token behind.     *)
StoredIsLive ==
    tok \in revoked =>
        \/ tok \in lost
        \/ \E c \in Slot : call[c] # None /\ call[c].st = "minted" /\ call[c].rt = tok

(* A code on the login screen is polled for, whatever older screens and polls *)
(* end meanwhile: a user who scans it is seen, unless the page has said that  *)
(* the server does not answer.                                                *)
ShownIsPolled ==
    screen = "login" /\ starts = 0 /\ ~failed => timer = shown /\ shown # None

(* A pair is handed out once for a code ("handed out once and never again",   *)
(* qr_auth.py).  Overlapping polls that both read "approved" break it.        *)
HandedOnce ==
    \A i, j \in Poller :
        i # j /\ poll[i] # None /\ poll[j] # None
        /\ poll[i].st = "approved" /\ poll[j].st = "approved" => poll[i].s # poll[j].s

(* A code that was scanned or has run out does not stay on the screen: the    *)
(* panel opens, another code is asked for, or the page says that it cannot,   *)
(* even if the answer with the tokens is lost.                                *)
ScannedEnds ==
    shown # None /\ screen = "login" /\ sess[shown] # "pending"
        ~> screen = "app" \/ starts > 0 \/ failed
=============================================================================
