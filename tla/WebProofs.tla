------------------------------ MODULE WebProofs ------------------------------
(* Theorems about the panel in the browser as a whole (Web).                  *)
EXTENDS PagesProofs

(*---------------------- the session ----------------------*)
(* For any number of pairs, codes, calls and polls, with answers that may be  *)
(* lost.                                                                      *)
PollStatus == {"none", "asked", "handing", "pending", "approved", "expired", "consumed"}

SessionTyped ==
    /\ made \in 0..MaxPairs /\ timer \in Code \cup {None}
    /\ sess \in [Code -> {"none", "pending", "approved", "expired", "consumed"}]
    /\ call \in [Slot -> Call \cup {None}]
    /\ poll \in [Poller -> [s : Code, st : PollStatus, new : 0..MaxPairs] \cup {None}]

(* Pairs are numbered as they are minted, and 0 is none.                     *)
Numbered ==
    /\ tok \in 0..made /\ revoked \subseteq 1..made
    /\ \A c \in Slot : call[c] # None =>
          call[c].pair \in 0..made /\ call[c].rt \in 0..made /\ call[c].new \in 0..made
    /\ \A i \in Poller : poll[i] # None => poll[i].new \in 0..made

(* Only a token is traded.                                                   *)
HasToken == \A c \in Slot :
    call[c] # None /\ call[c].st \in {"check", "revoke", "insert"} => call[c].rt # 0

Minted(c)   == call[c] # None /\ call[c].st = "minted"
Approved(i) == poll[i] # None /\ poll[i].st = "approved"

(* A pair some page holds, sends, trades, or has traded.                     *)
InHand(m) == \/ m \in {0, tok} \cup revoked
            \/ \E c \in Slot : call[c] # None /\ (m = call[c].pair \/ m = call[c].rt)

(* A pair that is still on its way to a page is known to none, and on its way *)
(* once.                                                                     *)
CallsApart ==
    /\ \A c \in Slot : Minted(c) => ~InHand(call[c].new)
    /\ \A c, d \in Slot : Minted(c) /\ Minted(d) /\ c # d => call[c].new # call[d].new
PollsApart ==
    /\ \A i \in Poller : Approved(i) => ~InHand(poll[i].new)
    /\ \A i, j \in Poller : Approved(i) /\ Approved(j) /\ i # j => poll[i].new # poll[j].new
Apart == \A c \in Slot, i \in Poller : Minted(c) /\ Approved(i) => call[c].new # poll[i].new

OnTheWay == HasToken /\ CallsApart /\ PollsApart /\ Apart

SessionInv == SessionTyped /\ Numbered /\ OnTheWay /\ StoredIsLive

(* The panel begins with a pair of its own, or with none.                    *)
LEMMA SessionInit == Init => SessionInv
<1> SUFFICES ASSUME Init PROVE SessionInv  OBVIOUS
<1>1. SessionTyped /\ Numbered  BY SessionAssumption DEF Init, SessionTyped, PollStatus, Numbered
<1> QED  BY <1>1 DEF Init, SessionInv, OnTheWay, HasToken, CallsApart, PollsApart, Apart,
            Minted, Approved, StoredIsLive

(* A call that is refused for good ends; the tokens stay or are cleared.     *)
LEMMA RefuseEnds ==
    ASSUME NEW c \in Slot, Refuse(c)
    PROVE  call' = [call EXCEPT ![c] = None] /\ tok' \in {0, tok} /\ timer' = timer
BY DEF Refuse, ShowLogin, login

(* Every step keeps the types, and the numbers at most that of the last pair. *)
LEMMA SessionStaysTyped == SessionInv /\ [Next]_vars => SessionTyped' /\ Numbered'
<1> SUFFICES ASSUME SessionInv, [Next]_vars PROVE SessionTyped' /\ Numbered'  OBVIOUS
<1> USE SessionAssumption DEF SessionInv, SessionTyped, Numbered, server, login
<1>1. ASSUME NEW s \in Code, StartAnswered(s) \/ Approve(s) \/ Expire(s)
      PROVE SessionTyped' /\ Numbered'
  BY <1>1 DEF StartAnswered, Approve, Expire, Call, Kind
<1>2. CASE StartFailed  BY <1>2 DEF StartFailed, Call, Kind
<1>3. ASSUME NEW i \in Poller, TimerFires(i) PROVE SessionTyped' /\ Numbered'
  BY <1>3 DEF TimerFires, PollStatus
<1>4. ASSUME NEW i \in Poller, PollRead(i) PROVE SessionTyped' /\ Numbered'
  <2>1. poll[i].s \in Code  BY <1>4 DEF PollRead
  <2>2. sess[poll[i].s] \in {"none", "pending", "approved", "expired", "consumed"}  BY <2>1
  <2>3. PICK x \in {"handing", "none", "pending", "approved", "expired", "consumed"} :
             poll' = [poll EXCEPT ![i].st = x]
    BY <1>4, <2>2 DEF PollRead, PollStatus
  <2> QED  BY <1>4, <2>1, <2>3 DEF PollRead, PollStatus
<1>5. ASSUME NEW i \in Poller, PollHand(i) PROVE SessionTyped' /\ Numbered'
  BY <1>5 DEF PollHand, PollStatus
<1>6. ASSUME NEW i \in Poller, PollAnswered(i) PROVE SessionTyped' /\ Numbered'
  BY <1>6 DEF PollAnswered, PollStatus
<1>7. ASSUME NEW i \in Poller, PollLost(i) PROVE SessionTyped' /\ Numbered'
  BY <1>7 DEF PollLost
<1>8. ASSUME NEW c \in Slot, NEW k \in Kind, Send(c, k) PROVE SessionTyped' /\ Numbered'
  <2>1. call' = [call EXCEPT ![c] = Ask(k, tok, FALSE)] /\ UNCHANGED <<tok, made, timer, server>>
    BY <1>8 DEF Send
  <2>2. tok \in 0..MaxPairs /\ Ask(k, tok, FALSE) \in Call  BY DEF Ask, Call
  <2> QED  BY <2>1, <2>2 DEF Ask
<1>9. ASSUME NEW c \in Slot, Served(c) PROVE SessionTyped' /\ Numbered'
  BY <1>9 DEF Served, Call, Kind
<1>10. ASSUME NEW c \in Slot, LoggedIn(c) PROVE SessionTyped' /\ Numbered'
  BY <1>10 DEF LoggedIn, Ask, Call, Kind
<1>11. ASSUME NEW c \in Slot, Unauthorised(c) PROVE SessionTyped' /\ Numbered'
  BY <1>11, RefuseEnds DEF Unauthorised, Call, Kind
<1>12. ASSUME NEW c \in Slot, RefreshChecked(c) PROVE SessionTyped' /\ Numbered'
  BY <1>12 DEF RefreshChecked, Call, Kind
<1>13. ASSUME NEW c \in Slot, RefreshRevokes(c) PROVE SessionTyped' /\ Numbered'
  BY <1>13 DEF RefreshRevokes, Mint, Call, Kind
<1>14. ASSUME NEW c \in Slot, RefreshInserts(c) PROVE SessionTyped' /\ Numbered'
  BY <1>14 DEF RefreshInserts, Mint, Call, Kind
<1>15. ASSUME NEW c \in Slot, Refreshed(c) PROVE SessionTyped' /\ Numbered'
  BY <1>15 DEF Refreshed, Ask, Call, Kind
<1>16. ASSUME NEW c \in Slot, RefreshRefused(c) PROVE SessionTyped' /\ Numbered'
  BY <1>16, RefuseEnds DEF RefreshRefused, Call, Kind
<1>17. ASSUME NEW c \in Slot, CallLost(c) PROVE SessionTyped' /\ Numbered'
  <2>1. call' = [call EXCEPT ![c] = None] /\ tok' \in {0, tok}
        /\ UNCHANGED <<made, revoked, sess, poll, timer>>
    BY <1>17 DEF CallLost
  <2> QED  BY <2>1
<1>18. CASE Logout \/ AccountLogout
  <2>1. tok' = 0 /\ UNCHANGED <<made, revoked, sess, poll, call, timer>>
    BY <1>18 DEF Logout, AccountLogout
  <2> QED  BY <2>1
<1>19. ASSUME NEW p \in Pair, AccessRunsOut(p) PROVE SessionTyped' /\ Numbered'
  BY <1>19 DEF AccessRunsOut, Call, Kind
<1>20. CASE UNCHANGED vars  BY <1>20 DEF vars, Call, Kind
<1> QED  BY <1>1, <1>2, <1>3, <1>4, <1>5, <1>6, <1>7, <1>8, <1>9, <1>10, <1>11, <1>12,
            <1>13, <1>14, <1>15, <1>16, <1>17, <1>18, <1>19, <1>20 DEF Next

(* A pair is made known by the step that hands it to a page, and that step   *)
(* ends its way.                                                             *)
LEMMA StepApart == SessionInv /\ [Next]_vars => OnTheWay'
<1> SUFFICES ASSUME SessionInv, [Next]_vars PROVE OnTheWay'  OBVIOUS
<1> USE SessionAssumption DEF SessionInv, SessionTyped, Numbered, OnTheWay, HasToken, CallsApart,
       PollsApart, Apart, Minted, Approved, InHand, server, login
<1>1. ASSUME NEW s \in Code, StartAnswered(s) \/ Approve(s) \/ Expire(s) PROVE OnTheWay'
  BY <1>1 DEF StartAnswered, Approve, Expire, Call
<1>2. CASE StartFailed  BY <1>2 DEF StartFailed, Call
<1>3. ASSUME NEW i \in Poller, TimerFires(i) PROVE OnTheWay'
  BY <1>3 DEF TimerFires, Call
<1>4. ASSUME NEW i \in Poller, PollRead(i) PROVE OnTheWay'
  BY <1>4 DEF PollRead, Call
<1>5. ASSUME NEW i \in Poller, PollHand(i) PROVE OnTheWay'
  BY <1>5 DEF PollHand, Call
<1>6. ASSUME NEW i \in Poller, PollAnswered(i) PROVE OnTheWay'
  BY <1>6 DEF PollAnswered, Call
<1>7. ASSUME NEW i \in Poller, PollLost(i) PROVE OnTheWay'
  BY <1>7 DEF PollLost, Call
<1>8. ASSUME NEW c \in Slot, NEW k \in Kind, Send(c, k) PROVE OnTheWay'
  BY <1>8 DEF Send, Ask, Call
<1>9. ASSUME NEW c \in Slot, Served(c) PROVE OnTheWay'
  BY <1>9 DEF Served, Call
<1>10. ASSUME NEW c \in Slot, LoggedIn(c) PROVE OnTheWay'
  BY <1>10 DEF LoggedIn, Ask, Call
<1>11. ASSUME NEW c \in Slot, Unauthorised(c) PROVE OnTheWay'
  BY <1>11, RefuseEnds DEF Unauthorised, Call
<1>12. ASSUME NEW c \in Slot, RefreshChecked(c) PROVE OnTheWay'
  BY <1>12 DEF RefreshChecked, Call
<1>13. ASSUME NEW c \in Slot, RefreshRevokes(c) PROVE OnTheWay'
  BY <1>13, SMTT(30) DEF RefreshRevokes, Mint, Call
<1>14. ASSUME NEW c \in Slot, RefreshInserts(c) PROVE OnTheWay'
  BY <1>14 DEF RefreshInserts, Mint, Call
<1>15. ASSUME NEW c \in Slot, Refreshed(c) PROVE OnTheWay'
  BY <1>15 DEF Refreshed, Ask, Call
<1>16. ASSUME NEW c \in Slot, RefreshRefused(c) PROVE OnTheWay'
  BY <1>16, RefuseEnds DEF RefreshRefused, Call
<1>17. ASSUME NEW c \in Slot, CallLost(c) PROVE OnTheWay'
  BY <1>17 DEF CallLost, Call
<1>18. CASE Logout \/ AccountLogout  BY <1>18 DEF Logout, AccountLogout, Call
<1>19. ASSUME NEW p \in Pair, AccessRunsOut(p) PROVE OnTheWay'
  BY <1>19 DEF AccessRunsOut, Call
<1>20. CASE UNCHANGED vars  BY <1>20 DEF vars, Call
<1> QED  BY <1>1, <1>2, <1>3, <1>4, <1>5, <1>6, <1>7, <1>8, <1>9, <1>10, <1>11, <1>12,
            <1>13, <1>14, <1>15, <1>16, <1>17, <1>18, <1>19, <1>20 DEF Next

(* What a page stores has not been traded; what is traded while it is stored *)
(* is on its way to be replaced.                                             *)
LEMMA StepLive == SessionInv /\ [Next]_vars => StoredIsLive'
<1> SUFFICES ASSUME SessionInv, [Next]_vars PROVE StoredIsLive'  OBVIOUS
<1> USE SessionAssumption DEF SessionInv, SessionTyped, Numbered, OnTheWay, HasToken, CallsApart,
       PollsApart, Minted, Approved, InHand, StoredIsLive, server, login
<1>1. ASSUME NEW s \in Code, StartAnswered(s) \/ Approve(s) \/ Expire(s) PROVE StoredIsLive'
  BY <1>1 DEF StartAnswered, Approve, Expire, Call
<1>2. CASE StartFailed  BY <1>2 DEF StartFailed, Call
<1>3. ASSUME NEW i \in Poller, TimerFires(i) PROVE StoredIsLive'
  BY <1>3 DEF TimerFires, Call
<1>4. ASSUME NEW i \in Poller, PollRead(i) PROVE StoredIsLive'
  BY <1>4 DEF PollRead, Call
<1>5. ASSUME NEW i \in Poller, PollHand(i) PROVE StoredIsLive'
  BY <1>5 DEF PollHand, Call
<1>6. ASSUME NEW i \in Poller, PollAnswered(i) PROVE StoredIsLive'
  BY <1>6 DEF PollAnswered, Call
<1>7. ASSUME NEW i \in Poller, PollLost(i) PROVE StoredIsLive'
  BY <1>7 DEF PollLost, Call
<1>8. ASSUME NEW c \in Slot, NEW k \in Kind, Send(c, k) PROVE StoredIsLive'
  <2>1. call' = [call EXCEPT ![c] = Ask(k, tok, FALSE)] /\ call[c] = None
        /\ UNCHANGED <<tok, made, timer, server>>
    BY <1>8 DEF Send, Takes
  <2> QED  BY <2>1 DEF Ask
<1>9. ASSUME NEW c \in Slot, Served(c) PROVE StoredIsLive'
  BY <1>9 DEF Served, Call
<1>10. ASSUME NEW c \in Slot, LoggedIn(c) PROVE StoredIsLive'
  BY <1>10 DEF LoggedIn, Ask, Call
<1>11. ASSUME NEW c \in Slot, Unauthorised(c) PROVE StoredIsLive'
  BY <1>11, RefuseEnds DEF Unauthorised, Call
<1>12. ASSUME NEW c \in Slot, RefreshChecked(c) PROVE StoredIsLive'
  BY <1>12 DEF RefreshChecked, Call
<1>13. ASSUME NEW c \in Slot, RefreshRevokes(c) PROVE StoredIsLive'
  BY <1>13 DEF RefreshRevokes, Mint, Call
<1>14. ASSUME NEW c \in Slot, RefreshInserts(c) PROVE StoredIsLive'
  BY <1>14 DEF RefreshInserts, Mint, Call
<1>15. ASSUME NEW c \in Slot, Refreshed(c) PROVE StoredIsLive'
  BY <1>15 DEF Refreshed, Ask, Call
<1>16. ASSUME NEW c \in Slot, RefreshRefused(c) PROVE StoredIsLive'
  BY <1>16, RefuseEnds DEF RefreshRefused, Call
<1>17. ASSUME NEW c \in Slot, CallLost(c) PROVE StoredIsLive'
  BY <1>17 DEF CallLost, Call
<1>18. CASE Logout \/ AccountLogout  BY <1>18 DEF Logout, AccountLogout, Call
<1>19. ASSUME NEW p \in Pair, AccessRunsOut(p) PROVE StoredIsLive'
  BY <1>19 DEF AccessRunsOut, Call
<1>20. CASE UNCHANGED vars  BY <1>20 DEF vars, Call
<1> QED  BY <1>1, <1>2, <1>3, <1>4, <1>5, <1>6, <1>7, <1>8, <1>9, <1>10, <1>11, <1>12,
            <1>13, <1>14, <1>15, <1>16, <1>17, <1>18, <1>19, <1>20 DEF Next
(* However many calls of both pages refresh at once, with one token or with  *)
(* several, and whichever answers are lost, the pair in the storage is one the *)
(* server still takes, or its replacement is on its way, or was lost (api() in *)
(* farm.js and calc.js, refresh() in auth.py).                               *)
THEOREM RefreshesKeepTheSession == Spec => []StoredIsLive
<1>1. SessionInv /\ [Next]_vars => SessionInv'
  BY SessionStaysTyped, StepApart, StepLive DEF SessionInv
<1>2. SessionInv => StoredIsLive  BY DEF SessionInv
<1> QED  BY SessionInit, <1>1, <1>2, PTL DEF Spec
(* A login screen is waiting for its code, or its code is polled for.        *)
Polled == starts \in Nat /\ ShownIsPolled

(* Whoever shows the login screen has asked for a code, and who stops the    *)
(* timer shows the login screen or the panel.                                *)
LEMMA StepPolled == Polled /\ [Next]_vars => Polled'
<1> SUFFICES ASSUME Polled, [Next]_vars PROVE Polled'  OBVIOUS
<1> USE SessionAssumption DEF Polled, ShownIsPolled, ShowLogin, OpenPanel, server, login
<1>1. ASSUME NEW s \in Code, StartAnswered(s) \/ Approve(s) \/ Expire(s) PROVE Polled'
  BY <1>1 DEF StartAnswered, Approve, Expire
<1>2. CASE StartFailed  BY <1>2 DEF StartFailed
<1>3. ASSUME NEW i \in Poller, TimerFires(i) PROVE Polled'
  BY <1>3 DEF TimerFires
<1>4. ASSUME NEW i \in Poller, PollRead(i) PROVE Polled'
  BY <1>4 DEF PollRead
<1>5. ASSUME NEW i \in Poller, PollHand(i) PROVE Polled'
  BY <1>5 DEF PollHand
<1>6. ASSUME NEW i \in Poller, PollAnswered(i) PROVE Polled'
  BY <1>6 DEF PollAnswered
<1>7. ASSUME NEW i \in Poller, PollLost(i) PROVE Polled'
  BY <1>7 DEF PollLost
<1>8. ASSUME NEW c \in Slot, NEW k \in Kind, Send(c, k) PROVE Polled'
  BY <1>8 DEF Send, Ask
<1>9. ASSUME NEW c \in Slot, Served(c) PROVE Polled'
  BY <1>9 DEF Served
<1>10. ASSUME NEW c \in Slot, LoggedIn(c) PROVE Polled'
  BY <1>10 DEF LoggedIn, Ask
<1>11. ASSUME NEW c \in Slot, Unauthorised(c) PROVE Polled'
  BY <1>11 DEF Unauthorised, Refuse
<1>12. ASSUME NEW c \in Slot, RefreshChecked(c) PROVE Polled'
  BY <1>12 DEF RefreshChecked
<1>13. ASSUME NEW c \in Slot, RefreshRevokes(c) PROVE Polled'
  BY <1>13 DEF RefreshRevokes, Mint
<1>14. ASSUME NEW c \in Slot, RefreshInserts(c) PROVE Polled'
  BY <1>14 DEF RefreshInserts, Mint
<1>15. ASSUME NEW c \in Slot, Refreshed(c) PROVE Polled'
  BY <1>15 DEF Refreshed, Ask
<1>16. ASSUME NEW c \in Slot, RefreshRefused(c) PROVE Polled'
  BY <1>16 DEF RefreshRefused, Refuse
<1>17. ASSUME NEW c \in Slot, CallLost(c) PROVE Polled'
  BY <1>17 DEF CallLost
<1>18. CASE Logout \/ AccountLogout  BY <1>18 DEF Logout, AccountLogout
<1>19. ASSUME NEW p \in Pair, AccessRunsOut(p) PROVE Polled'
  BY <1>19 DEF AccessRunsOut
<1>20. CASE UNCHANGED vars  BY <1>20 DEF vars
<1> QED  BY <1>1, <1>2, <1>3, <1>4, <1>5, <1>6, <1>7, <1>8, <1>9, <1>10, <1>11, <1>12,
            <1>13, <1>14, <1>15, <1>16, <1>17, <1>18, <1>19, <1>20 DEF Next

(* Whatever polls and older login screens end meanwhile, the code in sight is *)
(* the one the timer polls for (showLogin() in farm.js).                     *)
THEOREM ScreenIsPolled == Spec => []ShownIsPolled
<1>1. Init => Polled  BY DEF Init, Polled, ShownIsPolled
<1>2. Polled => ShownIsPolled  BY DEF Polled
<1> QED  BY <1>1, StepPolled, <1>2, PTL DEF Spec

(*---------------------- the panel ----------------------*)
(* Its pages, for every farm, set of pages and length of visit, in part k:    *)
(* what a quiet page shows is what was asked for last, Back stays inside the  *)
(* panel, and leads to the page that was left with the filters it had.        *)
(*                                                                            *)
(* The argument is about debts.  A list in sight either is the one asked for, *)
(* or somebody owes it: a request is under way that will be painted, for the  *)
(* page, the container and the tab the user is on.  That none of the others   *)
(* is painted instead needs the counter of requests to have made them stale.  *)

(* Only a container's page has an argument. *)
ArgFits(p, a) == p # "cont" => a = None

PLeft(k) == [page : Pages[k], arg : Cont \cup {None}, f : P(k)!Filter, ef : P(k)!EFilter, kept : BOOLEAN]

PTyped(k) ==
    /\ P(k)!TypeOK
    /\ trail \in Seq(PLeft(k))
    /\ typed => "asics" \in Pages[k]
    /\ ArgFits(page, arg)
    /\ \A s \in Slot : calls[s] # None => ArgFits(calls[s].page, calls[s].arg)
    /\ \A i \in 1..Len(hist) : ArgFits(hist[i].page, hist[i].arg)

(* An entry of depth d has d entries before it. *)
DepthFits == \A i \in 1..Len(hist) : hist[i].d < i

HereIsEntry == hist[pos].page = page /\ hist[pos].arg = arg

(* The entry h is the one of the page that was left as t. *)
PKept(h, t) ==
    /\ h.page = t.page /\ h.arg = t.arg
    /\ h.page = "asics" /\ t.kept => h.f = t.f
    /\ h.page = "errors" /\ t.kept => h.ef = t.ef

(* The pages left are the entries before the current one. *)
TrailIsHistory ==
    /\ Len(trail) = pos - 1
    /\ \A i \in 1..Len(trail) : PKept(hist[i], trail[i])

(* A request that counts is for what the user sees of its page. *)
PCurrent(c) ==
    /\ c.page = "cont" /\ page = "cont" => c.arg = arg
    /\ c.page = "energy" => c.sub = sub

CallsCurrent == \A s \in Slot : calls[s] # None /\ calls[s].fresh => PCurrent(calls[s])

(* What the user has chosen is possible. *)
PFit(k) == (page = "asics" => P(k)!FitF(f) = f) /\ (page = "errors" => P(k)!FitE(ef) = ef)

(* The answer will put right what is in sight. *)
Owes(k, c) ==
    /\ c # None
    /\ c.page = page /\ c.arg = arg /\ (page = "energy" => c.sub = sub)
    /\ c.page \in P(k)!Loose \/ c.fresh

ShownOrOwed(k) ==
    ~mute /\ view.what = "list" => (P(k)!Shows /\ PFit(k)) \/ \E s \in Slot : Owes(k, calls[s])

PInv(k) ==
    PTyped(k) /\ DepthFits /\ HereIsEntry /\ TrailIsHistory /\ CallsCurrent /\ ShownOrOwed(k)

-----------------------------------------------------------------------------
(* A choice that was made possible is possible. *)
LEMMA FitIsFit ==
    ASSUME NEW k
    PROVE  \A x : P(k)!FitF(P(k)!FitF(x)) = P(k)!FitF(x) /\ P(k)!FitE(P(k)!FitE(x)) = P(k)!FitE(x)
BY DEF P!FitF, P!FitE, P!Possible, P!Pre, P!EPre

(* Filters stay filters, and what they list are devices. *)
LEMMA PanelFilters ==
    ASSUME NEW k, P(k)!Constants, NEW x \in P(k)!Filter, NEW e \in P(k)!EFilter
    PROVE  /\ P(k)!FitF(x) \in P(k)!Filter /\ P(k)!FitE(e) \in P(k)!EFilter
           /\ \A p, a : P(k)!Listed(p, a, x, e) \subseteq Devs["panel"]
<1>1. P(k)!FitF(x) \in P(k)!Filter
  BY DEF P!FitF, P!Possible, P!Filter
<1>2. P(k)!FitE(e) \in P(k)!EFilter
  BY DEF P!FitE, P!Possible, P!EFilter
<1>3. P(k)!Pre(x) \subseteq Devs["panel"] /\ P(k)!EPre(e) \subseteq Devs["panel"]
  BY DEF P!Pre, P!EPre, P!Filter, P!Constants
<1>. QED  BY <1>1, <1>2, <1>3 DEF P!Listed, P!InCont

(* A list is drawn with the filters of its own page only. *)
LEMMA OwnFilters ==
    ASSUME NEW k
    PROVE
    \A p, a, x, y, e, g :
        /\ p = "asics" => x = y
        /\ p = "errors" => e = g
        => P(k)!Listed(p, a, x, e) = P(k)!Listed(p, a, y, g)
BY DEF P!Listed

(* What asking does to the requests: the new one counts, those that share its *)
(* counter do not, and the others are as they were.                           *)
PAsked(k, p, a, b, own) ==
    \E m \in Slot :
        /\ calls[m] = None /\ calls'[m] \in P(k)!Call
        /\ calls'[m] = [page |-> p, arg |-> a, sub |-> b, fresh |-> TRUE, own |-> own]
        /\ \A s \in Slot \ {m} :
              /\ calls[s] = None => calls'[s] = None
              /\ calls[s] # None =>
                    /\ calls'[s] \in P(k)!Call
                    /\ calls'[s].page = calls[s].page /\ calls'[s].arg = calls[s].arg
                    /\ calls'[s].sub = calls[s].sub
                    /\ calls'[s].fresh => calls[s].fresh
                    /\ P(k)!Counter(calls[s].page) = P(k)!Counter(p) /\ P(k)!Counter(p) # "none" =>
                          ~calls'[s].fresh
                    /\ P(k)!Counter(calls[s].page) # P(k)!Counter(p) => calls'[s] = calls[s]

LEMMA AskAsks ==
    ASSUME NEW k, P(k)!Constants, calls \in [Slot -> P(k)!Call \cup {None}],
           NEW p \in Pages[k], NEW a \in Cont \cup {None}, NEW b \in P(k)!Subs, NEW own \in BOOLEAN,
           P(k)!Ask(p, a, b, own)
    PROVE  calls' \in [Slot -> P(k)!Call \cup {None}] /\ PAsked(k, p, a, b, own)
<1>. DEFINE new == [page |-> p, arg |-> a, sub |-> b, fresh |-> TRUE, own |-> own]
            mine == CHOOSE s \in P(k)!Free : TRUE
            Old(c) == IF c # None /\ P(k)!Counter(c.page) = P(k)!Counter(p)
                /\ P(k)!Counter(p) # "none"
                      THEN [c EXCEPT !.fresh = FALSE] ELSE c
<1>1. mine \in Slot /\ calls[mine] = None
  BY DEF P!Ask, P!Free
<1>2. calls' = [s \in Slot |-> IF s = mine THEN new ELSE Old(calls[s])]
  BY DEF P!Ask
<1>3. new \in P(k)!Call
  BY DEF P!Call
<1>4. \A c \in P(k)!Call : Old(c) \in P(k)!Call
  BY DEF P!Call
<1>5. Old(None) = None
  OBVIOUS
<1>6. calls' \in [Slot -> P(k)!Call \cup {None}]
  BY <1>2, <1>3, <1>4, <1>5
<1>7. ASSUME NEW s \in Slot \ {mine}
      PROVE  /\ calls[s] = None => calls'[s] = None
             /\ calls[s] # None =>
                   /\ calls'[s] \in P(k)!Call
                   /\ calls'[s].page = calls[s].page /\ calls'[s].arg = calls[s].arg
                   /\ calls'[s].sub = calls[s].sub
                   /\ calls'[s].fresh => calls[s].fresh
                   /\ P(k)!Counter(calls[s].page) = P(k)!Counter(p) /\ P(k)!Counter(p) # "none" =>
                         ~calls'[s].fresh
                   /\ P(k)!Counter(calls[s].page) # P(k)!Counter(p) => calls'[s] = calls[s]
  <2>1. calls'[s] = Old(calls[s])
    BY <1>2
  <2>2. calls[s] = None \/ calls[s] \in P(k)!Call
    OBVIOUS
  <2>. QED  BY <2>1, <2>2, <1>4, <1>5 DEF P!Call
<1>8. calls'[mine] = new
  BY <1>1, <1>2
<1>. QED  BY <1>1, <1>3, <1>6, <1>7, <1>8 DEF PAsked

(* The history after a page is opened: the entry was there, its place is      *)
(* taken, or one is added after it and those that came after are forgotten.   *)
Entered(p, a, x, e, keep) ==
    \/ /\ hist' = hist /\ pos' = pos
       /\ hist[pos].page = p /\ hist[pos].arg = a
    \/ /\ keep
       /\ pos' = pos /\ Len(hist') = Len(hist)
       /\ \A i \in 1..Len(hist) : i # pos => hist'[i] = hist[i]
       /\ hist'[pos] = [page |-> p, arg |-> a, d |-> hist[pos].d, f |-> None, ef |-> None]
    \/ /\ ~keep /\ <<p, a>> # <<hist[pos].page, hist[pos].arg>>
       /\ pos' = pos + 1 /\ Len(hist') = pos + 1
       /\ \A i \in 1..pos - 1 : hist'[i] = hist[i]
       /\ hist'[pos] = [page |-> hist[pos].page, arg |-> hist[pos].arg, d |-> hist[pos].d,
                        f |-> x, ef |-> e]
       /\ hist'[pos + 1] = [page |-> p, arg |-> a, d |-> hist[pos].d + 1,
                            f |-> None, ef |-> None]

LEMMA GoEnters ==
    ASSUME NEW k, hist \in Seq(P(k)!Entry), pos \in 1..Len(hist),
           NEW p \in Pages[k], NEW a \in Cont \cup {None}, NEW b \in P(k)!Subs,
           NEW keep \in BOOLEAN,
           NEW x \in P(k)!Filter, NEW e \in P(k)!EFilter, P(k)!Go(p, keep, a, b, x, e)
    PROVE  hist' \in Seq(P(k)!Entry) /\ pos' \in 1..Len(hist') /\ Entered(p, a, x, e, keep)
<1>. DEFINE cur == hist[pos]
            new  == [page |-> p, arg |-> a, d |-> cur.d, f |-> None, ef |-> None]
            cut  == SubSeq(hist, 1, pos)
            kept == [page |-> cur.page, arg |-> cur.arg, d |-> cur.d, f |-> x, ef |-> e]
            next == [new EXCEPT !.d = cur.d + 1]
<1>1. cur \in P(k)!Entry
  OBVIOUS
<1>2. new \in P(k)!Entry /\ kept \in P(k)!Entry /\ next \in P(k)!Entry
  BY <1>1 DEF P!Entry
<1>3. CASE <<cur.page, cur.arg>> = <<p, a>>
  BY <1>3 DEF P!Go, Entered
<1>4. CASE <<cur.page, cur.arg>> # <<p, a>> /\ keep
  <2>1. hist' = [hist EXCEPT ![pos] = new] /\ pos' = pos
    BY <1>4 DEF P!Go
  <2>2. hist' \in Seq(P(k)!Entry) /\ Len(hist') = Len(hist)
    BY <2>1, <1>2
  <2>. QED  BY <1>4, <2>1, <2>2 DEF Entered
<1>5. CASE <<cur.page, cur.arg>> # <<p, a>> /\ ~keep
  <2>1. /\ hist' = Append([cut EXCEPT ![pos].f = x, ![pos].ef = e], next)
        /\ pos' = pos + 1
    BY <1>5 DEF P!Go
  <2>2. /\ cut \in Seq(P(k)!Entry) /\ Len(cut) = pos
        /\ \A i \in 1..pos : cut[i] = hist[i]
    OBVIOUS
  <2>3. [cut EXCEPT ![pos].f = x, ![pos].ef = e] = [cut EXCEPT ![pos] = kept]
    <3>1. \A h \in P(k)!Entry : [[h EXCEPT !.f = x] EXCEPT !.ef = e]
                             = [page |-> h.page, arg |-> h.arg, d |-> h.d, f |-> x, ef |-> e]
      <4>1. TAKE h \in P(k)!Entry
      <4>2. h = [page |-> h.page, arg |-> h.arg, d |-> h.d, f |-> h.f, ef |-> h.ef]
        BY DEF P!Entry
      <4>3. [h EXCEPT !.f = x] = [page |-> h.page, arg |-> h.arg, d |-> h.d, f |-> x, ef |-> h.ef]
        BY <4>2
      <4>4. \A g : g = [page |-> h.page, arg |-> h.arg, d |-> h.d, f |-> x, ef |-> h.ef]
                   => [g EXCEPT !.ef = e] = [page |-> h.page, arg |-> h.arg, d |-> h.d,
                                             f |-> x, ef |-> e]
        OBVIOUS
      <4>. QED  BY <4>3, <4>4
    <3>2. pos \in DOMAIN cut /\ cut[pos] = cur
      BY <2>2
    <3>. QED  BY <1>1, <3>1, <3>2
  <2>. HIDE DEF cut, kept
  <2>. DEFINE marked == [cut EXCEPT ![pos] = kept]
  <2>4. /\ marked \in Seq(P(k)!Entry) /\ Len(marked) = pos /\ marked[pos] = kept
        /\ \A i \in 1..pos - 1 : marked[i] = hist[i]
    BY <2>2, <1>2
  <2>. HIDE DEF marked, next
  <2>5. hist' = Append(marked, next)
    BY <2>1, <2>3 DEF marked
  <2>6. /\ hist' \in Seq(P(k)!Entry) /\ Len(hist') = pos + 1
        /\ hist'[pos] = kept /\ hist'[pos + 1] = next
        /\ \A i \in 1..pos - 1 : hist'[i] = hist[i]
    BY <2>4, <2>5, <1>2
  <2>7. next = [page |-> p, arg |-> a, d |-> cur.d + 1, f |-> None, ef |-> None]
    BY DEF next
  <2>8. Entered(p, a, x, e, keep)
    BY <1>5, <2>1, <2>6, <2>7 DEF Entered, kept
  <2>9. pos' \in 1..Len(hist')
    BY <2>1, <2>6
  <2>. QED  BY <2>6, <2>8, <2>9
<1>. QED  BY <1>3, <1>4, <1>5

(* The requests after one was asked for, when it is for the page the user is  *)
(* on by then, or for a list.                                                 *)
LEMMA AskedIsCurrent ==
    ASSUME NEW k, PTyped(k), CallsCurrent, calls' \in [Slot -> P(k)!Call \cup {None}],
           NEW p, NEW a, NEW b, NEW own, PAsked(k, p, a, b, own),
           ArgFits(p, a), sub' = b, b = sub \/ p = "energy",
           \/ page' = p /\ arg' = a
           \/ page' = page /\ arg' = arg /\ p \in {"asics", "errors"}
    PROVE  /\ CallsCurrent'
           /\ \A s \in Slot : calls'[s] # None => ArgFits(calls'[s].page, calls'[s].arg)
<1>1. PICK m \in Slot :
        /\ calls'[m] \in P(k)!Call
        /\ calls'[m] = [page |-> p, arg |-> a, sub |-> b, fresh |-> TRUE, own |-> own]
        /\ \A s \in Slot \ {m} :
              /\ calls[s] = None => calls'[s] = None
              /\ calls[s] # None =>
                    /\ calls'[s] \in P(k)!Call
                    /\ calls'[s].page = calls[s].page /\ calls'[s].arg = calls[s].arg
                    /\ calls'[s].sub = calls[s].sub
                    /\ calls'[s].fresh => calls[s].fresh
                    /\ P(k)!Counter(calls[s].page) = P(k)!Counter(p) /\ P(k)!Counter(p) # "none" =>
                          ~calls'[s].fresh
  BY DEF PAsked
<1>2. ASSUME NEW s \in Slot, calls'[s] # None
      PROVE  ArgFits(calls'[s].page, calls'[s].arg) /\ (calls'[s].fresh => PCurrent(calls[s])')
  <2>1. CASE s = m
    BY <2>1, <1>1 DEF PCurrent, ArgFits
  <2>2. CASE s # m
    <3>1. /\ calls[s] # None
          /\ calls'[s].page = calls[s].page /\ calls'[s].arg = calls[s].arg
          /\ calls'[s].sub = calls[s].sub
          /\ calls'[s].fresh => calls[s].fresh
          /\ P(k)!Counter(calls[s].page) = P(k)!Counter(p) /\ P(k)!Counter(p) # "none"
             => ~calls'[s].fresh
      BY <2>2, <1>1, <1>2
    <3>2. ArgFits(calls'[s].page, calls'[s].arg)
      BY <3>1 DEF PTyped
    <3>3. ASSUME calls'[s].fresh
          PROVE  PCurrent(calls[s])'
      <4>1. PCurrent(calls[s]) /\ ~(P(k)!Counter(calls[s].page) = P(k)!Counter(p) /\ P(k)!Counter(p) # "none")
        BY <3>1, <3>3 DEF CallsCurrent
      <4>2. P(k)!Counter("cont") = "S" /\ P(k)!Counter("energy") = "EN"
        BY DEF P!Counter, P!Loose
      <4>3. calls[s].page = "cont" => p # "cont"
        BY <4>1, <4>2
      <4>4. calls[s].page = "energy" => p # "energy"
        BY <4>1, <4>2
      <4>. QED  BY <3>1, <4>1, <4>3, <4>4 DEF PCurrent
    <3>. QED  BY <3>2, <3>3
  <2>. QED  BY <2>1, <2>2
<1>. QED  BY <1>2 DEF CallsCurrent

(* What is asked for from the page the user is on by then is owed. *)
LEMMA AskedIsOwed ==
    ASSUME NEW k, P(k)!Constants, calls' \in [Slot -> P(k)!Call \cup {None}],
           NEW p, NEW a, NEW b, NEW own, PAsked(k, p, a, b, own),
           page' = p, arg' = a, p = "energy" => sub' = b
    PROVE  \E s \in Slot : Owes(k, calls[s])'
<1>1. PICK m \in Slot :
        /\ calls'[m] \in P(k)!Call
        /\ calls'[m] = [page |-> p, arg |-> a, sub |-> b, fresh |-> TRUE, own |-> own]
  BY DEF PAsked
<1>2. calls'[m] # None
  BY <1>1 DEF P!Constants
<1>. QED  BY <1>1, <1>2 DEF Owes

(* A search asks for nothing a page with a counter of its own has to do with. *)
LEMMA CountedApart ==
    ASSUME NEW k, NEW p \in {"asics", "errors"}, NEW a, NEW b, NEW own,
           PAsked(k, p, a, b, own), P(k)!Counter(page) # P(k)!Counter(p),
           UNCHANGED <<page, arg, sub, view>>,
           (P(k)!Shows /\ PFit(k)) \/ \E s \in Slot : Owes(k, calls[s])
    PROVE  ((P(k)!Shows /\ PFit(k)) \/ \E s \in Slot : Owes(k, calls[s]))'
<1>1. page \notin {"asics", "errors", "cont"}
  BY DEF P!Counter, P!Loose
<1>2. CASE P(k)!Shows /\ PFit(k)
  BY <1>1, <1>2 DEF P!Shows, PFit, P!Listed
<1>3. ASSUME NEW s \in Slot, Owes(k, calls[s])
      PROVE  Owes(k, calls[s])'
  <2>1. calls'[s] = calls[s]
    BY <1>3 DEF Owes, PAsked
  <2>. QED  BY <1>3, <2>1 DEF Owes
<1>. QED  BY <1>2, <1>3

(* The page that is left joins the trail, at the place its entry has. *)
LEMMA TrailGrows ==
    ASSUME NEW k, TrailIsHistory, trail \in Seq(PLeft(k)), pos \in Nat, pos' = pos + 1,
           NEW t \in PLeft(k), trail' = Append(trail, t), PKept(hist'[pos], t),
           \A i \in 1..pos - 1 : hist'[i] = hist[i]
    PROVE  TrailIsHistory' /\ trail' \in Seq(PLeft(k))
<1>1. Len(trail) = pos - 1 /\ \A i \in 1..pos - 1 : PKept(hist[i], trail[i])
  BY DEF TrailIsHistory
<1>2. \A q \in Seq(PLeft(k)), u \in PLeft(k) :
         /\ Append(q, u) \in Seq(PLeft(k)) /\ Len(Append(q, u)) = Len(q) + 1
         /\ Append(q, u)[Len(q) + 1] = u
         /\ \A i \in 1..Len(q) : Append(q, u)[i] = q[i]
  OBVIOUS
<1>3. /\ Append(trail, t) \in Seq(PLeft(k)) /\ Len(Append(trail, t)) = Len(trail) + 1
      /\ Append(trail, t)[Len(trail) + 1] = t
      /\ \A i \in 1..Len(trail) : Append(trail, t)[i] = trail[i]
  BY <1>2, Zenon
<1>4. Len(trail) + 1 = pos /\ 1..Len(trail) = 1..pos - 1
  BY <1>1
<1>5. /\ trail' \in Seq(PLeft(k)) /\ Len(trail') = pos
      /\ trail'[pos] = t /\ \A i \in 1..pos - 1 : trail'[i] = trail[i]
  BY <1>3, <1>4
<1>6. ASSUME NEW i \in 1..pos
      PROVE  PKept(hist'[i], trail'[i])
  <2>1. CASE i = pos
    BY <2>1, <1>5
  <2>2. CASE i # pos
    <3>1. i \in 1..pos - 1
      BY <2>2
    <3>2. hist'[i] = hist[i] /\ trail'[i] = trail[i] /\ PKept(hist[i], trail[i])
      BY <3>1, <1>1, <1>5
    <3>. QED  BY <3>2
  <2>. QED  BY <2>1, <2>2
<1>7. Len(trail') = pos' - 1 /\ 1..Len(trail') = 1..pos
  BY <1>5
<1>. QED  BY <1>5, <1>6, <1>7 DEF TrailIsHistory, PKept

(* The history after a page was opened. *)
LEMMA EnteredFits ==
    ASSUME NEW k, PTyped(k), DepthFits, HereIsEntry, TrailIsHistory,
           NEW p, NEW a, NEW x, NEW e, NEW keep \in BOOLEAN, Entered(p, a, x, e, keep),
           hist' \in Seq(P(k)!Entry), pos' \in 1..Len(hist'),
           ArgFits(p, a), page' = p, arg' = a,
           trail' = IF keep \/ <<p, a>> = <<page, arg>> THEN trail
                    ELSE Append(trail, P(k)!Here(TRUE)),
           page = "asics" /\ p # "asics" => x = f,
           e = ef
    PROVE  /\ DepthFits' /\ HereIsEntry' /\ TrailIsHistory' /\ trail' \in Seq(PLeft(k))
           /\ \A i \in 1..Len(hist') : ArgFits(hist'[i].page, hist'[i].arg)
<1>1. /\ hist \in Seq(P(k)!Entry) /\ pos \in 1..Len(hist) /\ trail \in Seq(PLeft(k))
      /\ ArgFits(page, arg)
      /\ \A i \in 1..Len(hist) : ArgFits(hist[i].page, hist[i].arg)
      /\ \A i \in 1..Len(hist) : hist[i].d \in Nat
  <2>1. /\ hist \in Seq(P(k)!Entry) /\ pos \in 1..Len(hist) /\ trail \in Seq(PLeft(k))
        /\ ArgFits(page, arg)
        /\ \A i \in 1..Len(hist) : ArgFits(hist[i].page, hist[i].arg)
    BY DEF PTyped, P!TypeOK
  <2>2. \A i \in 1..Len(hist) : hist[i] \in P(k)!Entry
    BY <2>1
  <2>. QED  BY <2>1, <2>2 DEF P!Entry
<1>2. P(k)!Here(TRUE) \in PLeft(k)
  BY DEF PTyped, P!TypeOK, P!Here, PLeft
<1>3. CASE /\ hist' = hist /\ pos' = pos
           /\ hist[pos].page = p /\ hist[pos].arg = a
  <2>1. trail' = trail
    BY <1>3 DEF HereIsEntry
  <2>2. DepthFits' /\ HereIsEntry'
    BY <1>3 DEF DepthFits, HereIsEntry
  <2>3. TrailIsHistory' /\ trail' \in Seq(PLeft(k))
    BY <1>1, <1>3, <2>1 DEF TrailIsHistory
  <2>4. \A i \in 1..Len(hist') : ArgFits(hist'[i].page, hist'[i].arg)
    BY <1>1, <1>3
  <2>. QED  BY <2>2, <2>3, <2>4
<1>4. CASE /\ keep
           /\ pos' = pos /\ Len(hist') = Len(hist)
           /\ \A i \in 1..Len(hist) : i # pos => hist'[i] = hist[i]
           /\ hist'[pos] = [page |-> p, arg |-> a, d |-> hist[pos].d, f |-> None, ef |-> None]
  <2>1. trail' = trail
    BY <1>4
  <2>2. DepthFits'
    BY <1>1, <1>4 DEF DepthFits
  <2>3. HereIsEntry'
    BY <1>4 DEF HereIsEntry
  <2>4. TrailIsHistory'
    BY <1>1, <1>4, <2>1 DEF TrailIsHistory
  <2>5. \A i \in 1..Len(hist') : ArgFits(hist'[i].page, hist'[i].arg)
    <3>1. ArgFits(hist'[pos].page, hist'[pos].arg)
      BY <1>4
    <3>2. \A i \in 1..Len(hist) : i # pos => ArgFits(hist'[i].page, hist'[i].arg)
      BY <1>1, <1>4
    <3>. QED  BY <1>4, <3>1, <3>2
  <2>6. trail' \in Seq(PLeft(k))
    BY <1>1, <2>1
  <2>. QED  BY <2>2, <2>3, <2>4, <2>5, <2>6
<1>5. CASE /\ ~keep /\ <<p, a>> # <<hist[pos].page, hist[pos].arg>>
           /\ pos' = pos + 1 /\ Len(hist') = pos + 1
           /\ \A i \in 1..pos - 1 : hist'[i] = hist[i]
           /\ hist'[pos] = [page |-> hist[pos].page, arg |-> hist[pos].arg, d |-> hist[pos].d,
                            f |-> x, ef |-> e]
           /\ hist'[pos + 1] = [page |-> p, arg |-> a, d |-> hist[pos].d + 1,
                                f |-> None, ef |-> None]
  <2>1. trail' = Append(trail, P(k)!Here(TRUE))
    BY <1>5 DEF HereIsEntry
  <2>3. DepthFits'
    BY <1>1, <1>5 DEF DepthFits
  <2>4. HereIsEntry'
    BY <1>5 DEF HereIsEntry
  <2>5. PKept(hist'[pos], P(k)!Here(TRUE))
    <3>1. /\ P(k)!Here(TRUE).page = page /\ P(k)!Here(TRUE).arg = arg
          /\ P(k)!Here(TRUE).f = f /\ P(k)!Here(TRUE).ef = ef
      BY DEF P!Here
    <3>2. page = "asics" => x = f
      BY <1>1, <1>5 DEF ArgFits, HereIsEntry
    <3>3. /\ hist'[pos].page = page /\ hist'[pos].arg = arg
          /\ hist'[pos].f = x /\ hist'[pos].ef = ef
      BY <1>5 DEF HereIsEntry
    <3>. QED  BY <3>1, <3>2, <3>3 DEF PKept
  <2>6. TrailIsHistory' /\ trail' \in Seq(PLeft(k))
    <3>1. PICK t \in PLeft(k) : t = P(k)!Here(TRUE)
      BY <1>2
    <3>2. pos \in Nat
      BY <1>1
    <3>3. trail' = Append(trail, t) /\ PKept(hist'[pos], t)
      BY <2>1, <2>5, <3>1
    <3>. QED  BY <1>1, <1>5, <3>2, <3>3, TrailGrows
  <2>7. \A i \in 1..Len(hist') : i \in 1..pos - 1 \/ i = pos \/ i = pos + 1
    BY <1>1, <1>5
  <2>8. \A i \in 1..Len(hist') : ArgFits(hist'[i].page, hist'[i].arg)
    <3>1. \A i \in 1..pos - 1 : ArgFits(hist'[i].page, hist'[i].arg)
      BY <1>1, <1>5
    <3>2. hist'[pos].page = hist[pos].page /\ hist'[pos].arg = hist[pos].arg
      BY <1>5
    <3>3. ArgFits(hist'[pos].page, hist'[pos].arg)
      BY <1>1, <3>2
    <3>4. ArgFits(hist'[pos + 1].page, hist'[pos + 1].arg)
      BY <1>5
    <3>. QED  BY <2>7, <3>1, <3>3, <3>4
  <2>. QED  BY <2>3, <2>4, <2>6, <2>8
<1>. QED  BY <1>3, <1>4, <1>5 DEF Entered

(* A page that is opened keeps the invariant: its own answer is owed. *)
LEMMA GoKeeps ==
    ASSUME NEW k, P(k)!Constants, PInv(k),
           NEW p \in Pages[k], NEW a \in Cont \cup {None}, NEW b \in P(k)!Subs,
           NEW keep \in BOOLEAN,
           NEW x \in P(k)!Filter, NEW e \in P(k)!EFilter, P(k)!Go(p, keep, a, b, x, e),
           ArgFits(p, a), b = sub \/ p = "energy", e = ef,
           page = "asics" /\ p # "asics" => x = f,
           acts' \in 0..Most[k], late' \in Pages[k] \cup {None}
    PROVE  PInv(k)'
<1>1. /\ page' = p /\ arg' = a /\ sub' = b /\ f' = x /\ ef' = e
      /\ P(k)!Ask(p, a, b, FALSE)
      /\ trail' = IF keep \/ <<p, a>> = <<page, arg>> THEN trail ELSE Append(trail, P(k)!Here(TRUE))
      /\ UNCHANGED <<order, last, typed>>
  BY DEF P!Go
<1>2. \/ keep /\ UNCHANGED <<view, sel, mute>>
      \/ /\ ~keep /\ sel' = {} /\ mute' = FALSE
         /\ view' = [view EXCEPT !.what = "loading", !.list = {}]
  BY DEF P!Go, P!Wait
<1>3. P(k)!TypeOK
  BY DEF PInv, PTyped
<1>4. calls' \in [Slot -> P(k)!Call \cup {None}] /\ PAsked(k, p, a, b, FALSE)
  BY <1>1, <1>3, AskAsks DEF P!TypeOK
<1>5. hist' \in Seq(P(k)!Entry) /\ pos' \in 1..Len(hist') /\ Entered(p, a, x, e, keep)
  <2>1. hist \in Seq(P(k)!Entry) /\ pos \in 1..Len(hist)
    BY <1>3 DEF P!TypeOK
  <2> QED  BY <2>1, GoEnters, Zenon
<1>6. /\ CallsCurrent'
      /\ \A s \in Slot : calls'[s] # None => ArgFits(calls'[s].page, calls'[s].arg)
  BY <1>1, <1>4, AskedIsCurrent DEF PInv
<1>7. \E s \in Slot : Owes(k, calls[s])'
  BY <1>1, <1>4, AskedIsOwed
<1>8. /\ DepthFits' /\ HereIsEntry' /\ TrailIsHistory' /\ trail' \in Seq(PLeft(k))
      /\ \A i \in 1..Len(hist') : ArgFits(hist'[i].page, hist'[i].arg)
  BY <1>1, <1>5, EnteredFits DEF PInv
<1>9. view' \in P(k)!View /\ sel' \subseteq Devs["panel"]
  <2>1. view \in P(k)!View /\ sel \subseteq Devs["panel"]
    BY <1>3 DEF P!TypeOK
  <2>. QED  BY <1>2, <2>1 DEF P!View
<1>10. P(k)!TypeOK'
  <2>1. mute' \in BOOLEAN
    BY <1>2, <1>3 DEF P!TypeOK
  <2>. QED  BY <1>1, <1>3, <1>4, <1>5, <1>9, <2>1 DEF P!TypeOK
<1>11. PTyped(k)'
  BY <1>1, <1>6, <1>8, <1>10 DEF PInv, PTyped
<1>12. ShownOrOwed(k)'
  BY <1>7 DEF ShownOrOwed
<1>. QED  BY <1>6, <1>8, <1>11, <1>12 DEF PInv

(* So does a page that calls itself again: its answer is owed too, or it is   *)
(* not the page in sight.                                                     *)
LEMMA AgainKeeps ==
    ASSUME NEW k, P(k)!Constants, PInv(k),
           NEW p \in Pages[k] \cap {"asics", "errors"}, NEW x \in P(k)!Filter,
           NEW e \in P(k)!EFilter,
           P(k)!Again(p, None, x, e), acts' \in 0..Most[k], typed' = typed \/ typed' = FALSE
    PROVE  PInv(k)'
<1>1. /\ P(k)!Ask(p, None, sub, TRUE) /\ f' = x /\ ef' = e
      /\ mute' = (mute \/ (page # p /\ P(k)!Counter(page) = P(k)!Counter(p)))
      /\ UNCHANGED <<page, arg, sub, view, hist, pos, sel, order, last, late, trail>>
  BY DEF P!Again
<1>2. P(k)!TypeOK
  BY DEF PInv, PTyped
<1>3. calls' \in [Slot -> P(k)!Call \cup {None}] /\ PAsked(k, p, None, sub, TRUE)
  BY <1>1, <1>2, AskAsks DEF P!TypeOK
<1>4. ArgFits(p, None)
  BY DEF ArgFits
<1>5. /\ CallsCurrent'
      /\ \A s \in Slot : calls'[s] # None => ArgFits(calls'[s].page, calls'[s].arg)
  BY <1>1, <1>3, <1>4, AskedIsCurrent DEF PInv
<1>6. page = p => \E s \in Slot : Owes(k, calls[s])'
  <2>1. page = p => arg' = None
    BY <1>1 DEF PInv, PTyped, ArgFits
  <2>. QED  BY <1>1, <1>3, <2>1, AskedIsOwed
<1>7. ShownOrOwed(k)'
  <2>1. CASE page = p
    BY <1>6, <2>1 DEF ShownOrOwed
  <2>2. CASE page # p /\ P(k)!Counter(page) = P(k)!Counter(p)
    <3>1. mute'
      BY <1>1, <2>2
    <3>. QED  BY <3>1 DEF ShownOrOwed
  <2>3. CASE P(k)!Counter(page) # P(k)!Counter(p)
    <3>1. ~mute' /\ view'.what = "list" => ~mute /\ view.what = "list"
      BY <1>1, <1>2 DEF P!TypeOK
    <3>. QED  BY <1>1, <1>3, <2>3, <3>1, CountedApart DEF PInv, ShownOrOwed
  <2>. QED  BY <2>1, <2>2, <2>3
<1>8. typed' \in BOOLEAN /\ mute' \in BOOLEAN
  BY <1>1, <1>2 DEF P!TypeOK
<1>9. P(k)!TypeOK'
  BY <1>1, <1>2, <1>3, <1>8 DEF P!TypeOK
<1>10. PTyped(k)'
  BY <1>1, <1>5, <1>9 DEF PInv, PTyped
<1>. QED
  BY <1>1, <1>5, <1>7, <1>10 DEF PInv, DepthFits, HereIsEntry, TrailIsHistory

(* A step through the history keeps the invariant, if the trail follows: the  *)
(* page is asked for, or it is open already with the filters as they were, or *)
(* what is in sight is known to be wrong.                                     *)
LEMMA LandKeeps ==
    ASSUME NEW k, P(k)!Constants, PInv(k), NEW j \in 1..Len(hist), P(k)!Land(j),
           acts' \in 0..Most[k],
           TrailIsHistory', trail' \in Seq(PLeft(k))
    PROVE  PInv(k)'
<1>. DEFINE e == hist[j]
<1>1. P(k)!TypeOK
  BY DEF PInv, PTyped
<1>2. e \in P(k)!Entry /\ hist \in Seq(P(k)!Entry) /\ ArgFits(e.page, e.arg)
  BY <1>1 DEF P!TypeOK, PInv, PTyped
<1>3. /\ pos' = j
      /\ f' = (IF e.f # None THEN e.f ELSE f)
      /\ ef' = (IF e.ef # None THEN e.ef ELSE ef)
      /\ UNCHANGED <<sub, hist, order, last, typed, late>>
  BY DEF P!Land
<1>4. f' \in P(k)!Filter /\ ef' \in P(k)!EFilter
  BY <1>1, <1>2, <1>3 DEF P!TypeOK, P!Entry
<1>5. CASE <<e.page, e.arg>> # <<page, arg>>
  <2>1. /\ P(k)!Ask(e.page, e.arg, sub, FALSE)
        /\ page' = e.page /\ arg' = e.arg
        /\ view' = [view EXCEPT !.what = "loading", !.list = {}] /\ sel' = {}
        /\ mute' = FALSE
    BY <1>5 DEF P!Land, P!Wait
  <2>2. e.page \in Pages[k] /\ e.arg \in Cont \cup {None} /\ sub \in P(k)!Subs
    BY <1>1, <1>2 DEF P!Entry, P!TypeOK
  <2>3. calls' \in [Slot -> P(k)!Call \cup {None}] /\ PAsked(k, e.page, e.arg, sub, FALSE)
    BY <1>1, <2>1, <2>2, AskAsks DEF P!TypeOK
  <2>4. /\ CallsCurrent'
        /\ \A s \in Slot : calls'[s] # None => ArgFits(calls'[s].page, calls'[s].arg)
    BY <1>2, <1>3, <2>1, <2>3, AskedIsCurrent DEF PInv
  <2>5. view' \in P(k)!View /\ view'.what # "list"
    BY <1>1, <2>1 DEF P!TypeOK, P!View
  <2>6. P(k)!TypeOK'
    BY <1>1, <1>2, <1>3, <1>4, <2>1, <2>2, <2>3, <2>5 DEF P!TypeOK
  <2>7. PTyped(k)'
    BY <1>2, <1>3, <2>1, <2>4, <2>6 DEF PInv, PTyped
  <2>8. DepthFits' /\ HereIsEntry'
    BY <1>3, <2>1 DEF PInv, DepthFits, HereIsEntry
  <2>. QED  BY <2>4, <2>5, <2>7, <2>8 DEF PInv, ShownOrOwed
<1>6. CASE <<e.page, e.arg>> = <<page, arg>>
  <2>1. /\ UNCHANGED <<page, arg, view, sel, calls>>
        /\ mute' = (mute \/ (view.what = "list" /\ <<f', ef'>> # <<f, ef>>))
    BY <1>6 DEF P!Land
  <2>2. P(k)!TypeOK'
    BY <1>1, <1>2, <1>3, <1>4, <2>1 DEF P!TypeOK
  <2>3. PTyped(k)'
    BY <1>3, <2>1, <2>2 DEF PInv, PTyped
  <2>4. DepthFits' /\ HereIsEntry'
    BY <1>3, <1>6, <2>1 DEF PInv, DepthFits, HereIsEntry
  <2>5. CallsCurrent'
    BY <1>3, <2>1 DEF PInv, CallsCurrent, PCurrent
  <2>6. ShownOrOwed(k)'
    <3>1. ~mute' /\ view'.what = "list" => ~mute /\ f' = f /\ ef' = ef
      BY <1>1, <2>1 DEF P!TypeOK
    <3>. QED  BY <1>3, <2>1, <3>1 DEF PInv, ShownOrOwed, P!Shows, PFit, Owes
  <2>. QED  BY <2>3, <2>4, <2>5, <2>6 DEF PInv
<1>. QED  BY <1>5, <1>6

LEMMA BackKeeps ==
    ASSUME NEW k, P(k)!Constants, PInv(k), P(k)!Back
    PROVE  PInv(k)'
<1>1. /\ hist \in Seq(P(k)!Entry) /\ pos \in 1..Len(hist) /\ trail \in Seq(PLeft(k))
      /\ Len(trail) = pos - 1
  BY DEF PInv, PTyped, P!TypeOK, TrailIsHistory
<1>2. pos > 1 /\ P(k)!Land(pos - 1) /\ acts' \in 0..Most[k]
  BY DEF P!Back, P!Does, PInv, PTyped, P!TypeOK, P!Constants
<1>3. trail' = SubSeq(trail, 1, Len(trail) - 1)
  BY <1>1, <1>2 DEF P!Back
<1>4. /\ trail' \in Seq(PLeft(k)) /\ Len(trail') = Len(trail) - 1
      /\ \A i \in 1..Len(trail) - 1 : trail'[i] = trail[i]
  BY <1>1, <1>2, <1>3
<1>5. pos' = pos - 1 /\ hist' = hist
  BY <1>2 DEF P!Land
<1>6. TrailIsHistory'
  BY <1>1, <1>4, <1>5 DEF PInv, TrailIsHistory
<1>7. pos - 1 \in 1..Len(hist)
  BY <1>1, <1>2
<1>. QED  BY <1>2, <1>4, <1>6, <1>7, LandKeeps

LEMMA ForwardKeeps ==
    ASSUME NEW k, P(k)!Constants, PInv(k), P(k)!Forward
    PROVE  PInv(k)'
<1>1. /\ hist \in Seq(P(k)!Entry) /\ pos \in 1..Len(hist) /\ trail \in Seq(PLeft(k))
  BY DEF PInv, PTyped, P!TypeOK
<1>2. pos < Len(hist) /\ P(k)!Land(pos + 1) /\ acts' \in 0..Most[k]
  BY DEF P!Forward, P!Does, PInv, PTyped, P!TypeOK, P!Constants
<1>3. PICK t \in PLeft(k) : t = P(k)!Here(FALSE)
  BY DEF PInv, PTyped, P!TypeOK, P!Here, PLeft
<1>4. pos' = pos + 1 /\ hist' = hist
  BY <1>2 DEF P!Land
<1>5. PKept(hist'[pos], t)
  BY <1>3, <1>4 DEF PInv, HereIsEntry, PKept, P!Here
<1>6. trail' = Append(trail, t)
  BY <1>3 DEF P!Forward
<1>7. TrailIsHistory' /\ trail' \in Seq(PLeft(k))
  BY <1>1, <1>4, <1>5, <1>6, TrailGrows DEF PInv
<1>. QED  BY <1>1, <1>2, <1>7, LandKeeps

(* The browser makes an entry of its own, of depth 0. *)
LEMMA CrumbKeeps ==
    ASSUME NEW k, P(k)!Constants, PInv(k), P(k)!Crumb
    PROVE  PInv(k)'
<1>. DEFINE new == [page |-> "map", arg |-> None, d |-> 0, f |-> None, ef |-> None]
            cut == SubSeq(hist, 1, pos)
<1>1. /\ "map" \in Pages[k] /\ P(k)!Ask("map", None, sub, FALSE)
      /\ page' = "map" /\ arg' = None
      /\ view' = [view EXCEPT !.what = "loading", !.list = {}] /\ sel' = {}
      /\ mute' = FALSE
      /\ hist' = Append(cut, new) /\ pos' = pos + 1
      /\ UNCHANGED <<sub, f, ef, order, last, typed, late>>
  BY DEF P!Crumb, P!Wait
<1>2. P(k)!TypeOK /\ acts' \in 0..Most[k]
  BY DEF P!Crumb, P!Does, PInv, PTyped, P!TypeOK, P!Constants
<1>3. hist \in Seq(P(k)!Entry) /\ pos \in 1..Len(hist) /\ trail \in Seq(PLeft(k))
  BY DEF PInv, PTyped, P!TypeOK
<1>4. /\ cut \in Seq(P(k)!Entry) /\ Len(cut) = pos
      /\ \A i \in 1..pos : cut[i] = hist[i]
  BY <1>3
<1>5. new \in P(k)!Entry
  BY <1>1 DEF P!Entry
<1>. HIDE DEF new, cut
<1>6. /\ hist' \in Seq(P(k)!Entry) /\ Len(hist') = pos + 1
      /\ hist'[pos + 1] = new
      /\ \A i \in 1..pos : hist'[i] = hist[i]
  BY <1>1, <1>3, <1>4, <1>5
<1>7. calls' \in [Slot -> P(k)!Call \cup {None}] /\ PAsked(k, "map", None, sub, FALSE)
  BY <1>1, <1>2, AskAsks DEF P!TypeOK
<1>8. ArgFits("map", None) /\ new.page = "map" /\ new.arg = None /\ new.d = 0
  BY DEF ArgFits, new
<1>9. /\ CallsCurrent'
      /\ \A s \in Slot : calls'[s] # None => ArgFits(calls'[s].page, calls'[s].arg)
  BY <1>1, <1>7, <1>8, AskedIsCurrent DEF PInv
<1>10. DepthFits' /\ HereIsEntry'
  <2>1. \A i \in 1..pos : hist'[i].d < i
    BY <1>3, <1>6 DEF PInv, DepthFits
  <2>. QED  BY <1>1, <1>3, <1>6, <1>8, <2>1 DEF DepthFits, HereIsEntry
<1>11. TrailIsHistory' /\ trail' \in Seq(PLeft(k))
  <2>1. PICK t \in PLeft(k) : t = P(k)!Here(FALSE)
    BY DEF PInv, PTyped, P!TypeOK, P!Here, PLeft
  <2>2. hist'[pos] = hist[pos]
    BY <1>3, <1>6
  <2>3. PKept(hist'[pos], t)
    BY <2>1, <2>2 DEF PInv, HereIsEntry, PKept, P!Here
  <2>4. trail' = Append(trail, t)
    BY <2>1 DEF P!Crumb
  <2>. QED  BY <1>1, <1>3, <1>6, <2>3, <2>4, TrailGrows DEF PInv
<1>12. \A i \in 1..Len(hist') : ArgFits(hist'[i].page, hist'[i].arg)
  <2>1. \A i \in 1..pos : ArgFits(hist'[i].page, hist'[i].arg)
    BY <1>3, <1>6 DEF PInv, PTyped
  <2>. QED  BY <1>3, <1>6, <1>8, <2>1
<1>13. view' \in P(k)!View /\ view'.what # "list"
  BY <1>1, <1>2 DEF P!TypeOK, P!View
<1>14. pos' \in 1..Len(hist')
  BY <1>1, <1>3, <1>6
<1>15. P(k)!TypeOK'
  BY <1>1, <1>2, <1>6, <1>7, <1>13, <1>14 DEF P!TypeOK
<1>16. PTyped(k)'
  BY <1>1, <1>8, <1>9, <1>11, <1>12, <1>15 DEF PInv, PTyped
<1>. QED  BY <1>9, <1>10, <1>11, <1>13, <1>16 DEF PInv, ShownOrOwed

(* An answer is painted if it is owed, or shows what was asked for all the    *)
(* same, or what is in sight is known to be wrong; and one that is not        *)
(* painted leaves alone what is in sight.                                     *)
LEMMA PanelAnswerKeeps ==
    ASSUME NEW k, P(k)!Constants, PInv(k), NEW s \in Slot, P(k)!Answer(s)
    PROVE  PInv(k)'
<1>. DEFINE c == calls[s]
            x == IF c.page = "asics" THEN P(k)!FitF(f) ELSE f
            e == IF c.page = "errors" THEN P(k)!FitE(ef) ELSE ef
            li == P(k)!Listed(c.page, c.arg, x, e)
<1>1. P(k)!TypeOK
  BY DEF PInv, PTyped
<1>2. /\ c # None /\ c \in P(k)!Call
      /\ calls' = [calls EXCEPT ![s] = None]
      /\ f' = x /\ ef' = e
      /\ order' = (IF c.page \in {"asics", "errors", "cont"} THEN li ELSE order)
      /\ UNCHANGED <<page, arg, sub, hist, pos, sel, last, typed, acts, late, trail>>
  BY <1>1 DEF P!Answer, P!TypeOK
<1>3. \/ /\ P(k)!Paints(c)
         /\ view' = [page |-> c.page, arg |-> c.arg, sub |-> c.sub,
                     what |-> "list", list |-> li]
         /\ mute' = (page # c.page)
      \/ ~P(k)!Paints(c) /\ UNCHANGED <<view, mute>>
  BY DEF P!Answer
<1>4. x \in P(k)!Filter /\ e \in P(k)!EFilter /\ li \subseteq Devs["panel"]
  BY <1>1, PanelFilters DEF P!TypeOK
<1>5. calls' \in [Slot -> P(k)!Call \cup {None}]
  BY <1>1, <1>2 DEF P!TypeOK
<1>6. CallsCurrent'
  BY <1>2, <1>5 DEF PInv, CallsCurrent, PCurrent
<1>7. ArgFits(c.page, c.arg) /\ ArgFits(page, arg)
  BY <1>2 DEF PInv, PTyped
<1>8. view' \in P(k)!View /\ mute' \in BOOLEAN
  <2>1. c.page \in Pages[k] /\ c.arg \in Cont \cup {None} /\ c.sub \in P(k)!Subs
    BY <1>2 DEF P!Call
  <2>. HIDE DEF c, li
  <2>2. [page |-> c.page, arg |-> c.arg, sub |-> c.sub, what |-> "list", list |-> li] \in P(k)!View
    BY <1>4, <2>1 DEF P!View
  <2>3. view \in P(k)!View /\ mute \in BOOLEAN
    BY <1>1 DEF P!TypeOK
  <2>. QED  BY <1>3, <2>2, <2>3
<1>9. P(k)!TypeOK'
  BY <1>1, <1>2, <1>4, <1>5, <1>8 DEF P!TypeOK
<1>10. PTyped(k)'
  BY <1>2, <1>5, <1>9 DEF PInv, PTyped
<1>11. page = c.page /\ P(k)!Paints(c) => c.arg = arg /\ (page = "energy" => c.sub = sub)
  BY <1>2, <1>7 DEF PInv, CallsCurrent, PCurrent, P!Paints, P!Loose, ArgFits
<1>12. page = "asics" => P(k)!FitF(x) = x \/ c.page # "asics"
  BY FitIsFit
<1>13. page = "errors" => P(k)!FitE(e) = e \/ c.page # "errors"
  BY FitIsFit
<1>14. ASSUME P(k)!Paints(c), page = c.page
       PROVE  P(k)!Shows' /\ PFit(k)'
  <2>1. /\ view'.page = page' /\ view'.arg = arg' /\ view'.list = li
        /\ page' = "energy" => view'.sub = sub'
    BY <1>2, <1>3, <1>11, <1>14
  <2>2. li = P(k)!Listed(page', arg', f', ef')
    BY <1>2, <1>11, <1>14
  <2>. QED  BY <1>2, <1>12, <1>13, <1>14, <2>1, <2>2 DEF P!Shows, PFit
<1>15. ASSUME ~P(k)!Paints(c), P(k)!Shows, PFit(k)
       PROVE  P(k)!Shows' /\ PFit(k)'
  <2>1. (page = "asics" => f' = f) /\ (page = "errors" => ef' = ef)
    BY <1>2, <1>15 DEF PFit
  <2>2. P(k)!Listed(page, arg, f', ef') = P(k)!Listed(page, arg, f, ef)
    BY <2>1, OwnFilters
  <2>. QED  BY <1>2, <1>3, <1>15, <2>1, <2>2 DEF P!Shows, PFit
<1>16. ASSUME ~P(k)!Paints(c), NEW t \in Slot, Owes(k, calls[t])
       PROVE  Owes(k, calls[t])'
  <2>1. t # s
    BY <1>16 DEF Owes, P!Paints
  <2>2. calls'[t] = calls[t]
    BY <1>1, <1>2, <2>1 DEF P!TypeOK
  <2>. QED  BY <1>2, <1>16, <2>2 DEF Owes
<1>17. ShownOrOwed(k)'
  <2>1. CASE P(k)!Paints(c) /\ page = c.page
    BY <2>1, <1>14 DEF ShownOrOwed
  <2>2. CASE P(k)!Paints(c) /\ page # c.page
    <3>1. mute'
      BY <1>3, <2>2
    <3>. QED  BY <3>1 DEF ShownOrOwed
  <2>3. CASE ~P(k)!Paints(c)
    <3>1. view' = view /\ mute' = mute
      BY <1>3, <2>3
    <3>. QED  BY <2>3, <3>1, <1>15, <1>16 DEF PInv, ShownOrOwed
  <2>. QED  BY <2>1, <2>2, <2>3
<1>. QED
  BY <1>2, <1>6, <1>10, <1>17 DEF PInv, DepthFits, HereIsEntry, TrailIsHistory

(* A request that fails was not owed, or its failure is told, or what is in   *)
(* sight is known to be wrong.                                                *)
LEMMA FailKeeps ==
    ASSUME NEW k, P(k)!Constants, PInv(k), NEW s \in Slot, P(k)!Fail(s)
    PROVE  PInv(k)'
<1>. DEFINE c == calls[s]
<1>1. P(k)!TypeOK
  BY DEF PInv, PTyped
<1>2. /\ c # None /\ c \in P(k)!Call
      /\ calls' = [calls EXCEPT ![s] = None]
      /\ UNCHANGED <<page, arg, sub, f, ef, hist, pos, sel, order, last, typed, acts, late, trail>>
  BY <1>1 DEF P!Fail, P!TypeOK
<1>3. \/ P(k)!Paints(c) /\ view' = view /\ mute' = TRUE
      \/ ~P(k)!Paints(c) /\ view' = view /\ mute' = mute
      \/ page # c.page /\ view' = view /\ mute' = mute
      \/ view' = [view EXCEPT !.what = "error", !.list = {}] /\ mute' = mute
  BY <1>1 DEF P!Fail, P!TypeOK
<1>4. calls' \in [Slot -> P(k)!Call \cup {None}]
  BY <1>1, <1>2 DEF P!TypeOK
<1>5. view' \in P(k)!View /\ (view' = view \/ view'.what = "error")
  <2>1. view \in P(k)!View
    BY <1>1 DEF P!TypeOK
  <2>2. [view EXCEPT !.what = "error", !.list = {}] \in P(k)!View
        /\ [view EXCEPT !.what = "error", !.list = {}].what = "error"
    BY <2>1 DEF P!View
  <2>. QED  BY <1>3, <2>1, <2>2
<1>6. mute' \in BOOLEAN
  BY <1>1, <1>3 DEF P!TypeOK
<1>7. P(k)!TypeOK'
  BY <1>1, <1>2, <1>4, <1>5, <1>6 DEF P!TypeOK
<1>8. PTyped(k)'
  BY <1>2, <1>4, <1>7 DEF PInv, PTyped
<1>9. CallsCurrent'
  BY <1>2, <1>4 DEF PInv, CallsCurrent, PCurrent
<1>10. ASSUME page # c.page \/ ~P(k)!Paints(c), NEW t \in Slot, Owes(k, calls[t])
       PROVE  Owes(k, calls[t])'
  <2>1. t # s
    BY <1>10 DEF Owes, P!Paints
  <2>2. calls'[t] = calls[t]
    BY <1>1, <1>2, <2>1 DEF P!TypeOK
  <2>. QED  BY <1>2, <1>10, <2>2 DEF Owes
<1>11. ShownOrOwed(k)'
  <2>1. CASE mute'
    BY <2>1 DEF ShownOrOwed
  <2>2. CASE view'.what = "error"
    BY <2>2 DEF ShownOrOwed
  <2>3. CASE (page # c.page \/ ~P(k)!Paints(c)) /\ view' = view /\ mute' = mute
    <3>1. P(k)!Shows /\ PFit(k) => P(k)!Shows' /\ PFit(k)'
      BY <1>2, <2>3 DEF P!Shows, PFit
    <3>. QED  BY <2>3, <3>1, <1>10 DEF PInv, ShownOrOwed
  <2>4. view' = [view EXCEPT !.what = "error", !.list = {}] => view'.what = "error"
    BY <1>1 DEF P!TypeOK, P!View
  <2>. QED  BY <1>3, <2>1, <2>2, <2>3, <2>4
<1>. QED
  BY <1>2, <1>8, <1>9, <1>11 DEF PInv, DepthFits, HereIsEntry, TrailIsHistory

(* What leaves the page, its requests and its history alone. *)
LEMMA AsideKeeps ==
    ASSUME NEW k, P(k)!Constants, PInv(k),
           UNCHANGED <<page, arg, sub, f, ef, calls, view, hist, pos, mute, trail>>,
           sel' \subseteq Devs["panel"], order' \subseteq Devs["panel"], last' \in Devs["panel"] \cup {None},
           typed' \in BOOLEAN, typed' => "asics" \in Pages[k],
           acts' \in 0..Most[k], late' \in Pages[k] \cup {None}
    PROVE  PInv(k)'
<1>1. P(k)!TypeOK'
  BY DEF PInv, PTyped, P!TypeOK
<1>2. PTyped(k)'
  BY <1>1 DEF PInv, PTyped
<1>3. DepthFits' /\ HereIsEntry' /\ TrailIsHistory' /\ CallsCurrent'
  BY DEF PInv, DepthFits, HereIsEntry, TrailIsHistory, CallsCurrent, PCurrent
<1>4. ShownOrOwed(k)'
  BY DEF PInv, ShownOrOwed, P!Shows, PFit, Owes
<1>. QED  BY <1>2, <1>3, <1>4 DEF PInv

-----------------------------------------------------------------------------
LEMMA PInit ==
    ASSUME NEW k, P(k)!Constants, P(k)!Init
    PROVE  PInv(k)
<1>. DEFINE first == [page |-> "today", arg |-> None, d |-> 0, f |-> None, ef |-> None]
<1>1. first \in P(k)!Entry /\ P(k)!NoFilter \in P(k)!Filter
  BY DEF P!Entry, P!NoFilter, P!Filter, P!Constants
<1>2. hist = <<first>> /\ pos = 1 /\ trail = <<>>
  BY DEF P!Init
<1>3. hist \in Seq(P(k)!Entry) /\ Len(hist) = 1 /\ hist[1] = first
  BY <1>1, <1>2
<1>4. ef \in P(k)!EFilter /\ view \in P(k)!View /\ calls \in [Slot -> P(k)!Call \cup {None}]
  BY DEF P!Init, P!EFilter, P!View, P!Constants, P!Subs
<1>5. P(k)!TypeOK
  <2>1. page \in Pages[k] /\ arg \in Cont \cup {None} /\ sub \in P(k)!Subs /\ f \in P(k)!Filter
    BY <1>1 DEF P!Init, P!Constants, P!Subs
  <2>2. /\ sel \subseteq Devs["panel"] /\ order \subseteq Devs["panel"]
        /\ last \in Devs["panel"] \cup {None}
        /\ typed \in BOOLEAN /\ mute \in BOOLEAN /\ late \in Pages[k] \cup {None}
    BY DEF P!Init
  <2>3. acts \in 0..Most[k] /\ pos \in 1..Len(hist)
    BY <1>2, <1>3 DEF P!Init, P!Constants
  <2>. QED  BY <1>3, <1>4, <2>1, <2>2, <2>3 DEF P!TypeOK
<1>6. PTyped(k)
  BY <1>2, <1>3, <1>5 DEF PTyped, P!Init, ArgFits
<1>7. DepthFits /\ HereIsEntry /\ TrailIsHistory /\ CallsCurrent
  BY <1>2, <1>3 DEF DepthFits, HereIsEntry, TrailIsHistory, CallsCurrent, P!Init
<1>8. P(k)!Listed("today", None, f, ef) = {}
  BY DEF P!Listed
<1>9. ShownOrOwed(k)
  BY <1>8 DEF ShownOrOwed, P!Shows, PFit, P!Init
<1>. QED  BY <1>6, <1>7, <1>9 DEF PInv

LEMMA PNext ==
    ASSUME NEW k, P(k)!Constants, PInv(k), [P(k)!Next]_(P(k)!vars)
    PROVE  PInv(k)'
<1>1. P(k)!TypeOK
  BY DEF PInv, PTyped
<1>2. \A a : P(k)!Does(a) => acts' \in 0..Most[k]
  BY <1>1 DEF P!Does, P!TypeOK, P!Constants
<1>3. /\ late \in Pages[k] \cup {None} /\ sub \in P(k)!Subs /\ f \in P(k)!Filter
      /\ ef \in P(k)!EFilter
      /\ page \in Pages[k] /\ arg \in Cont \cup {None} /\ ArgFits(page, arg)
      /\ sel \subseteq Devs["panel"] /\ order \subseteq Devs["panel"]
         /\ last \in Devs["panel"] \cup {None}
      /\ typed \in BOOLEAN /\ acts \in 0..Most[k]
  BY <1>1 DEF P!TypeOK, PInv, PTyped
<1>4. P(k)!NoFilter \in P(k)!Filter
  BY DEF P!NoFilter, P!Filter
<1>5. ASSUME NEW p \in Pages[k], P(k)!Tab(p)
      PROVE  PInv(k)'
  <2>. DEFINE x == IF p = "asics" THEN P(k)!NoFilter ELSE f
  <2>1. /\ P(k)!Go(p, FALSE, None, sub, x, ef) /\ p # "cont"
        /\ acts' \in 0..Most[k] /\ late' = late
    BY <1>2, <1>5 DEF P!Tab
  <2>2. x \in P(k)!Filter /\ ArgFits(p, None) /\ (p # "asics" => x = f)
    BY <1>3, <1>4 DEF ArgFits
  <2>. HIDE DEF x
  <2>. QED  BY <1>3, <2>1, <2>2, GoKeeps
<1>6. CASE P(k)!Tile
  <2>. DEFINE x == [P(k)!NoFilter EXCEPT !.quick = TRUE]
  <2>1. /\ P(k)!Go("asics", FALSE, None, sub, x, ef)
        /\ "asics" \in Pages[k] /\ acts' \in 0..Most[k] /\ late' = late
    BY <1>2, <1>6 DEF P!Tile
  <2>2. x \in P(k)!Filter /\ ArgFits("asics", None)
    BY <1>4 DEF ArgFits, P!Filter
  <2>. HIDE DEF x
  <2>. QED  BY <1>3, <2>1, <2>2, GoKeeps
<1>7. ASSUME NEW o \in Cont, P(k)!OpenCont(o)
      PROVE  PInv(k)'
  <2>1. /\ P(k)!Go("cont", FALSE, o, sub, f, ef)
        /\ "cont" \in Pages[k] /\ acts' \in 0..Most[k] /\ late' = late
    BY <1>2, <1>7 DEF P!OpenCont
  <2>2. ArgFits("cont", o)
    BY DEF ArgFits
  <2>. QED  BY <1>3, <2>1, <2>2, GoKeeps
<1>8. ASSUME NEW o \in Cont, P(k)!ChooseCont(o)
      PROVE  PInv(k)'
  <2>1. acts' \in 0..Most[k] /\ typed' = typed
    BY <1>2, <1>8 DEF P!ChooseCont
  <2>2. \/ page = "asics" /\ P(k)!Again("asics", None, [f EXCEPT !.cont = o], ef)
        \/ page = "errors" /\ P(k)!Again("errors", None, f, [ef EXCEPT !.cont = o])
    BY <1>8 DEF P!ChooseCont, P!On
  <2>3. [f EXCEPT !.cont = o] \in P(k)!Filter /\ [ef EXCEPT !.cont = o] \in P(k)!EFilter
    BY <1>3 DEF P!Filter, P!EFilter
  <2>. QED  BY <1>3, <2>1, <2>2, <2>3, AgainKeeps
<1>9. ASSUME NEW b \in P(k)!Subs, P(k)!EnergyTab(b)
      PROVE  PInv(k)'
  <2>1. /\ P(k)!Go("energy", TRUE, None, b, f, ef) /\ page = "energy"
        /\ acts' \in 0..Most[k] /\ late' = late
    BY <1>2, <1>9 DEF P!EnergyTab
  <2>2. ArgFits("energy", None)
    BY DEF ArgFits
  <2>. QED  BY <1>3, <2>1, <2>2, GoKeeps
<1>10. CASE P(k)!ResetFilters
  <2>1. /\ P(k)!Again("asics", None, P(k)!NoFilter, ef) /\ page = "asics"
        /\ acts' \in 0..Most[k] /\ typed' = typed
    BY <1>2, <1>10 DEF P!ResetFilters, P!On
  <2>. QED  BY <1>3, <1>4, <2>1, AgainKeeps
<1>11. CASE P(k)!Type
  <2>1. /\ acts' \in 0..Most[k] /\ page = "asics" /\ typed' = TRUE
        /\ UNCHANGED <<page, arg, sub, f, ef, calls, view, hist, pos, sel, order, last,
                       mute, late, trail>>
    BY <1>2, <1>11 DEF P!Type, P!On
  <2>. QED  BY <1>3, <2>1, AsideKeeps
<1>12. CASE P(k)!Debounced
  <2>1. /\ P(k)!Again("asics", None, [f EXCEPT !.q = TRUE], ef) /\ "asics" \in Pages[k]
        /\ acts' = acts /\ typed' = FALSE
    BY <1>12 DEF P!Debounced, PInv, PTyped
  <2>2. [f EXCEPT !.q = TRUE] \in P(k)!Filter
    BY <1>3 DEF P!Filter
  <2>. QED  BY <1>3, <2>1, <2>2, AgainKeeps
<1>13. ASSUME NEW d \in Devs["panel"], P(k)!Toggle(d) \/ P(k)!SelectRange(d)
       PROVE  PInv(k)'
  <2>1. /\ acts' \in 0..Most[k] /\ sel' \subseteq Devs["panel"]
        /\ last' \in Devs["panel"] \cup {None}
        /\ UNCHANGED <<page, arg, sub, f, ef, calls, view, hist, pos, order, typed,
                       mute, late, trail>>
    BY <1>2, <1>3, <1>13 DEF P!Toggle, P!SelectRange, P!Select, P!Between
  <2>. QED  BY <1>3, <2>1, AsideKeeps DEF PInv, PTyped
<1>14. CASE P(k)!SelectAll
  <2>1. sel \cup order \subseteq Devs["panel"] /\ sel \cup view.list \subseteq Devs["panel"]
    <3>1. view \in P(k)!View
      BY <1>1 DEF P!TypeOK
    <3>2. view.list \subseteq Devs["panel"]
      BY <3>1 DEF P!View
    <3>. QED  BY <1>3, <3>2
  <2>2. /\ acts' \in 0..Most[k] /\ sel' \subseteq Devs["panel"] /\ last' = last
        /\ UNCHANGED <<page, arg, sub, f, ef, calls, view, hist, pos, order, typed,
                       mute, late, trail>>
    <3>1. P(k)!Does("all") /\ \E chosen \in {sel \cup order, sel \cup view.list} : P(k)!Select(chosen, last)
      BY <1>14 DEF P!SelectAll
    <3>. QED  BY <1>2, <2>1, <3>1 DEF P!Select
  <2>. QED  BY <1>3, <2>2, AsideKeeps DEF PInv, PTyped
<1>15. CASE P(k)!ListSelected
  <2>. DEFINE x == [P(k)!NoFilter EXCEPT !.ids = sel]
  <2>1. /\ P(k)!Go("asics", TRUE, None, sub, x, ef)
        /\ "asics" \in Pages[k] /\ acts' \in 0..Most[k] /\ late' = late
    BY <1>2, <1>15 DEF P!ListSelected
  <2>2. x \in P(k)!Filter /\ ArgFits("asics", None)
    BY <1>3, <1>4 DEF ArgFits, P!Filter
  <2>. HIDE DEF x
  <2>. QED  BY <1>3, <2>1, <2>2, GoKeeps
<1>16. CASE P(k)!Save
  <2>1. /\ acts' \in 0..Most[k] /\ late' = page
        /\ UNCHANGED <<page, arg, sub, f, ef, calls, view, hist, pos, sel, order, last,
                       typed, mute, trail>>
    BY <1>2, <1>16 DEF P!Save
  <2>. QED  BY <1>3, <2>1, AsideKeeps DEF PInv, PTyped
<1>17. CASE P(k)!Saved
  <2>1. /\ P(k)!Go(late, TRUE, None, sub, f, ef) /\ late # None
        /\ acts' = acts /\ late' = None
    BY <1>17 DEF P!Saved
  <2>2. late \in Pages[k]
    BY <1>3, <2>1
  <2>. QED  BY <1>3, <2>1, <2>2, GoKeeps DEF ArgFits
<1>18. CASE P(k)!Tick
  <2>1. P(k)!Go(page, TRUE, arg, sub, f, ef) /\ acts' = acts /\ late' = late
    BY <1>18 DEF P!Tick
  <2>. QED  BY <1>3, <2>1, GoKeeps
<1>19. CASE UNCHANGED P(k)!vars
  BY <1>3, <1>19, AsideKeeps DEF P!vars, PInv, PTyped
<1>. QED
  BY <1>5, <1>6, <1>7, <1>8, <1>9, <1>10, <1>11, <1>12, <1>13, <1>14, <1>15, <1>16, <1>17,
     <1>18, <1>19, BackKeeps, ForwardKeeps, CrumbKeeps, PanelAnswerKeeps, FailKeeps
     DEF P!Next, P!User

LEMMA PInductive ==
    ASSUME NEW k, P(k)!Constants
    PROVE  P(k)!Spec => []PInv(k)
<1>1. P(k)!Init => PInv(k)
  BY PInit
<1>2. PInv(k) /\ [P(k)!Next]_(P(k)!vars) => PInv(k)'
  BY PNext
<1>. QED  BY <1>1, <1>2, PTL DEF P!Spec

(* The panel's state is typed: whatever is asked, answered and chosen. *)
THEOREM PanelTyped ==
    ASSUME NEW k, P(k)!Constants
    PROVE  P(k)!Spec => []P(k)!TypeOK
<1>1. PInv(k) => P(k)!TypeOK
  BY DEF PInv, PTyped
<1>. QED  BY <1>1, PInductive, PTL

(* When nothing is under way and nothing is known to be wrong, the page shows *)
(* the list its filters give, for the container and the tab the user is on.   *)
THEOREM QuietShowsAsked ==
    ASSUME NEW k, P(k)!Constants
    PROVE  P(k)!Spec => []P(k)!ShownIsAsked
<1>1. PInv(k) => P(k)!ShownIsAsked
  BY DEF PInv, ShownOrOwed, P!ShownIsAsked, Owes
<1>. QED  BY <1>1, PInductive, PTL

(* The panel's own Back button is hidden where it would leave the panel. *)
THEOREM BackInside ==
    ASSUME NEW k, P(k)!Constants
    PROVE  P(k)!Spec => []P(k)!BackStaysInside
<1>1. PInv(k) => P(k)!BackStaysInside
  BY DEF PInv, PTyped, P!TypeOK, DepthFits, P!BackStaysInside
<1>. QED  BY <1>1, PInductive, PTL

(* Its entry is the one before, and the last of the trail is for that. *)
LEMMA PLands ==
    ASSUME NEW k, P(k)!Constants, PInv(k)
    PROVE  P(k)!LandsWhereLeft
<1>1. ASSUME P(k)!Back, trail # <<>>
      PROVE  P(k)!LandsWhereLeft
  <2>. DEFINE t == trail[Len(trail)]
              e == hist[pos - 1]
  <2>1. /\ hist \in Seq(P(k)!Entry) /\ pos \in 1..Len(hist) /\ trail \in Seq(PLeft(k))
        /\ Len(trail) = pos - 1
    BY DEF PInv, PTyped, P!TypeOK, TrailIsHistory
  <2>2. P(k)!Land(pos - 1) /\ pos > 1
    BY <1>1 DEF P!Back
  <2>3. t \in PLeft(k) /\ PKept(e, t)
    <3>1. Len(trail) \in 1..Len(trail) /\ Len(trail) = pos - 1
      BY <2>1, <2>2
    <3>. QED  BY <2>1, <3>1, <1>1 DEF PInv, TrailIsHistory
  <2>4. <<page', arg'>> = <<e.page, e.arg>>
    BY <2>2 DEF P!Land
  <2>5. /\ f' = (IF e.f # None THEN e.f ELSE f)
        /\ ef' = (IF e.ef # None THEN e.ef ELSE ef)
    BY <2>2 DEF P!Land
  <2>6. t.f # None /\ t.ef # None
    BY <2>3 DEF PLeft, P!Constants
  <2>. QED  BY <2>3, <2>4, <2>5, <2>6 DEF PKept, P!LandsWhereLeft
<1>. QED  BY <1>1 DEF P!LandsWhereLeft

(* Back leads to the page that was left, with the filters it had. *)
THEOREM BackToTheLeft ==
    ASSUME NEW k, P(k)!Constants
    PROVE  P(k)!Spec => P(k)!BackIsPrevious
<1>1. PInv(k) => P(k)!LandsWhereLeft
  BY PLands
<1>. QED  BY <1>1, PInductive, PTL DEF P!BackIsPrevious

(*---------------------- all together ----------------------*)
(* What else is true of the session: a code that is shown, polled for or      *)
(* asked about was given out, and who gets a pair has traded a token for it.  *)
GivenOut ==
    /\ timer # None => sess[timer] # "none"
    /\ \A i \in Poller : poll[i] # None => poll[i] \in Poll /\ sess[poll[i].s] # "none"

SessionRest ==
    /\ sends \in 0..MaxSends /\ stale \subseteq Pair /\ lost \subseteq Pair
    /\ screen \in {"app", "login"} /\ failed \in BOOLEAN /\ dash \in BOOLEAN
    /\ ticks \in BOOLEAN /\ shown \in Code \cup {None} /\ timer \in {shown, None}
    /\ \A c \in Slot : Minted(c) => call[c].rt # 0
    /\ GivenOut

(* A code that was given out is never as if it had not been.                  *)
LEMMA StepRest == SessionInv /\ SessionRest /\ [Next]_vars => SessionRest'
<1> SUFFICES ASSUME SessionInv, SessionRest, [Next]_vars PROVE SessionRest'  OBVIOUS
<1> USE SessionAssumption DEF SessionInv, SessionTyped, Numbered, OnTheWay, HasToken, Minted,
       GivenOut, SessionRest, ShowLogin, OpenPanel, server, login, Pair
<1>1. ASSUME NEW s \in Code, StartAnswered(s) \/ Approve(s) \/ Expire(s) PROVE SessionRest'
  <2>1. PICK x \in {"pending", "approved", "expired"} : sess' = [sess EXCEPT ![s] = x]
    BY <1>1 DEF StartAnswered, Approve, Expire
  <2>2. \A r \in Code : sess[r] # "none" => sess'[r] # "none"
    BY <2>1
  <2>3. poll' = poll /\ \A i \in Poller : poll[i] # None => poll[i].s \in Code
    BY <1>1 DEF StartAnswered, Approve, Expire, Poll
  <2>4. timer' # None => sess'[timer'] # "none"
    BY <1>1, <2>1, <2>2 DEF StartAnswered, Approve, Expire
  <2>5. GivenOut'
    BY <2>2, <2>3, <2>4
  <2>6. /\ UNCHANGED <<sends, stale, lost, call, screen, failed, ticks, dash>>
        /\ shown' \in Code \cup {None} /\ timer' \in {shown', None}
    BY <1>1 DEF StartAnswered, Approve, Expire
  <2>. HIDE DEF GivenOut
  <2> QED  BY <2>5, <2>6
<1>2. CASE StartFailed  BY <1>2 DEF StartFailed
<1>3. ASSUME NEW i \in Poller, TimerFires(i) PROVE SessionRest'
  BY <1>3 DEF TimerFires, Poll
<1>4. ASSUME NEW i \in Poller, PollRead(i) PROVE SessionRest'
  <2>1. poll[i] \in Poll /\ sess[poll[i].s] \in {"pending", "approved", "expired", "consumed"}
    BY <1>4 DEF PollRead, Poll
  <2>2. PICK x \in {"handing", "pending", "expired", "consumed"} : poll' = [poll EXCEPT ![i].st = x]
    BY <1>4, <2>1 DEF PollRead
  <2>3. /\ UNCHANGED <<sends, stale, lost, sess, call, screen, shown, timer, failed, ticks, dash>>
    BY <1>4 DEF PollRead
  <2>4. [poll[i] EXCEPT !.st = x] \in Poll /\ [poll[i] EXCEPT !.st = x].s = poll[i].s
    BY <2>1 DEF Poll
  <2> QED  BY <2>1, <2>2, <2>3, <2>4
<1>5. ASSUME NEW i \in Poller, PollHand(i) PROVE SessionRest'
  BY <1>5 DEF PollHand, Poll
<1>6. ASSUME NEW i \in Poller, PollAnswered(i) PROVE SessionRest'
  BY <1>6 DEF PollAnswered
<1>7. ASSUME NEW i \in Poller, PollLost(i) PROVE SessionRest'
  BY <1>7 DEF PollLost
<1>8. ASSUME NEW c \in Slot, NEW k \in Kind, Send(c, k) PROVE SessionRest'
  BY <1>8 DEF Send, Ask
<1>9. ASSUME NEW c \in Slot, Served(c) PROVE SessionRest'
  BY <1>9 DEF Served
<1>10. ASSUME NEW c \in Slot, LoggedIn(c) PROVE SessionRest'
  BY <1>10 DEF LoggedIn, Ask
<1>11. ASSUME NEW c \in Slot, Unauthorised(c) PROVE SessionRest'
  <2>1. /\ UNCHANGED <<sends, stale, lost, sess, poll, shown, timer>>
        /\ screen' \in {"app", "login"} /\ failed' \in BOOLEAN /\ dash' \in BOOLEAN
        /\ ticks' = ticks
    BY <1>11 DEF Unauthorised, Refuse
  <2>2. \/ call' = [call EXCEPT ![c] = None]
        \/ \E rt : call[c] # None /\ call' = [call EXCEPT ![c].st = "check", ![c].rt = rt]
    BY <1>11, RefuseEnds DEF Unauthorised
  <2>3. \A d \in Slot : Minted(d)' => Minted(d) /\ call'[d].rt = call[d].rt
    BY <2>2 DEF Call
  <2> QED  BY <2>1, <2>3
<1>12. ASSUME NEW c \in Slot, RefreshChecked(c) PROVE SessionRest'
  BY <1>12 DEF RefreshChecked, Call
<1>13. ASSUME NEW c \in Slot, RefreshRevokes(c) PROVE SessionRest'
  BY <1>13 DEF RefreshRevokes, Mint, Call
<1>14. ASSUME NEW c \in Slot, RefreshInserts(c) PROVE SessionRest'
  BY <1>14 DEF RefreshInserts, Mint, Call
<1>15. ASSUME NEW c \in Slot, Refreshed(c) PROVE SessionRest'
  BY <1>15 DEF Refreshed, Ask
<1>16. ASSUME NEW c \in Slot, RefreshRefused(c) PROVE SessionRest'
  BY <1>16 DEF RefreshRefused, Refuse
<1>17. ASSUME NEW c \in Slot, CallLost(c) PROVE SessionRest'
  <2>1. lost' \subseteq Pair
    <3>1. call[c].st = "minted" => call[c].rt \in Pair
      BY <1>17 DEF CallLost
    <3> QED  BY <1>17, <3>1 DEF CallLost
  <2>2. call' = [call EXCEPT ![c] = None] /\ dash' \in BOOLEAN
        /\ UNCHANGED <<sends, stale, sess, poll, screen, shown, timer, failed, ticks>>
    BY <1>17 DEF CallLost
  <2> QED  BY <2>1, <2>2
<1>18. CASE Logout \/ AccountLogout  BY <1>18 DEF Logout, AccountLogout
<1>19. ASSUME NEW p \in Pair, AccessRunsOut(p) PROVE SessionRest'
  BY <1>19 DEF AccessRunsOut
<1>20. CASE UNCHANGED vars  BY <1>20 DEF vars
<1> QED  BY <1>1, <1>2, <1>3, <1>4, <1>5, <1>6, <1>7, <1>8, <1>9, <1>10, <1>11, <1>12,
            <1>13, <1>14, <1>15, <1>16, <1>17, <1>18, <1>19, <1>20 DEF Next

SessionHolds == SessionInv /\ Polled /\ SessionRest

LEMMA SessionBegins == Init => SessionHolds
<1>1. Init => Polled
  BY DEF Init, Polled, ShownIsPolled
<1>2. Init => GivenOut /\ \A c \in Slot : ~Minted(c)
  BY DEF Init, GivenOut, Minted
<1>3. Init => SessionRest
  <2> SUFFICES ASSUME Init PROVE SessionRest  OBVIOUS
  <2>1. sends \in 0..MaxSends /\ stale \subseteq Pair /\ lost \subseteq Pair
    BY SessionAssumption DEF Init
  <2>2. screen \in {"app", "login"} /\ failed \in BOOLEAN /\ dash \in BOOLEAN
        /\ ticks \in BOOLEAN /\ shown \in Code \cup {None} /\ timer \in {shown, None}
    BY DEF Init
  <2> QED  BY <1>2, <2>1, <2>2 DEF SessionRest
<1> QED  BY <1>1, <1>3, SessionInit DEF SessionHolds

LEMMA SessionStep == SessionHolds /\ [Next]_vars => SessionHolds'
<1>1. SessionInv /\ [Next]_vars => SessionInv'
  BY SessionStaysTyped, StepApart, StepLive DEF SessionInv
<1> QED  BY <1>1, StepPolled, StepRest DEF SessionHolds

LEMMA SessionIsTyped == SessionHolds => TypeOK
<1> SUFFICES ASSUME SessionHolds PROVE TypeOK  OBVIOUS
<1>1. poll \in [Poller -> Poll \cup {None}]
  BY DEF SessionHolds, SessionInv, SessionTyped, SessionRest, GivenOut
<1> QED  BY <1>1, SessionAssumption DEF SessionHolds, SessionInv, SessionTyped, Numbered,
   SessionRest,
            Polled, TypeOK, Pair

-----------------------------------------------------------------------------
(* Each part keeps what was shown of it on its own, and the session in it.    *)
WebInv ==
    /\ SessionHolds
    /\ \A b \in PanelParts : part = b => PInv(b)
    /\ part = "scope" => SInv
    /\ part = "lists" => LInv
    /\ part = "table" => TInv
    /\ part = "energy" => EInv
    /\ part = "pools" => OInv
    /\ part = "drawer" => DInv
    /\ part = "admin" => AInv

LEMMA WebBegins == WebInit => WebInv
<1> SUFFICES ASSUME WebInit PROVE WebInv  OBVIOUS
<1>1. SessionHolds
  BY SessionBegins DEF WebInit
<1>2. ASSUME NEW b \in PanelParts, part = b PROVE PInv(b)
  <2>1. P(b)!Init
    BY <1>2 DEF WebInit, PanelParts
  <2> QED  BY <2>1, PInit, PanelAssumption
<1>3. part = "scope" => SInv   BY SInit, ScopeAssumption DEF WebInit, PanelParts
<1>4. part = "lists" => LInv   BY LInit, ListsAssumption DEF WebInit, PanelParts
<1>5. part = "table" => TInv   BY TInit, TableAssumption DEF WebInit, PanelParts
<1>6. part = "energy" => EInv  BY EInit, EnergyAssumption DEF WebInit, PanelParts
<1>7. part = "pools" => OInv   BY OInit, PoolsAssumption DEF WebInit, PanelParts
<1>8. part = "drawer" => DInv  BY DInit, DrawerAssumption DEF WebInit, PanelParts
<1>9. part = "admin" => AInv   BY AInit, AdminAssumption DEF WebInit, PanelParts
<1> QED  BY <1>1, <1>2, <1>3, <1>4, <1>5, <1>6, <1>7, <1>8, <1>9 DEF WebInv

(* Whatever happens, to each part happens one of its steps, or nothing.       *)
OwnSteps ==
    /\ part' = part /\ [Next]_vars
    /\ \A b \in PanelParts : part = b => [P(b)!Next]_(P(b)!vars)
    /\ part = "scope" => [S!Next]_(S!vars)
    /\ part = "lists" => [L!Next]_(L!vars)
    /\ part = "table" => [T!Next]_(T!vars)
    /\ part = "energy" => [E!Next]_(E!vars)
    /\ part = "pools" => [O!Next]_(O!vars)
    /\ part = "drawer" => [D!Next]_(D!vars)
    /\ part = "admin" => [A!Next]_(A!vars)

LEMMA WebStep == [WebNext]_every => OwnSteps
<1> SUFFICES ASSUME [WebNext]_every PROVE OwnSteps  OBVIOUS
<1>1. CASE LoginStep  BY <1>1 DEF LoginStep, OwnSteps, PanelParts
<1>2. CASE CallsStep  BY <1>2 DEF CallsStep, OwnSteps, PanelParts
<1>3. CASE PanelStep  BY <1>3 DEF PanelStep, OnPanel, Lens, OwnSteps, PanelParts
<1>4. CASE ScopeStep  BY <1>4 DEF ScopeStep, Lens, OwnSteps, PanelParts
<1>5. CASE ListsStep  BY <1>5 DEF ListsStep, Lens, OwnSteps, PanelParts
<1>6. CASE TableStep  BY <1>6 DEF TableStep, Lens, OwnSteps, PanelParts
<1>7. CASE EnergyStep  BY <1>7 DEF EnergyStep, Lens, OwnSteps, PanelParts
<1>8. CASE PoolsStep  BY <1>8 DEF PoolsStep, Lens, OwnSteps, PanelParts
<1>9. CASE DrawerStep  BY <1>9 DEF DrawerStep, Lens, OwnSteps, PanelParts
<1>10. CASE AdminStep  BY <1>10 DEF AdminStep, Lens, OwnSteps, PanelParts
<1>11. CASE UNCHANGED every
  <2>1. UNCHANGED <<part, vars>>
    BY <1>11 DEF every
  <2>2. ASSUME NEW b PROVE UNCHANGED P(b)!vars
    BY <1>11 DEF every, lens, ofPanel, P!vars
  <2>3. UNCHANGED S!vars  BY <1>11 DEF every, lens, ofScope, S!vars
  <2>4. UNCHANGED L!vars  BY <1>11 DEF every, lens, ofLists, L!vars
  <2>5. UNCHANGED T!vars  BY <1>11 DEF every, lens, ofTable, T!vars
  <2>6. UNCHANGED E!vars  BY <1>11 DEF every, lens, ofEnergy, E!vars
  <2>7. UNCHANGED O!vars  BY <1>11 DEF every, lens, ofPools, O!vars
  <2>8. UNCHANGED D!vars  BY <1>11 DEF every, lens, ofDrawer, D!vars, D!search
  <2>9. UNCHANGED A!vars  BY <1>11 DEF every, lens, ofAdmin, A!vars, A!server
  <2> QED  BY <2>1, <2>2, <2>3, <2>4, <2>5, <2>6, <2>7, <2>8, <2>9 DEF OwnSteps
<1> QED  BY <1>1, <1>2, <1>3, <1>4, <1>5, <1>6, <1>7, <1>8, <1>9, <1>10, <1>11 DEF WebNext

LEMMA WebKeeps == WebInv /\ [WebNext]_every => WebInv'
<1> SUFFICES ASSUME WebInv, OwnSteps PROVE WebInv'
  BY WebStep
<1>0. part' = part
  BY DEF OwnSteps
<1>1. SessionHolds'
  BY SessionStep DEF WebInv, OwnSteps
<1>2. ASSUME NEW b \in PanelParts, part = b PROVE PInv(b)'
  <2>1. P(b)!Constants /\ PInv(b) /\ [P(b)!Next]_(P(b)!vars)
    BY <1>2, PanelAssumption DEF WebInv, OwnSteps
  <2> QED  BY <2>1, PNext
<1>3. part = "scope" => SInv'   BY SNext, ScopeAssumption DEF WebInv, OwnSteps
<1>4. part = "lists" => LInv'   BY LNext, ListsAssumption DEF WebInv, OwnSteps
<1>5. part = "table" => TInv'   BY TNext, TableAssumption DEF WebInv, OwnSteps
<1>6. part = "energy" => EInv'  BY ENext, EnergyAssumption DEF WebInv, OwnSteps
<1>7. part = "pools" => OInv'   BY OStep, PoolsAssumption DEF WebInv, OwnSteps
<1>8. part = "drawer" => DInv'  BY DNext, DrawerAssumption DEF WebInv, OwnSteps
<1>9. part = "admin" => AInv'   BY AStep, AdminAssumption DEF WebInv, OwnSteps
<1> QED  BY <1>0, <1>1, <1>2, <1>3, <1>4, <1>5, <1>6, <1>7, <1>8, <1>9 DEF WebInv

LEMMA WebInductive == WebSpec => []WebInv
BY WebBegins, WebKeeps, PTL DEF WebSpec

(* Every part of the panel keeps its types (Web.WebTypeOK).                   *)
THEOREM WebTyped == WebSpec => []WebTypeOK
<1>1. ASSUME WebInv PROVE WebTypeOK
  <2>1. TypeOK
    BY <1>1, SessionIsTyped DEF WebInv
  <2>2. ASSUME NEW b \in PanelParts, part = b PROVE P(b)!TypeOK
    BY <1>1, <2>2 DEF WebInv, PInv, PTyped
  <2>3. SInv => S!TypeOK
    BY ScopeIsTyped
  <2>4. LInv => L!TypeOK
    BY DEF LInv, LTyped, FSet, ESet, L!TypeOK
  <2>5. EInv => E!TypeOK
    BY DEF EInv
  <2>6. DInv => D!TypeOK
    BY DEF DInv, DTyped, D!TypeOK, AnyText
  <2>7. AInv => A!TypeOK
    BY DEF AInv, ATyped, A!TypeOK, Adm, View, Someone
  <2>8. (TInv => T!TypeOK) /\ (OInv => O!TypeOK)
    BY TIsTyped, OIsTyped, PoolsAssumption
  <2> QED  BY <1>1, <2>1, <2>2, <2>3, <2>4, <2>5, <2>6, <2>7, <2>8 DEF WebInv, WebTypeOK
<1> QED  BY <1>1, WebInductive, PTL

(* What is shown when all is quiet is what was asked for last, and Back never *)
(* leaves the panel (Web.ShownIsAsked), for any number of requests.           *)
THEOREM WebShowsAsked == WebSpec => []ShownIsAsked
<1>1. ASSUME WebInv PROVE ShownIsAsked
  <2>1. ASSUME NEW b \in PanelParts, part = b PROVE P(b)!ShownIsAsked /\ P(b)!BackStaysInside
    <3>1. PInv(b)
      BY <1>1, <2>1 DEF WebInv
    <3>2. P(b)!ShownIsAsked
      BY <3>1 DEF PInv, ShownOrOwed, P!ShownIsAsked, Owes
    <3>3. P(b)!BackStaysInside
      BY <3>1 DEF PInv, PTyped, P!TypeOK, DepthFits, P!BackStaysInside
    <3> QED  BY <3>2, <3>3
  <2>2. AInv => A!QuietShows
    BY ASizes DEF AInv, SeenOrAsked, Seen, A!QuietShows
  <2> QED  BY <1>1, <2>1, <2>2 DEF WebInv, ShownIsAsked
<1> QED  BY <1>1, WebInductive, PTL

(* Every number is the length of the list it leads to, no page comes up empty *)
(* because of an earlier choice, and a table shows the filters it applies     *)
(* (Web.NumbersTell), for any fleet, sites, filters and tables.               *)
THEOREM WebNumbersTell == WebSpec => []NumbersTell
<1>1. ASSUME WebInv PROVE NumbersTell
  <2>1. SInv => S!OptionTells
    BY SSizes DEF SInv, Settled, WordStands, S!OptionTells
  <2>2. SInv => S!LabelsAgree
    BY LabelsAddUp, ScopeAssumption
  <2>3. SInv => S!NeverEmpty
    BY SomeListed, ScopeAssumption DEF SInv, Settled, S!NeverEmpty
  <2>4. (LInv => L!ChoiceTells) /\ (LInv => L!ChoiceHasDevices)
    BY LTells, LHasDevices
  <2>5. (OInv => O!BoxTells) /\ (TInv => T!FiltersShow)
    BY OBoxTells, TShowsFilters, TableAssumption
  <2> QED  BY <1>1, <2>1, <2>2, <2>3, <2>4, <2>5 DEF WebInv, NumbersTell
<1> QED  BY <1>1, WebInductive, PTL

(* Figures that are computed apart agree (Web.FiguresAgree), for any number   *)
(* of containers, feeders, meters, hours and days.                            *)
THEOREM WebFiguresAgree == WebSpec => []FiguresAgree
<1>1. ASSUME WebInv PROVE FiguresAgree
  <2>1. (EInv => E!SharesAddUp) /\ (EInv => E!StackReachesTotal)
    BY EStacks DEF EInv
  <2>2. OInv => O!PeriodsMatch
    BY OPeriodsMatch
  <2> QED  BY <1>1, <2>1, <2>2 DEF WebInv, FiguresAgree
<1> QED  BY <1>1, WebInductive, PTL

(* What a step does is what was seen before it (Web.StepsKeepTheirWord): Back *)
(* leads to the page that was left, an option lists what its number said and  *)
(* is kept, a button changes the row and writes to the person in sight.       *)
THEOREM WebKeepsItsWord == WebSpec => StepsKeepTheirWord
<1>. DEFINE Word == /\ \A b \in PanelParts : part = b => P(b)!LandsWhereLeft
                    /\ part = "table"  => T!ChosenIsListed
                    /\ part = "lists"  => L!OfferIsKept
                    /\ part = "drawer" => D!SentIsSeen
                    /\ part = "admin"  => A!SentIsShown
<1>1. ASSUME WebInv, OwnSteps PROVE Word
  <2>1. ASSUME NEW b \in PanelParts, part = b PROVE P(b)!LandsWhereLeft
    BY <1>1, <2>1, PLands, PanelAssumption DEF WebInv
  <2>2. part = "table" => T!ChosenIsListed
    BY <1>1, TListsOption, TableAssumption DEF WebInv
  <2>3. part = "lists" => L!OfferIsKept
    <3>1. UNCHANGED L!vars => L!OfferIsKept
      BY DEF L!vars, L!OfferIsKept
    <3> QED  BY <1>1, <3>1, LNext, ListsAssumption DEF WebInv, OwnSteps
  <2>4. part = "drawer" => D!SentIsSeen
    BY <1>1, DNext, DrawerAssumption DEF WebInv, OwnSteps
  <2>5. part = "admin" => A!SentIsShown
    <3>1. UNCHANGED A!vars => A!SentIsShown
      BY DEF A!vars, A!SentIsShown
    <3> QED  BY <1>1, <3>1, ASends DEF WebInv, OwnSteps
  <2> QED  BY <2>1, <2>2, <2>3, <2>4, <2>5
<1>2. WebInv /\ [WebNext]_every => Word
  BY <1>1, WebStep
<1>. HIDE DEF Word
<1>3. WebSpec => [][Word]_every
  <2>1. WebInv /\ [WebNext]_every => [Word]_every
    BY <1>2
  <2> QED  BY <2>1, WebInductive, PTL DEF WebSpec
<1>. QED  BY <1>3 DEF Word, StepsKeepTheirWord
=============================================================================
