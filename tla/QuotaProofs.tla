----------------------------- MODULE QuotaProofs -----------------------------
(* Proofs about Quota for every number of threads and every limit.            *)
(*                                                                            *)
(* The two bounds are not inductive: between its two counts and its insert a  *)
(* request is invisible to the others.  What is inductive counts such a       *)
(* request as a slot already taken.                                           *)
EXTENDS Quota, FiniteSetTheorems, TLAPS

(* Requests that may still add a run of the daily quota: admitted, or so low  *)
(* a total that the daily count cannot turn them away.                        *)
Holds(q) == \/ q.pc = "calc" /\ q.stage = "usdt_only"
            \/ /\ q.pc = "counted" /\ ~q.pro
               /\ Intro <= q.total /\ q.total < Intro + Daily
Holders  == {r \in Req : Holds(req[r])}

(* Requests that may still add a run of the introductory pool. *)
HoldsIntro(q) == \/ q.pc = "calc" /\ q.stage = "intro"
                 \/ q.pc = "counted" /\ ~q.pro /\ q.total < Intro
IntroHolders  == {r \in Req : HoldsIntro(req[r])}

(* Requests whose transaction dates from day d. *)
DatedBack(d) == {r \in Req : req[r].pc # "idle" /\ req[r].since = d}

N == Cardinality(Req)

CountsAgree ==
    /\ \A r \in Req : req[r].pc \in {"counted", "calc"} => req[r].total <= total
    /\ \A r \in Req : req[r].pc = "calc" /\ req[r].stage = "usdt_only" => Intro <= req[r].total
    /\ \A r \in Req : req[r].since <= day
    /\ \A d \in Day : free[d] <= made[d]
    /\ \A d \in Day : free[d] > 0 => free[d] + Intro <= total
    /\ \A d \in Day : d > day => free[d] = 0
    /\ intro <= total

TodayHeld == free[day] + Cardinality(Holders) < Daily + N
PastHeld  == \A d \in Day : d < day => free[d] + Cardinality(DatedBack(d)) < Daily + 2 * N
IntroHeld == intro + Cardinality(IntroHolders) < Intro + N

QuotaInv == TypeOK /\ CountsAgree /\ TodayHeld /\ PastHeld /\ IntroHeld

-----------------------------------------------------------------------------
(* What the proof uses of cardinality: sets of threads have a size, at most   *)
(* that of Req, and a set that misses an element of another is smaller.       *)
LEMMA Sizes ==
    ASSUME NEW A \in SUBSET Req, NEW B \in SUBSET Req
    PROVE  /\ Cardinality(A) \in Nat /\ N \in Nat /\ N > 0
           /\ Cardinality(A) <= N
           /\ A \subseteq B => Cardinality(A) <= Cardinality(B)
           /\ \A x \in B : A \subseteq B \ {x} => Cardinality(A) + 1 <= Cardinality(B)
<1>1. IsFiniteSet(A) /\ IsFiniteSet(B) /\ IsFiniteSet(Req) /\ Req # {}
  BY QuotaAssumption, FS_Subset
<1>2. Cardinality(A) \in Nat /\ Cardinality(B) \in Nat /\ N \in Nat
  BY <1>1, FS_CardinalityType DEF N
<1>3. N > 0
  BY <1>1, <1>2, FS_EmptySet DEF N
<1>4. Cardinality(A) <= N
  BY <1>1, FS_Subset DEF N
<1>5. A \subseteq B => Cardinality(A) <= Cardinality(B)
  BY <1>1, FS_Subset
<1>6. ASSUME NEW x \in B, A \subseteq B \ {x}
      PROVE  Cardinality(A) + 1 <= Cardinality(B)
  <2>1. IsFiniteSet(B \ {x}) /\ Cardinality(B \ {x}) = Cardinality(B) - 1
    BY <1>1, FS_RemoveElement
  <2>2. Cardinality(A) <= Cardinality(B \ {x})
    BY <1>6, <2>1, FS_Subset
  <2>. QED  BY <2>1, <2>2, <1>2
<1>. QED  BY <1>2, <1>3, <1>4, <1>5, <1>6

(* Once the pool is spent, funnel.evaluate's arithmetic is the smaller of the *)
(* runs of today and the runs past the pool (funnel.py:155-161).              *)
LEMMA PostIntroIsLeast ==
    ASSUME NEW n \in Nat, NEW k \in Nat, Intro <= n
    PROVE  PostIntro(n, k) = Least(k, n - Intro)
BY QuotaAssumption DEF PostIntro, Least, Greatest

(* Two counts taken at different moments: an admitted request saw fewer than  *)
(* Daily runs today or fewer than Daily runs past the pool.                   *)
LEMMA Admission ==
    ASSUME NEW n \in Nat, NEW k \in Nat, Intro <= n, PostIntro(n, k) < Daily
    PROVE  k < Daily \/ n < Intro + Daily
BY QuotaAssumption DEF PostIntro, Least, Greatest

(* A request is turned away only for good reason. *)
LEMMA Refusal ==
    ASSUME NEW n \in Nat, NEW k \in Nat, Intro <= n, ~(PostIntro(n, k) < Daily)
    PROVE  k >= Daily /\ n >= Intro + Daily
BY QuotaAssumption DEF PostIntro, Least, Greatest

-----------------------------------------------------------------------------
LEMMA TypeStep == TypeOK /\ [Next]_vars => TypeOK'
<1>. SUFFICES ASSUME TypeOK, [Next]_vars PROVE TypeOK'
  OBVIOUS
<1>. USE QuotaAssumption DEF TypeOK, Day
<1>1. ASSUME NEW r \in Req, NEW save \in BOOLEAN, Begin(r, save)
      PROVE  TypeOK'
  BY <1>1 DEF Begin, Request, Idle, Stage
<1>2. ASSUME NEW r \in Req, CountAll(r)
      PROVE  TypeOK'
  BY <1>2, ZenonT(60) DEF CountAll, Request
<1>3. ASSUME NEW r \in Req, CountToday(r)
      PROVE  TypeOK'
  <2>1. StageOf(req[r].pro, req[r].total) \in Stage
    BY DEF Stage, StageOf
  <2>2. req[r] \in Request
    OBVIOUS
  <2>3. Idle \in Request
    BY DEF Request, Idle, Stage
  <2>4. [req[r] EXCEPT !.pc = "calc", !.stage = StageOf(req[r].pro, req[r].total)] \in Request
    BY <2>1, <2>2 DEF Request
  <2>5. AfterFunnel(req[r]) \in Request
    BY <2>3, <2>4 DEF AfterFunnel
  <2>. QED  BY <1>3, <2>5 DEF CountToday
<1>4. ASSUME NEW r \in Req, Refresh(r)
      PROVE  TypeOK'
  BY <1>4 DEF Refresh, Request
<1>5. ASSUME NEW r \in Req, Record(r)
      PROVE  TypeOK'
  <2>1. req[r].since \in 0..MaxDay
    BY DEF Request
  <2>4. Idle \in Request
    BY DEF Request, Idle, Stage
  <2>2. req' \in [Req -> Request]
    BY <1>5, <2>4 DEF Record
  <2>3. /\ made[req[r].since] + 1 \in Nat
        /\ free[req[r].since] + 1 \in Nat
    BY <2>1
  <2>5. made' \in [0..MaxDay -> Nat]
    BY <1>5, <2>3 DEF Record
  <2>6. free' \in [0..MaxDay -> Nat]
    BY <1>5, <2>3 DEF Record
  <2>. QED  BY <1>5, <2>2, <2>5, <2>6 DEF Record
<1>6. ASSUME NEW r \in Req, Fail(r)
      PROVE  TypeOK'
  BY <1>6, SMTT(60) DEF Fail, Request, Idle, Stage
<1>7. CASE EntitlementChanges
  BY <1>7 DEF EntitlementChanges
<1>8. CASE Midnight
  BY <1>8 DEF Midnight
<1>9. CASE UNCHANGED vars
  BY <1>9 DEF vars
<1>. QED  BY <1>1, <1>2, <1>3, <1>4, <1>5, <1>6, <1>7, <1>8, <1>9 DEF Next

LEMMA CountsStep == TypeOK /\ CountsAgree /\ [Next]_vars => CountsAgree'
<1>. SUFFICES ASSUME TypeOK, CountsAgree, [Next]_vars PROVE CountsAgree'
  OBVIOUS
<1>. USE QuotaAssumption DEF TypeOK, CountsAgree, Day
<1>1. ASSUME NEW r \in Req, NEW save \in BOOLEAN, Begin(r, save)
      PROVE  CountsAgree'
  BY <1>1 DEF Begin, Idle, Request
<1>2. ASSUME NEW r \in Req, CountAll(r)
      PROVE  CountsAgree'
  BY <1>2, SMTT(60) DEF CountAll, Request
<1>3. ASSUME NEW r \in Req, CountToday(r)
      PROVE  CountsAgree'
  <2>1. \A x \in Req : req'[x] = IF x = r THEN AfterFunnel(req[r]) ELSE req[x]
    BY <1>3 DEF CountToday
  <2>2. \/ AfterFunnel(req[r]) = Idle
        \/ /\ AfterFunnel(req[r]).total = req[r].total
           /\ AfterFunnel(req[r]).since = req[r].since
           /\ AfterFunnel(req[r]).stage = "usdt_only" => Intro <= req[r].total
    BY DEF AfterFunnel, Request, StageOf, IntroSpent
  <2>3. req[r].pc = "counted" /\ UNCHANGED <<day, total, made, free, intro>>
    BY <1>3 DEF CountToday
  <2>4. Idle.pc = "idle" /\ Idle.since = 0 /\ 0 <= day /\ req[r].total <= total
    BY <2>3 DEF Idle
  <2>5. \A x \in Req : req'[x].pc \in {"counted", "calc"} => req'[x].total <= total
    BY <2>1, <2>2, <2>4
  <2>6. \A x \in Req : req'[x].pc = "calc" /\ req'[x].stage = "usdt_only"
                        => Intro <= req'[x].total
    BY <2>1, <2>2, <2>4
  <2>7. \A x \in Req : req'[x].since <= day
    BY <2>1, <2>2, <2>4
  <2>. QED  BY <2>3, <2>5, <2>6, <2>7
<1>4. ASSUME NEW r \in Req, Refresh(r)
      PROVE  CountsAgree'
  BY <1>4, SMTT(60) DEF Refresh, Request
<1>5. ASSUME NEW r \in Req, Record(r)
      PROVE  CountsAgree'
  <2>1. /\ req[r].since \in 0..MaxDay /\ req[r].since <= day
        /\ req[r].total \in Nat /\ req[r].total <= total
        /\ req[r].stage = "usdt_only" => Intro <= total
    BY <1>5, SMTT(60) DEF Request, Record
  <2>2. \A x \in Req : req'[x] = IF x = r THEN Idle ELSE req[x]
    BY <1>5 DEF Record
  <2>3. \A d \in 0..MaxDay :
          /\ made'[d] = IF d = req[r].since THEN made[d] + 1 ELSE made[d]
          /\ \/ free'[d] = free[d]
             \/ req[r].stage = "usdt_only" /\ d = req[r].since /\ free'[d] = free[d] + 1
    BY <1>5, <2>1 DEF Record
  <2>4. total' = total + 1 /\ day' = day /\ intro' <= intro + 1
    BY <1>5 DEF Record
  <2>5. \A x \in Req : req[x].total \in Nat
    BY DEF Request
  <2>6. \A d \in 0..MaxDay : free'[d] <= made'[d]
    BY <2>3, SMTT(60)
  <2>7. \A d \in 0..MaxDay : free'[d] > 0 => free'[d] + Intro <= total'
    BY <2>1, <2>3, <2>4, SMTT(60)
  <2>8. \A d \in 0..MaxDay : d > day' => free'[d] = 0
    BY <2>1, <2>3, <2>4, SMTT(60)
  <2>10. Idle.pc = "idle" /\ Idle.since = 0 /\ 0 <= day'
    BY <2>4 DEF Idle
  <2>9. \A x \in Req : req'[x].pc \in {"counted", "calc"} => req'[x].total <= total'
    <3>. SUFFICES ASSUME NEW x \in Req, req'[x].pc \in {"counted", "calc"}
                  PROVE  req'[x].total <= total'
      OBVIOUS
    <3>1. x # r /\ req'[x] = req[x]
      BY <2>2, <2>10
    <3>2. req[x].total <= total /\ req[x].total \in Nat /\ total \in Nat
      BY <3>1, <2>5
    <3>. QED  BY <3>1, <3>2, <2>4
  <2>11. \A x \in Req : req'[x].pc = "calc" /\ req'[x].stage = "usdt_only"
                         => Intro <= req'[x].total
    BY <2>2, <2>10
  <2>12. \A x \in Req : req'[x].since <= day'
    BY <2>2, <2>4, <2>10
  <2>13. intro' <= total'
    BY <2>4, <1>5 DEF Record
  <2>. QED  BY <2>6, <2>7, <2>8, <2>9, <2>11, <2>12, <2>13
<1>6. ASSUME NEW r \in Req, Fail(r)
      PROVE  CountsAgree'
  BY <1>6 DEF Fail, Idle, Request
<1>7. CASE EntitlementChanges
  BY <1>7 DEF EntitlementChanges
<1>8. CASE Midnight
  BY <1>8 DEF Midnight, Request
<1>9. CASE UNCHANGED vars
  BY <1>9 DEF vars
<1>. QED  BY <1>1, <1>2, <1>3, <1>4, <1>5, <1>6, <1>7, <1>8, <1>9 DEF Next

-----------------------------------------------------------------------------
(* A thread that leaves a set of holders, with nobody joining, frees a place. *)
LEMMA HeldStep == QuotaInv /\ TypeOK' /\ [Next]_vars => TodayHeld'
<1>. SUFFICES ASSUME QuotaInv, TypeOK', [Next]_vars PROVE TodayHeld'
  OBVIOUS
<1>. USE QuotaAssumption DEF QuotaInv, TypeOK, TodayHeld
<1>a. /\ Cardinality(Holders) \in Nat /\ Cardinality(Holders') \in Nat
      /\ N \in Nat /\ N > 0 /\ Cardinality(Holders') <= N
      /\ Holders' \subseteq Holders => Cardinality(Holders') <= Cardinality(Holders)
  BY Sizes DEF Holders
<1>b. /\ day \in Nat /\ free[day] \in Nat
      /\ day' \in Nat /\ free'[day'] \in Nat
  BY DEF Day
<1>1. ASSUME Holders' \subseteq Holders, day' = day, free' = free
      PROVE  TodayHeld'
  BY <1>a, <1>b, <1>1
<1>2. ASSUME free'[day'] < Daily
      PROVE  TodayHeld'
  BY <1>a, <1>b, <1>2
<1>3. ASSUME NEW r \in Req, NEW save \in BOOLEAN, Begin(r, save)
      PROVE  TodayHeld'
  BY <1>1, <1>3 DEF Begin, Holders, Holds, Idle
<1>4. ASSUME NEW r \in Req, CountAll(r)
      PROVE  TodayHeld'
  <2>1. CASE Intro <= total /\ total < Intro + Daily
    BY <1>2, <1>4, <1>b, <2>1 DEF CountAll, CountsAgree
  <2>2. CASE ~(Intro <= total /\ total < Intro + Daily)
    <3>1. \A x \in Req : x # r => req'[x] = req[x]
      BY <1>4 DEF CountAll
    <3>2. req'[r].pc = "counted" /\ req'[r].total = total
      BY <1>4 DEF CountAll, Request
    <3>3. Holders' \subseteq Holders
      BY <3>1, <3>2, <2>2 DEF Holders, Holds
    <3>. QED  BY <1>1, <1>4, <3>3 DEF CountAll
  <2>. QED  BY <2>1, <2>2
<1>5. ASSUME NEW r \in Req, CountToday(r)
      PROVE  TodayHeld'
  <2>1. /\ \A x \in Req : x # r => req'[x] = req[x]
        /\ req'[r] = AfterFunnel(req[r])
        /\ req[r].pc = "counted" /\ day' = day /\ free' = free
    BY <1>5 DEF CountToday
  <2>2. CASE ~(req'[r].pc = "calc" /\ req'[r].stage = "usdt_only")
    <3>1. req'[r].pc # "counted"
      BY <2>1 DEF AfterFunnel, Idle, Request
    <3>2. Holders' \subseteq Holders
      BY <2>1, <2>2, <3>1 DEF Holders, Holds
    <3>. QED  BY <1>1, <2>1, <3>2
  <2>3. CASE req'[r].pc = "calc" /\ req'[r].stage = "usdt_only"
    <3>1. /\ Allowed(req[r].pro, req[r].total, made[day])
          /\ StageOf(req[r].pro, req[r].total) = "usdt_only"
      BY <2>1, <2>3 DEF AfterFunnel, Idle, Request
    <3>2. /\ ~req[r].pro /\ Intro <= req[r].total
          /\ PostIntro(req[r].total, made[day]) < Daily
      BY <3>1 DEF Allowed, StageOf, IntroSpent
    <3>3. req[r].total \in Nat /\ made[day] \in Nat
      BY DEF Request, Day
    <3>4. made[day] < Daily \/ req[r].total < Intro + Daily
      BY <3>2, <3>3, Admission
    <3>5. CASE made[day] < Daily
      BY <1>2, <1>b, <2>1, <3>3, <3>5 DEF CountsAgree
    <3>6. CASE req[r].total < Intro + Daily
      <4>1. r \in Holders
        BY <2>1, <3>2, <3>6 DEF Holders, Holds
      <4>2. Holders' \subseteq Holders
        BY <2>1, <4>1 DEF Holders
      <4>. QED  BY <1>1, <2>1, <4>2
    <3>. QED  BY <3>4, <3>5, <3>6
  <2>. QED  BY <2>2, <2>3
<1>6. ASSUME NEW r \in Req, Refresh(r)
      PROVE  TodayHeld'
  <2>1. Holders' \subseteq Holders
    BY <1>6 DEF Refresh, Holders, Holds, Request
  <2>. QED  BY <1>1, <1>6, <2>1 DEF Refresh
<1>7. ASSUME NEW r \in Req, Record(r)
      PROVE  TodayHeld'
  <2>1. /\ \A x \in Req : x # r => req'[x] = req[x]
        /\ req'[r] = Idle /\ req[r].pc = "calc" /\ day' = day
    BY <1>7 DEF Record
  <2>2. Holders' \subseteq Holders \ {r}
    BY <2>1 DEF Holders, Holds, Idle
  <2>3. free'[day] = free[day] \/ (req[r].stage = "usdt_only" /\ free'[day] = free[day] + 1)
    BY <1>7 DEF Record
  <2>4. req[r].stage = "usdt_only" => Cardinality(Holders') + 1 <= Cardinality(Holders)
    <3>1. req[r].stage = "usdt_only" => r \in Holders
      BY <2>1 DEF Holders, Holds
    <3>2. Holders' \in SUBSET Req /\ Holders \in SUBSET Req
      BY DEF Holders
    <3>. QED  BY <2>2, <3>1, <3>2, Sizes
  <2>. QED  BY <1>a, <1>b, <2>1, <2>2, <2>3, <2>4
<1>8. ASSUME NEW r \in Req, Fail(r)
      PROVE  TodayHeld'
  BY <1>1, <1>8 DEF Fail, Holders, Holds, Idle
<1>9. CASE EntitlementChanges
  BY <1>1, <1>9 DEF EntitlementChanges, Holders
<1>10. CASE Midnight
  BY <1>2, <1>10, <1>b DEF Midnight, CountsAgree
<1>11. CASE UNCHANGED vars
  BY <1>1, <1>11 DEF vars, Holders
<1>. QED  BY <1>3, <1>4, <1>5, <1>6, <1>7, <1>8, <1>9, <1>10, <1>11 DEF Next

(* The same of the introductory pool. *)
LEMMA IntroStep == QuotaInv /\ TypeOK' /\ [Next]_vars => IntroHeld'
<1>. SUFFICES ASSUME QuotaInv, TypeOK', [Next]_vars PROVE IntroHeld'
  OBVIOUS
<1>. USE QuotaAssumption DEF QuotaInv, TypeOK, IntroHeld
<1>a. /\ Cardinality(IntroHolders) \in Nat /\ Cardinality(IntroHolders') \in Nat
      /\ N \in Nat /\ N > 0 /\ Cardinality(IntroHolders') <= N
      /\ IntroHolders' \subseteq IntroHolders
           => Cardinality(IntroHolders') <= Cardinality(IntroHolders)
  BY Sizes DEF IntroHolders
<1>1. ASSUME IntroHolders' \subseteq IntroHolders, intro' = intro
      PROVE  IntroHeld'
  BY <1>a, <1>1
<1>2. ASSUME intro' < Intro
      PROVE  IntroHeld'
  BY <1>a, <1>2
<1>3. ASSUME NEW r \in Req, NEW save \in BOOLEAN, Begin(r, save)
      PROVE  IntroHeld'
  BY <1>1, <1>3 DEF Begin, IntroHolders, HoldsIntro, Idle
<1>4. ASSUME NEW r \in Req, CountAll(r)
      PROVE  IntroHeld'
  <2>1. CASE total < Intro
    BY <1>2, <1>4, <2>1 DEF CountAll, CountsAgree
  <2>2. CASE ~(total < Intro)
    <3>1. \A x \in Req : x # r => req'[x] = req[x]
      BY <1>4 DEF CountAll
    <3>2. req'[r].pc = "counted" /\ req'[r].total = total
      BY <1>4 DEF CountAll, Request
    <3>3. IntroHolders' \subseteq IntroHolders
      BY <3>1, <3>2, <2>2 DEF IntroHolders, HoldsIntro
    <3>. QED  BY <1>1, <1>4, <3>3 DEF CountAll
  <2>. QED  BY <2>1, <2>2
<1>5. ASSUME NEW r \in Req, CountToday(r)
      PROVE  IntroHeld'
  <2>1. /\ \A x \in Req : x # r => req'[x] = req[x]
        /\ req'[r] = AfterFunnel(req[r])
        /\ req[r].pc = "counted" /\ intro' = intro
    BY <1>5 DEF CountToday
  <2>2. HoldsIntro(req'[r]) => HoldsIntro(req[r])
    <3>. SUFFICES ASSUME HoldsIntro(req'[r]) PROVE HoldsIntro(req[r])
      OBVIOUS
    <3>1. req'[r].pc # "counted"
      BY <2>1 DEF AfterFunnel, Idle, Request
    <3>2. req'[r].pc = "calc" /\ req'[r].stage = "intro"
      BY <3>1 DEF HoldsIntro
    <3>3. StageOf(req[r].pro, req[r].total) = "intro"
      BY <2>1, <3>2 DEF AfterFunnel, Idle, Request
    <3>4. ~req[r].pro /\ req[r].total < Intro
      BY <3>3 DEF StageOf, IntroSpent, Request
    <3>. QED  BY <2>1, <3>4 DEF HoldsIntro
  <2>3. IntroHolders' \subseteq IntroHolders
    BY <2>1, <2>2 DEF IntroHolders
  <2>. QED  BY <1>1, <2>1, <2>3
<1>6. ASSUME NEW r \in Req, Refresh(r)
      PROVE  IntroHeld'
  <2>1. IntroHolders' \subseteq IntroHolders
    BY <1>6 DEF Refresh, IntroHolders, HoldsIntro, Request
  <2>. QED  BY <1>1, <1>6, <2>1 DEF Refresh
<1>7. ASSUME NEW r \in Req, Record(r)
      PROVE  IntroHeld'
  <2>1. /\ \A x \in Req : x # r => req'[x] = req[x]
        /\ req'[r] = Idle /\ req[r].pc = "calc"
        /\ intro' = IF req[r].stage = "intro" THEN intro + 1 ELSE intro
    BY <1>7 DEF Record
  <2>2. IntroHolders' \subseteq IntroHolders \ {r}
    BY <2>1 DEF IntroHolders, HoldsIntro, Idle
  <2>3. req[r].stage = "intro" => Cardinality(IntroHolders') + 1 <= Cardinality(IntroHolders)
    <3>1. req[r].stage = "intro" => r \in IntroHolders
      BY <2>1 DEF IntroHolders, HoldsIntro
    <3>2. IntroHolders' \in SUBSET Req /\ IntroHolders \in SUBSET Req
      BY DEF IntroHolders
    <3>. QED  BY <2>2, <3>1, <3>2, Sizes
  <2>. QED  BY <1>a, <2>1, <2>2, <2>3
<1>8. ASSUME NEW r \in Req, Fail(r)
      PROVE  IntroHeld'
  BY <1>1, <1>8 DEF Fail, IntroHolders, HoldsIntro, Idle
<1>9. CASE EntitlementChanges
  BY <1>1, <1>9 DEF EntitlementChanges, IntroHolders
<1>10. CASE Midnight
  BY <1>1, <1>10 DEF Midnight, IntroHolders
<1>11. CASE UNCHANGED vars
  BY <1>1, <1>11 DEF vars, IntroHolders
<1>. QED  BY <1>3, <1>4, <1>5, <1>6, <1>7, <1>8, <1>9, <1>10, <1>11 DEF Next

(* A past day gains runs only from the transactions that date from it, and no *)
(* new one does.                                                              *)
LEMMA PastStep == QuotaInv /\ TypeOK' /\ [Next]_vars => PastHeld'
<1>. SUFFICES ASSUME QuotaInv, TypeOK', [Next]_vars, NEW d \in Day, d < day'
              PROVE  free'[d] + Cardinality(DatedBack(d)') < Daily + 2 * N
  BY DEF PastHeld
<1>. USE QuotaAssumption DEF QuotaInv, TypeOK, Day
<1>. DEFINE Goal == free'[d] + Cardinality(DatedBack(d)') < Daily + 2 * N
<1>a. /\ Cardinality(DatedBack(d)) \in Nat /\ Cardinality(DatedBack(d)') \in Nat
      /\ N \in Nat /\ N > 0 /\ Cardinality(DatedBack(d)') <= N
      /\ DatedBack(d)' \subseteq DatedBack(d)
           => Cardinality(DatedBack(d)') <= Cardinality(DatedBack(d))
      /\ free[d] \in Nat /\ free'[d] \in Nat
  BY Sizes DEF DatedBack
<1>1. ASSUME day' = day
      PROVE  free[d] + Cardinality(DatedBack(d)) < Daily + 2 * N
  BY <1>1 DEF PastHeld
<1>2. ASSUME DatedBack(d)' \subseteq DatedBack(d), day' = day, free' = free
      PROVE  Goal
  BY <1>a, <1>1, <1>2, SMTT(60)
<1>3. ASSUME NEW r \in Req, NEW save \in BOOLEAN, Begin(r, save)
      PROVE  Goal
  <2>1. DatedBack(d)' \subseteq DatedBack(d)
    BY <1>3 DEF Begin, DatedBack, Idle
  <2>. QED  BY <1>2, <1>3, <2>1 DEF Begin
<1>4. ASSUME NEW r \in Req, CountAll(r)
      PROVE  Goal
  <2>1. DatedBack(d)' \subseteq DatedBack(d)
    <3>1. /\ \A x \in Req : x # r => req'[x] = req[x]
          /\ req'[r].since = req[r].since /\ req[r].pc = "loaded"
      BY <1>4 DEF CountAll, Request
    <3>. QED  BY <3>1 DEF DatedBack
  <2>. QED  BY <1>2, <1>4, <2>1 DEF CountAll
<1>5. ASSUME NEW r \in Req, CountToday(r)
      PROVE  Goal
  <2>1. AfterFunnel(req[r]).pc = "idle" \/ AfterFunnel(req[r]).since = req[r].since
    BY DEF AfterFunnel, Idle, Request
  <2>2. DatedBack(d)' \subseteq DatedBack(d)
    <3>1. /\ \A x \in Req : x # r => req'[x] = req[x]
          /\ req'[r] = AfterFunnel(req[r]) /\ req[r].pc = "counted"
      BY <1>5 DEF CountToday
    <3>. QED  BY <2>1, <3>1 DEF DatedBack
  <2>. QED  BY <1>2, <1>5, <2>2 DEF CountToday
<1>6. ASSUME NEW r \in Req, Refresh(r)
      PROVE  Goal
  <2>1. /\ \A x \in Req : x # r => req'[x] = req[x]
        /\ req'[r].since = day /\ day' = day /\ free' = free
    BY <1>6 DEF Refresh, Request
  <2>2. DatedBack(d)' \subseteq DatedBack(d)
    <3>1. d # day
      BY <2>1
    <3>. QED  BY <2>1, <3>1 DEF DatedBack
  <2>. QED  BY <1>2, <2>1, <2>2
<1>7. ASSUME NEW r \in Req, Record(r)
      PROVE  Goal
  <2>1. /\ \A x \in Req : x # r => req'[x] = req[x]
        /\ req'[r] = Idle /\ req[r].pc = "calc" /\ day' = day
    BY <1>7 DEF Record
  <2>2. DatedBack(d)' \subseteq DatedBack(d) \ {r}
    BY <2>1 DEF DatedBack, Idle
  <2>3. free'[d] = free[d] \/ (req[r].since = d /\ free'[d] = free[d] + 1)
    BY <1>7 DEF Record
  <2>4. req[r].since = d => Cardinality(DatedBack(d)') + 1 <= Cardinality(DatedBack(d))
    <3>1. req[r].since = d => r \in DatedBack(d)
      BY <2>1 DEF DatedBack
    <3>2. DatedBack(d)' \in SUBSET Req /\ DatedBack(d) \in SUBSET Req
      BY DEF DatedBack
    <3>. QED  BY <2>2, <3>1, <3>2, Sizes
  <2>5. free[d] + Cardinality(DatedBack(d)) < Daily + 2 * N
    BY <1>1, <2>1
  <2>6. Cardinality(DatedBack(d)') <= Cardinality(DatedBack(d))
    BY <1>a, <2>2
  <2>7. Daily \in Nat
    OBVIOUS
  <2>. HIDE DEF QuotaInv, TypeOK, Day
  <2>8. CASE free'[d] = free[d]
    BY <1>a, <2>5, <2>6, <2>7, <2>8
  <2>9. CASE req[r].since = d /\ free'[d] = free[d] + 1
    BY <1>a, <2>4, <2>5, <2>7, <2>9
  <2>. QED  BY <2>3, <2>8, <2>9
<1>8. ASSUME NEW r \in Req, Fail(r)
      PROVE  Goal
  <2>1. DatedBack(d)' \subseteq DatedBack(d)
    BY <1>8 DEF Fail, DatedBack, Idle
  <2>. QED  BY <1>2, <1>8, <2>1 DEF Fail
<1>9. CASE EntitlementChanges
  BY <1>2, <1>9 DEF EntitlementChanges, DatedBack
<1>10. CASE Midnight
  <2>1. CASE d < day
    BY <1>10, <2>1 DEF Midnight, PastHeld, DatedBack
  <2>2. CASE d = day
    <3>1. Cardinality(Holders) \in Nat
      BY Sizes DEF Holders
    <3>2. free[d] + Cardinality(Holders) < Daily + N
      BY <2>2 DEF TodayHeld
    <3>3. free[d] < Daily + N
      <4>1. free[d] \in Nat /\ Cardinality(Holders) \in Nat /\ N \in Nat /\ Daily \in Nat
        BY <1>a, <3>1
      <4>. HIDE DEF QuotaInv, TypeOK, Day
      <4>. QED  BY <4>1, <3>2
    <3>. QED  BY <1>10, <1>a, <3>3 DEF Midnight
  <2>. QED  BY <1>10, <2>1, <2>2 DEF Midnight
<1>11. CASE UNCHANGED vars
  BY <1>2, <1>11 DEF vars, DatedBack
<1>. QED  BY <1>3, <1>4, <1>5, <1>6, <1>7, <1>8, <1>9, <1>10, <1>11 DEF Next

-----------------------------------------------------------------------------
LEMMA InitHolds == Init => QuotaInv
<1>. SUFFICES ASSUME Init PROVE QuotaInv
  OBVIOUS
<1>. USE QuotaAssumption DEF Init, Day
<1>1. TypeOK
  <2>1. Idle \in Request
    BY DEF Request, Idle, Stage
  <2>2. 0 \in Day /\ [d \in Day |-> 0] \in [Day -> Nat]
    OBVIOUS
  <2>. QED  BY <2>1, <2>2 DEF TypeOK
<1>2. CountsAgree
  BY DEF CountsAgree, Idle
<1>3. Holders = {} /\ IntroHolders = {} /\ Cardinality({}) = 0
  BY FS_EmptySet DEF Holders, Holds, IntroHolders, HoldsIntro, Idle
<1>4. N \in Nat /\ N > 0
  BY Sizes
<1>5. TodayHeld /\ IntroHeld
  BY <1>3, <1>4 DEF TodayHeld, IntroHeld
<1>6. PastHeld
  BY DEF PastHeld
<1>. QED  BY <1>1, <1>2, <1>5, <1>6 DEF QuotaInv

LEMMA InvHolds == Spec => []QuotaInv
<1>1. QuotaInv /\ [Next]_vars => QuotaInv'
  BY TypeStep, CountsStep, HeldStep, IntroStep, PastStep DEF QuotaInv
<1>. QED  BY <1>1, InitHolds, PTL DEF Spec

(* Every value keeps its type. *)
THEOREM TypeCorrect == Spec => []TypeOK
BY InvHolds, PTL DEF QuotaInv

(* However many requests of a user overlap and whenever midnight falls, a day *)
(* holds fewer than Daily plus twice the number of threads free calculations. *)
THEOREM DayIsBounded == Spec => []FreePerDay
<1>1. QuotaInv => FreePerDay
  <2>. SUFFICES ASSUME QuotaInv, NEW d \in Day
                PROVE  free[d] < Daily + 2 * N
    BY DEF FreePerDay, N
  <2>. USE QuotaAssumption DEF QuotaInv, TypeOK, Day
  <2>1. /\ N \in Nat /\ N > 0 /\ free[d] \in Nat
        /\ Cardinality(Holders) \in Nat /\ Cardinality(DatedBack(d)) \in Nat
    BY Sizes DEF Holders, DatedBack
  <2>2. CASE d < day
    BY <2>1, <2>2 DEF PastHeld
  <2>3. CASE d = day
    BY <2>1, <2>3 DEF TodayHeld
  <2>4. CASE d > day
    BY <2>1, <2>4 DEF CountsAgree
  <2>. QED  BY <2>2, <2>3, <2>4
<1>. QED  BY <1>1, InvHolds, PTL

(* The introductory pool is overrun by fewer runs than there are threads. *)
THEOREM IntroIsBounded == Spec => []IntroBounded
<1>1. QuotaInv => IntroBounded
  <2>. SUFFICES ASSUME QuotaInv PROVE IntroBounded
    OBVIOUS
  <2>1. Cardinality(IntroHolders) \in Nat /\ N \in Nat
    BY Sizes DEF IntroHolders
  <2>. QED  BY <2>1, QuotaAssumption DEF QuotaInv, TypeOK, IntroHeld, IntroBounded, N
<1>. QED  BY <1>1, InvHolds, PTL

(* No user is turned away before the pool and the day's runs are used up. *)
THEOREM RefusalsAreEarned == Spec => NoEarlyRefusal
<1>1. QuotaInv /\ [Next]_vars =>
        [\A r \in Req : Refuses(r) => made[day] >= Daily /\ total >= Intro + Daily]_vars
  <2>. SUFFICES ASSUME QuotaInv, NEW r \in Req, Refuses(r)
                PROVE  made[day] >= Daily /\ total >= Intro + Daily
    OBVIOUS
  <2>. USE QuotaAssumption DEF QuotaInv, TypeOK, Day
  <2>1. /\ req[r].total \in Nat /\ made[day] \in Nat
        /\ req[r].total <= total
    BY DEF Refuses, CountsAgree, Request
  <2>2. /\ Intro <= req[r].total
        /\ ~(PostIntro(req[r].total, made[day]) < Daily)
    BY <2>1 DEF Refuses, Allowed, IntroSpent
  <2>. QED  BY <2>1, <2>2, Refusal
<1>. QED  BY <1>1, InvHolds, PTL DEF Spec, NoEarlyRefusal
=============================================================================
