---------------------------- MODULE BillingProofs ----------------------------
(* Theorems about one account for any number of overlapping requests,         *)
(* payments and grants, and any clock.  What holds only of requests that do   *)
(* not overlap assumes OneAtATime: the refinement of Entitlement, and that    *)
(* credits neither lose days nor leave the flag down.                         *)
EXTENDS Billing, FiniteSetTheorems, WellFoundedInduction, TLAPS

(* The moment a request decided at has passed, and a credit has its id. *)
Sound(q) == /\ q \in Request
            /\ q.moment <= now
            /\ q.op = "activate" => q.id \in Charge
            /\ q.op \in {"activate", "grant"} => q.id \in Id
Threads == req \in [Req -> Request] /\ \A r \in Req : Sound(req[r])

TypeInv == TypeOK /\ Threads

(* An idle thread is sound at any time. *)
LEMMA IdleType == now \in Time => Sound(Idle)
  BY DEF Idle, Request, AllOps, User, Free, Time, Sound

(* The account starts well-typed, with every thread idle. *)
LEMMA InitInv == Init => TypeInv
<1> SUFFICES ASSUME Init PROVE TypeInv
  OBVIOUS
<1>1. Sound(Idle) /\ Threads /\ req \in [Req -> Request]
  BY IdleType DEF Init, Threads, Sound, Time
<1>2. user \in User
  <2>1. Free \in User
    BY DEF Free, User
  <2>2. Legacy \in User
    BY DEF Legacy, User
  <2> QED BY <2>1, <2>2 DEF Init
<1>3. NoSub \in Sub
  BY DEF NoSub, Sub, Status, Time
<1> QED BY <1>1, <1>2, <1>3 DEF Init, TypeInv, TypeOK, Time, Relay

(* One thread changes at a time. *)
LEMMA OneThread ==
  ASSUME TypeInv, NEW r \in Req, NEW q, Sound(q), req' = [req EXCEPT ![r] = q], now' = now
  PROVE  Threads'
  BY DEF TypeInv, TypeOK, Threads, Sound

(* A request that ends, with or without a commit, leaves an idle thread. *)
LEMMA FinishType ==
  ASSUME TypeInv, NEW r \in Req, Finish(r), now' = now
  PROVE  Threads'
  BY IdleType, OneThread DEF Finish, TypeInv, TypeOK

(* A request that starts has loaded a well-typed user row. *)
LEMMA LoadType ==
  ASSUME TypeInv, NEW r \in Req, NEW op \in AllOps, NEW i \in Id \cup {Null}, Load(r, op, i),
         op \in {"activate", "grant"} => i \in Id, op = "activate" => i \in Charge
  PROVE  Threads'
<1> DEFINE q == [Idle EXCEPT !.pc = "decide", !.op = op, !.id = i, !.seen = user]
<1>1. Sound(q)
  BY IdleType DEF Sound, Request, TypeInv, TypeOK
<1>2. req' = [req EXCEPT ![r] = q] /\ now' = now
  BY DEF Load
<1> HIDE DEF q
<1> QED BY <1>1, <1>2, OneThread

(* No step of a request, the bot or the clock breaks the types. *)
LEMMA StepInv == TypeInv /\ [Next]_vars => TypeInv'
<1> SUFFICES ASSUME TypeInv, [Next]_vars PROVE TypeInv'
  OBVIOUS
<1>a. TypeOK /\ Threads
  BY DEF TypeInv
<1>1. CASE Tick
  BY <1>1, <1>a DEF Tick, TypeInv, TypeOK, Threads, Sound, Time, Request
<1>2. ASSUME NEW c \in Charge, Pay(c) \/ Ack(c) PROVE TypeInv'
  BY <1>2, <1>a DEF Pay, Ack, TypeInv, TypeOK, Threads, Sound, Relay
<1>3. ASSUME NEW r \in Req, Begin(r) PROVE TypeInv'
  <2>1. ASSUME NEW c \in Charge, BeginActivate(r, c) PROVE TypeInv'
    <3>1. Threads'
      BY <2>1, LoadType DEF BeginActivate, AllOps, Id
    <3> QED BY <2>1, <3>1, <1>a DEF BeginActivate, Load, TypeInv, TypeOK, Threads, Relay
  <2>2. ASSUME NEW g \in Grant, BeginGrant(r, g) PROVE TypeInv'
    <3>1. Threads'
      BY <2>2, LoadType DEF BeginGrant, AllOps, Id
    <3> QED BY <2>2, <3>1, <1>a DEF BeginGrant, Load, TypeInv, TypeOK, Threads
  <2>3. ASSUME NEW op \in AllOps, BeginOther(r, op) PROVE TypeInv'
    <3>1. Threads'
      BY <2>3, LoadType DEF BeginOther
    <3> QED BY <2>3, <3>1, <1>a DEF BeginOther, Load, TypeInv, TypeOK, Threads
  <2> QED BY <1>3, <2>1, <2>2, <2>3 DEF Begin
<1>4. ASSUME NEW r \in Req, Step(r) PROVE TypeInv'
  <2> DEFINE q == req[r]
  <2>a. q \in Request /\ Sound(q)
    BY <1>a DEF Threads
  <2>b. user \in User /\ subs \in [Id -> Sub] /\ now \in Time /\ q.seen \in User
        /\ q.moment \in Time /\ q.expires \in Time
    BY <1>a, <2>a DEF TypeOK, Request
  <2>0. Active \in SUBSET Id
    BY DEF Active
  <2>c. UNCHANGED late \/ Failed(q) => late' \subseteq Charge
    BY <1>a, <2>a DEF Failed, Sound, TypeOK
  <2>1. ASSUME Finish(r), UNCHANGED <<now, relay>>, user' \in User, subs' \in [Id -> Sub],
               UNCHANGED late \/ Failed(q)
        PROVE  TypeInv'
    BY <1>a, <2>1, <2>c, FinishType DEF TypeInv, TypeOK, Threads
  <2>2. ASSUME Reads, UNCHANGED late, NEW m, Sound(m), WillCommit(r, m)
        PROVE  TypeInv'
    BY <1>a, <2>2, OneThread DEF Reads, WillCommit, TypeInv, TypeOK, Threads
  <2>3. CASE DecideActivate(r) \/ DecideGrant(r)
    <3> DEFINE m == [q EXCEPT !.pc = "commit", !.moment = now,
                              !.expires = Base(q.op, q.seen, now) + Days[q.id]]
    <3>1. q.id \in Id
      BY <2>3, <2>a DEF DecideActivate, DecideGrant, At, Sound
    <3>2. Days[q.id] \in Nat
      BY <3>1, BillingAssumption
    <3>3. Base(q.op, q.seen, now) \in Nat
      BY <2>b DEF Base, User, Time
    <3>4. Base(q.op, q.seen, now) + Days[q.id] \in Time
      BY <3>2, <3>3 DEF Time
    <3>5. Sound(m)
      <4> DEFINE e == Base(q.op, q.seen, now) + Days[q.id]
      <4>1. e \in Time
        BY <3>4
      <4> HIDE DEF e
      <4>2. [q EXCEPT !.pc = "commit", !.moment = now, !.expires = e] \in Request
        BY <2>a, <2>b, <4>1 DEF Request
      <4>3. Sound([q EXCEPT !.pc = "commit", !.moment = now, !.expires = e])
        BY <2>a, <2>b, <3>1, <4>2 DEF Sound, Request, Time
      <4> QED BY <4>3 DEF e
    <3>6. CASE Finish(r) /\ Reads /\ (UNCHANGED late \/ Failed(q))
      BY <2>1, <2>b, <3>6 DEF Reads
    <3>7. CASE WillCommit(r, m) /\ Reads /\ UNCHANGED late
      BY <2>2, <3>5, <3>7
    <3> QED BY <2>3, <3>6, <3>7 DEF DecideActivate, DecideGrant, DecideCredit, Expires
  <2>4. CASE DecideRevoke(r)
    <3> DEFINE m == [q EXCEPT !.pc = "commit", !.moment = now, !.rows = Active]
    <3>1. m \in Request
      BY <2>a, <2>b, <2>0 DEF Request
    <3>2. Sound(m)
      BY <2>a, <2>b, <3>1 DEF Sound, Request, Time
    <3> QED BY <2>2, <2>4, <3>2 DEF DecideRevoke
  <2>5. CASE DecideReconcile(r)
    <3> DEFINE m == [q EXCEPT !.pc = "commit", !.rows = Active]
    <3>1. Sound(m)
      BY <2>0, <2>a, <2>b DEF Sound, Request, Time
    <3>2. CASE Finish(r) /\ Reads /\ UNCHANGED late
      BY <2>1, <2>b, <3>2 DEF Reads
    <3> QED BY <2>2, <2>5, <3>1, <3>2 DEF DecideReconcile
  <2>6. CASE DecideSweep(r)
    <3> DEFINE lapsed == {i \in Active : subs[i].expires < now}
               other  == \E i \in Active \ lapsed : subs[i].expires > now
               m == [q EXCEPT !.pc = "commit", !.rows = lapsed, !.seen = user, !.keep = other]
    <3>1. lapsed \in SUBSET Id /\ other \in BOOLEAN
      BY <2>0
    <3>2. Sound(m)
      <4> HIDE DEF lapsed, other
      <4>1. m \in Request
        BY <2>a, <2>b, <3>1 DEF Request
      <4> QED BY <2>a, <2>b, <4>1 DEF Sound, Request, Time
    <3>3. CASE Finish(r) /\ Reads /\ UNCHANGED late
      BY <2>1, <2>b, <3>3 DEF Reads
    <3> QED BY <2>2, <2>6, <3>2, <3>3 DEF DecideSweep
  <2>7. CASE CommitCredit(r)
    <3> DEFINE row == [status |-> "active", started |-> q.moment, expires |-> q.expires]
    <3>1. row \in Sub
      BY <2>b DEF Sub, Status
    <3>2. subs' \in [Id -> Sub]
      BY <2>7, <2>b, <3>1 DEF CommitCredit
    <3>3. user' \in User
      <4>1. FlagWritten(q.seen.is_pro, TRUE) \in BOOLEAN
        BY <2>b DEF FlagWritten, User
      <4>2. [is_pro |-> FlagWritten(q.seen.is_pro, TRUE), until |-> q.expires] \in User
        BY <2>b, <4>1 DEF User
      <4> QED BY <2>7, <2>b, <4>2 DEF CommitCredit
    <3> QED BY <2>1, <2>7, <3>2, <3>3 DEF CommitCredit
  <2>8. CASE CommitRevoke(r)
    <3>1. \A i \in Id : [subs[i] EXCEPT !.status = "revoked", !.expires = q.moment] \in Sub
      BY <2>b DEF Sub, Status
    <3>2. subs' \in [Id -> Sub]
      BY <2>8, <2>b, <3>1 DEF CommitRevoke, Revoked
    <3>3. user' \in User
      BY <2>8, <2>b DEF CommitRevoke, RevokedUser, User, FlagWritten
    <3> QED BY <2>1, <2>8, <3>2, <3>3 DEF CommitRevoke
  <2>9. \A rows : Expired(rows) \in [Id -> Sub]
    <3>1. \A i \in Id : [subs[i] EXCEPT !.status = "expired"] \in Sub
      BY <2>b DEF Sub, Status
    <3> QED BY <2>b, <3>1 DEF Expired
  <2>10. CASE CommitReconcile(r)
    <3>1. user' \in User
      BY <2>10, <2>b DEF CommitReconcile, User
    <3> QED BY <2>1, <2>9, <2>10, <3>1 DEF CommitReconcile
  <2>11. CASE CommitSweep(r)
    <3>1. user' \in User
      BY <2>11, <2>b DEF CommitSweep, User, FlagWritten
    <3> QED BY <2>1, <2>9, <2>11, <3>1 DEF CommitSweep
  <2> QED BY <1>4, <2>3, <2>4, <2>5, <2>6, <2>7, <2>8, <2>10, <2>11 DEF Step
<1>5. ASSUME NEW r \in Req, Abort(r) PROVE TypeInv'
  <2>1. late' \subseteq Charge
    BY <1>5, <1>a DEF Abort, Failed, Threads, Sound, TypeOK
  <2> QED BY <1>5, <1>a, <2>1, FinishType DEF Abort, Reads, TypeInv, TypeOK, Threads
<1>6. ASSUME NEW r \in Req, GiveUp(r) PROVE TypeInv'
  <2>1. late' \subseteq Charge
    BY <1>6, <1>a DEF GiveUp, Failed, Threads, Sound, TypeOK
  <2>2. Sound([req[r] EXCEPT !.heard = FALSE])
    BY <1>a DEF Threads, Sound, Request
  <2>3. Threads'
    BY <1>6, <2>2, OneThread DEF GiveUp, Reads
  <2> QED BY <1>6, <1>a, <2>1, <2>3 DEF GiveUp, Reads, TypeInv, TypeOK, Threads
<1>7. CASE UNCHANGED vars
  BY <1>7, <1>a DEF vars, TypeInv, TypeOK, Threads, Sound
<1> QED BY <1>1, <1>2, <1>3, <1>4, <1>5, <1>6, <1>7 DEF Next

(* However requests, payments, failures and the clock interleave, every       *)
(* column and every request keeps its type.                                   *)
THEOREM TypeCorrect == Spec => []TypeOK
<1>1. TypeInv => TypeOK
  BY DEF TypeInv
<1> QED BY <1>1, InitInv, StepInv, PTL DEF Spec

-----------------------------------------------------------------------------
(* The table *)

(* No request that commits late, again or for another purpose changes a row   *)
(* of another, and none gives back what a revoke or the end of a period took. *)
THEOREM RowsStayWritten == Spec => RowsWrittenOnce
<1>1. TypeInv /\ [Next]_vars => [\A i \in Id : RowFrozen(i)]_vars
  <2> SUFFICES ASSUME TypeInv, Next, NEW i \in Id, Exists(i) PROVE RowFrozen(i)
    BY DEF RowFrozen
  <2>a. subs \in [Id -> Sub] /\ now \in Nat
    BY DEF TypeInv, TypeOK, Time
  <2>b. subs[i] \in Sub /\ subs[i].status # "none"
    BY <2>a DEF Exists
  <2>1. CASE UNCHANGED subs
    BY <2>1, <2>b DEF RowFrozen
  <2>2. ASSUME NEW r \in Req, CommitCredit(r) PROVE RowFrozen(i)
    <3>1. subs' = subs \/ subs'[i] = subs[i]
      BY <2>2, <2>a DEF CommitCredit, Taken
    <3> QED BY <2>b, <3>1 DEF RowFrozen
  <2>3. ASSUME NEW r \in Req, CommitRevoke(r) PROVE RowFrozen(i)
    <3>1. subs'[i] = subs[i] \/ subs'[i] = [subs[i] EXCEPT !.status = "revoked",
                                                          !.expires = req[r].moment]
      BY <2>3 DEF CommitRevoke, Revoked
    <3>2. req[r].moment <= now
      BY DEF TypeInv, Threads, Sound
    <3> QED BY <2>b, <3>1, <3>2 DEF RowFrozen, Sub
  <2>4. \A rows : subs' = Expired(rows) => RowFrozen(i)
    <3>1. \A rows : Expired(rows)[i] \in {subs[i], [subs[i] EXCEPT !.status = "expired"]}
      BY DEF Expired
    <3> QED BY <2>b, <3>1 DEF RowFrozen, Sub
  <2>5. ASSUME NEW r \in Req, CommitReconcile(r) \/ CommitSweep(r) PROVE RowFrozen(i)
    BY <2>4, <2>5 DEF CommitReconcile, CommitSweep
  <2>6. \/ UNCHANGED subs
        \/ \E r \in Req : CommitCredit(r) \/ CommitRevoke(r) \/ CommitReconcile(r) \/ CommitSweep(r)
    BY DEF Next, Tick, Pay, Ack, Begin, BeginActivate, BeginGrant, BeginOther, Load, Step, Reads,
           DecideActivate, DecideGrant, DecideRevoke, DecideReconcile, DecideSweep, Abort, GiveUp
  <2> QED BY <2>1, <2>2, <2>3, <2>5, <2>6
<1> QED BY <1>1, InitInv, StepInv, PTL DEF Spec, RowsWrittenOnce

-----------------------------------------------------------------------------
(* The account *)

(* A revoke leaves the account without PRO, though the ORM may leave the flag *)
(* out of its UPDATE: the end it writes has passed.                           *)
THEOREM RevokeIsFinal == Spec => RevokeTakesEffect
<1> DEFINE Off == \A r \in Req : CommitRevoke(r) => ~IsPro(user', now)
<1>1. TypeInv /\ [Next]_vars => [Off]_vars
  <2> SUFFICES ASSUME TypeInv, NEW r \in Req, CommitRevoke(r) PROVE ~IsPro(user', now)
    OBVIOUS
  <2>1. req[r].moment \in Nat /\ req[r].moment <= now /\ now \in Nat
    BY DEF TypeInv, TypeOK, Threads, Sound, Request, Time
  <2>2. user'.until = req[r].moment
    BY DEF CommitRevoke, RevokedUser
  <2> QED BY <2>1, <2>2, BillingAssumption DEF IsPro
<1> QED BY <1>1, InitInv, StepInv, PTL DEF Spec, RevokeTakesEffect

-----------------------------------------------------------------------------
(* Sums of days *)

(* The model adds the days of the rows up with a recursive function.  The     *)
(* days counted one by one are another that obeys the same equations (Adds),  *)
(* and on finite sets these have one solution.                                *)
DaysOf(S) == UNION {{i} \X (1..Days[i]) : i \in S}
First(s)   == CHOOSE x \in s : TRUE
Adds(f, S) == f = [s \in SUBSET S |-> IF s = {} THEN 0 ELSE Days[First(s)] + f[s \ {First(s)}]]
Sum(S)     == MapThenSumSet(LAMBDA i : Days[i], S)

(* The sum of the model is the value of such a function. *)
LEMMA SumIs ==
    ASSUME NEW S
    PROVE  Sum(S) = (CHOOSE f : Adds(f, S))[S]
BY DEF Sum, MapThenSumSet, MapThenFoldSet, Adds, First

(* The days of one id more. *)
LEMMA DaysOfMore ==
    ASSUME NEW s \in SUBSET Id, NEW x \in s, IsFiniteSet(DaysOf(s \ {x}))
    PROVE  /\ IsFiniteSet(DaysOf(s))
           /\ Cardinality(DaysOf(s)) = Days[x] + Cardinality(DaysOf(s \ {x}))
<1>. DEFINE own == {x} \X (1..Days[x])
            rest == DaysOf(s \ {x})
<1>1. Days[x] \in Nat
  BY BillingAssumption
<1>2. IsFiniteSet(1..Days[x]) /\ Cardinality(1..Days[x]) = Days[x]
  BY <1>1, FS_Interval
<1>3. IsFiniteSet({x}) /\ Cardinality({x}) = 1
  BY FS_Singleton
<1>4. IsFiniteSet(own) /\ Cardinality(own) = Days[x]
  BY <1>1, <1>2, <1>3, FS_Product
<1>5. DaysOf(s) = own \cup rest
  BY DEF DaysOf
<1>6. own \cap rest = {}
  BY DEF DaysOf
<1>7. Cardinality(rest) \in Nat
  BY FS_CardinalityType
<1>. HIDE DEF own, rest
<1>8. /\ IsFiniteSet(own \cup rest)
      /\ Cardinality(own \cup rest) = Cardinality(own) + Cardinality(rest) - Cardinality({})
  BY <1>4, <1>6, FS_Union DEF rest
<1>. QED  BY <1>1, <1>4, <1>5, <1>7, <1>8, FS_EmptySet DEF rest

(* What holds of no finite set does not fail of a smallest one. *)
LEMMA Smallest ==
    ASSUME NEW S, IsFiniteSet(S), NEW T \in SUBSET (SUBSET S), T # {}
    PROVE  \E s \in T : \A x \in s : s \ {x} \notin T
<1>. DEFINE R == StrictSubsetOrdering(S)
<1>1. IsWellFoundedOn(R, FiniteSubsetsOf(S))
  BY FS_StrictSubsetOrderingWellFounded
<1>2. \A s \in SUBSET S : IsFiniteSet(s)
  BY FS_Subset
<1>3. T \subseteq FiniteSubsetsOf(S)
  BY <1>2 DEF FiniteSubsetsOf
<1>. HIDE DEF R
<1>4. PICK s \in T : \A r \in T : ~ (<<r, s>> \in R)
  BY <1>1, <1>3, WFMin
<1>5. ASSUME NEW x \in s, s \ {x} \in T
      PROVE  FALSE
  <2>1. <<s \ {x}, s>> \in R
    BY <1>5 DEF R, StrictSubsetOrdering
  <2>. QED  BY <1>4, <1>5, <2>1
<1>. QED  BY <1>4, <1>5

(* The sum of the days is the number of days. *)
LEMMA SumIsSize ==
    ASSUME NEW S \in SUBSET Id, IsFiniteSet(S)
    PROVE  IsFiniteSet(DaysOf(S)) /\ Sum(S) = Cardinality(DaysOf(S))
<1>. DEFINE Size == [s \in SUBSET S |-> Cardinality(DaysOf(s))]
<1>1. DaysOf({}) = {}
  BY DEF DaysOf
<1>2. \A s \in SUBSET S : IsFiniteSet(DaysOf(s))
  <2>. DEFINE T == {s \in SUBSET S : ~IsFiniteSet(DaysOf(s))}
  <2>. SUFFICES ASSUME T # {} PROVE FALSE
    OBVIOUS
  <2>1. PICK s \in T : \A x \in s : s \ {x} \notin T
    BY Smallest
  <2>2. s # {}
    BY <1>1, FS_EmptySet
  <2>3. PICK x \in s : TRUE
    BY <2>2
  <2>4. IsFiniteSet(DaysOf(s \ {x}))
    BY <2>1, <2>3
  <2>. QED  BY <2>3, <2>4, DaysOfMore
<1>3. \A s \in SUBSET S : s # {} => First(s) \in s
  BY DEF First
<1>4. \A s \in SUBSET S : s # {} => Size[s] = Days[First(s)] + Size[s \ {First(s)}]
  BY <1>2, <1>3, DaysOfMore
<1>5. Size[{}] = 0
  BY <1>1, FS_EmptySet
<1>6. Adds(Size, S)
  <2>. HIDE DEF Size
  <2>1. Size = [s \in SUBSET S |-> Size[s]]
    BY DEF Size
  <2>. QED  BY <1>4, <1>5, <2>1 DEF Adds
<1>. DEFINE f == CHOOSE g : Adds(g, S)
<1>7. Adds(f, S)
  BY <1>6
<1>. HIDE DEF f, Size
<1>8. \A s \in SUBSET S : f[s] = Size[s]
  <2>. DEFINE T == {s \in SUBSET S : f[s] # Size[s]}
  <2>. SUFFICES ASSUME T # {} PROVE FALSE
    OBVIOUS
  <2>1. PICK s \in T : \A x \in s : s \ {x} \notin T
    BY Smallest
  <2>2. s # {}
    BY <1>5, <1>7 DEF Adds
  <2>3. First(s) \in s /\ s \ {First(s)} \in SUBSET S
    BY <1>3, <2>2
  <2>4. f[s \ {First(s)}] = Size[s \ {First(s)}]
    BY <2>1, <2>3
  <2>5. f[s] = Days[First(s)] + f[s \ {First(s)}]
    BY <1>7, <2>2 DEF Adds
  <2>. QED  BY <1>4, <2>2, <2>4, <2>5
<1>. QED  BY <1>2, <1>8, SumIs DEF f, Size

(* A row more adds its days. *)
LEMMA SumGrows ==
    ASSUME NEW S \in SUBSET Id, IsFiniteSet(S), NEW i \in Id, i \notin S
    PROVE  IsFiniteSet(S \cup {i}) /\ Sum(S \cup {i}) = Sum(S) + Days[i]
<1>. DEFINE T == S \cup {i}
<1>1. IsFiniteSet(T)
  BY FS_AddElement
<1>2. T \ {i} = S /\ i \in T /\ T \in SUBSET Id
  OBVIOUS
<1>. HIDE DEF T
<1>3. Sum(S) = Cardinality(DaysOf(S)) /\ IsFiniteSet(DaysOf(S))
  BY SumIsSize
<1>4. Sum(T) = Cardinality(DaysOf(T))
  BY <1>1, <1>2, SumIsSize
<1>5. Cardinality(DaysOf(T)) = Days[i] + Cardinality(DaysOf(S))
  BY <1>2, <1>3, DaysOfMore
<1>6. Cardinality(DaysOf(S)) \in Nat /\ Days[i] \in Nat
  BY <1>3, FS_CardinalityType, BillingAssumption
<1>. QED  BY <1>1, <1>3, <1>4, <1>5, <1>6 DEF T

-----------------------------------------------------------------------------
(* What was paid for *)

(* The rows, what they bought and the latest end that is paid for.  A request *)
(* may hold an older copy, and one that is about to commit adds the days of   *)
(* its own row.                                                               *)
Rows == {i \in Id : Exists(i)}
Paid == Sum(Rows)
Top  == now + Paid
Within(u, top) == u.until # Null => u.until <= top
Crediting(q) == q.pc = "commit" /\ q.op \in {"activate", "grant"}
Ends(u, t) == u.until # Null /\ u.until > t
PaidFor(q, rows, top) ==
    /\ q.rows \subseteq rows
    /\ Within(q.seen, top)
    /\ Crediting(q) => q.expires <= top + Days[q.id]
CreditInv ==
    /\ IsFiniteSet(Rows)
    /\ Within(user, Top)
    /\ \A r \in Req : PaidFor(req[r], Rows, Top)

LEMMA InitCredit == Init => CreditInv
<1>. SUFFICES ASSUME Init PROVE CreditInv
  OBVIOUS
<1>1. Rows = {}
  BY DEF Init, Rows, Exists, NoSub
<1>2. IsFiniteSet(Rows)
  BY <1>1, FS_EmptySet
<1>3. user.until = Null /\ \A r \in Req : req[r] = Idle
  BY DEF Init, Free, Legacy
<1>. QED  BY <1>2, <1>3 DEF CreditInv, PaidFor, Within, Crediting, Idle, Free

(* Only the commits write rows. *)
LEMMA WhoWrites ==
    [Next]_vars => \/ UNCHANGED <<user, subs>>
                   \/ \E r \in Req : \/ CommitCredit(r) \/ CommitRevoke(r)
                                     \/ CommitReconcile(r) \/ CommitSweep(r)
BY DEF vars, Next, Tick, Pay, Ack, Begin, BeginActivate, BeginGrant, BeginOther, Load, Step, Reads,
       DecideActivate, DecideGrant, DecideRevoke, DecideReconcile, DecideSweep, Abort, GiveUp

(* The sum only grows, and by the days of the one row that is inserted. *)
LEMMA PaidGrows ==
    ASSUME TypeInv, CreditInv, [Next]_vars
    PROVE  /\ IsFiniteSet(Rows') /\ Rows \subseteq Rows'
           /\ Paid \in Nat /\ Paid' \in Nat /\ Paid <= Paid'
           /\ \A r \in Req : CommitCredit(r) /\ ~Taken(req[r].id) => Paid' = Paid + Days[req[r].id]
<1>a. Rows \in SUBSET Id /\ IsFiniteSet(Rows) /\ TypeOK /\ Threads
  BY DEF Rows, TypeInv, CreditInv
<1>b. Paid \in Nat
  <2>1. Sum(Rows) = Cardinality(DaysOf(Rows)) /\ IsFiniteSet(DaysOf(Rows))
    BY <1>a, SumIsSize
  <2>. QED  BY <2>1, FS_CardinalityType DEF Paid
<1>c. Paid' = Sum(Rows')
  BY DEF Paid, Sum, MapThenSumSet, MapThenFoldSet
<1>0. ASSUME Rows' = Rows
      PROVE  IsFiniteSet(Rows') /\ Paid' = Paid
  BY <1>0, <1>a, <1>c DEF Paid
<1>1. ASSUME UNCHANGED subs
      PROVE  Rows' = Rows
  BY <1>1 DEF Rows, Exists
<1>2. ASSUME NEW r \in Req, CommitCredit(r), ~Taken(req[r].id)
      PROVE  /\ IsFiniteSet(Rows') /\ Rows \subseteq Rows'
             /\ Paid' = Paid + Days[req[r].id] /\ Paid' \in Nat /\ Paid <= Paid'
  <2>. DEFINE i == req[r].id
  <2>1. i \in Id /\ i \notin Rows
    BY <1>2, <1>a DEF CommitCredit, Threads, Sound, Taken, Rows
  <2>2. Rows' = Rows \cup {i}
    BY <1>2, <1>a, <2>1 DEF CommitCredit, TypeOK, Rows, Exists
  <2>. HIDE DEF i
  <2>3. IsFiniteSet(Rows \cup {i}) /\ Sum(Rows \cup {i}) = Sum(Rows) + Days[i]
    BY <1>a, <2>1, SumGrows
  <2>4. Days[i] \in Nat
    BY <2>1, BillingAssumption
  <2>. QED  BY <1>b, <1>c, <2>2, <2>3, <2>4 DEF Paid, i
<1>3. ASSUME NEW r \in Req, CommitCredit(r), Taken(req[r].id)
      PROVE  Rows' = Rows
  BY <1>1, <1>3 DEF CommitCredit
<1>4. ASSUME NEW r \in Req, CommitRevoke(r) \/ CommitReconcile(r) \/ CommitSweep(r)
      PROVE  Rows' = Rows
  <2>1. \A i \in Id : subs[i] \in Sub
    BY <1>a DEF TypeOK
  <2>2. \A i \in req[r].rows : i \in Id => subs[i].status # "none"
    BY DEF CreditInv, PaidFor, Rows, Exists
  <2>. QED  BY <1>4, <2>1, <2>2 DEF CommitRevoke, CommitReconcile, CommitSweep, Revoked, Expired, Sub, Rows, Exists
<1>5. IsFiniteSet(Rows') /\ Rows \subseteq Rows' /\ Paid' \in Nat /\ Paid <= Paid'
  BY <1>b, <1>0, <1>1, <1>2, <1>3, <1>4, WhoWrites
<1>. QED  BY <1>b, <1>2, <1>5

(* What is within what is paid for stays so. *)
LEMMA StaysPaid ==
    ASSUME NEW q \in Request, Crediting(q) => q.id \in Id,
           NEW rows, NEW more, rows \subseteq more,
           NEW top \in Nat, NEW high \in Nat, top <= high, PaidFor(q, rows, top)
    PROVE  PaidFor(q, more, high)
<1>1. q.seen.until # Null => q.seen.until \in Nat
  BY DEF Request, User, Time
<1>2. Within(q.seen, high)
  BY <1>1 DEF PaidFor, Within
<1>3. ASSUME Crediting(q)
      PROVE  q.expires <= high + Days[q.id]
  <2>1. q.expires \in Nat /\ Days[q.id] \in Nat
    BY <1>3, BillingAssumption DEF Request, Time
  <2>. QED  BY <1>3, <2>1 DEF PaidFor
<1>. QED  BY <1>2, <1>3 DEF PaidFor

(* What a request holds next is within what is paid for now. *)
LEMMA NextPaid ==
    ASSUME TypeInv, CreditInv, [Next]_vars, NEW r \in Req
    PROVE  PaidFor(req'[r], Rows, Top)
<1>a. TypeOK /\ Threads /\ req \in [Req -> Request] /\ PaidFor(req[r], Rows, Top) /\ Within(user, Top)
  BY DEF TypeInv, TypeOK, CreditInv
<1>b. now \in Nat /\ Paid \in Nat /\ Top \in Nat /\ now <= Top
  <2>1. now \in Nat /\ Paid \in Nat
    BY <1>a, PaidGrows DEF TypeOK, Time
  <2>. QED  BY <2>1 DEF Top
<1>c. Active \subseteq Rows
  BY DEF Active, Rows, Exists
<1>d. PaidFor(Idle, Rows, Top)
  BY DEF PaidFor, Within, Crediting, Idle, Free
<1>1. ASSUME req'[r] = req[r]
      PROVE  PaidFor(req'[r], Rows, Top)
  BY <1>a, <1>1
<1>2. ASSUME Finish(r)
      PROVE  PaidFor(req'[r], Rows, Top)
  BY <1>2, <1>a, <1>d DEF Finish
<1>3. ASSUME NEW op, NEW i, Load(r, op, i)
      PROVE  PaidFor(req'[r], Rows, Top)
  <2>. DEFINE m == [Idle EXCEPT !.pc = "decide", !.op = op, !.id = i, !.seen = user]
  <2>1. req'[r] = m
    BY <1>3, <1>a DEF Load
  <2>2. m.rows = {} /\ m.seen = user /\ m.pc = "decide"
    BY DEF Idle
  <2>. HIDE DEF m
  <2>. QED  BY <1>a, <2>1, <2>2 DEF PaidFor, Crediting
<1>4. ASSUME NEW m, WillCommit(r, m), PaidFor(m, Rows, Top)
      PROVE  PaidFor(req'[r], Rows, Top)
  BY <1>4, <1>a DEF WillCommit
<1>. DEFINE q == req[r]
<1>q. /\ q \in Request /\ q.seen \in User /\ q.moment \in Nat /\ q.expires \in Nat
      /\ q.rows \subseteq Rows /\ Within(q.seen, Top)
  BY <1>a DEF Request, Time, PaidFor
<1>5. CASE DecideActivate(r) \/ DecideGrant(r)
  <2>. DEFINE e == Expires(q)
              m == [q EXCEPT !.pc = "commit", !.moment = now, !.expires = e]
  <2>1. Finish(r) \/ WillCommit(r, m)
    BY <1>5 DEF DecideActivate, DecideGrant, DecideCredit
  <2>2. q.id \in Id
    BY <1>5, <1>a DEF DecideActivate, DecideGrant, At, Threads, Sound
  <2>3. Days[q.id] \in Nat
    BY <2>2, BillingAssumption
  <2>4. Base(q.op, q.seen, now) \in Nat /\ Base(q.op, q.seen, now) <= Top
    BY <1>b, <1>q DEF Base, User, Time, Within
  <2>5. e <= Top + Days[q.id]
    BY <1>b, <2>3, <2>4 DEF Expires
  <2>. HIDE DEF e
  <2>6. m.rows = q.rows /\ m.seen = q.seen /\ m.expires = e /\ m.id = q.id
    BY <1>q DEF Request
  <2>. HIDE DEF m
  <2>7. PaidFor(m, Rows, Top)
    BY <1>q, <2>5, <2>6 DEF PaidFor
  <2>. QED  BY <1>2, <1>4, <2>1, <2>7
<1>6. CASE DecideRevoke(r)
  <2>. DEFINE m == [q EXCEPT !.pc = "commit", !.moment = now, !.rows = Active]
  <2>1. WillCommit(r, m) /\ q.op = "revoke"
    BY <1>6 DEF DecideRevoke, At
  <2>2. m.rows = Active /\ m.seen = q.seen /\ m.op = "revoke"
    BY <1>q, <2>1 DEF Request
  <2>. HIDE DEF m
  <2>3. PaidFor(m, Rows, Top)
    BY <1>q, <1>c, <2>2 DEF PaidFor, Crediting
  <2>. QED  BY <1>4, <2>1, <2>3
<1>7. CASE DecideReconcile(r)
  <2>. DEFINE m == [q EXCEPT !.pc = "commit", !.rows = Active]
  <2>1. (WillCommit(r, m) \/ Finish(r)) /\ q.op = "reconcile"
    BY <1>7 DEF DecideReconcile, At
  <2>2. m.rows = Active /\ m.seen = q.seen /\ m.op = "reconcile"
    BY <1>q, <2>1 DEF Request
  <2>. HIDE DEF m
  <2>3. PaidFor(m, Rows, Top)
    BY <1>q, <1>c, <2>2 DEF PaidFor, Crediting
  <2>. QED  BY <1>2, <1>4, <2>1, <2>3
<1>8. CASE DecideSweep(r)
  <2>. DEFINE lapsed == {i \in Active : subs[i].expires < now}
              other  == \E i \in Active \ lapsed : subs[i].expires > now
              m == [q EXCEPT !.pc = "commit", !.rows = lapsed, !.seen = user, !.keep = other]
  <2>1. (WillCommit(r, m) \/ Finish(r)) /\ q.op = "sweep"
    BY <1>8 DEF DecideSweep, At
  <2>2. lapsed \subseteq Rows
    BY <1>c
  <2>. HIDE DEF lapsed, other
  <2>3. m.rows = lapsed /\ m.seen = user /\ m.op = "sweep"
    BY <1>q, <2>1 DEF Request
  <2>. HIDE DEF m
  <2>4. PaidFor(m, Rows, Top)
    BY <1>a, <2>2, <2>3 DEF PaidFor, Crediting
  <2>. QED  BY <1>2, <1>4, <2>1, <2>4
<1>9. CASE CommitCredit(r) \/ CommitRevoke(r) \/ CommitReconcile(r) \/ CommitSweep(r) \/ Abort(r)
  BY <1>9, <1>2 DEF CommitCredit, CommitRevoke, CommitReconcile, CommitSweep, Abort
<1>g. CASE GiveUp(r)
  <2>. DEFINE m == [q EXCEPT !.heard = FALSE]
  <2>1. req'[r] = m
    BY <1>g, <1>a DEF GiveUp
  <2>2. m.rows = q.rows /\ m.seen = q.seen /\ m.pc = q.pc /\ m.op = q.op /\ m.expires = q.expires /\ m.id = q.id
    BY <1>q DEF Request
  <2>. HIDE DEF m
  <2>. QED  BY <1>a, <2>1, <2>2 DEF PaidFor, Crediting
<1>10. CASE Step(r) \/ Abort(r)
  BY <1>5, <1>6, <1>7, <1>8, <1>9, <1>10 DEF Step
<1>11. CASE Begin(r)
  BY <1>3, <1>11 DEF Begin, BeginActivate, BeginGrant, BeginOther
<1>12. ASSUME NEW s \in Req, s # r, Begin(s) \/ Step(s) \/ Abort(s) \/ GiveUp(s)
       PROVE  req'[r] = req[r]
  BY <1>12, <1>a DEF Begin, BeginActivate, BeginGrant, BeginOther, Load, Step, Abort, GiveUp, Finish,
         DecideActivate, DecideGrant, DecideCredit, DecideRevoke, DecideReconcile, DecideSweep,
         WillCommit, CommitCredit, CommitRevoke, CommitReconcile, CommitSweep
<1>13. CASE Tick \/ (\E c \in Charge : Pay(c) \/ Ack(c)) \/ UNCHANGED vars
  BY <1>1, <1>13 DEF Tick, Pay, Ack, vars
<1>. QED  BY <1>1, <1>g, <1>10, <1>11, <1>12, <1>13 DEF Next

LEMMA CreditStep == TypeInv /\ CreditInv /\ [Next]_vars => CreditInv'
<1>. SUFFICES ASSUME TypeInv, CreditInv, [Next]_vars PROVE CreditInv'
  OBVIOUS
<1>1. TypeInv' /\ now \in Nat /\ now' \in Nat /\ now <= now' /\ user \in User /\ user' \in User
  <2>1. TypeInv'
    BY StepInv
  <2>2. now' = now \/ Tick
    BY DEF vars, Next, Pay, Ack, Begin, BeginActivate, BeginGrant, BeginOther, Load, Step, Reads, Abort, GiveUp,
           DecideActivate, DecideGrant, DecideRevoke, DecideReconcile, DecideSweep,
           CommitCredit, CommitRevoke, CommitReconcile, CommitSweep
  <2>3. now' = now \/ now' = now + 1
    BY <2>2 DEF Tick
  <2>. QED  BY <2>1, <2>3 DEF TypeInv, TypeOK, Time
<1>2. /\ IsFiniteSet(Rows') /\ Rows \subseteq Rows'
      /\ Paid \in Nat /\ Paid' \in Nat /\ Paid <= Paid'
      /\ \A r \in Req : CommitCredit(r) /\ ~Taken(req[r].id) => Paid' = Paid + Days[req[r].id]
  BY PaidGrows
<1>3. \A r \in Req : /\ req[r] \in Request /\ req'[r] \in Request /\ Sound(req[r])
                     /\ Crediting(req[r]) => req[r].id \in Id
                     /\ Crediting(req'[r]) => req'[r].id \in Id
  BY <1>1 DEF TypeInv, Threads, Sound, Crediting
<1>4. Top \in Nat /\ Top' \in Nat /\ Top <= Top'
  <2>1. Paid \in Nat /\ Paid' \in Nat /\ Paid <= Paid'
    BY <1>2
  <2>2. \A a, b, c, d \in Nat : a <= b /\ c <= d => a + c \in Nat /\ b + d \in Nat /\ a + c <= b + d
    OBVIOUS
  <2>3. now \in Nat /\ now' \in Nat /\ now <= now'
    BY <1>1
  <2>4. now + Paid \in Nat /\ now' + Paid' \in Nat /\ now + Paid <= now' + Paid'
    BY <2>1, <2>2, <2>3
  <2>. QED  BY <2>4 DEF Top
<1>5. ASSUME NEW r \in Req
      PROVE  PaidFor(req'[r], Rows', Top')
  <2>1. PaidFor(req'[r], Rows, Top)
    BY NextPaid
  <2>. HIDE DEF Rows, Top
  <2>. QED  BY <1>2, <1>3, <1>4, <2>1, StaysPaid
<1>6. Within(user', Top')
  <2>a. user.until # Null => user.until \in Nat /\ user.until <= Top
    BY <1>1 DEF User, Time, CreditInv, Within
  <2>1. ASSUME user'.until = user.until
        PROVE  Within(user', Top')
    BY <1>4, <2>1, <2>a DEF Within
  <2>2. ASSUME NEW r \in Req, CommitCredit(r)
        PROVE  Within(user', Top')
    <3>1. CASE Taken(req[r].id)
      BY <2>1, <2>2, <3>1 DEF CommitCredit
    <3>2. CASE ~Taken(req[r].id)
      <4>. DEFINE q == req[r]
      <4>1. Crediting(q) /\ user'.until = q.expires /\ q.expires \in Nat
        BY <1>3, <2>2, <3>2 DEF CommitCredit, Crediting, Request, Time
      <4>2. Days[q.id] \in Nat
        BY <1>3, <4>1, BillingAssumption
      <4>3. q.expires <= Top + Days[q.id]
        BY <4>1 DEF CreditInv, PaidFor
      <4>4. Paid' = Paid + Days[q.id] /\ now' = now
        BY <1>2, <2>2, <3>2 DEF CommitCredit
      <4>5. q.expires <= Top'
        BY <1>1, <1>2, <4>1, <4>2, <4>3, <4>4 DEF Top
      <4>. QED  BY <4>1, <4>5 DEF Within
    <3>. QED  BY <3>1, <3>2
  <2>3. ASSUME NEW r \in Req, CommitRevoke(r)
        PROVE  Within(user', Top')
    <3>1. user'.until = req[r].moment /\ req[r].moment <= now /\ req[r].moment \in Nat
      BY <1>3, <2>3 DEF CommitRevoke, RevokedUser, Sound, Request, Time
    <3>. QED  BY <1>1, <1>2, <3>1 DEF Within, Top
  <2>4. ASSUME NEW r \in Req, CommitReconcile(r) \/ CommitSweep(r)
        PROVE  user'.until = user.until
    BY <1>1, <2>4 DEF CommitReconcile, CommitSweep, User
  <2>. QED  BY <2>1, <2>2, <2>3, <2>4, WhoWrites
<1>. QED  BY <1>2, <1>5, <1>6 DEF CreditInv

(* PRO time never exceeds what was paid for or granted, for any number of     *)
(* overlapping requests, payments, grants, retries and redeliveries: what a   *)
(* request may still add, it adds together with its row (activate, grant).    *)
THEOREM NothingUnpaid == Spec => []NeverOvercredited
<1>1. CreditInv => NeverOvercredited
  BY DEF CreditInv, Within, Top, Paid, Sum, Rows, NeverOvercredited
<1>2. Init => TypeInv /\ CreditInv
  BY InitInv, InitCredit
<1>3. TypeInv /\ CreditInv /\ [Next]_vars => TypeInv' /\ CreditInv'
  BY StepInv, CreditStep
<1>. QED  BY <1>1, <1>2, <1>3, PTL DEF Spec

-----------------------------------------------------------------------------
(* Overtaken copies *)

(* What a request is about to do to the row it loaded: a reconcile has seen   *)
(* it lapse, and a credit has added to what was left of it.                   *)
Fresh(q) ==
    /\ q.op \in Ops \cup {"reconcile"}
    /\ q.pc = "commit" /\ q.op = "reconcile" => q.seen.until # Null /\ q.seen.until <= now
    /\ Crediting(q) /\ q.seen.is_pro /\ Ends(q.seen, q.moment) => q.seen.until <= q.expires
FreshInv == \A r \in Req : Fresh(req[r])

LEMMA InitFresh == Init => FreshInv
<1>1. Fresh(Idle)
  BY DEF Fresh, Crediting, Idle
<1>. QED  BY <1>1 DEF Init, FreshInv

LEMMA FreshStep == TypeInv /\ FreshInv /\ [Next]_vars => FreshInv'
<1>. SUFFICES ASSUME TypeInv, FreshInv, [Next]_vars, NEW r \in Req PROVE Fresh(req[r])'
  BY DEF FreshInv
<1>. DEFINE q == req[r]
<1>a. /\ req \in [Req -> Request] /\ now \in Nat /\ Fresh(q) /\ Sound(q) /\ q \in Request /\ q.seen \in User
      /\ q.seen.until # Null => q.seen.until \in Nat
      /\ user \in User /\ Null \notin Nat
  BY BillingAssumption DEF TypeInv, TypeOK, Threads, FreshInv, Time, Request, User
<1>n. now' \in Nat /\ now <= now'
  <2>1. now' = now \/ Tick
    BY DEF vars, Next, Pay, Ack, Begin, BeginActivate, BeginGrant, BeginOther, Load, Step, Reads, Abort, GiveUp,
           DecideActivate, DecideGrant, DecideRevoke, DecideReconcile, DecideSweep,
           CommitCredit, CommitRevoke, CommitReconcile, CommitSweep
  <2>. QED  BY <1>a, <2>1 DEF Tick
<1>1. ASSUME req'[r] = q
      PROVE  Fresh(req[r])'
  BY <1>1, <1>a, <1>n DEF Fresh, Crediting, Ends
<1>2. ASSUME Finish(r)
      PROVE  Fresh(req[r])'
  <2>1. req'[r] = Idle
    BY <1>2, <1>a DEF Finish
  <2>2. Idle.pc = "idle" /\ Idle.op = "reconcile"
    BY DEF Idle
  <2>. QED  BY <2>1, <2>2 DEF Fresh, Crediting
<1>3. ASSUME NEW op \in Ops, NEW i, Load(r, op, i)
      PROVE  Fresh(req[r])'
  <2>. DEFINE m == [Idle EXCEPT !.pc = "decide", !.op = op, !.id = i, !.seen = user]
  <2>1. req'[r] = m
    BY <1>3, <1>a DEF Load
  <2>2. m.pc = "decide" /\ m.op = op
    BY DEF Idle
  <2>. HIDE DEF m
  <2>. QED  BY <2>1, <2>2 DEF Fresh, Crediting
<1>4. CASE DecideActivate(r) \/ DecideGrant(r)
  <2>. DEFINE e == Expires(q)
              m == [q EXCEPT !.pc = "commit", !.moment = now, !.expires = e]
  <2>1. (Finish(r) \/ req'[r] = m) /\ q.op \in {"activate", "grant"}
    BY <1>4, <1>a DEF DecideActivate, DecideGrant, DecideCredit, WillCommit, At
  <2>2. Days[q.id] \in Nat
    BY <1>a, <2>1, BillingAssumption DEF Sound
  <2>3. q.seen.is_pro /\ Ends(q.seen, now) => q.seen.until <= e
    BY <1>a, <2>2 DEF Expires, Base, Ends
  <2>. HIDE DEF e
  <2>4. /\ m.op = q.op /\ m.seen = q.seen /\ m.moment = now /\ m.expires = e
    BY <1>a DEF Request
  <2>. HIDE DEF m
  <2>5. req'[r] = m => Fresh(req[r])'
    BY <1>a, <2>1, <2>3, <2>4 DEF Fresh, Crediting, Ends
  <2>. QED  BY <1>2, <2>1, <2>5
<1>5. CASE DecideRevoke(r)
  <2>. DEFINE m == [q EXCEPT !.pc = "commit", !.moment = now, !.rows = Active]
  <2>1. req'[r] = m /\ m.op = "revoke" /\ q.op = "revoke"
    BY <1>5, <1>a DEF DecideRevoke, WillCommit, At, Request
  <2>. HIDE DEF m
  <2>. QED  BY <1>a, <2>1 DEF Fresh, Crediting
<1>6. CASE DecideReconcile(r)
  <2>. DEFINE m == [q EXCEPT !.pc = "commit", !.rows = Active]
  <2>1. Finish(r) \/ (req'[r] = m /\ ~IsPro(q.seen, now) /\ q.seen.is_pro)
    BY <1>6, <1>a DEF DecideReconcile, Lapses, WillCommit
  <2>2. m.op = "reconcile" /\ m.seen = q.seen /\ q.op = "reconcile"
    BY <1>6, <1>a DEF DecideReconcile, At, Request
  <2>3. ~IsPro(q.seen, now) /\ q.seen.is_pro => q.seen.until # Null /\ q.seen.until <= now
    BY <1>a DEF IsPro
  <2>. HIDE DEF m
  <2>4. q.seen.until # Null /\ q.seen.until <= now => q.seen.until <= now'
    BY <1>a, <1>n
  <2>. QED  BY <1>2, <1>a, <2>1, <2>2, <2>3, <2>4 DEF Fresh, Crediting
<1>7. CASE DecideSweep(r)
  <2>. DEFINE lapsed == {i \in Active : subs[i].expires < now}
              other  == \E i \in Active \ lapsed : subs[i].expires > now
              m == [q EXCEPT !.pc = "commit", !.rows = lapsed, !.seen = user, !.keep = other]
  <2>1. Finish(r) \/ req'[r] = m
    BY <1>7, <1>a DEF DecideSweep, WillCommit
  <2>. HIDE DEF lapsed, other
  <2>2. m.op = "sweep" /\ q.op = "sweep"
    BY <1>7, <1>a DEF DecideSweep, At, Request
  <2>. HIDE DEF m
  <2>. QED  BY <1>2, <1>a, <2>1, <2>2 DEF Fresh, Crediting
<1>8. CASE GiveUp(r)
  <2>. DEFINE m == [q EXCEPT !.heard = FALSE]
  <2>1. req'[r] = m /\ q.op = "activate"
    BY <1>8, <1>a DEF GiveUp
  <2>2. /\ m.pc = q.pc /\ m.op = q.op /\ m.seen = q.seen /\ m.expires = q.expires /\ m.moment = q.moment
    BY <1>a DEF Request
  <2>. HIDE DEF m
  <2>. QED  BY <1>a, <2>1, <2>2 DEF Fresh, Crediting, Ends
<1>9. CASE CommitCredit(r) \/ CommitRevoke(r) \/ CommitReconcile(r) \/ CommitSweep(r) \/ Abort(r)
  BY <1>9, <1>2 DEF CommitCredit, CommitRevoke, CommitReconcile, CommitSweep, Abort
<1>10. CASE Step(r) \/ Abort(r) \/ GiveUp(r)
  BY <1>4, <1>5, <1>6, <1>7, <1>8, <1>9, <1>10 DEF Step
<1>11. CASE Begin(r)
  <2>1. PICK op, i : Load(r, op, i)
    BY <1>11 DEF Begin, BeginActivate, BeginGrant, BeginOther
  <2>. QED  BY <1>3, <2>1 DEF Load
<1>12. ASSUME NEW s \in Req, s # r, Begin(s) \/ Step(s) \/ Abort(s) \/ GiveUp(s)
       PROVE  req'[r] = req[r]
  BY <1>12, <1>a DEF Begin, BeginActivate, BeginGrant, BeginOther, Load, Step, Abort, GiveUp, Finish,
         DecideActivate, DecideGrant, DecideCredit, DecideRevoke, DecideReconcile, DecideSweep,
         WillCommit, CommitCredit, CommitRevoke, CommitReconcile, CommitSweep
<1>13. CASE Tick \/ (\E c \in Charge : Pay(c) \/ Ack(c)) \/ UNCHANGED vars
  BY <1>1, <1>13 DEF Tick, Pay, Ack, vars
<1>. QED  BY <1>1, <1>10, <1>11, <1>12, <1>13 DEF Next

(* Time that is left is taken from an account by a revoke alone, or by a      *)
(* request that holds an older copy of the row: for any overlap of requests   *)
(* of a deployment that runs no sweep, as this one does                       *)
(* (activate_subscription, reconcile_user, grant, revoke).                    *)
THEOREM OvertakenTakeTime == ASSUME "sweep" \notin Ops PROVE Spec => OnlyOvertakenTakeTime
<1>. DEFINE Good == TakesTime => \E r \in Req : \/ CommitRevoke(r)
                                                \/ req[r].seen # user /\ CommitCredit(r)
                                                \/ req[r].seen # user /\ CommitReconcile(r)
<1>1. ASSUME "sweep" \notin Ops
      PROVE  TypeInv /\ FreshInv /\ [Next]_vars => [Good]_vars
  <2>. SUFFICES ASSUME TypeInv, FreshInv, [Next]_vars, TakesTime
                PROVE  \E r \in Req : \/ CommitRevoke(r)
                                      \/ req[r].seen # user /\ CommitCredit(r)
                                      \/ req[r].seen # user /\ CommitReconcile(r)
    OBVIOUS
  <2>a. /\ now \in Nat /\ user \in User /\ user.until \in Nat /\ user.is_pro /\ user.until > now
        /\ user' # user
    BY DEF TypeInv, TypeOK, Time, User, TakesTime
  <2>1. PICK r \in Req : CommitCredit(r) \/ CommitRevoke(r) \/ CommitReconcile(r) \/ CommitSweep(r)
    BY <2>a, WhoWrites
  <2>. DEFINE q == req[r]
  <2>b. Fresh(q) /\ Sound(q) /\ q \in Request /\ q.moment \in Nat /\ q.moment <= now /\ q.expires \in Nat
    BY DEF FreshInv, TypeInv, Threads, Sound, Request, Time
  <2>2. ~CommitSweep(r)
    BY <1>1, <2>b DEF CommitSweep, At, Fresh
  <2>3. ASSUME CommitReconcile(r), q.seen = user
        PROVE  FALSE
    BY <2>3, <2>a, <2>b DEF CommitReconcile, At, Fresh
  <2>4. ASSUME CommitCredit(r), q.seen = user
        PROVE  FALSE
    <3>1. user' = [is_pro |-> FlagWritten(user.is_pro, TRUE), until |-> q.expires] /\ Crediting(q)
      BY <2>4, <2>a DEF CommitCredit, Crediting
    <3>2. FlagWritten(user.is_pro, TRUE) = TRUE
      BY <2>a DEF FlagWritten, User
    <3>3. Ends(user, q.moment)
      BY <2>a, <2>b, BillingAssumption DEF Ends
    <3>4. user.until <= q.expires
      BY <2>4, <2>a, <2>b, <3>1, <3>3 DEF Fresh
    <3>5. user'.is_pro /\ user'.until = q.expires
      BY <3>1, <3>2
    <3>. QED  BY <2>a, <2>b, <3>4, <3>5 DEF TakesTime
  <2>. QED  BY <2>1, <2>2, <2>3, <2>4
<1>2. Init => TypeInv /\ FreshInv
  BY InitInv, InitFresh
<1>3. TypeInv /\ FreshInv /\ [Next]_vars => TypeInv' /\ FreshInv'
  BY StepInv, FreshStep
<1>. QED  BY <1>1, <1>2, <1>3, PTL DEF Spec, OnlyOvertakenTakeTime

-----------------------------------------------------------------------------
(* Requests that do not overlap *)

OneAtATime == \A r, s \in Req : r = s

(* The copy a request holds is the row.  PRO time that is left is flagged and *)
(* is that of an active row, and a request that is about to take the flag     *)
(* away has seen the time run out.                                            *)
Backed == Ends(user, now) => user.is_pro /\ \E i \in Active : subs[i].expires = user.until
Dated == \A i \in Id : Exists(i) => user.until # Null
Planned(q) ==
    /\ q.op = "grant" => q.id \in Grant
    /\ q.pc # "idle" => q.seen = user
    /\ Crediting(q) => /\ Days[q.id] > 0
                       /\ q.expires = Base(q.op, q.seen, q.moment) + Days[q.id]
                       /\ Ends(user, q.moment) => user.is_pro
    /\ q.pc = "commit" /\ q.op = "reconcile" => user.is_pro /\ user.until # Null /\ user.until <= now
    /\ q.pc = "commit" /\ q.op = "sweep" => /\ \A i \in q.rows : subs[i].expires < now
                                            /\ user.until # Null
                                            /\ q.keep \/ ~Ends(user, now)
SerialInv == Backed /\ Dated /\ \A r \in Req : Planned(req[r])

LEMMA InitSerial == Init => SerialInv
<1>. SUFFICES ASSUME Init PROVE SerialInv
  OBVIOUS
<1>1. user.until = Null /\ \A r \in Req : req[r] = Idle
  BY DEF Init, Free, Legacy
<1>2. Backed
  BY <1>1 DEF Backed, Ends
<1>3. Planned(Idle)
  BY DEF Planned, Crediting, Idle
<1>4. Dated
  BY DEF Init, Dated, Exists, NoSub
<1>. QED  BY <1>1, <1>2, <1>3, <1>4 DEF SerialInv

(* The one request is the one that moves. *)
LEMMA Alone ==
    ASSUME OneAtATime, TypeInv, NEW r \in Req, NEW m, req' = [req EXCEPT ![r] = m]
    PROVE  \A s \in Req : req'[s] = m
BY DEF OneAtATime, TypeInv, TypeOK

(* A request that ends leaves nothing planned. *)
LEMMA NothingPlanned ==
    ASSUME OneAtATime, TypeInv, NEW r \in Req, Finish(r)
    PROVE  \A s \in Req : Planned(req[s])'
<1>1. \A s \in Req : req'[s] = Idle
  BY Alone DEF Finish
<1>2. Idle.pc = "idle" /\ Idle.op = "reconcile"
  BY DEF Idle
<1>. QED  BY <1>1, <1>2 DEF Planned, Crediting

LEMMA SerialStep == OneAtATime /\ TypeInv /\ SerialInv /\ [Next]_vars => SerialInv'
<1>. SUFFICES ASSUME OneAtATime, TypeInv, SerialInv, [Next]_vars PROVE SerialInv'
  OBVIOUS
<1>a. TypeOK /\ Threads /\ TypeInv' /\ Backed /\ Dated /\ \A r \in Req : Planned(req[r])
  BY StepInv DEF TypeInv, SerialInv
<1>b. /\ now \in Nat /\ user \in User /\ subs \in [Id -> Sub]
      /\ user.until # Null => user.until \in Nat
      /\ \A i \in Id : subs[i].expires \in Nat
      /\ Null \notin Nat
  BY <1>a, BillingAssumption DEF TypeOK, Time, User, Sub
<1>c. ASSUME UNCHANGED <<now, user, subs>>
      PROVE  Backed' /\ Dated'
  BY <1>a, <1>c DEF Backed, Ends, Active, Dated, Exists
<1>1. CASE Tick
  <2>1. now' = now + 1 /\ UNCHANGED <<user, subs, req>>
    BY <1>1 DEF Tick
  <2>2. Ends(user, now') => Ends(user, now)
    BY <1>b, <2>1 DEF Ends
  <2>3. Backed' /\ Dated'
    BY <1>a, <2>1, <2>2 DEF Backed, Ends, Active, Dated, Exists
  <2>4. ASSUME NEW r \in Req
        PROVE  Planned(req[r])'
    <3>1. req[r].rows \subseteq Id
      BY <1>a DEF Threads, Sound, Request
    <3>2. \A i \in req[r].rows : subs[i].expires < now => subs[i].expires < now'
      BY <1>b, <2>1, <3>1
    <3>3. user.until # Null /\ user.until <= now => user.until <= now'
      BY <1>b, <2>1
    <3>4. Planned(req[r])
      BY <1>a
    <3>. QED  BY <2>1, <2>2, <3>2, <3>3, <3>4 DEF Planned, Crediting, Ends
  <2>. QED  BY <2>3, <2>4 DEF SerialInv
<1>2. CASE (\E c \in Charge : Pay(c) \/ Ack(c)) \/ UNCHANGED vars
  <2>1. UNCHANGED <<now, user, subs, req>>
    BY <1>2 DEF Pay, Ack, vars
  <2>2. \A r \in Req : Planned(req[r])'
    BY <1>a, <2>1 DEF Planned, Crediting, Ends
  <2>. QED  BY <1>c, <2>1, <2>2 DEF SerialInv
<1>3. ASSUME NEW r \in Req, Begin(r)
      PROVE  SerialInv'
  <2>1. PICK op, i : Load(r, op, i) /\ (op = "grant" => i \in Grant)
    BY <1>3 DEF Begin, BeginActivate, BeginGrant, BeginOther
  <2>. DEFINE m == [Idle EXCEPT !.pc = "decide", !.op = op, !.id = i, !.seen = user]
  <2>2. \A s \in Req : req'[s] = m
    BY <2>1, Alone DEF Load
  <2>3. m.pc = "decide" /\ m.seen = user /\ m.op = op /\ m.id = i
    BY DEF Idle
  <2>. HIDE DEF m
  <2>4. \A s \in Req : Planned(req[s])'
    BY <2>1, <2>2, <2>3 DEF Planned, Crediting, Load
  <2>. QED  BY <1>c, <2>1, <2>4 DEF SerialInv, Load
<1>4. ASSUME NEW r \in Req, Step(r) \/ Abort(r)
      PROVE  SerialInv'
  <2>. DEFINE q == req[r]
  <2>a. /\ q \in Request /\ q.moment \in Nat /\ q.moment <= now /\ q.expires \in Nat
        /\ q.op \in {"activate", "grant"} => q.id \in Id
        /\ Planned(q)
    BY <1>a DEF Threads, Sound, Request, Time
  <2>0. Finish(r) /\ Backed' /\ Dated' => SerialInv'
    BY NothingPlanned DEF SerialInv
  <2>d. user'.until # Null => Dated'
    BY DEF Dated
  <2>1. ASSUME Finish(r), Reads
        PROVE  SerialInv'
    BY <1>c, <2>1, NothingPlanned DEF SerialInv, Reads
  <2>2. ASSUME NEW m, WillCommit(r, m), Reads, m.seen = user,
               m.op = "grant" => m.id \in Grant,
               /\ Crediting(m) => /\ Days[m.id] > 0
                                  /\ m.expires = Base(m.op, m.seen, m.moment) + Days[m.id]
                                  /\ Ends(user, m.moment) => user.is_pro
               /\ m.op = "reconcile" => user.is_pro /\ user.until # Null /\ user.until <= now
               /\ m.op = "sweep" => /\ \A i \in m.rows : subs[i].expires < now
                                    /\ user.until # Null
                                    /\ m.keep \/ ~Ends(user, now)
        PROVE  SerialInv'
    <3>1. \A s \in Req : req'[s] = m
      BY <2>2, Alone DEF WillCommit
    <3>2. UNCHANGED <<now, user, subs>>
      BY <2>2 DEF Reads
    <3>3. \A s \in Req : Planned(req[s])'
      BY <2>2, <3>1, <3>2 DEF Planned, Crediting, Ends
    <3>. QED  BY <1>c, <3>2, <3>3 DEF SerialInv
  <2>3. CASE DecideActivate(r) \/ DecideGrant(r)
    <3>. DEFINE e == Expires(q)
                m == [q EXCEPT !.pc = "commit", !.moment = now, !.expires = e]
    <3>1. (Finish(r) \/ (WillCommit(r, m) /\ Days[q.id] > 0)) /\ Reads
      <4>1. CASE DecideActivate(r)
        <5>1. q.id \in Id /\ Days[q.id] \in Nat
          BY <2>a, <4>1, BillingAssumption DEF DecideActivate, At
        <5>. QED  BY <4>1, <5>1 DEF DecideActivate, DecideCredit
      <4>2. CASE DecideGrant(r)
        <5>1. q.id \in Grant
          BY <2>a, <4>2 DEF DecideGrant, At, Planned
        <5>. QED  BY <4>2, <5>1, BillingAssumption DEF DecideGrant, DecideCredit
      <4>. QED  BY <2>3, <4>1, <4>2
    <3>2. /\ q.pc = "decide" /\ q.op \in {"activate", "grant"} /\ q.seen = user
          /\ q.op = "grant" => q.id \in Grant
      BY <2>a, <2>3 DEF DecideActivate, DecideGrant, At, Planned
    <3>3. e = Base(q.op, user, now) + Days[q.id]
      BY <3>2 DEF Expires
    <3>. HIDE DEF e
    <3>4. /\ m.op = q.op /\ m.seen = user /\ m.moment = now /\ m.id = q.id /\ m.expires = e
          /\ m.op \in {"activate", "grant"}
      BY <2>a, <3>2 DEF Request
    <3>. HIDE DEF m
    <3>5. Ends(user, now) => user.is_pro
      BY <1>a DEF Backed
    <3>. QED  BY <2>1, <2>2, <3>1, <3>2, <3>3, <3>4, <3>5
  <2>4. CASE DecideRevoke(r)
    <3>. DEFINE m == [q EXCEPT !.pc = "commit", !.moment = now, !.rows = Active]
    <3>1. WillCommit(r, m) /\ Reads /\ q.op = "revoke" /\ q.seen = user
      BY <2>a, <2>4 DEF DecideRevoke, At, Planned
    <3>2. m.op = "revoke" /\ m.seen = user
      BY <2>a, <3>1 DEF Request
    <3>. HIDE DEF m
    <3>. QED  BY <2>2, <3>1, <3>2 DEF Crediting
  <2>5. CASE DecideReconcile(r)
    <3>. DEFINE m == [q EXCEPT !.pc = "commit", !.rows = Active]
    <3>1. Reads /\ q.op = "reconcile" /\ q.seen = user
      BY <2>a, <2>5 DEF DecideReconcile, At, Planned
    <3>2. Finish(r) \/ (WillCommit(r, m) /\ user.is_pro /\ ~IsPro(user, now))
      BY <2>5, <3>1 DEF DecideReconcile, Lapses
    <3>3. user.is_pro /\ ~IsPro(user, now) => user.until # Null /\ ~(user.until > now)
      BY DEF IsPro
    <3>4. ~(user.until > now) /\ user.until # Null => user.until <= now
      BY <1>b
    <3>5. m.op = "reconcile" /\ m.seen = user
      BY <2>a, <3>1 DEF Request
    <3>. HIDE DEF m
    <3>. QED  BY <2>1, <2>2, <3>1, <3>2, <3>3, <3>4, <3>5 DEF Crediting
  <2>6. CASE DecideSweep(r)
    <3>. DEFINE lapsed == {i \in Active : subs[i].expires < now}
                other  == \E i \in Active \ lapsed : subs[i].expires > now
                m == [q EXCEPT !.pc = "commit", !.rows = lapsed, !.seen = user, !.keep = other]
    <3>1. Reads /\ q.op = "sweep" /\ (Finish(r) \/ (WillCommit(r, m) /\ lapsed # {}))
      BY <2>6 DEF DecideSweep, At
    <3>2. Ends(user, now) => other
      <4>1. SUFFICES ASSUME Ends(user, now) PROVE other
        OBVIOUS
      <4>2. PICK i \in Active : subs[i].expires = user.until
        BY <1>a, <4>1 DEF Backed
      <4>3. subs[i].expires > now /\ ~(subs[i].expires < now)
        BY <1>b, <4>1, <4>2 DEF Ends
      <4>. QED  BY <4>3
    <3>3. /\ \A i \in lapsed : subs[i].expires < now
          /\ lapsed # {} => user.until # Null
      BY <1>a DEF Dated, Active, Exists
    <3>. HIDE DEF lapsed, other
    <3>4. m.op = "sweep" /\ m.seen = user /\ m.rows = lapsed /\ m.keep = other
      BY <2>a, <3>1 DEF Request
    <3>. HIDE DEF m
    <3>. QED  BY <2>1, <2>2, <3>1, <3>2, <3>3, <3>4 DEF Crediting
  <2>7. CASE CommitCredit(r)
    <3>1. Finish(r) /\ now' = now
      BY <2>7 DEF CommitCredit
    <3>2. CASE Taken(q.id)
      BY <1>c, <2>0, <2>7, <1>a, <3>1, <3>2 DEF CommitCredit
    <3>3. CASE ~Taken(q.id)
      <4>1. Crediting(q) /\ q.id \in Id /\ q.seen = user
        BY <2>7, <2>a DEF CommitCredit, Crediting, Planned
      <4>2. subs'[q.id].status = "active" /\ subs'[q.id].expires = q.expires
        BY <1>b, <2>7, <3>3, <4>1 DEF CommitCredit
      <4>3. user' = [is_pro |-> FlagWritten(user.is_pro, TRUE), until |-> q.expires]
        BY <2>7, <3>3, <4>1 DEF CommitCredit
      <4>4. FlagWritten(user.is_pro, TRUE) = TRUE
        BY <1>b DEF FlagWritten, User
      <4>5. user'.is_pro /\ user'.until = q.expires /\ q.id \in Active'
        BY <4>1, <4>2, <4>3, <4>4 DEF Active
      <4>6. Backed'
        BY <4>2, <4>5 DEF Backed
      <4>7. Dated'
        BY <1>b, <2>a, <2>d, <4>5
      <4>. QED  BY <2>0, <3>1, <4>6, <4>7
    <3>. QED  BY <3>2, <3>3
  <2>8. CASE CommitRevoke(r)
    <3>1. user'.until = q.moment /\ now' = now /\ Finish(r)
      BY <2>8 DEF CommitRevoke, RevokedUser
    <3>2. ~Ends(user', now')
      BY <1>b, <2>a, <3>1 DEF Ends
    <3>. QED  BY <1>b, <2>0, <2>a, <2>d, <3>1, <3>2 DEF Backed
  <2>9. CASE CommitReconcile(r)
    <3>1. user'.until = user.until /\ now' = now /\ Finish(r) /\ user.until <= now /\ user.until # Null
      BY <1>b, <2>9, <2>a DEF CommitReconcile, User, At, Planned
    <3>2. ~Ends(user', now')
      BY <1>b, <3>1 DEF Ends
    <3>. QED  BY <2>0, <2>d, <3>1, <3>2 DEF Backed
  <2>10. CASE CommitSweep(r)
    <3>1. user'.until = user.until /\ now' = now /\ Finish(r)
      BY <1>b, <2>10 DEF CommitSweep, User
    <3>2. (\A i \in q.rows : subs[i].expires < now) /\ user.until # Null /\ (q.keep \/ ~Ends(user, now)) /\ q.keep \in BOOLEAN
      BY <2>10, <2>a DEF CommitSweep, At, Planned, Request
    <3>3. CASE ~Ends(user, now)
      <4>1. ~Ends(user', now')
        BY <3>1, <3>3 DEF Ends
      <4>. QED  BY <2>0, <2>d, <3>1, <3>2, <4>1 DEF Backed
    <3>4. CASE Ends(user, now)
      <4>1. user.is_pro
        BY <1>a, <3>4 DEF Backed
      <4>2. PICK i \in Active : subs[i].expires = user.until
        BY <1>a, <3>4 DEF Backed
      <4>3. user'.is_pro
        BY <1>b, <2>10, <3>2, <3>4, <4>1 DEF CommitSweep, User
      <4>4. i \in Id /\ i \notin q.rows
        BY <1>b, <3>2, <3>4, <4>2 DEF Ends, Active
      <4>5. subs'[i] = subs[i]
        BY <2>10, <4>4 DEF CommitSweep, Expired
      <4>6. i \in Active' /\ subs'[i].expires = user'.until
        BY <3>1, <4>2, <4>4, <4>5 DEF Active
      <4>. QED  BY <2>0, <2>d, <3>1, <3>2, <4>3, <4>6 DEF Backed
    <3>. QED  BY <3>3, <3>4
  <2>11. CASE Abort(r)
    BY <2>1, <2>11 DEF Abort
  <2>. QED  BY <1>4, <2>3, <2>4, <2>5, <2>6, <2>7, <2>8, <2>9, <2>10, <2>11 DEF Step
<1>5. ASSUME NEW r \in Req, GiveUp(r)
      PROVE  SerialInv'
  <2>. DEFINE q == req[r]
              m == [q EXCEPT !.heard = FALSE]
  <2>1. q \in Request /\ Planned(q)
    BY <1>a DEF Threads
  <2>2. (\A s \in Req : req'[s] = m) /\ UNCHANGED <<now, user, subs>>
    BY <1>5, Alone DEF GiveUp, Reads
  <2>3. /\ m.pc = q.pc /\ m.op = q.op /\ m.id = q.id /\ m.seen = q.seen /\ m.expires = q.expires
        /\ m.moment = q.moment /\ m.rows = q.rows /\ m.keep = q.keep
    BY <2>1 DEF Request
  <2>. HIDE DEF m
  <2>4. \A s \in Req : Planned(req[s])'
    BY <2>1, <2>2, <2>3 DEF Planned, Crediting, Ends
  <2>. QED  BY <1>c, <2>2, <2>4 DEF SerialInv
<1>. QED  BY <1>1, <1>2, <1>3, <1>4, <1>5 DEF Next

LEMMA AlwaysSerial == ASSUME OneAtATime PROVE Spec => [](TypeInv /\ SerialInv)
<1>1. Init => TypeInv /\ SerialInv
  BY InitInv, InitSerial
<1>2. TypeInv /\ SerialInv /\ [Next]_vars => TypeInv' /\ SerialInv'
  BY StepInv, SerialStep
<1>. QED  BY <1>1, <1>2, PTL DEF Spec

(* What a credit commits, when it was alone: its days are added to what is    *)
(* left of PRO that is flagged, or to a moment that is not in the future.     *)
LEMMA CreditAlone ==
    ASSUME TypeInv, SerialInv, NEW r \in Req, CommitCredit(r), ~Taken(req[r].id)
    PROVE  /\ req[r].id \in Id /\ Days[req[r].id] \in Nat /\ Days[req[r].id] > 0
           /\ user'.is_pro
           /\ user'.until = Days[req[r].id] + IF Ends(user, req[r].moment) THEN user.until
                                                                         ELSE req[r].moment
           /\ req[r].moment \in 0..now
           /\ Ends(user, now) => user.is_pro /\ Ends(user, req[r].moment)
           /\ {i \in Id : Exists(i)}' = {i \in Id : Exists(i)} \cup {req[r].id}
<1>. DEFINE q == req[r]
<1>a. /\ q \in Request /\ q.moment \in Nat /\ q.moment <= now /\ now \in Nat
      /\ q.id \in Id /\ Crediting(q) /\ Planned(q) /\ Backed
      /\ user \in User
      /\ user.until # Null => user.until \in Nat
      /\ subs \in [Id -> Sub] /\ Null \notin Nat
  BY BillingAssumption DEF TypeInv, TypeOK, Threads, Sound, Request, Time, SerialInv,
                           CommitCredit, Crediting, User
<1>1. Days[q.id] \in Nat /\ Days[q.id] > 0 /\ q.seen = user
  BY <1>a, BillingAssumption DEF Planned, Crediting
<1>2. user' = [is_pro |-> FlagWritten(user.is_pro, TRUE), until |-> q.expires]
  BY <1>1 DEF CommitCredit
<1>3. FlagWritten(user.is_pro, TRUE) = TRUE
  BY <1>a DEF FlagWritten, User
<1>4. q.moment \in 0..now
  BY <1>a
<1>5. Ends(user, now) => user.is_pro /\ Ends(user, q.moment)
  <2>0. /\ q.moment \in Nat /\ q.moment <= now /\ now \in Nat
        /\ user.until # Null => user.until \in Nat
    BY <1>a
  <2>1. Ends(user, now) => Ends(user, q.moment)
    BY <2>0 DEF Ends
  <2>. QED  BY <1>a, <2>1 DEF Backed
<1>6. q.expires = Days[q.id] + IF Ends(user, q.moment) THEN user.until ELSE q.moment
  <2>1. q.expires = Base(q.op, user, q.moment) + Days[q.id]
    BY <1>a, <1>1 DEF Planned
  <2>2. Ends(user, q.moment) => q.op = "activate" \/ user.is_pro
    BY <1>a DEF Planned
  <2>3. Base(q.op, user, q.moment) = IF Ends(user, q.moment) THEN user.until ELSE q.moment
    BY <2>2 DEF Base, Ends
  <2>4. \A a, b \in Nat : a + b = b + a
    OBVIOUS
  <2>5. (IF Ends(user, q.moment) THEN user.until ELSE q.moment) \in Nat
    BY <1>a DEF Ends
  <2>6. Days[q.id] \in Nat
    BY <1>1
  <2>. QED  BY <2>1, <2>3, <2>4, <2>5, <2>6
<1>7. {i \in Id : Exists(i)}' = {i \in Id : Exists(i)} \cup {q.id}
  BY <1>a DEF CommitCredit, Exists
<1>. QED  BY <1>1, <1>2, <1>3, <1>4, <1>5, <1>6, <1>7, <1>a

(* Buying before expiry never loses paid days, of an account whose requests   *)
(* do not overlap (activate_subscription); those that do may lose them.       *)
THEOREM PaidDaysStay == ASSUME OneAtATime PROVE Spec => PaidDaysKept
<1>. DEFINE Keep == \A r \in Req : CommitCredit(r) /\ req[r].op = "activate" /\ ~Exists(req[r].id)
                                   /\ user.until # Null /\ user.until > now
                                   => user'.until = user.until + Days[req[r].id]
<1>1. TypeInv /\ SerialInv => [Keep]_vars
  <2>. SUFFICES ASSUME TypeInv, SerialInv, NEW r \in Req, CommitCredit(r), ~Exists(req[r].id),
                       user.until # Null, user.until > now
                PROVE  user'.until = user.until + Days[req[r].id]
    OBVIOUS
  <2>1. user'.until = Days[req[r].id] + user.until /\ Days[req[r].id] \in Nat
    BY CreditAlone DEF Taken, Ends
  <2>2. user.until \in Nat
    BY DEF TypeInv, TypeOK, User, Time
  <2>. QED  BY <2>1, <2>2
<1>. QED  BY <1>1, AlwaysSerial, PTL DEF PaidDaysKept

-----------------------------------------------------------------------------
(* The promise *)

(* The change in hand is that of the one request. *)
LEMMA DueIs ==
    ASSUME OneAtATime, NEW r \in Req
    PROVE  Due = IF Changing(req[r]) THEN ChangeOf(req[r]) ELSE NoChange
<1>. DEFINE busy == {s \in Req : Changing(req[s])}
<1>1. \A s \in Req : s = r
  BY DEF OneAtATime
<1>2. CASE Changing(req[r])
  <2>1. busy = {r}
    BY <1>1, <1>2
  <2>2. (CHOOSE s \in busy : TRUE) = r
    BY <2>1
  <2>. QED  BY <1>2, <2>1, <2>2 DEF Due
<1>3. CASE ~Changing(req[r])
  <2>1. busy = {}
    BY <1>1, <1>3
  <2>. QED  BY <1>3, <2>1 DEF Due
<1>. QED  BY <1>2, <1>3

LEMMA DueWillBe ==
    ASSUME OneAtATime, NEW r \in Req, NEW m, req'[r] = m
    PROVE  Due' = IF Changing(m) THEN ChangeOf(m) ELSE NoChange
<1>. DEFINE busy == {s \in Req : Changing(req'[s])}
<1>1. \A s \in Req : s = r
  BY DEF OneAtATime
<1>0. Due' = IF busy = {} THEN NoChange ELSE ChangeOf(req'[CHOOSE s \in busy : TRUE])
  BY DEF Due, Changing, ChangeOf, NoChange
<1>2. CASE Changing(m)
  <2>1. busy = {r}
    BY <1>1, <1>2
  <2>2. (CHOOSE s \in busy : TRUE) = r
    BY <2>1
  <2>. QED  BY <1>0, <1>2, <2>1, <2>2
<1>3. CASE ~Changing(m)
  <2>1. busy = {}
    BY <1>1, <1>3
  <2>. QED  BY <1>0, <1>3, <2>1
<1>. QED  BY <1>2, <1>3

(* A new account is one that was promised nothing, or PRO for ever. *)
LEMMA PromiseInit == Init => Promise!Init
<1>. SUFFICES ASSUME Init PROVE Promise!Init
  OBVIOUS
<1>1. \A r \in Req : ~Changing(req[r])
  BY DEF Init, Idle, Changing
<1>2. Due = NoChange
  BY <1>1 DEF Due
<1>3. Due = Promise!Nothing
  BY <1>2 DEF NoChange, Promise!Nothing, Promise!Change
<1>. QED  BY <1>3 DEF Init, Promise!Init, ProUntil, Forever, Free, Legacy, Exists, NoSub

(* A request that decides on a change takes it in hand, one that commits it   *)
(* makes it as it was decided, one that dies drops it; an end that has passed *)
(* is the same whether or not the flag was lowered.                           *)
LEMMA PromiseStep ==
    OneAtATime /\ TypeInv /\ CreditInv /\ SerialInv /\ SerialInv' /\ [Next]_vars
        => [Promise!Next]_(Promise!vars)
<1>. SUFFICES ASSUME OneAtATime, TypeInv, CreditInv, SerialInv, SerialInv', [Next]_vars
              PROVE  [Promise!Next]_(Promise!vars)
  OBVIOUS
<1>. DEFINE rows == {i \in Id : Exists(i)}
<1>a. /\ now \in Nat /\ user \in User /\ subs \in [Id -> Sub] /\ Null \notin Nat
      /\ Backed /\ Backed' /\ Dated /\ user' \in User /\ req \in [Req -> Request]
      /\ \A r \in Req : Sound(req[r]) /\ Planned(req[r])
  BY StepInv, BillingAssumption DEF TypeInv, TypeOK, Time, Threads, SerialInv
<1>b. user.until # Null => user.until \in Nat
  BY <1>a DEF User, Time
<1>1. ASSUME UNCHANGED <<now, user, subs>>
      PROVE  UNCHANGED <<now, ProUntil, rows>>
  BY <1>1 DEF ProUntil, Exists
<1>n. Promise!Nothing = NoChange
  BY DEF Promise!Nothing, Promise!Change, NoChange
<1>2. CASE Tick
  <2>1. rows' = rows /\ Due' = Due
    BY <1>2 DEF Tick, Exists, Due
  <2>2. ProUntil' = ProUntil
    <3>1. user' = user
      BY <1>2 DEF Tick
    <3>2. CASE user.is_pro \/ user.until = Null
      BY <3>1, <3>2 DEF ProUntil
    <3>3. CASE ~user.is_pro /\ user.until # Null
      <4>1. ~Ends(user, now) /\ ~Ends(user', now')
        BY <1>a, <3>1, <3>3 DEF Backed
      <4>. QED  BY <3>1, <3>3, <4>1 DEF ProUntil, Ends
    <3>. QED  BY <3>2, <3>3
  <2>. QED  BY <1>2, <2>1, <2>2 DEF Tick, Promise!Next, Promise!Tick
<1>3. CASE (\E c \in Charge : Pay(c) \/ Ack(c)) \/ UNCHANGED vars
  <2>1. UNCHANGED <<now, user, subs, req>>
    BY <1>3 DEF Pay, Ack, vars
  <2>. QED  BY <1>1, <2>1 DEF Promise!vars, Due
<1>4. ASSUME NEW r \in Req, Begin(r) \/ Step(r) \/ Abort(r) \/ GiveUp(r)
      PROVE  [Promise!Next]_(Promise!vars)
  <2>. DEFINE q == req[r]
  <2>a. /\ q \in Request /\ Sound(q) /\ Planned(q) /\ q.moment \in Nat /\ q.moment <= now
        /\ Due = IF Changing(q) THEN ChangeOf(q) ELSE NoChange
    BY <1>a, DueIs DEF Sound, Request, Time
  <2>i. Finish(r) => Due' = NoChange
    <3>1. ~Changing(Idle)
      BY DEF Changing, Idle
    <3>2. Finish(r) => req'[r] = Idle
      BY <1>a DEF Finish
    <3>. QED  BY <3>1, <3>2, DueWillBe
  <2>s. ASSUME UNCHANGED <<now, ProUntil, rows>>, Due' = Due
        PROVE  UNCHANGED Promise!vars
    BY <2>s DEF Promise!vars
  <2>d. ASSUME UNCHANGED <<now, ProUntil, rows>>, Finish(r)
        PROVE  [Promise!Next]_(Promise!vars)
    <3>1. CASE Due = NoChange
      BY <2>d, <2>i, <2>s, <3>1
    <3>2. CASE Due # NoChange
      <4>1. Promise!Drop
        BY <1>n, <2>d, <2>i, <3>2 DEF Promise!Drop
      <4>. QED  BY <4>1 DEF Promise!Next
    <3>. QED  BY <3>1, <3>2
  <2>1. CASE Begin(r)
    <3>1. PICK op, i : Load(r, op, i)
      BY <2>1 DEF Begin, BeginActivate, BeginGrant, BeginOther
    <3>. DEFINE m == [Idle EXCEPT !.pc = "decide", !.op = op, !.id = i, !.seen = user]
    <3>2. req'[r] = m /\ m.pc = "decide" /\ q.pc = "idle"
      BY <3>1, <1>a DEF Load, Idle
    <3>. HIDE DEF m
    <3>3. Due' = NoChange /\ Due = NoChange
      BY <2>a, <3>2, DueWillBe DEF Changing
    <3>. QED  BY <1>1, <2>s, <3>1, <3>3 DEF Load
  <2>2. CASE DecideActivate(r) \/ DecideGrant(r)
    <3>. DEFINE e == Expires(q)
                m == [q EXCEPT !.pc = "commit", !.moment = now, !.expires = e]
    <3>1. (Finish(r) \/ (req'[r] = m /\ Days[q.id] > 0)) /\ Reads /\ q.pc = "decide" /\ q.id \in Id
      <4>1. CASE DecideActivate(r)
        <5>1. q.id \in Id /\ Days[q.id] \in Nat
          BY <2>a, <4>1, BillingAssumption DEF DecideActivate, At, Sound
        <5>. QED  BY <1>a, <4>1, <5>1 DEF DecideActivate, DecideCredit, WillCommit, At
      <4>2. CASE DecideGrant(r)
        <5>1. q.id \in Grant
          BY <2>a, <4>2 DEF DecideGrant, At, Planned
        <5>. QED  BY <1>a, <4>2, <5>1, BillingAssumption DEF DecideGrant, DecideCredit, WillCommit, At, Id
      <4>. QED  BY <2>2, <4>1, <4>2
    <3>2. q.op \in {"activate", "grant"}
      BY <2>2 DEF DecideActivate, DecideGrant, At
    <3>. HIDE DEF e
    <3>3. m.op = q.op /\ m.moment = now /\ m.id = q.id /\ m.pc = "commit"
      BY <2>a DEF Request
    <3>. HIDE DEF m
    <3>4. UNCHANGED <<now, ProUntil, rows>>
      BY <1>1, <3>1 DEF Reads
    <3>5. CASE req'[r] = m /\ Days[q.id] > 0
      <4>1. Changing(m) /\ ~Changing(q)
        BY <3>1, <3>2, <3>3 DEF Changing
      <4>2. Due' = ChangeOf(m) /\ Due = NoChange
        BY <2>a, <3>5, <4>1, DueWillBe
      <4>3. Due' = Promise!Change("credit", q.id, now)
        BY <3>2, <3>3, <4>2 DEF ChangeOf, Promise!Change
      <4>4. Promise!Buy(q.id)
        BY <1>n, <3>4, <3>5, <4>2, <4>3 DEF Promise!Buy, Promise!Take
      <4>. QED  BY <3>1, <4>4 DEF Promise!Next
    <3>. QED  BY <2>d, <3>1, <3>4, <3>5
  <2>3. CASE DecideRevoke(r)
    <3>. DEFINE m == [q EXCEPT !.pc = "commit", !.moment = now, !.rows = Active]
    <3>1. req'[r] = m /\ Reads /\ q.pc = "decide" /\ q.op = "revoke"
      BY <1>a, <2>3 DEF DecideRevoke, WillCommit, At
    <3>2. m.op = "revoke" /\ m.moment = now /\ m.pc = "commit"
      BY <2>a, <3>1 DEF Request
    <3>. HIDE DEF m
    <3>3. Due' = ChangeOf(m) /\ Due = NoChange
      BY <2>a, <3>1, <3>2, DueWillBe DEF Changing
    <3>4. Due' = Promise!Change("withdraw", Null, now)
      BY <3>2, <3>3 DEF ChangeOf, Promise!Change
    <3>5. Promise!AskBack
      BY <1>1, <1>n, <3>1, <3>3, <3>4 DEF Promise!AskBack, Promise!Take, Reads
    <3>. QED  BY <3>5 DEF Promise!Next
  <2>4. CASE DecideReconcile(r)
    <3>. DEFINE m == [q EXCEPT !.pc = "commit", !.rows = Active]
    <3>1. (Finish(r) \/ req'[r] = m) /\ Reads /\ q.op = "reconcile"
      BY <1>a, <2>4 DEF DecideReconcile, WillCommit, At
    <3>2. m.op = "reconcile"
      BY <2>a, <3>1 DEF Request
    <3>. HIDE DEF m
    <3>3. Due' = NoChange /\ Due = NoChange
      BY <2>a, <2>i, <3>1, <3>2, DueWillBe DEF Changing
    <3>. QED  BY <1>1, <2>s, <3>1, <3>3 DEF Reads
  <2>5. CASE DecideSweep(r)
    <3>. DEFINE lapsed == {i \in Active : subs[i].expires < now}
                other  == \E i \in Active \ lapsed : subs[i].expires > now
                m == [q EXCEPT !.pc = "commit", !.rows = lapsed, !.seen = user, !.keep = other]
    <3>1. (Finish(r) \/ req'[r] = m) /\ Reads /\ q.op = "sweep"
      BY <1>a, <2>5 DEF DecideSweep, WillCommit, At
    <3>. HIDE DEF lapsed, other
    <3>2. m.op = "sweep"
      BY <2>a, <3>1 DEF Request
    <3>. HIDE DEF m
    <3>3. Due' = NoChange /\ Due = NoChange
      BY <2>a, <2>i, <3>1, <3>2, DueWillBe DEF Changing
    <3>. QED  BY <1>1, <2>s, <3>1, <3>3 DEF Reads
  <2>6. CASE CommitCredit(r)
    <3>1. CASE Taken(q.id)
      BY <1>1, <2>6, <2>d, <3>1 DEF CommitCredit
    <3>2. CASE ~Taken(q.id)
      <4>. DEFINE i  == q.id
                  at == q.moment
      <4>1. /\ i \in Id /\ Days[i] \in Nat /\ Days[i] > 0
            /\ user'.is_pro
            /\ user'.until = Days[i] + IF Ends(user, at) THEN user.until ELSE at
            /\ at \in 0..now
            /\ rows' = rows \cup {i}
        BY <2>6, <3>2, CreditAlone
      <4>2. i \notin rows /\ now' = now /\ Finish(r) /\ Crediting(q) /\ q.op # "revoke" /\ Changing(q)
        BY <2>6, <3>2 DEF Taken, CommitCredit, Crediting, Changing
      <4>3. ProUntil' = Days[i] + IF Ends(user, at) THEN user.until ELSE at
        BY <4>1 DEF ProUntil
      <4>4. Ends(user, at) <=> ProUntil # Forever /\ ProUntil > at
        <5>1. Ends(user, at) => user.is_pro
          BY <2>a, <4>2 DEF Planned
        <5>2. CASE user.is_pro
          BY <5>2 DEF ProUntil, Ends, Forever
        <5>3. CASE ~user.is_pro
          BY <1>a, <1>b, <4>1, <5>1, <5>3 DEF ProUntil, Ends, Forever
        <5>. QED  BY <5>2, <5>3
      <4>5. Ends(user, at) => ProUntil = user.until
        BY <2>a, <4>2 DEF Planned, ProUntil
      <4>6. ProUntil' = Days[i] + IF ProUntil # Forever /\ ProUntil > at THEN ProUntil ELSE at
        BY <4>3, <4>4, <4>5
      <4>7. Due.kind = "credit" /\ Due.id = i /\ Due.at = at /\ Due' = NoChange
        BY <2>a, <2>i, <4>2 DEF ChangeOf
      <4>8. Promise!Credit
        BY <1>n, <4>1, <4>2, <4>6, <4>7 DEF Promise!Credit
      <4>. QED  BY <4>8 DEF Promise!Next
    <3>. QED  BY <3>1, <3>2
  <2>7. ASSUME CommitRevoke(r) \/ CommitReconcile(r) \/ CommitSweep(r)
        PROVE  now' = now /\ rows' = rows /\ Finish(r)
    <3>1. q.rows \subseteq rows
      BY DEF CreditInv, PaidFor, Rows
    <3>2. now' = now /\ Finish(r)
      BY <2>7 DEF CommitRevoke, CommitReconcile, CommitSweep
    <3>3. \A i \in Id : subs[i] \in Sub
      BY <1>a
    <3>4. \A t : subs' = Revoked(q.rows, t) => rows' = rows
      BY <3>1, <3>3 DEF Revoked, Sub, Exists
    <3>5. subs' = Expired(q.rows) => rows' = rows
      BY <3>1, <3>3 DEF Expired, Sub, Exists
    <3>. QED  BY <2>7, <3>2, <3>4, <3>5 DEF CommitRevoke, CommitReconcile, CommitSweep
  <2>8. CASE CommitRevoke(r)
    <3>1. user' = [is_pro |-> FlagWritten(user.is_pro, FALSE), until |-> q.moment]
          /\ q.pc = "commit" /\ q.op = "revoke"
      BY <2>8, <2>a DEF CommitRevoke, RevokedUser, At, Planned
    <3>2. FlagWritten(user.is_pro, FALSE) = FALSE
      BY <1>a DEF FlagWritten, User
    <3>3. ProUntil' = q.moment
      BY <1>a, <2>7, <2>8, <2>a, <3>1, <3>2 DEF ProUntil
    <3>4. Due.kind = "withdraw" /\ Due.at = q.moment /\ Due' = NoChange
      BY <2>7, <2>8, <2>a, <2>i, <3>1 DEF Changing, ChangeOf
    <3>5. Promise!Withdraw
      BY <1>n, <2>7, <2>8, <3>3, <3>4 DEF Promise!Withdraw
    <3>. QED  BY <3>5 DEF Promise!Next
  <2>9. CASE CommitReconcile(r)
    <3>1. user.is_pro /\ user.until # Null /\ user.until <= now /\ user'.until = user.until
      BY <1>a, <2>9, <2>a DEF CommitReconcile, At, Planned, User
    <3>2. ProUntil' = ProUntil
      BY <1>a, <1>b, <2>7, <2>9, <3>1 DEF ProUntil
    <3>. QED  BY <2>7, <2>9, <2>d, <3>2
  <2>10. CASE CommitSweep(r)
    <3>1. /\ user.until # Null /\ user'.until = user.until /\ (q.keep \/ ~Ends(user, now))
          /\ q.keep \in BOOLEAN /\ q.seen = user
          /\ user'.is_pro = IF q.keep THEN user.is_pro ELSE FlagWritten(user.is_pro, FALSE)
      BY <1>a, <2>10, <2>a DEF CommitSweep, At, Planned, User, Request
    <3>2. CASE q.keep
      <4>1. ProUntil' = ProUntil
        BY <2>7, <2>10, <3>1, <3>2 DEF ProUntil
      <4>. QED  BY <2>7, <2>10, <2>d, <4>1
    <3>3. CASE ~q.keep
      <4>1. ~(user.until > now)
        BY <3>1, <3>3 DEF Ends
      <4>2. ProUntil' = ProUntil
        BY <2>7, <2>10, <3>1, <4>1 DEF ProUntil
      <4>. QED  BY <2>7, <2>10, <2>d, <4>2
    <3>. QED  BY <3>1, <3>2, <3>3
  <2>11. CASE Abort(r)
    BY <1>1, <2>11, <2>d DEF Abort, Reads
  <2>12. CASE GiveUp(r)
    <3>. DEFINE m == [q EXCEPT !.heard = FALSE]
    <3>1. req'[r] = m /\ UNCHANGED <<now, user, subs>>
      BY <1>a, <2>12 DEF GiveUp, Reads
    <3>2. m.pc = q.pc /\ m.op = q.op /\ m.id = q.id /\ m.moment = q.moment
      BY <2>a DEF Request
    <3>. HIDE DEF m
    <3>3. Due' = Due
      BY <2>a, <3>1, <3>2, DueWillBe DEF Changing, ChangeOf
    <3>. QED  BY <1>1, <2>s, <3>1, <3>3
  <2>. QED  BY <1>4, <2>1, <2>2, <2>3, <2>4, <2>5, <2>6, <2>8, <2>9, <2>10, <2>11, <2>12 DEF Step
<1>. QED  BY <1>2, <1>3, <1>4 DEF Next

(* An account whose requests do not overlap is kept what it was promised:     *)
(* Billing implements Entitlement, in which days are added once, from the     *)
(* moment they were bought or from what was left, and are taken back by a     *)
(* withdrawal alone (activate_subscription, reconcile_user, grant, revoke).   *)
THEOREM ImplementsEntitlement == ASSUME OneAtATime PROVE Spec => KeepsPromise
<1>1. Init => TypeInv /\ CreditInv
  BY InitInv, InitCredit
<1>2. TypeInv /\ CreditInv /\ [Next]_vars => TypeInv' /\ CreditInv'
  BY StepInv, CreditStep
<1>3. TypeInv /\ CreditInv /\ SerialInv /\ SerialInv' /\ [Next]_vars => [Promise!Next]_(Promise!vars)
  BY PromiseStep
<1>. QED  BY <1>1, <1>2, <1>3, PromiseInit, AlwaysSerial, PTL DEF Spec, KeepsPromise, Promise!Spec
=============================================================================
