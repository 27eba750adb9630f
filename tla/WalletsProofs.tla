---------------------------- MODULE WalletsProofs ----------------------------
(* Watched wallets, for every set of wallets, transfers and threads, every    *)
(* window and any number of restarts: types, the limit, and what the user is  *)
(* told of.                                                                   *)
(*                                                                            *)
(* add() counts committed addresses only, so the limit itself is not          *)
(* inductive: it is once the address a thread passed the check with is        *)
(* counted like one that is watched.  What is told depends on what a pass still holds in memory:  *)
(* Marks, Polled and Asked say how its copies relate to the rows, however the *)
(* site deletes wallets and adds them again meanwhile.                        *)
EXTENDS Wallets, FiniteSetTheorems, WellFoundedInduction, TLAPS

-----------------------------------------------------------------------------
(* Sizes and least elements *)

(* A set of numbers has a least one. *)
LEMMA LeastNumber ==
    ASSUME NEW S \in SUBSET Nat, S # {}
    PROVE  \E x \in S : \A y \in S : x <= y
<1>. DEFINE R == StrictSubsetOrdering(Nat)
            T == {0..x : x \in S}
<1>1. T # {}
  OBVIOUS
<1>2. ASSUME NEW a \in T
      PROVE  a \in FiniteSubsetsOf(Nat)
  <2>1. PICK x \in S : a = 0..x
    OBVIOUS
  <2>2. IsFiniteSet(0..x) /\ 0..x \subseteq Nat
    BY FS_Interval
  <2>. QED  BY <2>1, <2>2 DEF FiniteSubsetsOf
<1>3. IsWellFoundedOn(R, FiniteSubsetsOf(Nat))
  BY FS_StrictSubsetOrderingWellFounded
<1>. HIDE DEF T, R
<1>4. \E a \in T : \A b \in T : ~ (<<b, a>> \in R)
  BY <1>1, <1>2, <1>3, WFMin
<1>. USE DEF T, R
<1>5. PICK x \in S : \A y \in S : ~ (<<0..y, 0..x>> \in R)
  BY <1>4
<1>6. ASSUME NEW y \in S, y < x
      PROVE  FALSE
  <2>1. 0..y \subseteq 0..x /\ 0..y \subseteq Nat /\ 0..x \subseteq Nat
    BY <1>6
  <2>2. x \in 0..x /\ x \notin 0..y
    BY <1>6
  <2>. QED  BY <1>5, <2>1, <2>2 DEF StrictSubsetOrdering
<1>. QED  BY <1>5, <1>6

(* Sizes of sets of wallets and of threads. *)
LEMMA Sizes ==
    ASSUME NEW S, IsFiniteSet(S), NEW A \in SUBSET S, NEW B \in SUBSET S
    PROVE  /\ IsFiniteSet(A) /\ Cardinality(A) \in Nat /\ Cardinality(S) \in Nat
           /\ Cardinality(A) <= Cardinality(S)
           /\ A \subseteq B => Cardinality(A) <= Cardinality(B)
           /\ \A x \in B : A = B \ {x} => Cardinality(A) = Cardinality(B) - 1
           /\ \A x \in S : A = B \cup {x} => Cardinality(A) <= Cardinality(B) + 1
<1>1. IsFiniteSet(A) /\ IsFiniteSet(B)
  BY FS_Subset
<1>2. Cardinality(A) \in Nat /\ Cardinality(B) \in Nat /\ Cardinality(S) \in Nat
  BY <1>1, FS_CardinalityType
<1>3. Cardinality(A) <= Cardinality(S)
  BY FS_Subset
<1>4. A \subseteq B => Cardinality(A) <= Cardinality(B)
  BY <1>1, FS_Subset
<1>5. \A x \in B : A = B \ {x} => Cardinality(A) = Cardinality(B) - 1
  BY <1>1, FS_RemoveElement
<1>6. \A x \in S : A = B \cup {x} => Cardinality(A) <= Cardinality(B) + 1
  BY <1>1, <1>2, FS_AddElement
<1>. QED  BY <1>1, <1>2, <1>3, <1>4, <1>5, <1>6

-----------------------------------------------------------------------------
(* Types *)

(* The constants' shares in the types. *)
LEMMA Constants ==
    /\ MaxTx \in Nat /\ MaxAdds \in Nat /\ MaxFaults \in Nat
    /\ 0 \in 0..MaxTx /\ 0 \in 0..MaxAdds /\ Tx \subseteq Nat
    /\ Of \in [Tx -> Watch] /\ AnyW \in Watch
    /\ \A m \in 0..MaxTx : 1..m \subseteq Tx
<1>1. MaxTx \in Nat /\ MaxAdds \in Nat /\ MaxFaults \in Nat /\ Of \in [Tx -> Watch] /\ Watch # {}
  BY WalletsAssumption
<1>. QED  BY <1>1 DEF AnyW, Tx

(* What never changes in a run. *)
LEMMA Given ==
    ASSUME setting \in Settings
    PROVE  /\ setting.tg \in BOOLEAN
           /\ \A w \in Watch : Addr(w) \in Address
           /\ \A w \in Watch : setting.reader[w] \in {"page", "sigs", "blocks"}
           /\ NoAdd \in Adding /\ Off \in WatchRow
<1>1. /\ setting.tg \in BOOLEAN /\ setting.addr \in [Watch -> Address]
      /\ setting.reader \in [Watch -> {"page", "sigs", "blocks"}]
  BY WalletsAssumption
<1>2. Off \in WatchRow
  BY Constants DEF Off, WatchRow
<1>3. NoAdd \in Adding
  BY <1>1, <1>2, Constants DEF NoAdd, Adding
<1>. QED  BY <1>1, <1>2, <1>3 DEF Addr

(* What a read returns lies ahead of the position, and is the page where no   *)
(* position is kept.                                                          *)
LEMMA ReadHolds ==
    ASSUME TypeOK, NEW w \in Watch, NEW c, NEW seen \in Reads(w, c)
    PROVE  /\ \A t \in seen : t \in 1..n /\ t \in Tx /\ Of[t] = w /\ (Positioned(w) => t > c)
           /\ ~Positioned(w) => seen = Page(w, c)
<1>1. setting.reader[w] \in {"page", "sigs", "blocks"} /\ 1..n \subseteq Tx
  BY Given, Constants DEF TypeOK
<1>2. Page(w, c) \subseteq Ahead(w, c)
  BY DEF Page
<1>3. seen \subseteq Ahead(w, c) /\ (~Positioned(w) => seen = Page(w, c))
  <2>1. CASE setting.reader[w] = "page"
    BY <1>2, <2>1 DEF Reads
  <2>2. CASE setting.reader[w] = "sigs"
    BY <1>2, <2>2 DEF Reads, Positioned
  <2>3. CASE setting.reader[w] = "blocks"
    BY <2>3 DEF Reads, Positioned
  <2>. QED  BY <1>1, <2>1, <2>2, <2>3
<1>. QED  BY <1>1, <1>3 DEF Ahead

(* What is read, stored, skipped or closed is made of transfers. *)
LEMMA Written ==
    ASSUME TypeOK
    PROVE  /\ \A w \in Watch : \A c : \A seen \in Reads(w, c) : seen \in SUBSET Tx
           /\ \A w : Stands(w) \in 0..MaxTx
           /\ \A w, c, at, seen : Skipped(w, c, at, seen) \in SUBSET Tx
           /\ \A seen : /\ Insert(row, seen, TRUE) \in [Tx -> RowState]
                        /\ Insert(row, seen, FALSE) \in [Tx -> RowState]
           /\ \A es : Closed(es) \in [Tx -> RowState]
<1>1. n \in 0..MaxTx /\ row \in [Tx -> RowState] /\ 1..n \subseteq Tx
  BY Constants DEF TypeOK
<1>2. \A w, c : Ahead(w, c) \in SUBSET Tx
  BY <1>1 DEF Ahead
<1>3. /\ \A w \in Watch : \A c : \A seen \in Reads(w, c) : seen \in SUBSET Tx
      /\ \A w : Stands(w) \in 0..MaxTx
  BY <1>1, ReadHolds, Constants DEF Stands
<1>4. \A w, c, at, seen : Skipped(w, c, at, seen) \in SUBSET Tx
  BY <1>2 DEF Skipped
<1>5. \A t \in Tx : Stored(t, TRUE) \in RowState /\ Stored(t, FALSE) \in RowState
  BY DEF Stored, RowState
<1>6. \A seen : /\ Insert(row, seen, TRUE) \in [Tx -> RowState]
               /\ Insert(row, seen, FALSE) \in [Tx -> RowState]
  BY <1>1, <1>5 DEF Insert
<1>7. \A es : Closed(es) \in [Tx -> RowState]
  BY <1>1 DEF Closed, RowState
<1>. QED  BY <1>3, <1>4, <1>6, <1>7

(* The next row to be sent is one of those still to be sent. *)
LEMMA HeadFirst ==
    ASSUME pass.pend \in SUBSET Entry, pass.pend # {}
    PROVE  Head \in pass.pend
<1>. DEFINE S == {e.t : e \in pass.pend}
<1>1. \A e \in pass.pend : e.t \in Nat
  BY Constants DEF Entry
<1>2. S \in SUBSET Nat /\ S # {}
  BY <1>1
<1>3. PICK x \in S : \A y \in S : x <= y
  BY <1>2, LeastNumber
<1>4. \E e \in pass.pend : \A f \in pass.pend : e.t <= f.t
  BY <1>3
<1>. QED  BY <1>4 DEF Head

LEMMA InitTyped == Init => TypeOK
<1>. SUFFICES ASSUME Init PROVE TypeOK
  OBVIOUS
<1>1. Off \in WatchRow /\ NoAdd \in Adding /\ NoPass \in Pass
  BY Given, Constants DEF Init, NoPass, Pass
<1>. QED  BY <1>1, Constants DEF Init, TypeOK, RowState

(* A pass moves on, typed. *)
LEMMA PassOn ==
    ASSUME TypeOK
    PROVE  /\ NoPass \in Pass
           /\ \A pc \in {"idle", "polls", "write", "sends", "save"} :
                 /\ \A x : [pass EXCEPT !.pc = pc, !.todo = @ \ {x}] \in Pass
                 /\ \A x : [pass EXCEPT !.pc = pc, !.todo = @ \ {x}, !.w = AnyW,
                                         !.seen = {}, !.at = 0] \in Pass
                 /\ [pass EXCEPT !.pc = pc] \in Pass
           /\ \A e : PassOver(e) \in Pass
           /\ \A e \in Entry : [PassOver(e) EXCEPT !.dirty = @ \cup {e}] \in Pass
           /\ AfterSave \in Pass
<1>1. /\ pass \in Pass /\ pass.todo \in SUBSET (Watch \X (0..MaxAdds))
      /\ pass.pend \in SUBSET Entry /\ pass.dirty \in SUBSET Entry
  BY DEF TypeOK, Pass
<1>2. NoPass \in Pass
  BY Constants DEF NoPass, Pass
<1>3. \A x : pass.todo \ {x} \in SUBSET (Watch \X (0..MaxAdds))
  BY <1>1
<1>4. ASSUME NEW pc \in {"idle", "polls", "write", "sends", "save"}, NEW x
      PROVE  /\ [pass EXCEPT !.pc = pc, !.todo = @ \ {x}] \in Pass
             /\ [pass EXCEPT !.pc = pc, !.todo = @ \ {x}, !.w = AnyW,
                             !.seen = {}, !.at = 0] \in Pass
             /\ [pass EXCEPT !.pc = pc] \in Pass
  <2>1. 0 \in 0..MaxTx /\ {} \in SUBSET Tx /\ AnyW \in Watch
    BY Constants
  <2>. QED  BY <1>1, <1>3, <2>1 DEF Pass
<1>5. \A e : pass.pend \ {e} \in SUBSET Entry
  BY <1>1
<1>6. \A e : PassOver(e) \in Pass
  BY <1>1, <1>5 DEF PassOver, Pass
<1>7. ASSUME NEW e \in Entry
      PROVE  [PassOver(e) EXCEPT !.dirty = @ \cup {e}] \in Pass
  BY <1>6, <1>7 DEF Pass
<1>8. AfterSave \in Pass
  BY <1>6 DEF AfterSave, Pass
<1>. QED  BY <1>2, <1>4, <1>6, <1>7, <1>8

(* One more message, or one more mark lost. *)
LEMMA Counted ==
    ASSUME NEW f \in [Tx -> Nat], NEW x
    PROVE  [f EXCEPT ![x] = @ + 1] \in [Tx -> Nat]
<1>1. x \in Tx => f[x] + 1 \in Nat
  OBVIOUS
<1>. QED  BY <1>1

(* The step of a thread at one of the chains still to be looked at, and the   *)
(* record of the thread once it polled it.                                    *)
NewRow(c, read) == [on |-> TRUE, gen |-> 0, muted |-> FALSE, cursor |-> c,
                    created |-> n, read |-> read]
PolledOf(r, w, c, read, seen) ==
    [add[r] EXCEPT !.todo = @ \ {w}, !.new[w] = NewRow(c, read), !.seen = @ \cup seen]
AddPollOf(r, w) ==
    /\ add[r].pc = "polls"
    /\ \/ add' = [add EXCEPT ![r].todo = @ \ {w}]
       \/ \E seen \in Reads(w, 0) : add' = [add EXCEPT ![r] = PolledOf(r, w, Stands(w), TRUE, seen)]
       \/ \E c \in {0, Stands(w)} : add' = [add EXCEPT ![r] = PolledOf(r, w, c, FALSE, {})]
    /\ UNCHANGED <<setting, n, watch, row, adds, pass, told, undone, missed, faults>>

LEMMA PollOf ==
    ASSUME NEW r, AddPoll(r)
    PROVE  \E w \in add[r].todo : AddPollOf(r, w)
<1>. DEFINE w == CHOOSE x \in add[r].todo : TRUE
<1>1. w \in add[r].todo
  BY DEF AddPoll
<1>2. AddPollOf(r, w)
  BY DEF AddPoll, AddPollOf, PolledOf, NewRow
<1>. QED  BY <1>1, <1>2

(* An addition adds at least one wallet, within the bound. *)
LEMMA NewCounted ==
    ASSUME TypeOK, NEW r \in Req, AddCommit(r)
    PROVE  adds' \in 0..MaxAdds /\ adds + 1 <= adds'
<1>. DEFINE New == {w \in Watch : add[r].new[w].on}
<1>1. New \in SUBSET Watch /\ New # {} /\ adds' = adds + Cardinality(New) /\ adds' <= MaxAdds
  BY DEF AddCommit
<1>2. IsFiniteSet(New) /\ Cardinality(New) \in Nat /\ Cardinality(New) # 0
  BY <1>1, WalletsAssumption, FS_Subset, FS_CardinalityType, FS_EmptySet
<1>. HIDE DEF New
<1>. QED  BY <1>1, <1>2, Constants DEF TypeOK

LEMMA TypeStep == TypeOK /\ [Next]_vars => TypeOK'
<1>. SUFFICES ASSUME TypeOK, [Next]_vars PROVE TypeOK'
  OBVIOUS
<1>1. /\ setting \in Settings
      /\ n \in 0..MaxTx /\ watch \in [Watch -> WatchRow] /\ row \in [Tx -> RowState]
      /\ adds \in 0..MaxAdds /\ add \in [Req -> Adding] /\ pass \in Pass
      /\ told \in [Tx -> Nat] /\ undone \in [Tx -> Nat] /\ missed \in SUBSET Tx
      /\ faults \in 0..MaxFaults
  BY DEF TypeOK
<1>2. /\ pass.w \in Watch /\ pass.at \in 0..MaxTx /\ pass.pend \in SUBSET Entry
      /\ NoAdd \in Adding /\ Off \in WatchRow /\ NoPass \in Pass
  <2>1. pass.w \in Watch /\ pass.at \in 0..MaxTx /\ pass.pend \in SUBSET Entry
    BY <1>1 DEF Pass
  <2>2. NoAdd \in Adding /\ Off \in WatchRow
    BY <1>1, Given
  <2>. QED  BY <2>1, <2>2, PassOn
<1>3. ASSUME NEW w \in Watch, NEW x \in WatchRow
      PROVE  [watch EXCEPT ![w] = x] \in [Watch -> WatchRow]
  BY <1>1
<1>4. CASE Confirm
  <2>1. n + 1 \in 0..MaxTx
    BY <1>1, <1>4, Constants DEF Confirm
  <2>. QED  BY <1>1, <1>4, <2>1 DEF Confirm, TypeOK
<1>5. ASSUME NEW r \in Req, NEW a \in Address, AddStart(r, a)
      PROVE  TypeOK'
  <2>1. PICK use \in SUBSET {w \in Watch : Addr(w) = a} :
            add' = [add EXCEPT ![r] = [NoAdd EXCEPT !.pc = "polls", !.addr = a, !.todo = use]]
    BY <1>5 DEF AddStart
  <2>2. [NoAdd EXCEPT !.pc = "polls", !.addr = a, !.todo = use] \in Adding
    BY <1>2 DEF Adding
  <2>. QED  BY <1>1, <1>5, <2>1, <2>2 DEF AddStart, TypeOK
<1>6. ASSUME NEW r \in Req, AddPoll(r)
      PROVE  TypeOK'
  <2>1. add[r] \in Adding /\ add[r].todo \subseteq Watch /\ n \in 0..MaxTx /\ 0 \in 0..MaxTx
        /\ 0 \in 0..MaxAdds /\ add[r].new \in [Watch -> WatchRow] /\ add[r].seen \in SUBSET Tx
    BY <1>1, Constants DEF Adding
  <2>2. PICK w \in add[r].todo : AddPollOf(r, w)
    BY <1>6, PollOf
  <2>3. \A c \in 0..MaxTx, read \in BOOLEAN, seen \in SUBSET Tx : PolledOf(r, w, c, read, seen) \in Adding
    BY <2>1, <2>2 DEF PolledOf, NewRow, Adding, WatchRow
  <2>4. add[r].todo \ {w} \in SUBSET Watch
    BY <2>1
  <2>5. [add[r] EXCEPT !.todo = @ \ {w}] \in Adding
    BY <2>1, <2>4 DEF Adding
  <2>6. add' \in [Req -> Adding]
    <3>1. CASE add' = [add EXCEPT ![r].todo = @ \ {w}]
      BY <1>1, <2>5, <3>1
    <3>2. ASSUME NEW seen \in Reads(w, 0), add' = [add EXCEPT ![r] = PolledOf(r, w, Stands(w), TRUE, seen)]
          PROVE  add' \in [Req -> Adding]
      BY <1>1, <2>1, <2>3, <3>2, Written
    <3>3. ASSUME NEW c \in {0, Stands(w)}, add' = [add EXCEPT ![r] = PolledOf(r, w, c, FALSE, {})]
          PROVE  add' \in [Req -> Adding]
      BY <1>1, <2>1, <2>3, <3>3, Written
    <3>. QED  BY <2>2, <3>1, <3>2, <3>3 DEF AddPollOf
  <2>. QED  BY <1>1, <2>2, <2>6 DEF AddPollOf, TypeOK
<1>7. ASSUME NEW r \in Req, AddCommit(r)
      PROVE  TypeOK'
  <2>1. add[r] \in Adding /\ add[r].new \in [Watch -> WatchRow]
    BY <1>1 DEF Adding
  <2>2. adds' \in 0..MaxAdds /\ adds + 1 <= adds'
    BY <1>7, NewCounted
  <2>3. adds + 1 \in 0..MaxAdds
    BY <1>1, <2>2, Constants
  <2>4. \A w \in Watch : [add[r].new[w] EXCEPT !.gen = adds + 1] \in WatchRow
    BY <2>1, <2>3 DEF WatchRow
  <2>5. watch' \in [Watch -> WatchRow]
    BY <1>1, <1>7, <2>4 DEF AddCommit
  <2>6. row' \in [Tx -> RowState]
    BY <1>7, Written DEF AddCommit
  <2>7. add' \in [Req -> Adding]
    BY <1>1, <1>2, <1>7 DEF AddCommit
  <2>. QED  BY <1>1, <1>7, <2>2, <2>5, <2>6, <2>7 DEF AddCommit, TypeOK
<1>8. ASSUME NEW r \in Req, AddEnds(r)
      PROVE  TypeOK'
  BY <1>1, <1>2, <1>8 DEF AddEnds, TypeOK
<1>9. ASSUME NEW w \in Watch, Delete(w)
      PROVE  TypeOK'
  <2>1. watch' \in [Watch -> WatchRow]
    BY <1>2, <1>3, <1>9 DEF Delete
  <2>2. /\ row' \in [Tx -> RowState] /\ told' \in [Tx -> Nat] /\ undone' \in [Tx -> Nat]
        /\ missed' \in SUBSET Tx
    BY <1>1, <1>9 DEF Delete, RowState
  <2>. QED  BY <1>1, <1>9, <2>1, <2>2 DEF Delete, TypeOK
<1>10. ASSUME NEW w \in Mutes, Mute(w)
       PROVE  TypeOK'
  <2>1. w \in Watch
    BY WalletsAssumption
  <2>2. watch' \in [Watch -> WatchRow]
    BY <1>1, <1>10, <2>1 DEF Mute, WatchRow
  <2>. QED  BY <1>1, <1>10, <2>2 DEF Mute, TypeOK
<1>11. ASSUME UNCHANGED <<setting, n, adds, add, watch, told, missed, faults>>,
              row' \in [Tx -> RowState], pass' \in Pass, undone' \in [Tx -> Nat]
       PROVE  TypeOK'
  BY <1>1, <1>11 DEF TypeOK
<1>12. CASE StartPass
  <2>1. {<<w, watch[w].gen>> : w \in On} \in SUBSET (Watch \X (0..MaxAdds))
    BY <1>1 DEF On, WatchRow
  <2>2. pass' \in Pass
    BY <1>2, <1>12, <2>1 DEF StartPass, Pass
  <2>. QED  BY <1>1, <1>11, <1>12, <2>2 DEF StartPass, Idle
<1>13. ASSUME NEW w \in Watch, PollRead(w)
       PROVE  TypeOK'
  <2>1. \A seen \in Reads(w, watch[w].cursor) : seen \in SUBSET Tx
    BY Written
  <2>2. PICK seen \in Reads(w, watch[w].cursor) :
            pass' = [pass EXCEPT !.pc = "write", !.w = w, !.at = n, !.seen = seen]
    BY <1>13 DEF PollRead
  <2>3. seen \in SUBSET Tx
    BY <2>1
  <2>4. pass' \in Pass
    BY <1>1, <2>2, <2>3 DEF Pass
  <2>. QED  BY <1>1, <1>11, <1>13, <2>4 DEF PollRead, Idle
<1>14. ASSUME NEW w \in Watch, PollFails(w)
       PROVE  TypeOK'
  <2>1. pass' = [pass EXCEPT !.pc = "polls", !.todo = @ \ {<<w, watch[w].gen>>}]
    BY <1>1, <1>14 DEF PollFails, AtTurn, Pass
  <2>2. pass' \in Pass
    BY <2>1, PassOn
  <2>. QED  BY <1>1, <1>11, <1>14, <2>2 DEF PollFails, Idle
<1>15. ASSUME NEW seen, Store(seen), missed' \in SUBSET Tx, pass' \in Pass, faults' \in 0..MaxFaults
       PROVE  TypeOK'
  <2>1. Position(pass.w) \in 0..MaxTx
    BY <1>2, Constants DEF Position
  <2>2. watch' \in [Watch -> WatchRow]
    BY <1>1, <1>2, <1>15, <2>1 DEF Store, WatchRow
  <2>3. row' \in [Tx -> RowState]
    BY <1>15, Written DEF Store
  <2>. QED  BY <1>1, <1>15, <2>2, <2>3 DEF Store, TypeOK
<1>16. CASE PollWrite
  <2>1. pass' \in Pass
    BY <1>16, PassOn DEF PollWrite
  <2>2. missed' \in SUBSET Tx /\ faults' \in 0..MaxFaults
    BY <1>1, <1>16, Written DEF PollWrite
  <2>. QED  BY <1>15, <1>16, <2>1, <2>2 DEF PollWrite
<1>17. CASE CutPoll
  <2>1. PICK seen : Store(seen) /\ missed' = missed \cup Skipped(pass.w, watch[pass.w].cursor, pass.at, seen)
    BY <1>17 DEF CutPoll
  <2>2. missed' \in SUBSET Tx /\ pass' \in Pass
    BY <1>1, <1>2, <1>17, <2>1, Written DEF CutPoll
  <2>3. faults' \in 0..MaxFaults
    BY <1>1, <1>17, Constants DEF CutPoll
  <2>. QED  BY <1>15, <2>1, <2>2, <2>3
<1>18. CASE Select
  <2>1. {[t |-> t, gen |-> watch[Of[t]].gen, muted |-> watch[Of[t]].muted] : t \in Unsent}
            \in SUBSET Entry
    <3>1. ASSUME NEW t \in Tx
          PROVE  [t |-> t, gen |-> watch[Of[t]].gen, muted |-> watch[Of[t]].muted] \in Entry
      <4>1. watch[Of[t]] \in WatchRow
        BY <1>1, Constants
      <4>. QED  BY <4>1 DEF WatchRow, Entry
    <3>. QED  BY <3>1 DEF Unsent
  <2>2. pass' \in Pass
    BY <1>2, <1>18, <2>1 DEF Select, Pass
  <2>. QED  BY <1>1, <1>11, <1>18, <2>2 DEF Select, Idle
<1>19. CASE SkipMuted
  <2>1. Head \in Entry
    BY <1>2, <1>19, HeadFirst DEF SkipMuted, Usable
  <2>2. pass' \in Pass
    <3>1. [PassOver(Head) EXCEPT !.dirty = @ \cup {Head}]
              = [PassOver(Head) EXCEPT !.dirty = pass.dirty \cup {Head}]
      BY <1>1 DEF PassOver, Pass
    <3>. QED  BY <1>19, <2>1, <3>1, PassOn DEF SkipMuted
  <2>. QED  BY <1>1, <1>11, <1>19, <2>2 DEF SkipMuted, Idle
<1>20. CASE Leave
  <2>1. pass' \in Pass
    BY <1>20, PassOn DEF Leave
  <2>. QED  BY <1>1, <1>11, <1>20, <2>1 DEF Leave, Idle
<1>21. CASE Send
  <2>1. pass' \in Pass
    BY <1>21, PassOn DEF Send
  <2>2. told' \in [Tx -> Nat]
    BY <1>1, <1>21, Counted DEF Send, Deliver
  <2>. QED  BY <1>1, <1>21, <2>1, <2>2 DEF Send, Idle, TypeOK
<1>22. ASSUME NEW e, MarkLost(e)
       PROVE  undone' \in [Tx -> Nat]
  BY <1>1, <1>22, Counted DEF MarkLost
<1>23. CASE Save \/ SaveRefused \/ Finish \/ Abort
  <2>1. pass' \in Pass
    BY <1>2, <1>23, PassOn DEF Save, SaveRefused, Finish, Abort
  <2>2. row' \in [Tx -> RowState]
    BY <1>1, <1>23, Written DEF Save, SaveRefused, Finish, Abort
  <2>3. undone' \in [Tx -> Nat]
    BY <1>1, <1>22, <1>23 DEF Save, SaveRefused, Finish, Abort
  <2>. QED  BY <1>11, <1>23, <2>1, <2>2, <2>3 DEF Save, SaveRefused, Finish, Abort, Idle
<1>24. CASE Crash
  <2>1. undone' \in [Tx -> Nat] /\ pass' \in Pass
    BY <1>1, <1>2, <1>22, <1>24 DEF Crash
  <2>2. faults' \in 0..MaxFaults
    BY <1>1, <1>24, Constants DEF Crash
  <2>. QED  BY <1>1, <1>24, <2>1, <2>2 DEF Crash, Idle, TypeOK
<1>25. CASE UNCHANGED vars
  BY <1>1, <1>25 DEF vars, TypeOK
<1>26. CASE Unheard
  <2>1. pass' \in Pass
    BY <1>26, PassOn DEF Unheard
  <2>2. told' \in [Tx -> Nat] /\ undone' \in [Tx -> Nat]
    BY <1>1, <1>22, <1>26, Counted DEF Unheard, Deliver
  <2>3. faults' \in 0..MaxFaults
    BY <1>1, <1>26, Constants DEF Unheard
  <2>. QED  BY <1>1, <1>26, <2>1, <2>2, <2>3 DEF Unheard, Idle, TypeOK
<1>. QED  BY <1>4, <1>5, <1>6, <1>7, <1>8, <1>9, <1>10, <1>12, <1>13, <1>14, <1>16, <1>17, <1>18, <1>19,
             <1>20, <1>21, <1>23, <1>24, <1>25, <1>26 DEF Next, Consider

LEMMA AlwaysTyped == Spec => []TypeOK
<1>1. TypeOK /\ [Next]_vars => TypeOK'
  BY TypeStep
<1>. QED  BY InitTyped, <1>1, PTL DEF Spec

(* Whatever is confirmed, read, cut off, deleted or restarted, the two tables *)
(* and what a pass keeps of them in memory have their types.                  *)
THEOREM TypeCorrect == Spec => []TypeOK
BY AlwaysTyped

-----------------------------------------------------------------------------
(* The limit *)

Adders  == {r \in Req : add[r].pc = "polls"}
Claimed == {add[r].addr : r \in Adders}
Reserve == Cardinality(Watched \cup Claimed) < Limit + Cardinality(Req)

(* A thread adds rows of the address it claimed only. *)
OneAddress ==
    \A r \in Adders :
        /\ \A w \in add[r].todo : Addr(w) = add[r].addr
        /\ \A w \in Watch : add[r].new[w].on => Addr(w) = add[r].addr

LEMMA AddressesFinite ==
    /\ IsFiniteSet(Watched) /\ Cardinality(Watched) \in Nat
    /\ IsFiniteSet(Claimed) /\ Cardinality(Claimed) \in Nat
    /\ Cardinality(Claimed) <= Cardinality(Req) /\ Cardinality(Req) \in Nat
    /\ Limit \in Nat
<1>1. IsFiniteSet(Watch) /\ IsFiniteSet(Req) /\ Limit \in Nat
  BY WalletsAssumption
<1>2. IsFiniteSet(On) /\ IsFiniteSet(Adders) /\ Cardinality(Adders) <= Cardinality(Req)
      /\ Cardinality(Req) \in Nat /\ Cardinality(Adders) \in Nat
  BY <1>1, Sizes DEF On, Adders
<1>3. IsFiniteSet(Watched)
  <2>. DEFINE f == [w \in On |-> Addr(w)]
  <2>1. f \in Surjection(On, Watched)
    BY DEF Surjection, Watched
  <2>. QED  BY <1>2, <2>1, FS_Surjection
<1>4. IsFiniteSet(Claimed) /\ Cardinality(Claimed) <= Cardinality(Adders)
  <2>. DEFINE f == [r \in Adders |-> add[r].addr]
  <2>1. f \in Surjection(Adders, Claimed)
    BY DEF Surjection, Claimed
  <2>. QED  BY <1>2, <2>1, FS_Surjection
<1>5. Cardinality(Watched) \in Nat /\ Cardinality(Claimed) \in Nat
  BY <1>3, <1>4, FS_CardinalityType
<1>. QED  BY <1>1, <1>2, <1>3, <1>4, <1>5

LEMMA UnionSize ==
    ASSUME NEW S, IsFiniteSet(S), NEW T, IsFiniteSet(T)
    PROVE  /\ Cardinality(S \cup T) <= Cardinality(S) + Cardinality(T)
           /\ Cardinality(S \cup T) \in Nat
<1>1. /\ IsFiniteSet(S \cup T) /\ IsFiniteSet(S \cap T)
      /\ Cardinality(S \cup T) = Cardinality(S) + Cardinality(T) - Cardinality(S \cap T)
  BY FS_Union, FS_Subset
<1>2. /\ Cardinality(S) \in Nat /\ Cardinality(T) \in Nat /\ Cardinality(S \cap T) \in Nat
      /\ Cardinality(S \cup T) \in Nat
  BY <1>1, FS_CardinalityType
<1>. QED  BY <1>1, <1>2

LEMMA InitReserve == Init /\ Req # {} => Reserve /\ OneAddress
<1>. SUFFICES ASSUME Init, Req # {} PROVE Reserve /\ OneAddress
  OBVIOUS
<1>1. Watched \cup Claimed = {} /\ Adders = {}
  <2>1. On = {} /\ Adders = {}
    BY DEF Init, On, Off, Adders, NoAdd
  <2>. QED  BY <2>1 DEF Watched, Claimed
<1>2. IsFiniteSet(Req) /\ Limit \in Nat
  BY WalletsAssumption
<1>3. Cardinality({}) = 0 /\ Cardinality(Req) \in Nat /\ Cardinality(Req) # 0
  BY <1>2, FS_EmptySet, FS_CardinalityType
<1>4. Reserve
  <2>1. Cardinality(Watched \cup Claimed) = 0
    BY <1>1, <1>3
  <2>. QED  BY <1>2, <1>3, <2>1 DEF Reserve
<1>. QED  BY <1>1, <1>4 DEF OneAddress

LEMMA ReserveStep == TypeOK /\ Reserve /\ OneAddress /\ [Next]_vars => Reserve' /\ OneAddress'
<1>. SUFFICES ASSUME TypeOK, Reserve, OneAddress, [Next]_vars PROVE Reserve' /\ OneAddress'
  OBVIOUS
<1>a. /\ IsFiniteSet(Watched) /\ IsFiniteSet(Claimed) /\ Limit \in Nat
      /\ Cardinality(Watched) \in Nat /\ Cardinality(Claimed) \in Nat
      /\ Cardinality(Req) \in Nat /\ Cardinality(Claimed) <= Cardinality(Req)
  BY AddressesFinite
<1>b. (IsFiniteSet(Claimed) /\ Cardinality(Claimed) \in Nat /\ Cardinality(Claimed) <= Cardinality(Req))'
  BY AddressesFinite, PTL
<1>c. watch \in [Watch -> WatchRow] /\ add \in [Req -> Adding] /\ pass.w \in Watch
  BY DEF TypeOK, Pass
<1>d. setting' = setting
  BY DEF Next, vars, Confirm, AddPoll, AddCommit, AddEnds, AddStart, Delete, PollRead, PollFails,
     Mute, StartPass, PollWrite, Select, Consider, SkipMuted, Leave, Send, Unheard, Save,
     SaveRefused, Finish, Abort, Crash, CutPoll, Store, Idle
<1>1. ASSUME (Watched \cup Claimed)' \subseteq Watched \cup Claimed
      PROVE  Reserve'
  <2>1. IsFiniteSet(Watched \cup Claimed)
    BY <1>a, FS_Union
  <2>2. Cardinality((Watched \cup Claimed)') <= Cardinality(Watched \cup Claimed)
        /\ IsFiniteSet((Watched \cup Claimed)')
    BY <1>1, <2>1, FS_Subset
  <2>. QED  BY <1>a, <2>1, <2>2, FS_CardinalityType DEF Reserve
<1>2. ASSUME On' \subseteq On, UNCHANGED add
      PROVE  Reserve' /\ OneAddress'
  <2>1. (Watched \cup Claimed)' \subseteq Watched \cup Claimed
    BY <1>d, <1>2 DEF Watched, Claimed, Adders, Addr
  <2>. QED  BY <1>1, <1>d, <1>2, <2>1 DEF OneAddress, Adders, Addr
<1>3. ASSUME NEW r \in Req, NEW a \in Address, AddStart(r, a)
      PROVE  Reserve' /\ OneAddress'
  <2>1. PICK use \in SUBSET {w \in Watch : Addr(w) = a} :
            add' = [add EXCEPT ![r] = [NoAdd EXCEPT !.pc = "polls", !.addr = a, !.todo = use]]
    BY <1>3 DEF AddStart
  <2>2. /\ add'[r].addr = a /\ add'[r].todo = use /\ \A w \in Watch : ~add'[r].new[w].on
        /\ \A x \in Req : x # r => add'[x] = add[x]
        /\ add[r].pc = "idle"
    BY <1>3, <1>c, <2>1 DEF AddStart, NoAdd, Off
  <2>3. Watched' = Watched
    BY <1>3, <1>d DEF AddStart, Watched, On, Addr
  <2>4. OneAddress'
    BY <1>d, <2>2 DEF OneAddress, Adders, Addr
  <2>5. CASE a \in Watched
    <3>1. (Watched \cup Claimed)' \subseteq Watched \cup Claimed
      BY <2>2, <2>3, <2>5 DEF Claimed, Adders
    <3>. QED  BY <1>1, <2>4, <3>1
  <2>6. CASE a \notin Watched
    <3>1. Cardinality(Watched) + 1 <= Limit
      BY <1>3, <2>6 DEF AddStart, RoomFor
    <3>2. Cardinality(Watched \cup Claimed') <= Cardinality(Watched) + Cardinality(Claimed')
          /\ Cardinality(Watched \cup Claimed') \in Nat
      BY <1>a, <1>b, UnionSize
    <3>. QED  BY <1>a, <1>b, <2>3, <2>4, <3>1, <3>2 DEF Reserve
  <2>. QED  BY <2>5, <2>6
<1>4. ASSUME NEW r \in Req, AddPoll(r)
      PROVE  Reserve' /\ OneAddress'
  <2>1. PICK w \in add[r].todo : AddPollOf(r, w)
    BY <1>4, PollOf
  <2>2. add[r] \in Adding /\ w \in Watch /\ add[r].pc = "polls"
    BY <1>c, <2>1 DEF Adding, AddPollOf
  <2>3. /\ add'[r].addr = add[r].addr /\ add'[r].todo \subseteq add[r].todo
        /\ add'[r].pc = "polls"
        /\ \A x \in Watch : x # w => add'[r].new[x] = add[r].new[x]
        /\ \A x \in Req : x # r => add'[x] = add[x]
    <3>1. \/ add'[r] = [add[r] EXCEPT !.todo = @ \ {w}]
          \/ \E c, read, seen : add'[r] = PolledOf(r, w, c, read, seen)
      <4>1. CASE add' = [add EXCEPT ![r].todo = @ \ {w}]
        BY <1>c, <4>1
      <4>2. ASSUME NEW c, NEW read, NEW seen, add' = [add EXCEPT ![r] = PolledOf(r, w, c, read, seen)]
            PROVE  add'[r] = PolledOf(r, w, c, read, seen)
        BY <1>c, <4>2
      <4>3. \/ add' = [add EXCEPT ![r].todo = @ \ {w}]
            \/ \E c, read, seen : add' = [add EXCEPT ![r] = PolledOf(r, w, c, read, seen)]
        BY <2>1 DEF AddPollOf
      <4>. QED  BY <4>1, <4>2, <4>3
    <3>2. \A x \in Req : x # r => add'[x] = add[x]
      BY <1>c, <2>1 DEF AddPollOf
    <3>3. add[r].new \in [Watch -> WatchRow]
      BY <2>2 DEF Adding
    <3>. QED  BY <2>2, <3>1, <3>2, <3>3 DEF PolledOf, Adding
  <2>4. On' = On
    BY <2>1 DEF AddPollOf, On
  <2>5. (Watched \cup Claimed)' = Watched \cup Claimed
    BY <1>d, <2>2, <2>3, <2>4 DEF Watched, Claimed, Adders, Addr
  <2>6. OneAddress'
    BY <1>d, <2>1, <2>2, <2>3 DEF OneAddress, Adders, Addr
  <2>. QED  BY <1>1, <2>5, <2>6
<1>5. ASSUME NEW r \in Req, AddCommit(r)
      PROVE  Reserve' /\ OneAddress'
  <2>1. /\ add[r].pc = "polls" /\ add'[r].pc = "idle"
        /\ \A x \in Req : x # r => add'[x] = add[x]
    BY <1>c, <1>5 DEF AddCommit, NoAdd
  <2>2. \A w \in On' : w \in On \/ (w \in Watch /\ add[r].new[w].on)
    BY <1>5 DEF AddCommit, On
  <2>3. \A w \in On' : Addr(w) \in Watched \cup Claimed
    BY <2>1, <2>2 DEF OneAddress, Adders, Watched, Claimed
  <2>4. (Watched \cup Claimed)' \subseteq Watched \cup Claimed
    BY <1>d, <2>1, <2>3 DEF Watched, Claimed, Adders, Addr
  <2>5. OneAddress'
    BY <1>d, <2>1 DEF OneAddress, Adders, Addr
  <2>. QED  BY <1>1, <2>4, <2>5
<1>6. ASSUME NEW r \in Req, AddEnds(r)
      PROVE  Reserve' /\ OneAddress'
  <2>1. /\ add'[r].pc = "idle" /\ On' = On
        /\ \A x \in Req : x # r => add'[x] = add[x]
    BY <1>c, <1>6 DEF AddEnds, NoAdd, On
  <2>2. (Watched \cup Claimed)' \subseteq Watched \cup Claimed
    BY <1>d, <2>1 DEF Watched, Claimed, Adders, Addr
  <2>3. OneAddress'
    BY <1>d, <2>1 DEF OneAddress, Adders, Addr
  <2>. QED  BY <1>1, <2>2, <2>3
<1>7. ASSUME NEW w \in Watch, Delete(w)
      PROVE  Reserve' /\ OneAddress'
  BY <1>2, <1>c, <1>7 DEF Delete, On, Off
<1>8. ASSUME NEW w \in Mutes, Mute(w)
      PROVE  Reserve' /\ OneAddress'
  BY <1>2, <1>c, <1>8 DEF Mute, On, WatchRow
<1>9. CASE PollWrite \/ CutPoll
  <2>1. PICK seen : Store(seen)
    BY <1>9 DEF PollWrite, CutPoll
  <2>. QED  BY <1>2, <1>c, <2>1 DEF Store, On, WatchRow
<1>10. CASE Confirm \/ StartPass \/ Select \/ Consider \/ Save \/ SaveRefused \/ Finish
            \/ Abort \/ Crash \/ (\E w \in Watch : PollRead(w) \/ PollFails(w))
  <2>1. UNCHANGED <<watch, add>>
    BY <1>10 DEF Confirm, StartPass, Select, Consider, SkipMuted, Leave, Send, Unheard, Save,
       SaveRefused, Finish, Abort, Crash, PollRead, PollFails, Idle
  <2>. QED  BY <1>2, <2>1 DEF On
<1>11. CASE UNCHANGED vars
  BY <1>2, <1>11 DEF vars, On
<1>. QED  BY <1>3, <1>4, <1>5, <1>6, <1>7, <1>8, <1>9, <1>10, <1>11 DEF Next

(* However many additions overlap, of however many chains of an address, the  *)
(* limit is exceeded by fewer addresses than there are threads (add).         *)
THEOREM LimitIsKept == ASSUME Req # {} PROVE Spec => []LimitKept
<1>1. TypeOK /\ Reserve => LimitKept
  <2>. SUFFICES ASSUME Reserve PROVE LimitKept
    OBVIOUS
  <2>1. IsFiniteSet(Watched \cup Claimed) /\ Limit \in Nat /\ Cardinality(Req) \in Nat
    BY AddressesFinite, FS_Union
  <2>2. Cardinality(Watched) <= Cardinality(Watched \cup Claimed)
        /\ Cardinality(Watched) \in Nat /\ Cardinality(Watched \cup Claimed) \in Nat
    BY <2>1, AddressesFinite, FS_Subset, FS_CardinalityType
  <2>. QED  BY <2>1, <2>2 DEF Reserve, LimitKept
<1>2. Init => Reserve /\ OneAddress
  BY InitReserve
<1>. QED  BY <1>1, <1>2, ReserveStep, AlwaysTyped, PTL DEF Spec

-----------------------------------------------------------------------------
(* What the user is told of *)

(* The entries a pass holds: each of a row of its own, which waits as long as *)
(* the wallet the pass loaded is there; those marked without a message are of *)
(* wallets the user mutes, or of a user without Telegram, and the one just    *)
(* sent was told.                                                             *)
Quiet(e) == Of[e.t] \in Mutes \/ ~setting.tg
Held == pass.pend \cup pass.dirty
Marks ==
    /\ \A e \in Held : /\ e.gen <= adds
                       /\ Lives(e) => row[e.t] = "waiting"
                       /\ e.muted => Of[e.t] \in Mutes
    /\ \A e, f \in Held : e.t = f.t => e = f
    /\ pass.pend \cap pass.dirty = {}
    /\ \A e \in pass.dirty : Quiet(e)
    /\ pass.pc = "save" => pass.pend # {} /\ (Lives(Head) => told[Head.t] > 0)

(* Messages are matched by marks, lost marks and the mark about to be made.   *)
JustSent(t) == pass.pc = "save" /\ Head.t = t /\ Lives(Head)
Ledger ==
    \A t \in Tx : told[t] <= undone[t] + IF row[t] = "closed" \/ JustSent(t) THEN 1 ELSE 0

(* Nothing is left of a deleted wallet. *)
Gone == \A t \in Tx : ~watch[Of[t]].on => row[t] = "none" /\ told[t] = 0

Columns ==
    \A w \in Watch :
        /\ watch[w].gen <= adds /\ watch[w].created <= n
        /\ watch[w].muted => w \in Mutes
        /\ Positioned(w) /\ watch[w].read => watch[w].created <= watch[w].cursor

(* A transfer that was there when the wallet was added, and one that can no   *)
(* longer be on the latest page of its wallet.                                *)
Old(t)    == watch[Of[t]].read /\ t <= watch[Of[t]].created
Newer(t)  == {u \in 1..n : Of[u] = Of[t] /\ u > t}
Buried(t) == Window <= Cardinality(Newer(t))

(* Old transfers are stored as such, or are out of the reach of any read. *)
History ==
    \A t \in Tx : Old(t) =>
        /\ told[t] = 0 /\ row[t] \in {"none", "first"}
        /\ row[t] = "none" /\ ~Positioned(Of[t]) => Buried(t)

(* What a thread read before it adds its wallets, ... *)
AskedOf(r, w) ==
    LET x == add[r].new[w] IN
    /\ ~x.on => \A t \in add[r].seen : Of[t] # w
    /\ x.on => /\ x.created <= n /\ x.cursor <= x.created /\ ~x.muted
               /\ \A t \in add[r].seen : Of[t] = w => t <= x.created
               /\ x.read /\ Positioned(w) => x.cursor = x.created
               /\ x.read /\ ~Positioned(w) =>
                     \A t \in 1..x.created : Of[t] = w /\ t \notin add[r].seen => Buried(t)
Asked ==
    \A r \in Req : add[r].pc = "polls" => \A w \in Watch : AskedOf(r, w)

(* ... and what the worker read, for as long as the wallet is the one it read *)
(* for: none of it is old but what is stored.                                 *)
Polled ==
    /\ \A x \in pass.todo : x[2] <= adds
    /\ pass.pc = "write" =>
          /\ pass.at <= n
          /\ pass.seen \subseteq {t \in 1..pass.at : Of[t] = pass.w}
          /\ AtWallet => /\ \A t \in pass.seen : Old(t) => row[t] # "none"
                         /\ watch[pass.w].read => watch[pass.w].created <= pass.at

ToldInv ==
    /\ TypeOK /\ Marks /\ Ledger /\ Gone /\ Columns /\ History /\ Asked /\ Polled
    /\ ClosedIsTold /\ NothingSkipped

-----------------------------------------------------------------------------
LEMMA NewerFinite ==
    ASSUME TypeOK, NEW t
    PROVE  n \in Nat /\ IsFiniteSet(Newer(t)) /\ Cardinality(Newer(t)) \in Nat /\ Window \in Nat
<1>1. n \in Nat /\ Window \in Nat
  BY WalletsAssumption DEF TypeOK
<1>2. IsFiniteSet(1..n) /\ Newer(t) \in SUBSET (1..n)
  BY <1>1, FS_Interval DEF Newer
<1>. QED  BY <1>1, <1>2, FS_Subset, FS_CardinalityType

(* Once buried, a transfer stays so. *)
LEMMA BuriedStays ==
    ASSUME TypeOK, TypeOK', NEW t, n <= n', Buried(t)
    PROVE  Buried(t)'
<1>1. Newer(t) \subseteq Newer(t)' /\ IsFiniteSet(Newer(t)')
  <2>1. n \in Nat /\ n' \in Nat
    BY DEF TypeOK
  <2>2. Newer(t) \subseteq Newer(t)'
    BY <2>1 DEF Newer
  <2>3. IsFiniteSet(1..n') /\ Newer(t)' \in SUBSET (1..n')
    BY <2>1, FS_Interval DEF Newer
  <2>. QED  BY <2>2, <2>3, FS_Subset
<1>2. Cardinality(Newer(t)) <= Cardinality(Newer(t)') /\ Cardinality(Newer(t)') \in Nat
  BY <1>1, FS_Subset, FS_CardinalityType
<1>3. Cardinality(Newer(t)) \in Nat /\ Window \in Nat
  BY NewerFinite
<1>. QED  BY <1>2, <1>3 DEF Buried

(* A page without a position holds what is not buried. *)
LEMMA PageHolds ==
    ASSUME TypeOK, NEW w \in Watch, NEW c, NEW t \in 1..n, Of[t] = w, ~Positioned(w)
    PROVE  t \in Page(w, c) <=> ~Buried(t)
<1>1. {u \in Ahead(w, c) : u > t} = Newer(t)
  BY DEF Ahead, Newer
<1>2. t \in Ahead(w, c)
  BY DEF Ahead
<1>3. t \in Page(w, c) <=> Cardinality(Newer(t)) < Window
  BY <1>1, <1>2 DEF Page
<1>. QED  BY <1>3, NewerFinite DEF Buried

(* What threads read stays as it is while no thread moves. *)
LEMMA AskedStays == ASSUME Asked, UNCHANGED <<setting, n, add>> PROVE Asked'
<1>1. /\ \A t : Buried(t)' <=> Buried(t)
      /\ \A w : Positioned(w)' <=> Positioned(w)
  BY DEF Buried, Newer, Positioned
<1>2. ASSUME NEW r \in Req, NEW w \in Watch, AskedOf(r, w)
      PROVE  AskedOf(r, w)'
  BY <1>1, <1>2 DEF AskedOf
<1>. QED  BY <1>2 DEF Asked

LEMMA InitTold == Init => ToldInv
<1>. SUFFICES ASSUME Init PROVE ToldInv
  OBVIOUS
<1>1. TypeOK
  BY InitTyped
<1>2. Marks
  BY DEF Init, NoPass, Marks, Held
<1>3. Ledger /\ Gone
  BY DEF Init, Ledger, Gone
<1>4. Columns
  BY Constants DEF Init, Off, Columns
<1>5. History /\ NothingSkipped
  <2>1. \A t \in Tx : watch[Of[t]] = Off
    BY Constants DEF Init
  <2>. QED  BY <2>1 DEF History, Old, NothingSkipped, Off
<1>6. Asked /\ Polled
  BY DEF Init, NoAdd, NoPass, Asked, Polled
<1>7. ClosedIsTold
  BY DEF Init, ClosedIsTold
<1>. QED  BY <1>1, <1>2, <1>3, <1>4, <1>5, <1>6, <1>7 DEF ToldInv

-----------------------------------------------------------------------------
(* Steps that leave the tables alone *)

LEMMA RowsStay ==
    ASSUME ToldInv, TypeOK', UNCHANGED <<setting, n, watch, row, adds, add, told, missed>>,
           Marks', Ledger', Polled'
    PROVE  ToldInv'
<1>1. Gone' /\ Columns' /\ ClosedIsTold' /\ NothingSkipped'
  BY DEF ToldInv, Gone, Columns, ClosedIsTold, NothingSkipped, Positioned
<1>2. History' /\ Asked'
  BY AskedStays DEF ToldInv, History, Old, Buried, Newer, Positioned
<1>. QED  BY <1>1, <1>2 DEF ToldInv

(* The pass moves on with no message and no mark under way. *)
LEMMA PassMoves ==
    ASSUME ToldInv, TypeOK', UNCHANGED <<setting, n, watch, row, adds, add, told, undone, missed>>,
           pass.pc # "save", pass'.pc # "save",
           pass'.pend \cup pass'.dirty \subseteq Held,
           pass'.pend \cap pass'.dirty = {},
           \A e \in pass'.dirty : Quiet(e),
           Polled'
    PROVE  ToldInv'
<1>1. Marks /\ Ledger
  BY DEF ToldInv
<1>2. Marks'
  BY <1>1 DEF Marks, Held, Lives, Alive, Quiet
<1>3. Ledger'
  BY <1>1 DEF Ledger, JustSent
<1>. QED  BY <1>2, <1>3, RowsStay

(* A pass that is over holds nothing. *)
LEMMA PassEnds ==
    ASSUME ToldInv, TypeOK', UNCHANGED <<setting, n, watch, row, adds, add, told, undone, missed>>,
           pass.pc # "save", pass' = NoPass
    PROVE  ToldInv'
<1>1. Polled' /\ pass'.pc # "save" /\ pass'.pend = {} /\ pass'.dirty = {}
  BY DEF Polled, NoPass
<1>. QED  BY <1>1, PassMoves DEF Held

LEMMA StartPassTold == ASSUME ToldInv, TypeOK', StartPass PROVE ToldInv'
<1>1. /\ pass' = [NoPass EXCEPT !.pc = "polls", !.todo = {<<w, watch[w].gen>> : w \in On}]
      /\ adds' = adds
  BY DEF StartPass, Idle
<1>2. pass'.pc = "polls" /\ pass'.todo = {<<w, watch[w].gen>> : w \in On}
      /\ pass'.pend = {} /\ pass'.dirty = {}
  BY <1>1 DEF NoPass
<1>3. Polled'
  BY <1>1, <1>2 DEF Polled, ToldInv, Columns, On
<1>4. pass.pc # "save"
  BY DEF StartPass
<1>. QED  BY <1>2, <1>3, <1>4, PassMoves DEF StartPass, Idle

LEMMA PollReadTold == ASSUME ToldInv, TypeOK', NEW w \in Watch, PollRead(w) PROVE ToldInv'
<1>1. /\ TypeOK /\ Columns /\ History /\ Polled /\ Marks
      /\ pass \in Pass /\ n \in Nat /\ watch[w] \in WatchRow
  BY DEF ToldInv, TypeOK
<1>. PICK seen \in Reads(w, watch[w].cursor) :
         pass' = [pass EXCEPT !.pc = "write", !.w = w, !.at = n, !.seen = seen]
  BY DEF PollRead
<1>2. /\ pass'.pc = "write" /\ pass'.w = w /\ pass'.at = n /\ pass'.todo = pass.todo
      /\ pass'.seen = seen
      /\ pass'.pend = pass.pend /\ pass'.dirty = pass.dirty
  BY <1>1 DEF Pass
<1>3. UNCHANGED <<setting, n, watch, row, adds, add, told, undone, missed>> /\ pass.pc = "polls"
  BY DEF PollRead, AtTurn, Idle
<1>4. ASSUME NEW t \in seen, Old(t), row[t] = "none"
      PROVE  FALSE
  <2>1. t \in 1..n /\ t \in Tx /\ Of[t] = w /\ (Positioned(w) => t > watch[w].cursor)
    BY <1>1, ReadHolds
  <2>2. t <= watch[w].created /\ watch[w].read /\ (~Positioned(w) => Buried(t))
    BY <1>1, <1>4, <2>1 DEF Old, History
  <2>3. Positioned(w) => t <= watch[w].cursor
    BY <1>1, <2>1, <2>2 DEF Columns, WatchRow
  <2>4. ~Positioned(w) => t \in Page(w, watch[w].cursor)
    BY <1>1, ReadHolds
  <2>5. Positioned(w)
    BY <1>1, <2>1, <2>2, <2>4, PageHolds
  <2>. QED  BY <1>1, <2>1, <2>3, <2>5 DEF WatchRow
<1>5. seen \subseteq {t \in 1..n : Of[t] = w}
  BY <1>1, ReadHolds
<1>6. Polled'
  <2>1. \A x \in pass'.todo : x[2] <= adds'
    BY <1>1, <1>2, <1>3 DEF Polled
  <2>2. pass'.seen \subseteq {t \in 1..pass'.at : Of[t] = pass'.w} /\ pass'.at <= n'
    BY <1>1, <1>2, <1>3, <1>5
  <2>3. \A t \in pass'.seen : Old(t)' => row'[t] # "none"
    BY <1>2, <1>3, <1>4 DEF Old
  <2>4. watch'[pass'.w].read => watch'[pass'.w].created <= pass'.at
    BY <1>1, <1>2, <1>3 DEF Columns
  <2>. QED  BY <2>1, <2>2, <2>3, <2>4 DEF Polled
<1>. QED  BY <1>1, <1>2, <1>3, <1>6, PassMoves DEF Marks, Held

LEMMA PollFailsTold == ASSUME ToldInv, TypeOK', NEW w \in Watch, PollFails(w) PROVE ToldInv'
<1>1. pass \in Pass /\ Polled /\ Marks
  BY DEF ToldInv, TypeOK
<1>2. /\ pass'.pc = "polls" /\ pass'.todo \subseteq pass.todo
      /\ pass'.pend = pass.pend /\ pass'.dirty = pass.dirty
  BY <1>1 DEF PollFails, AtTurn, Pass
<1>3. UNCHANGED <<setting, n, watch, row, adds, add, told, undone, missed>> /\ pass.pc = "polls"
  BY DEF PollFails, AtTurn, Idle
<1>4. Polled'
  BY <1>1, <1>2, <1>3 DEF Polled
<1>. QED  BY <1>1, <1>2, <1>3, <1>4, PassMoves DEF Marks, Held

LEMMA SelectTold == ASSUME ToldInv, TypeOK', Select PROVE ToldInv'
<1>. DEFINE entry(t) == [t |-> t, gen |-> watch[Of[t]].gen, muted |-> watch[Of[t]].muted]
<1>1. Ledger /\ Columns
  BY DEF ToldInv
<1>2. /\ pass'.pc = "sends" /\ pass'.todo = {} /\ pass'.dirty = {}
      /\ pass'.pend = {entry(t) : t \in Unsent}
  BY DEF Select, NoPass
<1>3. UNCHANGED <<setting, n, watch, row, adds, add, told, undone, missed>> /\ pass.pc = "polls"
  BY DEF Select, Idle
<1>4. ASSUME NEW t \in Unsent
      PROVE  entry(t).t = t /\ entry(t).gen <= adds /\ row[t] = "waiting"
             /\ (entry(t).muted => Of[t] \in Mutes)
  BY <1>1, Constants DEF Unsent, Columns
<1>. HIDE DEF entry
<1>5. Marks'
  <2>1. \A e \in pass'.pend : /\ e.gen <= adds' /\ row'[e.t] = "waiting"
                              /\ e.muted => Of[e.t] \in Mutes
    BY <1>2, <1>3, <1>4
  <2>2. \A e, f \in pass'.pend : e.t = f.t => e = f
    BY <1>2, <1>4
  <2>. QED  BY <1>2, <2>1, <2>2 DEF Marks, Held
<1>6. Ledger'
  BY <1>1, <1>2, <1>3 DEF Ledger, JustSent
<1>7. Polled'
  BY <1>2 DEF Polled
<1>. QED  BY <1>3, <1>5, <1>6, <1>7, RowsStay

(* The row a pass is at: its entry, in time and kept by it. *)
LEMMA AtHead ==
    ASSUME ToldInv, pass.pend # {}
    PROVE  Head \in pass.pend /\ Head \in Held /\ Head \in Entry /\ Head.t \in Tx
<1>1. pass.pend \in SUBSET Entry
  BY DEF ToldInv, TypeOK, Pass
<1>. QED  BY <1>1, HeadFirst DEF Held, Entry

LEMMA SkipMutedTold == ASSUME ToldInv, TypeOK', SkipMuted PROVE ToldInv'
<1>1. pass \in Pass /\ Polled /\ Marks /\ Columns
  BY DEF ToldInv, TypeOK
<1>2. pass.pc = "sends" /\ Head \in pass.pend /\ Head.t \in Tx
  BY AtHead DEF SkipMuted, Usable
<1>3. /\ pass'.pc = "sends" /\ pass'.todo = pass.todo
      /\ pass'.pend = pass.pend \ {Head} /\ pass'.dirty = pass.dirty \cup {Head}
  BY <1>1, <1>2 DEF SkipMuted, PassOver, Pass
<1>4. Quiet(Head)
  BY <1>1, <1>2, Constants DEF SkipMuted, Silenced, HeadMuted, Marks, Held, Columns, Quiet
<1>5. UNCHANGED <<setting, n, watch, row, adds, add, told, undone, missed>>
  BY DEF SkipMuted, Idle
<1>6. Polled'
  BY <1>1, <1>3, <1>5 DEF Polled
<1>. QED  BY <1>1, <1>2, <1>3, <1>4, <1>5, <1>6, PassMoves DEF Marks, Held

LEMMA LeaveTold == ASSUME ToldInv, TypeOK', Leave PROVE ToldInv'
<1>1. pass \in Pass /\ Polled /\ Marks
  BY DEF ToldInv, TypeOK
<1>2. /\ pass'.pc = "sends" /\ pass.pc = "sends" /\ pass'.todo = pass.todo
      /\ pass'.pend = pass.pend \ {Head} /\ pass'.dirty = pass.dirty
  BY <1>1 DEF Leave, Usable, PassOver, Pass
<1>3. UNCHANGED <<setting, n, watch, row, adds, add, told, undone, missed>>
  BY DEF Leave, Idle
<1>4. Polled'
  BY <1>1, <1>2, <1>3 DEF Polled
<1>. QED  BY <1>1, <1>2, <1>3, <1>4, PassMoves DEF Marks, Held

LEMMA AbortTold == ASSUME ToldInv, TypeOK', Abort PROVE ToldInv'
<1>1. pass.pc # "save" /\ pass' = NoPass
  BY DEF Abort
<1>. QED  BY <1>1, PassEnds DEF Abort, Idle

-----------------------------------------------------------------------------
(* Sending *)

LEMMA SendTold == ASSUME ToldInv, TypeOK', Send PROVE ToldInv'
<1>1. /\ pass \in Pass /\ told \in [Tx -> Nat] /\ undone \in [Tx -> Nat]
      /\ Polled /\ Marks /\ Ledger /\ Gone /\ History
      /\ Columns /\ Asked /\ ClosedIsTold /\ NothingSkipped
  BY DEF ToldInv, TypeOK
<1>2. pass.pc = "sends" /\ pass.pend # {} /\ Head \in Held /\ Head.t \in Tx
  BY AtHead DEF Send, Usable
<1>3. /\ pass'.pc = "save" /\ pass'.todo = pass.todo
      /\ pass'.pend = pass.pend /\ pass'.dirty = pass.dirty
  BY <1>1 DEF Send, Pass
<1>4. Head' = Head /\ Held' = Held
  BY <1>3 DEF Head, Held
<1>5. UNCHANGED <<setting, n, watch, row, adds, add, undone, missed>>
  BY DEF Send, Idle
<1>6. \A e : Lives(e)' <=> Lives(e)
  BY <1>5 DEF Lives, Alive
<1>7. /\ Lives(Head) => told'[Head.t] = told[Head.t] + 1
      /\ \A t \in Tx : t # Head.t \/ ~Lives(Head) => told'[t] = told[t]
      /\ \A t \in Tx : told'[t] \in Nat /\ told'[t] >= told[t]
  BY <1>1, <1>2 DEF Send, Deliver
<1>8. Marks'
  BY <1>1, <1>2, <1>3, <1>4, <1>5, <1>6, <1>7 DEF Marks, Quiet
<1>9. Lives(Head) => row[Head.t] = "waiting" /\ watch[Of[Head.t]].on
  BY <1>1, <1>2 DEF Marks, Lives, Alive
<1>10. Ledger'
  <2>1. ASSUME NEW t \in Tx
        PROVE  told'[t] <= undone'[t] + IF row'[t] = "closed" \/ JustSent(t)' THEN 1 ELSE 0
    <3>1. told[t] <= undone[t] + (IF row[t] = "closed" THEN 1 ELSE 0)
      BY <1>1, <1>2 DEF Ledger, JustSent
    <3>2. JustSent(t)' <=> Head.t = t /\ Lives(Head)
      BY <1>3, <1>4, <1>6 DEF JustSent
    <3>. QED  BY <1>1, <1>5, <1>7, <1>9, <3>1, <3>2
  <2>. QED  BY <2>1 DEF Ledger
<1>11. Gone'
  BY <1>1, <1>5, <1>7, <1>9 DEF Gone
<1>12. History'
  BY <1>1, <1>5, <1>7, <1>9 DEF History, Old, Buried, Newer, Positioned
<1>13. Columns' /\ Asked' /\ NothingSkipped'
  BY <1>1, <1>5, AskedStays DEF Columns, NothingSkipped, Positioned
<1>14. ClosedIsTold'
  BY <1>1, <1>5, <1>7 DEF ClosedIsTold
<1>15. Polled'
  BY <1>1, <1>3, <1>5 DEF Polled
<1>. QED  BY <1>8, <1>10, <1>11, <1>12, <1>13, <1>14, <1>15 DEF ToldInv

(* One message and one lost answer more. *)
LEMMA UnheardTold == ASSUME ToldInv, TypeOK', Unheard PROVE ToldInv'
<1>1. /\ pass \in Pass /\ told \in [Tx -> Nat] /\ undone \in [Tx -> Nat]
      /\ Polled /\ Marks /\ Ledger /\ Gone /\ History
      /\ Columns /\ Asked /\ ClosedIsTold /\ NothingSkipped
  BY DEF ToldInv, TypeOK
<1>2. pass.pc = "sends" /\ pass.pend # {} /\ Head \in Held /\ Head.t \in Tx
  BY AtHead DEF Unheard, Usable
<1>3. /\ pass'.pc = "sends" /\ pass'.todo = pass.todo
      /\ pass'.pend \subseteq pass.pend /\ pass'.dirty = pass.dirty
  BY <1>1, <1>2 DEF Unheard, PassOver, Pass
<1>4. UNCHANGED <<setting, n, watch, row, adds, add, missed>>
  BY DEF Unheard, Idle
<1>5. \A e : Lives(e)' <=> Lives(e)
  BY <1>4 DEF Lives, Alive
<1>6. \A t \in Tx : \/ told'[t] = told[t] /\ undone'[t] = undone[t]
                   \/ /\ t = Head.t /\ Lives(Head)
                      /\ told'[t] = told[t] + 1 /\ undone'[t] = undone[t] + 1
  BY <1>1, <1>2 DEF Unheard, Deliver, MarkLost
<1>7. Marks'
  BY <1>1, <1>2, <1>3, <1>4, <1>5 DEF Marks, Held, Quiet
<1>8. Lives(Head) => row[Head.t] = "waiting" /\ watch[Of[Head.t]].on
  BY <1>1, <1>2 DEF Marks, Lives, Alive
<1>9. Ledger'
  <2>1. ASSUME NEW t \in Tx
        PROVE  told'[t] <= undone'[t] + IF row'[t] = "closed" \/ JustSent(t)' THEN 1 ELSE 0
    <3>1. told[t] <= undone[t] + (IF row[t] = "closed" THEN 1 ELSE 0)
      BY <1>1, <1>2 DEF Ledger, JustSent
    <3>. QED  BY <1>1, <1>4, <1>6, <3>1
  <2>. QED  BY <2>1 DEF Ledger
<1>10. Gone'
  BY <1>1, <1>4, <1>6, <1>8 DEF Gone
<1>11. History'
  BY <1>1, <1>4, <1>6, <1>8 DEF History, Old, Buried, Newer, Positioned
<1>12. Columns' /\ Asked' /\ NothingSkipped'
  BY <1>1, <1>4, AskedStays DEF Columns, NothingSkipped, Positioned
<1>13. ClosedIsTold'
  BY <1>1, <1>4, <1>6 DEF ClosedIsTold
<1>14. Polled'
  BY <1>1, <1>3, <1>4 DEF Polled
<1>. QED  BY <1>7, <1>9, <1>10, <1>11, <1>12, <1>13, <1>14 DEF ToldInv

(* A commit closes rows the pass holds. *)
LEMMA Closing ==
    ASSUME ToldInv, TypeOK', NEW es \in SUBSET Held, row' = Closed(es),
           UNCHANGED <<setting, n, watch, adds, add, told, undone, missed>>,
           \A e \in es : Lives(e) /\ ~Quiet(e) => told[e.t] > 0,
           pass.pc = "save" => Head \in es,
           pass'.pc # "save", pass'.pend \subseteq pass.pend \ es, pass'.dirty = {}, Polled'
    PROVE  ToldInv'
<1>1. /\ told \in [Tx -> Nat] /\ undone \in [Tx -> Nat]
      /\ Marks /\ Ledger /\ Gone /\ Columns /\ History /\ Asked /\ ClosedIsTold /\ NothingSkipped
  BY DEF ToldInv, TypeOK
<1>2. \A e : Lives(e)' <=> Lives(e)
  BY DEF Lives, Alive
<1>3. ASSUME NEW t \in Tx
      PROVE  \/ row'[t] = row[t] /\ ~(\E e \in es : e.t = t /\ Lives(e))
             \/ /\ row'[t] = "closed" /\ row[t] = "waiting" /\ watch[Of[t]].on
                /\ \E e \in es : e.t = t /\ Lives(e)
  BY <1>1 DEF Closed, Marks, Lives, Alive
<1>4. Marks'
  <2>1. ASSUME NEW e \in Held'
        PROVE  /\ e \in Held /\ e.gen <= adds' /\ (e.muted => Of[e.t] \in Mutes)
               /\ Lives(e)' => row'[e.t] = "waiting"
    <3>1. e \in Held /\ \A f \in es : f.t # e.t
      BY <1>1 DEF Marks, Held
    <3>2. e.t \in Tx
      BY <3>1 DEF ToldInv, TypeOK, Pass, Entry, Held
    <3>. QED  BY <1>1, <1>2, <1>3, <3>1, <3>2 DEF Marks
  <2>. QED  BY <1>1, <2>1 DEF Marks, Held
<1>5. Ledger'
  <2>1. ASSUME NEW t \in Tx
        PROVE  told'[t] <= undone'[t] + IF row'[t] = "closed" \/ JustSent(t)' THEN 1 ELSE 0
    <3>1. told[t] <= undone[t] + IF row[t] = "closed" \/ JustSent(t) THEN 1 ELSE 0
      BY <1>1 DEF Ledger
    <3>2. JustSent(t) => row'[t] = "closed"
      BY <1>3 DEF JustSent
    <3>. QED  BY <1>1, <1>3, <3>1, <3>2
  <2>. QED  BY <2>1 DEF Ledger
<1>6. Gone' /\ NothingSkipped'
  BY <1>1, <1>3 DEF Gone, NothingSkipped
<1>7. History'
  BY <1>1, <1>3 DEF History, Old, Buried, Newer, Positioned
<1>8. Columns' /\ Asked'
  BY <1>1, AskedStays DEF Columns, Positioned
<1>9. ClosedIsTold'
  BY <1>1, <1>3 DEF ClosedIsTold, Quiet
<1>. QED  BY <1>4, <1>5, <1>6, <1>7, <1>8, <1>9 DEF ToldInv

(* What follows a save. *)
LEMMA Saved ==
    ASSUME ToldInv, pass.pc = "save", pass' = AfterSave, UNCHANGED adds
    PROVE  /\ pass'.pc = "sends" /\ pass'.pend = pass.pend \ {Head} /\ pass'.dirty = {}
           /\ Head \in Held /\ Head.t \in Tx /\ Polled'
<1>1. pass \in Pass /\ Marks /\ Polled
  BY DEF ToldInv, TypeOK
<1>2. /\ pass'.pc = "sends" /\ pass'.pend = pass.pend \ {Head} /\ pass'.dirty = {}
      /\ pass'.todo = pass.todo
  BY <1>1 DEF AfterSave, PassOver, Pass
<1>3. Head \in Held /\ Head.t \in Tx
  BY <1>1, AtHead DEF Marks
<1>4. Polled'
  BY <1>1, <1>2 DEF Polled
<1>. QED  BY <1>2, <1>3, <1>4

LEMMA SaveTold == ASSUME ToldInv, TypeOK', Save PROVE ToldInv'
<1>. DEFINE es == pass.dirty \cup {Head}
<1>1. /\ pass.pc = "save" /\ pass' = AfterSave /\ row' = Closed(es)
      /\ UNCHANGED <<setting, n, watch, adds, add, told, undone, missed>>
  BY DEF Save, Idle
<1>2. Marks
  BY DEF ToldInv
<1>3. /\ pass'.pc = "sends" /\ pass'.pend = pass.pend \ {Head} /\ pass'.dirty = {}
      /\ Head \in Held /\ Polled'
  BY <1>1, Saved
<1>4. es \in SUBSET Held /\ pass'.pend \subseteq pass.pend \ es
  BY <1>2, <1>3 DEF Held, Marks
<1>5. \A e \in es : Lives(e) /\ ~Quiet(e) => told[e.t] > 0
  BY <1>1, <1>2 DEF Marks
<1>. QED  BY <1>1, <1>3, <1>4, <1>5, Closing

LEMMA FinishTold == ASSUME ToldInv, TypeOK', Finish PROVE ToldInv'
<1>1. /\ pass.pc = "sends" /\ pass' = NoPass /\ row' = Closed(pass.dirty)
      /\ UNCHANGED <<setting, n, watch, adds, add, told, undone, missed>>
  BY DEF Finish, Idle
<1>2. Marks
  BY DEF ToldInv
<1>3. pass'.pc = "idle" /\ pass'.pend = {} /\ pass'.dirty = {} /\ Polled'
  BY <1>1 DEF NoPass, Polled
<1>4. pass.dirty \in SUBSET Held
  BY DEF Held
<1>5. \A e \in pass.dirty : Lives(e) /\ ~Quiet(e) => told[e.t] > 0
  BY <1>2 DEF Marks
<1>. QED  BY <1>1, <1>3, <1>4, <1>5, Closing

(* The mark of the message just sent is lost. *)
LEMMA Losing ==
    ASSUME ToldInv, TypeOK', pass.pc = "save", MarkLost(Head),
           UNCHANGED <<setting, n, watch, row, adds, add, told, missed>>,
           pass'.pc # "save", pass'.pend \subseteq pass.pend, pass'.dirty = {}, Polled'
    PROVE  ToldInv'
<1>1. told \in [Tx -> Nat] /\ undone \in [Tx -> Nat] /\ Marks /\ Ledger
  BY DEF ToldInv, TypeOK
<1>2. Head.t \in Tx
  BY <1>1, AtHead DEF Marks
<1>3. Marks'
  BY <1>1 DEF Marks, Held, Lives, Alive, Quiet
<1>4. Ledger'
  <2>1. ASSUME NEW t \in Tx
        PROVE  told'[t] <= undone'[t] + IF row'[t] = "closed" \/ JustSent(t)' THEN 1 ELSE 0
    <3>1. told[t] <= undone[t] + IF row[t] = "closed" \/ JustSent(t) THEN 1 ELSE 0
      BY <1>1 DEF Ledger
    <3>2. JustSent(t) => undone'[t] = undone[t] + 1
      BY <1>1, <1>2 DEF JustSent, MarkLost
    <3>3. undone'[t] >= undone[t] /\ undone'[t] \in Nat
      BY <1>1, <1>2 DEF MarkLost
    <3>. QED  BY <1>1, <3>1, <3>2, <3>3
  <2>. QED  BY <2>1 DEF Ledger
<1>. QED  BY <1>3, <1>4, RowsStay

LEMMA SaveRefusedTold == ASSUME ToldInv, TypeOK', SaveRefused PROVE ToldInv'
<1>1. /\ pass.pc = "save" /\ pass' = AfterSave /\ MarkLost(Head)
      /\ UNCHANGED <<setting, n, watch, row, adds, add, told, missed>>
  BY DEF SaveRefused, Idle
<1>2. pass'.pc = "sends" /\ pass'.pend = pass.pend \ {Head} /\ pass'.dirty = {} /\ Polled'
  BY <1>1, Saved
<1>. QED  BY <1>1, <1>2, Losing

LEMMA CrashTold == ASSUME ToldInv, TypeOK', Crash PROVE ToldInv'
<1>1. pass' = NoPass /\ UNCHANGED <<setting, n, watch, row, adds, add, told, missed>>
  BY DEF Crash, Idle
<1>2. pass'.pc = "idle" /\ pass'.pend = {} /\ pass'.dirty = {} /\ Polled'
  BY <1>1 DEF NoPass, Polled
<1>3. CASE pass.pc = "save"
  BY <1>1, <1>2, <1>3, Losing DEF Crash
<1>4. CASE pass.pc # "save"
  BY <1>1, <1>4, PassEnds DEF Crash
<1>. QED  BY <1>3, <1>4

-----------------------------------------------------------------------------
(* Confirmations, polls and the site *)

LEMMA ConfirmTold == ASSUME ToldInv, TypeOK', Confirm PROVE ToldInv'
<1>1. /\ TypeOK /\ n \in Nat
      /\ Marks /\ Ledger /\ Gone /\ Columns /\ History /\ Asked /\ Polled
      /\ ClosedIsTold /\ NothingSkipped
  BY DEF ToldInv, TypeOK
<1>2. n' = n + 1 /\ UNCHANGED <<setting, watch, row, adds, add, pass, told, undone, missed>>
  BY DEF Confirm
<1>3. \A t : Buried(t) => Buried(t)'
  BY <1>1, <1>2, BuriedStays
<1>4. Marks' /\ Ledger' /\ Gone' /\ ClosedIsTold' /\ NothingSkipped'
  <2>1. Marks'
    BY <1>1, <1>2 DEF Marks, Held, Head, Lives, Alive, Quiet
  <2>2. Ledger'
    BY <1>1, <1>2 DEF Ledger, JustSent, Head, Lives, Alive
  <2>3. Gone' /\ ClosedIsTold' /\ NothingSkipped'
    BY <1>1, <1>2 DEF Gone, ClosedIsTold, NothingSkipped
  <2>. QED  BY <2>1, <2>2, <2>3
<1>5. Columns'
  BY <1>1, <1>2 DEF Columns, TypeOK, WatchRow, Positioned
<1>6. History'
  BY <1>1, <1>2, <1>3 DEF History, Old, Positioned
<1>7. Asked'
  BY <1>1, <1>2, <1>3 DEF Asked, AskedOf, TypeOK, Adding, WatchRow, Positioned
<1>8. Polled'
  BY <1>1, <1>2 DEF Polled, AtWallet, Old, TypeOK, Pass
<1>. QED  BY <1>4, <1>5, <1>6, <1>7, <1>8 DEF ToldInv

(* Only a thread of the site moves. *)
LEMMA ThreadMoves ==
    ASSUME ToldInv, TypeOK', UNCHANGED <<setting, n, watch, row, adds, pass, told, undone, missed>>, Asked'
    PROVE  ToldInv'
<1>1. Marks' /\ Ledger' /\ Gone' /\ ClosedIsTold' /\ NothingSkipped'
  BY DEF ToldInv, Marks, Held, Head, Lives, Alive, Quiet, Ledger, JustSent, Gone, ClosedIsTold,
         NothingSkipped
<1>2. Columns' /\ History' /\ Polled'
  BY DEF ToldInv, Columns, History, Buried, Newer, Polled, AtWallet, Old, Positioned
<1>. QED  BY <1>1, <1>2 DEF ToldInv

LEMMA AddStartTold ==
    ASSUME ToldInv, TypeOK', NEW r \in Req, NEW a \in Address, AddStart(r, a)
    PROVE  ToldInv'
<1>1. add \in [Req -> Adding] /\ Asked
  BY DEF ToldInv, TypeOK
<1>2. /\ UNCHANGED <<setting, n, watch, row, adds, pass, told, undone, missed>>
      /\ add'[r].seen = {} /\ \A w \in Watch : ~add'[r].new[w].on
      /\ \A x \in Req : x # r => add'[x] = add[x]
  BY <1>1 DEF AddStart, NoAdd, Off
<1>3. Asked'
  BY <1>1, <1>2 DEF Asked, AskedOf, Buried, Newer, Positioned
<1>. QED  BY <1>2, <1>3, ThreadMoves

LEMMA AddPollTold == ASSUME ToldInv, TypeOK', NEW r \in Req, AddPoll(r) PROVE ToldInv'
<1>. PICK w \in add[r].todo : AddPollOf(r, w)
  BY PollOf
<1>1. /\ TypeOK /\ n \in Nat /\ add \in [Req -> Adding] /\ add[r] \in Adding /\ Asked
      /\ w \in Watch /\ add[r].new \in [Watch -> WatchRow]
  BY DEF ToldInv, TypeOK, Adding
<1>2. /\ UNCHANGED <<setting, n, watch, row, adds, pass, told, undone, missed>>
      /\ add[r].pc = "polls" /\ \A x \in Req : x # r => add'[x] = add[x]
  BY <1>1 DEF AddPollOf
<1>3. \A t : Buried(t)' <=> Buried(t)
  BY <1>2 DEF Buried, Newer
<1>4. \A x \in Watch : Positioned(x)' <=> Positioned(x)
  BY <1>2 DEF Positioned
<1>5. \A x \in Req : \A v \in Watch : add'[x].new[v] = add[x].new[v] /\ add'[x].seen = add[x].seen
                                      /\ add[x].pc = "polls" => AskedOf(x, v)'
  BY <1>1, <1>2, <1>3, <1>4 DEF Asked, AskedOf
<1>6. ASSUME NEW c \in Nat, NEW read \in BOOLEAN, NEW seen \in SUBSET Tx,
             add' = [add EXCEPT ![r] = PolledOf(r, w, c, read, seen)],
             \A t \in seen : t <= n /\ Of[t] = w,
             c <= n, read /\ Positioned(w) => c = n,
             read /\ ~Positioned(w) => \A t \in 1..n : Of[t] = w /\ t \notin seen => Buried(t)
      PROVE  \A v \in Watch : AskedOf(r, v)'
  <2>1. /\ add'[r].seen = add[r].seen \cup seen
        /\ add'[r].new[w] = NewRow(c, read)
        /\ \A v \in Watch : v # w => add'[r].new[v] = add[r].new[v]
    BY <1>1, <1>6 DEF PolledOf, Adding
  <2>2. \A v \in Watch : AskedOf(r, v)
    BY <1>1, <1>2 DEF Asked
  <2>3. \A t \in add[r].seen : Of[t] = w => t <= n
    <3>1. add[r].seen \in SUBSET Tx /\ add[r].new[w] \in WatchRow
      BY <1>1 DEF Adding
    <3>2. add[r].new[w].created \in Nat /\ add[r].new[w].on \in BOOLEAN
      BY <3>1 DEF WatchRow
    <3>3. \A t \in add[r].seen : t \in Nat
      BY <3>1, Constants
    <3>. QED  BY <1>1, <2>2, <3>2, <3>3 DEF AskedOf
  <2>4. AskedOf(r, w)'
    BY <1>1, <1>2, <1>3, <1>4, <1>6, <2>1, <2>3 DEF AskedOf, NewRow
  <2>5. ASSUME NEW v \in Watch, v # w
        PROVE  AskedOf(r, v)'
    BY <1>2, <1>3, <1>4, <1>6, <2>1, <2>2, <2>5 DEF AskedOf
  <2>. QED  BY <2>4, <2>5
<1>7. \A v \in Watch : AskedOf(r, v)'
  <2>1. CASE add' = [add EXCEPT ![r].todo = @ \ {w}]
    <3>1. add'[r].new = add[r].new /\ add'[r].seen = add[r].seen
      BY <1>1, <2>1 DEF Adding
    <3>. QED  BY <1>2, <1>5, <3>1
  <2>2. ASSUME NEW seen \in Reads(w, 0), add' = [add EXCEPT ![r] = PolledOf(r, w, Stands(w), TRUE, seen)]
        PROVE  \A v \in Watch : AskedOf(r, v)'
    <3>1. \A t \in seen : t \in 1..n /\ t \in Tx /\ Of[t] = w
      BY <1>1, ReadHolds
    <3>2. ~Positioned(w) => \A t \in 1..n : Of[t] = w /\ t \notin seen => Buried(t)
      BY <1>1, ReadHolds, PageHolds
    <3>3. Stands(w) \in Nat /\ Stands(w) <= n /\ (Positioned(w) => Stands(w) = n)
      BY <1>1 DEF Stands
    <3>4. seen \in SUBSET Tx /\ \A t \in seen : t <= n /\ Of[t] = w
      BY <1>1, <3>1
    <3>. QED  BY <1>6, <2>2, <3>2, <3>3, <3>4
  <2>3. ASSUME NEW c \in {0, Stands(w)}, add' = [add EXCEPT ![r] = PolledOf(r, w, c, FALSE, {})]
        PROVE  \A v \in Watch : AskedOf(r, v)'
    <3>1. c \in Nat /\ c <= n /\ {} \in SUBSET Tx
      BY <1>1 DEF Stands
    <3>. QED  BY <1>6, <2>3, <3>1
  <2>. QED  BY <2>1, <2>2, <2>3 DEF AddPollOf
<1>8. Asked'
  <2>1. ASSUME NEW x \in Req, x # r, add'[x].pc = "polls", NEW v \in Watch
        PROVE  AskedOf(x, v)'
    BY <1>2, <1>5, <2>1
  <2>. QED  BY <1>7, <2>1 DEF Asked
<1>. QED  BY <1>2, <1>8, ThreadMoves

LEMMA AddEndsTold == ASSUME ToldInv, TypeOK', NEW r \in Req, AddEnds(r) PROVE ToldInv'
<1>1. add \in [Req -> Adding] /\ Asked
  BY DEF ToldInv, TypeOK
<1>2. Asked'
  BY <1>1 DEF AddEnds, Asked, AskedOf, NoAdd, Buried, Newer, Positioned
<1>. QED  BY <1>2, ThreadMoves DEF AddEnds

LEMMA DeleteTold == ASSUME ToldInv, TypeOK', NEW w \in Watch, Delete(w) PROVE ToldInv'
<1>1. /\ watch \in [Watch -> WatchRow] /\ pass \in Pass /\ Of \in [Tx -> Watch]
      /\ told \in [Tx -> Nat] /\ undone \in [Tx -> Nat] /\ row \in [Tx -> RowState]
      /\ Marks /\ Ledger /\ Gone /\ Columns /\ History /\ Asked /\ Polled
      /\ ClosedIsTold /\ NothingSkipped /\ n \in Nat /\ adds \in Nat
  BY Constants DEF ToldInv, TypeOK
<1>2. /\ UNCHANGED <<setting, n, adds, add, pass>>
      /\ watch'[w] = Off /\ \A x \in Watch : x # w => watch'[x] = watch[x]
      /\ \A t \in Tx : Of[t] = w => row'[t] = "none" /\ told'[t] = 0 /\ undone'[t] = 0
      /\ \A t \in Tx : Of[t] # w => row'[t] = row[t] /\ told'[t] = told[t] /\ undone'[t] = undone[t]
      /\ \A t \in missed : Of[t] # w => t \in missed'
  BY <1>1 DEF Delete
<1>3. Off.on = FALSE /\ Off.gen = 0 /\ Off.muted = FALSE /\ Off.read = FALSE /\ Off.created = 0
  BY DEF Off
<1>4. \A e \in Held : /\ e.t \in Tx
                      /\ Of[e.t] = w => ~Lives(e)'
                      /\ Of[e.t] # w => (Lives(e)' <=> Lives(e))
  BY <1>1, <1>2, <1>3 DEF Lives, Alive, Held, Pass, Entry
<1>5. Held' = Held /\ Head' = Head
  BY <1>2 DEF Held, Head
<1>6. pass.pc = "save" => Head \in Held
  BY <1>1, AtHead DEF Marks
<1>7. Marks'
  BY <1>1, <1>2, <1>4, <1>5, <1>6 DEF Marks, Quiet
<1>8. Ledger'
  <2>1. ASSUME NEW t \in Tx
        PROVE  told'[t] <= undone'[t] + IF row'[t] = "closed" \/ JustSent(t)' THEN 1 ELSE 0
    <3>1. CASE Of[t] = w
      BY <1>2, <3>1
    <3>2. CASE Of[t] # w
      <4>1. JustSent(t)' <=> JustSent(t)
        BY <1>2, <1>4, <1>5, <1>6, <3>2 DEF JustSent
      <4>. QED  BY <1>1, <1>2, <3>2, <4>1 DEF Ledger
    <3>. QED  BY <3>1, <3>2
  <2>. QED  BY <2>1 DEF Ledger
<1>9. Gone' /\ ClosedIsTold' /\ NothingSkipped'
  BY <1>1, <1>2, <1>3 DEF Gone, ClosedIsTold, NothingSkipped
<1>10. Columns'
  BY <1>1, <1>2, <1>3 DEF Columns, Positioned
<1>11. History'
  BY <1>1, <1>2, <1>3 DEF History, Old, Buried, Newer, Positioned
<1>12. Asked'
  BY <1>1, <1>2, AskedStays
<1>13. Polled'
  <2>1. CASE pass.w = w
    BY <1>1, <1>2, <1>3, <2>1 DEF Polled, AtWallet
  <2>2. CASE pass.w # w
    <3>1. pass.w \in Watch /\ pass.seen \in SUBSET Tx
      BY <1>1 DEF Pass
    <3>2. watch'[pass.w] = watch[pass.w] /\ (AtWallet' <=> AtWallet)
      BY <1>2, <2>2, <3>1 DEF AtWallet
    <3>3. \A t \in Tx : Of[t] = pass.w => row'[t] = row[t] /\ (Old(t)' <=> Old(t))
      BY <1>2, <2>2, <3>2 DEF Old
    <3>. QED  BY <1>1, <1>2, <3>1, <3>2, <3>3 DEF Polled
  <2>. QED  BY <2>1, <2>2
<1>. QED  BY <1>7, <1>8, <1>9, <1>10, <1>11, <1>12, <1>13 DEF ToldInv

LEMMA MuteTold == ASSUME ToldInv, TypeOK', NEW w \in Mutes, Mute(w) PROVE ToldInv'
<1>1. /\ watch \in [Watch -> WatchRow] /\ pass \in Pass /\ Of \in [Tx -> Watch] /\ w \in Watch
      /\ Marks /\ Ledger /\ Gone /\ Columns /\ History /\ Asked /\ Polled
      /\ ClosedIsTold /\ NothingSkipped
  BY WalletsAssumption DEF ToldInv, TypeOK
<1>2. /\ UNCHANGED <<setting, n, row, adds, add, pass, told, undone, missed>>
      /\ \A x \in Watch : /\ watch'[x].on = watch[x].on /\ watch'[x].gen = watch[x].gen
                          /\ watch'[x].created = watch[x].created
                          /\ watch'[x].read = watch[x].read
                          /\ watch'[x].cursor = watch[x].cursor
                          /\ x # w => watch'[x].muted = watch[x].muted
  BY <1>1 DEF Mute, WatchRow
<1>3. \A e \in Held : Lives(e)' <=> Lives(e)
  BY <1>1, <1>2 DEF Lives, Alive, Held, Pass, Entry
<1>4. Held' = Held /\ Head' = Head /\ (pass.pc = "save" => Head \in Held)
  BY <1>1, <1>2, AtHead DEF Held, Head, Marks
<1>5. Marks' /\ Ledger'
  BY <1>1, <1>2, <1>3, <1>4 DEF Marks, Quiet, Ledger, JustSent
<1>6. Gone' /\ ClosedIsTold' /\ NothingSkipped' /\ Columns'
  BY <1>1, <1>2 DEF Gone, ClosedIsTold, NothingSkipped, Columns, Positioned
<1>7. History' /\ Asked'
  BY <1>1, <1>2, AskedStays DEF History, Old, Buried, Newer, Positioned
<1>8. Polled'
  <2>1. pass.w \in Watch /\ \A t \in pass.seen : Of[t] \in Watch
    BY <1>1 DEF Pass
  <2>. QED  BY <1>1, <1>2, <2>1 DEF Polled, AtWallet, Old
<1>. QED  BY <1>5, <1>6, <1>7, <1>8 DEF ToldInv

(* A poll stores some of what it read and moves the position to where it      *)
(* stood; what it leaves behind counts as missed.                             *)
LEMMA Storing ==
    ASSUME ToldInv, TypeOK', AtWallet, NEW seen \in SUBSET pass.seen, Store(seen),
           missed' = missed \cup Skipped(pass.w, watch[pass.w].cursor, pass.at, seen),
           pass'.pc \in {"idle", "polls"}, pass'.todo \subseteq pass.todo,
           pass'.pend \subseteq pass.pend, pass'.dirty \subseteq pass.dirty
    PROVE  ToldInv'
<1>. DEFINE w == pass.w
<1>1. /\ watch \in [Watch -> WatchRow] /\ pass \in Pass /\ Of \in [Tx -> Watch] /\ w \in Watch
      /\ row \in [Tx -> RowState] /\ n \in Nat /\ pass.at \in Nat /\ pass.pc = "write"
      /\ told \in [Tx -> Nat] /\ undone \in [Tx -> Nat]
      /\ Marks /\ Ledger /\ Gone /\ Columns /\ History /\ Asked /\ Polled
      /\ ClosedIsTold /\ NothingSkipped
  BY WalletsAssumption DEF ToldInv, TypeOK, Pass, AtWallet
<1>2. /\ pass.at <= n /\ watch[w].on
      /\ \A t \in seen : t \in 1..pass.at /\ Of[t] = w /\ (Old(t) => row[t] # "none")
      /\ watch[w].read => watch[w].created <= pass.at
  BY <1>1 DEF Polled, AtWallet
<1>3. /\ UNCHANGED <<setting, n, adds, add, told, undone>>
      /\ \A x \in Watch : /\ watch'[x].on = watch[x].on /\ watch'[x].gen = watch[x].gen
                          /\ watch'[x].created = watch[x].created
                          /\ watch'[x].read = watch[x].read
                          /\ watch'[x].muted = watch[x].muted
                          /\ x # w => watch'[x].cursor = watch[x].cursor
      /\ watch'[w].cursor = Position(w)
  BY <1>1 DEF Store, WatchRow
<1>4. ASSUME NEW t \in Tx
      PROVE  /\ t \in seen => row'[t] # "none"
             /\ row[t] # "none" => row'[t] = row[t]
             /\ t \notin seen => row'[t] = row[t]
             /\ row'[t] = "closed" => row[t] = "closed"
  <2>1. row'[t] = IF t \in seen /\ row[t] = "none" THEN Stored(t, FALSE) ELSE row[t]
    BY DEF Store, Insert
  <2>2. Stored(t, FALSE) \in {"hidden", "waiting"}
    BY DEF Stored
  <2>. QED  BY <2>1, <2>2
<1>5. \A e \in Held : e.t \in Tx /\ (Lives(e)' <=> Lives(e))
  BY <1>1, <1>3 DEF Lives, Alive, Held, Pass, Entry
<1>6. Held' \subseteq Held
  BY DEF Held
<1>7. Marks'
  BY <1>1, <1>3, <1>4, <1>5, <1>6 DEF Marks, Held, Quiet
<1>8. Ledger'
  BY <1>1, <1>3, <1>4 DEF Ledger, JustSent
<1>9. Gone' /\ ClosedIsTold'
  <2>1. \A t \in Tx : ~watch[Of[t]].on => t \notin seen
    BY <1>2
  <2>. QED  BY <1>1, <1>3, <1>4, <2>1 DEF Gone, ClosedIsTold
<1>10. Columns'
  BY <1>1, <1>2, <1>3 DEF Columns, Position, Positioned
<1>11. History'
  <2>1. ASSUME NEW t \in Tx, Old(t)'
        PROVE  Old(t) /\ row'[t] = row[t] /\ (Buried(t)' <=> Buried(t))
    BY <1>1, <1>2, <1>3, <1>4, <2>1 DEF Old, Buried, Newer
  <2>. QED  BY <1>1, <1>3, <2>1 DEF History, Positioned
<1>12. Asked'
  BY <1>1, <1>3, AskedStays
<1>13. Polled'
  BY <1>1, <1>3 DEF Polled
<1>14. NothingSkipped'
  <2>1. ASSUME NEW t \in Tx, watch'[Of[t]].on, watch'[Of[t]].created < t,
               t <= watch'[Of[t]].cursor, row'[t] = "none"
        PROVE  t \in missed'
    <3>1. row[t] = "none" /\ t \notin seen
      BY <1>4, <2>1
    <3>2. CASE Of[t] = w /\ t > watch[w].cursor
      <4>1. Positioned(w) /\ t <= pass.at
        BY <1>1, <1>3, <2>1, <3>2, Constants DEF Position, WatchRow
      <4>2. t \in 1..n
        BY <1>1, <1>2, <4>1 DEF Tx
      <4>3. t \in Skipped(w, watch[w].cursor, pass.at, seen)
        BY <3>1, <3>2, <4>1, <4>2 DEF Skipped, Ahead
      <4>. QED  BY <4>3
    <3>3. CASE ~(Of[t] = w /\ t > watch[w].cursor)
      <4>1. Of[t] \in Watch /\ t \in Nat /\ watch[w].cursor \in Nat
        BY <1>1, Constants DEF WatchRow
      <4>2. t <= watch[Of[t]].cursor
        BY <1>1, <1>3, <2>1, <3>3, <4>1
      <4>. QED  BY <1>1, <1>3, <2>1, <3>1, <4>1, <4>2 DEF NothingSkipped
    <3>. QED  BY <3>2, <3>3
  <2>. QED  BY <2>1 DEF NothingSkipped
<1>. QED  BY <1>7, <1>8, <1>9, <1>10, <1>11, <1>12, <1>13, <1>14 DEF ToldInv

LEMMA PollWriteTold == ASSUME ToldInv, TypeOK', PollWrite PROVE ToldInv'
<1>1. /\ pass'.pc = "polls" /\ pass'.todo \subseteq pass.todo
      /\ pass'.pend = pass.pend /\ pass'.dirty = pass.dirty
  BY DEF PollWrite, ToldInv, TypeOK, Pass
<1>. QED  BY <1>1, Storing DEF PollWrite

LEMMA CutPollTold == ASSUME ToldInv, TypeOK', CutPoll PROVE ToldInv'
<1>1. PICK last : LET kept == {t \in pass.seen : t <= last} IN
          /\ Store(kept)
          /\ missed' = missed \cup Skipped(pass.w, watch[pass.w].cursor, pass.at, kept)
  BY DEF CutPoll
<1>2. {t \in pass.seen : t <= last} \in SUBSET pass.seen
  OBVIOUS
<1>3. pass'.pc = "idle" /\ pass'.todo = {} /\ pass'.pend = {} /\ pass'.dirty = {}
  BY DEF CutPoll, NoPass
<1>. QED  BY <1>1, <1>2, <1>3, Storing DEF CutPoll

(* Wallets appear: they are none of those a pass loaded, and what was there   *)
(* before them is stored as such where the first poll succeeded.              *)
LEMMA AddCommitTold == ASSUME ToldInv, TypeOK', NEW r \in Req, AddCommit(r) PROVE ToldInv'
<1>. DEFINE New == {w \in Watch : add[r].new[w].on}
            new(w) == add[r].new[w]
            seen == add[r].seen
<1>1. /\ watch \in [Watch -> WatchRow] /\ pass \in Pass /\ Of \in [Tx -> Watch]
      /\ add \in [Req -> Adding] /\ add[r] \in Adding
      /\ row \in [Tx -> RowState] /\ n \in Nat /\ adds \in Nat
      /\ told \in [Tx -> Nat] /\ undone \in [Tx -> Nat]
      /\ Marks /\ Ledger /\ Gone /\ Columns /\ History /\ Asked /\ Polled
      /\ ClosedIsTold /\ NothingSkipped
  BY WalletsAssumption DEF ToldInv, TypeOK
<1>2. /\ add[r].pc = "polls" /\ \A w \in New : ~watch[w].on
      /\ \A w \in Watch : AskedOf(r, w) /\ new(w) \in WatchRow
      /\ seen \in SUBSET Tx
  BY <1>1 DEF AddCommit, On, Asked, Adding
<1>3. /\ UNCHANGED <<setting, n, pass, told, undone, missed>>
      /\ adds' \in Nat /\ adds + 1 <= adds'
      /\ \A x \in Req : x # r => add'[x] = add[x]
      /\ add'[r].pc = "idle"
      /\ \A x \in Watch : x \notin New => watch'[x] = watch[x]
      /\ \A x \in New : /\ watch'[x].on /\ watch'[x].gen = adds + 1 /\ watch'[x].muted = new(x).muted
                        /\ watch'[x].cursor = new(x).cursor /\ watch'[x].created = new(x).created
                        /\ watch'[x].read = new(x).read
  <2>1. adds' \in Nat /\ adds + 1 <= adds'
    BY NewCounted, Constants DEF ToldInv
  <2>2. \A x \in New : watch'[x] = [new(x) EXCEPT !.gen = adds + 1]
    BY DEF AddCommit
  <2>. QED  BY <1>1, <1>2, <2>1, <2>2 DEF AddCommit, NoAdd, WatchRow
<1>a. \A t \in seen : Of[t] \in New
  BY <1>1, <1>2 DEF AskedOf
<1>4. ASSUME NEW t \in Tx
      PROVE  /\ row[t] # "none" => row'[t] = row[t]
             /\ t \in seen => row'[t] # "none"
             /\ t \notin seen => row'[t] = row[t]
             /\ row'[t] \in {row[t], "first"}
             /\ Of[t] \notin New => t \notin seen
             /\ Of[t] \in New => row[t] = "none" /\ told[t] = 0
  <2>1. Stored(t, TRUE) = "first"
    BY DEF Stored
  <2>2. row'[t] = IF t \in seen /\ row[t] = "none" THEN Stored(t, TRUE) ELSE row[t]
    BY DEF AddCommit, Insert
  <2>3. Of[t] \in New => row[t] = "none" /\ told[t] = 0
    BY <1>1, <1>2 DEF Gone
  <2>. QED  BY <1>a, <2>1, <2>2, <2>3
<1>. HIDE DEF New
<1>5. \A e \in Held : /\ e.t \in Tx /\ e.gen \in Nat /\ e.gen <= adds
                      /\ Of[e.t] \in New => ~Lives(e) /\ ~Lives(e)'
                      /\ Of[e.t] \notin New => (Lives(e)' <=> Lives(e))
  BY <1>1, <1>2, <1>3 DEF Lives, Alive, Held, Pass, Entry, Marks
<1>6. Held' = Held /\ Head' = Head /\ (pass.pc = "save" => Head \in Held)
  BY <1>1, <1>3, AtHead DEF Held, Head, Marks
<1>7. \A e \in Held : Lives(e)' <=> Lives(e)
  BY <1>5
<1>8. Marks'
  <2>1. ASSUME NEW e \in Held
        PROVE  /\ e.gen <= adds' /\ (e.muted => Of[e.t] \in Mutes)
               /\ Lives(e)' => row'[e.t] = "waiting"
    <3>1. /\ (e.muted => Of[e.t] \in Mutes)
          /\ Lives(e) => row[e.t] = "waiting"
      BY <1>1 DEF Marks
    <3>2. Lives(e)' => row'[e.t] = "waiting"
      BY <1>4, <1>5, <1>7, <3>1
    <3>3. e.gen <= adds'
      BY <1>1, <1>3, <1>5
    <3>. QED  BY <3>1, <3>2, <3>3
  <2>. QED  BY <1>1, <1>3, <1>6, <1>7, <2>1 DEF Marks, Quiet
<1>9. Ledger'
  <2>1. ASSUME NEW t \in Tx
        PROVE  told'[t] <= undone'[t] + IF row'[t] = "closed" \/ JustSent(t)' THEN 1 ELSE 0
    <3>1. told[t] <= undone[t] + IF row[t] = "closed" \/ JustSent(t) THEN 1 ELSE 0
      BY <1>1 DEF Ledger
    <3>2. JustSent(t)' <=> JustSent(t)
      BY <1>3, <1>6, <1>7 DEF JustSent
    <3>. QED  BY <1>1, <1>3, <1>4, <3>1, <3>2
  <2>. QED  BY <2>1 DEF Ledger
<1>10. Gone' /\ ClosedIsTold'
  <2>1. ASSUME NEW t \in Tx, ~watch'[Of[t]].on
        PROVE  row'[t] = "none" /\ told'[t] = 0
    <3>1. Of[t] \notin New
      BY <1>3, <2>1
    <3>2. watch'[Of[t]] = watch[Of[t]]
      BY <1>1, <1>3, <3>1
    <3>. QED  BY <1>1, <1>3, <1>4, <2>1, <3>1, <3>2 DEF Gone
  <2>2. ClosedIsTold'
    BY <1>1, <1>3, <1>4 DEF ClosedIsTold
  <2>. QED  BY <2>1, <2>2 DEF Gone
<1>11. Columns'
  <2>1. ASSUME NEW w \in Watch
        PROVE  /\ watch'[w].gen <= adds' /\ watch'[w].created <= n'
               /\ watch'[w].muted => w \in Mutes
               /\ Positioned(w)' /\ watch'[w].read => watch'[w].created <= watch'[w].cursor
    <3>1. CASE w \in New
      <4>1. AskedOf(r, w) /\ new(w).on
        BY <1>2, <3>1 DEF New
      <4>. QED  BY <1>1, <1>2, <1>3, <3>1, <4>1 DEF AskedOf, WatchRow, Positioned
    <3>2. CASE w \notin New
      BY <1>1, <1>3, <2>1, <3>2 DEF Columns, WatchRow, Positioned
    <3>. QED  BY <3>1, <3>2
  <2>. QED  BY <2>1 DEF Columns
<1>12. History'
  <2>1. ASSUME NEW t \in Tx, Old(t)'
        PROVE  /\ told'[t] = 0 /\ row'[t] \in {"none", "first"}
               /\ row'[t] = "none" /\ ~Positioned(Of[t])' => Buried(t)'
    <3>1. (Buried(t)' <=> Buried(t)) /\ (Positioned(Of[t])' <=> Positioned(Of[t]))
      BY <1>3 DEF Buried, Newer, Positioned
    <3>2. CASE Of[t] \in New
      <4>1. AskedOf(r, Of[t]) /\ new(Of[t]).on
        BY <1>1, <1>2, <3>2 DEF New
      <4>2. new(Of[t]).read /\ t \in 1..new(Of[t]).created
        BY <1>1, <1>2, <1>3, <2>1, <3>2 DEF Old, Tx, WatchRow
      <4>. QED  BY <1>3, <1>4, <3>1, <3>2, <4>1, <4>2 DEF AskedOf
    <3>3. CASE Of[t] \notin New
      BY <1>1, <1>3, <1>4, <2>1, <3>1, <3>3 DEF Old, History
    <3>. QED  BY <3>2, <3>3
  <2>. QED  BY <2>1 DEF History
<1>13. Asked'
  BY <1>1, <1>3 DEF Asked, AskedOf, Buried, Newer, Positioned
<1>14. Polled'
  <2>1. \A x \in pass.todo : x[2] <= adds /\ x[2] \in Nat
    BY <1>1 DEF Polled, Pass
  <2>0. \A x \in pass'.todo : x[2] <= adds'
    BY <1>1, <1>3, <2>1
  <2>2. CASE pass.w \in New
    <3>1. ~AtWallet'
      BY <1>1, <1>3, <2>1, <2>2 DEF AtWallet
    <3>. QED  BY <1>1, <1>3, <2>0, <2>1, <3>1 DEF Polled
  <2>3. CASE pass.w \notin New
    <3>1. pass.w \in Watch /\ pass.seen \in SUBSET Tx
      BY <1>1 DEF Pass
    <3>2. watch'[pass.w] = watch[pass.w] /\ (AtWallet' <=> AtWallet)
      BY <1>3, <2>3, <3>1 DEF AtWallet
    <3>3. \A t \in Tx : Of[t] = pass.w => row'[t] = row[t] /\ (Old(t)' <=> Old(t))
      BY <1>3, <1>4, <2>3, <3>2 DEF Old
    <3>. QED  BY <1>1, <1>3, <2>0, <3>1, <3>2, <3>3 DEF Polled
  <2>. QED  BY <2>2, <2>3
<1>15. NothingSkipped'
  <2>1. ASSUME NEW t \in Tx, watch'[Of[t]].on, watch'[Of[t]].created < t,
               t <= watch'[Of[t]].cursor, row'[t] = "none"
        PROVE  t \in missed'
    <3>1. t \in Nat /\ Of[t] \in Watch
      BY <1>1, Constants
    <3>2. Of[t] \notin New
      BY <1>2, <1>3, <2>1, <3>1 DEF AskedOf, New, WatchRow
    <3>. QED  BY <1>1, <1>3, <1>4, <2>1, <3>1, <3>2 DEF NothingSkipped
  <2>. QED  BY <2>1 DEF NothingSkipped
<1>. QED  BY <1>8, <1>9, <1>10, <1>11, <1>12, <1>13, <1>14, <1>15 DEF ToldInv

-----------------------------------------------------------------------------
LEMMA ToldStep == ToldInv /\ [Next]_vars => ToldInv'
<1>. SUFFICES ASSUME ToldInv, [Next]_vars PROVE ToldInv'
  OBVIOUS
<1>1. TypeOK'
  BY TypeStep DEF ToldInv
<1>2. CASE UNCHANGED vars
  <2>1. Marks' /\ Ledger'
    BY <1>2 DEF vars, ToldInv, Marks, Quiet, Held, Head, Lives, Alive, Ledger, JustSent
  <2>2. Polled'
    BY <1>2 DEF vars, ToldInv, Polled, AtWallet, Old
  <2>. QED  BY <1>1, <1>2, <2>1, <2>2, RowsStay DEF vars
<1>. QED  BY <1>1, <1>2, ConfirmTold, AddStartTold, AddPollTold, AddCommitTold, AddEndsTold,
             DeleteTold, UnheardTold, PollReadTold, PollFailsTold, MuteTold, StartPassTold, PollWriteTold,
             SelectTold, SkipMutedTold, LeaveTold, SendTold, SaveTold, SaveRefusedTold,
             FinishTold, AbortTold, CrashTold, CutPollTold DEF Next, Consider

LEMMA AlwaysTold == Spec => []ToldInv
<1>1. ToldInv /\ [Next]_vars => ToldInv'
  BY ToldStep
<1>. QED  BY InitTold, <1>1, PTL DEF Spec

(* However often the worker restarts, saves are refused, answers of Telegram  *)
(* are lost and wallets come and go, a message is repeated only for an answer *)
(* or a mark that was lost (send, run_wallets).                               *)
THEOREM NoMessageTwice == Spec => []ToldOnce
<1>1. ToldInv => ToldOnce
  <2>. SUFFICES ASSUME ToldInv, NEW t \in Tx PROVE told[t] <= 1 + undone[t]
    BY DEF ToldOnce
  <2>. QED  BY DEF ToldInv, TypeOK, Ledger
<1>. QED  BY AlwaysTold, <1>1, PTL

(* Once the first poll of a wallet succeeded, nothing older than the wallet   *)
(* is ever told, even when it is deleted and added again around a pass: what  *)
(* that poll did not return is out of the reach of every later one (add,      *)
(* poll).                                                                     *)
THEOREM HistoryIsQuiet == Spec => []HistoryQuiet
<1>1. ToldInv => HistoryQuiet
  BY DEF ToldInv, History, Old, HistoryQuiet
<1>. QED  BY AlwaysTold, <1>1, PTL

(* No transfer on a wallet nobody mutes, of a user with Telegram, is closed   *)
(* without a message (run_wallets).                                           *)
THEOREM ClosedWasTold == Spec => []ClosedIsTold
<1>1. ToldInv => ClosedIsTold
  BY DEF ToldInv
<1>. QED  BY AlwaysTold, <1>1, PTL

(* Whatever a position has passed is stored, or was passed over by a read, or *)
(* was cut off by a restart in the middle of a poll (poll, Reader).           *)
THEOREM PositionsSkipNothing == Spec => []NothingSkipped
<1>1. ToldInv => NothingSkipped
  BY DEF ToldInv
<1>. QED  BY AlwaysTold, <1>1, PTL
=============================================================================
