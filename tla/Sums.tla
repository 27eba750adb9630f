--------------------------------- MODULE Sums --------------------------------
(* Sums over finite sets, for any figures and any set.                        *)
EXTENDS Integers, FiniteSets, FiniteSetTheorems, WellFoundedInduction, TLAPS

(* The modules add figures up with MapThenSumSet, a recursive function on     *)
(* sets (Adds); units counted one by one are another that obeys the same      *)
(* equations, and on finite sets these have one solution.  What is known of   *)
(* the size of sets then holds of sums.                                       *)
Pile(g, S) == UNION {{x} \X (1..g[x]) : x \in S}
First(s)   == CHOOSE x \in s : TRUE
Adds(f, g, S) ==
    f = [s \in SUBSET S |-> IF s = {} THEN 0 ELSE g[First(s)] + f[s \ {First(s)}]]
Sum(g, S)  == (CHOOSE f : Adds(f, g, S))[S]
Counts(g, S) == IsFiniteSet(S) /\ \A x \in S : g[x] \in Nat

(* The units of one element more. *)
LEMMA PileMore ==
    ASSUME NEW g, NEW s, NEW x \in s, g[x] \in Nat, IsFiniteSet(Pile(g, s \ {x}))
    PROVE  /\ IsFiniteSet(Pile(g, s))
           /\ Cardinality(Pile(g, s)) = g[x] + Cardinality(Pile(g, s \ {x}))
<1>. DEFINE own == {x} \X (1..g[x])
            rest == Pile(g, s \ {x})
<1>1. IsFiniteSet(1..g[x]) /\ Cardinality(1..g[x]) = g[x]
  BY FS_Interval
<1>2. IsFiniteSet({x}) /\ Cardinality({x}) = 1
  BY FS_Singleton
<1>3. IsFiniteSet(own) /\ Cardinality(own) = g[x]
  <2>1. IsFiniteSet(own) /\ Cardinality(own) = Cardinality({x}) * Cardinality(1..g[x])
    BY <1>1, <1>2, FS_Product, Zenon
  <2>. HIDE DEF own
  <2>. QED  BY <1>1, <1>2, <2>1
<1>4. Pile(g, s) = own \cup rest
  BY DEF Pile
<1>5. own \cap rest = {}
  BY DEF Pile
<1>6. IsFiniteSet(rest) /\ Cardinality(rest) \in Nat
  BY FS_CardinalityType
<1>. HIDE DEF own, rest
<1>7. /\ IsFiniteSet(own \cup rest)
      /\ Cardinality(own \cup rest) = Cardinality(own) + Cardinality(rest) - Cardinality(own \cap rest)
  BY <1>3, <1>6, FS_Union, Zenon
<1>8. Cardinality(own \cap rest) = 0
  BY <1>5, FS_EmptySet
<1>. QED  BY <1>3, <1>4, <1>6, <1>7, <1>8 DEF rest

(* What holds of no finite set does not fail of a smallest one. *)
LEMMA Smallest ==
    ASSUME NEW S, IsFiniteSet(S), NEW T \in SUBSET (SUBSET S), T # {}
    PROVE  \E s \in T : \A x \in s : s \ {x} \notin T
<1>. DEFINE R == StrictSubsetOrdering(S)
<1>1. IsWellFoundedOn(R, FiniteSubsetsOf(S))
  BY FS_StrictSubsetOrderingWellFounded
<1>2. T \subseteq FiniteSubsetsOf(S)
  BY FS_Subset DEF FiniteSubsetsOf
<1>. HIDE DEF R
<1>3. PICK s \in T : \A r \in T : ~ (<<r, s>> \in R)
  BY <1>1, <1>2, WFMin
<1>4. ASSUME NEW x \in s, s \ {x} \in T
      PROVE  FALSE
  <2>1. <<s \ {x}, s>> \in R
    BY <1>4 DEF R, StrictSubsetOrdering
  <2>. QED  BY <1>3, <1>4, <2>1
<1>. QED  BY <1>3, <1>4

(* A sum is the number of its units. *)
LEMMA SumIsSize ==
    ASSUME NEW g, NEW S, Counts(g, S)
    PROVE  IsFiniteSet(Pile(g, S)) /\ Sum(g, S) = Cardinality(Pile(g, S))
<1>. DEFINE Size == [s \in SUBSET S |-> Cardinality(Pile(g, s))]
<1>0. IsFiniteSet(S) /\ \A x \in S : g[x] \in Nat
  BY DEF Counts
<1>1. Pile(g, {}) = {}
  BY DEF Pile
<1>2. \A s \in SUBSET S : IsFiniteSet(Pile(g, s))
  <2>. DEFINE T == {s \in SUBSET S : ~IsFiniteSet(Pile(g, s))}
  <2>. SUFFICES ASSUME T # {} PROVE FALSE
    OBVIOUS
  <2>1. PICK s \in T : \A x \in s : s \ {x} \notin T
    BY <1>0, Smallest
  <2>2. s # {}
    BY <1>1, FS_EmptySet
  <2>3. PICK x \in s : TRUE
    BY <2>2
  <2>4. IsFiniteSet(Pile(g, s \ {x})) /\ g[x] \in Nat
    BY <1>0, <2>1, <2>3
  <2>. QED  BY <2>3, <2>4, PileMore
<1>3. \A s \in SUBSET S : s # {} => First(s) \in s
  BY DEF First
<1>4. \A s \in SUBSET S : s # {} => Size[s] = g[First(s)] + Size[s \ {First(s)}]
  <2>. SUFFICES ASSUME NEW s \in SUBSET S, s # {}
                PROVE  Size[s] = g[First(s)] + Size[s \ {First(s)}]
    OBVIOUS
  <2>1. First(s) \in s /\ g[First(s)] \in Nat /\ s \ {First(s)} \in SUBSET S
    BY <1>0, <1>3
  <2>2. IsFiniteSet(Pile(g, s \ {First(s)}))
    BY <1>2, <2>1
  <2>3. Cardinality(Pile(g, s)) = g[First(s)] + Cardinality(Pile(g, s \ {First(s)}))
    BY <2>1, <2>2, PileMore
  <2>. QED  BY <2>1, <2>3
<1>5. Size[{}] = 0
  BY <1>1, FS_EmptySet
<1>6. Adds(Size, g, S)
  <2>. HIDE DEF Size
  <2>1. Size = [s \in SUBSET S |-> Size[s]]
    BY DEF Size
  <2>. QED  BY <1>4, <1>5, <2>1 DEF Adds
<1>. DEFINE f == CHOOSE h : Adds(h, g, S)
<1>7. Adds(f, g, S)
  BY <1>6
<1>. HIDE DEF f, Size
<1>8. \A s \in SUBSET S : f[s] = Size[s]
  <2>. DEFINE T == {s \in SUBSET S : f[s] # Size[s]}
  <2>. SUFFICES ASSUME T # {} PROVE FALSE
    OBVIOUS
  <2>1. PICK s \in T : \A x \in s : s \ {x} \notin T
    BY <1>0, Smallest
  <2>2. s # {}
    BY <1>5, <1>7 DEF Adds
  <2>3. First(s) \in s /\ s \ {First(s)} \in SUBSET S
    BY <1>3, <2>2
  <2>4. f[s \ {First(s)}] = Size[s \ {First(s)}]
    BY <2>1, <2>3
  <2>5. f[s] = g[First(s)] + f[s \ {First(s)}]
    BY <1>7, <2>2 DEF Adds
  <2>. QED  BY <1>4, <2>2, <2>4, <2>5
<1>. QED  BY <1>2, <1>8 DEF f, Size, Sum

(* A sum with one element taken out; of nothing; of figures that are equal. *)
LEMMA SumMore ==
    ASSUME NEW g, NEW S, Counts(g, S)
    PROVE  /\ Sum(g, S) \in Nat
           /\ S = {} => Sum(g, S) = 0
           /\ \A x \in S : Counts(g, S \ {x}) /\ Sum(g, S) = g[x] + Sum(g, S \ {x})
           /\ \A h : (\A x \in S : h[x] = g[x]) => Sum(h, S) = Sum(g, S)
<1>1. Sum(g, S) \in Nat
  BY SumIsSize, FS_CardinalityType
<1>2. S = {} => Sum(g, S) = 0
  <2>1. S = {} => Pile(g, S) = {}
    BY DEF Pile
  <2>. QED  BY <2>1, SumIsSize, FS_EmptySet
<1>3. ASSUME NEW x \in S PROVE Counts(g, S \ {x}) /\ Sum(g, S) = g[x] + Sum(g, S \ {x})
  <2>1. Counts(g, S \ {x}) /\ g[x] \in Nat
    BY FS_RemoveElement DEF Counts
  <2>2. /\ IsFiniteSet(Pile(g, S \ {x})) /\ Sum(g, S \ {x}) = Cardinality(Pile(g, S \ {x}))
        /\ Sum(g, S) = Cardinality(Pile(g, S))
    BY <2>1, SumIsSize
  <2>. QED  BY <2>1, <2>2, PileMore
<1>4. ASSUME NEW h, \A x \in S : h[x] = g[x] PROVE Sum(h, S) = Sum(g, S)
  <2>1. Counts(h, S) /\ Pile(h, S) = Pile(g, S)
    BY <1>4 DEF Counts, Pile
  <2>. QED  BY <2>1, SumIsSize
<1>. QED  BY <1>1, <1>2, <1>3, <1>4

(* The groups of things that bear a name of a set are together the things     *)
(* whose name is in it.                                                       *)
LEMMA SumOfGroups ==
    ASSUME NEW D, NEW P, NEW name, NEW g, IsFiniteSet(D), IsFiniteSet(P),
           \A x \in P : g[x] = Cardinality({d \in D : name[d] = x})
    PROVE  Sum(g, P) = Cardinality({d \in D : name[d] \in P})
<1>. DEFINE In(s) == {d \in D : name[d] \in s}
            T == {s \in SUBSET P : Sum(g, s) # Cardinality(In(s))}
<1>1. \A s : IsFiniteSet(In(s)) /\ Cardinality(In(s)) \in Nat
  <2>1. \A s : In(s) \subseteq D
    OBVIOUS
  <2>. QED  BY <2>1, FS_Subset, FS_CardinalityType
<1>2. \A x \in P : g[x] = Cardinality(In({x})) /\ g[x] \in Nat
  <2>1. \A x : In({x}) = {d \in D : name[d] = x}
    OBVIOUS
  <2>2. \A x \in P : g[x] = Cardinality(In({x}))
    BY <2>1
  <2>. QED  BY <1>1, <2>2
<1>3. \A s \in SUBSET P : Counts(g, s)
  BY <1>2, FS_Subset DEF Counts
<1>4. SUFFICES ASSUME T # {} PROVE FALSE
  OBVIOUS
<1>5. PICK s \in T : \A x \in s : s \ {x} \notin T
  BY <1>4, Smallest
<1>6. Counts(g, s) /\ s \in SUBSET P /\ Sum(g, s) # Cardinality(In(s))
  BY <1>3
<1>7. s # {}
  <2>1. In({}) = {}
    OBVIOUS
  <2>. QED  BY <1>6, <2>1, SumMore, FS_EmptySet
<1>8. PICK x \in s : TRUE
  BY <1>7
<1>9. Sum(g, s \ {x}) = Cardinality(In(s \ {x}))
  BY <1>5, <1>8
<1>10. Sum(g, s) = g[x] + Sum(g, s \ {x})
  BY <1>6, <1>8, SumMore
<1>11. Cardinality(In(s)) = Cardinality(In({x})) + Cardinality(In(s \ {x}))
  <2>1. In(s) = In({x}) \cup In(s \ {x}) /\ In({x}) \cap In(s \ {x}) = {}
    BY <1>8
  <2>2. /\ IsFiniteSet(In({x})) /\ IsFiniteSet(In(s \ {x}))
        /\ Cardinality(In({x})) \in Nat /\ Cardinality(In(s \ {x})) \in Nat
    BY <1>1
  <2>. HIDE DEF In
  <2>3. Cardinality(In({x}) \cup In(s \ {x}))
            = Cardinality(In({x})) + Cardinality(In(s \ {x})) - Cardinality(In({x}) \cap In(s \ {x}))
    BY <2>2, FS_Union, Zenon
  <2>4. Cardinality(In({x}) \cap In(s \ {x})) = 0
    BY <2>1, FS_EmptySet
  <2>5. Cardinality(In(s)) = Cardinality(In({x}) \cup In(s \ {x}))
    BY <2>1
  <2>. QED  BY <2>2, <2>3, <2>4, <2>5
<1>. QED  BY <1>2, <1>6, <1>8, <1>9, <1>10, <1>11

(*---------------------- sums of sums ----------------------*)
(* Two figures that grow alike, element by element, are equal.                *)
LEMMA GrowAlike ==
    ASSUME NEW X, IsFiniteSet(X), NEW a, NEW b, a[{}] = b[{}],
           \A s \in SUBSET X : \A x \in s : a[s \ {x}] = b[s \ {x}] => a[s] = b[s]
    PROVE  a[X] = b[X]
<1>. DEFINE Y == {s \in SUBSET X : a[s] # b[s]}
<1>. SUFFICES ASSUME Y # {} PROVE FALSE
  OBVIOUS
<1>1. PICK s \in Y : \A x \in s : s \ {x} \notin Y
  BY Smallest
<1>2. PICK x \in s : TRUE
  BY <1>1
<1>3. s \in SUBSET X /\ s \ {x} \in SUBSET X /\ a[s] # b[s] /\ a[s \ {x}] = b[s \ {x}]
  BY <1>1, <1>2
<1>. QED  BY <1>2, <1>3

LEMMA CountsPart ==
    ASSUME NEW g, NEW X, Counts(g, X), NEW Y \in SUBSET X
    PROVE  Counts(g, Y) /\ Sum(g, Y) \in Nat
<1>1. Counts(g, Y)
  BY FS_Subset DEF Counts
<1>. QED  BY <1>1, SumMore

(* Of two sets apart. *)
LEMMA SumApart ==
    ASSUME NEW g, NEW X, NEW Y, Counts(g, X), Counts(g, Y), X \cap Y = {}
    PROVE  Sum(g, X \cup Y) = Sum(g, X) + Sum(g, Y)
<1>. DEFINE a == [s \in SUBSET Y |-> Sum(g, X \cup s)]
            b == [s \in SUBSET Y |-> Sum(g, X) + Sum(g, s)]
<1>1. Counts(g, X \cup Y)
  BY FS_Union DEF Counts
<1>2. a[{}] = b[{}]
  <2>1. Sum(g, {}) = 0 /\ Sum(g, X) \in Nat
    BY CountsPart, SumMore
  <2>2. X \cup {} = X
    OBVIOUS
  <2>. QED  BY <2>1, <2>2
<1>3. ASSUME NEW s \in SUBSET Y, NEW x \in s, a[s \ {x}] = b[s \ {x}]
      PROVE  a[s] = b[s]
  <2>1. Counts(g, s) /\ Counts(g, s \ {x}) /\ Counts(g, X \cup s) /\ Sum(g, s \ {x}) \in Nat
        /\ Sum(g, X) \in Nat
    <3>1. s \in SUBSET Y /\ s \ {x} \in SUBSET Y /\ X \cup s \in SUBSET (X \cup Y)
      OBVIOUS
    <3>. QED  BY <1>1, <3>1, CountsPart
  <2>2. Sum(g, s) = g[x] + Sum(g, s \ {x}) /\ g[x] \in Nat
    BY <2>1, SumMore DEF Counts
  <2>3. (X \cup s) \ {x} = X \cup (s \ {x}) /\ x \in X \cup s
    OBVIOUS
  <2>4. Sum(g, X \cup s) = g[x] + Sum(g, (X \cup s) \ {x})
    BY <2>1, <2>3, SumMore
  <2>5. a[s \ {x}] = Sum(g, X \cup (s \ {x})) /\ b[s \ {x}] = Sum(g, X) + Sum(g, s \ {x})
    OBVIOUS
  <2>6. a[s] = Sum(g, X \cup s) /\ b[s] = Sum(g, X) + Sum(g, s)
    OBVIOUS
  <2>7. Sum(g, X \cup (s \ {x})) = Sum(g, X) + Sum(g, s \ {x})
    BY <1>3, <2>5
  <2>8. Sum(g, X \cup s) = g[x] + (Sum(g, X) + Sum(g, s \ {x}))
    BY <2>3, <2>4, <2>7
  <2>9. Sum(g, X \cup s) = Sum(g, X) + Sum(g, s)
    BY <2>1, <2>2, <2>8
  <2>. QED  BY <2>6, <2>9
<1>4. IsFiniteSet(Y)
  BY DEF Counts
<1>5. a[Y] = Sum(g, X \cup Y) /\ b[Y] = Sum(g, X) + Sum(g, Y)
  OBVIOUS
<1>. HIDE DEF a, b
<1>. QED  BY <1>2, <1>3, <1>4, <1>5, GrowAlike

(* Of figures added up one by one. *)
LEMMA SumPlus ==
    ASSUME NEW g, NEW h, NEW k, NEW X, Counts(g, X), Counts(h, X),
           \A x \in X : k[x] = g[x] + h[x]
    PROVE  Counts(k, X) /\ Sum(k, X) = Sum(g, X) + Sum(h, X)
<1>. DEFINE a == [s \in SUBSET X |-> Sum(k, s)]
            b == [s \in SUBSET X |-> Sum(g, s) + Sum(h, s)]
<1>1. Counts(k, X) /\ IsFiniteSet(X)
  BY DEF Counts
<1>2. a[{}] = b[{}]
  <2>1. Sum(g, {}) = 0 /\ Sum(h, {}) = 0 /\ Sum(k, {}) = 0
    BY <1>1, CountsPart, SumMore
  <2>. QED  BY <2>1
<1>3. ASSUME NEW s \in SUBSET X, NEW x \in s, a[s \ {x}] = b[s \ {x}]
      PROVE  a[s] = b[s]
  <2>1. Counts(g, s) /\ Counts(h, s) /\ Counts(k, s)
    BY <1>1, CountsPart
  <2>2. /\ Sum(g, s) = g[x] + Sum(g, s \ {x}) /\ Sum(h, s) = h[x] + Sum(h, s \ {x})
        /\ Sum(k, s) = k[x] + Sum(k, s \ {x})
    BY <2>1, SumMore
  <2>3. k[x] = g[x] + h[x] /\ g[x] \in Nat /\ h[x] \in Nat
    BY DEF Counts
  <2>4. Sum(g, s \ {x}) \in Nat /\ Sum(h, s \ {x}) \in Nat
    BY CountsPart
  <2>5. a[s \ {x}] = Sum(k, s \ {x}) /\ b[s \ {x}] = Sum(g, s \ {x}) + Sum(h, s \ {x})
    OBVIOUS
  <2>6. a[s] = Sum(k, s) /\ b[s] = Sum(g, s) + Sum(h, s)
    OBVIOUS
  <2>7. Sum(k, s \ {x}) = Sum(g, s \ {x}) + Sum(h, s \ {x})
    BY <1>3, <2>5
  <2>8. Sum(k, s) = Sum(g, s) + Sum(h, s)
    BY <2>2, <2>3, <2>4, <2>7
  <2>. QED  BY <2>6, <2>8
<1>4. a[X] = Sum(k, X) /\ b[X] = Sum(g, X) + Sum(h, X)
  OBVIOUS
<1>. HIDE DEF a, b
<1>. QED  BY <1>1, <1>2, <1>3, <1>4, GrowAlike

(* Of one figure taken as often as another says. *)
LEMMA SumTimes ==
    ASSUME NEW g, NEW k, NEW n \in Nat, NEW X, Counts(g, X), \A x \in X : k[x] = n * g[x]
    PROVE  Counts(k, X) /\ Sum(k, X) = n * Sum(g, X)
<1>. DEFINE a == [s \in SUBSET X |-> Sum(k, s)]
            b == [s \in SUBSET X |-> n * Sum(g, s)]
<1>1. Counts(k, X) /\ IsFiniteSet(X)
  BY DEF Counts
<1>2. a[{}] = b[{}]
  <2>1. Sum(g, {}) = 0 /\ Sum(k, {}) = 0
    BY <1>1, CountsPart, SumMore
  <2>. QED  BY <2>1
<1>3. ASSUME NEW s \in SUBSET X, NEW x \in s, a[s \ {x}] = b[s \ {x}]
      PROVE  a[s] = b[s]
  <2>1. Counts(g, s) /\ Counts(k, s)
    BY <1>1, CountsPart
  <2>2. Sum(g, s) = g[x] + Sum(g, s \ {x}) /\ Sum(k, s) = k[x] + Sum(k, s \ {x})
    BY <2>1, SumMore
  <2>3. k[x] = n * g[x] /\ g[x] \in Nat
    BY DEF Counts
  <2>4. Sum(g, s \ {x}) \in Nat
    BY CountsPart
  <2>5. a[s \ {x}] = Sum(k, s \ {x}) /\ b[s \ {x}] = n * Sum(g, s \ {x})
    OBVIOUS
  <2>6. a[s] = Sum(k, s) /\ b[s] = n * Sum(g, s)
    OBVIOUS
  <2>7. Sum(k, s \ {x}) = n * Sum(g, s \ {x})
    BY <1>3, <2>5
  <2>8. Sum(k, s) = n * Sum(g, s)
    <3>1. \A u, v \in Nat : n * u + n * v = n * (u + v)
      OBVIOUS
    <3>. QED  BY <2>2, <2>3, <2>4, <2>7, <3>1
  <2>. QED  BY <2>6, <2>8
<1>4. a[X] = Sum(k, X) /\ b[X] = n * Sum(g, X)
  OBVIOUS
<1>. HIDE DEF a, b
<1>. QED  BY <1>1, <1>2, <1>3, <1>4, GrowAlike

(* Of groups that are summed up each. *)
Bearing(K, of, x) == {k \in K : of[k] = x}
Borne(K, of)      == {of[k] : k \in K}

LEMMA SumByGroup ==
    ASSUME NEW g, NEW K, NEW of, NEW h, Counts(g, K),
           \A x \in Borne(K, of) : h[x] = Sum(g, Bearing(K, of, x))
    PROVE  Sum(h, Borne(K, of)) = Sum(g, K)
<1>. DEFINE Under(s) == {k \in K : of[k] \in s}
            a == [s \in SUBSET Borne(K, of) |-> Sum(h, s)]
            b == [s \in SUBSET Borne(K, of) |-> Sum(g, Under(s))]
<1>1. IsFiniteSet(Borne(K, of))
  <2>1. [k \in K |-> of[k]] \in Surjection(K, Borne(K, of))
    BY DEF Surjection, Borne
  <2>. QED  BY <2>1, FS_Surjection DEF Counts
<1>2. \A x \in Borne(K, of) : h[x] = Sum(g, Under({x})) /\ h[x] \in Nat
  <2>1. \A x : Under({x}) = Bearing(K, of, x) /\ Bearing(K, of, x) \in SUBSET K
    BY DEF Bearing
  <2>2. \A x : Sum(g, Bearing(K, of, x)) \in Nat
    BY <2>1, CountsPart
  <2>. HIDE DEF Under
  <2>. QED  BY <2>1, <2>2
<1>3. Counts(h, Borne(K, of))
  BY <1>1, <1>2 DEF Counts
<1>4. a[{}] = b[{}]
  <2>1. Sum(h, {}) = 0 /\ Sum(g, {}) = 0
    BY <1>3, CountsPart, SumMore
  <2>2. Under({}) = {}
    OBVIOUS
  <2>. QED  BY <2>1, <2>2
<1>5. ASSUME NEW s \in SUBSET Borne(K, of), NEW x \in s, a[s \ {x}] = b[s \ {x}]
      PROVE  a[s] = b[s]
  <2>1. Sum(h, s) = h[x] + Sum(h, s \ {x})
    BY <1>3, CountsPart, SumMore
  <2>2. /\ Under(s) = Under({x}) \cup Under(s \ {x}) /\ Under({x}) \cap Under(s \ {x}) = {}
        /\ Under({x}) \in SUBSET K /\ Under(s \ {x}) \in SUBSET K
    OBVIOUS
  <2>3. Sum(h, s \ {x}) = Sum(g, Under(s \ {x}))
    <3>1. a[s \ {x}] = Sum(h, s \ {x}) /\ b[s \ {x}] = Sum(g, Under(s \ {x}))
      OBVIOUS
    <3>. QED  BY <1>5, <3>1
  <2>4. a[s] = Sum(h, s) /\ b[s] = Sum(g, Under(s))
    OBVIOUS
  <2>5. h[x] = Sum(g, Under({x}))
    BY <1>2
  <2>. HIDE DEF a, b, Under
  <2>6. Sum(g, Under({x}) \cup Under(s \ {x})) = Sum(g, Under({x})) + Sum(g, Under(s \ {x}))
    BY <2>2, CountsPart, SumApart
  <2>. QED  BY <2>1, <2>2, <2>3, <2>4, <2>5, <2>6
<1>6. a[Borne(K, of)] = Sum(h, Borne(K, of)) /\ b[Borne(K, of)] = Sum(g, K)
  <2>1. Under(Borne(K, of)) = K
    BY DEF Borne
  <2>. QED  BY <2>1
<1>. HIDE DEF a, b
<1>7. a[Borne(K, of)] = b[Borne(K, of)]
  BY <1>1, <1>4, <1>5, GrowAlike
<1>. QED  BY <1>6, <1>7

(* Of a table, by rows and by columns. *)
Grid(p, C, K) == IsFiniteSet(C) /\ IsFiniteSet(K) /\ \A c \in C : \A k \in K : p[c][k] \in Nat

LEMMA SumByRow ==
    ASSUME NEW C, NEW K, NEW p, Grid(p, C, K)
    PROVE  /\ Counts([c \in C |-> Sum(p[c], K)], C)
           /\ Counts([k \in K |-> Sum([c \in C |-> p[c][k]], C)], K)
           /\ Sum([k \in K |-> Sum([c \in C |-> p[c][k]], C)], K) = Sum([c \in C |-> Sum(p[c], K)], C)
<1>. DEFINE col(k)  == [c \in C |-> p[c][k]]
            cols(s) == [k \in K |-> Sum(col(k), s)]
            rows    == [c \in C |-> Sum(p[c], K)]
            a == [s \in SUBSET C |-> Sum(cols(s), K)]
            b == [s \in SUBSET C |-> Sum(rows, s)]
<1>1. \A c \in C : Counts(p[c], K) /\ rows[c] = Sum(p[c], K) /\ rows[c] \in Nat
  BY SumMore DEF Counts, Grid
<1>2. Counts(rows, C)
  BY <1>1 DEF Counts, Grid
<1>3. \A k \in K : Counts(col(k), C) /\ \A c \in C : col(k)[c] = p[c][k]
  BY DEF Counts, Grid
<1>4. \A s \in SUBSET C : Counts(cols(s), K) /\ \A k \in K : cols(s)[k] = Sum(col(k), s)
  <2>. HIDE DEF col
  <2>1. \A s \in SUBSET C : \A k \in K : cols(s)[k] = Sum(col(k), s) /\ Sum(col(k), s) \in Nat
    BY <1>3, CountsPart
  <2>. HIDE DEF cols
  <2>. QED  BY <2>1 DEF Counts, Grid
<1>5. \A s \in SUBSET C : a[s] = Sum(cols(s), K) /\ b[s] = Sum(rows, s)
  OBVIOUS
<1>. HIDE DEF col, rows, a, b, cols
<1>6. a[{}] = b[{}]
  <2>1. {} \in SUBSET C
    OBVIOUS
  <2>2. \A k \in K : cols({})[k] = 0
    <3>1. \A k \in K : Sum(col(k), {}) = 0
      BY <1>3, <2>1, CountsPart, SumMore
    <3>. QED  BY <1>4, <2>1, <3>1
  <2>3. \A k \in K : cols({})[k] = 0 * cols({})[k]
    BY <2>2
  <2>4. Sum(cols({}), K) = 0
    <3>1. Sum(cols({}), K) = 0 * Sum(cols({}), K) /\ Sum(cols({}), K) \in Nat
      BY <1>4, <2>1, <2>3, SumTimes, SumMore
    <3>. QED  BY <3>1
  <2>5. Sum(rows, {}) = 0
    BY <1>2, <2>1, CountsPart, SumMore
  <2>. QED  BY <1>5, <2>1, <2>4, <2>5
<1>7. ASSUME NEW s \in SUBSET C, NEW x \in s, a[s \ {x}] = b[s \ {x}]
      PROVE  a[s] = b[s]
  <2>1. s \ {x} \in SUBSET C /\ x \in C
    OBVIOUS
  <2>2. \A k \in K : cols(s)[k] = p[x][k] + cols(s \ {x})[k]
    <3>1. ASSUME NEW k \in K PROVE cols(s)[k] = p[x][k] + cols(s \ {x})[k]
      <4>1. Sum(col(k), s) = col(k)[x] + Sum(col(k), s \ {x})
        BY <1>3, CountsPart, SumMore
      <4>. QED  BY <1>3, <1>4, <2>1, <4>1
    <3>. QED  BY <3>1
  <2>3. Sum(cols(s), K) = Sum(p[x], K) + Sum(cols(s \ {x}), K)
    <3>1. Counts(p[x], K) /\ Counts(cols(s \ {x}), K)
      BY <1>1, <1>4, <2>1
    <3>2. PICK g, h, t : g = p[x] /\ h = cols(s \ {x}) /\ t = cols(s)
      OBVIOUS
    <3>3. \A k \in K : t[k] = g[k] + h[k]
      BY <2>2, <3>2
    <3>4. Counts(g, K) /\ Counts(h, K)
      BY <3>1, <3>2
    <3>5. Sum(t, K) = Sum(g, K) + Sum(h, K)
      BY <3>3, <3>4, SumPlus
    <3>. QED  BY <3>2, <3>5
  <2>4. Sum(rows, s) = rows[x] + Sum(rows, s \ {x})
    BY <1>2, CountsPart, SumMore
  <2>. QED  BY <1>1, <1>5, <1>7, <2>1, <2>3, <2>4
<1>8. a[C] = b[C]
  BY <1>6, <1>7, GrowAlike DEF Grid
<1>9. Sum(cols(C), K) = Sum(rows, C)
  <2>1. C \in SUBSET C
    OBVIOUS
  <2>. QED  BY <1>5, <1>8, <2>1
<1>10. Counts(cols(C), K)
  <2>1. C \in SUBSET C
    OBVIOUS
  <2>. QED  BY <1>4, <2>1
<1>. QED  BY <1>2, <1>9, <1>10 DEF cols, rows, col
=============================================================================
