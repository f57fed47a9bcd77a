------------------------- MODULE BatchScoringProofs -------------------------
(***************************************************************************)
(* Proofs about RiskPolicy and BatchScoring, for every file, every model   *)
(* and every setting of the thresholds that the theorem's assumption       *)
(* allows; config.py does not check the thresholds against each other, so  *)
(* each theorem says which settings it needs.                              *)
(***************************************************************************)
EXTENDS BatchScoring, FiniteSetTheorems, FunctionTheorems, SequenceTheorems,
        WellFoundedInduction, TLAPS

(***************************************************************************)
(* The policy on its own                                                   *)
(***************************************************************************)

(* The thresholds leave no score that is approved above one that is        *)
(* reviewed: the uncertain band is empty or reaches up to risk_low.        *)
NoGapBelowLow(s) == s.band_high < s.band_low \/ s.risk_low <= s.band_high

(* decide(): a higher score never gets a milder decision, as long as the   *)
(* band, if there is one, does not end below risk_low.                     *)
THEOREM DecideMonotone ==
  ASSUME NEW s \in Thresholds, NoGapBelowLow(s),
         NEW x \in Int, NEW y \in Int, x <= y
  PROVE  Severity(Decide(x, s)) <= Severity(Decide(y, s))
<1>1. CASE y >= s.risk_high
  BY <1>1 DEF Decide, Severity, Thresholds
<1>2. CASE ~(y >= s.risk_high) /\ ~(y <= s.risk_low /\ ~InBand(y, s))
  BY <1>2 DEF Decide, Severity, Thresholds, InBand
<1>3. CASE ~(y >= s.risk_high) /\ y <= s.risk_low /\ ~InBand(y, s)
  BY <1>3 DEF Decide, Severity, Thresholds, InBand, NoGapBelowLow
<1>. QED  BY <1>1, <1>2, <1>3

(* decide(): a score inside the uncertain band is always routed to review, *)
(* and a row that is not routed is approved.                               *)
THEOREM BandRouted ==
  ASSUME NEW s \in Thresholds, NEW x \in Int
  PROVE  /\ InBand(x, s) => RoutedToReview(x, s) /\ Decide(x, s) # "approve"
         /\ ~RoutedToReview(x, s) => Decide(x, s) = "approve"
BY DEF Decide, InBand, RoutedToReview, Thresholds

(* RuleBasedFallback.score: at least 0.85 exactly when a strong rule       *)
(* fires; 0.35 for the new device alone; else 0.05.                        *)
LEMMA FallbackScoreValue ==
  ASSUME NEW F \in SUBSET Rule
  PROVE  /\ FallbackScore(F) \in {5, 35, 85, 90, 95}
         /\ F \cap HardRule # {} => FallbackScore(F) >= 85
         /\ F \cap HardRule = {} => FallbackScore(F) <= 35
         /\ F = {} => FallbackScore(F) = 5
<1>1. F \cap HardRule # {} <=>
        "high_velocity" \in F \/ "amount_outlier" \in F \/ "impossible_travel" \in F
  BY DEF Rule, HardRule
<1>. QED  BY <1>1 DEF FallbackScore, Raise

Entries(s) == {s[k] : k \in DOMAIN s}

(***************************************************************************)
(* Sums                                                                    *)
(***************************************************************************)

(* h sums f over each subset of S, one chosen element after the other, as  *)
(* SumFunctionOnSet does.                                                  *)
Sums(h, f, S) ==
  h = [s \in SUBSET S |->
         IF s = {} THEN 0
         ELSE f[CHOOSE x \in s : TRUE] + h[s \ {CHOOSE x \in s : TRUE}]]

(* There is only one such h: two would differ on a smallest subset.        *)
LEMMA SumIs ==
  ASSUME NEW f, NEW S, IsFiniteSet(S), NEW h, Sums(h, f, S)
  PROVE  SumFunctionOnSet(f, S) = h[S]
<1>1. PICK g : Sums(g, f, S) /\ SumFunctionOnSet(f, S) = g[S]
  BY DEF SumFunctionOnSet, FoldFunctionOnSet, MapThenFoldSet, Sums
<1>. DEFINE D == {s \in SUBSET S : g[s] # h[s]}
<1>2. D = {}
  <2>. SUFFICES ASSUME D # {} PROVE FALSE
    OBVIOUS
  <2>1. FiniteSubsetsOf(S) = SUBSET S
    BY FS_FiniteSubsetsOfFinite
  <2>2. D \subseteq FiniteSubsetsOf(S)
    BY <2>1
  <2>. HIDE DEF D
  <2>3. PICK s \in D : \A t \in D : <<t, s>> \notin StrictSubsetOrdering(S)
    BY <2>2, FS_StrictSubsetOrderingWellFounded, WFMin
  <2>. USE DEF D
  <2>4. s \in SUBSET S /\ g[s] # h[s]
    BY <2>3
  <2>5. CASE s = {}
    BY <1>1, <2>4, <2>5 DEF Sums
  <2>6. CASE s # {}
    <3>. DEFINE x == CHOOSE x \in s : TRUE
                t == s \ {x}
    <3>1. x \in s
      BY <2>6
    <3>2. t \in SUBSET S /\ t \subseteq s /\ t # s
      BY <2>4, <3>1
    <3>3. g[s] = f[x] + g[t] /\ h[s] = f[x] + h[t]
      BY <1>1, <2>4, <2>6 DEF Sums
    <3>4. g[t] = h[t]
      BY <2>3, <2>4, <3>2 DEF StrictSubsetOrdering
    <3>. QED  BY <2>4, <3>3, <3>4
  <2>. QED  BY <2>5, <2>6
<1>. QED  BY <1>1, <1>2

(* The members of S, each with as many points above it as f has there.     *)
Pile(f, S) == {p \in S \X (Nat \ {0}) : p[2] <= f[p[1]]}

LEMMA PileOver ==
  ASSUME NEW x, NEW f, f[x] \in Nat
  PROVE  IsFiniteSet({x} \X (1 .. f[x])) /\ Cardinality({x} \X (1 .. f[x])) = f[x]
<1>1. IsFiniteSet(1 .. f[x]) /\ Cardinality(1 .. f[x]) = f[x]
  BY FS_Interval
<1>2. IsFiniteSet({x}) /\ Cardinality({x}) = 1
  BY FS_Singleton
<1>3. 1 * f[x] = f[x]
  OBVIOUS
<1>. QED  BY <1>1, <1>2, <1>3, FS_Product

LEMMA PileFinite ==
  ASSUME NEW S, IsFiniteSet(S), NEW f, \A x \in S : f[x] \in Nat
  PROVE  IsFiniteSet(Pile(f, S)) /\ Cardinality(Pile(f, S)) \in Nat
<1>. DEFINE col == [x \in S |-> {x} \X (1 .. f[x])]
            T == {col[x] : x \in S}
<1>1. IsFiniteSet(T)
  <2>1. col \in Surjection(S, T)
    BY Zenon DEF Surjection
  <2>. QED  BY <2>1, FS_Surjection
<1>2. \A t \in T : IsFiniteSet(t)
  BY PileOver
<1>3. Pile(f, S) = UNION T
  BY DEF Pile
<1>. HIDE DEF T
<1>. QED  BY <1>1, <1>2, <1>3, FS_UNION, FS_CardinalityType

LEMMA SumIsPile ==
  ASSUME NEW S, IsFiniteSet(S), NEW f, \A x \in S : f[x] \in Nat
  PROVE  SumFunctionOnSet(f, S) = Cardinality(Pile(f, S))
<1>. DEFINE h == [s \in SUBSET S |-> Cardinality(Pile(f, s))]
<1>1. ASSUME NEW s \in SUBSET S, s # {}, NEW x \in s
      PROVE  Cardinality(Pile(f, s)) = f[x] + Cardinality(Pile(f, s \ {x}))
  <2>. DEFINE A == {x} \X (1 .. f[x])
              B == Pile(f, s \ {x})
  <2>1. IsFiniteSet(s \ {x})
    BY FS_Subset
  <2>2. IsFiniteSet(B) /\ Cardinality(B) \in Nat
    BY <2>1, PileFinite
  <2>3. IsFiniteSet(A) /\ Cardinality(A) = f[x]
    BY PileOver
  <2>4. Pile(f, s) = A \cup B
    BY DEF Pile
  <2>5. A \cap B = {}
    BY DEF Pile
  <2>. HIDE DEF A, B
  <2>6. Cardinality(A \cup B) = Cardinality(A) + Cardinality(B) - Cardinality(A \cap B)
    BY <2>2, <2>3, FS_Union
  <2>7. Cardinality(A \cap B) = 0
    BY <2>5, FS_EmptySet
  <2>. QED  BY <2>2, <2>3, <2>4, <2>6, <2>7 DEF B
<1>2. Cardinality(Pile(f, {})) = 0
  <2>1. Pile(f, {}) = {}
    BY DEF Pile
  <2>. QED  BY <2>1, FS_EmptySet
<1>3. \A s \in SUBSET S : h[s] = IF s = {} THEN 0
         ELSE f[CHOOSE x \in s : TRUE] + h[s \ {CHOOSE x \in s : TRUE}]
  <2>. TAKE s \in SUBSET S
  <2>1. CASE s = {}
    BY <1>2, <2>1
  <2>2. CASE s # {}
    BY <1>1, <2>2
  <2>. QED  BY <2>1, <2>2
<1>4. Sums(h, f, S)
  BY <1>3 DEF Sums
<1>5. SumFunctionOnSet(f, S) = h[S]
  BY <1>4, SumIs
<1>. QED  BY <1>5

(* Two sums over sets of the same size, term by term the same, are equal.  *)
LEMMA SumAlike ==
  ASSUME NEW S, IsFiniteSet(S), NEW T, NEW b \in Bijection(S, T),
         NEW f, NEW g, \A x \in S : f[x] \in Nat /\ g[b[x]] = f[x]
  PROVE  SumFunctionOnSet(g, T) = SumFunctionOnSet(f, S)
<1>. DEFINE F == Pile(f, S)
            G == Pile(g, T)
            c == [p \in F |-> <<b[p[1]], p[2]>>]
<1>1. b \in [S -> T] /\ (\A x, y \in S : b[x] = b[y] => x = y) /\ \A y \in T : \E x \in S : b[x] = y
  BY DEF Bijection, Injection, Surjection, IsInjective
<1>2. IsFiniteSet(T)
  BY FS_Surjection DEF Bijection
<1>3. \A y \in T : g[y] \in Nat
  BY <1>1
<1>4. \A p \in F : c[p] \in G
  BY <1>1 DEF Pile
<1>5. \A p, q \in F : c[p] = c[q] => p = q
  BY <1>1 DEF Pile
<1>6. ASSUME NEW q \in G PROVE \E p \in F : c[p] = q
  <2>1. PICK x \in S : b[x] = q[1]
    BY <1>1 DEF Pile
  <2>2. <<x, q[2]>> \in F
    BY <2>1 DEF Pile
  <2>. QED  BY <2>1, <2>2 DEF Pile
<1>7. c \in Bijection(F, G)
  <2>1. c \in [F -> G]
    BY <1>4
  <2>. HIDE DEF c, F, G
  <2>. QED  BY <1>5, <1>6, <2>1 DEF Bijection, Injection, Surjection, IsInjective
<1>8. IsFiniteSet(F)
  BY PileFinite
<1>. HIDE DEF c, F, G
<1>9. Cardinality(G) = Cardinality(F)
  BY <1>7, <1>8, FS_Bijection DEF ExistsBijection
<1>. QED  BY <1>2, <1>3, <1>9, SumIsPile DEF F, G

(* The sizes of the classes of a finite set add up to its own.             *)
LEMMA SumOfClasses ==
  ASSUME NEW S, IsFiniteSet(S), NEW T, IsFiniteSet(T), NEW class \in [S -> T],
         NEW f, \A y \in T : f[y] = Cardinality({x \in S : class[x] = y})
  PROVE  SumFunctionOnSet(f, T) = Cardinality(S)
<1>. DEFINE In(t) == {x \in S : class[x] \in t}
            h == [t \in SUBSET T |-> Cardinality(In(t))]
<1>1. ASSUME NEW t \in SUBSET T, NEW y \in t
      PROVE  Cardinality(In(t)) = f[y] + Cardinality(In(t \ {y}))
  <2>. DEFINE A == {x \in S : class[x] = y}
              B == In(t \ {y})
  <2>1. IsFiniteSet(A) /\ IsFiniteSet(B) /\ Cardinality(A) \in Nat /\ Cardinality(B) \in Nat
    <3>1. A \in SUBSET S /\ B \in SUBSET S
      OBVIOUS
    <3>. HIDE DEF A, B
    <3>. QED  BY <3>1, FS_Subset, FS_CardinalityType
  <2>2. In(t) = A \cup B /\ A \cap B = {}
    OBVIOUS
  <2>3. f[y] = Cardinality(A)
    OBVIOUS
  <2>. HIDE DEF A, B, In
  <2>4. Cardinality(A \cup B) = Cardinality(A) + Cardinality(B) - Cardinality(A \cap B)
    BY <2>1, FS_Union
  <2>5. Cardinality(A \cap B) = 0
    BY <2>2, FS_EmptySet
  <2>. QED  BY <2>1, <2>2, <2>3, <2>4, <2>5 DEF B
<1>2. Cardinality(In({})) = 0
  <2>1. In({}) = {}
    OBVIOUS
  <2>. QED  BY <2>1, FS_EmptySet
<1>. HIDE DEF In
<1>3. \A t \in SUBSET T : h[t] = IF t = {} THEN 0
         ELSE f[CHOOSE y \in t : TRUE] + h[t \ {CHOOSE y \in t : TRUE}]
  <2>. TAKE t \in SUBSET T
  <2>1. CASE t = {}
    BY <1>2, <2>1
  <2>2. CASE t # {}
    BY <1>1, <2>2
  <2>. QED  BY <2>1, <2>2
<1>4. Sums(h, f, T)
  BY <1>3 DEF Sums
<1>5. SumFunctionOnSet(f, T) = h[T]
  BY <1>4, SumIs
<1>6. In(T) = S
  BY DEF In
<1>. QED  BY <1>5, <1>6

(* A sum of positive numbers is positive exactly if there are any.         *)
LEMMA SumPositive ==
  ASSUME NEW S, IsFiniteSet(S), NEW f, \A x \in S : f[x] \in Nat \ {0}
  PROVE  SumFunctionOnSet(f, S) > 0 <=> S # {}
<1>1. SumFunctionOnSet(f, S) = Cardinality(Pile(f, S))
  BY SumIsPile
<1>2. IsFiniteSet(Pile(f, S)) /\ Cardinality(Pile(f, S)) \in Nat
  BY PileFinite
<1>3. S # {} <=> Pile(f, S) # {}
  <2>1. ASSUME NEW x \in S PROVE <<x, 1>> \in Pile(f, S)
    BY DEF Pile
  <2>. QED  BY <2>1 DEF Pile
<1>. QED  BY <1>1, <1>2, <1>3, FS_EmptySet

(***************************************************************************)
(* Sorting                                                                 *)
(***************************************************************************)

(* Rank numbers a finite set in ascending order of the key, and Ordered    *)
(* lists it in that order.                                                 *)
LEMMA Ranking ==
  ASSUME NEW S, IsFiniteSet(S), S \subseteq Int, NEW key, \A i \in S : key[i] \in Int
  PROVE  /\ Cardinality(S) \in Nat
         /\ DOMAIN Ordered(S, key) = 1 .. Cardinality(S)
         /\ \A i \in S : /\ Rank(S, key, i) \in 1 .. Cardinality(S)
                         /\ Ordered(S, key)[Rank(S, key, i)] = i
         /\ \A k \in 1 .. Cardinality(S) :
              Ordered(S, key)[k] \in S /\ Rank(S, key, Ordered(S, key)[k]) = k
         /\ \A i, j \in S : Rank(S, key, i) < Rank(S, key, j) => key[i] <= key[j]
         /\ \A i, j \in S : Rank(S, key, i) < Rank(S, key, j)
                               <=> key[i] < key[j] \/ (key[i] = key[j] /\ i < j)
<1>. DEFINE Upto(i) == {j \in S : key[j] < key[i] \/ (key[j] = key[i] /\ j <= i)}
            n == Cardinality(S)
            rank == [i \in S |-> Rank(S, key, i)]
<1>1. n \in Nat
  BY FS_CardinalityType
<1>2. ASSUME NEW i \in S
      PROVE  /\ IsFiniteSet(Upto(i)) /\ Cardinality(Upto(i)) \in 1 .. n
             /\ Rank(S, key, i) = Cardinality(Upto(i))
  <2>1. Upto(i) \in SUBSET S /\ i \in Upto(i)
    OBVIOUS
  <2>2. IsFiniteSet(Upto(i)) /\ Cardinality(Upto(i)) <= n
    BY <2>1, FS_Subset
  <2>3. Cardinality(Upto(i)) \in Nat /\ Cardinality(Upto(i)) # 0
    BY <2>1, <2>2, FS_CardinalityType, FS_EmptySet
  <2>. QED  BY <1>1, <2>2, <2>3 DEF Rank
<1>0. ASSUME NEW i \in S PROVE Rank(S, key, i) \in Int
  <2>. HIDE DEF Upto
  <2>. QED  BY <1>1, <1>2
<1>3. ASSUME NEW i \in S, NEW j \in S, i # j, key[i] < key[j] \/ (key[i] = key[j] /\ i <= j)
      PROVE  Rank(S, key, i) < Rank(S, key, j)
  <2>1. Upto(i) \in SUBSET Upto(j) /\ Upto(i) # Upto(j)
    <3>1. key[i] \in Int /\ key[j] \in Int /\ i \in Int /\ j \in Int
      OBVIOUS
    <3>2. j \in Upto(j) /\ j \notin Upto(i)
      BY <1>3, <3>1
    <3>3. ASSUME NEW k \in Upto(i) PROVE k \in Upto(j)
      <4>1. k \in S /\ key[k] \in Int /\ k \in Int
        OBVIOUS
      <4>. QED  BY <1>3, <3>1, <4>1
    <3>. QED  BY <3>2, <3>3
  <2>2. Cardinality(Upto(i)) <= Cardinality(Upto(j)) /\ Cardinality(Upto(i)) # Cardinality(Upto(j))
    BY <1>2, <2>1, FS_Subset
  <2>. QED  BY <1>1, <1>2, <2>2
<1>4. \A i, j \in S : i # j => Rank(S, key, i) # Rank(S, key, j)
  <2>. SUFFICES ASSUME NEW i \in S, NEW j \in S, i # j
                PROVE  Rank(S, key, i) # Rank(S, key, j)
    OBVIOUS
  <2>1. Rank(S, key, i) \in Int /\ Rank(S, key, j) \in Int
    BY <1>0
  <2>2. \/ key[i] < key[j] \/ (key[i] = key[j] /\ i <= j)
        \/ key[j] < key[i] \/ (key[j] = key[i] /\ j <= i)
    OBVIOUS
  <2>. QED  BY <1>3, <2>1, <2>2
<1>5. rank \in Injection(S, 1 .. n)
  BY <1>2, <1>4 DEF Injection, IsInjective
<1>6. rank \in Surjection(S, 1 .. n)
  <2>1. IsFiniteSet(1 .. n) /\ Cardinality(1 .. n) = n
    BY <1>1, FS_Interval
  <2>. HIDE DEF rank
  <2>. QED  BY <1>5, <2>1, FS_Injection
<1>7. \A k \in 1 .. n : \E i \in S : Rank(S, key, i) = k
  BY <1>6 DEF Surjection
<1>8. DOMAIN Ordered(S, key) = 1 .. n
  BY DEF Ordered
<1>9. ASSUME NEW k \in 1 .. n
      PROVE  Ordered(S, key)[k] \in S /\ Rank(S, key, Ordered(S, key)[k]) = k
  BY <1>7 DEF Ordered
<1>10. ASSUME NEW i \in S
       PROVE  Rank(S, key, i) \in 1 .. n /\ Ordered(S, key)[Rank(S, key, i)] = i
  <2>1. Rank(S, key, i) \in 1 .. n
    BY <1>2
  <2>. QED  BY <1>4, <1>9, <2>1
<1>11. ASSUME NEW i \in S, NEW j \in S, Rank(S, key, i) < Rank(S, key, j)
       PROVE  key[i] <= key[j]
  <2>1. Rank(S, key, i) \in Int /\ Rank(S, key, j) \in Int /\ key[i] \in Int /\ key[j] \in Int
    BY <1>0
  <2>2. CASE i = j
    BY <2>1, <2>2
  <2>3. CASE i # j
    BY <1>3, <1>11, <2>1, <2>3
  <2>. QED  BY <2>2, <2>3
<1>12. ASSUME NEW i \in S, NEW j \in S
       PROVE  Rank(S, key, i) < Rank(S, key, j) <=> key[i] < key[j] \/ (key[i] = key[j] /\ i < j)
  <2>1. Rank(S, key, i) \in Int /\ Rank(S, key, j) \in Int /\ key[i] \in Int /\ key[j] \in Int
        /\ i \in Int /\ j \in Int
    BY <1>0
  <2>2. CASE i = j
    BY <2>1, <2>2
  <2>3. CASE i # j
    <3>1. /\ key[i] < key[j] \/ (key[i] = key[j] /\ i <= j) => Rank(S, key, i) < Rank(S, key, j)
          /\ key[j] < key[i] \/ (key[j] = key[i] /\ j <= i) => Rank(S, key, j) < Rank(S, key, i)
      BY <1>3, <2>3
    <3>. QED  BY <2>1, <2>3, <3>1
  <2>. QED  BY <2>2, <2>3
<1>. QED  BY <1>1, <1>8, <1>9, <1>10, <1>11, <1>12

(* The k-th entry of the sorted s is the one of s with rank k.             *)
EachAtItsRank(s, key) ==
  \A k \in DOMAIN s :
    LET i == Ordered(DOMAIN s, key)[k]
    IN  i \in DOMAIN s /\ Rank(DOMAIN s, key, i) = k /\ SortedBy(s, key)[k] = s[i]

(* sorted(): the entries of s, no one lost, and none behind a greater one. *)
LEMMA SortedByKey ==
  ASSUME NEW s, Len(s) \in Nat, DOMAIN s = 1 .. Len(s),
         NEW key, \A i \in DOMAIN s : key[i] \in Int
  PROVE  /\ SortedBy(s, key) \in Seq(Entries(s)) /\ Len(SortedBy(s, key)) = Len(s)
         /\ \A i \in DOMAIN s :
              /\ Rank(DOMAIN s, key, i) \in DOMAIN s
              /\ SortedBy(s, key)[Rank(DOMAIN s, key, i)] = s[i]
         /\ EachAtItsRank(s, key)
<1>. DEFINE S == DOMAIN s
            t == SortedBy(s, key)
<1>1. IsFiniteSet(S) /\ Cardinality(S) = Len(s) /\ S \subseteq Int
  BY FS_Interval
<1>2. /\ DOMAIN Ordered(S, key) = S
      /\ \A i \in S : Rank(S, key, i) \in S /\ Ordered(S, key)[Rank(S, key, i)] = i
      /\ \A k \in S : Ordered(S, key)[k] \in S /\ Rank(S, key, Ordered(S, key)[k]) = k
  <2>. HIDE DEF S
  <2>1. S = 1 .. Cardinality(S)
    BY <1>1 DEF S
  <2>. QED  BY <1>1, <2>1, Ranking DEF S
<1>3. t = [k \in S |-> s[Ordered(S, key)[k]]]
  BY <1>2 DEF SortedBy, RowsAt
<1>4. \A k \in S : t[k] = s[Ordered(S, key)[k]] /\ t[k] \in Entries(s)
  BY <1>2, <1>3 DEF Entries
<1>5. t \in Seq(Entries(s)) /\ Len(t) = Len(s)
  <2>1. t \in [1 .. Len(s) -> Entries(s)]
    BY <1>3, <1>4
  <2>. HIDE DEF t
  <2>. QED  BY <2>1
<1>6. EachAtItsRank(s, key)
  BY <1>2, <1>4 DEF EachAtItsRank
<1>7. \A i \in S : Rank(S, key, i) \in S /\ t[Rank(S, key, i)] = s[i]
  <2>. HIDE DEF t
  <2>. QED  BY <1>2, <1>4
<1>. QED  BY <1>5, <1>6, <1>7

(* u holds n entries of s, and one that it leaves out has no smaller a key *)
(* than any that it holds.                                                 *)
HoldsLeast(u, n, s, key) ==
  /\ Len(u) = n /\ DOMAIN u = 1 .. n
  /\ \A i \in DOMAIN s : (\A k \in 1 .. n : u[k] # s[i]) =>
       \A k \in 1 .. n : \E j \in DOMAIN s : u[k] = s[j] /\ key[j] <= key[i]

(* sorted(s, key)[:n] *)
LEMMA SortedPrefix ==
  ASSUME NEW s, Len(s) \in Nat, DOMAIN s = 1 .. Len(s),
         NEW key, \A i \in DOMAIN s : key[i] \in Int,
         NEW n \in 0 .. Len(s)
  PROVE  HoldsLeast(SubSeq(SortedBy(s, key), 1, n), n, s, key)
<1>. DEFINE t == SortedBy(s, key)
            u == SubSeq(t, 1, n)
<1>1. t \in Seq(Entries(s)) /\ Len(t) = Len(s)
  BY SortedByKey
<1>2. \A i \in DOMAIN s : Rank(DOMAIN s, key, i) \in DOMAIN s /\ t[Rank(DOMAIN s, key, i)] = s[i]
  BY SortedByKey
<1>3. \A k \in DOMAIN s :
        LET j == Ordered(DOMAIN s, key)[k]
        IN  j \in DOMAIN s /\ Rank(DOMAIN s, key, j) = k /\ t[k] = s[j]
  <2>1. EachAtItsRank(s, key)
    BY SortedByKey
  <2>. QED  BY <2>1 DEF EachAtItsRank
<1>4. IsFiniteSet(DOMAIN s) /\ DOMAIN s \subseteq Int
  BY FS_Interval
<1>5. \A i, j \in DOMAIN s : Rank(DOMAIN s, key, i) < Rank(DOMAIN s, key, j) => key[i] <= key[j]
  BY <1>4, Ranking
<1>. HIDE DEF t
<1>6. Len(u) = n /\ DOMAIN u = 1 .. n /\ \A k \in 1 .. n : u[k] = t[k]
  BY <1>1, SubSeqProperties
<1>. HIDE DEF u
<1>7. ASSUME NEW i \in DOMAIN s, \A k \in 1 .. n : u[k] # s[i], NEW k \in 1 .. n
      PROVE  \E j \in DOMAIN s : u[k] = s[j] /\ key[j] <= key[i]
  <2>. DEFINE r == Rank(DOMAIN s, key, i)
              j == Ordered(DOMAIN s, key)[k]
  <2>1. r \in 1 .. Len(s) /\ t[r] = s[i]
    BY <1>2
  <2>2. j \in DOMAIN s /\ Rank(DOMAIN s, key, j) = k /\ t[k] = s[j]
    BY <1>3
  <2>. HIDE DEF j
  <2>3. k < r
    <3>. HIDE DEF r
    <3>1. r \notin 1 .. n
      BY <1>6, <1>7, <2>1
    <3>. QED  BY <2>1, <3>1
  <2>4. key[j] <= key[i]
    BY <1>5, <2>2, <2>3
  <2>5. u[k] = s[j]
    BY <1>6, <2>2
  <2>. QED  BY <2>2, <2>4, <2>5
<1>. QED  BY <1>6, <1>7 DEF u, t, HoldsLeast

(* [r for r in s if ...]: as many entries as positions, each in its place. *)
LEMMA SelectedRows ==
  ASSUME NEW s, Len(s) \in Nat, DOMAIN s = 1 .. Len(s), NEW S \in SUBSET DOMAIN s
  PROVE  /\ Cardinality(S) \in Nat
         /\ Selected(s, S) \in Seq(Entries(s)) /\ Len(Selected(s, S)) = Cardinality(S)
         /\ DOMAIN Selected(s, S) = 1 .. Cardinality(S)
         /\ \A k \in 1 .. Cardinality(S) : \E i \in S : Selected(s, S)[k] = s[i]
         /\ \A i \in S : \E k \in 1 .. Cardinality(S) : Selected(s, S)[k] = s[i]
<1>. DEFINE key == [i \in S |-> i]
            t == Selected(s, S)
<1>1. IsFiniteSet(S) /\ S \subseteq Int /\ \A i \in S : key[i] \in Int
  <2>1. IsFiniteSet(DOMAIN s)
    BY FS_Interval
  <2>2. IsFiniteSet(S)
    BY <2>1, FS_Subset
  <2>. QED  BY <2>2
<1>2. t = RowsAt(s, Ordered(S, key))
  BY DEF Selected
<1>. HIDE DEF key
<1>3. /\ Cardinality(S) \in Nat /\ DOMAIN Ordered(S, key) = 1 .. Cardinality(S)
      /\ \A k \in 1 .. Cardinality(S) : Ordered(S, key)[k] \in S
      /\ \A i \in S : /\ Rank(S, key, i) \in 1 .. Cardinality(S)
                      /\ Ordered(S, key)[Rank(S, key, i)] = i
  BY <1>1, Ranking
<1>4. /\ t = [k \in 1 .. Cardinality(S) |-> s[Ordered(S, key)[k]]]
      /\ \A k \in 1 .. Cardinality(S) : t[k] \in Entries(s)
  BY <1>2, <1>3 DEF RowsAt, Entries
<1>5. t \in Seq(Entries(s)) /\ Len(t) = Cardinality(S) /\ DOMAIN t = 1 .. Cardinality(S)
  <2>1. t \in [1 .. Cardinality(S) -> Entries(s)]
    BY <1>4
  <2>. HIDE DEF t
  <2>. QED  BY <1>3, <2>1
<1>6. ASSUME NEW k \in 1 .. Cardinality(S) PROVE \E i \in S : t[k] = s[i]
  BY <1>3, <1>4
<1>7. ASSUME NEW i \in S PROVE \E k \in 1 .. Cardinality(S) : t[k] = s[i]
  BY <1>3, <1>4
<1>. QED  BY <1>3, <1>5, <1>6, <1>7

(***************************************************************************)
(* The inductive invariant: every row of `results` is what the two         *)
(* policies make of its own feature vector, whatever source scored it.     *)
(***************************************************************************)
ByPolicy(r) ==
  /\ r.source \in {"ml", "fallback_rules"}
  /\ r.score \in Int
  /\ r.source = "fallback_rules" => r.score = FallbackScore(Fired(r.vector))
  /\ r.decision = Decide(r.score, Settings)
  /\ r.routed = RoutedToReview(r.score, Settings)
  /\ r.reason = DeriveReason(Fired(r.vector), r.decision)

IInv ==
  /\ scored \in Seq(Entries(scored))
  /\ \A k \in DOMAIN scored : ByPolicy(scored[k])

(* Appending a row leaves the others where they are.                       *)
LEMMA AppendEntries ==
  ASSUME NEW s, s \in Seq(Entries(s)), NEW x
  PROVE  /\ Append(s, x) \in Seq(Entries(Append(s, x)))
         /\ \A k \in DOMAIN Append(s, x) :
              Append(s, x)[k] = x \/ (k \in DOMAIN s /\ Append(s, x)[k] = s[k])
<1>. DEFINE t == Append(s, x)
<1>1. Len(s) \in Nat /\ DOMAIN s = 1 .. Len(s)
  OBVIOUS
<1>2. t \in Seq(Entries(s) \cup {x})
  OBVIOUS
<1>3. Len(t) = Len(s) + 1 /\ DOMAIN t = 1 .. Len(s) + 1
  BY <1>1, <1>2
<1>4. \A k \in 1 .. Len(t) : t[k] \in Entries(t)
  BY <1>1, <1>3 DEF Entries
<1>5. \A k \in DOMAIN t : t[k] = x \/ (k \in DOMAIN s /\ t[k] = s[k])
  BY <1>1, <1>3
<1>6. t \in Seq(Entries(t))
  <2>. HIDE DEF t
  <2>1. t \in [1 .. Len(t) -> Entries(t)]
    BY <1>1, <1>2, <1>3, <1>4
  <2>. QED  BY <1>1, <1>3, <2>1
<1>. QED  BY <1>5, <1>6

(* Whichever source scored the row, its result is what the policies say.   *)
LEMMA ResultByPolicy ==
  ASSUME NEW t, NEW fv
  PROVE  /\ \A s \in ModelScore : ByPolicy(Result(t, fv, "ml", s))
         /\ ByPolicy(Result(t, fv, "fallback_rules", FallbackScore(Fired(fv))))
<1>1. ModelScore \subseteq Int
  BY BatchAssumption
<1>2. FallbackScore(Fired(fv)) \in Int
  <2>1. Fired(fv) \in SUBSET Rule
    BY DEF Fired
  <2>. HIDE DEF Fired
  <2>2. FallbackScore(Fired(fv)) \in {5, 35, 85, 90, 95}
    BY <2>1, FallbackScoreValue
  <2>. QED  BY <2>2
<1>. QED  BY <1>1, <1>2 DEF ByPolicy, Result

LEMMA InitIInv == Init => IInv
BY DEF Init, IInv, Entries

LEMMA NextIInv == IInv /\ [Next]_vars => IInv'
<1>. SUFFICES ASSUME IInv, [Next]_vars PROVE IInv'
  OBVIOUS
<1>1. CASE ScoreRow
  <2>. DEFINE t == rows[Len(scored) + 1]
              fv == ComputeVector(past[t.card], t)
  <2>1. PICK r : ByPolicy(r) /\ scored' = Append(scored, r)
    BY <1>1, ResultByPolicy DEF ScoreRow
  <2>. QED  BY <2>1, AppendEntries DEF IInv
<1>2. ASSUME UNCHANGED scored PROVE IInv'
  BY <1>2 DEF IInv, Entries
<1>3. CASE RefuseUpload \/ ParseTransactions \/ CutAndSort \/ SortFails \/ EndScoring
           \/ FetchMetrics \/ BuildPayload \/ Reload \/ UNCHANGED vars
  BY <1>2, <1>3 DEF RefuseUpload, ParseTransactions, CutAndSort, SortFails, EndScoring,
                    FetchMetrics, BuildPayload, Reload, vars
<1>. QED  BY <1>1, <1>3 DEF Next

LEMMA Invariance == Spec => []IInv
BY InitIInv, NextIInv, PTL DEF Spec

(***************************************************************************)
(* Theorems                                                                *)
(***************************************************************************)

(* With a band that does not end below risk_low, of two rows of a file the *)
(* one with the higher score never gets the milder decision, whether the   *)
(* model or the rules scored them.                                         *)
THEOREM BatchMonotone ==
  ASSUME NoGapBelowLow(Settings)
  PROVE  Spec => []DecisionsMonotone
<1>1. IInv => DecisionsMonotone
  BY DecideMonotone, BatchAssumption DEF IInv, ByPolicy, DecisionsMonotone
<1>. QED  BY <1>1, Invariance, PTL

(* When 0.35 is below risk_high and 0.85 is not, a row the rules scored is *)
(* blocked exactly when a strong rule fires.                               *)
THEOREM BatchStrongRulesBlock ==
  ASSUME 35 < Settings.risk_high, Settings.risk_high <= 85
  PROVE  Spec => []StrongRulesBlock
<1>1. IInv => StrongRulesBlock
  <2>. SUFFICES ASSUME IInv, NEW k \in DOMAIN scored,
                       scored[k].source = "fallback_rules"
                PROVE  scored[k].decision = "block"
                         <=> Fired(scored[k].vector) \cap HardRule # {}
    BY DEF StrongRulesBlock
  <2>. DEFINE F == Fired(scored[k].vector)
  <2>1. /\ scored[k].score = FallbackScore(F) /\ scored[k].score \in Int
        /\ scored[k].decision = Decide(scored[k].score, Settings)
    BY DEF IInv, ByPolicy
  <2>2. F \in SUBSET Rule
    BY DEF Fired
  <2>3. Settings.risk_high \in Int
    BY BatchAssumption DEF Thresholds
  <2>. HIDE DEF F
  <2>4. CASE F \cap HardRule # {}
    <3>1. FallbackScore(F) >= 85
      BY <2>2, <2>4, FallbackScoreValue
    <3>2. scored[k].decision = "block"
      BY <2>1, <2>3, <3>1 DEF Decide
    <3>. QED  BY <2>4, <3>2 DEF F
  <2>5. CASE F \cap HardRule = {}
    <3>1. FallbackScore(F) <= 35
      BY <2>2, <2>5, FallbackScoreValue
    <3>2. scored[k].decision # "block"
      BY <2>1, <2>3, <3>1 DEF Decide
    <3>. QED  BY <2>5, <3>2 DEF F
  <2>. QED  BY <2>4, <2>5 DEF F
<1>. QED  BY <1>1, Invariance, PTL

(* When the baseline score of 0.05 is approved, every flagged row has a    *)
(* reason, and only the model's rows are put down to the model.            *)
THEOREM BatchReasons ==
  ASSUME Decide(5, Settings) = "approve"
  PROVE  Spec => []FlaggedHasReason
<1>1. IInv => FlaggedHasReason
  <2>. SUFFICES ASSUME IInv, NEW k \in DOMAIN scored
                PROVE  /\ scored[k].decision # "approve" => scored[k].reason # "none"
                       /\ scored[k].reason = "model_signal" => scored[k].source = "ml"
    BY DEF FlaggedHasReason
  <2>. DEFINE F == Fired(scored[k].vector)
  <2>1. ByPolicy(scored[k])
    BY DEF IInv
  <2>2. F \in SUBSET Rule
    BY DEF Fired
  <2>3. scored[k].decision # "approve" => scored[k].reason # "none"
    BY <2>1 DEF ByPolicy, DeriveReason
  <2>4. ASSUME scored[k].reason = "model_signal", scored[k].source = "fallback_rules"
        PROVE  FALSE
    <3>1. F = {} /\ scored[k].decision # "approve"
      BY <2>1, <2>2, <2>4 DEF ByPolicy, DeriveReason, Rule
    <3>2. scored[k].score = 5
      BY <2>1, <2>2, <2>4, <3>1, FallbackScoreValue DEF ByPolicy
    <3>. QED  BY <2>1, <3>1, <3>2 DEF ByPolicy
  <2>. QED  BY <2>1, <2>3, <2>4 DEF ByPolicy
<1>. QED  BY <1>1, Invariance, PTL

(* Every variable keeps its type; nothing is scored before the cut, and    *)
(* there is no dashboard before the end.                                   *)
THEOREM TypeCorrect == Spec => []TypeOK
<1>1. Init => TypeOK
  <2>. SUFFICES ASSUME Init PROVE TypeOK
    OBVIOUS
  <2>1. DOMAIN past = Card
    BY DEF Init
  <2>2. reloads \in 0 .. MaxReloads
    BY BatchAssumption DEF Init
  <2>. QED  BY <2>1, <2>2 DEF Init, TypeOK
<1>2. TypeOK /\ [Next]_vars => TypeOK'
  <2>. SUFFICES ASSUME TypeOK, [Next]_vars PROVE TypeOK'
    OBVIOUS
  <2>. USE DEF TypeOK, upload
  <2>1. CASE UNCHANGED vars
    BY <2>1 DEF vars
  <2>2. CASE RefuseUpload
    BY <2>2 DEF RefuseUpload
  <2>3. CASE ParseTransactions
    BY <2>3 DEF ParseTransactions
  <2>4. CASE CutAndSort
    <3>1. truncated' \in BOOLEAN
      BY <2>4 DEF CutAndSort, Truncated
    <3>. QED  BY <2>4, <3>1 DEF CutAndSort
  <2>5. CASE SortFails
    BY <2>5 DEF SortFails
  <2>6. CASE ScoreRow
    <3>1. DOMAIN past' = Card /\ pc = "score"
      BY <2>6 DEF ScoreRow
    <3>2. UNCHANGED <<upload, pc, model, reloads, metrics, payload>>
      BY <2>6 DEF ScoreRow
    <3>. QED  BY <3>1, <3>2
  <2>7. CASE EndScoring
    BY <2>7 DEF EndScoring
  <2>8. CASE FetchMetrics
    BY <2>8 DEF FetchMetrics
  <2>9. CASE BuildPayload
    BY <2>9 DEF BuildPayload
  <2>10. CASE Reload
    <3>1. reloads' \in 0 .. MaxReloads
      BY <2>10, BatchAssumption DEF Reload
    <3>. QED  BY <2>10, <3>1 DEF Reload
  <2>. QED
    BY <2>1, <2>2, <2>3, <2>4, <2>5, <2>6, <2>7, <2>8, <2>9, <2>10 DEF Next
<1>. QED  BY <1>1, <1>2, PTL DEF Spec

(***************************************************************************)
(* What the limit keeps                                                    *)
(***************************************************************************)
IsRows(s) ==
  /\ Len(s) \in Nat /\ DOMAIN s = 1 .. Len(s)
  /\ \A i \in DOMAIN s : s[i].at \in Int /\ s[i].amount \in Nat \ {0}

(* Kept holds as many rows as it may, and no row that it leaves out is     *)
(* earlier than one of them.                                               *)
LEMMA KeptRows ==
  ASSUME NEW s, IsRows(s)
  PROVE  /\ Len(Kept(s)) = IF Len(s) <= MaxBatchRows THEN Len(s) ELSE MaxBatchRows
         /\ \A i \in DOMAIN s :
              (\A k \in 1 .. Len(Kept(s)) : Kept(s)[k] # s[i])
                => \A k \in 1 .. Len(Kept(s)) : Kept(s)[k].at <= s[i].at
<1>. DEFINE key == [i \in DOMAIN s |-> s[i].at]
            n == IF Len(s) <= MaxBatchRows THEN Len(s) ELSE MaxBatchRows
            t == SortedBy(s, key)
            u == SubSeq(t, 1, n)
<1>1. Len(s) \in Nat /\ DOMAIN s = 1 .. Len(s) /\ \A i \in DOMAIN s : key[i] \in Int
  BY DEF IsRows
<1>2. MaxBatchRows \in Nat /\ MaxBatchRows >= 1 /\ n \in 0 .. Len(s)
  BY <1>1, BatchAssumption
<1>3. Kept(s) = IF Len(s) > MaxBatchRows THEN SubSeq(t, 1, MaxBatchRows) ELSE t
  BY DEF Kept, Sorted
<1>. HIDE DEF key
<1>4. t \in Seq(Entries(s)) /\ Len(t) = Len(s)
  BY <1>1, SortedByKey
<1>. HIDE DEF t
<1>5. t = SubSeq(t, 1, Len(t))
  BY <1>4
<1>6. Kept(s) = u
  BY <1>1, <1>2, <1>3, <1>4, <1>5
<1>. HIDE DEF n
<1>7. HoldsLeast(u, n, s, key)
  BY <1>1, <1>2, SortedPrefix DEF t
<1>. HIDE DEF u
<1>8. \A j \in DOMAIN s : key[j] = s[j].at
  BY DEF key
<1>9. ASSUME NEW i \in DOMAIN s, \A k \in 1 .. n : u[k] # s[i], NEW k \in 1 .. n
      PROVE  u[k].at <= s[i].at
  <2>1. PICK j \in DOMAIN s : u[k] = s[j] /\ key[j] <= key[i]
    BY <1>7, <1>9 DEF HoldsLeast
  <2>. QED  BY <1>8, <2>1
<1>10. Len(u) = n
  BY <1>7 DEF HoldsLeast
<1>. QED  BY <1>6, <1>9, <1>10 DEF n

(* The rows that validate, in the order of the file.                       *)
LEMMA ParsedRows ==
  ASSUME NEW f \in Upload
  PROVE  IsRows(ValidRows(f)) /\ Len(ValidRows(f)) = Cardinality({i \in DOMAIN f : f[i].valid})
<1>. DEFINE S == {i \in DOMAIN f : f[i].valid}
            t == ValidRows(f)
<1>1. /\ Len(f) \in Nat /\ DOMAIN f = 1 .. Len(f)
      /\ \A i \in S : f[i].at \in Int /\ f[i].amount \in Nat \ {0}
  BY UploadAssumption
<1>2. S \in SUBSET DOMAIN f
  OBVIOUS
<1>3. t = Selected(f, S)
  BY DEF ValidRows
<1>. HIDE DEF S, t
<1>4. /\ Len(t) = Cardinality(S) /\ Cardinality(S) \in Nat
      /\ DOMAIN t = 1 .. Cardinality(S)
  BY <1>1, <1>2, <1>3, SelectedRows
<1>5. \A k \in 1 .. Cardinality(S) : \E i \in S : t[k] = f[i]
  BY <1>1, <1>2, <1>3, SelectedRows
<1>6. \A k \in DOMAIN t : t[k].at \in Int /\ t[k].amount \in Nat \ {0}
  BY <1>1, <1>4, <1>5
<1>. QED  BY <1>4, <1>6 DEF IsRows, S, t

(***************************************************************************)
(* The inductive invariant of an upload: where batch_score is says what    *)
(* its rows are, and each result belongs to the row at its place.          *)
(***************************************************************************)
Cutting == {"score", "metrics", "payload", "ok"}

UploadInOrder ==
  /\ file \in Upload
  /\ IsRows(parsed)
  /\ pc \notin {"parse", "bad_request"} =>
       Len(parsed) = Cardinality({i \in DOMAIN file : file[i].valid})
  /\ pc = "cut" => rows = parsed
  /\ pc \in Cutting =>
       /\ rows = Kept(parsed) /\ truncated = Truncated(parsed)
       /\ Len(scored) <= Len(rows) /\ (pc # "score" => Len(scored) = Len(rows))
       /\ \A k \in DOMAIN scored : scored[k].txn = rows[k]

LEMMA UploadInit == Init => UploadInOrder
BY DEF Init, UploadInOrder, IsRows, Cutting

LEMMA UploadStep ==
  ASSUME IInv, TypeOK, UploadInOrder, [Next]_vars
  PROVE  UploadInOrder'
<1>. USE DEF upload, Cutting
<1>1. CASE RefuseUpload \/ SortFails
  BY <1>1 DEF RefuseUpload, SortFails, UploadInOrder, IsRows
<1>2. CASE ParseTransactions
  <2>1. file \in Upload /\ UNCHANGED file /\ parsed' = ValidRows(file) /\ rows' = parsed'
        /\ pc' \in {"bad_request", "cut"}
    BY <1>2 DEF ParseTransactions, UploadInOrder
  <2>2. IsRows(parsed)' /\ Len(parsed') = Cardinality({i \in DOMAIN file : file[i].valid})
    BY <2>1, ParsedRows DEF IsRows
  <2>3. pc' \notin Cutting
    BY <2>1 DEF Cutting
  <2>. QED  BY <2>1, <2>2, <2>3 DEF UploadInOrder
<1>3. CASE CutAndSort
  <2>1. /\ UNCHANGED <<file, parsed, scored>> /\ pc = "cut" /\ pc' = "score"
        /\ rows' = Kept(parsed) /\ truncated' = Truncated(parsed) /\ scored = <<>>
    BY <1>3 DEF CutAndSort, UploadInOrder, TypeOK
  <2>2. Len(rows') \in Nat
    BY <2>1, KeptRows, BatchAssumption DEF UploadInOrder, IsRows
  <2>3. IsRows(parsed) /\ Len(parsed) = Cardinality({i \in DOMAIN file : file[i].valid})
        /\ file \in Upload /\ rows = parsed
    BY <2>1 DEF UploadInOrder
  <2>4. scored' = <<>> /\ Len(scored') = 0 /\ DOMAIN scored' = {}
    BY <2>1
  <2>5. rows' = Kept(parsed') /\ truncated' = Truncated(parsed')
    BY <2>1
  <2>6. (file \in Upload)' /\ IsRows(parsed)'
        /\ Len(parsed') = Cardinality({i \in DOMAIN file' : file'[i].valid})
    BY <2>1, <2>3 DEF IsRows
  <2>. QED  BY <2>1, <2>2, <2>4, <2>5, <2>6 DEF UploadInOrder
<1>4. CASE ScoreRow
  <2>. DEFINE k == Len(scored) + 1
  <2>1. /\ UNCHANGED <<file, rows, parsed, truncated, pc>> /\ pc = "score" /\ Len(scored) < Len(rows)
        /\ \E r : r.txn = rows[k] /\ scored' = Append(scored, r)
    BY <1>4 DEF ScoreRow, Result
  <2>2. PICK r : r.txn = rows[k] /\ scored' = Append(scored, r)
    BY <2>1
  <2>3. scored \in Seq(Entries(scored)) /\ Len(scored) \in Nat
    BY DEF IInv
  <2>4. Len(rows) \in Nat
    BY <2>1, KeptRows, BatchAssumption DEF UploadInOrder, IsRows
  <2>5. /\ Len(scored') = k /\ DOMAIN scored' = 1 .. k /\ scored'[k] = r
        /\ \A l \in DOMAIN scored : scored'[l] = scored[l]
        /\ DOMAIN scored = 1 .. Len(scored)
    <3>1. scored \in Seq(Entries(scored) \cup {r})
      BY <2>3
    <3>. QED  BY <2>2, <3>1, AppendProperties, LenProperties
  <2>6. \A l \in DOMAIN scored' : scored'[l].txn = rows[l]
    BY <2>1, <2>2, <2>3, <2>5 DEF UploadInOrder
  <2>7. Len(scored') <= Len(rows)
    BY <2>1, <2>3, <2>4, <2>5
  <2>. QED  BY <2>1, <2>6, <2>7 DEF UploadInOrder, IsRows
<1>5. CASE EndScoring
  BY <1>5 DEF EndScoring, UploadInOrder, IsRows
<1>6. CASE FetchMetrics \/ BuildPayload \/ Reload
  BY <1>6 DEF FetchMetrics, BuildPayload, Reload, UploadInOrder, IsRows
<1>7. CASE UNCHANGED vars
  BY <1>7 DEF vars, UploadInOrder, IsRows
<1>. QED  BY <1>1, <1>2, <1>3, <1>4, <1>5, <1>6, <1>7 DEF Next

LEMMA UploadInvariance == Spec => []UploadInOrder
BY UploadInit, UploadStep, Invariance, TypeCorrect, PTL DEF Spec

(* However many rows a file has and in whatever order, as many are scored  *)
(* as the limit allows, and none that is left out is earlier than one that *)
(* is scored.                                                              *)
THEOREM CutEarliest == Spec => []CutKeepsEarliest
<1>1. ASSUME IInv, UploadInOrder PROVE CutKeepsEarliest
  <2>. SUFFICES ASSUME pc \in {"metrics", "payload", "ok"}
                PROVE  /\ Len(scored) = IF Len(parsed) <= MaxBatchRows THEN Len(parsed)
                                        ELSE MaxBatchRows
                       /\ \A i \in DOMAIN parsed :
                            (\A k \in DOMAIN scored : scored[k].txn # parsed[i])
                              => \A k \in DOMAIN scored : scored[k].txn.at <= parsed[i].at
    BY DEF CutKeepsEarliest
  <2>1. /\ rows = Kept(parsed) /\ Len(scored) = Len(rows) /\ IsRows(parsed)
        /\ \A k \in DOMAIN scored : scored[k].txn = rows[k]
    BY <1>1 DEF UploadInOrder, Cutting
  <2>2. DOMAIN scored = 1 .. Len(Kept(parsed))
    BY <1>1, <2>1 DEF IInv
  <2>. QED  BY <2>1, <2>2, KeptRows
<1>. QED  BY <1>1, Invariance, UploadInvariance, PTL

(* The performance panel, as long as no reload comes in between: without a *)
(* model the rules score, and the metrics are of the model that is there.  *)
OneModel ==
  reloads = 0 =>
    /\ model = NoModel => \A k \in DOMAIN scored : scored[k].source = "fallback_rules"
    /\ pc = "payload" => metrics \in {model, NoModel}

(* The panel of the dashboard is about the model that scored the file,     *)
(* with metrics of its run, and about the rules only when they scored it.  *)
THEOREM PanelTruthful == Spec => []PanelOfOneModel
<1>. DEFINE Inv == OneModel /\ PanelOfOneModel
<1>1. Init => Inv
  BY DEF Init, OneModel, PanelOfOneModel
<1>2. ASSUME IInv, TypeOK, Inv, [Next]_vars PROVE Inv'
  <2>. USE DEF upload
  <2>1. CASE RefuseUpload \/ ParseTransactions \/ CutAndSort \/ SortFails \/ EndScoring
    BY <1>2, <2>1
    DEF RefuseUpload, ParseTransactions, CutAndSort, SortFails, EndScoring, OneModel,
        PanelOfOneModel
  <2>2. CASE ScoreRow
    <3>1. /\ UNCHANGED <<pc, model, reloads, metrics, payload>> /\ pc = "score"
          /\ \E r : /\ model = NoModel => r.source = "fallback_rules"
                    /\ scored' = Append(scored, r)
      BY <2>2 DEF ScoreRow, Result
    <3>2. PICK r : /\ model = NoModel => r.source = "fallback_rules"
                   /\ scored' = Append(scored, r)
      BY <3>1
    <3>3. \A k \in DOMAIN scored' :
            scored'[k] = r \/ (k \in DOMAIN scored /\ scored'[k] = scored[k])
      BY <1>2, <3>2, AppendEntries DEF IInv
    <3>. QED  BY <1>2, <3>1, <3>2, <3>3 DEF OneModel, PanelOfOneModel
  <2>3. CASE FetchMetrics
    BY <1>2, <2>3 DEF FetchMetrics, OneModel, PanelOfOneModel
  <2>4. CASE BuildPayload
    <3>1. /\ UNCHANGED <<scored, model, reloads, metrics>> /\ pc = "payload" /\ pc' = "ok"
          /\ payload'.model_performance = Panel
      BY <2>4 DEF BuildPayload
    <3>. QED  BY <1>2, <3>1 DEF Panel, OneModel, PanelOfOneModel
  <2>5. CASE Reload
    <3>1. reloads' # 0
      BY <1>2, <2>5, BatchAssumption DEF Reload, TypeOK
    <3>. QED  BY <3>1 DEF OneModel, PanelOfOneModel
  <2>6. CASE UNCHANGED vars
    BY <1>2, <2>6 DEF vars, OneModel, PanelOfOneModel
  <2>. QED  BY <1>2, <2>1, <2>2, <2>3, <2>4, <2>5, <2>6 DEF Next
<1>3. Inv => PanelOfOneModel
  OBVIOUS
<1>. QED  BY <1>1, <1>2, <1>3, Invariance, TypeCorrect, PTL DEF Spec

(***************************************************************************)
(* The dashboard                                                           *)
(***************************************************************************)

(* Some positions of a sequence and the others make up its length.         *)
LEMMA TwoParts ==
  ASSUME NEW s, Len(s) \in Nat, DOMAIN s = 1 .. Len(s), NEW S \in SUBSET DOMAIN s
  PROVE  /\ Cardinality(S) \in Nat /\ Cardinality(DOMAIN s \ S) \in Nat
         /\ Cardinality(S) + Cardinality(DOMAIN s \ S) = Len(s)
<1>. DEFINE D == DOMAIN s
<1>1. IsFiniteSet(D) /\ Cardinality(D) = Len(s)
  BY FS_Interval
<1>. HIDE DEF D
<1>2. S \in SUBSET D /\ D \cap S = S
  BY DEF D
<1>3. IsFiniteSet(S) /\ IsFiniteSet(D \ S) /\ Cardinality(D \ S) = Cardinality(D) - Cardinality(S)
  <2>1. IsFiniteSet(S)
    BY <1>1, <1>2, FS_Subset
  <2>2. IsFiniteSet(D \ S) /\ Cardinality(D \ S) = Cardinality(D) - Cardinality(D \cap S)
    BY <1>1, FS_Difference, Zenon
  <2>. QED  BY <1>2, <2>1, <2>2
<1>4. Cardinality(S) \in Nat /\ Cardinality(D \ S) \in Nat
  BY <1>3, FS_CardinalityType
<1>. QED  BY <1>1, <1>3, <1>4 DEF D

(* Rows scored, rows skipped and rows cut are together the rows of the     *)
(* file, and the dashboard says whether any was cut.                       *)
THEOREM UploadAccountedFor == Spec => []UploadAccounted
<1>1. Init => UploadAccounted
  BY DEF Init, UploadAccounted
<1>2. ASSUME IInv, TypeOK, UploadInOrder, UploadAccounted, [Next]_vars
      PROVE  UploadAccounted'
  <2>1. CASE BuildPayload
    <3>. DEFINE good == {i \in DOMAIN file : file[i].valid}
                bad == {i \in DOMAIN file : ~file[i].valid}
    <3>1. payload'.upload_meta = UploadMeta /\ pc = "payload"
      BY <2>1 DEF BuildPayload
    <3>2. /\ UploadMeta.rows_in_file = Len(file) /\ UploadMeta.rows_scored = Len(scored)
          /\ UploadMeta.rows_skipped = Cardinality(bad) /\ UploadMeta.truncated = truncated
      BY DEF UploadMeta, Count
    <3>3. /\ IsRows(parsed) /\ Len(parsed) = Cardinality(good)
          /\ Len(scored) = Len(Kept(parsed)) /\ truncated = Truncated(parsed)
      BY <1>2, <3>1 DEF UploadInOrder, Cutting
    <3>4. Len(scored) = IF Len(parsed) <= MaxBatchRows THEN Len(parsed) ELSE MaxBatchRows
      BY <3>3, KeptRows
    <3>5. Cardinality(good) \in Nat /\ Cardinality(bad) \in Nat
          /\ Cardinality(good) + Cardinality(bad) = Len(file)
      <4>1. Len(file) \in Nat /\ DOMAIN file = 1 .. Len(file)
        BY <1>2, UploadAssumption DEF TypeOK
      <4>2. good \in SUBSET DOMAIN file /\ bad = DOMAIN file \ good
        OBVIOUS
      <4>. HIDE DEF good, bad
      <4>. QED  BY <4>1, <4>2, TwoParts
    <3>. DEFINE g == Cardinality(good)
                b == Cardinality(bad)
    <3>6. MaxBatchRows \in Nat \ {0} /\ (truncated <=> g > MaxBatchRows)
      BY <3>3, BatchAssumption DEF Truncated
    <3>. DEFINE meta == UploadMeta
    <3>. HIDE DEF meta
    <3>7. /\ meta.rows_in_file = g + b /\ meta.rows_skipped = b
          /\ meta.rows_scored = IF g <= MaxBatchRows THEN g ELSE MaxBatchRows
          /\ meta.truncated = truncated
      BY <3>2, <3>3, <3>4, <3>5 DEF meta
    <3>8. g \in Nat /\ b \in Nat
      BY <3>5
    <3>. HIDE DEF g, b
    <3>9. /\ meta.rows_in_file - meta.rows_scored - meta.rows_skipped >= 0
          /\ meta.truncated
               <=> meta.rows_in_file - meta.rows_scored - meta.rows_skipped > 0
          /\ meta.truncated => meta.rows_scored = MaxBatchRows
      BY <3>6, <3>7, <3>8
    <3>. QED  BY <3>1, <3>9 DEF UploadAccounted, meta
  <2>2. CASE ~BuildPayload
    <3>1. (pc' # "ok") \/ (pc = "ok" /\ payload' = payload)
      BY <1>2, <2>2
      DEF Next, vars, upload, RefuseUpload, ParseTransactions, CutAndSort, SortFails, ScoreRow,
          EndScoring, FetchMetrics, Reload
    <3>. QED  BY <1>2, <3>1 DEF UploadAccounted
  <2>. QED  BY <2>1, <2>2
<1>. QED  BY <1>1, <1>2, UploadInvariance, Invariance, TypeCorrect, PTL DEF Spec

(* sorted(s, key=fraud_score, reverse=True)[:n]: who is left out scores no *)
(* higher than who is in.                                                  *)
LEMMA HighestFirst ==
  ASSUME NEW s, Len(s) \in Nat, DOMAIN s = 1 .. Len(s), \A i \in DOMAIN s : s[i].score \in Int,
         NEW n \in Nat
  PROVE  /\ Len(HighestScores(s, n)) = IF n < Len(s) THEN n ELSE Len(s)
         /\ DOMAIN HighestScores(s, n) = 1 .. Len(HighestScores(s, n))
         /\ \A k \in DOMAIN HighestScores(s, n) :
              HighestScores(s, n)[k] = SortedBy(s, [i \in DOMAIN s |-> -s[i].score])[k]
         /\ \A i \in DOMAIN s :
              (\A k \in DOMAIN HighestScores(s, n) : HighestScores(s, n)[k] # s[i])
                => \A k \in DOMAIN HighestScores(s, n) :
                     HighestScores(s, n)[k].score >= s[i].score
<1>. DEFINE key == [i \in DOMAIN s |-> -s[i].score]
            best == SortedBy(s, key)
            m == IF n < Len(s) THEN n ELSE Len(s)
            u == HighestScores(s, n)
<1>1. \A i \in DOMAIN s : key[i] = -s[i].score /\ key[i] \in Int
  OBVIOUS
<1>. HIDE DEF key
<1>2. best \in Seq(Entries(s)) /\ Len(best) = Len(s)
  BY <1>1, SortedByKey
<1>3. m \in 0 .. Len(s)
  OBVIOUS
<1>4. u = SubSeq(best, 1, m)
  BY <1>2 DEF HighestScores, key
<1>. HIDE DEF m
<1>5. HoldsLeast(SubSeq(best, 1, m), m, s, key)
  BY <1>1, <1>3, SortedPrefix
<1>. HIDE DEF best
<1>6. \A k \in 1 .. m : SubSeq(best, 1, m)[k] = best[k]
  BY <1>2, <1>3, SubSeqProperties
<1>. HIDE DEF u
<1>7. Len(u) = m /\ DOMAIN u = 1 .. m /\ \A k \in DOMAIN u : u[k] = best[k]
  BY <1>4, <1>5, <1>6 DEF HoldsLeast
<1>8. ASSUME NEW i \in DOMAIN s, \A k \in DOMAIN u : u[k] # s[i], NEW k \in DOMAIN u
      PROVE  u[k].score >= s[i].score
  <2>1. PICK j \in DOMAIN s : u[k] = s[j] /\ key[j] <= key[i]
    BY <1>4, <1>5, <1>7, <1>8 DEF HoldsLeast
  <2>. QED  BY <1>1, <2>1
<1>. QED  BY <1>7, <1>8 DEF u, m, best, key

(* Every blocked row is an alert, the table of alerts is where the map's   *)
(* points start, and both show the alerts that score highest.              *)
THEOREM WorstAlertsFirst == Spec => []WorstAlertsShown
<1>1. Init => WorstAlertsShown
  BY DEF Init, WorstAlertsShown
<1>2. ASSUME IInv, WorstAlertsShown, [Next]_vars
      PROVE  WorstAlertsShown'
  <2>1. CASE BuildPayload
    <3>. DEFINE routed == {k \in DOMAIN scored : scored[k].routed}
                blocked == {k \in DOMAIN scored : scored[k].decision = "block"}
                top == HighestScores(Alerts, MaxTopAlerts)
                geo == HighestScores(Alerts, MaxGeoPoints)
                best == SortedBy(Alerts, [i \in DOMAIN Alerts |-> -Alerts[i].score])
    <3>1. /\ payload'.kpis = Kpis /\ UNCHANGED scored
          /\ payload'.top_alerts = top /\ payload'.geo_points = geo
      BY <2>1 DEF BuildPayload
    <3>2. /\ Kpis.fraudulent_transactions = Len(Blocked)
          /\ Kpis.alerts_triggered = Len(Alerts)
      BY DEF Kpis
    <3>3. /\ Len(scored) \in Nat /\ DOMAIN scored = 1 .. Len(scored)
          /\ \A k \in DOMAIN scored : scored[k].score \in Int
      BY <1>2 DEF IInv, ByPolicy
    <3>4. routed \in SUBSET DOMAIN scored /\ blocked \in SUBSET routed
      BY <1>2 DEF IInv, ByPolicy, RoutedToReview
    <3>5. Alerts = Selected(scored, routed) /\ Blocked = Selected(scored, blocked)
      BY DEF Alerts, Blocked
    <3>. HIDE DEF routed, blocked
    <3>6. /\ Alerts \in Seq(Entries(scored)) /\ Len(Alerts) = Cardinality(routed)
          /\ DOMAIN Alerts = 1 .. Len(Alerts)
          /\ \A k \in 1 .. Len(Alerts) : \E i \in routed : Alerts[k] = scored[i]
          /\ \A i \in routed : \E k \in 1 .. Len(Alerts) : Alerts[k] = scored[i]
      <4>. DEFINE t == Selected(scored, routed)
      <4>1. /\ t \in Seq(Entries(scored)) /\ Len(t) = Cardinality(routed)
            /\ DOMAIN t = 1 .. Cardinality(routed)
        BY <3>3, <3>4, SelectedRows
      <4>2. \A k \in 1 .. Cardinality(routed) : \E i \in routed : t[k] = scored[i]
        BY <3>3, <3>4, SelectedRows
      <4>3. \A i \in routed : \E k \in 1 .. Cardinality(routed) : t[k] = scored[i]
        BY <3>3, <3>4, SelectedRows
      <4>. HIDE DEF t
      <4>4. Alerts = t
        BY <3>5 DEF t
      <4>. QED  BY <4>1, <4>2, <4>3, <4>4
    <3>7. Len(Blocked) = Cardinality(blocked) /\ Cardinality(blocked) <= Cardinality(routed)
      <4>1. blocked \in SUBSET DOMAIN scored
        BY <3>4
      <4>2. Len(Blocked) = Cardinality(blocked)
        BY <3>3, <3>5, <4>1, SelectedRows
      <4>3. IsFiniteSet(DOMAIN scored)
        BY <3>3, FS_Interval
      <4>4. IsFiniteSet(routed)
        BY <3>4, <4>3, FS_Subset
      <4>. QED  BY <3>4, <4>2, <4>4, FS_Subset
    <3>8. Len(Alerts) \in Nat /\ \A k \in DOMAIN Alerts : Alerts[k].score \in Int
      BY <3>3, <3>4, <3>6
    <3>9. MaxTopAlerts \in Nat /\ MaxGeoPoints \in Nat /\ MaxTopAlerts <= MaxGeoPoints
      BY BatchAssumption
    <3>10. /\ Len(top) = IF MaxTopAlerts < Len(Alerts) THEN MaxTopAlerts ELSE Len(Alerts)
           /\ Len(geo) = IF MaxGeoPoints < Len(Alerts) THEN MaxGeoPoints ELSE Len(Alerts)
           /\ DOMAIN top = 1 .. Len(top) /\ DOMAIN geo = 1 .. Len(geo)
           /\ \A k \in DOMAIN top : top[k] = best[k]
           /\ \A k \in DOMAIN geo : geo[k] = best[k]
      <4>1. /\ Len(top) = IF MaxTopAlerts < Len(Alerts) THEN MaxTopAlerts ELSE Len(Alerts)
            /\ DOMAIN top = 1 .. Len(top)
            /\ \A k \in DOMAIN top : top[k] = best[k]
        BY <3>6, <3>8, <3>9, HighestFirst
      <4>2. /\ Len(geo) = IF MaxGeoPoints < Len(Alerts) THEN MaxGeoPoints ELSE Len(Alerts)
            /\ DOMAIN geo = 1 .. Len(geo)
            /\ \A k \in DOMAIN geo : geo[k] = best[k]
        BY <3>6, <3>8, <3>9, HighestFirst
      <4>. QED  BY <4>1, <4>2
    <3>11. \A i \in DOMAIN Alerts : \A shown \in {top, geo} :
             (\A l \in DOMAIN shown : shown[l] # Alerts[i])
               => \A l \in DOMAIN shown : shown[l].score >= Alerts[i].score
      <4>1. \A i \in DOMAIN Alerts :
              (\A l \in DOMAIN top : top[l] # Alerts[i])
                => \A l \in DOMAIN top : top[l].score >= Alerts[i].score
        BY <3>6, <3>8, <3>9, HighestFirst
      <4>2. \A i \in DOMAIN Alerts :
              (\A l \in DOMAIN geo : geo[l] # Alerts[i])
                => \A l \in DOMAIN geo : geo[l].score >= Alerts[i].score
        BY <3>6, <3>8, <3>9, HighestFirst
      <4>. HIDE DEF top, geo
      <4>. QED  BY <4>1, <4>2
    <3>. HIDE DEF top, geo, best
    <3>12. Len(top) <= Len(geo) /\ \A k \in DOMAIN top : geo[k] = top[k]
      <4>1. Len(top) <= Len(geo) /\ DOMAIN top \subseteq DOMAIN geo
        BY <3>8, <3>9, <3>10
      <4>. QED  BY <3>10, <4>1
    <3>13. ASSUME NEW k \in DOMAIN scored, NEW shown \in {top, geo},
                  scored[k].routed, \A l \in DOMAIN shown : shown[l] # scored[k]
           PROVE  \A l \in DOMAIN shown : shown[l].score >= scored[k].score
      <4>1. k \in routed
        BY <3>13 DEF routed
      <4>2. PICK i \in DOMAIN Alerts : Alerts[i] = scored[k]
        BY <3>6, <4>1
      <4>. QED  BY <3>11, <3>13, <4>2
    <3>. QED  BY <3>1, <3>2, <3>6, <3>7, <3>12, <3>13 DEF WorstAlertsShown
  <2>2. CASE ~BuildPayload
    <3>1. (pc' # "ok") \/ (pc = "ok" /\ UNCHANGED <<payload, scored>>)
      BY <1>2, <2>2
      DEF Next, vars, upload, RefuseUpload, ParseTransactions, CutAndSort, SortFails, ScoreRow,
          EndScoring, FetchMetrics, Reload
    <3>. QED  BY <1>2, <3>1 DEF WorstAlertsShown
  <2>. QED  BY <2>1, <2>2
<1>. QED  BY <1>1, <1>2, Invariance, PTL DEF Spec

(***************************************************************************)
(* The numbers of the dashboard                                            *)
(***************************************************************************)

(* The positions of s by ascending event_time, and by position.            *)
TimeOrder(s) == Ordered(DOMAIN s, [i \in DOMAIN s |-> s[i].at])

(* The rows that are scored are in order of event_time, and all that come  *)
(* before one of them are before it.                                       *)
LEMMA KeptInOrder ==
  ASSUME NEW s, IsRows(s)
  PROVE  /\ Len(Kept(s)) \in Nat /\ DOMAIN Kept(s) = 1 .. Len(Kept(s))
         /\ \A k \in DOMAIN Kept(s) :
              TimeOrder(s)[k] \in DOMAIN s /\ Kept(s)[k] = s[TimeOrder(s)[k]]
         /\ \A k, l \in DOMAIN Kept(s) : k < l => Kept(s)[k].at <= Kept(s)[l].at
         /\ \A k, l \in DOMAIN Kept(s) : TimeOrder(s)[k] = TimeOrder(s)[l] => k = l
         /\ \A k \in DOMAIN Kept(s), j \in DOMAIN s :
              (\E l \in 1 .. k - 1 : TimeOrder(s)[l] = j)
                <=> \/ s[j].at < s[TimeOrder(s)[k]].at
                    \/ s[j].at = s[TimeOrder(s)[k]].at /\ j < TimeOrder(s)[k]
<1>. DEFINE key == [i \in DOMAIN s |-> s[i].at]
            S == DOMAIN s
            o == Ordered(S, key)
            t == SortedBy(s, key)
            u == Kept(s)
<1>1. /\ Len(s) \in Nat /\ S = 1 .. Len(s)
      /\ \A i \in S : key[i] \in Int /\ key[i] = s[i].at
  BY DEF IsRows
<1>2. u = IF Len(s) > MaxBatchRows THEN SubSeq(t, 1, MaxBatchRows) ELSE t
  BY DEF Kept, Sorted
<1>3. o = TimeOrder(s)
  BY DEF TimeOrder
<1>. HIDE DEF key
<1>4. t \in Seq(Entries(s)) /\ Len(t) = Len(s)
  BY <1>1, SortedByKey
<1>5. \A k \in S : o[k] \in S /\ Rank(S, key, o[k]) = k /\ t[k] = s[o[k]]
  <2>1. EachAtItsRank(s, key)
    BY <1>1, SortedByKey
  <2>. QED  BY <2>1 DEF EachAtItsRank
<1>6. \A i \in S : Rank(S, key, i) \in S
  BY <1>1, SortedByKey
<1>7. IsFiniteSet(S) /\ S \subseteq Int
  BY <1>1, FS_Interval
<1>8. \A i \in S : o[Rank(S, key, i)] = i
  <2>. HIDE DEF S
  <2>. QED  BY <1>1, <1>7, Ranking
<1>9. \A i, j \in S : Rank(S, key, i) < Rank(S, key, j)
                        <=> key[i] < key[j] \/ (key[i] = key[j] /\ i < j)
  <2>. HIDE DEF S
  <2>. QED  BY <1>1, <1>7, Ranking
<1>. HIDE DEF t, o
<1>10. MaxBatchRows \in Nat /\ MaxBatchRows >= 1
  BY BatchAssumption
<1>11. /\ Len(u) \in Nat /\ DOMAIN u = 1 .. Len(u) /\ DOMAIN u \subseteq S
       /\ \A k \in DOMAIN u : u[k] = t[k]
  <2>1. CASE Len(s) > MaxBatchRows
    <3>1. u = SubSeq(t, 1, MaxBatchRows) /\ MaxBatchRows \in 1 .. Len(t)
      BY <1>1, <1>2, <1>4, <1>10, <2>1
    <3>. HIDE DEF u
    <3>2. Len(u) = MaxBatchRows /\ \A k \in 1 .. MaxBatchRows : u[k] = t[k]
      BY <1>4, <1>10, <3>1, SubSeqProperties
    <3>3. u \in Seq(Entries(s))
      BY <1>4, <1>10, <3>1, SubSeqProperties
    <3>. QED  BY <1>1, <1>4, <1>10, <2>1, <3>2, <3>3
  <2>2. CASE ~(Len(s) > MaxBatchRows)
    BY <1>1, <1>2, <1>4, <2>2
  <2>. QED  BY <2>1, <2>2
<1>. HIDE DEF u
<1>12. ASSUME NEW k \in DOMAIN u, NEW j \in S
       PROVE  (\E l \in 1 .. k - 1 : o[l] = j) <=> key[j] < key[o[k]] \/ (key[j] = key[o[k]] /\ j < o[k])
  <2>1. k \in S /\ o[k] \in S /\ Rank(S, key, o[k]) = k
    BY <1>5, <1>11
  <2>2. (\E l \in 1 .. k - 1 : o[l] = j) <=> Rank(S, key, j) < k
    <3>1. ASSUME NEW l \in 1 .. k - 1, o[l] = j PROVE Rank(S, key, j) < k
      <4>1. l \in S
        BY <1>1, <2>1
      <4>. QED  BY <1>1, <1>5, <2>1, <3>1, <4>1
    <3>2. ASSUME Rank(S, key, j) < k PROVE \E l \in 1 .. k - 1 : o[l] = j
      BY <1>1, <1>6, <1>8, <2>1, <3>2
    <3>. QED  BY <3>1, <3>2
  <2>. QED  BY <1>9, <2>1, <2>2
<1>13. ASSUME NEW k \in DOMAIN u, NEW l \in DOMAIN u, k < l PROVE u[k].at <= u[l].at
  <2>1. k \in S /\ l \in S
    BY <1>11
  <2>2. Rank(S, key, o[k]) < Rank(S, key, o[l])
    BY <1>5, <1>13, <2>1
  <2>3. key[o[k]] <= key[o[l]]
    BY <1>1, <1>5, <1>9, <2>1, <2>2
  <2>. QED  BY <1>1, <1>5, <1>11, <2>1, <2>3
<1>14. ASSUME NEW k \in DOMAIN u, NEW l \in DOMAIN u, o[k] = o[l] PROVE k = l
  BY <1>5, <1>11, <1>14
<1>15. ASSUME NEW k \in DOMAIN u PROVE o[k] \in S /\ u[k] = s[o[k]]
  BY <1>5, <1>11
<1>16. ASSUME NEW k \in DOMAIN u, NEW j \in S
       PROVE  (\E l \in 1 .. k - 1 : o[l] = j)
                <=> s[j].at < s[o[k]].at \/ (s[j].at = s[o[k]].at /\ j < o[k])
  <2>1. key[j] = s[j].at /\ key[o[k]] = s[o[k]].at
    BY <1>1, <1>15
  <2>. QED  BY <1>12, <2>1
<1>17. Len(u) \in Nat /\ DOMAIN u = 1 .. Len(u)
  BY <1>11
<1>. QED  BY <1>3, <1>13, <1>14, <1>15, <1>16, <1>17 DEF u

(* Every instant of the file has a bucket.                                 *)
LEMMA BucketInChart ==
  ASSUME NEW t, t.at \in Int, FirstTime \in Int, FirstTime <= t.at,
         rows[Len(rows)].at \in Int, FirstTime <= rows[Len(rows)].at
  PROVE  BucketOf(t) \in 1 .. NumBuckets
<1>. DEFINE a == (t.at - FirstTime) * NumBuckets
            b == a \div Span
<1>1. NumBuckets \in Nat /\ NumBuckets >= 1
  BY BatchAssumption
<1>2. Span \in Nat /\ Span >= 1
  BY DEF Span
<1>3. a \in Nat
  BY <1>1
<1>. HIDE DEF a
<1>4. b \in Nat
  BY <1>2, <1>3
<1>5. BucketOf(t) = IF b < NumBuckets - 1 THEN b + 1 ELSE NumBuckets
  BY DEF BucketOf, a
<1>. HIDE DEF b
<1>. QED  BY <1>1, <1>4, <1>5

(* What the panels are drawn from: alerts and blocked rows are results of  *)
(* rows of the file.                                                       *)
LEMMA ShownRows ==
  ASSUME IInv, UploadInOrder, pc \in Cutting, NEW S \in SUBSET DOMAIN scored
  PROVE  /\ Len(Selected(scored, S)) \in Nat
         /\ DOMAIN Selected(scored, S) = 1 .. Len(Selected(scored, S))
         /\ \A k \in DOMAIN Selected(scored, S) :
              \E m \in DOMAIN rows : Selected(scored, S)[k].txn = rows[m]
<1>. DEFINE t == Selected(scored, S)
<1>1. Len(scored) \in Nat /\ DOMAIN scored = 1 .. Len(scored)
  BY DEF IInv
<1>2. Len(t) = Cardinality(S) /\ DOMAIN t = 1 .. Cardinality(S) /\ Cardinality(S) \in Nat
  BY <1>1, SelectedRows
<1>3. \A k \in 1 .. Cardinality(S) : \E i \in S : t[k] = scored[i]
  BY <1>1, SelectedRows
<1>. HIDE DEF t
<1>4. \A i \in S : scored[i].txn = rows[i] /\ i \in DOMAIN rows
  <2>1. /\ IsRows(parsed) /\ rows = Kept(parsed) /\ Len(scored) <= Len(rows)
        /\ \A k \in DOMAIN scored : scored[k].txn = rows[k]
    BY DEF UploadInOrder
  <2>2. DOMAIN rows = 1 .. Len(rows) /\ Len(rows) \in Nat
    BY <2>1, KeptInOrder
  <2>. QED  BY <1>1, <2>1, <2>2
<1>. QED  BY <1>2, <1>3, <1>4 DEF t

LEMMA RowsOfFile ==
  ASSUME UploadInOrder, pc \in Cutting
  PROVE  /\ Len(rows) \in Nat /\ DOMAIN rows = 1 .. Len(rows)
         /\ \A m \in DOMAIN rows : /\ rows[m].at \in Int /\ rows[m].amount \in Nat \ {0}
                                   /\ rows[1].at \in Int /\ rows[1].at <= rows[m].at
                                   /\ rows[Len(rows)].at \in Int /\ rows[1].at <= rows[Len(rows)].at
<1>1. IsRows(parsed) /\ rows = Kept(parsed)
  BY DEF UploadInOrder
<1>2. Len(rows) \in Nat /\ DOMAIN rows = 1 .. Len(rows)
  BY <1>1, KeptInOrder
<1>3. \A m \in DOMAIN rows : TimeOrder(parsed)[m] \in DOMAIN parsed /\ rows[m] = parsed[TimeOrder(parsed)[m]]
  BY <1>1, KeptInOrder
<1>4. \A m \in DOMAIN rows : rows[m].at \in Int /\ rows[m].amount \in Nat \ {0}
  BY <1>1, <1>3 DEF IsRows
<1>5. \A k, l \in DOMAIN rows : k < l => rows[k].at <= rows[l].at
  BY <1>1, KeptInOrder
<1>6. ASSUME NEW m \in DOMAIN rows PROVE 1 \in DOMAIN rows /\ Len(rows) \in DOMAIN rows
  BY <1>2
<1>7. ASSUME NEW m \in DOMAIN rows PROVE rows[1].at <= rows[m].at
  <2>1. 1 = m \/ 1 < m
    BY <1>2
  <2>. QED  BY <1>4, <1>5, <1>6, <2>1
<1>. QED  BY <1>2, <1>4, <1>6, <1>7

(* The buckets of the chart add up to the alerts.                          *)
LEMMA ChartAddsUp ==
  ASSUME IInv, UploadInOrder, pc \in Cutting
  PROVE  SumFunctionOnSet(Timeseries, 1 .. NumBuckets) = Len(Alerts)
<1>. DEFINE S == DOMAIN Alerts
            T == 1 .. NumBuckets
            class == [k \in S |-> BucketOf(Alerts[k].txn)]
<1>1. /\ Len(Alerts) \in Nat /\ S = 1 .. Len(Alerts)
      /\ \A k \in S : \E m \in DOMAIN rows : Alerts[k].txn = rows[m]
  BY ShownRows DEF Alerts
<1>2. \A k \in S : BucketOf(Alerts[k].txn) \in T
  <2>1. ASSUME NEW m \in DOMAIN rows PROVE BucketOf(rows[m]) \in T
    BY RowsOfFile, BucketInChart DEF FirstTime
  <2>. QED  BY <1>1, <2>1
<1>3. class \in [S -> T]
  BY <1>2
<1>4. IsFiniteSet(S) /\ Cardinality(S) = Len(Alerts)
  BY <1>1, FS_Interval
<1>5. IsFiniteSet(T)
  BY BatchAssumption, FS_Interval
<1>6. \A b \in T : Timeseries[b] = Cardinality({k \in S : class[k] = b})
  <2>. TAKE b \in T
  <2>1. Timeseries[b] = Cardinality({k \in S : BucketOf(Alerts[k].txn) = b})
    BY DEF Timeseries, Count
  <2>2. {k \in S : BucketOf(Alerts[k].txn) = b} = {k \in S : class[k] = b}
    OBVIOUS
  <2>. QED  BY <2>1, <2>2
<1>. HIDE DEF S, T, class
<1>7. SumFunctionOnSet(Timeseries, T) = Cardinality(S)
  BY <1>3, <1>4, <1>5, <1>6, SumOfClasses
<1>. QED  BY <1>4, <1>7 DEF T

(* The reasons add up to the blocked rows, and there is an amount exactly  *)
(* if there are any.                                                       *)
LEMMA BlockedAddUp ==
  ASSUME IInv, UploadInOrder, pc \in Cutting
  PROVE  /\ SumFunction(Reasons) = Len(Blocked) /\ Len(Blocked) \in Nat
         /\ SumFunction([k \in DOMAIN Blocked |-> Blocked[k].txn.amount]) > 0 <=> Len(Blocked) > 0
<1>. DEFINE S == DOMAIN Blocked
            T == {Blocked[k].reason : k \in S}
            class == [k \in S |-> Blocked[k].reason]
            f == [k \in S |-> Blocked[k].txn.amount]
<1>1. /\ Len(Blocked) \in Nat /\ S = 1 .. Len(Blocked)
      /\ \A k \in S : \E m \in DOMAIN rows : Blocked[k].txn = rows[m]
  BY ShownRows DEF Blocked
<1>2. class \in Surjection(S, T)
  BY Zenon DEF Surjection
<1>3. IsFiniteSet(S) /\ Cardinality(S) = Len(Blocked)
  BY <1>1, FS_Interval
<1>4. DOMAIN Reasons = T /\ \A g \in T : Reasons[g] = Cardinality({k \in S : class[k] = g})
  <2>1. DOMAIN Reasons = T
    BY DEF Reasons
  <2>2. ASSUME NEW g \in T PROVE Reasons[g] = Cardinality({k \in S : class[k] = g})
    <3>1. Reasons[g] = Cardinality({k \in S : Blocked[k].reason = g})
      BY DEF Reasons, Count
    <3>2. {k \in S : Blocked[k].reason = g} = {k \in S : class[k] = g}
      OBVIOUS
    <3>. QED  BY <3>1, <3>2
  <2>. QED  BY <2>1, <2>2
<1>5. \A k \in S : f[k] \in Nat \ {0}
  BY <1>1, RowsOfFile
<1>6. DOMAIN f = S
  OBVIOUS
<1>. HIDE DEF S, T, class, f
<1>7. IsFiniteSet(T) /\ class \in [S -> T]
  BY <1>2, <1>3, FS_Surjection DEF Surjection
<1>8. SumFunctionOnSet(Reasons, T) = Cardinality(S)
  BY <1>3, <1>4, <1>7, SumOfClasses
<1>9. SumFunctionOnSet(f, S) > 0 <=> S # {}
  BY <1>3, <1>5, SumPositive
<1>10. S # {} <=> Len(Blocked) > 0
  BY <1>1
<1>. QED  BY <1>1, <1>3, <1>4, <1>6, <1>8, <1>9, <1>10 DEF SumFunction, f, S

(* Every number on the dashboard agrees with every other: buckets with     *)
(* alerts, reasons and amount with blocked rows, both lists of alerts with *)
(* each other, and the rows scored, skipped and cut with the file.         *)
THEOREM DashboardAlwaysAddsUp == Spec => []DashboardAddsUp
<1>. DEFINE Inv == AlertsAllCharted /\ ReasonsAddUp
<1>1. Init => Inv
  BY DEF Init, AlertsAllCharted, ReasonsAddUp
<1>2. ASSUME IInv, UploadInOrder, Inv, [Next]_vars PROVE Inv'
  <2>1. CASE BuildPayload
    <3>1. /\ payload'.kpis = Kpis /\ payload'.timeseries = Timeseries
          /\ payload'.reasons = Reasons /\ pc \in Cutting
      BY <2>1 DEF BuildPayload, Cutting
    <3>2. /\ Kpis.fraudulent_transactions = Len(Blocked)
          /\ Kpis.alerts_triggered = Len(Alerts)
          /\ Kpis.blocked_amount = SumFunction([k \in DOMAIN Blocked |-> Blocked[k].txn.amount])
      BY DEF Kpis
    <3>3. SumFunctionOnSet(Timeseries, 1 .. NumBuckets) = Len(Alerts)
      BY <1>2, <3>1, ChartAddsUp
    <3>4. /\ SumFunction(Reasons) = Len(Blocked)
          /\ Kpis.blocked_amount > 0 <=> Len(Blocked) > 0
      BY <1>2, <3>1, <3>2, BlockedAddUp
    <3>5. AlertsAllCharted'
      BY <3>1, <3>2, <3>3 DEF AlertsAllCharted
    <3>6. ReasonsAddUp'
      BY <3>1, <3>2, <3>4 DEF ReasonsAddUp
    <3>. QED  BY <3>5, <3>6
  <2>2. CASE ~BuildPayload
    <3>1. (pc' # "ok") \/ (pc = "ok" /\ UNCHANGED payload)
      BY <1>2, <2>2
      DEF Next, vars, upload, RefuseUpload, ParseTransactions, CutAndSort, SortFails, ScoreRow,
          EndScoring, FetchMetrics, Reload
    <3>. QED  BY <1>2, <3>1 DEF AlertsAllCharted, ReasonsAddUp
  <2>. QED  BY <2>1, <2>2
<1>3. Spec => []Inv
  BY <1>1, <1>2, UploadInvariance, Invariance, PTL DEF Spec
<1>. QED  BY <1>3, WorstAlertsFirst, UploadAccountedFor, PTL DEF DashboardAddsUp

(***************************************************************************)
(* The history score_batch builds                                          *)
(***************************************************************************)

(* The entries of h at W are those of s at R, one for one.                 *)
Mirrors(h, W, s, R) == \E m \in Bijection(W, R) : \A p \in W : h[p] = s[m[p]]

LEMMA MirrorsIf ==
  ASSUME NEW h, NEW W, NEW s, NEW R, NEW m \in [W -> R],
         \A p, q \in W : m[p] = m[q] => p = q,
         \A j \in R : \E p \in W : m[p] = j,
         \A p \in W : h[p] = s[m[p]]
  PROVE  Mirrors(h, W, s, R)
<1>1. m \in Bijection(W, R)
  BY Fun_IsBij
<1>. QED  BY <1>1 DEF Mirrors

LEMMA MirrorsOnly ==
  ASSUME NEW h, NEW W, NEW s, NEW R, Mirrors(h, W, s, R)
  PROVE  \E m \in [W -> R] : /\ \A p, q \in W : m[p] = m[q] => p = q
                             /\ \A j \in R : \E p \in W : m[p] = j
                             /\ \A p \in W : h[p] = s[m[p]]
BY DEF Mirrors, Bijection, Injection, Surjection, IsInjective

(* h holds the first n of the rows r that are of the card c.               *)
OfCard(r, n, c) == {m \in 1 .. n : r[m].card = c}

HistoryOf(h, r, n, c) ==
  /\ h \in Seq(Entries(h)) /\ Len(h) \in Nat /\ DOMAIN h = 1 .. Len(h)
  /\ Mirrors(h, DOMAIN h, r, OfCard(r, n, c))

LEMMA HistoryStarts ==
  ASSUME NEW r, NEW c
  PROVE  HistoryOf(<<>>, r, 0, c)
<1>1. OfCard(r, 0, c) = {}
  BY DEF OfCard
<1>2. Mirrors(<<>>, {}, r, {})
  <2>. DEFINE m == [p \in {} |-> p]
  <2>1. m \in [{} -> {}]
    OBVIOUS
  <2>. HIDE DEF m
  <2>. QED  BY <2>1, MirrorsIf
<1>. QED  BY <1>1, <1>2 DEF HistoryOf

LEMMA HistoryStays ==
  ASSUME NEW h, NEW r, NEW n \in Nat, NEW c, HistoryOf(h, r, n, c), r[n + 1].card # c
  PROVE  HistoryOf(h, r, n + 1, c)
<1>1. OfCard(r, n + 1, c) = OfCard(r, n, c)
  BY DEF OfCard
<1>. QED  BY <1>1 DEF HistoryOf

LEMMA HistoryGrows ==
  ASSUME NEW h, NEW r, NEW n \in Nat, NEW c, HistoryOf(h, r, n, c), r[n + 1].card = c
  PROVE  HistoryOf(Append(h, r[n + 1]), r, n + 1, c)
<1>. DEFINE x == r[n + 1]
            g == Append(h, x)
            N == Len(h) + 1
            C == OfCard(r, n, c)
            D == OfCard(r, n + 1, c)
<1>1. h \in Seq(Entries(h)) /\ Len(h) \in Nat /\ DOMAIN h = 1 .. Len(h)
  BY DEF HistoryOf
<1>2. PICK m \in [DOMAIN h -> C] : /\ \A p, q \in DOMAIN h : m[p] = m[q] => p = q
                                   /\ \A j \in C : \E p \in DOMAIN h : m[p] = j
                                   /\ \A p \in DOMAIN h : h[p] = r[m[p]]
  BY MirrorsOnly DEF HistoryOf
<1>3. g \in Seq(Entries(g))
  BY <1>1, AppendEntries
<1>4. /\ Len(g) = N /\ DOMAIN g = 1 .. N /\ g[N] = x
      /\ \A p \in DOMAIN h : g[p] = h[p]
  <2>1. h \in Seq(Entries(h) \cup {x})
    BY <1>1
  <2>. QED  BY <1>1, <2>1, AppendProperties, LenProperties
<1>5. /\ \A j : j \in D <=> j \in C \/ j = n + 1
      /\ n + 1 \notin C
  BY DEF OfCard
<1>6. /\ \A p : p \in 1 .. N <=> p \in DOMAIN h \/ p = N
      /\ N \notin DOMAIN h
  BY <1>1
<1>7. /\ \A p \in DOMAIN h : g[p] = r[m[p]]
      /\ g[N] = r[n + 1]
  BY <1>2, <1>4
<1>. DEFINE k == [p \in 1 .. N |-> IF p = N THEN n + 1 ELSE m[p]]
<1>. HIDE DEF g, x, N, C, D
<1>8. k \in [1 .. N -> D]
  BY <1>2, <1>5, <1>6
<1>9. k[N] = n + 1 /\ \A p \in DOMAIN h : k[p] = m[p]
  BY <1>6
<1>. HIDE DEF k
<1>10. \A p, q \in 1 .. N : k[p] = k[q] => p = q
  BY <1>2, <1>5, <1>6, <1>9
<1>11. \A j \in D : \E p \in 1 .. N : k[p] = j
  BY <1>2, <1>5, <1>6, <1>9
<1>12. \A p \in 1 .. N : g[p] = r[k[p]]
  BY <1>6, <1>7, <1>9
<1>13. Mirrors(g, 1 .. N, r, D)
  BY <1>8, <1>10, <1>11, <1>12, MirrorsIf
<1>. QED  BY <1>1, <1>3, <1>4, <1>13 DEF HistoryOf, g, x, N, D

(* Recent, of the row s[i] of any file s.                                  *)
RecentOf(s, i, w) ==
  {j \in DOMAIN s :
     /\ s[j].card = s[i].card /\ s[j].txn # s[i].txn
     /\ s[j].at < s[i].at \/ (s[j].at = s[i].at /\ j < i)
     /\ s[i].at - s[j].at <= w}

(* The window of a row, over the history of its card, is what the file has *)
(* of that card before the row.                                            *)
LEMMA WindowIsRecent ==
  ASSUME NEW s, IsRows(s), NEW k \in DOMAIN Kept(s),
         NEW h, HistoryOf(h, Kept(s), k - 1, Kept(s)[k].card), NEW w \in Nat
  PROVE  Mirrors(h, InWindow(h, Kept(s)[k], w), s, RecentOf(s, TimeOrder(s)[k], w))
<1>. DEFINE u == Kept(s)
            o == TimeOrder(s)
            t == u[k]
            i == o[k]
            W == InWindow(h, t, w)
            R == RecentOf(s, i, w)
            C == OfCard(u, k - 1, t.card)
<1>1. /\ Len(u) \in Nat /\ DOMAIN u = 1 .. Len(u)
      /\ \A l \in DOMAIN u : o[l] \in DOMAIN s /\ u[l] = s[o[l]]
  BY KeptInOrder
<1>2. \A l, m \in DOMAIN u : l < m => u[l].at <= u[m].at
  BY KeptInOrder
<1>3. \A l, m \in DOMAIN u : o[l] = o[m] => l = m
  BY KeptInOrder
<1>4. \A j \in DOMAIN s :
        (\E l \in 1 .. k - 1 : o[l] = j) <=> s[j].at < s[i].at \/ (s[j].at = s[i].at /\ j < i)
  BY KeptInOrder
<1>5. \A j \in DOMAIN s : s[j].at \in Int
  BY DEF IsRows
<1>6. PICK b \in [DOMAIN h -> C] : /\ \A p, q \in DOMAIN h : b[p] = b[q] => p = q
                                   /\ \A j \in C : \E p \in DOMAIN h : b[p] = j
                                   /\ \A p \in DOMAIN h : h[p] = u[b[p]]
  BY MirrorsOnly DEF HistoryOf
<1>7. k \in 1 .. Len(u) /\ i \in DOMAIN s /\ t = s[i]
  BY <1>1
<1>8. \A p : p \in W <=> /\ p \in DOMAIN h /\ h[p].txn # t.txn
                         /\ t.at - w <= h[p].at /\ h[p].at <= t.at
  BY DEF InWindow, Past
<1>9. \A l : l \in C <=> l \in 1 .. k - 1 /\ u[l].card = t.card
  BY DEF OfCard
<1>10. \A j : j \in R <=> /\ j \in DOMAIN s /\ s[j].card = t.card /\ s[j].txn # t.txn
                          /\ s[j].at < s[i].at \/ (s[j].at = s[i].at /\ j < i)
                          /\ t.at - s[j].at <= w
  BY <1>7 DEF RecentOf
<1>. DEFINE m == [p \in W |-> o[b[p]]]
<1>. HIDE DEF u, o, t, i, W, R, C
<1>11. ASSUME NEW l \in 1 .. k - 1 PROVE l \in DOMAIN u /\ l < k /\ u[l].at <= t.at
  BY <1>1, <1>2, <1>7, <1>11 DEF t
<1>12. ASSUME NEW p \in W
       PROVE  /\ b[p] \in 1 .. k - 1 /\ b[p] \in DOMAIN u /\ m[p] = o[b[p]]
              /\ h[p] = s[m[p]] /\ m[p] \in R
  <2>1. p \in DOMAIN h /\ b[p] \in 1 .. k - 1 /\ b[p] \in DOMAIN u /\ u[b[p]].card = t.card
    BY <1>6, <1>8, <1>9, <1>11
  <2>2. m[p] = o[b[p]] /\ m[p] \in DOMAIN s /\ h[p] = s[m[p]] /\ h[p] = u[b[p]]
    BY <1>1, <1>6, <2>1
  <2>. HIDE DEF m
  <2>3. s[m[p]].at < s[i].at \/ (s[m[p]].at = s[i].at /\ m[p] < i)
    BY <1>4, <2>1, <2>2
  <2>4. s[m[p]].at \in Int /\ t.at \in Int
    BY <1>5, <1>7, <2>2
  <2>5. t.at - s[m[p]].at <= w /\ s[m[p]].txn # t.txn
    BY <1>8, <2>2, <2>4
  <2>6. s[m[p]].card = t.card
    BY <2>1, <2>2
  <2>. QED  BY <1>10, <2>1, <2>2, <2>3, <2>5, <2>6
<1>13. m \in [W -> R]
  BY <1>12
<1>14. ASSUME NEW p \in W, NEW q \in W, m[p] = m[q] PROVE p = q
  <2>1. b[p] = b[q]
    BY <1>3, <1>12, <1>14
  <2>. QED  BY <1>6, <1>8, <2>1
<1>15. ASSUME NEW j \in R PROVE \E p \in W : m[p] = j
  <2>1. j \in DOMAIN s /\ s[j].card = t.card /\ s[j].txn # t.txn /\ t.at - s[j].at <= w
    BY <1>10
  <2>2. PICK l \in 1 .. k - 1 : o[l] = j
    BY <1>4, <1>10
  <2>3. l \in DOMAIN u /\ u[l] = s[j] /\ u[l].at <= t.at
    BY <1>1, <1>11, <2>2
  <2>4. PICK p \in DOMAIN h : b[p] = l
    BY <1>6, <1>9, <2>1, <2>3
  <2>5. h[p] = s[j]
    BY <1>6, <2>3, <2>4
  <2>6. s[j].at \in Int /\ t.at \in Int
    BY <1>5, <1>7, <2>1
  <2>7. p \in W
    BY <1>8, <2>1, <2>3, <2>5, <2>6
  <2>. QED  BY <2>2, <2>4, <2>7
<1>16. \A p \in W : h[p] = s[m[p]]
  BY <1>12
<1>. HIDE DEF m
<1>17. Mirrors(h, W, s, R)
  BY <1>13, <1>14, <1>15, <1>16, MirrorsIf
<1>. QED  BY <1>17 DEF W, R, u, o, t, i

Merchants(h, W) == {h[p].merchant : p \in W}

(* What mirrors is as many, sums up to as much and has the same merchants. *)
LEMMA MirrorsAlike ==
  ASSUME NEW h, NEW W, IsFiniteSet(W), NEW s, NEW R, Mirrors(h, W, s, R),
         \A j \in R : s[j].amount \in Nat
  PROVE  /\ Cardinality(W) = Cardinality(R)
         /\ Amounts(h, W) = Amounts(s, R) /\ Merchants(h, W) = Merchants(s, R)
<1>. DEFINE f == [p \in W |-> h[p].amount]
            g == [j \in R |-> s[j].amount]
<1>1. PICK m \in Bijection(W, R) : \A p \in W : h[p] = s[m[p]]
  BY DEF Mirrors
<1>2. m \in [W -> R] /\ \A j \in R : \E p \in W : m[p] = j
  BY DEF Bijection, Injection, Surjection
<1>3. Cardinality(W) = Cardinality(R)
  BY FS_Bijection DEF ExistsBijection
<1>4. \A p \in W : f[p] \in Nat /\ g[m[p]] = f[p]
  BY <1>1, <1>2
<1>5. DOMAIN f = W /\ DOMAIN g = R
  OBVIOUS
<1>6. Merchants(h, W) = Merchants(s, R)
  BY <1>1, <1>2 DEF Merchants
<1>. HIDE DEF f, g
<1>7. SumFunctionOnSet(f, W) = SumFunctionOnSet(g, R)
  BY <1>4, SumAlike
<1>8. SumFunction(f) = SumFunction(g)
  BY <1>5, <1>7 DEF SumFunction
<1>. QED  BY <1>3, <1>6, <1>8 DEF Amounts, f, g

(* The vector fv is that of the i-th row of the file s.                    *)
VectorOf(s, i, fv) ==
  LET day == RecentOf(s, i, OneDay)
  IN /\ fv.velocity_5min = Cardinality(RecentOf(s, i, FiveMinutes)) + 1
     /\ fv.txn_count_1h = Cardinality(RecentOf(s, i, OneHour)) + 1
     /\ fv.txn_count_24h = Cardinality(day) + 1
     /\ fv.sum_amount_24h = SumFunction([j \in day |-> s[j].amount]) + s[i].amount
     /\ fv.distinct_merchants_24h =
          Cardinality({s[j].merchant : j \in day} \cup {s[i].merchant})

LEMMA ComputesFromFile ==
  ASSUME NEW s, IsRows(s), NEW k \in DOMAIN Kept(s),
         NEW h, HistoryOf(h, Kept(s), k - 1, Kept(s)[k].card)
  PROVE  VectorOf(s, TimeOrder(s)[k], ComputeVector(h, Kept(s)[k]))
<1>. DEFINE t == Kept(s)[k]
            i == TimeOrder(s)[k]
            fv == ComputeVector(h, t)
            W(w) == InWindow(h, t, w)
            R(w) == RecentOf(s, i, w)
<1>1. t = s[i]
  BY KeptInOrder
<1>2. ASSUME NEW w \in Nat
      PROVE  /\ Cardinality(W(w)) = Cardinality(R(w))
             /\ Amounts(h, W(w)) = Amounts(s, R(w)) /\ Merchants(h, W(w)) = Merchants(s, R(w))
  <2>1. Mirrors(h, W(w), s, R(w))
    BY WindowIsRecent
  <2>2. IsFiniteSet(W(w))
    <3>1. IsFiniteSet(DOMAIN h)
      BY FS_Interval DEF HistoryOf
    <3>2. W(w) \subseteq DOMAIN h
      BY DEF InWindow, Past
    <3>. QED  BY <3>1, <3>2, FS_Subset
  <2>3. \A j \in R(w) : s[j].amount \in Nat
    BY DEF RecentOf, IsRows
  <2>. QED  BY <2>1, <2>2, <2>3, MirrorsAlike
<1>3. FiveMinutes \in Nat /\ OneHour \in Nat /\ OneDay \in Nat
  BY WindowsAssumption
<1>4. /\ fv.velocity_5min = Cardinality(W(FiveMinutes)) + 1
      /\ fv.txn_count_1h = Cardinality(W(OneHour)) + 1
      /\ fv.txn_count_24h = Cardinality(W(OneDay)) + 1
      /\ fv.sum_amount_24h = Amounts(h, W(OneDay)) + t.amount
      /\ fv.distinct_merchants_24h = Cardinality(Merchants(h, W(OneDay)) \cup {t.merchant})
  BY DEF ComputeVector, CountIn, Merchants
<1>. HIDE DEF t, fv
<1>5. /\ Cardinality(W(FiveMinutes)) = Cardinality(R(FiveMinutes))
      /\ Cardinality(W(OneHour)) = Cardinality(R(OneHour))
      /\ Cardinality(W(OneDay)) = Cardinality(R(OneDay))
  BY <1>2, <1>3
<1>6. /\ Amounts(h, W(OneDay)) = Amounts(s, R(OneDay))
      /\ Merchants(h, W(OneDay)) = Merchants(s, R(OneDay))
  BY <1>2, <1>3
<1>. QED  BY <1>1, <1>4, <1>5, <1>6 DEF VectorOf, Amounts, Merchants, fv, t

(* A row of the file for every scored one, with its vector.                *)
FromFile(s, r) == \E i \in DOMAIN s : s[i] = r.txn /\ VectorOf(s, i, r.vector)

LEMMA ChronologicalIf ==
  ASSUME \A k \in DOMAIN scored : FromFile(parsed, scored[k])
  PROVE  WindowsChronological
<1>1. \A i, w : Recent(i, w) = RecentOf(parsed, i, w)
  BY DEF Recent, RecentOf, Earlier
<1>2. ASSUME NEW k \in DOMAIN scored, NEW i \in DOMAIN parsed,
             parsed[i] = scored[k].txn, VectorOf(parsed, i, scored[k].vector)
      PROVE  LET fv == scored[k].vector
                 day == Recent(i, OneDay)
             IN /\ parsed[i] = scored[k].txn
                /\ fv.velocity_5min = Cardinality(Recent(i, FiveMinutes)) + 1
                /\ fv.txn_count_1h = Cardinality(Recent(i, OneHour)) + 1
                /\ fv.txn_count_24h = Cardinality(day) + 1
                /\ fv.sum_amount_24h = SumFunction([j \in day |-> parsed[j].amount]) + parsed[i].amount
                /\ fv.distinct_merchants_24h =
                     Cardinality({parsed[j].merchant : j \in day} \cup {parsed[i].merchant})
  <2>1. /\ Recent(i, OneDay) = RecentOf(parsed, i, OneDay)
        /\ Recent(i, OneHour) = RecentOf(parsed, i, OneHour)
        /\ Recent(i, FiveMinutes) = RecentOf(parsed, i, FiveMinutes)
    BY <1>1
  <2>. QED  BY <1>2, <2>1 DEF VectorOf
<1>. QED  BY <1>2 DEF WindowsChronological, FromFile

(* The rows of the upload are rows of the file, each card's history is     *)
(* what was scored of it, and every result has the vector of its row.      *)
InFile == \A i \in DOMAIN parsed : parsed[i].card \in Card

HistoriesHold ==
  /\ DOMAIN past = Card
  /\ pc \in {"parse", "cut"} => past = [c \in Card |-> <<>>]
  /\ pc \in Cutting => \A c \in Card : HistoryOf(past[c], rows, Len(scored), c)

AllFromFile == \A k \in DOMAIN scored : FromFile(parsed, scored[k])

ChronInv == InFile /\ HistoriesHold /\ AllFromFile

LEMMA ParsedInFile ==
  ASSUME NEW f \in Upload, NEW i \in DOMAIN ValidRows(f)
  PROVE  ValidRows(f)[i].card \in Card
<1>. DEFINE S == {j \in DOMAIN f : f[j].valid}
            t == ValidRows(f)
<1>1. Len(f) \in Nat /\ DOMAIN f = 1 .. Len(f)
  BY UploadAssumption
<1>2. S \in SUBSET DOMAIN f
  OBVIOUS
<1>3. t = Selected(f, S)
  BY DEF ValidRows
<1>. HIDE DEF S, t
<1>4. DOMAIN t = 1 .. Cardinality(S)
  BY <1>1, <1>2, <1>3, SelectedRows
<1>5. \A k \in 1 .. Cardinality(S) : \E j \in S : t[k] = f[j]
  BY <1>1, <1>2, <1>3, SelectedRows
<1>6. i \in 1 .. Cardinality(S)
  BY <1>4 DEF t
<1>7. PICK j \in S : t[i] = f[j]
  BY <1>5, <1>6
<1>8. f[j].card \in Card
  BY <1>2 DEF Card
<1>. QED  BY <1>7, <1>8 DEF t

LEMMA ChronInit == Init => ChronInv
BY DEF Init, ChronInv, InFile, HistoriesHold, AllFromFile, Cutting

LEMMA ChronScore ==
  ASSUME IInv, UploadInOrder, ChronInv, ScoreRow
  PROVE  ChronInv'
<1>. DEFINE n == Len(scored)
            t == rows[n + 1]
            fv == ComputeVector(past[t.card], t)
<1>1. /\ UNCHANGED <<file, rows, parsed, pc>> /\ pc = "score" /\ n < Len(rows)
      /\ past' = [past EXCEPT ![t.card] = Append(@, t)]
      /\ \E r : r.txn = t /\ r.vector = fv /\ scored' = Append(scored, r)
  BY DEF ScoreRow, Result, upload
<1>2. PICK r : r.txn = t /\ r.vector = fv /\ scored' = Append(scored, r)
  BY <1>1
<1>3. scored \in Seq(Entries(scored)) /\ n \in Nat /\ DOMAIN scored = 1 .. n
  BY DEF IInv
<1>4. /\ Len(scored') = n + 1 /\ DOMAIN scored' = 1 .. n + 1 /\ scored'[n + 1] = r
      /\ \A l \in DOMAIN scored : scored'[l] = scored[l]
  <2>1. scored \in Seq(Entries(scored) \cup {r})
    BY <1>3
  <2>. QED  BY <1>2, <1>3, <2>1, AppendProperties, LenProperties
<1>5. IsRows(parsed) /\ rows = Kept(parsed)
  BY <1>1 DEF UploadInOrder, Cutting
<1>6. Len(rows) \in Nat /\ DOMAIN rows = 1 .. Len(rows)
  BY <1>5, KeptInOrder
<1>7. n + 1 \in DOMAIN rows
  BY <1>1, <1>3, <1>6
<1>8. TimeOrder(parsed)[n + 1] \in DOMAIN parsed /\ t = parsed[TimeOrder(parsed)[n + 1]]
  BY <1>5, <1>7, KeptInOrder
<1>9. t.card \in Card
  BY <1>8 DEF ChronInv, InFile
<1>10. DOMAIN past = Card /\ \A c \in Card : HistoryOf(past[c], rows, n, c)
  BY <1>1 DEF ChronInv, HistoriesHold, Cutting
<1>11. FromFile(parsed, r)
  <2>1. HistoryOf(past[t.card], Kept(parsed), (n + 1) - 1, Kept(parsed)[n + 1].card)
    BY <1>3, <1>5, <1>9, <1>10
  <2>2. VectorOf(parsed, TimeOrder(parsed)[n + 1], ComputeVector(past[t.card], Kept(parsed)[n + 1]))
    BY <1>5, <1>7, <2>1, ComputesFromFile
  <2>. QED  BY <1>2, <1>5, <1>8, <2>2 DEF FromFile
<1>12. AllFromFile'
  <2>1. \A l \in 1 .. n : FromFile(parsed, scored[l])
    BY <1>3 DEF ChronInv, AllFromFile
  <2>2. ASSUME NEW l \in 1 .. n + 1 PROVE FromFile(parsed, scored'[l])
    <3>1. CASE l = n + 1
      BY <1>4, <1>11, <3>1
    <3>2. CASE l # n + 1
      BY <1>3, <1>4, <2>1, <3>2
    <3>. QED  BY <3>1, <3>2
  <2>3. DOMAIN scored' = 1 .. n + 1 /\ parsed' = parsed
    BY <1>1, <1>4
  <2>. HIDE DEF n
  <2>. QED  BY <2>2, <2>3 DEF AllFromFile
<1>13. ASSUME NEW c \in Card PROVE HistoryOf(past'[c], rows, n + 1, c)
  <2>1. CASE c = t.card
    <3>1. past'[c] = Append(past[c], t)
      BY <1>1, <1>10, <2>1
    <3>. QED  BY <1>3, <1>10, <2>1, <3>1, HistoryGrows
  <2>2. CASE c # t.card
    <3>1. past'[c] = past[c]
      BY <1>1, <1>10, <2>2
    <3>. QED  BY <1>3, <1>10, <2>2, <3>1, HistoryStays
  <2>. QED  BY <2>1, <2>2
<1>14. HistoriesHold'
  <2>1. DOMAIN past' = Card /\ pc' = "score" /\ Card' = Card
    BY <1>1, <1>10
  <2>2. rows' = rows /\ Len(scored') = n + 1
    BY <1>1, <1>4
  <2>. HIDE DEF n
  <2>. QED  BY <1>13, <2>1, <2>2 DEF HistoriesHold
<1>15. InFile'
  BY <1>1 DEF ChronInv, InFile
<1>. QED  BY <1>12, <1>14, <1>15 DEF ChronInv

LEMMA ChronStep ==
  ASSUME IInv, TypeOK, UploadInOrder, ChronInv, [Next]_vars
  PROVE  ChronInv'
<1>. USE DEF upload
<1>1. CASE ParseTransactions
  <2>1. /\ file \in Upload /\ parsed' = ValidRows(file) /\ pc' \in {"bad_request", "cut"}
        /\ UNCHANGED <<past, scored>> /\ pc = "parse" /\ scored = <<>>
    BY <1>1 DEF ParseTransactions, UploadInOrder, TypeOK
  <2>2. InFile'
    BY <2>1, ParsedInFile DEF InFile
  <2>3. HistoriesHold'
    BY <2>1 DEF ChronInv, HistoriesHold, Cutting
  <2>4. AllFromFile'
    BY <2>1 DEF AllFromFile
  <2>. QED  BY <2>2, <2>3, <2>4 DEF ChronInv
<1>2. CASE CutAndSort
  <2>1. UNCHANGED <<parsed, past, scored>> /\ pc = "cut" /\ pc' = "score" /\ scored = <<>>
    BY <1>2 DEF CutAndSort, TypeOK
  <2>2. past = [c \in Card |-> <<>>] /\ Len(scored') = 0
    BY <2>1 DEF ChronInv, HistoriesHold
  <2>3. \A c \in Card : HistoryOf(past'[c], rows', 0, c)
    BY <2>1, <2>2, HistoryStarts
  <2>4. HistoriesHold'
    BY <2>1, <2>2, <2>3 DEF HistoriesHold
  <2>. QED  BY <2>1, <2>4 DEF ChronInv, InFile, AllFromFile
<1>3. CASE ScoreRow
  BY <1>3, ChronScore
<1>4. CASE RefuseUpload \/ SortFails
  <2>1. UNCHANGED <<parsed, past, scored>> /\ pc' \notin Cutting \cup {"parse", "cut"}
    BY <1>4 DEF RefuseUpload, SortFails, Cutting
  <2>. QED  BY <2>1 DEF ChronInv, InFile, AllFromFile, HistoriesHold
<1>5. CASE EndScoring \/ FetchMetrics \/ BuildPayload \/ Reload
  <2>1. UNCHANGED <<rows, parsed, past, scored>> /\ pc \in Cutting /\ pc' \in Cutting
    BY <1>5 DEF EndScoring, FetchMetrics, BuildPayload, Reload, Cutting
  <2>. QED  BY <2>1 DEF ChronInv, InFile, AllFromFile, HistoriesHold, Cutting
<1>6. CASE UNCHANGED vars
  BY <1>6 DEF vars, ChronInv, InFile, AllFromFile, HistoriesHold
<1>. QED  BY <1>1, <1>2, <1>3, <1>4, <1>5, <1>6 DEF Next

(* Whatever the order of the file, the windows of every scored row are     *)
(* those of the file: score_batch's history of the card holds exactly the  *)
(* rows that precede it in time, since it scores in order of event_time.   *)
THEOREM WindowsAlwaysChronological == Spec => []WindowsChronological
<1>1. ChronInv => WindowsChronological
  BY ChronologicalIf DEF ChronInv, AllFromFile
<1>. QED
  BY <1>1, ChronInit, ChronStep, Invariance, TypeCorrect, UploadInvariance, PTL DEF Spec
=============================================================================
