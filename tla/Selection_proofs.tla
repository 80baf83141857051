-------------------------- MODULE Selection_proofs --------------------------
(***************************************************************************)
(* That the planner neglects no pair and that a run looks at every pair    *)
(* once, for any number of items, cycles and runs and any distances.  Both *)
(* rest on what ranking a finite set by a strict total order yields: every *)
(* element, once.  There is no induction over the set in the proof of      *)
(* that: the number of elements before each of them differs, so there are  *)
(* as many places as elements, and each place is taken.                    *)
(***************************************************************************)
EXTENDS Selection, FiniteSetTheorems, SequenceTheorems, TLAPS

-----------------------------------------------------------------------------
(* Ranking a finite set.                                                   *)

Orders(R, S) ==
    /\ \A x \in S : <<x, x>> \notin R
    /\ \A x, y \in S : x # y => <<x, y>> \in R \/ <<y, x>> \in R
    /\ \A x, y, z \in S : <<x, y>> \in R /\ <<y, z>> \in R => <<x, z>> \in R

Ahead(x, R, S) == {y \in S : <<y, x>> \in R}

(* The place of each element, in 1 .. Cardinality(S).                      *)
Place(R, S) == [x \in S |-> Cardinality(Ahead(x, R, S)) + 1]

LEMMA UpTo == ASSUME NEW n \in Nat PROVE IsFiniteSet(1 .. n) /\ Cardinality(1 .. n) = n
<1>1. /\ IsFiniteSet(1 .. n)
      /\ Cardinality(1 .. n) = IF 1 > n THEN 0 ELSE n - 1 + 1
  BY FS_Interval
<1> QED BY <1>1

LEMMA AheadFinite ==
  ASSUME NEW S, IsFiniteSet(S), NEW R, Orders(R, S), NEW x \in S
  PROVE  /\ IsFiniteSet(Ahead(x, R, S))
         /\ Cardinality(Ahead(x, R, S)) \in Nat
         /\ Cardinality(Ahead(x, R, S)) < Cardinality(S)
<1>1. Ahead(x, R, S) \in SUBSET S /\ x \notin Ahead(x, R, S)
  BY DEF Ahead, Orders
<1>2. /\ IsFiniteSet(Ahead(x, R, S)) /\ Cardinality(Ahead(x, R, S)) <= Cardinality(S)
      /\ Cardinality(S) = Cardinality(Ahead(x, R, S)) => S = Ahead(x, R, S)
  BY <1>1, FS_Subset
<1>3. Cardinality(Ahead(x, R, S)) \in Nat /\ Cardinality(S) \in Nat
  BY <1>2, FS_CardinalityType
<1> QED BY <1>1, <1>2, <1>3

LEMMA AheadGrows ==
  ASSUME NEW S, IsFiniteSet(S), NEW R, Orders(R, S), NEW x \in S, NEW z \in S, <<x, z>> \in R
  PROVE  Cardinality(Ahead(x, R, S)) < Cardinality(Ahead(z, R, S))
<1>1. Ahead(x, R, S) \in SUBSET Ahead(z, R, S) /\ x \in Ahead(z, R, S) /\ x \notin Ahead(x, R, S)
  BY DEF Ahead, Orders
<1>2. IsFiniteSet(Ahead(z, R, S)) /\ Cardinality(Ahead(z, R, S)) \in Nat /\ Cardinality(Ahead(x, R, S)) \in Nat
  BY AheadFinite
<1>3. /\ Cardinality(Ahead(x, R, S)) <= Cardinality(Ahead(z, R, S))
      /\ Cardinality(Ahead(z, R, S)) = Cardinality(Ahead(x, R, S)) => Ahead(z, R, S) = Ahead(x, R, S)
  BY <1>1, <1>2, FS_Subset
<1> QED BY <1>1, <1>2, <1>3

(* Two elements have two places ...                                        *)
LEMMA PlacesDiffer ==
  ASSUME NEW S, IsFiniteSet(S), NEW R, Orders(R, S), NEW x \in S, NEW z \in S,
         Cardinality(Ahead(x, R, S)) = Cardinality(Ahead(z, R, S))
  PROVE  x = z
<1> SUFFICES ASSUME x # z PROVE FALSE
  OBVIOUS
<1>1. <<x, z>> \in R \/ <<z, x>> \in R
  BY DEF Orders
<1>2. Cardinality(Ahead(x, R, S)) \in Nat /\ Cardinality(Ahead(z, R, S)) \in Nat
  BY AheadFinite
<1>3. CASE <<x, z>> \in R
  <2>1. Cardinality(Ahead(x, R, S)) < Cardinality(Ahead(z, R, S))
    BY <1>3, AheadGrows
  <2> QED BY <1>2, <2>1
<1>4. CASE <<z, x>> \in R
  <2>1. Cardinality(Ahead(z, R, S)) < Cardinality(Ahead(x, R, S))
    BY <1>4, AheadGrows
  <2> QED BY <1>2, <2>1
<1> QED BY <1>1, <1>3, <1>4

(* ... so there are as many places as elements, and each is taken.         *)
LEMMA PlacesTaken ==
  ASSUME NEW S, IsFiniteSet(S), NEW R, Orders(R, S), NEW n \in 1 .. Cardinality(S)
  PROVE  \E x \in S : Cardinality(Ahead(x, R, S)) = n - 1
<1> DEFINE N == Cardinality(S)
           T == 1 .. N
           f == Place(R, S)
<1>1. N \in Nat
  BY FS_CardinalityType
<1>2. f \in [S -> T]
  <2>1. \A x \in S : Cardinality(Ahead(x, R, S)) + 1 \in T
    BY <1>1, AheadFinite
  <2> QED BY <2>1 DEF Place
<1>3. \A x, z \in S : f[x] = f[z] => x = z
  <2>1. \A x \in S : f[x] = Cardinality(Ahead(x, R, S)) + 1 /\ Cardinality(Ahead(x, R, S)) \in Nat
    BY AheadFinite DEF Place
  <2>2. \A x, z \in S : f[x] = f[z] => Cardinality(Ahead(x, R, S)) = Cardinality(Ahead(z, R, S))
    BY <2>1
  <2> QED BY <2>2, PlacesDiffer
<1>4. f \in Injection(S, T)
  BY <1>2, <1>3 DEF Injection, IsInjective
<1>5. IsFiniteSet(T) /\ Cardinality(T) = N
  BY <1>1, UpTo
<1>6. f \in Surjection(S, T)
  BY <1>4, <1>5, FS_Injection
<1>7. PICK x \in S : f[x] = n
  BY <1>6 DEF Surjection
<1>8. Cardinality(Ahead(x, R, S)) + 1 = n /\ Cardinality(Ahead(x, R, S)) \in Nat
  BY <1>7, AheadFinite DEF Place
<1> QED BY <1>8

(* What has each element at its place is the set in its order.             *)
LEMMA Sorted ==
  ASSUME NEW S, IsFiniteSet(S), NEW R, Orders(R, S), NEW f \in [1 .. Cardinality(S) -> S],
         \A n \in 1 .. Cardinality(S) : Cardinality(Ahead(f[n], R, S)) = n - 1
  PROVE  f \in Seq(S) /\ Len(f) = Cardinality(S) /\ IsInjective(f) /\ ToSet(f) = S
<1>0. Cardinality(S) \in Nat
  BY FS_CardinalityType
<1>1. f \in Seq(S) /\ Len(f) = Cardinality(S) /\ DOMAIN f = 1 .. Cardinality(S)
  BY <1>0
<1>2. IsInjective(f)
  <2> SUFFICES ASSUME NEW a \in 1 .. Cardinality(S), NEW b \in 1 .. Cardinality(S), f[a] = f[b]
               PROVE  a = b
    BY <1>1 DEF IsInjective
  <2>1. a - 1 = b - 1
    OBVIOUS
  <2> QED BY <1>0, <2>1
<1>3. ASSUME NEW x \in S PROVE \E n \in 1 .. Cardinality(S) : f[n] = x
  <2> DEFINE n == Cardinality(Ahead(x, R, S)) + 1
  <2>1. n \in 1 .. Cardinality(S) /\ Cardinality(Ahead(x, R, S)) = n - 1
    BY <1>0, AheadFinite
  <2> HIDE DEF n
  <2>2. f[n] \in S /\ Cardinality(Ahead(f[n], R, S)) = Cardinality(Ahead(x, R, S))
    BY <2>1
  <2> QED BY <2>1, <2>2, PlacesDiffer
<1>4. ToSet(f) = S
  BY <1>1, <1>3 DEF ToSet
<1> QED BY <1>1, <1>2, <1>4

-----------------------------------------------------------------------------
(* Pairs of items.                                                         *)

LEMMA NumbersFinite ==
  ASSUME NEW S \in SUBSET Numbers
  PROVE  /\ S \subseteq Nat /\ IsFiniteSet(S) /\ IsFiniteSet(Pairs(S))
         /\ \A p \in Pairs(S) : p \in SUBSET S /\ IsFiniteSet(p) /\ Cardinality(p) = 2
<1>1. MaxItems \in Nat
  BY SelectionAssumption
<1>2. IsFiniteSet(Numbers) /\ Numbers \subseteq Nat
  <2>1. IsFiniteSet(1 .. MaxItems)
    BY <1>1, FS_Interval
  <2> QED BY <1>1, <2>1 DEF Numbers
<1>3. IsFiniteSet(S)
  BY <1>2, FS_Subset
<1>4. IsFiniteSet(SUBSET S)
  BY <1>3, FS_SUBSET
<1>5. Pairs(S) \in SUBSET SUBSET S /\ \A p \in Pairs(S) : p \in SUBSET S /\ Cardinality(p) = 2
  BY DEF Pairs, kSubset
<1>6. IsFiniteSet(Pairs(S))
  BY <1>4, <1>5, FS_Subset
<1>7. \A p \in Pairs(S) : IsFiniteSet(p)
  BY <1>3, <1>5, FS_Subset
<1> QED BY <1>2, <1>3, <1>5, <1>6, <1>7

(* A pair has two items, the older and the younger one.                    *)
LEMMA PairIs ==
  ASSUME NEW S \in SUBSET Numbers, NEW p \in Pairs(S)
  PROVE  \E a, b \in S : a < b /\ p = {a, b} /\ Oldest(p) = a /\ Youngest(p) = b
<1>1. p \in SUBSET S /\ IsFiniteSet(p) /\ Cardinality(p) = 2 /\ S \subseteq Nat
  BY NumbersFinite
<1>2. PICK x : x \in p
  BY <1>1, FS_EmptySet
<1>3. IsFiniteSet(p \ {x}) /\ Cardinality(p \ {x}) = 1
  BY <1>1, <1>2, FS_RemoveElement
<1>4. PICK y : p \ {x} = {y}
  BY <1>3, FS_Singleton
<1>5. p = {x, y} /\ x # y /\ x \in S /\ y \in S /\ x \in Nat /\ y \in Nat
  BY <1>1, <1>2, <1>4
<1>6. ASSUME NEW a \in S, NEW b \in S, a < b, p = {a, b}
      PROVE  Oldest(p) = a /\ Youngest(p) = b
  <2>1. a \in Nat /\ b \in Nat
    BY <1>1
  <2>2. \A c \in p : (\A d \in p : c <= d) <=> c = a
    BY <1>6, <2>1
  <2>3. \A c \in p : (\A d \in p : c >= d) <=> c = b
    BY <1>6, <2>1
  <2>4. a \in p /\ b \in p
    BY <1>6
  <2>5. Min(p) = a
    BY <2>2, <2>4 DEF Min
  <2>6. Max(p) = b
    BY <2>3, <2>4 DEF Max
  <2> QED BY <2>5, <2>6 DEF Oldest, Youngest
<1>7. CASE x < y
  BY <1>5, <1>6, <1>7
<1>8. CASE y < x
  <2>1. p = {y, x}
    BY <1>5
  <2> QED BY <1>5, <1>6, <1>8, <2>1
<1> QED BY <1>5, <1>7, <1>8

(* The planner's ranking is a strict total order of the pairs.             *)
AgeOrder(S) == {e \in S \X S : RanksBefore(e[1], e[2])}

LEMMA AgeOrders ==
  ASSUME NEW S \in SUBSET Pairs(Numbers)
  PROVE  Orders(AgeOrder(S), S)
<1>1. \A p \in S : /\ Oldest(p) \in Nat /\ AgeGap(p) \in Int
                   /\ p = {Oldest(p), Oldest(p) + AgeGap(p)}
  <2> SUFFICES ASSUME NEW p \in S
               PROVE  /\ Oldest(p) \in Nat /\ AgeGap(p) \in Int
                      /\ p = {Oldest(p), Oldest(p) + AgeGap(p)}
    OBVIOUS
  <2>1. p \in Pairs(Numbers) /\ Numbers \in SUBSET Numbers
    OBVIOUS
  <2>2. PICK a, b \in Numbers : a < b /\ p = {a, b} /\ Oldest(p) = a /\ Youngest(p) = b
    BY <2>1, PairIs
  <2>3. a \in Nat /\ b \in Nat
    BY <2>1, NumbersFinite
  <2>4. AgeGap(p) = b - a
    BY <2>2 DEF AgeGap
  <2> QED BY <2>2, <2>3, <2>4
<1>2. \A p, q \in S : <<p, q>> \in AgeOrder(S) <=> RanksBefore(p, q)
  BY DEF AgeOrder
<1>3. \A p \in S : ~RanksBefore(p, p)
  BY <1>1 DEF RanksBefore
<1>4. \A p, q \in S : p # q => RanksBefore(p, q) \/ RanksBefore(q, p)
  <2> SUFFICES ASSUME NEW p \in S, NEW q \in S, p # q
               PROVE  RanksBefore(p, q) \/ RanksBefore(q, p)
    OBVIOUS
  <2>1. ~(AgeGap(p) = AgeGap(q) /\ Oldest(p) = Oldest(q))
    BY <1>1
  <2> QED BY <1>1, <2>1 DEF RanksBefore
<1>5. \A p, q, r \in S : RanksBefore(p, q) /\ RanksBefore(q, r) => RanksBefore(p, r)
  BY <1>1 DEF RanksBefore
<1> QED BY <1>2, <1>3, <1>4, <1>5 DEF Orders

(* What the planner ranks it ranks completely.                             *)
LEMMA FrontierRanked ==
  ASSUME NEW S \in SUBSET Pairs(Numbers)
  PROVE  /\ Ranked(S, RanksBefore) \in Seq(S)
         /\ Len(Ranked(S, RanksBefore)) = Cardinality(S)
<1> DEFINE f == Ranked(S, RanksBefore)
           R == AgeOrder(S)
<1>1. IsFiniteSet(S) /\ Orders(R, S)
  <2>1. IsFiniteSet(Pairs(Numbers))
    BY NumbersFinite
  <2> QED BY <2>1, FS_Subset, AgeOrders
<1>2. \A x \in S : {y \in S : RanksBefore(y, x)} = Ahead(x, R, S)
  BY DEF Ahead, AgeOrder
<1>3. \A n \in 1 .. Cardinality(S) : f[n] \in S /\ Cardinality(Ahead(f[n], R, S)) = n - 1
  <2> SUFFICES ASSUME NEW n \in 1 .. Cardinality(S)
               PROVE  f[n] \in S /\ Cardinality(Ahead(f[n], R, S)) = n - 1
    OBVIOUS
  <2>1. \E x \in S : Cardinality({y \in S : RanksBefore(y, x)}) = n - 1
    BY <1>1, <1>2, PlacesTaken
  <2>2. f[n] = CHOOSE x \in S : Cardinality({y \in S : RanksBefore(y, x)}) = n - 1
    BY DEF Ranked
  <2>3. f[n] \in S /\ Cardinality({y \in S : RanksBefore(y, f[n])}) = n - 1
    BY <2>1, <2>2
  <2> QED BY <1>2, <2>3
<1>4. f \in [1 .. Cardinality(S) -> S]
  <2>1. f = [n \in 1 .. Cardinality(S) |-> f[n]]
    BY DEF Ranked
  <2> HIDE DEF f
  <2> QED BY <1>3, <2>1
<1> HIDE DEF f
<1>5. f \in Seq(S) /\ Len(f) = Cardinality(S)
  BY <1>1, <1>3, <1>4, Sorted
<1> QED BY <1>5 DEF f

-----------------------------------------------------------------------------
(* The planner.                                                            *)

LEMMA LeastIs ==
  ASSUME NEW S \in SUBSET Nat, IsFiniteSet(S), S # {}
  PROVE  Min(S) \in S /\ \A y \in S : Min(S) <= y
<1> DEFINE R == {e \in S \X S : e[1] < e[2]}
<1>1. Orders(R, S)
  BY DEF Orders
<1>2. 1 \in 1 .. Cardinality(S)
  BY FS_CardinalityType, FS_EmptySet
<1>3. PICK x \in S : Cardinality(Ahead(x, R, S)) = 1 - 1
  BY <1>1, <1>2, PlacesTaken
<1>4. Ahead(x, R, S) = {}
  <2>1. IsFiniteSet(Ahead(x, R, S))
    BY <1>1, AheadFinite
  <2>2. Cardinality(Ahead(x, R, S)) = 0
    BY <1>3
  <2> QED BY <2>1, <2>2, FS_EmptySet
<1>5. \A y \in S : x <= y
  <2>1. \A y \in S : ~(y < x)
    BY <1>4 DEF Ahead
  <2> QED BY <2>1
<1> QED BY <1>5 DEF Min

LEMMA SomePair ==
  ASSUME NEW S \in SUBSET Numbers, Cardinality(S) >= 2
  PROVE  Pairs(S) # {}
<1>1. IsFiniteSet(S)
  BY NumbersFinite
<1>2. PICK x : x \in S
  BY <1>1, FS_EmptySet
<1>3. IsFiniteSet(S \ {x}) /\ Cardinality(S \ {x}) = Cardinality(S) - 1 /\ Cardinality(S) \in Nat
  BY <1>1, <1>2, FS_RemoveElement, FS_CardinalityType
<1>4. PICK y : y \in S \ {x}
  BY <1>3, FS_EmptySet
<1>5. IsFiniteSet({x}) /\ Cardinality({x}) = 1
  BY FS_Singleton
<1>6. Cardinality({x} \cup {y}) = 2
  <2>1. y \notin {x}
    BY <1>4
  <2>2. Cardinality({x} \cup {y}) = Cardinality({x}) + 1
    BY <1>5, <2>1, FS_AddElement, Zenon
  <2> QED BY <1>5, <2>2
<1>7. {x} \cup {y} \in Pairs(S)
  BY <1>2, <1>4, <1>6 DEF Pairs, kSubset
<1> QED BY <1>7

(* The pair that is planned is one of those tried least often.             *)
LEMMA PlannedLeast ==
  ASSUME attempts \in [Pairs(Numbers) -> Nat], cycles \in Nat, Cardinality(Original) >= 2
  PROVE  Planned \in Pairs(Original) /\ \A p \in Pairs(Original) : attempts[Planned] <= attempts[p]
<1> DEFINE P == Pairs(Original)
           A == {attempts[p] : p \in P}
           F == {p \in P : attempts[p] = Min(A)}
<1>1. Original \in SUBSET Numbers
  BY DEF Original
<1>2. IsFiniteSet(P) /\ P # {} /\ P \subseteq Pairs(Numbers)
  BY <1>1, NumbersFinite, SomePair DEF Pairs, kSubset
<1>3. IsFiniteSet(A)
  <2> DEFINE f == [p \in P |-> attempts[p]]
  <2>1. f \in Surjection(P, A)
    BY DEF Surjection
  <2> QED BY <1>2, <2>1, FS_Surjection
<1>4. A \in SUBSET Nat /\ A # {}
  BY <1>2
<1>5. Min(A) \in A /\ \A y \in A : Min(A) <= y
  BY <1>3, <1>4, LeastIs
<1>6. F # {} /\ F \in SUBSET Pairs(Numbers) /\ IsFiniteSet(F)
  BY <1>2, <1>5, FS_Subset
<1>7. Frontier = Ranked(F, RanksBefore)
  BY DEF Frontier
<1>8. Frontier \in Seq(F) /\ Len(Frontier) = Cardinality(F)
  BY <1>6, <1>7, FrontierRanked
<1>9. Cardinality(F) \in Nat /\ Cardinality(F) # 0
  BY <1>6, FS_CardinalityType, FS_EmptySet
<1>10. (cycles % Len(Frontier)) + 1 \in 1 .. Len(Frontier)
  BY <1>8, <1>9
<1>11. Planned \in F
  BY <1>8, <1>10, ElementOfSeq DEF Planned
<1>12. \A p \in P : Min(A) <= attempts[p]
  BY <1>5
<1> QED BY <1>11, <1>12

(* Items have a kind, and a pair was not tried before both of its items    *)
(* were there.                                                             *)
Kinds == {"unborn", "original", "derived", "rejected", "gone"}
Counted ==
    /\ kind \in [Numbers -> Kinds]
    /\ attempts \in [Pairs(Numbers) -> Nat]
    /\ cycles \in Nat
    /\ \A i \in 1 .. FirstItems : kind[i] # "unborn"
    /\ \A p \in Pairs(Numbers) : (\E i \in p : kind[i] = "unborn") => attempts[p] = 0

EInv == Counted /\ PairsEven

LEMMA InitEven == Init => EInv
<1> SUFFICES ASSUME Init PROVE EInv
  OBVIOUS
<1>1. MaxItems \in Nat /\ FirstItems \in Nat /\ FirstItems <= MaxItems
  BY SelectionAssumption
<1>2. Counted
  BY <1>1 DEF Init, Counted, Kinds, Numbers
<1>3. \A S \in SUBSET Numbers : Pairs(S) \subseteq Pairs(Numbers)
  BY DEF Pairs, kSubset
<1>4. PairsEven
  <2>1. Original \in SUBSET Numbers /\ Original \intersect 1 .. FirstItems \in SUBSET Numbers
    BY DEF Original
  <2>2. \A p \in Pairs(Numbers) : attempts[p] = 0
    BY DEF Init
  <2> QED BY <1>3, <2>1, <2>2 DEF PairsEven
<1> QED BY <1>2, <1>4 DEF EInv

LEMMA PlanEven == ASSUME EInv, Plan PROVE EInv'
<1> DEFINE new == [attempts EXCEPT ![Planned] = @ + 1]
<1>1. Planned \in Pairs(Original) /\ \A p \in Pairs(Original) : attempts[Planned] <= attempts[p]
  BY PlannedLeast DEF Plan, EInv, Counted
<1>2. /\ Original \in SUBSET Numbers /\ Pairs(Original) \subseteq Pairs(Numbers)
      /\ Pairs(Original \intersect 1 .. FirstItems) \subseteq Pairs(Original)
      /\ \A p \in Pairs(Original) : p \in SUBSET Original
  BY DEF Original, Pairs, kSubset
<1>3. attempts' = new /\ kind' = kind /\ cycles' = cycles /\ Original' = Original
  BY DEF Plan, Original
<1>4. \A p \in Pairs(Numbers) : new[p] = IF p = Planned THEN attempts[p] + 1 ELSE attempts[p]
  BY <1>1, <1>2 DEF EInv, Counted
<1>5. new \in [Pairs(Numbers) -> Nat]
  BY <1>1, <1>2 DEF EInv, Counted
<1>6. \A i \in Planned : kind[i] # "unborn"
  BY <1>1, <1>2 DEF Original
<1>7. Counted'
  BY <1>3, <1>4, <1>5, <1>6 DEF EInv, Counted
<1>8. PairsEven'
  <2> SUFFICES ASSUME NEW p \in Pairs(Original \intersect 1 .. FirstItems), NEW q \in Pairs(Original)
               PROVE  new[q] <= new[p] + 1
    BY <1>3 DEF PairsEven
  <2>1. p \in Pairs(Original) /\ p \in Pairs(Numbers) /\ q \in Pairs(Numbers)
    BY <1>2
  <2>2. attempts[q] <= attempts[p] + 1 /\ attempts[p] \in Nat /\ attempts[q] \in Nat
    BY <2>1 DEF EInv, Counted, PairsEven
  <2>3. attempts[Planned] <= attempts[p]
    BY <1>1, <2>1
  <2> QED BY <1>4, <2>1, <2>2, <2>3
<1> QED BY <1>7, <1>8 DEF EInv

(* What becomes of an item: it is there from now on, or is no longer.      *)
LEMMA BecomeEven ==
  ASSUME EInv, NEW i \in Numbers, NEW now \in {"original", "derived", "rejected", "gone"}, Become(i, now),
         now = "original" => kind[i] = "unborn"
  PROVE  EInv'
<1>1. /\ kind' = [kind EXCEPT ![i] = now] /\ attempts' = attempts /\ cycles' = cycles
      /\ kind \in [Numbers -> Kinds]
  BY DEF Become, EInv, Counted
<1>2. \A j \in Numbers : kind'[j] = IF j = i THEN now ELSE kind[j]
  BY <1>1
<1>3. FirstItems \in Nat /\ MaxItems \in Nat /\ 1 .. FirstItems \subseteq Numbers
  BY SelectionAssumption DEF Numbers
<1>4. \A p \in Pairs(Numbers) : p \in SUBSET Numbers
  BY DEF Pairs, kSubset
<1>5. Counted'
  BY <1>1, <1>2, <1>3, <1>4 DEF EInv, Counted, Kinds
<1>6. PairsEven'
  <2> SUFFICES ASSUME NEW p \in Pairs(Original' \intersect 1 .. FirstItems), NEW q \in Pairs(Original')
               PROVE  attempts[q] <= attempts[p] + 1
    BY <1>1 DEF PairsEven
  <2>1. /\ p \in SUBSET (Original' \intersect 1 .. FirstItems) /\ Cardinality(p) = 2
        /\ q \in SUBSET Original' /\ Cardinality(q) = 2
    BY DEF Pairs, kSubset
  <2>2. \A j \in Original' : j \in Numbers /\ kind'[j] = "original"
    BY DEF Original
  <2>3. p \subseteq Original
    <3> SUFFICES ASSUME NEW j \in p PROVE kind[j] = "original"
      BY <2>1, <2>2 DEF Original
    <3>1. j \in 1 .. FirstItems /\ kind'[j] = "original" /\ kind[j] # "unborn" /\ j \in Numbers
      BY <1>3, <2>1, <2>2 DEF EInv, Counted
    <3> QED BY <1>2, <3>1
  <2>4. p \in Pairs(Original \intersect 1 .. FirstItems) /\ p \in Pairs(Numbers) /\ q \in Pairs(Numbers)
    BY <2>1, <2>2, <2>3 DEF Pairs, kSubset
  <2>5. attempts[p] \in Nat /\ attempts[q] \in Nat
    BY <2>4 DEF EInv, Counted
  <2>6. CASE \E j \in q : kind[j] = "unborn"
    <3>1. attempts[q] = 0
      BY <2>4, <2>6 DEF EInv, Counted
    <3> QED BY <2>5, <3>1
  <2>7. CASE \A j \in q : kind[j] # "unborn"
    <3>1. \A j \in q : kind[j] = "original"
      BY <1>2, <2>1, <2>2, <2>7
    <3>2. q \in Pairs(Original)
      BY <2>1, <2>2, <3>1 DEF Pairs, kSubset, Original
    <3> QED BY <2>4, <3>2 DEF EInv, PairsEven
  <2> QED BY <2>6, <2>7
<1> QED BY <1>5, <1>6 DEF EInv

LEMMA NextEven == ASSUME EInv, [Next]_vars PROVE EInv'
<1>1. CASE UNCHANGED <<kind, attempts>> /\ cycles' \in {cycles, cycles + 1}
  <2>1. cycles' \in Nat
    BY <1>1 DEF EInv, Counted
  <2> QED BY <1>1, <2>1 DEF EInv, Counted, PairsEven, Original
<1>2. CASE Plan
  BY <1>2, PlanEven
<1>3. CASE Start \/ Incubate \/ Ask \/ Begin \/ Refuse \/ Discard \/ Apply \/ Complete \/ End \/ UNCHANGED vars
  BY <1>1, <1>3 DEF Start, Incubate, Ask, Begin, Refuse, Discard, Apply, Complete, End, vars
<1>4. ASSUME NEW i \in Numbers, Add(i) \/ Reject(i) \/ Erase(i) PROVE EInv'
  BY <1>4, BecomeEven DEF Add, Reject, Erase
<1> QED BY <1>2, <1>3, <1>4 DEF Next

(* The autopilot neglects no pair: what the planner tries next has been    *)
(* tried least often, and new pairs begin with nothing, so the pairs that  *)
(* were there from the start never come to differ by more than one.        *)
THEOREM PairsStayEven == Spec => []PairsEven
<1>1. EInv => PairsEven
  BY DEF EInv
<1>2. Init => EInv
  BY InitEven
<1>3. EInv /\ [Next]_vars => EInv'
  BY NextEven
<1> QED BY <1>1, <1>2, <1>3, PTL DEF Spec

-----------------------------------------------------------------------------
(* The order in which a run looks at pairs.                                *)

Distanced(A, distance) == A \in SUBSET Numbers /\ distance \in [A -> Distances]

LEMMA CloserOrders ==
  ASSUME NEW A, NEW distance, Distanced(A, distance)
  PROVE  /\ \A i \in A : i \in Nat /\ distance[i] \in Nat
         /\ \A i \in A : ~Closer(distance, i, i)
         /\ \A i, j \in A : i # j => Closer(distance, i, j) \/ Closer(distance, j, i)
<1>1. \A i \in A : i \in Nat /\ distance[i] \in Nat
  <2>1. A \subseteq Nat
    BY NumbersFinite DEF Distanced
  <2>2. Distances \subseteq Nat
    BY SelectionAssumption
  <2> QED BY <2>1, <2>2 DEF Distanced
<1> QED BY <1>1 DEF Closer

(* Of the two items of a pair one is closer.                               *)
LEMMA Sides ==
  ASSUME NEW A, NEW distance, Distanced(A, distance), NEW p \in Pairs(A)
  PROVE  /\ Left(distance, p) \in A /\ Right(distance, p) \in A
         /\ p = {Left(distance, p), Right(distance, p)}
<1>1. PICK a, b \in A : a # b /\ p = {a, b}
  <2>1. PICK a, b \in A : a < b /\ p = {a, b} /\ Oldest(p) = a /\ Youngest(p) = b
    BY PairIs DEF Distanced
  <2>2. a # b
    BY <2>1, CloserOrders
  <2> QED BY <2>1, <2>2
<1>2. \A i \in p : (\A j \in p \ {i} : Closer(distance, i, j)) <=>
                   (i = a /\ Closer(distance, a, b)) \/ (i = b /\ Closer(distance, b, a))
  BY <1>1
<1>3. Closer(distance, a, b) \/ Closer(distance, b, a)
  BY <1>1, CloserOrders
<1>4. \E i \in p : \A j \in p \ {i} : Closer(distance, i, j)
  BY <1>1, <1>2, <1>3
<1>5. Left(distance, p) \in p
  BY <1>4 DEF Left
<1>6. \E i \in p : i # Left(distance, p)
  BY <1>1
<1>7. Right(distance, p) \in p /\ Right(distance, p) # Left(distance, p)
  BY <1>6 DEF Right
<1> QED BY <1>1, <1>5, <1>7

PairOrder(distance, S) == {e \in S \X S : PairBefore(distance, e[1], e[2])}

LEMMA PairOrders ==
  ASSUME NEW A, NEW distance, Distanced(A, distance), NEW S \in SUBSET Pairs(A)
  PROVE  Orders(PairOrder(distance, S), S)
<1> DEFINE l(p) == Left(distance, p)
           r(p) == Right(distance, p)
           dl(p) == distance[l(p)]
           dr(p) == distance[r(p)]
<1>1. \A p \in S : /\ l(p) \in Nat /\ r(p) \in Nat /\ dl(p) \in Nat /\ dr(p) \in Nat
                   /\ p = {l(p), r(p)}
  BY Sides, CloserOrders
<1>2. \A p, q \in S : PairBefore(distance, p, q) <=>
         \/ dr(p) - dl(p) > dr(q) - dl(q)
         \/ /\ dr(p) - dl(p) = dr(q) - dl(q)
            /\ \/ dl(p) + dr(p) < dl(q) + dr(q)
               \/ /\ dl(p) + dr(p) = dl(q) + dr(q)
                  /\ dl(p) < dl(q) \/ (dl(p) = dl(q) /\ l(p) > l(q))
               \/ /\ l(p) = l(q)
                  /\ dr(p) < dr(q) \/ (dr(p) = dr(q) /\ r(p) > r(q))
  BY DEF PairBefore, Closer
<1>3. \A p, q \in S : <<p, q>> \in PairOrder(distance, S) <=> PairBefore(distance, p, q)
  BY DEF PairOrder
<1>4. \A p, q \in S : (l(p) = l(q) => dl(p) = dl(q)) /\ (l(p) = l(q) /\ r(p) = r(q) => p = q)
  BY <1>1
<1> HIDE DEF l, r, dl, dr
<1>5. \A p \in S : ~PairBefore(distance, p, p)
  BY <1>1, <1>2
<1>6. \A p, q \in S : p # q => PairBefore(distance, p, q) \/ PairBefore(distance, q, p)
  <2> SUFFICES ASSUME NEW p \in S, NEW q \in S, p # q
               PROVE  PairBefore(distance, p, q) \/ PairBefore(distance, q, p)
    OBVIOUS
  <2>1. l(p) = l(q) => dl(p) = dl(q) /\ r(p) # r(q)
    BY <1>4
  <2>2. CASE l(p) = l(q)
    BY <1>1, <1>2, <2>1, <2>2
  <2>3. CASE l(p) # l(q)
    <3>1. CASE dr(p) - dl(p) = dr(q) - dl(q) /\ dl(p) + dr(p) = dl(q) + dr(q)
      BY <1>1, <1>2, <2>3, <3>1
    <3>2. CASE dr(p) - dl(p) = dr(q) - dl(q) /\ dl(p) + dr(p) # dl(q) + dr(q)
      BY <1>1, <1>2, <3>2
    <3>3. CASE dr(p) - dl(p) # dr(q) - dl(q)
      BY <1>1, <1>2, <3>3
    <3> QED BY <3>1, <3>2, <3>3
  <2> QED BY <2>2, <2>3
<1>7. \A p, q, o \in S : PairBefore(distance, p, q) /\ PairBefore(distance, q, o)
                            => PairBefore(distance, p, o)
  <2> SUFFICES ASSUME NEW p \in S, NEW q \in S, NEW o \in S,
                      PairBefore(distance, p, q), PairBefore(distance, q, o)
               PROVE  PairBefore(distance, p, o)
    OBVIOUS
  <2>1. \A x, y \in {p, q, o} : l(x) = l(y) => dl(x) = dl(y)
    BY <1>4
  <2> QED BY <1>1, <1>2, <2>1
<1> QED BY <1>3, <1>5, <1>6, <1>7 DEF Orders

(* A ranking by PairBefore, written out.                                   *)
InOrder(distance, S) ==
    [n \in 1 .. Cardinality(S) |->
        CHOOSE x \in S : Cardinality({y \in S : PairBefore(distance, y, x)}) = n - 1]

(* A run ranks the pairs completely, too.                                  *)
LEMMA PairsRanked ==
  ASSUME NEW A, NEW distance, Distanced(A, distance), NEW S \in SUBSET Pairs(A), NEW f,
         f = InOrder(distance, S)
  PROVE  f \in Seq(S) /\ IsInjective(f) /\ ToSet(f) = S
<1> DEFINE R == PairOrder(distance, S)
<1>1. IsFiniteSet(S) /\ Orders(R, S)
  <2>1. IsFiniteSet(Pairs(A))
    BY NumbersFinite DEF Distanced
  <2> QED BY <2>1, FS_Subset, PairOrders
<1>2. \A x \in S : {y \in S : PairBefore(distance, y, x)} = Ahead(x, R, S)
  BY DEF Ahead, PairOrder
<1>3. \A n \in 1 .. Cardinality(S) : f[n] \in S /\ Cardinality(Ahead(f[n], R, S)) = n - 1
  <2> SUFFICES ASSUME NEW n \in 1 .. Cardinality(S)
               PROVE  f[n] \in S /\ Cardinality(Ahead(f[n], R, S)) = n - 1
    OBVIOUS
  <2>1. \E x \in S : Cardinality({y \in S : PairBefore(distance, y, x)}) = n - 1
    BY <1>1, <1>2, PlacesTaken
  <2>2. f[n] = CHOOSE x \in S : Cardinality({y \in S : PairBefore(distance, y, x)}) = n - 1
    BY DEF InOrder
  <2>3. f[n] \in S /\ Cardinality({y \in S : PairBefore(distance, y, f[n])}) = n - 1
    BY <2>1, <2>2
  <2> QED BY <1>2, <2>3
<1>4. f \in [1 .. Cardinality(S) -> S]
  <2> DEFINE g(n) == CHOOSE x \in S : Cardinality({y \in S : PairBefore(distance, y, x)}) = n - 1
  <2>1. f = [n \in 1 .. Cardinality(S) |-> g(n)]
    BY DEF InOrder
  <2> HIDE DEF g
  <2> QED BY <1>3, <2>1
<1> QED BY <1>1, <1>3, <1>4, Sorted

(* The pairs a run looks at: each once, the planned one first.             *)
EachOnce(pairs, S) == pairs \in Seq(S) /\ IsInjective(pairs) /\ ToSet(pairs) = S

LEMMA Candidates ==
  ASSUME NEW A, NEW distance, Distanced(A, distance), NEW pinned
  PROVE  /\ EachOnce(CandidatePairs(A, pinned, distance), Pairs(A))
         /\ pinned \in Pairs(A) => Head(CandidatePairs(A, pinned, distance)) = pinned
<1> DEFINE S == Pairs(A) \ {pinned}
           f == InOrder(distance, S)
           all == CandidatePairs(A, pinned, distance)
<1>1. f \in Seq(S) /\ IsInjective(f) /\ ToSet(f) = S
  BY PairsRanked
<1>2. all = (IF pinned \in Pairs(A) THEN <<pinned>> ELSE <<>>) \o f
  BY DEF CandidatePairs, Ranked, InOrder
<1> HIDE DEF f, all
<1>3. CASE pinned \notin Pairs(A)
  <2>1. S = Pairs(A)
    BY <1>3
  <2>2. all = f
    BY <1>1, <1>2, <1>3
  <2> QED BY <1>1, <1>3, <2>1, <2>2 DEF EachOnce, all
<1>4. CASE pinned \in Pairs(A)
  <2>1. all = <<pinned>> \o f
    BY <1>2, <1>4
  <2>2. /\ all \in Seq(Pairs(A)) /\ Len(all) = Len(f) + 1 /\ all[1] = pinned
        /\ \A n \in 1 .. Len(f) : all[n + 1] = f[n]
    BY <1>1, <1>4, <2>1
  <2>3. \A n \in 1 .. Len(f) : f[n] \in S /\ f[n] # pinned
    BY <1>1
  <2>4. DOMAIN f = 1 .. Len(f) /\ DOMAIN all = 1 .. Len(f) + 1 /\ Len(f) \in Nat
    BY <1>1, <2>2
  <2>5. IsInjective(all)
    <3> SUFFICES ASSUME NEW a \in 1 .. Len(f) + 1, NEW b \in 1 .. Len(f) + 1, all[a] = all[b]
                 PROVE  a = b
      BY <2>4 DEF IsInjective
    <3>1. ASSUME NEW c \in 1 .. Len(f) + 1, c # 1
          PROVE  c - 1 \in 1 .. Len(f) /\ all[c] = f[c - 1]
      <4>1. c - 1 \in 1 .. Len(f) /\ (c - 1) + 1 = c
        BY <2>4, <3>1
      <4> QED BY <2>2, <4>1
    <3>2. CASE a = 1 \/ b = 1
      BY <2>2, <2>3, <3>1, <3>2
    <3>3. CASE a # 1 /\ b # 1
      <4>1. a - 1 \in 1 .. Len(f) /\ b - 1 \in 1 .. Len(f) /\ f[a - 1] = f[b - 1]
        BY <3>1, <3>3
      <4>2. a - 1 = b - 1
        BY <1>1, <2>4, <4>1 DEF IsInjective
      <4> QED BY <2>4, <4>2
    <3> QED BY <3>2, <3>3
  <2>6. ToSet(all) = Pairs(A)
    <3>1. ToSet(all) \subseteq Pairs(A)
      BY <2>2 DEF ToSet
    <3>2. ASSUME NEW p \in Pairs(A), p # pinned PROVE p \in ToSet(all)
      <4>1. PICK n \in 1 .. Len(f) : f[n] = p
        BY <1>1, <2>4, <3>2 DEF ToSet
      <4>2. n + 1 \in DOMAIN all /\ all[n + 1] = p
        BY <2>2, <2>4, <4>1
      <4> QED BY <4>2 DEF ToSet
    <3>3. pinned \in ToSet(all)
      BY <2>2, <2>4 DEF ToSet
    <3> QED BY <3>1, <3>2, <3>3
  <2>7. Head(all) = pinned
    BY <2>2
  <2> QED BY <2>2, <2>5, <2>6, <2>7 DEF EachOnce, all
<1> QED BY <1>3, <1>4

-----------------------------------------------------------------------------
(* The operators of a run.                                                 *)

LEMMA SixOperators == IsFiniteSet(ToSet(Operators)) /\ Cardinality(ToSet(Operators)) = 6
<1> DEFINE f == [n \in 1 .. 6 |-> Operators[n]]
<1>1. Len(Operators) = 6 /\ DOMAIN Operators = 1 .. 6
  BY DEF Operators
<1>2. ToSet(Operators) = {Operators[n] : n \in 1 .. 6}
  BY <1>1 DEF ToSet
<1>3. \A a, b \in 1 .. 6 : Operators[a] = Operators[b] => a = b
  BY DEF Operators
<1> HIDE DEF Operators
<1>4. f \in Bijection(1 .. 6, ToSet(Operators))
  BY <1>2, <1>3 DEF Bijection, Injection, IsInjective, Surjection
<1>5. IsFiniteSet(1 .. 6) /\ Cardinality(1 .. 6) = 6
  BY UpTo
<1>6. ExistsBijection(1 .. 6, ToSet(Operators))
  BY <1>4 DEF ExistsBijection
<1> QED BY <1>5, <1>6, FS_Bijection

LEMMA FirstIsUnused ==
  ASSUME NEW S, NEW names \in Seq(S), NEW used, ~(ToSet(names) \subseteq used)
  PROVE  FirstUnused(names, used) \notin used
<1> DEFINE N == {n \in DOMAIN names : names[n] \notin used}
<1>1. Len(names) \in Nat /\ DOMAIN names = 1 .. Len(names)
  OBVIOUS
<1>2. N \in SUBSET (1 .. Len(names)) /\ N \in SUBSET Nat
  BY <1>1
<1>3. IsFiniteSet(1 .. Len(names))
  BY <1>1, FS_Interval
<1>4. IsFiniteSet(N)
  BY <1>2, <1>3, FS_Subset
<1>5. N # {}
  BY DEF ToSet
<1>6. Min(N) \in N
  BY <1>2, <1>4, <1>5, LeastIs
<1> QED BY <1>6 DEF FirstUnused

(* As long as one is left, an operator is chosen that was not used.        *)
LEMMA SelectsUnused ==
  ASSUME NEW preferred \in Preferred, NEW used, IsFiniteSet(used), Cardinality(used) < 6
  PROVE  Select(preferred, used) \notin used
<1>1. preferred \in Seq(ToSet(Operators)) /\ Operators \in Seq(ToSet(Operators))
  <2>1. ToSet(Operators) = {"analogy", "conceptual_blend", "counterfactual", "inversion",
                            "abstraction", "second_order"}
    <3>1. DOMAIN Operators = 1 .. 6
      BY DEF Operators
    <3> QED BY <3>1 DEF ToSet, Operators
  <2>2. Operators \in Seq(ToSet(Operators))
    BY <2>1 DEF Operators
  <2>3. Preferred \subseteq Seq(ToSet(Operators))
    BY <2>1 DEF Preferred
  <2> QED BY <2>2, <2>3
<1>2. ~(ToSet(Operators) \subseteq used)
  <2> SUFFICES ASSUME ToSet(Operators) \in SUBSET used PROVE FALSE
    OBVIOUS
  <2>1. Cardinality(ToSet(Operators)) <= Cardinality(used) /\ Cardinality(used) \in Nat
    BY FS_Subset, FS_CardinalityType
  <2> QED BY <2>1, SixOperators
<1>3. CASE ToSet(preferred) \subseteq used
  BY <1>1, <1>2, <1>3, FirstIsUnused DEF Select
<1>4. CASE ~(ToSet(preferred) \subseteq used)
  BY <1>1, <1>4, FirstIsUnused DEF Select
<1> QED BY <1>3, <1>4

-----------------------------------------------------------------------------
(* What a run holds: while it looks at pairs, each pair of its items once, *)
(* in what it looked at or in what is left, and as many operators as it    *)
(* used at first; before that, nothing.                                    *)

Fields ==
    run = [pc |-> run.pc, seed |-> run.seed, active |-> run.active, patch |-> run.patch,
           looked |-> run.looked, queue |-> run.queue, switches |-> run.switches,
           used |-> run.used, applied |-> run.applied, found |-> run.found]

Fresh == run.looked = <<>> /\ run.used = {} /\ run.applied = 0

Looking ==
    LET all == run.looked \o run.queue IN
    /\ run.looked \in Seq(Pairs(run.active)) /\ run.queue \in Seq(Pairs(run.active))
    /\ EachOnce(all, Pairs(run.active))
    /\ Pinned \in Pairs(run.active) => Head(all) = Pinned
    /\ IsFiniteSet(run.used) /\ run.applied \in Nat
    /\ run.applied <= 6 => Cardinality(run.used) = run.applied

VInv ==
    /\ Fields
    /\ run.pc # "loop" => Fresh
    /\ run.pc = "loop" => Looking

LEMMA LookedAtFirst ==
  ASSUME NEW S, NEW a \in Seq(S), NEW b \in Seq(S), b # <<>>
  PROVE  /\ Append(a, Head(b)) \in Seq(S) /\ Tail(b) \in Seq(S)
         /\ Append(a, Head(b)) \o Tail(b) = a \o b
<1>1. Head(b) \in S /\ Tail(b) \in Seq(S)
  OBVIOUS
<1>2. Append(a, Head(b)) = a \o <<Head(b)>>
  BY <1>1, AppendIsConcat
<1>3. <<Head(b)>> \o Tail(b) = b
  BY HeadTailProperties, <1>1
<1>4. <<Head(b)>> \in Seq(S)
  BY <1>1
<1>5. (a \o <<Head(b)>>) \o Tail(b) = a \o (<<Head(b)>> \o Tail(b))
  BY <1>1, <1>4, ConcatAssociative
<1> QED BY <1>1, <1>2, <1>3, <1>5

LEMMA OperatorCounted ==
  ASSUME NEW preferred \in Preferred, NEW used, IsFiniteSet(used), NEW applied \in Nat,
         applied <= 6 => Cardinality(used) = applied, NEW operator, operator = Select(preferred, used)
  PROVE  /\ IsFiniteSet(used \union {operator})
         /\ applied + 1 <= 6 => Cardinality(used \union {operator}) = applied + 1
<1>1. /\ IsFiniteSet(used \union {operator})
      /\ Cardinality(used \union {operator}) = IF operator \in used THEN Cardinality(used)
                                                                  ELSE Cardinality(used) + 1
  BY FS_AddElement
<1>2. ASSUME applied + 1 <= 6 PROVE Cardinality(used \union {operator}) = applied + 1
  <2>1. Cardinality(used) = applied /\ Cardinality(used) < 6
    BY <1>2
  <2>2. operator \notin used
    BY <2>1, SelectsUnused
  <2> QED BY <1>1, <2>1, <2>2
<1> QED BY <1>1, <1>2

LEMMA QueuePassed ==
  ASSUME run.looked \in Seq(Pairs(run.active)), run.queue \in Seq(Pairs(run.active)), run.queue # <<>>
  PROVE  /\ Append(run.looked, Head(run.queue)) \in Seq(Pairs(run.active))
         /\ Tail(run.queue) \in Seq(Pairs(run.active))
         /\ Append(run.looked, Head(run.queue)) \o Tail(run.queue) = run.looked \o run.queue
  BY LookedAtFirst

(* The run with the first pair of the queue looked at.                     *)
Passed(switches) ==
    [pc |-> run.pc, seed |-> run.seed, active |-> run.active, patch |-> run.patch,
     looked |-> Append(run.looked, Head(run.queue)), queue |-> Tail(run.queue),
     switches |-> switches, used |-> run.used, applied |-> run.applied, found |-> run.found]

LEMMA MovesOn ==
  ASSUME Fields
  PROVE  Looked = Passed(run.switches) /\ \E switches : Moved = Passed(switches)
<1>1. PICK pc, seed, active, patch, looked, queue, switches, used, applied, found :
         run = [pc |-> pc, seed |-> seed, active |-> active, patch |-> patch,
                looked |-> looked, queue |-> queue, switches |-> switches,
                used |-> used, applied |-> applied, found |-> found]
  BY DEF Fields
<1> HIDE DEF Fields
<1>2. Looked = Passed(run.switches)
  <2> DEFINE l == Append(looked, Head(queue))
             q == Tail(queue)
  <2>1. run.looked = looked /\ run.queue = queue
    BY <1>1
  <2>2. PICK r : r = [run EXCEPT !.looked = l]
    OBVIOUS
  <2>3. PICK o : o = [r EXCEPT !.queue = q]
    OBVIOUS
  <2>4. Looked = o
    BY <2>1, <2>2, <2>3 DEF Looked
  <2>5. Passed(run.switches) =
          [pc |-> pc, seed |-> seed, active |-> active, patch |-> patch, looked |-> l, queue |-> q,
           switches |-> switches, used |-> used, applied |-> applied, found |-> found]
    BY <1>1, <2>1 DEF Passed
  <2> HIDE DEF l, q
  <2>6. r = [pc |-> pc, seed |-> seed, active |-> active, patch |-> patch, looked |-> l,
             queue |-> queue, switches |-> switches, used |-> used, applied |-> applied,
             found |-> found]
    BY <1>1, <2>2
  <2>7. o = [pc |-> pc, seed |-> seed, active |-> active, patch |-> patch, looked |-> l,
             queue |-> q, switches |-> switches, used |-> used, applied |-> applied,
             found |-> found]
    BY <2>3, <2>6
  <2> QED BY <2>4, <2>5, <2>7
<1>3. Moved = Passed(run.switches) \/ Moved = Passed(run.switches + 1)
  BY <1>2 DEF Moved, Passed
<1> QED BY <1>2, <1>3

(* A step of the run to its next pair.                                     *)
LEMMA NextPair ==
  ASSUME VInv, run.pc = "loop", run.queue # <<>>, Fields',
         open' = open, run'.pc = "loop", run'.seed = run.seed, run'.active = run.active,
         run'.looked = Append(run.looked, Head(run.queue)), run'.queue = Tail(run.queue),
         \/ run'.used = run.used /\ run'.applied = run.applied
         \/ /\ run'.applied = run.applied + 1
            /\ \E preferred \in Preferred : run'.used = run.used \union {Select(preferred, run.used)}
  PROVE  VInv'
<1>1. Looking
  BY DEF VInv
<1>2. /\ run'.looked \in Seq(Pairs(run.active)) /\ run'.queue \in Seq(Pairs(run.active))
      /\ run'.looked \o run'.queue = run.looked \o run.queue
  <2>1. /\ run.looked \in Seq(Pairs(run.active))
        /\ run.queue \in Seq(Pairs(run.active))
    BY <1>1 DEF Looking
  <2>2. /\ Append(run.looked, Head(run.queue)) \in Seq(Pairs(run.active))
        /\ Tail(run.queue) \in Seq(Pairs(run.active))
        /\ Append(run.looked, Head(run.queue)) \o Tail(run.queue) = run.looked \o run.queue
    BY <2>1, QueuePassed
  <2> QED BY <2>2
<1>3. Pinned' = Pinned
  BY DEF Pinned
<1>4. /\ IsFiniteSet(run'.used) /\ run'.applied \in Nat
      /\ run'.applied <= 6 => Cardinality(run'.used) = run'.applied
  <2>1. CASE run'.used = run.used /\ run'.applied = run.applied
    BY <1>1, <2>1 DEF Looking
  <2>2. ASSUME NEW preferred \in Preferred, run'.applied = run.applied + 1,
               run'.used = run.used \union {Select(preferred, run.used)}
        PROVE  /\ IsFiniteSet(run'.used) /\ run'.applied \in Nat
               /\ run'.applied <= 6 => Cardinality(run'.used) = run'.applied
    <3>1. IsFiniteSet(run.used) /\ run.applied \in Nat
      BY <1>1 DEF Looking
    <3>2. run.applied <= 6 => Cardinality(run.used) = run.applied
      BY <1>1 DEF Looking
    <3> DEFINE operator == Select(preferred, run.used)
    <3>3. run'.used = run.used \union {operator}
      BY <2>2
    <3>4. operator = Select(preferred, run.used)
      OBVIOUS
    <3> HIDE DEF operator
    <3>5. /\ IsFiniteSet(run.used \union {operator})
          /\ run.applied + 1 <= 6 => Cardinality(run.used \union {operator}) = run.applied + 1
      BY <3>1, <3>2, <3>4, OperatorCounted
    <3>6. run'.applied \in Nat
      BY <2>2, <3>1
    <3>7. IsFiniteSet(run'.used)
      BY <3>3, <3>5
    <3>8. run'.applied <= 6 => Cardinality(run'.used) = run'.applied
      BY <2>2, <3>3, <3>5
    <3> QED BY <3>6, <3>7, <3>8
  <2> QED BY <2>1, <2>2
<1>5. Looking'
  BY <1>1, <1>2, <1>3, <1>4 DEF Looking
<1> QED BY <1>5 DEF VInv

LEMMA BeginVaried == ASSUME VInv, Begin PROVE VInv'
<1>1. PICK distance \in [Active -> Distances], coherence \in Coherence :
         run' = [run EXCEPT !.pc = "loop", !.active = Active,
                            !.patch = [i \in Active |-> PatchOf(i, Active, coherence)],
                            !.queue = CandidatePairs(Active, Pinned, distance)]
  BY DEF Begin, Distance
<1>2. open' = open /\ run.pc = "submitted" /\ Fields /\ Fresh
  BY DEF Begin, VInv
<1>3. /\ Fields' /\ run'.pc = "loop" /\ run'.seed = run.seed /\ run'.active = Active
      /\ run'.looked = <<>> /\ run'.queue = CandidatePairs(Active, Pinned, distance)
      /\ run'.used = {} /\ run'.applied = 0
  BY <1>1, <1>2 DEF Fields, Fresh
<1>4. Pinned' = Pinned
  BY <1>2, <1>3 DEF Pinned
<1>5. Distanced(Active, distance)
  BY DEF Distanced, Active
<1>6. /\ EachOnce(run'.queue, Pairs(Active))
      /\ Pinned \in Pairs(Active) => Head(run'.queue) = Pinned
  BY <1>3, <1>5, Candidates
<1>7. run'.looked \o run'.queue = run'.queue
  BY <1>3, <1>6 DEF EachOnce
<1>8. IsFiniteSet({}) /\ Cardinality({}) = 0
  BY FS_EmptySet
<1>9. Looking'
  BY <1>3, <1>4, <1>6, <1>7, <1>8 DEF Looking, EachOnce
<1> QED BY <1>3, <1>9 DEF VInv

LEMMA InitVaried == Init => VInv
  BY DEF Init, VInv, Fields, Fresh, NoRun

LEMMA NextVaried == ASSUME VInv, [Next]_vars PROVE VInv'
<1>1. ASSUME run' = NoRun PROVE VInv'
  BY <1>1 DEF NoRun, VInv, Fields, Fresh
<1>2. ASSUME NEW pc, NEW seed, run' = [NoRun EXCEPT !.pc = pc, !.seed = seed], pc # "loop" PROVE VInv'
  BY <1>2 DEF NoRun, VInv, Fields, Fresh
<1>3. ASSUME run' = run, open' = open PROVE VInv'
  BY <1>3 DEF VInv, Fields, Fresh, Looking, Pinned
<1>4. CASE Plan \/ Incubate \/ Ask
  BY <1>2, <1>4 DEF Plan, Incubate, Ask, Sow, TakeOver
<1>5. CASE Start
  <2>1. Fields /\ Fresh /\ run' = [run EXCEPT !.pc = "submitted"]
    BY <1>5 DEF Start, VInv
  <2> QED BY <2>1 DEF VInv, Fields, Fresh
<1>6. CASE Begin
  BY <1>6, BeginVaried
<1>7. CASE Refuse \/ Discard \/ Apply
  <2>1. Fields /\ run.pc = "loop" /\ run.queue # <<>> /\ open' = open
    BY <1>7 DEF Refuse, Discard, Apply, VInv
  <2>2. \E switches, used, applied, found :
           /\ run' = [pc |-> run.pc, seed |-> run.seed, active |-> run.active, patch |-> run.patch,
                      looked |-> Append(run.looked, Head(run.queue)), queue |-> Tail(run.queue),
                      switches |-> switches, used |-> used, applied |-> applied, found |-> found]
           /\ \/ used = run.used /\ applied = run.applied
              \/ /\ applied = run.applied + 1
                 /\ \E preferred \in Preferred : used = run.used \union {Select(preferred, run.used)}
    <3>0. Looked = Passed(run.switches) /\ \E switches : Moved = Passed(switches)
      BY <2>1, MovesOn
    <3>1. CASE Refuse
      BY <3>0, <3>1 DEF Refuse, Passed
    <3>2. CASE Discard
      BY <3>0, <3>2 DEF Discard, Passed
    <3>3. CASE Apply
      <4>1. PICK preferred \in Preferred, wonder \in BOOLEAN :
               run' = [Moved EXCEPT !.used = @ \union {Select(preferred, run.used)}, !.applied = @ + 1,
                                    !.found = IF wonder THEN @ + 1 ELSE @]
        BY <3>3 DEF Apply
      <4>2. PICK switches : Moved = Passed(switches)
        BY <3>0
      <4>3. \E found : run' = [pc |-> run.pc, seed |-> run.seed, active |-> run.active, patch |-> run.patch,
                      looked |-> Append(run.looked, Head(run.queue)), queue |-> Tail(run.queue),
                      switches |-> switches, used |-> run.used \union {Select(preferred, run.used)},
                      applied |-> run.applied + 1, found |-> found]
        BY <4>1, <4>2 DEF Passed
      <4> QED BY <4>3
    <3> QED BY <1>7, <3>1, <3>2, <3>3
  <2>3. /\ Fields' /\ run'.pc = "loop" /\ run'.seed = run.seed /\ run'.active = run.active
        /\ run'.looked = Append(run.looked, Head(run.queue)) /\ run'.queue = Tail(run.queue)
        /\ \/ run'.used = run.used /\ run'.applied = run.applied
           \/ /\ run'.applied = run.applied + 1
              /\ \E preferred \in Preferred : run'.used = run.used \union {Select(preferred, run.used)}
    BY <2>1, <2>2 DEF Fields
  <2> QED BY <2>1, <2>3, NextPair
<1>8. CASE Complete \/ End
  BY <1>1, <1>8 DEF Complete, End
<1>9. ASSUME NEW i \in Numbers, Add(i) \/ Reject(i) \/ Erase(i) PROVE VInv'
  BY <1>3, <1>9 DEF Add, Reject, Erase, Become
<1>10. CASE UNCHANGED vars
  BY <1>3, <1>10 DEF vars
<1> QED BY <1>4, <1>5, <1>6, <1>7, <1>8, <1>9, <1>10 DEF Next

(* A run looks at every pair of its items once, at the planned one first,  *)
(* and repeats no operator before it has used each: the ranking of         *)
(* CandidatePairs yields each pair once, what is looked at moves from one  *)
(* sequence to the other, and a name that is left is always found.         *)
THEOREM RunStaysVaried == Spec => []RunVaried
<1>1. VInv => RunVaried
  BY DEF VInv, Looking, EachOnce, RunVaried, Operators
<1>2. Init => VInv
  BY InitVaried
<1>3. VInv /\ [Next]_vars => VInv'
  BY NextVaried
<1> QED BY <1>1, <1>2, <1>3, PTL DEF Spec
=============================================================================
