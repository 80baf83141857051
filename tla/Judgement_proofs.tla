-------------------------- MODULE Judgement_proofs --------------------------
(***************************************************************************)
(* What no candidate, review, evaluation or text can get past, whatever    *)
(* their scores are: the properties of Judgement for every value of its    *)
(* constants.                                                              *)
(***************************************************************************)
EXTENDS Judgement, FiniteSetTheorems, TLAPS

-----------------------------------------------------------------------------
(* The greatest and the least of a few numbers.                            *)

(* The greatest element of a set that has one is an upper bound in it.     *)
LEMMA MaxIs ==
    ASSUME NEW S, NEW m \in S, \A y \in S : m >= y
    PROVE  Max(S) \in S /\ \A y \in S : Max(S) >= y
<1>1. \E x \in S : \A y \in S : x >= y
    OBVIOUS
<1> QED BY <1>1 DEF Max

(* The least element of a set that has one is a lower bound in it.         *)
LEMMA MinIs ==
    ASSUME NEW S, NEW m \in S, \A y \in S : m <= y
    PROVE  Min(S) \in S /\ \A y \in S : Min(S) <= y
<1>1. \E x \in S : \A y \in S : x <= y
    OBVIOUS
<1> QED BY <1>1 DEF Min

(* Of two numbers.                                                         *)
LEMMA Max2 ==
    ASSUME NEW a \in Int, NEW b \in Int
    PROVE  Max({a, b}) = IF a >= b THEN a ELSE b
<1>1. PICK m \in {a, b} : \A y \in {a, b} : m >= y
    <2>1. CASE a >= b BY <2>1
    <2>2. CASE b >= a BY <2>2
    <2> QED BY <2>1, <2>2
<1>2. Max({a, b}) \in {a, b} /\ \A y \in {a, b} : Max({a, b}) >= y
    BY <1>1, MaxIs
<1> QED BY <1>2

LEMMA Min2 ==
    ASSUME NEW a \in Int, NEW b \in Int
    PROVE  Min({a, b}) = IF a <= b THEN a ELSE b
<1>1. PICK m \in {a, b} : \A y \in {a, b} : m <= y
    <2>1. CASE a <= b BY <2>1
    <2>2. CASE b <= a BY <2>2
    <2> QED BY <2>1, <2>2
<1>2. Min({a, b}) \in {a, b} /\ \A y \in {a, b} : Min({a, b}) <= y
    BY <1>1, MinIs
<1> QED BY <1>2

LEMMA MinType ==
    ASSUME NEW a \in Int, NEW b \in Int
    PROVE  Min({a, b}) \in Int
<1>1. Min({a, b}) = IF a <= b THEN a ELSE b
    BY Min2
<1> QED BY <1>1

(* Of three numbers.                                                       *)
LEMMA Max3 ==
    ASSUME NEW a \in Int, NEW b \in Int, NEW c \in Int
    PROVE  /\ Max({a, b, c}) \in Int
           /\ Max({a, b, c}) >= a /\ Max({a, b, c}) >= b /\ Max({a, b, c}) >= c
<1>1. PICK m \in {a, b, c} : \A y \in {a, b, c} : m >= y
    <2>1. CASE a >= b /\ a >= c BY <2>1
    <2>2. CASE b >= a /\ b >= c BY <2>2
    <2>3. CASE c >= a /\ c >= b BY <2>3
    <2> QED BY <2>1, <2>2, <2>3
<1>2. /\ Max({a, b, c}) \in {a, b, c}
      /\ \A y \in {a, b, c} : Max({a, b, c}) >= y
    BY <1>1, MaxIs
<1> QED BY <1>2

LEMMA Min3 ==
    ASSUME NEW a \in Int, NEW b \in Int, NEW c \in Int
    PROVE  /\ Min({a, b, c}) \in Int
           /\ Min({a, b, c}) <= a /\ Min({a, b, c}) <= b /\ Min({a, b, c}) <= c
<1>1. PICK m \in {a, b, c} : \A y \in {a, b, c} : m <= y
    <2>1. CASE a <= b /\ a <= c BY <2>1
    <2>2. CASE b <= a /\ b <= c BY <2>2
    <2>3. CASE c <= a /\ c <= b BY <2>3
    <2> QED BY <2>1, <2>2, <2>3
<1>2. /\ Min({a, b, c}) \in {a, b, c}
      /\ \A y \in {a, b, c} : Min({a, b, c}) <= y
    BY <1>1, MinIs
<1> QED BY <1>2

(* Of four numbers.                                                        *)
LEMMA Max4 ==
    ASSUME NEW a \in Int, NEW b \in Int, NEW c \in Int, NEW d \in Int
    PROVE  /\ Max({a, b, c, d}) \in Int
           /\ Max({a, b, c, d}) >= a /\ Max({a, b, c, d}) >= b
           /\ Max({a, b, c, d}) >= c /\ Max({a, b, c, d}) >= d
<1>1. PICK m \in {a, b, c, d} : \A y \in {a, b, c, d} : m >= y
    <2>1. CASE a >= b /\ a >= c /\ a >= d BY <2>1
    <2>2. CASE b >= a /\ b >= c /\ b >= d BY <2>2
    <2>3. CASE c >= a /\ c >= b /\ c >= d BY <2>3
    <2>4. CASE d >= a /\ d >= b /\ d >= c BY <2>4
    <2> QED BY <2>1, <2>2, <2>3, <2>4
<1>2. /\ Max({a, b, c, d}) \in {a, b, c, d}
      /\ \A y \in {a, b, c, d} : Max({a, b, c, d}) >= y
    BY <1>1, MaxIs
<1> QED BY <1>2

(* Clamp keeps a number between 0 and 10000 and changes no other.          *)
LEMMA ClampIs ==
    ASSUME NEW x \in Int
    PROVE  Clamp(x) = IF x < 0 THEN 0 ELSE IF x > 10000 THEN 10000 ELSE x
<1>1. Min({10000, x}) = IF 10000 <= x THEN 10000 ELSE x
    BY Min2
<1>2. Max({0, Min({10000, x})}) = IF 0 >= Min({10000, x}) THEN 0 ELSE Min({10000, x})
    BY <1>1, Max2
<1> QED BY <1>1, <1>2 DEF Clamp
-----------------------------------------------------------------------------
(* Types of the scores.                                                    *)

DraftType == [pair : PairType, seed : SeedType, text : TextType, verified : BOOLEAN]

(* A score is a number, and so is what a flag adds to it.                  *)
LEMMA ScoreIs ==
    ASSUME NEW x \in Scores
    PROVE  x \in Int /\ x >= 0 /\ x <= 10000
BY DEF Scores

LEMMA IfType ==
    ASSUME NEW b \in BOOLEAN, NEW x \in Int
    PROVE  If(b, x) \in Int /\ (b => If(b, x) = x) /\ (~b => If(b, x) = 0)
BY DEF If

LEMMA ClampType ==
    ASSUME NEW x \in Int
    PROVE  Clamp(x) \in Int
<1>1. Clamp(x) = IF x < 0 THEN 0 ELSE IF x > 10000 THEN 10000 ELSE x
    BY ClampIs
<1> QED BY <1>1

(* The fields of a draft, and its markers.                                 *)
LEMMA DraftFields ==
    ASSUME NEW d \in DraftType
    PROVE  /\ d.pair \in PairType /\ d.pair.steps \in Int /\ d.pair.shared \in Int /\ d.pair.topics \in Int
           /\ d.seed.anchors \in Int /\ d.seed.overlap \in Int
           /\ d.seed.liked \in Nat /\ d.seed.disliked \in Nat /\ d.seed.indifferent \in Nat
           /\ d.text.questions \in Int /\ d.text.length \in Int /\ d.text.near \in Int
           /\ d.text.lexical \in Int /\ d.text.common \in 0 .. 2
           /\ Absolute(d) \in BOOLEAN /\ Obvious(d) \in BOOLEAN /\ Framing(d) \in BOOLEAN
           /\ Future(d) \in BOOLEAN /\ Testable(d) \in BOOLEAN /\ Restated(d) \in BOOLEAN
<1>1. d.pair \in PairType /\ d.seed \in SeedType /\ d.text \in TextType
    BY DEF DraftType
<1>2. d.pair.steps \in Int /\ d.pair.shared \in Int /\ d.pair.topics \in Int
    BY <1>1 DEF PairType
<1>3. /\ d.seed.anchors \in 0 .. 2 /\ d.seed.overlap \in Scores
      /\ d.seed.liked \in Nat /\ d.seed.disliked \in Nat /\ d.seed.indifferent \in Nat
      /\ d.seed.arbitrary \in BOOLEAN /\ d.seed.obvious \in BOOLEAN
    BY <1>1 DEF SeedType
<1>4. /\ d.text.questions \in Int /\ d.text.length \in Int /\ d.text.near \in Scores
      /\ d.text.lexical \in Scores /\ d.text.common \in 0 .. 2
      /\ d.text.future \in BOOLEAN /\ d.text.testable \in BOOLEAN
    BY <1>1 DEF TextType
<1>5. d.seed.anchors \in Int /\ d.seed.overlap \in Int /\ d.text.near \in Int /\ d.text.lexical \in Int
    BY <1>3, <1>4, ScoreIs
<1>6. /\ Absolute(d) \in BOOLEAN /\ Obvious(d) \in BOOLEAN /\ Framing(d) \in BOOLEAN
      /\ Future(d) \in BOOLEAN /\ Testable(d) \in BOOLEAN /\ Restated(d) \in BOOLEAN
    BY <1>3, <1>4 DEF Absolute, Obvious, Framing, Future, Testable, Restated
<1> QED BY <1>1, <1>2, <1>3, <1>4, <1>5, <1>6

LEMMA StrengthType ==
    ASSUME NEW p \in PairType
    PROVE  Closeness(p) \in Int /\ Strength(p) \in Int
<1>1. p.steps \in Int /\ p.shared \in Int
    BY DEF PairType
<1>2. 10000 - 2000 * Abs(p.steps - 5) \in Int
    BY <1>1 DEF Abs
<1>3. Closeness(p) \in Int
    BY <1>2, ClampType DEF Closeness
<1>4. Min({2500, 500 * p.shared}) \in Int
    <2>1. 500 * p.shared \in Int BY <1>1
    <2> QED BY <2>1, MinType
<1>5. (7 * Closeness(p)) \div 10 + Min({2500, 500 * p.shared}) \in Int
    BY <1>3, <1>4
<1> QED BY <1>3, <1>5, ClampType DEF Strength

LEMMA HistoryType ==
    ASSUME NEW d \in DraftType
    PROVE  History(d) \in Int /\ (d.text.common = 2 => History(d) = d.text.lexical)
<1>1. d.text.lexical \in Int /\ d.text.common \in 0 .. 2
    BY DraftFields
<1>2. CASE d.text.common = 0 BY <1>1, <1>2 DEF History
<1>3. CASE d.text.common = 1 BY <1>1, <1>3 DEF History
<1>4. CASE d.text.common = 2
    <2>1. (6500 * d.text.common) \div (4 - d.text.common) = 6500 BY <1>4
    <2>2. History(d) = (d.text.lexical * 10000) \div 10000 BY <2>1 DEF History
    <2> QED BY <1>1, <2>2
<1> QED BY <1>1, <1>2, <1>3, <1>4

(* The redundancy of a candidate, and what a limit on it excludes: an      *)
(* obvious seed, a question already answered, and the text of an earlier   *)
(* wonder about the same sources.                                          *)
LEMMA RedundancyMeans ==
    ASSUME NEW d \in DraftType
    PROVE  /\ Redundancy(d) \in Int
           /\ Redundancy(d) < 8500 =>
                 /\ ~Obvious(d) /\ ~Restated(d) /\ d.seed.overlap < 8500
                 /\ d.text.common = 2 => d.text.lexical < 8500
<1> DEFINE h == History(d)
           o == d.seed.overlap
           b == If(Obvious(d), 10000)
           r == If(Restated(d), 9500)
           m == Max({h, o, b, r})
<1>1. Redundancy(d) = Clamp(m)
    BY DEF Redundancy
<1>2. o \in Int /\ Obvious(d) \in BOOLEAN /\ Restated(d) \in BOOLEAN
    BY DraftFields
<1>3. h \in Int /\ (d.text.common = 2 => h = d.text.lexical)
    BY HistoryType
<1>4. /\ b \in Int /\ (Obvious(d) => b = 10000)
      /\ r \in Int /\ (Restated(d) => r = 9500)
    BY <1>2, IfType
<1> HIDE DEF h, o, b, r
<1>5. m \in Int /\ m >= h /\ m >= o /\ m >= b /\ m >= r
    <2>1. h \in Int /\ o \in Int /\ b \in Int /\ r \in Int
        BY <1>2, <1>3, <1>4
    <2> QED BY <2>1, Max4, Zenon
<1> HIDE DEF m
<1>6. Clamp(m) \in Int
    BY <1>5, ClampType
<1>7. ASSUME Clamp(m) < 8500
      PROVE  m < 8500
    <2>1. Clamp(m) <= 8499 BY <1>6, <1>7
    <2> QED BY <1>5, <2>1, ClampIs
<1>8. ASSUME Redundancy(d) < 8500
      PROVE  h < 8500 /\ o < 8500 /\ b < 8500 /\ r < 8500
    <2>1. m < 8500 BY <1>1, <1>7, <1>8
    <2> QED BY <1>2, <1>3, <1>4, <1>5, <2>1
<1>9. Redundancy(d) \in Int
    BY <1>1, <1>6
<1>10. ASSUME Redundancy(d) < 8500
       PROVE  ~Obvious(d) /\ ~Restated(d)
    BY <1>2, <1>4, <1>8, <1>10
<1>11. ASSUME Redundancy(d) < 8500, d.text.common = 2
       PROVE  d.text.lexical < 8500
    BY <1>3, <1>8, <1>11
<1> QED BY <1>8, <1>9, <1>10, <1>11 DEF o

(* The arbitrariness of a candidate, and what a limit on it excludes: a    *)
(* weak association, an absurd seed.                                       *)
LEMMA ArbitrarinessMeans ==
    ASSUME NEW d \in DraftType
    PROVE  /\ Arbitrariness(d) \in Int
           /\ Arbitrariness(d) < 8000 => ~Framing(d)
           /\ Arbitrariness(d) <= 5500 => Strength(d.pair) >= 4500
<1> DEFINE s == 10000 - Strength(d.pair)
           b == If(Obvious(d), 8000)
           f == If(Framing(d), 10000)
           m == Max({s, b, f})
<1>1. Arbitrariness(d) = Clamp(m)
    BY DEF Arbitrariness
<1>2. Obvious(d) \in BOOLEAN /\ Framing(d) \in BOOLEAN /\ d.pair \in PairType
    BY DraftFields
<1>3. Strength(d.pair) \in Int
    BY <1>2, StrengthType
<1>4. s \in Int
    BY <1>3
<1>5. b \in Int /\ f \in Int /\ (Framing(d) => f = 10000)
    BY <1>2, IfType
<1> HIDE DEF b, f
<1> HIDE DEF s
<1>6. s \in Int /\ b \in Int /\ f \in Int
    BY <1>4, <1>5
<1>7. m \in Int /\ m >= s /\ m >= f
    BY <1>6, Max3, Zenon
<1> HIDE DEF m
<1>8. Clamp(m) \in Int
    BY <1>7, ClampType
<1>9. ASSUME Arbitrariness(d) < 8000
      PROVE  ~Framing(d)
    <2>1. Clamp(m) <= 7999 BY <1>1, <1>8, <1>9
    <2>2. m <= 7999 BY <1>7, <2>1, ClampIs
    <2> QED BY <1>5, <1>7, <2>2
<1>10. ASSUME Arbitrariness(d) <= 5500
       PROVE  s <= 5500
    <2>1. Clamp(m) <= 5500 BY <1>1, <1>10
    <2>2. m <= 5500 BY <1>7, <2>1, ClampIs
    <2> QED BY <1>4, <1>7, <2>2
<1>11. ASSUME s <= 5500
       PROVE  Strength(d.pair) >= 4500
    BY <1>3, <1>11 DEF s
<1>12. Arbitrariness(d) \in Int
    BY <1>1, <1>8
<1> QED BY <1>9, <1>10, <1>11, <1>12

(* The risk of a candidate, and what a limit on it excludes: an absolute   *)
(* claim with few questions.                                               *)
LEMMA RiskMeans ==
    ASSUME NEW d \in DraftType
    PROVE  /\ Risk(d) \in Int
           /\ Absolute(d) /\ Risk(d) < 7500  => d.text.questions >= 3
           /\ Absolute(d) /\ Risk(d) <= 3500 => d.text.questions >= 7
<1>1. d.text.questions \in Int /\ Absolute(d) \in BOOLEAN
    BY DraftFields
<1>2. /\ If(Absolute(d), 8500) \in Int
      /\ Absolute(d) => If(Absolute(d), 8500) = 8500
    BY <1>1, IfType
<1> DEFINE n == 1500 + If(Absolute(d), 8500) - 1000 * d.text.questions
<1>3. Risk(d) = Clamp(n)
    BY DEF Risk
<1>4. n \in Int
    BY <1>1, <1>2
<1>5. ASSUME Absolute(d)
      PROVE  n = 10000 - 1000 * d.text.questions
    <2>1. If(Absolute(d), 8500) = 8500 BY <1>5 DEF If
    <2> QED BY <1>1, <2>1
<1> HIDE DEF n
<1>6. Clamp(n) \in Int
    BY <1>4, ClampType
<1>7. ASSUME Absolute(d), Risk(d) < 7500
      PROVE  d.text.questions >= 3
    <2>1. Clamp(n) <= 7499 BY <1>3, <1>6, <1>7
    <2>2. n <= 7499 BY <1>4, <2>1, ClampIs
    <2> QED BY <1>1, <1>5, <1>7, <2>2
<1>8. ASSUME Absolute(d), Risk(d) <= 3500
      PROVE  d.text.questions >= 7
    <2>1. Clamp(n) <= 3500 BY <1>3, <1>8
    <2>2. n <= 3500 BY <1>4, <2>1, ClampIs
    <2> QED BY <1>1, <1>5, <1>8, <2>2
<1> QED BY <1>3, <1>6, <1>7, <1>8
-----------------------------------------------------------------------------
(* The other scores are numbers.                                           *)

LEMMA DivType ==
    ASSUME NEW x \in Int, NEW n \in Nat, n # 0
    PROVE  x \div n \in Int
<1>1. n > 0
    OBVIOUS
<1> QED BY <1>1

(* What a wonder is judged by besides: its coherence and its potential.    *)
LEMMA CoherenceType ==
    ASSUME NEW d \in DraftType
    PROVE  Coherence(d) \in Int /\ Potential(d) \in Int
<1>1. d.pair \in PairType /\ d.text.questions \in Int /\ d.text.length \in Int /\ Testable(d) \in BOOLEAN
    BY DraftFields
<1>2. Strength(d.pair) \in Int
    BY <1>1, StrengthType
<1>3. If(d.text.length > 80, 1000) \in Int /\ If(Testable(d), 2000) \in Int
    BY DEF If
<1>4. 4500 + (45 * Strength(d.pair)) \div 100 + If(d.text.length > 80, 1000) \in Int
    BY <1>2, <1>3
<1>5. 3500 + 2000 * d.text.questions + If(Testable(d), 2000) \in Int
    BY <1>1, <1>3
<1> QED BY <1>4, <1>5, ClampType DEF Coherence, Potential

LEMMA InterestType ==
    ASSUME NEW d \in DraftType
    PROVE  Interest(d) \in Int
<1>1. d.seed.liked \in Nat /\ d.seed.disliked \in Nat /\ d.seed.indifferent \in Nat
    BY DraftFields
<1>2. /\ d.seed.liked + d.seed.disliked + d.seed.indifferent \in Nat
      /\ 10000 * (d.seed.liked - d.seed.disliked) \in Int
    BY <1>1
<1>3. CASE d.seed.liked + d.seed.disliked + d.seed.indifferent = 0
    BY <1>3 DEF Interest
<1>4. CASE d.seed.liked + d.seed.disliked + d.seed.indifferent # 0
    <2>1. (10000 * (d.seed.liked - d.seed.disliked))
             \div (d.seed.liked + d.seed.disliked + d.seed.indifferent) \in Int
        BY <1>2, <1>4, DivType
    <2> QED BY <1>4, <2>1 DEF Interest
<1> QED BY <1>3, <1>4

LEMMA NoveltyType ==
    ASSUME NEW d \in DraftType
    PROVE  Novelty(d) \in Int /\ Relevance(d) \in Int /\ CrossDomain(d) \in Int
<1>1. /\ d.pair.steps \in Int /\ d.pair.topics \in Int /\ d.seed.anchors \in Int /\ d.text.near \in Int
      /\ History(d) \in Int /\ Interest(d) \in Int
    BY DraftFields, HistoryType, InterestType
<1>2. 6500 + 455 * d.pair.steps - (45 * History(d)) \div 100 \in Int
    BY <1>1
<1>3. Coverage(d) \in Int
    BY <1>1 DEF Coverage
<1>4. (15 * Coverage(d) + 12 * Interest(d)) \div 100 \in Int
    BY <1>1, <1>3
<1>5. 3500 + d.text.near \div 2 + (15 * Coverage(d) + 12 * Interest(d)) \div 100 \in Int
    BY <1>1, <1>4
<1>6. If(d.pair.steps > 3, 3000) \in Int
    BY DEF If
<1>7. 3000 + 1800 * d.pair.topics + If(d.pair.steps > 3, 3000) \in Int
    BY <1>1, <1>6
<1> QED BY <1>2, <1>5, <1>7, ClampType DEF Novelty, Relevance, CrossDomain

LEMMA GenerativityType ==
    ASSUME NEW d \in DraftType
    PROVE  Generativity(d) \in Int /\ Explanatory(d) \in Int
<1>1. d.pair \in PairType /\ d.text.questions \in Int /\ d.text.length \in Int /\ Future(d) \in BOOLEAN
    BY DraftFields
<1>2. Strength(d.pair) \in Int
    BY <1>1, StrengthType
<1>3. If(Future(d), 2000) \in Int
    BY <1>1 DEF If
<1>4. Min({4500, 1800 * d.text.questions}) \in Int
    <2>1. \A k \in Int : Min({4500, k}) \in Int BY MinType
    <2>2. 1800 * d.text.questions \in Int BY <1>1
    <2> QED BY <2>1, <2>2
<1>5. Min({3500, (25 * d.text.length) \div 2}) \in Int
    <2>1. d.text.length \in Int BY <1>1
    <2>2. (25 * d.text.length) \div 2 \in Int BY <2>1
    <2>3. \A k \in Int : Min({3500, k}) \in Int BY MinType
    <2> QED BY <2>2, <2>3
<1>6. 3500 + Min({4500, 1800 * d.text.questions}) + If(Future(d), 2000) \in Int
    BY <1>3, <1>4
<1>7. 4000 + Min({3500, (25 * d.text.length) \div 2}) + Strength(d.pair) \div 4 \in Int
    BY <1>2, <1>5
<1> QED BY <1>6, <1>7, ClampType DEF Generativity, Explanatory

LEMMA TotalType ==
    ASSUME NEW d \in DraftType
    PROVE  Total(d) \in Int
<1>1. Closeness(d.pair) \in Int
    BY DraftFields, StrengthType
<1>2. Redundancy(d) \in Int /\ Arbitrariness(d) \in Int /\ Risk(d) \in Int
    BY RedundancyMeans, ArbitrarinessMeans, RiskMeans
<1>3. /\ Novelty(d) \in Int /\ Relevance(d) \in Int /\ CrossDomain(d) \in Int
      /\ Generativity(d) \in Int /\ Explanatory(d) \in Int
      /\ Coherence(d) \in Int /\ Potential(d) \in Int
    BY NoveltyType, GenerativityType, CoherenceType
<1> DEFINE n == (18 * Novelty(d) + 12 * Closeness(d.pair) + 18 * Relevance(d) + 12 * Coherence(d)
                 + 14 * Generativity(d) + 10 * Explanatory(d) + 8 * Potential(d) + 8 * CrossDomain(d)
                 - 12 * Redundancy(d) - 10 * Arbitrariness(d) - 15 * Risk(d)) \div 100
<1>4. n \in Int
    BY <1>1, <1>2, <1>3
<1>5. Total(d) = Clamp(n)
    BY DEF Total
<1> HIDE DEF n
<1> QED BY <1>4, <1>5, ClampType

(* The gate's limits on the scores leave only one decision.                *)
LEMMA HighScores ==
    ASSUME NEW d \in DraftType, Total(d) >= 6300,
           Redundancy(d) <= 4500, Arbitrariness(d) <= 5500, Risk(d) <= 3500
    PROVE  Decide(d) = "surface"
<1>1. Total(d) \in Int /\ Redundancy(d) \in Int /\ Arbitrariness(d) \in Int /\ Risk(d) \in Int
    BY TotalType, RedundancyMeans, ArbitrarinessMeans, RiskMeans
<1>2. ~Guarded(d)
    BY <1>1 DEF Guarded
<1>3. ~(Total(d) < 2500) /\ Total(d) >= 5800
    BY <1>1
<1> QED BY <1>2, <1>3 DEF Decide

(* A decision is one of four.                                              *)
LEMMA DecideType ==
    ASSUME NEW d
    PROVE  Decide(d) \in {"reject", "surface", "deep", "keep"}
BY DEF Decide
-----------------------------------------------------------------------------
(* Reviews and evaluations.                                                *)

ReviewTyped(r) ==
    /\ r.verdict \in {"none", "pass", "revise", "reject"} /\ r.risk \in Int /\ r.uncertainty \in Int
    /\ r.absolute \in BOOLEAN /\ r.counter \in BOOLEAN

WonderType == [support : BOOLEAN, counter : BOOLEAN, asks : BOOLEAN, confidence : Int,
               basis : {"none", "runtime_revision", "runtime_review", "score_threshold"},
               promoted : BOOLEAN]

HandType == [pc : {"idle", "done", "read", "stored", "promoted", "refused", "judged"},
             row : WonderType, there : BOOLEAN, lineage : BOOLEAN, refs : SUBSET STRING,
             item : {"none", "active", "rejected"}]

(* Two elements out of at most two are all of them.                        *)
LEMMA TwoOfTwo ==
    ASSUME NEW a, NEW b, NEW K \in SUBSET {a, b}, Cardinality(K) >= 2
    PROVE  K = {a, b} /\ a # b /\ Cardinality(K) = 2
<1>1. Cardinality({}) = 0 /\ \A x : Cardinality({x}) = 1
    BY FS_EmptySet, FS_Singleton
<1>2. ASSUME K = {}
      PROVE  FALSE
    <2>1. Cardinality(K) = 0 BY <1>1, <1>2
    <2> QED BY <2>1
<1>3. ASSUME NEW x, K = {x}
      PROVE  FALSE
    <2>1. Cardinality(K) = 1 BY <1>1, <1>3
    <2> QED BY <2>1
<1>4. K = {a, b} /\ a # b
    <2>1. K = {} \/ K = {a} \/ K = {b} \/ K = {a, b}
        OBVIOUS
    <2> QED BY <1>2, <1>3, <2>1
<1>5. IsFiniteSet({a}) /\ b \notin {a} /\ {a, b} = {a} \cup {b}
    BY <1>4, FS_Singleton
<1>6. Cardinality({a, b}) = Cardinality({a}) + 1
    BY <1>5, FS_AddElement
<1> QED BY <1>1, <1>4, <1>6

(* A sanitized review that is no rejection cites both items, which are     *)
(* original ones with references of their own.                             *)
LEMMA SanitizedMeans ==
    ASSUME NEW p, NEW r \in Reviews, NEW support, NEW counter, ConstantsAssumption
    PROVE  /\ ReviewTyped(Sanitized(p, r, support, counter))
           /\ Sanitized(p, r, support, counter).verdict \in {"pass", "revise"} =>
                 /\ Sanitized(p, r, support, counter).support = {Cite(p, 1), Cite(p, 2)}
                 /\ Cardinality(Sanitized(p, r, support, counter).support) = 2
                 /\ \A i \in Items : source[i] = "original"
<1> DEFINE kept == support \cap Trusted(p)
           s    == Sanitized(p, r, support, counter)
<1>1. /\ s.verdict = IF Cardinality(kept) >= 2 /\ (r.verdict = "revise" => r.revised)
                     THEN r.verdict ELSE "reject"
      /\ s.support = kept
      /\ s.absolute = r.absolute /\ s.counter \in BOOLEAN
    BY DEF Sanitized
<1>2. /\ r.verdict \in {"pass", "revise", "reject"} /\ r.revised \in BOOLEAN
      /\ r.risk \in Scores /\ r.uncertainty \in Scores /\ r.absolute \in BOOLEAN
    BY DEF ConstantsAssumption
<1>3. ReviewTyped(s)
    <2>1. r.risk \in Int /\ r.uncertainty \in Int
        BY <1>2, ScoreIs
    <2>2. Max({r.risk, 6500}) \in Int /\ Max({r.uncertainty, 8000}) \in Int
        BY <2>1, Max2
    <2> QED BY <1>1, <1>2, <2>1, <2>2 DEF Sanitized, ReviewTyped
<1>4. ASSUME Cardinality(kept) >= 2
      PROVE  /\ kept = {Cite(p, 1), Cite(p, 2)} /\ Cardinality(kept) = 2
             /\ \A i \in Items : source[i] = "original"
    <2>1. kept \in SUBSET {Cite(p, 1), Cite(p, 2)}
        BY DEF Trusted, Eligible, Items
    <2>2. kept = {Cite(p, 1), Cite(p, 2)} /\ Cite(p, 1) # Cite(p, 2) /\ Cardinality(kept) = 2
        <3> DEFINE a == Cite(p, 1)
                   b == Cite(p, 2)
        <3>1. kept \in SUBSET {a, b} BY <2>1
        <3> HIDE DEF kept, a, b
        <3>2. kept = {a, b} /\ a # b /\ Cardinality(kept) = 2 BY <1>4, <3>1, TwoOfTwo
        <3> QED BY <3>2 DEF a, b
    <2>3. Cite(p, 1) \in Trusted(p) /\ Cite(p, 2) \in Trusted(p)
        BY <2>2
    <2>4. source[1] = "original" /\ source[2] = "original"
        BY <2>2, <2>3 DEF Trusted, Eligible, Items
    <2> QED BY <2>2, <2>4 DEF Items
<1>5. ASSUME s.verdict \in {"pass", "revise"}
      PROVE  Cardinality(kept) >= 2
    BY <1>1, <1>5
<1> QED BY <1>1, <1>3, <1>4, <1>5

(* The confidence of a wonder is a number, whatever it was scored by.      *)
LEMMA ConfidenceType ==
    ASSUME NEW d \in DraftType, NEW r, ReviewTyped(r)
    PROVE  Confidence(d, r) \in Int
<1>1. Coherence(d) \in Int /\ Potential(d) \in Int /\ r.uncertainty \in Int
    BY CoherenceType DEF ReviewTyped
<1> QED BY <1>1 DEF Confidence

(* Evidence that is merged never makes a wonder more trusted, and caps its *)
(* confidence when the critic does not pass it.                            *)
LEMMA MergedMeans ==
    ASSUME NEW w \in WonderType, NEW passed \in BOOLEAN, NEW evidence,
           evidence.support \in BOOLEAN, evidence.counter \in BOOLEAN, evidence.uncertainty \in Int
    PROVE  /\ Merged(w, evidence, passed) \in WonderType
           /\ Merged(w, evidence, passed).confidence <= w.confidence
           /\ ~passed => Merged(w, evidence, passed).confidence <= 3500
           /\ Merged(w, evidence, passed).basis = w.basis
<1> DEFINE k == w.confidence
           u == 10000 - evidence.uncertainty \div 2
           l == IF passed THEN 10000 ELSE 3500
           c == Min({k, u, l})
<1>1. k \in Int
    BY DEF WonderType
<1>2. u \in Int /\ l \in Int /\ (~passed => l = 3500)
    OBVIOUS
<1>3. /\ Merged(w, evidence, passed) =
            [w EXCEPT !.support = evidence.support, !.counter = evidence.counter, !.confidence = c]
    BY DEF Merged
<1>4. k = w.confidence
    OBVIOUS
<1> HIDE DEF k, u, l
<1>5. c \in Int /\ c <= k /\ c <= l
    <2>1. k \in Int /\ u \in Int /\ l \in Int
        BY <1>1, <1>2
    <2> QED BY <2>1, Min3, Zenon
<1> HIDE DEF c
<1>6. Merged(w, evidence, passed) \in WonderType
    BY <1>3, <1>5 DEF WonderType
<1>7. /\ Merged(w, evidence, passed).confidence = c
      /\ Merged(w, evidence, passed).basis = w.basis
    BY <1>3 DEF WonderType
<1> QED BY <1>2, <1>4, <1>5, <1>6, <1>7

-----------------------------------------------------------------------------
(* The inductive invariant.                                                *)

Late == stage \in {"surfaced", "deleted"}
Busy(a) == hand[a].pc \notin {"idle", "done"}

Types ==
    /\ stage \in {"start", "drawn", "scored", "reviewed", "revised", "dropped", "surfaced", "deleted"}
    /\ reviewer \in BOOLEAN /\ budget \in Budgets
    /\ draft \in DraftType
    /\ source \in [Items -> {"original", "derived", "gone"}]
    /\ decision \in {"none", "reject", "surface", "deep", "keep"}
    /\ ReviewTyped(review) /\ shown \in BOOLEAN /\ wonder \in WonderType
    /\ knowledge \in {"none", "active", "rejected"}
    /\ explored \in {"none", "passed", "doubted"}
    /\ hand \in [Actors -> HandType] /\ raced \in BOOLEAN

(* What has not happened yet.                                              *)
Order ==
    /\ stage \in {"start", "drawn", "scored"} => review = NoReview
    /\ ~reviewer => review = NoReview
    /\ ~Late => /\ knowledge = "none" /\ explored = "none" /\ ~raced
                /\ \A a \in Actors : ~Busy(a)

(* A review that is no rejection cites both items, which were original.    *)
Backed ==
    review.verdict \in {"pass", "revise"} =>
        /\ review.support = {Cite(draft.pair, 1), Cite(draft.pair, 2)}
        /\ Cardinality(review.support) = 2
        /\ \A i \in Items : source[i] # "derived"

(* The decision is that of the present text.                               *)
Decided ==
    stage \in {"scored", "reviewed", "revised", "surfaced", "deleted"} => decision = Decide(draft)

(* The conditions to surface go on to hold.                                *)
Earned ==
    Late => /\ Surfaces(draft, decision, review)
            /\ shown /\ review.verdict # "pass" => draft.text.absolute

(* The row and every copy of it come from the wonder that surfaced.        *)
Fair(w) == w.basis = Basis(decision, review) /\ w.confidence <= Confidence(draft, review)
Rows == Late => Fair(wonder) /\ \A a \in Actors : Busy(a) => Fair(hand[a].row)

(* Before the first exploration nobody has changed what the gate looks at. *)
Same(v, w) ==
    /\ v.support = w.support /\ v.counter = w.counter /\ v.asks = w.asks
    /\ v.confidence = w.confidence /\ v.basis = w.basis
Kept == explored = "none" => \A a \in Actors : Busy(a) => Same(hand[a].row, wonder)

Stored == At("gate", "stored") => knowledge # "none" /\ QualityHolds(hand["gate"].row)

(* A doubt goes with a low confidence while no copy was written over it.   *)
Doubted == ~raced /\ explored = "doubted" => wonder.confidence <= 3500

Unquestioned == knowledge = "active" /\ explored = "none" => QualityHolds(wonder)

(* Why knowledge may have been withdrawn, or be about to be.               *)
Excused == explored # "none" \/ ~LineageHolds \/ stage = "deleted"
Withdrawn ==
    /\ knowledge = "rejected" => Excused
    /\ At("audit", "read") =>
          /\ knowledge # "none"
          /\ hand["audit"].item # "active" => Excused
          /\ knowledge = "rejected" => hand["audit"].item # "active"
          /\ ~hand["audit"].there => stage = "deleted"
          /\ ~hand["audit"].lineage => ~LineageHolds

Inv ==
    /\ Types /\ Order /\ Backed /\ Decided /\ Earned
    /\ Rows /\ Kept /\ Stored /\ Doubted /\ Unquestioned /\ Withdrawn
-----------------------------------------------------------------------------
(* Until the wonder surfaces nobody holds a copy.                          *)

LEMMA InitInv ==
    ASSUME Init, ConstantsAssumption
    PROVE  Inv
<1> USE DEF Init
<1>1. draft \in DraftType
    BY DEF ConstantsAssumption, DraftType
<1>2. ReviewTyped(review) /\ NoWonder \in WonderType /\ wonder \in WonderType
    BY DEF ReviewTyped, NoReview, WonderType, NoWonder
<1>3. Idle \in HandType
    BY <1>2 DEF Idle, HandType
<1>4. hand \in [Actors -> HandType]
    BY <1>3
<1>5. Types
    BY <1>1, <1>2, <1>4 DEF Types
<1>6. \A a \in Actors : hand[a].pc = "idle"
    BY DEF Idle
<1>7. "gate" \in Actors /\ "audit" \in Actors
    BY DEF Actors
<1>8. stage = "start" /\ review = NoReview /\ review.verdict = "none"
    BY DEF NoReview
<1>9. Order /\ Backed /\ Decided /\ Earned /\ Rows
    BY <1>6, <1>8 DEF Order, Backed, Decided, Earned, Rows, Late, Busy
<1>10. Kept /\ Doubted /\ Unquestioned
    BY <1>6 DEF Kept, Doubted, Unquestioned, Busy
<1>11. Stored /\ Withdrawn
    BY <1>6, <1>7 DEF Stored, Withdrawn, At
<1> QED BY <1>5, <1>9, <1>10, <1>11 DEF Inv

(* What is said of copies, of knowledge and of explorations holds of none. *)
LEMMA EarlyInv ==
    ASSUME Inv, ~Late, ~Late', UNCHANGED <<knowledge, explored, hand, raced>>
    PROVE  Rows' /\ Kept' /\ Stored' /\ Doubted' /\ Unquestioned' /\ Withdrawn' /\ Earned'
<1>1. /\ knowledge = "none" /\ explored = "none"
      /\ \A a \in Actors : ~Busy(a)
    BY DEF Inv, Order
<1>2. "gate" \in Actors /\ "audit" \in Actors
    BY DEF Actors
<1>3. ~At("gate", "stored") /\ ~At("audit", "read")
    BY <1>1, <1>2 DEF Busy, At
<1>4. \A a \in Actors : ~Busy(a)'
    BY <1>1 DEF Busy
<1>5. Rows' /\ Earned'
    BY DEF Rows, Earned
<1>6. Kept'
    BY <1>4 DEF Kept
<1>7. Stored' /\ Withdrawn'
    BY <1>1, <1>3 DEF Stored, Withdrawn, At
<1> QED BY <1>1, <1>5, <1>6, <1>7 DEF Doubted, Unquestioned

LEMMA EarlyOrder ==
    ASSUME Inv, ~Late, ~Late', UNCHANGED <<knowledge, explored, hand, raced, reviewer>>,
           stage' \in {"start", "drawn", "scored"} => review' = NoReview,
           ~reviewer => review' = NoReview
    PROVE  Order'
<1>1. /\ knowledge = "none" /\ explored = "none" /\ ~raced
      /\ \A a \in Actors : ~Busy(a)
    BY DEF Inv, Order
<1>2. \A a \in Actors : ~Busy(a)'
    BY <1>1 DEF Busy
<1> QED BY <1>1, <1>2 DEF Order

LEMMA DrawInv ==
    ASSUME Inv, Draw, ConstantsAssumption
    PROVE  Inv'
<1>1. /\ stage = "start" /\ stage' \in {"dropped", "drawn"}
      /\ UNCHANGED <<reviewer, budget, source, decision, review, shown, wonder, knowledge, explored,
                     hand, raced>>
    BY DEF Draw, setup, jobs
<1>2. draft' \in DraftType
    <2>1. PICK p \in Pairs, s \in Seeds : draft' = [draft EXCEPT !.pair = p, !.seed = s]
        BY DEF Draw
    <2>2. p \in PairType /\ s \in SeedType
        BY DEF ConstantsAssumption
    <2>3. draft \in DraftType
        BY DEF Inv, Types
    <2> QED BY <2>1, <2>2, <2>3 DEF DraftType
<1>3. Types'
    BY <1>1, <1>2 DEF Inv, Types
<1>4. review = NoReview /\ review.verdict = "none"
    BY <1>1 DEF Inv, Order, NoReview
<1>5. ~Late /\ ~Late'
    BY <1>1 DEF Late
<1>6. Order'
    BY <1>1, <1>4, <1>5, EarlyOrder
<1>7. Backed' /\ Decided'
    BY <1>1, <1>4 DEF Backed, Decided
<1> QED BY <1>1, <1>3, <1>5, <1>6, <1>7, EarlyInv DEF Inv

LEMMA ComposeInv ==
    ASSUME Inv, Compose, ConstantsAssumption
    PROVE  Inv'
<1>1. /\ stage = "drawn" /\ stage' = "scored" /\ decision' = Decide(draft')
      /\ UNCHANGED <<reviewer, budget, source, review, shown, wonder, knowledge, explored, hand, raced>>
    BY DEF Compose, setup, jobs
<1>2. draft' \in DraftType
    <2>1. PICK t \in Texts, verified \in BOOLEAN : draft' = [draft EXCEPT !.text = t, !.verified = verified]
        BY DEF Compose
    <2>2. t \in TextType
        BY DEF ConstantsAssumption
    <2>3. draft \in DraftType
        BY DEF Inv, Types
    <2> QED BY <2>1, <2>2, <2>3 DEF DraftType
<1>3. Types'
    BY <1>1, <1>2, DecideType DEF Inv, Types
<1>4. review = NoReview /\ review.verdict = "none"
    BY <1>1 DEF Inv, Order, NoReview
<1>5. ~Late /\ ~Late'
    BY <1>1 DEF Late
<1>6. Order'
    BY <1>1, <1>4, <1>5, EarlyOrder
<1>7. Backed' /\ Decided'
    BY <1>1, <1>4 DEF Backed, Decided
<1> QED BY <1>1, <1>3, <1>5, <1>6, <1>7, EarlyInv DEF Inv

LEMMA AskInv ==
    ASSUME Inv, Ask, ConstantsAssumption
    PROVE  Inv'
<1>1. /\ stage = "scored" /\ reviewer /\ stage' = "reviewed"
      /\ UNCHANGED <<reviewer, budget, draft, source, decision, shown, wonder, knowledge, explored,
                     hand, raced>>
    BY DEF Ask, setup, jobs
<1>2. ASSUME ReviewTyped(review'), Backed'
      PROVE  Inv'
    <2>1. Types' BY <1>1, <1>2 DEF Inv, Types
    <2>2. ~Late /\ ~Late' BY <1>1 DEF Late
    <2>3. Order' BY <1>1, <2>2, EarlyOrder
    <2>4. Decided' BY <1>1 DEF Inv, Decided
    <2> QED BY <1>1, <1>2, <2>1, <2>2, <2>3, <2>4, EarlyInv DEF Inv
<1>3. CASE review' = [NoReview EXCEPT !.verdict = "reject"]
    BY <1>2, <1>3 DEF ReviewTyped, NoReview, Backed
<1>4. ASSUME NEW r \in Reviews, NEW support \in SUBSET {Cite(draft.pair, i) : i \in Items},
             NEW counter \in SUBSET {Cite(draft.pair, i) : i \in Items},
             review' = Sanitized(draft.pair, r, support, counter)
      PROVE  Inv'
    <2>1. /\ ReviewTyped(review')
          /\ review'.verdict \in {"pass", "revise"} =>
                /\ review'.support = {Cite(draft.pair, 1), Cite(draft.pair, 2)}
                /\ Cardinality(review'.support) = 2
                /\ \A i \in Items : source[i] = "original"
        <3> DEFINE s == Sanitized(draft.pair, r, support, counter)
        <3>1. review' = s BY <1>4
        <3>2. /\ ReviewTyped(s)
              /\ s.verdict \in {"pass", "revise"} =>
                    /\ s.support = {Cite(draft.pair, 1), Cite(draft.pair, 2)}
                    /\ Cardinality(s.support) = 2
                    /\ \A i \in Items : source[i] = "original"
            BY SanitizedMeans
        <3> HIDE DEF s
        <3> QED BY <3>1, <3>2
    <2>2. Backed'
        BY <1>1, <2>1 DEF Backed
    <2> QED BY <1>2, <2>1, <2>2
<1> QED BY <1>3, <1>4 DEF Ask

(* Nothing is written but the stage.                                       *)
LEMMA StageInv ==
    ASSUME Inv, SkipReview \/ Drop
    PROVE  Inv'
<1>1. /\ stage \in {"scored", "reviewed", "revised"} /\ stage' \in {"reviewed", "dropped"}
      /\ stage' = "reviewed" => stage = "scored"
      /\ UNCHANGED <<reviewer, budget, draft, source, decision, review, shown, wonder, knowledge,
                     explored, hand, raced>>
    BY DEF SkipReview, Drop, setup, jobs
<1>2. ~Late /\ ~Late'
    BY <1>1 DEF Late
<1>3. Types' BY <1>1 DEF Inv, Types
<1>4. Order' BY <1>1, <1>2, EarlyOrder DEF Inv, Order
<1>5. Backed' /\ Decided' BY <1>1 DEF Inv, Backed, Decided
<1> QED BY <1>1, <1>2, <1>3, <1>4, <1>5, EarlyInv DEF Inv

LEMMA ReviseInv ==
    ASSUME Inv, Revise, ConstantsAssumption
    PROVE  Inv'
<1>1. /\ stage = "reviewed" /\ stage' = "revised" /\ decision' = Decide(draft')
      /\ UNCHANGED <<reviewer, budget, source, review, shown, wonder, knowledge, explored, hand, raced>>
    BY DEF Revise, setup, jobs
<1>2. draft' \in DraftType /\ draft'.pair = draft.pair
    <2>1. PICK t \in Texts : draft' = [draft EXCEPT !.text = [t EXCEPT !.questions = draft.text.questions]]
        BY DEF Revise
    <2>2. t \in TextType /\ draft \in DraftType
        BY DEF ConstantsAssumption, Inv, Types
    <2>3. draft.text.questions \in Nat
        BY <2>2 DEF DraftType, TextType
    <2>4. [t EXCEPT !.questions = draft.text.questions] \in TextType
        BY <2>2, <2>3 DEF TextType
    <2> QED BY <2>1, <2>2, <2>4 DEF DraftType
<1>3. Types'
    BY <1>1, <1>2, DecideType DEF Inv, Types
<1>4. ~Late /\ ~Late'
    BY <1>1 DEF Late
<1>5. Order' BY <1>1, <1>4, EarlyOrder DEF Inv, Order
<1>6. Backed' /\ Decided' BY <1>1, <1>2 DEF Inv, Backed, Decided
<1> QED BY <1>1, <1>3, <1>4, <1>5, <1>6, EarlyInv DEF Inv

(* The scores, the review and the decision stay; what the wonder is worth  *)
(* is looked at again.                                                     *)
LEMMA SurfaceInv ==
    ASSUME Inv, Surface
    PROVE  Inv'
<1>1. /\ stage \in {"reviewed", "revised"} /\ stage' = "surfaced"
      /\ Surfaces(draft, decision, review)
      /\ shown' \in Claims(draft, decision, review)
      /\ wonder' = [support |-> review.support # {}, counter |-> review.counter,
                    asks |-> draft.text.questions > 0,
                    confidence |-> Confidence(draft, review), basis |-> Basis(decision, review),
                    promoted |-> FALSE]
      /\ UNCHANGED <<reviewer, budget, draft, source, decision, review, knowledge, explored, hand, raced>>
    BY DEF Surface, setup, jobs
<1>2. Confidence(draft, review) \in Int
    BY ConfidenceType DEF Inv, Types
<1>3. wonder' \in WonderType
    <2>1. Basis(decision, review) \in {"runtime_revision", "runtime_review", "score_threshold"}
        BY DEF Basis
    <2>2. review.counter \in BOOLEAN
        BY DEF Inv, Types, ReviewTyped
    <2> QED BY <1>1, <1>2, <2>1, <2>2 DEF WonderType
<1>4. draft.text.absolute \in BOOLEAN /\ review.absolute \in BOOLEAN
    BY DEF Inv, Types, DraftType, TextType, ReviewTyped
<1>5. /\ shown' \in BOOLEAN
      /\ shown' /\ review.verdict # "pass" => draft.text.absolute
    <2>1. CASE review = NoReview \/ Repaired(review, decision)
        BY <1>1, <1>4, <2>1 DEF Claims
    <2>2. CASE ~(review = NoReview \/ Repaired(review, decision))
        <3>1. shown' \in BOOLEAN BY <1>1, <1>4, <2>2 DEF Claims
        <3>2. reviewer BY <2>2 DEF Inv, Order
        <3>3. review.verdict = "pass" BY <1>1, <2>2, <3>2 DEF Surfaces, Passed
        <3> QED BY <3>1, <3>3
    <2> QED BY <2>1, <2>2
<1>6. Types' BY <1>1, <1>3, <1>5 DEF Inv, Types
<1>7. ~Late /\ Late' BY <1>1 DEF Late
<1>8. knowledge = "none" /\ explored = "none" /\ \A a \in Actors : ~Busy(a)
    BY <1>7 DEF Inv, Order
<1>9. \A a \in Actors : ~Busy(a)'
    BY <1>1, <1>8 DEF Busy
<1>10. "gate" \in Actors /\ "audit" \in Actors
    BY DEF Actors
<1>11. ~At("gate", "stored")' /\ ~At("audit", "read")'
    BY <1>9, <1>10 DEF Busy, At
<1>12. Order' BY <1>1, <1>7 DEF Inv, Order
<1>13. Backed' /\ Decided' BY <1>1 DEF Inv, Backed, Decided
<1>14. Earned'
    BY <1>1, <1>5 DEF Earned, Surfaces, Passed, Repaired
<1>15. wonder'.basis = Basis(decision, review) /\ wonder'.confidence = Confidence(draft, review)
    BY <1>1
<1>16. Fair(wonder)'
    <2>1. Basis(decision', review') = Basis(decision, review)
          /\ Confidence(draft', review') = Confidence(draft, review)
        BY <1>1
    <2> QED BY <1>2, <1>15, <2>1 DEF Fair
<1>17. Rows' BY <1>9, <1>16 DEF Rows
<1>18. Kept' BY <1>9 DEF Kept
<1>19. Stored' /\ Withdrawn' BY <1>1, <1>8, <1>11 DEF Stored, Withdrawn
<1>20. Doubted' /\ Unquestioned' BY <1>1, <1>8 DEF Doubted, Unquestioned
<1> QED BY <1>6, <1>12, <1>13, <1>14, <1>17, <1>18, <1>19, <1>20 DEF Inv
-----------------------------------------------------------------------------
(* After it surfaced: copies are taken, judged and written back.           *)

(* What the judgement rests on is settled.                                 *)
Settled ==
    /\ Late /\ Late' /\ (stage = "deleted" => stage' = "deleted")
    /\ UNCHANGED <<reviewer, budget, draft, decision, review, shown>>
    /\ \A i \in Items : source'[i] \in {source[i], "gone"}

LEMMA SettledInv ==
    ASSUME Inv, Settled, Types', Rows', Kept', Stored', Doubted', Unquestioned', Withdrawn'
    PROVE  Inv'
<1>1. /\ Late /\ Late' /\ UNCHANGED <<reviewer, budget, draft, decision, review, shown>>
      /\ \A i \in Items : source'[i] \in {source[i], "gone"}
    BY DEF Settled
<1>2. Order' BY <1>1 DEF Inv, Order, Late
<1>3. Backed' BY <1>1 DEF Inv, Backed
<1>4. Decided' BY <1>1 DEF Inv, Decided, Late
<1>5. Earned' BY <1>1 DEF Inv, Earned, Surfaces, Passed, Repaired
<1> QED BY <1>2, <1>3, <1>4, <1>5 DEF Inv

(* What was fair stays fair, and what excuses a withdrawal goes on to.     *)
LEMMA FairStays ==
    ASSUME Settled, NEW w, Fair(w)
    PROVE  Fair(w)'
<1>1. UNCHANGED <<decision, review, draft>>
    BY DEF Settled
<1>2. Basis(decision', review') = Basis(decision, review)
      /\ Confidence(draft', review') = Confidence(draft, review)
    BY <1>1
<1> QED BY <1>2 DEF Fair

LEMMA ExcusedStays ==
    ASSUME Settled, Excused, explored # "none" => explored' # "none"
    PROVE  Excused'
<1>1. /\ Late' /\ (stage = "deleted" => stage' = "deleted")
      /\ \A i \in Items : source'[i] \in {source[i], "gone"}
    BY DEF Settled
<1>2. ~LineageHolds => ~LineageHolds'
    BY <1>1 DEF LineageHolds
<1> QED BY <1>1, <1>2 DEF Excused

(* The gate sees the same in rows that are the same.                       *)
LEMMA SameQuality ==
    ASSUME NEW v, NEW w, Same(v, w), QualityHolds(v)
    PROVE  QualityHolds(w)
BY DEF Same, QualityHolds, Reviewed

LEMMA QualityStays ==
    ASSUME UNCHANGED <<draft, review>>, NEW w, QualityHolds(w)
    PROVE  QualityHolds(w)'
BY DEF QualityHolds, Reviewed

(* Steps that leave the row of the wonder alone.                           *)
LEMMA CopiesInv ==
    ASSUME Inv, Settled, Types', UNCHANGED <<wonder, explored, raced>>,
           \A a \in Actors : Busy(a)' =>
               hand'[a].row = wonder \/ (Busy(a) /\ hand'[a].row = hand[a].row),
           Stored', Unquestioned', Withdrawn'
    PROVE  Inv'
<1>1. /\ Fair(wonder) /\ \A a \in Actors : Busy(a) => Fair(hand[a].row)
    BY DEF Inv, Rows, Settled
<1>2. \A w : Fair(w) => Fair(w)'
    BY FairStays
<1>3. Rows'
    <2>1. ASSUME NEW a \in Actors, Busy(a)'
          PROVE  Fair(hand'[a].row)
        BY <1>1, <2>1
    <2>2. UNCHANGED <<decision, review, draft>> BY DEF Settled
    <2>3. Basis(decision', review') = Basis(decision, review)
          /\ Confidence(draft', review') = Confidence(draft, review)
        BY <2>2
    <2> QED BY <1>1, <2>1, <2>3 DEF Rows, Fair
<1>4. Kept'
    <2>1. ASSUME explored = "none", NEW a \in Actors, Busy(a)'
          PROVE  Same(hand'[a].row, wonder)
        <3>1. CASE hand'[a].row = wonder BY <3>1 DEF Same
        <3>2. CASE Busy(a) /\ hand'[a].row = hand[a].row
            <4>1. Same(hand[a].row, wonder) BY <2>1, <3>2 DEF Inv, Kept
            <4> QED BY <3>2, <4>1
        <3> QED BY <2>1, <3>1, <3>2
    <2> QED BY <2>1 DEF Kept, Same
<1>5. Doubted' BY DEF Inv, Doubted
<1> QED BY <1>3, <1>4, <1>5, SettledInv

(* What the operators on copies do to them.                                *)
LEMMA TakeMeans ==
    ASSUME Types, NEW a \in Actors, NEW refs \in SUBSET STRING, NEW item \in {"none", "active", "rejected"},
           Take(a, refs, item)
    PROVE  /\ hand' \in [Actors -> HandType]
           /\ \A b \in Actors : b # a => hand'[b] = hand[b]
           /\ hand'[a].pc = "read" /\ hand'[a].row = wonder /\ hand'[a].item = item
           /\ hand'[a].there = (stage = "surfaced") /\ hand'[a].lineage = LineageHolds
<1> DEFINE h == [pc |-> "read", row |-> wonder, there |-> stage = "surfaced",
                 lineage |-> \A i \in Items : source[i] = "original", refs |-> refs, item |-> item]
<1>1. hand' = [hand EXCEPT ![a] = h]
    BY DEF Take
<1>2. h \in HandType
    BY DEF Types, HandType
<1>3. /\ h.pc = "read" /\ h.row = wonder /\ h.item = item
      /\ h.there = (stage = "surfaced") /\ h.lineage = LineageHolds
    BY DEF LineageHolds
<1> HIDE DEF h
<1>4. hand \in [Actors -> HandType]
    BY DEF Types
<1>5. hand' \in [Actors -> HandType] /\ hand'[a] = h /\ \A b \in Actors : b # a => hand'[b] = hand[b]
    BY <1>1, <1>2, <1>4
<1> QED BY <1>3, <1>5

LEMMA ReleaseMeans ==
    ASSUME Types, NEW a \in Actors, Release(a)
    PROVE  /\ hand' \in [Actors -> HandType]
           /\ \A b \in Actors : b # a => hand'[b] = hand[b]
           /\ hand'[a].pc \in {"idle", "done"} /\ ~Busy(a)'
<1>1. NoWonder \in WonderType
    BY DEF NoWonder, WonderType
<1>2. Idle \in HandType /\ Idle.pc = "idle"
    BY <1>1 DEF Idle, HandType
<1>3. [Idle EXCEPT !.pc = "done"] \in HandType /\ [Idle EXCEPT !.pc = "done"].pc = "done"
    BY <1>2 DEF HandType
<1>4. hand \in [Actors -> HandType]
    BY DEF Types
<1>5. PICK h \in HandType : h.pc \in {"idle", "done"} /\ hand' = [hand EXCEPT ![a] = h]
    BY <1>2, <1>3 DEF Release
<1>6. hand' \in [Actors -> HandType] /\ hand'[a] = h /\ \A b \in Actors : b # a => hand'[b] = hand[b]
    BY <1>4, <1>5
<1> QED BY <1>5, <1>6 DEF Busy

LEMMA GotoMeans ==
    ASSUME Types, NEW a \in Actors, NEW pc \in {"stored", "promoted", "refused"}, Goto(a, pc)
    PROVE  /\ hand' \in [Actors -> HandType]
           /\ \A b \in Actors : b # a => hand'[b] = hand[b]
           /\ hand'[a].pc = pc /\ hand'[a].row = hand[a].row
<1>1. hand' = [hand EXCEPT ![a].pc = pc]
    BY DEF Goto
<1>2. hand \in [Actors -> HandType]
    BY DEF Types
<1>3. hand[a] \in HandType
    BY <1>2
<1>4. hand'[a] = [hand[a] EXCEPT !.pc = pc] /\ \A b \in Actors : b # a => hand'[b] = hand[b]
    BY <1>1, <1>2
<1>5. [hand[a] EXCEPT !.pc = pc] \in HandType
      /\ [hand[a] EXCEPT !.pc = pc].pc = pc /\ [hand[a] EXCEPT !.pc = pc].row = hand[a].row
    BY <1>3 DEF HandType
<1>6. hand' \in [Actors -> HandType]
    BY <1>1, <1>2, <1>4, <1>5
<1> QED BY <1>4, <1>5, <1>6

LEMMA GateAndAudit == "gate" \in Actors /\ "audit" \in Actors
BY DEF Actors

(* Names of requests are no names of the gate and the audit.               *)
LEMMA NoRequest ==
    ASSUME ConstantsAssumption
    PROVE  "gate" \notin Requests /\ "audit" \notin Requests
BY DEF ConstantsAssumption

(* An exploration or the gate has read the wonder.                         *)
LEMMA LookInv ==
    ASSUME Inv, ConstantsAssumption, (\E x \in Requests : Explore(x)) \/ Inspect
    PROVE  Inv'
<1>1. /\ stage = "surfaced"
      /\ UNCHANGED <<stage, reviewer, budget, draft, source, decision, review, shown, wonder, knowledge,
                     explored, raced>>
    BY DEF Explore, Inspect, setup
<1>2. PICK a \in Actors, refs \in SUBSET STRING : a # "audit" /\ Take(a, refs, "none")
    <2>1. Citable \in SUBSET STRING
        BY DEF Citable, Inv, Types, DraftType, PairType, Items
    <2>2. CASE Inspect BY <2>2, GateAndAudit DEF Inspect
    <2>3. ASSUME NEW x \in Requests, Explore(x)
          PROVE  x \in Actors /\ x # "audit" /\ Take(x, Citable, "none")
        BY <2>3, NoRequest DEF Explore, Actors
    <2> QED BY <2>1, <2>2, <2>3
<1>3. /\ hand' \in [Actors -> HandType]
      /\ \A b \in Actors : b # a => hand'[b] = hand[b]
      /\ hand'[a].pc = "read" /\ hand'[a].row = wonder
    BY <1>2, TakeMeans DEF Inv
<1>4. Types' BY <1>1, <1>3 DEF Inv, Types
<1>5. Settled BY <1>1 DEF Settled, Late
<1>6. \A b \in Actors : Busy(b)' => hand'[b].row = wonder \/ (Busy(b) /\ hand'[b].row = hand[b].row)
    BY <1>3 DEF Busy
<1>7. Stored'
    <2>1. At("gate", "stored")' => a # "gate" BY <1>3 DEF At
    <2>2. At("gate", "stored")' => hand'["gate"] = hand["gate"] BY <1>3, <2>1, GateAndAudit
    <2> QED BY <1>1, <2>2 DEF Inv, Stored, At, QualityHolds, Reviewed
<1>8. Withdrawn'
    <2>1. hand'["audit"] = hand["audit"] BY <1>2, <1>3, GateAndAudit
    <2> QED BY <1>1, <2>1 DEF Inv, Withdrawn, At, Excused, LineageHolds
<1>9. Unquestioned' BY <1>1 DEF Inv, Unquestioned, QualityHolds, Reviewed
<1> QED BY <1>1, <1>4, <1>5, <1>6, <1>7, <1>8, <1>9, CopiesInv

LEMMA ReassessInv ==
    ASSUME Inv, Reassess
    PROVE  Inv'
<1>1. /\ knowledge # "none" /\ Take("audit", {}, knowledge)
      /\ UNCHANGED <<stage, reviewer, budget, draft, source, decision, review, shown, wonder, knowledge,
                     explored, raced>>
    BY DEF Reassess, setup
<1>2. Late BY <1>1 DEF Inv, Order
<1>3. knowledge \in {"active", "rejected"} BY <1>1 DEF Inv, Types
<1>4. /\ hand' \in [Actors -> HandType]
      /\ \A b \in Actors : b # "audit" => hand'[b] = hand[b]
      /\ hand'["audit"].pc = "read" /\ hand'["audit"].row = wonder /\ hand'["audit"].item = knowledge
      /\ hand'["audit"].there = (stage = "surfaced") /\ hand'["audit"].lineage = LineageHolds
    BY <1>1, <1>3, TakeMeans, GateAndAudit DEF Inv
<1>5. Types' BY <1>1, <1>4 DEF Inv, Types
<1>6. Settled BY <1>1, <1>2 DEF Settled, Late
<1>7. \A b \in Actors : Busy(b)' => hand'[b].row = wonder \/ (Busy(b) /\ hand'[b].row = hand[b].row)
    BY <1>4 DEF Busy
<1>8. Stored'
    <2>1. hand'["gate"] = hand["gate"] BY <1>4, GateAndAudit
    <2> QED BY <1>1, <2>1 DEF Inv, Stored, At, QualityHolds, Reviewed
<1>9. Unquestioned' BY <1>1 DEF Inv, Unquestioned, QualityHolds, Reviewed
<1>10. Withdrawn'
    <2>1. knowledge # "active" => Excused BY <1>3 DEF Inv, Withdrawn
    <2>2. stage # "surfaced" => stage = "deleted" BY <1>2 DEF Late
    <2> QED BY <1>1, <1>3, <1>4, <2>1, <2>2 DEF Withdrawn, At, Excused, LineageHolds
<1> QED BY <1>1, <1>5, <1>6, <1>7, <1>8, <1>9, <1>10, CopiesInv

(* The gate's verdict on its copy.                                         *)
LEMMA PromoteInv ==
    ASSUME Inv, Promote
    PROVE  Inv'
<1>1. /\ At("gate", "read")
      /\ UNCHANGED <<stage, reviewer, budget, draft, source, decision, review, shown, wonder, explored, raced>>
    BY DEF Promote, setup
<1>2. Busy("gate") BY <1>1 DEF At, Busy
<1>3. Late BY <1>2, GateAndAudit DEF Inv, Order
<1>4. /\ hand' \in [Actors -> HandType]
      /\ \A b \in Actors : b # "gate" => hand'[b] = hand[b]
      /\ ~Busy("gate")' \/ hand'["gate"].row = hand["gate"].row
      /\ \/ knowledge' = knowledge /\ hand'["gate"].pc # "stored"
         \/ knowledge' = "active" /\ knowledge = "none" /\ QualityHolds(hand["gate"].row)
    <2>1. CASE Release("gate") /\ UNCHANGED knowledge
        <3>1. /\ hand' \in [Actors -> HandType]
              /\ \A b \in Actors : b # "gate" => hand'[b] = hand[b]
              /\ hand'["gate"].pc \in {"idle", "done"} /\ ~Busy("gate")'
            BY <2>1, ReleaseMeans, GateAndAudit DEF Inv
        <3> QED BY <2>1, <3>1
    <2>2. CASE Goto("gate", "refused") /\ UNCHANGED knowledge
        <3>1. /\ hand' \in [Actors -> HandType]
              /\ \A b \in Actors : b # "gate" => hand'[b] = hand[b]
              /\ hand'["gate"].pc = "refused" /\ hand'["gate"].row = hand["gate"].row
            BY <2>2, GotoMeans, GateAndAudit DEF Inv
        <3> QED BY <2>2, <3>1
    <2>3. CASE /\ Accepts(hand["gate"].row, LineageHolds) /\ knowledge = "none" /\ knowledge' = "active"
               /\ Goto("gate", "stored")
        <3>1. /\ hand' \in [Actors -> HandType]
              /\ \A b \in Actors : b # "gate" => hand'[b] = hand[b]
              /\ hand'["gate"].row = hand["gate"].row
            BY <2>3, GotoMeans, GateAndAudit DEF Inv
        <3>2. QualityHolds(hand["gate"].row) BY <2>3 DEF Accepts
        <3> QED BY <2>3, <3>1, <3>2
    <2> QED BY <2>1, <2>2, <2>3 DEF Promote
<1>5. Types' BY <1>1, <1>4 DEF Inv, Types
<1>6. Settled BY <1>1, <1>3 DEF Settled, Late
<1>7. \A b \in Actors : Busy(b)' => hand'[b].row = wonder \/ (Busy(b) /\ hand'[b].row = hand[b].row)
    BY <1>2, <1>4 DEF Busy
<1>8. Stored'
    <2>1. ASSUME At("gate", "stored")'
          PROVE  /\ QualityHolds(hand["gate"].row) /\ hand'["gate"].row = hand["gate"].row
                 /\ knowledge' = "active"
        BY <1>4, <2>1 DEF At, Busy
    <2> QED BY <1>1, <2>1 DEF Stored, QualityHolds, Reviewed
<1>9. Unquestioned'
    <2>1. CASE knowledge' = knowledge
        BY <1>1, <2>1 DEF Inv, Unquestioned, QualityHolds, Reviewed
    <2>2. CASE explored = "none" /\ QualityHolds(hand["gate"].row)
        <3>1. Same(hand["gate"].row, wonder) BY <1>2, <2>2, GateAndAudit DEF Inv, Kept
        <3>2. QualityHolds(wonder) BY <2>2, <3>1, SameQuality
        <3> QED BY <1>1, <3>2 DEF Unquestioned, QualityHolds, Reviewed
    <2>3. CASE explored # "none" BY <1>1, <2>3 DEF Unquestioned
    <2> QED BY <1>4, <2>1, <2>2, <2>3
<1>10. Withdrawn'
    <2>1. hand'["audit"] = hand["audit"] BY <1>4, GateAndAudit
    <2>2. /\ knowledge' = "rejected" => knowledge = "rejected"
          /\ knowledge # "none" => knowledge' # "none"
        BY <1>4
    <2> QED BY <1>1, <2>1, <2>2 DEF Inv, Withdrawn, At, Excused, LineageHolds
<1> QED BY <1>1, <1>5, <1>6, <1>7, <1>8, <1>9, <1>10, CopiesInv

LEMMA RegisterInv ==
    ASSUME Inv, Register
    PROVE  Inv'
<1>1. /\ At("gate", "stored") /\ knowledge' = "active" /\ Goto("gate", "promoted")
      /\ UNCHANGED <<stage, reviewer, budget, draft, source, decision, review, shown, wonder, explored, raced>>
    BY DEF Register, setup
<1>2. Busy("gate") BY <1>1 DEF At, Busy
<1>3. Late BY <1>2, GateAndAudit DEF Inv, Order
<1>4. /\ hand' \in [Actors -> HandType]
      /\ \A b \in Actors : b # "gate" => hand'[b] = hand[b]
      /\ hand'["gate"].pc = "promoted" /\ hand'["gate"].row = hand["gate"].row
    BY <1>1, GotoMeans, GateAndAudit DEF Inv
<1>5. Types' BY <1>1, <1>4 DEF Inv, Types
<1>6. Settled BY <1>1, <1>3 DEF Settled, Late
<1>7. \A b \in Actors : Busy(b)' => hand'[b].row = wonder \/ (Busy(b) /\ hand'[b].row = hand[b].row)
    BY <1>2, <1>4 DEF Busy
<1>8. Stored' BY <1>4 DEF Stored, At
<1>9. Unquestioned'
    <2>1. ASSUME explored = "none" PROVE QualityHolds(wonder)
        <3>1. Same(hand["gate"].row, wonder) BY <1>2, <2>1, GateAndAudit DEF Inv, Kept
        <3>2. QualityHolds(hand["gate"].row) BY <1>1 DEF Inv, Stored
        <3> QED BY <3>1, <3>2, SameQuality
    <2> QED BY <1>1, <2>1 DEF Unquestioned, QualityHolds, Reviewed
<1>10. Withdrawn'
    <2>1. hand'["audit"] = hand["audit"] BY <1>4, GateAndAudit
    <2> QED BY <1>1, <2>1 DEF Inv, Withdrawn, At, Excused, LineageHolds
<1> QED BY <1>1, <1>5, <1>6, <1>7, <1>8, <1>9, <1>10, CopiesInv

(* What was active when it was read is rejected only for a reason.         *)
LEMMA AuditMeans ==
    ASSUME Inv, Audit
    PROVE  /\ knowledge' \in {"active", "rejected"}
           /\ knowledge' = "active" => QualityHolds(hand["audit"].row)
           /\ knowledge' = "rejected" => Excused
<1> DEFINE me == hand["audit"]
<1>1. /\ At("audit", "read")
      /\ knowledge' = IF me.there /\ me.item = "active" /\ Accepts(me.row, me.lineage)
                      THEN "active" ELSE "rejected"
    BY DEF Audit
<1>2. Busy("audit") BY <1>1 DEF At, Busy
<1>3. me.there \in BOOLEAN /\ me.lineage \in BOOLEAN
    BY GateAndAudit DEF Inv, Types, HandType
<1>4. me.there /\ me.item = "active" /\ me.lineage => Excused \/ QualityHolds(me.row)
      \/ (explored = "none" /\ knowledge # "active")
    <2>1. CASE explored = "none" /\ knowledge = "active"
        <3>1. QualityHolds(wonder) BY <2>1 DEF Inv, Unquestioned
        <3>2. Same(me.row, wonder) BY <1>2, <2>1, GateAndAudit DEF Inv, Kept
        <3>3. Same(wonder, me.row) BY <3>2 DEF Same
        <3> QED BY <3>1, <3>3, SameQuality
    <2> QED BY <2>1 DEF Excused
<1>5. ~me.there \/ me.item # "active" \/ ~me.lineage => Excused
    BY <1>1 DEF Inv, Withdrawn, Excused
<1>6. knowledge = "rejected" => Excused
    BY DEF Inv, Withdrawn
<1>7. knowledge \in {"active", "rejected"}
    BY <1>1 DEF Inv, Types, Withdrawn
<1> QED BY <1>1, <1>3, <1>4, <1>5, <1>6, <1>7 DEF Accepts

LEMMA AuditInv ==
    ASSUME Inv, Audit
    PROVE  Inv'
<1> DEFINE me == hand["audit"]
           h  == [Idle EXCEPT !.pc = "judged", !.row = me.row, !.there = me.there]
<1>1. /\ At("audit", "read") /\ hand' = [hand EXCEPT !["audit"] = h]
      /\ UNCHANGED <<stage, reviewer, budget, draft, source, decision, review, shown, wonder, explored, raced>>
    BY DEF Audit, setup
<1>2. Busy("audit") BY <1>1 DEF At, Busy
<1>3. Late BY <1>2, GateAndAudit DEF Inv, Order
<1>4. h \in HandType /\ h.pc = "judged" /\ h.row = me.row
    <2>1. me \in HandType BY GateAndAudit DEF Inv, Types
    <2>2. NoWonder \in WonderType BY DEF NoWonder, WonderType
    <2> QED BY <2>1, <2>2 DEF Idle, HandType
<1>5. hand \in [Actors -> HandType] BY DEF Inv, Types
<1> HIDE DEF h
<1>6. /\ hand' \in [Actors -> HandType] /\ hand'["audit"] = h
      /\ \A b \in Actors : b # "audit" => hand'[b] = hand[b]
    BY <1>1, <1>4, <1>5, GateAndAudit
<1>7. /\ knowledge' \in {"active", "rejected"}
      /\ knowledge' = "active" => QualityHolds(me.row)
      /\ knowledge' = "rejected" => Excused
    BY AuditMeans
<1>8. Types' BY <1>1, <1>6, <1>7 DEF Inv, Types
<1>9. Settled BY <1>1, <1>3 DEF Settled, Late
<1>10. \A b \in Actors : Busy(b)' => hand'[b].row = wonder \/ (Busy(b) /\ hand'[b].row = hand[b].row)
    BY <1>2, <1>4, <1>6 DEF Busy
<1>11. Stored'
    <2>1. hand'["gate"] = hand["gate"] BY <1>6, GateAndAudit
    <2> QED BY <1>1, <1>7, <2>1 DEF Inv, Stored, At, QualityHolds, Reviewed
<1>12. Unquestioned'
    <2>1. ASSUME explored = "none", knowledge' = "active" PROVE QualityHolds(wonder)
        <3>1. Same(me.row, wonder) BY <1>2, <2>1, GateAndAudit DEF Inv, Kept
        <3> QED BY <1>7, <2>1, <3>1, SameQuality
    <2> QED BY <1>1, <2>1 DEF Unquestioned, QualityHolds, Reviewed
<1>13. Withdrawn'
    <2>1. ~At("audit", "read")' BY <1>4, <1>6 DEF At
    <2> QED BY <1>1, <1>7, <2>1 DEF Withdrawn, Excused, LineageHolds
<1> QED BY <1>1, <1>8, <1>9, <1>10, <1>11, <1>12, <1>13, CopiesInv

LEMMA GiveUpInv ==
    ASSUME Inv, NEW a \in Actors, GiveUp(a)
    PROVE  Inv'
<1>1. /\ Busy(a) /\ Release(a)
      /\ UNCHANGED <<stage, reviewer, budget, draft, source, decision, review, shown, wonder, knowledge,
                     explored, raced>>
    BY DEF GiveUp, Busy, setup
<1>2. Late BY <1>1 DEF Inv, Order
<1>3. /\ hand' \in [Actors -> HandType]
      /\ \A b \in Actors : b # a => hand'[b] = hand[b]
      /\ hand'[a].pc \in {"idle", "done"} /\ ~Busy(a)'
    BY <1>1, ReleaseMeans DEF Inv
<1>4. Types' BY <1>1, <1>3 DEF Inv, Types
<1>5. Settled BY <1>1, <1>2 DEF Settled, Late
<1>6. \A b \in Actors : Busy(b)' => hand'[b].row = wonder \/ (Busy(b) /\ hand'[b].row = hand[b].row)
    BY <1>3 DEF Busy
<1>7. Stored'
    <2>1. At("gate", "stored")' => hand'["gate"] = hand["gate"] BY <1>3, GateAndAudit DEF At
    <2> QED BY <1>1, <2>1 DEF Inv, Stored, At, QualityHolds, Reviewed
<1>8. Unquestioned' BY <1>1 DEF Inv, Unquestioned, QualityHolds, Reviewed
<1>9. Withdrawn'
    <2>1. At("audit", "read")' => hand'["audit"] = hand["audit"] BY <1>3, GateAndAudit DEF At
    <2> QED BY <1>1, <2>1 DEF Inv, Withdrawn, At, Excused, LineageHolds
<1> QED BY <1>1, <1>4, <1>5, <1>6, <1>7, <1>8, <1>9, CopiesInv

(* The wonder or one of its sources is deleted.                            *)
LEMMA DeleteInv ==
    ASSUME Inv, DeleteWonder \/ \E i \in Items : Delete(i)
    PROVE  Inv'
<1>1. /\ Late /\ Late' /\ (stage = "deleted" => stage' = "deleted")
      /\ UNCHANGED <<reviewer, budget, draft, decision, review, shown, wonder, knowledge, explored, hand, raced>>
      /\ stage' \in {"surfaced", "deleted"}
    BY DEF DeleteWonder, Delete, setup, jobs, Late
<1>2. /\ source' \in [Items -> {"original", "derived", "gone"}]
      /\ \A i \in Items : source'[i] \in {source[i], "gone"}
    <2>1. CASE DeleteWonder BY <2>1 DEF DeleteWonder, Inv, Types
    <2>2. ASSUME NEW i \in Items, Delete(i)
          PROVE  /\ source' \in [Items -> {"original", "derived", "gone"}]
                 /\ \A j \in Items : source'[j] \in {source[j], "gone"}
        <3>1. source' = [source EXCEPT ![i] = "gone"] BY <2>2 DEF Delete
        <3> QED BY <3>1 DEF Inv, Types
    <2> QED BY <2>1, <2>2
<1>3. Types' BY <1>1, <1>2 DEF Inv, Types
<1>4. Settled BY <1>1, <1>2 DEF Settled
<1>5. \A b \in Actors : Busy(b)' => hand'[b].row = wonder \/ (Busy(b) /\ hand'[b].row = hand[b].row)
    BY <1>1 DEF Busy
<1>6. Stored' BY <1>1 DEF Inv, Stored, At, QualityHolds, Reviewed
<1>7. Unquestioned' BY <1>1 DEF Inv, Unquestioned, QualityHolds, Reviewed
<1>8. Withdrawn'
    <2>1. Excused => Excused' BY <1>1, <1>4, ExcusedStays
    <2>2. ~LineageHolds => ~LineageHolds' BY <1>2 DEF LineageHolds
    <2>3. stage = "deleted" => stage' = "deleted" BY <1>1
    <2> QED BY <1>1, <2>1, <2>2, <2>3 DEF Inv, Withdrawn, At
<1> QED BY <1>1, <1>3, <1>4, <1>5, <1>6, <1>7, <1>8, CopiesInv

(* Steps that write the row of the wonder and release its copy.            *)
LEMMA WrittenInv ==
    ASSUME Inv, Settled, stage' = stage, source' = source, knowledge' = knowledge,
           NEW a \in Actors, Release(a),
           wonder' \in WonderType, Fair(wonder'), raced' \in BOOLEAN,
           explored' \in {"none", "passed", "doubted"},
           explored # "none" => explored' # "none",
           explored' = "none" => Same(wonder', wonder),
           ~raced' /\ explored' = "doubted" => wonder'.confidence <= 3500
    PROVE  Inv'
<1>1. /\ hand' \in [Actors -> HandType]
      /\ \A b \in Actors : b # a => hand'[b] = hand[b]
      /\ ~Busy(a)'
    BY ReleaseMeans DEF Inv
<1>2. /\ UNCHANGED <<reviewer, budget, draft, decision, review, shown>>
      /\ Late
    BY DEF Settled
<1>3. Types' BY <1>1, <1>2 DEF Inv, Types
<1>4. \A b \in Actors : Busy(b)' => Busy(b) /\ hand'[b] = hand[b]
    BY <1>1 DEF Busy
<1>5. Rows'
    <2>1. \A b \in Actors : Busy(b)' => Fair(hand'[b].row)
        BY <1>2, <1>4 DEF Inv, Rows
    <2>2. Basis(decision', review') = Basis(decision, review)
          /\ Confidence(draft', review') = Confidence(draft, review)
        BY <1>2
    <2> QED BY <2>1, <2>2 DEF Rows, Fair
<1>6. Kept'
    <2>1. ASSUME explored' = "none", NEW b \in Actors, Busy(b)'
          PROVE  Same(hand'[b].row, wonder')
        <3>1. Same(hand[b].row, wonder) BY <1>4, <2>1 DEF Inv, Kept
        <3>2. Same(wonder', wonder) BY <2>1
        <3> QED BY <1>4, <2>1, <3>1, <3>2 DEF Same
    <2> QED BY <2>1 DEF Kept, Same
<1>7. Stored'
    <2>1. At("gate", "stored")' => At("gate", "stored") /\ hand'["gate"] = hand["gate"]
        BY <1>1, GateAndAudit DEF At, Busy
    <2> QED BY <1>2, <2>1 DEF Inv, Stored, QualityHolds, Reviewed
<1>8. Unquestioned'
    <2>1. ASSUME knowledge' = "active", explored' = "none"
          PROVE  QualityHolds(wonder')
        <3>1. QualityHolds(wonder) BY <2>1 DEF Inv, Unquestioned
        <3>2. Same(wonder, wonder') BY <2>1 DEF Same
        <3> QED BY <3>1, <3>2, SameQuality
    <2> QED BY <1>2, <2>1 DEF Unquestioned, QualityHolds, Reviewed
<1>9. Withdrawn'
    <2>1. Excused => Excused' BY ExcusedStays
    <2>2. At("audit", "read")' => At("audit", "read") /\ hand'["audit"] = hand["audit"]
        BY <1>1, GateAndAudit DEF At, Busy
    <2> QED BY <2>1, <2>2 DEF Inv, Withdrawn, LineageHolds
<1>10. Doubted' BY DEF Doubted
<1> QED BY <1>3, <1>5, <1>6, <1>7, <1>8, <1>9, <1>10, SettledInv

(* What an exploration merged is fair, and is doubted if its critic did    *)
(* not pass it.                                                            *)
LEMMA MergeMeans ==
    ASSUME Inv, NEW x \in Requests, Merge(x), ConstantsAssumption
    PROVE  \/ wonder' = wonder /\ raced' = raced /\ explored' = explored
           \/ \E row \in WonderType, passed \in BOOLEAN :
                 /\ wonder' = row /\ row.basis = hand[x].row.basis
                 /\ row.confidence <= hand[x].row.confidence
                 /\ ~passed => row.confidence <= 3500
                 /\ raced' = (raced \/ hand[x].row # wonder)
                 /\ explored' = IF passed /\ explored # "doubted" THEN "passed" ELSE "doubted"
<1>1. CASE stage # "surfaced"
    BY <1>1 DEF Merge, Write
<1>2. CASE stage = "surfaced"
    <2>1. PICK e \in Evaluations :
              /\ \E asks \in {hand[x].row.asks, e.asks},
                    evidence \in {NoEvidence, SanitizedEvidence(e, hand[x].refs)} :
                    Write(x, [Merged(hand[x].row, evidence, budget >= 3 /\ e.passed) EXCEPT !.asks = asks])
              /\ explored' = IF (budget >= 3 /\ e.passed) /\ explored # "doubted" THEN "passed" ELSE "doubted"
        BY <1>2 DEF Merge
    <2>2. PICK asks \in {hand[x].row.asks, e.asks},
               evidence \in {NoEvidence, SanitizedEvidence(e, hand[x].refs)} :
              Write(x, [Merged(hand[x].row, evidence, budget >= 3 /\ e.passed) EXCEPT !.asks = asks])
        BY <2>1
    <2>3. /\ e.asks \in BOOLEAN /\ e.support \in BOOLEAN /\ e.counter \in BOOLEAN
          /\ e.uncertainty \in Scores /\ e.passed \in BOOLEAN
        BY DEF ConstantsAssumption
    <2>4. hand[x].row \in WonderType
        BY DEF Inv, Types, HandType, Actors
    <2>5. asks \in BOOLEAN
        BY <2>2, <2>3, <2>4 DEF WonderType
    <2>6. /\ evidence.support \in BOOLEAN /\ evidence.counter \in BOOLEAN
          /\ evidence.uncertainty \in Int
        <3>1. e.uncertainty \in Int BY <2>3, ScoreIs
        <3>2. Max({e.uncertainty, 8000}) \in Int BY <3>1, Max2
        <3>3. CASE evidence = NoEvidence BY <3>3 DEF NoEvidence
        <3>4. CASE evidence = e BY <2>3, <3>1, <3>4
        <3>5. CASE evidence = [e EXCEPT !.refs = {}, !.support = FALSE, !.counter = FALSE,
                                        !.uncertainty = Max({e.uncertainty, 8000})]
            BY <3>2, <3>5 DEF ConstantsAssumption
        <3> QED BY <2>2, <3>3, <3>4, <3>5 DEF SanitizedEvidence
    <2> DEFINE passed == budget >= 3 /\ e.passed
    <2> DEFINE merged == Merged(hand[x].row, evidence, passed)
               row    == [merged EXCEPT !.asks = asks]
    <2>7. passed \in BOOLEAN
        BY <2>3
    <2>8. explored' = IF passed /\ explored # "doubted" THEN "passed" ELSE "doubted"
        BY <2>1
    <2>9. wonder' = row /\ raced' = (raced \/ hand[x].row # wonder)
        BY <1>2, <2>2 DEF Write
    <2> HIDE DEF passed
    <2>10. /\ merged \in WonderType /\ merged.confidence <= hand[x].row.confidence
           /\ ~passed => merged.confidence <= 3500
           /\ merged.basis = hand[x].row.basis
        <3>1. ASSUME NEW w \in WonderType
              PROVE  /\ Merged(w, evidence, passed) \in WonderType
                     /\ Merged(w, evidence, passed).confidence <= w.confidence
                     /\ ~passed => Merged(w, evidence, passed).confidence <= 3500
                     /\ Merged(w, evidence, passed).basis = w.basis
            BY <2>6, <2>7, MergedMeans
        <3> QED BY <2>4, <3>1
    <2> HIDE DEF merged
    <2>11. row \in WonderType /\ row.confidence = merged.confidence /\ row.basis = merged.basis
        BY <2>5, <2>10 DEF WonderType
    <2> HIDE DEF row
    <2> QED BY <2>7, <2>8, <2>9, <2>10, <2>11
<1> QED BY <1>1, <1>2

LEMMA MergeInv ==
    ASSUME Inv, NEW x \in Requests, Merge(x), ConstantsAssumption
    PROVE  Inv'
<1>1. /\ At(x, "read") /\ Release(x)
      /\ UNCHANGED <<stage, reviewer, budget, draft, source, decision, review, shown, knowledge>>
    BY DEF Merge, setup
<1>2. x \in Actors /\ Busy(x)
    BY <1>1 DEF Actors, At, Busy
<1>3. Late BY <1>2 DEF Inv, Order
<1>4. Settled BY <1>1, <1>3 DEF Settled, Late
<1>5. Fair(wonder) /\ Fair(hand[x].row)
    BY <1>2, <1>3 DEF Inv, Rows
<1>6. /\ wonder \in WonderType /\ hand[x].row \in WonderType /\ Confidence(draft, review) \in Int
      /\ raced \in BOOLEAN /\ explored \in {"none", "passed", "doubted"}
    BY <1>2, ConfidenceType DEF Inv, Types, HandType
<1>7. CASE wonder' = wonder /\ raced' = raced /\ explored' = explored
    <2>1. Same(wonder, wonder) BY DEF Same
    <2>2. ~raced /\ explored = "doubted" => wonder.confidence <= 3500 BY DEF Inv, Doubted
    <2>3. Fair(wonder') BY <1>5, <1>7
    <2> QED BY <1>1, <1>2, <1>4, <1>6, <1>7, <2>1, <2>2, <2>3, WrittenInv
<1>8. ASSUME NEW row \in WonderType, NEW passed \in BOOLEAN,
             wonder' = row, row.basis = hand[x].row.basis,
             row.confidence <= hand[x].row.confidence,
             ~passed => row.confidence <= 3500,
             raced' = (raced \/ hand[x].row # wonder),
             explored' = IF passed /\ explored # "doubted" THEN "passed" ELSE "doubted"
      PROVE  Inv'
    <2>1. row.confidence \in Int /\ hand[x].row.confidence \in Int
        BY <1>6 DEF WonderType
    <2>2. Fair(row)
        BY <1>5, <1>6, <1>8, <2>1 DEF Fair
    <2>3. explored' \in {"passed", "doubted"} BY <1>8
    <2>4. ASSUME ~raced', explored' = "doubted" PROVE row.confidence <= 3500
        <3>1. CASE ~passed BY <1>8, <3>1
        <3>2. CASE passed
            <4>1. explored = "doubted" BY <1>8, <2>4, <3>2
            <4>2. ~(raced \/ hand[x].row # wonder) BY <1>8, <2>4
            <4>3. ~raced /\ hand[x].row = wonder BY <4>2
            <4>4. wonder.confidence <= 3500 BY <4>1, <4>3 DEF Inv, Doubted
            <4> QED BY <1>8, <2>1, <4>3, <4>4
        <3> QED BY <3>1, <3>2
    <2>5. raced' \in BOOLEAN BY <1>6, <1>8
    <2>6. /\ wonder' \in WonderType /\ Fair(wonder') BY <1>8, <2>2
    <2>7. ~raced' /\ explored' = "doubted" => wonder'.confidence <= 3500 BY <1>8, <2>4
    <2> QED BY <1>1, <1>2, <1>4, <2>3, <2>5, <2>6, <2>7, WrittenInv
<1> QED BY <1>7, <1>8, MergeMeans

(* What gate and audit write back differs from their copy in one mark.     *)
LEMMA WriteBackMeans ==
    ASSUME Inv, NEW a \in {"gate", "audit"}, WriteBack(a)
    PROVE  \/ wonder' = wonder /\ raced' = raced
           \/ /\ wonder' \in WonderType /\ Same(wonder', hand[a].row)
              /\ raced' = (raced \/ hand[a].row # wonder)
<1>1. hand[a].row \in WonderType
    BY GateAndAudit DEF Inv, Types, HandType
<1> DEFINE row == [hand[a].row EXCEPT !.promoted = @ \/ At(a, "promoted")]
<1>2. row \in WonderType /\ Same(row, hand[a].row)
    BY <1>1 DEF WonderType, Same
<1>3. \/ wonder' = wonder /\ raced' = raced
      \/ wonder' = row /\ raced' = (raced \/ hand[a].row # wonder)
    BY DEF WriteBack, Write
<1> HIDE DEF row
<1> QED BY <1>2, <1>3

LEMMA WriteBackInv ==
    ASSUME Inv, NEW a \in {"gate", "audit"}, WriteBack(a)
    PROVE  Inv'
<1>1. /\ hand[a].pc \in {"refused", "promoted", "judged"} /\ Release(a)
      /\ UNCHANGED <<stage, reviewer, budget, draft, source, decision, review, shown, knowledge, explored>>
    BY DEF WriteBack, At, setup
<1>2. a \in Actors /\ Busy(a)
    BY <1>1, GateAndAudit DEF Busy
<1>3. Late BY <1>2 DEF Inv, Order
<1>4. Settled BY <1>1, <1>3 DEF Settled, Late
<1>5. Fair(wonder) /\ Fair(hand[a].row)
    BY <1>2, <1>3 DEF Inv, Rows
<1>6. wonder \in WonderType /\ raced \in BOOLEAN /\ explored \in {"none", "passed", "doubted"}
    BY DEF Inv, Types
<1>7. ~raced /\ explored = "doubted" => wonder.confidence <= 3500
    BY DEF Inv, Doubted
<1>8. CASE wonder' = wonder /\ raced' = raced
    <2>1. Same(wonder, wonder) BY DEF Same
    <2>2. Fair(wonder') BY <1>5, <1>8
    <2> QED BY <1>1, <1>2, <1>4, <1>6, <1>7, <1>8, <2>1, <2>2, WrittenInv
<1>9. CASE /\ wonder' \in WonderType /\ Same(wonder', hand[a].row)
           /\ raced' = (raced \/ hand[a].row # wonder)
    <2>1. wonder'.basis = hand[a].row.basis /\ wonder'.confidence = hand[a].row.confidence
        BY <1>9 DEF Same
    <2>2. Fair(wonder') BY <1>5, <2>1 DEF Fair
    <2>3. ASSUME explored' = "none" PROVE Same(wonder', wonder)
        <3>1. Same(hand[a].row, wonder) BY <1>1, <1>2, <2>3 DEF Inv, Kept
        <3> QED BY <1>9, <3>1 DEF Same
    <2>4. ASSUME ~raced', explored' = "doubted" PROVE wonder'.confidence <= 3500
        <3>1. ~raced /\ hand[a].row = wonder /\ explored = "doubted" BY <1>1, <1>9, <2>4
        <3> QED BY <1>7, <2>1, <3>1
    <2>5. raced' \in BOOLEAN BY <1>6, <1>9
    <2>6. /\ explored' \in {"none", "passed", "doubted"} /\ (explored # "none" => explored' # "none")
        BY <1>1, <1>6
    <2> QED BY <1>1, <1>2, <1>4, <1>9, <2>2, <2>3, <2>4, <2>5, <2>6, WrittenInv
<1> QED BY <1>8, <1>9, WriteBackMeans

LEMMA StutterInv ==
    ASSUME Inv, UNCHANGED vars
    PROVE  Inv'
<1>1. UNCHANGED <<stage, reviewer, budget, draft, source, decision, review, shown, wonder, knowledge,
                  explored, hand, raced>>
    BY DEF vars, setup, jobs
<1>2. Types' /\ Order' BY <1>1 DEF Inv, Types, Order, Late, Busy
<1>3. Backed' /\ Decided' /\ Doubted' BY <1>1 DEF Inv, Backed, Decided, Doubted
<1>4. Earned' BY <1>1 DEF Inv, Earned, Surfaces, Passed, Repaired, Late
<1>5. Unquestioned' /\ Stored' BY <1>1 DEF Inv, Unquestioned, Stored, At, QualityHolds, Reviewed
<1>6. Rows' BY <1>1 DEF Inv, Rows, Late, Busy, Fair, Basis, Repaired, Confidence
<1>7. Kept' BY <1>1 DEF Inv, Kept, Busy, Same
<1>8. Withdrawn' BY <1>1 DEF Inv, Withdrawn, At, Excused, LineageHolds
<1> QED BY <1>2, <1>3, <1>4, <1>5, <1>6, <1>7, <1>8 DEF Inv

(* Every reachable state has its types and the rest of the invariant.      *)
THEOREM Inductive == Spec => []Inv
<1>1. Init => Inv
    BY InitInv, ConstantsAssumption
<1>2. Inv /\ [Next]_vars => Inv'
    <2> SUFFICES ASSUME Inv, [Next]_vars PROVE Inv'
        OBVIOUS
    <2>1. CASE Draw BY <2>1, DrawInv, ConstantsAssumption
    <2>2. CASE Compose BY <2>2, ComposeInv, ConstantsAssumption
    <2>3. CASE Ask BY <2>3, AskInv, ConstantsAssumption
    <2>4. CASE SkipReview \/ Drop BY <2>4, StageInv
    <2>5. CASE Revise BY <2>5, ReviseInv, ConstantsAssumption
    <2>6. CASE Surface BY <2>6, SurfaceInv
    <2>7. CASE (\E x \in Requests : Explore(x)) \/ Inspect BY <2>7, LookInv, ConstantsAssumption
    <2>8. ASSUME NEW x \in Requests, Merge(x) PROVE Inv' BY <2>8, MergeInv, ConstantsAssumption
    <2>9. CASE DeleteWonder \/ \E i \in Items : Delete(i) BY <2>9, DeleteInv
    <2>10. ASSUME NEW a \in Actors, GiveUp(a) PROVE Inv' BY <2>10, GiveUpInv
    <2>11. CASE Promote BY <2>11, PromoteInv
    <2>12. CASE Register BY <2>12, RegisterInv
    <2>13. CASE Reassess BY <2>13, ReassessInv
    <2>14. CASE Audit BY <2>14, AuditInv
    <2>15. ASSUME NEW a \in {"gate", "audit"}, WriteBack(a) PROVE Inv' BY <2>15, WriteBackInv
    <2>16. CASE UNCHANGED vars BY <2>16, StutterInv
    <2> QED BY <2>1, <2>2, <2>3, <2>4, <2>5, <2>6, <2>7, <2>8, <2>9, <2>10, <2>11, <2>12, <2>13,
               <2>14, <2>15, <2>16 DEF Next
<1> QED BY <1>1, <1>2, PTL DEF Spec
-----------------------------------------------------------------------------
(* The properties.                                                         *)

(* A review that lets a wonder surface is no rejection and cites two items.*)
LEMMA PassedMeans ==
    ASSUME Inv, Late
    PROVE  /\ review.verdict # "reject"
           /\ reviewer => /\ review.verdict \in {"pass", "revise"}
                          /\ review.risk <= 4000 /\ review.uncertainty <= 6000
<1>1. Passed(review, decision)
    BY DEF Inv, Earned, Surfaces
<1>2. CASE ~reviewer
    BY <1>2 DEF Inv, Order, NoReview
<1>3. CASE review.verdict = "pass" /\ Modest(review, 4000)
    BY <1>3 DEF Modest
<1>4. CASE Repaired(review, decision)
    <2>1. review.verdict = "revise" /\ review.risk <= 3500 /\ review.uncertainty <= 6000
        BY <1>4 DEF Repaired, Repairable, Modest
    <2> QED BY <2>1 DEF Inv, Types, ReviewTyped
<1> QED BY <1>1, <1>2, <1>3, <1>4 DEF Passed

(* For any texts, reviews and evaluations, a wonder of a reviewed session  *)
(* rests on two different original sources that its review cites.          *)
THEOREM WondersGrounded == Spec => []Grounded
<1>1. Inv => Grounded
    <2> SUFFICES ASSUME Inv, stage = "surfaced", reviewer
                 PROVE  /\ review.support = {Cite(draft.pair, 1), Cite(draft.pair, 2)}
                        /\ Cardinality(review.support) = 2
                        /\ \A i \in Items : source[i] # "derived"
                        /\ review.risk <= 4000 /\ review.uncertainty <= 6000
        BY DEF Grounded
    <2> QED BY PassedMeans DEF Inv, Backed, Late
<1> QED BY <1>1, Inductive, PTL

(* No combination of scores, no agent and no verdict lets a candidate that *)
(* was scored absurd, already answered, repeated or absolute without       *)
(* questions surface, nor one that its review rejects; the explanation     *)
(* that a passed review puts in the place of the scored one is outside the *)
(* statement (engine.py:543-630).                                          *)
THEOREM GuardsAlwaysHold == Spec => []GuardsHold
<1>1. Inv => GuardsHold
    <2> SUFFICES ASSUME Inv, stage = "surfaced"
                 PROVE  /\ ~draft.seed.arbitrary /\ ~draft.seed.obvious
                        /\ draft.seed.direct /\ draft.seed.known => draft.seed.bridging
                        /\ draft.text.common = 2 => draft.text.lexical < 8500
                        /\ draft.seed.overlap < 8500
                        /\ review.verdict # "reject"
                        /\ Absolute(draft) => draft.text.questions >= 3
                        /\ shown /\ review.verdict # "pass" => draft.text.questions >= 3
        BY DEF GuardsHold
    <2>1. draft \in DraftType
        BY DEF Inv, Types
    <2>2. Redundancy(draft) < 8500 /\ Risk(draft) < 7500 /\ (Arbitrariness(draft) < 8000 \/ ~Framing(draft))
        BY DEF Inv, Earned, Surfaces, Late
    <2>3. /\ ~Obvious(draft) /\ ~Restated(draft) /\ draft.seed.overlap < 8500
          /\ draft.text.common = 2 => draft.text.lexical < 8500
        BY <2>1, <2>2, RedundancyMeans
    <2>4. ~Framing(draft)
        BY <2>1, <2>2, ArbitrarinessMeans
    <2>5. Absolute(draft) => draft.text.questions >= 3
        BY <2>1, <2>2, RiskMeans
    <2>6. review.verdict # "reject"
        BY PassedMeans DEF Late
    <2>7. shown /\ review.verdict # "pass" => Absolute(draft)
        BY DEF Inv, Earned, Late, Absolute
    <2> QED BY <2>3, <2>4, <2>5, <2>6, <2>7 DEF Obvious, Restated, Framing
<1> QED BY <1>1, Inductive, PTL

(* What the gate accepts has earned it.                                    *)
LEMMA AcceptedMeans ==
    ASSUME Inv, At("gate", "read"), QualityHolds(hand["gate"].row)
    PROVE  /\ reviewer /\ decision = "surface" /\ hand["gate"].row.basis # "runtime_review"
           /\ Strength(draft.pair) >= 4500
           /\ Absolute(draft) => draft.text.questions >= 7
           /\ ~raced /\ hand["gate"].row = wonder => explored # "doubted"
<1> DEFINE w == hand["gate"].row
<1>1. draft \in DraftType
    BY DEF Inv, Types
<1>2. /\ Total(draft) >= 6300 /\ w.confidence >= 5700
      /\ Redundancy(draft) <= 4500 /\ Arbitrariness(draft) <= 5500 /\ Risk(draft) <= 3500
      /\ review.verdict \in {"pass", "revise"}
    BY DEF QualityHolds, Reviewed
<1>3. reviewer
    BY <1>2 DEF Inv, Order, NoReview, Types
<1>4. Busy("gate") BY DEF At, Busy
<1>5. Late BY <1>4, GateAndAudit DEF Inv, Order
<1>6. decision = "surface"
    BY <1>1, <1>2, <1>5, HighScores DEF Inv, Decided, Late
<1>7. w.basis # "runtime_review"
    <2>1. w.basis = Basis(decision, review)
        BY <1>4, <1>5, GateAndAudit DEF Inv, Rows, Fair
    <2> QED BY <1>6, <2>1 DEF Basis
<1>8. Strength(draft.pair) >= 4500
    BY <1>1, <1>2, ArbitrarinessMeans
<1>9. Absolute(draft) => draft.text.questions >= 7
    BY <1>1, <1>2, RiskMeans
<1>10. ASSUME ~raced, w = wonder PROVE explored # "doubted"
    <2>1. wonder.confidence \in Int BY DEF Inv, Types, WonderType
    <2>2. wonder.confidence >= 5700 BY <1>2, <1>10
    <2> QED BY <1>10, <2>1, <2>2 DEF Inv, Doubted
<1> QED BY <1>3, <1>6, <1>7, <1>8, <1>9, <1>10

(* The gate is stricter than every way to the surface: what becomes        *)
(* knowledge has passed a review it did not need, at any scores, for any   *)
(* number of explorations that overlap with each other and with the gate.  *)
THEOREM KnowledgeIsEarned == Spec => KnowledgeEarned
<1>1. Inv /\ [Next]_vars =>
        (knowledge' = "active" /\ knowledge = "none" =>
            /\ reviewer /\ decision = "surface" /\ hand["gate"].row.basis # "runtime_review"
            /\ Strength(draft.pair) >= 4500
            /\ Absolute(draft) => draft.text.questions >= 7
            /\ ~raced /\ hand["gate"].row = wonder => explored # "doubted")
    <2> SUFFICES ASSUME Inv, [Next]_vars, knowledge' = "active", knowledge = "none"
                 PROVE  /\ reviewer /\ decision = "surface" /\ hand["gate"].row.basis # "runtime_review"
                        /\ Strength(draft.pair) >= 4500
                        /\ Absolute(draft) => draft.text.questions >= 7
                        /\ ~raced /\ hand["gate"].row = wonder => explored # "doubted"
        OBVIOUS
    <2>1. ~Register BY DEF Register, Inv, Stored
    <2>2. ~Audit BY DEF Audit, Inv, Withdrawn
    <2>3. Promote
        BY <2>1, <2>2 DEF Next, vars, Draw, Compose, Ask, SkipReview, Revise, Surface, Drop, Explore, Merge,
           DeleteWonder, Delete, GiveUp, Inspect, Reassess, WriteBack
    <2>4. At("gate", "read") /\ QualityHolds(hand["gate"].row)
        BY <2>3 DEF Promote, Accepts
    <2> QED BY <2>4, AcceptedMeans
<1> QED BY <1>1, Inductive, PTL DEF Spec, KnowledgeEarned

(* Knowledge is withdrawn only for a reason, and for good but for the item *)
(* the gate is still writing; a wonder is never trusted more than when it  *)
(* surfaced, nor more than before unless a stale copy is written over it.  *)
THEOREM KnowledgeIsStable == Spec => KnowledgeStable
<1>1. Inv /\ [Next]_vars =>
        /\ knowledge = "active" /\ knowledge' # "active" =>
              explored # "none" \/ ~LineageHolds \/ stage = "deleted"
        /\ knowledge = "rejected" => knowledge' = "rejected" \/ At("gate", "stored")
        /\ stage = "surfaced" =>
              /\ wonder'.confidence <= Confidence(draft, review)
              /\ ~raced' => wonder'.confidence <= wonder.confidence
    <2> SUFFICES ASSUME Inv, [Next]_vars
                 PROVE  /\ knowledge = "active" /\ knowledge' # "active" =>
                              explored # "none" \/ ~LineageHolds \/ stage = "deleted"
                        /\ knowledge = "rejected" => knowledge' = "rejected" \/ At("gate", "stored")
                        /\ stage = "surfaced" =>
                              /\ wonder'.confidence <= Confidence(draft, review)
                              /\ ~raced' => wonder'.confidence <= wonder.confidence
        OBVIOUS
    <2>1. wonder \in WonderType /\ wonder.confidence \in Int /\ raced \in BOOLEAN
        BY DEF Inv, Types, WonderType
    <2>2. stage = "surfaced" => wonder.confidence <= Confidence(draft, review)
        BY DEF Inv, Rows, Fair, Late
    <2>3. ASSUME NEW x \in Requests, Merge(x)
          PROVE  /\ knowledge' = knowledge
                 /\ stage = "surfaced" => /\ wonder'.confidence <= Confidence(draft, review)
                                          /\ ~raced' => wonder'.confidence <= wonder.confidence
        <3>1. knowledge' = knowledge BY <2>3 DEF Merge
        <3>2. CASE wonder' = wonder BY <2>1, <2>2, <3>1, <3>2
        <3>3. ASSUME NEW row \in WonderType, wonder' = row, row.confidence <= hand[x].row.confidence,
                     raced' = (raced \/ hand[x].row # wonder), stage = "surfaced"
              PROVE  /\ wonder'.confidence <= Confidence(draft, review)
                     /\ ~raced' => wonder'.confidence <= wonder.confidence
            <4>1. x \in Actors /\ Busy(x) BY <2>3 DEF Actors, Merge, At, Busy
            <4>2. hand[x].row.confidence <= Confidence(draft, review)
                BY <3>3, <4>1 DEF Inv, Rows, Fair, Late
            <4>3. row.confidence \in Int /\ hand[x].row.confidence \in Int /\ Confidence(draft, review) \in Int
                BY <4>1, ConfidenceType DEF Inv, Types, HandType, WonderType
            <4>4. ~raced' => hand[x].row = wonder BY <3>3, Zenon
            <4>5. wonder'.confidence = row.confidence BY <3>3
            <4>6. wonder'.confidence <= Confidence(draft, review) BY <3>3, <4>2, <4>3, <4>5
            <4>7. ~raced' => wonder'.confidence <= wonder.confidence BY <3>3, <4>4, <4>5
            <4> QED BY <4>6, <4>7
        <3> QED BY <2>3, <3>1, <3>2, <3>3, MergeMeans, ConstantsAssumption
    <2>4. ASSUME NEW a \in {"gate", "audit"}, WriteBack(a)
          PROVE  /\ knowledge' = knowledge
                 /\ stage = "surfaced" => /\ wonder'.confidence <= Confidence(draft, review)
                                          /\ ~raced' => wonder'.confidence <= wonder.confidence
        <3>1. knowledge' = knowledge BY <2>4 DEF WriteBack
        <3>2. CASE wonder' = wonder BY <2>1, <2>2, <3>1, <3>2
        <3>3. ASSUME Same(wonder', hand[a].row), raced' = (raced \/ hand[a].row # wonder), stage = "surfaced"
              PROVE  /\ wonder'.confidence <= Confidence(draft, review)
                     /\ ~raced' => wonder'.confidence <= wonder.confidence
            <4>1. a \in Actors /\ Busy(a) BY <2>4, GateAndAudit DEF WriteBack, At, Busy
            <4>2. hand[a].row.confidence <= Confidence(draft, review)
                BY <3>3, <4>1 DEF Inv, Rows, Fair, Late
            <4>3. wonder'.confidence = hand[a].row.confidence BY <3>3 DEF Same
            <4>4. ~raced' => hand[a].row = wonder BY <3>3, Zenon
            <4>5. wonder'.confidence <= Confidence(draft, review) BY <4>2, <4>3
            <4>6. ~raced' => wonder'.confidence <= wonder.confidence BY <2>1, <4>3, <4>4
            <4> QED BY <4>5, <4>6
        <3> QED BY <2>4, <3>1, <3>2, <3>3, WriteBackMeans
    <2>5. CASE Audit
        <3>1. wonder' = wonder BY <2>5 DEF Audit
        <3>2. knowledge' \in {"active", "rejected"} /\ (knowledge' = "rejected" => Excused)
            BY <2>5, AuditMeans
        <3>3. knowledge = "rejected" => knowledge' = "rejected"
            BY <2>5 DEF Audit, Inv, Withdrawn
        <3> QED BY <2>1, <2>2, <3>1, <3>2, <3>3 DEF Excused
    <2>6. CASE Promote \/ Register
        BY <2>1, <2>2, <2>6 DEF Promote, Register
    <2>7. ASSUME \/ Draw \/ Compose \/ Ask \/ SkipReview \/ Revise \/ Surface \/ Drop \/ UNCHANGED vars
                 \/ (\E x \in Requests : Explore(x)) \/ DeleteWonder \/ (\E i \in Items : Delete(i))
                 \/ (\E a \in Actors : GiveUp(a)) \/ Inspect \/ Reassess
          PROVE  knowledge' = knowledge /\ (stage = "surfaced" => wonder' = wonder)
        BY <2>7 DEF Draw, Compose, Ask, SkipReview, Revise, Surface, Drop, Explore, DeleteWonder, Delete, GiveUp,
           Inspect, Reassess, vars
    <2>8. CASE knowledge' = knowledge /\ (stage = "surfaced" => wonder' = wonder)
        BY <2>1, <2>2, <2>8
    <2> QED BY <2>3, <2>4, <2>5, <2>6, <2>7, <2>8 DEF Next
<1> QED BY <1>1, Inductive, PTL DEF Spec, KnowledgeStable
=============================================================================
