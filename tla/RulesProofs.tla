---------------------------- MODULE RulesProofs ----------------------------
(***************************************************************************)
(* Theorems about the game rules, for any inputs, rules, difficulties,     *)
(* boards and fineness of the draws: what is forced is obeyed, a           *)
(* difficulty is a percentage of losses, boards have the mines that they   *)
(* should and survive as often as the multipliers say, and every instant   *)
(* game but the Wheel returns less than its stake on average.              *)
(***************************************************************************)
EXTENDS RulesProperties, FiniteSums

---------------------------------------------------------------------------
(* Numbers *)

\* The lesser of two.
LEMMA MinIs ==
  ASSUME NEW a \in Int, NEW b \in Int
  PROVE  Min({a, b}) = IF a <= b THEN a ELSE b
<1>1. \E x \in {a, b} : \A y \in {a, b} : x <= y
  OBVIOUS
<1>2. Min({a, b}) \in {a, b} /\ \A y \in {a, b} : Min({a, b}) <= y
  BY <1>1 DEF Min
<1> QED BY <1>2

\* The greater of two.
LEMMA MaxIs ==
  ASSUME NEW a \in Int, NEW b \in Int
  PROVE  Max({a, b}) = IF a <= b THEN b ELSE a
<1>1. \E x \in {a, b} : \A y \in {a, b} : x >= y
  OBVIOUS
<1>2. Max({a, b}) \in {a, b} /\ \A y \in {a, b} : Max({a, b}) >= y
  BY <1>1 DEF Max
<1> QED BY <1>2

\* A clamped number is the number or the bound that it passes.
LEMMA ClampIs ==
  ASSUME NEW x \in Int, NEW low \in Int, NEW high \in Int, low <= high
  PROVE  Clamp(x, low, high) = IF x < low THEN low ELSE IF x > high THEN high ELSE x
<1> DEFINE m == Max({low, x})
<1>1. m = (IF low <= x THEN x ELSE low) /\ m \in Int
  BY MaxIs
<1>2. Min({high, m}) = IF high <= m THEN high ELSE m
  <2> HIDE DEF m
  <2> QED BY <1>1, MinIs
<1>3. Clamp(x, low, high) = Min({high, m})
  BY DEF Clamp
<1> HIDE DEF m
<1> QED BY <1>1, <1>2, <1>3

\* A quotient is at least what its product is at least.
LEMMA DivAtLeast ==
  ASSUME NEW a \in Int, NEW b \in Nat \ {0}, NEW k \in Int, b * k <= a
  PROVE  k <= a \div b
OBVIOUS

\* A quotient is below what its product is below.
LEMMA DivBelow ==
  ASSUME NEW a \in Int, NEW b \in Nat \ {0}, NEW k \in Int, a < b * k
  PROVE  a \div b < k
OBVIOUS

\* A fraction rounds to a natural number.
LEMMA RoundedType ==
  ASSUME NEW a \in Nat, NEW b \in Nat \ {0}
  PROVE  Rounded(a, b) \in Nat
<1>1. 2 * a + b \in Nat /\ 2 * b \in Nat \ {0}
  OBVIOUS
<1>2. (2 * a + b) \div (2 * b) \in Int /\ 0 <= (2 * a + b) \div (2 * b)
  BY <1>1, DivAtLeast
<1> QED BY <1>2 DEF Rounded

\* It rounds to k at least from half a unit below k.
LEMMA RoundedAtLeast ==
  ASSUME NEW a \in Int, NEW b \in Nat \ {0}, NEW k \in Int, 2 * (b * k) <= 2 * a + b
  PROVE  k <= Rounded(a, b)
BY DivAtLeast DEF Rounded

\* It rounds to less than k when it is more than half a unit below k.
LEMMA RoundedBelow ==
  ASSUME NEW a \in Int, NEW b \in Nat \ {0}, NEW k \in Int, 2 * a + b < 2 * (b * k)
  PROVE  Rounded(a, b) < k
BY DivBelow DEF Rounded

\* A draw picks one of n.
LEMMA PickInRange ==
  ASSUME NEW n \in Nat \ {0}, NEW g \in Nat \ {0}, NEW d \in 0..g - 1
  PROVE  PickOf(n, d, g) \in 0..n - 1
<1>1. d * n \in Nat /\ d * n < g * n
  OBVIOUS
<1>2. 0 <= (d * n) \div g /\ (d * n) \div g < n /\ (d * n) \div g \in Int
  BY <1>1, DivAtLeast, DivBelow
<1> QED BY <1>2 DEF PickOf

---------------------------------------------------------------------------
(* Positions in their order *)

\* Positions are finite in number.
LEMMA PositionsFinite ==
  ASSUME NEW n \in Nat, NEW P \in SUBSET (1..n)
  PROVE  IsFiniteSet(P) /\ Cardinality(P) \in Nat /\ Cardinality(P) <= n
<1>1. IsFiniteSet(1..n) /\ Cardinality(1..n) = n
  BY FS_Interval
<1> QED BY <1>1, FS_Subset, FS_CardinalityType

\* Some of a finite set are finite in number, and fewer unless they are all.
LEMMA SomeOf ==
  ASSUME NEW S, IsFiniteSet(S), NEW T \in SUBSET S
  PROVE  /\ IsFiniteSet(T) /\ Cardinality(T) \in Nat /\ Cardinality(S) \in Nat
         /\ Cardinality(T) <= Cardinality(S)
         /\ T # S => Cardinality(T) < Cardinality(S)
<1>1. IsFiniteSet(T) /\ Cardinality(T) <= Cardinality(S) /\ (Cardinality(S) = Cardinality(T) => S = T)
  BY FS_Subset
<1>2. Cardinality(T) \in Nat /\ Cardinality(S) \in Nat
  BY <1>1, FS_CardinalityType
<1> QED BY <1>1, <1>2

\* What is before i is finite, and one more when i is passed.
LEMMA BeforeIs ==
  ASSUME NEW n \in Nat, NEW P \in SUBSET (1..n), NEW i \in Nat
  PROVE  /\ Before(P, i) \in Nat
         /\ Before(P, 0) = 0 /\ Before(P, n + 1) = Cardinality(P)
         /\ Before(P, i + 1) = Before(P, i) + (IF i \in P THEN 1 ELSE 0)
<1> DEFINE B(k) == {j \in P : j < k}
<1>1. IsFiniteSet(P)
  BY PositionsFinite
<1>2. IsFiniteSet(B(i)) /\ Cardinality(B(i)) \in Nat
  <2>1. B(i) \in SUBSET P
    OBVIOUS
  <2> HIDE DEF B
  <2> QED BY <1>1, <2>1, SomeOf
<1>3. B(0) = {} /\ B(n + 1) = P
  <2>1. \A j \in P : j \in Nat /\ 0 < j /\ j < n + 1
    OBVIOUS
  <2>2. \A j \in P : j < n + 1 /\ ~(j < 0)
    BY <2>1
  <2> QED BY <2>2
<1>4. i \notin B(i)
  OBVIOUS
<1>5. B(i + 1) = IF i \in P THEN B(i) \cup {i} ELSE B(i)
  <2>1. \A j \in P : j \in Nat /\ (j < i + 1 <=> j < i \/ j = i)
    OBVIOUS
  <2> QED BY <2>1
<1>6. Cardinality(B(i) \cup {i}) = Cardinality(B(i)) + 1
  <2> HIDE DEF B
  <2> QED BY <1>2, <1>4, FS_AddElement
<1>7. Cardinality({}) = 0
  BY FS_EmptySet
<1>8. \A k : Before(P, k) = Cardinality(B(k))
  BY DEF Before
<1> HIDE DEF B
<1> QED BY <1>2, <1>3, <1>5, <1>6, <1>7, <1>8

\* There is a position with k others before it, for every k below their number.
LEMMA RankExists ==
  ASSUME NEW n \in Nat, NEW P \in SUBSET (1..n), NEW k \in Nat, k < Cardinality(P)
  PROVE  \E i \in P : Before(P, i) = k
<1> DEFINE T == {i \in Nat : Before(P, i) > k}
<1>1. n + 1 \in T
  BY BeforeIs
<1>2. T \in SUBSET Nat
  OBVIOUS
<1>3. PICK m \in T : \A j \in T : m <= j
  <2> HIDE DEF T
  <2> QED BY <1>1, <1>2, LeastNatural
<1>4. m # 0
  BY <1>3, BeforeIs
<1>5. m - 1 \in Nat /\ m - 1 \notin T
  BY <1>3, <1>4
<1>6. Before(P, m) = Before(P, m - 1) + (IF m - 1 \in P THEN 1 ELSE 0) /\ Before(P, m - 1) \in Nat
  <2>1. (m - 1) + 1 = m
    BY <1>5
  <2> QED BY <1>5, <2>1, BeforeIs
<1>7. Before(P, m) > k /\ ~(Before(P, m - 1) > k)
  BY <1>3, <1>5
<1> QED BY <1>5, <1>6, <1>7

\* Of two positions the later has more before it.
LEMMA BeforeGrows ==
  ASSUME NEW n \in Nat, NEW P \in SUBSET (1..n), NEW i \in P, NEW j \in P, i < j
  PROVE  Before(P, i) < Before(P, j)
<1> DEFINE B(k) == {x \in P : x < k}
<1>1. IsFiniteSet(P)
  BY PositionsFinite
<1>2. B(i) \in SUBSET B(j) /\ i \in B(j) /\ i \notin B(i) /\ B(j) \in SUBSET P
  <2>1. \A x \in P : x \in Nat
    OBVIOUS
  <2>2. ~(i < i) /\ \A x \in P : x < i => x < j
    BY <2>1
  <2> QED BY <2>2
<1>3. IsFiniteSet(B(j))
  <2> HIDE DEF B
  <2> QED BY <1>1, <1>2, SomeOf
<1>4. Cardinality(B(i)) < Cardinality(B(j))
  <2>1. B(i) # B(j)
    BY <1>2
  <2> HIDE DEF B
  <2> QED BY <1>2, <1>3, <2>1, SomeOf
<1> QED BY <1>4 DEF Before

\* As many positions as there are, or as asked, come first.
LEMMA FirstPositions ==
  ASSUME NEW n \in Nat, NEW P \in SUBSET (1..n), NEW k \in 0..Cardinality(P)
  PROVE  Cardinality({i \in P : Before(P, i) < k}) = k
<1> DEFINE F == {i \in P : Before(P, i) < k}
<1>1. \A i \in P : i \in Nat /\ Before(P, i) \in Nat
  BY BeforeIs
<1>2. IsFiniteSet(P) /\ Cardinality(P) \in Nat
  BY PositionsFinite
<1>3. CASE k = Cardinality(P)
  <2>1. \A i \in P : Before(P, i) < k
    <3> SUFFICES ASSUME NEW i \in P PROVE Before(P, i) < k
      OBVIOUS
    <3> DEFINE B == {j \in P : j < i}
    <3>1. B \in SUBSET P /\ B # P
      <4>1. i \notin B /\ i \in P
        BY <1>1
      <4> QED BY <4>1
    <3>2. Before(P, i) = Cardinality(B)
      BY DEF Before
    <3> HIDE DEF B
    <3> QED BY <1>2, <1>3, <3>1, <3>2, SomeOf
  <2>2. F = P
    BY <2>1
  <2> QED BY <1>3, <2>2
<1>4. CASE k < Cardinality(P)
  <2>1. PICK m \in P : Before(P, m) = k
    <3>1. k \in Nat
      BY <1>2
    <3> QED BY <1>4, <3>1, RankExists
  <2>2. \A i \in P : i < m <=> Before(P, i) < k
    <3> SUFFICES ASSUME NEW i \in P PROVE i < m <=> Before(P, i) < k
      OBVIOUS
    <3>1. i < m => Before(P, i) < Before(P, m)
      BY BeforeGrows
    <3>2. m < i => Before(P, m) < Before(P, i)
      BY BeforeGrows
    <3> QED BY <1>1, <2>1, <3>1, <3>2
  <2>3. F = {i \in P : i < m}
    BY <2>2
  <2> QED BY <2>1, <2>3 DEF Before
<1> QED BY <1>2, <1>3, <1>4

---------------------------------------------------------------------------
(* What the games without a table pay *)

Forcing == {"none", "win", "loss"}

\* A result that pays what a round is forced to.
Obeys(pays, forced) == (forced = "win" => pays >= 100) /\ (forced = "loss" => pays < 100)

\* An edge of two percent leaves a likely win worth its stake.
LEMMA FairMultiplierIs ==
  ASSUME NEW c \in Nat \ {0}, NEW of \in Nat
  PROVE  /\ FairMultiplier(c, of) \in Nat
         /\ HouseEdge <= 2 /\ 199 * c <= 196 * of => FairMultiplier(c, of) >= 100
<1> DEFINE a == (100 - HouseEdge) * of
<1>1. a \in Nat
  BY RulesAssumption
<1>2. Rounded(a, c) \in Nat
  <2> HIDE DEF a
  <2> QED BY <1>1, RoundedType
<1>3. ASSUME HouseEdge <= 2, 199 * c <= 196 * of PROVE 100 <= Rounded(a, c)
  <2>1. 98 * of <= a
    BY <1>3, RulesAssumption
  <2>2. 2 * (c * 100) <= 2 * a + c
    <3> HIDE DEF a
    <3> QED BY <1>1, <1>3, <2>1
  <2> HIDE DEF a
  <2> QED BY <1>1, <2>2, RoundedAtLeast
<1> QED BY <1>1, <1>2, <1>3 DEF FairMultiplier

\* A forced roll lands below t, or at from and above.
RollBelow(t, g, d) == Rounded(d * (10 * t - 10), 10 * g)
RollAbove(from, room, g, d) == Rounded((10 * from) * g + d * room, 10 * g)

\* A roll forced below a target is below it after rounding.
LEMMA RollsBelow ==
  ASSUME NEW t \in Nat, t >= 1, NEW g \in Nat \ {0}, NEW d \in 0..g - 1
  PROVE  RollBelow(t, g, d) \in Nat /\ RollBelow(t, g, d) < t
<1> DEFINE a == d * (10 * t - 10)
           b == 10 * g
<1>1. a \in Nat /\ b \in Nat \ {0}
  OBVIOUS
<1>2. d * (t - 1) <= g * (t - 1)
  OBVIOUS
<1>3. a = 10 * (d * (t - 1)) /\ g * (t - 1) = g * t - g
  OBVIOUS
<1>4. b * t = 10 * (g * t) /\ g * t \in Nat
  OBVIOUS
<1>5. 2 * a + b < 2 * (b * t)
  BY <1>2, <1>3, <1>4
<1> HIDE DEF a, b
<1>6. Rounded(a, b) \in Nat /\ Rounded(a, b) < t
  BY <1>1, <1>5, RoundedType, RoundedBelow
<1> QED BY <1>6 DEF a, b, RollBelow

\* A roll forced from a number on is at least that after rounding.
LEMMA RollsAbove ==
  ASSUME NEW from \in Nat, NEW room \in Nat, NEW g \in Nat \ {0}, NEW d \in 0..g - 1
  PROVE  RollAbove(from, room, g, d) \in Nat /\ from <= RollAbove(from, room, g, d)
<1> DEFINE a == (10 * from) * g + d * room
           b == 10 * g
<1>1. a \in Nat /\ b \in Nat \ {0}
  OBVIOUS
<1>2. d * room \in Nat /\ (10 * from) * g = b * from /\ b * from \in Nat
  OBVIOUS
<1>3. 2 * (b * from) <= 2 * a + b
  <2>1. b * from <= a
    BY <1>2
  <2> HIDE DEF a, b
  <2> QED BY <1>1, <1>2, <2>1
<1> HIDE DEF a, b
<1>4. Rounded(a, b) \in Nat /\ from <= Rounded(a, b)
  BY <1>1, <1>3, RoundedType, RoundedAtLeast
<1> QED BY <1>4 DEF a, b, RollAbove

\* What a bet on Dice may select.
DiceSelection(s) ==
  s.target \in Int /\ 2000 <= s.target /\ s.target <= 98000 /\ s.direction \in {"over", "under"}

\* Dice pays a natural number, and forced against a target in whole cents what it is to.
LEMMA DicePays ==
  ASSUME NEW s, DiceSelection(s),
         NEW forced \in Forcing, NEW g \in Nat \ {0}, NEW d \in 0..g - 1
  PROVE  /\ Dice(s, forced, d, g) \in Nat
         /\ HouseEdge <= 2 /\ s.target % 10 = 0 => Obeys(Dice(s, forced, d, g), forced)
<1> DEFINE fair == FairMultiplier(DiceChance(s), 100000)
           roll == Clamp(DiceRoll(s, forced, d, g), 0, 9999)
<1>1. DiceChance(s) \in Nat \ {0} /\ DiceChance(s) <= 98000
  BY DEF DiceChance, DiceSelection
<1>2. fair \in Nat /\ (HouseEdge <= 2 => fair >= 100)
  <2> DEFINE c == DiceChance(s)
  <2>1. c \in Nat \ {0} /\ 199 * c <= 196 * 100000 /\ 100000 \in Nat
    BY <1>1, SMT
  <2>2. \A of \in Nat : /\ FairMultiplier(c, of) \in Nat
                        /\ HouseEdge <= 2 /\ 199 * c <= 196 * of => FairMultiplier(c, of) >= 100
    <3> HIDE DEF c
    <3> QED BY <2>1, FairMultiplierIs, SMT
  <2> HIDE DEF c
  <2> QED BY <2>1, <2>2, SMT DEF c
<1>3. Dice(s, forced, d, g) = IF DiceWins(s, roll) THEN fair ELSE 0
  BY DEF Dice
<1>4. ASSUME s.target % 10 = 0, forced # "none"
      PROVE  DiceWins(s, roll) <=> forced = "win"
  <2>1. PICK t \in Int : s.target = 10 * t /\ 200 <= t /\ t <= 9800
    BY <1>4 DEF DiceSelection
  <2> DEFINE below == RollBelow(t, g, d)
             above(from) == RollAbove(from, 99990 - s.target, g, d)
             raw == DiceRoll(s, forced, d, g)
  <2>2. Max({s.target - 10, 0}) = 10 * t - 10
    <3>1. 10 * t - 10 \in Int /\ 0 \in Int /\ 10 * t - 10 > 0
      BY <2>1, SMT
    <3>2. Max({10 * t - 10, 0}) = 10 * t - 10
      BY <3>1, MaxIs
    <3> QED BY <2>1, <3>2
  <2>3. raw = IF forced = "win"
              THEN IF s.direction = "under" THEN below ELSE above(t + 1)
              ELSE IF s.direction = "under" THEN above(t) ELSE below
    <3>1. s.target + 10 = 10 * (t + 1)
      BY <2>1
    <3> QED BY <1>4, <2>1, <2>2, <3>1, SMT DEF DiceRoll, Forcing, RollBelow, RollAbove
  <2>4. below \in Nat /\ below < t
    BY <2>1, RollsBelow
  <2>5. above(t) \in Nat /\ t <= above(t) /\ above(t + 1) \in Nat /\ t + 1 <= above(t + 1)
    <3> DEFINE room == 99990 - s.target
    <3>1. room \in Nat /\ t \in Nat /\ t + 1 \in Nat
      BY <2>1, SMT DEF DiceSelection
    <3> HIDE DEF room
    <3>2. RollAbove(t, room, g, d) \in Nat /\ t <= RollAbove(t, room, g, d)
      BY <3>1, RollsAbove
    <3>3. RollAbove(t + 1, room, g, d) \in Nat /\ t + 1 <= RollAbove(t + 1, room, g, d)
      BY <3>1, RollsAbove
    <3> QED BY <3>1, <3>2, <3>3, SMT DEF room
  <2>6. raw \in Nat
    <3> HIDE DEF below, above, raw
    <3> QED BY <2>3, <2>4, <2>5
  <2>7. roll = IF raw > 9999 THEN 9999 ELSE raw
    <3>1. \A high \in Nat : Clamp(raw, 0, high) = IF raw < 0 THEN 0 ELSE IF raw > high THEN high ELSE raw
      <4> HIDE DEF raw
      <4> QED BY <2>6, ClampIs, SMT
    <3>2. Clamp(raw, 0, 9999) = IF raw < 0 THEN 0 ELSE IF raw > 9999 THEN 9999 ELSE raw
      <4> HIDE DEF raw
      <4> QED BY <3>1, SMT
    <3>3. ~(raw < 0)
      <4> HIDE DEF raw
      <4> QED BY <2>6, SMT
    <3>4. roll = Clamp(raw, 0, 9999)
      BY SMT
    <3> HIDE DEF raw, roll
    <3> QED BY <3>2, <3>3, <3>4, SMT
  <2>8. DiceWins(s, roll) <=> IF s.direction = "under" THEN 10 * roll < 10 * t ELSE 10 * roll > 10 * t
    BY <2>1 DEF DiceWins
  <2>9. /\ raw = below => roll < t
        /\ raw = above(t) => roll >= t
        /\ raw = above(t + 1) => roll > t
        /\ roll \in Nat
    <3>1. /\ raw < t => roll < t
          /\ t <= raw => roll >= t
          /\ t + 1 <= raw => roll > t
          /\ roll \in Nat
      <4> HIDE DEF raw, roll
      <4> QED BY <2>1, <2>6, <2>7, SMT
    <3> HIDE DEF below, above, raw, roll
    <3> QED BY <2>4, <2>5, <3>1, SMT
  <2>10. 10 * roll < 10 * t <=> roll < t
    <3> HIDE DEF roll
    <3> QED BY <2>1, <2>9, SMT
  <2>11. 10 * roll > 10 * t <=> roll > t
    <3> HIDE DEF roll
    <3> QED BY <2>1, <2>9, SMT
  <2>12. roll >= t => ~(roll < t)
    <3> HIDE DEF roll
    <3> QED BY <2>1, <2>9, SMT
  <2>13. roll < t => ~(roll > t)
    <3> HIDE DEF roll
    <3> QED BY <2>1, <2>9, SMT
  <2> DEFINE wins == DiceWins(s, roll)
  <2> HIDE DEF below, above, raw, roll, wins
  <2>14. CASE s.direction = "under"
    <3>1. wins <=> roll < t
      BY <2>8, <2>10, <2>14, SMT DEF wins
    <3> QED BY <1>4, <2>3, <2>9, <2>12, <2>14, <3>1, SMT DEF wins
  <2>15. CASE s.direction # "under"
    <3>1. wins <=> roll > t
      BY <2>8, <2>11, <2>15, SMT DEF wins
    <3> QED BY <1>4, <2>3, <2>9, <2>13, <2>15, <3>1, SMT DEF wins
  <2> QED BY <2>14, <2>15, SMT
<1> HIDE DEF fair, roll
<1> QED BY <1>2, <1>3, <1>4 DEF Obeys

\* So does the coin,
LEMMA CoinFlipPays ==
  ASSUME NEW s, NEW forced \in Forcing, NEW g, NEW d
  PROVE  /\ CoinFlip(s, forced, d, g) \in Nat
         /\ HouseEdge <= 2 => Obeys(CoinFlip(s, forced, d, g), forced)
<1>1. FairMultiplier(1, 2) \in Nat /\ (HouseEdge <= 2 => FairMultiplier(1, 2) >= 100)
  BY FairMultiplierIs
<1> QED BY <1>1 DEF CoinFlip, Obeys, Forcing

\* and Limbo.
LEMMA LimboPays ==
  ASSUME NEW s, s.target \in Int, NEW forced \in Forcing, NEW g \in Nat \ {0}, NEW d \in 0..g - 1
  PROVE  /\ Limbo(s, forced, d, g) \in Nat
         /\ s.target % 10 = 0 => Obeys(Limbo(s, forced, d, g), forced)
<1> DEFINE target == LimboTarget(s)
           crash == LimboCrash(target, forced, d, g)
<1>1. target \in Int /\ 1010 <= target /\ target <= 10 * MaxMultiplier
      /\ (s.target % 10 = 0 => \E t \in Int : target = 10 * t)
  <2>1. target = IF s.target < 1010 THEN 1010
                 ELSE IF s.target > 10 * MaxMultiplier THEN 10 * MaxMultiplier ELSE s.target
    <3> DEFINE high == 10 * MaxMultiplier
    <3>1. high \in Int /\ 1010 <= high /\ 1010 \in Int
      BY RulesAssumption
    <3>2. Clamp(s.target, 1010, high) = IF s.target < 1010 THEN 1010
                                        ELSE IF s.target > high THEN high ELSE s.target
      <4> HIDE DEF high
      <4> QED BY <3>1, ClampIs
    <3> QED BY <3>2 DEF LimboTarget
  <2>2. MaxMultiplier \in Nat /\ MaxMultiplier >= 101
    BY RulesAssumption
  <2>3. 1010 = 10 * 101 /\ (s.target % 10 = 0 => s.target = 10 * (s.target \div 10)) /\ s.target \div 10 \in Int
    OBVIOUS
  <2>4. 10 * MaxMultiplier >= 1010 /\ 10 * MaxMultiplier \in Int
    BY <2>2
  <2>5. ASSUME s.target % 10 = 0 PROVE \E t \in Int : target = 10 * t
    <3> HIDE DEF target
    <3>1. CASE target = 1010
      BY <3>1
    <3>2. CASE target = 10 * MaxMultiplier
      BY <2>2, <3>2
    <3>3. CASE target = s.target
      BY <2>3, <2>5, <3>3
    <3> QED BY <2>1, <3>1, <3>2, <3>3
  <2> HIDE DEF target
  <2> QED BY <2>1, <2>4, <2>5
<1>2. Rounded(target, 10) \in Nat /\ 100 <= Rounded(target, 10)
  <2> HIDE DEF target
  <2>1. target \in Nat /\ 10 \in Nat \ {0} /\ 2 * (10 * 100) <= 2 * target + 10
    BY <1>1
  <2> QED BY <2>1, RoundedType, RoundedAtLeast
<1>3. Limbo(s, forced, d, g) = IF 10 * crash >= target THEN Rounded(target, 10) ELSE 0
  BY DEF Limbo
<1>4. ASSUME s.target % 10 = 0, forced = "win" PROVE 10 * crash >= target
  <2>1. PICK t \in Int : target = 10 * t
    BY <1>1, <1>4
  <2>2. t \in Nat /\ 10 * MaxMultiplier - target \in Nat /\ d \in Nat
    <3> HIDE DEF target
    <3> QED BY <1>1, <2>1, RulesAssumption
  <2>3. crash = RollAbove(t, 10 * MaxMultiplier - target, g, d)
    <3> HIDE DEF target
    <3> QED BY <1>4, <2>1 DEF LimboCrash, RollAbove
  <2>4. crash \in Nat /\ t <= crash
    <3> HIDE DEF target, crash
    <3> QED BY <2>2, <2>3, RollsAbove
  <2> HIDE DEF target, crash
  <2> QED BY <2>1, <2>4
<1>5. ASSUME s.target % 10 = 0, forced = "loss" PROVE ~(10 * crash >= target)
  <2>1. PICK t \in Int : target = 10 * t
    BY <1>1, <1>5
  <2> DEFINE low == 1000 * g
             high == (target - 10) * g
             x == 1000 * g + d * (target - 1010)
             a == Clamp(x, low, high)
  <2>2. t \in Nat /\ t >= 101
    <3> HIDE DEF target
    <3> QED BY <1>1, <2>1
  <2>3. low \in Nat /\ high \in Nat /\ x \in Nat /\ low <= high
    <3> HIDE DEF target
    <3> QED BY <1>1
  <2>4. a \in Nat /\ a <= high
    <3> HIDE DEF low, high, x
    <3> QED BY <2>3, ClampIs
  <2>5. high = 10 * (g * t) - 10 * g /\ g * t \in Nat
    <3> HIDE DEF target
    <3> QED BY <2>1, <2>2
  <2>6. 2 * a + 10 * g < 2 * ((10 * g) * t)
    <3>1. (10 * g) * t = 10 * (g * t)
      BY <2>2
    <3> HIDE DEF a, high
    <3> QED BY <2>4, <2>5, <3>1
  <2>7. crash = Rounded(a, 10 * g)
    <3> HIDE DEF target
    <3> QED BY <1>5 DEF LimboCrash
  <2>8. 10 * g \in Nat \ {0}
    OBVIOUS
  <2>9. Rounded(a, 10 * g) \in Nat /\ Rounded(a, 10 * g) < t
    <3> HIDE DEF a
    <3> QED BY <2>2, <2>4, <2>6, <2>8, RoundedType, RoundedBelow
  <2> HIDE DEF target, crash, a
  <2> QED BY <2>1, <2>2, <2>7, <2>9
<1> HIDE DEF target, crash
<1> QED BY <1>2, <1>3, <1>4, <1>5 DEF Obeys

---------------------------------------------------------------------------
(* What the games with a table pay *)

\* A forced round picks an entry of the kind it is forced to, if there is one.
LEMMA PickFromIs ==
  ASSUME NEW n \in Nat, NEW table, DOMAIN table = 1..n, NEW least, NEW forced,
         NEW g \in Nat \ {0}, NEW d \in 0..g - 1,
         \E i \in 1..n : (table[i] >= least) = (forced = "win")
  PROVE  \E i \in 1..n : /\ (table[i] >= least) = (forced = "win")
                         /\ PickFrom(table, least, forced, d, g) = table[i]
<1> DEFINE pool == {i \in 1..n : (table[i] >= least) = (forced = "win")}
           k == PickOf(Cardinality(pool), d, g)
           i == CHOOSE j \in pool : Before(pool, j) = k
<1>1. pool \in SUBSET (1..n) /\ pool # {}
  OBVIOUS
<1>2. Cardinality(pool) \in Nat \ {0}
  <2> HIDE DEF pool
  <2>1. IsFiniteSet(pool) /\ Cardinality(pool) \in Nat
    BY <1>1, PositionsFinite
  <2> QED BY <1>1, <2>1, FS_EmptySet
<1>3. k \in Nat /\ k < Cardinality(pool)
  <2> HIDE DEF pool
  <2>1. PickOf(Cardinality(pool), d, g) \in 0..Cardinality(pool) - 1
    BY <1>2, PickInRange
  <2> QED BY <1>2, <2>1
<1>4. \E j \in pool : Before(pool, j) = k
  <2> HIDE DEF pool, k
  <2> QED BY <1>1, <1>3, RankExists
<1>5. i \in pool
  <2> HIDE DEF pool, k
  <2> QED BY <1>4, Zenon
<1>6. PickFrom(table, least, forced, d, g) = table[i]
  BY Zenon DEF PickFrom
<1>7. i \in 1..n /\ (table[i] >= least) = (forced = "win")
  <2> HIDE DEF i
  <2> QED BY <1>5
<1> HIDE DEF i
<1> QED BY <1>6, <1>7

\* The segments of a wheel: a winning one pays more than the stake, a losing one nothing.
LEMMA SegmentsAre ==
  ASSUME NEW risk \in Risks
  PROVE  /\ DOMAIN WheelSegments(risk) = 1..12 /\ Len(WheelSegments(risk)) = 12
         /\ \A i \in 1..12 : /\ WheelSegments(risk)[i] \in Nat
                             /\ WheelSegments(risk)[i] >= 101 \/ WheelSegments(risk)[i] = 0
         /\ \E i \in 1..12 : WheelSegments(risk)[i] >= 101
         /\ \E i \in 1..12 : ~(WheelSegments(risk)[i] >= 101)
<1>1. CASE risk = "low"
  <2> DEFINE t == <<0, 120, 150, 120, 0, 150, 120, 200, 0, 120, 150, 120>>
  <2>1. WheelSegments(risk) = t
    BY <1>1 DEF WheelSegments
  <2>2. DOMAIN t = 1..12 /\ Len(t) = 12 /\ t[1] = 0 /\ t[2] = 120
        /\ \A i \in 1..12 : t[i] \in Nat /\ (t[i] >= 101 \/ t[i] = 0)
    BY SMT
  <2> HIDE DEF t
  <2> QED BY <2>1, <2>2, SMT
<1>2. CASE risk = "medium"
  <2> DEFINE t == <<0, 150, 200, 0, 300, 150, 0, 200, 500, 0, 150, 300>>
  <2>1. WheelSegments(risk) = t
    BY <1>2 DEF WheelSegments
  <2>2. DOMAIN t = 1..12 /\ Len(t) = 12 /\ t[1] = 0 /\ t[2] = 150
        /\ \A i \in 1..12 : t[i] \in Nat /\ (t[i] >= 101 \/ t[i] = 0)
    BY SMT
  <2> HIDE DEF t
  <2> QED BY <2>1, <2>2, SMT
<1>3. CASE risk = "high"
  <2> DEFINE t == <<0, 0, 0, 0, 500, 0, 0, 1000, 0, 0, 0, 5000>>
  <2>1. WheelSegments(risk) = t
    BY <1>3 DEF WheelSegments
  <2>2. DOMAIN t = 1..12 /\ Len(t) = 12 /\ t[1] = 0 /\ t[5] = 500
        /\ \A i \in 1..12 : t[i] \in Nat /\ (t[i] >= 101 \/ t[i] = 0)
    BY SMT
  <2> HIDE DEF t
  <2> QED BY <2>1, <2>2, SMT
<1> QED BY <1>1, <1>2, <1>3 DEF Risks

\* The wheel pays a natural number, and what it is forced to.
LEMMA WheelPays ==
  ASSUME NEW s, s.risk \in Risks, NEW forced \in Forcing, NEW g \in Nat \ {0}, NEW d \in 0..g - 1
  PROVE  Wheel(s, forced, d, g) \in Nat /\ Obeys(Wheel(s, forced, d, g), forced)
<1> DEFINE t == WheelSegments(s.risk)
<1>1. /\ DOMAIN t = 1..12 /\ Len(t) = 12
      /\ \A i \in 1..12 : t[i] \in Nat /\ (t[i] >= 101 \/ t[i] = 0)
      /\ \E i \in 1..12 : t[i] >= 101
      /\ \E i \in 1..12 : ~(t[i] >= 101)
  BY SegmentsAre
<1>2. CASE forced = "none"
  <2>1. PickOf(12, d, g) \in 0..11
    <3>1. 12 \in Nat \ {0} /\ 12 - 1 = 11
      OBVIOUS
    <3> QED BY <3>1, PickInRange
  <2>2. PickOf(12, d, g) + 1 \in 1..12
    BY <2>1
  <2>3. Wheel(s, forced, d, g) = t[PickOf(Len(t), d, g) + 1]
    BY <1>2 DEF Wheel
  <2> HIDE DEF t
  <2> QED BY <1>1, <1>2, <2>2, <2>3 DEF Obeys
<1>3. CASE forced # "none"
  <2>1. Wheel(s, forced, d, g) = PickFrom(t, 101, forced, d, g)
    BY <1>3 DEF Wheel
  <2> HIDE DEF t
  <2>2. \E i \in 1..12 : (t[i] >= 101) = (forced = "win")
    BY <1>1, SMT
  <2>3. PICK i \in 1..12 : (t[i] >= 101) = (forced = "win") /\ PickFrom(t, 101, forced, d, g) = t[i]
    <3> DEFINE n == 12
               least == 101
    <3>1. n \in Nat /\ DOMAIN t = 1..n /\ \E i \in 1..n : (t[i] >= least) = (forced = "win")
      BY <1>1, <2>2
    <3> HIDE DEF n, least
    <3>2. \E i \in 1..n : (t[i] >= least) = (forced = "win") /\ PickFrom(t, least, forced, d, g) = t[i]
      BY <3>1, PickFromIs
    <3> QED BY <3>2 DEF n, least
  <2>4. t[i] \in Nat /\ (t[i] >= 101 \/ t[i] = 0)
    BY <1>1
  <2> QED BY <1>3, <2>1, <2>3, <2>4, SMT DEF Obeys, Forcing
<1> QED BY <1>2, <1>3

\* The highest multiplier cuts no win below the stake.
LEMMA CutPays ==
  ASSUME NEW m \in Nat
  PROVE  Min({m, MaxMultiplier}) \in Nat /\ (Min({m, MaxMultiplier}) >= 100 <=> m >= 100)
<1>1. MaxMultiplier \in Nat /\ MaxMultiplier >= 101
  BY RulesAssumption
<1>2. Min({m, MaxMultiplier}) = IF m <= MaxMultiplier THEN m ELSE MaxMultiplier
  BY <1>1, MinIs
<1> QED BY <1>1, <1>2

\* Half a table of Plinko begins with a win and ends with a loss.
LEMMA HalvesAre ==
  ASSUME NEW risk \in Risks, NEW rows \in {8, 12, 16}
  PROVE  /\ PlinkoHalf(risk, rows) \in Seq(Nat) /\ 2 * Len(PlinkoHalf(risk, rows)) = rows + 2
         /\ PlinkoHalf(risk, rows)[1] >= 100
         /\ ~(PlinkoHalf(risk, rows)[Len(PlinkoHalf(risk, rows))] >= 100)
<1> DEFINE h == PlinkoHalf(risk, rows)
           Good == h \in Seq(Nat) /\ 2 * Len(h) = rows + 2 /\ h[1] >= 100 /\ ~(h[Len(h)] >= 100)
<1>1. ASSUME risk = "low", rows = 8 PROVE Good
  BY <1>1, SMT DEF PlinkoHalf
<1>2. ASSUME risk = "low", rows = 12 PROVE Good
  BY <1>2, SMT DEF PlinkoHalf
<1>3. ASSUME risk = "low", rows = 16 PROVE Good
  BY <1>3, SMT DEF PlinkoHalf
<1>4. ASSUME risk = "medium", rows = 8 PROVE Good
  BY <1>4, SMT DEF PlinkoHalf
<1>5. ASSUME risk = "medium", rows = 12 PROVE Good
  BY <1>5, SMT DEF PlinkoHalf
<1>6. ASSUME risk = "medium", rows = 16 PROVE Good
  BY <1>6, SMT DEF PlinkoHalf
<1>7. ASSUME risk = "high", rows = 8 PROVE Good
  BY <1>7, SMT DEF PlinkoHalf
<1>8. ASSUME risk = "high", rows = 12 PROVE Good
  BY <1>8, SMT DEF PlinkoHalf
<1>9. ASSUME risk = "high", rows = 16 PROVE Good
  BY <1>9, SMT DEF PlinkoHalf
<1> HIDE DEF Good
<1> QED BY <1>1, <1>2, <1>3, <1>4, <1>5, <1>6, <1>7, <1>8, <1>9, SMT DEF Risks, Good

\* So a whole table has both.
LEMMA BucketsAre ==
  ASSUME NEW s, s.risk \in Risks, s.rows \in {8, 12, 16}
  PROVE  /\ DOMAIN PlinkoBuckets(s) = 1..s.rows + 1
         /\ \A i \in 1..s.rows + 1 : PlinkoBuckets(s)[i] \in Nat
         /\ \E i \in 1..s.rows + 1 : PlinkoBuckets(s)[i] >= 100
         /\ \E i \in 1..s.rows + 1 : ~(PlinkoBuckets(s)[i] >= 100)
<1> DEFINE half == PlinkoHalf(s.risk, s.rows)
           n == Len(half)
           back == Reverse(half)
           b == half \o Tail(back)
<1>1. half \in Seq(Nat) /\ 2 * n = s.rows + 2 /\ half[1] >= 100 /\ ~(half[n] >= 100)
  BY HalvesAre
<1>2. n \in Nat /\ n >= 2
  <2> HIDE DEF half
  <2> QED BY <1>1
<1>3. back \in Seq(Nat) /\ Len(back) = n
  <2> HIDE DEF half
  <2>1. \A i \in 1..n : half[n - i + 1] \in Nat
    BY <1>1, <1>2
  <2>2. back = [i \in 1..n |-> half[n - i + 1]]
    BY DEF Reverse
  <2> HIDE DEF back
  <2> QED BY <1>2, <2>1, <2>2
<1>4. Tail(back) \in Seq(Nat) /\ Len(Tail(back)) = n - 1
  <2> HIDE DEF half, back
  <2> QED BY <1>2, <1>3
<1>5. b \in Seq(Nat) /\ Len(b) = n + (n - 1) /\ \A i \in 1..n : b[i] = half[i]
  <2> HIDE DEF half, back
  <2> QED BY <1>1, <1>2, <1>4
<1>6. PlinkoBuckets(s) = b
  BY DEF PlinkoBuckets
<1>7. DOMAIN b = 1..s.rows + 1 /\ 1 \in 1..s.rows + 1 /\ n \in 1..s.rows + 1
  <2>1. n + (n - 1) = s.rows + 1
    <3> HIDE DEF half
    <3> QED BY <1>1, <1>2
  <2>2. DOMAIN b = 1..Len(b)
    <3> HIDE DEF b
    <3> QED BY <1>5
  <2> HIDE DEF half, b
  <2> QED BY <1>2, <1>5, <2>1, <2>2
<1>8. b[1] >= 100 /\ ~(b[n] >= 100)
  <2>1. 1 \in 1..n /\ n \in 1..n
    <3> HIDE DEF half
    <3> QED BY <1>2
  <2>2. b[1] = half[1] /\ b[n] = half[n]
    <3> HIDE DEF half, b
    <3> QED BY <1>5, <2>1
  <2> HIDE DEF half, b
  <2> QED BY <1>1, <2>2
<1>9. \A i \in 1..s.rows + 1 : b[i] \in Nat
  <2> HIDE DEF half, b
  <2> QED BY <1>5, <1>7
<1> HIDE DEF half, b
<1> QED BY <1>6, <1>7, <1>8, <1>9

\* Plinko pays a natural number, and what it is forced to.
LEMMA PlinkoPays ==
  ASSUME NEW s, s.risk \in Risks, s.rows \in {8, 12, 16}, NEW forced \in Forcing,
         NEW g \in Nat \ {0}, NEW d, IF forced = "none" THEN d \in 0..s.rows ELSE d \in 0..g - 1
  PROVE  Plinko(s, forced, d, g) \in Nat /\ Obeys(Plinko(s, forced, d, g), forced)
<1> DEFINE t == PlinkoBuckets(s)
           n == s.rows + 1
<1>1. /\ n \in Nat /\ DOMAIN t = 1..n /\ \A i \in 1..n : t[i] \in Nat
      /\ \E i \in 1..n : t[i] >= 100
      /\ \E i \in 1..n : ~(t[i] >= 100)
  BY BucketsAre
<1>2. CASE forced = "none"
  <2>1. Plinko(s, forced, d, g) = Min({t[d + 1], MaxMultiplier})
    BY <1>2 DEF Plinko
  <2>2. d + 1 \in 1..n
    BY <1>2
  <2>3. t[d + 1] \in Nat
    <3> HIDE DEF t, n
    <3> QED BY <1>1, <2>2
  <2> HIDE DEF t
  <2> QED BY <1>2, <2>1, <2>3, CutPays DEF Obeys
<1>3. CASE forced # "none"
  <2> DEFINE m == PickFrom(t, 100, forced, d, g)
             least == 100
  <2>1. Plinko(s, forced, d, g) = Min({m, MaxMultiplier})
    BY <1>3 DEF Plinko
  <2>2. \E i \in 1..n : (t[i] >= least) = (forced = "win")
    <3>1. PICK i \in 1..n : IF forced = "win" THEN t[i] >= least ELSE ~(t[i] >= least)
      <4> HIDE DEF t, n
      <4> QED BY <1>1
    <3> HIDE DEF t, n, least
    <3> QED BY <3>1
  <2>3. d \in 0..g - 1
    BY <1>3
  <2>4. PICK i \in 1..n : (t[i] >= least) = (forced = "win") /\ PickFrom(t, least, forced, d, g) = t[i]
    <3>1. n \in Nat /\ DOMAIN t = 1..n
      <4> HIDE DEF t, n
      <4> QED BY <1>1
    <3> HIDE DEF t, n, least
    <3> QED BY <2>2, <2>3, <3>1, PickFromIs
  <2>5. m \in Nat /\ (m >= 100) = (forced = "win")
    <3> HIDE DEF t, n
    <3> QED BY <1>1, <2>4
  <2> HIDE DEF m
  <2> QED BY <1>3, <2>1, <2>5, CutPays, SMT DEF Obeys, Forcing
<1> QED BY <1>2, <1>3

\* Keno pays from a number of hits on that is among the picks, and a win at least.
LEMMA KenoTableIs ==
  ASSUME NEW p \in 1..10
  PROVE  /\ KenoTable(p).from \in 1..p /\ KenoTable(p).pays \in Seq(Nat)
         /\ Len(KenoTable(p).pays) = p - KenoTable(p).from + 1
         /\ KenoTable(p).pays[1] >= 100
<1> DEFINE t == KenoTable(p)
           Good == t.from \in 1..p /\ t.pays \in Seq(Nat) /\ Len(t.pays) = p - t.from + 1 /\ t.pays[1] >= 100
<1>1. ASSUME p = 1 PROVE Good
  <2> DEFINE q == <<396>>
  <2>1. t = [from |-> 1, pays |-> q]
    BY <1>1, SMT DEF KenoTable
  <2>2. q \in Seq(Nat) /\ Len(q) = 1 /\ q[1] >= 100
    BY SMT
  <2> HIDE DEF q
  <2>3. t.from = 1 /\ t.pays = q
    BY <2>1, SMT
  <2> HIDE DEF t
  <2> QED BY <1>1, <2>2, <2>3, SMT
<1>2. ASSUME p = 2 PROVE Good
  <2> DEFINE q == <<1700>>
  <2>1. t = [from |-> 2, pays |-> q]
    BY <1>2, SMT DEF KenoTable
  <2>2. q \in Seq(Nat) /\ Len(q) = 1 /\ q[1] >= 100
    BY SMT
  <2> HIDE DEF q
  <2>3. t.from = 2 /\ t.pays = q
    BY <2>1, SMT
  <2> HIDE DEF t
  <2> QED BY <1>2, <2>2, <2>3, SMT
<1>3. ASSUME p = 3 PROVE Good
  <2> DEFINE q == <<220, 4800>>
  <2>1. t = [from |-> 2, pays |-> q]
    BY <1>3, SMT DEF KenoTable
  <2>2. q \in Seq(Nat) /\ Len(q) = 2 /\ q[1] >= 100
    BY SMT
  <2> HIDE DEF q
  <2>3. t.from = 2 /\ t.pays = q
    BY <2>1, SMT
  <2> HIDE DEF t
  <2> QED BY <1>3, <2>2, <2>3, SMT
<1>4. ASSUME p = 4 PROVE Good
  <2> DEFINE q == <<160, 600, 9000>>
  <2>1. t = [from |-> 2, pays |-> q]
    BY <1>4, SMT DEF KenoTable
  <2>2. q \in Seq(Nat) /\ Len(q) = 3 /\ q[1] >= 100
    BY SMT
  <2> HIDE DEF q
  <2>3. t.from = 2 /\ t.pays = q
    BY <2>1, SMT
  <2> HIDE DEF t
  <2> QED BY <1>4, <2>2, <2>3, SMT
<1>5. ASSUME p = 5 PROVE Good
  <2> DEFINE q == <<330, 1300, 30000>>
  <2>1. t = [from |-> 3, pays |-> q]
    BY <1>5, SMT DEF KenoTable
  <2>2. q \in Seq(Nat) /\ Len(q) = 3 /\ q[1] >= 100
    BY SMT
  <2> HIDE DEF q
  <2>3. t.from = 3 /\ t.pays = q
    BY <2>1, SMT
  <2> HIDE DEF t
  <2> QED BY <1>5, <2>2, <2>3, SMT
<1>6. ASSUME p = 6 PROVE Good
  <2> DEFINE q == <<200, 500, 4800, 71000>>
  <2>1. t = [from |-> 3, pays |-> q]
    BY <1>6, SMT DEF KenoTable
  <2>2. q \in Seq(Nat) /\ Len(q) = 4 /\ q[1] >= 100
    BY SMT
  <2> HIDE DEF q
  <2>3. t.from = 3 /\ t.pays = q
    BY <2>1, SMT
  <2> HIDE DEF t
  <2> QED BY <1>6, <2>2, <2>3, SMT
<1>7. ASSUME p = 7 PROVE Good
  <2> DEFINE q == <<600, 1800, 12000, 80000>>
  <2>1. t = [from |-> 4, pays |-> q]
    BY <1>7, SMT DEF KenoTable
  <2>2. q \in Seq(Nat) /\ Len(q) = 4 /\ q[1] >= 100
    BY SMT
  <2> HIDE DEF q
  <2>3. t.from = 4 /\ t.pays = q
    BY <2>1, SMT
  <2> HIDE DEF t
  <2> QED BY <1>7, <2>2, <2>3, SMT
<1>8. ASSUME p = 8 PROVE Good
  <2> DEFINE q == <<1000, 5000, 40000, 100000>>
  <2>1. t = [from |-> 5, pays |-> q]
    BY <1>8, SMT DEF KenoTable
  <2>2. q \in Seq(Nat) /\ Len(q) = 4 /\ q[1] >= 100
    BY SMT
  <2> HIDE DEF q
  <2>3. t.from = 5 /\ t.pays = q
    BY <2>1, SMT
  <2> HIDE DEF t
  <2> QED BY <1>8, <2>2, <2>3, SMT
<1>9. ASSUME p = 9 PROVE Good
  <2> DEFINE q == <<600, 2200, 12000, 80000, 100000>>
  <2>1. t = [from |-> 5, pays |-> q]
    BY <1>9, SMT DEF KenoTable
  <2>2. q \in Seq(Nat) /\ Len(q) = 5 /\ q[1] >= 100
    BY SMT
  <2> HIDE DEF q
  <2>3. t.from = 5 /\ t.pays = q
    BY <2>1, SMT
  <2> HIDE DEF t
  <2> QED BY <1>9, <2>2, <2>3, SMT
<1>10. ASSUME p = 10 PROVE Good
  <2> DEFINE q == <<500, 2400, 8000, 50000, 80000, 100000>>
  <2>1. t = [from |-> 5, pays |-> q]
    BY <1>10, SMT DEF KenoTable
  <2>2. q \in Seq(Nat) /\ Len(q) = 6 /\ q[1] >= 100
    BY SMT
  <2> HIDE DEF q
  <2>3. t.from = 5 /\ t.pays = q
    BY <2>1, SMT
  <2> HIDE DEF t
  <2> QED BY <1>10, <2>2, <2>3, SMT
<1> QED BY <1>1, <1>2, <1>3, <1>4, <1>5, <1>6, <1>7, <1>8, <1>9, <1>10, SMT

\* Keno pays a natural number, and what it is forced to.
LEMMA KenoPays ==
  ASSUME NEW s, Len(s.picks) \in 1..10, NEW forced \in Forcing, NEW g \in Nat \ {0},
         NEW d, IF forced = "none" THEN d \in 0..Len(s.picks) ELSE d \in 0..g - 1
  PROVE  Keno(s, forced, d, g) \in Nat /\ Obeys(Keno(s, forced, d, g), forced)
<1> DEFINE p == Len(s.picks)
           t == KenoTable(p)
           hits == KenoHits(p, forced, d, g)
           m == KenoPayout(p, hits)
<1>1. /\ t.from \in 1..p /\ t.pays \in Seq(Nat) /\ Len(t.pays) = p - t.from + 1
      /\ t.pays[1] >= 100 /\ p \in 1..10
  BY KenoTableIs
<1>2. /\ hits \in 0..p
      /\ forced = "win" => hits = t.from
      /\ forced = "loss" => hits < t.from
  <2>1. CASE forced = "none"
    BY <2>1 DEF KenoHits
  <2>2. CASE forced = "win"
    <3>1. hits = t.from
      BY <2>2 DEF KenoHits
    <3> HIDE DEF hits, t
    <3> QED BY <1>1, <2>2, <3>1
  <2>3. CASE forced = "loss"
    <3>1. hits = PickOf(t.from, d, g) /\ d \in 0..g - 1
      BY <2>3 DEF KenoHits
    <3>2. t.from \in Nat \ {0}
      <4> HIDE DEF t
      <4> QED BY <1>1
    <3>3. PickOf(t.from, d, g) \in 0..t.from - 1
      <4> HIDE DEF t
      <4> QED BY <3>1, <3>2, PickInRange
    <3> HIDE DEF hits, t, p
    <3> QED BY <1>1, <2>3, <3>1, <3>3
  <2> QED BY <2>1, <2>2, <2>3 DEF Forcing
<1>3. m = IF hits < t.from THEN 0 ELSE t.pays[hits - t.from + 1]
  BY DEF KenoPayout
<1>4. hits < t.from \/ hits - t.from + 1 \in 1..Len(t.pays)
  <2> DEFINE from == t.from
             n == Len(t.pays)
  <2>1. p \in Nat /\ from \in 1..p /\ n = p - from + 1 /\ hits \in 0..p
    BY <1>1, <1>2
  <2> HIDE DEF hits, from, n, p
  <2>2. hits < from \/ hits - from + 1 \in 1..n
    BY <2>1
  <2> QED BY <2>2 DEF from, n
<1>5. m \in Nat
  <2>1. CASE hits < t.from
    <3> HIDE DEF hits, t, m
    <3> QED BY <1>3, <2>1
  <2>2. CASE ~(hits < t.from)
    <3> DEFINE k == hits - t.from + 1
    <3>1. k \in 1..Len(t.pays) /\ m = t.pays[k]
      <4> HIDE DEF hits, t, m
      <4> QED BY <1>3, <1>4, <2>2
    <3> HIDE DEF hits, t, m, k
    <3> QED BY <1>1, <3>1
  <2> QED BY <2>1, <2>2
<1>6. forced = "win" => m >= 100
  <2> SUFFICES ASSUME forced = "win" PROVE m >= 100
    OBVIOUS
  <2>1. hits = t.from /\ t.from \in Nat
    <3> HIDE DEF hits, t, p
    <3> QED BY <1>1, <1>2
  <2>2. ~(hits < t.from) /\ hits - t.from + 1 = 1
    <3> HIDE DEF hits, t, p
    <3> QED BY <2>1
  <2> HIDE DEF hits, t, p, m
  <2> QED BY <1>1, <1>3, <2>2
<1>7. forced = "loss" => m = 0
  <2> HIDE DEF hits, t, p, m
  <2> QED BY <1>2, <1>3
<1>8. Keno(s, forced, d, g) = Min({m, MaxMultiplier})
  BY DEF Keno
<1> HIDE DEF m
<1> QED BY <1>5, <1>6, <1>7, <1>8, CutPays DEF Obeys

\* Every instant game pays a natural number, and with an edge of two percent at most what
\* a round is forced to, against a target in whole cents.
LEMMA ResolvePays ==
  ASSUME NEW s \in Inputs, ValidateSelection(s), s.game \in InstantGames,
         NEW forced \in Forcing, NEW d \in DrawsOf(s, forced)
  PROVE  /\ Resolve(s, forced, d, Grain) \in Nat
         /\ HouseEdge <= 2 /\ WholeTarget(s) => Obeys(Resolve(s, forced, d, Grain), forced)
<1>1. Grain \in Nat \ {0} /\ (s.game \in {"dice", "limbo"} => s.target \in Int)
  BY ResolverAssumption
<1>2. CASE s.game = "dice"
  <2>1. DiceSelection(s)
    BY <1>1, <1>2, SMT DEF ValidateSelection, DiceSelection
  <2>2. d \in 0..Grain - 1
    BY <1>2 DEF DrawsOf, Draws
  <2>3. Resolve(s, forced, d, Grain) = Dice(s, forced, d, Grain)
    BY <1>2 DEF Resolve
  <2> QED BY <1>1, <1>2, <2>1, <2>2, <2>3, DicePays DEF WholeTarget
<1>3. CASE s.game = "coin-flip"
  <2>1. Resolve(s, forced, d, Grain) = CoinFlip(s, forced, d, Grain)
    BY <1>3 DEF Resolve
  <2> QED BY <2>1, CoinFlipPays
<1>4. CASE s.game = "limbo"
  <2>1. d \in 0..Grain - 1
    BY <1>4 DEF DrawsOf, Draws
  <2>2. Resolve(s, forced, d, Grain) = Limbo(s, forced, d, Grain)
    BY <1>4 DEF Resolve
  <2> QED BY <1>1, <1>4, <2>1, <2>2, LimboPays DEF WholeTarget
<1>5. CASE s.game = "wheel"
  <2>1. d \in 0..Grain - 1 /\ s.risk \in Risks
    BY <1>5 DEF DrawsOf, Draws, ValidateSelection
  <2>2. Resolve(s, forced, d, Grain) = Wheel(s, forced, d, Grain)
    BY <1>5 DEF Resolve
  <2> QED BY <1>1, <2>1, <2>2, WheelPays
<1>6. CASE s.game = "plinko"
  <2>1. s.risk \in Risks /\ s.rows \in {8, 12, 16}
    BY <1>6 DEF ValidateSelection
  <2>2. IF forced = "none" THEN d \in 0..s.rows ELSE d \in 0..Grain - 1
    BY <1>6 DEF DrawsOf, Draws
  <2>3. Resolve(s, forced, d, Grain) = Plinko(s, forced, d, Grain)
    BY <1>6 DEF Resolve
  <2> QED BY <1>1, <2>1, <2>2, <2>3, PlinkoPays
<1>7. CASE s.game = "keno"
  <2>1. Len(s.picks) \in 1..10
    BY <1>7 DEF ValidateSelection
  <2>2. IF forced = "none" THEN d \in 0..Len(s.picks) ELSE d \in 0..Grain - 1
    BY <1>7 DEF DrawsOf, Draws
  <2>3. Resolve(s, forced, d, Grain) = Keno(s, forced, d, Grain)
    BY <1>7 DEF Resolve
  <2> QED BY <1>1, <2>1, <2>2, <2>3, KenoPays
<1> QED BY <1>2, <1>3, <1>4, <1>5, <1>6, <1>7 DEF InstantGames

---------------------------------------------------------------------------
(* Shuffles *)

\* A function that tells the members of S apart has as many values there.
LEMMA ImageSize ==
  ASSUME NEW f, NEW S, IsFiniteSet(S), \A x, y \in S : f[x] = f[y] => x = y
  PROVE  /\ IsFiniteSet({f[x] : x \in S})
         /\ Cardinality({f[x] : x \in S}) = Cardinality(S)
<1> DEFINE T == {f[x] : x \in S}
           h == [x \in S |-> f[x]]
<1>1. h \in Bijection(S, T)
  BY DEF Bijection, Injection, Surjection, IsInjective
<1>2. ExistsBijection(S, T)
  BY <1>1 DEF ExistsBijection
<1> HIDE DEF T
<1>3. IsFiniteSet(T) /\ Cardinality(T) = Cardinality(S)
  BY <1>2, FS_Bijection
<1> QED BY <1>3 DEF T

\* Items 0 to n - 1 in some order.
Orders(s, n) ==
  /\ s \in [1..n -> 0..n - 1]
  /\ \A x, y \in 1..n : s[x] = s[y] => x = y

\* Two items may change places.
LEMMA SwapKeepsOrder ==
  ASSUME NEW n \in Nat, NEW s, Orders(s, n), NEW i \in 1..n, NEW j \in 1..n
  PROVE  Orders(Swapped(s, i, j), n)
<1> DEFINE other(k) == CASE k = i -> j [] k = j -> i [] OTHER -> k
<1>1. DOMAIN s = 1..n
  BY DEF Orders
<1>2. \A k \in 1..n : other(k) \in 1..n
  OBVIOUS
<1>3. \A x, y \in 1..n : other(x) = other(y) => x = y
  OBVIOUS
<1>4. Swapped(s, i, j) = [k \in 1..n |-> s[other(k)]]
  BY <1>1 DEF Swapped
<1> HIDE DEF other
<1> DEFINE w == Swapped(s, i, j)
<1>5. \A k \in 1..n : w[k] = s[other(k)] /\ s[other(k)] \in 0..n - 1
  BY <1>2, <1>4 DEF Orders
<1>6. w \in [1..n -> 0..n - 1]
  BY <1>4, <1>5
<1>7. ASSUME NEW x \in 1..n, NEW y \in 1..n, w[x] = w[y] PROVE x = y
  <2>1. other(x) = other(y)
    BY <1>2, <1>5, <1>7 DEF Orders
  <2> QED BY <1>3, <2>1
<1> QED BY <1>6, <1>7 DEF Orders

\* The first m steps of a shuffle.
Shuffling(h, items, draws, n, m) ==
  h = [k \in 0..m |-> IF k = 0 THEN items ELSE Swapped(h[k - 1], n - k + 1, draws[n - k] + 1)]

\* A shuffle has steps, any number of them.
LEMMA ShuffleGoesOn ==
  ASSUME NEW items, NEW draws, NEW n \in Nat, NEW m \in Nat
  PROVE  \E h : Shuffling(h, items, draws, n, m)
<1> DEFINE Short == {k \in Nat : ~\E h : Shuffling(h, items, draws, n, k)}
           Item(h, k) == IF k = 0 THEN items ELSE Swapped(h[k - 1], n - k + 1, draws[n - k] + 1)
<1>1. SUFFICES ASSUME Short # {} PROVE FALSE
  OBVIOUS
<1>2. PICK k \in Short : \A j \in Short : k <= j
  <2>1. Short \in SUBSET Nat
    OBVIOUS
  <2> HIDE DEF Short
  <2> QED BY <1>1, <2>1, LeastNatural
<1>3. k # 0
  <2>1. ASSUME k = 0 PROVE Shuffling([j \in 0..0 |-> items], items, draws, n, 0)
    BY DEF Shuffling
  <2> QED BY <2>1
<1>4. k - 1 \in Nat /\ k - 1 \notin Short
  BY <1>2, <1>3
<1>5. PICK h : Shuffling(h, items, draws, n, k - 1)
  BY <1>4
<1> DEFINE H == [j \in 0..k |-> Item(h, j)]
<1>6. h = [j \in 0..k - 1 |-> Item(h, j)]
  BY <1>5 DEF Shuffling
<1>7. \A j \in 0..k - 1 : H[j] = h[j]
  <2> SUFFICES ASSUME NEW j \in 0..k - 1 PROVE H[j] = h[j]
    OBVIOUS
  <2>1. j \in 0..k
    BY <1>4
  <2>2. H[j] = Item(h, j)
    BY <2>1
  <2>3. h[j] = Item(h, j)
    <3> HIDE DEF Item, H
    <3> QED BY <1>6
  <2> QED BY <2>2, <2>3
<1>8. \A j \in 0..k : Item(h, j) = Item(H, j)
  <2> SUFFICES ASSUME NEW j \in 0..k, j # 0 PROVE h[j - 1] = H[j - 1]
    OBVIOUS
  <2>1. j - 1 \in 0..k - 1
    OBVIOUS
  <2> HIDE DEF H
  <2> QED BY <1>7, <2>1
<1>9. H = [j \in 0..k |-> Item(H, j)]
  <2> HIDE DEF Item
  <2> QED BY <1>8
<1>10. Shuffling(H, items, draws, n, k)
  <2> HIDE DEF H
  <2> QED BY <1>9 DEF Shuffling
<1> QED BY <1>2, <1>10

\* A shuffle is the last of its steps.
LEMMA ShuffleIs ==
  ASSUME NEW n \in Nat \ {0}, NEW items, Len(items) = n, NEW draws
  PROVE  \E h : /\ Shuffling(h, items, draws, n, n - 1)
                /\ SeededShuffle(items, draws) = h[n - 1]
<1> DEFINE h == CHOOSE f : Shuffling(f, items, draws, n, n - 1)
<1>1. SeededShuffle(items, draws) = h[n - 1]
  <2>1. SeededShuffle(items, draws)
          = (CHOOSE f : Shuffling(f, items, draws, Len(items), Len(items) - 1))[Len(items) - 1]
    BY DEF SeededShuffle, Shuffling
  <2> QED BY <2>1
<1>2. Shuffling(h, items, draws, n, n - 1)
  <2>1. n - 1 \in Nat
    OBVIOUS
  <2>2. \E f : Shuffling(f, items, draws, n, n - 1)
    BY <2>1, ShuffleGoesOn
  <2> QED BY <2>2
<1> QED BY <1>1, <1>2

\* A shuffle lays the items in some order.
LEMMA ShuffleOrders ==
  ASSUME NEW n \in Nat \ {0}, NEW draws \in ShuffleDraws(n)
  PROVE  Orders(SeededShuffle(Positions(n), draws), n)
<1> DEFINE items == Positions(n)
<1>1. Len(items) = n /\ Orders(items, n)
  BY DEF Positions, Orders
<1> HIDE DEF items
<1>2. PICK h : Shuffling(h, items, draws, n, n - 1) /\ SeededShuffle(items, draws) = h[n - 1]
  BY <1>1, ShuffleIs
<1>3. Shuffling(h, items, draws, n, n - 1)
  BY <1>2
<1> DEFINE Bad == {k \in 0..n - 1 : ~Orders(h[k], n)}
<1>4. ASSUME Bad # {} PROVE FALSE
  <2>1. PICK k \in Bad : \A j \in Bad : k <= j
    <3>1. Bad \in SUBSET Nat
      OBVIOUS
    <3> HIDE DEF Bad
    <3> QED BY <1>4, <3>1, LeastNatural
  <2>2. CASE k = 0
    BY <1>1, <1>3, <2>2 DEF Shuffling
  <2>3. CASE k # 0
    <3>1. h[k] = Swapped(h[k - 1], n - k + 1, draws[n - k] + 1)
      BY <1>3, <2>3 DEF Shuffling
    <3>2. k - 1 \in 0..n - 1 /\ k - 1 \notin Bad
      BY <2>1, <2>3
    <3>3. n - k \in 1..n - 1
      BY <2>3
    <3>4. draws[n - k] \in 0..n - 1 /\ draws[n - k] <= n - k
      BY <3>3 DEF ShuffleDraws
    <3>5. n - k + 1 \in 1..n /\ draws[n - k] + 1 \in 1..n
      BY <3>3, <3>4
    <3>6. Orders(h[k - 1], n)
      BY <3>2
    <3> QED BY <3>1, <3>5, <3>6, SwapKeepsOrder
  <2> QED BY <2>2, <2>3
<1>5. n - 1 \in 0..n - 1
  OBVIOUS
<1>6. Orders(h[n - 1], n)
  BY <1>4, <1>5
<1> QED BY <1>2, <1>6 DEF items

---------------------------------------------------------------------------
(* Boards *)

\* The first k of a sequence that repeats nothing are k, or all there are.
LEMMA FirstOfIs ==
  ASSUME NEW S, NEW s \in Seq(S), \A x, y \in 1..Len(s) : s[x] = s[y] => x = y, NEW k \in Nat
  PROVE  /\ Range(FirstOf(s, k)) \subseteq S /\ IsFiniteSet(Range(FirstOf(s, k)))
         /\ Cardinality(Range(FirstOf(s, k))) = IF k <= Len(s) THEN k ELSE Len(s)
         /\ k > 0 /\ Len(s) > 0 => s[1] \in Range(FirstOf(s, k))
<1> DEFINE m == IF k <= Len(s) THEN k ELSE Len(s)
           F == {s[i] : i \in 1..m}
<1>1. m \in 0..Len(s) /\ Len(s) \in Nat
  OBVIOUS
<1>2. FirstOf(s, k) = SubSeq(s, 1, m)
  <2>1. Min({k, Len(s)}) = m
    BY <1>1, MinIs
  <2> QED BY <2>1 DEF FirstOf
<1>3. Range(SubSeq(s, 1, m)) = F
  <2> HIDE DEF m
  <2>1. DOMAIN SubSeq(s, 1, m) = 1..m /\ \A i \in 1..m : SubSeq(s, 1, m)[i] = s[i]
    BY <1>1
  <2> DEFINE first == SubSeq(s, 1, m)
  <2>2. DOMAIN first = 1..m /\ \A i \in 1..m : first[i] = s[i]
    BY <2>1
  <2> HIDE DEF first
  <2>3. Range(first) = F
    BY <2>2 DEF Range
  <2> QED BY <2>3 DEF first
<1>4. IsFiniteSet(F) /\ Cardinality(F) = m
  <2>1. IsFiniteSet(1..m) /\ Cardinality(1..m) = m
    <3> HIDE DEF m
    <3> QED BY <1>1, FS_Interval
  <2>2. \A x, y \in 1..m : s[x] = s[y] => x = y
    <3>1. \A x \in 1..m : x \in 1..Len(s)
      <4> HIDE DEF m
      <4> QED BY <1>1
    <3> QED BY <3>1
  <2> DEFINE D == 1..m
  <2>3. IsFiniteSet(D) /\ Cardinality(D) = m
    BY <2>1
  <2>4. \A x, y \in D : s[x] = s[y] => x = y
    BY <2>2
  <2> HIDE DEF D, m
  <2>5. IsFiniteSet({s[x] : x \in D}) /\ Cardinality({s[x] : x \in D}) = Cardinality(D)
    <3> DEFINE f == s
    <3>1. IsFiniteSet(D) /\ \A x, y \in D : f[x] = f[y] => x = y
      BY <2>3, <2>4
    <3> HIDE DEF F, f
    <3>2. IsFiniteSet({f[x] : x \in D}) /\ Cardinality({f[x] : x \in D}) = Cardinality(D)
      BY <3>1, ImageSize
    <3> QED BY <3>2 DEF f
  <2> QED BY <2>3, <2>5 DEF D
<1>5. F \subseteq S
  <2>1. \A i \in 1..m : i \in 1..Len(s)
    <3> HIDE DEF m
    <3> QED BY <1>1
  <2>2. \A i \in 1..Len(s) : s[i] \in S
    OBVIOUS
  <2> HIDE DEF m
  <2> QED BY <2>1, <2>2
<1>6. k > 0 /\ Len(s) > 0 => s[1] \in F
  <2>1. k > 0 /\ Len(s) > 0 => 1 \in 1..m
    BY <1>1
  <2> QED BY <2>1
<1> HIDE DEF F
<1> QED BY <1>2, <1>3, <1>4, <1>5, <1>6

\* An order is such a sequence.
LEMMA OrderIsSeq ==
  ASSUME NEW n \in Nat, NEW s, Orders(s, n)
  PROVE  s \in Seq(0..n - 1) /\ Len(s) = n
BY DEF Orders

\* A Mines board has as many mines as were chosen, and a forced loss one on the first hot spot.
LEMMA MinesBoard ==
  ASSUME NEW count \in 1..Tiles - 1, NEW draws \in ShuffleDraws(Tiles), NEW forced
  PROVE  /\ BuildMinesGrid(count, draws, forced) \subseteq 0..Tiles - 1
         /\ Cardinality(BuildMinesGrid(count, draws, forced)) = count
         /\ forced = "loss" => HotSpots = <<>> \/ HotSpots[1] \in BuildMinesGrid(count, draws, forced)
<1> DEFINE s == SeededShuffle(Positions(Tiles), draws)
           n == Len(HotSpots)
           h == IF count <= n THEN count ELSE n
           hot == Range(FirstOf(HotSpots, count))
           rest == {i \in 1..Tiles : s[i] \notin hot}
           fill == {i \in rest : Before(rest, i) < count - Cardinality(hot)}
           filled == {s[i] : i \in fill}
<1>1. Tiles \in Nat \ {0} /\ count \in Nat /\ count <= Tiles
  BY RulesAssumption
<1>2. Orders(s, Tiles)
  BY <1>1, ShuffleOrders
<1> HIDE DEF s
<1>3. CASE forced # "loss"
  <2> DEFINE b == Range(FirstOf(s, count))
  <2>1. BuildMinesGrid(count, draws, forced) = b
    BY <1>3 DEF BuildMinesGrid, s
  <2>2. s \in Seq(0..Tiles - 1) /\ Len(s) = Tiles
    BY <1>1, <1>2, OrderIsSeq
  <2>3. \A x, y \in 1..Len(s) : s[x] = s[y] => x = y
    BY <1>2, <2>2 DEF Orders
  <2>4. b \subseteq 0..Tiles - 1 /\ Cardinality(b) = IF count <= Len(s) THEN count ELSE Len(s)
    BY <1>1, <2>2, <2>3, FirstOfIs
  <2> HIDE DEF b
  <2> QED BY <1>1, <1>3, <2>1, <2>2, <2>4
<1>4. CASE forced = "loss"
  <2>1. BuildMinesGrid(count, draws, forced) = hot \cup filled
    BY <1>4, Zenon DEF BuildMinesGrid, s
  <2>2. /\ hot \subseteq 0..Tiles - 1 /\ IsFiniteSet(hot) /\ Cardinality(hot) = h
        /\ n > 0 => HotSpots[1] \in hot
    <3>1. HotSpots \in Seq(0..Tiles - 1)
      BY RulesAssumption
    <3>2. \A x, y \in 1..Len(HotSpots) : HotSpots[x] = HotSpots[y] => x = y
      BY <3>1, RulesAssumption DEF IsInjective
    <3>3. count > 0
      OBVIOUS
    <3> QED BY <1>1, <3>1, <3>2, <3>3, FirstOfIs
  <2>3. h \in Nat /\ h <= count /\ n \in Nat /\ (HotSpots = <<>> \/ n > 0)
    BY <1>1, RulesAssumption
  <2> HIDE DEF hot
  <2>4. IsFiniteSet(rest) /\ Cardinality(rest) \in Nat /\ Tiles - h <= Cardinality(rest)
    <3> DEFINE taken == {i \in 1..Tiles : s[i] \in hot}
    <3>1. IsFiniteSet(1..Tiles) /\ Cardinality(1..Tiles) = Tiles
      BY <1>1, FS_Interval
    <3>2. taken \in SUBSET (1..Tiles) /\ rest \in SUBSET (1..Tiles)
      OBVIOUS
    <3>3. IsFiniteSet(taken) /\ IsFiniteSet(rest) /\ Cardinality(taken) \in Nat /\ Cardinality(rest) \in Nat
      <4> HIDE DEF taken, rest
      <4> QED BY <3>1, <3>2, SomeOf
    <3>4. Cardinality(taken) <= h
      <4> DEFINE tiles == {s[i] : i \in taken}
      <4>1. \A x, y \in taken : s[x] = s[y] => x = y
        BY <1>2 DEF Orders
      <4>2. tiles \in SUBSET hot
        OBVIOUS
      <4>3. Cardinality(tiles) = Cardinality(taken)
        <5> HIDE DEF taken
        <5> QED BY <3>3, <4>1, ImageSize
      <4>4. Cardinality(tiles) <= Cardinality(hot)
        <5> HIDE DEF tiles
        <5> QED BY <2>2, <4>2, SomeOf
      <4> HIDE DEF taken, tiles, h
      <4> QED BY <2>2, <4>3, <4>4
    <3>5. taken \cup rest = 1..Tiles /\ taken \cap rest = {}
      OBVIOUS
    <3>6. Cardinality(taken \cup rest) = Cardinality(taken) + Cardinality(rest) - Cardinality(taken \cap rest)
      <4> HIDE DEF taken, rest
      <4> QED BY <3>3, FS_Union
    <3>7. Cardinality(taken \cap rest) = 0
      BY <3>5, FS_EmptySet
    <3>8. Tiles = Cardinality(taken) + Cardinality(rest)
      <4>1. Tiles = Cardinality(taken) + Cardinality(rest) - 0
        <5> HIDE DEF taken, rest
        <5> QED BY <3>1, <3>5, <3>6, <3>7, Zenon
      <4> DEFINE a == Cardinality(taken)
                 b == Cardinality(rest)
      <4>2. a \in Nat /\ b \in Nat /\ Tiles = a + b - 0
        BY <3>3, <4>1
      <4> HIDE DEF a, b
      <4>3. Tiles = a + b
        BY <4>2
      <4> QED BY <4>3 DEF a, b
    <3>9. Tiles - h <= Cardinality(rest)
      <4> DEFINE a == Cardinality(taken)
                 b == Cardinality(rest)
      <4>1. a \in Nat /\ b \in Nat /\ a <= h /\ Tiles = a + b
        BY <3>3, <3>4, <3>8
      <4>2. h \in Nat
        BY <2>3
      <4> HIDE DEF a, b, h
      <4>3. Tiles - h <= b
        BY <1>1, <4>1, <4>2
      <4> QED BY <4>3 DEF b
    <3> QED BY <3>3, <3>9
  <2>5. Cardinality(fill) = count - h /\ IsFiniteSet(fill)
    <3>1. rest \in SUBSET (1..Tiles) /\ fill \in SUBSET rest
      OBVIOUS
    <3>2. count - h \in 0..Cardinality(rest)
      <4> HIDE DEF rest, h
      <4> QED BY <1>1, <2>3, <2>4
    <3>3. fill = {i \in rest : Before(rest, i) < count - h}
      BY <2>2
    <3>4. Cardinality({i \in rest : Before(rest, i) < count - h}) = count - h
      <4> HIDE DEF rest, h
      <4> QED BY <1>1, <3>1, <3>2, FirstPositions
    <3>5. IsFiniteSet(fill)
      <4> HIDE DEF rest, fill
      <4> QED BY <2>4, <3>1, SomeOf
    <3> HIDE DEF fill, rest, h
    <3> QED BY <3>3, <3>4, <3>5
  <2>6. IsFiniteSet(filled) /\ Cardinality(filled) = count - h
    <3>1. \A x, y \in fill : s[x] = s[y] => x = y
      BY <1>2 DEF Orders
    <3> HIDE DEF fill, h
    <3> QED BY <2>5, <3>1, ImageSize
  <2>7. hot \cap filled = {} /\ filled \subseteq 0..Tiles - 1
    BY <1>2 DEF Orders
  <2>8. Cardinality(hot \cup filled) = Cardinality(hot) + Cardinality(filled) - Cardinality(hot \cap filled)
    <3> HIDE DEF filled
    <3> QED BY <2>2, <2>6, FS_Union
  <2>9. Cardinality(hot \cap filled) = 0
    BY <2>7, FS_EmptySet
  <2> HIDE DEF filled, h
  <2>10. Cardinality(hot \cup filled) = count
    BY <1>1, <2>2, <2>3, <2>6, <2>8, <2>9
  <2> QED BY <2>1, <2>2, <2>3, <2>7, <2>10
<1> QED BY <1>3, <1>4

TowerDifficulties == {"easy", "medium", "hard", "expert"}

\* A floor of a tower has a trap and a tile without one.
LEMMA TowersFloor ==
  ASSUME NEW difficulty \in TowerDifficulties, NEW d, NEW g,
         NEW draws \in ShuffleDraws(TowerTiles(difficulty))
  PROVE  /\ BuildTowersFloor(difficulty, d, g, draws) \subseteq 0..TowerTiles(difficulty) - 1
         /\ Cardinality(BuildTowersFloor(difficulty, d, g, draws)) \in 1..TowerTiles(difficulty) - 1
<1> DEFINE n == TowerTiles(difficulty)
           k == TrapsOnFloor(difficulty, d, g)
           s == SeededShuffle(Positions(n), draws)
           b == Range(FirstOf(s, k))
<1>1. n \in Nat \ {0} /\ k \in 1..n - 1
  BY DEF TowerDifficulties, TowerTiles, TrapsOnFloor, EasyTrapsOnFloor, TowerMines
<1>2. Orders(s, n)
  <2> HIDE DEF n
  <2> QED BY <1>1, ShuffleOrders DEF n
<1> HIDE DEF n, k, s
<1>3. s \in Seq(0..n - 1) /\ Len(s) = n
  BY <1>1, <1>2, OrderIsSeq
<1>4. \A x, y \in 1..Len(s) : s[x] = s[y] => x = y
  BY <1>2, <1>3 DEF Orders
<1>5. b \subseteq 0..n - 1 /\ Cardinality(b) = IF k <= Len(s) THEN k ELSE Len(s)
  <2>1. k \in Nat
    BY <1>1
  <2> QED BY <1>3, <1>4, <2>1, FirstOfIs
<1>6. BuildTowersFloor(difficulty, d, g, draws) = b
  BY DEF BuildTowersFloor, n, k, s
<1> HIDE DEF b
<1>7. Cardinality(b) \in 1..n - 1
  BY <1>1, <1>3, <1>5
<1> QED BY <1>5, <1>6, <1>7 DEF n

---------------------------------------------------------------------------
(* Rounds *)

Ats == {"idle", "refused", "asked", "decided", "resolved", "done"}

\* What a round is made of.
RoundRecord ==
  round \in [at : Ats, selection : Inputs \cup {<<>>}, rule : Rules \cup {NoRule},
             difficulty : 0..100, forced : Forcing, pays : Nat, board : SUBSET SUBSET Nat]

SelectionKnown ==
  /\ round.at # "idle" => Sel \in Inputs
  /\ round.at \notin {"idle", "refused"} => ValidateSelection(Sel)

\* A round that was resolved and not yet capped pays what it was forced to.
PaysAsForced ==
  round.at = "resolved" /\ HouseEdge <= 2 /\ WholeTarget(Sel) => Obeys(round.pays, round.forced)

\* Only a finished round has a board, and the board has something on it.
BoardHasTiles ==
  /\ round.at # "done" => round.board = {}
  /\ \A b \in round.board : Cardinality(b) >= 1

RulesInv == RoundRecord /\ SelectionKnown /\ PaysAsForced /\ BoardHasTiles /\ BoardsAreWhole

\* A rule that caps nothing is a rule too.
LEMMA RuleHasCap ==
  ASSUME NEW r \in Rules \cup {NoRule}
  PROVE  r.cap \in Nat
BY ResolverAssumption DEF NoRule

\* A difficulty is a percentage whatever profile and game are set to.
LEMMA DifficultyInRange ==
  ASSUME NEW perGame \in Difficulties \cup {Inherit}, NEW general \in Difficulties \cup {Inherit},
         NEW game \in Difficulties
  PROVE  EffectiveDifficulty(WalletDifficultyForGame(perGame, general), game) \in 0..100
<1> DEFINE profile == WalletDifficultyForGame(perGame, general)
           x == IF profile # Inherit THEN profile ELSE game
<1>1. x \in Int
  BY ResolverAssumption DEF Inherit, WalletDifficultyForGame
<1>2. Clamp(x, 0, 100) \in 0..100
  <2> HIDE DEF x
  <2>1. Clamp(x, 0, 100) = IF x < 0 THEN 0 ELSE IF x > 100 THEN 100 ELSE x
    BY <1>1, ClampIs
  <2> QED BY <1>1, <2>1
<1>3. EffectiveDifficulty(profile, game) = Clamp(x, 0, 100)
  BY DEF EffectiveDifficulty
<1> HIDE DEF x, profile
<1>4. EffectiveDifficulty(profile, game) \in 0..100
  BY <1>2, <1>3
<1> QED BY <1>4 DEF profile

\* A control is one of three.
LEMMA ControlIsForcing ==
  ASSUME NEW rule, NEW difficulty, NEW d
  PROVE  ResolveControl(rule, difficulty, d) \in Forcing
BY DEF ResolveControl, DecideForcedResult, DecideFromDifficulty, Biased, Forcing

\* A round begins blank.
LEMMA RulesInit ==
  ASSUME Init
  PROVE  RulesInv
<1>1. round = [at |-> "idle", selection |-> <<>>, rule |-> NoRule, difficulty |-> 0,
               forced |-> "none", pays |-> 0, board |-> {}]
  BY DEF Init, Blank
<1>2. RoundRecord
  BY <1>1 DEF RoundRecord, Ats, Forcing
<1>3. round.at = "idle" /\ round.board = {}
  BY <1>1
<1> QED BY <1>2, <1>3 DEF RulesInv, SelectionKnown, PaysAsForced, BoardHasTiles, BoardsAreWhole

\* Asking blanks the round but for its selection.
LEMMA AskKeepsRules ==
  ASSUME RulesInv, Ask
  PROVE  RulesInv'
<1>1. PICK s \in Inputs :
        round' = [at |-> IF ValidateSelection(s) THEN "asked" ELSE "refused", selection |-> s,
                  rule |-> NoRule, difficulty |-> 0, forced |-> "none", pays |-> 0, board |-> {}]
  BY DEF Ask, Blank
<1>2. RoundRecord'
  BY <1>1 DEF RoundRecord, Ats, Forcing
<1>3. /\ round'.at = (IF ValidateSelection(s) THEN "asked" ELSE "refused")
      /\ round'.selection = s /\ round'.board = {}
  BY <1>1
<1>4. SelectionKnown'
  BY <1>3 DEF SelectionKnown, Sel
<1>5. (PaysAsForced /\ BoardHasTiles /\ BoardsAreWhole)'
  BY <1>3 DEF PaysAsForced, BoardHasTiles, BoardsAreWhole
<1> QED BY <1>2, <1>4, <1>5 DEF RulesInv

\* Deciding forces the round or does not.
LEMMA DecideKeepsRules ==
  ASSUME RulesInv, Decide
  PROVE  RulesInv'
<1>1. PICK rule \in Rules \cup {NoRule}, perGame \in Difficulties \cup {Inherit},
           general \in Difficulties \cup {Inherit}, game \in Difficulties, d \in Draws :
        LET difficulty == EffectiveDifficulty(WalletDifficultyForGame(perGame, general), game)
        IN round' = [round EXCEPT !.at = "decided", !.rule = rule, !.difficulty = difficulty,
                                  !.forced = ResolveControl(rule, difficulty, d)]
  BY DEF Decide
<1> DEFINE difficulty == EffectiveDifficulty(WalletDifficultyForGame(perGame, general), game)
           forced == ResolveControl(rule, difficulty, d)
<1>2. round' = [round EXCEPT !.at = "decided", !.rule = rule, !.difficulty = difficulty, !.forced = forced]
  BY <1>1
<1>3. difficulty \in 0..100 /\ forced \in Forcing
  BY DifficultyInRange, ControlIsForcing
<1> HIDE DEF difficulty, forced
<1>4. RoundRecord' /\ round'.at = "decided" /\ round'.selection = Sel /\ round'.board = round.board
  <2>1. RoundRecord
    BY DEF RulesInv
  <2> QED BY <1>2, <1>3, <2>1 DEF RoundRecord, Ats, Sel
<1>5. round.at = "asked"
  BY DEF Decide
<1>6. SelectionKnown'
  BY <1>4, <1>5 DEF RulesInv, SelectionKnown, Sel
<1>7. (PaysAsForced /\ BoardHasTiles /\ BoardsAreWhole)'
  BY <1>4, <1>5 DEF RulesInv, PaysAsForced, BoardHasTiles, BoardsAreWhole
<1> QED BY <1>4, <1>6, <1>7 DEF RulesInv

\* Resolving pays what is forced.
LEMMA ResolveKeepsRules ==
  ASSUME RulesInv, ResolveRound
  PROVE  RulesInv'
<1>1. round.at = "decided" /\ Sel.game \in InstantGames
  BY DEF ResolveRound, Sel
<1>2. PICK d \in DrawsOf(Sel, round.forced) :
        round' = [round EXCEPT !.at = "resolved", !.pays = Resolve(Sel, round.forced, d, Grain)]
  BY DEF ResolveRound, Sel
<1>3. Sel \in Inputs /\ ValidateSelection(Sel) /\ round.forced \in Forcing
  BY <1>1 DEF RulesInv, SelectionKnown, RoundRecord
<1> DEFINE pays == Resolve(Sel, round.forced, d, Grain)
<1>4. pays \in Nat /\ (HouseEdge <= 2 /\ WholeTarget(Sel) => Obeys(pays, round.forced))
  BY <1>1, <1>3, ResolvePays
<1>5. round' = [round EXCEPT !.at = "resolved", !.pays = pays]
  BY <1>2
<1> HIDE DEF pays
<1>6. /\ RoundRecord' /\ round'.at = "resolved" /\ round'.selection = Sel /\ round'.board = round.board
      /\ round'.pays = pays /\ round'.forced = round.forced
  <2>1. RoundRecord
    BY DEF RulesInv
  <2> QED BY <1>4, <1>5, <2>1 DEF RoundRecord, Ats, Sel
<1>7. SelectionKnown'
  BY <1>3, <1>6 DEF SelectionKnown, Sel
<1>8. PaysAsForced'
  BY <1>4, <1>6 DEF PaysAsForced, Sel, WholeTarget, Obeys
<1>9. (BoardHasTiles /\ BoardsAreWhole)'
  BY <1>1, <1>6 DEF RulesInv, BoardHasTiles, BoardsAreWhole
<1> QED BY <1>6, <1>7, <1>8, <1>9 DEF RulesInv

\* A cap leaves an amount, and the round no board.
LEMMA CapKeepsRules ==
  ASSUME RulesInv, Cap
  PROVE  RulesInv'
<1> DEFINE pays == ApplyWinCap(round.pays, round.rule)
<1>1. round.at = "resolved" /\ round' = [round EXCEPT !.at = "done", !.pays = pays]
  BY DEF Cap
<1>2. pays \in Nat
  <2>1. round.pays \in Nat /\ round.rule \in Rules \cup {NoRule}
    BY DEF RulesInv, RoundRecord
  <2> QED BY <2>1, RuleHasCap DEF ApplyWinCap
<1> HIDE DEF pays
<1>3. RoundRecord' /\ round'.at = "done" /\ round'.selection = Sel /\ round'.board = round.board
  <2>1. RoundRecord
    BY DEF RulesInv
  <2> QED BY <1>1, <1>2, <2>1 DEF RoundRecord, Ats, Sel
<1>4. SelectionKnown'
  BY <1>1, <1>3 DEF RulesInv, SelectionKnown, Sel
<1>5. round'.board = {}
  BY <1>1, <1>3 DEF RulesInv, BoardHasTiles
<1>6. (PaysAsForced /\ BoardHasTiles /\ BoardsAreWhole)'
  BY <1>3, <1>5 DEF PaysAsForced, BoardHasTiles, BoardsAreWhole
<1> QED BY <1>3, <1>4, <1>6 DEF RulesInv

\* A round of Mines gets its board.
LEMMA LayMinesKeepsRules ==
  ASSUME RulesInv, LayMines
  PROVE  RulesInv'
<1>1. round.at = "decided" /\ Sel.game = "mines"
  BY DEF LayMines, Sel
<1>2. PICK draws \in ShuffleDraws(Tiles) :
        round' = [round EXCEPT !.at = "done",
                    !.board = {BuildMinesGrid(Sel.mineCount, draws, round.forced)}]
  BY DEF LayMines, Sel
<1> DEFINE b == BuildMinesGrid(Sel.mineCount, draws, round.forced)
<1>3. Sel.mineCount \in 1..Tiles - 1
  <2>1. ValidateSelection(Sel)
    BY <1>1 DEF RulesInv, SelectionKnown
  <2> QED BY <1>1, <2>1, SMT DEF ValidateSelection, ValidMineCount
<1>4. /\ b \subseteq 0..Tiles - 1 /\ Cardinality(b) = Sel.mineCount
      /\ round.forced = "loss" => HotSpots = <<>> \/ HotSpots[1] \in b
  BY <1>3, MinesBoard
<1>5. round' = [round EXCEPT !.at = "done", !.board = {b}]
  BY <1>2
<1> HIDE DEF b
<1>6. b \subseteq Nat /\ Cardinality(b) >= 1
  BY <1>3, <1>4, RulesAssumption
<1>7. /\ RoundRecord' /\ round'.at = "done" /\ round'.selection = Sel /\ round'.board = {b}
      /\ round'.forced = round.forced
  <2>1. b \subseteq Nat /\ RoundRecord
    BY <1>6 DEF RulesInv
  <2> QED BY <1>5, <2>1 DEF RoundRecord, Ats, Sel
<1>8. SelectionKnown'
  BY <1>1, <1>7 DEF RulesInv, SelectionKnown, Sel
<1>9. BoardsAreWhole'
  BY <1>1, <1>4, <1>7 DEF BoardsAreWhole, Sel
<1>10. (PaysAsForced /\ BoardHasTiles)'
  BY <1>6, <1>7 DEF PaysAsForced, BoardHasTiles
<1> QED BY <1>7, <1>8, <1>9, <1>10 DEF RulesInv

\* A round of Towers gets its floors.
LEMMA LayTowersKeepsRules ==
  ASSUME RulesInv, LayTowers
  PROVE  RulesInv'
<1>1. round.at = "decided" /\ Sel.game = "towers"
  BY DEF LayTowers, Sel
<1>2. PICK d \in Draws, draws \in ShuffleDraws(TowerTiles(Sel.difficulty)) :
        round' = [round EXCEPT !.at = "done",
                    !.board = {BuildTowersFloor(Sel.difficulty, d, Grain, draws)}]
  BY DEF LayTowers, Sel
<1> DEFINE b == BuildTowersFloor(Sel.difficulty, d, Grain, draws)
           n == TowerTiles(Sel.difficulty)
<1>3. Sel.difficulty \in TowerDifficulties
  <2>1. ValidateSelection(Sel)
    BY <1>1 DEF RulesInv, SelectionKnown
  <2> QED BY <1>1, <2>1, SMT DEF ValidateSelection, TowerDifficulties
<1>4. b \subseteq 0..n - 1 /\ Cardinality(b) \in 1..n - 1
  BY <1>3, TowersFloor
<1>5. round' = [round EXCEPT !.at = "done", !.board = {b}]
  BY <1>2
<1>6. n \in Nat
  BY DEF TowerTiles
<1> HIDE DEF b, n
<1>7. b \subseteq Nat /\ Cardinality(b) >= 1 /\ Cardinality(b) < n
  BY <1>4, <1>6
<1>8. RoundRecord' /\ round'.at = "done" /\ round'.selection = Sel /\ round'.board = {b}
  <2>1. b \subseteq Nat /\ RoundRecord
    BY <1>7 DEF RulesInv
  <2> QED BY <1>5, <2>1 DEF RoundRecord, Ats, Sel
<1>9. SelectionKnown'
  BY <1>1, <1>8 DEF RulesInv, SelectionKnown, Sel
<1>10. BoardsAreWhole'
  <2>1. Sel'.game # "mines" /\ TowerTiles(Sel'.difficulty) = n
    BY <1>1, <1>8 DEF Sel, n
  <2> QED BY <1>4, <1>7, <1>8, <2>1 DEF BoardsAreWhole
<1>11. (PaysAsForced /\ BoardHasTiles)'
  BY <1>7, <1>8 DEF PaysAsForced, BoardHasTiles
<1> QED BY <1>8, <1>9, <1>10, <1>11 DEF RulesInv

\* The invariant of a round.
LEMMA RulesInvariant == Spec => []RulesInv
<1>1. Init => RulesInv
  BY RulesInit
<1>2. RulesInv /\ [Next]_round => RulesInv'
  <2> SUFFICES ASSUME RulesInv, [Next]_round PROVE RulesInv'
    OBVIOUS
  <2>1. CASE UNCHANGED round
    BY <2>1 DEF RulesInv, RoundRecord, SelectionKnown, PaysAsForced, BoardHasTiles, BoardsAreWhole, Sel
  <2> QED BY <2>1, AskKeepsRules, DecideKeepsRules, ResolveKeepsRules, CapKeepsRules,
             LayMinesKeepsRules, LayTowersKeepsRules DEF Next
<1> QED BY <1>1, <1>2, PTL DEF Spec

---------------------------------------------------------------------------
(* How many draws lose *)

\* Of all draws a difficulty loses its percentage, rounded down to a draw.
LEMMA LostDraws ==
  ASSUME NEW k \in 0..100
  PROVE  Cardinality({d \in Draws : DecideFromDifficulty(k, d) = "loss"}) = (k * Grain) \div 100
<1> DEFINE lost == {d \in Draws : DecideFromDifficulty(k, d) = "loss"}
           p == k * Grain
           q == p \div 100
<1>1. Grain \in Nat /\ Grain > 0
  BY ResolverAssumption
<1>2. p \in Nat /\ p <= 100 * Grain /\ (k = 0 => p = 0) /\ (k = 100 => p = 100 * Grain)
      /\ (100 - k) * Grain = 100 * Grain - p
  BY <1>1
<1>3. q \in Nat /\ 100 * q <= p /\ p < 100 * (q + 1)
  <2> HIDE DEF p
  <2> QED BY <1>2
<1>4. q <= Grain
  <2> HIDE DEF p, q
  <2> QED BY <1>1, <1>2, <1>3
<1>5. ASSUME NEW d \in Draws
      PROVE  DecideFromDifficulty(k, d) = "loss" <=> d >= Grain - q
  <2>1. d \in Nat /\ d < Grain
    BY <1>1 DEF Draws
  <2>2. DecideFromDifficulty(k, d) = "loss" <=> k = 100 \/ (k > 0 /\ ~(100 * d < (100 - k) * Grain))
    <3>1. 100 - k \in 0..100
      OBVIOUS
    <3>2. CASE k = 0
      BY <3>2 DEF DecideFromDifficulty
    <3>3. CASE k = 100
      BY <3>3 DEF DecideFromDifficulty
    <3>4. CASE k > 0 /\ k < 100
      <4>1. DecideFromDifficulty(k, d) = Biased(100 - k, d)
        BY <3>4 DEF DecideFromDifficulty
      <4>2. Biased(100 - k, d) = IF 100 * d < (100 - k) * Grain THEN "win" ELSE "loss"
        BY <3>1 DEF Biased
      <4> QED BY <3>4, <4>1, <4>2
    <3> QED BY <3>2, <3>3, <3>4
  <2>3. DecideFromDifficulty(k, d) = "loss" <=> k = 100 \/ (k > 0 /\ 100 * d >= 100 * Grain - p)
    <3> HIDE DEF p
    <3> QED BY <1>1, <1>2, <2>1, <2>2
  <2> HIDE DEF p, q
  <2>4. 100 * d >= 100 * Grain - p <=> d >= Grain - q
    BY <1>1, <1>2, <1>3, <2>1
  <2>5. k = 100 => d >= Grain - q
    BY <1>1, <1>2, <1>3, <2>1
  <2>6. k = 0 => ~(d >= Grain - q)
    BY <1>1, <1>2, <1>3, <2>1
  <2> QED BY <2>3, <2>4, <2>5, <2>6
<1>6. lost = Grain - q..Grain - 1
  <2> DEFINE losing(d) == DecideFromDifficulty(k, d) = "loss"
  <2>1. \A d \in Draws : losing(d) <=> d >= Grain - q
    BY <1>5
  <2> HIDE DEF losing, q
  <2>2. {d \in Draws : losing(d)} = Grain - q..Grain - 1
    BY <1>1, <1>3, <1>4, <2>1 DEF Draws
  <2> QED BY <2>2 DEF losing
<1>7. Cardinality(Grain - q..Grain - 1) = q
  <2> HIDE DEF q
  <2>1. Grain - q \in Int /\ Grain - 1 \in Int
    BY <1>1, <1>3
  <2>2. Cardinality(Grain - q..Grain - 1)
          = IF Grain - q > Grain - 1 THEN 0 ELSE (Grain - 1) - (Grain - q) + 1
    BY <2>1, FS_Interval
  <2> QED BY <1>1, <1>3, <2>2
<1> QED BY <1>6, <1>7

\* A difficulty in effect is one that was set, or an end of the scale.
DifficultyIsSet == round.difficulty \in Difficulties \cup {0, 100}

\* The difficulty in effect is one that was set for player, profile or game, clamped.
LEMMA EffectiveIsSet ==
  ASSUME NEW perGame \in Difficulties \cup {Inherit}, NEW general \in Difficulties \cup {Inherit},
         NEW game \in Difficulties
  PROVE  EffectiveDifficulty(WalletDifficultyForGame(perGame, general), game) \in Difficulties \cup {0, 100}
<1> DEFINE profile == WalletDifficultyForGame(perGame, general)
           x == IF profile # Inherit THEN profile ELSE game
<1>1. x \in Difficulties
  BY DEF WalletDifficultyForGame
<1>2. x \in Int
  BY <1>1, ResolverAssumption
<1>3. EffectiveDifficulty(profile, game) = Clamp(x, 0, 100)
  BY DEF EffectiveDifficulty
<1> HIDE DEF x, profile
<1>4. Clamp(x, 0, 100) = IF x < 0 THEN 0 ELSE IF x > 100 THEN 100 ELSE x
  BY <1>2, ClampIs
<1>5. EffectiveDifficulty(profile, game) \in Difficulties \cup {0, 100}
  BY <1>1, <1>3, <1>4
<1> QED BY <1>5 DEF profile

\* Only Decide sets a difficulty, and Ask sets it back.
LEMMA DifficultyStaysSet == Spec => []DifficultyIsSet
<1>1. Init => DifficultyIsSet
  BY DEF Init, Blank, DifficultyIsSet
<1>2. RulesInv /\ DifficultyIsSet /\ [Next]_round => DifficultyIsSet'
  <2> SUFFICES ASSUME RulesInv, DifficultyIsSet, [Next]_round PROVE DifficultyIsSet'
    OBVIOUS
  <2>1. CASE Ask
    <3>1. round'.difficulty = 0
      BY <2>1 DEF Ask, Blank
    <3> QED BY <3>1 DEF DifficultyIsSet
  <2>2. CASE Decide
    <3>1. PICK rule \in Rules \cup {NoRule}, perGame \in Difficulties \cup {Inherit},
               general \in Difficulties \cup {Inherit}, game \in Difficulties, d \in Draws :
            LET k == EffectiveDifficulty(WalletDifficultyForGame(perGame, general), game)
            IN round' = [round EXCEPT !.at = "decided", !.rule = rule, !.difficulty = k,
                                      !.forced = ResolveControl(rule, k, d)]
      BY <2>2 DEF Decide
    <3> DEFINE k == EffectiveDifficulty(WalletDifficultyForGame(perGame, general), game)
               forced == ResolveControl(rule, k, d)
    <3>2. round' = [round EXCEPT !.at = "decided", !.rule = rule, !.difficulty = k, !.forced = forced]
      BY <3>1
    <3>3. k \in Difficulties \cup {0, 100}
      BY EffectiveIsSet
    <3> HIDE DEF k, forced
    <3>4. round'.difficulty = k
      BY <3>2 DEF RulesInv, RoundRecord
    <3> QED BY <3>3, <3>4 DEF DifficultyIsSet
  <2>3. CASE ResolveRound
    <3>1. round'.difficulty = round.difficulty
      BY <2>3 DEF ResolveRound, RulesInv, RoundRecord
    <3> QED BY <3>1 DEF DifficultyIsSet
  <2>4. CASE Cap
    <3>1. round'.difficulty = round.difficulty
      BY <2>4 DEF Cap, RulesInv, RoundRecord
    <3> QED BY <3>1 DEF DifficultyIsSet
  <2>5. CASE LayMines
    <3>1. round'.difficulty = round.difficulty
      BY <2>5 DEF LayMines, RulesInv, RoundRecord
    <3> QED BY <3>1 DEF DifficultyIsSet
  <2>6. CASE LayTowers
    <3>1. round'.difficulty = round.difficulty
      BY <2>6 DEF LayTowers, RulesInv, RoundRecord
    <3> QED BY <3>1 DEF DifficultyIsSet
  <2>7. CASE UNCHANGED round
    BY <2>7 DEF DifficultyIsSet
  <2> QED BY <2>1, <2>2, <2>3, <2>4, <2>5, <2>6, <2>7 DEF Next
<1> QED BY <1>1, <1>2, RulesInvariant, PTL DEF Spec

---------------------------------------------------------------------------
(* Recursion and products *)

\* The recursion behind a product.
Multiplies(p, f, n) == p = [k \in 0..n |-> IF k = 0 THEN 1 ELSE p[k - 1] * f[k]]

\* A product of whole numbers is the last of its partial products.
LEMMA ProductIs ==
  ASSUME NEW n \in Nat, NEW f, \A k \in 1..n : f[k] \in Int
  PROVE  \E p \in [0..n -> Int] : Multiplies(p, f, n) /\ ProductOf(f, n) = p[n]
<1> DEFINE step == [k \in Nat |-> [v \in Int |-> IF k \in 1..n THEN v * f[k] ELSE 0]]
<1>1. step \in [Nat -> [Int -> Int]]
  OBVIOUS
<1>2. PICK h \in [0..n -> Int] : h[0] = 1 /\ \A k \in 1..n : h[k] = step[k][h[k - 1]]
  <2> DEFINE base == 1
             V == Int
  <2>0. n \in Nat
    OBVIOUS
  <2>1. base \in V
    OBVIOUS
  <2>3. step \in [Nat -> [V -> V]]
    BY <1>1
  <2> HIDE DEF step, base, V
  <2>2. \E h : Steps(h, V, base, n, step)
    BY <2>0, <2>1, <2>3, RecursionExists
  <2> QED BY <2>2 DEF base, V, Steps
<1>3. \A k \in 1..n : h[k] = h[k - 1] * f[k]
  <2> SUFFICES ASSUME NEW k \in 1..n PROVE h[k] = h[k - 1] * f[k]
    OBVIOUS
  <2> DEFINE v == h[k - 1]
  <2>1. k - 1 \in 0..n /\ k \in Nat
    OBVIOUS
  <2>2. v \in Int
    BY <2>1
  <2>3. h[k] = step[k][v]
    BY <1>2
  <2> HIDE DEF v
  <2>4. step[k][v] = v * f[k]
    BY <2>1, <2>2
  <2> QED BY <2>3, <2>4 DEF v
<1>4. Multiplies(h, f, n)
  <2> DEFINE K == [k \in 0..n |-> IF k = 0 THEN 1 ELSE h[k - 1] * f[k]]
  <2>1. \A k \in 0..n : h[k] = K[k]
    BY <1>2, <1>3
  <2>2. h = K
    <3>1. DOMAIN h = 0..n /\ h = [k \in 0..n |-> h[k]]
      OBVIOUS
    <3> QED BY <2>1, <3>1
  <2> QED BY <2>2 DEF Multiplies
<1> DEFINE p == CHOOSE q : Multiplies(q, f, n)
<1>5. Multiplies(p, f, n)
  BY <1>4
<1>6. ProductOf(f, n) = p[n]
  BY DEF ProductOf, Multiplies
<1> HIDE DEF p
<1>7. p \in [0..n -> Int]
  <2> DEFINE G == {k \in Nat : k <= n => p[k] \in Int}
  <2>1. 0 \in G
    BY <1>5 DEF Multiplies
  <2>2. ASSUME NEW k \in Nat, k \in G PROVE k + 1 \in G
    <3> SUFFICES ASSUME k + 1 <= n PROVE p[k + 1] \in Int
      OBVIOUS
    <3>1. k + 1 \in 0..n /\ k + 1 # 0 /\ (k + 1) - 1 = k /\ k <= n /\ k + 1 \in 1..n
      OBVIOUS
    <3>2. p[k + 1] = p[k] * f[k + 1]
      BY <1>5, <3>1 DEF Multiplies
    <3>3. p[k] \in Int /\ f[k + 1] \in Int
      BY <2>2, <3>1
    <3> QED BY <3>2, <3>3
  <2>3. \A k \in Nat : k \in G
    <3> HIDE DEF G
    <3> QED BY <2>1, <2>2, NaturalInduction
  <2>4. \A k \in 0..n : p[k] \in Int
    BY <2>3
  <2>5. p = [k \in 0..n |-> p[k]]
    BY <1>5 DEF Multiplies
  <2> QED BY <2>4, <2>5
<1> QED BY <1>5, <1>6, <1>7

\* Partial products of functions that agree are the same.
LEMMA ProductsAgree ==
  ASSUME NEW n \in Nat, NEW m \in Nat, NEW f, NEW g, NEW p, NEW q,
         Multiplies(p, f, n), Multiplies(q, g, m),
         NEW i \in Nat, i <= n, i <= m, \A k \in 1..i : f[k] = g[k]
  PROVE  p[i] = q[i]
<1> DEFINE G == {k \in Nat : k <= i => p[k] = q[k]}
<1>1. 0 \in G
  BY DEF Multiplies
<1>2. ASSUME NEW k \in Nat, k \in G PROVE k + 1 \in G
  <2> SUFFICES ASSUME k + 1 <= i PROVE p[k + 1] = q[k + 1]
    OBVIOUS
  <2>1. k + 1 \in 0..n /\ k + 1 \in 0..m /\ k + 1 # 0 /\ (k + 1) - 1 = k /\ k <= i /\ k + 1 \in 1..i
    OBVIOUS
  <2>2. p[k + 1] = p[k] * f[k + 1] /\ q[k + 1] = q[k] * g[k + 1]
    BY <2>1 DEF Multiplies
  <2>3. p[k] = q[k] /\ f[k + 1] = g[k + 1]
    BY <1>2, <2>1
  <2> QED BY <2>2, <2>3
<1>3. \A k \in Nat : k \in G
  <2> HIDE DEF G
  <2> QED BY <1>1, <1>2, NaturalInduction
<1> QED BY <1>3

\* One factor more.
LEMMA ProductStep ==
  ASSUME NEW n \in Nat, NEW f, NEW g, \A k \in 1..n + 1 : f[k] \in Int, \A k \in 1..n : g[k] = f[k]
  PROVE  /\ ProductOf(g, n) \in Int
         /\ ProductOf(f, n + 1) = ProductOf(g, n) * f[n + 1]
<1>1. n + 1 \in Nat /\ (n + 1) - 1 = n /\ n + 1 # 0 /\ n + 1 \in 0..n + 1 /\ \A k \in 1..n : k \in 1..n + 1
  OBVIOUS
<1>2. PICK p \in [0..n + 1 -> Int] : Multiplies(p, f, n + 1) /\ ProductOf(f, n + 1) = p[n + 1]
  <2> DEFINE m == n + 1
  <2>1. m \in Nat /\ \A k \in 1..m : f[k] \in Int
    OBVIOUS
  <2> HIDE DEF m
  <2>2. \E p \in [0..m -> Int] : Multiplies(p, f, m) /\ ProductOf(f, m) = p[m]
    BY <2>1, ProductIs
  <2> QED BY <2>2 DEF m
<1>3. \A k \in 1..n : g[k] \in Int
  BY <1>1
<1>4. PICK q \in [0..n -> Int] : Multiplies(q, g, n) /\ ProductOf(g, n) = q[n]
  BY <1>3, ProductIs
<1>5. p[n] = q[n]
  <2> DEFINE m == n + 1
  <2>1. m \in Nat /\ n <= m /\ n <= n /\ \A k \in 1..n : f[k] = g[k]
    OBVIOUS
  <2>2. Multiplies(p, f, m) /\ Multiplies(q, g, n)
    BY <1>2, <1>4
  <2> HIDE DEF m
  <2> QED BY <2>1, <2>2, ProductsAgree
<1>6. p[n + 1] = p[n] * f[n + 1]
  BY <1>1, <1>2 DEF Multiplies
<1> QED BY <1>2, <1>4, <1>5, <1>6

\* The empty product.
LEMMA ProductEmpty ==
  ASSUME NEW f
  PROVE  ProductOf(f, 0) = 1
<1>1. PICK p \in [0..0 -> Int] : Multiplies(p, f, 0) /\ ProductOf(f, 0) = p[0]
  <2>1. \A k \in 1..0 : f[k] \in Int
    OBVIOUS
  <2> QED BY <2>1, ProductIs
<1> QED BY <1>1 DEF Multiplies

\* The odds are made of falling products: the next factor,
LEMMA FallingStep ==
  ASSUME NEW x \in Int, NEW n \in Nat
  PROVE  /\ Falling(x, 0) = 1
         /\ Falling(x, n) \in Int
         /\ Falling(x, n + 1) = Falling(x, n) * (x - n)
<1> DEFINE f == [i \in 1..n + 1 |-> x - i + 1]
           g == [i \in 1..n |-> x - i + 1]
<1>1. (\A k \in 1..n + 1 : f[k] \in Int) /\ (\A k \in 1..n : g[k] = f[k]) /\ f[n + 1] = x - n
  OBVIOUS
<1>2. Falling(x, n + 1) = ProductOf(f, n + 1) /\ Falling(x, n) = ProductOf(g, n)
  BY DEF Falling
<1>3. Falling(x, 0) = 1
  BY ProductEmpty DEF Falling
<1> HIDE DEF f, g
<1> QED BY <1>1, <1>2, <1>3, ProductStep

\* the first factor,
LEMMA FallingFirst ==
  ASSUME NEW x \in Int, NEW n \in Nat
  PROVE  Falling(x, n + 1) = x * Falling(x - 1, n)
<1> DEFINE G == {k \in Nat : Falling(x, k + 1) = x * Falling(x - 1, k)}
<1>1. 0 \in G
  <2>1. Falling(x, 0) = 1 /\ Falling(x, 0 + 1) = Falling(x, 0) * (x - 0) /\ Falling(x - 1, 0) = 1
    BY FallingStep
  <2> QED BY <2>1
<1>2. ASSUME NEW k \in Nat, k \in G PROVE k + 1 \in G
  <2> DEFINE a == Falling(x, k + 1)
             b == Falling(x - 1, k)
             c == Falling(x - 1, k + 1)
             d == Falling(x, (k + 1) + 1)
  <2>1. d = a * (x - (k + 1)) /\ c = b * ((x - 1) - k) /\ b \in Int
    BY FallingStep
  <2>2. a = x * b
    BY <1>2
  <2> HIDE DEF a, b, c, d
  <2>3. (x - (k + 1)) = ((x - 1) - k) /\ x - (k + 1) \in Int
    OBVIOUS
  <2> DEFINE y == x - (k + 1)
  <2>4. d = (x * b) * y /\ c = b * y /\ y \in Int
    BY <2>1, <2>2, <2>3
  <2> HIDE DEF y
  <2>5. (x * b) * y = x * (b * y)
    BY <2>1, <2>4
  <2>6. d = x * c
    BY <2>4, <2>5
  <2> QED BY <2>6 DEF c, d
<1>3. \A k \in Nat : k \in G
  <2> HIDE DEF G
  <2> QED BY <1>1, <1>2, NaturalInduction
<1> QED BY <1>3

\* and, for the choice of one more thing, both ways it may go.
LEMMA FallingChoice ==
  ASSUME NEW x \in Int, NEW n \in Nat
  PROVE  Falling(x, n + 1) = Falling(x - 1, n + 1) + (n + 1) * Falling(x - 1, n)
<1> DEFINE a == Falling(x - 1, n)
<1>1. Falling(x, n + 1) = x * a
  BY FallingFirst
<1>2. Falling(x - 1, n + 1) = a * ((x - 1) - n) /\ a \in Int
  BY FallingStep
<1> HIDE DEF a
<1>3. x * a = a * ((x - 1) - n) + (n + 1) * a
  BY <1>2
<1> QED BY <1>1, <1>2, <1>3 DEF a

\* They are positive up to their first factor, and zero past it.
LEMMA FallingSign ==
  ASSUME NEW x \in Nat, NEW n \in Nat
  PROVE  /\ n <= x => Falling(x, n) \in Nat /\ Falling(x, n) > 0
         /\ n > x => Falling(x, n) = 0
<1> DEFINE F(k) == Falling(x, k)
           G == {k \in Nat : (k <= x => F(k) \in Nat /\ F(k) > 0) /\ (k > x => F(k) = 0)}
<1>1. 0 \in G
  BY FallingStep
<1>2. ASSUME NEW k \in Nat, k \in G PROVE k + 1 \in G
  <2>1. F(k + 1) = F(k) * (x - k) /\ F(k) \in Int
    BY FallingStep
  <2> DEFINE u == F(k)
             v == F(k + 1)
             y == x - k
  <2>2. (k <= x => u \in Nat /\ u > 0) /\ (k > x => u = 0) /\ v = u * y /\ u \in Int /\ y \in Int
    BY <1>2, <2>1
  <2>3. ASSUME k + 1 <= x PROVE v \in Nat /\ v > 0
    <3>1. y \in Nat /\ y > 0 /\ u \in Nat /\ u > 0
      BY <2>2, <2>3
    <3> HIDE DEF u, v, y
    <3> QED BY <2>2, <3>1
  <2>4. ASSUME k + 1 > x PROVE v = 0
    <3>1. CASE k = x
      <4>1. y = 0
        BY <3>1
      <4> HIDE DEF u, v, y
      <4> QED BY <2>2, <4>1
    <3>2. CASE k > x
      <4> HIDE DEF v, y
      <4> QED BY <2>2, <3>2
    <3> QED BY <2>4, <3>1, <3>2
  <2> HIDE DEF F
  <2> QED BY <2>3, <2>4
<1>3. \A k \in Nat : k \in G
  <2> HIDE DEF G
  <2> QED BY <1>1, <1>2, NaturalInduction
<1> QED BY <1>3

\* A power is a product too.
LEMMA PowerType ==
  ASSUME NEW x \in Nat \ {0}, NEW n \in Nat
  PROVE  Power(x, n) \in Nat \ {0}
<1> DEFINE G == {k \in Nat : Power(x, k) \in Nat \ {0}}
<1>1. 0 \in G
  BY ProductEmpty DEF Power
<1>2. ASSUME NEW k \in Nat, k \in G PROVE k + 1 \in G
  <2> DEFINE f == [i \in 1..k + 1 |-> x]
             g == [i \in 1..k |-> x]
  <2>1. (\A i \in 1..k + 1 : f[i] \in Int) /\ (\A i \in 1..k : g[i] = f[i]) /\ f[k + 1] = x
    OBVIOUS
  <2>2. Power(x, k + 1) = ProductOf(f, k + 1) /\ Power(x, k) = ProductOf(g, k)
    BY DEF Power
  <2> HIDE DEF f, g
  <2>3. Power(x, k + 1) = Power(x, k) * x
    BY <2>1, <2>2, ProductStep
  <2> DEFINE u == Power(x, k)
  <2>4. u \in Nat \ {0}
    BY <1>2
  <2> HIDE DEF u
  <2>5. u * x \in Nat \ {0}
    BY <2>4
  <2> QED BY <2>3, <2>5 DEF u
<1>3. \A k \in Nat : k \in G
  <2> HIDE DEF G
  <2> QED BY <1>1, <1>2, NaturalInduction
<1> QED BY <1>3

---------------------------------------------------------------------------
(* One draw of a shuffle *)

\* Where the items are after two of them changed places.
LEMMA SwapIs ==
  ASSUME NEW n \in Nat, NEW s, DOMAIN s = 1..n, NEW i \in 1..n, NEW j \in 1..n
  PROVE  /\ DOMAIN Swapped(s, i, j) = 1..n
         /\ \A k \in 1..n : Swapped(s, i, j)[k] = IF k = i THEN s[j] ELSE IF k = j THEN s[i] ELSE s[k]
BY DEF Swapped

\* The first n items, or draws.
Cut(s, n) == [i \in 1..n |-> s[i]]

\* The draws g, and then one more for item n.
Drawn(g, n, j) == [i \in 1..n |-> IF i = n THEN j ELSE g[i]]

\* Draws for one item more are draws and one more of them.
LEMMA DrawsGrow ==
  ASSUME NEW n \in Nat \ {0}, NEW j \in 0..n, NEW g \in ShuffleDraws(n)
  PROVE  /\ Drawn(g, n, j) \in ShuffleDraws(n + 1)
         /\ Drawn(g, n, j)[n] = j
         /\ Cut(Drawn(g, n, j), n - 1) = g
<1> DEFINE d == Drawn(g, n, j)
<1>1. \A i \in 1..n - 1 : i \in 1..n /\ i # n /\ g[i] \in 0..n - 1 /\ g[i] <= i
  BY DEF ShuffleDraws
<1>2. n \in 1..n /\ (n + 1) - 1 = n
  OBVIOUS
<1>3. \A i \in 1..n : d[i] = IF i = n THEN j ELSE g[i]
  BY DEF Drawn
<1>4. ASSUME NEW i \in 1..n PROVE d[i] \in 0..n /\ d[i] <= i
  <2>1. CASE i = n
    BY <1>3, <2>1
  <2>2. CASE i # n
    <3>1. i \in 1..n - 1
      BY <2>2
    <3>2. d[i] = g[i] /\ g[i] \in 0..n - 1 /\ g[i] <= i
      BY <1>1, <1>3, <2>2, <3>1
    <3> QED BY <3>2
  <2> QED BY <2>1, <2>2
<1>5. d \in [1..n -> 0..n]
  <2>1. d = [i \in 1..n |-> d[i]]
    BY DEF Drawn
  <2> HIDE DEF d
  <2> QED BY <1>4, <2>1
<1>6. d \in ShuffleDraws(n + 1)
  <2> HIDE DEF d
  <2> QED BY <1>2, <1>4, <1>5 DEF ShuffleDraws
<1>7. Cut(d, n - 1) = g
  <2>1. \A i \in 1..n - 1 : d[i] = g[i]
    BY <1>1, <1>3
  <2>2. g = [i \in 1..n - 1 |-> g[i]]
    BY DEF ShuffleDraws
  <2> HIDE DEF d
  <2> QED BY <2>1, <2>2 DEF Cut
<1> QED BY <1>2, <1>3, <1>6, <1>7

\* The other way round.
LEMMA DrawsShrink ==
  ASSUME NEW n \in Nat \ {0}, NEW draws \in ShuffleDraws(n + 1)
  PROVE  /\ draws[n] \in 0..n
         /\ \A i \in 1..n : draws[i] \in 0..i
         /\ Cut(draws, n - 1) \in ShuffleDraws(n)
         /\ draws = Drawn(Cut(draws, n - 1), n, draws[n])
<1> DEFINE g == Cut(draws, n - 1)
<1>1. (n + 1) - 1 = n /\ n \in 1..n
  OBVIOUS
<1>2. draws \in [1..n -> 0..n] /\ \A i \in 1..n : draws[i] <= i
  BY <1>1 DEF ShuffleDraws
<1>3. \A i \in 1..n : draws[i] \in 0..i
  BY <1>2
<1>4. \A i \in 1..n - 1 : g[i] = draws[i] /\ i \in 1..n
  BY DEF Cut
<1>5. \A i \in 1..n - 1 : g[i] \in 0..n - 1 /\ g[i] <= i
  <2> SUFFICES ASSUME NEW i \in 1..n - 1 PROVE g[i] \in 0..n - 1 /\ g[i] <= i
    OBVIOUS
  <2>1. g[i] = draws[i] /\ i \in 1..n
    BY <1>4
  <2>2. g[i] \in 0..i
    BY <1>3, <2>1
  <2> HIDE DEF g
  <2> QED BY <2>2
<1>6. g \in ShuffleDraws(n)
  <2>1. g = [i \in 1..n - 1 |-> g[i]]
    BY DEF Cut
  <2> HIDE DEF g
  <2> QED BY <1>5, <2>1 DEF ShuffleDraws
<1>7. draws = Drawn(g, n, draws[n])
  <2>1. draws = [i \in 1..n |-> draws[i]]
    BY <1>2
  <2>2. \A i \in 1..n : draws[i] = IF i = n THEN draws[n] ELSE g[i]
    <3> SUFFICES ASSUME NEW i \in 1..n, i # n PROVE draws[i] = g[i]
      OBVIOUS
    <3>1. i \in 1..n - 1
      OBVIOUS
    <3> HIDE DEF g
    <3> QED BY <1>4, <3>1
  <2> HIDE DEF g
  <2> QED BY <2>1, <2>2 DEF Drawn
<1> QED BY <1>1, <1>3, <1>6, <1>7

\* The first draw lays the last item, and the others shuffle those before it.
LEMMA ShuffleTail ==
  ASSUME NEW n \in Nat \ {0}, NEW items, DOMAIN items = 1..n + 1, Len(items) = n + 1,
         NEW draws \in ShuffleDraws(n + 1)
  PROVE  LET laid == Swapped(items, n + 1, draws[n] + 1)
             shuffled == SeededShuffle(items, draws)
             before == SeededShuffle(Cut(laid, n), Cut(draws, n - 1))
         IN /\ shuffled[n + 1] = laid[n + 1]
            /\ \A i \in 1..n : shuffled[i] = before[i]
<1> DEFINE laid == Swapped(items, n + 1, draws[n] + 1)
           rest == Cut(laid, n)
           g == Cut(draws, n - 1)
           m == n + 1
<1>1. m \in Nat \ {0} /\ m - 1 = n /\ n \in 1..n /\ m \in 1..m
  OBVIOUS
<1>2. \A i \in 1..n : draws[i] \in 0..i
  BY DrawsShrink
<1>3. draws[n] + 1 \in 1..m
  <2>1. draws[n] \in 0..n
    BY <1>1, <1>2
  <2> QED BY <2>1
<1>4. DOMAIN laid = 1..m
  <2>1. DOMAIN items = 1..m
    OBVIOUS
  <2> DEFINE j == draws[n] + 1
  <2>2. j \in 1..m
    BY <1>3
  <2> HIDE DEF m, j
  <2>3. DOMAIN Swapped(items, m, j) = 1..m
    BY <1>1, <2>1, <2>2, SwapIs
  <2> QED BY <2>3 DEF j, m
<1>5. PICK h : Shuffling(h, items, draws, m, n) /\ SeededShuffle(items, draws) = h[n]
  <2>1. Len(items) = m
    OBVIOUS
  <2> HIDE DEF m
  <2>2. \E h : Shuffling(h, items, draws, m, m - 1) /\ SeededShuffle(items, draws) = h[m - 1]
    BY <1>1, <2>1, ShuffleIs
  <2> QED BY <1>1, <2>2
<1>6. Len(rest) = n /\ DOMAIN rest = 1..n
  BY DEF Cut
<1>7. PICK k : Shuffling(k, rest, g, n, n - 1) /\ SeededShuffle(rest, g) = k[n - 1]
  <2> HIDE DEF rest, g
  <2> QED BY <1>6, ShuffleIs
<1>8. h[1] = laid
  <2>1. 1 \in 0..n /\ 0 \in 0..n /\ m - 1 + 1 = m
    OBVIOUS
  <2>2. h[1] = Swapped(h[0], m - 1 + 1, draws[m - 1] + 1) /\ h[0] = items
    BY <1>5, <2>1 DEF Shuffling
  <2> QED BY <1>1, <2>1, <2>2
<1>9. k[0] = rest
  BY <1>7 DEF Shuffling
<1> DEFINE Same(i) == /\ DOMAIN h[i + 1] = 1..m /\ DOMAIN k[i] = 1..n
                      /\ h[i + 1][m] = laid[m]
                      /\ \A x \in 1..n : h[i + 1][x] = k[i][x]
           G == {i \in Nat : i <= n - 1 => Same(i)}
<1>10. 0 \in G
  <2>1. \A x \in 1..n : laid[x] = rest[x]
    BY DEF Cut
  <2>2. 0 + 1 = 1
    OBVIOUS
  <2> HIDE DEF laid, rest, m
  <2>3. Same(0)
    BY <1>4, <1>6, <1>8, <1>9, <2>1, <2>2
  <2> QED BY <2>3
<1>11. ASSUME NEW i \in Nat, i \in G PROVE i + 1 \in G
  <2> SUFFICES ASSUME i + 1 <= n - 1 PROVE Same(i + 1)
    <3> HIDE DEF Same
    <3> QED OBVIOUS
  <2> DEFINE a == h[i + 1]
             b == k[i]
             p == n - i
             q == draws[p - 1] + 1
             a1 == h[i + 2]
             b1 == k[i + 1]
  <2>1. Same(i)
    BY <1>11
  <2>2. /\ i + 2 \in 0..n /\ i + 2 # 0 /\ i + 1 \in 0..n - 1 /\ i + 1 # 0
        /\ (i + 2) - 1 = i + 1 /\ (i + 1) - 1 = i /\ (i + 1) + 1 = i + 2
        /\ m - (i + 2) + 1 = p /\ m - (i + 2) = p - 1
        /\ n - (i + 1) + 1 = p /\ n - (i + 1) = p - 1
        /\ p \in 2..n /\ p - 1 \in 1..n - 1 /\ p - 1 \in 1..n
    OBVIOUS
  <2>3. q \in 1..p
    <3>1. draws[p - 1] \in 0..p - 1
      BY <1>2, <2>2
    <3> HIDE DEF p
    <3> QED BY <2>2, <3>1
  <2>4. a1 = Swapped(a, p, q)
    <3>1. h[i + 2] = Swapped(h[(i + 2) - 1], m - (i + 2) + 1, draws[m - (i + 2)] + 1)
      <4> HIDE DEF m
      <4> QED BY <1>5, <2>2 DEF Shuffling
    <3> HIDE DEF p, m
    <3> QED BY <2>2, <3>1
  <2>5. b1 = Swapped(b, p, q)
    <3>1. k[i + 1] = Swapped(k[(i + 1) - 1], n - (i + 1) + 1, g[n - (i + 1)] + 1)
      <4> HIDE DEF g, rest
      <4> QED BY <1>7, <2>2 DEF Shuffling
    <3>2. g[p - 1] = draws[p - 1]
      <4> HIDE DEF p
      <4> QED BY <2>2 DEF Cut
    <3> HIDE DEF p, g
    <3> QED BY <2>2, <3>1, <3>2
  <2>6. DOMAIN a = 1..m /\ DOMAIN b = 1..n /\ a[m] = laid[m] /\ \A x \in 1..n : a[x] = b[x]
    BY <2>1
  <2>7. p \in 1..n /\ q \in 1..n /\ p \in 1..m /\ q \in 1..m /\ p # m /\ q # m
    <3> HIDE DEF q, p
    <3> QED BY <2>2, <2>3
  <2> HIDE DEF a, b, p, q, a1, b1, laid, rest, g
  <2>8. DOMAIN a1 = 1..m /\ \A x \in 1..m : a1[x] = IF x = p THEN a[q] ELSE IF x = q THEN a[p] ELSE a[x]
    <3>1. m \in Nat /\ DOMAIN a = 1..m /\ p \in 1..m /\ q \in 1..m
      BY <1>1, <2>6, <2>7
    <3> HIDE DEF m
    <3>2. /\ DOMAIN Swapped(a, p, q) = 1..m
          /\ \A x \in 1..m : Swapped(a, p, q)[x] = IF x = p THEN a[q] ELSE IF x = q THEN a[p] ELSE a[x]
      BY <3>1, SwapIs
    <3> QED BY <2>4, <3>2
  <2>9. DOMAIN b1 = 1..n /\ \A x \in 1..n : b1[x] = IF x = p THEN b[q] ELSE IF x = q THEN b[p] ELSE b[x]
    <3> DEFINE l == n
    <3>1. l \in Nat /\ DOMAIN b = 1..l /\ p \in 1..l /\ q \in 1..l
      BY <2>6, <2>7
    <3> HIDE DEF l, m
    <3>2. /\ DOMAIN Swapped(b, p, q) = 1..l
          /\ \A x \in 1..l : Swapped(b, p, q)[x] = IF x = p THEN b[q] ELSE IF x = q THEN b[p] ELSE b[x]
      BY <3>1, SwapIs
    <3> QED BY <2>5, <3>2 DEF l
  <2>10. a1[m] = laid[m]
    BY <1>1, <2>6, <2>7, <2>8
  <2>11. \A x \in 1..n : x \in 1..m
    OBVIOUS
  <2>12. \A x \in 1..n : a1[x] = b1[x]
    BY <2>6, <2>7, <2>8, <2>9, <2>11
  <2>13. h[(i + 1) + 1] = a1 /\ k[i + 1] = b1
    BY <2>2 DEF a1, b1
  <2> QED BY <2>8, <2>9, <2>10, <2>12, <2>13
<1>12. \A i \in Nat : i \in G
  <2> HIDE DEF G
  <2> QED BY <1>10, <1>11, NaturalInduction
<1>13. Same(n - 1)
  <2>1. n - 1 \in Nat /\ n - 1 <= n - 1
    OBVIOUS
  <2> HIDE DEF Same
  <2> QED BY <1>12, <2>1
<1>14. (n - 1) + 1 = n
  OBVIOUS
<1>15. h[n][m] = laid[m] /\ \A x \in 1..n : h[n][x] = k[n - 1][x]
  BY <1>13, <1>14
<1> QED BY <1>5, <1>7, <1>15

---------------------------------------------------------------------------
(* Counting shuffles *)

\* The positions, of the first n, that hold a member of B.
InB(items, n, B) == {i \in 1..n : items[i] \in B}

\* Laying an item takes it from those that are left.
LEMMA LaidLeaves ==
  ASSUME NEW n \in Nat \ {0}, NEW items, DOMAIN items = 1..n + 1, NEW k \in 1..n + 1, NEW B
  PROVE  LET rest == Cut(Swapped(items, n + 1, k), n)
             held == Cardinality(InB(items, n + 1, B))
         IN /\ Swapped(items, n + 1, k)[n + 1] = items[k]
            /\ \A V : items \in [1..n + 1 -> V] => rest \in [1..n -> V]
            /\ held \in 0..n + 1
            /\ Cardinality(InB(rest, n, B)) = IF items[k] \in B THEN held - 1 ELSE held
<1> DEFINE m == n + 1
           laid == Swapped(items, m, k)
           rest == Cut(laid, n)
           old == InB(items, m, B)
           new == InB(rest, n, B)
<1>1. m \in Nat /\ m \in 1..m /\ k \in 1..m /\ DOMAIN items = 1..m
  OBVIOUS
<1>2. \A i \in 1..m : laid[i] = IF i = m THEN items[k] ELSE IF i = k THEN items[m] ELSE items[i]
  <2> DEFINE s == items
             i == m
             j == k
  <2>1. m \in Nat /\ DOMAIN s = 1..m /\ i \in 1..m /\ j \in 1..m
    BY <1>1
  <2> HIDE DEF m, i, j, s
  <2>2. /\ DOMAIN Swapped(s, i, j) = 1..m
        /\ \A x \in 1..m : Swapped(s, i, j)[x] = IF x = i THEN s[j] ELSE IF x = j THEN s[i] ELSE s[x]
    BY <2>1, SwapIs
  <2> QED BY <2>2 DEF i, j, s
<1>3. \A i \in 1..n : i \in 1..m /\ i # m
  OBVIOUS
<1>4. \A i \in 1..n : rest[i] = IF i = k THEN items[m] ELSE items[i]
  <2>1. \A i \in 1..n : rest[i] = laid[i]
    BY DEF Cut
  <2> HIDE DEF laid, rest, m
  <2> QED BY <1>2, <1>3, <2>1
<1>5. \A V : items \in [1..m -> V] => rest \in [1..n -> V]
  <2> SUFFICES ASSUME NEW V, items \in [1..m -> V] PROVE rest \in [1..n -> V]
    OBVIOUS
  <2>1. \A i \in 1..n : rest[i] \in V
    <3> HIDE DEF m, rest
    <3> QED BY <1>1, <1>3, <1>4
  <2>2. rest = [i \in 1..n |-> rest[i]]
    BY DEF Cut
  <2> HIDE DEF rest
  <2> QED BY <2>1, <2>2
<1>6. IsFiniteSet(old) /\ Cardinality(old) \in 0..m
  <2>1. IsFiniteSet(1..m) /\ Cardinality(1..m) = m
    <3> HIDE DEF m
    <3> QED BY <1>1, FS_Interval
  <2> DEFINE D == 1..m
  <2>2. old \in SUBSET D
    BY DEF InB
  <2> HIDE DEF D, old
  <2>3. IsFiniteSet(old) /\ Cardinality(old) <= Cardinality(D) /\ Cardinality(old) \in Nat
    <3>1. IsFiniteSet(D)
      BY <2>1 DEF D
    <3>2. IsFiniteSet(old) /\ Cardinality(old) <= Cardinality(D)
      BY <2>2, <3>1, FS_Subset
    <3> QED BY <3>2, FS_CardinalityType
  <2>4. Cardinality(D) = m
    BY <2>1 DEF D
  <2> HIDE DEF m
  <2> QED BY <1>1, <2>3, <2>4
<1>7. \A i \in 1..n : i \in new <=> IF i = k THEN items[m] \in B ELSE items[i] \in B
  <2> HIDE DEF rest
  <2> QED BY <1>4 DEF InB
<1>8. new \subseteq 1..n /\ old \subseteq 1..m /\ 1..m = 1..n \cup {m} /\ m \notin 1..n
  BY DEF InB
<1>9. \A i \in 1..m : i \in old <=> items[i] \in B
  BY DEF InB
<1>10. CASE items[k] \in B
  <2>1. \E x \in old : new = old \ {x}
    <3> HIDE DEF m, old, new
    <3>1. CASE k = m \/ items[m] \in B
      <4>1. m \in old
        BY <1>1, <1>9, <1>10, <3>1
      <4>2. new = old \ {m}
        BY <1>3, <1>7, <1>8, <1>9, <1>10, <3>1
      <4> QED BY <4>1, <4>2
    <3>2. CASE k # m /\ items[m] \notin B
      <4>1. k \in old
        BY <1>1, <1>9, <1>10
      <4>2. new = old \ {k}
        BY <1>3, <1>7, <1>8, <1>9, <1>10, <3>2
      <4> QED BY <4>1, <4>2
    <3> QED BY <3>1, <3>2
  <2> HIDE DEF old, new
  <2>2. Cardinality(new) = Cardinality(old) - 1
    BY <1>6, <2>1, FS_RemoveElement
  <2> QED BY <1>1, <1>2, <1>5, <1>6, <1>10, <2>2 DEF old, new
<1>11. CASE items[k] \notin B
  <2>1. Cardinality(new) = Cardinality(old)
    <3> HIDE DEF m, old, new
    <3>1. CASE k = m \/ items[m] \notin B
      <4>1. new = old
        BY <1>1, <1>3, <1>7, <1>8, <1>9, <1>11, <3>1
      <4> QED BY <4>1
    <3>2. CASE k # m /\ items[m] \in B
      <4>1. m \in old /\ k \notin old \ {m}
        BY <1>1, <1>9, <1>11, <3>2
      <4>2. new = (old \ {m}) \cup {k}
        BY <1>1, <1>3, <1>7, <1>8, <1>9, <1>11, <3>2
      <4>3. IsFiniteSet(old \ {m}) /\ Cardinality(old \ {m}) = Cardinality(old) - 1
        BY <1>6, <4>1, FS_RemoveElement
      <4>4. Cardinality((old \ {m}) \cup {k}) = Cardinality(old \ {m}) + 1
        BY <4>1, <4>3, FS_AddElement
      <4> QED BY <1>1, <1>6, <4>2, <4>3, <4>4
    <3> QED BY <3>1, <3>2
  <2> HIDE DEF old, new
  <2> QED BY <1>1, <1>2, <1>5, <1>6, <1>11, <2>1 DEF old, new
<1> QED BY <1>10, <1>11

\* The shuffles after which the first c items are none of B.
Avoiding(items, n, c, B) ==
  {draws \in ShuffleDraws(n) : \A i \in 1..c : SeededShuffle(items, draws)[i] \notin B}

\* Those whose first draw is j.
Part(items, n, c, B, j) == {draws \in Avoiding(items, n + 1, c, B) : draws[n] = j}

\* What is left to shuffle after that draw.
Left(items, n, j) == Cut(Swapped(items, n + 1, j + 1), n)

\* A first draw leaves what avoids B among the items before it, or nothing.
LEMMA OneDraw ==
  ASSUME NEW n \in Nat \ {0}, NEW items, DOMAIN items = 1..n + 1, Len(items) = n + 1,
         NEW c \in 0..n + 1, NEW B, NEW j \in 0..n, NEW e, e = (IF c <= n THEN c ELSE n),
         IsFiniteSet(Avoiding(Left(items, n, j), n, e, B))
  PROVE  /\ IsFiniteSet(Part(items, n, c, B, j))
         /\ Cardinality(Part(items, n, c, B, j))
              = IF c = n + 1 /\ items[j + 1] \in B THEN 0
                ELSE Cardinality(Avoiding(Left(items, n, j), n, e, B))
<1> DEFINE safe == Avoiding(Left(items, n, j), n, e, B)
           part == Part(items, n, c, B, j)
<1>1. /\ e \in 0..n /\ (\A i \in 1..c : i \in 1..e \/ (i = n + 1 /\ c = n + 1))
      /\ (\A i \in 1..e : i \in 1..c /\ i \in 1..n) /\ (c = n + 1 => n + 1 \in 1..c)
  OBVIOUS
<1>2. Swapped(items, n + 1, j + 1)[n + 1] = items[j + 1]
  <2> DEFINE k == j + 1
  <2>1. k \in 1..n + 1
    OBVIOUS
  <2> HIDE DEF k
  <2>2. Swapped(items, n + 1, k)[n + 1] = items[k]
    BY <2>1, LaidLeaves
  <2> QED BY <2>2 DEF k
<1>3. ASSUME NEW draws \in ShuffleDraws(n + 1), draws[n] = j
      PROVE  draws \in part <=> /\ c = n + 1 => items[j + 1] \notin B
                                /\ Cut(draws, n - 1) \in safe
  <2> DEFINE shuffled == SeededShuffle(items, draws)
             before == SeededShuffle(Left(items, n, j), Cut(draws, n - 1))
  <2>1. shuffled[n + 1] = items[j + 1] /\ \A i \in 1..n : shuffled[i] = before[i]
    BY <1>2, <1>3, ShuffleTail DEF Left
  <2>2. Cut(draws, n - 1) \in ShuffleDraws(n)
    BY DrawsShrink
  <2>3. draws \in part <=> \A i \in 1..c : shuffled[i] \notin B
    BY <1>3 DEF Part, Avoiding
  <2>4. Cut(draws, n - 1) \in safe <=> \A i \in 1..e : before[i] \notin B
    BY <2>2 DEF Avoiding
  <2> HIDE DEF part, safe, shuffled, before
  <2>5. (\A i \in 1..c : shuffled[i] \notin B)
          => (c = n + 1 => items[j + 1] \notin B) /\ \A i \in 1..e : before[i] \notin B
    BY <1>1, <2>1
  <2>6. ASSUME c = n + 1 => items[j + 1] \notin B, \A i \in 1..e : before[i] \notin B
        PROVE  \A i \in 1..c : shuffled[i] \notin B
    BY <1>1, <2>1, <2>6
  <2> QED BY <2>3, <2>4, <2>5, <2>6
<1>4. CASE c = n + 1 /\ items[j + 1] \in B
  <2>1. part = {}
    <3>1. \A draws \in part : draws \in ShuffleDraws(n + 1) /\ draws[n] = j
      BY DEF Part, Avoiding
    <3> HIDE DEF part, safe
    <3> QED BY <1>3, <1>4, <3>1
  <2> QED BY <1>4, <2>1, FS_EmptySet
<1>5. CASE ~(c = n + 1 /\ items[j + 1] \in B)
  <2> DEFINE f == [g \in safe |-> Drawn(g, n, j)]
  <2>1. \A g \in safe : g \in ShuffleDraws(n)
    BY DEF Avoiding
  <2>2. \A g \in safe : f[g] = Drawn(g, n, j)
    OBVIOUS
  <2>3. \A g \in safe : /\ f[g] \in ShuffleDraws(n + 1) /\ f[g][n] = j
                        /\ Cut(f[g], n - 1) = g
    <3> SUFFICES ASSUME NEW g \in safe
                 PROVE  /\ f[g] \in ShuffleDraws(n + 1) /\ f[g][n] = j
                        /\ Cut(f[g], n - 1) = g
      OBVIOUS
    <3>1. g \in ShuffleDraws(n) /\ f[g] = Drawn(g, n, j)
      BY <2>1
    <3> HIDE DEF f, safe
    <3>2. /\ Drawn(g, n, j) \in ShuffleDraws(n + 1) /\ Drawn(g, n, j)[n] = j
          /\ Cut(Drawn(g, n, j), n - 1) = g
      BY <3>1, DrawsGrow
    <3> QED BY <3>1, <3>2
  <2>4. \A g, k \in safe : f[g] = f[k] => g = k
    <3> HIDE DEF f, safe
    <3> QED BY <2>3
  <2>5. part = {f[g] : g \in safe}
    <3>1. \A draws \in part : draws \in ShuffleDraws(n + 1) /\ draws[n] = j
      BY DEF Part, Avoiding
    <3>2. ASSUME NEW draws \in part PROVE \E g \in safe : draws = f[g]
      <4>1. Cut(draws, n - 1) \in safe
        <5> HIDE DEF part, safe
        <5> QED BY <1>3, <3>1
      <4>2. draws = Drawn(Cut(draws, n - 1), n, j)
        <5>1. draws \in ShuffleDraws(n + 1) /\ draws[n] = j
          BY <3>1
        <5> QED BY <5>1, DrawsShrink
      <4> HIDE DEF f, safe, part
      <4> QED BY <2>2, <4>1, <4>2
    <3>3. ASSUME NEW g \in safe PROVE f[g] \in part
      <4>1. f[g] \in ShuffleDraws(n + 1) /\ f[g][n] = j /\ Cut(f[g], n - 1) \in safe
        <5> HIDE DEF f, safe
        <5> QED BY <2>3
      <4> HIDE DEF f, safe, part
      <4> QED BY <1>3, <1>5, <4>1
    <3> HIDE DEF f, safe, part
    <3> QED BY <3>2, <3>3
  <2>6. IsFiniteSet(safe)
    OBVIOUS
  <2> HIDE DEF f, safe, part
  <2>7. IsFiniteSet({f[g] : g \in safe}) /\ Cardinality({f[g] : g \in safe}) = Cardinality(safe)
    BY <2>4, <2>6, ImageSize
  <2> QED BY <1>5, <2>5, <2>7 DEF part, safe
<1> QED BY <1>4, <1>5

\* The shuffles that fairness asks for: b members of B among n items, c of them not in B.
FairShare(n, c, b) == Falling(n - c, b) * Falling(n - b, n - b)

\* Those left by a first draw that lays a member of B, x, and by one that does not, y.
SharesLeft(n, c, b, x, y) ==
  LET e == IF c <= n THEN c ELSE n
  IN /\ b > 0 => x = IF c = n + 1 THEN 0 ELSE FairShare(n, e, b - 1)
     /\ b < n + 1 => y = FairShare(n, e, b)

\* All first draws together leave a fair share again.
LEMMA FairShareGrows ==
  ASSUME NEW n \in Nat \ {0}, NEW c \in 0..n + 1, NEW b \in 0..n + 1,
         NEW x \in Nat, NEW y \in Nat, SharesLeft(n, c, b, x, y)
  PROVE  b * x + (n + 1 - b) * y = FairShare(n + 1, c, b)
<1> DEFINE m == n + 1
           e == IF c <= n THEN c ELSE n
           K(i) == Falling(i, i)
<1>0. /\ b > 0 => x = IF c = n + 1 THEN 0 ELSE FairShare(n, e, b - 1)
      /\ b < n + 1 => y = FairShare(n, e, b)
  BY DEF SharesLeft
<1>1. \A i \in Nat : K(i) \in Int /\ K(i + 1) = (i + 1) * K(i)
  <2> SUFFICES ASSUME NEW i \in Nat PROVE K(i) \in Int /\ K(i + 1) = (i + 1) * K(i)
    OBVIOUS
  <2>1. K(i) \in Int
    BY FallingStep
  <2>2. Falling(i + 1, i + 1) = (i + 1) * Falling((i + 1) - 1, i)
    BY FallingFirst
  <2>3. (i + 1) - 1 = i
    OBVIOUS
  <2> QED BY <2>1, <2>2, <2>3
<1>2. \A i \in Int : Falling(i, 0) = 1
  BY FallingStep
<1>3. FairShare(m, c, b) = Falling(m - c, b) * K(m - b)
  BY DEF FairShare
<1>4. CASE b = 0
  <2>1. y = Falling(n - e, 0) * K(n)
    BY <1>0, <1>4 DEF FairShare
  <2>2. y = K(n) /\ K(n + 1) = (n + 1) * K(n)
    <3>1. Falling(n - e, 0) = 1 /\ K(n) \in Int /\ K(n + 1) = (n + 1) * K(n)
      <4>1. n \in Nat /\ n - e \in Int
        OBVIOUS
      <4> HIDE DEF K
      <4> QED BY <1>1, <1>2, <4>1
    <3> DEFINE k == K(n)
    <3> HIDE DEF k
    <3>2. 1 * k = k
      BY <3>1 DEF k
    <3> QED BY <2>1, <3>1, <3>2 DEF k
  <2>3. FairShare(m, c, b) = K(m)
    <3>1. Falling(m - c, 0) = 1 /\ K(m) \in Int
      BY <1>1, <1>2
    <3> DEFINE k == K(m)
    <3>2. FairShare(m, c, b) = 1 * k
      BY <1>3, <1>4, <3>1
    <3> HIDE DEF k, m
    <3> QED BY <3>1, <3>2 DEF k
  <2>4. b * x = 0 /\ n + 1 - b = n + 1
    BY <1>4
  <2> DEFINE k == K(n)
             k1 == K(n + 1)
  <2>5. y = k /\ k1 = (n + 1) * k /\ FairShare(n + 1, c, b) = k1
    BY <2>2, <2>3
  <2> HIDE DEF k, k1
  <2> QED BY <2>4, <2>5
<1>5. CASE b > 0 /\ c = m
  <2>1. x = 0 /\ e = n
    BY <1>0, <1>5
  <2>2. Falling(0, b) = 0
    BY <1>5, FallingSign
  <2>3. b < n + 1 => y = 0
    <3> SUFFICES ASSUME b < n + 1 PROVE y = 0
      OBVIOUS
    <3>1. y = Falling(0, b) * K(n - b)
      <4>1. n - e = 0
        BY <2>1
      <4> QED BY <1>0, <4>1 DEF FairShare
    <3>2. K(n - b) \in Int
      BY <1>1
    <3> DEFINE k == K(n - b)
    <3> HIDE DEF k
    <3>3. 0 * k = 0
      BY <3>2 DEF k
    <3> QED BY <2>2, <3>1, <3>3 DEF k
  <2>4. FairShare(m, c, b) = 0
    <3>1. K(m - b) \in Int
      BY <1>1
    <3> DEFINE k == K(m - b)
    <3>2. FairShare(m, c, b) = 0 * k
      <4>1. m - c = 0
        BY <1>5
      <4> QED BY <1>3, <2>2, <4>1
    <3> HIDE DEF k
    <3>3. 0 * k = 0
      BY <3>1 DEF k
    <3> QED BY <3>2, <3>3
  <2>5. b < n + 1 \/ n + 1 - b = 0
    OBVIOUS
  <2>6. (n + 1 - b) * y = 0
    BY <2>3, <2>5
  <2> QED BY <2>1, <2>4, <2>6
<1>6. CASE b > 0 /\ c <= n
  <2>1. e = c /\ c # n + 1 /\ b - 1 \in Nat /\ (b - 1) + 1 = b /\ m - c \in Nat /\ (m - c) - 1 = n - c
        /\ n - c \in Nat /\ m - b \in Nat /\ n - (b - 1) = m - b
    BY <1>6
  <2> DEFINE u == Falling(n - c, b - 1)
             v == Falling(n - c, b)
             w == Falling(m - c, b)
             k == K(m - b)
  <2>2. u \in Int /\ v \in Int /\ w \in Int /\ k \in Int
    <3>1. m - c \in Int /\ n - c \in Int /\ b \in Nat /\ b - 1 \in Nat
      BY <2>1
    <3> HIDE DEF m
    <3> QED BY <2>1, <3>1, <1>1, FallingStep
  <2>3. w = v + b * u
    <3> DEFINE z == m - c
               i == b - 1
    <3>1. z \in Int /\ i \in Nat
      BY <2>1
    <3> HIDE DEF z, i
    <3>2. Falling(z, i + 1) = Falling(z - 1, i + 1) + (i + 1) * Falling(z - 1, i)
      BY <3>1, FallingChoice
    <3>3. z - 1 = n - c /\ i + 1 = b
      BY <2>1 DEF z, i
    <3> QED BY <3>2, <3>3 DEF z, i
  <2>4. x = u * k
    <3>1. x = FairShare(n, c, b - 1)
      BY <1>0, <1>6, <2>1
    <3> QED BY <2>1, <3>1 DEF FairShare
  <2>5. FairShare(m, c, b) = w * k
    BY <1>3
  <2>6. CASE b = m
    <3>1. v = 0
      <4>1. n - c \in Nat /\ b \in Nat /\ b > n - c
        BY <2>1, <2>6
      <4> QED BY <4>1, FallingSign
    <3>2. (n + 1 - b) * y = 0
      BY <2>6
    <3> HIDE DEF u, v, w, k, m
    <3>3. w = b * u
      BY <2>2, <2>3, <3>1
    <3>4. (b * u) * k = b * (u * k)
      BY <2>2
    <3> QED BY <2>2, <2>4, <2>5, <3>2, <3>3, <3>4 DEF m
  <2>7. CASE b # m
    <3> DEFINE p == n + 1 - b
               l == K(n - b)
    <3>1. b < n + 1 /\ n - b \in Nat /\ (n - b) + 1 = m - b /\ p = (n - b) + 1 /\ p \in Nat
      BY <2>7
    <3>2. y = v * l
      <4>1. y = FairShare(n, c, b)
        BY <1>0, <2>1, <3>1
      <4> QED BY <4>1 DEF FairShare
    <3>3. k = p * l /\ l \in Int
      <4> DEFINE i == n - b
      <4>1. i \in Nat
        BY <3>1
      <4> HIDE DEF i
      <4>2. K(i) \in Int /\ K(i + 1) = (i + 1) * K(i)
        BY <1>1, <4>1
      <4> QED BY <3>1, <4>2 DEF i
    <3> HIDE DEF u, v, w, k, m, p, l
    <3>4. p * (v * l) = v * k
      <4>1. p * (v * l) = v * (p * l)
        BY <2>2, <3>1, <3>3
      <4> QED BY <3>3, <4>1
    <3>5. (v + b * u) * k = v * k + b * (u * k)
      BY <2>2
    <3>6. b * (u * k) + v * k = w * k
      <4>1. v * k \in Int /\ b * (u * k) \in Int
        BY <2>2
      <4> QED BY <2>3, <3>5, <4>1
    <3>7. b * x + p * y = w * k
      BY <2>4, <3>2, <3>4, <3>6
    <3> QED BY <2>5, <3>7 DEF p, m
  <2> QED BY <2>6, <2>7
<1> QED BY <1>4, <1>5, <1>6

\* What a shuffle promises.
Fairly(items, n, c, B) ==
  /\ IsFiniteSet(Avoiding(items, n, c, B))
  /\ Cardinality(Avoiding(items, n, c, B)) = FairShare(n, c, Cardinality(InB(items, n, B)))

\* One item is not shuffled.
LEMMA OneItemIsFair ==
  ASSUME NEW V, NEW items \in [1..1 -> V], NEW c \in 0..1, NEW B
  PROVE  Fairly(items, 1, c, B)
<1> DEFINE safe == Avoiding(items, 1, c, B)
           b == IF items[1] \in B THEN 1 ELSE 0
           d == [i \in 1..0 |-> 0]
<1>1. ShuffleDraws(1) = {d}
  <2>1. d \in ShuffleDraws(1)
    BY DEF ShuffleDraws
  <2>2. ASSUME NEW g \in ShuffleDraws(1) PROVE g = d
    <3>1. g \in [1..0 -> 0..0]
      BY DEF ShuffleDraws
    <3>2. g = [i \in 1..0 |-> g[i]]
      BY <3>1
    <3> QED BY <3>2
  <2> HIDE DEF d
  <2> QED BY <2>1, <2>2
<1> HIDE DEF d
<1>2. Len(items) = 1
  BY DEF InB
<1>3. SeededShuffle(items, d) = items
  <2> DEFINE n == 1
  <2>1. n \in Nat \ {0} /\ Len(items) = n
    BY <1>2
  <2> HIDE DEF n
  <2>2. PICK h : Shuffling(h, items, d, n, n - 1) /\ SeededShuffle(items, d) = h[n - 1]
    BY <2>1, ShuffleIs
  <2>3. n - 1 = 0
    BY DEF n
  <2>4. h[0] = items
    BY <2>2, <2>3 DEF Shuffling
  <2> QED BY <2>2, <2>3, <2>4
<1>4. safe = IF c = 1 /\ items[1] \in B THEN {} ELSE {d}
  <2>1. \A g \in safe : g = d
    BY <1>1 DEF Avoiding
  <2>2. d \in safe <=> \A i \in 1..c : items[i] \notin B
    BY <1>1, <1>3 DEF Avoiding
  <2>3. (\A i \in 1..c : items[i] \notin B) <=> ~(c = 1 /\ items[1] \in B)
    OBVIOUS
  <2> HIDE DEF safe
  <2> QED BY <2>1, <2>2, <2>3
<1>5. IsFiniteSet(safe) /\ Cardinality(safe) = IF c = 1 /\ b = 1 THEN 0 ELSE 1
  <2>1. b = 1 <=> items[1] \in B
    OBVIOUS
  <2> HIDE DEF safe, b
  <2> QED BY <1>4, <2>1, FS_EmptySet, FS_Singleton
<1>6. Cardinality(InB(items, 1, B)) = b
  <2>1. CASE items[1] \in B
    <3>1. InB(items, 1, B) = {1}
      BY <2>1 DEF InB
    <3> QED BY <2>1, <3>1, FS_Singleton
  <2>2. CASE items[1] \notin B
    <3>1. InB(items, 1, B) = {}
      BY <2>2 DEF InB
    <3> QED BY <2>2, <3>1, FS_EmptySet
  <2> QED BY <2>1, <2>2
<1>7. FairShare(1, c, b) = IF c = 1 /\ b = 1 THEN 0 ELSE 1
  <2>1. \A x \in Int : Falling(x, 0) = 1 /\ Falling(x, 1) = x
    <3> SUFFICES ASSUME NEW x \in Int PROVE Falling(x, 0) = 1 /\ Falling(x, 1) = x
      OBVIOUS
    <3>1. Falling(x, 0) = 1 /\ Falling(x, 0 + 1) = Falling(x, 0) * (x - 0)
      BY FallingStep
    <3> QED BY <3>1
  <2>2. CASE b = 0
    <3>1. Falling(1 - c, 0) = 1 /\ Falling(1, 1) = 1
      BY <2>1
    <3>2. FairShare(1, c, 0) = Falling(1 - c, 0) * Falling(1, 1)
      BY DEF FairShare
    <3> HIDE DEF b
    <3> QED BY <2>2, <3>1, <3>2
  <2>3. CASE b = 1
    <3>1. Falling(1 - c, 1) = 1 - c /\ Falling(0, 0) = 1
      BY <2>1
    <3>2. FairShare(1, c, 1) = Falling(1 - c, 1) * Falling(0, 0)
      BY DEF FairShare
    <3> HIDE DEF b
    <3> QED BY <2>3, <3>1, <3>2
  <2> QED BY <2>2, <2>3
<1> HIDE DEF safe, b
<1> QED BY <1>5, <1>6, <1>7 DEF Fairly, safe

\* One item more, with a draw for each place it may come from.
LEMMA MoreItemsAreFair ==
  ASSUME NEW V, NEW n \in Nat \ {0}, NEW items \in [1..n + 1 -> V], NEW c \in 0..n + 1, NEW B,
         \A s \in [1..n -> V], e \in 0..n : Fairly(s, n, e, B)
  PROVE  Fairly(items, n + 1, c, B)
<1> DEFINE m == n + 1
           b == Cardinality(InB(items, m, B))
           e == IF c <= n THEN c ELSE n
           bad == {j \in 0..n : items[j + 1] \in B}
           good == {j \in 0..n : items[j + 1] \notin B}
           x == IF c = m THEN 0 ELSE FairShare(n, e, b - 1)
           y == FairShare(n, e, b)
           S == [j \in 0..n |-> Part(items, n, c, B, j)]
           safe == Avoiding(items, m, c, B)
<1>1. DOMAIN items = 1..m /\ Len(items) = m /\ e \in 0..n /\ m \in Nat \ {0} /\ m - 1 = n
  OBVIOUS
<1>2. ASSUME NEW j \in 0..n
      PROVE  /\ IsFiniteSet(S[j]) /\ b \in 0..m
             /\ j \in bad => b > 0 /\ Cardinality(S[j]) = x /\ x \in Nat
             /\ j \in good => b < m /\ Cardinality(S[j]) = y /\ y \in Nat
  <2> DEFINE k == j + 1
             left == Left(items, n, j)
             l == Cardinality(InB(left, n, B))
             a == Avoiding(left, n, e, B)
  <2>1. k \in 1..n + 1 /\ DOMAIN items = 1..n + 1 /\ Len(items) = n + 1
    OBVIOUS
  <2>2. /\ left \in [1..n -> V] /\ b \in 0..m /\ l = IF items[k] \in B THEN b - 1 ELSE b
    <3> DEFINE lay == Cut(Swapped(items, n + 1, k), n)
               held == Cardinality(InB(items, n + 1, B))
    <3>1. left = lay /\ b = held
      BY DEF Left
    <3>2. /\ \A W : items \in [1..n + 1 -> W] => lay \in [1..n -> W]
          /\ held \in 0..n + 1
          /\ Cardinality(InB(lay, n, B)) = IF items[k] \in B THEN held - 1 ELSE held
      <4> DEFINE s == items
      <4>1. DOMAIN s = 1..n + 1 /\ k \in 1..n + 1
        BY <2>1
      <4> HIDE DEF k, s
      <4>2. \A W : s \in [1..n + 1 -> W] => Cut(Swapped(s, n + 1, k), n) \in [1..n -> W]
        BY <4>1, LaidLeaves
      <4>3. Cardinality(InB(s, n + 1, B)) \in 0..n + 1
        BY <4>1, LaidLeaves
      <4>4. Cardinality(InB(Cut(Swapped(s, n + 1, k), n), n, B))
              = IF s[k] \in B THEN Cardinality(InB(s, n + 1, B)) - 1 ELSE Cardinality(InB(s, n + 1, B))
        BY <4>1, LaidLeaves
      <4> QED BY <4>2, <4>3, <4>4 DEF s
    <3> HIDE DEF k, lay, held, left, b
    <3> QED BY <3>1, <3>2
  <2>3. l \in 0..n
    <3>1. IsFiniteSet(1..n) /\ Cardinality(1..n) = n
      BY FS_Interval
    <3> DEFINE D == 1..n
               I == InB(left, n, B)
    <3>2. IsFiniteSet(D) /\ Cardinality(D) = n /\ I \in SUBSET D
      BY <3>1 DEF InB
    <3> HIDE DEF D, I
    <3>3. IsFiniteSet(I) /\ Cardinality(I) <= n
      BY <3>2, FS_Subset
    <3>4. Cardinality(I) \in Nat
      BY <3>3, FS_CardinalityType
    <3>5. l = Cardinality(I)
      BY DEF I
    <3> HIDE DEF l
    <3> QED BY <3>3, <3>4, <3>5
  <2>4. IsFiniteSet(a) /\ Cardinality(a) = FairShare(n, e, l) /\ Cardinality(a) \in Nat
    <3>1. Fairly(left, n, e, B)
      <4> HIDE DEF left, e
      <4> QED BY <1>1, <2>2
    <3> HIDE DEF left
    <3>2. IsFiniteSet(a) /\ Cardinality(a) = FairShare(n, e, l)
      BY <3>1 DEF Fairly
    <3> QED BY <3>2, FS_CardinalityType
  <2>5. S[j] = Part(items, n, c, B, j)
    OBVIOUS
  <2>6. /\ IsFiniteSet(S[j])
        /\ Cardinality(S[j]) = IF c = n + 1 /\ items[k] \in B THEN 0 ELSE Cardinality(a)
    <3> DEFINE e1 == e
    <3>1. e1 = (IF c <= n THEN c ELSE n) /\ IsFiniteSet(Avoiding(Left(items, n, j), n, e1, B))
      BY <2>4
    <3> HIDE DEF e1
    <3>2. /\ IsFiniteSet(Part(items, n, c, B, j))
          /\ Cardinality(Part(items, n, c, B, j))
               = IF c = n + 1 /\ items[j + 1] \in B THEN 0
                 ELSE Cardinality(Avoiding(Left(items, n, j), n, e1, B))
      BY <2>1, <3>1, OneDraw
    <3> HIDE DEF S
    <3> QED BY <2>5, <3>2 DEF e1
  <2>7. (j \in bad <=> items[k] \in B) /\ (j \in good <=> items[k] \notin B)
    OBVIOUS
  <2>8. CASE items[k] \in B
    <3>1. l = b - 1 /\ b > 0
      <4> HIDE DEF l, b
      <4> QED BY <1>1, <2>2, <2>3, <2>8
    <3>2. Cardinality(S[j]) = x /\ x \in Nat
      <4> DEFINE u == FairShare(n, e, b - 1)
      <4>1. Cardinality(a) = u /\ u \in Nat
        <5> HIDE DEF l, a, b, e
        <5> QED BY <2>4, <3>1
      <4> HIDE DEF a, b, e, S, u, m
      <4>2. Cardinality(S[j]) = IF c = m THEN 0 ELSE u
        BY <2>6, <2>8, <4>1 DEF m
      <4> QED BY <4>1, <4>2 DEF u
    <3> HIDE DEF x, y, b, bad, good, S, k
    <3> QED BY <2>2, <2>6, <2>7, <2>8, <3>1, <3>2
  <2>9. CASE items[k] \notin B
    <3>1. l = b /\ b < m
      <4> HIDE DEF l, b
      <4> QED BY <1>1, <2>2, <2>3, <2>9
    <3>2. Cardinality(S[j]) = y /\ y \in Nat
      <4> HIDE DEF l, a, b, e, S
      <4> QED BY <2>4, <2>6, <2>9, <3>1
    <3> HIDE DEF x, y, b, bad, good, S, k
    <3> QED BY <2>2, <2>6, <2>7, <2>9, <3>1, <3>2
  <2> QED BY <2>8, <2>9
<1>3. IsFiniteSet(bad) /\ Cardinality(bad) = b
  <2> DEFINE f == [j \in 0..n |-> j + 1]
  <2>1. \A j \in bad : f[j] = j + 1 /\ j \in 0..n
    OBVIOUS
  <2>2. \A i, j \in bad : f[i] = f[j] => i = j
    <3> HIDE DEF f, bad
    <3> QED BY <2>1
  <2>3. IsFiniteSet(bad)
    <3>1. IsFiniteSet(0..n) /\ bad \in SUBSET (0..n)
      BY FS_Interval
    <3> HIDE DEF bad
    <3> QED BY <3>1, FS_Subset
  <2>4. InB(items, m, B) = {f[j] : j \in bad}
    <3>1. \A i \in InB(items, m, B) : i - 1 \in bad /\ f[i - 1] = i
      BY DEF InB
    <3>2. \A j \in bad : f[j] \in InB(items, m, B)
      BY DEF InB
    <3> HIDE DEF f, bad
    <3> QED BY <3>1, <3>2
  <2> HIDE DEF f, bad
  <2>5. Cardinality({f[j] : j \in bad}) = Cardinality(bad)
    BY <2>2, <2>3, ImageSize
  <2> QED BY <2>3, <2>4, <2>5
<1>4. IsFiniteSet(good) /\ Cardinality(good) = m - b
  <2>1. IsFiniteSet(0..n) /\ Cardinality(0..n) = m
    BY FS_Interval
  <2>2. good = (0..n) \ bad /\ (0..n) \cap bad = bad
    OBVIOUS
  <2> DEFINE D == 0..n
  <2>3. IsFiniteSet(D) /\ Cardinality(D) = m /\ good = D \ bad /\ D \cap bad = bad
    BY <2>1, <2>2
  <2> HIDE DEF D, good, bad, b
  <2>4. IsFiniteSet(D \ bad) /\ Cardinality(D \ bad) = Cardinality(D) - Cardinality(D \cap bad)
    BY <2>3, FS_Difference
  <2> QED BY <1>3, <2>3, <2>4
<1>5. \A i, j \in 0..n : i # j => S[i] \cap S[j] = {}
  BY DEF Part
<1>6. safe = (UNION {S[j] : j \in bad}) \cup (UNION {S[j] : j \in good})
  <2>1. \A j \in 0..n : S[j] = {draws \in safe : draws[n] = j}
    BY DEF Part
  <2>2. \A draws \in safe : draws[n] \in 0..n
    <3> SUFFICES ASSUME NEW draws \in safe PROVE draws[n] \in 0..n
      OBVIOUS
    <3>1. draws \in ShuffleDraws(n + 1)
      BY DEF Avoiding
    <3> QED BY <3>1, DrawsShrink
  <2>3. \A j \in 0..n : j \in bad \/ j \in good
    OBVIOUS
  <2>4. \A j \in bad \cup good : j \in 0..n
    OBVIOUS
  <2> HIDE DEF safe, S, bad, good
  <2>5. ASSUME NEW draws \in safe
        PROVE  draws \in (UNION {S[j] : j \in bad}) \cup (UNION {S[j] : j \in good})
    <3> DEFINE j == draws[n]
    <3>1. draws \in S[j] /\ (j \in bad \/ j \in good)
      BY <2>1, <2>2, <2>3
    <3> HIDE DEF j
    <3>2. j \in bad => draws \in UNION {S[i] : i \in bad}
      BY <3>1
    <3>3. j \in good => draws \in UNION {S[i] : i \in good}
      BY <3>1
    <3> QED BY <3>1, <3>2, <3>3
  <2>6. ASSUME NEW draws \in (UNION {S[j] : j \in bad}) \cup (UNION {S[j] : j \in good})
        PROVE  draws \in safe
    <3>1. CASE draws \in UNION {S[j] : j \in bad}
      <4>1. PICK j \in bad : draws \in S[j]
        BY <3>1
      <4> QED BY <2>1, <2>4, <4>1
    <3>2. CASE draws \in UNION {S[j] : j \in good}
      <4>1. PICK j \in good : draws \in S[j]
        BY <3>2
      <4> QED BY <2>1, <2>4, <4>1
    <3> QED BY <3>1, <3>2
  <2> QED BY <2>5, <2>6
<1> DEFINE U == UNION {S[j] : j \in bad}
           W == UNION {S[j] : j \in good}
           x1 == IF bad = {} THEN 0 ELSE x
           y1 == IF good = {} THEN 0 ELSE y
<1>7. x1 \in Nat /\ y1 \in Nat /\ b \in 0..m /\ (b > 0 => x1 = x) /\ (b < m => y1 = y)
  <2>1. bad # {} => x \in Nat
    <3>1. \A j \in bad : j \in 0..n
      OBVIOUS
    <3> HIDE DEF bad, good, S, x, y
    <3> QED BY <1>2, <3>1
  <2>2. good # {} => y \in Nat
    <3>1. \A j \in good : j \in 0..n
      OBVIOUS
    <3> HIDE DEF bad, good, S, x, y
    <3> QED BY <1>2, <3>1
  <2>3. b \in 0..m
    <3>1. 0 \in 0..n
      OBVIOUS
    <3> HIDE DEF bad, good, S, x, y, b
    <3> QED BY <1>2, <3>1
  <2>4. b > 0 => bad # {}
    <3> HIDE DEF bad, b
    <3> QED BY <1>3, <2>3, FS_EmptySet
  <2>5. b < m => good # {}
    <3> HIDE DEF good, b
    <3> QED BY <1>4, <2>3, FS_EmptySet
  <2> HIDE DEF bad, good, x, y, b
  <2> QED BY <2>1, <2>2, <2>3, <2>4, <2>5
<1>8. IsFiniteSet(U) /\ Cardinality(U) = b * x1
  <2>1. \A j \in bad : IsFiniteSet(S[j]) /\ Cardinality(S[j]) = x1
    <3>1. \A j \in bad : j \in 0..n /\ bad # {}
      OBVIOUS
    <3> HIDE DEF bad, good, S, x, y
    <3> QED BY <1>2, <3>1
  <2>2. \A i, j \in bad : i # j => S[i] \cap S[j] = {}
    <3>1. \A j \in bad : j \in 0..n
      OBVIOUS
    <3> HIDE DEF bad, S
    <3> QED BY <1>5, <3>1
  <2>3. IsFiniteSet(bad) /\ x1 \in Nat
    BY <1>3, <1>7
  <2> HIDE DEF bad, S, x1, b
  <2>4. IsFiniteSet(U) /\ Cardinality(U) = Cardinality(bad) * x1
    BY <2>1, <2>2, <2>3, EqualParts
  <2> QED BY <1>3, <2>4
<1>9. IsFiniteSet(W) /\ Cardinality(W) = (m - b) * y1
  <2>1. \A j \in good : IsFiniteSet(S[j]) /\ Cardinality(S[j]) = y1
    <3>1. \A j \in good : j \in 0..n /\ good # {}
      OBVIOUS
    <3> HIDE DEF bad, good, S, x, y
    <3> QED BY <1>2, <3>1
  <2>2. \A i, j \in good : i # j => S[i] \cap S[j] = {}
    <3>1. \A j \in good : j \in 0..n
      OBVIOUS
    <3> HIDE DEF good, S
    <3> QED BY <1>5, <3>1
  <2>3. IsFiniteSet(good) /\ y1 \in Nat
    BY <1>4, <1>7
  <2> HIDE DEF good, S, y1, b
  <2>4. IsFiniteSet(W) /\ Cardinality(W) = Cardinality(good) * y1
    BY <2>1, <2>2, <2>3, EqualParts
  <2> QED BY <1>4, <2>4
<1>10. U \cap W = {}
  <2>1. \A i \in bad, j \in good : i \in 0..n /\ j \in 0..n /\ i # j
    OBVIOUS
  <2> HIDE DEF bad, good, S
  <2>2. \A i \in bad, j \in good : S[i] \cap S[j] = {}
    BY <1>5, <2>1
  <2> QED BY <2>2
<1>11. IsFiniteSet(safe) /\ Cardinality(safe) = b * x1 + (m - b) * y1
  <2> DEFINE p == b * x1
             q == (m - b) * y1
  <2>1. Cardinality(U) = p /\ Cardinality(W) = q /\ safe = U \cup W
    <3> HIDE DEF safe, b, x1, y1, S, bad, good, m
    <3> QED BY <1>6, <1>8, <1>9
  <2>2. p \in Int /\ q \in Int
    <3> HIDE DEF b, x1, y1
    <3> QED BY <1>7
  <2> HIDE DEF safe, U, W, p, q
  <2>3. IsFiniteSet(U \cup W) /\ Cardinality(U \cup W) = Cardinality(U) + Cardinality(W) - Cardinality(U \cap W)
    BY <1>8, <1>9, FS_Union
  <2>4. Cardinality(U \cap W) = 0
    BY <1>10, FS_EmptySet
  <2>5. IsFiniteSet(safe) /\ Cardinality(safe) = p + q
    BY <2>1, <2>2, <2>3, <2>4
  <2> QED BY <2>5 DEF p, q
<1>12. b * x1 + (m - b) * y1 = FairShare(m, c, b)
  <2>1. b \in 0..m /\ x1 \in Nat /\ y1 \in Nat
    BY <1>7
  <2>2. (b > 0 => x1 = x) /\ (b < m => y1 = y)
    BY <1>7
  <2> DEFINE p == x1
             q == y1
             h == b
  <2>3. SharesLeft(n, c, h, p, q)
    <3>1. /\ h > 0 => p = IF c = m THEN 0 ELSE FairShare(n, e, h - 1)
          /\ h < m => q = FairShare(n, e, h)
      <4> HIDE DEF e, b, x1, y1, m
      <4> QED BY <2>2
    <3> HIDE DEF p, q, h
    <3> QED BY <3>1 DEF SharesLeft
  <2>4. h \in 0..n + 1 /\ p \in Nat /\ q \in Nat
    BY <2>1
  <2> HIDE DEF p, q, h, m
  <2>5. h * p + (n + 1 - h) * q = FairShare(n + 1, c, h)
    BY <2>3, <2>4, FairShareGrows
  <2>6. h * p + (m - h) * q = FairShare(m, c, h)
    BY <2>4, <2>5 DEF m
  <2> QED BY <2>6 DEF p, q, h
<1>13. IsFiniteSet(safe) /\ Cardinality(safe) = FairShare(m, c, b)
  <2> HIDE DEF safe, b, x1, y1, m
  <2> QED BY <1>11, <1>12
<1> QED BY <1>13 DEF Fairly

\* Every shuffle is fair: the same number of draws for every choice of c places and b items.
LEMMA ShufflesAreFair ==
  ASSUME NEW V, NEW B, NEW n \in Nat \ {0}, NEW items \in [1..n -> V], NEW c \in 0..n
  PROVE  Fairly(items, n, c, B)
<1> DEFINE G == {k \in Nat : \A s \in [1..k + 1 -> V], e \in 0..k + 1 : Fairly(s, k + 1, e, B)}
<1>1. 0 \in G
  <2>1. \A s \in [1..1 -> V], e \in 0..1 : Fairly(s, 1, e, B)
    BY OneItemIsFair
  <2>2. 0 + 1 = 1
    OBVIOUS
  <2> QED BY <2>1, <2>2
<1>2. ASSUME NEW k \in Nat, k \in G PROVE k + 1 \in G
  <2> DEFINE m == k + 1
  <2>1. m \in Nat \ {0} /\ \A s \in [1..m -> V], e \in 0..m : Fairly(s, m, e, B)
    BY <1>2
  <2> HIDE DEF m
  <2>2. \A s \in [1..m + 1 -> V], e \in 0..m + 1 : Fairly(s, m + 1, e, B)
    BY <2>1, MoreItemsAreFair
  <2>3. m \in Nat
    BY <2>1
  <2>4. m \in G
    BY <2>2, <2>3
  <2> QED BY <2>4 DEF m
<1>3. \A k \in Nat : k \in G
  <2> HIDE DEF G
  <2> QED BY <1>1, <1>2, NaturalInduction
<1>4. n - 1 \in G /\ (n - 1) + 1 = n
  <2>1. n - 1 \in Nat
    OBVIOUS
  <2> HIDE DEF G
  <2> QED BY <1>3, <2>1
<1>5. \A s \in [1..n -> V], e \in 0..n : Fairly(s, n, e, B)
  BY <1>4
<1> QED BY <1>5

---------------------------------------------------------------------------
(* Odds *)

\* Rounding is off by half at most.
LEMMA RoundedIsNear ==
  ASSUME NEW a \in Nat, NEW b \in Nat \ {0}
  PROVE  /\ 2 * (Rounded(a, b) * b - a) <= b
         /\ 2 * (Rounded(a, b) * b - a) >= -b
<1> DEFINE m == Rounded(a, b)
<1>1. m \in Nat
  BY RoundedType
<1>2. m = (2 * a + b) \div (2 * b)
  BY DEF Rounded
<1> DEFINE p == 2 * a + b
           q == 2 * b
<1>3. p \in Nat /\ q \in Nat \ {0} /\ m = p \div q
  BY <1>2
<1> HIDE DEF p, q, m
<1>4. m * q <= p /\ p < (m + 1) * q
  BY <1>1, <1>3
<1> DEFINE r == m * b
<1>5. r \in Int /\ m * q = 2 * r /\ (m + 1) * q = 2 * r + 2 * b
  BY <1>1 DEF q
<1> HIDE DEF r
<1>6. 2 * r <= 2 * a + b /\ 2 * a + b < 2 * r + 2 * b
  BY <1>4, <1>5 DEF p
<1>7. 2 * (r - a) <= b /\ 2 * (r - a) >= -b
  BY <1>5, <1>6
<1> QED BY <1>7 DEF r, m

\* A multiplier rounded from the odds is fair, also when the odds are counted k times.
LEMMA OddsAreFair ==
  ASSUME NEW won \in Nat \ {0}, NEW of \in Nat, NEW k \in Nat \ {0}
  PROVE  FairPay(Rounded((100 - HouseEdge) * of, won), won * k, of * k)
<1> DEFINE h == 100 - HouseEdge
           a == h * of
           m == Rounded(a, won)
           e == m * won - a
<1>1. h \in Nat
  BY RulesAssumption
<1>2. a \in Nat
  <2> HIDE DEF h
  <2> QED BY <1>1
<1>3. m \in Nat /\ 2 * e <= won /\ 2 * e >= -won /\ e \in Int
  <2> HIDE DEF a
  <2>1. m \in Nat
    BY <1>2, RoundedType
  <2>2. 2 * e <= won /\ 2 * e >= -won
    BY <1>2, RoundedIsNear
  <2> HIDE DEF m
  <2>3. e \in Int
    BY <1>2, <2>1
  <2> QED BY <2>1, <2>2, <2>3
<1> HIDE DEF m
<1>4. m * (won * k) - h * (of * k) = e * k
  <2> HIDE DEF h
  <2>1. m * (won * k) = (m * won) * k /\ h * (of * k) = a * k
    BY <1>1, <1>3
  <2> DEFINE u == m * won
  <2>2. u \in Int /\ e = u - a
    BY <1>3
  <2> HIDE DEF u, a, e
  <2>3. u * k - a * k = (u - a) * k
    BY <1>2, <2>2
  <2> QED BY <2>1, <2>2, <2>3 DEF u
<1> HIDE DEF e, h
<1>5. 2 * (e * k) <= won * k /\ 2 * (e * k) >= -(won * k)
  <2>1. 2 * (e * k) = (2 * e) * k /\ -(won * k) = (-won) * k
    BY <1>3
  <2>2. (2 * e) * k <= won * k /\ (-won) * k <= (2 * e) * k
    <3> DEFINE d == 2 * e
    <3>1. d \in Int /\ d <= won /\ -won <= d
      BY <1>3
    <3> HIDE DEF d
    <3>2. d * k <= won * k /\ (-won) * k <= d * k
      BY <3>1
    <3> QED BY <3>2 DEF d
  <2> QED BY <2>1, <2>2
<1> QED BY <1>4, <1>5 DEF FairPay, m, a, h

\* The first count items are those at the first count places.
LEMMA FirstOfRange ==
  ASSUME NEW n \in Nat, NEW s, Orders(s, n), NEW count \in 0..n
  PROVE  Range(FirstOf(s, count)) = {s[i] : i \in 1..count}
<1>1. s \in Seq(0..n - 1) /\ Len(s) = n
  BY OrderIsSeq
<1>2. Min({count, Len(s)}) = count
  <2>1. count \in Int /\ Len(s) \in Int /\ count <= Len(s)
    BY <1>1
  <2> DEFINE l == Len(s)
  <2>2. l \in Int /\ count <= l
    BY <2>1
  <2> HIDE DEF l
  <2>3. Min({count, l}) = count
    BY <2>2, MinIs
  <2> QED BY <2>3 DEF l
<1> DEFINE first == SubSeq(s, 1, count)
<1>3. FirstOf(s, count) = first
  BY <1>2 DEF FirstOf
<1>4. DOMAIN first = 1..count /\ \A i \in 1..count : first[i] = s[i]
  BY <1>1
<1> HIDE DEF first
<1>5. Range(first) = {s[i] : i \in 1..count}
  BY <1>4 DEF Range
<1> QED BY <1>3, <1>5

\* The shuffles that keep the first n tiles safe are those that avoid them.
LEMMA SafeShufflesAre ==
  ASSUME NEW count \in 1..Tiles - 1, NEW n \in 0..Tiles
  PROVE  SafeShuffles(count, n) = Avoiding(Positions(Tiles), Tiles, count, 0..n - 1)
<1> DEFINE boards == Boards(count)
<1>1. Tiles \in Nat \ {0} /\ count \in 0..Tiles
  BY RulesAssumption
<1>2. DOMAIN boards = ShuffleDraws(Tiles)
  BY DEF Boards
<1>3. ASSUME NEW draws \in ShuffleDraws(Tiles)
      PROVE  boards[draws] \cap (0..n - 1) = {}
               <=> \A i \in 1..count : SeededShuffle(Positions(Tiles), draws)[i] \notin 0..n - 1
  <2> DEFINE s == SeededShuffle(Positions(Tiles), draws)
  <2>1. Orders(s, Tiles)
    BY <1>1, ShuffleOrders
  <2>2. boards[draws] = Range(FirstOf(s, count))
    BY DEF Boards, BuildMinesGrid
  <2> HIDE DEF s, boards
  <2>3. Range(FirstOf(s, count)) = {s[i] : i \in 1..count}
    BY <1>1, <2>1, FirstOfRange
  <2> DEFINE D == 0..n - 1
  <2> HIDE DEF D
  <2>4. {s[i] : i \in 1..count} \cap D = {} <=> \A i \in 1..count : s[i] \notin D
    OBVIOUS
  <2> QED BY <2>2, <2>3, <2>4 DEF D, s
<1> DEFINE safe == {draws \in ShuffleDraws(Tiles) : boards[draws] \cap (0..n - 1) = {}}
<1>4. SafeShuffles(count, n) = safe
  BY <1>2 DEF SafeShuffles
<1>5. safe = Avoiding(Positions(Tiles), Tiles, count, 0..n - 1)
  <2> HIDE DEF boards
  <2> QED BY <1>3 DEF Avoiding
<1> QED BY <1>4, <1>5

\* A Mines board is as safe as its multipliers say.
LEMMA MinesPayFairly ==
  ASSUME NEW count \in 1..Tiles - 1, NEW n \in 1..Tiles - count
  PROVE  FairPay(MinesMultiplier(count, n),
                 Cardinality(SafeShuffles(count, n)), Cardinality(ShuffleDraws(Tiles)))
<1> DEFINE items == Positions(Tiles)
           B == 0..n - 1
           k == Falling(Tiles - n, Tiles - n)
           won == Falling(Tiles - count, n)
           of == Falling(Tiles, n)
<1>1. /\ Tiles \in Nat \ {0} /\ count \in 0..Tiles /\ 0 \in 0..Tiles /\ n \in 0..Tiles
      /\ Tiles - n \in Nat /\ Tiles - count \in Nat /\ n \in Nat /\ n <= Tiles - count /\ n <= Tiles
  BY RulesAssumption
<1>2. items \in [1..Tiles -> 0..Tiles - 1] /\ \A i \in 1..Tiles : items[i] = i - 1
  BY <1>1 DEF Positions
<1>3. Cardinality(InB(items, Tiles, B)) = n
  <2>1. InB(items, Tiles, B) = 1..n
    <3>1. \A i \in 1..Tiles : items[i] \in B <=> i \in 1..n
      BY <1>1, <1>2
    <3>2. \A i \in 1..n : i \in 1..Tiles
      BY <1>1
    <3> HIDE DEF items, B
    <3> QED BY <3>1, <3>2 DEF InB
  <2>2. Cardinality(1..n) = n
    BY <1>1, FS_Interval
  <2> QED BY <2>1, <2>2
<1> HIDE DEF items, B
<1>4. \A c \in 0..Tiles : Cardinality(Avoiding(items, Tiles, c, B)) = FairShare(Tiles, c, n)
  <2> SUFFICES ASSUME NEW c \in 0..Tiles
               PROVE  Cardinality(Avoiding(items, Tiles, c, B)) = FairShare(Tiles, c, n)
    OBVIOUS
  <2>1. Fairly(items, Tiles, c, B)
    <3> DEFINE V == 0..Tiles - 1
               s == items
    <3>1. s \in [1..Tiles -> V]
      BY <1>2
    <3> HIDE DEF V, s
    <3>2. Fairly(s, Tiles, c, B)
      BY <1>1, <3>1, ShufflesAreFair
    <3> QED BY <3>2 DEF s
  <2> QED BY <1>3, <2>1 DEF Fairly
<1>5. Cardinality(SafeShuffles(count, n)) = won * k
  <2>1. SafeShuffles(count, n) = Avoiding(items, Tiles, count, B)
    BY <1>1, SafeShufflesAre DEF items, B
  <2>2. FairShare(Tiles, count, n) = won * k
    BY DEF FairShare
  <2> HIDE DEF won, k
  <2> QED BY <1>1, <1>4, <2>1, <2>2
<1>6. Cardinality(ShuffleDraws(Tiles)) = of * k
  <2>1. ShuffleDraws(Tiles) = Avoiding(items, Tiles, 0, B)
    BY DEF Avoiding
  <2>2. FairShare(Tiles, 0, n) = Falling(Tiles - 0, n) * k
    BY DEF FairShare
  <2>3. Tiles - 0 = Tiles
    BY <1>1
  <2> HIDE DEF k
  <2> QED BY <1>1, <1>4, <2>1, <2>2, <2>3
<1>7. won \in Nat \ {0} /\ of \in Nat /\ k \in Nat \ {0}
  <2>1. won \in Nat /\ won > 0
    BY <1>1, FallingSign
  <2>2. of \in Nat
    BY <1>1, FallingSign
  <2>3. k \in Nat /\ k > 0
    <3> DEFINE i == Tiles - n
    <3>1. i \in Nat /\ i <= i
      BY <1>1
    <3> HIDE DEF i
    <3>2. Falling(i, i) \in Nat /\ Falling(i, i) > 0
      BY <3>1, FallingSign
    <3> QED BY <3>2 DEF i
  <2> HIDE DEF won, of, k
  <2> QED BY <2>1, <2>2, <2>3
<1>8. MinesMultiplier(count, n) = Rounded((100 - HouseEdge) * of, won)
  BY DEF MinesMultiplier
<1> HIDE DEF won, of, k
<1>9. FairPay(Rounded((100 - HouseEdge) * of, won), won * k, of * k)
  BY <1>7, OddsAreFair
<1> QED BY <1>5, <1>6, <1>8, <1>9

\* The tiles of the floors that are laid, by how many traps they have.
LEMMA SafeTilesIs ==
  ASSUME NEW difficulty, NEW T, IsFiniteSet(T),
         T = {TrapsOnFloor(difficulty, 2 * d - 1, 2 * Fine) : d \in 1..Fine}
  PROVE  SafeTiles(difficulty)
           = SumOver([t \in T |-> (TowerTiles(difficulty) - t)
                        * Cardinality({d \in 1..Fine : TrapsOnFloor(difficulty, 2 * d - 1, 2 * Fine) = t})], T)
<1> DEFINE traps == [d \in 1..Fine |-> TrapsOnFloor(difficulty, 2 * d - 1, 2 * Fine)]
           safe == [t \in Range(traps) |->
                      (TowerTiles(difficulty) - t) * Cardinality({d \in 1..Fine : traps[d] = t})]
           told == [t \in T |-> (TowerTiles(difficulty) - t)
                      * Cardinality({d \in 1..Fine : TrapsOnFloor(difficulty, 2 * d - 1, 2 * Fine) = t})]
<1>1. Range(traps) = T
  BY DEF Range
<1>2. SafeTiles(difficulty) = SumOver(safe, Range(traps))
  BY DEF SafeTiles
<1>3. \A t \in T : {d \in 1..Fine : traps[d] = t}
                     = {d \in 1..Fine : TrapsOnFloor(difficulty, 2 * d - 1, 2 * Fine) = t}
  OBVIOUS
<1>4. \A t \in T : safe[t] = told[t]
  <2> SUFFICES ASSUME NEW t \in T PROVE safe[t] = told[t]
    OBVIOUS
  <2>1. safe[t] = (TowerTiles(difficulty) - t) * Cardinality({d \in 1..Fine : traps[d] = t})
    <3> HIDE DEF traps
    <3> QED BY <1>1
  <2>2. told[t] = (TowerTiles(difficulty) - t)
          * Cardinality({d \in 1..Fine : TrapsOnFloor(difficulty, 2 * d - 1, 2 * Fine) = t})
    OBVIOUS
  <2> HIDE DEF safe, told, traps
  <2> QED BY <1>3, <2>1, <2>2
<1> HIDE DEF safe, told, traps
<1>5. SumOver(safe, T) = SumOver(told, T)
  BY <1>4, SumSame
<1> QED BY <1>1, <1>2, <1>5 DEF told

\* Floors have one trap or two, always as many.
LEMMA EvenFloors ==
  ASSUME NEW difficulty \in TowerDifficulties \ {"easy"}
  PROVE  SafeTiles(difficulty) = (TowerTiles(difficulty) - TowerMines(difficulty)) * Fine
<1> DEFINE t == TowerMines(difficulty)
           tiles == TowerTiles(difficulty)
           D == 1..Fine
           T == {t}
           f == [u \in T |-> (tiles - u)
                  * Cardinality({d \in 1..Fine : TrapsOnFloor(difficulty, 2 * d - 1, 2 * Fine) = u})]
<1>1. Fine \in Nat \ {0}
  BY SMT DEF Fine
<1>2. IsFiniteSet(D) /\ Cardinality(D) = Fine /\ 1 \in D
  BY <1>1, FS_Interval
<1>3. \A d \in D : TrapsOnFloor(difficulty, 2 * d - 1, 2 * Fine) = t
  BY DEF TrapsOnFloor
<1>4. t \in Nat /\ tiles \in Nat /\ tiles - t \in Nat
  BY DEF TowerMines, TowerTiles, TowerDifficulties
<1>5. T = {TrapsOnFloor(difficulty, 2 * d - 1, 2 * Fine) : d \in 1..Fine}
  <2> HIDE DEF t
  <2>1. T = {TrapsOnFloor(difficulty, 2 * d - 1, 2 * Fine) : d \in D}
    <3> HIDE DEF D
    <3> QED BY <1>2, <1>3
  <2> QED BY <2>1
<1>6. IsFiniteSet(T)
  BY FS_Singleton
<1>7. SafeTiles(difficulty) = SumOver(f, T)
  <2> DEFINE U == T
  <2>1. IsFiniteSet(U) /\ U = {TrapsOnFloor(difficulty, 2 * d - 1, 2 * Fine) : d \in 1..Fine}
    BY <1>5, <1>6
  <2> HIDE DEF U, t, tiles
  <2>2. SafeTiles(difficulty)
          = SumOver([u \in U |-> (TowerTiles(difficulty) - u)
              * Cardinality({d \in 1..Fine : TrapsOnFloor(difficulty, 2 * d - 1, 2 * Fine) = u})], U)
    BY <2>1, SafeTilesIs
  <2> QED BY <2>2 DEF U, tiles
<1>8. {d \in 1..Fine : TrapsOnFloor(difficulty, 2 * d - 1, 2 * Fine) = t} = D
  <2> HIDE DEF t
  <2> QED BY <1>3
<1>9. f[t] = (tiles - t) * Fine
  <2>1. f[t] = (tiles - t)
          * Cardinality({d \in 1..Fine : TrapsOnFloor(difficulty, 2 * d - 1, 2 * Fine) = t})
    <3> HIDE DEF t, tiles
    <3> QED OBVIOUS
  <2> HIDE DEF f, t, tiles, D
  <2> QED BY <1>2, <1>8, <2>1
<1>10. f[t] \in Nat
  <2> HIDE DEF f, t, tiles
  <2> QED BY <1>1, <1>4, <1>9
<1> HIDE DEF f, t
<1>11. SumOver(f, {t}) = f[t]
  BY <1>10, SumOne
<1> QED BY <1>7, <1>9, <1>11 DEF t

\* The floors of an easy tower have one trap, two or three, in 22, 9 and 9 of 40.
LEMMA EasyFloors ==
  SafeTiles("easy") * 160 = 93 * 4 * Fine
<1> DEFINE n == Fine
           Traps(d) == TrapsOnFloor("easy", 2 * d - 1, 2 * n)
           T == {1, 2, 3}
           C(t) == {d \in 1..n : Traps(d) = t}
           f == [t \in T |-> (4 - t) * Cardinality(C(t))]
<1>1. PICK k \in Nat \ {0} : n = 40 * k
  <2>1. n = 40 * 300 /\ 300 \in Nat \ {0}
    BY SMT DEF Fine
  <2> HIDE DEF n
  <2> QED BY <2>1
<1> HIDE DEF n
<1>2. \A d \in 1..n : Traps(d) = IF d > 18 * k THEN 1 ELSE IF d <= 9 * k THEN 3 ELSE 2
  BY <1>1 DEF TrapsOnFloor, EasyTrapsOnFloor
<1> HIDE DEF Traps
<1>3. C(1) = 18 * k + 1..40 * k /\ C(2) = 9 * k + 1..18 * k /\ C(3) = 1..9 * k
  <2>1. C(1) = 18 * k + 1..40 * k
    BY <1>1, <1>2
  <2>2. C(2) = 9 * k + 1..18 * k
    BY <1>1, <1>2
  <2>3. C(3) = 1..9 * k
    BY <1>1, <1>2
  <2> QED BY <2>1, <2>2, <2>3
<1>4. Cardinality(C(1)) = 22 * k /\ Cardinality(C(2)) = 9 * k /\ Cardinality(C(3)) = 9 * k
  <2> DEFINE a == 18 * k + 1
             b == 40 * k
             c == 9 * k + 1
             e == 18 * k
             g == 9 * k
  <2>1. a \in Int /\ b \in Int /\ c \in Int /\ e \in Int /\ g \in Int /\ a <= b /\ c <= e /\ 1 <= g
    BY <1>1
  <2>2. b - a + 1 = 22 * k /\ e - c + 1 = 9 * k /\ g - 1 + 1 = 9 * k
    BY <1>1
  <2>3. C(1) = a..b /\ C(2) = c..e /\ C(3) = 1..g
    BY <1>3
  <2> HIDE DEF a, b, c, e, g, C
  <2>4. Cardinality(a..b) = b - a + 1 /\ Cardinality(c..e) = e - c + 1 /\ Cardinality(1..g) = g - 1 + 1
    BY <2>1, FS_Interval
  <2> QED BY <2>2, <2>3, <2>4
<1>5. T = {Traps(d) : d \in 1..n}
  <2>1. \A d \in 1..n : Traps(d) \in T
    BY <1>2
  <2>2. 40 * k \in 1..n /\ 18 * k \in 1..n /\ 1 \in 1..n
    BY <1>1
  <2>3. Traps(40 * k) = 1 /\ Traps(18 * k) = 2 /\ Traps(1) = 3
    BY <1>1, <1>2, <2>2
  <2> DEFINE p == 40 * k
             q == 18 * k
  <2>4. p \in 1..n /\ q \in 1..n /\ Traps(p) = 1 /\ Traps(q) = 2
    BY <2>2, <2>3
  <2> HIDE DEF p, q
  <2>5. \A t \in T : \E d \in 1..n : t = Traps(d)
    BY <2>2, <2>3, <2>4
  <2> HIDE DEF T
  <2> QED BY <2>1, <2>5
<1>6. IsFiniteSet(T)
  <2>1. IsFiniteSet({1} \cup {2})
    BY FS_Singleton, FS_AddElement
  <2>2. IsFiniteSet(({1} \cup {2}) \cup {3})
    BY <2>1, FS_AddElement
  <2>3. T = ({1} \cup {2}) \cup {3}
    OBVIOUS
  <2> QED BY <2>2, <2>3
<1>7. SafeTiles("easy") = SumOver(f, T)
  <2> DEFINE U == T
             x == "easy"
  <2>1. IsFiniteSet(U) /\ U = {TrapsOnFloor(x, 2 * d - 1, 2 * Fine) : d \in 1..Fine}
    BY <1>5, <1>6 DEF Traps, n
  <2>2. TowerTiles(x) = 4
    BY DEF TowerTiles
  <2> HIDE DEF U, x
  <2>3. SafeTiles(x)
          = SumOver([u \in U |-> (TowerTiles(x) - u)
              * Cardinality({d \in 1..Fine : TrapsOnFloor(x, 2 * d - 1, 2 * Fine) = u})], U)
    BY <2>1, SafeTilesIs
  <2>4. SafeTiles(x)
          = SumOver([u \in U |-> (4 - u)
              * Cardinality({d \in 1..Fine : TrapsOnFloor(x, 2 * d - 1, 2 * Fine) = u})], U)
    BY <2>2, <2>3
  <2> HIDE DEF T
  <2> QED BY <2>4 DEF U, x, Traps, n
<1>8. f[1] = 66 * k /\ f[2] = 18 * k /\ f[3] = 9 * k
  <2>1. f[1] = 3 * Cardinality(C(1)) /\ f[2] = 2 * Cardinality(C(2)) /\ f[3] = 1 * Cardinality(C(3))
    <3> HIDE DEF C
    <3>1. \A t \in T : f[t] = (4 - t) * Cardinality(C(t))
      OBVIOUS
    <3>2. 4 - 1 = 3 /\ 4 - 2 = 2 /\ 4 - 3 = 1 /\ 1 \in T /\ 2 \in T /\ 3 \in T
      OBVIOUS
    <3> HIDE DEF f, T
    <3>3. f[1] = (4 - 1) * Cardinality(C(1)) /\ f[2] = (4 - 2) * Cardinality(C(2))
          /\ f[3] = (4 - 3) * Cardinality(C(3))
      BY <3>1, <3>2
    <3> QED BY <3>2, <3>3
  <2> HIDE DEF f, C
  <2> QED BY <1>4, <2>1
<1>9. SumOver(f, T) = 93 * k
  <2>1. \A t \in T : f[t] \in Nat
    <3> HIDE DEF f
    <3> QED BY <1>8
  <2> HIDE DEF f
  <2>2. SumOver(f, T) = f[1] + SumOver(f, T \ {1})
    <3> DEFINE S == T
    <3>1. 1 \in S /\ IsFiniteSet(S) /\ \A t \in S : f[t] \in Nat
      BY <1>6, <2>1
    <3> HIDE DEF S
    <3> QED BY <3>1, SumRemove DEF S
  <2>3. SumOver(f, T \ {1}) = f[2] + SumOver(f, {3})
    <3> DEFINE S == T \ {1}
    <3>1. 2 \in S /\ \A t \in S : f[t] \in Nat
      BY <2>1
    <3>2. IsFiniteSet(S)
      <4> HIDE DEF T
      <4> QED BY <1>6, FS_RemoveElement
    <3>3. S \ {2} = {3}
      OBVIOUS
    <3> HIDE DEF S
    <3>4. SumOver(f, S) = f[2] + SumOver(f, S \ {2})
      BY <3>1, <3>2, SumRemove
    <3> QED BY <3>3, <3>4 DEF S
  <2>4. SumOver(f, {3}) = f[3]
    <3>1. f[3] \in Nat
      BY <2>1
    <3> QED BY <3>1, SumOne
  <2> HIDE DEF T
  <2> QED BY <1>8, <2>2, <2>3, <2>4
<1>10. Fine = 40 * k
  BY <1>1 DEF n
<1>11. (93 * k) * 160 = 93 * 4 * (40 * k)
  OBVIOUS
<1> QED BY <1>7, <1>9, <1>10, <1>11

\* A tower is as safe as its multipliers say.
LEMMA TowersPayFairly ==
  ASSUME NEW difficulty \in TowerDifficulties
  PROVE  LET survive == TowersSurviveRate(difficulty)
         IN /\ SafeTiles(difficulty) * survive[2] = survive[1] * TowerTiles(difficulty) * Fine
            /\ \A n \in 1..Floors :
                 FairPay(TowersMultiplier(difficulty, n), Power(survive[1], n), Power(survive[2], n))
<1> DEFINE survive == TowersSurviveRate(difficulty)
           a == survive[1]
           b == survive[2]
           tiles == TowerTiles(difficulty)
<1>1. a \in Nat \ {0} /\ b \in Nat \ {0}
  BY DEF TowersSurviveRate, TowerTiles, TowerMines, TowerDifficulties
<1>2. SafeTiles(difficulty) * b = a * tiles * Fine
  <2>1. CASE difficulty = "easy"
    <3>1. a = 93 /\ b = 160 /\ tiles = 4
      BY <2>1 DEF TowersSurviveRate, TowerTiles
    <3> HIDE DEF a, b, tiles
    <3> QED BY <2>1, <3>1, EasyFloors
  <2>2. CASE difficulty # "easy"
    <3> DEFINE mines == TowerMines(difficulty)
    <3>1. a = tiles - mines /\ b = tiles
      BY <2>2 DEF TowersSurviveRate
    <3>2. tiles \in Nat /\ mines \in Nat
      BY DEF TowerTiles, TowerMines, TowerDifficulties
    <3>3. SafeTiles(difficulty) = (tiles - mines) * Fine
      BY <2>2, EvenFloors
    <3>4. Fine \in Nat
      BY SMT DEF Fine
    <3> HIDE DEF a, b, tiles, mines
    <3>5. ((tiles - mines) * Fine) * tiles = (tiles - mines) * tiles * Fine
      BY <3>2, <3>4
    <3> QED BY <3>1, <3>3, <3>5
  <2> QED BY <2>1, <2>2
<1>3. ASSUME NEW n \in 1..Floors
      PROVE  FairPay(TowersMultiplier(difficulty, n), Power(a, n), Power(b, n))
  <2> DEFINE won == Power(a, n)
             of == Power(b, n)
             k == 1
  <2>1. n \in Nat /\ n # 0
    BY RulesAssumption
  <2>2. won \in Nat \ {0} /\ of \in Nat
    <3> HIDE DEF a, b
    <3> QED BY <1>1, <2>1, PowerType
  <2>3. TowersMultiplier(difficulty, n) = Rounded((100 - HouseEdge) * of, won)
    BY <2>1 DEF TowersMultiplier
  <2>4. k \in Nat \ {0} /\ won * k = won /\ of * k = of
    <3> HIDE DEF won, of
    <3> QED BY <2>2
  <2> HIDE DEF won, of, k
  <2>5. FairPay(Rounded((100 - HouseEdge) * of, won), won * k, of * k)
    BY <2>2, <2>4, OddsAreFair
  <2>6. FairPay(TowersMultiplier(difficulty, n), won, of)
    BY <2>3, <2>4, <2>5
  <2> QED BY <2>6 DEF won, of
<1> QED BY <1>2, <1>3

---------------------------------------------------------------------------
(* Averages *)

\* What a game returns is the sum of what its draws pay, each as often as it comes.
LEMMA ReturnedIs ==
  ASSUME NEW s, NEW D, IsFiniteSet(D), NEW pay, NEW w,
         HonestPay(s) = pay, DOMAIN pay = D,
         \A d \in D : pay[d] \in Nat /\ w[d] \in Nat,
         \A T \in SUBSET D : WeightOf(s, T) = SumOver(w, T)
  PROVE  Returned(s) = SumOver([d \in D |-> pay[d] * w[d]], D)
<1> DEFINE M == Range(pay)
           share == [m \in M |-> m * WeightOf(s, {d \in DOMAIN pay : pay[d] = m})]
           groups == [m \in M |-> m * SumOver(w, {d \in D : pay[d] = m})]
<1>1. Returned(s) = SumOver(share, M)
  BY DEF Returned
<1>2. share = groups
  OBVIOUS
<1>3. M = {pay[d] : d \in D}
  <2>1. Range(pay) = {pay[d] : d \in DOMAIN pay}
    BY DEF Range
  <2> QED BY <2>1
<1>4. IsFiniteSet(M)
  <2> DEFINE h == [d \in D |-> pay[d]]
  <2>1. h \in Surjection(D, M)
    BY <1>3 DEF Surjection
  <2> HIDE DEF h, M
  <2> QED BY <2>1, FS_Surjection
<1>5. \A m \in M : m \in Nat
  BY <1>3
<1>6. \A d \in D : pay[d] \in M /\ w[d] \in Nat
  BY <1>3
<1> HIDE DEF M
<1>7. SumOver(groups, M) = SumOver([d \in D |-> pay[d] * w[d]], D)
  BY <1>4, <1>5, <1>6, GroupedSum
<1> QED BY <1>1, <1>2, <1>7

\* Draws that are uniform return the sum of what they pay.
LEMMA UniformReturns ==
  ASSUME NEW s, s.game \notin {"plinko", "keno"}, NEW n \in Nat, Fineness(s) = n, NEW pay,
         HonestPay(s) = pay, \A d \in 1..n : pay[d] \in Nat
  PROVE  Returned(s) = SumOver(pay, 1..n) /\ WeightOf(s, HonestDraws(s)) = n
<1> DEFINE D == 1..n
           w == [d \in D |-> 1]
<1>1. HonestDraws(s) = D
  BY DEF HonestDraws
<1>2. DOMAIN pay = D
  BY <1>1 DEF HonestPay
<1>3. IsFiniteSet(D) /\ Cardinality(D) = n
  BY FS_Interval
<1>4. \A T \in SUBSET D : WeightOf(s, T) = SumOver(w, T)
  <2> SUFFICES ASSUME NEW T \in SUBSET D PROVE WeightOf(s, T) = SumOver(w, T)
    OBVIOUS
  <2>1. WeightOf(s, T) = Cardinality(T)
    BY DEF WeightOf
  <2>2. IsFiniteSet(T) /\ \A x \in T : w[x] = 1
    BY <1>3, FS_Subset
  <2> HIDE DEF w
  <2> QED BY <2>1, <2>2, CountIsSum
<1>5. \A d \in D : pay[d] \in Nat /\ w[d] \in Nat /\ pay[d] * w[d] = pay[d]
  OBVIOUS
<1>6. Returned(s) = SumOver([d \in D |-> pay[d] * w[d]], D)
  <2> HIDE DEF D, w
  <2> QED BY <1>2, <1>3, <1>4, <1>5, ReturnedIs
<1>7. SumOver([d \in D |-> pay[d] * w[d]], D) = SumOver(pay, D)
  <2> HIDE DEF D, w
  <2> QED BY <1>3, <1>5, SumSame
<1>8. WeightOf(s, D) = n
  BY <1>3 DEF WeightOf
<1> QED BY <1>1, <1>6, <1>7, <1>8

\* What draws return that pay at most p, and up to the first n and after the last k nothing.
LEMMA ReturnsAtMost ==
  ASSUME NEW a \in Nat, NEW k \in Nat, NEW b \in Nat, NEW p \in Nat, NEW f,
         \A i \in 1..a + k + b : f[i] \in Nat /\ f[i] <= p,
         \A i \in 1..a : f[i] = 0,
         \A i \in a + k + 1..a + k + b : f[i] = 0
  PROVE  SumOver(f, 1..a + k + b) \in Nat /\ SumOver(f, 1..a + k + b) <= k * p
<1> DEFINE m == a + k
           n == m + b
<1>1. SumOver(f, 1..0) = 0
  <2>1. 1..0 = {}
    OBVIOUS
  <2> QED BY <2>1, SumEmpty
<1>2. SumOver(f, 1..a) = 0
  <2>1. \A i \in 1..0 + a : f[i] \in Nat
    OBVIOUS
  <2>2. \A i \in 0 + 1..0 + a : 0 <= f[i] /\ f[i] <= 0
    OBVIOUS
  <2>3. SumOver(f, 1..0 + a) \in Nat /\ SumOver(f, 1..0 + a) <= SumOver(f, 1..0) + a * 0
    BY <2>1, <2>2, SumStretch
  <2>4. 0 + a = a /\ a * 0 = 0
    OBVIOUS
  <2> QED BY <1>1, <2>3, <2>4
<1>3. SumOver(f, 1..m) \in Nat /\ SumOver(f, 1..m) <= k * p
  <2>1. \A i \in 1..a + k : f[i] \in Nat
    OBVIOUS
  <2>2. \A i \in a + 1..a + k : 0 <= f[i] /\ f[i] <= p
    OBVIOUS
  <2>3. SumOver(f, 1..a + k) \in Nat /\ SumOver(f, 1..a + k) <= SumOver(f, 1..a) + k * p
    BY <2>1, <2>2, SumStretch
  <2>4. k * p \in Nat
    OBVIOUS
  <2> QED BY <1>2, <2>3, <2>4
<1>4. SumOver(f, 1..m + b) \in Nat /\ SumOver(f, 1..m + b) <= SumOver(f, 1..m) + b * 0
  <2>1. \A i \in 1..m + b : f[i] \in Nat
    OBVIOUS
  <2>2. \A i \in m + 1..m + b : 0 <= f[i] /\ f[i] <= 0
    OBVIOUS
  <2>3. m \in Nat
    OBVIOUS
  <2> HIDE DEF m
  <2> QED BY <2>1, <2>2, <2>3, SumStretch
<1>5. b * 0 = 0
  OBVIOUS
<1> QED BY <1>3, <1>4, <1>5

\* Rounded fractions of a positive number: twice the error is a denominator at most.
LEMMA RoundedBy ==
  ASSUME NEW a \in Nat, NEW b \in Nat \ {0}
  PROVE  /\ Rounded(a, b) \in Nat
         /\ 2 * (Rounded(a, b) * b) <= 2 * a + b
<1> DEFINE m == Rounded(a, b)
           r == m * b
<1>1. m \in Nat
  BY RoundedType
<1>2. 2 * (r - a) <= b
  BY RoundedIsNear
<1>3. r \in Nat
  <2> HIDE DEF m
  <2> QED BY <1>1
<1> HIDE DEF r
<1>4. 2 * r <= 2 * a + b
  BY <1>2, <1>3
<1> QED BY <1>1, <1>4 DEF r

\* Of n draws those that win, all but the first a and the last b, pay p, and together no
\* more than all the stakes.
FewWins(pay, n, p, a, k, b) ==
  /\ n \in Nat /\ p \in Nat /\ a \in Nat /\ k \in Nat /\ b \in Nat
  /\ a + k + b = n /\ k * p <= 100 * n
  /\ \A j \in 1..n : pay[j] \in {p, 0} /\ (pay[j] # 0 => a < j /\ j <= a + k)

\* Such draws favour no player.
LEMMA FewWinsReturnLess ==
  ASSUME NEW s, s.game \notin {"plinko", "keno"}, NEW n, Fineness(s) = n,
         NEW p, NEW a, NEW k, NEW b, FewWins(HonestPay(s), n, p, a, k, b)
  PROVE  ~FavoursThePlayer(s)
<1> DEFINE pay == HonestPay(s)
<1>0. /\ n \in Nat /\ p \in Nat /\ a \in Nat /\ k \in Nat /\ b \in Nat
      /\ a + k + b = n /\ k * p <= 100 * n
      /\ \A j \in 1..n : pay[j] \in {p, 0} /\ (pay[j] # 0 => a < j /\ j <= a + k)
      /\ HonestPay(s) = pay
  BY DEF FewWins
<1> HIDE DEF pay
<1>1. \A j \in 1..n : pay[j] \in Nat /\ pay[j] <= p
  BY <1>0
<1>2. Returned(s) = SumOver(pay, 1..n) /\ WeightOf(s, HonestDraws(s)) = n
  BY <1>0, <1>1, UniformReturns
<1>3. /\ \A i \in 1..a + k + b : pay[i] \in Nat /\ pay[i] <= p
      /\ \A i \in 1..a : pay[i] = 0
      /\ \A i \in a + k + 1..a + k + b : pay[i] = 0
  BY <1>0, <1>1, SMT
<1>4. SumOver(pay, 1..a + k + b) \in Nat /\ SumOver(pay, 1..a + k + b) <= k * p
  BY <1>0, <1>3, ReturnsAtMost
<1> DEFINE x == SumOver(pay, 1..n)
           y == k * p
<1>5. x \in Nat /\ x <= y /\ y \in Int /\ y <= 100 * n
  BY <1>0, <1>4
<1> HIDE DEF x, y
<1>6. ~(x > 100 * n)
  BY <1>0, <1>5
<1> QED BY <1>2, <1>6 DEF FavoursThePlayer, x

\* A fair multiplier, times its chance.
LEMMA FairMultiplierBy ==
  ASSUME NEW c \in Nat \ {0}, NEW of \in Nat
  PROVE  /\ FairMultiplier(c, of) \in Nat
         /\ 2 * (FairMultiplier(c, of) * c) <= 2 * ((100 - HouseEdge) * of) + c
<1> DEFINE a == (100 - HouseEdge) * of
<1>1. a \in Nat
  BY RulesAssumption
<1>2. FairMultiplier(c, of) = Rounded(a, c)
  BY DEF FairMultiplier
<1> HIDE DEF a
<1>3. Rounded(a, c) \in Nat /\ 2 * (Rounded(a, c) * c) <= 2 * a + c
  BY <1>1, RoundedBy
<1> QED BY <1>2, <1>3 DEF a

\* Chances and targets of Dice, and its honest roll in cents.
DiceRange(t) == t \in Int /\ 2000 <= t /\ t <= 98000
HonestRoll(j) == (10 * j + 1) \div 12

\* An honest roll is a twelfth of ten times its draw,
LEMMA HonestRollIs ==
  ASSUME NEW s, NEW j \in 1..Fine
  PROVE  /\ HonestRoll(j) \in Nat /\ 12 * HonestRoll(j) <= 10 * j + 1
         /\ 10 * j + 1 < 12 * HonestRoll(j) + 12
         /\ DiceRoll(s, "none", 2 * j - 1, 2 * Fine) = HonestRoll(j)
<1> DEFINE roll == DiceRoll(s, "none", 2 * j - 1, 2 * Fine)
           r == HonestRoll(j)
<1>1. roll = Rounded((2 * j - 1) * 10000, 2 * Fine)
  BY DEF DiceRoll
<1>2. roll = (2 * ((2 * j - 1) * 10000) + 2 * Fine) \div (2 * (2 * Fine))
  BY <1>1 DEF Rounded
<1>3. roll = (40000 * j + 4000) \div 48000
  <2>1. 2 * ((2 * j - 1) * 10000) + 2 * Fine = 40000 * j + 4000 /\ 2 * (2 * Fine) = 48000
    BY SMT DEF Fine
  <2> QED BY <1>2, <2>1, SMT
<1>4. r \in Nat /\ 12 * r <= 10 * j + 1 /\ 10 * j + 1 < 12 * r + 12
  BY SMT DEF HonestRoll
<1> HIDE DEF r
<1>5. (40000 * j + 4000) \div 48000 = r
  BY <1>4, SMT
<1> HIDE DEF roll
<1>6. roll = r
  BY <1>3, <1>5, SMT
<1> QED BY <1>4, <1>6 DEF roll, r

\* and wins on the player's side of the target only.
LEMMA DiceDrawsThatWin ==
  ASSUME NEW s, DiceRange(s.target), NEW j \in 1..Fine,
         DiceWins(s, Clamp(DiceRoll(s, "none", 2 * j - 1, 2 * Fine), 0, 9999))
  PROVE  /\ s.direction = "under" => 100 * j <= 12 * s.target + 88
         /\ s.direction # "under" => 100 * j >= 12 * s.target + 2
<1> DEFINE roll == HonestRoll(j)
           top == 9999
           r == Clamp(roll, 0, top)
           t == s.target
<1>1. roll \in Nat /\ 12 * roll <= 10 * j + 1 /\ 10 * j + 1 < 12 * roll + 12
  BY HonestRollIs
<1>2. DiceWins(s, r)
  BY HonestRollIs
<1>3. r = IF roll > top THEN top ELSE roll
  <2>1. top \in Int /\ 0 <= top
    BY SMT
  <2>2. roll \in Int /\ 0 \in Int /\ ~(roll < 0)
    BY <1>1
  <2> HIDE DEF top, roll
  <2> QED BY <2>1, <2>2, ClampIs
<1>4. IF s.direction = "under" THEN 10 * r < t ELSE 10 * r > t
  BY <1>2 DEF DiceWins
<1> HIDE DEF r, roll
<1>5. t \in Int /\ 2000 <= t /\ t <= 98000
  BY SMT DEF DiceRange
<1> HIDE DEF t
<1>6. s.direction = "under" => 100 * j <= 12 * t + 88
  BY <1>1, <1>3, <1>4, <1>5, SMT
<1>7. s.direction # "under" => 100 * j >= 12 * t + 2
  BY <1>1, <1>3, <1>4, <1>5, SMT
<1> QED BY <1>6, <1>7 DEF t

\* So many wins return less than the stakes.
LEMMA DiceOddsAreShort ==
  ASSUME HouseEdge >= 1, NEW c, DiceRange(c), NEW k \in Nat, 100 * k <= 12 * c + 98
  PROVE  /\ FairMultiplier(c, 100000) \in Nat
         /\ k * FairMultiplier(c, 100000) <= 100 * Fine
<1> DEFINE h == 100 - HouseEdge
           of == 100000
           p == FairMultiplier(c, of)
           q == p * c
           n == k * p
<1>1. h \in Nat /\ h <= 99
  BY RulesAssumption
<1>2. of \in Nat /\ c \in Nat \ {0}
  BY SMT DEF DiceRange
<1>3. p \in Nat /\ 2 * (p * c) <= 2 * (h * of) + c
  <2> HIDE DEF of
  <2> QED BY <1>2, FairMultiplierBy
<1> HIDE DEF p, h, of
<1>4. q \in Nat /\ n \in Nat /\ 2000 * p <= q
  <2>1. 2000 <= c
    BY SMT DEF DiceRange
  <2> QED BY <1>2, <1>3, <2>1, SMT
<1>5. 100 * n <= 12 * q + 98 * p
  <2>1. (100 * k) * p <= (12 * c + 98) * p
    <3> DEFINE a == 100 * k
               b == 12 * c + 98
    <3>1. a \in Nat /\ b \in Nat /\ a <= b
      BY <1>2
    <3> HIDE DEF a, b
    <3>2. a * p <= b * p
      BY <1>3, <3>1
    <3> QED BY <3>2 DEF a, b
  <2>2. (100 * k) * p = 100 * (k * p) /\ (12 * c + 98) * p = 12 * (p * c) + 98 * p
    BY <1>2, <1>3
  <2> QED BY <2>1, <2>2
<1>6. 2 * q <= 2 * (h * of) + c
  BY <1>3
<1> HIDE DEF q, n
<1>7. n <= 100 * Fine
  <2>1. c \in Nat /\ c <= 98000
    BY <1>2, SMT DEF DiceRange
  <2>2. of = 100000 /\ Fine = 12000
    BY SMT DEF of, Fine
  <2> QED BY <1>1, <1>3, <1>4, <1>5, <1>6, <2>1, <2>2, SMT
<1> QED BY <1>3, <1>7 DEF n, p, of

\* What uniform draws pay.
LEMMA HonestPayIs ==
  ASSUME NEW s, s.game \notin {"plinko", "keno"}, NEW n, Fineness(s) = n
  PROVE  \A j \in 1..n : HonestPay(s)[j] = Resolve(s, "none", 2 * j - 1, 2 * n)
<1>1. HonestDraws(s) = 1..n
  BY DEF HonestDraws
<1> QED BY <1>1 DEF HonestPay

\* An honest round of Dice returns less than its stake on average,
LEMMA DiceTakesItsEdge ==
  ASSUME HouseEdge >= 1, NEW s, s.game = "dice", DiceRange(s.target)
  PROVE  ~FavoursThePlayer(s)
<1> DEFINE n == Fine
           pay == HonestPay(s)
           c == DiceChance(s)
           p == FairMultiplier(c, 100000)
           t == s.target
           Won(j) == DiceWins(s, Clamp(DiceRoll(s, "none", 2 * j - 1, 2 * n), 0, 9999))
<1>1. Fineness(s) = n /\ n \in Nat
  BY SMT DEF Fineness, Fine
<1>2. s.game \notin {"plinko", "keno"}
  OBVIOUS
<1>3. \A j \in 1..n : pay[j] = IF Won(j) THEN p ELSE 0
  <2>1. \A j \in 1..n : pay[j] = Resolve(s, "none", 2 * j - 1, 2 * n)
    <3> HIDE DEF n
    <3> QED BY <1>1, <1>2, HonestPayIs
  <2>2. \A d, g : Resolve(s, "none", d, g)
                    = IF DiceWins(s, Clamp(DiceRoll(s, "none", d, g), 0, 9999)) THEN p ELSE 0
    BY DEF Resolve, Dice
  <2> HIDE DEF n, p, pay
  <2> QED BY <2>1, <2>2
<1>4. \A j \in 1..n : Won(j) => /\ s.direction = "under" => 100 * j <= 12 * t + 88
                                /\ s.direction # "under" => 100 * j >= 12 * t + 2
  BY DiceDrawsThatWin
<1>5. c = (IF s.direction = "under" THEN t ELSE 100000 - t) /\ DiceRange(c) /\ DiceRange(t)
  BY SMT DEF DiceChance, DiceRange
<1> HIDE DEF c, t, pay, Won
<1>6. ASSUME NEW a \in Nat, NEW k \in Nat, NEW b \in Nat, a + k + b = n, 100 * k <= 12 * c + 98,
             \A j \in 1..n : Won(j) => a < j /\ j <= a + k
      PROVE  ~FavoursThePlayer(s)
  <2>1. p \in Nat /\ k * p <= 100 * n
    BY <1>5, <1>6, DiceOddsAreShort
  <2>2. \A j \in 1..n : pay[j] \in {p, 0} /\ (pay[j] # 0 => a < j /\ j <= a + k)
    <3> HIDE DEF p
    <3> QED BY <1>3, <1>6
  <2> HIDE DEF n, p
  <2>3. FewWins(HonestPay(s), n, p, a, k, b)
    BY <1>1, <1>6, <2>1, <2>2 DEF FewWins, pay
  <2> QED BY <1>1, <1>2, <2>3, FewWinsReturnLess
<1>7. t \in Nat /\ c \in Nat
  BY <1>5, SMT DEF DiceRange
<1>8. CASE s.direction = "under"
  <2> DEFINE k == (12 * t + 88) \div 100
  <2>1. k \in Nat /\ 100 * k <= 12 * t + 88 /\ 12 * t + 88 < 100 * k + 100
    BY <1>7, SMT
  <2> HIDE DEF k
  <2>2. 100 * k <= 12 * c + 98 /\ n - k \in Nat /\ 0 + k + (n - k) = n
    BY <1>5, <1>7, <1>8, <2>1, SMT DEF DiceRange, Fine
  <2>3. \A j \in 1..n : Won(j) => 0 < j /\ j <= 0 + k
    <3> HIDE DEF n
    <3> QED BY <1>1, <1>4, <1>7, <1>8, <2>1, SMT
  <2> HIDE DEF n
  <2> QED BY <1>6, <2>1, <2>2, <2>3
<1>9. CASE s.direction # "under"
  <2> DEFINE a == (12 * t + 1) \div 100
             k == n - a
  <2>1. a \in Nat /\ 100 * a <= 12 * t + 1 /\ 12 * t + 1 < 100 * a + 100
    BY <1>7, SMT
  <2> HIDE DEF a
  <2>2. 100 * k <= 12 * c + 98 /\ k \in Nat /\ a + k + 0 = n /\ a + k = n
    BY <1>5, <1>7, <1>9, <2>1, SMT DEF DiceRange, Fine
  <2> HIDE DEF k
  <2>3. \A j \in 1..n : Won(j) => a < j /\ j <= a + k
    <3> HIDE DEF n
    <3> QED BY <1>1, <1>4, <1>7, <1>9, <2>1, <2>2, SMT
  <2> HIDE DEF n
  <2> QED BY <1>6, <2>1, <2>2, <2>3
<1> QED BY <1>8, <1>9

\* and so does a coin flip.
LEMMA CoinTakesItsEdge ==
  ASSUME HouseEdge >= 1, NEW s, s.game = "coin-flip", s.side \in {"heads", "tails"}
  PROVE  ~FavoursThePlayer(s)
<1> DEFINE n == Fine
           half == n \div 2
           pay == HonestPay(s)
           p == FairMultiplier(1, 2)
<1>1. Fineness(s) = n /\ n \in Nat /\ half \in Nat /\ half + half = n
  BY SMT DEF Fineness, Fine
<1>2. s.game \notin {"plinko", "keno"}
  OBVIOUS
<1>3. \A j \in 1..n : pay[j] = IF (IF 2 * (2 * j - 1) < 2 * n THEN "heads" ELSE "tails") = s.side
                                THEN p ELSE 0
  <2>1. \A j \in 1..n : pay[j] = Resolve(s, "none", 2 * j - 1, 2 * n)
    <3> HIDE DEF n
    <3> QED BY <1>1, <1>2, HonestPayIs
  <2>2. \A d, g : Resolve(s, "none", d, g)
                    = IF (IF 2 * d < g THEN "heads" ELSE "tails") = s.side THEN p ELSE 0
    BY DEF Resolve, CoinFlip
  <2> HIDE DEF n, p, pay
  <2> QED BY <2>1, <2>2
<1>4. p \in Nat /\ p <= 198
  <2>1. p \in Nat /\ 2 * (p * 1) <= 2 * ((100 - HouseEdge) * 2) + 1
    BY FairMultiplierBy
  <2>2. HouseEdge \in Nat
    BY RulesAssumption
  <2> HIDE DEF p
  <2> QED BY <2>1, <2>2
<1> HIDE DEF pay, p, n, half
<1>5. half * p <= 100 * n
  <2>1. half * p <= half * 198
    BY <1>1, <1>4
  <2> DEFINE x == half * p
  <2>2. x \in Nat /\ x <= 198 * half
    BY <1>1, <1>4, <2>1
  <2> HIDE DEF x
  <2>3. x <= 100 * n
    BY <1>1, <2>2
  <2> QED BY <2>3 DEF x
<1>6. ASSUME NEW a \in Nat, NEW b \in Nat, a + half + b = n,
             \A j \in 1..n : pay[j] # 0 => a < j /\ j <= a + half
      PROVE  ~FavoursThePlayer(s)
  <2>1. \A j \in 1..n : pay[j] \in {p, 0} /\ (pay[j] # 0 => a < j /\ j <= a + half)
    BY <1>3, <1>6
  <2>2. FewWins(HonestPay(s), n, p, a, half, b)
    BY <1>1, <1>4, <1>5, <1>6, <2>1 DEF FewWins, pay
  <2> QED BY <1>1, <1>2, <2>2, FewWinsReturnLess
<1>7. CASE s.side = "heads"
  <2>1. \A j \in 1..n : pay[j] # 0 => 0 < j /\ j <= 0 + half
    BY <1>1, <1>3, <1>7, SMT
  <2>2. 0 + half + half = n /\ 0 \in Nat
    BY <1>1
  <2> QED BY <1>1, <1>6, <2>1, <2>2
<1>8. CASE s.side = "tails"
  <2>1. \A j \in 1..n : pay[j] # 0 => half < j /\ j <= half + half
    BY <1>1, <1>3, <1>8, SMT
  <2>2. half + half + 0 = n /\ 0 \in Nat
    BY <1>1
  <2> QED BY <1>1, <1>6, <2>1, <2>2
<1> QED BY <1>7, <1>8

\* Where a draw d of 2n still crashes at a target, d times the target is near what the edge
\* leaves of all draws.
LEMMA CrashesReach ==
  ASSUME NEW t \in Nat, 1010 <= t, t <= 10 * MaxMultiplier,
         NEW n \in Nat, NEW d \in Nat \ {0}, 10 * LimboCrash(t, "none", d, 2 * n) >= t
  PROVE  d * (t - 5) <= 20 * ((100 - HouseEdge) * n)
<1> DEFINE h == 100 - HouseEdge
           a == h * (2 * n)
           r == Rounded(a, d)
           top == MaxMultiplier
           c == Clamp(r, 100, top)
           x == h * n
<1>1. h \in Nat /\ top \in Nat /\ top >= 101
  BY RulesAssumption
<1>2. a \in Nat /\ x \in Nat /\ a = 2 * x
  <2> HIDE DEF h
  <2> QED BY <1>1
<1>3. 10 * c >= t
  BY DEF LimboCrash
<1> HIDE DEF a
<1>4. r \in Nat /\ 2 * (r * d) <= 2 * a + d
  BY <1>2, RoundedBy
<1> HIDE DEF r, h, top
<1>5. c = IF r < 100 THEN 100 ELSE IF r > top THEN top ELSE r
  BY <1>1, <1>4, ClampIs
<1> HIDE DEF c
<1>6. t <= 10 * r
  BY <1>1, <1>3, <1>4, <1>5 DEF top
<1> DEFINE p == r * d
           q == t * d
<1>7. p \in Nat /\ q \in Nat /\ d * (t - 5) = q - 5 * d
  BY <1>4
<1>8. q <= 10 * p
  <2> DEFINE y == 10 * r
  <2>1. y \in Nat /\ t <= y /\ y * d = 10 * (r * d)
    BY <1>4, <1>6
  <2> HIDE DEF y
  <2>2. t * d <= y * d
    BY <2>1
  <2> QED BY <2>1, <2>2
<1>9. 2 * p <= 2 * a + d
  BY <1>4
<1> HIDE DEF p, q, x
<1>10. q - 5 * d <= 20 * x
  BY <1>2, <1>7, <1>8, <1>9
<1> QED BY <1>7, <1>10 DEF x, h

\* A target in thousandths, rounded to the hundredths it pays.
LEMMA RoundedToTenth ==
  ASSUME NEW t \in Nat
  PROVE  Rounded(t, 10) \in Nat /\ 20 * Rounded(t, 10) <= 2 * t + 10
<1> DEFINE p == Rounded(t, 10)
<1>1. p \in Nat /\ 2 * (p * 10) <= 2 * t + 10
  <2>1. 10 \in Nat \ {0}
    OBVIOUS
  <2> QED BY <2>1, RoundedBy
<1> HIDE DEF p
<1>2. 20 * p <= 2 * t + 10
  BY <1>1
<1> QED BY <1>1, <1>2 DEF p

\* How fine the draws must be for a target.
FineFor(m, t) == m \in Nat /\ t < 100000 * m

\* Draws as fine as these tell apart what the target leaves to the house.
LEMMA LimboOddsAreShort ==
  ASSUME NEW t \in Nat, 1010 <= t, NEW m, FineFor(m, t), NEW n, n = Fine * m,
         NEW k \in Nat, (2 * k - 1) * (t - 5) <= 1980 * n
  PROVE  n \in Nat /\ k <= n /\ k * Rounded(t, 10) <= 100 * n
<1> DEFINE w == t - 5
           z == k * w
           p == Rounded(t, 10)
           y == k * p
<1>1. n \in Nat /\ n = 12000 * m /\ w \in Nat /\ 1005 <= w /\ w < 100000 * m /\ m >= 1 /\ m \in Nat
  BY SMT DEF Fine, FineFor
<1>2. p \in Nat /\ 20 * p <= 2 * t + 10
  BY RoundedToTenth, SMT
<1> HIDE DEF p
<1>3. 10 * p <= w + 10
  BY <1>2, SMT
<1>4. z \in Nat /\ y \in Nat
  <2> HIDE DEF w
  <2> QED BY <1>1, <1>2, SMT
<1>5. 10 * y <= z + 10 * k
  <2> DEFINE a == 10 * p
             b == w + 10
  <2>1. a \in Nat /\ b \in Nat /\ a <= b /\ k * a = 10 * (k * p) /\ k * b = k * w + 10 * k
    <3> HIDE DEF w
    <3> QED BY <1>1, <1>2, <1>3, SMT
  <2> HIDE DEF a, b
  <2>2. k * a <= k * b
    BY <2>1, SMT
  <2> HIDE DEF w
  <2> QED BY <2>1, <2>2, SMT
<1>6. 2 * z - w <= 1980 * n
  <2>1. (2 * k - 1) * w = 2 * (k * w) - w
    <3> HIDE DEF w
    <3> QED BY <1>1, SMT
  <2> HIDE DEF w
  <2> QED BY <2>1, SMT DEF w
<1>7. ASSUME NEW v \in Nat, v <= w PROVE 2 * (v * k) - v <= 1980 * n
  <2>1. CASE k = 0
    <3>1. 2 * (v * k) = 0
      BY <2>1, SMT
    <3> DEFINE u == v * k
    <3>2. u \in Nat /\ 2 * u = 0
      BY <3>1, SMT
    <3> HIDE DEF u
    <3>3. 2 * u - v <= 1980 * n
      BY <1>1, <3>2, SMT
    <3> QED BY <3>3, SMT DEF u
  <2>2. CASE k # 0
    <3> DEFINE j == 2 * k - 1
    <3>1. j \in Nat
      BY <2>2, SMT
    <3>2. j * v <= j * w
      <4> HIDE DEF j, w
      <4> QED BY <1>1, <1>7, <3>1, SMT
    <3>3. j * v = 2 * (v * k) - v /\ j * w = 2 * z - w
      <4> HIDE DEF w
      <4> QED BY <1>1, <1>7, SMT
    <3> HIDE DEF j, z, w
    <3> DEFINE u == 2 * (v * k) - v
    <3>4. u \in Int /\ u <= 2 * z - w
      BY <1>7, <3>2, <3>3, SMT
    <3> HIDE DEF u
    <3>5. u <= 1980 * n
      BY <1>1, <1>4, <1>6, <3>4, SMT
    <3> QED BY <3>5, SMT DEF u
  <2> QED BY <2>1, <2>2, SMT
<1> HIDE DEF y, z, w
<1>8. k <= n /\ w + 20 * k <= 20 * n
  <2>1. CASE w <= 3500
    <3>1. 2 * (1005 * k) - 1005 <= 1980 * n
      BY <1>1, <1>7, SMT
    <3> QED BY <1>1, <2>1, <3>1, SMT
  <2>2. CASE w > 3500
    <3>1. 2 * (3500 * k) - 3500 <= 1980 * n
      BY <1>1, <1>7, <2>2, SMT
    <3> QED BY <1>1, <3>1, SMT
  <2> QED BY <1>1, <2>1, <2>2, SMT
<1>9. y <= 100 * n
  BY <1>1, <1>4, <1>5, <1>6, <1>8, SMT
<1> QED BY <1>1, <1>8, <1>9, SMT DEF y, p

\* The target Limbo plays to.
LEMMA LimboTargetIs ==
  ASSUME NEW s, s.target \in Int
  PROVE  LimboTarget(s) \in Nat /\ 1010 <= LimboTarget(s) /\ LimboTarget(s) <= 10 * MaxMultiplier
<1> DEFINE high == 10 * MaxMultiplier
           t == s.target
<1>1. high \in Int /\ 1010 <= high /\ 1010 \in Int /\ t \in Int
  BY RulesAssumption, SMT
<1>2. LimboTarget(s) = Clamp(t, 1010, high)
  BY DEF LimboTarget
<1> HIDE DEF high, t
<1>3. Clamp(t, 1010, high) = IF t < 1010 THEN 1010 ELSE IF t > high THEN high ELSE t
  BY <1>1, ClampIs
<1>4. Clamp(t, 1010, high) \in Nat /\ 1010 <= Clamp(t, 1010, high) /\ Clamp(t, 1010, high) <= high
  BY <1>1, <1>3, SMT
<1> QED BY <1>2, <1>4 DEF high

\* So does Limbo,
LEMMA LimboTakesItsEdge ==
  ASSUME HouseEdge >= 1, NEW s, s.game = "limbo", s.target \in Int
  PROVE  ~FavoursThePlayer(s)
<1> DEFINE t == LimboTarget(s)
           m == 1 + t \div 100000
           n == Fine * m
           h == 100 - HouseEdge
           w == t - 5
           a == 20 * (h * n)
           p == Rounded(t, 10)
           k == (a + w) \div (2 * w)
           pay == HonestPay(s)
           Won(j) == 10 * LimboCrash(t, "none", 2 * j - 1, 2 * n) >= t
<1>1. t \in Nat /\ 1010 <= t /\ t <= 10 * MaxMultiplier
  BY LimboTargetIs
<1>2. s.game \notin {"plinko", "keno"}
  OBVIOUS
<1>3. Fineness(s) = n
  BY DEF Fineness
<1> HIDE DEF t
<1>4. m \in Nat /\ FineFor(m, t)
  BY <1>1, SMT DEF FineFor
<1> HIDE DEF m
<1>5. n \in Nat
  BY <1>4, SMT DEF Fine
<1>6. \A j \in 1..n : pay[j] = IF Won(j) THEN p ELSE 0
  <2>1. \A j \in 1..n : pay[j] = Resolve(s, "none", 2 * j - 1, 2 * n)
    <3> HIDE DEF n
    <3> QED BY <1>2, <1>3, HonestPayIs
  <2>2. \A d, g : Resolve(s, "none", d, g) = IF 10 * LimboCrash(t, "none", d, g) >= t THEN p ELSE 0
    BY DEF Resolve, Limbo, t
  <2> HIDE DEF n, p, pay
  <2> QED BY <2>1, <2>2
<1>7. h \in Nat /\ h <= 99 /\ w \in Nat /\ w >= 1005
  BY <1>1, RulesAssumption, SMT
<1> HIDE DEF n, h, w, pay, p
<1>8. a \in Nat /\ a <= 1980 * n
  <2> DEFINE x == h * n
  <2>1. x \in Nat /\ x <= 99 * n
    BY <1>5, <1>7, SMT
  <2> HIDE DEF x
  <2>2. 20 * x \in Nat /\ 20 * x <= 1980 * n
    BY <2>1, <1>5, SMT
  <2> QED BY <2>2, SMT DEF x
<1> HIDE DEF a
<1>9. k \in Nat /\ (2 * k - 1) * w <= a /\ a < (2 * k + 1) * w
  <2> DEFINE b == a + w
             c == 2 * w
  <2>1. b \in Nat /\ c \in Nat \ {0}
    BY <1>7, <1>8, SMT
  <2> HIDE DEF b, c
  <2>2. k \in Nat /\ c * k <= b /\ b < c * (k + 1)
    BY <2>1, SMT DEF b, c
  <2> HIDE DEF k
  <2> DEFINE z == k * w
  <2>3. z \in Nat /\ c * k = 2 * z /\ c * (k + 1) = 2 * z + 2 * w
        /\ (2 * k - 1) * w = 2 * z - w /\ (2 * k + 1) * w = 2 * z + w
    BY <1>7, <2>2, SMT DEF c
  <2> HIDE DEF z
  <2> QED BY <1>7, <1>8, <2>2, <2>3, SMT DEF b
<1> HIDE DEF k
<1>10. k <= n /\ p \in Nat /\ k * p <= 100 * n
  <2> DEFINE u == (2 * k - 1) * w
  <2>1. u \in Int /\ u <= 1980 * n
    <3>1. u \in Int /\ u <= a
      BY <1>7, <1>9, SMT
    <3> HIDE DEF u
    <3> QED BY <1>5, <1>8, <3>1, SMT
  <2>2. (2 * k - 1) * (t - 5) <= 1980 * n
    BY <2>1 DEF w
  <2>3. n = Fine * m
    BY DEF n
  <2> QED BY <1>1, <1>4, <1>9, <2>2, <2>3, LimboOddsAreShort, RoundedToTenth DEF p
<1>11. \A j \in 1..n : Won(j) => 0 < j /\ j <= 0 + k
  <2> SUFFICES ASSUME NEW j \in 1..n, Won(j) PROVE j <= k
    BY <1>9, SMT
  <2> DEFINE d == 2 * j - 1
  <2>1. d \in Nat \ {0}
    BY <1>5, SMT
  <2>2. d * w <= a
    <3> HIDE DEF d
    <3> QED BY <1>1, <1>5, <2>1, CrashesReach DEF a, h, w, d
  <2>3. ASSUME j > k PROVE FALSE
    <3> DEFINE b == 2 * k + 1
    <3>1. b \in Nat /\ b <= d /\ a < b * w
      BY <1>5, <1>9, <2>3, SMT
    <3> HIDE DEF b, d
    <3>2. b * w <= d * w
      BY <1>7, <2>1, <3>1, SMT
    <3> DEFINE x == b * w
               y == d * w
    <3>3. x \in Int /\ y \in Int /\ x <= y /\ y <= a /\ a < x
      BY <1>7, <2>1, <2>2, <3>1, <3>2, SMT
    <3> HIDE DEF x, y
    <3> QED BY <1>8, <3>3, SMT
  <2> QED BY <1>5, <1>9, <2>3, SMT
<1> HIDE DEF Won
<1>12. \A j \in 1..n : pay[j] \in {p, 0} /\ (pay[j] # 0 => 0 < j /\ j <= 0 + k)
  BY <1>6, <1>11
<1>13. n - k \in Nat /\ 0 + k + (n - k) = n
  BY <1>5, <1>9, <1>10, SMT
<1>14. FewWins(HonestPay(s), n, p, 0, k, n - k)
  BY <1>5, <1>9, <1>10, <1>12, <1>13 DEF FewWins, pay
<1> QED BY <1>2, <1>3, <1>14, FewWinsReturnLess

\* What the twelve segments of a wheel pay together when k draws come to each.
AllSegments(t, k) ==
  (k * t[1] + k * t[2] + k * t[3] + k * t[4]) + (k * t[5] + k * t[6] + k * t[7] + k * t[8])
    + (k * t[9] + k * t[10] + k * t[11] + k * t[12])

\* A function that has the value of segment i on its stretch of k draws.
LEMMA SegmentsAddUp ==
  ASSUME NEW k \in Nat, NEW f, NEW t, \A i \in 1..12 : t[i] \in Nat,
         \A i \in 1..12 : \A j \in (i - 1) * k + 1..i * k : f[j] = t[i]
  PROVE  /\ SumOver(f, 1..12 * k) \in Nat
         /\ SumOver(f, 1..12 * k) >= AllSegments(t, k)
<1> DEFINE S(i) == SumOver(f, 1..i * k)
<1>1. \A i \in 0..12 : \A j \in 1..i * k : f[j] \in Nat
  <2> DEFINE Good == {i \in Nat : i <= 12 => \A j \in 1..i * k : f[j] \in Nat}
  <2>1. 0 \in Good
    OBVIOUS
  <2>2. \A i \in Nat : i \in Good => i + 1 \in Good
    <3> SUFFICES ASSUME NEW i \in Nat, i \in Good, i + 1 <= 12, NEW j \in 1..(i + 1) * k
                 PROVE  f[j] \in Nat
      OBVIOUS
    <3>1. i \in 0..12 /\ i + 1 \in 1..12 /\ (i + 1) - 1 = i
      OBVIOUS
    <3>2. CASE j \in 1..i * k
      BY <3>1, <3>2
    <3>3. CASE j \notin 1..i * k
      <4>1. j \in i * k + 1..(i + 1) * k
        <5> DEFINE a == i * k
                   b == (i + 1) * k
        <5>1. a \in Nat /\ b \in Nat /\ j \in 1..b /\ j \notin 1..a
          BY <3>3
        <5> HIDE DEF a, b
        <5>2. j \in a + 1..b
          BY <5>1
        <5> QED BY <5>2 DEF a, b
      <4>2. f[j] = t[i + 1]
        BY <3>1, <4>1
      <4> QED BY <3>1, <4>2
    <3> QED BY <3>2, <3>3
  <2>3. \A i \in Nat : i \in Good
    <3> HIDE DEF Good
    <3> QED BY <2>1, <2>2, NaturalInduction
  <2> QED BY <2>3
<1>2. ASSUME NEW i \in 1..12
      PROVE  S(i - 1) \in Nat /\ S(i) \in Nat /\ S(i) >= S(i - 1) + k * t[i]
  <2> DEFINE n == (i - 1) * k
             x == t[i]
  <2>1. n \in Nat /\ x \in Nat /\ n + k = i * k /\ i \in 0..12
    OBVIOUS
  <2>2. \A j \in 1..n + k : f[j] \in Nat
    BY <1>1, <2>1
  <2>3. \A j \in n + 1..n + k : x <= f[j] /\ f[j] <= x
    BY <2>1
  <2>4. /\ SumOver(f, 1..n) \in Nat /\ SumOver(f, 1..n + k) \in Nat
        /\ SumOver(f, 1..n) + k * x <= SumOver(f, 1..n + k)
    <3> HIDE DEF n, x
    <3> QED BY <2>1, <2>2, <2>3, SumStretch
  <2> QED BY <2>1, <2>4
<1> HIDE DEF S
<1> DEFINE g == [i \in 0..12 |-> S(i)]
           p == [i \in 1..12 |-> k * t[i]]
<1>3. ASSUME NEW i \in 1..12
      PROVE  g[i - 1] \in Nat /\ g[i] \in Nat /\ g[i] >= g[i - 1] + p[i]
  <2>1. i - 1 \in 0..12 /\ i \in 0..12
    OBVIOUS
  <2> QED BY <1>2, <2>1
<1>4. ASSUME NEW i \in 1..12 PROVE p[i] \in Nat
  OBVIOUS
<1>5. g[12] = SumOver(f, 1..12 * k)
  BY DEF S
<1>6. (p[1] + p[2] + p[3] + p[4]) + (p[5] + p[6] + p[7] + p[8]) + (p[9] + p[10] + p[11] + p[12])
        = AllSegments(t, k)
  BY DEF AllSegments
<1> HIDE DEF g, p
<1>7. g[0] \in Nat /\ g[1] >= g[0] + p[1] /\ g[2] >= g[1] + p[2] /\ g[3] >= g[2] + p[3]
      /\ g[4] >= g[3] + p[4] /\ g[5] >= g[4] + p[5] /\ g[6] >= g[5] + p[6] /\ g[7] >= g[6] + p[7]
      /\ g[8] >= g[7] + p[8] /\ g[9] >= g[8] + p[9] /\ g[10] >= g[9] + p[10]
      /\ g[11] >= g[10] + p[11] /\ g[12] >= g[11] + p[12]
  BY <1>3, SMT
<1>8. \A i \in 0..12 : g[i] \in Nat
  <2>1. g[0] \in Nat
    BY <1>7
  <2>2. \A i \in 1..12 : g[i] \in Nat
    BY <1>3
  <2> QED BY <2>1, <2>2, SMT
<1>9. g[12] >= (p[1] + p[2] + p[3] + p[4]) + (p[5] + p[6] + p[7] + p[8]) + (p[9] + p[10] + p[11] + p[12])
  <2>1. g[0] \in Nat /\ g[1] \in Nat /\ g[2] \in Nat /\ g[3] \in Nat /\ g[4] \in Nat /\ g[5] \in Nat
        /\ g[6] \in Nat /\ g[7] \in Nat /\ g[8] \in Nat /\ g[9] \in Nat /\ g[10] \in Nat
        /\ g[11] \in Nat /\ g[12] \in Nat
    BY <1>8, SMT
  <2>2. p[1] \in Nat /\ p[2] \in Nat /\ p[3] \in Nat /\ p[4] \in Nat /\ p[5] \in Nat /\ p[6] \in Nat
        /\ p[7] \in Nat /\ p[8] \in Nat /\ p[9] \in Nat /\ p[10] \in Nat /\ p[11] \in Nat
        /\ p[12] \in Nat
    BY <1>4, SMT
  <2>3. g[4] >= p[1] + p[2] + p[3] + p[4]
    BY <1>7, <2>1, <2>2, SMT
  <2>4. g[8] >= g[4] + (p[5] + p[6] + p[7] + p[8])
    BY <1>7, <2>1, <2>2, SMT
  <2>5. g[12] >= g[8] + (p[9] + p[10] + p[11] + p[12])
    BY <1>7, <2>1, <2>2, SMT
  <2> DEFINE a == p[1] + p[2] + p[3] + p[4]
             b == p[5] + p[6] + p[7] + p[8]
             c == p[9] + p[10] + p[11] + p[12]
  <2>6. a \in Nat /\ b \in Nat /\ c \in Nat
    BY <2>2, SMT
  <2> HIDE DEF a, b, c
  <2>7. g[12] >= a + b + c
    BY <2>1, <2>3, <2>4, <2>5, <2>6, SMT DEF a, b, c
  <2> QED BY <2>7 DEF a, b, c
<1> QED BY <1>5, <1>6, <1>8, <1>9

\* The segments of every wheel pay more than twelve stakes.
LEMMA SegmentsPayMore ==
  ASSUME NEW risk \in Risks, NEW k \in Nat \ {0}
  PROVE  /\ AllSegments(WheelSegments(risk), k) \in Nat
         /\ AllSegments(WheelSegments(risk), k) > 1200 * k
<1>1. CASE risk = "low"
  BY <1>1, SMT DEF WheelSegments, AllSegments
<1>2. CASE risk = "medium"
  BY <1>2, SMT DEF WheelSegments, AllSegments
<1>3. CASE risk = "high"
  BY <1>3, SMT DEF WheelSegments, AllSegments
<1> QED BY <1>1, <1>2, <1>3 DEF Risks

\* The Wheel returns more than the stake.
LEMMA WheelFavoursThePlayer ==
  ASSUME NEW s, s.game = "wheel", s.risk \in Risks
  PROVE  FavoursThePlayer(s)
<1> DEFINE k == Fine \div 12
           n == Fine
           t == WheelSegments(s.risk)
           pay == HonestPay(s)
           u == AllSegments(t, k)
<1>1. Fineness(s) = n /\ n \in Nat /\ k \in Nat \ {0} /\ n = 12 * k
  BY SMT DEF Fineness, Fine
<1>2. s.game \notin {"plinko", "keno"}
  OBVIOUS
<1>3. /\ DOMAIN t = 1..12 /\ Len(t) = 12
      /\ \A i \in 1..12 : t[i] \in Nat
  BY SegmentsAre
<1>4. u \in Nat /\ u > 1200 * k
  <2> HIDE DEF k, n
  <2> QED BY <1>1, SegmentsPayMore
<1>5. \A j \in 1..n : pay[j] = t[PickOf(12, 2 * j - 1, 2 * n) + 1]
  <2>1. \A j \in 1..n : pay[j] = Resolve(s, "none", 2 * j - 1, 2 * n)
    <3> HIDE DEF n
    <3> QED BY <1>1, <1>2, HonestPayIs
  <2>2. \A d, g : Resolve(s, "none", d, g) = t[PickOf(Len(t), d, g) + 1]
    BY DEF Resolve, Wheel
  <2> HIDE DEF n, t, pay
  <2> QED BY <1>3, <2>1, <2>2
<1> HIDE DEF pay, t, k, n, u
<1>6. \A i \in 1..12 : \A j \in (i - 1) * k + 1..i * k : j \in 1..n /\ pay[j] = t[i]
  <2> SUFFICES ASSUME NEW i \in 1..12, NEW j \in (i - 1) * k + 1..i * k
               PROVE  j \in 1..n /\ pay[j] = t[i]
    OBVIOUS
  <2> DEFINE d == 2 * j - 1
             a == i * k
  <2>1. k \in Nat \ {0} /\ a \in Nat /\ a <= n /\ a - k + 1 <= j /\ j <= a /\ 0 <= a - k /\ j \in Int
    BY <1>1, SMT
  <2>2. j \in 1..n /\ 24 * k = 2 * n
    <3> HIDE DEF a
    <3> QED BY <1>1, <2>1, SMT
  <2>3. (24 * k) * (i - 1) = 24 * a - 24 * k /\ (24 * k) * i = 24 * a
    BY <1>1, SMT
  <2> DEFINE g == 24 * k
             x == d * 12
  <2>4. x \in Nat /\ g \in Nat \ {0} /\ g * (i - 1) <= x /\ x < g * i
    <3>1. x = 24 * j - 12 /\ x \in Nat
      BY <2>2, SMT
    <3> HIDE DEF a, x
    <3> QED BY <1>1, <2>1, <2>3, <3>1, SMT
  <2> HIDE DEF x, g
  <2>5. x \div g = i - 1
    <3>1. i - 1 <= x \div g /\ x \div g < i
      BY <2>4, DivAtLeast, DivBelow
    <3>2. x \div g \in Int
      BY <2>4, SMT
    <3> QED BY <3>1, <3>2, SMT
  <2>6. PickOf(12, d, 2 * n) = i - 1
    BY <2>2, <2>5 DEF PickOf, x, g
  <2>7. (i - 1) + 1 = i
    OBVIOUS
  <2> QED BY <1>5, <2>2, <2>6, <2>7
<1>7. SumOver(pay, 1..n) \in Nat /\ SumOver(pay, 1..n) >= u
  <2>1. SumOver(pay, 1..12 * k) \in Nat /\ SumOver(pay, 1..12 * k) >= AllSegments(t, k)
    BY <1>1, <1>3, <1>6, SegmentsAddUp
  <2> QED BY <1>1, <2>1 DEF u
<1>8. u > 100 * n
  BY <1>1, <1>4, SMT
<1>9. Returned(s) = SumOver(pay, 1..n) /\ WeightOf(s, HonestDraws(s)) = n
  <2>1. \A j \in 1..n : pay[j] \in Nat
    <3> SUFFICES ASSUME NEW j \in 1..n PROVE pay[j] \in Nat
      OBVIOUS
    <3> DEFINE i == PickOf(12, 2 * j - 1, 2 * n) + 1
    <3>1. i \in 1..12
      <4>1. 12 \in Nat \ {0} /\ 2 * n \in Nat \ {0} /\ 2 * j - 1 \in 0..2 * n - 1
        BY <1>1
      <4>2. PickOf(12, 2 * j - 1, 2 * n) \in 0..12 - 1
        BY <4>1, PickInRange
      <4> QED BY <4>2
    <3> HIDE DEF i
    <3> QED BY <1>3, <1>5, <3>1 DEF i
  <2>2. HonestPay(s) = pay
    BY DEF pay
  <2> QED BY <1>1, <1>2, <2>1, <2>2, UniformReturns
<1> DEFINE x == SumOver(pay, 1..n)
<1>10. x \in Nat /\ x >= u
  BY <1>7
<1> HIDE DEF x
<1>11. x > 100 * n
  BY <1>1, <1>4, <1>8, <1>10
<1> QED BY <1>9, <1>11 DEF FavoursThePlayer, x

---------------------------------------------------------------------------
(* Pascal's triangle *)

\* The recursion behind the triangle, of rows 0 to m with as many columns.
Triangle(row, m) ==
  row = [n \in 0..m |->
           [k \in 0..m |-> IF k = 0 THEN 1 ELSE IF n = 0 THEN 0
                           ELSE row[n - 1][k - 1] + row[n - 1][k]]]

\* There are such rows, and whole numbers are in them.
LEMMA TriangleExists ==
  ASSUME NEW m \in Nat
  PROVE  \E row : Triangle(row, m)
<1> DEFINE V == [0..m -> Int]
           base == [k \in 0..m |-> IF k = 0 THEN 1 ELSE 0]
           Next1(v) == [k \in 0..m |-> IF k = 0 THEN 1 ELSE v[k - 1] + v[k]]
           step == [n \in Nat |-> [v \in V |-> Next1(v)]]
<1>1. base \in V
  OBVIOUS
<1>2. \A v \in V : Next1(v) \in V
  OBVIOUS
<1>3. step \in [Nat -> [V -> V]]
  <2> HIDE DEF V, Next1
  <2> QED BY <1>2
<1>4. \A n \in Nat : \A v \in V : step[n][v] = Next1(v)
  OBVIOUS
<1>5. PICK h : Steps(h, V, base, m, step)
  <2> HIDE DEF V, base, step
  <2> QED BY <1>1, <1>3, RecursionExists
<1>6. h \in [0..m -> V] /\ h[0] = base /\ \A n \in 1..m : h[n] = Next1(h[n - 1])
  <2>1. h \in [0..m -> V] /\ h[0] = base /\ \A n \in 1..m : h[n] = step[n][h[n - 1]]
    BY <1>5 DEF Steps
  <2>2. \A n \in 1..m : n \in Nat /\ h[n - 1] \in V
    <3> HIDE DEF V
    <3> QED BY <2>1
  <2> HIDE DEF V, base, step, Next1
  <2> QED BY <1>4, <2>1, <2>2
<1> DEFINE Row(n) == [k \in 0..m |-> IF k = 0 THEN 1 ELSE IF n = 0 THEN 0
                                     ELSE h[n - 1][k - 1] + h[n - 1][k]]
<1>7. \A n \in 0..m : h[n] = Row(n)
  <2> SUFFICES ASSUME NEW n \in 0..m PROVE h[n] = Row(n)
    OBVIOUS
  <2>1. CASE n = 0
    BY <1>6, <2>1
  <2>2. CASE n # 0
    <3>1. n \in 1..m
      BY <2>2
    <3>2. h[n] = Next1(h[n - 1])
      <4> HIDE DEF V, base, step, Next1
      <4> QED BY <1>6, <3>1
    <3>3. Next1(h[n - 1]) = Row(n)
      BY <2>2
    <3> QED BY <3>2, <3>3
  <2> QED BY <2>1, <2>2
<1>8. h = [n \in 0..m |-> Row(n)]
  <2>1. h = [n \in 0..m |-> h[n]]
    <3> HIDE DEF V
    <3> QED BY <1>6
  <2> HIDE DEF Row
  <2> QED BY <1>7, <2>1
<1> QED BY <1>8 DEF Triangle

\* The edges of the triangle, and an entry from the two above it.
LEMMA TriangleIs ==
  ASSUME NEW m \in Nat, NEW row, Triangle(row, m)
  PROVE  /\ \A n \in 0..m : row[n][0] = 1
         /\ \A k \in 1..m : row[0][k] = 0
         /\ \A n \in 1..m, k \in 1..m : row[n][k] = row[n - 1][k - 1] + row[n - 1][k]
         /\ \A n \in 0..m, k \in 0..m : row[n][k] \in Nat
<1> DEFINE Row(n) == [k \in 0..m |-> IF k = 0 THEN 1 ELSE IF n = 0 THEN 0
                                     ELSE row[n - 1][k - 1] + row[n - 1][k]]
<1>1. \A n \in 0..m : row[n] = Row(n)
  <2>1. row = [n \in 0..m |-> Row(n)]
    BY DEF Triangle
  <2> HIDE DEF Row
  <2> QED BY <2>1
<1>2. \A n \in 0..m, k \in 0..m :
        row[n][k] = IF k = 0 THEN 1 ELSE IF n = 0 THEN 0 ELSE row[n - 1][k - 1] + row[n - 1][k]
  BY <1>1
<1>3. \A n \in 0..m : row[n][0] = 1
  BY <1>2
<1>4. \A k \in 1..m : row[0][k] = 0
  BY <1>2
<1>5. \A n \in 1..m, k \in 1..m : row[n][k] = row[n - 1][k - 1] + row[n - 1][k]
  <2> SUFFICES ASSUME NEW n \in 1..m, NEW k \in 1..m
               PROVE  row[n][k] = row[n - 1][k - 1] + row[n - 1][k]
    OBVIOUS
  <2>1. n \in 0..m /\ k \in 0..m /\ n # 0 /\ k # 0
    OBVIOUS
  <2> HIDE DEF Row
  <2> QED BY <1>2, <2>1
<1> DEFINE G == {n \in Nat : n <= m => \A k \in 0..m : row[n][k] \in Nat}
<1>6. 0 \in G
  <2> SUFFICES ASSUME NEW k \in 0..m PROVE row[0][k] \in Nat
    OBVIOUS
  <2>1. 0 \in 0..m /\ (k = 0 \/ k \in 1..m)
    OBVIOUS
  <2> HIDE DEF Row
  <2> QED BY <1>3, <1>4, <2>1
<1>7. \A n \in Nat : n \in G => n + 1 \in G
  <2> SUFFICES ASSUME NEW n \in Nat, n \in G, n + 1 <= m, NEW k \in 0..m
               PROVE  row[n + 1][k] \in Nat
    OBVIOUS
  <2>1. n + 1 \in 1..m /\ n + 1 \in 0..m /\ (n + 1) - 1 = n /\ n <= m
    OBVIOUS
  <2> HIDE DEF Row
  <2>2. CASE k = 0
    BY <1>3, <2>1, <2>2
  <2>3. CASE k # 0
    <3>1. k \in 1..m /\ k - 1 \in 0..m
      BY <2>3
    <3>2. row[n][k - 1] \in Nat /\ row[n][k] \in Nat
      BY <2>1, <3>1
    <3>3. row[n + 1][k] = row[n][k - 1] + row[n][k]
      BY <1>5, <2>1, <3>1
    <3> QED BY <3>2, <3>3
  <2> QED BY <2>2, <2>3
<1>8. \A n \in Nat : n \in G
  <2> HIDE DEF G
  <2> QED BY <1>6, <1>7, NaturalInduction
<1> QED BY <1>3, <1>4, <1>5, <1>8

\* An entry times its column is the one before it times what is left of its row.
LEMMA TriangleStep ==
  ASSUME NEW m \in Nat, NEW row, Triangle(row, m)
  PROVE  \A n \in 0..m, k \in 1..m : k * row[n][k] = (n - k + 1) * row[n][k - 1]
<1>1. /\ \A n \in 0..m : row[n][0] = 1
      /\ \A k \in 1..m : row[0][k] = 0
      /\ \A n \in 1..m, k \in 1..m : row[n][k] = row[n - 1][k - 1] + row[n - 1][k]
      /\ \A n \in 0..m, k \in 0..m : row[n][k] \in Nat
  BY TriangleIs
<1> DEFINE G == {n \in Nat : n <= m => \A k \in 1..m : k * row[n][k] = (n - k + 1) * row[n][k - 1]}
<1>2. 0 \in G
  <2> SUFFICES ASSUME NEW k \in 1..m PROVE k * row[0][k] = (0 - k + 1) * row[0][k - 1]
    OBVIOUS
  <2>1. k * row[0][k] = 0
    <3>1. row[0][k] = 0 /\ k * 0 = 0
      BY <1>1
    <3> QED BY <3>1
  <2>2. CASE k = 1
    <3>1. 0 - k + 1 = 0 /\ k - 1 = 0
      BY <2>2
    <3>2. row[0][0] = 1 /\ 0 * 1 = 0
      BY <1>1
    <3> QED BY <2>1, <3>1, <3>2
  <2>3. CASE k # 1
    <3>1. k - 1 \in 1..m /\ 0 - k + 1 \in Int
      BY <2>3
    <3>2. row[0][k - 1] = 0
      BY <1>1, <3>1
    <3> DEFINE a == 0 - k + 1
    <3>3. a * 0 = 0
      BY <3>1
    <3> HIDE DEF a
    <3>4. a * row[0][k - 1] = 0
      BY <3>2, <3>3
    <3> QED BY <2>1, <3>4 DEF a
  <2> QED BY <2>2, <2>3
<1>3. \A n \in Nat : n \in G => n + 1 \in G
  <2> SUFFICES ASSUME NEW n \in Nat, n \in G, n + 1 <= m, NEW k \in 1..m
               PROVE  k * row[n + 1][k] = (n + 1 - k + 1) * row[n + 1][k - 1]
    OBVIOUS
  <2> DEFINE x == row[n][k]
             y == row[n][k - 1]
             l == k - 1
  <2>1. n + 1 \in 1..m /\ n + 1 \in 0..m /\ (n + 1) - 1 = n /\ n \in 0..m /\ k \in 0..m /\ l \in 0..m
    OBVIOUS
  <2>2. x \in Nat /\ y \in Nat
    BY <1>1, <2>1
  <2>3. row[n + 1][k] = y + x
    BY <1>1, <2>1
  <2>4. k * x = (n - k + 1) * y
    BY <2>1
  <2> HIDE DEF x, y
  <2>5. k * (y + x) = (n + 1) * y
    <3>1. k * (y + x) = k * y + k * x /\ (n + 1) * y = k * y + (n - k + 1) * y
      BY <2>2, SMT
    <3> QED BY <2>4, <3>1
  <2>6. CASE k = 1
    <3>1. y = 1
      BY <1>1, <2>1, <2>6 DEF y
    <3>2. row[n + 1][k - 1] = 1
      BY <1>1, <2>1, <2>6
    <3>3. n + 1 - k + 1 = n + 1
      BY <2>6
    <3> QED BY <2>3, <2>5, <3>1, <3>2, <3>3
  <2>7. CASE k # 1
    <3> DEFINE z == row[n][l - 1]
    <3>1. l \in 1..m /\ l - 1 \in 0..m
      BY <2>7
    <3>2. z \in Nat /\ row[n + 1][l] = z + y
      BY <1>1, <2>1, <3>1 DEF y
    <3>3. l * y = (n - l + 1) * z
      BY <2>1, <3>1 DEF y
    <3> HIDE DEF z
    <3>4. (n - l + 1) * (z + y) = (n + 1) * y
      <4> DEFINE c == n - l + 1
      <4>1. c \in Int /\ c + l = n + 1
        BY <3>1
      <4> HIDE DEF c, l
      <4>2. c * (z + y) = c * z + c * y /\ (c + l) * y = c * y + l * y
        BY <2>2, <3>1, <3>2, <4>1, SMT
      <4>3. c * y \in Int /\ c * z \in Int
        BY <2>2, <3>2, <4>1
      <4>4. l * y = c * z
        BY <3>3 DEF c
      <4> DEFINE p == c * z
                 q == c * y
      <4>5. c * (z + y) = p + q /\ (c + l) * y = q + p /\ p \in Int /\ q \in Int
        BY <4>2, <4>3, <4>4
      <4> HIDE DEF p, q
      <4>6. p + q = q + p
        BY <4>5
      <4>7. c * (z + y) = (n + 1) * y
        BY <4>1, <4>5, <4>6
      <4> QED BY <4>7 DEF c
    <3>5. n + 1 - k + 1 = n - l + 1
      OBVIOUS
    <3> QED BY <2>3, <2>5, <3>2, <3>4, <3>5
  <2> QED BY <2>6, <2>7
<1>4. \A n \in Nat : n \in G
  <2> HIDE DEF G
  <2> QED BY <1>2, <1>3, NaturalInduction
<1> QED BY <1>4

\* Binomial is such a triangle.
LEMMA BinomialIs == Triangle(Binomial, Spots)
<1>1. Spots \in Nat
  BY DEF Spots
<1>2. \E row : Triangle(row, Spots)
  BY <1>1, TriangleExists
<1> DEFINE row == CHOOSE r : Triangle(r, Spots)
<1>3. Triangle(row, Spots)
  BY <1>2
<1>4. Binomial = row
  BY DEF Binomial, Triangle
<1> QED BY <1>3, <1>4

---------------------------------------------------------------------------
(* Games with a table of what draws pay *)

\* A draw d of 0 to n pays top[d] and comes up w[d] times.
ShortOdds(top, w, n) ==
  SumOver([d \in 0..n |-> top[d] * w[d]], 0..n) <= 100 * SumOver(w, 0..n)

\* What the house keeps of the draws up to each.
Keeps(r, top, w, n) ==
  /\ r \in [0..n -> Int] /\ r[0] = (100 - top[0]) * w[0]
  /\ \A k \in 1..n : r[k] = r[k - 1] + (100 - top[k]) * w[k]

\* The odds are short when it keeps something of all draws.
LEMMA KeepsOfAll ==
  ASSUME NEW n \in Nat, NEW top, NEW w, \A d \in 0..n : top[d] \in Nat /\ w[d] \in Nat
  PROVE  \E r : Keeps(r, top, w, n) /\ (r[n] >= 0 => ShortOdds(top, w, n))
<1> DEFINE x == [d \in 0..n |-> top[d] * w[d]]
           A(k) == SumOver(w, 0..k)
           B(k) == SumOver(x, 0..k)
           r == [k \in 0..n |-> 100 * A(k) - B(k)]
<1>1. \A d \in 0..n : x[d] \in Nat /\ x[d] = top[d] * w[d]
  <2> SUFFICES ASSUME NEW d \in 0..n PROVE x[d] \in Nat /\ x[d] = top[d] * w[d]
    OBVIOUS
  <2>1. top[d] \in Nat /\ w[d] \in Nat
    OBVIOUS
  <2> QED BY <2>1
<1> HIDE DEF x
<1>2. A(0) = w[0] /\ B(0) = x[0] /\ w[0] \in Nat /\ x[0] \in Nat
  <2>1. 0..0 = {0} /\ 0 \in 0..n
    OBVIOUS
  <2>2. w[0] \in Nat /\ x[0] \in Nat
    BY <1>1, <2>1
  <2>3. SumOver(w, {0}) = w[0] /\ SumOver(x, {0}) = x[0]
    BY <2>2, SumOne
  <2> QED BY <2>1, <2>2, <2>3
<1>3. ASSUME NEW k \in 1..n
      PROVE  /\ A(k - 1) \in Nat /\ A(k) = A(k - 1) + w[k] /\ w[k] \in Nat
             /\ B(k - 1) \in Nat /\ B(k) = B(k - 1) + x[k] /\ x[k] \in Nat
  <2> DEFINE m == k - 1
  <2>1. m \in Nat /\ k = m + 1 /\ 0 <= m + 1 /\ 0 \in Nat
    OBVIOUS
  <2>2. \A i \in 0..m + 1 : w[i] \in Nat /\ x[i] \in Nat
    BY <1>1
  <2> HIDE DEF m
  <2>3. SumOver(w, 0..m + 1) = SumOver(w, 0..m) + w[m + 1] /\ SumOver(w, 0..m) \in Nat
    BY <2>1, <2>2, SumNext
  <2>4. SumOver(x, 0..m + 1) = SumOver(x, 0..m) + x[m + 1] /\ SumOver(x, 0..m) \in Nat
    BY <2>1, <2>2, SumNext
  <2>5. w[m + 1] \in Nat /\ x[m + 1] \in Nat
    BY <2>1, <2>2
  <2> QED BY <2>1, <2>3, <2>4, <2>5 DEF m
<1> HIDE DEF A, B
<1>4. \A k \in 0..n : A(k) \in Nat /\ B(k) \in Nat
  <2> SUFFICES ASSUME NEW k \in 0..n PROVE A(k) \in Nat /\ B(k) \in Nat
    OBVIOUS
  <2>1. CASE k = 0
    BY <1>2, <2>1
  <2>2. CASE k # 0
    <3>1. k \in 1..n
      BY <2>2
    <3> QED BY <1>3, <3>1
  <2> QED BY <2>1, <2>2
<1>5. r \in [0..n -> Int] /\ \A k \in 0..n : r[k] = 100 * A(k) - B(k)
  BY <1>4
<1> HIDE DEF r
<1>6. r[0] = (100 - top[0]) * w[0]
  <2>1. r[0] = 100 * w[0] - top[0] * w[0] /\ top[0] \in Nat
    BY <1>1, <1>2, <1>5
  <2>2. (100 - top[0]) * w[0] = 100 * w[0] - top[0] * w[0]
    BY <1>2, <2>1, SMT
  <2> QED BY <2>1, <2>2
<1>7. ASSUME NEW k \in 1..n PROVE r[k] = r[k - 1] + (100 - top[k]) * w[k]
  <2>1. k \in 0..n /\ k - 1 \in 0..n
    OBVIOUS
  <2>2. (100 - top[k]) * w[k] = 100 * w[k] - x[k] /\ w[k] \in Nat /\ x[k] \in Nat
    BY <1>1, <2>1, SMT
  <2>3. /\ r[k] = 100 * A(k) - B(k) /\ r[k - 1] = 100 * A(k - 1) - B(k - 1)
        /\ A(k) = A(k - 1) + w[k] /\ B(k) = B(k - 1) + x[k]
        /\ A(k - 1) \in Nat /\ B(k - 1) \in Nat
    BY <1>3, <1>5, <2>1
  <2> DEFINE u == (100 - top[k]) * w[k]
  <2>4. u = 100 * w[k] - x[k]
    BY <2>2
  <2> HIDE DEF u
  <2>5. r[k] = r[k - 1] + u
    BY <2>2, <2>3, <2>4, SMT
  <2> QED BY <2>5 DEF u
<1>8. Keeps(r, top, w, n)
  BY <1>5, <1>6, <1>7 DEF Keeps
<1>9. ASSUME r[n] >= 0 PROVE ShortOdds(top, w, n)
  <2>1. B(n) <= 100 * A(n)
    BY <1>4, <1>5, <1>9
  <2> QED BY <2>1 DEF ShortOdds, A, B, x
<1> QED BY <1>8, <1>9

\* Sums keep the order of their terms.
LEMMA SumAtMost ==
  ASSUME NEW n \in Nat, NEW x, NEW y,
         \A i \in 0..n : x[i] \in Nat /\ y[i] \in Nat /\ x[i] <= y[i]
  PROVE  /\ SumOver(x, 0..n) \in Nat /\ SumOver(y, 0..n) \in Nat
         /\ SumOver(x, 0..n) <= SumOver(y, 0..n)
<1> DEFINE A(k) == SumOver(x, 0..k)
           B(k) == SumOver(y, 0..k)
           G == {k \in Nat : k <= n => A(k) \in Nat /\ B(k) \in Nat /\ A(k) <= B(k)}
<1>1. 0 \in G
  <2>1. 0..0 = {0} /\ x[0] \in Nat /\ y[0] \in Nat /\ x[0] <= y[0]
    OBVIOUS
  <2>2. SumOver(x, {0}) = x[0] /\ SumOver(y, {0}) = y[0]
    BY <2>1, SumOne
  <2> QED BY <2>1, <2>2
<1>2. \A k \in Nat : k \in G => k + 1 \in G
  <2> SUFFICES ASSUME NEW k \in Nat, k \in G, k + 1 <= n
               PROVE  A(k + 1) \in Nat /\ B(k + 1) \in Nat /\ A(k + 1) <= B(k + 1)
    OBVIOUS
  <2>1. \A i \in 0..k + 1 : x[i] \in Nat /\ y[i] \in Nat /\ x[i] <= y[i]
    OBVIOUS
  <2>2. 0 <= k + 1 /\ 0 \in Nat /\ k + 1 \in 0..k + 1
    OBVIOUS
  <2>3. A(k + 1) = A(k) + x[k + 1] /\ B(k + 1) = B(k) + y[k + 1]
    BY <2>1, <2>2, SumNext
  <2>4. A(k) \in Nat /\ B(k) \in Nat /\ A(k) <= B(k)
    OBVIOUS
  <2>5. x[k + 1] \in Nat /\ y[k + 1] \in Nat /\ x[k + 1] <= y[k + 1]
    BY <2>1, <2>2
  <2> HIDE DEF A, B, G
  <2> QED BY <2>3, <2>4, <2>5
<1>3. \A k \in Nat : k \in G
  <2> HIDE DEF G
  <2> QED BY <1>1, <1>2, NaturalInduction
<1> QED BY <1>3

\* A game that pays no more than a table with short odds does not favour the player.
LEMMA ShortTablesReturnLess ==
  ASSUME NEW s, s.game \in {"plinko", "keno"}, NEW n \in Nat, DrawsOf(s, "none") = 0..n,
         NEW top, NEW w, ShortOdds(top, w, n),
         \A d \in 0..n : /\ top[d] \in Nat /\ w[d] \in Nat /\ Weight(s, d) = w[d]
                         /\ Resolve(s, "none", d, Grain) \in Nat
                         /\ Resolve(s, "none", d, Grain) <= top[d]
  PROVE  ~FavoursThePlayer(s)
<1> DEFINE D == 0..n
           pay == HonestPay(s)
           x == [d \in D |-> pay[d] * w[d]]
           y == [d \in D |-> top[d] * w[d]]
<1>1. HonestDraws(s) = D /\ IsFiniteSet(D)
  BY FS_Interval DEF HonestDraws
<1>2. pay = [d \in D |-> Resolve(s, "none", d, Grain)]
  BY <1>1 DEF HonestPay
<1>3. DOMAIN pay = D /\ \A d \in D : pay[d] \in Nat /\ w[d] \in Nat /\ pay[d] <= top[d] /\ top[d] \in Nat
  BY <1>2
<1>4. \A T \in SUBSET D : WeightOf(s, T) = SumOver(w, T)
  <2> SUFFICES ASSUME NEW T \in SUBSET D PROVE WeightOf(s, T) = SumOver(w, T)
    OBVIOUS
  <2>1. WeightOf(s, T) = SumOver([d \in T |-> Weight(s, d)], T)
    BY DEF WeightOf
  <2>2. IsFiniteSet(T) /\ \A d \in T : [e \in T |-> Weight(s, e)][d] = w[d]
    BY <1>1, FS_Subset
  <2> QED BY <2>1, <2>2, SumSame
<1> HIDE DEF pay
<1>5. Returned(s) = SumOver(x, D)
  <2>1. HonestPay(s) = pay
    BY DEF pay
  <2> HIDE DEF D
  <2> QED BY <1>1, <1>3, <1>4, <2>1, ReturnedIs
<1>6. \A d \in D : x[d] \in Nat /\ y[d] \in Nat /\ x[d] <= y[d]
  <2> SUFFICES ASSUME NEW d \in D PROVE x[d] \in Nat /\ y[d] \in Nat /\ x[d] <= y[d]
    OBVIOUS
  <2> DEFINE a == pay[d]
             b == top[d]
             c == w[d]
  <2>1. a \in Nat /\ b \in Nat /\ c \in Nat /\ a <= b
    BY <1>3
  <2>2. x[d] = a * c /\ y[d] = b * c
    OBVIOUS
  <2> HIDE DEF a, b, c, x, y
  <2>3. a * c \in Nat /\ b * c \in Nat /\ a * c <= b * c
    BY <2>1
  <2> QED BY <2>2, <2>3
<1>7. SumOver(x, 0..n) \in Nat /\ SumOver(y, 0..n) \in Nat /\ SumOver(x, 0..n) <= SumOver(y, 0..n)
  <2> HIDE DEF x, y
  <2> QED BY <1>6, SumAtMost
<1>8. SumOver(y, 0..n) <= 100 * SumOver(w, 0..n)
  BY DEF ShortOdds
<1>9. SumOver(w, D) \in Nat /\ WeightOf(s, D) = SumOver(w, D)
  <2>1. D \in SUBSET D
    OBVIOUS
  <2>2. WeightOf(s, D) = SumOver(w, D)
    BY <1>4, <2>1
  <2>3. \A d \in D : w[d] \in Nat
    BY <1>3
  <2> HIDE DEF D
  <2> QED BY <1>1, <2>2, <2>3, SumType
<1> DEFINE a == SumOver(x, 0..n)
           b == SumOver(y, 0..n)
           c == SumOver(w, 0..n)
<1>10. a \in Nat /\ b \in Nat /\ c \in Nat /\ a <= b /\ b <= 100 * c
  BY <1>7, <1>8, <1>9
<1> HIDE DEF a, b, c, x, y
<1>11. ~(a > 100 * c)
  BY <1>10
<1> QED BY <1>1, <1>5, <1>9, <1>11 DEF FavoursThePlayer, a, c

\* The rows of the triangle that weigh what Plinko and Keno draw.
LEMMA RowIs ==
  ASSUME NEW n \in 0..Spots
  PROVE  /\ Binomial[n][0] = 1
         /\ \A k \in 0..Spots : Binomial[n][k] \in Nat
         /\ \A k \in 1..Spots : k * Binomial[n][k] = (n - k + 1) * Binomial[n][k - 1]
<1>1. Spots \in Nat
  BY DEF Spots
<1> QED BY <1>1, BinomialIs, TriangleIs, TriangleStep

\* Columns that every row has.
LEMMA FirstColumns == \A k \in 1..16 : k \in 1..Spots /\ k \in 0..Spots
BY SMT DEF Spots

\* Row 8 of the triangle.
LEMMA RowOfEight ==
  /\ Binomial[8][0] = 1 /\ Binomial[8][1] = 8 /\ Binomial[8][2] = 28 /\ Binomial[8][3] = 56
  /\ Binomial[8][4] = 70 /\ Binomial[8][5] = 56 /\ Binomial[8][6] = 28 /\ Binomial[8][7] = 8
  /\ Binomial[8][8] = 1
<1> DEFINE b == Binomial[8]
<1>1. 8 \in 0..Spots
  BY SMT DEF Spots
<1>2. /\ b[0] = 1
      /\ \A k \in 0..Spots : b[k] \in Nat
      /\ \A k \in 1..Spots : k * b[k] = (8 - k + 1) * b[k - 1]
  BY <1>1, RowIs
<1> HIDE DEF b
<1>3. b[1] = 8
  BY <1>2, FirstColumns, SMT
<1>4. b[2] = 28
  BY <1>2, <1>3, FirstColumns, SMT
<1>5. b[3] = 56
  BY <1>2, <1>4, FirstColumns, SMT
<1>6. b[4] = 70
  BY <1>2, <1>5, FirstColumns, SMT
<1>7. b[5] = 56
  BY <1>2, <1>6, FirstColumns, SMT
<1>8. b[6] = 28
  BY <1>2, <1>7, FirstColumns, SMT
<1>9. b[7] = 8
  BY <1>2, <1>8, FirstColumns, SMT
<1>10. b[8] = 1
  BY <1>2, <1>9, FirstColumns, SMT
<1> QED BY <1>2, <1>3, <1>4, <1>5, <1>6, <1>7, <1>8, <1>9, <1>10, SMT DEF b

\* Row 12 of the triangle.
LEMMA RowOfTwelve ==
  /\ Binomial[12][0] = 1 /\ Binomial[12][1] = 12 /\ Binomial[12][2] = 66
  /\ Binomial[12][3] = 220 /\ Binomial[12][4] = 495 /\ Binomial[12][5] = 792
  /\ Binomial[12][6] = 924 /\ Binomial[12][7] = 792 /\ Binomial[12][8] = 495
  /\ Binomial[12][9] = 220 /\ Binomial[12][10] = 66 /\ Binomial[12][11] = 12
  /\ Binomial[12][12] = 1
<1> DEFINE b == Binomial[12]
<1>1. 12 \in 0..Spots
  BY SMT DEF Spots
<1>2. /\ b[0] = 1
      /\ \A k \in 0..Spots : b[k] \in Nat
      /\ \A k \in 1..Spots : k * b[k] = (12 - k + 1) * b[k - 1]
  BY <1>1, RowIs
<1> HIDE DEF b
<1>3. b[1] = 12
  BY <1>2, FirstColumns, SMT
<1>4. b[2] = 66
  BY <1>2, <1>3, FirstColumns, SMT
<1>5. b[3] = 220
  BY <1>2, <1>4, FirstColumns, SMT
<1>6. b[4] = 495
  BY <1>2, <1>5, FirstColumns, SMT
<1>7. b[5] = 792
  BY <1>2, <1>6, FirstColumns, SMT
<1>8. b[6] = 924
  BY <1>2, <1>7, FirstColumns, SMT
<1>9. b[7] = 792
  BY <1>2, <1>8, FirstColumns, SMT
<1>10. b[8] = 495
  BY <1>2, <1>9, FirstColumns, SMT
<1>11. b[9] = 220
  BY <1>2, <1>10, FirstColumns, SMT
<1>12. b[10] = 66
  BY <1>2, <1>11, FirstColumns, SMT
<1>13. b[11] = 12
  BY <1>2, <1>12, FirstColumns, SMT
<1>14. b[12] = 1
  BY <1>2, <1>13, FirstColumns, SMT
<1> QED BY <1>2, <1>3, <1>4, <1>5, <1>6, <1>7, <1>8, <1>9, <1>10, <1>11, <1>12, <1>13, <1>14, SMT DEF b

\* Row 16 of the triangle.
LEMMA RowOfSixteen ==
  /\ Binomial[16][0] = 1 /\ Binomial[16][1] = 16 /\ Binomial[16][2] = 120
  /\ Binomial[16][3] = 560 /\ Binomial[16][4] = 1820 /\ Binomial[16][5] = 4368
  /\ Binomial[16][6] = 8008 /\ Binomial[16][7] = 11440 /\ Binomial[16][8] = 12870
  /\ Binomial[16][9] = 11440 /\ Binomial[16][10] = 8008 /\ Binomial[16][11] = 4368
  /\ Binomial[16][12] = 1820 /\ Binomial[16][13] = 560 /\ Binomial[16][14] = 120
  /\ Binomial[16][15] = 16 /\ Binomial[16][16] = 1
<1> DEFINE b == Binomial[16]
<1>1. 16 \in 0..Spots
  BY SMT DEF Spots
<1>2. /\ b[0] = 1
      /\ \A k \in 0..Spots : b[k] \in Nat
      /\ \A k \in 1..Spots : k * b[k] = (16 - k + 1) * b[k - 1]
  BY <1>1, RowIs
<1> HIDE DEF b
<1>3. b[1] = 16
  BY <1>2, FirstColumns, SMT
<1>4. b[2] = 120
  BY <1>2, <1>3, FirstColumns, SMT
<1>5. b[3] = 560
  BY <1>2, <1>4, FirstColumns, SMT
<1>6. b[4] = 1820
  BY <1>2, <1>5, FirstColumns, SMT
<1>7. b[5] = 4368
  BY <1>2, <1>6, FirstColumns, SMT
<1>8. b[6] = 8008
  BY <1>2, <1>7, FirstColumns, SMT
<1>9. b[7] = 11440
  BY <1>2, <1>8, FirstColumns, SMT
<1>10. b[8] = 12870
  BY <1>2, <1>9, FirstColumns, SMT
<1>11. b[9] = 11440
  BY <1>2, <1>10, FirstColumns, SMT
<1>12. b[10] = 8008
  BY <1>2, <1>11, FirstColumns, SMT
<1>13. b[11] = 4368
  BY <1>2, <1>12, FirstColumns, SMT
<1>14. b[12] = 1820
  BY <1>2, <1>13, FirstColumns, SMT
<1>15. b[13] = 560
  BY <1>2, <1>14, FirstColumns, SMT
<1>16. b[14] = 120
  BY <1>2, <1>15, FirstColumns, SMT
<1>17. b[15] = 16
  BY <1>2, <1>16, FirstColumns, SMT
<1>18. b[16] = 1
  BY <1>2, <1>17, FirstColumns, SMT
<1> QED BY <1>2, <1>3, <1>4, <1>5, <1>6, <1>7, <1>8, <1>9, <1>10, <1>11, <1>12, <1>13, <1>14, <1>15, <1>16, <1>17, <1>18, SMT DEF b

\* Row 10 of the triangle.
LEMMA RowOfTen ==
  /\ Binomial[10][0] = 1 /\ Binomial[10][1] = 10 /\ Binomial[10][2] = 45
  /\ Binomial[10][3] = 120 /\ Binomial[10][4] = 210 /\ Binomial[10][5] = 252
  /\ Binomial[10][6] = 210 /\ Binomial[10][7] = 120 /\ Binomial[10][8] = 45
  /\ Binomial[10][9] = 10 /\ Binomial[10][10] = 1
<1> DEFINE b == Binomial[10]
<1>1. 10 \in 0..Spots
  BY SMT DEF Spots
<1>2. /\ b[0] = 1
      /\ \A k \in 0..Spots : b[k] \in Nat
      /\ \A k \in 1..Spots : k * b[k] = (10 - k + 1) * b[k - 1]
  BY <1>1, RowIs
<1> HIDE DEF b
<1>3. b[1] = 10
  BY <1>2, FirstColumns, SMT
<1>4. b[2] = 45
  BY <1>2, <1>3, FirstColumns, SMT
<1>5. b[3] = 120
  BY <1>2, <1>4, FirstColumns, SMT
<1>6. b[4] = 210
  BY <1>2, <1>5, FirstColumns, SMT
<1>7. b[5] = 252
  BY <1>2, <1>6, FirstColumns, SMT
<1>8. b[6] = 210
  BY <1>2, <1>7, FirstColumns, SMT
<1>9. b[7] = 120
  BY <1>2, <1>8, FirstColumns, SMT
<1>10. b[8] = 45
  BY <1>2, <1>9, FirstColumns, SMT
<1>11. b[9] = 10
  BY <1>2, <1>10, FirstColumns, SMT
<1>12. b[10] = 1
  BY <1>2, <1>11, FirstColumns, SMT
<1> QED BY <1>2, <1>3, <1>4, <1>5, <1>6, <1>7, <1>8, <1>9, <1>10, <1>11, <1>12, SMT DEF b

\* Row 40 of the triangle, as far as ten picks need.
LEMMA RowOfForty ==
  /\ Binomial[40][0] = 1 /\ Binomial[40][1] = 40 /\ Binomial[40][2] = 780
  /\ Binomial[40][3] = 9880 /\ Binomial[40][4] = 91390 /\ Binomial[40][5] = 658008
  /\ Binomial[40][6] = 3838380 /\ Binomial[40][7] = 18643560 /\ Binomial[40][8] = 76904685
  /\ Binomial[40][9] = 273438880 /\ Binomial[40][10] = 847660528
<1> DEFINE b == Binomial[40]
<1>1. 40 \in 0..Spots
  BY SMT DEF Spots
<1>2. /\ b[0] = 1
      /\ \A k \in 0..Spots : b[k] \in Nat
      /\ \A k \in 1..Spots : k * b[k] = (40 - k + 1) * b[k - 1]
  BY <1>1, RowIs
<1> HIDE DEF b
<1>3. b[1] = 40
  BY <1>2, FirstColumns, SMT
<1>4. b[2] = 780
  BY <1>2, <1>3, FirstColumns, SMT
<1>5. b[3] = 9880
  BY <1>2, <1>4, FirstColumns, SMT
<1>6. b[4] = 91390
  BY <1>2, <1>5, FirstColumns, SMT
<1>7. b[5] = 658008
  BY <1>2, <1>6, FirstColumns, SMT
<1>8. b[6] = 3838380
  BY <1>2, <1>7, FirstColumns, SMT
<1>9. b[7] = 18643560
  BY <1>2, <1>8, FirstColumns, SMT
<1>10. b[8] = 76904685
  BY <1>2, <1>9, FirstColumns, SMT
<1>11. b[9] = 273438880
  BY <1>2, <1>10, FirstColumns, SMT
<1>12. b[10] = 847660528
  BY <1>2, <1>11, FirstColumns, SMT
<1> QED BY <1>2, <1>3, <1>4, <1>5, <1>6, <1>7, <1>8, <1>9, <1>10, <1>11, <1>12, SMT DEF b

\* Buckets mirror the half of their table.
LEMMA BucketIs ==
  ASSUME NEW s, s.risk \in Risks, s.rows \in {8, 12, 16}, NEW d \in 0..s.rows
  PROVE  PlinkoBuckets(s)[d + 1]
           = PlinkoHalf(s.risk, s.rows)[IF 2 * d <= s.rows THEN d + 1 ELSE s.rows - d + 1]
<1> DEFINE half == PlinkoHalf(s.risk, s.rows)
           n == Len(half)
           back == Reverse(half)
           b == half \o Tail(back)
<1>1. half \in Seq(Nat) /\ 2 * n = s.rows + 2
  BY HalvesAre
<1>2. n \in Nat /\ n >= 2 /\ s.rows = 2 * n - 2
  <2> HIDE DEF half
  <2> QED BY <1>1
<1>3. PlinkoBuckets(s) = b
  BY DEF PlinkoBuckets
<1>4. back \in Seq(Nat) /\ Len(back) = n /\ \A i \in 1..n : back[i] = half[n - i + 1]
  <2> HIDE DEF half
  <2>1. \A i \in 1..n : half[n - i + 1] \in Nat
    BY <1>1, <1>2
  <2>2. back = [i \in 1..n |-> half[n - i + 1]]
    BY DEF Reverse
  <2> HIDE DEF back
  <2> QED BY <1>2, <2>1, <2>2
<1> HIDE DEF half, back
<1>5. Tail(back) \in Seq(Nat) /\ Len(Tail(back)) = n - 1
      /\ \A i \in 1..n - 1 : Tail(back)[i] = half[n - i]
  <2>1. Tail(back) \in Seq(Nat) /\ Len(Tail(back)) = n - 1
        /\ \A i \in 1..n - 1 : Tail(back)[i] = back[i + 1]
    BY <1>2, <1>4
  <2>2. \A i \in 1..n - 1 : i + 1 \in 1..n /\ n - (i + 1) + 1 = n - i
    BY <1>2
  <2> QED BY <1>4, <2>1, <2>2
<1> DEFINE t == Tail(back)
<1>6. \A i \in 1..n + (n - 1) : b[i] = IF i <= n THEN half[i] ELSE t[i - n]
  BY <1>1, <1>2, <1>5
<1> HIDE DEF b, t
<1>7. d + 1 \in 1..n + (n - 1)
  BY <1>2
<1>8. CASE 2 * d <= s.rows
  <2>1. d + 1 <= n
    BY <1>2, <1>8
  <2> QED BY <1>3, <1>6, <1>7, <1>8, <2>1 DEF half
<1>9. CASE ~(2 * d <= s.rows)
  <2>1. ~(d + 1 <= n) /\ d + 1 - n \in 1..n - 1 /\ n - (d + 1 - n) = s.rows - d + 1
    BY <1>2, <1>9
  <2>2. b[d + 1] = t[d + 1 - n]
    BY <1>6, <1>7, <2>1
  <2>3. t[d + 1 - n] = half[n - (d + 1 - n)]
    BY <1>5, <2>1 DEF t
  <2> QED BY <1>3, <1>9, <2>1, <2>2, <2>3 DEF half
<1> QED BY <1>8, <1>9

\* No table of 8 rows pays back its stakes.
LEMMA OddsOfEightRows ==
  ASSUME NEW risk \in Risks, NEW half, half = PlinkoHalf(risk, 8), NEW top,
         \A d \in 0..8 : top[d] = half[IF 2 * d <= 8 THEN d + 1 ELSE 8 - d + 1],
         \A d \in 0..8 : top[d] \in Nat
  PROVE  ShortOdds(top, Binomial[8], 8)
<1> DEFINE w == Binomial[8]
<1>1. w[0] = 1 /\ w[1] = 8 /\ w[2] = 28 /\ w[3] = 56 /\ w[4] = 70 /\ w[5] = 56 /\ w[6] = 28
      /\ w[7] = 8 /\ w[8] = 1
  BY RowOfEight, SMT
<1>2. top[0] = half[1] /\ top[1] = half[2] /\ top[2] = half[3] /\ top[3] = half[4]
      /\ top[4] = half[5] /\ top[5] = half[4] /\ top[6] = half[3] /\ top[7] = half[2]
      /\ top[8] = half[1]
  BY SMT
<1> HIDE DEF w
<1>3. \A d \in 0..8 : top[d] \in Nat /\ w[d] \in Nat
  BY <1>1, SMT
<1>4. PICK r : Keeps(r, top, w, 8) /\ (r[8] >= 0 => ShortOdds(top, w, 8))
  <2> DEFINE n == 8
  <2>1. n \in Nat /\ \A d \in 0..n : top[d] \in Nat /\ w[d] \in Nat
    BY <1>3, SMT
  <2> HIDE DEF n
  <2>2. \E r : Keeps(r, top, w, n) /\ (r[n] >= 0 => ShortOdds(top, w, n))
    BY <2>1, KeepsOfAll
  <2> QED BY <2>2 DEF n
<1>5. /\ r[0] = (100 - top[0]) * w[0]
      /\ \A k \in 1..8 : r[k] = r[k - 1] + (100 - top[k]) * w[k]
  BY <1>4 DEF Keeps
<1>6. CASE risk = "low"
  <2>1. half[1] = 560 /\ half[2] = 210 /\ half[3] = 110 /\ half[4] = 100 /\ half[5] = 50
    BY <1>6, SMT DEF PlinkoHalf
  <2>2. r[0] = -460
    BY <1>1, <1>2, <1>5, <2>1, SMT
  <2>3. r[1] = -1340
    BY <1>1, <1>2, <1>5, <2>1, <2>2, SMT
  <2>4. r[2] = -1620
    BY <1>1, <1>2, <1>5, <2>1, <2>3, SMT
  <2>5. r[3] = -1620
    BY <1>1, <1>2, <1>5, <2>1, <2>4, SMT
  <2>6. r[4] = 1880
    BY <1>1, <1>2, <1>5, <2>1, <2>5, SMT
  <2>7. r[5] = 1880
    BY <1>1, <1>2, <1>5, <2>1, <2>6, SMT
  <2>8. r[6] = 1600
    BY <1>1, <1>2, <1>5, <2>1, <2>7, SMT
  <2>9. r[7] = 720
    BY <1>1, <1>2, <1>5, <2>1, <2>8, SMT
  <2>10. r[8] = 260
    BY <1>1, <1>2, <1>5, <2>1, <2>9, SMT
  <2> QED BY <1>4, <2>10, SMT DEF w
<1>7. CASE risk = "medium"
  <2>1. half[1] = 1300 /\ half[2] = 300 /\ half[3] = 130 /\ half[4] = 70 /\ half[5] = 40
    BY <1>7, SMT DEF PlinkoHalf
  <2>2. r[0] = -1200
    BY <1>1, <1>2, <1>5, <2>1, SMT
  <2>3. r[1] = -2800
    BY <1>1, <1>2, <1>5, <2>1, <2>2, SMT
  <2>4. r[2] = -3640
    BY <1>1, <1>2, <1>5, <2>1, <2>3, SMT
  <2>5. r[3] = -1960
    BY <1>1, <1>2, <1>5, <2>1, <2>4, SMT
  <2>6. r[4] = 2240
    BY <1>1, <1>2, <1>5, <2>1, <2>5, SMT
  <2>7. r[5] = 3920
    BY <1>1, <1>2, <1>5, <2>1, <2>6, SMT
  <2>8. r[6] = 3080
    BY <1>1, <1>2, <1>5, <2>1, <2>7, SMT
  <2>9. r[7] = 1480
    BY <1>1, <1>2, <1>5, <2>1, <2>8, SMT
  <2>10. r[8] = 280
    BY <1>1, <1>2, <1>5, <2>1, <2>9, SMT
  <2> QED BY <1>4, <2>10, SMT DEF w
<1>8. CASE risk = "high"
  <2>1. half[1] = 2900 /\ half[2] = 400 /\ half[3] = 150 /\ half[4] = 30 /\ half[5] = 20
    BY <1>8, SMT DEF PlinkoHalf
  <2>2. r[0] = -2800
    BY <1>1, <1>2, <1>5, <2>1, SMT
  <2>3. r[1] = -5200
    BY <1>1, <1>2, <1>5, <2>1, <2>2, SMT
  <2>4. r[2] = -6600
    BY <1>1, <1>2, <1>5, <2>1, <2>3, SMT
  <2>5. r[3] = -2680
    BY <1>1, <1>2, <1>5, <2>1, <2>4, SMT
  <2>6. r[4] = 2920
    BY <1>1, <1>2, <1>5, <2>1, <2>5, SMT
  <2>7. r[5] = 6840
    BY <1>1, <1>2, <1>5, <2>1, <2>6, SMT
  <2>8. r[6] = 5440
    BY <1>1, <1>2, <1>5, <2>1, <2>7, SMT
  <2>9. r[7] = 3040
    BY <1>1, <1>2, <1>5, <2>1, <2>8, SMT
  <2>10. r[8] = 240
    BY <1>1, <1>2, <1>5, <2>1, <2>9, SMT
  <2> QED BY <1>4, <2>10, SMT DEF w
<1> QED BY <1>6, <1>7, <1>8 DEF Risks

\* No table of 12 rows pays back its stakes.
LEMMA OddsOfTwelveRows ==
  ASSUME NEW risk \in Risks, NEW half, half = PlinkoHalf(risk, 12), NEW top,
         \A d \in 0..12 : top[d] = half[IF 2 * d <= 12 THEN d + 1 ELSE 12 - d + 1],
         \A d \in 0..12 : top[d] \in Nat
  PROVE  ShortOdds(top, Binomial[12], 12)
<1> DEFINE w == Binomial[12]
<1>1. w[0] = 1 /\ w[1] = 12 /\ w[2] = 66 /\ w[3] = 220 /\ w[4] = 495 /\ w[5] = 792 /\ w[6] = 924
      /\ w[7] = 792 /\ w[8] = 495 /\ w[9] = 220 /\ w[10] = 66 /\ w[11] = 12 /\ w[12] = 1
  BY RowOfTwelve, SMT
<1>2. top[0] = half[1] /\ top[1] = half[2] /\ top[2] = half[3] /\ top[3] = half[4]
      /\ top[4] = half[5] /\ top[5] = half[6] /\ top[6] = half[7] /\ top[7] = half[6]
      /\ top[8] = half[5] /\ top[9] = half[4] /\ top[10] = half[3] /\ top[11] = half[2]
      /\ top[12] = half[1]
  BY SMT
<1> HIDE DEF w
<1>3. \A d \in 0..12 : top[d] \in Nat /\ w[d] \in Nat
  BY <1>1, SMT
<1>4. PICK r : Keeps(r, top, w, 12) /\ (r[12] >= 0 => ShortOdds(top, w, 12))
  <2> DEFINE n == 12
  <2>1. n \in Nat /\ \A d \in 0..n : top[d] \in Nat /\ w[d] \in Nat
    BY <1>3, SMT
  <2> HIDE DEF n
  <2>2. \E r : Keeps(r, top, w, n) /\ (r[n] >= 0 => ShortOdds(top, w, n))
    BY <2>1, KeepsOfAll
  <2> QED BY <2>2 DEF n
<1>5. /\ r[0] = (100 - top[0]) * w[0]
      /\ \A k \in 1..12 : r[k] = r[k - 1] + (100 - top[k]) * w[k]
  BY <1>4 DEF Keeps
<1>6. CASE risk = "low"
  <2>1. half[1] = 1000 /\ half[2] = 300 /\ half[3] = 160 /\ half[4] = 140 /\ half[5] = 110
        /\ half[6] = 100 /\ half[7] = 50
    BY <1>6, SMT DEF PlinkoHalf
  <2>2. r[0] = -900
    BY <1>1, <1>2, <1>5, <2>1, SMT
  <2>3. r[1] = -3300
    BY <1>1, <1>2, <1>5, <2>1, <2>2, SMT
  <2>4. r[2] = -7260
    BY <1>1, <1>2, <1>5, <2>1, <2>3, SMT
  <2>5. r[3] = -16060
    BY <1>1, <1>2, <1>5, <2>1, <2>4, SMT
  <2>6. r[4] = -21010
    BY <1>1, <1>2, <1>5, <2>1, <2>5, SMT
  <2>7. r[5] = -21010
    BY <1>1, <1>2, <1>5, <2>1, <2>6, SMT
  <2>8. r[6] = 25190
    BY <1>1, <1>2, <1>5, <2>1, <2>7, SMT
  <2>9. r[7] = 25190
    BY <1>1, <1>2, <1>5, <2>1, <2>8, SMT
  <2>10. r[8] = 20240
    BY <1>1, <1>2, <1>5, <2>1, <2>9, SMT
  <2>11. r[9] = 11440
    BY <1>1, <1>2, <1>5, <2>1, <2>10, SMT
  <2>12. r[10] = 7480
    BY <1>1, <1>2, <1>5, <2>1, <2>11, SMT
  <2>13. r[11] = 5080
    BY <1>1, <1>2, <1>5, <2>1, <2>12, SMT
  <2>14. r[12] = 4180
    BY <1>1, <1>2, <1>5, <2>1, <2>13, SMT
  <2> QED BY <1>4, <2>14, SMT DEF w
<1>7. CASE risk = "medium"
  <2>1. half[1] = 3300 /\ half[2] = 1100 /\ half[3] = 400 /\ half[4] = 200 /\ half[5] = 110
        /\ half[6] = 60 /\ half[7] = 30
    BY <1>7, SMT DEF PlinkoHalf
  <2>2. r[0] = -3200
    BY <1>1, <1>2, <1>5, <2>1, SMT
  <2>3. r[1] = -15200
    BY <1>1, <1>2, <1>5, <2>1, <2>2, SMT
  <2>4. r[2] = -35000
    BY <1>1, <1>2, <1>5, <2>1, <2>3, SMT
  <2>5. r[3] = -57000
    BY <1>1, <1>2, <1>5, <2>1, <2>4, SMT
  <2>6. r[4] = -61950
    BY <1>1, <1>2, <1>5, <2>1, <2>5, SMT
  <2>7. r[5] = -30270
    BY <1>1, <1>2, <1>5, <2>1, <2>6, SMT
  <2>8. r[6] = 34410
    BY <1>1, <1>2, <1>5, <2>1, <2>7, SMT
  <2>9. r[7] = 66090
    BY <1>1, <1>2, <1>5, <2>1, <2>8, SMT
  <2>10. r[8] = 61140
    BY <1>1, <1>2, <1>5, <2>1, <2>9, SMT
  <2>11. r[9] = 39140
    BY <1>1, <1>2, <1>5, <2>1, <2>10, SMT
  <2>12. r[10] = 19340
    BY <1>1, <1>2, <1>5, <2>1, <2>11, SMT
  <2>13. r[11] = 7340
    BY <1>1, <1>2, <1>5, <2>1, <2>12, SMT
  <2>14. r[12] = 4140
    BY <1>1, <1>2, <1>5, <2>1, <2>13, SMT
  <2> QED BY <1>4, <2>14, SMT DEF w
<1>8. CASE risk = "high"
  <2>1. half[1] = 17000 /\ half[2] = 2400 /\ half[3] = 810 /\ half[4] = 200 /\ half[5] = 70
        /\ half[6] = 20 /\ half[7] = 20
    BY <1>8, SMT DEF PlinkoHalf
  <2>2. r[0] = -16900
    BY <1>1, <1>2, <1>5, <2>1, SMT
  <2>3. r[1] = -44500
    BY <1>1, <1>2, <1>5, <2>1, <2>2, SMT
  <2>4. r[2] = -91360
    BY <1>1, <1>2, <1>5, <2>1, <2>3, SMT
  <2>5. r[3] = -113360
    BY <1>1, <1>2, <1>5, <2>1, <2>4, SMT
  <2>6. r[4] = -98510
    BY <1>1, <1>2, <1>5, <2>1, <2>5, SMT
  <2>7. r[5] = -35150
    BY <1>1, <1>2, <1>5, <2>1, <2>6, SMT
  <2>8. r[6] = 38770
    BY <1>1, <1>2, <1>5, <2>1, <2>7, SMT
  <2>9. r[7] = 102130
    BY <1>1, <1>2, <1>5, <2>1, <2>8, SMT
  <2>10. r[8] = 116980
    BY <1>1, <1>2, <1>5, <2>1, <2>9, SMT
  <2>11. r[9] = 94980
    BY <1>1, <1>2, <1>5, <2>1, <2>10, SMT
  <2>12. r[10] = 48120
    BY <1>1, <1>2, <1>5, <2>1, <2>11, SMT
  <2>13. r[11] = 20520
    BY <1>1, <1>2, <1>5, <2>1, <2>12, SMT
  <2>14. r[12] = 3620
    BY <1>1, <1>2, <1>5, <2>1, <2>13, SMT
  <2> QED BY <1>4, <2>14, SMT DEF w
<1> QED BY <1>6, <1>7, <1>8 DEF Risks

\* No table of 16 rows pays back its stakes.
LEMMA OddsOfSixteenRows ==
  ASSUME NEW risk \in Risks, NEW half, half = PlinkoHalf(risk, 16), NEW top,
         \A d \in 0..16 : top[d] = half[IF 2 * d <= 16 THEN d + 1 ELSE 16 - d + 1],
         \A d \in 0..16 : top[d] \in Nat
  PROVE  ShortOdds(top, Binomial[16], 16)
<1> DEFINE w == Binomial[16]
<1>1. w[0] = 1 /\ w[1] = 16 /\ w[2] = 120 /\ w[3] = 560 /\ w[4] = 1820 /\ w[5] = 4368
      /\ w[6] = 8008 /\ w[7] = 11440 /\ w[8] = 12870 /\ w[9] = 11440 /\ w[10] = 8008
      /\ w[11] = 4368 /\ w[12] = 1820 /\ w[13] = 560 /\ w[14] = 120 /\ w[15] = 16 /\ w[16] = 1
  BY RowOfSixteen, SMT
<1>2. top[0] = half[1] /\ top[1] = half[2] /\ top[2] = half[3] /\ top[3] = half[4]
      /\ top[4] = half[5] /\ top[5] = half[6] /\ top[6] = half[7] /\ top[7] = half[8]
      /\ top[8] = half[9] /\ top[9] = half[8] /\ top[10] = half[7] /\ top[11] = half[6]
      /\ top[12] = half[5] /\ top[13] = half[4] /\ top[14] = half[3] /\ top[15] = half[2]
      /\ top[16] = half[1]
  BY SMT
<1> HIDE DEF w
<1>3. \A d \in 0..16 : top[d] \in Nat /\ w[d] \in Nat
  BY <1>1, SMT
<1>4. PICK r : Keeps(r, top, w, 16) /\ (r[16] >= 0 => ShortOdds(top, w, 16))
  <2> DEFINE n == 16
  <2>1. n \in Nat /\ \A d \in 0..n : top[d] \in Nat /\ w[d] \in Nat
    BY <1>3, SMT
  <2> HIDE DEF n
  <2>2. \E r : Keeps(r, top, w, n) /\ (r[n] >= 0 => ShortOdds(top, w, n))
    BY <2>1, KeepsOfAll
  <2> QED BY <2>2 DEF n
<1>5. /\ r[0] = (100 - top[0]) * w[0]
      /\ \A k \in 1..16 : r[k] = r[k - 1] + (100 - top[k]) * w[k]
  BY <1>4 DEF Keeps
<1>6. CASE risk = "low"
  <2>1. half[1] = 1600 /\ half[2] = 900 /\ half[3] = 200 /\ half[4] = 140 /\ half[5] = 140
        /\ half[6] = 120 /\ half[7] = 110 /\ half[8] = 100 /\ half[9] = 50
    BY <1>6, SMT DEF PlinkoHalf
  <2>2. r[0] = -1500
    BY <1>1, <1>2, <1>5, <2>1, SMT
  <2>3. r[1] = -14300
    BY <1>1, <1>2, <1>5, <2>1, <2>2, SMT
  <2>4. r[2] = -26300
    BY <1>1, <1>2, <1>5, <2>1, <2>3, SMT
  <2>5. r[3] = -48700
    BY <1>1, <1>2, <1>5, <2>1, <2>4, SMT
  <2>6. r[4] = -121500
    BY <1>1, <1>2, <1>5, <2>1, <2>5, SMT
  <2>7. r[5] = -208860
    BY <1>1, <1>2, <1>5, <2>1, <2>6, SMT
  <2>8. r[6] = -288940
    BY <1>1, <1>2, <1>5, <2>1, <2>7, SMT
  <2>9. r[7] = -288940
    BY <1>1, <1>2, <1>5, <2>1, <2>8, SMT
  <2>10. r[8] = 354560
    BY <1>1, <1>2, <1>5, <2>1, <2>9, SMT
  <2>11. r[9] = 354560
    BY <1>1, <1>2, <1>5, <2>1, <2>10, SMT
  <2>12. r[10] = 274480
    BY <1>1, <1>2, <1>5, <2>1, <2>11, SMT
  <2>13. r[11] = 187120
    BY <1>1, <1>2, <1>5, <2>1, <2>12, SMT
  <2>14. r[12] = 114320
    BY <1>1, <1>2, <1>5, <2>1, <2>13, SMT
  <2>15. r[13] = 91920
    BY <1>1, <1>2, <1>5, <2>1, <2>14, SMT
  <2>16. r[14] = 79920
    BY <1>1, <1>2, <1>5, <2>1, <2>15, SMT
  <2>17. r[15] = 67120
    BY <1>1, <1>2, <1>5, <2>1, <2>16, SMT
  <2>18. r[16] = 65620
    BY <1>1, <1>2, <1>5, <2>1, <2>17, SMT
  <2> QED BY <1>4, <2>18, SMT DEF w
<1>7. CASE risk = "medium"
  <2>1. half[1] = 11000 /\ half[2] = 4100 /\ half[3] = 1000 /\ half[4] = 500 /\ half[5] = 300
        /\ half[6] = 150 /\ half[7] = 100 /\ half[8] = 50 /\ half[9] = 30
    BY <1>7, SMT DEF PlinkoHalf
  <2>2. r[0] = -10900
    BY <1>1, <1>2, <1>5, <2>1, SMT
  <2>3. r[1] = -74900
    BY <1>1, <1>2, <1>5, <2>1, <2>2, SMT
  <2>4. r[2] = -182900
    BY <1>1, <1>2, <1>5, <2>1, <2>3, SMT
  <2>5. r[3] = -406900
    BY <1>1, <1>2, <1>5, <2>1, <2>4, SMT
  <2>6. r[4] = -770900
    BY <1>1, <1>2, <1>5, <2>1, <2>5, SMT
  <2>7. r[5] = -989300
    BY <1>1, <1>2, <1>5, <2>1, <2>6, SMT
  <2>8. r[6] = -989300
    BY <1>1, <1>2, <1>5, <2>1, <2>7, SMT
  <2>9. r[7] = -417300
    BY <1>1, <1>2, <1>5, <2>1, <2>8, SMT
  <2>10. r[8] = 483600
    BY <1>1, <1>2, <1>5, <2>1, <2>9, SMT
  <2>11. r[9] = 1055600
    BY <1>1, <1>2, <1>5, <2>1, <2>10, SMT
  <2>12. r[10] = 1055600
    BY <1>1, <1>2, <1>5, <2>1, <2>11, SMT
  <2>13. r[11] = 837200
    BY <1>1, <1>2, <1>5, <2>1, <2>12, SMT
  <2>14. r[12] = 473200
    BY <1>1, <1>2, <1>5, <2>1, <2>13, SMT
  <2>15. r[13] = 249200
    BY <1>1, <1>2, <1>5, <2>1, <2>14, SMT
  <2>16. r[14] = 141200
    BY <1>1, <1>2, <1>5, <2>1, <2>15, SMT
  <2>17. r[15] = 77200
    BY <1>1, <1>2, <1>5, <2>1, <2>16, SMT
  <2>18. r[16] = 66300
    BY <1>1, <1>2, <1>5, <2>1, <2>17, SMT
  <2> QED BY <1>4, <2>18, SMT DEF w
<1>8. CASE risk = "high"
  <2>1. half[1] = 100000 /\ half[2] = 13000 /\ half[3] = 2600 /\ half[4] = 900 /\ half[5] = 400
        /\ half[6] = 200 /\ half[7] = 20 /\ half[8] = 20 /\ half[9] = 20
    BY <1>8, SMT DEF PlinkoHalf
  <2>2. r[0] = -99900
    BY <1>1, <1>2, <1>5, <2>1, SMT
  <2>3. r[1] = -306300
    BY <1>1, <1>2, <1>5, <2>1, <2>2, SMT
  <2>4. r[2] = -606300
    BY <1>1, <1>2, <1>5, <2>1, <2>3, SMT
  <2>5. r[3] = -1054300
    BY <1>1, <1>2, <1>5, <2>1, <2>4, SMT
  <2>6. r[4] = -1600300
    BY <1>1, <1>2, <1>5, <2>1, <2>5, SMT
  <2>7. r[5] = -2037100
    BY <1>1, <1>2, <1>5, <2>1, <2>6, SMT
  <2>8. r[6] = -1396460
    BY <1>1, <1>2, <1>5, <2>1, <2>7, SMT
  <2>9. r[7] = -481260
    BY <1>1, <1>2, <1>5, <2>1, <2>8, SMT
  <2>10. r[8] = 548340
    BY <1>1, <1>2, <1>5, <2>1, <2>9, SMT
  <2>11. r[9] = 1463540
    BY <1>1, <1>2, <1>5, <2>1, <2>10, SMT
  <2>12. r[10] = 2104180
    BY <1>1, <1>2, <1>5, <2>1, <2>11, SMT
  <2>13. r[11] = 1667380
    BY <1>1, <1>2, <1>5, <2>1, <2>12, SMT
  <2>14. r[12] = 1121380
    BY <1>1, <1>2, <1>5, <2>1, <2>13, SMT
  <2>15. r[13] = 673380
    BY <1>1, <1>2, <1>5, <2>1, <2>14, SMT
  <2>16. r[14] = 373380
    BY <1>1, <1>2, <1>5, <2>1, <2>15, SMT
  <2>17. r[15] = 166980
    BY <1>1, <1>2, <1>5, <2>1, <2>16, SMT
  <2>18. r[16] = 67080
    BY <1>1, <1>2, <1>5, <2>1, <2>17, SMT
  <2> QED BY <1>4, <2>18, SMT DEF w
<1> QED BY <1>6, <1>7, <1>8 DEF Risks

\* What the cap leaves of a multiplier.
LEMMA CapKeepsBelow ==
  ASSUME NEW m \in Nat
  PROVE  Min({m, MaxMultiplier}) \in Nat /\ Min({m, MaxMultiplier}) <= m
<1>1. MaxMultiplier \in Nat
  BY RulesAssumption
<1>2. Min({m, MaxMultiplier}) = IF m <= MaxMultiplier THEN m ELSE MaxMultiplier
  BY <1>1, MinIs
<1> QED BY <1>1, <1>2

\* So a drop of Plinko returns less than its stake on average,
LEMMA PlinkoTakesItsEdge ==
  ASSUME NEW s, s.game = "plinko", s.risk \in Risks, s.rows \in {8, 12, 16}
  PROVE  ~FavoursThePlayer(s)
<1> DEFINE n == s.rows
           top == [d \in 0..n |-> PlinkoBuckets(s)[d + 1]]
           half == PlinkoHalf(s.risk, n)
           w == Binomial[n]
<1>1. n \in Nat /\ n \in 0..Spots /\ \A d \in 0..n : d \in 0..Spots
  BY SMT DEF Spots
<1>2. \A d \in 0..n : top[d] \in Nat
  <2>1. \A i \in 1..n + 1 : PlinkoBuckets(s)[i] \in Nat
    BY BucketsAre
  <2>2. \A d \in 0..n : d + 1 \in 1..n + 1
    BY <1>1
  <2> QED BY <2>1, <2>2
<1>3. \A d \in 0..n : top[d] = half[IF 2 * d <= n THEN d + 1 ELSE n - d + 1]
  BY BucketIs
<1>4. \A d \in 0..n : w[d] \in Nat /\ Weight(s, d) = w[d]
  <2>1. \A d \in 0..n : Weight(s, d) = w[d]
    BY DEF Weight
  <2> HIDE DEF n
  <2> QED BY <1>1, <2>1, RowIs
<1>5. \A d \in 0..n : Resolve(s, "none", d, Grain) \in Nat /\ Resolve(s, "none", d, Grain) <= top[d]
  <2> SUFFICES ASSUME NEW d \in 0..n
               PROVE  Resolve(s, "none", d, Grain) \in Nat /\ Resolve(s, "none", d, Grain) <= top[d]
    OBVIOUS
  <2> DEFINE m == PlinkoBuckets(s)[d + 1]
  <2>1. Resolve(s, "none", d, Grain) = Min({m, MaxMultiplier})
    BY DEF Resolve, Plinko
  <2>2. m \in Nat /\ top[d] = m
    BY <1>2
  <2> HIDE DEF m, top
  <2>3. Min({m, MaxMultiplier}) \in Nat /\ Min({m, MaxMultiplier}) <= m
    BY <2>2, CapKeepsBelow
  <2> QED BY <2>1, <2>2, <2>3
<1> HIDE DEF top, half, w
<1>6. ShortOdds(top, w, n)
  <2>1. CASE n = 8
    BY <1>2, <1>3, <2>1, OddsOfEightRows DEF half, w
  <2>2. CASE n = 12
    BY <1>2, <1>3, <2>2, OddsOfTwelveRows DEF half, w
  <2>3. CASE n = 16
    BY <1>2, <1>3, <2>3, OddsOfSixteenRows DEF half, w
  <2> QED BY <2>1, <2>2, <2>3
<1>7. DrawsOf(s, "none") = 0..n /\ s.game \in {"plinko", "keno"}
  BY DEF DrawsOf
<1> HIDE DEF n
<1> QED BY <1>1, <1>2, <1>4, <1>5, <1>6, <1>7, ShortTablesReturnLess

\* What a ticket pays, over the draws of ten spots that hit so many of its picks.
KenoOdds(p, top, w) ==
  \A d \in 0..p : /\ top[d] = KenoPayout(p, d) /\ top[d] \in Nat
                  /\ w[d] = Binomial[10][d] * Binomial[40][p - d] /\ w[d] \in Nat

\* No ticket of 1 pick pays back its stakes.
LEMMA OddsOfOnePick ==
  ASSUME NEW top, NEW w, KenoOdds(1, top, w)
  PROVE  ShortOdds(top, w, 1)
<1> DEFINE q == <<396>>
<1>1. KenoTable(1) = [from |-> 1, pays |-> q]
  BY SMT DEF KenoTable
<1>2. q[1] = 396
  BY SMT
<1> HIDE DEF q
<1>3. \A d \in 0..1 : KenoPayout(1, d) = IF d < 1 THEN 0 ELSE q[d - 1 + 1]
  BY <1>1 DEF KenoPayout
<1>4. \A d \in 0..1 : top[d] = IF d < 1 THEN 0 ELSE q[d - 1 + 1]
  BY <1>3 DEF KenoOdds
<1>5. top[0] = 0 /\ top[1] = 396
  BY <1>2, <1>4, SMT
<1>6. \A d \in 0..1 : w[d] = Binomial[10][d] * Binomial[40][1 - d]
  BY DEF KenoOdds
<1>7. w[0] = 40 /\ w[1] = 10
  BY <1>6, RowOfTen, RowOfForty, SMT
<1>8. PICK r : Keeps(r, top, w, 1) /\ (r[1] >= 0 => ShortOdds(top, w, 1))
  <2> DEFINE n == 1
  <2>1. n \in Nat /\ \A d \in 0..n : top[d] \in Nat /\ w[d] \in Nat
    BY DEF KenoOdds
  <2> HIDE DEF n
  <2>2. \E r : Keeps(r, top, w, n) /\ (r[n] >= 0 => ShortOdds(top, w, n))
    BY <2>1, KeepsOfAll
  <2> QED BY <2>2 DEF n
<1>9. /\ r[0] = (100 - top[0]) * w[0]
      /\ \A k \in 1..1 : r[k] = r[k - 1] + (100 - top[k]) * w[k]
  BY <1>8 DEF Keeps
<1>10. r[0] = 4000
  BY <1>5, <1>7, <1>9, SMT
<1>11. r[1] = 1040
  BY <1>5, <1>7, <1>9, <1>10, SMT
<1> QED BY <1>8, <1>11, SMT

\* No ticket of 2 picks pays back its stakes.
LEMMA OddsOfTwoPicks ==
  ASSUME NEW top, NEW w, KenoOdds(2, top, w)
  PROVE  ShortOdds(top, w, 2)
<1> DEFINE q == <<1700>>
<1>1. KenoTable(2) = [from |-> 2, pays |-> q]
  BY SMT DEF KenoTable
<1>2. q[1] = 1700
  BY SMT
<1> HIDE DEF q
<1>3. \A d \in 0..2 : KenoPayout(2, d) = IF d < 2 THEN 0 ELSE q[d - 2 + 1]
  BY <1>1 DEF KenoPayout
<1>4. \A d \in 0..2 : top[d] = IF d < 2 THEN 0 ELSE q[d - 2 + 1]
  BY <1>3 DEF KenoOdds
<1>5. top[0] = 0 /\ top[1] = 0 /\ top[2] = 1700
  BY <1>2, <1>4, SMT
<1>6. \A d \in 0..2 : w[d] = Binomial[10][d] * Binomial[40][2 - d]
  BY DEF KenoOdds
<1>7. w[0] = 780 /\ w[1] = 400 /\ w[2] = 45
  BY <1>6, RowOfTen, RowOfForty, SMT
<1>8. PICK r : Keeps(r, top, w, 2) /\ (r[2] >= 0 => ShortOdds(top, w, 2))
  <2> DEFINE n == 2
  <2>1. n \in Nat /\ \A d \in 0..n : top[d] \in Nat /\ w[d] \in Nat
    BY DEF KenoOdds
  <2> HIDE DEF n
  <2>2. \E r : Keeps(r, top, w, n) /\ (r[n] >= 0 => ShortOdds(top, w, n))
    BY <2>1, KeepsOfAll
  <2> QED BY <2>2 DEF n
<1>9. /\ r[0] = (100 - top[0]) * w[0]
      /\ \A k \in 1..2 : r[k] = r[k - 1] + (100 - top[k]) * w[k]
  BY <1>8 DEF Keeps
<1>10. r[0] = 78000
  BY <1>5, <1>7, <1>9, SMT
<1>11. r[1] = 118000
  BY <1>5, <1>7, <1>9, <1>10, SMT
<1>12. r[2] = 46000
  BY <1>5, <1>7, <1>9, <1>11, SMT
<1> QED BY <1>8, <1>12, SMT

\* No ticket of 3 picks pays back its stakes.
LEMMA OddsOfThreePicks ==
  ASSUME NEW top, NEW w, KenoOdds(3, top, w)
  PROVE  ShortOdds(top, w, 3)
<1> DEFINE q == <<220, 4800>>
<1>1. KenoTable(3) = [from |-> 2, pays |-> q]
  BY SMT DEF KenoTable
<1>2. q[1] = 220 /\ q[2] = 4800
  BY SMT
<1> HIDE DEF q
<1>3. \A d \in 0..3 : KenoPayout(3, d) = IF d < 2 THEN 0 ELSE q[d - 2 + 1]
  BY <1>1 DEF KenoPayout
<1>4. \A d \in 0..3 : top[d] = IF d < 2 THEN 0 ELSE q[d - 2 + 1]
  BY <1>3 DEF KenoOdds
<1>5. top[0] = 0 /\ top[1] = 0 /\ top[2] = 220 /\ top[3] = 4800
  BY <1>2, <1>4, SMT
<1>6. \A d \in 0..3 : w[d] = Binomial[10][d] * Binomial[40][3 - d]
  BY DEF KenoOdds
<1>7. w[0] = 9880 /\ w[1] = 7800 /\ w[2] = 1800 /\ w[3] = 120
  BY <1>6, RowOfTen, RowOfForty, SMT
<1>8. PICK r : Keeps(r, top, w, 3) /\ (r[3] >= 0 => ShortOdds(top, w, 3))
  <2> DEFINE n == 3
  <2>1. n \in Nat /\ \A d \in 0..n : top[d] \in Nat /\ w[d] \in Nat
    BY DEF KenoOdds
  <2> HIDE DEF n
  <2>2. \E r : Keeps(r, top, w, n) /\ (r[n] >= 0 => ShortOdds(top, w, n))
    BY <2>1, KeepsOfAll
  <2> QED BY <2>2 DEF n
<1>9. /\ r[0] = (100 - top[0]) * w[0]
      /\ \A k \in 1..3 : r[k] = r[k - 1] + (100 - top[k]) * w[k]
  BY <1>8 DEF Keeps
<1>10. r[0] = 988000
  BY <1>5, <1>7, <1>9, SMT
<1>11. r[1] = 1768000
  BY <1>5, <1>7, <1>9, <1>10, SMT
<1>12. r[2] = 1552000
  BY <1>5, <1>7, <1>9, <1>11, SMT
<1>13. r[3] = 988000
  BY <1>5, <1>7, <1>9, <1>12, SMT
<1> QED BY <1>8, <1>13, SMT

\* No ticket of 4 picks pays back its stakes.
LEMMA OddsOfFourPicks ==
  ASSUME NEW top, NEW w, KenoOdds(4, top, w)
  PROVE  ShortOdds(top, w, 4)
<1> DEFINE q == <<160, 600, 9000>>
<1>1. KenoTable(4) = [from |-> 2, pays |-> q]
  BY SMT DEF KenoTable
<1>2. q[1] = 160 /\ q[2] = 600 /\ q[3] = 9000
  BY SMT
<1> HIDE DEF q
<1>3. \A d \in 0..4 : KenoPayout(4, d) = IF d < 2 THEN 0 ELSE q[d - 2 + 1]
  BY <1>1 DEF KenoPayout
<1>4. \A d \in 0..4 : top[d] = IF d < 2 THEN 0 ELSE q[d - 2 + 1]
  BY <1>3 DEF KenoOdds
<1>5. top[0] = 0 /\ top[1] = 0 /\ top[2] = 160 /\ top[3] = 600 /\ top[4] = 9000
  BY <1>2, <1>4, SMT
<1>6. \A d \in 0..4 : w[d] = Binomial[10][d] * Binomial[40][4 - d]
  BY DEF KenoOdds
<1>7. w[0] = 91390 /\ w[1] = 98800 /\ w[2] = 35100 /\ w[3] = 4800 /\ w[4] = 210
  BY <1>6, RowOfTen, RowOfForty, SMT
<1>8. PICK r : Keeps(r, top, w, 4) /\ (r[4] >= 0 => ShortOdds(top, w, 4))
  <2> DEFINE n == 4
  <2>1. n \in Nat /\ \A d \in 0..n : top[d] \in Nat /\ w[d] \in Nat
    BY DEF KenoOdds
  <2> HIDE DEF n
  <2>2. \E r : Keeps(r, top, w, n) /\ (r[n] >= 0 => ShortOdds(top, w, n))
    BY <2>1, KeepsOfAll
  <2> QED BY <2>2 DEF n
<1>9. /\ r[0] = (100 - top[0]) * w[0]
      /\ \A k \in 1..4 : r[k] = r[k - 1] + (100 - top[k]) * w[k]
  BY <1>8 DEF Keeps
<1>10. r[0] = 9139000
  BY <1>5, <1>7, <1>9, SMT
<1>11. r[1] = 19019000
  BY <1>5, <1>7, <1>9, <1>10, SMT
<1>12. r[2] = 16913000
  BY <1>5, <1>7, <1>9, <1>11, SMT
<1>13. r[3] = 14513000
  BY <1>5, <1>7, <1>9, <1>12, SMT
<1>14. r[4] = 12644000
  BY <1>5, <1>7, <1>9, <1>13, SMT
<1> QED BY <1>8, <1>14, SMT

\* No ticket of 5 picks pays back its stakes.
LEMMA OddsOfFivePicks ==
  ASSUME NEW top, NEW w, KenoOdds(5, top, w)
  PROVE  ShortOdds(top, w, 5)
<1> DEFINE q == <<330, 1300, 30000>>
<1>1. KenoTable(5) = [from |-> 3, pays |-> q]
  BY SMT DEF KenoTable
<1>2. q[1] = 330 /\ q[2] = 1300 /\ q[3] = 30000
  BY SMT
<1> HIDE DEF q
<1>3. \A d \in 0..5 : KenoPayout(5, d) = IF d < 3 THEN 0 ELSE q[d - 3 + 1]
  BY <1>1 DEF KenoPayout
<1>4. \A d \in 0..5 : top[d] = IF d < 3 THEN 0 ELSE q[d - 3 + 1]
  BY <1>3 DEF KenoOdds
<1>5. top[0] = 0 /\ top[1] = 0 /\ top[2] = 0 /\ top[3] = 330 /\ top[4] = 1300 /\ top[5] = 30000
  BY <1>2, <1>4, SMT
<1>6. \A d \in 0..5 : w[d] = Binomial[10][d] * Binomial[40][5 - d]
  BY DEF KenoOdds
<1>7. w[0] = 658008 /\ w[1] = 913900 /\ w[2] = 444600 /\ w[3] = 93600 /\ w[4] = 8400
      /\ w[5] = 252
  BY <1>6, RowOfTen, RowOfForty, SMT
<1>8. PICK r : Keeps(r, top, w, 5) /\ (r[5] >= 0 => ShortOdds(top, w, 5))
  <2> DEFINE n == 5
  <2>1. n \in Nat /\ \A d \in 0..n : top[d] \in Nat /\ w[d] \in Nat
    BY DEF KenoOdds
  <2> HIDE DEF n
  <2>2. \E r : Keeps(r, top, w, n) /\ (r[n] >= 0 => ShortOdds(top, w, n))
    BY <2>1, KeepsOfAll
  <2> QED BY <2>2 DEF n
<1>9. /\ r[0] = (100 - top[0]) * w[0]
      /\ \A k \in 1..5 : r[k] = r[k - 1] + (100 - top[k]) * w[k]
  BY <1>8 DEF Keeps
<1>10. r[0] = 65800800
  BY <1>5, <1>7, <1>9, SMT
<1>11. r[1] = 157190800
  BY <1>5, <1>7, <1>9, <1>10, SMT
<1>12. r[2] = 201650800
  BY <1>5, <1>7, <1>9, <1>11, SMT
<1>13. r[3] = 180122800
  BY <1>5, <1>7, <1>9, <1>12, SMT
<1>14. r[4] = 170042800
  BY <1>5, <1>7, <1>9, <1>13, SMT
<1>15. r[5] = 162508000
  BY <1>5, <1>7, <1>9, <1>14, SMT
<1> QED BY <1>8, <1>15, SMT

\* No ticket of 6 picks pays back its stakes.
LEMMA OddsOfSixPicks ==
  ASSUME NEW top, NEW w, KenoOdds(6, top, w)
  PROVE  ShortOdds(top, w, 6)
<1> DEFINE q == <<200, 500, 4800, 71000>>
<1>1. KenoTable(6) = [from |-> 3, pays |-> q]
  BY SMT DEF KenoTable
<1>2. q[1] = 200 /\ q[2] = 500 /\ q[3] = 4800 /\ q[4] = 71000
  BY SMT
<1> HIDE DEF q
<1>3. \A d \in 0..6 : KenoPayout(6, d) = IF d < 3 THEN 0 ELSE q[d - 3 + 1]
  BY <1>1 DEF KenoPayout
<1>4. \A d \in 0..6 : top[d] = IF d < 3 THEN 0 ELSE q[d - 3 + 1]
  BY <1>3 DEF KenoOdds
<1>5. top[0] = 0 /\ top[1] = 0 /\ top[2] = 0 /\ top[3] = 200 /\ top[4] = 500 /\ top[5] = 4800
      /\ top[6] = 71000
  BY <1>2, <1>4, SMT
<1>6. \A d \in 0..6 : w[d] = Binomial[10][d] * Binomial[40][6 - d]
  BY DEF KenoOdds
<1>7. w[0] = 3838380 /\ w[1] = 6580080 /\ w[2] = 4112550 /\ w[3] = 1185600 /\ w[4] = 163800
      /\ w[5] = 10080 /\ w[6] = 210
  BY <1>6, RowOfTen, RowOfForty, SMT
<1>8. PICK r : Keeps(r, top, w, 6) /\ (r[6] >= 0 => ShortOdds(top, w, 6))
  <2> DEFINE n == 6
  <2>1. n \in Nat /\ \A d \in 0..n : top[d] \in Nat /\ w[d] \in Nat
    BY DEF KenoOdds
  <2> HIDE DEF n
  <2>2. \E r : Keeps(r, top, w, n) /\ (r[n] >= 0 => ShortOdds(top, w, n))
    BY <2>1, KeepsOfAll
  <2> QED BY <2>2 DEF n
<1>9. /\ r[0] = (100 - top[0]) * w[0]
      /\ \A k \in 1..6 : r[k] = r[k - 1] + (100 - top[k]) * w[k]
  BY <1>8 DEF Keeps
<1>10. r[0] = 383838000
  BY <1>5, <1>7, <1>9, SMT
<1>11. r[1] = 1041846000
  BY <1>5, <1>7, <1>9, <1>10, SMT
<1>12. r[2] = 1453101000
  BY <1>5, <1>7, <1>9, <1>11, SMT
<1>13. r[3] = 1334541000
  BY <1>5, <1>7, <1>9, <1>12, SMT
<1>14. r[4] = 1269021000
  BY <1>5, <1>7, <1>9, <1>13, SMT
<1>15. r[5] = 1221645000
  BY <1>5, <1>7, <1>9, <1>14, SMT
<1>16. r[6] = 1206756000
  BY <1>5, <1>7, <1>9, <1>15, SMT
<1> QED BY <1>8, <1>16, SMT

\* No ticket of 7 picks pays back its stakes.
LEMMA OddsOfSevenPicks ==
  ASSUME NEW top, NEW w, KenoOdds(7, top, w)
  PROVE  ShortOdds(top, w, 7)
<1> DEFINE q == <<600, 1800, 12000, 80000>>
<1>1. KenoTable(7) = [from |-> 4, pays |-> q]
  BY SMT DEF KenoTable
<1>2. q[1] = 600 /\ q[2] = 1800 /\ q[3] = 12000 /\ q[4] = 80000
  BY SMT
<1> HIDE DEF q
<1>3. \A d \in 0..7 : KenoPayout(7, d) = IF d < 4 THEN 0 ELSE q[d - 4 + 1]
  BY <1>1 DEF KenoPayout
<1>4. \A d \in 0..7 : top[d] = IF d < 4 THEN 0 ELSE q[d - 4 + 1]
  BY <1>3 DEF KenoOdds
<1>5. top[0] = 0 /\ top[1] = 0 /\ top[2] = 0 /\ top[3] = 0 /\ top[4] = 600 /\ top[5] = 1800
      /\ top[6] = 12000 /\ top[7] = 80000
  BY <1>2, <1>4, SMT
<1>6. \A d \in 0..7 : w[d] = Binomial[10][d] * Binomial[40][7 - d]
  BY DEF KenoOdds
<1>7. w[0] = 18643560 /\ w[1] = 38383800 /\ w[2] = 29610360 /\ w[3] = 10966800 /\ w[4] = 2074800
      /\ w[5] = 196560 /\ w[6] = 8400 /\ w[7] = 120
  BY <1>6, RowOfTen, RowOfForty, SMT
<1>8. PICK r : Keeps(r, top, w, 7) /\ (r[7] >= 0 => ShortOdds(top, w, 7))
  <2> DEFINE n == 7
  <2>1. n \in Nat /\ \A d \in 0..n : top[d] \in Nat /\ w[d] \in Nat
    BY DEF KenoOdds
  <2> HIDE DEF n
  <2>2. \E r : Keeps(r, top, w, n) /\ (r[n] >= 0 => ShortOdds(top, w, n))
    BY <2>1, KeepsOfAll
  <2> QED BY <2>2 DEF n
<1>9. /\ r[0] = (100 - top[0]) * w[0]
      /\ \A k \in 1..7 : r[k] = r[k - 1] + (100 - top[k]) * w[k]
  BY <1>8 DEF Keeps
<1>10. r[0] = 1864356000
  BY <1>5, <1>7, <1>9, SMT
<1>11. r[1] = 5702736000
  BY <1>5, <1>7, <1>9, <1>10, SMT
<1>12. r[2] = 8663772000
  BY <1>5, <1>7, <1>9, <1>11, SMT
<1>13. r[3] = 9760452000
  BY <1>5, <1>7, <1>9, <1>12, SMT
<1>14. r[4] = 8723052000
  BY <1>5, <1>7, <1>9, <1>13, SMT
<1>15. r[5] = 8388900000
  BY <1>5, <1>7, <1>9, <1>14, SMT
<1>16. r[6] = 8288940000
  BY <1>5, <1>7, <1>9, <1>15, SMT
<1>17. r[7] = 8279352000
  BY <1>5, <1>7, <1>9, <1>16, SMT
<1> QED BY <1>8, <1>17, SMT

\* No ticket of 8 picks pays back its stakes.
LEMMA OddsOfEightPicks ==
  ASSUME NEW top, NEW w, KenoOdds(8, top, w)
  PROVE  ShortOdds(top, w, 8)
<1> DEFINE q == <<1000, 5000, 40000, 100000>>
<1>1. KenoTable(8) = [from |-> 5, pays |-> q]
  BY SMT DEF KenoTable
<1>2. q[1] = 1000 /\ q[2] = 5000 /\ q[3] = 40000 /\ q[4] = 100000
  BY SMT
<1> HIDE DEF q
<1>3. \A d \in 0..8 : KenoPayout(8, d) = IF d < 5 THEN 0 ELSE q[d - 5 + 1]
  BY <1>1 DEF KenoPayout
<1>4. \A d \in 0..8 : top[d] = IF d < 5 THEN 0 ELSE q[d - 5 + 1]
  BY <1>3 DEF KenoOdds
<1>5. top[0] = 0 /\ top[1] = 0 /\ top[2] = 0 /\ top[3] = 0 /\ top[4] = 0 /\ top[5] = 1000
      /\ top[6] = 5000 /\ top[7] = 40000 /\ top[8] = 100000
  BY <1>2, <1>4, SMT
<1>6. \A d \in 0..8 : w[d] = Binomial[10][d] * Binomial[40][8 - d]
  BY DEF KenoOdds
<1>7. w[0] = 76904685 /\ w[1] = 186435600 /\ w[2] = 172727100 /\ w[3] = 78960960
      /\ w[4] = 19191900 /\ w[5] = 2489760 /\ w[6] = 163800 /\ w[7] = 4800 /\ w[8] = 45
  BY <1>6, RowOfTen, RowOfForty, SMT
<1>8. PICK r : Keeps(r, top, w, 8) /\ (r[8] >= 0 => ShortOdds(top, w, 8))
  <2> DEFINE n == 8
  <2>1. n \in Nat /\ \A d \in 0..n : top[d] \in Nat /\ w[d] \in Nat
    BY DEF KenoOdds
  <2> HIDE DEF n
  <2>2. \E r : Keeps(r, top, w, n) /\ (r[n] >= 0 => ShortOdds(top, w, n))
    BY <2>1, KeepsOfAll
  <2> QED BY <2>2 DEF n
<1>9. /\ r[0] = (100 - top[0]) * w[0]
      /\ \A k \in 1..8 : r[k] = r[k - 1] + (100 - top[k]) * w[k]
  BY <1>8 DEF Keeps
<1>10. r[0] = 7690468500
  BY <1>5, <1>7, <1>9, SMT
<1>11. r[1] = 26334028500
  BY <1>5, <1>7, <1>9, <1>10, SMT
<1>12. r[2] = 43606738500
  BY <1>5, <1>7, <1>9, <1>11, SMT
<1>13. r[3] = 51502834500
  BY <1>5, <1>7, <1>9, <1>12, SMT
<1>14. r[4] = 53422024500
  BY <1>5, <1>7, <1>9, <1>13, SMT
<1>15. r[5] = 51181240500
  BY <1>5, <1>7, <1>9, <1>14, SMT
<1>16. r[6] = 50378620500
  BY <1>5, <1>7, <1>9, <1>15, SMT
<1>17. r[7] = 50187100500
  BY <1>5, <1>7, <1>9, <1>16, SMT
<1>18. r[8] = 50182605000
  BY <1>5, <1>7, <1>9, <1>17, SMT
<1> QED BY <1>8, <1>18, SMT

\* No ticket of 9 picks pays back its stakes.
LEMMA OddsOfNinePicks ==
  ASSUME NEW top, NEW w, KenoOdds(9, top, w)
  PROVE  ShortOdds(top, w, 9)
<1> DEFINE q == <<600, 2200, 12000, 80000, 100000>>
<1>1. KenoTable(9) = [from |-> 5, pays |-> q]
  BY SMT DEF KenoTable
<1>2. q[1] = 600 /\ q[2] = 2200 /\ q[3] = 12000 /\ q[4] = 80000 /\ q[5] = 100000
  BY SMT
<1> HIDE DEF q
<1>3. \A d \in 0..9 : KenoPayout(9, d) = IF d < 5 THEN 0 ELSE q[d - 5 + 1]
  BY <1>1 DEF KenoPayout
<1>4. \A d \in 0..9 : top[d] = IF d < 5 THEN 0 ELSE q[d - 5 + 1]
  BY <1>3 DEF KenoOdds
<1>5. top[0] = 0 /\ top[1] = 0 /\ top[2] = 0 /\ top[3] = 0 /\ top[4] = 0 /\ top[5] = 600
      /\ top[6] = 2200 /\ top[7] = 12000 /\ top[8] = 80000 /\ top[9] = 100000
  BY <1>2, <1>4, SMT
<1>6. \A d \in 0..9 : w[d] = Binomial[10][d] * Binomial[40][9 - d]
  BY DEF KenoOdds
<1>7. w[0] = 273438880 /\ w[1] = 769046850 /\ w[2] = 838960200 /\ w[3] = 460605600
      /\ w[4] = 138181680 /\ w[5] = 23030280 /\ w[6] = 2074800 /\ w[7] = 93600 /\ w[8] = 1800
      /\ w[9] = 10
  BY <1>6, RowOfTen, RowOfForty, SMT
<1>8. PICK r : Keeps(r, top, w, 9) /\ (r[9] >= 0 => ShortOdds(top, w, 9))
  <2> DEFINE n == 9
  <2>1. n \in Nat /\ \A d \in 0..n : top[d] \in Nat /\ w[d] \in Nat
    BY DEF KenoOdds
  <2> HIDE DEF n
  <2>2. \E r : Keeps(r, top, w, n) /\ (r[n] >= 0 => ShortOdds(top, w, n))
    BY <2>1, KeepsOfAll
  <2> QED BY <2>2 DEF n
<1>9. /\ r[0] = (100 - top[0]) * w[0]
      /\ \A k \in 1..9 : r[k] = r[k - 1] + (100 - top[k]) * w[k]
  BY <1>8 DEF Keeps
<1>10. r[0] = 27343888000
  BY <1>5, <1>7, <1>9, SMT
<1>11. r[1] = 104248573000
  BY <1>5, <1>7, <1>9, <1>10, SMT
<1>12. r[2] = 188144593000
  BY <1>5, <1>7, <1>9, <1>11, SMT
<1>13. r[3] = 234205153000
  BY <1>5, <1>7, <1>9, <1>12, SMT
<1>14. r[4] = 248023321000
  BY <1>5, <1>7, <1>9, <1>13, SMT
<1>15. r[5] = 236508181000
  BY <1>5, <1>7, <1>9, <1>14, SMT
<1>16. r[6] = 232151101000
  BY <1>5, <1>7, <1>9, <1>15, SMT
<1>17. r[7] = 231037261000
  BY <1>5, <1>7, <1>9, <1>16, SMT
<1>18. r[8] = 230893441000
  BY <1>5, <1>7, <1>9, <1>17, SMT
<1>19. r[9] = 230892442000
  BY <1>5, <1>7, <1>9, <1>18, SMT
<1> QED BY <1>8, <1>19, SMT

\* No ticket of 10 picks pays back its stakes.
LEMMA OddsOfTenPicks ==
  ASSUME NEW top, NEW w, KenoOdds(10, top, w)
  PROVE  ShortOdds(top, w, 10)
<1> DEFINE q == <<500, 2400, 8000, 50000, 80000, 100000>>
<1>1. KenoTable(10) = [from |-> 5, pays |-> q]
  BY SMT DEF KenoTable
<1>2. q[1] = 500 /\ q[2] = 2400 /\ q[3] = 8000 /\ q[4] = 50000 /\ q[5] = 80000 /\ q[6] = 100000
  BY SMT
<1> HIDE DEF q
<1>3. \A d \in 0..10 : KenoPayout(10, d) = IF d < 5 THEN 0 ELSE q[d - 5 + 1]
  BY <1>1 DEF KenoPayout
<1>4. \A d \in 0..10 : top[d] = IF d < 5 THEN 0 ELSE q[d - 5 + 1]
  BY <1>3 DEF KenoOdds
<1>5. top[0] = 0 /\ top[1] = 0 /\ top[2] = 0 /\ top[3] = 0 /\ top[4] = 0 /\ top[5] = 500
      /\ top[6] = 2400 /\ top[7] = 8000 /\ top[8] = 50000 /\ top[9] = 80000 /\ top[10] = 100000
  BY <1>2, <1>4, SMT
<1>6. \A d \in 0..10 : w[d] = Binomial[10][d] * Binomial[40][10 - d]
  BY DEF KenoOdds
<1>7. w[0] = 847660528 /\ w[1] = 2734388800 /\ w[2] = 3460710825 /\ w[3] = 2237227200
      /\ w[4] = 806059800 /\ w[5] = 165818016 /\ w[6] = 19191900 /\ w[7] = 1185600
      /\ w[8] = 35100 /\ w[9] = 400 /\ w[10] = 1
  BY <1>6, RowOfTen, RowOfForty, SMT
<1>8. PICK r : Keeps(r, top, w, 10) /\ (r[10] >= 0 => ShortOdds(top, w, 10))
  <2> DEFINE n == 10
  <2>1. n \in Nat /\ \A d \in 0..n : top[d] \in Nat /\ w[d] \in Nat
    BY DEF KenoOdds
  <2> HIDE DEF n
  <2>2. \E r : Keeps(r, top, w, n) /\ (r[n] >= 0 => ShortOdds(top, w, n))
    BY <2>1, KeepsOfAll
  <2> QED BY <2>2 DEF n
<1>9. /\ r[0] = (100 - top[0]) * w[0]
      /\ \A k \in 1..10 : r[k] = r[k - 1] + (100 - top[k]) * w[k]
  BY <1>8 DEF Keeps
<1>10. r[0] = 84766052800
  BY <1>5, <1>7, <1>9, SMT
<1>11. r[1] = 358204932800
  BY <1>5, <1>7, <1>9, <1>10, SMT
<1>12. r[2] = 704276015300
  BY <1>5, <1>7, <1>9, <1>11, SMT
<1>13. r[3] = 927998735300
  BY <1>5, <1>7, <1>9, <1>12, SMT
<1>14. r[4] = 1008604715300
  BY <1>5, <1>7, <1>9, <1>13, SMT
<1>15. r[5] = 942277508900
  BY <1>5, <1>7, <1>9, <1>14, SMT
<1>16. r[6] = 898136138900
  BY <1>5, <1>7, <1>9, <1>15, SMT
<1>17. r[7] = 888769898900
  BY <1>5, <1>7, <1>9, <1>16, SMT
<1>18. r[8] = 887018408900
  BY <1>5, <1>7, <1>9, <1>17, SMT
<1>19. r[9] = 886986448900
  BY <1>5, <1>7, <1>9, <1>18, SMT
<1>20. r[10] = 886986349000
  BY <1>5, <1>7, <1>9, <1>19, SMT
<1> QED BY <1>8, <1>20, SMT

\* A ticket pays a natural number for its hits.
LEMMA KenoPayoutIs ==
  ASSUME NEW p \in 1..10, NEW d \in 0..p
  PROVE  KenoPayout(p, d) \in Nat
<1> DEFINE t == KenoTable(p)
           m == KenoPayout(p, d)
<1>1. t.from \in 1..p /\ t.pays \in Seq(Nat) /\ Len(t.pays) = p - t.from + 1
  BY KenoTableIs
<1>2. m = IF d < t.from THEN 0 ELSE t.pays[d - t.from + 1]
  BY DEF KenoPayout
<1> HIDE DEF t, m
<1>3. ASSUME d < t.from PROVE m \in Nat
  BY <1>2, <1>3
<1>4. ASSUME ~(d < t.from) PROVE m \in Nat
  <2> DEFINE i == d - t.from + 1
             q == t.pays
  <2>1. i \in 1..Len(q) /\ q \in Seq(Nat)
    BY <1>1, <1>4
  <2>2. m = q[i]
    BY <1>2, <1>4
  <2> HIDE DEF i, q
  <2>3. q[i] \in Nat
    BY <2>1
  <2> QED BY <2>2, <2>3
<1> QED BY <1>3, <1>4 DEF m

\* So does a ticket of Keno.
LEMMA KenoTakesItsEdge ==
  ASSUME NEW s, s.game = "keno", Len(s.picks) \in 1..10
  PROVE  ~FavoursThePlayer(s)
<1> DEFINE p == Len(s.picks)
           top == [d \in 0..p |-> KenoPayout(p, d)]
           w == [d \in 0..p |-> Binomial[10][d] * Binomial[40][p - d]]
<1>1. p \in 1..10 /\ p \in Nat
  OBVIOUS
<1>2. s.game \in {"plinko", "keno"} /\ DrawsOf(s, "none") = 0..p
  BY DEF DrawsOf
<1>3. \A d \in 0..p : Weight(s, d) = Binomial[10][d] * Binomial[40][p - d]
  <2>1. DrawnSpots = 10 /\ Spots - DrawnSpots = 40
    BY SMT DEF DrawnSpots, Spots
  <2>2. \A d \in 0..p : Weight(s, d) = Binomial[DrawnSpots][d] * Binomial[Spots - DrawnSpots][p - d]
    BY DEF Weight
  <2> HIDE DEF p
  <2> QED BY <2>1, <2>2
<1>4. \A d \in 0..p : Resolve(s, "none", d, Grain) = Min({KenoPayout(p, d), MaxMultiplier})
  BY DEF Resolve, Keno, KenoHits
<1> HIDE DEF p
<1>5. \A d \in 0..p : top[d] = KenoPayout(p, d) /\ top[d] \in Nat
  BY <1>1, KenoPayoutIs
<1>6. \A d \in 0..p : w[d] = Binomial[10][d] * Binomial[40][p - d] /\ w[d] \in Nat
  <2> SUFFICES ASSUME NEW d \in 0..p
               PROVE  Binomial[10][d] * Binomial[40][p - d] \in Nat
    OBVIOUS
  <2>1. 10 \in 0..Spots /\ 40 \in 0..Spots /\ d \in 0..Spots /\ p - d \in 0..Spots
    BY <1>1, SMT DEF Spots
  <2> DEFINE a == Binomial[10][d]
             b == Binomial[40][p - d]
  <2>2. a \in Nat /\ b \in Nat
    BY <2>1, RowIs
  <2> HIDE DEF a, b
  <2>3. a * b \in Nat
    BY <2>2
  <2> QED BY <2>3 DEF a, b
<1> HIDE DEF top, w
<1>7. KenoOdds(p, top, w)
  BY <1>5, <1>6 DEF KenoOdds
<1>8. \A d \in 0..p : /\ top[d] \in Nat /\ w[d] \in Nat /\ Weight(s, d) = w[d]
                      /\ Resolve(s, "none", d, Grain) \in Nat
                      /\ Resolve(s, "none", d, Grain) <= top[d]
  BY <1>3, <1>4, <1>5, <1>6, CapKeepsBelow
<1>9. ShortOdds(top, w, p)
  <2>1. p \in {1, 2, 3, 4, 5} \/ p \in {6, 7, 8, 9, 10}
    BY <1>1
  <2>2. CASE p = 1
    BY <1>7, <2>2, OddsOfOnePick
  <2>3. CASE p = 2
    BY <1>7, <2>3, OddsOfTwoPicks
  <2>4. CASE p = 3
    BY <1>7, <2>4, OddsOfThreePicks
  <2>5. CASE p = 4
    BY <1>7, <2>5, OddsOfFourPicks
  <2>6. CASE p = 5
    BY <1>7, <2>6, OddsOfFivePicks
  <2>7. CASE p = 6
    BY <1>7, <2>7, OddsOfSixPicks
  <2>8. CASE p = 7
    BY <1>7, <2>8, OddsOfSevenPicks
  <2>9. CASE p = 8
    BY <1>7, <2>9, OddsOfEightPicks
  <2>10. CASE p = 9
    BY <1>7, <2>10, OddsOfNinePicks
  <2>11. CASE p = 10
    BY <1>7, <2>11, OddsOfTenPicks
  <2> QED BY <2>1, <2>2, <2>3, <2>4, <2>5, <2>6, <2>7, <2>8, <2>9, <2>10, <2>11
<1> QED BY <1>1, <1>2, <1>8, <1>9, ShortTablesReturnLess

\* An honest round of a valid selection is against the player in every game but the Wheel.
LEMMA ValidSelectionsPayLess ==
  ASSUME HouseEdge >= 1, NEW s \in Inputs, ValidateSelection(s), s.game \in InstantGames
  PROVE  FavoursThePlayer(s) <=> s.game = "wheel"
<1>1. CASE s.game = "dice"
  <2>1. s.target \in Int
    BY <1>1, ResolverAssumption
  <2>2. DiceRange(s.target)
    BY <1>1, <2>1, SMT DEF ValidateSelection, DiceRange
  <2>3. ~FavoursThePlayer(s)
    BY <1>1, <2>2, DiceTakesItsEdge
  <2> QED BY <1>1, <2>3
<1>2. CASE s.game = "coin-flip"
  <2>1. s.side \in {"heads", "tails"}
    BY <1>2, SMT DEF ValidateSelection
  <2>2. ~FavoursThePlayer(s)
    BY <1>2, <2>1, CoinTakesItsEdge
  <2> QED BY <1>2, <2>2
<1>3. CASE s.game = "limbo"
  <2>1. s.target \in Int
    BY <1>3, ResolverAssumption
  <2>2. ~FavoursThePlayer(s)
    BY <1>3, <2>1, LimboTakesItsEdge
  <2> QED BY <1>3, <2>2
<1>4. CASE s.game = "wheel"
  <2>1. s.risk \in Risks
    BY <1>4, SMT DEF ValidateSelection
  <2> QED BY <1>4, <2>1, WheelFavoursThePlayer
<1>5. CASE s.game = "plinko"
  <2>1. s.risk \in Risks /\ s.rows \in {8, 12, 16}
    BY <1>5, SMT DEF ValidateSelection
  <2>2. ~FavoursThePlayer(s)
    BY <1>5, <2>1, PlinkoTakesItsEdge
  <2> QED BY <1>5, <2>2
<1>6. CASE s.game = "keno"
  <2>1. Len(s.picks) \in 1..10
    BY <1>6, SMT DEF ValidateSelection
  <2>2. ~FavoursThePlayer(s)
    BY <1>6, <2>1, KenoTakesItsEdge
  <2> QED BY <1>6, <2>2
<1> QED BY <1>1, <1>2, <1>3, <1>4, <1>5, <1>6 DEF InstantGames

---------------------------------------------------------------------------
(* Theorems *)

\* resolver.ts and rules.ts: a round knows what was selected, and its difficulty, its pay and
\* its board are in range.
THEOREM RoundsStayInRange == Spec => []TypeOK
<1>1. RulesInv => TypeOK
  <2> SUFFICES ASSUME RulesInv PROVE TypeOK
    OBVIOUS
  <2>1. /\ round.at \in Ats /\ round.forced \in Forcing /\ round.difficulty \in 0..100
        /\ round.pays \in Nat /\ \A b \in round.board : b \subseteq Nat
    BY DEF RulesInv, RoundRecord
  <2>2. SelectionKnown /\ BoardHasTiles
    BY DEF RulesInv
  <2> QED BY <2>1, <2>2 DEF TypeOK, Ats, Forcing, SelectionKnown, BoardHasTiles
<1> QED BY <1>1, RulesInvariant, PTL

\* resolver.ts, rules.ts: what a rule or the difficulty forces, every game pays, whatever the
\* draw.  The edge is at most two percent, as seed-games.ts sets it in every game but the Wheel,
\* which ignores its own: at three percent a 98% chance of Dice returns 0.99 when it wins.
THEOREM ForcedResultsAreObeyed ==
  ASSUME HouseEdge <= 2
  PROVE  Spec => []ForcedResultIsObeyed
<1>1. RulesInv => ForcedResultIsObeyed
  BY DEF RulesInv, PaysAsForced, ForcedResultIsObeyed, Obeys
<1> QED BY <1>1, RulesInvariant, PTL

\* rules.ts: a board of Mines has the mines that were chosen, also when it is biased, and a
\* floor of Towers leaves a tile to step on.
THEOREM BoardsHoldTheirMines == Spec => []BoardsAreWhole
<1>1. RulesInv => BoardsAreWhole
  BY DEF RulesInv
<1> QED BY <1>1, RulesInvariant, PTL

\* resolver.ts: of the draws, a difficulty in effect loses its percentage, rounded
\* down to a whole draw, however finely draws are told apart.
THEOREM LossesRoundDown ==
  Spec => [](Cardinality({d \in Draws : DecideFromDifficulty(round.difficulty, d) = "loss"})
               = (round.difficulty * Grain) \div 100)
<1>1. RulesInv => Cardinality({d \in Draws : DecideFromDifficulty(round.difficulty, d) = "loss"})
                    = (round.difficulty * Grain) \div 100
  <2> SUFFICES ASSUME RulesInv
               PROVE  Cardinality({d \in Draws : DecideFromDifficulty(round.difficulty, d) = "loss"})
                        = (round.difficulty * Grain) \div 100
    OBVIOUS
  <2>1. round.difficulty \in 0..100
    BY DEF RulesInv, RoundRecord
  <2> QED BY <2>1, LostDraws
<1> QED BY <1>1, RulesInvariant, PTL

\* Draws fine enough for every percentage that is set to be a number of draws.
ExactGrain == \A k \in Difficulties : (k * Grain) % 100 = 0

\* schema.ts, "90 means a 90% chance of losing": with such draws the share is exact.
THEOREM DifficultiesCountLosses ==
  ASSUME ExactGrain
  PROVE  Spec => []DifficultyIsALossPercent
<1>1. RulesInv /\ DifficultyIsSet => DifficultyIsALossPercent
  <2> SUFFICES ASSUME RulesInv, DifficultyIsSet PROVE DifficultyIsALossPercent
    OBVIOUS
  <2> DEFINE k == round.difficulty
             lost == Cardinality({d \in Draws : DecideFromDifficulty(k, d) = "loss"})
             p == k * Grain
  <2>1. k \in 0..100 /\ Grain \in Nat
    BY ResolverAssumption DEF RulesInv, RoundRecord
  <2>2. lost = p \div 100
    <3> HIDE DEF k
    <3> QED BY <2>1, LostDraws
  <2>3. p \in Nat /\ p % 100 = 0
    <3>1. k \in Difficulties \/ k = 0 \/ k = 100
      BY DEF DifficultyIsSet
    <3> HIDE DEF k
    <3>2. p \in Nat
      BY <2>1
    <3>3. k = 0 \/ k = 100 => p % 100 = 0
      BY <2>1
    <3>4. k \in Difficulties => p % 100 = 0
      BY DEF ExactGrain
    <3> QED BY <3>1, <3>2, <3>3, <3>4
  <2>4. 100 * (p \div 100) = p
    <3> HIDE DEF p
    <3> QED BY <2>3
  <2> HIDE DEF lost, p
  <2>5. 100 * lost = p
    BY <2>2, <2>4
  <2> QED BY <2>5 DEF DifficultyIsALossPercent, lost, p
<1> QED BY <1>1, RulesInvariant, DifficultyStaysSet, PTL

\* guides.ts: "Each extra gem multiplies the fair odds of surviving that many picks", "Each
\* floor multiplies the fair odds of picking a safe tile".  So they do, to the cent, on boards
\* of any size with any number of mines, whatever the edge: the shuffle lays every choice of
\* mines as often as any other.
THEOREM BoardsPayFairly == Spec => []BoardsPayTheirOdds
<1>1. RulesInv => BoardsPayTheirOdds
  <2> SUFFICES ASSUME RulesInv, round.at = "asked"
               PROVE  /\ Sel.game = "mines" =>
                           \A n \in 1..Tiles - Sel.mineCount :
                             FairPay(MinesMultiplier(Sel.mineCount, n),
                                     Cardinality(SafeShuffles(Sel.mineCount, n)),
                                     Cardinality(ShuffleDraws(Tiles)))
                      /\ Sel.game = "towers" => Sel.difficulty \in TowerDifficulties
    BY TowersPayFairly DEF BoardsPayTheirOdds
  <2>1. ValidateSelection(Sel)
    BY DEF RulesInv, SelectionKnown
  <2>2. Sel.game = "mines" => Sel.mineCount \in 1..Tiles - 1
    BY <2>1, SMT DEF ValidateSelection, ValidMineCount
  <2>3. Sel.game = "towers" => Sel.difficulty \in TowerDifficulties
    BY <2>1, SMT DEF ValidateSelection, TowerDifficulties
  <2> QED BY <2>2, <2>3, MinesPayFairly
<1> QED BY <1>1, RulesInvariant, PTL

\* schema.ts says of the house edge that it is folded into every payout calculation: with an
\* edge of 1 % at least, an honest round of Dice, the coin, Limbo, Plinko or Keno returns less
\* than its stake on average whatever is picked, and the Wheel more at every risk.
THEOREM OnlyTheWheelPaysMore ==
  ASSUME HouseEdge >= 1
  PROVE  Spec => []OnlyTheWheelFavoursThePlayer
<1>1. RulesInv => OnlyTheWheelFavoursThePlayer
  <2> SUFFICES ASSUME RulesInv, round.at = "asked", Sel.game \in InstantGames
               PROVE  FavoursThePlayer(Sel) <=> Sel.game = "wheel"
    BY DEF OnlyTheWheelFavoursThePlayer
  <2>1. ValidateSelection(Sel) /\ Sel \in Inputs
    BY DEF RulesInv, SelectionKnown
  <2> QED BY <2>1, ValidSelectionsPayLess
<1> QED BY <1>1, RulesInvariant, PTL
=============================================================================
