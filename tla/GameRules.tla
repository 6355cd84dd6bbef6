----------------------------- MODULE GameRules -----------------------------
(***************************************************************************)
(* The rules of the eight games: what a selection and the round's draws    *)
(* come to.  Multipliers are in hundredths, as the code rounds them; a     *)
(* target of Dice or Limbo is in thousandths, finer than a roll.  A draw   *)
(* of the HMAC stream, a number in [0, 1), is d parts of g.  What a round  *)
(* is forced to is "none", "win" or "loss".                                *)
(***************************************************************************)
EXTENDS Integers, Sequences, SequencesExt, FiniteSetsExt

CONSTANTS
  HouseEdge,      \* percent
  MaxMultiplier,  \* hundredths
  Tiles,          \* of a Mines board: 25 in the code
  HotSpots,       \* where the mines of a forced loss go first
  Floors          \* of a tower

ASSUME RulesAssumption ==
  /\ HouseEdge \in 0..99 /\ MaxMultiplier \in Nat /\ MaxMultiplier >= 101
  /\ Tiles \in Nat /\ Tiles >= 2 /\ Floors \in Nat
  /\ HotSpots \in Seq(0..Tiles - 1) /\ IsInjective(HotSpots)

\* Math.round of a fraction, halves up.
Rounded(num, den) == (2 * num + den) \div (2 * den)
Clamp(x, low, high) == Min({high, Max({low, x})})

\* seededInt over 0..n-1.
PickOf(n, d, g) == (d * n) \div g

\* How many of the positions P come before i.
Before(P, i) == Cardinality({j \in P : j < i})

---------------------------------------------------------------------------
(* Dice: cents of a roll from 0.00 to 99.99 against a target *)

DiceChance(s) == IF s.direction = "under" THEN s.target ELSE 100000 - s.target

\* Mutant of FairMultiplier: the edge is given to the player.
FairMultiplierAndEdge(chance, of) == Rounded((100 + HouseEdge) * of, chance)

\* (1 - edge) / chance.
FairMultiplier(chance, of) == Rounded((100 - HouseEdge) * of, chance)

DiceRoll(s, forced, d, g) ==
  LET below == Rounded(d * Max({s.target - 10, 0}), 10 * g)
      above(from) == Rounded(from * g + d * (99990 - s.target), 10 * g)
  IN CASE forced = "none" -> Rounded(d * 10000, g)
       [] forced = "win"  -> IF s.direction = "under" THEN below ELSE above(s.target + 10)
       [] OTHER           -> IF s.direction = "under" THEN above(s.target) ELSE below

\* Mutant of DiceWins: the target itself wins.
DiceWinsOrMeets(s, roll) == IF s.direction = "under" THEN 10 * roll <= s.target ELSE 10 * roll >= s.target

DiceWins(s, roll) == IF s.direction = "under" THEN 10 * roll < s.target ELSE 10 * roll > s.target

Dice(s, forced, d, g) ==
  IF DiceWins(s, Clamp(DiceRoll(s, forced, d, g), 0, 9999))
  THEN FairMultiplier(DiceChance(s), 100000) ELSE 0

---------------------------------------------------------------------------
(* Coin flip *)

CoinFlip(s, forced, d, g) ==
  LET natural == IF 2 * d < g THEN "heads" ELSE "tails"
  IN IF forced = "win" \/ (forced = "none" /\ natural = s.side) THEN FairMultiplier(1, 2) ELSE 0

---------------------------------------------------------------------------
(* Limbo: a crash in hundredths against the target *)

LimboTarget(s) == Clamp(s.target, 1010, 10 * MaxMultiplier)

LimboCrash(target, forced, d, g) ==
  CASE forced = "none" ->
         IF d = 0 THEN MaxMultiplier
         ELSE Clamp(Rounded((100 - HouseEdge) * g, d), 100, MaxMultiplier)
    [] forced = "win" -> Rounded(target * g + d * (10 * MaxMultiplier - target), 10 * g)
    [] OTHER -> LET crash == 1000 * g + d * (target - 1010)
                IN Rounded(Clamp(crash, 1000 * g, (target - 10) * g), 10 * g)

Limbo(s, forced, d, g) ==
  LET target == LimboTarget(s)
  IN IF 10 * LimboCrash(target, forced, d, g) >= target THEN Rounded(target, 10) ELSE 0

---------------------------------------------------------------------------
(* Wheel *)

WheelSegments(risk) ==
  CASE risk = "low"    -> <<0, 120, 150, 120, 0, 150, 120, 200, 0, 120, 150, 120>>
    [] risk = "medium" -> <<0, 150, 200, 0, 300, 150, 0, 200, 500, 0, 150, 300>>
    [] OTHER           -> <<0, 0, 0, 0, 500, 0, 0, 1000, 0, 0, 0, 5000>>

\* A forced round picks among the entries that win, least or more, or among the others.
PickFrom(table, least, forced, d, g) ==
  LET pool == {i \in DOMAIN table : (table[i] >= least) = (forced = "win")}
  IN table[CHOOSE i \in pool : Before(pool, i) = PickOf(Cardinality(pool), d, g)]

Wheel(s, forced, d, g) ==
  LET table == WheelSegments(s.risk)
  IN IF forced = "none" THEN table[PickOf(Len(table), d, g) + 1]
     ELSE PickFrom(table, 101, forced, d, g)

---------------------------------------------------------------------------
(* Plinko: the bucket is the number of bounces to the right *)

\* The left half of a table and its middle: PLINKO_BUCKETS are symmetric.
PlinkoHalf(risk, rows) ==
  CASE risk = "low" /\ rows = 8      -> <<560, 210, 110, 100, 50>>
    [] risk = "low" /\ rows = 12     -> <<1000, 300, 160, 140, 110, 100, 50>>
    [] risk = "low" /\ rows = 16     -> <<1600, 900, 200, 140, 140, 120, 110, 100, 50>>
    [] risk = "medium" /\ rows = 8   -> <<1300, 300, 130, 70, 40>>
    [] risk = "medium" /\ rows = 12  -> <<3300, 1100, 400, 200, 110, 60, 30>>
    [] risk = "medium" /\ rows = 16  -> <<11000, 4100, 1000, 500, 300, 150, 100, 50, 30>>
    [] risk = "high" /\ rows = 8     -> <<2900, 400, 150, 30, 20>>
    [] risk = "high" /\ rows = 12    -> <<17000, 2400, 810, 200, 70, 20, 20>>
    [] OTHER                         -> <<100000, 13000, 2600, 900, 400, 200, 20, 20, 20>>

PlinkoBuckets(s) == LET half == PlinkoHalf(s.risk, s.rows) IN half \o Tail(Reverse(half))

Plinko(s, forced, d, g) ==
  LET m == IF forced = "none" THEN PlinkoBuckets(s)[d + 1]
           ELSE PickFrom(PlinkoBuckets(s), 100, forced, d, g)
  IN Min({m, MaxMultiplier})

---------------------------------------------------------------------------
(* Keno: how many of the picks are among the ten drawn *)

Spots == 50
DrawnSpots == 10

\* picks -> what the hits pay, from the fewest that pay on.
KenoTable(picks) ==
  CASE picks = 1 -> [from |-> 1, pays |-> <<396>>]
    [] picks = 2 -> [from |-> 2, pays |-> <<1700>>]
    [] picks = 3 -> [from |-> 2, pays |-> <<220, 4800>>]
    [] picks = 4 -> [from |-> 2, pays |-> <<160, 600, 9000>>]
    [] picks = 5 -> [from |-> 3, pays |-> <<330, 1300, 30000>>]
    [] picks = 6 -> [from |-> 3, pays |-> <<200, 500, 4800, 71000>>]
    [] picks = 7 -> [from |-> 4, pays |-> <<600, 1800, 12000, 80000>>]
    [] picks = 8 -> [from |-> 5, pays |-> <<1000, 5000, 40000, 100000>>]
    [] picks = 9 -> [from |-> 5, pays |-> <<600, 2200, 12000, 80000, 100000>>]
    [] OTHER     -> [from |-> 5, pays |-> <<500, 2400, 8000, 50000, 80000, 100000>>]

KenoPayout(picks, hits) ==
  LET t == KenoTable(picks) IN IF hits < t.from THEN 0 ELSE t.pays[hits - t.from + 1]

KenoHits(picks, forced, d, g) ==
  LET need == KenoTable(picks).from
  IN CASE forced = "none" -> d
       [] forced = "win"  -> need
       [] OTHER           -> PickOf(need, d, g)

Keno(s, forced, d, g) ==
  Min({KenoPayout(Len(s.picks), KenoHits(Len(s.picks), forced, d, g)), MaxMultiplier})

---------------------------------------------------------------------------
(* Boards *)

Swapped(s, i, j) == [k \in DOMAIN s |-> s[CASE k = i -> j [] k = j -> i [] OTHER -> k]]

\* Mutant of SeededShuffle: an item never stays where it is.
ShuffleAway(items, draws) ==
  LET n == Len(items)
      after[k \in 0..n - 1] ==
        IF k = 0 THEN items ELSE Swapped(after[k - 1], n - k + 1, (draws[n - k] % (n - k)) + 1)
  IN after[n - 1]

\* Fisher-Yates from the end: item i changes places with number draws[i] of 0..i, counting
\* items from 0, for i from the last down to 1.
SeededShuffle(items, draws) ==
  LET n == Len(items)
      after[k \in 0..n - 1] ==
        IF k = 0 THEN items ELSE Swapped(after[k - 1], n - k + 1, draws[n - k] + 1)
  IN after[n - 1]

ShuffleDraws(n) == {f \in [1..n - 1 -> 0..n - 1] : \A i \in 1..n - 1 : f[i] <= i}

Positions(n) == [k \in 1..n |-> k - 1]
FirstOf(s, n) == SubSeq(s, 1, Min({n, Len(s)}))

\* Mutant of BuildMinesGrid: the shuffle may name a hot spot again.
BuildMinesGridTwice(count, draws, forced) ==
  LET shuffled == SeededShuffle(Positions(Tiles), draws)
      hot == Range(FirstOf(HotSpots, count))
  IN IF forced = "loss" THEN hot \cup Range(FirstOf(shuffled, count - Cardinality(hot)))
     ELSE Range(FirstOf(shuffled, count))

BuildMinesGrid(count, draws, forced) ==
  LET shuffled == SeededShuffle(Positions(Tiles), draws)
      hot == Range(FirstOf(HotSpots, count))
      rest == {i \in 1..Tiles : shuffled[i] \notin hot}
      fill == {i \in rest : Before(rest, i) < count - Cardinality(hot)}
  IN IF forced = "loss" THEN hot \cup {shuffled[i] : i \in fill}
     ELSE Range(FirstOf(shuffled, count))

ProductOf(f, n) == LET p[k \in 0..n] == IF k = 0 THEN 1 ELSE p[k - 1] * f[k] IN p[n]

\* 1 / odds of n safe picks: the product of (Tiles - i) / (safe - i) for i from 0.
Falling(x, n) == ProductOf([i \in 1..n |-> x - i + 1], n)

MinesMultiplier(count, opened) ==
  LET safe == Tiles - count
  IN IF opened \notin 1..safe THEN 0
     ELSE Rounded((100 - HouseEdge) * Falling(Tiles, opened), Falling(safe, opened))

TowerTiles(difficulty) == CASE difficulty = "easy" -> 4 [] difficulty = "hard" -> 2 [] OTHER -> 3
TowerMines(difficulty) == IF difficulty \in {"easy", "hard"} THEN 1 ELSE 2

\* 45% of the floors of an easy tower have two or three traps, half of them each.
EasyTrapsOnFloor(d, g) ==
  IF 100 * d >= 45 * g THEN 1 ELSE IF 200 * d < 45 * g THEN 3 ELSE 2

TrapsOnFloor(difficulty, d, g) ==
  IF difficulty = "easy" THEN EasyTrapsOnFloor(d, g) ELSE TowerMines(difficulty)

BuildTowersFloor(difficulty, d, g, draws) ==
  Range(FirstOf(SeededShuffle(Positions(TowerTiles(difficulty)), draws),
                TrapsOnFloor(difficulty, d, g)))

\* 0.55 * 3/4 + 0.225 * 2/4 + 0.225 * 1/4 on an easy floor.
TowersSurviveRate(difficulty) ==
  IF difficulty = "easy" THEN <<93, 160>>
  ELSE <<TowerTiles(difficulty) - TowerMines(difficulty), TowerTiles(difficulty)>>

Power(x, n) == ProductOf([i \in 1..n |-> x], n)

TowersMultiplier(difficulty, climbed) ==
  LET survive == TowersSurviveRate(difficulty)
  IN IF climbed = 0 THEN 0
     ELSE Rounded((100 - HouseEdge) * Power(survive[2], climbed), Power(survive[1], climbed))
=============================================================================
