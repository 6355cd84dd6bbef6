-------------------------- MODULE RulesProperties --------------------------
(***************************************************************************)
(* What a round may come to, and what the games return on average.         *)
(***************************************************************************)
EXTENDS Resolver, Sums, FiniteSets

Sel == round.selection

\* A round knows its selection, and pays, caps and boards are in range.
TypeOK ==
  /\ round.at \in {"idle", "refused", "asked", "decided", "resolved", "done"}
  /\ round.at # "idle" => Sel \in Inputs
  /\ round.at \notin {"idle", "refused"} => ValidateSelection(Sel)
  /\ round.forced \in {"none", "win", "loss"} /\ round.difficulty \in 0..100
  /\ round.pays \in Nat
  /\ \A b \in round.board : b \subseteq Nat /\ Cardinality(b) >= 1

---------------------------------------------------------------------------
(* Forcing *)

\* Targets finer than a roll are legal; the forced bands of Dice and Limbo are rounded
\* past them (50.004 forced to lose under may roll 50.00).
WholeTarget(s) == s.game \in {"dice", "limbo"} => s.target % 10 = 0

\* A round forced to win pays its stake back at least, one forced to lose costs the player:
\* whatever the draw, in every game (Plinko's losing buckets pay part of the stake).
ForcedResultIsObeyed ==
  round.at = "resolved" /\ WholeTarget(Sel) =>
    /\ round.forced = "win" => round.pays >= 100
    /\ round.forced = "loss" => round.pays < 100

\* schema.ts: "90 means a 90% chance of losing".  Of all draws, as many lose as the
\* difficulty says, and none is forced at 0.
DifficultyIsALossPercent ==
  round.at = "decided" =>
    LET lost == {d \in Draws : DecideFromDifficulty(round.difficulty, d) = "loss"}
    IN 100 * Cardinality(lost) = round.difficulty * Grain

---------------------------------------------------------------------------
(* Averages *)

\* Pascal's triangle.
Binomial == LET row[n \in 0..Spots] ==
                  [k \in 0..Spots |-> IF k = 0 THEN 1 ELSE IF n = 0 THEN 0
                                     ELSE row[n - 1][k - 1] + row[n - 1][k]]
            IN row

\* How many of the equally likely outcomes come to a draw: paths to a bucket, tickets
\* with so many of the ten drawn; 1 for a draw that is uniform.
Weight(s, d) ==
  CASE s.game = "plinko" -> Binomial[s.rows][d]
    [] s.game = "keno"   -> Binomial[DrawnSpots][d] * Binomial[Spots - DrawnSpots][Len(s.picks) - d]
    [] OTHER             -> 1

\* Uniform draws are told apart finely, at odd parts of twice as many, and more finely for a
\* target of Limbo that few draws reach.
Fine == 12000
Fineness(s) == IF s.game = "limbo" THEN Fine * (1 + LimboTarget(s) \div 100000) ELSE Fine
HonestDraws(s) == IF s.game \in {"plinko", "keno"} THEN DrawsOf(s, "none") ELSE 1..Fineness(s)
HonestPay(s) == [d \in HonestDraws(s) |->
  IF s.game \in {"plinko", "keno"} THEN Resolve(s, "none", d, Grain)
                                   ELSE Resolve(s, "none", 2 * d - 1, 2 * Fineness(s))]

WeightOf(s, D) == IF s.game \in {"plinko", "keno"}
                  THEN SumOver([d \in D |-> Weight(s, d)], D) ELSE Cardinality(D)

Returned(s) ==
  LET pay == HonestPay(s)
      share == [m \in Range(pay) |-> m * WeightOf(s, {d \in DOMAIN pay : pay[d] = m})]
  IN SumOver(share, Range(pay))

FavoursThePlayer(s) == Returned(s) > 100 * WeightOf(s, HonestDraws(s))

\* schema.ts says of the house edge "Folded into every payout calculation": an honest round
\* returns less than its stake on average in every game but one.  The Wheel, which
\* takes no edge, returns more than the stake at every risk.
OnlyTheWheelFavoursThePlayer ==
  round.at = "asked" /\ Sel.game \in InstantGames =>
    (FavoursThePlayer(Sel) <=> Sel.game = "wheel")

---------------------------------------------------------------------------
(* Boards *)

Boards(count) == [draws \in ShuffleDraws(Tiles) |-> BuildMinesGrid(count, draws, "none")]

\* Of all shuffles, those in which the first n tiles a player opens are safe.
SafeShuffles(count, n) ==
  LET boards == Boards(count)
  IN {draws \in DOMAIN boards : boards[draws] \cap (0..n - 1) = {}}

\* A multiplier is the house's share of a fair bet, rounded to the cent.
FairPay(multiplier, won, of) ==
  LET off == multiplier * won - (100 - HouseEdge) * of
  IN 2 * off <= won /\ 2 * off >= -won

\* Easy floors counted over the draws, safe tiles of all.
SafeTiles(difficulty) ==
  LET traps == [d \in 1..Fine |-> TrapsOnFloor(difficulty, 2 * d - 1, 2 * Fine)]
      safe == [t \in Range(traps) |->
                 (TowerTiles(difficulty) - t) * Cardinality({d \in 1..Fine : traps[d] = t})]
  IN SumOver(safe, Range(traps))

\* guides.ts: "Each extra gem multiplies the fair odds of surviving that many picks", "Each
\* floor multiplies the fair odds of picking a safe tile".  The boards the shuffle lays
\* survive as often as the multipliers say, and the survival rate of a tower is that of
\* the floors it lays.
BoardsPayTheirOdds ==
  round.at = "asked" =>
    /\ Sel.game = "mines" =>
         \A n \in 1..Tiles - Sel.mineCount :
           FairPay(MinesMultiplier(Sel.mineCount, n),
                   Cardinality(SafeShuffles(Sel.mineCount, n)), Cardinality(ShuffleDraws(Tiles)))
    /\ Sel.game = "towers" =>
         LET survive == TowersSurviveRate(Sel.difficulty)
         IN /\ SafeTiles(Sel.difficulty) * survive[2]
                 = survive[1] * TowerTiles(Sel.difficulty) * Fine
            /\ \A n \in 1..Floors :
                 FairPay(TowersMultiplier(Sel.difficulty, n), Power(survive[1], n), Power(survive[2], n))

\* A board has as many mines as the player chose, also one that is biased towards the hot
\* spots; a floor leaves a tile to step on.
BoardsAreWhole ==
  round.at = "done" =>
    /\ Sel.game = "mines" => \A b \in round.board :
         /\ Cardinality(b) = Sel.mineCount /\ b \subseteq 0..Tiles - 1
         /\ round.forced = "loss" => HotSpots = <<>> \/ HotSpots[1] \in b
    /\ Sel.game = "towers" => \A b \in round.board :
         b \subseteq 0..TowerTiles(Sel.difficulty) - 1 /\ Cardinality(b) < TowerTiles(Sel.difficulty)
=============================================================================
