------------------------------ MODULE Resolver ------------------------------
(***************************************************************************)
(* One round at a time through the engine library: the selection is        *)
(* validated, the player's rule or the difficulty may force it, its draws  *)
(* are made and the rules say what it pays, and the rule caps a win.  How  *)
(* the play service moves money around these calls is in InstantBets.      *)
(***************************************************************************)
EXTENDS GameRules

CONSTANTS
  Inputs,        \* what requests select, valid or not
  Rules,         \* control rows: [mode, winRate, forceRounds, cap], a rate in percent, -1 for null
  Difficulties,  \* what profiles and games are set to
  Grain          \* the draws told apart: 0..Grain - 1 parts of Grain

NoRule == [mode |-> "off", winRate |-> -1, forceRounds |-> 0, cap |-> 0]
Inherit == -1  \* a difficulty no one has set

ASSUME ResolverAssumption ==
  /\ \A r \in Rules : /\ r.mode \in {"off", "bias", "force_win", "force_loss"}
                      /\ r.winRate \in Int /\ r.forceRounds \in Nat /\ r.cap \in Nat
  /\ Difficulties \subseteq Int /\ Grain \in Nat \ {0}
  /\ \A s \in Inputs : s.game \in {"dice", "limbo"} => s.target \in Int

VARIABLE round  \* [at, selection, rule, difficulty, forced, pays, board]

Draws == 0..Grain - 1

---------------------------------------------------------------------------
(* Deciding *)

InstantGames == {"dice", "coin-flip", "limbo", "wheel", "plinko", "keno"}
Risks == {"low", "medium", "high"}

\* Mutant of ValidMineCount: a board without mines is let through.
AnyMineCount(n) == n \in 0..Tiles - 1

ValidMineCount(n) == n \in 1..Tiles - 1

ValidateSelection(s) ==
  CASE s.game = "dice"      -> /\ s.target >= 2000 /\ s.target <= 98000
                               /\ s.direction \in {"over", "under"}
    [] s.game = "coin-flip" -> s.side \in {"heads", "tails"}
    [] s.game = "limbo"     -> s.target >= 1010
    [] s.game = "wheel"     -> s.risk \in Risks
    [] s.game = "plinko"    -> s.risk \in Risks /\ s.rows \in {8, 12, 16}
    [] s.game = "keno"      -> /\ Len(s.picks) \in 1..10 /\ IsInjective(s.picks)
                               /\ Range(s.picks) \subseteq 1..Spots
    [] s.game = "mines"     -> ValidMineCount(s.mineCount)
    [] s.game = "towers"    -> s.difficulty \in {"easy", "medium", "hard", "expert"}
    [] OTHER                -> FALSE

\* A draw below the rate wins.
Biased(winRate, d) ==
  IF winRate \notin 0..100 THEN "none"
  ELSE IF 100 * d < winRate * Grain THEN "win" ELSE "loss"

DecideForcedResult(rule, d) ==
  CASE rule.mode = "off"      -> "none"
    [] rule.mode = "bias"     -> Biased(rule.winRate, d)
    [] rule.forceRounds = 0   -> "none"
    [] rule.mode = "force_win" -> "win"
    [] OTHER                  -> "loss"

\* Mutant of DecideFromDifficulty: the difficulty is taken for a chance to win.
DecideFromEase(difficulty, d) ==
  CASE difficulty <= 0   -> "none"
    [] difficulty >= 100 -> "loss"
    [] OTHER             -> Biased(difficulty, d)

\* Difficulty is a percentage of losses; 0 leaves the odds alone.
DecideFromDifficulty(difficulty, d) ==
  CASE difficulty <= 0   -> "none"
    [] difficulty >= 100 -> "loss"
    [] OTHER             -> Biased(100 - difficulty, d)

\* The player's setting for the game, else his general one, else the game's.
WalletDifficultyForGame(perGame, general) == IF perGame # Inherit THEN perGame ELSE general

EffectiveDifficulty(profile, game) ==
  Clamp(IF profile # Inherit THEN profile ELSE game, 0, 100)

\* A rule decides before the difficulty does.
ResolveControl(rule, difficulty, d) ==
  LET byRule == DecideForcedResult(rule, d)
  IN IF byRule # "none" THEN byRule ELSE DecideFromDifficulty(difficulty, d)

---------------------------------------------------------------------------
(* Resolving *)

\* An honest drop of Plinko bounces at each row and Keno draws ten of fifty: the draw
\* stands for the bucket or the hits they come to.
DrawsOf(s, forced) ==
  CASE s.game = "plinko" /\ forced = "none" -> 0..s.rows
    [] s.game = "keno" /\ forced = "none"   -> 0..Len(s.picks)
    [] OTHER                                -> Draws

Resolve(s, forced, d, g) ==
  CASE s.game = "dice"      -> Dice(s, forced, d, g)
    [] s.game = "coin-flip" -> CoinFlip(s, forced, d, g)
    [] s.game = "limbo"     -> Limbo(s, forced, d, g)
    [] s.game = "wheel"     -> Wheel(s, forced, d, g)
    [] s.game = "plinko"    -> Plinko(s, forced, d, g)
    [] OTHER                -> Keno(s, forced, d, g)

ApplyWinCap(multiplier, rule) ==
  IF rule.cap > 0 /\ multiplier > rule.cap THEN rule.cap ELSE multiplier

---------------------------------------------------------------------------
(* Steps *)

Blank == [at |-> "idle", selection |-> <<>>, rule |-> NoRule, difficulty |-> 0,
          forced |-> "none", pays |-> 0, board |-> {}]
Init == round = Blank

Ask ==
  /\ round.at \in {"idle", "refused", "done"}
  /\ \E s \in Inputs :
       round' = [Blank EXCEPT !.at = IF ValidateSelection(s) THEN "asked" ELSE "refused",
                              !.selection = s]

\* The draw that decides has a cursor of its own, 9999.
Decide ==
  /\ round.at = "asked"
  /\ \E rule \in Rules \cup {NoRule}, perGame, general \in Difficulties \cup {Inherit},
        game \in Difficulties, d \in Draws :
       LET difficulty == EffectiveDifficulty(WalletDifficultyForGame(perGame, general), game)
       IN round' = [round EXCEPT !.at = "decided", !.rule = rule, !.difficulty = difficulty,
                                 !.forced = ResolveControl(rule, difficulty, d)]

ResolveRound ==
  /\ round.at = "decided" /\ round.selection.game \in InstantGames
  /\ \E d \in DrawsOf(round.selection, round.forced) :
       round' = [round EXCEPT !.at = "resolved",
                   !.pays = Resolve(round.selection, round.forced, d, Grain)]

Cap ==
  /\ round.at = "resolved"
  /\ round' = [round EXCEPT !.at = "done", !.pays = ApplyWinCap(round.pays, round.rule)]

\* Mines hides its board when the round starts, and a forced loss biases it.
LayMines ==
  /\ round.at = "decided" /\ round.selection.game = "mines"
  /\ \E draws \in ShuffleDraws(Tiles) :
       round' = [round EXCEPT !.at = "done",
                   !.board = {BuildMinesGrid(round.selection.mineCount, draws, round.forced)}]

\* Towers lays all its floors; what the rule says of the round changes nothing.
LayTowers ==
  /\ round.at = "decided" /\ round.selection.game = "towers"
  /\ \E d \in Draws, draws \in ShuffleDraws(TowerTiles(round.selection.difficulty)) :
       round' = [round EXCEPT !.at = "done",
                   !.board = {BuildTowersFloor(round.selection.difficulty, d, Grain, draws)}]

Next == Ask \/ Decide \/ ResolveRound \/ Cap \/ LayMines \/ LayTowers

Spec == Init /\ [][Next]_round
=============================================================================
