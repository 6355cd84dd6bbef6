------------------------------ MODULE MCRules ------------------------------
(***************************************************************************)
(* The real tables of the games, with a board of five tiles, and selections *)
(* of every game, at and past the edges of what is valid.                  *)
(***************************************************************************)
EXTENDS RulesProperties

MCHotSpots == <<2, 0>>

DiceInputs == [game : {"dice"}, target : {1999, 2000, 50000, 50004, 98000}, direction : {"over", "under"}]
CoinInputs == [game : {"coin-flip"}, side : {"heads", "tails", "edge"}]
LimboInputs == [game : {"limbo"}, target : {1009, 1010, 1014, 2000, 940800}]
WheelInputs == [game : {"wheel"}, risk : {"low", "medium", "high"}]
PlinkoInputs == [game : {"plinko"}, risk : {"low", "medium", "high"}, rows : {8, 10, 12, 16}]
KenoInputs == [game : {"keno"}, picks : {<<>>, <<7, 7>>, <<51>>} \cup {[i \in 1..n |-> 3 * i] : n \in 1..6}]
MinesInputs == [game : {"mines"}, mineCount : 0..5]
TowersInputs == [game : {"towers"}, difficulty : {"easy", "medium", "hard", "expert", "none"}]

MCInputs == DiceInputs \cup CoinInputs \cup LimboInputs \cup WheelInputs \cup PlinkoInputs
              \cup KenoInputs \cup MinesInputs \cup TowersInputs

MCControls == {[mode |-> "bias", winRate |-> 30, forceRounds |-> 0, cap |-> 0],
            [mode |-> "force_win", winRate |-> -1, forceRounds |-> 1, cap |-> 150],
            [mode |-> "force_loss", winRate |-> -1, forceRounds |-> 1, cap |-> 0],
            [mode |-> "force_loss", winRate |-> -1, forceRounds |-> 0, cap |-> 0]}
=============================================================================
