------------------------------- MODULE MCPlay -------------------------------
(***************************************************************************)
(* Small instances of the play service for TLC.  Mines has 3 tiles, Towers *)
(* two floors of two tiles with one trap each.                             *)
(***************************************************************************)
EXTENDS PlayProperties

\* 2% house edge: 0.98 * C(3, n) / C(3 - count, n), in hundredths.
MCMinesMultiplier == [count \in MineCounts \cup {0} |->
  [n \in 1..3 |-> CASE count = 0 -> 98
                    [] count = 1 /\ n = 1 -> 147
                    [] count = 1 /\ n = 2 -> 294
                    [] count = 2 /\ n = 1 -> 294
                    [] OTHER -> 0]]

\* 0.98 * 2^n, in hundredths.
MCTowersMultiplier == [n \in 1..2 |-> IF n = 1 THEN 196 ELSE 392]

MCHotSpots == <<1, 0, 2>>

FairOdds == {[mode |-> "off", forceRounds |-> 0, cap |-> 0]}
FairOrForcedLoss == FairOdds \cup {[mode |-> "force_loss", forceRounds |-> 1, cap |-> 0]}
OneForcedWin == {[mode |-> "force_win", forceRounds |-> 1, cap |-> 150]}

MinesCommands  == {<<op, "mines">> : op \in {"startSession", "endSession", "start", "reveal", "cashOut"}}
TowersCommands == {<<op, "towers">> : op \in {"startSession", "endSession", "start", "reveal", "cashOut"}}
InstantCommands == {<<op, "instant">> : op \in {"startSession", "endSession", "placeBet"}}
=============================================================================
