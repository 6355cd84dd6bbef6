------------------------------ MODULE BetBook ------------------------------
(***************************************************************************)
(* What the play service promises a player about money, with every bet     *)
(* settled in one piece: funds move only by a deposit, an instant bet, and *)
(* the opening and cashing out of a round; an open round holds its stake   *)
(* until it is lost or paid, once, at a multiplier of its game.            *)
(***************************************************************************)
EXTENDS Integers

CONSTANTS Players, RoundGames,
          StakeLimits,   \* the stakes a bet may have
          InstantOdds,   \* multipliers of instant games, in hundredths
          RoundOdds,     \* game -> multipliers a round may be cashed out at
          Deposits

VARIABLES funds,  \* player -> cents the player may bet
          held    \* player -> game -> the stake of the open round, 0 for none

book == <<funds, held>>

Pays(stake, mult) == (stake * mult + 50) \div 100

Init ==
  /\ funds = [u \in Players |-> 0]
  /\ held = [u \in Players |-> [g \in RoundGames |-> 0]]

Deposit(u) ==
  /\ \E amount \in Deposits : funds' = [funds EXCEPT ![u] = @ + amount]
  /\ UNCHANGED held

Instant(u) ==
  /\ \E stake \in StakeLimits, mult \in InstantOdds :
       /\ stake <= funds[u]
       /\ funds' = [funds EXCEPT ![u] = @ - stake + Pays(stake, mult)]
  /\ UNCHANGED held

Open(u, g) ==
  /\ held[u][g] = 0
  /\ \E stake \in StakeLimits :
       /\ stake <= funds[u]
       /\ funds' = [funds EXCEPT ![u] = @ - stake]
       /\ held' = [held EXCEPT ![u][g] = stake]

Lose(u, g) ==
  /\ held[u][g] > 0
  /\ held' = [held EXCEPT ![u][g] = 0]
  /\ UNCHANGED funds

CashOut(u, g) ==
  /\ held[u][g] > 0
  /\ \E mult \in RoundOdds[g] : funds' = [funds EXCEPT ![u] = @ + Pays(held[u][g], mult)]
  /\ held' = [held EXCEPT ![u][g] = 0]

Next ==
  \E u \in Players :
    \/ Deposit(u) \/ Instant(u)
    \/ \E g \in RoundGames : Open(u, g) \/ Lose(u, g) \/ CashOut(u, g)

Spec == Init /\ [][Next]_book
=============================================================================
