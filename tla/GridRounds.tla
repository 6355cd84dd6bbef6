----------------------------- MODULE GridRounds -----------------------------
(***************************************************************************)
(* Mines and Towers: rounds that are opened, played and settled by         *)
(* separate requests.  start debits the stake and holds it in              *)
(* lockedBalance; reveal opens one cell, and loses the round on a trap;    *)
(* cashOut pays stake times the multiplier the last reveal stored.         *)
(*                                                                         *)
(* Both games run the same statements on the same rows, so one set of      *)
(* steps stands for both and `g` tells apart what differs: the grid, the   *)
(* odds and the checks on a reveal.  A cell is <<floor, tile>>; Mines has  *)
(* the one floor 0.                                                        *)
(***************************************************************************)
EXTENDS InstantBets

GridGames == {"mines", "towers"}

Step(r, op, g, pc) == At(r, op, pc) /\ req[r].game = g

---------------------------------------------------------------------------
(* The two grids *)

\* buildMinesGrid: any `count` tiles; a forced loss mines the hot spots first.
BuildMinesGrid(count, forced) ==
  {S \in SUBSET ({0} \X (0..TileCount - 1)) :
     /\ Cardinality(S) = count
     /\ forced = "loss" => \A i \in DOMAIN HotSpots : i <= count => <<0, HotSpots[i]>> \in S}

\* buildTowersGrid: every floor rolls its own trap count and positions, whatever is forced.
BuildTowersGrid ==
  {S \in SUBSET ((0..TowerRows - 1) \X (0..TowerTiles - 1)) :
     \A floor \in 0..TowerRows - 1 : Cardinality({c \in S : c[1] = floor}) \in TowerTraps}

Grids(g, count, forced) ==
  IF g = "mines" THEN BuildMinesGrid(count, forced) ELSE BuildTowersGrid

Tiles(g) == IF g = "mines" THEN TileCount ELSE TowerTiles

\* The cell the next pick opens.
Cell(g, opened, tile) == IF g = "mines" THEN <<0, tile>> ELSE <<Len(opened), tile>>

\* minesMultiplier and towersMultiplier after n safe picks, nothing past the last safe one.
Multiplier(g, count, n) ==
  CASE g = "mines" /\ n \in 1..TileCount - count -> MinesMultiplier[count][n]
    [] g = "towers" /\ n \in 1..TowerRows        -> TowersMultiplier[n]
    [] OTHER                                     -> 0

\* Picks after which nothing is left to open, and the reveal cashes out by itself.
Cleared(g, count, n) == n >= IF g = "mines" THEN TileCount - count ELSE TowerRows

---------------------------------------------------------------------------
(* start *)

\* The mine counts a player may ask for; Towers has none.
CountInputs(g) == IF g = "mines" THEN MineCounts ELSE {0}

StartArrives(r, g) ==
  \E u \in Users, s \in DOMAIN session, x \in StakeInputs, count \in CountInputs(g) :
    /\ BetsUnderWay < MaxBets
    /\ Arrive(r, [Idle EXCEPT !.op = "start", !.pc = "session", !.user = u, !.game = g,
                              !.sid = s, !.stake = RoundMoney(x), !.count = count])

StartChecks(r, g) ==
  /\ Step(r, "start", g, "session")
  /\ Check(r, SessionIsOpen(req[r].user, req[r].sid, g) /\ ValidStake(req[r].stake), "open")
  /\ UNCHANGED <<rows, admin, failures>>

\* Mutant of SelectOpenRound: only this session's rounds are looked at.
SelectOpenRoundHere(r, g) ==
  /\ Step(r, "start", g, "open")
  /\ Check(r, ~\E i \in DOMAIN bet : bet[i].sid = req[r].sid /\ bet[i].status = "open", "wallet")
  /\ UNCHANGED <<rows, admin, failures>>

\* "You already have a round in progress": the player's open bets on this game,
\* of whatever session.
SelectOpenRound(r, g) ==
  /\ Step(r, "start", g, "open")
  /\ Check(r, ~\E i \in DOMAIN bet : /\ bet[i].user = req[r].user /\ bet[i].game = g
                                     /\ bet[i].status = "open", "wallet")
  /\ UNCHANGED <<rows, admin, failures>>

\* getControlRule, resolveControl and the grid; no forced round is ever consumed here.
LayGrid(r, g) ==
  /\ Step(r, "start", g, "control")
  /\ \E forced \in ResolveControl(control[req[r].user]) :
       \E traps \in Grids(g, req[r].count, forced) :
         req' = [req EXCEPT ![r].pc = "debit", ![r].forced = forced, ![r].traps = traps]
  /\ UNCHANGED <<rows, admin, failures>>

HoldStake(r, g) ==
  /\ Step(r, "start", g, "debit")
  /\ \/ /\ wallet[req[r].user].balance >= req[r].stake
        /\ Debit(req[r].user, req[r].stake, 0, req[r].stake)
        /\ Goto(r, "insert")
     \/ /\ wallet[req[r].user].balance < req[r].stake
        /\ Finish(r)
        /\ UNCHANGED wallet
  /\ UNCHANGED <<session, bet, ledger, control, admin, failures>>

InsertOpenRound(r, g) ==
  /\ Step(r, "start", g, "insert")
  /\ InsertBet([user |-> req[r].user, game |-> g, sid |-> req[r].sid,
                stake |-> req[r].stake, mult |-> 0, payout |-> 0, status |-> "open",
                count |-> req[r].count, traps |-> req[r].traps, opened |-> <<>>,
                nonce |-> req[r].nonce, controlled |-> req[r].forced # "none"])
  /\ req' = [req EXCEPT ![r].pc = "ledger", ![r].ref = Len(bet) + 1]
  /\ UNCHANGED <<wallet, session, control, admin, failures>>

\* Mutant of InsertStakeRow: the insert may be tried again after it succeeded.
InsertStakeRowAgain(r, g) ==
  /\ Step(r, "start", g, "ledger")
  /\ ledger' = [ledger EXCEPT ![req[r].ref].staked = @ + req[r].stake]
  /\ Goto(r, "bump") \/ UNCHANGED req
  /\ UNCHANGED <<wallet, session, bet, control, admin, failures>>

InsertStakeRow(r, g) ==
  /\ Step(r, "start", g, "ledger")
  /\ ledger' = [ledger EXCEPT ![req[r].ref].staked = @ + req[r].stake]
  /\ Goto(r, "bump")
  /\ UNCHANGED <<wallet, session, bet, control, admin, failures>>

BumpStartedRound(r, g) ==
  /\ Step(r, "start", g, "bump")
  /\ BumpSession(req[r].sid, req[r].stake, 0)
  /\ Finish(r)
  /\ UNCHANGED <<wallet, bet, ledger, control, admin, failures>>

Start(r, g) ==
  \/ StartArrives(r, g) \/ StartChecks(r, g) \/ SelectOpenRound(r, g) \/ LayGrid(r, g)
  \/ HoldStake(r, g) \/ InsertOpenRound(r, g) \/ InsertStakeRow(r, g) \/ BumpStartedRound(r, g)

---------------------------------------------------------------------------
(* reveal *)

\* One tile past the last one stands for every tile out of range.
RevealArrives(r, g) ==
  \E u \in Users, s \in DOMAIN session, i \in DOMAIN bet, tile \in 0..Tiles(g) :
    Arrive(r, [Idle EXCEPT !.op = "reveal", !.pc = "session", !.user = u, !.game = g,
                           !.sid = s, !.ref = i, !.tile = tile])

\* requireOpenSession and the range of the tile, which Towers checks one read later.
RevealChecks(r, g) ==
  /\ Step(r, "reveal", g, "session")
  /\ Check(r, SessionIsOpen(req[r].user, req[r].sid, g) /\ req[r].tile < Tiles(g), "row")
  /\ UNCHANGED <<rows, admin, failures>>

MayOpen(g, row, tile) ==
  IF g = "mines" THEN \A n \in DOMAIN row.opened : row.opened[n] # tile
                 ELSE Len(row.opened) < TowerRows

\* The row is read once; what follows works on this copy of it.
ReadRound(r, g) ==
  /\ Step(r, "reveal", g, "row")
  /\ \/ /\ RoundIsOpen(req[r])
        /\ LET row  == bet[req[r].ref]
               trap == Cell(g, row.opened, req[r].tile) \in row.traps
           IN /\ MayOpen(g, row, req[r].tile)
              /\ req' = [req EXCEPT ![r].pc = IF trap THEN "unlock" ELSE "raise",
                                    ![r].stake = row.stake, ![r].count = row.count,
                                    ![r].opened = row.opened]
     \/ /\ ~(RoundIsOpen(req[r]) /\ MayOpen(g, bet[req[r].ref], req[r].tile))
        /\ Finish(r)
  /\ UNCHANGED <<rows, admin, failures>>

Unlock(u, stake) == [wallet[u] EXCEPT !.lockedBalance = AtLeastZero(@ - stake)]

\* Mutant of ReleaseStake: a lost round leaves its stake held.
KeepStakeHeld(r, g) ==
  Step(r, "reveal", g, "unlock") /\ Goto(r, "lost") /\ UNCHANGED <<rows, admin, failures>>

\* A trap: the held stake is released first, the row is closed by the next statement.
ReleaseStake(r, g) ==
  /\ Step(r, "reveal", g, "unlock")
  /\ wallet' = [wallet EXCEPT ![req[r].user] = Unlock(req[r].user, req[r].stake)]
  /\ Goto(r, "lost")
  /\ UNCHANGED <<session, bet, ledger, control, admin, failures>>

CloseLostRound(r, g) ==
  /\ Step(r, "reveal", g, "lost")
  /\ bet' = [bet EXCEPT ![req[r].ref].status = "lost", ![req[r].ref].mult = 0,
                        ![req[r].ref].payout = 0,
                        ![req[r].ref].opened = Append(req[r].opened, req[r].tile)]
  /\ Finish(r)
  /\ UNCHANGED <<wallet, session, ledger, control, admin, failures>>

\* Mutant of RaiseMultiplier: the new pick replaces the earlier ones.
StoreLastPick(r, g) ==
  /\ Step(r, "reveal", g, "raise")
  /\ bet' = [bet EXCEPT ![req[r].ref].opened = <<req[r].tile>>,
                        ![req[r].ref].mult = Multiplier(g, req[r].count, Len(req[r].opened) + 1)]
  /\ Finish(r)
  /\ UNCHANGED <<wallet, session, ledger, control, admin, failures>>

\* A safe cell: store it with the new multiplier, by id and whatever the row says
\* by now; clearing the grid runs on into cashOut.
RaiseMultiplier(r, g) ==
  /\ Step(r, "reveal", g, "raise")
  /\ LET opened == Append(req[r].opened, req[r].tile)
     IN /\ bet' = [bet EXCEPT ![req[r].ref].opened = opened,
                              ![req[r].ref].mult = Multiplier(g, req[r].count, Len(opened))]
        /\ IF Cleared(g, req[r].count, Len(opened))
           THEN req' = [req EXCEPT ![r] = [Idle EXCEPT !.op = "cashOut", !.pc = "session",
                          !.user = req[r].user, !.game = g, !.sid = req[r].sid, !.ref = req[r].ref]]
           ELSE Finish(r)
  /\ UNCHANGED <<wallet, session, ledger, control, admin, failures>>

Reveal(r, g) ==
  \/ RevealArrives(r, g) \/ RevealChecks(r, g) \/ ReadRound(r, g)
  \/ ReleaseStake(r, g) \/ CloseLostRound(r, g) \/ RaiseMultiplier(r, g)

---------------------------------------------------------------------------
(* cashOut *)

CashOutArrives(r, g) ==
  \E u \in Users, s \in DOMAIN session, i \in DOMAIN bet :
    Arrive(r, [Idle EXCEPT !.op = "cashOut", !.pc = "session", !.user = u, !.game = g,
                           !.sid = s, !.ref = i])

CashOutChecks(r, g) ==
  /\ Step(r, "cashOut", g, "session")
  /\ Check(r, SessionIsOpen(req[r].user, req[r].sid, g), "row")
  /\ UNCHANGED <<rows, admin, failures>>

ReadRoundToPay(r, g) ==
  /\ Step(r, "cashOut", g, "row")
  /\ \/ /\ RoundIsOpen(req[r])
        /\ LET row == bet[req[r].ref]
           IN /\ row.opened # <<>>
              /\ req' = [req EXCEPT ![r].pc = "credit", ![r].stake = row.stake,
                                    ![r].payout = RoundMoney(row.stake * row.mult)]
     \/ /\ ~(RoundIsOpen(req[r]) /\ bet[req[r].ref].opened # <<>>)
        /\ Finish(r)
  /\ UNCHANGED <<rows, admin, failures>>

CreditPayout(r, g) ==
  /\ Step(r, "cashOut", g, "credit")
  /\ wallet' = [wallet EXCEPT ![req[r].user] =
       [Unlock(req[r].user, req[r].stake) EXCEPT !.balance = @ + req[r].payout,
                                                 !.totalWon = @ + req[r].payout]]
  /\ Goto(r, "settle")
  /\ UNCHANGED <<session, bet, ledger, control, admin, failures>>

CloseCashedOutRound(r, g) ==
  /\ Step(r, "cashOut", g, "settle")
  /\ bet' = [bet EXCEPT ![req[r].ref].status = "cashed_out",
                        ![req[r].ref].payout = req[r].payout]
  /\ Goto(r, "ledger")
  /\ UNCHANGED <<wallet, session, ledger, control, admin, failures>>

\* Mutant of InsertPayoutRow: the payout is not booked.
SkipPayoutRow(r, g) ==
  Step(r, "cashOut", g, "ledger") /\ Goto(r, "bump") /\ UNCHANGED <<rows, admin, failures>>

InsertPayoutRow(r, g) ==
  /\ Step(r, "cashOut", g, "ledger")
  /\ ledger' = [ledger EXCEPT ![req[r].ref].paid = @ + req[r].payout,
                              ![req[r].ref].payouts = @ + 1]
  /\ Goto(r, "bump")
  /\ UNCHANGED <<wallet, session, bet, control, admin, failures>>

BumpCashedOutRound(r, g) ==
  /\ Step(r, "cashOut", g, "bump")
  /\ BumpSession(req[r].sid, 0, req[r].payout)
  /\ Finish(r)
  /\ UNCHANGED <<wallet, bet, ledger, control, admin, failures>>

CashOut(r, g) ==
  \/ CashOutArrives(r, g) \/ CashOutChecks(r, g) \/ ReadRoundToPay(r, g)
  \/ CreditPayout(r, g) \/ CloseCashedOutRound(r, g) \/ InsertPayoutRow(r, g)
  \/ BumpCashedOutRound(r, g)

---------------------------------------------------------------------------
(* The handlers of the two games *)

StartMines(r)    == Start(r, "mines")
RevealMines(r)   == Reveal(r, "mines")
CashOutMines(r)  == CashOut(r, "mines")
StartTowers(r)   == Start(r, "towers")
RevealTowers(r)  == Reveal(r, "towers")
CashOutTowers(r) == CashOut(r, "towers")
=============================================================================
