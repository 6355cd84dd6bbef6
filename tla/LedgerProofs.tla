---------------------------- MODULE LedgerProofs ----------------------------
(***************************************************************************)
(* Theorems about what the wallets, the bets, the ledger and the sessions  *)
(* say of each other.  They hold for any number of players and requests,   *)
(* however handlers race and fail: no hypothesis that a player sends one   *)
(* request at a time.                                                      *)
(***************************************************************************)
EXTENDS PlayProofs, FiniteSums

Others(r) == \A q \in Requests \ {r} : req'[q] = req[q]

\* Two handlers carry the same call, whichever statement they are at.
SameCall(h, k) ==
  /\ h.op = k.op /\ h.user = k.user /\ h.game = k.game /\ h.sid = k.sid /\ h.ref = k.ref
  /\ h.tile = k.tile /\ h.count = k.count /\ h.stake = k.stake /\ h.nonce = k.nonce
  /\ h.forced = k.forced /\ h.metered = k.metered /\ h.traps = k.traps
  /\ h.opened = k.opened /\ h.mult = k.mult /\ h.payout = k.payout

\* A handler that goes on keeps its call.
LEMMA GotoKeeps ==
  ASSUME HandlerType, NEW r \in Requests, req[r] \in Active, NEW pc, Goto(r, pc)
  PROVE  Others(r) /\ SameCall(req'[r], req[r]) /\ req'[r].pc = pc
<1> DEFINE h == [req[r] EXCEPT !.pc = pc]
<1>1. req' = [req EXCEPT ![r] = h] /\ r \in DOMAIN req
  BY DEF Goto, HandlerType
<1>2. SameCall(h, req[r]) /\ h.pc = pc
  BY DEF SameCall, Active
<1> HIDE DEF h
<1> QED BY <1>1, <1>2 DEF Others, HandlerType

\* One that answers leaves an idle slot.
LEMMA FinishKeeps ==
  ASSUME HandlerType, NEW r \in Requests, Finish(r)
  PROVE  Others(r) /\ req'[r] = Idle
BY DEF Finish, HandlerType, Others

\* A check does either.
LEMMA CheckKeeps ==
  ASSUME HandlerType, NEW r \in Requests, req[r] \in Active, NEW ok, NEW pc, Check(r, ok, pc)
  PROVE  /\ Others(r)
         /\ \/ req'[r] = Idle
            \/ ok /\ SameCall(req'[r], req[r]) /\ req'[r].pc = pc
BY GotoKeeps, FinishKeeps DEF Check

\* An arrival fills an idle slot; with serial players it is the player's only one.
LEMMA ArriveKeeps ==
  ASSUME HandlerType, NEW r \in Requests, NEW call, Arrive(r, call)
  PROVE  /\ Others(r) /\ req[r] = Idle /\ req'[r] = call
         /\ SerialPlayers => \A q \in Requests : req[q].user # call.user
BY DEF Arrive, HandlerType, Others, InFlight


---------------------------------------------------------------------------
(* The steps, by what they do *)

Arrivals(r) ==
  \/ StartSessionArrives(r) \/ EndSessionArrives(r) \/ PlaceBetArrives(r)
  \/ \E g \in GridGames : StartArrives(r, g) \/ RevealArrives(r, g) \/ CashOutArrives(r, g)

Reads(r) ==
  \/ GetPlayableGame(r) \/ ReadSession(r) \/ PlaceBetChecks(r)
  \/ ReadWallet(r) \/ CountBets(r) \/ RollRound(r)
  \/ \E g \in GridGames : \/ StartChecks(r, g) \/ SelectOpenRound(r, g) \/ LayGrid(r, g)
                          \/ RevealChecks(r, g) \/ ReadRound(r, g)
                          \/ CashOutChecks(r, g) \/ ReadRoundToPay(r, g)

SessionWrites(r) == EndOpenSessions(r) \/ InsertSession(r) \/ MarkEnded(r)

BetWrites(r) ==
  \/ SettleWallet(r) \/ InsertSettledBet(r) \/ InsertBetLedger(r) \/ BumpSettledBet(r)
  \/ ConsumeForcedRound(r)

RoundWrites(r, g) ==
  \/ HoldStake(r, g) \/ InsertOpenRound(r, g) \/ InsertStakeRow(r, g) \/ BumpStartedRound(r, g)
  \/ ReleaseStake(r, g) \/ CloseLostRound(r, g) \/ RaiseMultiplier(r, g)
  \/ CreditPayout(r, g) \/ CloseCashedOutRound(r, g) \/ InsertPayoutRow(r, g)
  \/ BumpCashedOutRound(r, g)

\* A step no handler takes.
Elsewhere ==
  /\ UNCHANGED <<session, bet, ledger, control, req, failures>>
  /\ UNCHANGED wallet \/ \E u \in Users : CreditWallet(u)

\* A step is taken elsewhere or by one handler, which arrives, reads, writes or stops.
LEMMA StepCases ==
  ASSUME [Next]_vars
  PROVE  \/ Elsewhere
         \/ \E r \in Requests : \/ Arrivals(r) \/ Reads(r) \/ Abort(r)
                                \/ SessionWrites(r) \/ BetWrites(r)
                                \/ \E g \in GridGames : RoundWrites(r, g)
<1> DEFINE Handled == \E r \in Requests : \/ Arrivals(r) \/ Reads(r) \/ Abort(r)
                                         \/ SessionWrites(r) \/ BetWrites(r)
                                         \/ \E g \in GridGames : RoundWrites(r, g)
<1>1. CASE UNCHANGED vars
  BY <1>1 DEF vars, Elsewhere
<1>2. ASSUME NEW u \in Users, CreditWallet(u)
      PROVE  Elsewhere
  BY <1>2 DEF CreditWallet, Elsewhere
<1>3. CASE AdminAct
  BY <1>3 DEF AdminAct, Elsewhere, rows
<1>4. ASSUME NEW r \in Requests, StartSession(r) \/ EndSession(r)
      PROVE  Handled
  BY <1>4 DEF StartSession, EndSession, Arrivals, Reads, SessionWrites
<1>5. ASSUME NEW r \in Requests, PlaceBet(r) \/ ReadForStake(r)
      PROVE  Handled
  BY <1>5 DEF PlaceBet, ReadForStake, Arrivals, Reads, BetWrites
<1>6. ASSUME NEW r \in Requests, NEW g \in GridGames, Start(r, g) \/ Reveal(r, g) \/ CashOut(r, g)
      PROVE  Handled
  BY <1>6 DEF Start, Reveal, CashOut, Arrivals, Reads, RoundWrites
<1>7. ASSUME NEW r \in Requests, Abort(r)
      PROVE  Handled
  BY <1>7
<1>8. "mines" \in GridGames /\ "towers" \in GridGames
  BY DEF GridGames
<1>9. ASSUME NEW r \in Requests, Handler(r)
      PROVE  Handled
  BY <1>4, <1>5, <1>6, <1>8, <1>9
     DEF Handler, StartMines, RevealMines, CashOutMines, StartTowers, RevealTowers, CashOutTowers
<1>10. \A r \in Requests : Handler(r) \/ Abort(r) => Handled
  BY <1>7, <1>9, Zenon
<1>11. \A u \in Users : CreditWallet(u) => Elsewhere
  BY <1>2
<1>12. CASE Next
  <2>1. CASE \E r \in Requests : Handler(r) \/ Abort(r)
    BY <1>10, <2>1, Zenon
  <2>2. CASE \E u \in Users : CreditWallet(u)
    BY <1>11, <2>2
  <2> QED BY <1>3, <1>12, <2>1, <2>2, Zenon DEF Next
<1> QED BY <1>1, <1>12

\* What a handler holds when its message arrives.
Arrived(k) ==
  /\ k.user \in Users
  /\ \/ k.op = "startSession" /\ k.pc = "game"
     \/ k.op = "endSession" /\ k.pc = "row" /\ k.sid \in DOMAIN session
     \/ k.op = "placeBet" /\ k.pc = "session" /\ k.sid \in DOMAIN session /\ k.game = "instant"
     \/ k.op = "start" /\ k.pc = "session" /\ k.sid \in DOMAIN session /\ k.game \in GridGames
     \/ /\ k.op \in {"reveal", "cashOut"} /\ k.pc = "session" /\ k.sid \in DOMAIN session
        /\ k.ref \in DOMAIN bet /\ k.game \in GridGames

\* An arrival fills one idle slot and writes no row.
LEMMA Arriving ==
  ASSUME HandlerType, NEW r \in Requests, Arrivals(r)
  PROVE  /\ Others(r) /\ req[r] = Idle /\ Arrived(req'[r])
         /\ SerialPlayers => \A q \in Requests : req[q].user # req'[r].user
         /\ UNCHANGED <<wallet, session, bet, ledger, control, failures>>
<1> DEFINE Goal == /\ Others(r) /\ req[r] = Idle /\ Arrived(req'[r])
                   /\ SerialPlayers => \A q \in Requests : req[q].user # req'[r].user
                   /\ UNCHANGED <<wallet, session, bet, ledger, control, failures>>
<1>1. ASSUME NEW call, Arrive(r, call), Arrived(call)
      PROVE  Goal
  <2>1. UNCHANGED <<wallet, session, bet, ledger, control, failures>>
    BY <1>1 DEF Arrive, rows
  <2>2. Others(r) /\ req[r] = Idle /\ req'[r] = call
    BY <1>1, ArriveKeeps
  <2>3. SerialPlayers => \A q \in Requests : req[q].user # call.user
    BY <1>1, ArriveKeeps
  <2> QED BY <1>1, <2>1, <2>2, <2>3, Zenon
<1>2. CASE StartSessionArrives(r)
  <2>1. PICK u \in Users, g \in Games :
          Arrive(r, [Idle EXCEPT !.op = "startSession", !.pc = "game", !.user = u, !.game = g])
    BY <1>2 DEF StartSessionArrives
  <2>2. Arrived([Idle EXCEPT !.op = "startSession", !.pc = "game", !.user = u, !.game = g])
    BY DEF Arrived, Idle
  <2> QED BY <1>1, <2>1, <2>2
<1>3. CASE EndSessionArrives(r)
  <2>1. PICK u \in Users, s \in DOMAIN session :
          Arrive(r, [Idle EXCEPT !.op = "endSession", !.pc = "row", !.user = u,
                                 !.game = session[s].game, !.sid = s])
    BY <1>3 DEF EndSessionArrives
  <2>2. Arrived([Idle EXCEPT !.op = "endSession", !.pc = "row", !.user = u,
                             !.game = session[s].game, !.sid = s])
    BY DEF Arrived, Idle
  <2> QED BY <1>1, <2>1, <2>2
<1>4. CASE PlaceBetArrives(r)
  <2>1. PICK u \in Users, s \in DOMAIN session, x \in StakeInputs :
          Arrive(r, [Idle EXCEPT !.op = "placeBet", !.pc = "session", !.user = u,
                                 !.sid = s, !.stake = RoundMoney(x)])
    BY <1>4 DEF PlaceBetArrives
  <2>2. Arrived([Idle EXCEPT !.op = "placeBet", !.pc = "session", !.user = u,
                             !.sid = s, !.stake = RoundMoney(x)])
    BY DEF Arrived, Idle
  <2> QED BY <1>1, <2>1, <2>2
<1>5. ASSUME NEW g \in GridGames, StartArrives(r, g)
      PROVE  Goal
  <2>1. PICK u \in Users, s \in DOMAIN session, x \in StakeInputs, count \in CountInputs(g) :
          Arrive(r, [Idle EXCEPT !.op = "start", !.pc = "session", !.user = u, !.game = g,
                                 !.sid = s, !.stake = RoundMoney(x), !.count = count])
    BY <1>5 DEF StartArrives
  <2>2. Arrived([Idle EXCEPT !.op = "start", !.pc = "session", !.user = u, !.game = g,
                             !.sid = s, !.stake = RoundMoney(x), !.count = count])
    BY DEF Arrived, Idle
  <2> QED BY <1>1, <2>1, <2>2
<1>6. ASSUME NEW g \in GridGames, RevealArrives(r, g)
      PROVE  Goal
  <2>1. PICK u \in Users, s \in DOMAIN session, i \in DOMAIN bet, tile \in 0..Tiles(g) :
          Arrive(r, [Idle EXCEPT !.op = "reveal", !.pc = "session", !.user = u, !.game = g,
                                 !.sid = s, !.ref = i, !.tile = tile])
    BY <1>6 DEF RevealArrives
  <2>2. Arrived([Idle EXCEPT !.op = "reveal", !.pc = "session", !.user = u, !.game = g,
                             !.sid = s, !.ref = i, !.tile = tile])
    BY DEF Arrived, Idle
  <2> QED BY <1>1, <2>1, <2>2
<1>7. ASSUME NEW g \in GridGames, CashOutArrives(r, g)
      PROVE  Goal
  <2>1. PICK u \in Users, s \in DOMAIN session, i \in DOMAIN bet :
          Arrive(r, [Idle EXCEPT !.op = "cashOut", !.pc = "session", !.user = u, !.game = g,
                                 !.sid = s, !.ref = i])
    BY <1>7 DEF CashOutArrives
  <2>2. Arrived([Idle EXCEPT !.op = "cashOut", !.pc = "session", !.user = u, !.game = g,
                             !.sid = s, !.ref = i])
    BY DEF Arrived, Idle
  <2> QED BY <1>1, <2>1, <2>2
<1> QED BY <1>2, <1>3, <1>4, <1>5, <1>6, <1>7 DEF Arrivals

Betting == {"placeBet", "start"}
Settling == {"reveal", "cashOut"}
Playing == Betting \cup Settling

\* The request a handler works on, whatever it has read so far.
SameRequest(h, k) ==
  /\ h.op = k.op /\ h.user = k.user /\ h.game = k.game /\ h.sid = k.sid
  /\ h.ref = k.ref /\ h.tile = k.tile

\* What a read does to the handler h that makes it and goes on as k.
Read(h, k) ==
  /\ SameRequest(k, h)
  /\ \/ h.op = "startSession" /\ h.pc = "game" /\ k.pc = "end"
     \/ /\ h.op = "endSession" /\ h.pc = "row" /\ k.pc = "end"
        /\ session[h.sid].user = h.user /\ ~session[h.sid].ended
     \/ /\ h.op = "placeBet" /\ h.pc = "session" /\ k.pc = "wallet"
        /\ SessionIsOpen(h.user, h.sid, "instant") /\ k.stake = h.stake /\ ValidStake(h.stake)
     \/ /\ h.op = "start" /\ h.pc = "session" /\ k.pc = "open" /\ h.game \in GridGames
        /\ SessionIsOpen(h.user, h.sid, h.game) /\ k.stake = h.stake /\ ValidStake(h.stake)
     \/ /\ h.op = "start" /\ h.pc = "open" /\ k.pc = "wallet" /\ k.stake = h.stake
        /\ ~\E i \in DOMAIN bet : /\ bet[i].user = h.user /\ bet[i].game = h.game
                                  /\ bet[i].status = "open"
     \/ h.op \in Betting /\ h.pc = "wallet" /\ k.pc = "nonce" /\ k.stake = h.stake
     \/ /\ h.op \in Betting /\ h.pc = "nonce" /\ k.pc = "control" /\ k.stake = h.stake
        /\ k.nonce = Cardinality({i \in DOMAIN bet : bet[i].user = h.user}) + 1
     \/ /\ h.op = "placeBet" /\ h.pc = "control" /\ k.pc = "debit" /\ k.stake = h.stake
        /\ k.nonce = h.nonce /\ k.payout = RoundMoney(k.stake * k.mult)
     \/ /\ h.op = "start" /\ h.pc = "control" /\ k.pc = "debit" /\ k.stake = h.stake
        /\ k.nonce = h.nonce
     \/ /\ h.op \in Settling /\ h.pc = "session" /\ k.pc = "row"
        /\ h.game \in GridGames /\ SessionIsOpen(h.user, h.sid, h.game)
     \/ /\ h.op = "reveal" /\ h.pc = "row" /\ k.pc \in {"unlock", "raise"} /\ RoundIsOpen(h)
        /\ k.stake = bet[h.ref].stake /\ k.count = bet[h.ref].count
        /\ k.opened = bet[h.ref].opened
     \/ /\ h.op = "cashOut" /\ h.pc = "row" /\ k.pc = "credit" /\ RoundIsOpen(h)
        /\ k.stake = bet[h.ref].stake /\ bet[h.ref].opened # <<>>
        /\ k.payout = RoundMoney(bet[h.ref].stake * bet[h.ref].mult)

\* A read either answers with an error or goes on, and writes no row.
LEMMA Reading ==
  ASSUME HandlerType, NEW r \in Requests, Reads(r)
  PROVE  /\ Others(r) /\ req[r] \in Active
         /\ req'[r] = Idle \/ Read(req[r], req'[r])
         /\ UNCHANGED <<wallet, session, bet, ledger, control, failures>>
<1> DEFINE Tables == UNCHANGED <<wallet, session, bet, ledger, control, failures>>
           Goal == Others(r) /\ (req'[r] = Idle \/ Read(req[r], req'[r])) /\ Tables
<1> USE DEF Step
<1>1. req[r] \in Active
  BY AtBusy, AtActive
     DEF Reads, GetPlayableGame, ReadSession, PlaceBetChecks, ReadWallet, CountBets, RollRound,
         StartChecks, SelectOpenRound, LayGrid, RevealChecks, ReadRound, CashOutChecks,
         ReadRoundToPay, At, Ops
<1> SUFFICES Goal
  BY <1>1
<1>2. \A k : SameCall(k, req[r]) => SameRequest(k, req[r]) /\ k.stake = req[r].stake
  BY DEF SameCall, SameRequest
<1> USE DEF Betting, Settling
<1>3. ASSUME NEW ok, NEW pc, Check(r, ok, pc)
      PROVE  /\ Others(r)
             /\ \/ req'[r] = Idle
                \/ ok /\ SameRequest(req'[r], req[r]) /\ req'[r].pc = pc /\ req'[r].stake = req[r].stake
  BY <1>1, <1>2, <1>3, CheckKeeps
<1>4. CASE GetPlayableGame(r)
  BY <1>3, <1>4 DEF GetPlayableGame, At, Read, rows
<1>5. CASE ReadSession(r)
  BY <1>3, <1>5 DEF ReadSession, At, Read, rows
<1>6. CASE PlaceBetChecks(r)
  BY <1>3, <1>6 DEF PlaceBetChecks, At, Read, rows
<1>7. CASE ReadWallet(r)
  BY <1>3, <1>7 DEF ReadWallet, Read, rows
<1>8. CASE CountBets(r)
  <2> DEFINE n == Cardinality({i \in DOMAIN bet : bet[i].user = req[r].user}) + 1
             h == [req[r] EXCEPT !.pc = "control", !.nonce = n]
  <2>1. req' = [req EXCEPT ![r] = h] /\ Tables
    BY <1>8 DEF CountBets, rows
  <2>2. SameRequest(h, req[r]) /\ h.pc = "control" /\ h.stake = req[r].stake /\ h.nonce = n
    <3> HIDE DEF n
    <3> QED BY <1>1 DEF SameRequest, Active
  <2>3. Read(req[r], h)
    <3> HIDE DEF h
    <3> QED BY <1>8, <2>2 DEF CountBets, Read
  <2> HIDE DEF h
  <2> QED BY <2>1, <2>3 DEF Others, HandlerType
<1>9. CASE RollRound(r)
  <2> DEFINE rule == control[req[r].user]
  <2>1. \E forced, raw :
          req' = [req EXCEPT ![r].pc = "debit", ![r].forced = forced,
                             ![r].metered = Metered(rule), ![r].mult = ApplyWinCap(raw, rule),
                             ![r].payout = RoundMoney(req[r].stake * ApplyWinCap(raw, rule))]
    BY <1>9 DEF RollRound
  <2> PICK forced, raw :
          req' = [req EXCEPT ![r].pc = "debit", ![r].forced = forced,
                             ![r].metered = Metered(rule), ![r].mult = ApplyWinCap(raw, rule),
                             ![r].payout = RoundMoney(req[r].stake * ApplyWinCap(raw, rule))]
    BY <2>1
  <2> DEFINE mult == ApplyWinCap(raw, rule)
             payout == RoundMoney(req[r].stake * mult)
             metered == Metered(rule)
             h == [req[r] EXCEPT !.pc = "debit", !.forced = forced, !.metered = metered,
                                 !.mult = mult, !.payout = payout]
  <2>2. req' = [req EXCEPT ![r] = h]
    OBVIOUS
  <2>3. /\ SameRequest(h, req[r]) /\ h.pc = "debit" /\ h.stake = req[r].stake
        /\ h.nonce = req[r].nonce /\ h.mult = mult /\ h.payout = payout
    <3> HIDE DEF mult, payout, metered
    <3> QED BY <1>1 DEF SameRequest, Active
  <2>4. Read(req[r], h)
    <3>1. h.payout = RoundMoney(h.stake * h.mult)
      BY <2>3
    <3> HIDE DEF h, mult, payout
    <3> QED BY <1>9, <2>3, <3>1 DEF RollRound, At, Read
  <2>5. Tables
    BY <1>9 DEF RollRound, rows
  <2> HIDE DEF h
  <2> QED BY <2>2, <2>4, <2>5 DEF Others, HandlerType
<1>10. ASSUME NEW g \in GridGames, StartChecks(r, g)
       PROVE  Goal
  BY <1>3, <1>10 DEF StartChecks, At, Read, rows
<1>11. ASSUME NEW g \in GridGames, SelectOpenRound(r, g)
       PROVE  Goal
  BY <1>3, <1>11 DEF SelectOpenRound, At, Read, rows
<1>12. ASSUME NEW g \in GridGames, LayGrid(r, g)
       PROVE  Goal
  <2>1. PICK forced, traps :
          req' = [req EXCEPT ![r].pc = "debit", ![r].forced = forced, ![r].traps = traps]
    BY <1>12 DEF LayGrid
  <2> DEFINE h == [req[r] EXCEPT !.pc = "debit", !.forced = forced, !.traps = traps]
  <2>2. req' = [req EXCEPT ![r] = h]
    BY <2>1
  <2>3. /\ SameRequest(h, req[r]) /\ h.pc = "debit" /\ h.stake = req[r].stake
        /\ h.nonce = req[r].nonce
    BY <1>1 DEF SameRequest, Active
  <2>4. Tables
    BY <1>12 DEF LayGrid, rows
  <2> HIDE DEF h
  <2>5. Read(req[r], h)
    BY <1>12, <2>3 DEF LayGrid, At, Read
  <2> QED BY <2>2, <2>4, <2>5 DEF Others, HandlerType
<1>13. ASSUME NEW g \in GridGames, RevealChecks(r, g)
       PROVE  Goal
  BY <1>3, <1>13 DEF RevealChecks, At, Read, rows
<1>14. ASSUME NEW g \in GridGames, CashOutChecks(r, g)
       PROVE  Goal
  BY <1>3, <1>14 DEF CashOutChecks, At, Read, rows
<1>15. ASSUME NEW g \in GridGames, ReadRound(r, g)
       PROVE  Goal
  <2>1. CASE Finish(r)
    BY <1>15, <2>1, FinishKeeps DEF ReadRound, rows
  <2>2. CASE ~Finish(r)
    <3> DEFINE row == bet[req[r].ref]
    <3>1. RoundIsOpen(req[r])
      BY <1>15, <2>2 DEF ReadRound
    <3>2. PICK pc \in {"unlock", "raise"} :
            req' = [req EXCEPT ![r].pc = pc, ![r].stake = row.stake, ![r].count = row.count,
                               ![r].opened = row.opened]
      BY <1>15, <2>2 DEF ReadRound
    <3> DEFINE h == [req[r] EXCEPT !.pc = pc, !.stake = row.stake, !.count = row.count,
                                   !.opened = row.opened]
    <3>3. req' = [req EXCEPT ![r] = h]
      BY <3>2
    <3>4. /\ SameRequest(h, req[r]) /\ h.pc = pc /\ h.stake = row.stake
          /\ h.count = row.count /\ h.opened = row.opened
      BY <1>1 DEF SameRequest, Active
    <3>5. Tables
      BY <1>15 DEF ReadRound, rows
    <3> HIDE DEF h
    <3>6. Read(req[r], h)
      BY <1>15, <3>1, <3>2, <3>4 DEF ReadRound, At, Read
    <3> QED BY <3>3, <3>5, <3>6 DEF Others, HandlerType
  <2> QED BY <2>1, <2>2
<1>16. ASSUME NEW g \in GridGames, ReadRoundToPay(r, g)
       PROVE  Goal
  <2>1. CASE Finish(r)
    BY <1>16, <2>1, FinishKeeps DEF ReadRoundToPay, rows
  <2>2. CASE ~Finish(r)
    <3> DEFINE row == bet[req[r].ref]
               payout == RoundMoney(row.stake * row.mult)
               h == [req[r] EXCEPT !.pc = "credit", !.stake = row.stake, !.payout = payout]
    <3>1. /\ RoundIsOpen(req[r]) /\ row.opened # <<>>
          /\ req' = [req EXCEPT ![r] = h] /\ Tables
      BY <1>16, <2>2 DEF ReadRoundToPay, rows
    <3>2. /\ SameRequest(h, req[r]) /\ h.pc = "credit" /\ h.stake = row.stake
          /\ h.payout = payout
      <4> HIDE DEF payout
      <4> QED BY <1>1 DEF SameRequest, Active
    <3>3. Read(req[r], h)
      <4> HIDE DEF h
      <4> QED BY <1>16, <3>1, <3>2 DEF ReadRoundToPay, At, Read
    <3> HIDE DEF h
    <3> QED BY <3>1, <3>3 DEF Others, HandlerType
  <2> QED BY <2>1, <2>2
<1> QED
  BY <1>4, <1>5, <1>6, <1>7, <1>8, <1>9, <1>10, <1>11, <1>12, <1>13, <1>14, <1>15, <1>16
     DEF Reads

GoesOn(r, pc) == SameCall(req'[r], req[r]) /\ req'[r].pc = pc

\* The bet row is in and its reference known.
Inserted(r) ==
  LET h == req[r]
      k == req'[r]
  IN /\ k.op = h.op /\ k.user = h.user /\ k.game = h.game /\ k.sid = h.sid
     /\ k.stake = h.stake /\ k.payout = h.payout /\ k.mult = h.mult /\ k.metered = h.metered
     /\ k.pc = "ledger" /\ k.ref = Len(bet) + 1

\* The handlers of the sessions, when they write.
LEMMA SessionWriting ==
  ASSUME HandlerType, NEW r \in Requests, SessionWrites(r)
  PROVE  /\ req[r] \in Active /\ Others(r)
         /\ EndOpenSessions(r) => GoesOn(r, "insert")
         /\ InsertSession(r) \/ MarkEnded(r) => req'[r] = Idle
         /\ UNCHANGED <<wallet, bet, ledger, control, failures>>
<1>1. req[r] \in Active
  BY AtBusy, AtActive DEF SessionWrites, EndOpenSessions, InsertSession, MarkEnded, At, Ops
<1>2. CASE EndOpenSessions(r)
  <2>1. ~InsertSession(r) /\ ~MarkEnded(r)
    BY <1>2 DEF EndOpenSessions, InsertSession, MarkEnded, At
  <2> QED BY <1>1, <1>2, <2>1, GotoKeeps DEF EndOpenSessions, GoesOn
<1>3. CASE InsertSession(r) \/ MarkEnded(r)
  <2>1. ~EndOpenSessions(r)
    BY <1>3 DEF EndOpenSessions, InsertSession, MarkEnded, At
  <2> QED BY <1>1, <1>3, <2>1, FinishKeeps DEF InsertSession, MarkEnded
<1> QED BY <1>2, <1>3 DEF SessionWrites

\* Inserting a bet gives the handler its reference.
LEMMA InsertingKeeps ==
  ASSUME HandlerType, NEW r \in Requests, req[r] \in Active,
         req' = [req EXCEPT ![r].pc = "ledger", ![r].ref = Len(bet) + 1]
  PROVE  Others(r) /\ Inserted(r)
<1> DEFINE n == Len(bet) + 1
           h == [req[r] EXCEPT !.pc = "ledger", !.ref = n]
<1>1. req' = [req EXCEPT ![r] = h]
  OBVIOUS
<1>2. /\ h.op = req[r].op /\ h.user = req[r].user /\ h.game = req[r].game
      /\ h.sid = req[r].sid /\ h.stake = req[r].stake /\ h.payout = req[r].payout
      /\ h.mult = req[r].mult /\ h.metered = req[r].metered /\ h.pc = "ledger" /\ h.ref = n
  <2> HIDE DEF n
  <2> QED BY DEF Active
<1> HIDE DEF h
<1> QED BY <1>1, <1>2 DEF Others, Inserted, HandlerType

\* The handlers of the instant games, when they write.
LEMMA BetWriting ==
  ASSUME HandlerType, NEW r \in Requests, BetWrites(r)
  PROVE  /\ req[r] \in Active /\ Others(r) /\ UNCHANGED failures
         /\ SettleWallet(r) => \/ req'[r] = Idle /\ UNCHANGED wallet
                               \/ /\ GoesOn(r, "insert") /\ wallet[req[r].user].balance >= req[r].stake
                                  /\ Debit(req[r].user, req[r].stake, req[r].payout, 0)
         /\ InsertSettledBet(r) => Inserted(r)
         /\ InsertBetLedger(r) => GoesOn(r, "bump")
         /\ BumpSettledBet(r) => req'[r] = Idle \/ GoesOn(r, "consume")
         /\ ConsumeForcedRound(r) => req'[r] = Idle
<1>1. req[r] \in Active
  BY AtBusy, AtActive
     DEF BetWrites, SettleWallet, InsertSettledBet, InsertBetLedger, BumpSettledBet,
         ConsumeForcedRound, At, Ops
<1>2. SettleWallet(r) =>
        /\ Others(r) /\ UNCHANGED failures
        /\ \/ req'[r] = Idle /\ UNCHANGED wallet
           \/ /\ GoesOn(r, "insert") /\ wallet[req[r].user].balance >= req[r].stake
              /\ Debit(req[r].user, req[r].stake, req[r].payout, 0)
  BY <1>1, GotoKeeps, FinishKeeps DEF SettleWallet, GoesOn
<1>3. InsertSettledBet(r) => Others(r) /\ Inserted(r) /\ UNCHANGED failures
  BY <1>1, InsertingKeeps DEF InsertSettledBet
<1>4. InsertBetLedger(r) => Others(r) /\ GoesOn(r, "bump") /\ UNCHANGED failures
  BY <1>1, GotoKeeps DEF InsertBetLedger, GoesOn
<1>5. BumpSettledBet(r) =>
        Others(r) /\ (req'[r] = Idle \/ GoesOn(r, "consume")) /\ UNCHANGED failures
  BY <1>1, GotoKeeps, FinishKeeps DEF BumpSettledBet, GoesOn
<1>6. ConsumeForcedRound(r) => Others(r) /\ req'[r] = Idle /\ UNCHANGED failures
  BY FinishKeeps DEF ConsumeForcedRound
<1>7. Others(r) /\ UNCHANGED failures
  BY <1>2, <1>3, <1>4, <1>5, <1>6 DEF BetWrites
<1> QED BY <1>1, <1>2, <1>3, <1>4, <1>5, <1>6, <1>7

\* The handlers of Mines and Towers, when they write.
LEMMA RoundWriting ==
  ASSUME HandlerType, NEW r \in Requests, NEW g \in GridGames, RoundWrites(r, g)
  PROVE  /\ req[r] \in Active /\ req[r].game = g /\ Others(r) /\ UNCHANGED failures
         /\ HoldStake(r, g) => \/ req'[r] = Idle /\ UNCHANGED wallet
                               \/ /\ GoesOn(r, "insert") /\ wallet[req[r].user].balance >= req[r].stake
                                  /\ Debit(req[r].user, req[r].stake, 0, req[r].stake)
         /\ InsertOpenRound(r, g) => Inserted(r)
         /\ InsertStakeRow(r, g) => GoesOn(r, "bump")
         /\ ReleaseStake(r, g) => GoesOn(r, "lost")
         /\ CreditPayout(r, g) => GoesOn(r, "settle")
         /\ CloseCashedOutRound(r, g) => GoesOn(r, "ledger")
         /\ InsertPayoutRow(r, g) => GoesOn(r, "bump")
         /\ BumpStartedRound(r, g) \/ CloseLostRound(r, g) \/ BumpCashedOutRound(r, g)
              => req'[r] = Idle
         /\ RaiseMultiplier(r, g)
              => \/ req'[r] = Idle
                 \/ /\ req'[r].op = "cashOut" /\ req'[r].pc = "session"
                    /\ req'[r].user = req[r].user /\ req'[r].game = g
                    /\ req'[r].sid = req[r].sid /\ req'[r].ref = req[r].ref
<1> USE DEF Step
<1>1. req[r] \in Active /\ req[r].game = g
  BY AtBusy, AtActive
     DEF RoundWrites, HoldStake, InsertOpenRound, InsertStakeRow, BumpStartedRound, ReleaseStake,
         CloseLostRound, RaiseMultiplier, CreditPayout, CloseCashedOutRound, InsertPayoutRow,
         BumpCashedOutRound, At, Ops
<1>2. /\ HoldStake(r, g) => At(r, "start", "debit")
      /\ InsertOpenRound(r, g) => At(r, "start", "insert")
      /\ InsertStakeRow(r, g) => At(r, "start", "ledger")
      /\ BumpStartedRound(r, g) => At(r, "start", "bump")
      /\ ReleaseStake(r, g) => At(r, "reveal", "unlock")
      /\ CloseLostRound(r, g) => At(r, "reveal", "lost")
      /\ RaiseMultiplier(r, g) => At(r, "reveal", "raise")
      /\ CreditPayout(r, g) => At(r, "cashOut", "credit")
      /\ CloseCashedOutRound(r, g) => At(r, "cashOut", "settle")
      /\ InsertPayoutRow(r, g) => At(r, "cashOut", "ledger")
      /\ BumpCashedOutRound(r, g) => At(r, "cashOut", "bump")
  BY DEF HoldStake, InsertOpenRound, InsertStakeRow, BumpStartedRound, ReleaseStake,
         CloseLostRound, RaiseMultiplier, CreditPayout, CloseCashedOutRound, InsertPayoutRow,
         BumpCashedOutRound
<1> DEFINE Goes(pc) == Others(r) /\ GoesOn(r, pc) /\ UNCHANGED failures
           Answers == Others(r) /\ req'[r] = Idle /\ UNCHANGED failures
<1>3. HoldStake(r, g) =>
        /\ Others(r) /\ UNCHANGED failures
        /\ \/ req'[r] = Idle /\ UNCHANGED wallet
           \/ /\ GoesOn(r, "insert") /\ wallet[req[r].user].balance >= req[r].stake
              /\ Debit(req[r].user, req[r].stake, 0, req[r].stake)
  BY <1>1, GotoKeeps, FinishKeeps DEF HoldStake, GoesOn
<1>4. InsertOpenRound(r, g) => Others(r) /\ Inserted(r) /\ UNCHANGED failures
  BY <1>1, InsertingKeeps DEF InsertOpenRound
<1>5. InsertStakeRow(r, g) => Goes("bump")
  BY <1>1, GotoKeeps DEF InsertStakeRow, GoesOn
<1>6. ReleaseStake(r, g) => Goes("lost")
  BY <1>1, GotoKeeps DEF ReleaseStake, GoesOn
<1>7. CreditPayout(r, g) => Goes("settle")
  BY <1>1, GotoKeeps DEF CreditPayout, GoesOn
<1>8. CloseCashedOutRound(r, g) => Goes("ledger")
  BY <1>1, GotoKeeps DEF CloseCashedOutRound, GoesOn
<1>9. InsertPayoutRow(r, g) => Goes("bump")
  BY <1>1, GotoKeeps DEF InsertPayoutRow, GoesOn
<1>10. BumpStartedRound(r, g) \/ CloseLostRound(r, g) \/ BumpCashedOutRound(r, g) => Answers
  BY FinishKeeps DEF BumpStartedRound, CloseLostRound, BumpCashedOutRound
<1>11. RaiseMultiplier(r, g) =>
         /\ Others(r) /\ UNCHANGED failures
         /\ \/ req'[r] = Idle
            \/ /\ req'[r].op = "cashOut" /\ req'[r].pc = "session"
               /\ req'[r].user = req[r].user /\ req'[r].game = g
               /\ req'[r].sid = req[r].sid /\ req'[r].ref = req[r].ref
  <2>1. ASSUME RaiseMultiplier(r, g) PROVE UNCHANGED failures
    BY <2>1 DEF RaiseMultiplier
  <2> DEFINE h == [Idle EXCEPT !.op = "cashOut", !.pc = "session", !.user = req[r].user,
                               !.game = g, !.sid = req[r].sid, !.ref = req[r].ref]
  <2>2. /\ h.op = "cashOut" /\ h.pc = "session" /\ h.user = req[r].user
        /\ h.game = g /\ h.sid = req[r].sid /\ h.ref = req[r].ref
    BY DEF Idle
  <2>3. RaiseMultiplier(r, g) => req' = [req EXCEPT ![r] = h] \/ Finish(r)
    BY DEF RaiseMultiplier
  <2> HIDE DEF h
  <2> QED BY <2>1, <2>2, <2>3, FinishKeeps DEF Others, HandlerType
<1> HIDE DEF Goes, Answers
<1>12. RoundWrites(r, g) => Others(r) /\ UNCHANGED failures
  BY <1>3, <1>4, <1>5, <1>6, <1>7, <1>8, <1>9, <1>10, <1>11 DEF RoundWrites, Goes, Answers
<1> QED
  BY <1>1, <1>3, <1>4, <1>5, <1>6, <1>7, <1>8, <1>9, <1>10, <1>11, <1>12 DEF Goes, Answers

\* A handler that writes and goes on.
Goes(r) ==
  \/ EndOpenSessions(r) /\ GoesOn(r, "insert")
  \/ SettleWallet(r) /\ GoesOn(r, "insert")
  \/ InsertSettledBet(r) /\ Inserted(r)
  \/ InsertBetLedger(r) /\ GoesOn(r, "bump")
  \/ BumpSettledBet(r) /\ GoesOn(r, "consume")
  \/ \E g \in GridGames :
       \/ HoldStake(r, g) /\ GoesOn(r, "insert")
       \/ InsertOpenRound(r, g) /\ Inserted(r)
       \/ InsertStakeRow(r, g) /\ GoesOn(r, "bump")
       \/ ReleaseStake(r, g) /\ GoesOn(r, "lost")
       \/ CreditPayout(r, g) /\ GoesOn(r, "settle")
       \/ CloseCashedOutRound(r, g) /\ GoesOn(r, "ledger")
       \/ InsertPayoutRow(r, g) /\ GoesOn(r, "bump")
       \/ /\ RaiseMultiplier(r, g)
          /\ req'[r].op = "cashOut" /\ req'[r].pc = "session"
          /\ req'[r].user = req[r].user /\ req'[r].game = g
          /\ req'[r].sid = req[r].sid /\ req'[r].ref = req[r].ref

\* One handler moves at a time.
LEMMA StepActor ==
  ASSUME HandlerType, [Next]_vars, NEW r \in Requests, req'[r] # req[r]
  PROVE  Others(r)
<1>1. CASE Elsewhere
  BY <1>1 DEF Elsewhere
<1>2. ASSUME NEW q \in Requests,
             \/ Arrivals(q) \/ Reads(q) \/ Abort(q) \/ SessionWrites(q) \/ BetWrites(q)
             \/ \E g \in GridGames : RoundWrites(q, g)
      PROVE  Others(r)
  <2>1. Others(q)
    BY <1>2, Arriving, Reading, SessionWriting, BetWriting, RoundWriting, FinishKeeps DEF Abort
  <2>2. q = r
    BY <2>1 DEF Others
  <2> QED BY <2>1, <2>2
<1> QED BY <1>1, <1>2, StepCases

\* What a step may do to one handler: leave it, free its slot, or take it on.
LEMMA HandlerStep ==
  ASSUME HandlerType, [Next]_vars, NEW q \in Requests
  PROVE  \/ req'[q] = req[q] \/ req'[q] = Idle
         \/ Arrivals(q) /\ req[q] = Idle /\ Arrived(req'[q])
         \/ Reads(q) /\ Read(req[q], req'[q])
         \/ Goes(q)
<1>1. CASE Elsewhere
  BY <1>1 DEF Elsewhere
<1>2. ASSUME NEW r \in Requests, Others(r), r # q
      PROVE  req'[q] = req[q]
  BY <1>2 DEF Others
<1>3. CASE SessionWrites(q)
  BY <1>3, SessionWriting DEF SessionWrites, Goes
<1>4. CASE BetWrites(q)
  BY <1>4, BetWriting DEF BetWrites, Goes
<1>5. ASSUME NEW g \in GridGames, RoundWrites(q, g)
      PROVE  req'[q] = Idle \/ Goes(q)
  BY <1>5, RoundWriting DEF RoundWrites, Goes
<1>6. CASE Abort(q)
  BY <1>6, FinishKeeps DEF Abort
<1>7. ASSUME NEW r \in Requests,
             \/ Arrivals(r) \/ Reads(r) \/ Abort(r) \/ SessionWrites(r) \/ BetWrites(r)
             \/ \E g \in GridGames : RoundWrites(r, g)
      PROVE  Others(r)
  BY <1>7, Arriving, Reading, SessionWriting, BetWriting, RoundWriting, FinishKeeps DEF Abort
<1>8. ASSUME Arrivals(q) \/ Reads(q)
      PROVE  \/ req'[q] = Idle
             \/ Arrivals(q) /\ req[q] = Idle /\ Arrived(req'[q])
             \/ Reads(q) /\ Read(req[q], req'[q])
  BY <1>8, Arriving, Reading
<1> QED BY <1>1, <1>2, <1>3, <1>4, <1>5, <1>6, <1>7, <1>8, StepCases

---------------------------------------------------------------------------
(* The tables, row by row *)

\* What an insert leaves.
LEMMA Appended ==
  ASSUME NEW S, NEW s \in Seq(S), NEW x \in S
  PROVE  /\ Len(s) + 1 \notin DOMAIN s /\ Len(s) + 1 \in Nat
         /\ DOMAIN Append(s, x) = DOMAIN s \cup {Len(s) + 1}
         /\ \A i \in DOMAIN s : Append(s, x)[i] = s[i]
         /\ Append(s, x)[Len(s) + 1] = x
<1>1. Len(s) \in Nat /\ DOMAIN s = 1..Len(s)
  BY LenProperties
<1>2. DOMAIN Append(s, x) = 1..Len(s) + 1
  BY AppendProperties, LenProperties
<1>3. 1..Len(s) + 1 = 1..Len(s) \cup {Len(s) + 1}
  BY <1>1
<1>4. \A i \in 1..Len(s) : Append(s, x)[i] = s[i]
  BY AppendProperties
<1>5. Append(s, x)[Len(s) + 1] = x
  BY AppendProperties
<1> QED BY <1>1, <1>2, <1>3, <1>4, <1>5

\* A session keeps its player and game; only its end and its counters move.
SameSession(x, y) == x.user = y.user /\ x.game = y.game

\* A bet keeps what it was placed with; its status, picks, multiplier and payout move.
SameBet(x, y) ==
  /\ x.user = y.user /\ x.game = y.game /\ x.sid = y.sid /\ x.stake = y.stake
  /\ x.count = y.count /\ x.traps = y.traps /\ x.nonce = y.nonce /\ x.controlled = y.controlled

\* The rows of sessions after a counter was bumped.
LEMMA BumpedRow ==
  ASSUME SessionType, NEW s, NEW staked, NEW won, BumpSession(s, staked, won)
  PROVE  /\ DOMAIN session' = DOMAIN session
         /\ \A t \in DOMAIN session : /\ t # s => session'[t] = session[t]
                                      /\ SameSession(session'[t], session[t])
                                      /\ session'[t].ended = session[t].ended
         /\ s \in DOMAIN session => /\ session'[s].staked = session[s].staked + staked
                                   /\ session'[s].won = session[s].won + won
<1> DEFINE a == session[s].betCount + 1
           b == session[s].staked + staked
           c == session[s].won + won
           x == [session[s] EXCEPT !.betCount = a, !.staked = b, !.won = c]
<1>1. session' = [session EXCEPT ![s] = x]
  BY DEF BumpSession
<1>2. s \in DOMAIN session => /\ SameSession(x, session[s]) /\ x.ended = session[s].ended
                             /\ x.staked = b /\ x.won = c
  <2>1. s \in DOMAIN session => session[s] \in SessionRows
    BY ElementType DEF SessionType
  <2> HIDE DEF a, b, c
  <2> QED BY <2>1 DEF SessionRows, SameSession
<1> HIDE DEF x
<1> QED BY <1>1, <1>2 DEF SameSession

\* The rows of sessions after a session was started or ended.
LEMMA SessionRowsWritten ==
  ASSUME SessionType, HandlerType, NEW r \in Requests
  PROVE  /\ EndOpenSessions(r) =>
              /\ DOMAIN session' = DOMAIN session
              /\ \A t \in DOMAIN session :
                   /\ SameSession(session'[t], session[t])
                   /\ session'[t].staked = session[t].staked /\ session'[t].won = session[t].won
                   /\ session'[t].ended = \/ session[t].ended
                                          \/ /\ session[t].user = req[r].user
                                             /\ session[t].game = req[r].game
                   /\ session[t].ended => session'[t] = session[t]
         /\ InsertSession(r) =>
              /\ Len(session) + 1 \notin DOMAIN session
              /\ DOMAIN session' = DOMAIN session \cup {Len(session) + 1}
              /\ \A t \in DOMAIN session : session'[t] = session[t]
              /\ session'[Len(session) + 1] =
                   [user |-> req[r].user, game |-> req[r].game, ended |-> FALSE,
                    betCount |-> 0, staked |-> 0, won |-> 0]
         /\ MarkEnded(r) =>
              /\ DOMAIN session' = DOMAIN session
              /\ \A t \in DOMAIN session :
                   /\ t # req[r].sid => session'[t] = session[t]
                   /\ SameSession(session'[t], session[t])
                   /\ session'[t].staked = session[t].staked /\ session'[t].won = session[t].won
                   /\ session'[t].ended = (session[t].ended \/ t = req[r].sid)
                   /\ session[t].ended => session'[t] = session[t]
<1>1. \A t \in DOMAIN session : session[t] \in SessionRows
  BY ElementType DEF SessionType
<1>2. ASSUME EndOpenSessions(r), NEW t \in DOMAIN session
      PROVE  /\ SameSession(session'[t], session[t])
             /\ session'[t].staked = session[t].staked /\ session'[t].won = session[t].won
             /\ session'[t].ended = \/ session[t].ended
                                    \/ /\ session[t].user = req[r].user
                                       /\ session[t].game = req[r].game
             /\ session[t].ended => session'[t] = session[t]
  <2> DEFINE e == session[t].ended \/ (session[t].user = req[r].user /\ session[t].game = req[r].game)
  <2>1. session'[t] = [session[t] EXCEPT !.ended = e]
    BY <1>2 DEF EndOpenSessions
  <2>2. session[t] \in SessionRows /\ e \in BOOLEAN
    BY <1>1 DEF SessionRows
  <2>3. session[t].ended => (e <=> session[t].ended)
    OBVIOUS
  <2> QED BY <2>1, <2>2, <2>3 DEF SessionRows, SameSession
<1>3. EndOpenSessions(r) => DOMAIN session' = DOMAIN session
  BY DEF EndOpenSessions
<1>4. ASSUME InsertSession(r)
      PROVE  /\ Len(session) + 1 \notin DOMAIN session
             /\ DOMAIN session' = DOMAIN session \cup {Len(session) + 1}
             /\ \A t \in DOMAIN session : session'[t] = session[t]
             /\ session'[Len(session) + 1] =
                  [user |-> req[r].user, game |-> req[r].game, ended |-> FALSE,
                   betCount |-> 0, staked |-> 0, won |-> 0]
  <2> DEFINE row == [user |-> req[r].user, game |-> req[r].game, ended |-> FALSE,
                     betCount |-> 0, staked |-> 0, won |-> 0]
  <2>1. session' = Append(session, row)
    BY <1>4 DEF InsertSession
  <2>2. req[r] \in Active
    BY <1>4, AtBusy, AtActive DEF InsertSession, At, Ops
  <2>3. row \in SessionRows
    BY <2>2 DEF Active, SessionRows
  <2> HIDE DEF row
  <2>4. session'[Len(session) + 1] = row
    BY <2>1, <2>3, Appended DEF SessionType
  <2> QED BY <2>1, <2>3, <2>4, Appended DEF SessionType, row
<1>5. ASSUME MarkEnded(r)
      PROVE  /\ DOMAIN session' = DOMAIN session
             /\ \A t \in DOMAIN session :
                  /\ t # req[r].sid => session'[t] = session[t]
                  /\ SameSession(session'[t], session[t])
                  /\ session'[t].staked = session[t].staked /\ session'[t].won = session[t].won
                  /\ session'[t].ended = (session[t].ended \/ t = req[r].sid)
                  /\ session[t].ended => session'[t] = session[t]
  <2> DEFINE s == req[r].sid
             x == [session[s] EXCEPT !.ended = TRUE]
  <2>1. session' = [session EXCEPT ![s] = x]
    BY <1>5 DEF MarkEnded
  <2>2. s \in DOMAIN session =>
          /\ SameSession(x, session[s]) /\ x.staked = session[s].staked
          /\ x.won = session[s].won /\ x.ended = TRUE
          /\ session[s].ended => x = session[s]
    BY <1>1 DEF SessionRows, SameSession
  <2>3. \A t \in DOMAIN session : session[t].ended \in BOOLEAN
    BY <1>1 DEF SessionRows
  <2> HIDE DEF x
  <2> QED BY <2>1, <2>2, <2>3 DEF SameSession
<1> QED BY <1>2, <1>3, <1>4, <1>5

\* The row a handler inserts, and the empty ledger entry that comes with it.
NewRow(r) ==
  LET n == Len(bet) + 1
      h == req[r]
  IN /\ n \notin DOMAIN bet /\ n \in Nat
     /\ DOMAIN ledger = DOMAIN bet
     /\ DOMAIN bet' = DOMAIN bet \cup {n} /\ DOMAIN ledger' = DOMAIN ledger \cup {n}
     /\ \A i \in DOMAIN bet : bet'[i] = bet[i] /\ ledger'[i] = ledger[i]
     /\ ledger'[n] = [staked |-> 0, paid |-> 0, payouts |-> 0]
     /\ bet'[n].user = h.user /\ bet'[n].sid = h.sid /\ bet'[n].stake = h.stake
     /\ bet'[n].nonce = h.nonce /\ bet'[n].opened = <<>>

\* Every bet has its ledger entry.
LEMMA LedgerDomain == ASSUME BetType, LedgerType PROVE DOMAIN ledger = DOMAIN bet
BY LenProperties DEF BetType, LedgerType

\* An inserted row is the next one, in both tables.
LEMMA InsertedRow ==
  ASSUME BetType, LedgerType, NEW row \in BetRows, InsertBet(row)
  PROVE  LET n == Len(bet) + 1
         IN /\ n \notin DOMAIN bet /\ n \in Nat
            /\ DOMAIN ledger = DOMAIN bet
            /\ DOMAIN bet' = DOMAIN bet \cup {n} /\ DOMAIN ledger' = DOMAIN ledger \cup {n}
            /\ \A i \in DOMAIN bet : bet'[i] = bet[i] /\ ledger'[i] = ledger[i]
            /\ ledger'[n] = [staked |-> 0, paid |-> 0, payouts |-> 0] /\ bet'[n] = row
<1> DEFINE empty == [staked |-> 0, paid |-> 0, payouts |-> 0]
<1>1. empty \in LedgerRows
  BY DEF LedgerRows
<1>2. DOMAIN ledger = DOMAIN bet /\ Len(ledger) = Len(bet)
  BY LedgerDomain DEF LedgerType
<1>3. bet' = Append(bet, row) /\ ledger' = Append(ledger, empty)
  BY DEF InsertBet
<1>4. /\ Len(bet) + 1 \notin DOMAIN bet /\ Len(bet) + 1 \in Nat
      /\ DOMAIN bet' = DOMAIN bet \cup {Len(bet) + 1}
      /\ \A i \in DOMAIN bet : bet'[i] = bet[i]
      /\ bet'[Len(bet) + 1] = row
  BY <1>3, Appended DEF BetType
<1>5. /\ DOMAIN ledger' = DOMAIN ledger \cup {Len(ledger) + 1}
      /\ \A i \in DOMAIN ledger : ledger'[i] = ledger[i]
      /\ ledger'[Len(ledger) + 1] = empty
  <2> HIDE DEF empty
  <2> QED BY <1>1, <1>3, Appended DEF LedgerType
<1> QED BY <1>2, <1>4, <1>5

\* A settled bet arrives with its result, a round open and unpaid.
LEMMA BetInserted ==
  ASSUME TypeOK, NEW r \in Requests
  PROVE  /\ InsertSettledBet(r) =>
              /\ NewRow(r)
              /\ LET row == bet'[Len(bet) + 1]
                 IN /\ row.game = "instant" /\ row.mult = req[r].mult
                    /\ row.payout = req[r].payout
                    /\ row.status = IF req[r].mult > 0 THEN "won" ELSE "lost"
         /\ \A g \in GridGames : InsertOpenRound(r, g) =>
              /\ NewRow(r)
              /\ LET row == bet'[Len(bet) + 1]
                 IN /\ row.game = g /\ row.mult = 0 /\ row.payout = 0 /\ row.status = "open"
                    /\ row.count = req[r].count /\ row.traps = req[r].traps
<1> USE DEF TypeOK
<1>1. ASSUME InsertSettledBet(r)
      PROVE  /\ NewRow(r)
             /\ LET row == bet'[Len(bet) + 1]
                IN /\ row.game = "instant" /\ row.mult = req[r].mult
                   /\ row.payout = req[r].payout
                   /\ row.status = IF req[r].mult > 0 THEN "won" ELSE "lost"
  <2> DEFINE status == IF req[r].mult > 0 THEN "won" ELSE "lost"
             controlled == req[r].forced # "none"
             row == [user |-> req[r].user, game |-> "instant", sid |-> req[r].sid,
                     stake |-> req[r].stake, mult |-> req[r].mult, payout |-> req[r].payout,
                     status |-> status, count |-> 0, traps |-> {}, opened |-> <<>>,
                     nonce |-> req[r].nonce, controlled |-> controlled]
  <2>1. InsertBet(row)
    BY <1>1 DEF InsertSettledBet
  <2>2. req[r] \in Active
    BY <1>1, AtBusy, AtActive DEF InsertSettledBet, At, Ops
  <2>3. row \in BetRows
    <3>1. status \in {"won", "lost"} /\ controlled \in BOOLEAN
      OBVIOUS
    <3> HIDE DEF status, controlled
    <3> QED BY <2>2, <3>1 DEF BetRows, Active, Games
  <2>4. /\ row.user = req[r].user /\ row.game = "instant" /\ row.sid = req[r].sid
        /\ row.stake = req[r].stake /\ row.mult = req[r].mult /\ row.payout = req[r].payout
        /\ row.status = status /\ row.nonce = req[r].nonce /\ row.opened = <<>>
    OBVIOUS
  <2> HIDE DEF row
  <2>5. LET n == Len(bet) + 1
        IN /\ n \notin DOMAIN bet /\ n \in Nat
           /\ DOMAIN ledger = DOMAIN bet
           /\ DOMAIN bet' = DOMAIN bet \cup {n} /\ DOMAIN ledger' = DOMAIN ledger \cup {n}
           /\ \A i \in DOMAIN bet : bet'[i] = bet[i] /\ ledger'[i] = ledger[i]
           /\ ledger'[n] = [staked |-> 0, paid |-> 0, payouts |-> 0] /\ bet'[n] = row
    BY <2>1, <2>3, InsertedRow
  <2> QED BY <2>4, <2>5 DEF NewRow
<1>2. ASSUME NEW g \in GridGames, InsertOpenRound(r, g)
      PROVE  /\ NewRow(r)
             /\ LET row == bet'[Len(bet) + 1]
                IN /\ row.game = g /\ row.mult = 0 /\ row.payout = 0 /\ row.status = "open"
                   /\ row.count = req[r].count /\ row.traps = req[r].traps
  <2> DEFINE controlled == req[r].forced # "none"
             row == [user |-> req[r].user, game |-> g, sid |-> req[r].sid,
                     stake |-> req[r].stake, mult |-> 0, payout |-> 0, status |-> "open",
                     count |-> req[r].count, traps |-> req[r].traps, opened |-> <<>>,
                     nonce |-> req[r].nonce, controlled |-> controlled]
  <2>1. InsertBet(row)
    BY <1>2 DEF InsertOpenRound
  <2>2. req[r] \in Active
    BY <1>2, AtBusy, AtActive DEF InsertOpenRound, Step, At, Ops
  <2>3. row \in BetRows
    <3>1. controlled \in BOOLEAN /\ g \in Games
      BY DEF GridGames, Games
    <3> HIDE DEF controlled
    <3> QED BY <2>2, <3>1 DEF BetRows, Active
  <2>4. /\ row.user = req[r].user /\ row.game = g /\ row.sid = req[r].sid
        /\ row.stake = req[r].stake /\ row.mult = 0 /\ row.payout = 0
        /\ row.status = "open" /\ row.nonce = req[r].nonce /\ row.opened = <<>>
        /\ row.count = req[r].count /\ row.traps = req[r].traps
    OBVIOUS
  <2> HIDE DEF row
  <2>5. LET n == Len(bet) + 1
        IN /\ n \notin DOMAIN bet /\ n \in Nat
           /\ DOMAIN ledger = DOMAIN bet
           /\ DOMAIN bet' = DOMAIN bet \cup {n} /\ DOMAIN ledger' = DOMAIN ledger \cup {n}
           /\ \A i \in DOMAIN bet : bet'[i] = bet[i] /\ ledger'[i] = ledger[i]
           /\ ledger'[n] = [staked |-> 0, paid |-> 0, payouts |-> 0] /\ bet'[n] = row
    BY <2>1, <2>3, InsertedRow
  <2> QED BY <2>4, <2>5 DEF NewRow
<1> QED BY <1>1, <1>2

\* What reveal and cashOut write over a bet's row.
BetUpdated(i) ==
  /\ DOMAIN bet' = DOMAIN bet
  /\ \A j \in DOMAIN bet : (j # i => bet'[j] = bet[j]) /\ SameBet(bet'[j], bet[j])

\* The rows of bets after a reveal or a cash-out wrote one.
LEMMA BetRowsWritten ==
  ASSUME TypeOK, NEW r \in Requests, NEW g \in GridGames
  PROVE  LET i == req[r].ref
             row == bet'[i]
             opened == Append(req[r].opened, req[r].tile)
         IN /\ CloseLostRound(r, g) =>
                 /\ BetUpdated(i)
                 /\ i \in DOMAIN bet => /\ row.status = "lost" /\ row.mult = 0 /\ row.payout = 0
                                       /\ row.opened = opened
            /\ RaiseMultiplier(r, g) =>
                 /\ BetUpdated(i)
                 /\ i \in DOMAIN bet => /\ row.status = bet[i].status /\ row.payout = bet[i].payout
                                       /\ row.opened = opened
                                       /\ row.mult = Multiplier(g, req[r].count, Len(opened))
            /\ CloseCashedOutRound(r, g) =>
                 /\ BetUpdated(i)
                 /\ i \in DOMAIN bet => /\ row.status = "cashed_out" /\ row.payout = req[r].payout
                                       /\ row.mult = bet[i].mult /\ row.opened = bet[i].opened
<1> DEFINE i == req[r].ref
           opened == Append(req[r].opened, req[r].tile)
           mult == Multiplier(g, req[r].count, Len(opened))
           x == [bet[i] EXCEPT !.status = "lost", !.mult = 0, !.payout = 0, !.opened = opened]
           y == [bet[i] EXCEPT !.opened = opened, !.mult = mult]
           z == [bet[i] EXCEPT !.status = "cashed_out", !.payout = req[r].payout]
<1>1. i \in DOMAIN bet => bet[i] \in BetRows
  BY ElementType DEF TypeOK, BetType
<1>2. i \in DOMAIN bet =>
        /\ SameBet(x, bet[i]) /\ x.status = "lost" /\ x.mult = 0 /\ x.payout = 0
        /\ x.opened = opened
  <2> HIDE DEF opened, i
  <2> QED BY <1>1 DEF BetRows, SameBet
<1>3. i \in DOMAIN bet =>
        /\ SameBet(y, bet[i]) /\ y.status = bet[i].status /\ y.payout = bet[i].payout
        /\ y.opened = opened /\ y.mult = mult
  <2> HIDE DEF opened, mult, i
  <2> QED BY <1>1 DEF BetRows, SameBet
<1>4. i \in DOMAIN bet =>
        /\ SameBet(z, bet[i]) /\ z.status = "cashed_out" /\ z.payout = req[r].payout
        /\ z.mult = bet[i].mult /\ z.opened = bet[i].opened
  <2> HIDE DEF i
  <2> QED BY <1>1 DEF BetRows, SameBet
<1>5. /\ CloseLostRound(r, g) => bet' = [bet EXCEPT ![i] = x]
      /\ RaiseMultiplier(r, g) => bet' = [bet EXCEPT ![i] = y]
      /\ CloseCashedOutRound(r, g) => bet' = [bet EXCEPT ![i] = z]
  BY DEF CloseLostRound, RaiseMultiplier, CloseCashedOutRound
<1>6. ASSUME NEW w, i \in DOMAIN bet => SameBet(w, bet[i]), bet' = [bet EXCEPT ![i] = w]
      PROVE  BetUpdated(i) /\ (i \in DOMAIN bet => bet'[i] = w)
  <2>1. \A j : SameBet(bet[j], bet[j])
    BY DEF SameBet
  <2> HIDE DEF i
  <2> QED BY <1>6, <2>1 DEF BetUpdated
<1> HIDE DEF x, y, z, opened, mult, i
<1>7. CloseLostRound(r, g) => BetUpdated(i) /\ (i \in DOMAIN bet => bet'[i] = x)
  BY <1>2, <1>5, <1>6
<1>8. RaiseMultiplier(r, g) => BetUpdated(i) /\ (i \in DOMAIN bet => bet'[i] = y)
  BY <1>3, <1>5, <1>6
<1>9. CloseCashedOutRound(r, g) => BetUpdated(i) /\ (i \in DOMAIN bet => bet'[i] = z)
  BY <1>4, <1>5, <1>6
<1> QED BY <1>2, <1>3, <1>4, <1>7, <1>8, <1>9 DEF i, opened, mult

\* What a handler adds to a ledger entry.
EntryUpdated(i, staked, paid, payouts) ==
  /\ DOMAIN ledger' = DOMAIN ledger
  /\ \A j \in DOMAIN ledger : j # i => ledger'[j] = ledger[j]
  /\ i \in DOMAIN ledger => /\ ledger'[i].staked = ledger[i].staked + staked
                            /\ ledger'[i].paid = ledger[i].paid + paid
                            /\ ledger'[i].payouts = ledger[i].payouts + payouts

\* The ledger entries after a stake, a payout or both were booked.
LEMMA LedgerRowsWritten ==
  ASSUME TypeOK, NEW r \in Requests
  PROVE  /\ InsertBetLedger(r) =>
              EntryUpdated(req[r].ref, req[r].stake, req[r].payout, IF req[r].payout > 0 THEN 1 ELSE 0)
         /\ \A g \in GridGames :
              /\ InsertStakeRow(r, g) => EntryUpdated(req[r].ref, req[r].stake, 0, 0)
              /\ InsertPayoutRow(r, g) => EntryUpdated(req[r].ref, 0, req[r].payout, 1)
<1> DEFINE i == req[r].ref
<1>1. i \in DOMAIN ledger => ledger[i] \in LedgerRows
  BY ElementType DEF TypeOK, LedgerType
<1>2. ASSUME InsertBetLedger(r)
      PROVE  EntryUpdated(i, req[r].stake, req[r].payout, IF req[r].payout > 0 THEN 1 ELSE 0)
  <2> DEFINE n == IF req[r].payout > 0 THEN 1 ELSE 0
             a == ledger[i].staked + req[r].stake
             b == ledger[i].paid + req[r].payout
             c == ledger[i].payouts + n
             x == [ledger[i] EXCEPT !.staked = a, !.paid = b, !.payouts = c]
  <2>1. ledger' = [ledger EXCEPT ![i] = x]
    BY <1>2 DEF InsertBetLedger
  <2>2. i \in DOMAIN ledger => x.staked = a /\ x.paid = b /\ x.payouts = c
    <3> HIDE DEF a, b, c
    <3> QED BY <1>1 DEF LedgerRows
  <2> HIDE DEF x, n
  <2> QED BY <2>1, <2>2 DEF EntryUpdated, n
<1>3. ASSUME NEW g \in GridGames, InsertStakeRow(r, g)
      PROVE  EntryUpdated(i, req[r].stake, 0, 0)
  <2> DEFINE a == ledger[i].staked + req[r].stake
             x == [ledger[i] EXCEPT !.staked = a]
  <2>1. ledger' = [ledger EXCEPT ![i] = x]
    BY <1>3 DEF InsertStakeRow
  <2>2. i \in DOMAIN ledger => /\ x.staked = a /\ x.paid = ledger[i].paid + 0
                              /\ x.payouts = ledger[i].payouts + 0
    <3> HIDE DEF a, i
    <3> QED BY <1>1 DEF LedgerRows
  <2> HIDE DEF x
  <2> QED BY <2>1, <2>2 DEF EntryUpdated
<1>4. ASSUME NEW g \in GridGames, InsertPayoutRow(r, g)
      PROVE  EntryUpdated(i, 0, req[r].payout, 1)
  <2> DEFINE b == ledger[i].paid + req[r].payout
             c == ledger[i].payouts + 1
             x == [ledger[i] EXCEPT !.paid = b, !.payouts = c]
  <2>1. ledger' = [ledger EXCEPT ![i] = x]
    BY <1>4 DEF InsertPayoutRow
  <2>2. i \in DOMAIN ledger => /\ x.staked = ledger[i].staked + 0 /\ x.paid = b
                              /\ x.payouts = c
    <3> HIDE DEF b, c, i
    <3> QED BY <1>1 DEF LedgerRows
  <2> HIDE DEF x
  <2> QED BY <2>1, <2>2 DEF EntryUpdated
<1> QED BY <1>2, <1>3, <1>4

---------------------------------------------------------------------------
(* What handlers refer to *)

SessionsGrow ==
  /\ DOMAIN session \subseteq DOMAIN session'
  /\ \A s \in DOMAIN session : SameSession(session'[s], session[s])
BetsGrow ==
  /\ DOMAIN bet \subseteq DOMAIN bet'
  /\ \A i \in DOMAIN bet : SameBet(bet'[i], bet[i])

\* Rows are never deleted, and what identifies them never changes.
LEMMA TablesGrow ==
  ASSUME TypeOK, [Next]_vars
  PROVE  SessionsGrow /\ BetsGrow
<1> USE DEF TypeOK
<1>0. /\ \A x : SameSession(x, x) /\ SameBet(x, x)
  BY DEF SameSession, SameBet
<1>1. SessionsGrow
  <2>1. CASE UNCHANGED session
    BY <1>0, <2>1 DEF SessionsGrow
  <2>2. ASSUME NEW r \in Requests, SessionWrites(r)
        PROVE  SessionsGrow
    BY <1>0, <2>2, SessionRowsWritten DEF SessionsGrow, SessionWrites
  <2>3. ASSUME NEW s, NEW staked, NEW won, BumpSession(s, staked, won)
        PROVE  SessionsGrow
    BY <2>3, BumpedRow DEF SessionsGrow
  <2> QED
    BY <2>1, <2>2, <2>3, Writers
       DEF SessionWrite, SessionWrites, BumpSettledBet, BumpStartedRound, BumpCashedOutRound
<1>2. BetsGrow
  <2>1. CASE UNCHANGED bet
    BY <1>0, <2>1 DEF BetsGrow
  <2>2. ASSUME NEW r \in Requests, NewRow(r)
        PROVE  BetsGrow
    BY <1>0, <2>2 DEF BetsGrow, NewRow
  <2>3. ASSUME NEW r \in Requests, InsertSettledBet(r)
        PROVE  BetsGrow
    BY <2>2, <2>3, BetInserted
  <2>4. ASSUME NEW r \in Requests, NEW g \in GridGames, InsertOpenRound(r, g)
        PROVE  BetsGrow
    BY <2>2, <2>4, BetInserted
  <2>5. ASSUME NEW r \in Requests, NEW g \in GridGames,
               CloseLostRound(r, g) \/ RaiseMultiplier(r, g) \/ CloseCashedOutRound(r, g)
        PROVE  BetsGrow
    <3>1. BetUpdated(req[r].ref)
      BY <2>5, BetRowsWritten
    <3> QED BY <3>1 DEF BetUpdated, BetsGrow
  <2> QED BY <2>1, <2>3, <2>4, <2>5, Writers DEF BetWrite
<1> QED BY <1>1, <1>2

\* The bet a handler works on is its player's, of its session, for its stake.
Owns(h, B) ==
  /\ h.ref \in DOMAIN B
  /\ B[h.ref].user = h.user /\ B[h.ref].sid = h.sid /\ B[h.ref].stake = h.stake

\* What a handler has established of the rows it refers to, by the statement it is at.
RefersTo(h, S, B) ==
  /\ h.op \in Playing \cup {"endSession"} => h.sid \in DOMAIN S
  /\ h.op = "endSession" /\ h.pc = "end" => S[h.sid].user = h.user
  /\ h.op \in Playing /\ h.pc # "session" => S[h.sid].user = h.user /\ S[h.sid].game = h.game
  /\ h.op = "placeBet" => h.game = "instant"
  /\ h.op \in Playing \ {"placeBet"} => h.game \in GridGames
  /\ h.op \in Settling => h.ref \in DOMAIN B
  /\ h.op \in Settling /\ h.pc \notin {"session", "row"} => Owns(h, B)
  /\ h.op \in Betting /\ h.pc \in {"ledger", "bump", "consume"} => Owns(h, B)

\* The session of a bet is its player's, on its game.
SessionOf(b, S) == b.sid \in DOMAIN S /\ S[b.sid].user = b.user /\ S[b.sid].game = b.game

RefInv ==
  /\ \A r \in Requests : RefersTo(req[r], session, bet)
  /\ \A i \in DOMAIN bet : SessionOf(bet[i], session)

\* Growing tables take nothing away.
LEMMA RefersStays ==
  ASSUME NEW h, RefersTo(h, session, bet), SessionsGrow, BetsGrow
  PROVE  RefersTo(h, session', bet')
BY DEF RefersTo, Owns, SessionsGrow, BetsGrow, SameSession, SameBet, Playing, Settling, Betting

\* A handler that goes on to a statement that needs no more has what it needs.
LEMMA RefersOn ==
  ASSUME NEW h, NEW k, NEW S, NEW B, RefersTo(h, S, B), SameCall(k, h),
         h.pc # "session" \/ k.pc = "session",
         h.op \in Settling /\ k.pc \notin {"session", "row"} => h.pc \notin {"session", "row"},
         h.op \in Betting /\ k.pc \in {"ledger", "bump", "consume"}
           => h.pc \in {"ledger", "bump", "consume"},
         h.op # "endSession"
  PROVE  RefersTo(k, S, B)
BY DEF RefersTo, Owns, SameCall, Playing, Settling, Betting

\* An idle slot refers to nothing.
LEMMA RefersIdle == ASSUME NEW S, NEW B PROVE RefersTo(Idle, S, B)
BY DEF RefersTo, Idle, Playing, Settling, Betting

\* A read gives the handler what it checked.
LEMMA RefersRead ==
  ASSUME NEW h, NEW k, RefersTo(h, session, bet), Read(h, k)
  PROVE  RefersTo(k, session, bet)
<1> USE DEF Playing, Settling, Betting, SameRequest
<1>1. CASE h.op \in {"startSession", "endSession"}
  BY <1>1 DEF Read, RefersTo
<1>2. CASE h.op \in Betting
  BY <1>2 DEF Read, RefersTo, SessionIsOpen, GridGames
<1>3. CASE h.op \in Settling
  BY <1>3 DEF Read, RefersTo, SessionIsOpen, RoundIsOpen, Owns
<1> QED BY <1>1, <1>2, <1>3 DEF Read

\* Every step leaves a handler with references that hold.
LEMMA RefersStep ==
  ASSUME TypeOK, RefInv, [Next]_vars, NEW q \in Requests
  PROVE  RefersTo(req'[q], session', bet')
<1> USE DEF TypeOK
<1>1. SessionsGrow /\ BetsGrow
  BY TablesGrow
<1>2. RefersTo(req[q], session, bet)
  BY DEF RefInv
<1>3. ASSUME NEW k, RefersTo(k, session, bet), req'[q] = k
      PROVE  RefersTo(req'[q], session', bet')
  BY <1>1, <1>3, RefersStays
<1>4. CASE req'[q] = req[q]
  BY <1>2, <1>3, <1>4
<1>5. CASE req'[q] = Idle
  BY <1>5, RefersIdle
<1>6. CASE Arrived(req'[q])
  <2>1. RefersTo(req'[q], session, bet)
    BY <1>6 DEF Arrived, RefersTo, Playing, Settling, Betting
  <2> QED BY <1>3, <2>1
<1>7. CASE Read(req[q], req'[q])
  <2>1. RefersTo(req'[q], session, bet)
    BY <1>2, <1>7, RefersRead
  <2> QED BY <1>3, <2>1
<1>8. ASSUME NewRow(q), Inserted(q), req[q].op \in Betting, req[q].pc = "insert"
      PROVE  RefersTo(req'[q], session', bet')
  <2>1. RefersTo(req[q], session', bet')
    BY <1>1, <1>2, RefersStays
  <2>2. Owns(req'[q], bet')
    BY <1>8 DEF NewRow, Inserted, Owns
  <2> QED BY <1>8, <2>1, <2>2 DEF Inserted, RefersTo, Playing, Settling, Betting
<1>9. ASSUME NEW pc, GoesOn(q, pc), req[q].pc # "session", req[q].op # "endSession",
             req[q].op \in Settling => req[q].pc # "row",
             req[q].op \in Betting /\ pc \in {"ledger", "bump", "consume"}
               => req[q].pc \in {"ledger", "bump", "consume"}
      PROVE  RefersTo(req'[q], session', bet')
  <2>1. RefersTo(req'[q], session, bet)
    BY <1>2, <1>9, RefersOn DEF GoesOn
  <2> QED BY <1>3, <2>1
<1>10. CASE Goes(q)
  <2> USE DEF Betting, Settling, At, Step
  <2>1. CASE EndOpenSessions(q) /\ GoesOn(q, "insert")
    BY <1>9, <2>1 DEF EndOpenSessions
  <2>2. CASE SettleWallet(q) /\ GoesOn(q, "insert")
    BY <1>9, <2>2 DEF SettleWallet
  <2>3. CASE InsertSettledBet(q) /\ Inserted(q)
    BY <1>8, <2>3, BetInserted DEF InsertSettledBet
  <2>4. CASE InsertBetLedger(q) /\ GoesOn(q, "bump")
    BY <1>9, <2>4 DEF InsertBetLedger
  <2>5. CASE BumpSettledBet(q) /\ GoesOn(q, "consume")
    BY <1>9, <2>5 DEF BumpSettledBet
  <2>6. ASSUME NEW g \in GridGames, InsertOpenRound(q, g), Inserted(q)
        PROVE  RefersTo(req'[q], session', bet')
    BY <1>8, <2>6, BetInserted DEF InsertOpenRound
  <2>7. ASSUME NEW g \in GridGames,
               \/ HoldStake(q, g) /\ GoesOn(q, "insert")
               \/ InsertStakeRow(q, g) /\ GoesOn(q, "bump")
               \/ ReleaseStake(q, g) /\ GoesOn(q, "lost")
               \/ CreditPayout(q, g) /\ GoesOn(q, "settle")
               \/ CloseCashedOutRound(q, g) /\ GoesOn(q, "ledger")
               \/ InsertPayoutRow(q, g) /\ GoesOn(q, "bump")
        PROVE  RefersTo(req'[q], session', bet')
    BY <1>9, <2>7
       DEF HoldStake, InsertStakeRow, ReleaseStake, CreditPayout, CloseCashedOutRound,
           InsertPayoutRow
  <2>8. ASSUME NEW g \in GridGames, RaiseMultiplier(q, g),
               req'[q].op = "cashOut", req'[q].pc = "session", req'[q].game = g,
               req'[q].sid = req[q].sid, req'[q].ref = req[q].ref
        PROVE  RefersTo(req'[q], session', bet')
    <3>1. req[q].op = "reveal"
      BY <2>8 DEF RaiseMultiplier
    <3>2. RefersTo(req'[q], session, bet)
      BY <1>2, <2>8, <3>1 DEF RefersTo, Playing
    <3> QED BY <1>3, <3>2
  <2> QED BY <1>10, <2>1, <2>2, <2>3, <2>4, <2>5, <2>6, <2>7, <2>8 DEF Goes
<1> QED BY <1>4, <1>5, <1>6, <1>7, <1>10, HandlerStep

\* Every bet keeps its session, and a new one is inserted for a session that was checked.
LEMMA SessionsOfBets ==
  ASSUME TypeOK, RefInv, [Next]_vars
  PROVE  \A i \in DOMAIN bet' : SessionOf(bet'[i], session')
<1> USE DEF TypeOK
<1>1. SessionsGrow /\ BetsGrow
  BY TablesGrow
<1>2. \A i \in DOMAIN bet : SessionOf(bet'[i], session')
  BY <1>1 DEF RefInv, SessionOf, SessionsGrow, BetsGrow, SameSession, SameBet
<1>3. ASSUME NEW r \in Requests, NewRow(r), req[r].op \in Betting, req[r].pc = "insert",
             bet'[Len(bet) + 1].game = req[r].game
      PROVE  \A i \in DOMAIN bet' : SessionOf(bet'[i], session')
  <2>1. RefersTo(req[r], session, bet)
    BY DEF RefInv
  <2>2. SessionOf(bet'[Len(bet) + 1], session')
    BY <1>1, <1>3, <2>1 DEF NewRow, RefersTo, SessionOf, SessionsGrow, SameSession, Playing
  <2> QED BY <1>2, <1>3, <2>2 DEF NewRow
<1>4. ASSUME NEW r \in Requests, InsertSettledBet(r)
      PROVE  \A i \in DOMAIN bet' : SessionOf(bet'[i], session')
  <2>1. req[r].op = "placeBet" /\ req[r].pc = "insert"
    BY <1>4 DEF InsertSettledBet, At
  <2>2. req[r].game = "instant"
    BY <2>1 DEF RefInv, RefersTo
  <2> QED BY <1>3, <1>4, <2>1, <2>2, BetInserted DEF Betting
<1>5. ASSUME NEW r \in Requests, NEW g \in GridGames, InsertOpenRound(r, g)
      PROVE  \A i \in DOMAIN bet' : SessionOf(bet'[i], session')
  BY <1>3, <1>5, BetInserted DEF InsertOpenRound, Step, At, Betting
<1>6. CASE UNCHANGED bet
  BY <1>2, <1>6
<1>7. ASSUME NEW r \in Requests, NEW g \in GridGames,
             CloseLostRound(r, g) \/ RaiseMultiplier(r, g) \/ CloseCashedOutRound(r, g)
      PROVE  DOMAIN bet' = DOMAIN bet
  BY <1>7, BetRowsWritten DEF BetUpdated
<1> QED BY <1>2, <1>4, <1>5, <1>6, <1>7, Writers DEF BetWrite

\* What handlers refer to stays there, and is what they checked.
LEMMA RefsKept ==
  ASSUME TypeOK, RefInv, [Next]_vars
  PROVE  RefInv'
BY RefersStep, SessionsOfBets DEF RefInv

---------------------------------------------------------------------------
(* The stake row of a bet *)

\* A handler that is about to book the stake of the bet it inserted.
AtStake(h) == h.op \in Betting /\ h.pc = "ledger"

\* A bet's stake is booked not yet or whole; the one handler that will book it has not.
StakeInv ==
  /\ StakeBookedOnce
  /\ \A r \in Requests : AtStake(req[r]) => ledger[req[r].ref].staked = 0
  /\ \A r, q \in Requests : AtStake(req[r]) /\ AtStake(req[q]) /\ req[r].ref = req[q].ref => r = q

\* A handler comes to book a stake by inserting the bet.
LEMMA ComesToStake ==
  ASSUME TypeOK, [Next]_vars, NEW q \in Requests, AtStake(req'[q])
  PROVE  \/ AtStake(req[q]) /\ req'[q] = req[q]
         \/ NewRow(q) /\ Inserted(q) /\ req[q].op \in Betting /\ req[q].pc = "insert"
<1> USE DEF TypeOK, AtStake, Betting
<1>1. CASE req'[q] = Idle
  BY <1>1 DEF Idle
<1>2. ~Arrived(req'[q])
  BY DEF Arrived
<1>3. ~Read(req[q], req'[q])
  BY DEF Read
<1>4. CASE Goes(q)
  BY <1>4, BetInserted
     DEF Goes, GoesOn, SameCall, CloseCashedOutRound, InsertSettledBet, InsertOpenRound, Step, At
<1> QED BY <1>1, <1>2, <1>3, <1>4, HandlerStep

\* The ledger is written by the handler that booked a stake, a payout or neither.
LEMMA LedgerSteps ==
  ASSUME TypeOK, [Next]_vars
  PROVE  \/ UNCHANGED ledger /\ DOMAIN bet' = DOMAIN bet
         \/ \E r \in Requests : NewRow(r) /\ Inserted(r) /\ req[r].op \in Betting
                                 /\ req[r].pc = "insert"
         \/ \E r \in Requests :
              /\ DOMAIN bet' = DOMAIN bet
              /\ \E staked, paid, payouts \in Nat :
                   EntryUpdated(req[r].ref, staked, paid, payouts)
                     /\ \/ AtStake(req[r]) /\ staked = req[r].stake /\ ~AtStake(req'[r])
                        \/ req[r].op = "cashOut" /\ staked = 0 /\ req'[r].op = "cashOut"
<1> USE DEF TypeOK, Betting, At, Step
<1>1. CASE UNCHANGED ledger /\ UNCHANGED bet
  BY <1>1
<1>2. ASSUME NEW r \in Requests, NEW g \in GridGames,
             CloseLostRound(r, g) \/ RaiseMultiplier(r, g) \/ CloseCashedOutRound(r, g)
      PROVE  UNCHANGED ledger /\ DOMAIN bet' = DOMAIN bet
  BY <1>2, BetRowsWritten DEF BetUpdated, CloseLostRound, RaiseMultiplier, CloseCashedOutRound
<1>3. ASSUME NEW r \in Requests, InsertSettledBet(r)
      PROVE  NewRow(r) /\ Inserted(r) /\ req[r].op \in Betting /\ req[r].pc = "insert"
  BY <1>3, BetInserted, BetWriting DEF InsertSettledBet, BetWrites
<1>4. ASSUME NEW r \in Requests, NEW g \in GridGames, InsertOpenRound(r, g)
      PROVE  NewRow(r) /\ Inserted(r) /\ req[r].op \in Betting /\ req[r].pc = "insert"
  BY <1>4, BetInserted, RoundWriting DEF InsertOpenRound, RoundWrites
<1>5. ASSUME NEW r \in Requests, InsertBetLedger(r)
      PROVE  /\ DOMAIN bet' = DOMAIN bet
             /\ \E staked, paid, payouts \in Nat :
                  /\ EntryUpdated(req[r].ref, staked, paid, payouts)
                  /\ AtStake(req[r]) /\ staked = req[r].stake /\ ~AtStake(req'[r])
  <2>1. req[r] \in Active /\ GoesOn(r, "bump")
    BY <1>5, BetWriting DEF BetWrites
  <2>2. req[r].stake \in Nat /\ req[r].payout \in Nat
    BY <2>1 DEF Active
  <2> DEFINE n == IF req[r].payout > 0 THEN 1 ELSE 0
  <2>3. EntryUpdated(req[r].ref, req[r].stake, req[r].payout, n) /\ n \in Nat
    BY <1>5, LedgerRowsWritten
  <2>4. AtStake(req[r]) /\ ~AtStake(req'[r]) /\ DOMAIN bet' = DOMAIN bet
    BY <1>5, <2>1 DEF InsertBetLedger, AtStake, GoesOn
  <2> HIDE DEF n
  <2> QED BY <2>2, <2>3, <2>4
<1>6. ASSUME NEW r \in Requests, NEW g \in GridGames, InsertStakeRow(r, g)
      PROVE  /\ DOMAIN bet' = DOMAIN bet
             /\ \E staked, paid, payouts \in Nat :
                  /\ EntryUpdated(req[r].ref, staked, paid, payouts)
                  /\ AtStake(req[r]) /\ staked = req[r].stake /\ ~AtStake(req'[r])
  <2>1. req[r] \in Active /\ GoesOn(r, "bump")
    BY <1>6, RoundWriting DEF RoundWrites
  <2>2. req[r].stake \in Nat
    BY <2>1 DEF Active
  <2>3. EntryUpdated(req[r].ref, req[r].stake, 0, 0)
    BY <1>6, LedgerRowsWritten
  <2>4. AtStake(req[r]) /\ ~AtStake(req'[r]) /\ DOMAIN bet' = DOMAIN bet
    BY <1>6, <2>1 DEF InsertStakeRow, AtStake, GoesOn
  <2> QED BY <2>2, <2>3, <2>4
<1>7. ASSUME NEW r \in Requests, NEW g \in GridGames, InsertPayoutRow(r, g)
      PROVE  /\ DOMAIN bet' = DOMAIN bet
             /\ \E staked, paid, payouts \in Nat :
                  /\ EntryUpdated(req[r].ref, staked, paid, payouts)
                  /\ req[r].op = "cashOut" /\ staked = 0 /\ req'[r].op = "cashOut"
  <2>1. req[r] \in Active /\ GoesOn(r, "bump")
    BY <1>7, RoundWriting DEF RoundWrites
  <2>2. req[r].payout \in Nat
    BY <2>1 DEF Active
  <2>3. EntryUpdated(req[r].ref, 0, req[r].payout, 1)
    BY <1>7, LedgerRowsWritten
  <2>4. req[r].op = "cashOut" /\ req'[r].op = "cashOut" /\ DOMAIN bet' = DOMAIN bet
    BY <1>7, <2>1 DEF InsertPayoutRow, GoesOn, SameCall
  <2> QED BY <2>2, <2>3, <2>4
<1>8. CASE LedgerWrite
  BY <1>3, <1>4, <1>5, <1>6, <1>7, <1>8 DEF LedgerWrite
<1>9. CASE UNCHANGED ledger /\ BetWrite
  BY <1>2, <1>3, <1>4, <1>9 DEF BetWrite
<1> QED BY <1>1, <1>8, <1>9, Writers

\* Booking is done once: the insert brings an empty entry, the booking fills it and
\* the handler goes on.
LEMMA StakeKept ==
  ASSUME TypeOK, RefInv, StakeInv, [Next]_vars
  PROVE  StakeInv'
<1> USE DEF TypeOK
<1> DEFINE Wait(q) == AtStake(req[q]) /\ req'[q] = req[q]
           Comes(q) == NewRow(q) /\ Inserted(q) /\ req[q].op \in Betting /\ req[q].pc = "insert"
<1>1. BetsGrow
  BY TablesGrow
<1>2. \A q \in Requests : AtStake(req'[q]) => Wait(q) \/ Comes(q)
  BY ComesToStake
<1>3. \A q \in Requests : AtStake(req[q]) => Owns(req[q], bet)
  BY DEF RefInv, RefersTo, AtStake
<1>4. DOMAIN ledger = DOMAIN bet
  BY LedgerDomain
<1>5. \A i \in DOMAIN bet : bet[i].stake \in Nat /\ ledger[i].staked \in Nat
  <2>1. \A i \in DOMAIN bet : bet[i] \in BetRows
    BY ElementType DEF BetType
  <2>2. \A i \in DOMAIN ledger : ledger[i] \in LedgerRows
    BY ElementType DEF LedgerType
  <2> QED BY <1>4, <2>1, <2>2 DEF BetRows, LedgerRows
<1>6. CASE UNCHANGED ledger /\ DOMAIN bet' = DOMAIN bet
  <2>1. \A q \in Requests : ~Comes(q)
    BY <1>6 DEF NewRow
  <2>2. \A q \in Requests : AtStake(req'[q]) => Wait(q)
    BY <1>2, <2>1
  <2>3. StakeBookedOnce'
    BY <1>1, <1>6 DEF StakeInv, StakeBookedOnce, BetsGrow, SameBet
  <2> QED BY <1>6, <2>2, <2>3 DEF StakeInv
<1>7. ASSUME NEW r \in Requests, NewRow(r), Inserted(r), req[r].op \in Betting, req[r].pc = "insert"
      PROVE  StakeInv'
  <2> DEFINE n == Len(bet) + 1
  <2>1. \A q \in Requests : Comes(q) => q = r
    <3>1. SUFFICES ASSUME NEW q \in Requests, Comes(q), q # r PROVE FALSE
      OBVIOUS
    <3>2. req'[q] # req[q] /\ req'[r] # req[r]
      BY <1>7, <3>1 DEF Inserted
    <3>3. Others(r)
      BY <3>2, StepActor
    <3> QED BY <3>1, <3>2, <3>3 DEF Others
  <2>2. StakeBookedOnce'
    BY <1>1, <1>4, <1>7 DEF StakeInv, StakeBookedOnce, NewRow
  <2>3. \A q \in Requests : AtStake(req'[q]) => ledger'[req'[q].ref].staked = 0
    <3> TAKE q \in Requests
    <3>1. CASE Wait(q)
      BY <1>3, <1>7, <3>1 DEF StakeInv, NewRow, Owns
    <3>2. CASE Comes(q)
      BY <3>2 DEF NewRow, Inserted
    <3> QED BY <1>2, <3>1, <3>2
  <2>4. \A p, q \in Requests : AtStake(req'[p]) /\ AtStake(req'[q]) /\ req'[p].ref = req'[q].ref => p = q
    <3> TAKE p, q \in Requests
    <3>1. CASE Wait(p) /\ Wait(q)
      BY <3>1 DEF StakeInv
    <3>2. CASE Comes(p) /\ Comes(q)
      BY <2>1, <3>2
    <3>3. ASSUME NEW a \in Requests, NEW b \in Requests, Wait(a), Comes(b)
          PROVE  req'[a].ref # req'[b].ref
      BY <1>3, <3>3 DEF Owns, NewRow, Inserted
    <3> QED BY <1>2, <3>1, <3>2, <3>3
  <2> QED BY <2>2, <2>3, <2>4 DEF StakeInv
<1>8. ASSUME NEW r \in Requests, DOMAIN bet' = DOMAIN bet,
             NEW staked \in Nat, NEW paid \in Nat, NEW payouts \in Nat,
             EntryUpdated(req[r].ref, staked, paid, payouts),
             \/ AtStake(req[r]) /\ staked = req[r].stake /\ ~AtStake(req'[r])
             \/ req[r].op = "cashOut" /\ staked = 0 /\ req'[r].op = "cashOut"
      PROVE  StakeInv'
  <2> DEFINE i == req[r].ref
  <2>1. \A q \in Requests : AtStake(req'[q]) => Wait(q) /\ q # r
    <3>1. \A q \in Requests : ~Comes(q)
      BY <1>8 DEF NewRow
    <3>2. ~AtStake(req'[r])
      BY <1>8 DEF AtStake, Betting
    <3> QED BY <1>2, <3>1, <3>2
  <2>2. CASE staked = 0
    <3>1. \A j \in DOMAIN bet : ledger'[j].staked = ledger[j].staked
      BY <1>4, <1>5, <1>8, <2>2 DEF EntryUpdated
    <3>2. StakeBookedOnce'
      BY <1>1, <1>8, <3>1 DEF StakeInv, StakeBookedOnce, BetsGrow, SameBet
    <3>3. \A q \in Requests : AtStake(req'[q]) => ledger'[req'[q].ref].staked = 0
      BY <1>3, <2>1, <3>1 DEF StakeInv, Owns
    <3> QED BY <2>1, <3>2, <3>3 DEF StakeInv
  <2>3. CASE AtStake(req[r]) /\ staked = req[r].stake
    <3>1. i \in DOMAIN bet /\ bet[i].stake = req[r].stake /\ ledger[i].staked = 0
      BY <1>3, <2>3 DEF Owns, StakeInv
    <3>2. ledger'[i].staked = bet[i].stake
      BY <1>4, <1>5, <1>8, <2>3, <3>1 DEF EntryUpdated
    <3>3. \A j \in DOMAIN bet : j # i => ledger'[j] = ledger[j]
      BY <1>4, <1>8 DEF EntryUpdated
    <3>4. StakeBookedOnce'
      BY <1>1, <1>8, <3>2, <3>3 DEF StakeInv, StakeBookedOnce, BetsGrow, SameBet
    <3>5. \A q \in Requests : AtStake(req'[q]) => req[q].ref # i
      BY <2>1, <2>3 DEF StakeInv
    <3>6. \A q \in Requests : AtStake(req'[q]) => ledger'[req'[q].ref].staked = 0
      BY <1>3, <2>1, <3>3, <3>5 DEF StakeInv, Owns
    <3> QED BY <2>1, <3>4, <3>6 DEF StakeInv
  <2> QED BY <1>8, <2>2, <2>3
<1> QED BY <1>6, <1>7, <1>8, LedgerSteps

---------------------------------------------------------------------------
(* Theorems *)

\* The invariant that needs no sums.
BookInv == RefInv /\ StakeInv

\* Empty tables and idle slots refer to nothing.
LEMMA InitBooks == Init => BookInv
<1> SUFFICES ASSUME Init PROVE BookInv
  OBVIOUS
<1>1. \A r \in Requests : req[r] = Idle
  BY DEF Init
<1>2. DOMAIN bet = {}
  BY LenProperties DEF Init
<1>3. ~AtStake(Idle)
  BY DEF AtStake, Idle, Betting
<1> QED BY <1>1, <1>2, <1>3, RefersIdle DEF BookInv, RefInv, StakeInv, StakeBookedOnce

\* The invariant holds in every state.
LEMMA BooksHold == Spec => [](TypeOK /\ BookInv)
<1>1. Init => TypeOK /\ MoneyInv /\ BookInv
  BY InitKeepsInv, InitBooks
<1>2. TypeOK /\ MoneyInv /\ BookInv /\ [Next]_vars => (TypeOK /\ MoneyInv /\ BookInv)'
  BY StepKeepsInv, RefsKept, StakeKept DEF BookInv
<1> QED BY <1>1, <1>2, PTL DEF Spec

\* The ledger has no stake twice and none in part, whatever fails: placeBet, startMines
\* and startTowers insert the stake row once, for the bet whose stake it is, although
\* they name the bet by a reference they got two statements earlier.
THEOREM StakesAreBookedOnce == Spec => []StakeBookedOnce
<1>1. BookInv => StakeBookedOnce
  BY DEF BookInv, StakeInv
<1> QED BY <1>1, BooksHold, PTL

---------------------------------------------------------------------------
(* The wallets, row by row *)

\* One wallet was written: what it gained, what it holds, what it counts.
WalletMoved(u, net, locked, wagered, won) ==
  /\ \A x \in Users : x # u => wallet'[x] = wallet[x]
  /\ wallet'[u].balance = wallet[u].balance + net
  /\ wallet'[u].lockedBalance = locked
  /\ wallet'[u].totalWagered = wallet[u].totalWagered + wagered
  /\ wallet'[u].totalWon = wallet[u].totalWon + won

\* Taking a stake and giving back a payout.
LEMMA DebitMoves ==
  ASSUME WalletType, NEW u \in Users, NEW stake \in Nat, NEW payout \in Nat, NEW hold \in Nat,
         Debit(u, stake, payout, hold)
  PROVE  WalletMoved(u, payout - stake, wallet[u].lockedBalance + hold, stake, payout)
<1> DEFINE a == wallet[u].balance - stake + payout
           b == wallet[u].lockedBalance + hold
           c == wallet[u].totalWagered + stake
           d == wallet[u].totalWon + payout
           w == [wallet[u] EXCEPT !.balance = a, !.lockedBalance = b,
                                  !.totalWagered = c, !.totalWon = d]
<1>1. wallet[u] \in Wallets
  BY DEF WalletType
<1>2. a = wallet[u].balance + (payout - stake)
  BY <1>1 DEF Wallets
<1>3. wallet' = [wallet EXCEPT ![u] = w]
  BY DEF Debit
<1>4. w.balance = a /\ w.lockedBalance = b /\ w.totalWagered = c /\ w.totalWon = d
  <2> HIDE DEF a, b, c, d
  <2> QED BY <1>1 DEF Wallets
<1> HIDE DEF w, a
<1> QED BY <1>2, <1>3, <1>4 DEF WalletMoved, WalletType

\* A deposit moves neither what is held nor what was wagered or won.
LEMMA CreditMoves ==
  ASSUME WalletType, NEW u \in Users, CreditWallet(u)
  PROVE  \E amount \in DepositAmounts : WalletMoved(u, amount, wallet[u].lockedBalance, 0, 0)
<1>1. PICK amount \in DepositAmounts :
        wallet' = [wallet EXCEPT ![u].balance = @ + amount, ![u].totalDeposited = @ + amount]
  BY DEF CreditWallet
<1> DEFINE a == wallet[u].balance + amount
           d == wallet[u].totalDeposited + amount
           w == [wallet[u] EXCEPT !.balance = a, !.totalDeposited = d]
<1>2. wallet[u] \in Wallets
  BY DEF WalletType
<1>3. wallet' = [wallet EXCEPT ![u] = w]
  BY <1>1
<1>4. /\ w.balance = a /\ w.lockedBalance = wallet[u].lockedBalance
      /\ w.totalWagered = wallet[u].totalWagered + 0 /\ w.totalWon = wallet[u].totalWon + 0
  <2> HIDE DEF a, d
  <2> QED BY <1>2 DEF Wallets
<1> HIDE DEF w
<1>5. WalletMoved(u, amount, wallet[u].lockedBalance, 0, 0)
  BY <1>3, <1>4 DEF WalletMoved, WalletType
<1> QED BY <1>5

\* What is held after a release.
Released(r) == AtLeastZero(wallet[req[r].user].lockedBalance - req[r].stake)

\* A lost round's stake is released, a cashed-out one's is released and the payout added.
LEMMA ReleaseMoves ==
  ASSUME WalletType, HandlerType, NEW r \in Requests, NEW g \in GridGames
  PROVE  /\ ReleaseStake(r, g) => WalletMoved(req[r].user, 0, Released(r), 0, 0)
         /\ CreditPayout(r, g) =>
              WalletMoved(req[r].user, req[r].payout, Released(r), 0, req[r].payout)
<1> SUFFICES ASSUME ReleaseStake(r, g) \/ CreditPayout(r, g)
             PROVE  /\ ReleaseStake(r, g) => WalletMoved(req[r].user, 0, Released(r), 0, 0)
                    /\ CreditPayout(r, g) =>
                         WalletMoved(req[r].user, req[r].payout, Released(r), 0, req[r].payout)
  OBVIOUS
<1> DEFINE u == req[r].user
           payout == req[r].payout
           b == Released(r)
           v == [wallet[u] EXCEPT !.lockedBalance = b]
           a == v.balance + payout
           d == v.totalWon + payout
           w == [v EXCEPT !.balance = a, !.totalWon = d]
<1>1. req[r] \in Active
  BY AtBusy, AtActive DEF ReleaseStake, CreditPayout, Step, At, Ops
<1>2. u \in Users /\ wallet[u] \in Wallets /\ payout \in Nat
  BY <1>1 DEF Active, WalletType
<1>3. /\ v.balance = wallet[u].balance /\ v.lockedBalance = b
      /\ v.totalWagered = wallet[u].totalWagered /\ v.totalWon = wallet[u].totalWon
  <2> HIDE DEF b, u
  <2> QED BY <1>2 DEF Wallets
<1>4. /\ w.balance = a /\ w.lockedBalance = v.lockedBalance
      /\ w.totalWagered = v.totalWagered /\ w.totalWon = d
  <2>1. \A x \in Wallets : \A y : LET z == [x EXCEPT !.lockedBalance = y]
                                   IN DOMAIN z = DOMAIN x
    OBVIOUS
  <2>2. DOMAIN v = {"balance", "lockedBalance", "totalWagered", "totalWon", "totalDeposited"}
    <3> HIDE DEF b, u
    <3> QED BY <1>2 DEF Wallets
  <2> HIDE DEF v, a, d
  <2> QED BY <2>2
<1>5. ReleaseStake(r, g) => wallet' = [wallet EXCEPT ![u] = v]
  BY DEF ReleaseStake, Unlock, Released
<1>6. CreditPayout(r, g) => wallet' = [wallet EXCEPT ![u] = w]
  BY DEF CreditPayout, Unlock, Released
<1>7. /\ wallet[u].totalWagered + 0 = wallet[u].totalWagered
      /\ wallet[u].totalWon + 0 = wallet[u].totalWon
      /\ wallet[u].balance + 0 = wallet[u].balance
  BY <1>2 DEF Wallets
<1>8. DOMAIN wallet = Users
  BY DEF WalletType
<1> HIDE DEF v, w, u, b
<1>9. ReleaseStake(r, g) => WalletMoved(u, 0, b, 0, 0)
  BY <1>2, <1>3, <1>5, <1>7, <1>8 DEF WalletMoved
<1>10. CreditPayout(r, g) => WalletMoved(u, payout, b, 0, payout)
  BY <1>2, <1>3, <1>4, <1>6, <1>7, <1>8 DEF WalletMoved
<1> QED BY <1>9, <1>10 DEF u, b

---------------------------------------------------------------------------
(* The sums *)

\* A player's bets, sessions and the ledger entries of his bets are finite sets of rows
\* with natural amounts.
LEMMA RowsAreFinite ==
  ASSUME TypeOK, NEW u
  PROVE  /\ IsFiniteSet(BetsOf(u)) /\ IsFiniteSet(SessionsOf(u))
         /\ DOMAIN ledger = DOMAIN bet
         /\ \A i \in DOMAIN bet : /\ bet[i].stake \in Nat /\ bet[i].payout \in Nat
                                  /\ ledger[i].staked \in Nat /\ ledger[i].paid \in Nat
         /\ \A s \in DOMAIN session : session[s].staked \in Nat /\ session[s].won \in Nat
<1> USE DEF TypeOK
<1>1. IsFiniteSet(DOMAIN bet) /\ IsFiniteSet(DOMAIN session)
  BY FS_Interval, LenProperties DEF BetType, SessionType
<1>2. IsFiniteSet(BetsOf(u)) /\ IsFiniteSet(SessionsOf(u))
  BY <1>1, FS_Subset DEF BetsOf, SessionsOf
<1>3. DOMAIN ledger = DOMAIN bet
  BY LedgerDomain
<1>4. \A i \in DOMAIN bet : bet[i] \in BetRows
  BY ElementType DEF BetType
<1>5. \A i \in DOMAIN ledger : ledger[i] \in LedgerRows
  BY ElementType DEF LedgerType
<1>6. \A s \in DOMAIN session : session[s] \in SessionRows
  BY ElementType DEF SessionType
<1> QED BY <1>2, <1>3, <1>4, <1>5, <1>6 DEF BetRows, LedgerRows, SessionRows

\* n, or nothing when the actor is someone else.
Part(u, v, n) == IF u = v THEN n ELSE 0

\* The sums over a player's rows are natural numbers.
LEMMA SumsAreNatural ==
  ASSUME TypeOK, NEW u
  PROVE  /\ Staked(u) \in Nat /\ StakesBooked(u) \in Nat /\ StakesCounted(u) \in Nat
         /\ PayoutsBooked(u) \in Nat /\ PayoutsCounted(u) \in Nat
<1> DEFINE stakes == [i \in DOMAIN bet |-> bet[i].stake]
           booked == [i \in DOMAIN ledger |-> ledger[i].staked]
           paid   == [i \in DOMAIN ledger |-> ledger[i].paid]
           staked == [s \in DOMAIN session |-> session[s].staked]
           won    == [s \in DOMAIN session |-> session[s].won]
<1>1. /\ IsFiniteSet(BetsOf(u)) /\ IsFiniteSet(SessionsOf(u))
      /\ \A i \in BetsOf(u) : stakes[i] \in Nat /\ booked[i] \in Nat /\ paid[i] \in Nat
      /\ \A s \in SessionsOf(u) : staked[s] \in Nat /\ won[s] \in Nat
  BY RowsAreFinite DEF BetsOf, SessionsOf
<1> HIDE DEF stakes, booked, paid, staked, won
<1>2. /\ SumOver(stakes, BetsOf(u)) \in Nat /\ SumOver(booked, BetsOf(u)) \in Nat
      /\ SumOver(paid, BetsOf(u)) \in Nat
      /\ SumOver(staked, SessionsOf(u)) \in Nat /\ SumOver(won, SessionsOf(u)) \in Nat
  BY <1>1, SumType
<1> QED BY <1>2 DEF Staked, StakesBooked, StakesCounted, PayoutsBooked, PayoutsCounted,
                    stakes, booked, paid, staked, won

\* A new bet adds its stake to what its player staked, and nothing to the ledger.
LEMMA SumsAfterInsert ==
  ASSUME TypeOK, NEW r \in Requests, NewRow(r), req[r].stake \in Nat, NEW u
  PROVE  /\ Staked(u)' = Staked(u) + Part(u, req[r].user, req[r].stake)
         /\ StakesBooked(u)' = StakesBooked(u) /\ PayoutsBooked(u)' = PayoutsBooked(u)
<1> DEFINE n == Len(bet) + 1
           S == BetsOf(u)
           T == BetsOf(u)'
           stakes == [i \in DOMAIN bet |-> bet[i].stake]
           booked == [i \in DOMAIN ledger |-> ledger[i].staked]
           paid   == [i \in DOMAIN ledger |-> ledger[i].paid]
           stakes2 == [i \in DOMAIN bet' |-> bet'[i].stake]
           booked2 == [i \in DOMAIN ledger' |-> ledger'[i].staked]
           paid2   == [i \in DOMAIN ledger' |-> ledger'[i].paid]
<1>1. /\ n \notin DOMAIN bet /\ DOMAIN ledger = DOMAIN bet
      /\ DOMAIN bet' = DOMAIN bet \cup {n} /\ DOMAIN ledger' = DOMAIN bet \cup {n}
      /\ \A i \in DOMAIN bet : bet'[i] = bet[i] /\ ledger'[i] = ledger[i]
      /\ bet'[n].user = req[r].user /\ bet'[n].stake = req[r].stake
      /\ ledger'[n].staked = 0 /\ ledger'[n].paid = 0
  BY DEF NewRow
<1>2. /\ S \subseteq DOMAIN bet /\ T \subseteq DOMAIN bet' /\ n \notin S
      /\ S \ {n} = T \ {n} /\ (n \in T <=> req[r].user = u)
  BY <1>1 DEF BetsOf
<1>3. IsFiniteSet(S) /\ \A i \in S : stakes[i] \in Nat /\ booked[i] \in Nat /\ paid[i] \in Nat
  BY <1>1, <1>2, RowsAreFinite
<1>4. \A i \in T : stakes2[i] \in Nat /\ booked2[i] \in Nat /\ paid2[i] \in Nat
  <2>1. \A i \in S : stakes2[i] = stakes[i] /\ booked2[i] = booked[i] /\ paid2[i] = paid[i]
    BY <1>1, <1>2
  <2>2. \A i \in T : i \in S \/ i = n
    BY <1>2
  <2>3. stakes2[n] \in Nat /\ booked2[n] \in Nat /\ paid2[n] \in Nat
    BY <1>1
  <2> QED BY <1>3, <2>1, <2>2, <2>3
<1>5. /\ \A i \in S \ {n} : /\ stakes[i] = stakes2[i] /\ booked[i] = booked2[i]
                            /\ paid[i] = paid2[i]
      /\ stakes2[n] = req[r].stake /\ booked2[n] = 0 /\ paid2[n] = 0
  BY <1>1, <1>2
<1> HIDE DEF S, T, n, stakes, booked, paid, stakes2, booked2, paid2
<1>6. SumOver(stakes2, T) = SumOver(stakes, S) + Part(u, req[r].user, req[r].stake)
  <2>1. \A x \in S : stakes[x] \in Nat
    BY <1>3
  <2>2. \A x \in T : stakes2[x] \in Nat
    BY <1>4
  <2>3. \A x \in S \ {n} : stakes[x] = stakes2[x]
    BY <1>5
  <2>4. Share(stakes2, T, n) = Share(stakes, S, n) + Part(u, req[r].user, req[r].stake) /\ Part(u, req[r].user, req[r].stake) \in Nat
    BY <1>1, <1>2, <1>3, <1>4, <1>5 DEF Share, Part
  <2> QED BY <1>2, <1>3, <2>1, <2>2, <2>3, <2>4, SumAdds
<1>7. SumOver(booked2, T) = SumOver(booked, S) + 0
  <2>1. \A x \in S : booked[x] \in Nat
    BY <1>3
  <2>2. \A x \in T : booked2[x] \in Nat
    BY <1>4
  <2>3. \A x \in S \ {n} : booked[x] = booked2[x]
    BY <1>5
  <2>4. Share(booked2, T, n) = Share(booked, S, n) + 0 /\ 0 \in Nat
    BY <1>2, <1>3, <1>4, <1>5 DEF Share, Part
  <2> QED BY <1>2, <1>3, <2>1, <2>2, <2>3, <2>4, SumAdds
<1>8. SumOver(paid2, T) = SumOver(paid, S) + 0
  <2>1. \A x \in S : paid[x] \in Nat
    BY <1>3
  <2>2. \A x \in T : paid2[x] \in Nat
    BY <1>4
  <2>3. \A x \in S \ {n} : paid[x] = paid2[x]
    BY <1>5
  <2>4. Share(paid2, T, n) = Share(paid, S, n) + 0 /\ 0 \in Nat
    BY <1>2, <1>3, <1>4, <1>5 DEF Share, Part
  <2> QED BY <1>2, <1>3, <2>1, <2>2, <2>3, <2>4, SumAdds
<1>9. StakesBooked(u) \in Nat /\ PayoutsBooked(u) \in Nat
  BY SumsAreNatural
<1> QED BY <1>6, <1>7, <1>8, <1>9
       DEF Staked, StakesBooked, PayoutsBooked, stakes, booked, paid, stakes2,
                     booked2, paid2, S, T

\* A booking adds to the ledger what it books, on the side of the bet's player.
LEMMA SumsAfterBooking ==
  ASSUME TypeOK, NEW i, NEW v, i \in DOMAIN bet, bet[i].user = v, UNCHANGED bet,
         NEW staked \in Nat, NEW won \in Nat, NEW payouts \in Nat,
         EntryUpdated(i, staked, won, payouts), NEW u
  PROVE  /\ Staked(u)' = Staked(u)
         /\ StakesBooked(u)' = StakesBooked(u) + Part(u, v, staked)
         /\ PayoutsBooked(u)' = PayoutsBooked(u) + Part(u, v, won)
<1> DEFINE S == BetsOf(u)
           booked == [j \in DOMAIN ledger |-> ledger[j].staked]
           paid   == [j \in DOMAIN ledger |-> ledger[j].paid]
           booked2 == [j \in DOMAIN ledger' |-> ledger'[j].staked]
           paid2   == [j \in DOMAIN ledger' |-> ledger'[j].paid]
<1>1. DOMAIN ledger = DOMAIN bet /\ DOMAIN ledger' = DOMAIN bet
  BY RowsAreFinite DEF EntryUpdated
<1>2. S \subseteq DOMAIN bet /\ BetsOf(u)' = S /\ (i \in S <=> u = v)
  BY DEF BetsOf
<1>3. IsFiniteSet(S) /\ \A j \in S : booked[j] \in Nat /\ paid[j] \in Nat
  BY <1>1, <1>2, RowsAreFinite
<1>4. \A j \in S : booked2[j] \in Nat /\ paid2[j] \in Nat
  <2>1. \A j \in S : /\ j # i => booked2[j] = booked[j] /\ paid2[j] = paid[j]
                     /\ j = i => booked2[j] = booked[j] + staked /\ paid2[j] = paid[j] + won
    BY <1>1, <1>2 DEF EntryUpdated
  <2> HIDE DEF booked, paid, booked2, paid2
  <2> QED BY <1>3, <2>1
<1>5. /\ \A j \in S \ {i} : booked[j] = booked2[j] /\ paid[j] = paid2[j]
      /\ booked2[i] = booked[i] + staked /\ paid2[i] = paid[i] + won
  BY <1>1, <1>2 DEF EntryUpdated
<1>6. Staked(u)' = Staked(u)
  BY DEF Staked, BetsOf
<1> HIDE DEF S, booked, paid, booked2, paid2
<1>7. SumOver(booked2, S) = SumOver(booked, S) + Part(u, v, staked)
  <2>1. \A x \in S : booked[x] \in Nat
    BY <1>3
  <2>2. \A x \in S : booked2[x] \in Nat
    BY <1>4
  <2>3. \A x \in S \ {i} : booked[x] = booked2[x]
    BY <1>5
  <2>4. Share(booked2, S, i) = Share(booked, S, i) + Part(u, v, staked) /\ Part(u, v, staked) \in Nat
    BY <1>2, <1>3, <1>5 DEF Share, Part
  <2> QED BY <1>2, <1>3, <2>1, <2>2, <2>3, <2>4, SumAdds
<1>8. SumOver(paid2, S) = SumOver(paid, S) + Part(u, v, won)
  <2>1. \A x \in S : paid[x] \in Nat
    BY <1>3
  <2>2. \A x \in S : paid2[x] \in Nat
    BY <1>4
  <2>3. \A x \in S \ {i} : paid[x] = paid2[x]
    BY <1>5
  <2>4. Share(paid2, S, i) = Share(paid, S, i) + Part(u, v, won) /\ Part(u, v, won) \in Nat
    BY <1>2, <1>3, <1>5 DEF Share, Part
  <2> QED BY <1>2, <1>3, <2>1, <2>2, <2>3, <2>4, SumAdds
<1> QED BY <1>2, <1>6, <1>7, <1>8 DEF StakesBooked, PayoutsBooked, booked, paid, booked2, paid2, S

\* Closing or raising a round changes none of its amounts that are summed.
LEMMA SumsAfterUpdate ==
  ASSUME TypeOK, NEW i, BetUpdated(i), UNCHANGED ledger, NEW u
  PROVE  /\ Staked(u)' = Staked(u) /\ StakesBooked(u)' = StakesBooked(u)
         /\ PayoutsBooked(u)' = PayoutsBooked(u)
<1>1. /\ DOMAIN bet' = DOMAIN bet
      /\ \A j \in DOMAIN bet : bet'[j].user = bet[j].user /\ bet'[j].stake = bet[j].stake
  BY DEF BetUpdated, SameBet
<1>2. BetsOf(u)' = BetsOf(u)
  BY <1>1 DEF BetsOf
<1>3. [j \in DOMAIN bet |-> bet[j].stake]' = [j \in DOMAIN bet |-> bet[j].stake]
  BY <1>1
<1> QED BY <1>2, <1>3 DEF Staked, StakesBooked, PayoutsBooked

\* A bump adds to the player's session what it counts.
LEMMA SumsAfterBump ==
  ASSUME TypeOK, NEW s, NEW v, s \in DOMAIN session, session[s].user = v,
         NEW staked \in Nat, NEW won \in Nat, BumpSession(s, staked, won), NEW u
  PROVE  /\ StakesCounted(u)' = StakesCounted(u) + Part(u, v, staked)
         /\ PayoutsCounted(u)' = PayoutsCounted(u) + Part(u, v, won)
<1> DEFINE S == SessionsOf(u)
           stakes == [t \in DOMAIN session |-> session[t].staked]
           pays   == [t \in DOMAIN session |-> session[t].won]
           stakes2 == [t \in DOMAIN session' |-> session'[t].staked]
           pays2   == [t \in DOMAIN session' |-> session'[t].won]
<1>1. /\ DOMAIN session' = DOMAIN session
      /\ \A t \in DOMAIN session : /\ t # s => session'[t] = session[t]
                                   /\ session'[t].user = session[t].user
      /\ session'[s].staked = session[s].staked + staked
      /\ session'[s].won = session[s].won + won
  BY BumpedRow DEF TypeOK, SameSession
<1>2. S \subseteq DOMAIN session /\ SessionsOf(u)' = S /\ (s \in S <=> u = v)
  BY <1>1 DEF SessionsOf
<1>3. IsFiniteSet(S) /\ \A t \in S : stakes[t] \in Nat /\ pays[t] \in Nat
  BY <1>2, RowsAreFinite
<1>4. \A t \in S : stakes2[t] \in Nat /\ pays2[t] \in Nat
  BY <1>1, <1>2, RowsAreFinite
<1>5. /\ \A t \in S \ {s} : stakes[t] = stakes2[t] /\ pays[t] = pays2[t]
      /\ stakes2[s] = stakes[s] + staked /\ pays2[s] = pays[s] + won
  BY <1>1, <1>2
<1> HIDE DEF S, stakes, pays, stakes2, pays2
<1>6. SumOver(stakes2, S) = SumOver(stakes, S) + Part(u, v, staked)
  <2>1. \A x \in S : stakes[x] \in Nat
    BY <1>3
  <2>2. \A x \in S : stakes2[x] \in Nat
    BY <1>4
  <2>3. \A x \in S \ {s} : stakes[x] = stakes2[x]
    BY <1>5
  <2>4. Share(stakes2, S, s) = Share(stakes, S, s) + Part(u, v, staked) /\ Part(u, v, staked) \in Nat
    BY <1>2, <1>3, <1>5 DEF Share, Part
  <2> QED BY <1>2, <1>3, <2>1, <2>2, <2>3, <2>4, SumAdds
<1>7. SumOver(pays2, S) = SumOver(pays, S) + Part(u, v, won)
  <2>1. \A x \in S : pays[x] \in Nat
    BY <1>3
  <2>2. \A x \in S : pays2[x] \in Nat
    BY <1>4
  <2>3. \A x \in S \ {s} : pays[x] = pays2[x]
    BY <1>5
  <2>4. Share(pays2, S, s) = Share(pays, S, s) + Part(u, v, won) /\ Part(u, v, won) \in Nat
    BY <1>2, <1>3, <1>5 DEF Share, Part
  <2> QED BY <1>2, <1>3, <2>1, <2>2, <2>3, <2>4, SumAdds
<1> QED BY <1>2, <1>6, <1>7 DEF StakesCounted, PayoutsCounted, stakes, pays, stakes2, pays2, S

\* Starting and ending sessions counts nothing.
LEMMA SumsAfterSession ==
  ASSUME TypeOK, NEW r \in Requests, SessionWrites(r), NEW u
  PROVE  StakesCounted(u)' = StakesCounted(u) /\ PayoutsCounted(u)' = PayoutsCounted(u)
<1> DEFINE n == Len(session) + 1
           S == SessionsOf(u)
           T == SessionsOf(u)'
           stakes == [t \in DOMAIN session |-> session[t].staked]
           pays   == [t \in DOMAIN session |-> session[t].won]
           stakes2 == [t \in DOMAIN session' |-> session'[t].staked]
           pays2   == [t \in DOMAIN session' |-> session'[t].won]
<1>1. /\ n \notin DOMAIN session
      /\ \/ DOMAIN session' = DOMAIN session
         \/ /\ DOMAIN session' = DOMAIN session \cup {n}
            /\ session'[n].staked = 0 /\ session'[n].won = 0
      /\ \A t \in DOMAIN session : /\ session'[t].user = session[t].user
                                   /\ session'[t].staked = session[t].staked
                                   /\ session'[t].won = session[t].won
  <2>1. n \notin DOMAIN session
    BY LenProperties DEF TypeOK, SessionType
  <2>2. CASE EndOpenSessions(r)
    BY <2>1, <2>2, SessionRowsWritten DEF SameSession, TypeOK
  <2>3. CASE InsertSession(r)
    <3> DEFINE row == [user |-> req[r].user, game |-> req[r].game, ended |-> FALSE,
                       betCount |-> 0, staked |-> 0, won |-> 0]
    <3>0. session'[n] = row
      BY <2>3, SessionRowsWritten DEF TypeOK
    <3>1. session'[n].staked = 0 /\ session'[n].won = 0
      BY <3>0
    <3> QED BY <2>1, <2>3, <3>1, SessionRowsWritten DEF TypeOK
  <2>4. CASE MarkEnded(r)
    BY <2>1, <2>4, SessionRowsWritten DEF SameSession, TypeOK
  <2> QED BY <2>2, <2>3, <2>4 DEF SessionWrites
<1>2. /\ S \subseteq DOMAIN session /\ T \subseteq DOMAIN session' /\ n \notin S
      /\ S \ {n} = T \ {n}
  BY <1>1 DEF SessionsOf
<1>3. IsFiniteSet(S) /\ \A t \in S : stakes[t] \in Nat /\ pays[t] \in Nat
  BY <1>2, RowsAreFinite
<1>4. \A t \in T : stakes2[t] \in Nat /\ pays2[t] \in Nat
  BY <1>1, <1>2, RowsAreFinite
<1>5. /\ \A t \in S \ {n} : stakes[t] = stakes2[t] /\ pays[t] = pays2[t]
      /\ n \in T => stakes2[n] = 0 /\ pays2[n] = 0
  BY <1>1, <1>2
<1> HIDE DEF S, T, n, stakes, pays, stakes2, pays2
<1>6. SumOver(stakes2, T) = SumOver(stakes, S) + 0
  <2>1. \A x \in S : stakes[x] \in Nat
    BY <1>3
  <2>2. \A x \in T : stakes2[x] \in Nat
    BY <1>4
  <2>3. \A x \in S \ {n} : stakes[x] = stakes2[x]
    BY <1>5
  <2>4. Share(stakes2, T, n) = Share(stakes, S, n) + 0 /\ 0 \in Nat
    BY <1>2, <1>5 DEF Share, Part
  <2> QED BY <1>2, <1>3, <2>1, <2>2, <2>3, <2>4, SumAdds
<1>7. SumOver(pays2, T) = SumOver(pays, S) + 0
  <2>1. \A x \in S : pays[x] \in Nat
    BY <1>3
  <2>2. \A x \in T : pays2[x] \in Nat
    BY <1>4
  <2>3. \A x \in S \ {n} : pays[x] = pays2[x]
    BY <1>5
  <2>4. Share(pays2, T, n) = Share(pays, S, n) + 0 /\ 0 \in Nat
    BY <1>2, <1>5 DEF Share, Part
  <2> QED BY <1>2, <1>3, <2>1, <2>2, <2>3, <2>4, SumAdds
<1>8. StakesCounted(u) \in Nat /\ PayoutsCounted(u) \in Nat
  BY SumsAreNatural
<1> QED BY <1>6, <1>7, <1>8
       DEF StakesCounted, PayoutsCounted, stakes, pays, stakes2, pays2, S, T

---------------------------------------------------------------------------
(* What the statements move *)

WalletAdds(v, wagered, won) ==
  \A u \in Users : /\ wallet'[u].totalWagered = wallet[u].totalWagered + Part(u, v, wagered)
                   /\ wallet'[u].totalWon = wallet[u].totalWon + Part(u, v, won)
BetsAdd(v, staked, booked, paid) ==
  \A u \in Users : /\ Staked(u)' = Staked(u) + Part(u, v, staked)
                   /\ StakesBooked(u)' = StakesBooked(u) + Part(u, v, booked)
                   /\ PayoutsBooked(u)' = PayoutsBooked(u) + Part(u, v, paid)
SessionsAdd(v, counted, shown) ==
  \A u \in Users : /\ StakesCounted(u)' = StakesCounted(u) + Part(u, v, counted)
                   /\ PayoutsCounted(u)' = PayoutsCounted(u) + Part(u, v, shown)

\* A table that is left alone adds nothing.
LEMMA NothingAdded ==
  ASSUME TypeOK, NEW v
  PROVE  /\ UNCHANGED wallet => WalletAdds(v, 0, 0)
         /\ UNCHANGED <<bet, ledger>> => BetsAdd(v, 0, 0, 0)
         /\ UNCHANGED session => SessionsAdd(v, 0, 0)
<1>1. \A u : Part(u, v, 0) = 0
  BY DEF Part
<1>2. \A u \in Users : wallet[u].totalWagered \in Nat /\ wallet[u].totalWon \in Nat
  BY DEF TypeOK, WalletType, Wallets
<1>3. UNCHANGED wallet => WalletAdds(v, 0, 0)
  BY <1>1, <1>2 DEF WalletAdds
<1>4. ASSUME UNCHANGED <<bet, ledger>>, NEW u \in Users
      PROVE  /\ Staked(u)' = Staked(u) + 0 /\ StakesBooked(u)' = StakesBooked(u) + 0
             /\ PayoutsBooked(u)' = PayoutsBooked(u) + 0
  <2>1. Staked(u)' = Staked(u) /\ StakesBooked(u)' = StakesBooked(u)
    BY <1>4 DEF Staked, StakesBooked, BetsOf
  <2>2. PayoutsBooked(u)' = PayoutsBooked(u)
    BY <1>4 DEF PayoutsBooked, BetsOf
  <2> QED BY <2>1, <2>2, SumsAreNatural
<1>5. ASSUME UNCHANGED session, NEW u \in Users
      PROVE  /\ StakesCounted(u)' = StakesCounted(u) + 0
             /\ PayoutsCounted(u)' = PayoutsCounted(u) + 0
  <2>1. StakesCounted(u)' = StakesCounted(u) /\ PayoutsCounted(u)' = PayoutsCounted(u)
    BY <1>5 DEF StakesCounted, PayoutsCounted, SessionsOf
  <2> QED BY <2>1, SumsAreNatural
<1> QED BY <1>1, <1>3, <1>4, <1>5 DEF BetsAdd, SessionsAdd

\* What a wallet counts when it was written.
LEMMA WalletPart ==
  ASSUME TypeOK, NEW v \in Users, NEW net, NEW locked, NEW wagered \in Nat, NEW won \in Nat,
         WalletMoved(v, net, locked, wagered, won)
  PROVE  WalletAdds(v, wagered, won)
<1>1. \A u \in Users : wallet[u].totalWagered \in Nat /\ wallet[u].totalWon \in Nat
  BY DEF TypeOK, WalletType, Wallets
<1> QED BY <1>1 DEF WalletMoved, WalletAdds, Part

\* What it counts when a stake was taken.
LEMMA DebitPart ==
  ASSUME TypeOK, NEW v \in Users, NEW stake \in Nat, NEW payout \in Nat, NEW hold \in Nat,
         Debit(v, stake, payout, hold)
  PROVE  WalletAdds(v, stake, payout)
<1>1. WalletMoved(v, payout - stake, wallet[v].lockedBalance + hold, stake, payout)
  BY DebitMoves DEF TypeOK
<1> DEFINE net == payout - stake
           locked == wallet[v].lockedBalance + hold
<1>2. WalletMoved(v, net, locked, stake, payout)
  BY <1>1
<1> HIDE DEF net, locked
<1> QED BY <1>2, WalletPart

\* What happens elsewhere counts nothing.
LEMMA ElsewherePart ==
  ASSUME TypeOK, Elsewhere, NEW v
  PROVE  WalletAdds(v, 0, 0) /\ BetsAdd(v, 0, 0, 0) /\ SessionsAdd(v, 0, 0)
<1>1. ASSUME NEW w \in Users, CreditWallet(w)
      PROVE  WalletAdds(v, 0, 0)
  <2>1. PICK amount \in DepositAmounts :
          WalletMoved(w, amount, wallet[w].lockedBalance, 0, 0)
    BY <1>1, CreditMoves DEF TypeOK
  <2> DEFINE locked == wallet[w].lockedBalance
  <2>2. WalletMoved(w, amount, locked, 0, 0)
    BY <2>1
  <2> HIDE DEF locked
  <2>3. WalletAdds(w, 0, 0)
    BY <2>2, WalletPart
  <2> QED BY <2>3 DEF WalletAdds, Part
<1> QED BY <1>1, NothingAdded DEF Elsewhere

\* What placeBet moves, statement by statement.
LEMMA BetMovements ==
  ASSUME TypeOK, RefInv, NEW r \in Requests, BetWrites(r)
  PROVE  LET v == req[r].user
             stake == req[r].stake
             payout == req[r].payout
         IN /\ SettleWallet(r) =>
                 /\ BetsAdd(v, 0, 0, 0) /\ SessionsAdd(v, 0, 0)
                 /\ \/ req'[r] = Idle /\ WalletAdds(v, 0, 0)
                    \/ GoesOn(r, "insert") /\ WalletAdds(v, stake, payout)
            /\ InsertSettledBet(r) =>
                 WalletAdds(v, 0, 0) /\ BetsAdd(v, stake, 0, 0) /\ SessionsAdd(v, 0, 0)
            /\ InsertBetLedger(r) =>
                 WalletAdds(v, 0, 0) /\ BetsAdd(v, 0, stake, payout) /\ SessionsAdd(v, 0, 0)
            /\ BumpSettledBet(r) =>
                 WalletAdds(v, 0, 0) /\ BetsAdd(v, 0, 0, 0) /\ SessionsAdd(v, stake, payout)
            /\ ConsumeForcedRound(r) =>
                 WalletAdds(v, 0, 0) /\ BetsAdd(v, 0, 0, 0) /\ SessionsAdd(v, 0, 0)
<1> DEFINE v == req[r].user
           stake == req[r].stake
           payout == req[r].payout
<1> USE DEF TypeOK
<1>1. req[r] \in Active
  BY BetWriting
<1>2. v \in Users /\ stake \in Nat /\ payout \in Nat
  BY <1>1 DEF Active
<1>3. RefersTo(req[r], session, bet)
  BY DEF RefInv
<1>4. \A u : Part(u, v, 0) = 0
  BY DEF Part
<1> HIDE DEF v, stake, payout
<1>5. SettleWallet(r) =>
        /\ BetsAdd(v, 0, 0, 0) /\ SessionsAdd(v, 0, 0)
        /\ \/ req'[r] = Idle /\ WalletAdds(v, 0, 0)
           \/ GoesOn(r, "insert") /\ WalletAdds(v, stake, payout)
  <2> SUFFICES ASSUME SettleWallet(r)
               PROVE  /\ BetsAdd(v, 0, 0, 0) /\ SessionsAdd(v, 0, 0)
                      /\ \/ req'[r] = Idle /\ WalletAdds(v, 0, 0)
                         \/ GoesOn(r, "insert") /\ WalletAdds(v, stake, payout)
    OBVIOUS
  <2>1. BetsAdd(v, 0, 0, 0) /\ SessionsAdd(v, 0, 0)
    BY NothingAdded DEF SettleWallet
  <2>2. \/ req'[r] = Idle /\ UNCHANGED wallet
        \/ GoesOn(r, "insert") /\ Debit(v, stake, payout, 0)
    BY BetWriting DEF v, stake, payout
  <2>3. Debit(v, stake, payout, 0) => WalletAdds(v, stake, payout)
    BY <1>2, DebitPart
  <2> QED BY <2>1, <2>2, <2>3, NothingAdded
<1>6. InsertSettledBet(r) =>
        WalletAdds(v, 0, 0) /\ BetsAdd(v, stake, 0, 0) /\ SessionsAdd(v, 0, 0)
  <2> SUFFICES ASSUME InsertSettledBet(r)
               PROVE  WalletAdds(v, 0, 0) /\ BetsAdd(v, stake, 0, 0) /\ SessionsAdd(v, 0, 0)
    OBVIOUS
  <2>1. NewRow(r)
    BY BetInserted
  <2>2. BetsAdd(v, stake, 0, 0)
    <3>1. ASSUME NEW u \in Users
          PROVE  /\ Staked(u)' = Staked(u) + Part(u, v, stake)
                 /\ StakesBooked(u)' = StakesBooked(u) + 0
                 /\ PayoutsBooked(u)' = PayoutsBooked(u) + 0
      BY <1>2, <2>1, SumsAfterInsert, SumsAreNatural DEF v, stake
    <3> QED BY <1>4, <3>1 DEF BetsAdd
  <2> QED BY <2>2, NothingAdded DEF InsertSettledBet
<1>7. InsertBetLedger(r) =>
        WalletAdds(v, 0, 0) /\ BetsAdd(v, 0, stake, payout) /\ SessionsAdd(v, 0, 0)
  <2> SUFFICES ASSUME InsertBetLedger(r)
               PROVE  WalletAdds(v, 0, 0) /\ BetsAdd(v, 0, stake, payout) /\ SessionsAdd(v, 0, 0)
    OBVIOUS
  <2> DEFINE i == req[r].ref
             n == IF req[r].payout > 0 THEN 1 ELSE 0
  <2>1. i \in DOMAIN bet /\ bet[i].user = v /\ UNCHANGED bet
    BY <1>3 DEF InsertBetLedger, At, RefersTo, Owns, Betting, v
  <2>2. EntryUpdated(i, stake, payout, n) /\ n \in Nat
    BY LedgerRowsWritten DEF stake, payout
  <2> HIDE DEF n, i
  <2>3. BetsAdd(v, 0, stake, payout)
    <3>1. ASSUME NEW u \in Users
          PROVE  /\ Staked(u)' = Staked(u) + 0
                 /\ StakesBooked(u)' = StakesBooked(u) + Part(u, v, stake)
                 /\ PayoutsBooked(u)' = PayoutsBooked(u) + Part(u, v, payout)
      <4>1. /\ Staked(u)' = Staked(u)
            /\ StakesBooked(u)' = StakesBooked(u) + Part(u, v, stake)
            /\ PayoutsBooked(u)' = PayoutsBooked(u) + Part(u, v, payout)
        BY <1>2, <2>1, <2>2, SumsAfterBooking
      <4> QED BY <4>1, SumsAreNatural
    <3> QED BY <1>4, <3>1 DEF BetsAdd
  <2> QED BY <2>3, NothingAdded DEF InsertBetLedger
<1>8. BumpSettledBet(r) =>
        WalletAdds(v, 0, 0) /\ BetsAdd(v, 0, 0, 0) /\ SessionsAdd(v, stake, payout)
  <2> SUFFICES ASSUME BumpSettledBet(r)
               PROVE  WalletAdds(v, 0, 0) /\ BetsAdd(v, 0, 0, 0) /\ SessionsAdd(v, stake, payout)
    OBVIOUS
  <2> DEFINE s == req[r].sid
  <2>1. s \in DOMAIN session /\ session[s].user = v
    BY <1>3 DEF BumpSettledBet, At, RefersTo, Playing, Betting, v
  <2>2. BumpSession(s, stake, payout)
    BY DEF BumpSettledBet, stake, payout
  <2> HIDE DEF s
  <2>3. SessionsAdd(v, stake, payout)
    BY <1>2, <2>1, <2>2, SumsAfterBump DEF SessionsAdd
  <2> QED BY <2>3, NothingAdded DEF BumpSettledBet
<1>9. ConsumeForcedRound(r) =>
        WalletAdds(v, 0, 0) /\ BetsAdd(v, 0, 0, 0) /\ SessionsAdd(v, 0, 0)
  BY NothingAdded DEF ConsumeForcedRound
<1> QED BY <1>5, <1>6, <1>7, <1>8, <1>9 DEF v, stake, payout

\* What Mines and Towers move, statement by statement.
LEMMA RoundMovements ==
  ASSUME TypeOK, RefInv, NEW r \in Requests, NEW g \in GridGames, RoundWrites(r, g)
  PROVE  LET v == req[r].user
             stake == req[r].stake
             payout == req[r].payout
         IN /\ HoldStake(r, g) =>
                 /\ BetsAdd(v, 0, 0, 0) /\ SessionsAdd(v, 0, 0)
                 /\ \/ req'[r] = Idle /\ WalletAdds(v, 0, 0)
                    \/ GoesOn(r, "insert") /\ WalletAdds(v, stake, 0)
            /\ InsertOpenRound(r, g) =>
                 WalletAdds(v, 0, 0) /\ BetsAdd(v, stake, 0, 0) /\ SessionsAdd(v, 0, 0)
            /\ InsertStakeRow(r, g) =>
                 WalletAdds(v, 0, 0) /\ BetsAdd(v, 0, stake, 0) /\ SessionsAdd(v, 0, 0)
            /\ BumpStartedRound(r, g) =>
                 WalletAdds(v, 0, 0) /\ BetsAdd(v, 0, 0, 0) /\ SessionsAdd(v, stake, 0)
            /\ ReleaseStake(r, g) =>
                 WalletAdds(v, 0, 0) /\ BetsAdd(v, 0, 0, 0) /\ SessionsAdd(v, 0, 0)
            /\ CloseLostRound(r, g) =>
                 WalletAdds(v, 0, 0) /\ BetsAdd(v, 0, 0, 0) /\ SessionsAdd(v, 0, 0)
            /\ RaiseMultiplier(r, g) =>
                 WalletAdds(v, 0, 0) /\ BetsAdd(v, 0, 0, 0) /\ SessionsAdd(v, 0, 0)
            /\ CloseCashedOutRound(r, g) =>
                 WalletAdds(v, 0, 0) /\ BetsAdd(v, 0, 0, 0) /\ SessionsAdd(v, 0, 0)
            /\ CreditPayout(r, g) =>
                 WalletAdds(v, 0, payout) /\ BetsAdd(v, 0, 0, 0) /\ SessionsAdd(v, 0, 0)
            /\ InsertPayoutRow(r, g) =>
                 WalletAdds(v, 0, 0) /\ BetsAdd(v, 0, 0, payout) /\ SessionsAdd(v, 0, 0)
            /\ BumpCashedOutRound(r, g) =>
                 WalletAdds(v, 0, 0) /\ BetsAdd(v, 0, 0, 0) /\ SessionsAdd(v, 0, payout)
<1> DEFINE v == req[r].user
           stake == req[r].stake
           payout == req[r].payout
<1> USE DEF TypeOK, Step
<1>1. req[r] \in Active
  BY RoundWriting
<1>2. v \in Users /\ stake \in Nat /\ payout \in Nat
  BY <1>1 DEF Active
<1>3. RefersTo(req[r], session, bet)
  BY DEF RefInv
<1>4. \A u : Part(u, v, 0) = 0
  BY DEF Part
<1> HIDE DEF v, stake, payout
<1>5. HoldStake(r, g) =>
        /\ BetsAdd(v, 0, 0, 0) /\ SessionsAdd(v, 0, 0)
        /\ \/ req'[r] = Idle /\ WalletAdds(v, 0, 0)
           \/ GoesOn(r, "insert") /\ WalletAdds(v, stake, 0)
  <2> SUFFICES ASSUME HoldStake(r, g)
               PROVE  /\ BetsAdd(v, 0, 0, 0) /\ SessionsAdd(v, 0, 0)
                      /\ \/ req'[r] = Idle /\ WalletAdds(v, 0, 0)
                         \/ GoesOn(r, "insert") /\ WalletAdds(v, stake, 0)
    OBVIOUS
  <2>1. BetsAdd(v, 0, 0, 0) /\ SessionsAdd(v, 0, 0)
    BY NothingAdded DEF HoldStake
  <2>2. \/ req'[r] = Idle /\ UNCHANGED wallet
        \/ GoesOn(r, "insert") /\ Debit(v, stake, 0, stake)
    BY RoundWriting DEF v, stake
  <2>3. Debit(v, stake, 0, stake) => WalletAdds(v, stake, 0)
    BY <1>2, DebitPart
  <2> QED BY <2>1, <2>2, <2>3, NothingAdded
<1>6. InsertOpenRound(r, g) =>
        WalletAdds(v, 0, 0) /\ BetsAdd(v, stake, 0, 0) /\ SessionsAdd(v, 0, 0)
  <2> SUFFICES ASSUME InsertOpenRound(r, g)
               PROVE  WalletAdds(v, 0, 0) /\ BetsAdd(v, stake, 0, 0) /\ SessionsAdd(v, 0, 0)
    OBVIOUS
  <2>1. NewRow(r)
    BY BetInserted
  <2>2. BetsAdd(v, stake, 0, 0)
    <3>1. ASSUME NEW u \in Users
          PROVE  /\ Staked(u)' = Staked(u) + Part(u, v, stake)
                 /\ StakesBooked(u)' = StakesBooked(u) + 0
                 /\ PayoutsBooked(u)' = PayoutsBooked(u) + 0
      BY <1>2, <2>1, SumsAfterInsert, SumsAreNatural DEF v, stake
    <3> QED BY <1>4, <3>1 DEF BetsAdd
  <2> QED BY <2>2, NothingAdded DEF InsertOpenRound
<1>7. ASSUME NEW staked \in Nat, NEW paid \in Nat, NEW payouts \in Nat,
             InsertStakeRow(r, g) \/ InsertPayoutRow(r, g),
             EntryUpdated(req[r].ref, staked, paid, payouts)
      PROVE  WalletAdds(v, 0, 0) /\ BetsAdd(v, 0, staked, paid) /\ SessionsAdd(v, 0, 0)
  <2> DEFINE i == req[r].ref
  <2>1. i \in DOMAIN bet /\ bet[i].user = v /\ UNCHANGED bet
    BY <1>3, <1>7 DEF InsertStakeRow, InsertPayoutRow, At, RefersTo, Owns, Betting, Settling, v
  <2>2. EntryUpdated(i, staked, paid, payouts)
    BY <1>7
  <2> HIDE DEF i
  <2>3. BetsAdd(v, 0, staked, paid)
    <3>1. ASSUME NEW u \in Users
          PROVE  /\ Staked(u)' = Staked(u) + 0
                 /\ StakesBooked(u)' = StakesBooked(u) + Part(u, v, staked)
                 /\ PayoutsBooked(u)' = PayoutsBooked(u) + Part(u, v, paid)
      BY <2>1, <2>2, SumsAfterBooking, SumsAreNatural
    <3> QED BY <1>4, <3>1 DEF BetsAdd
  <2> QED BY <1>7, <2>3, NothingAdded DEF InsertStakeRow, InsertPayoutRow
<1>8. /\ InsertStakeRow(r, g) =>
           WalletAdds(v, 0, 0) /\ BetsAdd(v, 0, stake, 0) /\ SessionsAdd(v, 0, 0)
      /\ InsertPayoutRow(r, g) =>
           WalletAdds(v, 0, 0) /\ BetsAdd(v, 0, 0, payout) /\ SessionsAdd(v, 0, 0)
  BY <1>2, <1>7, LedgerRowsWritten DEF stake, payout
<1>9. ASSUME NEW staked \in Nat, NEW won \in Nat,
             BumpStartedRound(r, g) \/ BumpCashedOutRound(r, g),
             BumpSession(req[r].sid, staked, won)
      PROVE  WalletAdds(v, 0, 0) /\ BetsAdd(v, 0, 0, 0) /\ SessionsAdd(v, staked, won)
  <2> DEFINE s == req[r].sid
  <2>1. s \in DOMAIN session /\ session[s].user = v
    BY <1>3, <1>9 DEF BumpStartedRound, BumpCashedOutRound, At, RefersTo, Playing, Betting, Settling, v
  <2>2. BumpSession(s, staked, won)
    BY <1>9
  <2> HIDE DEF s
  <2>3. SessionsAdd(v, staked, won)
    BY <2>1, <2>2, SumsAfterBump DEF SessionsAdd
  <2> QED BY <1>9, <2>3, NothingAdded DEF BumpStartedRound, BumpCashedOutRound
<1>10. /\ BumpStartedRound(r, g) =>
            WalletAdds(v, 0, 0) /\ BetsAdd(v, 0, 0, 0) /\ SessionsAdd(v, stake, 0)
       /\ BumpCashedOutRound(r, g) =>
            WalletAdds(v, 0, 0) /\ BetsAdd(v, 0, 0, 0) /\ SessionsAdd(v, 0, payout)
  BY <1>2, <1>9 DEF BumpStartedRound, BumpCashedOutRound, stake, payout
<1>11. ASSUME CloseLostRound(r, g) \/ RaiseMultiplier(r, g) \/ CloseCashedOutRound(r, g)
       PROVE  WalletAdds(v, 0, 0) /\ BetsAdd(v, 0, 0, 0) /\ SessionsAdd(v, 0, 0)
  <2>1. UNCHANGED <<wallet, session, ledger>>
    BY <1>11 DEF CloseLostRound, RaiseMultiplier, CloseCashedOutRound
  <2>2. BetUpdated(req[r].ref)
    BY <1>11, BetRowsWritten
  <2>3. ASSUME NEW u \in Users
        PROVE  /\ Staked(u)' = Staked(u) + 0 /\ StakesBooked(u)' = StakesBooked(u) + 0
               /\ PayoutsBooked(u)' = PayoutsBooked(u) + 0
    BY <2>1, <2>2, SumsAfterUpdate, SumsAreNatural
  <2> QED BY <1>4, <2>1, <2>3, NothingAdded DEF BetsAdd
<1>12. ASSUME ReleaseStake(r, g)
       PROVE  WalletAdds(v, 0, 0) /\ BetsAdd(v, 0, 0, 0) /\ SessionsAdd(v, 0, 0)
  <2> DEFINE locked == Released(r)
  <2>1. WalletMoved(v, 0, locked, 0, 0)
    BY <1>12, ReleaseMoves DEF v
  <2> HIDE DEF locked
  <2>3. WalletAdds(v, 0, 0)
    BY <1>2, <2>1, WalletPart
  <2> QED BY <1>2, <1>12, <2>3, NothingAdded DEF ReleaseStake
<1>13. ASSUME CreditPayout(r, g)
       PROVE  WalletAdds(v, 0, payout) /\ BetsAdd(v, 0, 0, 0) /\ SessionsAdd(v, 0, 0)
  <2> DEFINE locked == Released(r)
  <2>1. WalletMoved(v, payout, locked, 0, payout)
    BY <1>13, ReleaseMoves DEF v, payout
  <2> HIDE DEF locked
  <2>3. WalletAdds(v, 0, payout)
    BY <1>2, <2>1, WalletPart
  <2> QED BY <1>2, <1>13, <2>3, NothingAdded DEF CreditPayout
<1> QED BY <1>5, <1>6, <1>8, <1>10, <1>11, <1>12, <1>13 DEF v, stake, payout

---------------------------------------------------------------------------
(* What handlers in flight still owe the tables *)

\* The statements that move a stake or a payout on: a debited stake to insert, to book and
\* to count, a credited payout to book and to show in the session.
Flows == {"insert", "book", "count", "pay", "show"}

Due(h, k) ==
  CASE k = "insert" -> IF h.op \in Betting /\ h.pc = "insert" THEN h.stake ELSE 0
    [] k = "book"   -> IF h.op \in Betting /\ h.pc = "ledger" THEN h.stake ELSE 0
    [] k = "count"  -> IF h.op \in Betting /\ h.pc = "bump" THEN h.stake ELSE 0
    [] k = "pay"    -> IF \/ h.op = "placeBet" /\ h.pc \in {"insert", "ledger"}
                          \/ h.op = "cashOut" /\ h.pc \in {"settle", "ledger"}
                       THEN h.payout ELSE 0
    [] k = "show"   -> IF h.op \in {"placeBet", "cashOut"} /\ h.pc = "bump"
                       THEN h.payout ELSE 0

Owed(k) == [r \in Requests |-> Due(req[r], k)]
Pending(u, k) == SumOver(Owed(k), InFlight(u))

\* What x tells is what y tells, and more only after a handler failed.
Covers(x, y) == x >= y /\ (failures = 0 => x = y)

\* Each table knows what the one before it knows, but for what is pending in between.
FlowInv ==
  \A u \in Users :
    /\ IsFiniteSet(InFlight(u))
    /\ Covers(wallet[u].totalWagered, Staked(u) + Pending(u, "insert"))
    /\ Covers(Staked(u), StakesBooked(u) + Pending(u, "book"))
    /\ Covers(StakesBooked(u), StakesCounted(u) + Pending(u, "count"))
    /\ Covers(wallet[u].totalWon, PayoutsBooked(u) + Pending(u, "pay"))
    /\ Covers(PayoutsBooked(u), PayoutsCounted(u) + Pending(u, "show"))

\* What a handler owes is a natural number, and an idle slot owes nothing.
LEMMA DueType ==
  ASSUME NEW h \in Handlers, NEW k \in Flows
  PROVE  Due(h, k) \in Nat /\ Due(Idle, k) = 0
<1>1. h.stake \in Nat /\ h.payout \in Nat
  BY DEF Handlers, Active, Idle
<1>2. Idle.stake = 0 /\ Idle.payout = 0
  BY DEF Idle
<1> QED BY <1>1, <1>2 DEF Due, Flows

\* What one handler's step changes of what its player's handlers owe.
LEMMA PendingStep ==
  ASSUME HandlerType, HandlerType', NEW r \in Requests, Others(r), NEW u,
         IsFiniteSet(InFlight(u)), NEW k \in Flows
  PROVE  /\ IsFiniteSet(InFlight(u))'
         /\ Pending(u, k) \in Nat /\ Pending(u, k)' \in Nat
         /\ Pending(u, k)' + Part(req[r].user, u, Due(req[r], k))
              = Pending(u, k) + Part(req'[r].user, u, Due(req'[r], k))
<1> DEFINE S == InFlight(u)
           T == InFlight(u)'
           f == Owed(k)
           g == Owed(k)'
<1>1. \A q \in Requests : f[q] = Due(req[q], k) /\ g[q] = Due(req'[q], k)
  BY DEF Owed
<1>2. \A q \in Requests : f[q] \in Nat /\ g[q] \in Nat
  <2>1. \A q \in Requests : req[q] \in Handlers /\ req'[q] \in Handlers
    BY DEF HandlerType
  <2> QED BY <1>1, <2>1, DueType
<1>3. /\ S \subseteq Requests /\ T \subseteq Requests
      /\ (r \in S <=> req[r].user = u) /\ (r \in T <=> req'[r].user = u)
      /\ S \ {r} = T \ {r}
  BY DEF InFlight, Others
<1>4. \A q \in S \ {r} : f[q] = g[q]
  <2> HIDE DEF f, g
  <2> QED BY <1>1, <1>3 DEF Others
<1>5. IsFiniteSet(S)
  OBVIOUS
<1>6. \A q \in S : f[q] \in Nat
  BY <1>2, <1>3
<1>7. \A q \in T : g[q] \in Nat
  BY <1>2, <1>3
<1> HIDE DEF S, T, f, g
<1>8. /\ IsFiniteSet(T)
      /\ SumOver(f, S) \in Nat /\ SumOver(g, T) \in Nat
      /\ SumOver(g, T) + Share(f, S, r) = SumOver(f, S) + Share(g, T, r)
  <2>1. S \ {r} = T \ {r}
    BY <1>3
  <2>2. \A x \in S \ {r} : f[x] = g[x]
    BY <1>4
  <2>3. \A x \in S : f[x] \in Nat
    BY <1>6
  <2>4. \A x \in T : g[x] \in Nat
    BY <1>7
  <2>5. IsFiniteSet(T)
    BY <1>5, <2>1, <2>2, <2>3, <2>4, SumChange
  <2>6. SumOver(g, T) + Share(f, S, r) = SumOver(f, S) + Share(g, T, r)
    BY <1>5, <2>1, <2>2, <2>3, <2>4, SumChange
  <2>7. SumOver(f, S) \in Nat /\ SumOver(g, T) \in Nat
    BY <1>5, <2>3, <2>4, <2>5, SumType
  <2> QED BY <2>5, <2>6, <2>7
<1>9. /\ Share(f, S, r) = Part(req[r].user, u, Due(req[r], k))
      /\ Share(g, T, r) = Part(req'[r].user, u, Due(req'[r], k))
  BY <1>1, <1>3 DEF Share, Part
<1>10. Pending(u, k) = SumOver(f, S) /\ Pending(u, k)' = SumOver(g, T)
  BY DEF Pending, f, g, S, T
<1> QED BY <1>8, <1>9, <1>10 DEF T

\* Nothing in flight changes what is pending when no handler moves.
LEMMA PendingStays ==
  ASSUME HandlerType, UNCHANGED req, NEW u, IsFiniteSet(InFlight(u)), NEW k \in Flows
  PROVE  /\ IsFiniteSet(InFlight(u))'
         /\ Pending(u, k) \in Nat /\ Pending(u, k)' = Pending(u, k)
<1>1. InFlight(u)' = InFlight(u) /\ Owed(k)' = Owed(k)
  BY DEF InFlight, Owed
<1>2. \A q \in InFlight(u) : Owed(k)[q] \in Nat
  <2>1. \A q \in Requests : req[q] \in Handlers
    BY DEF HandlerType
  <2> QED BY <2>1, DueType DEF InFlight, Owed
<1>3. SumOver(Owed(k), InFlight(u)) \in Nat
  <2> DEFINE f == Owed(k)
  <2>1. \A q \in InFlight(u) : f[q] \in Nat
    BY <1>2
  <2> HIDE DEF f
  <2>2. SumOver(f, InFlight(u)) \in Nat
    BY <2>1, SumType
  <2> QED BY <2>2 DEF f
<1> QED BY <1>1, <1>3 DEF Pending

\* A step that takes from what a handler owed what it adds to the next table.
Balanced(h, k, wagered, staked, booked, counted, won, paid, shown) ==
  /\ Due(k, "insert") + staked = Due(h, "insert") + wagered
  /\ Due(k, "book") + booked = Due(h, "book") + staked
  /\ Due(k, "count") + counted = Due(h, "count") + booked
  /\ Due(k, "pay") + paid = Due(h, "pay") + won
  /\ Due(k, "show") + shown = Due(h, "show") + paid

\* A balanced step keeps the tables in step with what is pending.
LEMMA FlowKeptBy ==
  ASSUME TypeOK, HandlerType', FlowInv, UNCHANGED failures,
         NEW r \in Requests, Others(r), NEW v,
         req[r].user = v \/ \A k \in Flows : Due(req[r], k) = 0,
         req'[r].user = v \/ \A k \in Flows : Due(req'[r], k) = 0,
         NEW wagered \in Nat, NEW staked \in Nat, NEW booked \in Nat, NEW counted \in Nat,
         NEW won \in Nat, NEW paid \in Nat, NEW shown \in Nat,
         Balanced(req[r], req'[r], wagered, staked, booked, counted, won, paid, shown),
         WalletAdds(v, wagered, won), BetsAdd(v, staked, booked, paid),
         SessionsAdd(v, counted, shown)
  PROVE  FlowInv'
<1> SUFFICES ASSUME NEW u \in Users
             PROVE  /\ IsFiniteSet(InFlight(u))'
                    /\ Covers(wallet[u].totalWagered, Staked(u) + Pending(u, "insert"))'
                    /\ Covers(Staked(u), StakesBooked(u) + Pending(u, "book"))'
                    /\ Covers(StakesBooked(u), StakesCounted(u) + Pending(u, "count"))'
                    /\ Covers(wallet[u].totalWon, PayoutsBooked(u) + Pending(u, "pay"))'
                    /\ Covers(PayoutsBooked(u), PayoutsCounted(u) + Pending(u, "show"))'
  BY DEF FlowInv
<1> DEFINE W == wallet[u].totalWagered
           O == wallet[u].totalWon
<1>1. W \in Nat /\ O \in Nat
  BY DEF TypeOK, WalletType, Wallets
<1>2. HandlerType /\ IsFiniteSet(InFlight(u))
  BY DEF TypeOK, FlowInv
<1>3. req[r] \in Handlers /\ req'[r] \in Handlers
  BY <1>2 DEF HandlerType
<1>4. \A k \in Flows : Due(req[r], k) \in Nat /\ Due(req'[r], k) \in Nat
  BY <1>3, DueType
<1>5. \A k \in Flows : /\ Part(req[r].user, u, Due(req[r], k)) = Part(u, v, Due(req[r], k))
                       /\ Part(req'[r].user, u, Due(req'[r], k)) = Part(u, v, Due(req'[r], k))
  BY DEF Part
<1> DEFINE d(k) == Part(u, v, Due(req[r], k))
           d2(k) == Part(u, v, Due(req'[r], k))
<1>6. \A k \in Flows : /\ IsFiniteSet(InFlight(u))'
                       /\ Pending(u, k) \in Nat /\ Pending(u, k)' \in Nat
                       /\ Pending(u, k)' + d(k) = Pending(u, k) + d2(k)
  BY <1>2, <1>5, PendingStep
<1>7. /\ \A k \in Flows : d(k) \in Nat /\ d2(k) \in Nat
      /\ \A n \in Nat : Part(u, v, n) \in Nat
  BY <1>4 DEF Part
<1>8. /\ d2("insert") + Part(u, v, staked) = d("insert") + Part(u, v, wagered)
      /\ d2("book") + Part(u, v, booked) = d("book") + Part(u, v, staked)
      /\ d2("count") + Part(u, v, counted) = d("count") + Part(u, v, booked)
      /\ d2("pay") + Part(u, v, paid) = d("pay") + Part(u, v, won)
      /\ d2("show") + Part(u, v, shown) = d("show") + Part(u, v, paid)
  BY DEF Balanced, Part
<1>9. /\ wallet'[u].totalWagered = W + Part(u, v, wagered)
      /\ wallet'[u].totalWon = O + Part(u, v, won)
      /\ Staked(u)' = Staked(u) + Part(u, v, staked)
      /\ StakesBooked(u)' = StakesBooked(u) + Part(u, v, booked)
      /\ PayoutsBooked(u)' = PayoutsBooked(u) + Part(u, v, paid)
      /\ StakesCounted(u)' = StakesCounted(u) + Part(u, v, counted)
      /\ PayoutsCounted(u)' = PayoutsCounted(u) + Part(u, v, shown)
  BY DEF WalletAdds, BetsAdd, SessionsAdd
<1>10. /\ Staked(u) \in Nat /\ StakesBooked(u) \in Nat /\ StakesCounted(u) \in Nat
       /\ PayoutsBooked(u) \in Nat /\ PayoutsCounted(u) \in Nat
  BY SumsAreNatural
<1>11. /\ Covers(W, Staked(u) + Pending(u, "insert"))
       /\ Covers(Staked(u), StakesBooked(u) + Pending(u, "book"))
       /\ Covers(StakesBooked(u), StakesCounted(u) + Pending(u, "count"))
       /\ Covers(O, PayoutsBooked(u) + Pending(u, "pay"))
       /\ Covers(PayoutsBooked(u), PayoutsCounted(u) + Pending(u, "show"))
  BY DEF FlowInv
<1> HIDE DEF W, O, d, d2
<1> USE DEF Flows
<1>12. Covers(wallet[u].totalWagered, Staked(u) + Pending(u, "insert"))'
  <2>1. /\ Pending(u, "insert") \in Nat /\ Pending(u, "insert")' \in Nat
        /\ Pending(u, "insert")' + d("insert") = Pending(u, "insert") + d2("insert")
        /\ d("insert") \in Nat /\ d2("insert") \in Nat
        /\ Part(u, v, wagered) \in Nat /\ Part(u, v, staked) \in Nat
        /\ d2("insert") + Part(u, v, staked) = d("insert") + Part(u, v, wagered)
    BY <1>6, <1>7, <1>8
  <2>2. /\ wallet'[u].totalWagered = W + Part(u, v, wagered)
        /\ Staked(u)' = Staked(u) + Part(u, v, staked)
        /\ W \in Nat /\ Staked(u) \in Nat /\ Covers(W, Staked(u) + Pending(u, "insert"))
    BY <1>1, <1>9, <1>10, <1>11
  <2> QED BY <2>1, <2>2 DEF Covers
<1>13. Covers(Staked(u), StakesBooked(u) + Pending(u, "book"))'
  <2>1. /\ Pending(u, "book") \in Nat /\ Pending(u, "book")' \in Nat
        /\ Pending(u, "book")' + d("book") = Pending(u, "book") + d2("book")
        /\ d("book") \in Nat /\ d2("book") \in Nat
        /\ Part(u, v, staked) \in Nat /\ Part(u, v, booked) \in Nat
        /\ d2("book") + Part(u, v, booked) = d("book") + Part(u, v, staked)
    BY <1>6, <1>7, <1>8
  <2>2. /\ Staked(u)' = Staked(u) + Part(u, v, staked)
        /\ StakesBooked(u)' = StakesBooked(u) + Part(u, v, booked)
        /\ Staked(u) \in Nat /\ StakesBooked(u) \in Nat /\ Covers(Staked(u), StakesBooked(u) + Pending(u, "book"))
    BY <1>1, <1>9, <1>10, <1>11
  <2> QED BY <2>1, <2>2 DEF Covers
<1>14. Covers(StakesBooked(u), StakesCounted(u) + Pending(u, "count"))'
  <2>1. /\ Pending(u, "count") \in Nat /\ Pending(u, "count")' \in Nat
        /\ Pending(u, "count")' + d("count") = Pending(u, "count") + d2("count")
        /\ d("count") \in Nat /\ d2("count") \in Nat
        /\ Part(u, v, booked) \in Nat /\ Part(u, v, counted) \in Nat
        /\ d2("count") + Part(u, v, counted) = d("count") + Part(u, v, booked)
    BY <1>6, <1>7, <1>8
  <2>2. /\ StakesBooked(u)' = StakesBooked(u) + Part(u, v, booked)
        /\ StakesCounted(u)' = StakesCounted(u) + Part(u, v, counted)
        /\ StakesBooked(u) \in Nat /\ StakesCounted(u) \in Nat /\ Covers(StakesBooked(u), StakesCounted(u) + Pending(u, "count"))
    BY <1>1, <1>9, <1>10, <1>11
  <2> QED BY <2>1, <2>2 DEF Covers
<1>15. Covers(wallet[u].totalWon, PayoutsBooked(u) + Pending(u, "pay"))'
  <2>1. /\ Pending(u, "pay") \in Nat /\ Pending(u, "pay")' \in Nat
        /\ Pending(u, "pay")' + d("pay") = Pending(u, "pay") + d2("pay")
        /\ d("pay") \in Nat /\ d2("pay") \in Nat
        /\ Part(u, v, won) \in Nat /\ Part(u, v, paid) \in Nat
        /\ d2("pay") + Part(u, v, paid) = d("pay") + Part(u, v, won)
    BY <1>6, <1>7, <1>8
  <2>2. /\ wallet'[u].totalWon = O + Part(u, v, won)
        /\ PayoutsBooked(u)' = PayoutsBooked(u) + Part(u, v, paid)
        /\ O \in Nat /\ PayoutsBooked(u) \in Nat /\ Covers(O, PayoutsBooked(u) + Pending(u, "pay"))
    BY <1>1, <1>9, <1>10, <1>11
  <2> QED BY <2>1, <2>2 DEF Covers
<1>16. Covers(PayoutsBooked(u), PayoutsCounted(u) + Pending(u, "show"))'
  <2>1. /\ Pending(u, "show") \in Nat /\ Pending(u, "show")' \in Nat
        /\ Pending(u, "show")' + d("show") = Pending(u, "show") + d2("show")
        /\ d("show") \in Nat /\ d2("show") \in Nat
        /\ Part(u, v, paid) \in Nat /\ Part(u, v, shown) \in Nat
        /\ d2("show") + Part(u, v, shown) = d("show") + Part(u, v, paid)
    BY <1>6, <1>7, <1>8
  <2>2. /\ PayoutsBooked(u)' = PayoutsBooked(u) + Part(u, v, paid)
        /\ PayoutsCounted(u)' = PayoutsCounted(u) + Part(u, v, shown)
        /\ PayoutsBooked(u) \in Nat /\ PayoutsCounted(u) \in Nat /\ Covers(PayoutsBooked(u), PayoutsCounted(u) + Pending(u, "show"))
    BY <1>1, <1>9, <1>10, <1>11
  <2> QED BY <2>1, <2>2 DEF Covers
<1>17. IsFiniteSet(InFlight(u))'
  BY <1>6
<1> QED BY <1>12, <1>13, <1>14, <1>15, <1>16, <1>17

\* A handler that stops owes nothing any more: what it owed is lost, and counted as a failure.
LEMMA FlowKeptByAbort ==
  ASSUME TypeOK, HandlerType', FlowInv, NEW r \in Requests, Others(r), req'[r] = Idle,
         failures' = failures + 1, WalletAdds(Nobody, 0, 0), BetsAdd(Nobody, 0, 0, 0),
         SessionsAdd(Nobody, 0, 0)
  PROVE  FlowInv'
<1> SUFFICES ASSUME NEW u \in Users
             PROVE  /\ IsFiniteSet(InFlight(u))'
                    /\ Covers(wallet[u].totalWagered, Staked(u) + Pending(u, "insert"))'
                    /\ Covers(Staked(u), StakesBooked(u) + Pending(u, "book"))'
                    /\ Covers(StakesBooked(u), StakesCounted(u) + Pending(u, "count"))'
                    /\ Covers(wallet[u].totalWon, PayoutsBooked(u) + Pending(u, "pay"))'
                    /\ Covers(PayoutsBooked(u), PayoutsCounted(u) + Pending(u, "show"))'
  BY DEF FlowInv
<1>1. /\ wallet[u].totalWagered \in Nat /\ wallet[u].totalWon \in Nat
      /\ HandlerType /\ failures \in Nat /\ IsFiniteSet(InFlight(u))
  BY DEF TypeOK, WalletType, Wallets, FlowInv
<1>2. failures' # 0
  BY <1>1
<1>3. \A k \in Flows : /\ Part(req[r].user, u, Due(req[r], k)) \in Nat
                       /\ Part(req'[r].user, u, Due(req'[r], k)) = 0
  <2>1. req[r] \in Handlers /\ Idle \in Handlers
    BY <1>1 DEF HandlerType, Handlers
  <2> QED BY <2>1, DueType DEF Part
<1>4. \A k \in Flows : /\ IsFiniteSet(InFlight(u))'
                       /\ Pending(u, k) \in Nat /\ Pending(u, k)' \in Nat
                       /\ Pending(u, k)' <= Pending(u, k)
  <2> TAKE k \in Flows
  <2>1. /\ IsFiniteSet(InFlight(u))'
        /\ Pending(u, k) \in Nat /\ Pending(u, k)' \in Nat
        /\ Pending(u, k)' + Part(req[r].user, u, Due(req[r], k))
             = Pending(u, k) + Part(req'[r].user, u, Due(req'[r], k))
    BY <1>1, PendingStep
  <2> QED BY <1>3, <2>1
<1>5. /\ wallet'[u].totalWagered = wallet[u].totalWagered
      /\ wallet'[u].totalWon = wallet[u].totalWon
      /\ Staked(u)' = Staked(u) /\ StakesBooked(u)' = StakesBooked(u)
      /\ PayoutsBooked(u)' = PayoutsBooked(u) /\ StakesCounted(u)' = StakesCounted(u)
      /\ PayoutsCounted(u)' = PayoutsCounted(u)
  <2>1. Part(u, Nobody, 0) = 0
    BY DEF Part
  <2> QED BY <1>1, <2>1, SumsAreNatural DEF WalletAdds, BetsAdd, SessionsAdd
<1>6. /\ wallet[u].totalWagered >= Staked(u) + Pending(u, "insert")
      /\ Staked(u) >= StakesBooked(u) + Pending(u, "book")
      /\ StakesBooked(u) >= StakesCounted(u) + Pending(u, "count")
      /\ wallet[u].totalWon >= PayoutsBooked(u) + Pending(u, "pay")
      /\ PayoutsBooked(u) >= PayoutsCounted(u) + Pending(u, "show")
  BY DEF FlowInv, Covers
<1>7. /\ Staked(u) \in Nat /\ StakesBooked(u) \in Nat /\ StakesCounted(u) \in Nat
      /\ PayoutsBooked(u) \in Nat /\ PayoutsCounted(u) \in Nat
  BY SumsAreNatural
<1>8. \A k \in {"insert", "book", "count", "pay", "show"} :
        Pending(u, k) \in Nat /\ Pending(u, k)' \in Nat /\ Pending(u, k)' <= Pending(u, k)
  BY <1>4 DEF Flows
<1>9. \A x, y, p, p2 \in Nat : x >= y + p /\ p2 <= p => x >= y + p2
  OBVIOUS
<1>10. /\ wallet'[u].totalWagered >= Staked(u)' + Pending(u, "insert")'
       /\ Staked(u)' >= StakesBooked(u)' + Pending(u, "book")'
       /\ StakesBooked(u)' >= StakesCounted(u)' + Pending(u, "count")'
       /\ wallet'[u].totalWon >= PayoutsBooked(u)' + Pending(u, "pay")'
       /\ PayoutsBooked(u)' >= PayoutsCounted(u)' + Pending(u, "show")'
  BY <1>1, <1>5, <1>6, <1>7, <1>8, <1>9
<1>11. IsFiniteSet(InFlight(u))'
  BY <1>4 DEF Flows
<1> QED BY <1>2, <1>10, <1>11 DEF Covers

\* What happens elsewhere leaves the flows alone.
LEMMA FlowKeptElsewhere ==
  ASSUME TypeOK, FlowInv, Elsewhere
  PROVE  FlowInv'
<1> SUFFICES ASSUME NEW u \in Users
             PROVE  /\ IsFiniteSet(InFlight(u))'
                    /\ Covers(wallet[u].totalWagered, Staked(u) + Pending(u, "insert"))'
                    /\ Covers(Staked(u), StakesBooked(u) + Pending(u, "book"))'
                    /\ Covers(StakesBooked(u), StakesCounted(u) + Pending(u, "count"))'
                    /\ Covers(wallet[u].totalWon, PayoutsBooked(u) + Pending(u, "pay"))'
                    /\ Covers(PayoutsBooked(u), PayoutsCounted(u) + Pending(u, "show"))'
  BY DEF FlowInv
<1>1. /\ wallet[u].totalWagered \in Nat /\ wallet[u].totalWon \in Nat
      /\ HandlerType /\ IsFiniteSet(InFlight(u)) /\ UNCHANGED <<req, failures>>
  BY DEF TypeOK, WalletType, Wallets, FlowInv, Elsewhere
<1>2. \A k \in Flows : IsFiniteSet(InFlight(u))' /\ Pending(u, k)' = Pending(u, k)
  BY <1>1, PendingStays
<1>3. \A k \in {"insert", "book", "count", "pay", "show"} : Pending(u, k)' = Pending(u, k)
  BY <1>2 DEF Flows
<1>4. /\ wallet'[u].totalWagered = wallet[u].totalWagered
      /\ wallet'[u].totalWon = wallet[u].totalWon
      /\ Staked(u)' = Staked(u) /\ StakesBooked(u)' = StakesBooked(u)
      /\ PayoutsBooked(u)' = PayoutsBooked(u) /\ StakesCounted(u)' = StakesCounted(u)
      /\ PayoutsCounted(u)' = PayoutsCounted(u)
  <2>1. Part(u, Nobody, 0) = 0
    BY DEF Part
  <2>2. WalletAdds(Nobody, 0, 0) /\ BetsAdd(Nobody, 0, 0, 0) /\ SessionsAdd(Nobody, 0, 0)
    BY ElsewherePart
  <2> QED BY <1>1, <2>1, <2>2, SumsAreNatural DEF WalletAdds, BetsAdd, SessionsAdd
<1>5. IsFiniteSet(InFlight(u))'
  BY <1>2 DEF Flows
<1> QED BY <1>1, <1>3, <1>4, <1>5 DEF FlowInv, Covers

\* Only between the debit or the credit and the bump does a handler owe anything.
OwesNothing(h) == \A k \in Flows : Due(h, k) = 0

\* An idle handler, or one before its debit or after its bump, owes nothing.
LEMMA OwesNothingAt ==
  ASSUME NEW h,
         \/ h = Idle \/ h.op \notin {"placeBet", "start", "cashOut"}
         \/ h.pc \notin {"insert", "ledger", "bump", "settle"}
  PROVE  OwesNothing(h)
<1>1. Idle.op \notin {"placeBet", "start", "cashOut"}
  BY DEF Idle
<1> QED BY <1>1 DEF OwesNothing, Due, Flows, Betting

\* A step between statements that owe nothing, and write nothing that is summed, keeps the flows.
LEMMA FlowKeptIdly ==
  ASSUME TypeOK, HandlerType', FlowInv, UNCHANGED failures, NEW r \in Requests, Others(r), NEW v,
         OwesNothing(req[r]), OwesNothing(req'[r]),
         WalletAdds(v, 0, 0), BetsAdd(v, 0, 0, 0), SessionsAdd(v, 0, 0)
  PROVE  FlowInv'
<1>1. Balanced(req[r], req'[r], 0, 0, 0, 0, 0, 0, 0)
  BY DEF OwesNothing, Balanced, Flows
<1>2. /\ req[r].user = v \/ \A k \in Flows : Due(req[r], k) = 0
      /\ req'[r].user = v \/ \A k \in Flows : Due(req'[r], k) = 0
  BY DEF OwesNothing
<1>3. 0 \in Nat
  OBVIOUS
<1> QED BY <1>1, <1>2, <1>3, FlowKeptBy

\* placeBet's writes move what they owe from table to table.
LEMMA FlowKeptByBet ==
  ASSUME TypeOK, HandlerType', RefInv, FlowInv, NEW r \in Requests, BetWrites(r)
  PROVE  FlowInv'
<1> DEFINE h == req[r]
           k == req'[r]
           v == req[r].user
           stake == req[r].stake
           payout == req[r].payout
<1>1. /\ h \in Active /\ Others(r) /\ UNCHANGED failures
      /\ stake \in Nat /\ payout \in Nat /\ v \in Users
  BY BetWriting DEF TypeOK, Active
<1>2. 0 \in Nat
  OBVIOUS
<1>3. ASSUME k.user = v \/ OwesNothing(k),
             NEW wagered \in Nat, NEW staked \in Nat, NEW booked \in Nat, NEW counted \in Nat,
             NEW won \in Nat, NEW paid \in Nat, NEW shown \in Nat,
             Balanced(h, k, wagered, staked, booked, counted, won, paid, shown),
             WalletAdds(v, wagered, won), BetsAdd(v, staked, booked, paid),
             SessionsAdd(v, counted, shown)
      PROVE  FlowInv'
  <2>1. req[r].user = v \/ \A key \in Flows : Due(req[r], key) = 0
    OBVIOUS
  <2>2. req'[r].user = v \/ \A key \in Flows : Due(req'[r], key) = 0
    BY <1>3 DEF OwesNothing
  <2>3. Others(r) /\ UNCHANGED failures
    BY <1>1
  <2>4. Balanced(req[r], req'[r], wagered, staked, booked, counted, won, paid, shown)
    BY <1>3
  <2> HIDE DEF h, k, v
  <2> QED BY <1>3, <2>1, <2>2, <2>3, <2>4, FlowKeptBy
<1> USE DEF Balanced, Due, Betting, At
<1>4. CASE SettleWallet(r) /\ req'[r] = Idle
  <2>1. OwesNothing(req[r]) /\ OwesNothing(req'[r])
    BY <1>4, OwesNothingAt DEF SettleWallet
  <2>2. ~GoesOn(r, "insert")
    BY <1>4 DEF GoesOn, Idle
  <2>3. WalletAdds(v, 0, 0) /\ BetsAdd(v, 0, 0, 0) /\ SessionsAdd(v, 0, 0)
    BY <1>4, <2>2, BetMovements
  <2> HIDE DEF v
  <2> QED BY <1>1, <2>1, <2>3, FlowKeptIdly
<1>5. CASE SettleWallet(r) /\ GoesOn(r, "insert")
  <2>1. WalletAdds(v, stake, payout) /\ BetsAdd(v, 0, 0, 0) /\ SessionsAdd(v, 0, 0)
    BY <1>5, BetMovements DEF GoesOn, Idle
  <2>2. k.user = v
    BY <1>5 DEF GoesOn, SameCall
  <2>3. Balanced(h, k, stake, 0, 0, 0, payout, 0, 0)
    BY <1>1, <1>5 DEF SettleWallet, GoesOn, SameCall
  <2> HIDE DEF h, k, v, stake, payout
  <2> QED BY <1>1, <1>2, <1>3, <2>1, <2>2, <2>3
<1>6. CASE InsertSettledBet(r)
  <2>1. WalletAdds(v, 0, 0) /\ BetsAdd(v, stake, 0, 0) /\ SessionsAdd(v, 0, 0)
    BY <1>6, BetMovements
  <2>2. Inserted(r)
    BY <1>6, BetWriting DEF TypeOK
  <2>3. k.user = v /\ Balanced(h, k, 0, stake, 0, 0, 0, 0, 0)
    BY <1>1, <1>6, <2>2 DEF InsertSettledBet, Inserted
  <2> HIDE DEF h, k, v, stake, payout
  <2> QED BY <1>1, <1>2, <1>3, <2>1, <2>3
<1>7. CASE InsertBetLedger(r)
  <2>1. WalletAdds(v, 0, 0) /\ BetsAdd(v, 0, stake, payout) /\ SessionsAdd(v, 0, 0)
    BY <1>7, BetMovements
  <2>2. GoesOn(r, "bump")
    BY <1>7, BetWriting DEF TypeOK
  <2>3. k.user = v /\ Balanced(h, k, 0, 0, stake, 0, 0, payout, 0)
    BY <1>1, <1>7, <2>2 DEF InsertBetLedger, GoesOn, SameCall
  <2> HIDE DEF h, k, v, stake, payout
  <2> QED BY <1>1, <1>2, <1>3, <2>1, <2>3
<1>8. CASE BumpSettledBet(r)
  <2>1. WalletAdds(v, 0, 0) /\ BetsAdd(v, 0, 0, 0) /\ SessionsAdd(v, stake, payout)
    BY <1>8, BetMovements
  <2>2. req'[r] = Idle \/ GoesOn(r, "consume")
    BY <1>8, BetWriting DEF TypeOK
  <2>3. OwesNothing(k)
    BY <2>2, OwesNothingAt DEF GoesOn
  <2>4. Balanced(h, k, 0, 0, 0, stake, 0, 0, payout)
    BY <1>1, <1>8, <2>3 DEF BumpSettledBet, OwesNothing, Flows
  <2> HIDE DEF h, k, v, stake, payout
  <2> QED BY <1>1, <1>2, <1>3, <2>1, <2>3, <2>4
<1>9. CASE ConsumeForcedRound(r)
  <2>1. OwesNothing(req[r])
    BY <1>9, OwesNothingAt DEF ConsumeForcedRound
  <2>2. req'[r] = Idle
    BY <1>9, BetWriting DEF TypeOK
  <2>3. OwesNothing(req'[r])
    BY <2>2, OwesNothingAt
  <2>4. WalletAdds(v, 0, 0) /\ BetsAdd(v, 0, 0, 0) /\ SessionsAdd(v, 0, 0)
    BY <1>9, BetMovements
  <2> HIDE DEF v
  <2> QED BY <1>1, <2>1, <2>3, <2>4, FlowKeptIdly
<1>10. SettleWallet(r) => req'[r] = Idle \/ GoesOn(r, "insert")
  BY BetMovements
<1> QED BY <1>4, <1>5, <1>6, <1>7, <1>8, <1>9, <1>10 DEF BetWrites

\* So do those of Mines and Towers.
LEMMA FlowKeptByRound ==
  ASSUME TypeOK, HandlerType', RefInv, FlowInv, NEW r \in Requests, NEW g \in GridGames,
         RoundWrites(r, g)
  PROVE  FlowInv'
<1> DEFINE h == req[r]
           k == req'[r]
           v == req[r].user
           stake == req[r].stake
           payout == req[r].payout
<1>1. /\ h \in Active /\ Others(r) /\ UNCHANGED failures
      /\ stake \in Nat /\ payout \in Nat /\ v \in Users
  BY RoundWriting DEF TypeOK, Active
<1>2. 0 \in Nat
  OBVIOUS
<1>3. ASSUME k.user = v \/ OwesNothing(k),
             NEW wagered \in Nat, NEW staked \in Nat, NEW booked \in Nat, NEW counted \in Nat,
             NEW won \in Nat, NEW paid \in Nat, NEW shown \in Nat,
             Balanced(h, k, wagered, staked, booked, counted, won, paid, shown),
             WalletAdds(v, wagered, won), BetsAdd(v, staked, booked, paid),
             SessionsAdd(v, counted, shown)
      PROVE  FlowInv'
  <2>1. req[r].user = v \/ \A key \in Flows : Due(req[r], key) = 0
    OBVIOUS
  <2>2. req'[r].user = v \/ \A key \in Flows : Due(req'[r], key) = 0
    BY <1>3 DEF OwesNothing
  <2>3. Others(r) /\ UNCHANGED failures
    BY <1>1
  <2>4. Balanced(req[r], req'[r], wagered, staked, booked, counted, won, paid, shown)
    BY <1>3
  <2> HIDE DEF h, k, v
  <2> QED BY <1>3, <2>1, <2>2, <2>3, <2>4, FlowKeptBy
<1> USE DEF Balanced, Due, Betting, At, Step
<1>4. ASSUME OwesNothing(req[r]), OwesNothing(req'[r]),
             WalletAdds(v, 0, 0), BetsAdd(v, 0, 0, 0), SessionsAdd(v, 0, 0)
      PROVE  FlowInv'
  <2> HIDE DEF v
  <2> QED BY <1>1, <1>4, FlowKeptIdly
<1>5. CASE HoldStake(r, g) /\ req'[r] = Idle
  <2>1. OwesNothing(req[r]) /\ OwesNothing(req'[r])
    BY <1>5, OwesNothingAt DEF HoldStake
  <2>2. ~GoesOn(r, "insert")
    BY <1>5 DEF GoesOn, Idle
  <2>3. WalletAdds(v, 0, 0) /\ BetsAdd(v, 0, 0, 0) /\ SessionsAdd(v, 0, 0)
    BY <1>5, <2>2, RoundMovements
  <2> QED BY <1>4, <2>1, <2>3
<1>6. CASE HoldStake(r, g) /\ GoesOn(r, "insert")
  <2>1. WalletAdds(v, stake, 0) /\ BetsAdd(v, 0, 0, 0) /\ SessionsAdd(v, 0, 0)
    BY <1>6, RoundMovements DEF GoesOn, Idle
  <2>2. k.user = v
    BY <1>6 DEF GoesOn, SameCall
  <2>3. Balanced(h, k, stake, 0, 0, 0, 0, 0, 0)
    BY <1>1, <1>6 DEF HoldStake, GoesOn, SameCall
  <2> HIDE DEF h, k, v, stake, payout
  <2> QED BY <1>1, <1>2, <1>3, <2>1, <2>2, <2>3
<1>7. CASE InsertOpenRound(r, g)
  <2>1. WalletAdds(v, 0, 0) /\ BetsAdd(v, stake, 0, 0) /\ SessionsAdd(v, 0, 0)
    BY <1>7, RoundMovements
  <2>2. Inserted(r)
    BY <1>7, RoundWriting DEF TypeOK
  <2>3. k.user = v /\ Balanced(h, k, 0, stake, 0, 0, 0, 0, 0)
    BY <1>1, <1>7, <2>2 DEF InsertOpenRound, Inserted
  <2> HIDE DEF h, k, v, stake, payout
  <2> QED BY <1>1, <1>2, <1>3, <2>1, <2>3
<1>8. CASE InsertStakeRow(r, g)
  <2>1. WalletAdds(v, 0, 0) /\ BetsAdd(v, 0, stake, 0) /\ SessionsAdd(v, 0, 0)
    BY <1>8, RoundMovements
  <2>2. GoesOn(r, "bump")
    BY <1>8, RoundWriting DEF TypeOK
  <2>3. k.user = v /\ Balanced(h, k, 0, 0, stake, 0, 0, 0, 0)
    BY <1>1, <1>8, <2>2 DEF InsertStakeRow, GoesOn, SameCall
  <2> HIDE DEF h, k, v, stake, payout
  <2> QED BY <1>1, <1>2, <1>3, <2>1, <2>3
<1>9. CASE BumpStartedRound(r, g)
  <2>1. WalletAdds(v, 0, 0) /\ BetsAdd(v, 0, 0, 0) /\ SessionsAdd(v, stake, 0)
    BY <1>9, RoundMovements
  <2>2. req'[r] = Idle
    BY <1>9, RoundWriting DEF TypeOK
  <2>3. OwesNothing(k)
    BY <2>2, OwesNothingAt
  <2>4. Balanced(h, k, 0, 0, 0, stake, 0, 0, 0)
    BY <1>1, <1>9, <2>3 DEF BumpStartedRound, OwesNothing, Flows
  <2> HIDE DEF h, k, v, stake, payout
  <2> QED BY <1>1, <1>2, <1>3, <2>1, <2>3, <2>4
<1>10. CASE ReleaseStake(r, g) \/ CloseLostRound(r, g) \/ RaiseMultiplier(r, g)
  <2>1. WalletAdds(v, 0, 0) /\ BetsAdd(v, 0, 0, 0) /\ SessionsAdd(v, 0, 0)
    BY <1>10, RoundMovements
  <2>2. OwesNothing(req[r])
    BY <1>10, OwesNothingAt DEF ReleaseStake, CloseLostRound, RaiseMultiplier
  <2>3. \/ req'[r] = Idle \/ GoesOn(r, "lost")
        \/ req'[r].op = "cashOut" /\ req'[r].pc = "session"
    BY <1>10, RoundWriting DEF TypeOK
  <2>4. OwesNothing(req'[r])
    BY <2>3, OwesNothingAt DEF GoesOn
  <2> QED BY <1>4, <2>1, <2>2, <2>4
<1>11. CASE CreditPayout(r, g)
  <2>1. WalletAdds(v, 0, payout) /\ BetsAdd(v, 0, 0, 0) /\ SessionsAdd(v, 0, 0)
    BY <1>11, RoundMovements
  <2>2. GoesOn(r, "settle")
    BY <1>11, RoundWriting DEF TypeOK
  <2>3. k.user = v /\ Balanced(h, k, 0, 0, 0, 0, payout, 0, 0)
    BY <1>1, <1>11, <2>2 DEF CreditPayout, GoesOn, SameCall
  <2> HIDE DEF h, k, v, stake, payout
  <2> QED BY <1>1, <1>2, <1>3, <2>1, <2>3
<1>12. CASE CloseCashedOutRound(r, g)
  <2>1. WalletAdds(v, 0, 0) /\ BetsAdd(v, 0, 0, 0) /\ SessionsAdd(v, 0, 0)
    BY <1>12, RoundMovements
  <2>2. GoesOn(r, "ledger")
    BY <1>12, RoundWriting DEF TypeOK
  <2>3. k.user = v /\ Balanced(h, k, 0, 0, 0, 0, 0, 0, 0)
    BY <1>1, <1>12, <2>2 DEF CloseCashedOutRound, GoesOn, SameCall
  <2> HIDE DEF h, k, v, stake, payout
  <2> QED BY <1>1, <1>2, <1>3, <2>1, <2>3
<1>13. CASE InsertPayoutRow(r, g)
  <2>1. WalletAdds(v, 0, 0) /\ BetsAdd(v, 0, 0, payout) /\ SessionsAdd(v, 0, 0)
    BY <1>13, RoundMovements
  <2>2. GoesOn(r, "bump")
    BY <1>13, RoundWriting DEF TypeOK
  <2>3. k.user = v /\ Balanced(h, k, 0, 0, 0, 0, 0, payout, 0)
    BY <1>1, <1>13, <2>2 DEF InsertPayoutRow, GoesOn, SameCall
  <2> HIDE DEF h, k, v, stake, payout
  <2> QED BY <1>1, <1>2, <1>3, <2>1, <2>3
<1>14. CASE BumpCashedOutRound(r, g)
  <2>1. WalletAdds(v, 0, 0) /\ BetsAdd(v, 0, 0, 0) /\ SessionsAdd(v, 0, payout)
    BY <1>14, RoundMovements
  <2>2. req'[r] = Idle
    BY <1>14, RoundWriting DEF TypeOK
  <2>3. OwesNothing(k)
    BY <2>2, OwesNothingAt
  <2>4. Balanced(h, k, 0, 0, 0, 0, 0, 0, payout)
    BY <1>1, <1>14, <2>3 DEF BumpCashedOutRound, OwesNothing, Flows
  <2> HIDE DEF h, k, v, stake, payout
  <2> QED BY <1>1, <1>2, <1>3, <2>1, <2>3, <2>4
<1>15. HoldStake(r, g) => req'[r] = Idle \/ GoesOn(r, "insert")
  BY RoundMovements
<1> QED
  BY <1>5, <1>6, <1>7, <1>8, <1>9, <1>10, <1>11, <1>12, <1>13, <1>14, <1>15 DEF RoundWrites

\* Every step keeps the tables in step.
LEMMA FlowKept ==
  ASSUME TypeOK, TypeOK', RefInv, FlowInv, [Next]_vars
  PROVE  FlowInv'
<1>1. HandlerType /\ HandlerType'
  BY DEF TypeOK
<1>2. ASSUME NEW v, UNCHANGED <<wallet, session, bet, ledger>>
      PROVE  WalletAdds(v, 0, 0) /\ BetsAdd(v, 0, 0, 0) /\ SessionsAdd(v, 0, 0)
  BY <1>2, NothingAdded
<1>3. ASSUME NEW r \in Requests, Arrivals(r)
      PROVE  FlowInv'
  <2>1. /\ Others(r) /\ UNCHANGED <<wallet, session, bet, ledger, failures>>
        /\ OwesNothing(req[r])
    BY <1>1, <1>3, Arriving, OwesNothingAt
  <2>2. Arrived(req'[r])
    BY <1>1, <1>3, Arriving
  <2>3. OwesNothing(req'[r])
    BY <2>2, OwesNothingAt DEF Arrived
  <2> QED BY <1>1, <1>2, <2>1, <2>3, FlowKeptIdly
<1>4. ASSUME NEW r \in Requests, Reads(r)
      PROVE  FlowInv'
  <2>1. Others(r) /\ UNCHANGED <<wallet, session, bet, ledger, failures>>
    BY <1>1, <1>4, Reading
  <2>2. req'[r] = Idle \/ Read(req[r], req'[r])
    BY <1>1, <1>4, Reading
  <2>3. OwesNothing(req'[r])
    BY <2>2, OwesNothingAt DEF Read
  <2>4. OwesNothing(req[r])
    <3>1. req[r].pc \notin {"insert", "ledger", "bump", "settle"}
      BY <1>4 DEF Reads, GetPlayableGame, ReadSession, PlaceBetChecks, ReadWallet, CountBets,
                  RollRound, StartChecks, SelectOpenRound, LayGrid, RevealChecks, ReadRound,
                  CashOutChecks, ReadRoundToPay, Step, At
    <3> QED BY <3>1, OwesNothingAt
  <2> QED BY <1>1, <1>2, <2>1, <2>3, <2>4, FlowKeptIdly
<1>5. ASSUME NEW r \in Requests, Abort(r)
      PROVE  FlowInv'
  <2>1. /\ Others(r) /\ req'[r] = Idle /\ failures' = failures + 1
        /\ UNCHANGED <<wallet, session, bet, ledger>>
    BY <1>1, <1>5, FinishKeeps DEF Abort, rows
  <2> QED BY <1>1, <1>2, <2>1, FlowKeptByAbort
<1>6. ASSUME NEW r \in Requests, SessionWrites(r)
      PROVE  FlowInv'
  <2>1. /\ Others(r) /\ UNCHANGED <<wallet, bet, ledger, failures>>
        /\ req'[r] = Idle \/ SameCall(req'[r], req[r])
    BY <1>1, <1>6, SessionWriting DEF GoesOn, SessionWrites
  <2>2. req[r].op \notin {"placeBet", "start", "cashOut"}
    BY <1>6 DEF SessionWrites, EndOpenSessions, InsertSession, MarkEnded, At
  <2>3. OwesNothing(req[r]) /\ OwesNothing(req'[r])
    BY <2>1, <2>2, OwesNothingAt DEF SameCall
  <2>4. WalletAdds(Nobody, 0, 0) /\ BetsAdd(Nobody, 0, 0, 0)
    BY <2>1, NothingAdded
  <2>5. SessionsAdd(Nobody, 0, 0)
    <3>1. \A u \in Users : /\ StakesCounted(u)' = StakesCounted(u)
                           /\ PayoutsCounted(u)' = PayoutsCounted(u)
      BY <1>6, SumsAfterSession
    <3>2. \A u \in Users : Part(u, Nobody, 0) = 0
      BY DEF Part
    <3> QED BY <3>1, <3>2, SumsAreNatural DEF SessionsAdd
  <2> QED BY <1>1, <2>1, <2>3, <2>4, <2>5, FlowKeptIdly
<1>7. ASSUME NEW r \in Requests, BetWrites(r)
      PROVE  FlowInv'
  BY <1>1, <1>7, FlowKeptByBet
<1>8. ASSUME NEW r \in Requests, NEW g \in GridGames, RoundWrites(r, g)
      PROVE  FlowInv'
  BY <1>1, <1>8, FlowKeptByRound
<1>9. CASE Elsewhere
  BY <1>9, FlowKeptElsewhere
<1> QED BY <1>3, <1>4, <1>5, <1>6, <1>7, <1>8, <1>9, StepCases

\* Empty tables tell the same.
LEMMA InitFlow == Init => FlowInv
<1> SUFFICES ASSUME Init, NEW u \in Users
             PROVE  /\ IsFiniteSet(InFlight(u))
                    /\ Covers(wallet[u].totalWagered, Staked(u) + Pending(u, "insert"))
                    /\ Covers(Staked(u), StakesBooked(u) + Pending(u, "book"))
                    /\ Covers(StakesBooked(u), StakesCounted(u) + Pending(u, "count"))
                    /\ Covers(wallet[u].totalWon, PayoutsBooked(u) + Pending(u, "pay"))
                    /\ Covers(PayoutsBooked(u), PayoutsCounted(u) + Pending(u, "show"))
  BY DEF FlowInv
<1>1. InFlight(u) = {}
  <2>1. \A r \in Requests : req[r].user = Nobody
    BY DEF Init, Idle
  <2> QED BY <2>1, PlayersAssumption DEF InFlight
<1>2. BetsOf(u) = {} /\ SessionsOf(u) = {}
  BY LenProperties DEF Init, BetsOf, SessionsOf
<1>3. \A k : Pending(u, k) = 0
  BY <1>1, SumEmpty DEF Pending
<1>4. /\ Staked(u) = 0 /\ StakesBooked(u) = 0 /\ StakesCounted(u) = 0
      /\ PayoutsBooked(u) = 0 /\ PayoutsCounted(u) = 0
  BY <1>2, SumEmpty DEF Staked, StakesBooked, StakesCounted, PayoutsBooked, PayoutsCounted
<1>5. wallet[u].totalWagered = 0 /\ wallet[u].totalWon = 0
  BY DEF Init, NewWallet
<1> QED BY <1>1, <1>3, <1>4, <1>5, FS_EmptySet DEF Covers

\* Nothing in flight, nothing pending.
LEMMA QuietOwesNothing == ASSUME NEW u, Quiet(u), NEW k PROVE Pending(u, k) = 0
BY SumEmpty DEF Quiet, Pending

\* The tables tell what WriteOrder and BooksAgree say of them.
LEMMA FlowTells ==
  ASSUME TypeOK, FlowInv
  PROVE  WriteOrder /\ BooksAgree
<1>1. ASSUME NEW u \in Users
      PROVE  /\ Staked(u) \in Nat /\ StakesBooked(u) \in Nat /\ StakesCounted(u) \in Nat
             /\ PayoutsBooked(u) \in Nat /\ PayoutsCounted(u) \in Nat
             /\ wallet[u].totalWagered \in Nat /\ wallet[u].totalWon \in Nat
             /\ Pending(u, "insert") \in Nat /\ Pending(u, "book") \in Nat
             /\ Pending(u, "count") \in Nat /\ Pending(u, "pay") \in Nat
             /\ Pending(u, "show") \in Nat
             /\ Covers(wallet[u].totalWagered, Staked(u) + Pending(u, "insert"))
             /\ Covers(Staked(u), StakesBooked(u) + Pending(u, "book"))
             /\ Covers(StakesBooked(u), StakesCounted(u) + Pending(u, "count"))
             /\ Covers(wallet[u].totalWon, PayoutsBooked(u) + Pending(u, "pay"))
             /\ Covers(PayoutsBooked(u), PayoutsCounted(u) + Pending(u, "show"))
  <2>1. wallet[u].totalWagered \in Nat /\ wallet[u].totalWon \in Nat
    BY DEF TypeOK, WalletType, Wallets
  <2>2. \A k \in Flows : Pending(u, k) \in Nat
    <3>1. HandlerType /\ IsFiniteSet(InFlight(u))
      BY DEF TypeOK, FlowInv
    <3>2. \A k \in Flows : \A q \in InFlight(u) : Owed(k)[q] \in Nat
      <4>1. \A q \in Requests : req[q] \in Handlers
        BY <3>1 DEF HandlerType
      <4> QED BY <4>1, DueType DEF InFlight, Owed
    <3> TAKE k \in Flows
    <3> DEFINE f == Owed(k)
    <3>3. \A q \in InFlight(u) : f[q] \in Nat
      BY <3>2
    <3> HIDE DEF f
    <3>4. SumOver(f, InFlight(u)) \in Nat
      BY <3>1, <3>3, SumType
    <3> QED BY <3>4 DEF f, Pending
  <2> QED BY <2>1, <2>2, SumsAreNatural DEF FlowInv, Flows
<1>2. WriteOrder
  <2> SUFFICES ASSUME NEW u \in Users
               PROVE  /\ wallet[u].totalWagered >= Staked(u)
                      /\ Staked(u) >= StakesBooked(u) /\ StakesBooked(u) >= StakesCounted(u)
                      /\ wallet[u].totalWon >= PayoutsBooked(u)
                      /\ PayoutsBooked(u) >= PayoutsCounted(u)
    BY DEF WriteOrder
  <2> QED BY <1>1 DEF Covers
<1>3. BooksAgree
  <2> SUFFICES ASSUME failures = 0, NEW u \in Users, Quiet(u)
               PROVE  /\ wallet[u].totalWagered = Staked(u)
                      /\ StakesBooked(u) = Staked(u) /\ StakesCounted(u) = Staked(u)
                      /\ wallet[u].totalWon = PayoutsBooked(u)
                      /\ PayoutsCounted(u) = PayoutsBooked(u)
    BY DEF BooksAgree
  <2>1. \A k : Pending(u, k) = 0
    BY QuietOwesNothing
  <2> QED BY <1>1, <2>1 DEF Covers
<1> QED BY <1>2, <1>3

\* The invariant on flows holds in every state.
LEMMA FlowHolds == Spec => [](TypeOK /\ FlowInv)
<1>1. Init => TypeOK /\ MoneyInv /\ BookInv /\ FlowInv
  BY InitKeepsInv, InitBooks, InitFlow
<1>2. TypeOK /\ MoneyInv /\ BookInv /\ FlowInv /\ [Next]_vars
        => (TypeOK /\ MoneyInv /\ BookInv /\ FlowInv)'
  BY StepKeepsInv, RefsKept, StakeKept, FlowKept DEF BookInv
<1> QED BY <1>1, <1>2, PTL DEF Spec

\* Whatever fails and whatever races, each table knows at most what the one written before
\* it knows: a wallet is never short of a stake or a payout its bets, ledger or sessions show.
THEOREM TablesFollowTheWallet == Spec => []WriteOrder
<1>1. TypeOK /\ FlowInv => WriteOrder
  BY FlowTells
<1> QED BY <1>1, FlowHolds, PTL

\* As long as no handler fails, the four tables agree on every player with nothing in flight,
\* however many requests he sends at once.
THEOREM RacesLoseNothing == Spec => []BooksAgree
<1>1. TypeOK /\ FlowInv => BooksAgree
  BY FlowTells
<1> QED BY <1>1, FlowHolds, PTL
=============================================================================
