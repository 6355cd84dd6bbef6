----------------------------- MODULE PlayProofs -----------------------------
(***************************************************************************)
(* Theorems about the play service that hold for any number of players and *)
(* of requests in flight, whatever the odds, limits and grids, and however *)
(* handlers interleave and fail.                                           *)
(***************************************************************************)
EXTENDS PlayProperties, SequenceTheorems, FiniteSetTheorems, TLAPS

---------------------------------------------------------------------------
(* Arithmetic and sequences *)

\* A payout of a natural amount is a natural amount.
LEMMA RoundMoneyType == \A x \in Nat : RoundMoney(x) \in Nat
BY DEF RoundMoney

\* GREATEST(x, 0) is never negative.
LEMMA AtLeastZeroType == \A x \in Int : AtLeastZero(x) \in Nat
BY DEF AtLeastZero

\* What a sequence holds.
LEMMA ElementType ==
  ASSUME NEW S, NEW s \in Seq(S), NEW i \in DOMAIN s
  PROVE  s[i] \in S /\ i \in Nat
OBVIOUS

\* Replacing every element of a sequence by one of the right type keeps it a sequence.
LEMMA MapType ==
  ASSUME NEW S, NEW s \in Seq(S), NEW t,
         t = [i \in DOMAIN s |-> t[i]], \A i \in DOMAIN s : t[i] \in S
  PROVE  t \in Seq(S) /\ Len(t) = Len(s)
OBVIOUS

---------------------------------------------------------------------------
(* Who writes which table *)

WalletWrite ==
  \/ \E u \in Users : CreditWallet(u)
  \/ \E r \in Requests :
       \/ SettleWallet(r)
       \/ \E g \in GridGames : HoldStake(r, g) \/ ReleaseStake(r, g) \/ CreditPayout(r, g)

SessionWrite ==
  \E r \in Requests :
    \/ EndOpenSessions(r) \/ InsertSession(r) \/ MarkEnded(r) \/ BumpSettledBet(r)
    \/ \E g \in GridGames : BumpStartedRound(r, g) \/ BumpCashedOutRound(r, g)

BetWrite ==
  \E r \in Requests :
    \/ InsertSettledBet(r)
    \/ \E g \in GridGames : \/ InsertOpenRound(r, g) \/ CloseLostRound(r, g)
                            \/ RaiseMultiplier(r, g) \/ CloseCashedOutRound(r, g)

LedgerWrite ==
  \E r \in Requests :
    \/ InsertSettledBet(r) \/ InsertBetLedger(r)
    \/ \E g \in GridGames : InsertOpenRound(r, g) \/ InsertStakeRow(r, g) \/ InsertPayoutRow(r, g)

ControlWrite == \E r \in Requests : ConsumeForcedRound(r)

\* A table only changes by the statements that name it.
LEMMA Writers ==
  ASSUME [Next]_vars
  PROVE  /\ UNCHANGED wallet \/ WalletWrite
         /\ UNCHANGED session \/ SessionWrite
         /\ UNCHANGED bet \/ BetWrite
         /\ UNCHANGED ledger \/ LedgerWrite
         /\ UNCHANGED control \/ ControlWrite
         /\ UNCHANGED admin \/ AdminAct
         /\ UNCHANGED failures \/ \E r \in Requests : Abort(r)
<1> DEFINE Written == /\ UNCHANGED wallet \/ WalletWrite
                      /\ UNCHANGED session \/ SessionWrite
                      /\ UNCHANGED bet \/ BetWrite
                      /\ UNCHANGED ledger \/ LedgerWrite
                      /\ UNCHANGED control \/ ControlWrite
                      /\ UNCHANGED admin \/ AdminAct
                      /\ UNCHANGED failures \/ \E r \in Requests : Abort(r)
<1> USE DEF rows, GridGames, WalletWrite, SessionWrite, BetWrite, LedgerWrite, ControlWrite
<1>1. CASE UNCHANGED vars
  BY <1>1 DEF vars
<1>2. ASSUME NEW r \in Requests, StartSession(r) \/ EndSession(r)
      PROVE  Written
  <2>1. CASE StartSessionArrives(r) \/ GetPlayableGame(r) \/ EndSessionArrives(r) \/ ReadSession(r)
    BY <2>1 DEF StartSessionArrives, GetPlayableGame, EndSessionArrives, ReadSession, Arrive
  <2>2. CASE EndOpenSessions(r) \/ InsertSession(r) \/ MarkEnded(r)
    BY <2>2 DEF EndOpenSessions, InsertSession, MarkEnded
  <2> QED BY <1>2, <2>1, <2>2 DEF StartSession, EndSession
<1>3. ASSUME NEW r \in Requests, PlaceBet(r) \/ ReadForStake(r)
      PROVE  Written
  <2>1. CASE PlaceBetArrives(r) \/ PlaceBetChecks(r) \/ RollRound(r) \/ ReadWallet(r) \/ CountBets(r)
    BY <2>1 DEF PlaceBetArrives, PlaceBetChecks, RollRound, ReadWallet, CountBets, Arrive
  <2>2. CASE SettleWallet(r) \/ InsertBetLedger(r) \/ BumpSettledBet(r) \/ ConsumeForcedRound(r)
    BY <2>2 DEF SettleWallet, InsertBetLedger, BumpSettledBet, ConsumeForcedRound
  <2>3. CASE InsertSettledBet(r)
    BY <2>3 DEF InsertSettledBet
  <2> QED BY <1>3, <2>1, <2>2, <2>3 DEF PlaceBet, ReadForStake
<1>4. ASSUME NEW r \in Requests, NEW g \in GridGames, Start(r, g)
      PROVE  Written
  <2>1. CASE StartArrives(r, g)
    BY <2>1 DEF StartArrives, Arrive
  <2>2. CASE StartChecks(r, g) \/ SelectOpenRound(r, g) \/ LayGrid(r, g)
    BY <2>2 DEF StartChecks, SelectOpenRound, LayGrid
  <2>3. CASE HoldStake(r, g) \/ InsertStakeRow(r, g) \/ BumpStartedRound(r, g)
    BY <2>3 DEF HoldStake, InsertStakeRow, BumpStartedRound
  <2>4. CASE InsertOpenRound(r, g)
    BY <2>4 DEF InsertOpenRound
  <2> QED BY <1>4, <2>1, <2>2, <2>3, <2>4 DEF Start
<1>5. ASSUME NEW r \in Requests, NEW g \in GridGames, Reveal(r, g)
      PROVE  Written
  BY <1>5 DEF Reveal, RevealArrives, RevealChecks, ReadRound, ReleaseStake, CloseLostRound,
              RaiseMultiplier, Arrive
<1>6. ASSUME NEW r \in Requests, NEW g \in GridGames, CashOut(r, g)
      PROVE  Written
  BY <1>6 DEF CashOut, CashOutArrives, CashOutChecks, ReadRoundToPay, CreditPayout,
              CloseCashedOutRound, InsertPayoutRow, BumpCashedOutRound, Arrive
<1>7. ASSUME NEW r \in Requests, Abort(r)
      PROVE  Written
  BY <1>7 DEF Abort
<1>8. ASSUME NEW u \in Users, CreditWallet(u)
      PROVE  Written
  BY <1>8 DEF CreditWallet
<1>9. CASE AdminAct
  BY <1>9 DEF AdminAct
<1> QED
  BY <1>1, <1>2, <1>3, <1>4, <1>5, <1>6, <1>7, <1>8, <1>9
     DEF Next, Handler, StartMines, RevealMines, CashOutMines, StartTowers, RevealTowers,
         CashOutTowers

---------------------------------------------------------------------------
(* Handlers *)

\* A handler between two statements acts for a player.
LEMMA AtActive ==
  ASSUME HandlerType, NEW r \in Requests, req[r] # Idle
  PROVE  req[r] \in Active
BY DEF HandlerType, Handlers

\* A handler whose operation is named is not idle.
LEMMA AtBusy ==
  ASSUME NEW r \in Requests, NEW op \in Ops, req[r].op = op
  PROVE  req[r] # Idle
BY DEF Idle, Ops

\* Going on to the next statement keeps the handlers' types.
LEMMA GotoType ==
  ASSUME HandlerType, NEW r \in Requests, req[r] \in Active, NEW pc \in Pcs, Goto(r, pc)
  PROVE  HandlerType'
<1>1. [req[r] EXCEPT !.pc = pc] \in Active
  BY DEF Active
<1>2. req' = [req EXCEPT ![r] = [req[r] EXCEPT !.pc = pc]]
  BY DEF Goto
<1> QED BY <1>1, <1>2 DEF HandlerType, Handlers

\* So does answering, which frees the slot.
LEMMA FinishType ==
  ASSUME HandlerType, NEW r \in Requests, Finish(r)
  PROVE  HandlerType'
BY DEF HandlerType, Handlers, Finish

\* So does a check, which does either.
LEMMA CheckType ==
  ASSUME HandlerType, NEW r \in Requests, req[r] \in Active, NEW ok, NEW pc \in Pcs,
         Check(r, ok, pc)
  PROVE  HandlerType'
BY GotoType, FinishType DEF Check

\* So does a message that carries a well-formed call.
LEMMA ArriveType ==
  ASSUME HandlerType, NEW r \in Requests, NEW call \in Active, Arrive(r, call)
  PROVE  HandlerType'
BY DEF Arrive, HandlerType, Handlers

\* Handlers and the idle slots they are made from.
Slots ==
  [op : Ops \cup {"idle"}, pc : Pcs \cup {"idle"}, user : Users \cup {Nobody}, game : Games,
   sid : Nat, ref : Nat, tile : Nat, count : MineCounts \cup {0}, stake : Nat, nonce : Nat,
   forced : {"none", "win", "loss"}, metered : BOOLEAN,
   traps : SUBSET (Nat \X Nat), opened : Seq(Nat), mult : Nat, payout : Nat]

\* The empty slot is a slot: the EXCEPTs of the arrivals start from it.
LEMMA IdleType == Idle \in Slots
BY DEF Idle, Slots, Games

\* The handlers of the sessions keep their types.
LEMMA SessionHandlers ==
  ASSUME TypeOK, NEW r \in Requests, StartSession(r) \/ EndSession(r)
  PROVE  HandlerType'
<1> USE DEF TypeOK
<1>1. CASE StartSessionArrives(r)
  <2>1. PICK u \in Users, g \in Games :
          Arrive(r, [Idle EXCEPT !.op = "startSession", !.pc = "game", !.user = u, !.game = g])
    BY <1>1 DEF StartSessionArrives
  <2>2. ASSUME NEW slot \in Slots
        PROVE  [slot EXCEPT !.op = "startSession", !.pc = "game", !.user = u, !.game = g] \in Active
    BY DEF Slots, Active, Ops, Pcs
  <2> QED BY <2>1, <2>2, IdleType, ArriveType
<1>2. CASE EndSessionArrives(r)
  <2>1. PICK u \in Users, s \in DOMAIN session :
          Arrive(r, [Idle EXCEPT !.op = "endSession", !.pc = "row", !.user = u,
                                 !.game = session[s].game, !.sid = s])
    BY <1>2 DEF EndSessionArrives
  <2>2. session[s] \in SessionRows /\ s \in Nat
    BY ElementType DEF SessionType
  <2>3. session[s].game \in Games
    BY <2>2 DEF SessionRows
  <2>4. ASSUME NEW slot \in Slots
        PROVE  [slot EXCEPT !.op = "endSession", !.pc = "row", !.user = u,
                            !.game = session[s].game, !.sid = s] \in Active
    BY <2>2, <2>3 DEF Slots, Active, Ops, Pcs
  <2> QED BY <2>1, <2>4, IdleType, ArriveType
<1>3. CASE GetPlayableGame(r) \/ EndOpenSessions(r) \/ InsertSession(r) \/ ReadSession(r) \/ MarkEnded(r)
  <2>1. req[r] \in Active
    BY <1>3, AtBusy, AtActive
       DEF GetPlayableGame, EndOpenSessions, InsertSession, ReadSession, MarkEnded, At, Ops
  <2>2. "end" \in Pcs /\ "insert" \in Pcs
    BY DEF Pcs
  <2> QED
    BY <1>3, <2>1, <2>2, CheckType, GotoType, FinishType
       DEF GetPlayableGame, EndOpenSessions, InsertSession, ReadSession, MarkEnded
<1> QED BY <1>1, <1>2, <1>3 DEF StartSession, EndSession

\* Replacing a handler by a well-formed one keeps the handlers' types.
LEMMA SetType ==
  ASSUME HandlerType, NEW r \in Requests, NEW h \in Active, req' = [req EXCEPT ![r] = h]
  PROVE  HandlerType'
BY DEF HandlerType, Handlers

\* A product of natural numbers is one, so what a stake times a multiplier pays is too.
LEMMA PayoutType == \A stake, mult \in Nat : RoundMoney(stake * mult) \in Nat
<1>1. \A a, b \in Nat : a * b \in Nat
  OBVIOUS
<1> QED BY <1>1, RoundMoneyType

\* Whatever the rule and the odds, the roll of an instant game is a multiplier.
LEMMA RollType ==
  ASSUME NEW rule \in Rules, NEW forced \in ResolveControl(rule), NEW raw \in Roll(forced)
  PROVE  /\ forced \in {"none", "win", "loss"}
         /\ ApplyWinCap(raw, rule) \in Nat
<1>1. forced \in {"none", "win", "loss"}
  BY DEF ResolveControl, DecideForcedResult, DecideFromDifficulty
<1>2. raw \in Nat
  BY <1>1, MoneyAssumption DEF Roll
<1> QED BY <1>1, <1>2 DEF ApplyWinCap, Rules

\* The handlers of the instant games keep their types.
LEMMA InstantHandlers ==
  ASSUME TypeOK, NEW r \in Requests, PlaceBet(r) \/ ReadForStake(r)
  PROVE  HandlerType'
<1> USE DEF TypeOK
<1>1. CASE PlaceBetArrives(r)
  <2>1. PICK u \in Users, s \in DOMAIN session, x \in StakeInputs :
          Arrive(r, [Idle EXCEPT !.op = "placeBet", !.pc = "session", !.user = u,
                                 !.sid = s, !.stake = RoundMoney(x)])
    BY <1>1 DEF PlaceBetArrives
  <2>2. s \in Nat /\ RoundMoney(x) \in Nat
    BY ElementType, RoundMoneyType, MoneyAssumption DEF SessionType
  <2>3. ASSUME NEW slot \in Slots
        PROVE  [slot EXCEPT !.op = "placeBet", !.pc = "session", !.user = u,
                            !.sid = s, !.stake = RoundMoney(x)] \in Active
    BY <2>2 DEF Slots, Active, Ops, Pcs
  <2> QED BY <2>1, <2>3, IdleType, ArriveType
<1>2. CASE PlaceBetChecks(r) \/ ReadWallet(r)
  <2>1. req[r] \in Active
    BY <1>2, AtBusy, AtActive DEF PlaceBetChecks, ReadWallet, At, Ops
  <2>2. "wallet" \in Pcs /\ "nonce" \in Pcs
    BY DEF Pcs
  <2> QED BY <1>2, <2>1, <2>2, CheckType DEF PlaceBetChecks, ReadWallet
<1>3. CASE CountBets(r)
  <2> DEFINE n == Cardinality({i \in DOMAIN bet : bet[i].user = req[r].user}) + 1
             h == [req[r] EXCEPT !.pc = "control", !.nonce = n]
  <2>1. req[r] \in Active
    BY <1>3, AtBusy, AtActive DEF CountBets, Ops
  <2>2. n \in Nat
    <3>1. IsFiniteSet(DOMAIN bet)
      BY FS_Interval, LenProperties DEF BetType
    <3>2. IsFiniteSet({i \in DOMAIN bet : bet[i].user = req[r].user})
      BY <3>1, FS_Subset
    <3> QED BY <3>2, FS_CardinalityType
  <2>3. h \in Active
    <3> HIDE DEF n
    <3> QED BY <2>1, <2>2 DEF Active, Pcs
  <2> QED BY <1>3, <2>3, SetType DEF CountBets
<1>4. CASE RollRound(r)
  <2>1. req[r] \in Active
    BY <1>4, AtBusy, AtActive DEF RollRound, At, Ops
  <2> DEFINE rule == control[req[r].user]
  <2>2. rule \in Rules
    BY <2>1 DEF ControlType, Active
  <2> DEFINE Rolled(forced, raw) ==
          req' = [req EXCEPT ![r].pc = "debit", ![r].forced = forced,
                             ![r].metered = Metered(rule), ![r].mult = ApplyWinCap(raw, rule),
                             ![r].payout = RoundMoney(req[r].stake * ApplyWinCap(raw, rule))]
  <2>3. PICK forced \in ResolveControl(rule) : \E raw \in Roll(forced) : Rolled(forced, raw)
    BY <1>4 DEF RollRound
  <2>4. PICK raw \in Roll(forced) : Rolled(forced, raw)
    BY <2>3
  <2> DEFINE mult == ApplyWinCap(raw, rule)
             payout == RoundMoney(req[r].stake * mult)
             metered == Metered(rule)
             h == [req[r] EXCEPT !.pc = "debit", !.forced = forced, !.metered = metered,
                                 !.mult = mult, !.payout = payout]
  <2>5. forced \in {"none", "win", "loss"} /\ mult \in Nat
    BY <2>2, RollType
  <2>6. payout \in Nat /\ metered \in BOOLEAN
    <3>1. req[r].stake \in Nat
      BY <2>1 DEF Active
    <3> QED BY <2>5, <3>1, PayoutType DEF Metered
  <2>7. req' = [req EXCEPT ![r] = h]
    BY <2>4
  <2>8. h \in Active
    <3> HIDE DEF mult, payout, metered
    <3> QED BY <2>1, <2>5, <2>6 DEF Active, Pcs
  <2> QED BY <2>7, <2>8, SetType
<1>5. CASE InsertSettledBet(r)
  <2> DEFINE h == [req[r] EXCEPT !.pc = "ledger", !.ref = Len(bet) + 1]
  <2>1. req[r] \in Active
    BY <1>5, AtBusy, AtActive DEF InsertSettledBet, At, Ops
  <2>2. h \in Active
    <3>1. Len(bet) + 1 \in Nat
      BY LenProperties DEF BetType
    <3> QED BY <2>1, <3>1 DEF Active, Pcs
  <2> QED BY <1>5, <2>2, SetType DEF InsertSettledBet
<1>6. CASE SettleWallet(r) \/ InsertBetLedger(r) \/ BumpSettledBet(r) \/ ConsumeForcedRound(r)
  <2>1. req[r] \in Active
    BY <1>6, AtBusy, AtActive
       DEF SettleWallet, InsertBetLedger, BumpSettledBet, ConsumeForcedRound, At, Ops
  <2>2. "insert" \in Pcs /\ "bump" \in Pcs /\ "consume" \in Pcs
    BY DEF Pcs
  <2> QED
    BY <1>6, <2>1, <2>2, GotoType, FinishType
       DEF SettleWallet, InsertBetLedger, BumpSettledBet, ConsumeForcedRound
<1> QED BY <1>1, <1>2, <1>3, <1>4, <1>5, <1>6 DEF PlaceBet, ReadForStake

\* Both grids lie on floors and tiles counted from 0.
LEMMA GridsType ==
  ASSUME NEW g, NEW count, NEW forced, NEW traps \in Grids(g, count, forced)
  PROVE  traps \subseteq Nat \X Nat
BY GridAssumption DEF Grids, BuildMinesGrid, BuildTowersGrid

\* A multiplier is defined for every count and any number of picks.
LEMMA MultiplierType ==
  ASSUME NEW g, NEW count \in MineCounts \cup {0}, NEW n \in Nat
  PROVE  Multiplier(g, count, n) \in Nat
<1>1. ASSUME n \in 1..TileCount - count
      PROVE  MinesMultiplier[count][n] \in Nat
  BY <1>1, GridAssumption
<1>2. ASSUME n \in 1..TowerRows
      PROVE  TowersMultiplier[n] \in Nat
  BY <1>2, GridAssumption
<1> QED BY <1>1, <1>2 DEF Multiplier

\* The handlers of start keep their types.
LEMMA StartHandlers ==
  ASSUME TypeOK, NEW r \in Requests, NEW g \in GridGames, Start(r, g)
  PROVE  HandlerType'
<1> USE DEF TypeOK, Step
<1>1. CASE StartArrives(r, g)
  <2>1. PICK u \in Users, s \in DOMAIN session, x \in StakeInputs, count \in CountInputs(g) :
          Arrive(r, [Idle EXCEPT !.op = "start", !.pc = "session", !.user = u, !.game = g,
                                 !.sid = s, !.stake = RoundMoney(x), !.count = count])
    BY <1>1 DEF StartArrives
  <2>2. /\ s \in Nat /\ RoundMoney(x) \in Nat /\ g \in Games
        /\ count \in MineCounts \cup {0}
    BY ElementType, RoundMoneyType, MoneyAssumption DEF SessionType, GridGames, Games, CountInputs
  <2>3. ASSUME NEW slot \in Slots
        PROVE  [slot EXCEPT !.op = "start", !.pc = "session", !.user = u, !.game = g,
                            !.sid = s, !.stake = RoundMoney(x), !.count = count] \in Active
    BY <2>2 DEF Slots, Active, Ops, Pcs
  <2> QED BY <2>1, <2>3, IdleType, ArriveType
<1>2. CASE StartChecks(r, g) \/ SelectOpenRound(r, g)
  <2>1. req[r] \in Active
    BY <1>2, AtBusy, AtActive DEF StartChecks, SelectOpenRound, At, Ops
  <2>2. "open" \in Pcs /\ "wallet" \in Pcs
    BY DEF Pcs
  <2> QED BY <1>2, <2>1, <2>2, CheckType DEF StartChecks, SelectOpenRound
<1>3. CASE LayGrid(r, g)
  <2>1. req[r] \in Active
    BY <1>3, AtBusy, AtActive DEF LayGrid, At, Ops
  <2>2. PICK forced \in ResolveControl(control[req[r].user]) :
          \E traps \in Grids(g, req[r].count, forced) :
            req' = [req EXCEPT ![r].pc = "debit", ![r].forced = forced, ![r].traps = traps]
    BY <1>3 DEF LayGrid
  <2>3. PICK traps \in Grids(g, req[r].count, forced) :
          req' = [req EXCEPT ![r].pc = "debit", ![r].forced = forced, ![r].traps = traps]
    BY <2>2
  <2> DEFINE h == [req[r] EXCEPT !.pc = "debit", !.forced = forced, !.traps = traps]
  <2>4. forced \in {"none", "win", "loss"}
    BY DEF ResolveControl, DecideForcedResult, DecideFromDifficulty
  <2>5. traps \subseteq Nat \X Nat
    BY GridsType
  <2>6. h \in Active
    BY <2>1, <2>4, <2>5 DEF Active, Pcs
  <2>7. req' = [req EXCEPT ![r] = h]
    BY <2>3
  <2> QED BY <2>6, <2>7, SetType
<1>4. CASE InsertOpenRound(r, g)
  <2> DEFINE h == [req[r] EXCEPT !.pc = "ledger", !.ref = Len(bet) + 1]
  <2>1. req[r] \in Active
    BY <1>4, AtBusy, AtActive DEF InsertOpenRound, At, Ops
  <2>2. Len(bet) + 1 \in Nat
    BY LenProperties DEF BetType
  <2>3. h \in Active
    BY <2>1, <2>2 DEF Active, Pcs
  <2> QED BY <1>4, <2>3, SetType DEF InsertOpenRound
<1>5. CASE HoldStake(r, g) \/ InsertStakeRow(r, g) \/ BumpStartedRound(r, g)
  <2>1. req[r] \in Active
    BY <1>5, AtBusy, AtActive DEF HoldStake, InsertStakeRow, BumpStartedRound, At, Ops
  <2>2. "insert" \in Pcs /\ "bump" \in Pcs
    BY DEF Pcs
  <2> QED
    BY <1>5, <2>1, <2>2, GotoType, FinishType DEF HoldStake, InsertStakeRow, BumpStartedRound
<1> QED BY <1>1, <1>2, <1>3, <1>4, <1>5 DEF Start

\* The handlers of reveal keep their types; clearing the grid leaves a cashOut.
LEMMA RevealHandlers ==
  ASSUME TypeOK, NEW r \in Requests, NEW g \in GridGames, Reveal(r, g)
  PROVE  HandlerType'
<1> USE DEF TypeOK, Step
<1>g. g \in Games
  BY DEF GridGames, Games
<1>1. CASE RevealArrives(r, g)
  <2>1. PICK u \in Users, s \in DOMAIN session, i \in DOMAIN bet, tile \in 0..Tiles(g) :
          Arrive(r, [Idle EXCEPT !.op = "reveal", !.pc = "session", !.user = u, !.game = g,
                                 !.sid = s, !.ref = i, !.tile = tile])
    BY <1>1 DEF RevealArrives
  <2>2. s \in Nat /\ i \in Nat /\ tile \in Nat
    BY ElementType, GridAssumption DEF SessionType, BetType, Tiles
  <2>3. ASSUME NEW slot \in Slots
        PROVE  [slot EXCEPT !.op = "reveal", !.pc = "session", !.user = u, !.game = g,
                            !.sid = s, !.ref = i, !.tile = tile] \in Active
    BY <1>g, <2>2 DEF Slots, Active, Ops, Pcs
  <2> QED BY <2>1, <2>3, IdleType, ArriveType
<1>2. CASE RevealChecks(r, g)
  <2>1. req[r] \in Active
    BY <1>2, AtBusy, AtActive DEF RevealChecks, At, Ops
  <2> QED BY <1>2, <2>1, CheckType DEF RevealChecks, Pcs
<1>3. CASE ReadRound(r, g)
  <2>1. req[r] \in Active
    BY <1>3, AtBusy, AtActive DEF ReadRound, At, Ops
  <2> DEFINE row == bet[req[r].ref]
             pc  == IF Cell(g, row.opened, req[r].tile) \in row.traps THEN "unlock" ELSE "raise"
             h   == [req[r] EXCEPT !.pc = pc, !.stake = row.stake, !.count = row.count,
                                   !.opened = row.opened]
  <2>2. CASE RoundIsOpen(req[r]) /\ req' = [req EXCEPT ![r] = h]
    <3>1. row \in BetRows
      BY <2>2, ElementType DEF RoundIsOpen, BetType
    <3>2. row.stake \in Nat /\ row.count \in MineCounts \cup {0} /\ row.opened \in Seq(Nat)
      BY <3>1 DEF BetRows
    <3>3. pc \in Pcs
      BY DEF Pcs
    <3>4. h \in Active
      <4> HIDE DEF pc, row
      <4> QED BY <2>1, <3>2, <3>3 DEF Active
    <3> QED BY <2>2, <3>4, SetType
  <2>3. CASE Finish(r)
    BY <2>3, FinishType
  <2> QED BY <1>3, <2>2, <2>3 DEF ReadRound
<1>4. CASE RaiseMultiplier(r, g)
  <2>1. req[r] \in Active
    BY <1>4, AtBusy, AtActive DEF RaiseMultiplier, At, Ops
  <2> DEFINE call(slot) == [slot EXCEPT !.op = "cashOut", !.pc = "session", !.user = req[r].user,
                                        !.game = g, !.sid = req[r].sid, !.ref = req[r].ref]
  <2>2. ASSUME NEW slot \in Slots
        PROVE  call(slot) \in Active
    <3>1. req[r].user \in Users /\ req[r].sid \in Nat /\ req[r].ref \in Nat
      BY <2>1 DEF Active
    <3> QED BY <1>g, <3>1 DEF Slots, Active, Ops, Pcs
  <2>3. call(Idle) \in Active
    BY <2>2, IdleType
  <2>4. req' = [req EXCEPT ![r] = call(Idle)] \/ Finish(r)
    BY <1>4 DEF RaiseMultiplier
  <2> QED
    <3> HIDE DEF call
    <3> QED BY <2>3, <2>4, SetType, FinishType
<1>5. CASE ReleaseStake(r, g) \/ CloseLostRound(r, g)
  <2>1. req[r] \in Active
    BY <1>5, AtBusy, AtActive DEF ReleaseStake, CloseLostRound, At, Ops
  <2>2. "lost" \in Pcs
    BY DEF Pcs
  <2> QED BY <1>5, <2>1, <2>2, GotoType, FinishType DEF ReleaseStake, CloseLostRound
<1> QED BY <1>1, <1>2, <1>3, <1>4, <1>5 DEF Reveal

\* The handlers of cashOut keep their types.
LEMMA CashOutHandlers ==
  ASSUME TypeOK, NEW r \in Requests, NEW g \in GridGames, CashOut(r, g)
  PROVE  HandlerType'
<1> USE DEF TypeOK, Step
<1>1. CASE CashOutArrives(r, g)
  <2>1. PICK u \in Users, s \in DOMAIN session, i \in DOMAIN bet :
          Arrive(r, [Idle EXCEPT !.op = "cashOut", !.pc = "session", !.user = u, !.game = g,
                                 !.sid = s, !.ref = i])
    BY <1>1 DEF CashOutArrives
  <2>2. s \in Nat /\ i \in Nat /\ g \in Games
    BY ElementType DEF SessionType, BetType, GridGames, Games
  <2>3. ASSUME NEW slot \in Slots
        PROVE  [slot EXCEPT !.op = "cashOut", !.pc = "session", !.user = u, !.game = g,
                            !.sid = s, !.ref = i] \in Active
    BY <2>2 DEF Slots, Active, Ops, Pcs
  <2> QED BY <2>1, <2>3, IdleType, ArriveType
<1>2. CASE CashOutChecks(r, g)
  <2>1. req[r] \in Active
    BY <1>2, AtBusy, AtActive DEF CashOutChecks, At, Ops
  <2> QED BY <1>2, <2>1, CheckType DEF CashOutChecks, Pcs
<1>3. CASE ReadRoundToPay(r, g)
  <2>1. req[r] \in Active
    BY <1>3, AtBusy, AtActive DEF ReadRoundToPay, At, Ops
  <2> DEFINE row    == bet[req[r].ref]
             payout == RoundMoney(row.stake * row.mult)
             h      == [req[r] EXCEPT !.pc = "credit", !.stake = row.stake, !.payout = payout]
  <2>2. CASE RoundIsOpen(req[r]) /\ req' = [req EXCEPT ![r] = h]
    <3>1. row \in BetRows
      BY <2>2, ElementType DEF RoundIsOpen, BetType
    <3>2. row.stake \in Nat /\ row.mult \in Nat
      BY <3>1 DEF BetRows
    <3>3. payout \in Nat
      BY <3>2, PayoutType
    <3>4. h \in Active
      <4> HIDE DEF payout, row
      <4> QED BY <2>1, <3>2, <3>3 DEF Active, Pcs
    <3> QED BY <2>2, <3>4, SetType
  <2>3. CASE Finish(r)
    BY <2>3, FinishType
  <2> QED BY <1>3, <2>2, <2>3 DEF ReadRoundToPay
<1>4. CASE \/ CreditPayout(r, g) \/ CloseCashedOutRound(r, g)
           \/ InsertPayoutRow(r, g) \/ BumpCashedOutRound(r, g)
  <2>1. req[r] \in Active
    BY <1>4, AtBusy, AtActive
       DEF CreditPayout, CloseCashedOutRound, InsertPayoutRow, BumpCashedOutRound, At, Ops
  <2>2. "settle" \in Pcs /\ "ledger" \in Pcs /\ "bump" \in Pcs
    BY DEF Pcs
  <2> QED
    BY <1>4, <2>1, <2>2, GotoType, FinishType
       DEF CreditPayout, CloseCashedOutRound, InsertPayoutRow, BumpCashedOutRound
<1> QED BY <1>1, <1>2, <1>3, <1>4 DEF CashOut

\* Every step keeps the handlers' types.
LEMMA HandlersKeepTypes ==
  ASSUME TypeOK, [Next]_vars
  PROVE  HandlerType'
<1>1. CASE UNCHANGED req
  BY <1>1 DEF TypeOK, HandlerType
<1>2. ASSUME NEW r \in Requests, Handler(r)
      PROVE  HandlerType'
  BY <1>2, SessionHandlers, InstantHandlers, StartHandlers, RevealHandlers, CashOutHandlers
     DEF Handler, StartMines, RevealMines, CashOutMines, StartTowers, RevealTowers, CashOutTowers,
         GridGames
<1>3. ASSUME NEW r \in Requests, Abort(r)
      PROVE  HandlerType'
  BY <1>3, FinishType DEF Abort, TypeOK
<1> QED BY <1>1, <1>2, <1>3 DEF Next, vars, CreditWallet, AdminAct, rows

---------------------------------------------------------------------------
(* Wallets *)

\* A wallet that is not overdrawn and whose totals explain its balance.
Sound(w) ==
  /\ w \in Wallets
  /\ w.balance >= 0 /\ w.lockedBalance >= 0
  /\ w.balance = w.totalDeposited - w.totalWagered + w.totalWon

MoneyInv == WalletType /\ NoOverdraft /\ WalletBooks

\* The invariant on wallets, one wallet at a time.
LEMMA MoneyIsSound == MoneyInv => \A u \in Users : Sound(wallet[u])
BY DEF MoneyInv, WalletType, NoOverdraft, WalletBooks, Sound

\* An UPDATE that leaves one sound wallet behind keeps the invariant.
LEMMA UpdateWallet ==
  ASSUME MoneyInv, NEW u \in Users, NEW w, Sound(w), wallet' = [wallet EXCEPT ![u] = w]
  PROVE  MoneyInv'
BY DEF MoneyInv, WalletType, NoOverdraft, WalletBooks, Sound

\* The guarded debit: the wallet covers the stake, so it is not overdrawn.
LEMMA DebitIsSound ==
  ASSUME MoneyInv, NEW u \in Users, NEW stake \in Nat, NEW payout \in Nat, NEW hold \in Nat,
         wallet[u].balance >= stake, Debit(u, stake, payout, hold)
  PROVE  MoneyInv'
<1> DEFINE a == wallet[u].balance - stake + payout
           b == wallet[u].lockedBalance + hold
           c == wallet[u].totalWagered + stake
           d == wallet[u].totalWon + payout
           w == [wallet[u] EXCEPT !.balance = a, !.lockedBalance = b,
                                  !.totalWagered = c, !.totalWon = d]
<1>1. Sound(wallet[u])
  BY MoneyIsSound
<1>2. /\ a \in Nat /\ b \in Nat /\ c \in Nat /\ d \in Nat
      /\ wallet[u].totalDeposited \in Nat
      /\ a = wallet[u].totalDeposited - c + d
  BY <1>1 DEF Sound, Wallets
<1>3. wallet' = [wallet EXCEPT ![u] = w]
  BY DEF Debit
<1>4. Sound(w)
  <2>1. wallet[u] \in Wallets /\ a \in Int /\ b \in Int
    BY <1>1, <1>2 DEF Sound
  <2>2. w \in Wallets
    <3> HIDE DEF a, b, c, d
    <3> QED BY <1>2, <2>1 DEF Wallets
  <2>3. /\ w.balance = a /\ w.lockedBalance = b /\ w.totalWagered = c /\ w.totalWon = d
        /\ w.totalDeposited = wallet[u].totalDeposited
    <3> HIDE DEF a, b, c, d
    <3> QED BY <2>1 DEF Wallets
  <2> HIDE DEF a, b, c, d, w
  <2> QED BY <1>2, <2>2, <2>3 DEF Sound
<1> QED BY <1>3, <1>4, UpdateWallet

\* Paying into a sound wallet, with the payment counted as won, keeps it sound.
LEMMA PayIsSound ==
  ASSUME NEW v, Sound(v), NEW payout \in Nat
  PROVE  Sound([v EXCEPT !.balance = @ + payout, !.totalWon = @ + payout])
<1> DEFINE a == v.balance + payout
           d == v.totalWon + payout
           x == [v EXCEPT !.balance = a, !.totalWon = d]
<1>1. /\ a \in Nat /\ d \in Nat /\ v.totalDeposited \in Nat /\ v.totalWagered \in Nat
      /\ a = v.totalDeposited - v.totalWagered + d
  BY DEF Sound, Wallets
<1>2. v \in Wallets /\ v.lockedBalance >= 0 /\ a \in Int
  BY <1>1 DEF Sound
<1>3. x \in Wallets
  <2> HIDE DEF a, d
  <2> QED BY <1>1, <1>2 DEF Wallets
<1>4. /\ x.balance = a /\ x.totalWon = d /\ x.lockedBalance = v.lockedBalance
      /\ x.totalDeposited = v.totalDeposited /\ x.totalWagered = v.totalWagered
  <2> HIDE DEF a, d
  <2> QED BY <1>2 DEF Wallets
<1>5. Sound(x)
  <2> HIDE DEF a, d, x
  <2> QED BY <1>1, <1>2, <1>3, <1>4 DEF Sound
<1> QED BY <1>5

\* Every UPDATE of a wallet leaves it sound.
LEMMA WalletWritesAreSound ==
  ASSUME TypeOK, MoneyInv, WalletWrite
  PROVE  MoneyInv'
<1>1. ASSUME NEW u \in Users, CreditWallet(u)
      PROVE  MoneyInv'
  <2>1. PICK amount \in DepositAmounts :
          wallet' = [wallet EXCEPT ![u].balance = @ + amount, ![u].totalDeposited = @ + amount]
    BY <1>1 DEF CreditWallet
  <2> DEFINE a == wallet[u].balance + amount
             d == wallet[u].totalDeposited + amount
             w == [wallet[u] EXCEPT !.balance = a, !.totalDeposited = d]
  <2>2. Sound(wallet[u])
    BY MoneyIsSound
  <2>3. /\ a \in Nat /\ d \in Nat
        /\ wallet[u].totalWagered \in Nat /\ wallet[u].totalWon \in Nat
        /\ a = d - wallet[u].totalWagered + wallet[u].totalWon
    BY <2>2, MoneyAssumption DEF Sound, Wallets
  <2>4. wallet' = [wallet EXCEPT ![u] = w]
    BY <2>1
  <2>5. Sound(w)
    <3>1. wallet[u] \in Wallets /\ wallet[u].lockedBalance >= 0 /\ a \in Int
      BY <2>2, <2>3 DEF Sound
    <3>2. w \in Wallets
      <4> HIDE DEF a, d
      <4> QED BY <2>3, <3>1 DEF Wallets
    <3>3. /\ w.balance = a /\ w.totalDeposited = d
          /\ w.lockedBalance = wallet[u].lockedBalance
          /\ w.totalWagered = wallet[u].totalWagered /\ w.totalWon = wallet[u].totalWon
      <4> HIDE DEF a, d
      <4> QED BY <3>1 DEF Wallets
    <3> HIDE DEF a, d, w
    <3> QED BY <2>3, <3>1, <3>2, <3>3 DEF Sound
  <2> QED BY <2>4, <2>5, UpdateWallet
<1>2. ASSUME NEW r \in Requests, SettleWallet(r)
      PROVE  MoneyInv'
  <2>1. req[r] \in Active
    BY <1>2, AtBusy, AtActive DEF SettleWallet, At, Ops, TypeOK
  <2>2. req[r].user \in Users /\ req[r].stake \in Nat /\ req[r].payout \in Nat
    BY <2>1 DEF Active
  <2>3. CASE UNCHANGED wallet
    BY <2>3 DEF MoneyInv, WalletType, NoOverdraft, WalletBooks
  <2> QED BY <1>2, <2>2, <2>3, DebitIsSound DEF SettleWallet
<1>3. ASSUME NEW r \in Requests, NEW g \in GridGames, HoldStake(r, g)
      PROVE  MoneyInv'
  <2>1. req[r] \in Active
    BY <1>3, AtBusy, AtActive DEF HoldStake, Step, At, Ops, TypeOK
  <2>2. req[r].user \in Users /\ req[r].stake \in Nat
    BY <2>1 DEF Active
  <2>3. CASE UNCHANGED wallet
    BY <2>3 DEF MoneyInv, WalletType, NoOverdraft, WalletBooks
  <2> QED BY <1>3, <2>2, <2>3, DebitIsSound DEF HoldStake
<1>4. ASSUME NEW r \in Requests, NEW g \in GridGames, ReleaseStake(r, g)
      PROVE  MoneyInv'
  <2>1. req[r] \in Active
    BY <1>4, AtBusy, AtActive DEF ReleaseStake, Step, At, Ops, TypeOK
  <2> DEFINE u == req[r].user
             b == AtLeastZero(wallet[u].lockedBalance - req[r].stake)
             w == [wallet[u] EXCEPT !.lockedBalance = b]
  <2>2. u \in Users /\ req[r].stake \in Nat
    BY <2>1 DEF Active
  <2>3. Sound(wallet[u])
    BY <2>2, MoneyIsSound
  <2>4. b \in Nat
    BY <2>2, <2>3, AtLeastZeroType DEF Sound, Wallets
  <2>5. Sound(w)
    <3> HIDE DEF b, u
    <3> QED BY <2>3, <2>4 DEF Sound, Wallets
  <2>6. wallet' = [wallet EXCEPT ![u] = w]
    BY <1>4 DEF ReleaseStake, Unlock
  <2> QED
    <3> HIDE DEF w, u
    <3> QED BY <2>2, <2>5, <2>6, UpdateWallet
<1>5. ASSUME NEW r \in Requests, NEW g \in GridGames, CreditPayout(r, g)
      PROVE  MoneyInv'
  <2>1. req[r] \in Active
    BY <1>5, AtBusy, AtActive DEF CreditPayout, Step, At, Ops, TypeOK
  <2> DEFINE u == req[r].user
             b == AtLeastZero(wallet[u].lockedBalance - req[r].stake)
             v == [wallet[u] EXCEPT !.lockedBalance = b]
             w == [v EXCEPT !.balance = @ + req[r].payout, !.totalWon = @ + req[r].payout]
  <2>2. u \in Users /\ req[r].stake \in Nat /\ req[r].payout \in Nat
    BY <2>1 DEF Active
  <2>3. Sound(wallet[u])
    BY <2>2, MoneyIsSound
  <2>4. b \in Nat
    BY <2>2, <2>3, AtLeastZeroType DEF Sound, Wallets
  <2>5. Sound(v)
    <3> HIDE DEF b, u
    <3> QED BY <2>3, <2>4 DEF Sound, Wallets
  <2>6. Sound(w)
    <3> HIDE DEF v
    <3> QED BY <2>2, <2>5, PayIsSound
  <2>7. wallet' = [wallet EXCEPT ![u] = w]
    BY <1>5 DEF CreditPayout, Unlock
  <2> QED
    <3> HIDE DEF w, u
    <3> QED BY <2>2, <2>6, <2>7, UpdateWallet
<1> QED BY <1>1, <1>2, <1>3, <1>4, <1>5 DEF WalletWrite

---------------------------------------------------------------------------
(* Tables *)

\* Writing over one element of a sequence: an index outside it changes nothing.
LEMMA UpdateType ==
  ASSUME NEW S, NEW s \in Seq(S), NEW i, NEW x, i \in DOMAIN s => x \in S
  PROVE  [s EXCEPT ![i] = x] \in Seq(S) /\ Len([s EXCEPT ![i] = x]) = Len(s)
<1> DEFINE t == [s EXCEPT ![i] = x]
<1>1. \A j \in DOMAIN s : t[j] \in S
  BY ElementType
<1>2. t = [j \in DOMAIN s |-> t[j]]
  OBVIOUS
<1> HIDE DEF t
<1>3. t \in Seq(S) /\ Len(t) = Len(s)
  BY <1>1, <1>2, MapType
<1> QED BY <1>3 DEF t

\* An inserted row is the next element.
LEMMA InsertType ==
  ASSUME NEW S, NEW s \in Seq(S), NEW x \in S
  PROVE  Append(s, x) \in Seq(S) /\ Len(Append(s, x)) = Len(s) + 1
OBVIOUS

\* The counters of a session only grow.
LEMMA BumpType ==
  ASSUME SessionType, NEW s, NEW staked \in Nat, NEW won \in Nat, BumpSession(s, staked, won)
  PROVE  SessionType'
<1> DEFINE a == session[s].betCount + 1
           b == session[s].staked + staked
           c == session[s].won + won
           x == [session[s] EXCEPT !.betCount = a, !.staked = b, !.won = c]
<1>1. ASSUME s \in DOMAIN session
      PROVE  x \in SessionRows
  <2>1. session[s] \in SessionRows
    BY <1>1, ElementType DEF SessionType
  <2>2. a \in Nat /\ b \in Nat /\ c \in Nat
    BY <2>1 DEF SessionRows
  <2> HIDE DEF a, b, c
  <2> QED BY <2>1, <2>2 DEF SessionRows
<1>2. session' = [session EXCEPT ![s] = x]
  BY DEF BumpSession
<1> HIDE DEF x
<1> QED BY <1>1, <1>2, UpdateType DEF SessionType

\* Every write to smink_sessions keeps its rows well formed.
LEMMA SessionsKeepType ==
  ASSUME TypeOK, SessionWrite
  PROVE  SessionType'
<1> USE DEF TypeOK
<1>1. ASSUME NEW r \in Requests, EndOpenSessions(r)
      PROVE  SessionType'
  <2>1. \A s \in DOMAIN session : session'[s] \in SessionRows
    <3> TAKE s \in DOMAIN session
    <3> DEFINE e == session[s].ended \/ (session[s].user = req[r].user /\ session[s].game = req[r].game)
    <3>1. session[s] \in SessionRows
      BY ElementType DEF SessionType
    <3>2. e \in BOOLEAN
      BY <3>1 DEF SessionRows
    <3>3. session'[s] = [session[s] EXCEPT !.ended = e]
      BY <1>1 DEF EndOpenSessions
    <3>4. [session[s] EXCEPT !.ended = e] \in SessionRows
      <4> HIDE DEF e
      <4> QED BY <3>1, <3>2 DEF SessionRows
    <3> QED BY <3>3, <3>4
  <2>2. session' = [s \in DOMAIN session |-> session'[s]]
    BY <1>1 DEF EndOpenSessions
  <2> QED BY <2>1, <2>2, MapType DEF SessionType
<1>2. ASSUME NEW r \in Requests, InsertSession(r)
      PROVE  SessionType'
  <2>1. req[r] \in Active
    BY <1>2, AtBusy, AtActive DEF InsertSession, At, Ops
  <2>2. [user |-> req[r].user, game |-> req[r].game, ended |-> FALSE,
         betCount |-> 0, staked |-> 0, won |-> 0] \in SessionRows
    BY <2>1 DEF Active, SessionRows
  <2> QED BY <1>2, <2>2, InsertType DEF InsertSession, SessionType
<1>3. ASSUME NEW r \in Requests, MarkEnded(r)
      PROVE  SessionType'
  <2> DEFINE s == req[r].sid
             x == [session[s] EXCEPT !.ended = TRUE]
  <2>1. ASSUME s \in DOMAIN session
        PROVE  x \in SessionRows
    <3>1. session[s] \in SessionRows
      BY <2>1, ElementType DEF SessionType
    <3> HIDE DEF s
    <3> QED BY <3>1 DEF SessionRows
  <2>2. session' = [session EXCEPT ![s] = x]
    BY <1>3 DEF MarkEnded
  <2> HIDE DEF x
  <2> QED BY <2>1, <2>2, UpdateType DEF SessionType
<1>4. ASSUME NEW r \in Requests, BumpSettledBet(r)
      PROVE  SessionType'
  <2>1. req[r] \in Active
    BY <1>4, AtBusy, AtActive DEF BumpSettledBet, At, Ops
  <2>2. req[r].stake \in Nat /\ req[r].payout \in Nat
    BY <2>1 DEF Active
  <2> QED BY <1>4, <2>2, BumpType DEF BumpSettledBet
<1>5. ASSUME NEW r \in Requests, NEW g \in GridGames,
             BumpStartedRound(r, g) \/ BumpCashedOutRound(r, g)
      PROVE  SessionType'
  <2>1. req[r] \in Active
    BY <1>5, AtBusy, AtActive DEF BumpStartedRound, BumpCashedOutRound, Step, At, Ops
  <2>2. req[r].stake \in Nat /\ req[r].payout \in Nat
    BY <2>1 DEF Active
  <2> QED BY <1>5, <2>2, BumpType DEF BumpStartedRound, BumpCashedOutRound
<1> QED BY <1>1, <1>2, <1>3, <1>4, <1>5 DEF SessionWrite

\* A new bet row comes with an empty ledger entry.
LEMMA InsertBetType ==
  ASSUME BetType, LedgerType, NEW row \in BetRows, InsertBet(row)
  PROVE  BetType' /\ LedgerType'
<1>1. [staked |-> 0, paid |-> 0, payouts |-> 0] \in LedgerRows
  BY DEF LedgerRows
<1> QED BY <1>1, InsertType DEF InsertBet, BetType, LedgerType

\* The inserts of an instant bet and of an open round.
LEMMA InsertsKeepType ==
  ASSUME TypeOK, NEW r \in Requests,
         InsertSettledBet(r) \/ \E g \in GridGames : InsertOpenRound(r, g)
  PROVE  BetType' /\ LedgerType'
<1> USE DEF TypeOK
<1>1. req[r] \in Active
  BY AtBusy, AtActive DEF InsertSettledBet, InsertOpenRound, Step, At, Ops
<1>2. CASE InsertSettledBet(r)
  <2> DEFINE status == IF req[r].mult > 0 THEN "won" ELSE "lost"
             controlled == req[r].forced # "none"
             row == [user |-> req[r].user, game |-> "instant", sid |-> req[r].sid,
                     stake |-> req[r].stake, mult |-> req[r].mult, payout |-> req[r].payout,
                     status |-> status, count |-> 0, traps |-> {}, opened |-> <<>>,
                     nonce |-> req[r].nonce, controlled |-> controlled]
  <2>1. InsertBet(row)
    BY <1>2 DEF InsertSettledBet
  <2>2. status \in {"won", "lost"} /\ controlled \in BOOLEAN
    OBVIOUS
  <2>3. row \in BetRows
    <3> HIDE DEF status, controlled
    <3> QED BY <1>1, <2>2 DEF BetRows, Active, Games
  <2> HIDE DEF row
  <2> QED BY <2>1, <2>3, InsertBetType
<1>3. ASSUME NEW g \in GridGames, InsertOpenRound(r, g)
      PROVE  BetType' /\ LedgerType'
  <2> DEFINE controlled == req[r].forced # "none"
             row == [user |-> req[r].user, game |-> g, sid |-> req[r].sid,
                     stake |-> req[r].stake, mult |-> 0, payout |-> 0, status |-> "open",
                     count |-> req[r].count, traps |-> req[r].traps, opened |-> <<>>,
                     nonce |-> req[r].nonce, controlled |-> controlled]
  <2>1. InsertBet(row)
    BY <1>3 DEF InsertOpenRound
  <2>2. controlled \in BOOLEAN /\ g \in Games
    BY DEF GridGames, Games
  <2>3. row \in BetRows
    <3> HIDE DEF controlled
    <3> QED BY <1>1, <2>2 DEF BetRows, Active
  <2> HIDE DEF row
  <2> QED BY <2>1, <2>3, InsertBetType
<1> QED BY <1>2, <1>3

\* Every write to smink_bets keeps its rows well formed.
LEMMA BetsKeepType ==
  ASSUME TypeOK, BetWrite
  PROVE  BetType' /\ (~LedgerWrite => Len(bet') = Len(bet))
<1> USE DEF TypeOK
<1>1. ASSUME NEW r \in Requests, InsertSettledBet(r)
      PROVE  BetType' /\ LedgerWrite
  BY <1>1, InsertsKeepType DEF LedgerWrite
<1>2. ASSUME NEW r \in Requests, NEW g \in GridGames, InsertOpenRound(r, g)
      PROVE  BetType' /\ LedgerWrite
  BY <1>2, InsertsKeepType DEF LedgerWrite
<1>3. ASSUME NEW r \in Requests, NEW g \in GridGames, CloseLostRound(r, g)
      PROVE  BetType' /\ Len(bet') = Len(bet)
  <2> DEFINE i == req[r].ref
             opened == Append(req[r].opened, req[r].tile)
             x == [bet[i] EXCEPT !.status = "lost", !.mult = 0, !.payout = 0, !.opened = opened]
  <2>1. req[r] \in Active
    BY <1>3, AtBusy, AtActive DEF CloseLostRound, Step, At, Ops
  <2>2. opened \in Seq(Nat)
    BY <2>1 DEF Active
  <2>3. ASSUME i \in DOMAIN bet
        PROVE  x \in BetRows
    <3>1. bet[i] \in BetRows
      BY <2>3, ElementType DEF BetType
    <3> HIDE DEF i, opened
    <3> QED BY <2>2, <3>1 DEF BetRows
  <2>4. bet' = [bet EXCEPT ![i] = x]
    BY <1>3 DEF CloseLostRound
  <2> HIDE DEF x, i
  <2>5. [bet EXCEPT ![i] = x] \in Seq(BetRows) /\ Len([bet EXCEPT ![i] = x]) = Len(bet)
    BY <2>3, UpdateType DEF BetType
  <2> QED BY <2>4, <2>5 DEF BetType
<1>4. ASSUME NEW r \in Requests, NEW g \in GridGames, RaiseMultiplier(r, g)
      PROVE  BetType' /\ Len(bet') = Len(bet)
  <2> DEFINE i == req[r].ref
             opened == Append(req[r].opened, req[r].tile)
             mult == Multiplier(g, req[r].count, Len(opened))
             x == [bet[i] EXCEPT !.opened = opened, !.mult = mult]
  <2>1. req[r] \in Active
    BY <1>4, AtBusy, AtActive DEF RaiseMultiplier, Step, At, Ops
  <2>2. opened \in Seq(Nat)
    BY <2>1 DEF Active
  <2>3. mult \in Nat
    <3>1. Len(opened) \in Nat /\ req[r].count \in MineCounts \cup {0}
      BY <2>1, <2>2, LenProperties DEF Active
    <3> QED BY <3>1, MultiplierType
  <2>4. ASSUME i \in DOMAIN bet
        PROVE  x \in BetRows
    <3>1. bet[i] \in BetRows
      BY <2>4, ElementType DEF BetType
    <3> HIDE DEF i, opened, mult
    <3> QED BY <2>2, <2>3, <3>1 DEF BetRows
  <2>5. bet' = [bet EXCEPT ![i] = x]
    BY <1>4 DEF RaiseMultiplier
  <2> HIDE DEF x, i
  <2>6. [bet EXCEPT ![i] = x] \in Seq(BetRows) /\ Len([bet EXCEPT ![i] = x]) = Len(bet)
    BY <2>4, UpdateType DEF BetType
  <2> QED BY <2>5, <2>6 DEF BetType
<1>5. ASSUME NEW r \in Requests, NEW g \in GridGames, CloseCashedOutRound(r, g)
      PROVE  BetType' /\ Len(bet') = Len(bet)
  <2> DEFINE i == req[r].ref
             x == [bet[i] EXCEPT !.status = "cashed_out", !.payout = req[r].payout]
  <2>1. req[r] \in Active
    BY <1>5, AtBusy, AtActive DEF CloseCashedOutRound, Step, At, Ops
  <2>2. req[r].payout \in Nat
    BY <2>1 DEF Active
  <2>3. ASSUME i \in DOMAIN bet
        PROVE  x \in BetRows
    <3>1. bet[i] \in BetRows
      BY <2>3, ElementType DEF BetType
    <3> HIDE DEF i
    <3> QED BY <2>2, <3>1 DEF BetRows
  <2>4. bet' = [bet EXCEPT ![i] = x]
    BY <1>5 DEF CloseCashedOutRound
  <2> HIDE DEF x, i
  <2>5. [bet EXCEPT ![i] = x] \in Seq(BetRows) /\ Len([bet EXCEPT ![i] = x]) = Len(bet)
    BY <2>3, UpdateType DEF BetType
  <2> QED BY <2>4, <2>5 DEF BetType
<1> QED BY <1>1, <1>2, <1>3, <1>4, <1>5 DEF BetWrite

\* A write to one ledger entry leaves one entry per bet.
LEMMA LedgerUpdateType ==
  ASSUME LedgerType, UNCHANGED bet, NEW i, NEW x, i \in DOMAIN ledger => x \in LedgerRows,
         ledger' = [ledger EXCEPT ![i] = x]
  PROVE  LedgerType'
<1>1. /\ [ledger EXCEPT ![i] = x] \in Seq(LedgerRows)
      /\ Len([ledger EXCEPT ![i] = x]) = Len(ledger)
  BY UpdateType DEF LedgerType
<1> QED BY <1>1 DEF LedgerType

\* Every write to smink_transactions keeps its entries well formed, one per bet.
LEMMA LedgerKeepsType ==
  ASSUME TypeOK, LedgerWrite
  PROVE  LedgerType'
<1> USE DEF TypeOK
<1>1. ASSUME NEW r \in Requests, InsertSettledBet(r)
      PROVE  LedgerType'
  BY <1>1, InsertsKeepType
<1>2. ASSUME NEW r \in Requests, NEW g \in GridGames, InsertOpenRound(r, g)
      PROVE  LedgerType'
  BY <1>2, InsertsKeepType
<1>3. ASSUME NEW r \in Requests, InsertBetLedger(r)
      PROVE  LedgerType'
  <2> DEFINE i == req[r].ref
             n == IF req[r].payout > 0 THEN 1 ELSE 0
             a == ledger[i].staked + req[r].stake
             b == ledger[i].paid + req[r].payout
             c == ledger[i].payouts + n
             x == [ledger[i] EXCEPT !.staked = a, !.paid = b, !.payouts = c]
  <2>1. req[r] \in Active
    BY <1>3, AtBusy, AtActive DEF InsertBetLedger, At, Ops
  <2>2. ASSUME i \in DOMAIN ledger
        PROVE  x \in LedgerRows
    <3>1. ledger[i] \in LedgerRows
      BY <2>2, ElementType DEF LedgerType
    <3>2. req[r].stake \in Nat /\ req[r].payout \in Nat /\ n \in Nat
      BY <2>1 DEF Active
    <3>3. a \in Nat /\ b \in Nat /\ c \in Nat
      <4> HIDE DEF i, n
      <4> QED BY <3>1, <3>2 DEF LedgerRows
    <3> HIDE DEF a, b, c, i
    <3> QED BY <3>1, <3>3 DEF LedgerRows
  <2>3. ledger' = [ledger EXCEPT ![i] = x] /\ UNCHANGED bet
    BY <1>3 DEF InsertBetLedger
  <2> HIDE DEF x
  <2> QED BY <2>2, <2>3, LedgerUpdateType
<1>4. ASSUME NEW r \in Requests, NEW g \in GridGames, InsertStakeRow(r, g)
      PROVE  LedgerType'
  <2> DEFINE i == req[r].ref
             a == ledger[i].staked + req[r].stake
             x == [ledger[i] EXCEPT !.staked = a]
  <2>1. req[r] \in Active
    BY <1>4, AtBusy, AtActive DEF InsertStakeRow, Step, At, Ops
  <2>2. ASSUME i \in DOMAIN ledger
        PROVE  x \in LedgerRows
    <3>1. ledger[i] \in LedgerRows
      BY <2>2, ElementType DEF LedgerType
    <3>2. req[r].stake \in Nat /\ ledger[i].staked \in Nat
      BY <2>1, <3>1 DEF LedgerRows, Active
    <3>3. a \in Nat
      BY <3>2
    <3> HIDE DEF a, i
    <3> QED BY <3>1, <3>3 DEF LedgerRows
  <2>3. ledger' = [ledger EXCEPT ![i] = x] /\ UNCHANGED bet
    BY <1>4 DEF InsertStakeRow
  <2> HIDE DEF x
  <2> QED BY <2>2, <2>3, LedgerUpdateType
<1>5. ASSUME NEW r \in Requests, NEW g \in GridGames, InsertPayoutRow(r, g)
      PROVE  LedgerType'
  <2> DEFINE i == req[r].ref
             b == ledger[i].paid + req[r].payout
             c == ledger[i].payouts + 1
             x == [ledger[i] EXCEPT !.paid = b, !.payouts = c]
  <2>1. req[r] \in Active
    BY <1>5, AtBusy, AtActive DEF InsertPayoutRow, Step, At, Ops
  <2>2. ASSUME i \in DOMAIN ledger
        PROVE  x \in LedgerRows
    <3>1. ledger[i] \in LedgerRows
      BY <2>2, ElementType DEF LedgerType
    <3>2. req[r].payout \in Nat /\ ledger[i].paid \in Nat /\ ledger[i].payouts \in Nat
      BY <2>1, <3>1 DEF LedgerRows, Active
    <3>3. b \in Nat /\ c \in Nat
      BY <3>2
    <3> HIDE DEF b, c, i
    <3> QED BY <3>1, <3>3 DEF LedgerRows
  <2>3. ledger' = [ledger EXCEPT ![i] = x] /\ UNCHANGED bet
    BY <1>5 DEF InsertPayoutRow
  <2> HIDE DEF x
  <2> QED BY <2>2, <2>3, LedgerUpdateType
<1> QED BY <1>1, <1>2, <1>3, <1>4, <1>5 DEF LedgerWrite

\* Consuming a forced round keeps the rule a rule.
LEMMA ControlKeepsType ==
  ASSUME TypeOK, ControlWrite
  PROVE  ControlType'
<1> USE DEF TypeOK
<1>1. PICK r \in Requests : ConsumeForcedRound(r)
  BY DEF ControlWrite
<1> DEFINE u == req[r].user
           n == AtLeastZero(control[u].forceRounds - 1)
           x == [control[u] EXCEPT !.forceRounds = n]
<1>2. req[r] \in Active
  BY <1>1, AtBusy, AtActive DEF ConsumeForcedRound, At, Ops
<1>3. u \in Users
  BY <1>2 DEF Active
<1>4. x \in Rules
  <2>1. control[u] \in Rules
    BY <1>3 DEF ControlType
  <2>2. n \in Nat
    BY <2>1, AtLeastZeroType DEF Rules
  <2> HIDE DEF n, u
  <2> QED BY <2>1, <2>2 DEF Rules
<1>5. control' = [control EXCEPT ![u] = x]
  BY <1>1 DEF ConsumeForcedRound
<1> HIDE DEF x, u
<1> QED BY <1>3, <1>4, <1>5 DEF ControlType

\* The admin app keeps its flags flags, whatever it toggles.
LEMMA AdminKeepsType ==
  ASSUME TypeOK, AdminAct
  PROVE  AdminType'
<1> DEFINE games == {command[2] : command \in Commands}
<1>1. games \subseteq Games
  BY PlayersAssumption DEF AllCommands, Games
<1>2. PICK u \in Users, g \in games :
        \/ admin' = [admin EXCEPT !.locked = Toggle(@, u), !.acts = @ + 1]
        \/ admin' = [admin EXCEPT !.closed = Toggle(@, g), !.acts = @ + 1]
        \/ admin' = [admin EXCEPT !.hidden = Toggle(@, <<u, g>>), !.acts = @ + 1]
  BY DEF AdminAct
<1>3. g \in Games
  BY <1>1
<1>4. Toggle(admin.locked, u) \in SUBSET Users
  BY DEF TypeOK, AdminType, Toggle
<1>5. Toggle(admin.closed, g) \in SUBSET Games
  BY <1>3 DEF TypeOK, AdminType, Toggle
<1>6. Toggle(admin.hidden, <<u, g>>) \in SUBSET (Users \X Games)
  BY <1>3 DEF TypeOK, AdminType, Toggle
<1>7. \E L \in SUBSET Users, C \in SUBSET Games, H \in SUBSET (Users \X Games) :
        \/ admin' = [admin EXCEPT !.locked = L, !.acts = @ + 1]
        \/ admin' = [admin EXCEPT !.closed = C, !.acts = @ + 1]
        \/ admin' = [admin EXCEPT !.hidden = H, !.acts = @ + 1]
  BY <1>2, <1>4, <1>5, <1>6
<1>8. admin.acts + 1 \in Nat
  BY DEF TypeOK, AdminType
<1> QED BY <1>7, <1>8 DEF TypeOK, AdminType

---------------------------------------------------------------------------
(* Theorems *)

\* Every step keeps the types of what it writes; MoneyInv has the wallets'.
LEMMA StepKeepsInv ==
  ASSUME TypeOK, MoneyInv, [Next]_vars
  PROVE  TypeOK' /\ MoneyInv'
<1>1. MoneyInv'
  <2>1. CASE UNCHANGED wallet
    BY <2>1 DEF MoneyInv, WalletType, NoOverdraft, WalletBooks
  <2> QED BY <2>1, Writers, WalletWritesAreSound
<1>2. SessionType'
  <2>1. CASE UNCHANGED session
    BY <2>1 DEF TypeOK, SessionType
  <2> QED BY <2>1, Writers, SessionsKeepType
<1>3. BetType'
  <2>1. CASE UNCHANGED bet
    BY <2>1 DEF TypeOK, BetType
  <2> QED BY <2>1, Writers, BetsKeepType
<1>4. LedgerType'
  <2>1. CASE LedgerWrite
    BY <2>1, LedgerKeepsType
  <2>2. CASE ~LedgerWrite
    <3>1. UNCHANGED ledger /\ Len(bet') = Len(bet)
      BY <2>2, Writers, BetsKeepType
    <3> QED BY <3>1 DEF TypeOK, LedgerType
  <2> QED BY <2>1, <2>2
<1>5. ControlType'
  <2>1. CASE UNCHANGED control
    BY <2>1 DEF TypeOK, ControlType
  <2> QED BY <2>1, Writers, ControlKeepsType
<1>6. AdminType'
  <2>1. CASE UNCHANGED admin
    BY <2>1 DEF TypeOK, AdminType
  <2> QED BY <2>1, Writers, AdminKeepsType
<1>7. failures' \in Nat
  BY Writers DEF Abort, TypeOK
<1>8. HandlerType'
  BY HandlersKeepTypes
<1> QED BY <1>1, <1>2, <1>3, <1>4, <1>5, <1>6, <1>7, <1>8 DEF TypeOK, MoneyInv

\* Empty tables, zero wallets and idle slots.
LEMMA InitKeepsInv == Init => TypeOK /\ MoneyInv
<1> SUFFICES ASSUME Init PROVE TypeOK /\ MoneyInv
  OBVIOUS
<1>1. NewWallet \in Wallets
  BY DEF NewWallet, Wallets
<1>2. MoneyInv
  <2>1. \A u \in Users : wallet[u] = NewWallet
    BY DEF Init
  <2>2. wallet \in [Users -> Wallets]
    BY <1>1 DEF Init
  <2> QED BY <2>1, <2>2 DEF MoneyInv, WalletType, NoOverdraft, WalletBooks, NewWallet
<1>3. SessionType /\ BetType /\ LedgerType
  BY DEF Init, SessionType, BetType, LedgerType
<1>4. ControlType
  BY MoneyAssumption DEF Init, ControlType
<1>5. HandlerType
  BY DEF Init, HandlerType, Handlers
<1>6. AdminType /\ failures \in Nat
  BY DEF Init, AdminType
<1> QED BY <1>2, <1>3, <1>4, <1>5, <1>6 DEF TypeOK, MoneyInv

\* Rows and handlers keep their types, and every bet its ledger entry, for any
\* number of players and requests: no statement of any handler writes what the
\* next one cannot read.
THEOREM TypeCorrect == Spec => []TypeOK
<1>1. Init => TypeOK /\ MoneyInv
  BY InitKeepsInv
<1>2. TypeOK /\ MoneyInv /\ [Next]_vars => (TypeOK /\ MoneyInv)'
  BY StepKeepsInv
<1> QED BY <1>1, <1>2, PTL DEF Spec

\* The inductive invariant behind the theorems on wallets.
LEMMA MoneyHolds == Spec => []MoneyInv
<1>1. Init => TypeOK /\ MoneyInv
  BY InitKeepsInv
<1>2. TypeOK /\ MoneyInv /\ [Next]_vars => (TypeOK /\ MoneyInv)'
  BY StepKeepsInv
<1> QED BY <1>1, <1>2, PTL DEF Spec

\* No interleaving or failure of handlers overdraws a wallet or holds less than
\* nothing: the guards in the UPDATEs suffice, no lock is needed.
THEOREM WalletsNeverOverdrawn == Spec => []NoOverdraft
<1>1. MoneyInv => NoOverdraft
  BY DEF MoneyInv
<1> QED BY <1>1, MoneyHolds, PTL

\* A balance is always what was deposited and won less what was wagered.
THEOREM WalletsBalance == Spec => []WalletBooks
<1>1. MoneyInv => WalletBooks
  BY DEF MoneyInv
<1> QED BY <1>1, MoneyHolds, PTL
=============================================================================
