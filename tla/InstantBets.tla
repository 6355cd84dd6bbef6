---------------------------- MODULE InstantBets ----------------------------
(***************************************************************************)
(* PlayService.placeBet, and the reads it shares with startMines and       *)
(* startTowers: wallet, nonce and control rule.  The six instant games run *)
(* the same statements and differ in the multipliers they roll.            *)
(***************************************************************************)
EXTENDS PlayDb

\* Bets there are or may come to be; bounds the model at MaxBets.
BetsUnderWay == Len(bet) + Cardinality({r \in Requests : req[r].op \in {"placeBet", "start"}})

---------------------------------------------------------------------------
(* Reads shared by the handlers that take a stake *)

\* wallets.getOrCreate, then the isLocked check.
ReadWallet(r) ==
  /\ req[r].op \in {"placeBet", "start"} /\ req[r].pc = "wallet"
  /\ Check(r, req[r].user \notin admin.locked, "nonce")
  /\ UNCHANGED <<rows, admin, failures>>

\* Mutant of CountBets: the bets of this session only.
CountSessionBets(r) ==
  /\ req[r].op \in {"placeBet", "start"} /\ req[r].pc = "nonce"
  /\ req' = [req EXCEPT ![r].pc = "control",
               ![r].nonce = Cardinality({i \in DOMAIN bet : bet[i].sid = req[r].sid}) + 1]
  /\ UNCHANGED <<rows, admin, failures>>

\* nextNonce: one more than the player's bets.
CountBets(r) ==
  /\ req[r].op \in {"placeBet", "start"} /\ req[r].pc = "nonce"
  /\ req' = [req EXCEPT ![r].pc = "control",
               ![r].nonce = Cardinality({i \in DOMAIN bet : bet[i].user = req[r].user}) + 1]
  /\ UNCHANGED <<rows, admin, failures>>

Metered(rule) == rule.mode \in {"force_win", "force_loss"} /\ rule.forceRounds > 0

\* decideForcedResult: what a control rule may decide, "none" for an honest roll,
\* which is also what a bias without a rate comes to.
DecideForcedResult(rule) ==
  CASE rule.mode = "bias" -> {"none", "win", "loss"}
    [] Metered(rule)      -> {IF rule.mode = "force_win" THEN "win" ELSE "loss"}
    [] OTHER              -> {"none"}

\* decideFromDifficulty: a loss percent, 0 for fair odds.
DecideFromDifficulty ==
  CASE Difficulty = 0   -> {"none"}
    [] Difficulty = 100 -> {"loss"}
    [] OTHER            -> {"win", "loss"}

\* resolveControl: the player's rule first, the difficulty when it decides nothing.
ResolveControl(rule) ==
  LET fromUser == DecideForcedResult(rule)
  IN IF "none" \in fromUser THEN (fromUser \ {"none"}) \cup DecideFromDifficulty ELSE fromUser

\* resolveRound, reduced to what it pays.  The forced pools of Wheel, Plinko and
\* Keno split at 1x, so a forced loss may still pay a part of the stake back.
Roll(forced) ==
  CASE forced = "none" -> Multipliers \cup {0}
    [] forced = "win"  -> {m \in Multipliers : m >= 100}
    [] forced = "loss" -> {m \in Multipliers : m < 100} \cup {0}

\* Mutant of ApplyWinCap: wins are not capped.
NoWinCap(mult, rule) == mult

\* applyWinCap: a win above the rule's cap is brought down to it.
ApplyWinCap(mult, rule) == IF rule.cap > 0 /\ mult > rule.cap THEN rule.cap ELSE mult

---------------------------------------------------------------------------
(* placeBet *)

PlaceBetArrives(r) ==
  \E u \in Users, s \in DOMAIN session, x \in StakeInputs :
    /\ BetsUnderWay < MaxBets
    /\ Arrive(r, [Idle EXCEPT !.op = "placeBet", !.pc = "session", !.user = u,
                              !.sid = s, !.stake = RoundMoney(x)])

\* requireOpenSession, then the selection and parseStake.
PlaceBetChecks(r) ==
  /\ At(r, "placeBet", "session")
  /\ Check(r, SessionIsOpen(req[r].user, req[r].sid, "instant") /\ ValidStake(req[r].stake),
           "wallet")
  /\ UNCHANGED <<rows, admin, failures>>

\* getControlRule; the round is resolved before any money moves.
RollRound(r) ==
  /\ At(r, "placeBet", "control")
  /\ LET rule == control[req[r].user]
     IN \E forced \in ResolveControl(rule) : \E raw \in Roll(forced) :
          LET mult == ApplyWinCap(raw, rule)
          IN req' = [req EXCEPT ![r].pc = "debit", ![r].forced = forced,
                                ![r].metered = Metered(rule), ![r].mult = mult,
                                ![r].payout = RoundMoney(req[r].stake * mult)]
  /\ UNCHANGED <<rows, admin, failures>>

\* UPDATE ... SET balance = balance + net WHERE balance >= stake: stake and payout at once.
SettleWallet(r) ==
  /\ At(r, "placeBet", "debit")
  /\ \/ /\ wallet[req[r].user].balance >= req[r].stake
        /\ Debit(req[r].user, req[r].stake, req[r].payout, 0)
        /\ Goto(r, "insert")
     \/ /\ wallet[req[r].user].balance < req[r].stake
        /\ Finish(r)
        /\ UNCHANGED wallet
  /\ UNCHANGED <<session, bet, ledger, control, admin, failures>>

InsertSettledBet(r) ==
  /\ At(r, "placeBet", "insert")
  /\ InsertBet([user |-> req[r].user, game |-> "instant", sid |-> req[r].sid,
                stake |-> req[r].stake, mult |-> req[r].mult, payout |-> req[r].payout,
                status |-> IF req[r].mult > 0 THEN "won" ELSE "lost",
                count |-> 0, traps |-> {}, opened |-> <<>>,
                nonce |-> req[r].nonce, controlled |-> req[r].forced # "none"])
  /\ req' = [req EXCEPT ![r].pc = "ledger", ![r].ref = Len(bet) + 1]
  /\ UNCHANGED <<wallet, session, control, admin, failures>>

\* Mutant of InsertBetLedger: the session is never bumped.
BookAndStop(r) ==
  /\ At(r, "placeBet", "ledger")
  /\ ledger' = [ledger EXCEPT ![req[r].ref].staked = @ + req[r].stake,
                              ![req[r].ref].paid = @ + req[r].payout]
  /\ Finish(r)
  /\ UNCHANGED <<wallet, session, bet, control, admin, failures>>

\* One INSERT writes the stake row and, when the bet paid, the payout row.
InsertBetLedger(r) ==
  /\ At(r, "placeBet", "ledger")
  /\ ledger' = [ledger EXCEPT ![req[r].ref].staked = @ + req[r].stake,
                              ![req[r].ref].paid = @ + req[r].payout,
                              ![req[r].ref].payouts = @ + IF req[r].payout > 0 THEN 1 ELSE 0]
  /\ Goto(r, "bump")
  /\ UNCHANGED <<wallet, session, bet, control, admin, failures>>

BumpSettledBet(r) ==
  /\ At(r, "placeBet", "bump")
  /\ BumpSession(req[r].sid, req[r].stake, req[r].payout)
  /\ IF req[r].metered THEN Goto(r, "consume") ELSE Finish(r)
  /\ UNCHANGED <<wallet, bet, ledger, control, admin, failures>>

\* Mutant of ConsumeForcedRound: the rule is never used up.
KeepForcedRound(r) ==
  At(r, "placeBet", "consume") /\ Finish(r) /\ UNCHANGED <<rows, admin, failures>>

\* consumeForcedRound, decided by the rule as read before the roll.
ConsumeForcedRound(r) ==
  /\ At(r, "placeBet", "consume")
  /\ control' = [control EXCEPT ![req[r].user].forceRounds = AtLeastZero(@ - 1)]
  /\ Finish(r)
  /\ UNCHANGED <<wallet, session, bet, ledger, admin, failures>>

PlaceBet(r) ==
  \/ PlaceBetArrives(r) \/ PlaceBetChecks(r) \/ RollRound(r) \/ SettleWallet(r)
  \/ InsertSettledBet(r) \/ InsertBetLedger(r) \/ BumpSettledBet(r) \/ ConsumeForcedRound(r)

\* The reads that placeBet, startMines and startTowers make through shared helpers.
ReadForStake(r) == ReadWallet(r) \/ CountBets(r)
=============================================================================
