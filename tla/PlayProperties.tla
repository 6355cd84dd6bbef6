--------------------------- MODULE PlayProperties ---------------------------
(***************************************************************************)
(* What must be true of the rows PlayService writes.  The properties that  *)
(* need a player to send one request at a time are proved in SerialProofs  *)
(* and BetBookProofs, the others in PlayProofs and LedgerProofs.           *)
(***************************************************************************)
EXTENDS PlayService, Sums

Quiet(u) == InFlight(u) = {}

BetsOf(u)     == {i \in DOMAIN bet : bet[i].user = u}
SessionsOf(u) == {s \in DOMAIN session : session[s].user = u}

Staked(u)         == SumOver([i \in DOMAIN bet |-> bet[i].stake], BetsOf(u))
StakesBooked(u)   == SumOver([i \in DOMAIN ledger |-> ledger[i].staked], BetsOf(u))
StakesCounted(u)  == SumOver([s \in DOMAIN session |-> session[s].staked], SessionsOf(u))
PayoutsBooked(u)  == SumOver([i \in DOMAIN ledger |-> ledger[i].paid], BetsOf(u))
PayoutsCounted(u) == SumOver([s \in DOMAIN session |-> session[s].won], SessionsOf(u))
BetPayouts(u)     == SumOver([i \in DOMAIN bet |-> bet[i].payout], BetsOf(u))

Open(u, g)  == {i \in BetsOf(u) : bet[i].game = g /\ bet[i].status = "open"}
Finished(i) == bet[i].status # "open"

---------------------------------------------------------------------------
(* Whatever fails and however requests interleave *)

\* A wallet's balance is what was deposited and won less what was wagered:
\* every UPDATE of a wallet in placeBet, start, reveal, cashOut and the deposit
\* watcher moves the totals with the balance.
WalletBooks ==
  \A u \in Users : wallet[u].balance =
    wallet[u].totalDeposited - wallet[u].totalWagered + wallet[u].totalWon

\* `WHERE balance >= stake` and GREATEST(..., 0): no wallet is overdrawn and no
\* wallet holds less than nothing, in whatever order concurrent handlers write.
NoOverdraft == \A u \in Users : wallet[u].balance >= 0 /\ wallet[u].lockedBalance >= 0

\* The wallet is written before the bet row, that before the ledger, that before
\* the session: a handler that dies loses the later rows and never the money's
\* own record, so each table knows at most what the one before it knows.
WriteOrder ==
  \A u \in Users :
    /\ wallet[u].totalWagered >= Staked(u)
    /\ Staked(u) >= StakesBooked(u) /\ StakesBooked(u) >= StakesCounted(u)
    /\ wallet[u].totalWon >= PayoutsBooked(u) /\ PayoutsBooked(u) >= PayoutsCounted(u)

\* The stake row of a bet is written once, with the bet's stake.
StakeBookedOnce == \A i \in DOMAIN bet : ledger[i].staked \in {0, bet[i].stake}

---------------------------------------------------------------------------
(* When no handler fails *)

\* Once a player's requests are all answered, wallet, bets, ledger and sessions
\* agree on what was staked, and wallet, ledger and sessions on what was paid,
\* even when requests raced each other.
BooksAgree ==
  failures = 0 => \A u \in Users : Quiet(u) =>
    /\ wallet[u].totalWagered = Staked(u)
    /\ StakesBooked(u) = Staked(u) /\ StakesCounted(u) = Staked(u)
    /\ wallet[u].totalWon = PayoutsBooked(u) /\ PayoutsCounted(u) = PayoutsBooked(u)

\* README: a bet is a transaction.  With nothing in flight a player has wagered what
\* his bets staked and won what they paid, whether or not a handler has failed.
BetIsAtomic ==
  \A u \in Users : Quiet(u) =>
    wallet[u].totalWagered = Staked(u) /\ wallet[u].totalWon = BetPayouts(u)

---------------------------------------------------------------------------
(* When a player sends one request at a time *)

\* start refuses a second round: at most one is open per player and game.
OneOpenRound == \A u \in Users, g \in GridGames : Cardinality(Open(u, g)) <= 1

\* startSession ends the sessions it finds before it inserts its own.
OneOpenSession ==
  \A s, t \in DOMAIN session :
    /\ ~session[s].ended /\ ~session[t].ended
    /\ session[s].user = session[t].user /\ session[s].game = session[t].game
    => s = t

\* A bet has at most one payout row, a finished one is paid exactly what its row
\* says, and a cashed-out round's row says its stake times the multiplier it
\* reached; a lost or open round is paid nothing.
PaidOnce ==
  failures = 0 => \A i \in DOMAIN bet : Quiet(bet[i].user) =>
    /\ ledger[i].payouts <= 1 /\ ledger[i].paid = bet[i].payout
    /\ bet[i].status \in {"won", "cashed_out"}
         => bet[i].payout = RoundMoney(bet[i].stake * bet[i].mult)
    /\ bet[i].status \in {"lost", "open"} => bet[i].payout = 0

\* "Round already finished": the row of a settled bet does not change again.
FinishedRoundIsFinal == [][\A i \in DOMAIN bet : Finished(i) => bet'[i] = bet[i]]_vars

\* Picks of a round are only ever added to: no reveal writes over another's.
PicksAreKept ==
  [][\A i \in DOMAIN bet : /\ Len(bet'[i].opened) >= Len(bet[i].opened)
                           /\ SubSeq(bet'[i].opened, 1, Len(bet[i].opened)) = bet[i].opened]_vars

\* An ended session's counters do not move: no handler outlives the session it checked.
EndedSessionIsFrozen ==
  [][\A s \in DOMAIN session : session[s].ended => session'[s] = session[s]]_vars

\* nextNonce counts rows: a player's bets are numbered 1, 2, 3...
NoncesCount ==
  \A i \in DOMAIN bet : bet[i].nonce = Cardinality({j \in 1..i : bet[j].user = bet[i].user})

\* A stake whose round is open: a start that has debited and not inserted it yet
\* counts as open, a round whose stake was released or paid does not.
Releasing(i) == \E r \in Requests :
  req[r].ref = i /\ (At(r, "reveal", "lost") \/ At(r, "cashOut", "settle"))

Held(u, g) ==
  LET opening == {r \in InFlight(u) : Step(r, "start", g, "insert")}
      open    == {i \in Open(u, g) : ~Releasing(i)}
  IN SumOver([r \in Requests |-> req[r].stake], opening)
       + SumOver([i \in DOMAIN bet |-> bet[i].stake], open)

\* lockedBalance is the stakes of the rounds in play, at every statement.
LockedIsHeld ==
  failures = 0 => \A u \in Users :
    wallet[u].lockedBalance = Held(u, "mines") + Held(u, "towers")

\* A forced rule decides as many rounds as it was given: every settled bet it decided
\* has used one up.
ForcedRoundsAreMetered ==
  failures = 0 => \A u \in Users :
    Quiet(u) /\ control[u].mode \in {"force_win", "force_loss"} =>
      \E rule \in ControlRules :
        /\ rule.mode = control[u].mode /\ rule.cap = control[u].cap
        /\ rule.forceRounds =
             control[u].forceRounds +
               Cardinality({i \in BetsOf(u) : bet[i].controlled /\ Finished(i)})

\* No instant bet pays a player more than the cap of the player's rule, whether the
\* rule decided the round or not.  Mines and Towers rounds are not capped.
ControlledWinIsCapped ==
  \A i \in DOMAIN bet :
    bet[i].game = "instant" /\ control[bet[i].user].cap > 0
      => bet[i].mult <= control[bet[i].user].cap

\* A player who holds a round and has no request in flight can play on: reveal and
\* cashOut want its session open, start refuses a new round beside it.
OpenRoundIsPlayable ==
  \A i \in DOMAIN bet :
    bet[i].status = "open" /\ Quiet(bet[i].user) => ~session[bet[i].sid].ended

---------------------------------------------------------------------------
(* Liveness, when no handler fails *)

\* A stake that was taken reaches the ledger and a payout that was credited too:
\* no handler stops between the statements that move money and those that book it.
EveryBetIsBooked ==
  \A u \in Users :
    (wallet[u].totalWagered > StakesCounted(u) \/ wallet[u].totalWon > PayoutsCounted(u))
      ~> (wallet[u].totalWagered = StakesCounted(u) /\ wallet[u].totalWon = PayoutsCounted(u))

---------------------------------------------------------------------------
(* The service keeps the book *)

Funds    == [u \in Users |-> wallet[u].balance]
HeldBook == [u \in Users |-> [g \in GridGames |-> Held(u, g)]]

Stakes == {x \in {RoundMoney(y) : y \in StakeInputs} : ValidStake(x)}

WinOdds == {ApplyWinCap(m, rule) : m \in Multipliers \cup {0}, rule \in ControlRules}

Odds(g) == {Multiplier(g, count, n) :
              count \in CountInputs(g), n \in 1..TileCount + TowerRows}

Book == INSTANCE BetBook WITH
  Players <- Users, RoundGames <- GridGames, StakeLimits <- Stakes,
  InstantOdds <- WinOdds,
  RoundOdds <- [g \in GridGames |-> Odds(g) \ {0}], Deposits <- DepositAmounts,
  funds <- Funds, held <- HeldBook

\* With one request per player at a time, and as long as no handler has failed, every
\* statement of every handler is a step of the book or leaves it alone: the debit opens
\* a round, the release loses it, the credit cashes it out, each once.
KeepsTheBook ==
  Book!Init /\ [][failures' = 0 => Book!Next \/ UNCHANGED <<Funds, HeldBook>>]_vars
=============================================================================
