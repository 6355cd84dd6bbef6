------------------------------- MODULE PlayDb -------------------------------
(***************************************************************************)
(* The Postgres rows PlayService works on and the request handlers that    *)
(* are in flight over them.  Every `await this.db...` of the service is    *)
(* one SQL statement in autocommit mode (no handler opens a transaction),  *)
(* so a handler is a program counter plus the locals it carries from one   *)
(* statement to the next, and statements of different handlers interleave. *)
(*                                                                         *)
(* Money is in cents, multipliers in hundredths (196 is 1.96x).            *)
(***************************************************************************)
EXTENDS Integers, Sequences, FiniteSets

CONSTANTS
  Users,          \* players
  Nobody,         \* the user of an idle handler slot
  Requests,       \* handler slots: how many RPC messages may be in flight
  Commands,       \* the <<operation, game>> pairs the players may send
  SerialPlayers,  \* TRUE: a player has at most one request in flight
  StakeInputs,    \* stakes as received, in hundredths of a cent
  MinBet, MaxBet, \* the game's stake limits, in cents
  Multipliers,    \* multipliers an instant game can pay, in hundredths
  Difficulty,     \* effective loss percent of the players, 0 for fair odds
  ControlRules,   \* control rules a player may start with
  TileCount, MineCounts,             \* the Mines grid and the mine counts offered
  HotSpots,       \* the tiles a forced loss mines first, in order
  TowerTiles, TowerRows, \* one row of TOWER_DIFFICULTY
  TowerTraps,     \* the trap counts a floor may roll
  MinesMultiplier,  \* mine count -> tiles revealed -> hundredths
  TowersMultiplier, \* floors climbed -> hundredths
  DepositAmounts,         \* what the deposit watcher may credit, in cents
  MaxBets, MaxSessions, MaxDeposited, MaxFailures, MaxAdminActs \* model bounds

Games == {"instant", "mines", "towers"}

AllCommands ==
  {<<"startSession", g>> : g \in Games} \cup {<<"endSession", g>> : g \in Games}
    \cup {<<"placeBet", "instant">>}
    \cup {<<op, g>> : op \in {"start", "reveal", "cashOut"}, g \in {"mines", "towers"}}

Modes == {"off", "bias", "force_win", "force_loss"}
Rules == [mode : Modes, forceRounds : Nat, cap : Nat]  \* cap 0 is a null maxWinMultiplier

ASSUME PlayersAssumption ==
  /\ Nobody \notin Users
  /\ SerialPlayers \in BOOLEAN
  /\ Commands \subseteq AllCommands
ASSUME MoneyAssumption ==
  /\ StakeInputs \subseteq Nat
  /\ MinBet \in Nat \ {0} /\ MaxBet \in Nat
  /\ Multipliers \subseteq Nat \ {0}
  /\ DepositAmounts \subseteq Nat
  /\ Difficulty \in 0..100
  /\ ControlRules \subseteq Rules
ASSUME GridAssumption ==
  /\ TileCount \in Nat /\ MineCounts \subseteq Nat /\ HotSpots \in Seq(Nat)
  /\ TowerTiles \in Nat /\ TowerRows \in Nat /\ TowerTraps \subseteq Nat
  /\ MinesMultiplier \in [MineCounts \cup {0} -> [1..TileCount -> Nat]]
  /\ TowersMultiplier \in [1..TowerRows -> Nat]
\* (1 - houseEdge) over odds of at most 1, rounded: nothing but a house edge above 99.5%
\* makes a pick on the board worth 0.
ASSUME OddsAssumption ==
  /\ \A count \in MineCounts : \A n \in 1..TileCount - count : MinesMultiplier[count][n] > 0
  /\ \A n \in 1..TowerRows : TowersMultiplier[n] > 0

VARIABLES
  wallet,   \* user -> row of smink_wallets; an absent row is the zero row
  session,  \* smink_sessions, in order of insertion
  bet,      \* smink_bets, in order of insertion; the reference is the index
  ledger,   \* bet index -> its smink_transactions rows, summed
  control,  \* user -> row of smink_user_game_control
  admin,    \* the flags the admin app owns
  req,      \* handler slot -> the handler's program counter and locals
  failures  \* handlers that threw so far

rows == <<wallet, session, bet, ledger, control>>
vars == <<wallet, session, bet, ledger, control, admin, req, failures>>

---------------------------------------------------------------------------
(* Arithmetic *)

\* Math.round(value * 100) / 100 of an amount in hundredths of a cent.
RoundMoney(x) == (x + 50) \div 100

\* Mutant of AtLeastZero: no GREATEST.
MayGoNegative(x) == x

\* GREATEST(x, 0)
AtLeastZero(x) == IF x > 0 THEN x ELSE 0

ValidStake(stake) == stake > 0 /\ MinBet <= stake /\ stake <= MaxBet

---------------------------------------------------------------------------
(* Handlers *)

Idle == [op |-> "idle", pc |-> "idle", user |-> Nobody, game |-> "instant",
         sid |-> 0, ref |-> 0, tile |-> 0, count |-> 0, stake |-> 0, nonce |-> 0,
         forced |-> "none", metered |-> FALSE, traps |-> {}, opened |-> <<>>,
         mult |-> 0, payout |-> 0]

At(r, op, pc) == req[r].op = op /\ req[r].pc = pc

InFlight(u) == {r \in Requests : req[r].user = u}

\* A message is taken from smink.engine.rpc and its handler starts.  The engine
\* acknowledges nothing and limits nothing, so only SerialPlayers, what the
\* players do, keeps two handlers of one player apart.
Arrive(r, call) ==
  /\ req[r] = Idle
  /\ <<call.op, call.game>> \in Commands
  /\ SerialPlayers => InFlight(call.user) = {}
  /\ req' = [req EXCEPT ![r] = call]
  /\ UNCHANGED <<rows, admin, failures>>

Goto(r, pc) == req' = [req EXCEPT ![r].pc = pc]
Finish(r)   == req' = [req EXCEPT ![r] = Idle]

\* Run on to `pc` when the condition holds, answer with an error otherwise.
Check(r, ok, pc) == \/ ok  /\ Goto(r, pc)
                    \/ ~ok /\ Finish(r)

---------------------------------------------------------------------------
(* Statements shared by the handlers *)

\* Mutant of SessionIsOpen: endedAt is not looked at.
SessionExists(u, s, g) ==
  s \in DOMAIN session /\ session[s].user = u /\ session[s].game = g /\ g \notin admin.closed

\* requireOpenSession: the row exists, is the caller's, has not ended, is of
\* this game, and the game is active.
SessionIsOpen(u, s, g) ==
  /\ s \in DOMAIN session
  /\ session[s].user = u /\ ~session[s].ended /\ session[s].game = g
  /\ g \notin admin.closed

\* Mutant of RoundIsOpen: the status is not looked at.
RoundExists(call) ==
  call.ref \in DOMAIN bet /\ bet[call.ref].user = call.user /\ bet[call.ref].sid = call.sid

\* The SELECT of one round by reference, user and session, with the check on its status.
RoundIsOpen(call) ==
  /\ call.ref \in DOMAIN bet
  /\ bet[call.ref].user = call.user /\ bet[call.ref].sid = call.sid
  /\ bet[call.ref].status = "open"

\* Mutant of BumpSession: the totals are swapped.
BumpSwapped(s, staked, won) ==
  session' = [session EXCEPT ![s].betCount = @ + 1,
                             ![s].staked = @ + won, ![s].won = @ + staked]

BumpSession(s, staked, won) ==
  session' = [session EXCEPT ![s].betCount = @ + 1,
                             ![s].staked = @ + staked, ![s].won = @ + won]

\* Mutant of Debit: the stake is not added to totalWagered.
DebitUnrecorded(u, stake, payout, hold) ==
  wallet' = [wallet EXCEPT ![u].balance = @ - stake + payout,
                           ![u].lockedBalance = @ + hold, ![u].totalWon = @ + payout]

\* Take `stake` from a wallet that covers it and give back `payout`, in one UPDATE.
Debit(u, stake, payout, hold) ==
  wallet' = [wallet EXCEPT ![u].balance = @ - stake + payout,
                           ![u].lockedBalance = @ + hold,
                           ![u].totalWagered = @ + stake,
                           ![u].totalWon = @ + payout]

\* Mutant of InsertBet: the bet has no ledger entry to write to.
InsertBetAlone(row) == bet' = Append(bet, row) /\ UNCHANGED ledger

\* Insert the bet row; its ledger rows come with the next statement.
InsertBet(row) ==
  /\ bet' = Append(bet, row)
  /\ ledger' = Append(ledger, [staked |-> 0, paid |-> 0, payouts |-> 0])
=============================================================================
