---------------------------- MODULE PlayService ----------------------------
(***************************************************************************)
(* The play service under load: the handlers of sessions, instant games,   *)
(* Mines and Towers over one database, with what else writes to the rows   *)
(* they read (the deposit watcher and the admin app) and handlers that     *)
(* stop half-way, because a statement throws or the engine dies.           *)
(***************************************************************************)
EXTENDS Sessions, GridRounds

NewWallet == [balance |-> 0, lockedBalance |-> 0,
              totalWagered |-> 0, totalWon |-> 0, totalDeposited |-> 0]

Init ==
  /\ wallet = [u \in Users |-> NewWallet]
  /\ session = <<>> /\ bet = <<>> /\ ledger = <<>>
  /\ control \in [Users -> ControlRules]
  /\ admin = [locked |-> {}, closed |-> {}, hidden |-> {}, acts |-> 0]
  /\ req = [r \in Requests |-> Idle]
  /\ failures = 0

\* creditDeposit, as the play service sees it: one more UPDATE of a wallet.
CreditWallet(u) ==
  /\ \E amount \in DepositAmounts :
       /\ wallet[u].totalDeposited + amount <= MaxDeposited
       /\ wallet' = [wallet EXCEPT ![u].balance = @ + amount, ![u].totalDeposited = @ + amount]
  /\ UNCHANGED <<session, bet, ledger, control, admin, req, failures>>

Toggle(S, x) == IF x \in S THEN S \ {x} ELSE S \cup {x}

\* The admin app locks a wallet, takes a game down, or hides it from one player.
AdminAct ==
  /\ admin.acts < MaxAdminActs
  /\ \E u \in Users, g \in {command[2] : command \in Commands} :
       \/ admin' = [admin EXCEPT !.locked = Toggle(@, u), !.acts = @ + 1]
       \/ admin' = [admin EXCEPT !.closed = Toggle(@, g), !.acts = @ + 1]
       \/ admin' = [admin EXCEPT !.hidden = Toggle(@, <<u, g>>), !.acts = @ + 1]
  /\ UNCHANGED <<rows, req, failures>>

\* A handler throws between two statements: nothing is rolled back and, the
\* consumer being noAck, nothing is redelivered.  A crash of the engine is this
\* step of every handler in flight.
Abort(r) ==
  /\ req[r] # Idle
  /\ failures < MaxFailures
  /\ Finish(r)
  /\ failures' = failures + 1
  /\ UNCHANGED <<rows, admin>>

Handler(r) ==
  \/ StartSession(r) \/ EndSession(r)
  \/ PlaceBet(r) \/ ReadForStake(r)
  \/ StartMines(r) \/ RevealMines(r) \/ CashOutMines(r)
  \/ StartTowers(r) \/ RevealTowers(r) \/ CashOutTowers(r)

Next ==
  \/ \E r \in Requests : Handler(r) \/ Abort(r)
  \/ \E u \in Users : CreditWallet(u)
  \/ AdminAct

Spec == Init /\ [][Next]_vars

\* A handler that has begun goes on: every await settles and the event loop
\* comes back to it.  Players, the watcher and admins owe nothing.
Fairness == \A r \in Requests : WF_vars(req[r] # Idle /\ Handler(r))

FairSpec == Spec /\ Fairness

---------------------------------------------------------------------------
(* Types *)

Wallets == [balance : Int, lockedBalance : Int,
            totalWagered : Nat, totalWon : Nat, totalDeposited : Nat]
SessionRows == [user : Users, game : Games, ended : BOOLEAN,
                betCount : Nat, staked : Nat, won : Nat]
BetRows == [user : Users, game : Games, sid : Nat, stake : Nat, mult : Nat, payout : Nat,
            status : {"open", "won", "lost", "cashed_out"},
            count : MineCounts \cup {0}, traps : SUBSET (Nat \X Nat), opened : Seq(Nat),
            nonce : Nat, controlled : BOOLEAN]
LedgerRows == [staked : Nat, paid : Nat, payouts : Nat]
Ops == {"startSession", "endSession", "placeBet", "start", "reveal", "cashOut"}
Pcs == {"game", "end", "session", "open", "wallet", "nonce", "control", "debit", "row",
        "unlock", "lost", "raise", "credit", "settle", "insert", "ledger", "bump", "consume"}
Active ==
  [op : Ops, pc : Pcs, user : Users, game : Games,
   sid : Nat, ref : Nat, tile : Nat, count : MineCounts \cup {0}, stake : Nat, nonce : Nat,
   forced : {"none", "win", "loss"}, metered : BOOLEAN,
   traps : SUBSET (Nat \X Nat), opened : Seq(Nat), mult : Nat, payout : Nat]
Handlers == {Idle} \cup Active

WalletType  == wallet \in [Users -> Wallets]
SessionType == session \in Seq(SessionRows)
BetType     == bet \in Seq(BetRows)
LedgerType  == ledger \in Seq(LedgerRows) /\ Len(ledger) = Len(bet)
ControlType == control \in [Users -> Rules]
AdminType   == admin \in [locked : SUBSET Users, closed : SUBSET Games,
                          hidden : SUBSET (Users \X Games), acts : Nat]
HandlerType == req \in [Requests -> Handlers]

\* Types of the rows and of the handlers; every bet has its ledger entry.
TypeOK ==
  /\ WalletType /\ SessionType /\ BetType /\ LedgerType /\ ControlType /\ HandlerType
  /\ AdminType /\ failures \in Nat
=============================================================================
