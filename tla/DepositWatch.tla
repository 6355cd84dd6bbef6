---------------------------- MODULE DepositWatch ----------------------------
(***************************************************************************)
(* The deposit watcher of the worker: two timers poll the pending rows of  *)
(* smink_transactions, look up what arrived on their addresses, and credit *)
(* a deposit, hold it for review or cancel it.                             *)
(*                                                                         *)
(* A scan works on what it read when it began: the pending rows and the    *)
(* hashes already taken.  Every `await this.db...` is a statement of its   *)
(* own, so scans of several loops and the admin app interleave between     *)
(* them, and a scan may stop at any of them.                               *)
(***************************************************************************)
EXTENDS Quotes, Sequences

CONSTANTS
  Users, Addresses,
  Loops,         \* the <<worker, mode>> timers running, mode "chain" or "simulate"
  UsdAmounts,    \* what players ask to deposit; the rate is one unit per dollar
  PaidAmounts,   \* what arrives on chain
  SimAmounts,    \* what a simulated deposit says it receives
  Required,      \* confirmations the coin needs
  MaxDeposits, MaxPayments, MaxFailures \* model bounds

ASSUME WatchAssumption ==
  /\ UsdAmounts \subseteq Nat \ {0} /\ PaidAmounts \subseteq Nat \ {0}
  /\ SimAmounts \subseteq Nat \ {0} /\ Required \in Nat \ {0}

VARIABLES
  deposit,    \* deposit rows of smink_transactions, in order of creation
  deposited,  \* user -> totalDeposited; balance gets the same amount in the same UPDATE
  credits,    \* deposit -> how often the wallet was credited for it (history)
  payment,    \* what the explorers show
  late,       \* deposits whose quote has expired
  due,        \* deposit -> confirmations its simulated payment is due
  scan,       \* loop -> program counter and locals of its scan
  failures    \* scans that stopped half-way so far

rows  == <<deposit, deposited, credits>>
world == <<payment, late, due>>
vars  == <<rows, world, scan, failures>>

NoHash == <<"none", 0>>
NoMeta == [hash |-> NoHash, conf |-> 0, simConf |-> 0, by |-> "nobody"]
NoTx == [hash |-> NoHash, amount |-> 0, conf |-> 0]
Stopped == [pc |-> "idle", pending |-> <<>>, rest |-> {}, taken |-> {},
            tx |-> NoTx, near |-> FALSE, held |-> FALSE]

Ids == DOMAIN deposit
InStatus(S) == {i \in Ids : deposit[i].status \in S}
Creditable == InStatus({"pending", "review"})

---------------------------------------------------------------------------
(* A scan goes through its pending rows, newest first *)

At(l, pc) == scan[l].pc = pc
Subject(l) == CHOOSE i \in scan[l].rest : \A j \in scan[l].rest : j <= i
Snapshot(l) == scan[l].pending[Subject(l)]
Goto(l, pc) == scan' = [scan EXCEPT ![l].pc = pc]

\* Mutant of NextDeposit: the scan does not notice that it is done.
NextDepositOrNone(l, taken) ==
  scan' = [scan EXCEPT ![l] = [Stopped EXCEPT !.pc = "inspect", !.pending = scan[l].pending,
                                              !.rest = scan[l].rest \ {Subject(l)},
                                              !.taken = taken]]

\* Go on to the next deposit with these hashes taken, or end the scan.
NextDeposit(l, taken) ==
  LET rest == scan[l].rest \ {Subject(l)}
  IN scan' = [scan EXCEPT ![l] =
       IF rest = {} THEN Stopped
       ELSE [Stopped EXCEPT !.pc = "inspect", !.pending = scan[l].pending,
                            !.rest = rest, !.taken = taken]]

Skip(l) == NextDeposit(l, scan[l].taken)

\* tick and simulateTick: a loop begins a scan only when its last one has ended.
Tick(l) ==
  /\ At(l, "idle")
  /\ scan' = [scan EXCEPT ![l].pc = "hashes",
                          ![l].pending = [i \in InStatus({"pending"}) |-> deposit[i]]]
  /\ UNCHANGED <<rows, world, failures>>

\* Mutant of CreditedHashes: the hashes of credited deposits are left out.
ReviewedHashes == {deposit[i].meta.hash : i \in InStatus({"review"})} \ {NoHash}

CreditedHashes == {deposit[i].meta.hash : i \in InStatus({"confirmed", "review"})} \ {NoHash}

\* Mutant of Watched: both loops look at every deposit.
WatchedByBoth(l, row) == TRUE

\* The two loops share the pending rows out by metadata.simulate.
Watched(l, row) == (l[2] = "simulate") <=> (row.simulate # 0)

ReadHashes(l) ==
  /\ At(l, "hashes")
  /\ LET mine == {i \in DOMAIN scan[l].pending : Watched(l, scan[l].pending[i])}
     IN scan' = [scan EXCEPT ![l] =
          IF mine = {} THEN Stopped
          ELSE [@ EXCEPT !.pc = "inspect", !.rest = mine, !.taken = CreditedHashes]]
  /\ UNCHANGED <<rows, world, failures>>

---------------------------------------------------------------------------
(* inspect: look the address up and compare *)

Unreachable == [ok |-> FALSE, txs |-> {}]

\* listIncoming: the payments to the address, or no answer.
ChainAnswers(row) ==
  {Unreachable,
   [ok |-> TRUE, txs |-> {[hash |-> <<"chain", k>>, amount |-> payment[k].amount,
                           conf |-> payment[k].conf] :
                          k \in {n \in DOMAIN payment : payment[n].address = row.address}}]}

\* simulatedIncoming: nothing once the confirmations that are due have been shown.
SimulatedIncoming(i, row) ==
  [ok |-> TRUE, txs |-> IF due[i] <= row.meta.simConf THEN {}
                        ELSE {[hash |-> <<"sim", i>>, amount |-> row.simulate, conf |-> due[i]]}]

Answers(l) == IF l[2] = "simulate" THEN {SimulatedIncoming(Subject(l), Snapshot(l))}
              ELSE ChainAnswers(Snapshot(l))

Fresh(l, kind, txs) ==
  {tx \in txs : /\ tx.hash \notin scan[l].taken
                /\ ClassifyReceived(Snapshot(l).amount, tx.amount) = kind}

\* paymentSeen
Seen(row) == row.meta.hash # NoHash
Overdue(l) == Subject(l) \in late /\ ~Seen(Snapshot(l))

\* Mutant of Inspect: an unpaid deposit is left pending.
InspectPaid(l, answer) ==
  /\ At(l, "inspect")
  /\ LET match == Fresh(l, "match", answer.txs)
         near  == Fresh(l, "review", answer.txs)
     IN \/ \E tx \in match :
             scan' = [scan EXCEPT ![l].pc = "risk", ![l].tx = tx, ![l].held = Overdue(l)]
        \/ match = {} /\ \E tx \in near :
             scan' = [scan EXCEPT ![l].pc = "progress", ![l].tx = tx, ![l].near = TRUE]
        \/ match \cup near = {} /\ Skip(l)
  /\ UNCHANGED <<rows, world, failures>>

\* The deadline is read before the lookup; a payment that the explorer shows in
\* between might as well have arrived before.
Inspect(l, answer) ==
  /\ At(l, "inspect")
  /\ LET match == Fresh(l, "match", answer.txs)
         near  == Fresh(l, "review", answer.txs)
     IN \/ \E tx \in match :
             scan' = [scan EXCEPT ![l].pc = "risk", ![l].tx = tx, ![l].held = Overdue(l)]
        \/ match = {} /\ \E tx \in near :
             scan' = [scan EXCEPT ![l].pc = "progress", ![l].tx = tx, ![l].near = TRUE]
        \/ match \cup near = {} /\ Overdue(l) /\ Goto(l, "cancel")
        \/ match \cup near = {} /\ ~Overdue(l) /\ Skip(l)
  /\ UNCHANGED <<rows, world, failures>>

\* Mutant of CancelUnpaid: the UPDATE goes by id alone.
CancelById(l) ==
  /\ At(l, "cancel")
  /\ deposit' = [deposit EXCEPT ![Subject(l)].status = "cancelled",
                                ![Subject(l)].meta = Snapshot(l).meta]
  /\ Skip(l)
  /\ UNCHANGED <<deposited, credits, world, failures>>

\* cancelUnpaid: writes back the metadata of the snapshot.
CancelUnpaid(l) ==
  /\ At(l, "cancel")
  /\ deposit' = IF Subject(l) \notin InStatus({"pending"}) THEN deposit
                ELSE [deposit EXCEPT ![Subject(l)].status = "cancelled",
                                     ![Subject(l)].meta = Snapshot(l).meta]
  /\ Skip(l)
  /\ UNCHANGED <<deposited, credits, world, failures>>

---------------------------------------------------------------------------
(* inspect: a payment was found *)

\* Another deposit of the snapshot could be meant by the same payment.
Collides(l) ==
  \E j \in DOMAIN scan[l].pending \ {Subject(l)} :
    /\ scan[l].pending[j].address = Snapshot(l).address
    /\ 100 * Distance(scan[l].pending[j].amount, scan[l].tx.amount)
         <= MatchWindowFor(Snapshot(l).amount)

DepositsOf(u) == {i \in Ids : deposit[i].user = u}

\* The account's age and the last ten minutes are clocks; the amounts are not.
RiskAnswers(row) ==
  IF row.usd >= 1000 /\ deposited[row.user] = 0 THEN {TRUE}
  ELSE IF row.usd >= 500 \/ Cardinality(DepositsOf(row.user)) >= 3 THEN BOOLEAN
  ELSE {FALSE}

\* The two reads of the risk checks.
AssessRisk(l) ==
  /\ At(l, "risk")
  /\ \E risky \in RiskAnswers(Snapshot(l)) :
       scan' = [scan EXCEPT ![l].pc = "progress", ![l].held = @ \/ Collides(l) \/ risky]
  /\ UNCHANGED <<rows, world, failures>>

\* The UPDATE of progress, by id alone, unless the snapshot shows this payment already.
ShowProgress(l) ==
  LET tx == scan[l].tx
      old == Snapshot(l).meta
      new == [old EXCEPT !.hash = tx.hash, !.conf = tx.conf,
                         !.simConf = IF Snapshot(l).simulate # 0 THEN tx.conf ELSE @]
  IN IF old.conf = tx.conf /\ old.hash = tx.hash THEN deposit
     ELSE [deposit EXCEPT ![Subject(l)].meta = new]

Progress(l) ==
  /\ At(l, "progress")
  /\ deposit' = ShowProgress(l)
  /\ \/ scan[l].tx.conf < Required /\ Skip(l)
     \/ scan[l].tx.conf >= Required /\ (scan[l].near \/ scan[l].held) /\ Goto(l, "flag")
     \/ scan[l].tx.conf >= Required /\ ~scan[l].near /\ ~scan[l].held /\ Goto(l, "credit")
  /\ UNCHANGED <<deposited, credits, world, failures>>

\* flagDepositForReview.  Its SELECT asks no more than its UPDATE does, and of the
\* metadata it reads the UPDATE overwrites what a scan looks at.
FlagDepositForReview(l) ==
  /\ At(l, "flag")
  /\ deposit' = IF Subject(l) \notin InStatus({"pending"}) THEN deposit
                ELSE [deposit EXCEPT ![Subject(l)].status = "review",
                                     ![Subject(l)].meta.hash = scan[l].tx.hash,
                                     ![Subject(l)].meta.conf = scan[l].tx.conf]
  /\ Skip(l)
  /\ UNCHANGED <<deposited, credits, world, failures>>

---------------------------------------------------------------------------
(* creditDeposit *)

SelectDeposit(l) ==
  /\ At(l, "credit")
  /\ IF Subject(l) \in Creditable THEN Goto(l, "claim") ELSE Skip(l)
  /\ UNCHANGED <<rows, world, failures>>

Claimed(l) ==
  [deposit EXCEPT ![Subject(l)].status = "confirmed",
                  ![Subject(l)].meta = [@ EXCEPT !.hash = scan[l].tx.hash,
                                                 !.conf = scan[l].tx.conf, !.by = "watcher"]]

\* Mutant of ClaimDeposit: the UPDATE trusts the SELECT before it.
ClaimUnchecked(l) ==
  /\ At(l, "claim")
  /\ Subject(l) \in Ids
  /\ deposit' = Claimed(l)
  /\ Goto(l, "wallet")
  /\ UNCHANGED <<deposited, credits, world, failures>>

\* Again the metadata of the SELECT is overwritten by that of the claim.
\* The row is claimed before the wallet is touched, so that one scan credits it.
ClaimDeposit(l) ==
  /\ At(l, "claim")
  /\ \/ /\ Subject(l) \in Creditable
        /\ deposit' = Claimed(l)
        /\ Goto(l, "wallet")
     \/ Subject(l) \notin Creditable /\ Skip(l) /\ UNCHANGED deposit
  /\ UNCHANGED <<deposited, credits, world, failures>>

\* The wallet UPDATE, balanceAfter and what inspect does when creditDeposit is back.
\* The INSERT before leaves a row to update, so that the claim is never reverted.
CreditDeposit(l) ==
  /\ At(l, "wallet")
  /\ deposited' = [deposited EXCEPT ![deposit[Subject(l)].user] = @ + deposit[Subject(l)].usd]
  /\ credits' = [credits EXCEPT ![Subject(l)] = @ + 1]
  /\ NextDeposit(l, scan[l].taken \cup {scan[l].tx.hash})
  /\ UNCHANGED <<deposit, world, failures>>

ScanStep(l) ==
  \/ Tick(l) \/ ReadHashes(l)
  \/ At(l, "inspect") /\ \E answer \in Answers(l) : Inspect(l, answer)
  \/ CancelUnpaid(l) \/ AssessRisk(l) \/ Progress(l) \/ FlagDepositForReview(l)
  \/ SelectDeposit(l) \/ ClaimDeposit(l) \/ CreditDeposit(l)

\* A statement throws, or the worker dies: the next tick starts afresh.
StopScan(l) ==
  /\ ~At(l, "idle")
  /\ failures < MaxFailures
  /\ scan' = [scan EXCEPT ![l] = Stopped]
  /\ failures' = failures + 1
  /\ UNCHANGED <<rows, world>>

---------------------------------------------------------------------------
(* What else moves: players, the chain, time, and the admin app *)

\* A player asks for a deposit.  Quotes differ from those pending on the address.
CreateDeposit(u, usd, address, simulate) ==
  LET used == {deposit[i].amount : i \in {j \in InStatus({"pending"}) :
                                          deposit[j].address = address}}
  IN /\ Len(deposit) < MaxDeposits
     /\ deposit' = Append(deposit,
          [user |-> u, usd |-> usd, amount |-> QuoteCryptoAmount(usd, used), address |-> address,
           simulate |-> simulate, status |-> "pending", meta |-> NoMeta])
     /\ credits' = Append(credits, 0)
     /\ due' = Append(due, 0)
     /\ UNCHANGED <<deposited, payment, late, scan, failures>>

\* A payment shows up in the explorers.
Pay(address, amount) ==
  /\ Len(payment) < MaxPayments
  /\ payment' = Append(payment, [address |-> address, amount |-> amount, conf |-> 0])
  /\ UNCHANGED <<rows, late, due, scan, failures>>

Confirm(k) ==
  /\ payment[k].conf < Required
  /\ payment' = [payment EXCEPT ![k].conf = @ + 1]
  /\ UNCHANGED <<rows, late, due, scan, failures>>

QuoteExpires(i) ==
  /\ i \notin late
  /\ late' = late \cup {i}
  /\ UNCHANGED <<rows, payment, due, scan, failures>>

\* Four seconds pass for a simulated payment.
SimulatedConfirmation(i) ==
  /\ deposit[i].simulate # 0 /\ due[i] < Required
  /\ due' = [due EXCEPT ![i] = @ + 1]
  /\ UNCHANGED <<rows, payment, late, scan, failures>>

\* The admin app decides a deposit that is held for review.
DecideReview(i) ==
  /\ i \in InStatus({"review"})
  /\ \/ /\ deposit' = [deposit EXCEPT ![i].status = "confirmed"]
        /\ deposited' = [deposited EXCEPT ![deposit[i].user] = @ + deposit[i].usd]
        /\ credits' = [credits EXCEPT ![i] = @ + 1]
     \/ /\ deposit' = [deposit EXCEPT ![i].status = "failed"]
        /\ UNCHANGED <<deposited, credits>>
  /\ UNCHANGED <<world, scan, failures>>

Init ==
  /\ deposit = <<>> /\ deposited = [u \in Users |-> 0] /\ credits = <<>>
  /\ payment = <<>> /\ late = {} /\ due = <<>>
  /\ scan = [l \in Loops |-> Stopped]
  /\ failures = 0

Next ==
  \/ \E l \in Loops : ScanStep(l) \/ StopScan(l)
  \/ \E u \in Users, usd \in UsdAmounts, address \in Addresses, simulate \in {0} \cup SimAmounts :
       CreateDeposit(u, usd, address, simulate)
  \/ \E address \in Addresses, amount \in PaidAmounts : Pay(address, amount)
  \/ \E k \in DOMAIN payment : Confirm(k)
  \/ \E i \in Ids : QuoteExpires(i) \/ SimulatedConfirmation(i) \/ DecideReview(i)

Spec == Init /\ [][Next]_vars
=============================================================================
