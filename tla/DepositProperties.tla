------------------------- MODULE DepositProperties -------------------------
(***************************************************************************)
(* What the deposit watcher promises.                                      *)
(***************************************************************************)
EXTENDS DepositWatch

---------------------------------------------------------------------------
(* Types *)

Hashes == {NoHash} \cup ({"chain", "sim"} \X (Nat \ {0}))
Confirmations == 0..Required
Txs == [hash : Hashes, amount : Nat, conf : Confirmations]
Metas == [hash : Hashes, conf : Confirmations, simConf : Confirmations, by : {"nobody", "watcher"}]
Deposits == [user : Users, usd : Nat, amount : Nat, address : Addresses, simulate : Nat,
             status : {"pending", "review", "confirmed", "failed", "cancelled"}, meta : Metas]
Payments == [address : Addresses, amount : Nat, conf : Confirmations]
ScanPcs == {"idle", "hashes", "inspect", "cancel", "risk", "progress", "flag",
            "credit", "claim", "wallet"}

\* A scan that works on a row has a row to work on.
ScanType(s) ==
  /\ DOMAIN s = {"pc", "pending", "rest", "taken", "tx", "near", "held"}
  /\ s.pc \in ScanPcs /\ s.tx \in Txs /\ s.near \in BOOLEAN /\ s.held \in BOOLEAN
  /\ s.pending \in [DOMAIN s.pending -> Deposits] /\ DOMAIN s.pending \subseteq Ids
  /\ s.taken \subseteq Hashes
  /\ s.rest \subseteq DOMAIN s.pending
  /\ s.rest = {} <=> s.pc \in {"idle", "hashes"}

RowsType ==
  /\ deposit \in Seq(Deposits)
  /\ deposited \in [Users -> Nat]
  /\ credits \in Seq(Nat) /\ Len(credits) = Len(deposit)
WorldType ==
  /\ payment \in Seq(Payments)
  /\ late \subseteq Ids
  /\ due \in Seq(Confirmations) /\ Len(due) = Len(deposit)
ScansType == scan = [l \in Loops |-> scan[l]] /\ \A l \in Loops : ScanType(scan[l])

\* Types of the rows, of the world and of the locals of the scans.
TypeOK == RowsType /\ WorldType /\ ScansType /\ failures \in Nat

---------------------------------------------------------------------------
(* Safety *)

\* creditDeposit claims the row before it touches the wallet: whatever scans
\* overlap or stop, a deposit reaches the wallet at most once, and only if it is confirmed.
CreditedOnce ==
  \A i \in Ids : credits[i] <= 1 /\ (credits[i] = 1 => deposit[i].status = "confirmed")

\* creditedHashes: a payment that one deposit was credited with never credits another.
PaymentCreditedOnce ==
  \A i, j \in Ids :
    deposit[i].meta.by = "watcher" /\ deposit[j].meta.by = "watcher"
      /\ deposit[i].meta.hash = deposit[j].meta.hash => i = j

\* allocateUniqueAmount: no two pending deposits of an address are quoted one amount.
QuotesAreUnique ==
  \A i, j \in InStatus({"pending"}) :
    deposit[i].address = deposit[j].address /\ deposit[i].amount = deposit[j].amount => i = j

\* WATCH_STATUSES: the watcher never touches a row that is no longer pending, though
\* it writes some of them by id alone; what is in review is left to the admin app.
DecidedIsLeftAlone ==
  [][\A i \in Ids : deposit[i].status # "pending" =>
       /\ deposit'[i].meta = deposit[i].meta
       /\ deposit'[i].status # deposit[i].status => deposit[i].status = "review"]_vars

\* "auto-credits amounts inside the spacer": a scan does not give a deposit up as
\* unpaid while what it was quoted is on its address and no other deposit has it.
PaidIsNotGivenUp ==
  [][\A l \in Loops : At(l, "inspect") /\ scan'[l].pc = "cancel" =>
       ~\E k \in DOMAIN payment :
          /\ payment[k].address = Snapshot(l).address
          /\ InWindow(Snapshot(l).amount, payment[k].amount)
          /\ \A j \in Ids \ {Subject(l)} : deposit[j].meta.hash # <<"chain", k>>]_vars

---------------------------------------------------------------------------
(* The watcher keeps the deposit book *)

\* A confirmed deposit that the wallet was not credited for yet is claimed.
BookStage(i) ==
  CASE deposit[i].status = "pending" -> "open"
    [] deposit[i].status = "review" -> "held"
    [] deposit[i].status = "confirmed" -> IF credits[i] = 0 THEN "claimed" ELSE "paid"
    [] OTHER -> "closed"

Stages == [i \in Ids |-> [user |-> deposit[i].user, usd |-> deposit[i].usd, at |-> BookStage(i)]]

DB == INSTANCE DepositBook WITH
  Players <- Users, Asks <- UsdAmounts, stage <- Stages, funds <- deposited

\* However scans of several workers overlap, go by what they read long ago, or stop, and
\* whatever the admin app decides meanwhile: every statement is a step of the book or
\* leaves it alone.  A closed or confirmed deposit stays so, and pays once.
KeepsTheDepositBook == DB!Spec

---------------------------------------------------------------------------
(* Liveness *)

\* A lookup of deposit i that the explorer answers.
AnsweredLookup(l, i) ==
  /\ At(l, "inspect") /\ Subject(l) = i
  /\ \E answer \in Answers(l) : answer.ok /\ Inspect(l, answer)

\* The timers go on ticking and every await settles; explorers answer now and
\* then about every deposit; payments confirm and quotes expire.
Fairness ==
  /\ \A l \in Loops : WF_vars(ScanStep(l))
  /\ \A l \in {loop \in Loops : loop[2] = "chain"}, i \in 1..MaxDeposits :
       SF_vars(AnsweredLookup(l, i))
  /\ WF_vars(\E k \in DOMAIN payment : Confirm(k))
  /\ WF_vars(\E i \in Ids : QuoteExpires(i) \/ SimulatedConfirmation(i))

FairSpec == Spec /\ Fairness

Pending(i) == i \in Ids /\ deposit[i].status = "pending"

\* The payment a pending deposit has shown to its player went to another deposit.
Outrun(i) == \E j \in Ids \ {i} : deposit[i].meta.hash \in {deposit[j].meta.hash} \ {NoHash}

\* Every deposit is credited, held for review or cancelled in the end, except one whose
\* payment another deposit took, and a simulated one whose last scan stopped half-way.
DepositIsDecided ==
  \A i \in 1..MaxDeposits :
    Pending(i) ~> \/ ~Pending(i) \/ Outrun(i)
                  \/ deposit[i].simulate # 0 /\ failures > 0
=============================================================================
