--------------------------- MODULE DepositProofs ---------------------------
(***************************************************************************)
(* Theorems about the deposit watcher that hold for any number of workers  *)
(* and deposits, however their scans overlap or stop: types, one credit    *)
(* per deposit, quotes, and that the watcher implements the deposit book;  *)
(* two that need one timer per mode; and one about windows that overlap.   *)
(***************************************************************************)
EXTENDS DepositProperties, SequenceTheorems, FiniteSums

---------------------------------------------------------------------------
(* Natural numbers *)

\* A non-empty set of indexes has a greatest element.
LEMMA GreatestIndex ==
  ASSUME NEW n \in Nat, NEW S \in SUBSET (1..n), S # {}
  PROVE  \E m \in S : \A k \in S : k <= m
<1> DEFINE T == {n - k : k \in S}
<1>1. T \in SUBSET Nat /\ T # {}
  <2>1. \A k \in S : n - k \in Nat
    OBVIOUS
  <2> QED BY <2>1, Zenon
<1>2. PICK t \in T : \A u \in T : t <= u
  BY <1>1, LeastNatural
<1>3. PICK m \in S : t = n - m
  OBVIOUS
<1>4. \A k \in S : k <= m
  <2> TAKE k \in S
  <2>1. n - m <= n - k
    BY <1>2, <1>3
  <2> QED BY <2>1
<1> QED BY <1>4

---------------------------------------------------------------------------
(* Quotes *)

\* A match window is a positive number of hundredths.
LEMMA MatchWindowType == \A x \in Nat : MatchWindowFor(x) \in Nat /\ MatchWindowFor(x) >= 100
BY QuotesAssumption DEF MatchWindowFor, Larger

\* The gap between quotes is never zero.
LEMMA UniquenessStepType == \A x \in Nat : UniquenessStepFor(x) \in Nat \ {0}
<1> TAKE x \in Nat
<1> DEFINE w == MatchWindowFor(x)
<1>1. w \in Nat /\ w >= 100
  BY MatchWindowType
<1> HIDE DEF w
<1>2. (22 * w + 500) \div 1000 \in Nat \ {0}
  BY <1>1
<1> QED BY <1>2 DEF UniquenessStepFor, w

\* allocateUniqueAmount: the quote is an amount that no other has.
LEMMA AllocatedAmountIsNew ==
  ASSUME NEW base \in Nat, NEW used, IsFiniteSet(used), NEW step \in Nat \ {0}
  PROVE  /\ AllocateUniqueAmount(base, used, step) \in Nat
         /\ AllocateUniqueAmount(base, used, step) \notin used
         /\ AllocateUniqueAmount(base, used, step) >= base
<1> DEFINE n == Cardinality(used)
           amount(k) == Larger(step, base) + k * step
           free == {k \in 0..n : amount(k) \notin used}
<1>1. n \in Nat
  BY FS_CardinalityType
<1>2. Larger(step, base) \in Nat /\ Larger(step, base) >= base
  BY DEF Larger
<1>3. \A k \in Nat : amount(k) \in Nat /\ amount(k) >= base
  BY <1>2
<1>4. free # {}
  <2> SUFFICES ASSUME \A k \in 0..n : amount(k) \in used
               PROVE  FALSE
    OBVIOUS
  <2> DEFINE f == [k \in 0..n |-> amount(k)]
  <2>1. \A j, k \in 0..n : amount(j) = amount(k) => j = k
    <3> SUFFICES ASSUME NEW j \in 0..n, NEW k \in 0..n, j * step = k * step
                 PROVE  j = k
      BY <1>1, <1>2
    <3> HIDE DEF n
    <3>1. j * step - k * step = (j - k) * step
      BY <1>1
    <3> QED BY <1>1, <3>1
  <2>2. f \in Injection(0..n, used)
    BY <2>1 DEF Injection, IsInjective
  <2>3. Cardinality(0..n) <= n
    BY <2>2, FS_Injection
  <2>4. Cardinality(0..n) = n + 1
    BY <1>1, FS_Interval
  <2> QED BY <1>1, <2>3, <2>4
<1>5. \E k \in free : \A j \in free : k <= j
  <2>1. free \in SUBSET Nat
    BY <1>1
  <2> HIDE DEF free
  <2> QED BY <1>4, <2>1, LeastNatural
<1> DEFINE k == CHOOSE k \in free : \A j \in free : k <= j
<1>6. k \in free
  BY <1>5
<1>7. AllocateUniqueAmount(base, used, step) = amount(k)
  BY DEF AllocateUniqueAmount
<1> HIDE DEF k
<1> QED BY <1>1, <1>3, <1>6, <1>7

\* The third quote of a base is two steps above the first, which have both been taken.
LEMMA QuotesInARow ==
  ASSUME NEW base \in Nat, NEW step \in Nat \ {0}, step <= base
  PROVE  /\ AllocateUniqueAmount(base, {base}, step) = base + step
         /\ AllocateUniqueAmount(base, {base, base + step}, step) = base + 2 * step
<1> DEFINE amount(k) == Larger(step, base) + k * step
           free(used) == {k \in 0..Cardinality(used) : amount(k) \notin used}
<1>1. Larger(step, base) = base
  BY DEF Larger
<1>2. amount(0) = base /\ amount(1) = base + step /\ amount(2) = base + 2 * step
  BY <1>1
<1>3. AllocateUniqueAmount(base, {base}, step) = base + step
  <2> DEFINE used == {base}
             k == CHOOSE k \in free(used) : \A j \in free(used) : k <= j
  <2>1. Cardinality(used) = 1
    BY FS_Singleton
  <2>2. 0..1 = {0, 1}
    OBVIOUS
  <2>3. free(used) = {1}
    <3>1. amount(0) \in used /\ amount(1) \notin used
      BY <1>2
    <3> HIDE DEF amount, used
    <3> QED BY <2>1, <2>2, <3>1
  <2>4. k = 1
    <3> HIDE DEF free, used
    <3> QED BY <2>3
  <2>5. AllocateUniqueAmount(base, used, step) = amount(k)
    BY DEF AllocateUniqueAmount
  <2> HIDE DEF k, amount
  <2> QED BY <1>2, <2>4, <2>5
<1>4. AllocateUniqueAmount(base, {base, base + step}, step) = base + 2 * step
  <2> DEFINE used == {base, base + step}
             k == CHOOSE k \in free(used) : \A j \in free(used) : k <= j
  <2>1. Cardinality(used) = 2
    <3>1. Cardinality({base}) = 1 /\ IsFiniteSet({base})
      BY FS_Singleton
    <3>2. base + step \notin {base} /\ used = {base} \cup {base + step}
      OBVIOUS
    <3> HIDE DEF used
    <3> QED BY <3>1, <3>2, FS_AddElement
  <2>2. 0..2 = {0, 1, 2}
    OBVIOUS
  <2>3. free(used) = {2}
    <3>1. amount(0) \in used /\ amount(1) \in used /\ amount(2) \notin used
      BY <1>2
    <3> HIDE DEF amount, used
    <3> QED BY <2>1, <2>2, <3>1
  <2>4. k = 2
    <3> HIDE DEF free, used
    <3> QED BY <2>3
  <2>5. AllocateUniqueAmount(base, used, step) = amount(k)
    BY DEF AllocateUniqueAmount
  <2> HIDE DEF k, amount
  <2> QED BY <1>2, <2>4, <2>5
<1> QED BY <1>3, <1>4

---------------------------------------------------------------------------
(* What a scan works on *)

\* The rows' numbers are the indexes of the table.
LEMMA IdsAreIndexes ==
  ASSUME RowsType
  PROVE  Ids = 1..Len(deposit) /\ Len(deposit) \in Nat /\ Ids = DOMAIN credits
BY DEF RowsType, Ids

\* The row a scan works on is one of those it read, and is still in the table.
LEMMA SubjectType ==
  ASSUME TypeOK, NEW l \in Loops, scan[l].pc \notin {"idle", "hashes"}
  PROVE  /\ Subject(l) \in scan[l].rest
         /\ Subject(l) \in DOMAIN scan[l].pending
         /\ Subject(l) \in Ids
         /\ Snapshot(l) \in Deposits
<1>1. ScanType(scan[l])
  BY DEF TypeOK, ScansType
<1>2. Ids = 1..Len(deposit) /\ Len(deposit) \in Nat
  BY IdsAreIndexes DEF TypeOK
<1>3. scan[l].rest \in SUBSET (1..Len(deposit)) /\ scan[l].rest # {}
  BY <1>1, <1>2 DEF ScanType
<1>4. \E m \in scan[l].rest : \A k \in scan[l].rest : k <= m
  BY <1>2, <1>3, GreatestIndex
<1>5. Subject(l) \in scan[l].rest
  BY <1>4, Zenon DEF Subject
<1> QED BY <1>1, <1>5 DEF ScanType, Snapshot

\* An idle scan is well typed.
LEMMA StoppedType == Stopped.pc = "idle" /\ ScanType(Stopped)
BY WatchAssumption DEF Stopped, NoTx, NoHash, ScanType, ScanPcs, Txs, Hashes, Confirmations

\* One loop moves and the others stand still.
LEMMA ScanMoves ==
  ASSUME ScansType, Ids' = Ids, NEW l \in Loops, NEW s, ScanType(s), scan' = [scan EXCEPT ![l] = s]
  PROVE  ScansType'
BY DEF ScansType, ScanType

\* Going to another statement of the same deposit keeps the locals.
LEMMA GotoType ==
  ASSUME TypeOK, Ids' = Ids, NEW l \in Loops, scan[l].pc \notin {"idle", "hashes"},
         NEW pc \in ScanPcs \ {"idle", "hashes"}, Goto(l, pc)
  PROVE  ScansType'
<1> DEFINE s == [scan[l] EXCEPT !.pc = pc]
<1>1. ScanType(scan[l]) /\ ScansType
  BY DEF TypeOK, ScansType
<1>2. ScanType(s)
  BY <1>1 DEF ScanType
<1>3. scan' = [scan EXCEPT ![l] = s]
  BY DEF Goto
<1> HIDE DEF s
<1> QED BY <1>1, <1>2, <1>3, ScanMoves

\* Going on to the next deposit keeps what the scan has read.
LEMMA NextDepositType ==
  ASSUME TypeOK, Ids' = Ids, NEW l \in Loops, NEW taken, taken \subseteq Hashes,
         NextDeposit(l, taken)
  PROVE  ScansType'
<1> DEFINE rest == scan[l].rest \ {Subject(l)}
           s == IF rest = {} THEN Stopped
                ELSE [Stopped EXCEPT !.pc = "inspect", !.pending = scan[l].pending,
                                     !.rest = rest, !.taken = taken]
<1>1. ScanType(scan[l]) /\ ScansType
  BY DEF TypeOK, ScansType
<1>2. ScanType(s)
  BY <1>1, StoppedType DEF ScanType, ScanPcs
<1>3. scan' = [scan EXCEPT ![l] = s]
  BY DEF NextDeposit
<1> HIDE DEF s
<1> QED BY <1>1, <1>2, <1>3, ScanMoves

\* Skipping a deposit keeps the hashes too.
LEMMA SkipType ==
  ASSUME TypeOK, Ids' = Ids, NEW l \in Loops, Skip(l)
  PROVE  ScansType'
BY NextDepositType DEF Skip, TypeOK, ScansType, ScanType

---------------------------------------------------------------------------
(* Types are kept *)

\* A row replaced by a row leaves a table of as many rows.
LEMMA RowMoves ==
  ASSUME RowsType, NEW i \in Ids, NEW row \in Deposits, deposit' = [deposit EXCEPT ![i] = row]
  PROVE  /\ deposit' \in Seq(Deposits) /\ Len(deposit') = Len(deposit)
         /\ Ids' = Ids
BY DEF RowsType, Ids

\* What a lookup answers is payments.
LEMMA AnswerType ==
  ASSUME TypeOK, NEW l \in Loops, At(l, "inspect"), NEW answer \in Answers(l)
  PROVE  answer.txs \subseteq Txs
<1>1. Subject(l) \in Ids /\ Snapshot(l) \in Deposits
  BY SubjectType DEF At
<1>2. CASE answer = SimulatedIncoming(Subject(l), Snapshot(l))
  <2>1. due[Subject(l)] \in Confirmations
    BY <1>1, IdsAreIndexes DEF TypeOK, WorldType
  <2>2. <<"sim", Subject(l)>> \in Hashes
    BY <1>1, IdsAreIndexes DEF TypeOK, Hashes
  <2> QED BY <1>1, <1>2, <2>1, <2>2 DEF SimulatedIncoming, Deposits, Txs
<1>3. CASE answer \in ChainAnswers(Snapshot(l))
  <2>1. \A k \in DOMAIN payment :
          [hash |-> <<"chain", k>>, amount |-> payment[k].amount, conf |-> payment[k].conf] \in Txs
    <3> TAKE k \in DOMAIN payment
    <3>1. payment[k] \in Payments /\ k \in Nat \ {0}
      BY DEF TypeOK, WorldType
    <3>2. <<"chain", k>> \in Hashes
      BY <3>1 DEF Hashes
    <3> QED BY <3>1, <3>2 DEF Payments, Txs
  <2> QED BY <1>3, <2>1 DEF ChainAnswers, Unreachable
<1> QED BY <1>2, <1>3 DEF Answers

\* tick reads rows of the table.
LEMMA TickType ==
  ASSUME TypeOK, NEW l \in Loops, Tick(l)
  PROVE  TypeOK'
<1> DEFINE s == [scan[l] EXCEPT !.pc = "hashes",
                                !.pending = [i \in InStatus({"pending"}) |-> deposit[i]]]
<1>1. ScanType(scan[l]) /\ ScansType /\ Ids' = Ids
  BY DEF TypeOK, ScansType, Tick, Ids, rows
<1>2. ScanType(s)
  <2>1. scan[l].rest = {}
    BY <1>1 DEF ScanType, Tick, At
  <2>2. [i \in InStatus({"pending"}) |-> deposit[i]] \in [InStatus({"pending"}) -> Deposits]
    BY DEF InStatus, TypeOK, RowsType, Ids
  <2> QED BY <1>1, <2>1, <2>2 DEF ScanType, ScanPcs, InStatus
<1>3. scan' = [scan EXCEPT ![l] = s]
  BY DEF Tick
<1> HIDE DEF s
<1>4. ScansType'
  BY <1>1, <1>2, <1>3, ScanMoves
<1> QED BY <1>4 DEF TypeOK, RowsType, WorldType, Tick, rows, world, Ids

\* The hashes taken are hashes.
LEMMA CreditedHashesType == ASSUME TypeOK PROVE CreditedHashes \subseteq Hashes
<1>1. \A i \in Ids : deposit[i].meta.hash \in Hashes
  <2> TAKE i \in Ids
  <2>1. deposit[i] \in Deposits
    BY DEF TypeOK, RowsType, Ids
  <2> QED BY <2>1 DEF Deposits, Metas
<1> QED BY <1>1 DEF CreditedHashes, InStatus

\* A scan with nothing to do ends, another has rows to go through.
LEMMA ReadHashesType ==
  ASSUME TypeOK, NEW l \in Loops, ReadHashes(l)
  PROVE  TypeOK'
<1> DEFINE mine == {i \in DOMAIN scan[l].pending : Watched(l, scan[l].pending[i])}
           s == IF mine = {} THEN Stopped
                ELSE [scan[l] EXCEPT !.pc = "inspect", !.rest = mine, !.taken = CreditedHashes]
<1>1. ScanType(scan[l]) /\ ScansType /\ Ids' = Ids
  BY DEF TypeOK, ScansType, ReadHashes, Ids, rows
<1>2. ScanType(s)
  BY <1>1, StoppedType, CreditedHashesType DEF ScanType, ScanPcs
<1>3. scan' = [scan EXCEPT ![l] = s]
  BY DEF ReadHashes
<1> HIDE DEF s
<1>4. ScansType'
  BY <1>1, <1>2, <1>3, ScanMoves
<1> QED BY <1>4 DEF TypeOK, RowsType, WorldType, ReadHashes, rows, world, Ids

\* inspect goes on with a payment of the answer, or with none.
LEMMA InspectType ==
  ASSUME TypeOK, NEW l \in Loops, At(l, "inspect"), NEW answer \in Answers(l), Inspect(l, answer)
  PROVE  TypeOK'
<1>1. ScanType(scan[l]) /\ ScansType /\ Ids' = Ids
  BY DEF TypeOK, ScansType, Inspect, Ids, rows
<1>2. answer.txs \subseteq Txs
  BY AnswerType
<1>3. scan[l].rest # {}
  BY <1>1 DEF ScanType, At
<1>4. ASSUME NEW tx \in answer.txs, NEW pc \in {"risk", "progress"},
             NEW near \in BOOLEAN, NEW held \in BOOLEAN,
             scan' = [scan EXCEPT ![l] = [scan[l] EXCEPT !.pc = pc, !.tx = tx, !.near = near, !.held = held]]
      PROVE  ScansType'
  <2> DEFINE s == [scan[l] EXCEPT !.pc = pc, !.tx = tx, !.near = near, !.held = held]
  <2>1. ScanType(s)
    BY <1>1, <1>2, <1>3 DEF ScanType, ScanPcs
  <2>2. scan' = [scan EXCEPT ![l] = s]
    BY <1>4
  <2> HIDE DEF s
  <2> QED BY <1>1, <2>1, <2>2, ScanMoves
<1>5. ASSUME NEW tx \in Fresh(l, "match", answer.txs),
             scan' = [scan EXCEPT ![l].pc = "risk", ![l].tx = tx, ![l].held = Overdue(l)]
      PROVE  ScansType'
  <2>1. tx \in answer.txs /\ Overdue(l) \in BOOLEAN /\ scan[l].near \in BOOLEAN
    BY <1>1 DEF Fresh, Overdue, ScanType
  <2>2. scan' = [scan EXCEPT ![l] = [scan[l] EXCEPT !.pc = "risk", !.tx = tx, !.near = scan[l].near,
                                                    !.held = Overdue(l)]]
    BY <1>1, <1>5 DEF ScanType
  <2> QED BY <1>4, <2>1, <2>2
<1>6. ASSUME NEW tx \in Fresh(l, "review", answer.txs),
             scan' = [scan EXCEPT ![l].pc = "progress", ![l].tx = tx, ![l].near = TRUE]
      PROVE  ScansType'
  <2>1. tx \in answer.txs /\ scan[l].held \in BOOLEAN
    BY <1>1 DEF Fresh, ScanType
  <2>2. scan' = [scan EXCEPT ![l] = [scan[l] EXCEPT !.pc = "progress", !.tx = tx, !.near = TRUE,
                                                    !.held = scan[l].held]]
    BY <1>1, <1>6 DEF ScanType
  <2> QED BY <1>4, <2>1, <2>2
<1>7. Goto(l, "cancel") => ScansType'
  BY <1>1, GotoType DEF At, ScanPcs
<1>8. Skip(l) => ScansType'
  BY <1>1, SkipType
<1>9. ScansType'
  BY <1>5, <1>6, <1>7, <1>8 DEF Inspect
<1> QED BY <1>9 DEF TypeOK, RowsType, WorldType, Inspect, rows, world, Ids

\* A payment held in a scan, written over the metadata of a row.
LEMMA MetaType ==
  ASSUME TypeOK, NEW l \in Loops, scan[l].pc \notin {"idle", "hashes"}
  PROVE  /\ deposit[Subject(l)] \in Deposits
         /\ scan[l].tx \in Txs
BY SubjectType DEF TypeOK, ScansType, ScanType, RowsType, Ids

\* cancelUnpaid writes a status and the metadata of the snapshot.
LEMMA CancelType ==
  ASSUME TypeOK, NEW l \in Loops, CancelUnpaid(l)
  PROVE  TypeOK'
<1>1. Subject(l) \in Ids /\ Snapshot(l) \in Deposits /\ deposit[Subject(l)] \in Deposits
  BY SubjectType, MetaType DEF CancelUnpaid, At
<1> DEFINE row == [deposit[Subject(l)] EXCEPT !.status = "cancelled", !.meta = Snapshot(l).meta]
<1>2. row \in Deposits
  BY <1>1 DEF Deposits
<1>3. deposit' = deposit \/ deposit' = [deposit EXCEPT ![Subject(l)] = row]
  BY <1>1 DEF CancelUnpaid, TypeOK, RowsType, Ids, Deposits
<1> HIDE DEF row
<1>4. deposit' \in Seq(Deposits) /\ Len(deposit') = Len(deposit) /\ Ids' = Ids
  BY <1>1, <1>2, <1>3, RowMoves DEF TypeOK, RowsType, Ids
<1>5. ScansType'
  BY <1>4, SkipType DEF CancelUnpaid
<1> QED BY <1>4, <1>5 DEF TypeOK, RowsType, WorldType, CancelUnpaid, world

\* The risk checks only add to the reasons to hold the deposit.
LEMMA AssessRiskType ==
  ASSUME TypeOK, NEW l \in Loops, AssessRisk(l)
  PROVE  TypeOK'
<1>1. ScanType(scan[l]) /\ ScansType /\ Ids' = Ids
  BY DEF TypeOK, ScansType, AssessRisk, Ids, rows
<1>2. PICK risky \in RiskAnswers(Snapshot(l)) :
        scan' = [scan EXCEPT ![l].pc = "progress", ![l].held = @ \/ Collides(l) \/ risky]
  BY DEF AssessRisk
<1> DEFINE held == scan[l].held \/ Collides(l) \/ risky
           s == [scan[l] EXCEPT !.pc = "progress", !.held = held]
<1>3. held \in BOOLEAN
  OBVIOUS
<1>4. scan' = [scan EXCEPT ![l] = s]
  BY <1>1, <1>2 DEF ScansType
<1> HIDE DEF held
<1>5. ScanType(s)
  BY <1>1, <1>3 DEF ScanType, ScanPcs, AssessRisk, At
<1> HIDE DEF s
<1>6. ScansType'
  BY <1>1, <1>4, <1>5, ScanMoves
<1> QED BY <1>6 DEF TypeOK, RowsType, WorldType, AssessRisk, rows, world, Ids

\* progress writes the payment into the metadata.
LEMMA ProgressType ==
  ASSUME TypeOK, NEW l \in Loops, Progress(l)
  PROVE  TypeOK'
<1>1. Subject(l) \in Ids /\ Snapshot(l) \in Deposits /\ deposit[Subject(l)] \in Deposits
      /\ scan[l].tx \in Txs
  BY SubjectType, MetaType DEF Progress, At
<1> DEFINE meta == [Snapshot(l).meta EXCEPT
                     !.hash = scan[l].tx.hash, !.conf = scan[l].tx.conf,
                     !.simConf = IF Snapshot(l).simulate # 0 THEN scan[l].tx.conf ELSE @]
           row == [deposit[Subject(l)] EXCEPT !.meta = meta]
<1>2. meta \in Metas
  BY <1>1 DEF Deposits, Metas, Txs
<1>3. deposit' = deposit \/ deposit' = [deposit EXCEPT ![Subject(l)] = row]
  BY <1>1 DEF Progress, ShowProgress, TypeOK, RowsType, Ids
<1> HIDE DEF meta
<1>4. row \in Deposits
  BY <1>1, <1>2 DEF Deposits
<1> HIDE DEF row
<1>5. deposit' \in Seq(Deposits) /\ Len(deposit') = Len(deposit) /\ Ids' = Ids
  BY <1>1, <1>4, <1>3, RowMoves DEF TypeOK, RowsType, Ids
<1>6. ScansType'
  BY <1>5, SkipType, GotoType DEF Progress, At, ScanPcs
<1> QED BY <1>5, <1>6 DEF TypeOK, RowsType, WorldType, Progress, world

\* flagDepositForReview writes the payment and the status.
LEMMA FlagType ==
  ASSUME TypeOK, NEW l \in Loops, FlagDepositForReview(l)
  PROVE  TypeOK'
<1>1. Subject(l) \in Ids /\ deposit[Subject(l)] \in Deposits /\ scan[l].tx \in Txs
  BY SubjectType, MetaType DEF FlagDepositForReview, At
<1> DEFINE meta == [deposit[Subject(l)].meta EXCEPT !.hash = scan[l].tx.hash, !.conf = scan[l].tx.conf]
           row == [deposit[Subject(l)] EXCEPT !.status = "review", !.meta = meta]
<1>2. meta \in Metas
  BY <1>1 DEF Deposits, Metas, Txs
<1>3. deposit' = deposit \/ deposit' = [deposit EXCEPT ![Subject(l)] = row]
  BY <1>1 DEF FlagDepositForReview, TypeOK, RowsType, Ids, Deposits
<1> HIDE DEF meta
<1>4. row \in Deposits
  BY <1>1, <1>2 DEF Deposits
<1> HIDE DEF row
<1>5. deposit' \in Seq(Deposits) /\ Len(deposit') = Len(deposit) /\ Ids' = Ids
  BY <1>1, <1>4, <1>3, RowMoves DEF TypeOK, RowsType, Ids
<1>6. ScansType'
  BY <1>5, SkipType DEF FlagDepositForReview
<1> QED BY <1>5, <1>6 DEF TypeOK, RowsType, WorldType, FlagDepositForReview, world

\* The SELECT of creditDeposit changes no row.
LEMMA SelectType ==
  ASSUME TypeOK, NEW l \in Loops, SelectDeposit(l)
  PROVE  TypeOK'
<1>1. Ids' = Ids
  BY DEF SelectDeposit, Ids, rows
<1>2. ScansType'
  BY <1>1, SkipType, GotoType DEF SelectDeposit, At, ScanPcs
<1> QED BY <1>2 DEF TypeOK, RowsType, WorldType, SelectDeposit, rows, world, Ids

\* What the claim writes is a row.
LEMMA ClaimedType ==
  ASSUME TypeOK, NEW l \in Loops, scan[l].pc \notin {"idle", "hashes"}, deposit' = Claimed(l)
  PROVE  /\ deposit' \in Seq(Deposits) /\ Len(deposit') = Len(deposit)
         /\ Ids' = Ids
         /\ \A i \in Ids : deposit'[i].status =
                            IF i = Subject(l) THEN "confirmed" ELSE deposit[i].status
<1>1. Subject(l) \in Ids /\ deposit[Subject(l)] \in Deposits /\ scan[l].tx \in Txs
  BY SubjectType, MetaType
<1> DEFINE meta == [deposit[Subject(l)].meta EXCEPT !.hash = scan[l].tx.hash,
                                                    !.conf = scan[l].tx.conf, !.by = "watcher"]
           row == [deposit[Subject(l)] EXCEPT !.status = "confirmed", !.meta = meta]
<1>2. meta \in Metas
  BY <1>1 DEF Deposits, Metas, Txs
<1>3. deposit' = [deposit EXCEPT ![Subject(l)] = row]
  BY <1>1 DEF Claimed, TypeOK, RowsType, Ids, Deposits
<1> HIDE DEF meta
<1>4. row \in Deposits /\ row.status = "confirmed"
  BY <1>1, <1>2 DEF Deposits
<1> HIDE DEF row
<1>5. deposit' \in Seq(Deposits) /\ Len(deposit') = Len(deposit) /\ Ids' = Ids
  BY <1>1, <1>4, <1>3, RowMoves DEF TypeOK
<1> QED BY <1>1, <1>3, <1>4, <1>5 DEF TypeOK, RowsType, Ids

\* The claim.
LEMMA ClaimType ==
  ASSUME TypeOK, NEW l \in Loops, ClaimDeposit(l)
  PROVE  TypeOK'
<1>1. deposit' \in Seq(Deposits) /\ Len(deposit') = Len(deposit) /\ Ids' = Ids
  BY ClaimedType DEF ClaimDeposit, At, TypeOK, RowsType, Ids
<1>2. ScansType'
  BY <1>1, SkipType, GotoType DEF ClaimDeposit, At, ScanPcs
<1> QED BY <1>1, <1>2 DEF TypeOK, RowsType, WorldType, ClaimDeposit, world

\* The wallet gets a natural amount.
LEMMA CreditType ==
  ASSUME TypeOK, NEW l \in Loops, CreditDeposit(l)
  PROVE  TypeOK'
<1>1. Subject(l) \in Ids /\ deposit[Subject(l)] \in Deposits /\ scan[l].tx \in Txs
  BY SubjectType, MetaType DEF CreditDeposit, At
<1>2. Ids' = Ids
  BY DEF CreditDeposit, Ids
<1>3. scan[l].taken \cup {scan[l].tx.hash} \subseteq Hashes
  BY <1>1 DEF TypeOK, ScansType, ScanType, Txs
<1>4. ScansType'
  BY <1>2, <1>3, NextDepositType DEF CreditDeposit
<1>5. deposited' \in [Users -> Nat]
  <2>1. deposit[Subject(l)].user \in Users /\ deposit[Subject(l)].usd \in Nat
    BY <1>1 DEF Deposits
  <2>2. deposited \in [Users -> Nat]
    BY DEF TypeOK, RowsType
  <2> QED BY <2>1, <2>2 DEF CreditDeposit
<1>6. credits' \in Seq(Nat) /\ Len(credits') = Len(credits)
  BY <1>1, IdsAreIndexes DEF CreditDeposit, TypeOK, RowsType
<1> QED BY <1>2, <1>4, <1>5, <1>6 DEF TypeOK, RowsType, WorldType, CreditDeposit, world

\* A scan that stops is idle.
LEMMA StopType ==
  ASSUME TypeOK, NEW l \in Loops, StopScan(l)
  PROVE  TypeOK'
<1>1. ScansType'
  BY StoppedType, ScanMoves DEF StopScan, TypeOK, Ids, rows
<1> QED BY <1>1 DEF TypeOK, RowsType, WorldType, StopScan, rows, world, Ids

\* The amounts other deposits were quoted are finitely many.
LEMMA UsedIsFinite ==
  ASSUME TypeOK, NEW address
  PROVE  IsFiniteSet({deposit[i].amount : i \in {j \in InStatus({"pending"}) :
                                                  deposit[j].address = address}})
<1> DEFINE S == {j \in InStatus({"pending"}) : deposit[j].address = address}
           T == {deposit[i].amount : i \in S}
           f == [i \in S |-> deposit[i].amount]
<1>1. S \subseteq 1..Len(deposit) /\ Len(deposit) \in Nat
  BY IdsAreIndexes DEF InStatus, TypeOK
<1>2. IsFiniteSet(S)
  <2>1. IsFiniteSet(1..Len(deposit))
    BY <1>1, FS_Interval
  <2> HIDE DEF S
  <2> QED BY <1>1, <2>1, FS_Subset
<1>3. f \in Surjection(S, T)
  BY DEF Surjection
<1> HIDE DEF S, T
<1>4. IsFiniteSet(T)
  BY <1>2, <1>3, FS_Surjection
<1> QED BY <1>4 DEF S, T

\* A quote is an amount that nothing pending on the address has.
LEMMA QuoteIsNew ==
  ASSUME TypeOK, NEW address, NEW usd \in UsdAmounts,
         NEW used, used = {deposit[i].amount : i \in {j \in InStatus({"pending"}) :
                                                        deposit[j].address = address}}
  PROVE  QuoteCryptoAmount(usd, used) \in Nat /\ QuoteCryptoAmount(usd, used) \notin used
<1>1. usd \in Nat
  BY WatchAssumption
<1>2. IsFiniteSet(used)
  BY UsedIsFinite
<1> QED BY <1>1, <1>2, UniquenessStepType, AllocatedAmountIsNew DEF QuoteCryptoAmount

\* What a player's request inserts.
LEMMA CreateType ==
  ASSUME TypeOK, NEW u \in Users, NEW usd \in UsdAmounts, NEW address \in Addresses,
         NEW simulate \in {0} \cup SimAmounts, CreateDeposit(u, usd, address, simulate)
  PROVE  TypeOK'
<1> DEFINE used == {deposit[i].amount : i \in {j \in InStatus({"pending"}) :
                                                deposit[j].address = address}}
           row == [user |-> u, usd |-> usd, amount |-> QuoteCryptoAmount(usd, used),
                   address |-> address, simulate |-> simulate, status |-> "pending", meta |-> NoMeta]
<1>1. row \in Deposits
  <2>1. QuoteCryptoAmount(usd, used) \in Nat
    BY QuoteIsNew
  <2>2. NoMeta \in Metas
    BY WatchAssumption DEF NoMeta, NoHash, Metas, Hashes, Confirmations
  <2> HIDE DEF used
  <2> QED BY <2>1, <2>2, WatchAssumption DEF Deposits
<1>2. /\ deposit' = Append(deposit, row) /\ credits' = Append(credits, 0) /\ due' = Append(due, 0)
      /\ UNCHANGED <<deposited, payment, late, scan, failures>>
  BY DEF CreateDeposit
<1> HIDE DEF row
<1>3. deposit' \in Seq(Deposits) /\ Len(deposit') = Len(deposit) + 1 /\ Ids \subseteq Ids'
  BY <1>1, <1>2 DEF TypeOK, RowsType, Ids
<1>4. credits' \in Seq(Nat) /\ Len(credits') = Len(credits) + 1
  BY <1>2 DEF TypeOK, RowsType
<1>5. due' \in Seq(Confirmations) /\ Len(due') = Len(due) + 1
  <2>1. 0 \in Confirmations
    BY WatchAssumption DEF Confirmations
  <2> QED BY <1>2, <2>1 DEF TypeOK, WorldType
<1>6. RowsType' /\ WorldType'
  BY <1>2, <1>3, <1>4, <1>5 DEF TypeOK, RowsType, WorldType
<1>7. ScansType'
  BY <1>2, <1>3 DEF TypeOK, ScansType, ScanType
<1> QED BY <1>2, <1>6, <1>7 DEF TypeOK

\* What the explorers show and the time that passes.
LEMMA WorldStepType ==
  ASSUME TypeOK,
         \/ \E address \in Addresses, amount \in PaidAmounts : Pay(address, amount)
         \/ \E k \in DOMAIN payment : Confirm(k)
         \/ \E i \in Ids : QuoteExpires(i) \/ SimulatedConfirmation(i)
  PROVE  TypeOK'
<1>1. ASSUME NEW address \in Addresses, NEW amount \in PaidAmounts, Pay(address, amount)
      PROVE  WorldType' /\ UNCHANGED <<rows, scan, failures>>
  <2>1. [address |-> address, amount |-> amount, conf |-> 0] \in Payments
    BY WatchAssumption DEF Payments, Confirmations
  <2> QED BY <1>1, <2>1 DEF Pay, TypeOK, WorldType, rows, Ids
<1>2. ASSUME NEW k \in DOMAIN payment, Confirm(k)
      PROVE  WorldType' /\ UNCHANGED <<rows, scan, failures>>
  <2> DEFINE p == [payment[k] EXCEPT !.conf = @ + 1]
  <2>1. payment[k] \in Payments /\ payment[k].conf < Required
    BY <1>2 DEF TypeOK, WorldType, Confirm
  <2>2. p \in Payments
    BY <2>1, WatchAssumption DEF Payments, Confirmations
  <2>3. payment' = [payment EXCEPT ![k] = p]
    BY <1>2, <2>1 DEF Confirm, TypeOK, WorldType, Payments
  <2> HIDE DEF p
  <2> QED BY <1>2, <2>2, <2>3 DEF Confirm, TypeOK, WorldType, rows, Ids
<1>3. ASSUME NEW i \in Ids, QuoteExpires(i)
      PROVE  WorldType' /\ UNCHANGED <<rows, scan, failures>>
  BY <1>3 DEF QuoteExpires, TypeOK, WorldType, rows, Ids
<1>4. ASSUME NEW i \in Ids, SimulatedConfirmation(i)
      PROVE  WorldType' /\ UNCHANGED <<rows, scan, failures>>
  <2>1. i \in DOMAIN due /\ due[i] \in Confirmations /\ due[i] < Required
    <3>1. due \in Seq(Confirmations) /\ Len(due) = Len(deposit) /\ i \in 1..Len(deposit)
      BY IdsAreIndexes DEF TypeOK, WorldType
    <3> QED BY <1>4, <3>1 DEF SimulatedConfirmation
  <2>2. due[i] + 1 \in Confirmations
    BY <2>1, WatchAssumption DEF Confirmations
  <2>3. due' \in Seq(Confirmations) /\ Len(due') = Len(due)
    BY <1>4, <2>1, <2>2 DEF SimulatedConfirmation, TypeOK, WorldType
  <2> QED BY <1>4, <2>3 DEF SimulatedConfirmation, TypeOK, WorldType, rows, Ids
<1>5. WorldType' /\ UNCHANGED <<rows, scan, failures>>
  BY <1>1, <1>2, <1>3, <1>4
<1> QED BY <1>5 DEF TypeOK, RowsType, ScansType, ScanType, rows, Ids

\* What the admin app decides.
LEMMA DecideType ==
  ASSUME TypeOK, NEW i \in Ids, DecideReview(i)
  PROVE  TypeOK'
<1>1. deposit[i] \in Deposits /\ i \in DOMAIN credits
  BY IdsAreIndexes DEF TypeOK, RowsType, Ids
<1>2. PICK status \in {"confirmed", "failed"} : deposit' = [deposit EXCEPT ![i].status = status]
  BY DEF DecideReview
<1> DEFINE row == [deposit[i] EXCEPT !.status = status]
<1>3. row \in Deposits
  BY <1>1 DEF Deposits
<1>4. deposit' = [deposit EXCEPT ![i] = row]
  BY <1>1, <1>2
<1> HIDE DEF row
<1>5. deposit' \in Seq(Deposits) /\ Len(deposit') = Len(deposit) /\ Ids' = Ids
  BY <1>3, <1>4, RowMoves DEF TypeOK
<1>6. deposited' \in [Users -> Nat]
  <2>1. deposit[i].user \in Users /\ deposit[i].usd \in Nat
    BY <1>1 DEF Deposits
  <2>2. deposited \in [Users -> Nat]
    BY DEF TypeOK, RowsType
  <2> QED BY <2>1, <2>2 DEF DecideReview
<1>7. credits' \in Seq(Nat) /\ Len(credits') = Len(credits)
  <2>1. credits \in Seq(Nat) /\ credits[i] + 1 \in Nat
    BY <1>1 DEF TypeOK, RowsType
  <2>2. credits' = credits \/ credits' = [credits EXCEPT ![i] = credits[i] + 1]
    BY DEF DecideReview
  <2> QED BY <1>1, <2>1, <2>2
<1> QED BY <1>5, <1>6, <1>7 DEF TypeOK, RowsType, WorldType, ScansType, ScanType, DecideReview, world

\* Every step keeps the types.
LEMMA TypeStep == TypeOK /\ [Next]_vars => TypeOK'
<1> SUFFICES ASSUME TypeOK, [Next]_vars PROVE TypeOK'
  OBVIOUS
<1>1. ASSUME NEW l \in Loops, ScanStep(l) PROVE TypeOK'
  BY <1>1, TickType, ReadHashesType, InspectType, CancelType, AssessRiskType, ProgressType,
     FlagType, SelectType, ClaimType, CreditType DEF ScanStep
<1>2. CASE UNCHANGED vars
  BY <1>2 DEF vars, rows, world, TypeOK, RowsType, WorldType, ScansType, ScanType, Ids
<1> QED BY <1>1, <1>2, StopType, CreateType, WorldStepType, DecideType DEF Next

\* The rows, the world and the locals of the scans keep their types.
THEOREM TypeCorrect == Spec => []TypeOK
<1>1. Init => TypeOK
  <2> SUFFICES ASSUME Init PROVE TypeOK
    OBVIOUS
  <2>1. \A l \in Loops : ScanType(scan[l])
    BY StoppedType DEF Init
  <2>2. Len(deposit) = 0 /\ Len(credits) = 0 /\ Len(due) = 0
    BY DEF Init
  <2> QED BY <2>1, <2>2 DEF Init, TypeOK, RowsType, WorldType, ScansType, Ids
<1> QED BY <1>1, TypeStep, PTL DEF Spec

---------------------------------------------------------------------------
(* Each deposit is credited once *)

\* A loop that is about to update the wallet holds the claim of a confirmed
\* deposit that was not credited yet, and no two loops hold one claim.
ClaimsAreHeld ==
  /\ \A l \in Loops : At(l, "wallet") =>
       deposit[Subject(l)].status = "confirmed" /\ credits[Subject(l)] = 0
  /\ \A l, m \in Loops :
       At(l, "wallet") /\ At(m, "wallet") /\ Subject(l) = Subject(m) => l = m

CreditInv == CreditedOnce /\ ClaimsAreHeld

\* Loops that stand still hold what they held.
LEMMA OthersHold ==
  ASSUME ScansType, NEW l \in Loops, NEW s, scan' = [scan EXCEPT ![l] = s]
  PROVE  /\ \A m \in Loops \ {l} : (At(m, "wallet"))' = At(m, "wallet")
                                   /\ (Subject(m))' = Subject(m)
         /\ (At(l, "wallet"))' <=> s.pc = "wallet"
<1>1. \A m \in Loops \ {l} : scan'[m] = scan[m]
  BY DEF ScansType
<1>2. scan'[l] = s
  BY DEF ScansType
<1> QED BY <1>1, <1>2 DEF At, Subject

\* No loop comes to hold a claim.
NoNewClaim == \A m \in Loops : (At(m, "wallet"))' => At(m, "wallet") /\ (Subject(m))' = Subject(m)

\* Going on to the next deposit takes no claim.
LEMMA NextClaimsNothing ==
  ASSUME TypeOK, NEW l \in Loops, NEW taken, NextDeposit(l, taken)
  PROVE  NoNewClaim /\ ~(At(l, "wallet"))'
<1> DEFINE rest == scan[l].rest \ {Subject(l)}
           s == IF rest = {} THEN Stopped
                ELSE [Stopped EXCEPT !.pc = "inspect", !.pending = scan[l].pending,
                                     !.rest = rest, !.taken = taken]
<1>1. s.pc # "wallet"
  BY DEF Stopped
<1>2. scan' = [scan EXCEPT ![l] = s]
  BY DEF NextDeposit
<1> HIDE DEF s
<1> QED BY <1>1, <1>2, OthersHold DEF NoNewClaim, TypeOK

\* Going to another statement takes no claim, unless it is the wallet's.
LEMMA GotoClaimsNothing ==
  ASSUME TypeOK, NEW l \in Loops, NEW pc, Goto(l, pc), pc # "wallet"
  PROVE  NoNewClaim
<1> DEFINE s == [scan[l] EXCEPT !.pc = pc]
<1>1. s.pc # "wallet"
  BY DEF TypeOK, ScansType, ScanType
<1>2. scan' = [scan EXCEPT ![l] = s]
  BY DEF Goto
<1> HIDE DEF s
<1> QED BY <1>1, <1>2, OthersHold DEF NoNewClaim, TypeOK

\* Confirmed deposits stay confirmed and the history is not rewritten.
CreditsStand ==
  /\ Ids \subseteq Ids'
  /\ \A i \in Ids : credits'[i] = credits[i] /\ (deposit[i].status = "confirmed"
                                                  => deposit'[i].status = "confirmed")
  /\ \A i \in Ids' \ Ids : credits'[i] = 0

\* A step that claims and credits nothing keeps the invariant.
LEMMA QuietStep ==
  ASSUME TypeOK, CreditInv, NoNewClaim, CreditsStand
  PROVE  CreditInv'
<1>1. CreditedOnce'
  BY DEF CreditInv, CreditedOnce, CreditsStand
<1>2. ASSUME NEW l \in Loops, (At(l, "wallet"))'
      PROVE  /\ (deposit[Subject(l)].status = "confirmed" /\ credits[Subject(l)] = 0)'
             /\ At(l, "wallet") /\ (Subject(l))' = Subject(l)
  <2>1. At(l, "wallet") /\ (Subject(l))' = Subject(l)
    BY <1>2 DEF NoNewClaim
  <2>2. Subject(l) \in Ids
    BY <2>1, SubjectType DEF At
  <2> QED BY <2>1, <2>2 DEF CreditInv, ClaimsAreHeld, CreditsStand
<1>3. ClaimsAreHeld'
  BY <1>2 DEF CreditInv, ClaimsAreHeld
<1> QED BY <1>1, <1>3 DEF CreditInv

\* The statements of a scan before the claim.
LEMMA ScanClaimsNothing ==
  ASSUME TypeOK, NEW l \in Loops,
         \/ Tick(l) \/ ReadHashes(l) \/ AssessRisk(l) \/ StopScan(l)
         \/ \E answer \in Answers(l) : Inspect(l, answer)
  PROVE  NoNewClaim
<1>0. ScansType /\ ScanType(scan[l])
  BY DEF TypeOK, ScansType
<1>1. ASSUME NEW s, scan' = [scan EXCEPT ![l] = s], s.pc # "wallet"
      PROVE  NoNewClaim
  BY <1>0, <1>1, OthersHold DEF NoNewClaim
<1>2. CASE Tick(l)
  <2> DEFINE s == [scan[l] EXCEPT !.pc = "hashes",
                                  !.pending = [i \in InStatus({"pending"}) |-> deposit[i]]]
  <2>1. s.pc # "wallet"
    BY <1>0 DEF ScanType
  <2>2. scan' = [scan EXCEPT ![l] = s]
    BY <1>2 DEF Tick
  <2> HIDE DEF s
  <2> QED BY <1>1, <2>1, <2>2
<1>3. CASE ReadHashes(l)
  <2> DEFINE mine == {i \in DOMAIN scan[l].pending : Watched(l, scan[l].pending[i])}
             s == IF mine = {} THEN Stopped
                  ELSE [scan[l] EXCEPT !.pc = "inspect", !.rest = mine, !.taken = CreditedHashes]
  <2>1. s.pc # "wallet"
    BY <1>0 DEF ScanType, Stopped
  <2>2. scan' = [scan EXCEPT ![l] = s]
    BY <1>3 DEF ReadHashes
  <2> HIDE DEF s
  <2> QED BY <1>1, <2>1, <2>2
<1>4. CASE AssessRisk(l)
  <2>1. PICK risky \in RiskAnswers(Snapshot(l)) :
          scan' = [scan EXCEPT ![l].pc = "progress", ![l].held = @ \/ Collides(l) \/ risky]
    BY <1>4 DEF AssessRisk
  <2> DEFINE s == [scan[l] EXCEPT !.pc = "progress", !.held = @ \/ Collides(l) \/ risky]
  <2>2. scan' = [scan EXCEPT ![l] = s]
    BY <1>0, <2>1
  <2>3. s.pc # "wallet"
    BY <1>0 DEF ScanType
  <2> HIDE DEF s
  <2> QED BY <1>1, <2>2, <2>3
<1>5. CASE StopScan(l)
  <2>1. Stopped.pc # "wallet"
    BY DEF Stopped
  <2> QED BY <1>1, <1>5, <2>1 DEF StopScan
<1>6. ASSUME NEW answer \in Answers(l), Inspect(l, answer)
      PROVE  NoNewClaim
  <2>1. ASSUME NEW tx, scan' = [scan EXCEPT ![l].pc = "risk", ![l].tx = tx, ![l].held = Overdue(l)]
        PROVE  NoNewClaim
    <3> DEFINE overdue == Overdue(l)
    <3>1. scan' = [scan EXCEPT ![l].pc = "risk", ![l].tx = tx, ![l].held = overdue]
      BY <2>1
    <3> HIDE DEF overdue
    <3> DEFINE s == [scan[l] EXCEPT !.pc = "risk", !.tx = tx, !.held = overdue]
    <3>2. scan' = [scan EXCEPT ![l] = s]
      BY <1>0, <3>1 DEF ScansType
    <3>3. s.pc # "wallet"
      BY <1>0 DEF ScanType
    <3> HIDE DEF s
    <3> QED BY <1>1, <3>2, <3>3
  <2>2. ASSUME NEW tx, scan' = [scan EXCEPT ![l].pc = "progress", ![l].tx = tx, ![l].near = TRUE]
        PROVE  NoNewClaim
    <3> DEFINE s == [scan[l] EXCEPT !.pc = "progress", !.tx = tx, !.near = TRUE]
    <3>1. scan' = [scan EXCEPT ![l] = s] /\ s.pc # "wallet"
      BY <1>0, <2>2 DEF ScanType
    <3> HIDE DEF s
    <3> QED BY <1>1, <3>1
  <2>3. Goto(l, "cancel") \/ Skip(l) => NoNewClaim
    BY GotoClaimsNothing, NextClaimsNothing DEF Skip
  <2> QED BY <1>6, <2>1, <2>2, <2>3 DEF Inspect
<1> QED BY <1>2, <1>3, <1>4, <1>5, <1>6

\* The statements that write a row without crediting it.
LEMMA RowWritesKeepCredits ==
  ASSUME TypeOK, NEW l \in Loops, CancelUnpaid(l) \/ Progress(l) \/ FlagDepositForReview(l)
  PROVE  NoNewClaim /\ CreditsStand
<1>1. Subject(l) \in Ids /\ deposit[Subject(l)] \in Deposits
  BY SubjectType, MetaType DEF At, CancelUnpaid, Progress, FlagDepositForReview
<1>2. NoNewClaim
  BY NextClaimsNothing, GotoClaimsNothing DEF Skip, CancelUnpaid, Progress, FlagDepositForReview
<1>3. UNCHANGED credits
  BY DEF CancelUnpaid, Progress, FlagDepositForReview
<1>4. CASE CancelUnpaid(l)
  <2>1. Ids' = Ids
    BY <1>4 DEF CancelUnpaid, Ids
  <2>2. \A i \in Ids : deposit[i].status = "confirmed" => deposit'[i] = deposit[i]
    BY <1>1, <1>4 DEF CancelUnpaid, InStatus, Ids
  <2> QED BY <1>2, <1>3, <2>1, <2>2 DEF CreditsStand
<1>5. CASE Progress(l)
  <2>1. Ids' = Ids
    BY <1>5 DEF Progress, ShowProgress, Ids
  <2>2. \A i \in Ids : deposit'[i].status = deposit[i].status
    BY <1>1, <1>5 DEF Progress, ShowProgress, Ids, Deposits
  <2> QED BY <1>2, <1>3, <2>1, <2>2 DEF CreditsStand
<1>6. CASE FlagDepositForReview(l)
  <2>1. Ids' = Ids
    BY <1>6 DEF FlagDepositForReview, Ids
  <2>2. \A i \in Ids : deposit[i].status = "confirmed" => deposit'[i] = deposit[i]
    BY <1>1, <1>6 DEF FlagDepositForReview, InStatus, Ids
  <2> QED BY <1>2, <1>3, <2>1, <2>2 DEF CreditsStand
<1> QED BY <1>4, <1>5, <1>6

\* The claim is taken by one loop, on a deposit that was not credited.
LEMMA ClaimStep ==
  ASSUME TypeOK, CreditInv, NEW l \in Loops, ClaimDeposit(l)
  PROVE  CreditInv'
<1>1. CASE Subject(l) \notin Creditable
  <2>1. NoNewClaim
    BY <1>1, NextClaimsNothing DEF ClaimDeposit, Skip
  <2>2. CreditsStand
    BY <1>1 DEF ClaimDeposit, CreditsStand, Ids
  <2> QED BY <2>1, <2>2, QuietStep
<1>2. CASE Subject(l) \in Creditable
  <2>1. /\ Ids' = Ids
        /\ \A i \in Ids : deposit'[i].status =
                           IF i = Subject(l) THEN "confirmed" ELSE deposit[i].status
    BY <1>2, ClaimedType DEF ClaimDeposit, At
  <2>2. UNCHANGED credits /\ Subject(l) \in Ids /\ deposit[Subject(l)].status # "confirmed"
    BY <1>2 DEF ClaimDeposit, Creditable, InStatus
  <2>3. credits[Subject(l)] = 0
    <3>1. credits[Subject(l)] \in Nat
      BY <2>2, IdsAreIndexes DEF TypeOK, RowsType
    <3> QED BY <2>2, <3>1 DEF CreditInv, CreditedOnce
  <2>4. (Subject(l))' = Subject(l)
    BY <1>2 DEF ClaimDeposit, Goto, Subject, TypeOK, ScansType, ScanType
  <2>5. \A m \in Loops \ {l} : (At(m, "wallet"))' = At(m, "wallet") /\ (Subject(m))' = Subject(m)
    BY <1>2, OthersHold DEF ClaimDeposit, Goto, TypeOK
  <2>6. \A m \in Loops : At(m, "wallet") =>
          Subject(m) \in Ids /\ deposit[Subject(m)].status = "confirmed" /\ credits[Subject(m)] = 0
    BY SubjectType DEF CreditInv, ClaimsAreHeld, At
  <2>7. \A m \in Loops \ {l} : At(m, "wallet") => Subject(m) # Subject(l)
    BY <2>2, <2>6
  <2>8. CreditedOnce'
    BY <2>1, <2>2 DEF CreditInv, CreditedOnce
  <2>9. ClaimsAreHeld'
    BY <2>1, <2>2, <2>3, <2>4, <2>5, <2>6, <2>7 DEF CreditInv, ClaimsAreHeld
  <2> QED BY <2>8, <2>9 DEF CreditInv
<1> QED BY <1>1, <1>2

\* The wallet is updated for the claim the loop holds, which it gives up.
LEMMA CreditStep ==
  ASSUME TypeOK, CreditInv, NEW l \in Loops, CreditDeposit(l)
  PROVE  CreditInv'
<1>1. NoNewClaim /\ ~(At(l, "wallet"))'
  BY NextClaimsNothing DEF CreditDeposit
<1>2. /\ Subject(l) \in Ids /\ Ids' = Ids /\ UNCHANGED deposit
      /\ deposit[Subject(l)].status = "confirmed" /\ credits[Subject(l)] = 0
  BY SubjectType DEF CreditDeposit, At, CreditInv, ClaimsAreHeld, Ids
<1>3. credits' = [credits EXCEPT ![Subject(l)] = 1] /\ DOMAIN credits = Ids
  <2>1. credits' = [credits EXCEPT ![Subject(l)] = credits[Subject(l)] + 1]
    BY DEF CreditDeposit
  <2>2. DOMAIN credits = Ids
    BY IdsAreIndexes DEF TypeOK, RowsType
  <2> QED BY <1>2, <2>1, <2>2
<1>4. CreditedOnce'
  BY <1>2, <1>3 DEF CreditInv, CreditedOnce
<1>5. ASSUME NEW m \in Loops, (At(m, "wallet"))'
      PROVE  /\ (deposit[Subject(m)].status = "confirmed" /\ credits[Subject(m)] = 0)'
             /\ At(m, "wallet") /\ (Subject(m))' = Subject(m)
  <2>1. At(m, "wallet") /\ (Subject(m))' = Subject(m) /\ m # l
    BY <1>1, <1>5 DEF NoNewClaim
  <2>2. Subject(m) # Subject(l) /\ Subject(m) \in Ids
    BY <2>1, SubjectType DEF CreditInv, ClaimsAreHeld, CreditDeposit, At
  <2> QED BY <1>2, <1>3, <2>1, <2>2 DEF CreditInv, ClaimsAreHeld
<1>6. ClaimsAreHeld'
  BY <1>5 DEF CreditInv, ClaimsAreHeld
<1> QED BY <1>4, <1>6 DEF CreditInv

\* The admin app decides a row that is in review: no loop holds a claim on it.
LEMMA DecideStep ==
  ASSUME TypeOK, CreditInv, NEW i \in Ids, DecideReview(i)
  PROVE  CreditInv'
<1>1. deposit[i].status = "review" /\ DOMAIN credits = Ids /\ UNCHANGED scan
  BY IdsAreIndexes DEF DecideReview, InStatus, TypeOK, RowsType
<1>2. credits[i] = 0
  <2>1. credits[i] \in Nat
    BY <1>1 DEF TypeOK, RowsType
  <2> QED BY <1>1, <2>1 DEF CreditInv, CreditedOnce
<1>3. Ids' = Ids /\ \A j \in Ids \ {i} : deposit'[j] = deposit[j] /\ credits'[j] = credits[j]
  BY <1>1 DEF DecideReview, Ids
<1>4. credits'[i] = 0 \/ (credits'[i] = 1 /\ deposit'[i].status = "confirmed")
  <2>1. deposit[i] \in Deposits
    BY DEF TypeOK, RowsType, Ids
  <2>2. CASE credits' = credits
    BY <1>2, <2>2
  <2>3. CASE /\ deposit' = [deposit EXCEPT ![i].status = "confirmed"]
             /\ credits' = [credits EXCEPT ![i] = @ + 1]
    <3>1. deposit'[i].status = "confirmed"
      BY <2>1, <2>3 DEF Deposits, Ids
    <3>2. credits'[i] = 1
      BY <1>1, <1>2, <2>3
    <3> QED BY <3>1, <3>2
  <2> QED BY <2>2, <2>3 DEF DecideReview
<1>5. CreditedOnce'
  BY <1>3, <1>4 DEF CreditInv, CreditedOnce
<1>6. \A m \in Loops : (At(m, "wallet"))' = At(m, "wallet") /\ (Subject(m))' = Subject(m)
  BY <1>1 DEF At, Subject
<1>7. \A m \in Loops : At(m, "wallet") => Subject(m) \in Ids \ {i}
  BY <1>1, SubjectType DEF CreditInv, ClaimsAreHeld, At
<1>8. ClaimsAreHeld'
  BY <1>3, <1>6, <1>7 DEF CreditInv, ClaimsAreHeld
<1> QED BY <1>5, <1>8 DEF CreditInv

\* What leaves the scans alone takes no claim.
LEMMA StillScansClaimNothing ==
  ASSUME UNCHANGED scan
  PROVE  NoNewClaim
BY DEF NoNewClaim, At, Subject

\* Players, the chain and time credit nothing.
LEMMA WorldKeepsCredits ==
  ASSUME TypeOK, CreditInv,
         \/ UNCHANGED <<rows, scan>>
         \/ \E u \in Users, usd \in UsdAmounts, address \in Addresses,
              simulate \in {0} \cup SimAmounts : CreateDeposit(u, usd, address, simulate)
  PROVE  CreditInv'
<1>1. NoNewClaim
  BY StillScansClaimNothing DEF CreateDeposit
<1>2. CASE UNCHANGED <<rows, scan>>
  BY <1>1, <1>2, QuietStep DEF CreditsStand, rows, Ids
<1>3. ASSUME NEW row, deposit' = Append(deposit, row), credits' = Append(credits, 0)
      PROVE  CreditInv'
  <2>1. /\ deposit \in Seq(Deposits) /\ credits \in Seq(Nat) /\ Len(credits) = Len(deposit)
        /\ Ids = 1..Len(deposit)
    BY IdsAreIndexes DEF TypeOK, RowsType
  <2>2. Ids' = 1..(Len(deposit) + 1)
    BY <1>3, <2>1 DEF Ids
  <2>3. \A i \in Ids : deposit'[i] = deposit[i] /\ credits'[i] = credits[i]
    BY <1>3, <2>1
  <2>4. \A i \in Ids' \ Ids : credits'[i] = 0
    BY <1>3, <2>1, <2>2
  <2> QED BY <1>1, <2>1, <2>2, <2>3, <2>4, QuietStep DEF CreditsStand
<1> QED BY <1>2, <1>3 DEF CreateDeposit

\* A step of a loop keeps the invariant.
LEMMA ScanKeepsCredits ==
  ASSUME TypeOK, CreditInv, NEW l \in Loops, ScanStep(l) \/ StopScan(l)
  PROVE  CreditInv'
<1>1. ASSUME NoNewClaim, UNCHANGED rows PROVE CreditInv'
  BY <1>1, QuietStep DEF CreditsStand, rows, Ids
<1>2. CASE Tick(l) \/ ReadHashes(l) \/ AssessRisk(l) \/ StopScan(l)
  BY <1>1, <1>2, ScanClaimsNothing DEF Tick, ReadHashes, AssessRisk, StopScan
<1>3. ASSUME NEW answer \in Answers(l), Inspect(l, answer) PROVE CreditInv'
  <2>1. NoNewClaim
    BY <1>3, ScanClaimsNothing
  <2> QED BY <1>1, <1>3, <2>1 DEF Inspect
<1>4. CASE CancelUnpaid(l) \/ Progress(l) \/ FlagDepositForReview(l)
  BY <1>4, RowWritesKeepCredits, QuietStep
<1>5. CASE SelectDeposit(l)
  <2>1. NoNewClaim
    BY <1>5, GotoClaimsNothing, NextClaimsNothing DEF SelectDeposit, Skip
  <2> QED BY <1>1, <1>5, <2>1 DEF SelectDeposit
<1> QED BY <1>2, <1>3, <1>4, <1>5, ClaimStep, CreditStep DEF ScanStep

\* Claims are held and deposits credited once at every step.
LEMMA CreditsHold == Spec => []CreditInv
<1>1. Init => CreditInv
  BY DEF Init, CreditInv, CreditedOnce, ClaimsAreHeld, Ids, At, Stopped
<1>2. TypeOK /\ CreditInv /\ [Next]_vars => CreditInv'
  <2> SUFFICES ASSUME TypeOK, CreditInv, [Next]_vars PROVE CreditInv'
    OBVIOUS
  <2>1. ASSUME NEW l \in Loops, ScanStep(l) \/ StopScan(l) PROVE CreditInv'
    BY <2>1, ScanKeepsCredits
  <2>2. CASE \E i \in Ids : QuoteExpires(i) \/ SimulatedConfirmation(i)
    BY <2>2, WorldKeepsCredits DEF QuoteExpires, SimulatedConfirmation
  <2>3. CASE \/ \E address \in Addresses, amount \in PaidAmounts : Pay(address, amount)
             \/ \E k \in DOMAIN payment : Confirm(k)
    BY <2>3, WorldKeepsCredits DEF Pay, Confirm
  <2>4. CASE UNCHANGED vars
    BY <2>4, WorldKeepsCredits DEF vars
  <2> QED BY <2>1, <2>2, <2>3, <2>4, WorldKeepsCredits, DecideStep DEF Next
<1> QED BY <1>1, <1>2, TypeCorrect, PTL DEF Spec

\* Whatever scans overlap, stop or race the admin app, no deposit is credited twice.
THEOREM DepositsCreditedOnce == Spec => []CreditedOnce
<1>1. CreditInv => CreditedOnce
  BY DEF CreditInv
<1> QED BY <1>1, CreditsHold, PTL

---------------------------------------------------------------------------
(* Quotes are unique *)

\* No step reopens a deposit, and what was quoted stays.
QuotesStand ==
  /\ Ids \subseteq Ids'
  /\ \A i \in Ids : /\ deposit'[i].status = "pending" => deposit[i].status = "pending"
                    /\ deposit'[i].amount = deposit[i].amount
                    /\ deposit'[i].address = deposit[i].address

\* Without a new deposit, a step that lets the quotes stand keeps them unique.
LEMMA StandingQuotesAreUnique ==
  ASSUME QuotesAreUnique, QuotesStand, Ids' = Ids
  PROVE  QuotesAreUnique'
BY DEF QuotesAreUnique, QuotesStand, InStatus

\* The statements of a scan let the quotes stand.
LEMMA ScanLetsQuotesStand ==
  ASSUME TypeOK, NEW l \in Loops, ScanStep(l) \/ StopScan(l)
  PROVE  QuotesStand /\ Ids' = Ids
<1>1. CASE UNCHANGED deposit
  BY <1>1 DEF QuotesStand, Ids
<1>2. CASE ClaimDeposit(l) /\ Subject(l) \in Creditable
  <2>1. Subject(l) \in Ids /\ deposit[Subject(l)] \in Deposits /\ deposit' = Claimed(l)
    BY <1>2, SubjectType, MetaType DEF ClaimDeposit, At
  <2> QED BY <2>1 DEF Claimed, QuotesStand, Ids, Deposits
<1>3. CASE CancelUnpaid(l) \/ Progress(l) \/ FlagDepositForReview(l)
  <2>1. Subject(l) \in Ids /\ deposit[Subject(l)] \in Deposits
    BY <1>3, SubjectType, MetaType DEF At, CancelUnpaid, Progress, FlagDepositForReview
  <2>2. CASE CancelUnpaid(l)
    BY <2>1, <2>2 DEF CancelUnpaid, QuotesStand, Ids, Deposits
  <2>3. CASE Progress(l)
    BY <2>1, <2>3 DEF Progress, ShowProgress, QuotesStand, Ids, Deposits
  <2>4. CASE FlagDepositForReview(l)
    BY <2>1, <2>4 DEF FlagDepositForReview, QuotesStand, Ids, Deposits
  <2> QED BY <1>3, <2>2, <2>3, <2>4
<1>4. CASE ClaimDeposit(l) /\ Subject(l) \notin Creditable
  BY <1>1, <1>4 DEF ClaimDeposit
<1>5. CASE \/ Tick(l) \/ ReadHashes(l) \/ AssessRisk(l) \/ StopScan(l)
           \/ SelectDeposit(l) \/ CreditDeposit(l)
           \/ \E answer \in Answers(l) : Inspect(l, answer)
  BY <1>1, <1>5 DEF Tick, ReadHashes, AssessRisk, StopScan, SelectDeposit, CreditDeposit,
                    Inspect, rows
<1> QED BY <1>2, <1>3, <1>4, <1>5 DEF ScanStep

\* A new deposit is quoted an amount no pending one of its address has.
LEMMA NewQuoteIsUnique ==
  ASSUME TypeOK, QuotesAreUnique, NEW u \in Users, NEW usd \in UsdAmounts,
         NEW address \in Addresses, NEW simulate \in {0} \cup SimAmounts,
         CreateDeposit(u, usd, address, simulate)
  PROVE  QuotesAreUnique'
<1> DEFINE used == {deposit[i].amount : i \in {j \in InStatus({"pending"}) :
                                                deposit[j].address = address}}
           quote == QuoteCryptoAmount(usd, used)
           row == [user |-> u, usd |-> usd, amount |-> quote, address |-> address,
                   simulate |-> simulate, status |-> "pending", meta |-> NoMeta]
           new == Len(deposit) + 1
<1>1. quote \notin used
  BY QuoteIsNew
<1>2. deposit' = Append(deposit, row)
  BY DEF CreateDeposit
<1>3. row.amount = quote /\ row.address = address
  OBVIOUS
<1>4. deposit \in Seq(Deposits) /\ Ids = 1..Len(deposit)
  BY IdsAreIndexes DEF TypeOK, RowsType
<1>5. \A i \in InStatus({"pending"}) : deposit[i].address = address => deposit[i].amount # quote
  BY <1>1
<1> HIDE DEF used, quote, row
<1>6. Ids' = Ids \cup {new} /\ new \notin Ids /\ deposit'[new] = row
  BY <1>2, <1>4 DEF Ids
<1>7. \A i \in Ids : deposit'[i] = deposit[i]
  BY <1>2, <1>4
<1>8. \A i \in InStatus({"pending"})' : i = new \/ (i \in InStatus({"pending"}) /\ i # new)
  BY <1>6, <1>7 DEF InStatus
<1>9. SUFFICES ASSUME NEW i \in InStatus({"pending"})', NEW j \in InStatus({"pending"})',
                      (deposit[i].address = deposit[j].address
                         /\ deposit[i].amount = deposit[j].amount)'
               PROVE  i = j
  BY DEF QuotesAreUnique
<1>10. CASE i = new /\ j # new
  <2>1. j \in InStatus({"pending"}) /\ deposit'[j] = deposit[j]
    BY <1>7, <1>8, <1>10 DEF InStatus
  <2> QED BY <1>3, <1>5, <1>6, <1>9, <1>10, <2>1
<1>11. CASE i # new /\ j = new
  <2>1. i \in InStatus({"pending"}) /\ deposit'[i] = deposit[i]
    BY <1>7, <1>8, <1>11 DEF InStatus
  <2> QED BY <1>3, <1>5, <1>6, <1>9, <1>11, <2>1
<1>12. CASE i # new /\ j # new
  <2>1. i \in InStatus({"pending"}) /\ j \in InStatus({"pending"})
    BY <1>8, <1>12
  <2>2. deposit'[i] = deposit[i] /\ deposit'[j] = deposit[j]
    BY <1>7, <2>1 DEF InStatus
  <2> QED BY <1>9, <2>1, <2>2 DEF QuotesAreUnique
<1> QED BY <1>10, <1>11, <1>12

\* Two pending deposits of one address are never quoted the same amount.
THEOREM PendingQuotesAreUnique == Spec => []QuotesAreUnique
<1>1. Init => QuotesAreUnique
  BY DEF Init, QuotesAreUnique, InStatus, Ids
<1>2. TypeOK /\ QuotesAreUnique /\ [Next]_vars => QuotesAreUnique'
  <2> SUFFICES ASSUME TypeOK, QuotesAreUnique, [Next]_vars PROVE QuotesAreUnique'
    OBVIOUS
  <2>1. ASSUME NEW l \in Loops, ScanStep(l) \/ StopScan(l) PROVE QuotesAreUnique'
    BY <2>1, ScanLetsQuotesStand, StandingQuotesAreUnique
  <2>2. CASE UNCHANGED deposit
    BY <2>2, StandingQuotesAreUnique DEF QuotesStand, Ids
  <2>3. CASE \/ \E i \in Ids : QuoteExpires(i) \/ SimulatedConfirmation(i)
             \/ \E address \in Addresses, amount \in PaidAmounts : Pay(address, amount)
             \/ \E k \in DOMAIN payment : Confirm(k)
             \/ UNCHANGED vars
    BY <2>2, <2>3 DEF QuoteExpires, SimulatedConfirmation, Pay, Confirm, vars, rows
  <2>4. ASSUME NEW i \in Ids, DecideReview(i) PROVE QuotesAreUnique'
    <3>1. deposit[i] \in Deposits
      BY DEF TypeOK, RowsType, Ids
    <3>2. QuotesStand /\ Ids' = Ids
      BY <2>4, <3>1 DEF DecideReview, QuotesStand, InStatus, Ids, Deposits
    <3> QED BY <3>2, StandingQuotesAreUnique
  <2> QED BY <2>1, <2>3, <2>4, NewQuoteIsUnique DEF Next
<1> QED BY <1>1, <1>2, TypeCorrect, PTL DEF Spec

\* "Gap between unique quotes: wide enough that match windows never overlap" (coins.ts:65)
\* is not so: of three deposits of one amount to one address, with the tolerances of BTC,
\* ETH and LTC (15 %) or SOL (8 %), some amount is inside the windows of the second and the
\* third.  The step is 2.2 windows of the base, and windows grow with their quotes.
THEOREM MatchWindowsOverlap ==
  ASSUME Tolerance \in {8, 15}, NEW base \in Nat, base >= 100, 100 * Floor <= base * Tolerance,
         NEW second, second = QuoteCryptoAmount(base, {base}),
         NEW third, third = QuoteCryptoAmount(base, {base, second})
  PROVE  second # third /\ \E received \in Nat : InWindow(second, received) /\ InWindow(third, received)
<1> DEFINE w == base * Tolerance
           s == UniquenessStepFor(base)
<1>1. w \in Nat /\ MatchWindowFor(base) = w
  BY QuotesAssumption, SMT DEF MatchWindowFor, Larger
<1>2. s = (22 * w + 500) \div 1000
  BY <1>1 DEF UniquenessStepFor
<1>3. s \in Nat /\ 1000 * s <= 22 * w + 500 /\ 22 * w + 500 < 1000 * s + 1000
  <2> HIDE DEF w
  <2> QED BY <1>1, <1>2, SMT
<1>4. (Tolerance = 8 /\ w = 8 * base) \/ (Tolerance = 15 /\ w = 15 * base)
  BY SMT
<1> HIDE DEF w, s
<1>5. s \in Nat \ {0} /\ s <= base
  BY <1>3, <1>4, SMT
<1>6. second = base + s /\ third = base + 2 * s
  BY <1>5, QuotesInARow DEF QuoteCryptoAmount, s
<1>7. ASSUME NEW e \in Nat, e >= base
      PROVE  MatchWindowFor(e) >= e * Tolerance
  BY <1>7, QuotesAssumption, SMT DEF MatchWindowFor, Larger
<1> DEFINE r == (third * (100 - Tolerance)) \div 100 + 1
<1>8. second \in Nat /\ third \in Nat /\ second >= base /\ third >= base /\ second # third
  BY <1>5, <1>6, SMT
<1>9. r \in Nat /\ third * (100 - Tolerance) <= 100 * r /\ 100 * r <= third * (100 - Tolerance) + 100
  BY <1>4, <1>8, SMT
<1> HIDE DEF r
<1>10. second <= r /\ r <= third
  BY <1>3, <1>4, <1>5, <1>6, <1>9, SMT
<1>11. 100 * (third - r) <= third * Tolerance
  BY <1>4, <1>8, <1>9, SMT
<1>12. 100 * (r - second) <= second * Tolerance
  BY <1>3, <1>4, <1>5, <1>6, <1>9, SMT
<1>13. InWindow(second, r)
  <2>1. MatchWindowFor(second) >= second * Tolerance
    BY <1>7, <1>8
  <2>2. Distance(second, r) = r - second
    BY <1>8, <1>9, <1>10, SMT DEF Distance
  <2>3. MatchWindowFor(second) \in Int /\ second * Tolerance \in Int
    BY <1>4, <1>8, QuotesAssumption, SMT DEF MatchWindowFor, Larger
  <2> QED BY <1>8, <1>9, <1>12, <2>1, <2>2, <2>3 DEF InWindow
<1>14. InWindow(third, r)
  <2>1. MatchWindowFor(third) >= third * Tolerance
    BY <1>7, <1>8
  <2>2. Distance(third, r) = third - r
    BY <1>8, <1>9, <1>10, SMT DEF Distance
  <2>3. MatchWindowFor(third) \in Int /\ third * Tolerance \in Int
    BY <1>4, <1>8, QuotesAssumption, SMT DEF MatchWindowFor, Larger
  <2> QED BY <1>8, <1>9, <1>11, <2>1, <2>2, <2>3 DEF InWindow
<1> QED BY <1>8, <1>9, <1>13, <1>14

---------------------------------------------------------------------------
(* A payment credits one deposit, and what is decided is left alone *)

ChainLoop(l) == l[2] # "simulate"

\* One worker runs: the chain timer and the simulate timer are one loop each.
OneTimerPerMode == \A l, m \in Loops : (ChainLoop(l) <=> ChainLoop(m)) => l = m

\* The deposits a scan still goes through.
ToDo(l) ==
  IF At(l, "hashes") THEN {i \in DOMAIN scan[l].pending : Watched(l, scan[l].pending[i])}
  ELSE scan[l].rest

\* Deposit i is the one a loop has claimed.
Holds(l, i) == At(l, "wallet") /\ i = Subject(l)

ChainHashes == {"chain"} \X (Nat \ {0})

\* A chain deposit is paid on chain, a simulated one by itself.
OwnHash(i, row, hash) == IF row.simulate = 0 THEN hash \in ChainHashes ELSE hash = <<"sim", i>>

\* What the watcher credited is confirmed and says with which payment.
CreditsAreMarked ==
  \A i \in Ids : deposit[i].meta.by = "watcher" =>
    deposit[i].status = "confirmed" /\ OwnHash(i, deposit[i], deposit[i].meta.hash)

\* Nobody but the loop itself decides what it goes through.
ToDoIsPending(l) ==
  \A i \in ToDo(l) :
    /\ Watched(l, deposit[i])
    /\ scan[l].pending[i].simulate = deposit[i].simulate
    /\ scan[l].pending[i].meta.by = "nobody"
    /\ deposit[i].status = "pending" \/ Holds(l, i)

Found == {"risk", "progress", "flag", "credit", "claim", "wallet"}

\* A payment a chain loop works on is none of those taken until it has claimed a deposit with it.
FoundIsFresh(l) ==
  scan[l].pc \in Found =>
    /\ OwnHash(Subject(l), deposit[Subject(l)], scan[l].tx.hash)
    /\ ChainLoop(l) /\ ~At(l, "wallet") => scan[l].tx.hash \notin scan[l].taken
    /\ At(l, "wallet") => deposit[Subject(l)].meta.hash = scan[l].tx.hash

\* The chain loop knows what was credited on chain, but for the claim it holds.
TakenIsKnown(l) ==
  ChainLoop(l) /\ ~At(l, "idle") /\ ~At(l, "hashes") =>
    \A i \in Ids : deposit[i].meta.by = "watcher" /\ deposit[i].simulate = 0 =>
      deposit[i].meta.hash \in scan[l].taken \/ Holds(l, i)

LoopInv(l) == ToDoIsPending(l) /\ FoundIsFresh(l) /\ TakenIsKnown(l)
WatchInv == CreditsAreMarked /\ PaymentCreditedOnce /\ \A l \in Loops : LoopInv(l)

\* The hashes of the two modes differ, and from no hash.
LEMMA ModesDiffer == NoHash \notin ChainHashes /\ \A i : <<"sim", i>> \notin ChainHashes
BY DEF NoHash, ChainHashes

\* What a scan goes through is in the table.
LEMMA ToDoType ==
  ASSUME TypeOK, NEW l \in Loops
  PROVE  /\ ToDo(l) \subseteq DOMAIN scan[l].pending /\ ToDo(l) \subseteq Ids
         /\ \A i \in ToDo(l) : deposit[i] \in Deposits /\ scan[l].pending[i] \in Deposits
<1>1. ScanType(scan[l])
  BY DEF TypeOK, ScansType
<1>2. ToDo(l) \subseteq DOMAIN scan[l].pending /\ DOMAIN scan[l].pending \subseteq Ids
  BY <1>1 DEF ToDo, ScanType
<1>3. \A i \in Ids : deposit[i] \in Deposits
  BY DEF TypeOK, RowsType, Ids
<1> QED BY <1>1, <1>2, <1>3 DEF ScanType

\* What a loop knows of the deposit it works on.
LEMMA SubjectIsPending ==
  ASSUME TypeOK, WatchInv, NEW l \in Loops, scan[l].pc \notin {"idle", "hashes"}
  PROVE  /\ Subject(l) \in Ids /\ deposit[Subject(l)] \in Deposits /\ Subject(l) \in ToDo(l)
         /\ Snapshot(l) \in Deposits /\ Snapshot(l).meta.by = "nobody"
         /\ Snapshot(l).simulate = deposit[Subject(l)].simulate
         /\ Watched(l, deposit[Subject(l)])
         /\ ~At(l, "wallet") => /\ deposit[Subject(l)].status = "pending"
                                /\ deposit[Subject(l)].meta.by = "nobody"
<1>1. Subject(l) \in ToDo(l) /\ Snapshot(l) \in Deposits
  BY SubjectType DEF ToDo, At
<1>2. Subject(l) \in Ids /\ deposit[Subject(l)] \in Deposits
  BY SubjectType, MetaType
<1>3. ToDoIsPending(l)
  BY DEF WatchInv, LoopInv
<1>4. deposit[Subject(l)].meta.by \in {"nobody", "watcher"}
  BY <1>2 DEF Deposits, Metas
<1>5. ~At(l, "wallet") => deposit[Subject(l)].status = "pending"
  BY <1>1, <1>3 DEF ToDoIsPending, Holds
<1> QED BY <1>1, <1>2, <1>3, <1>4, <1>5 DEF ToDoIsPending, Snapshot, WatchInv, CreditsAreMarked

\* A write to row i at most, which keeps whose loop it is.
OnlyRow(i) ==
  /\ Ids' = Ids
  /\ \A j \in Ids : /\ deposit'[j].simulate = deposit[j].simulate
                    /\ j # i => deposit'[j] = deposit[j]

\* A write to a row of the other mode leaves a loop its knowledge.
LEMMA OtherLoopKeeps ==
  ASSUME TypeOK, WatchInv, OneTimerPerMode, NEW l \in Loops, scan[l].pc \notin {"idle", "hashes"},
         OnlyRow(Subject(l)), NEW m \in Loops \ {l}, scan'[m] = scan[m]
  PROVE  LoopInv(m)'
<1>1. Watched(l, deposit[Subject(l)]) /\ Subject(l) \in Ids
  BY SubjectIsPending
<1>2. ChainLoop(l) <=> ~ChainLoop(m)
  BY DEF OneTimerPerMode
<1>3. LoopInv(m) /\ ToDo(m) \subseteq Ids
  BY ToDoType DEF WatchInv
<1>4. Subject(l) \notin ToDo(m)
  BY <1>1, <1>2, <1>3 DEF LoopInv, ToDoIsPending, Watched, ChainLoop
<1>5. \A pc : (At(m, pc))' = At(m, pc)
  BY DEF At
<1>6. (ToDo(m))' = ToDo(m) /\ (Subject(m))' = Subject(m)
  BY <1>5 DEF ToDo, Subject, Watched
<1>7. \A i : (Holds(m, i))' = Holds(m, i)
  BY <1>5, <1>6 DEF Holds
<1>8. \A i \in ToDo(m) : deposit'[i] = deposit[i]
  BY <1>3, <1>4 DEF OnlyRow
<1>9. ToDoIsPending(m)'
  BY <1>3, <1>6, <1>7, <1>8 DEF LoopInv, ToDoIsPending, Watched
<1>10. FoundIsFresh(m)'
  <2>1. SUFFICES ASSUME scan[m].pc \in Found PROVE FoundIsFresh(m)'
    BY DEF FoundIsFresh
  <2>2. Subject(m) \in ToDo(m)
    BY <2>1, SubjectIsPending DEF Found
  <2>3. deposit'[Subject(m)] = deposit[Subject(m)]
    BY <1>8, <2>2
  <2> QED BY <1>3, <1>5, <1>6, <2>1, <2>3 DEF LoopInv, FoundIsFresh, OwnHash
<1>11. TakenIsKnown(m)'
  <2>1. SUFFICES ASSUME ChainLoop(m), ~At(m, "idle"), ~At(m, "hashes"), NEW i \in Ids,
                        (deposit[i].meta.by = "watcher" /\ deposit[i].simulate = 0)'
                 PROVE  deposit'[i].meta.hash \in scan[m].taken \/ Holds(m, i)
    BY <1>5, <1>7 DEF TakenIsKnown, OnlyRow
  <2>2. i # Subject(l)
    BY <1>1, <1>2, <2>1 DEF Watched, ChainLoop, OnlyRow
  <2> QED BY <1>3, <2>1, <2>2 DEF LoopInv, TakenIsKnown, OnlyRow
<1> QED BY <1>9, <1>10, <1>11 DEF LoopInv

\* Where no row changes, a loop that stands still knows what it knew.
LEMMA StillLoopKeeps ==
  ASSUME WatchInv, UNCHANGED deposit, NEW m \in Loops, scan'[m] = scan[m]
  PROVE  LoopInv(m)'
<1>1. \A pc : (At(m, pc))' = At(m, pc)
  BY DEF At
<1>2. (ToDo(m))' = ToDo(m) /\ (Subject(m))' = Subject(m)
  BY <1>1 DEF ToDo, Subject, Watched
<1>3. \A i : (Holds(m, i))' = Holds(m, i)
  BY <1>1, <1>2 DEF Holds
<1>4. LoopInv(m)
  BY DEF WatchInv
<1> QED BY <1>1, <1>2, <1>3, <1>4
        DEF LoopInv, ToDoIsPending, FoundIsFresh, TakenIsKnown, OwnHash, Watched, Ids

\* A scan that has ended goes through nothing.
LEMMA StoppedLoop ==
  ASSUME NEW l \in Loops, scan'[l] = Stopped
  PROVE  LoopInv(l)'
BY DEF LoopInv, ToDoIsPending, FoundIsFresh, TakenIsKnown, ToDo, At, Stopped, Found

\* Going on to the next deposit with every hash known.
LEMMA NextDepositKeeps ==
  ASSUME TypeOK, WatchInv, NEW l \in Loops, scan[l].pc \notin {"idle", "hashes"},
         OnlyRow(Subject(l)), NEW taken, NextDeposit(l, taken),
         ChainLoop(l) => \A i \in Ids : (deposit[i].meta.by = "watcher" /\ deposit[i].simulate = 0)'
                                          => deposit'[i].meta.hash \in taken
  PROVE  LoopInv(l)'
<1> DEFINE rest == scan[l].rest \ {Subject(l)}
           s == [Stopped EXCEPT !.pc = "inspect", !.pending = scan[l].pending,
                                !.rest = rest, !.taken = taken]
<1>1. scan = [m \in Loops |-> scan[m]]
  BY DEF TypeOK, ScansType
<1>2. scan'[l] = IF rest = {} THEN Stopped ELSE s
  BY <1>1 DEF NextDeposit
<1>3. CASE rest = {}
  BY <1>2, <1>3, StoppedLoop
<1>4. CASE rest # {}
  <2>1. s.pc = "inspect" /\ s.pending = scan[l].pending /\ s.rest = rest /\ s.taken = taken
    BY DEF Stopped
  <2>2. scan'[l] = s
    BY <1>2, <1>4
  <2>3. ToDo(l) = scan[l].rest /\ ToDo(l) \subseteq Ids
    BY ToDoType DEF ToDo, At
  <2> HIDE DEF rest, s
  <2>4. (ToDo(l))' = rest /\ ~(At(l, "wallet"))' /\ scan'[l].pc = "inspect"
    BY <2>1, <2>2 DEF ToDo, At
  <2>5. rest \subseteq ToDo(l) \ {Subject(l)}
    BY <2>3 DEF rest
  <2>6. ToDoIsPending(l)'
    <3>1. SUFFICES ASSUME NEW i \in rest
                   PROVE  /\ Watched(l, deposit'[i])
                          /\ scan'[l].pending[i].simulate = deposit'[i].simulate
                          /\ scan'[l].pending[i].meta.by = "nobody"
                          /\ deposit'[i].status = "pending"
      BY <2>4 DEF ToDoIsPending, Watched
    <3>2. deposit'[i] = deposit[i] /\ i \in ToDo(l) /\ i # Subject(l)
      BY <2>3, <2>5 DEF OnlyRow
    <3> QED BY <2>1, <2>2, <3>2 DEF WatchInv, LoopInv, ToDoIsPending, Holds
  <2>7. FoundIsFresh(l)'
    BY <2>4 DEF FoundIsFresh, Found
  <2>8. TakenIsKnown(l)'
    BY <2>1, <2>2 DEF TakenIsKnown, OnlyRow
  <2> QED BY <2>6, <2>7, <2>8 DEF LoopInv
<1> QED BY <1>3, <1>4

\* Another statement of the same deposit, which is still pending after it.
StaysWith(l, pc, tx) ==
  /\ scan'[l].pc = pc /\ scan'[l].tx = tx
  /\ scan'[l].pending = scan[l].pending /\ scan'[l].rest = scan[l].rest
  /\ scan'[l].taken = scan[l].taken
  /\ \A m \in Loops \ {l} : scan'[m] = scan[m]

\* Goto changes the program counter only.
LEMMA GotoStays ==
  ASSUME TypeOK, NEW l \in Loops, NEW pc, Goto(l, pc)
  PROVE  StaysWith(l, pc, scan[l].tx)
<1>1. ScanType(scan[l]) /\ scan = [m \in Loops |-> scan[m]]
  BY DEF TypeOK, ScansType
<1>2. scan'[l] = [scan[l] EXCEPT !.pc = pc] /\ \A m \in Loops \ {l} : scan'[m] = scan[m]
  BY <1>1 DEF Goto
<1> QED BY <1>1, <1>2 DEF StaysWith, ScanType

\* A loop that goes on with a payment that is fresh keeps what it knows.
LEMMA StayingKeeps ==
  ASSUME TypeOK, WatchInv, NEW l \in Loops, scan[l].pc \notin {"idle", "hashes", "wallet"},
         OnlyRow(Subject(l)), NEW pc \in ScanPcs \ {"idle", "hashes", "wallet"}, NEW tx,
         StaysWith(l, pc, tx),
         pc \in Found => /\ OwnHash(Subject(l), deposit[Subject(l)], tx.hash)
                         /\ ChainLoop(l) => tx.hash \notin scan[l].taken,
         deposit'[Subject(l)].status = "pending", deposit'[Subject(l)].meta.by = "nobody"
  PROVE  LoopInv(l)'
<1>1. /\ Subject(l) \in Ids /\ ToDo(l) = scan[l].rest /\ ToDo(l) \subseteq Ids
      /\ ~At(l, "wallet") /\ ~At(l, "hashes") /\ ~At(l, "idle")
  BY SubjectType, ToDoType DEF ToDo, At
<1>2. (Subject(l))' = Subject(l) /\ (ToDo(l))' = ToDo(l) /\ ~(At(l, "wallet"))'
  BY <1>1 DEF StaysWith, Subject, ToDo, At
<1>3. LoopInv(l)
  BY DEF WatchInv
<1>4. ToDoIsPending(l)'
  <2>1. SUFFICES ASSUME NEW i \in ToDo(l)
                 PROVE  /\ Watched(l, deposit'[i])
                        /\ scan[l].pending[i].simulate = deposit'[i].simulate
                        /\ scan[l].pending[i].meta.by = "nobody"
                        /\ deposit'[i].status = "pending"
    BY <1>2 DEF ToDoIsPending, Watched, StaysWith
  <2>2. deposit[i].status = "pending"
    BY <1>1, <1>3 DEF LoopInv, ToDoIsPending, Holds
  <2> QED BY <1>1, <1>3, <2>2 DEF LoopInv, ToDoIsPending, OnlyRow, Watched
<1>5. FoundIsFresh(l)'
  BY <1>1, <1>2 DEF FoundIsFresh, StaysWith, OwnHash, OnlyRow
<1>6. TakenIsKnown(l)'
  <2>1. SUFFICES ASSUME ChainLoop(l), NEW i \in Ids,
                        (deposit[i].meta.by = "watcher" /\ deposit[i].simulate = 0)'
                 PROVE  deposit'[i].meta.hash \in scan[l].taken
    BY DEF TakenIsKnown, StaysWith, OnlyRow
  <2>2. deposit'[i] = deposit[i]
    BY <2>1 DEF OnlyRow
  <2> QED BY <1>1, <1>3, <2>1, <2>2 DEF LoopInv, TakenIsKnown, Holds
<1> QED BY <1>4, <1>5, <1>6 DEF LoopInv

\* Rows that are not credited by a step keep their marks.
LEMMA MarksKept ==
  ASSUME TypeOK, WatchInv, NEW i \in Ids, OnlyRow(i),
         deposit'[i].meta.by = "watcher" => deposit'[i] = deposit[i]
  PROVE  CreditsAreMarked' /\ PaymentCreditedOnce'
<1>1. \A j \in Ids : deposit'[j].meta.by = "watcher" => deposit'[j] = deposit[j]
  BY DEF OnlyRow
<1>2. CreditsAreMarked'
  BY <1>1 DEF WatchInv, CreditsAreMarked, OnlyRow, OwnHash
<1>3. PaymentCreditedOnce'
  BY <1>1 DEF WatchInv, PaymentCreditedOnce, OnlyRow
<1> QED BY <1>2, <1>3

\* The UPDATEs that credit nothing go to the loop's own row, which is pending.
LEMMA UncreditedWrites ==
  ASSUME TypeOK, WatchInv, NEW l \in Loops, CancelUnpaid(l) \/ Progress(l) \/ FlagDepositForReview(l)
  PROVE  /\ OnlyRow(Subject(l)) /\ Subject(l) \in Ids
         /\ deposit[Subject(l)].status = "pending" /\ deposit'[Subject(l)].meta.by = "nobody"
         /\ Progress(l) => deposit'[Subject(l)].status = "pending"
<1>1. scan[l].pc \notin {"idle", "hashes"} /\ ~At(l, "wallet")
  BY DEF At, CancelUnpaid, Progress, FlagDepositForReview
<1>2. /\ Subject(l) \in Ids /\ deposit[Subject(l)] \in Deposits
      /\ Snapshot(l) \in Deposits /\ Snapshot(l).meta.by = "nobody"
      /\ deposit[Subject(l)].status = "pending" /\ deposit[Subject(l)].meta.by = "nobody"
  BY <1>1, SubjectIsPending
<1>3. Ids = DOMAIN deposit
  BY DEF Ids
<1>4. CASE CancelUnpaid(l)
  <2>1. Ids' = Ids /\ deposit'[Subject(l)].meta.by = "nobody"
    BY <1>2, <1>3, <1>4 DEF CancelUnpaid, InStatus, Ids, Deposits
  <2>2. \A j \in Ids : /\ deposit'[j].simulate = deposit[j].simulate
                       /\ j # Subject(l) => deposit'[j] = deposit[j]
    BY <1>2, <1>3, <1>4 DEF CancelUnpaid, Deposits
  <2>3. ~Progress(l)
    BY <1>4 DEF CancelUnpaid, Progress, At
  <2> QED BY <1>2, <2>1, <2>2, <2>3 DEF OnlyRow
<1>5. CASE Progress(l)
  <2> DEFINE meta == [Snapshot(l).meta EXCEPT
                       !.hash = scan[l].tx.hash, !.conf = scan[l].tx.conf,
                       !.simConf = IF Snapshot(l).simulate # 0 THEN scan[l].tx.conf ELSE @]
  <2>1. meta.by = "nobody"
    BY <1>2 DEF Deposits, Metas
  <2>2. deposit' = deposit \/ deposit' = [deposit EXCEPT ![Subject(l)].meta = meta]
    BY <1>5 DEF Progress, ShowProgress
  <2> HIDE DEF meta
  <2>3. Ids' = Ids /\ deposit'[Subject(l)].meta.by = "nobody" /\ deposit'[Subject(l)].status = "pending"
    BY <1>2, <1>3, <2>1, <2>2 DEF Ids, Deposits
  <2>4. \A j \in Ids : /\ deposit'[j].simulate = deposit[j].simulate
                       /\ j # Subject(l) => deposit'[j] = deposit[j]
    BY <1>2, <1>3, <2>2 DEF Deposits
  <2> QED BY <1>2, <2>3, <2>4 DEF OnlyRow
<1>6. CASE FlagDepositForReview(l)
  <2>1. Ids' = Ids /\ deposit'[Subject(l)].meta.by = "nobody"
    BY <1>2, <1>3, <1>6 DEF FlagDepositForReview, InStatus, Ids, Deposits, Metas
  <2>2. \A j \in Ids : /\ deposit'[j].simulate = deposit[j].simulate
                       /\ j # Subject(l) => deposit'[j] = deposit[j]
    BY <1>2, <1>3, <1>6 DEF FlagDepositForReview, Deposits
  <2>3. ~Progress(l)
    BY <1>6 DEF FlagDepositForReview, Progress, At
  <2> QED BY <1>2, <2>1, <2>2, <2>3 DEF OnlyRow
<1> QED BY <1>4, <1>5, <1>6

\* A lookup shows payments of the deposit's own kind.
LEMMA AnswerIsOwn ==
  ASSUME TypeOK, WatchInv, NEW l \in Loops, At(l, "inspect"), NEW answer \in Answers(l),
         NEW kind, NEW tx \in Fresh(l, kind, answer.txs)
  PROVE  OwnHash(Subject(l), deposit[Subject(l)], tx.hash) /\ tx.hash \notin scan[l].taken
<1>1. Watched(l, deposit[Subject(l)])
  BY SubjectIsPending DEF At
<1>2. tx \in answer.txs /\ tx.hash \notin scan[l].taken
  BY DEF Fresh
<1>3. CASE l[2] = "simulate"
  <2>1. answer = SimulatedIncoming(Subject(l), Snapshot(l))
    BY <1>3 DEF Answers
  <2>2. tx.hash = <<"sim", Subject(l)>>
    BY <1>2, <2>1 DEF SimulatedIncoming
  <2> QED BY <1>1, <1>2, <1>3, <2>2 DEF Watched, OwnHash
<1>4. CASE l[2] # "simulate"
  <2>1. answer \in ChainAnswers(Snapshot(l))
    BY <1>4 DEF Answers
  <2>2. PICK k \in DOMAIN payment : tx.hash = <<"chain", k>>
    BY <1>2, <2>1 DEF ChainAnswers, Unreachable
  <2>3. k \in Nat \ {0}
    BY DEF TypeOK, WorldType
  <2> QED BY <1>1, <1>2, <1>4, <2>2, <2>3 DEF Watched, OwnHash, ChainHashes
<1> QED BY <1>3, <1>4

\* Skipping a deposit without a write.
LEMMA SkipKeeps ==
  ASSUME TypeOK, WatchInv, NEW l \in Loops, scan[l].pc \notin {"idle", "hashes", "wallet"},
         OnlyRow(Subject(l)), deposit'[Subject(l)].meta.by = "nobody", Skip(l)
  PROVE  LoopInv(l)'
<1>1. TakenIsKnown(l) /\ ~At(l, "idle") /\ ~At(l, "hashes") /\ ~At(l, "wallet")
  BY DEF WatchInv, LoopInv, At
<1>2. ASSUME ChainLoop(l), NEW i \in Ids,
             (deposit[i].meta.by = "watcher" /\ deposit[i].simulate = 0)'
      PROVE  deposit'[i].meta.hash \in scan[l].taken
  <2>1. deposit'[i] = deposit[i]
    BY <1>2 DEF OnlyRow
  <2> QED BY <1>1, <1>2, <2>1 DEF TakenIsKnown, Holds
<1> QED BY <1>2, NextDepositKeeps DEF Skip

\* A scan's statement that writes no row, and what it makes of the loop's own knowledge.
LEMMA ReadsKeepWatch ==
  ASSUME TypeOK, WatchInv, NEW l \in Loops, UNCHANGED deposit,
         \A m \in Loops \ {l} : scan'[m] = scan[m], LoopInv(l)'
  PROVE  WatchInv'
<1>1. \A m \in Loops : LoopInv(m)'
  BY StillLoopKeeps
<1>2. CreditsAreMarked' /\ PaymentCreditedOnce'
  BY DEF WatchInv, CreditsAreMarked, PaymentCreditedOnce, Ids
<1> QED BY <1>1, <1>2 DEF WatchInv

\* Only the loop's own part of the scans moves.
LEMMA ScanMovesAlone ==
  ASSUME TypeOK, NEW l \in Loops, NEW s, scan' = [scan EXCEPT ![l] = s]
  PROVE  scan'[l] = s /\ \A m \in Loops \ {l} : scan'[m] = scan[m]
BY DEF TypeOK, ScansType

\* Nothing is written where no row changes.
LEMMA NoRow == ASSUME UNCHANGED deposit, NEW i PROVE OnlyRow(i)
BY DEF OnlyRow, Ids

\* tick, the hashes and a scan that stops.
LEMMA BeginKeepsWatch ==
  ASSUME TypeOK, WatchInv, NEW l \in Loops, Tick(l) \/ ReadHashes(l) \/ StopScan(l)
  PROVE  WatchInv'
<1>0. ScanType(scan[l]) /\ UNCHANGED deposit
  BY DEF TypeOK, ScansType, Tick, ReadHashes, StopScan, rows
<1>1. CASE StopScan(l)
  BY <1>0, <1>1, ScanMovesAlone, StoppedLoop, ReadsKeepWatch DEF StopScan
<1>2. CASE Tick(l)
  <2> DEFINE pending == [i \in InStatus({"pending"}) |-> deposit[i]]
             s == [scan[l] EXCEPT !.pc = "hashes", !.pending = pending]
  <2>1. s.pc = "hashes" /\ s.pending = pending
    BY <1>0 DEF ScanType
  <2>2. scan' = [scan EXCEPT ![l] = s]
    BY <1>2 DEF Tick
  <2>3. DOMAIN pending = InStatus({"pending"}) /\ \A i \in InStatus({"pending"}) : pending[i] = deposit[i]
    OBVIOUS
  <2> HIDE DEF s, pending
  <2>4. /\ scan'[l].pc = "hashes" /\ scan'[l].pending = pending
        /\ \A m \in Loops \ {l} : scan'[m] = scan[m]
    BY <2>1, <2>2, ScanMovesAlone
  <2>5. (ToDo(l))' = {i \in InStatus({"pending"}) : Watched(l, deposit[i])}
    BY <2>3, <2>4 DEF ToDo, At, Watched
  <2>6. \A i \in InStatus({"pending"}) : deposit[i].meta.by = "nobody"
    <3> TAKE i \in InStatus({"pending"})
    <3>1. deposit[i] \in Deposits /\ i \in Ids /\ deposit[i].status = "pending"
      BY DEF TypeOK, RowsType, Ids, InStatus
    <3> QED BY <3>1 DEF WatchInv, CreditsAreMarked, Deposits, Metas
  <2>7. ToDoIsPending(l)'
    BY <1>0, <2>3, <2>4, <2>5, <2>6 DEF ToDoIsPending, InStatus, Watched
  <2>8. FoundIsFresh(l)' /\ TakenIsKnown(l)'
    BY <2>4 DEF FoundIsFresh, TakenIsKnown, Found, At
  <2> QED BY <1>0, <2>4, <2>7, <2>8, ReadsKeepWatch DEF LoopInv
<1>3. CASE ReadHashes(l)
  <2> DEFINE mine == {i \in DOMAIN scan[l].pending : Watched(l, scan[l].pending[i])}
             s == [scan[l] EXCEPT !.pc = "inspect", !.rest = mine, !.taken = CreditedHashes]
  <2>1. s.pc = "inspect" /\ s.pending = scan[l].pending /\ s.rest = mine /\ s.taken = CreditedHashes
    BY <1>0 DEF ScanType
  <2>2. scan' = [scan EXCEPT ![l] = IF mine = {} THEN Stopped ELSE s]
    BY <1>3 DEF ReadHashes
  <2>3. ToDo(l) = mine /\ ~At(l, "wallet")
    BY <1>3 DEF ReadHashes, ToDo, At
  <2> HIDE DEF s, mine
  <2>4. CASE mine = {}
    BY <1>0, <2>2, <2>4, ScanMovesAlone, StoppedLoop, ReadsKeepWatch
  <2>5. CASE mine # {}
    <3>1. /\ scan'[l].pc = "inspect" /\ scan'[l].pending = scan[l].pending /\ scan'[l].rest = mine
          /\ scan'[l].taken = CreditedHashes
          /\ \A m \in Loops \ {l} : scan'[m] = scan[m]
      BY <2>1, <2>2, <2>5, ScanMovesAlone
    <3>2. (ToDo(l))' = ToDo(l)
      BY <2>3, <3>1 DEF ToDo, At
    <3>3. ToDoIsPending(l)'
      BY <1>0, <2>3, <3>1, <3>2 DEF WatchInv, LoopInv, ToDoIsPending, Holds, Watched
    <3>4. TakenIsKnown(l)'
      <4>1. \A i \in Ids : deposit[i].meta.by = "watcher" /\ deposit[i].simulate = 0 =>
              deposit[i].meta.hash \in CreditedHashes
        BY ModesDiffer DEF WatchInv, CreditsAreMarked, OwnHash, CreditedHashes, InStatus
      <4> QED BY <1>0, <3>1, <4>1 DEF TakenIsKnown, Ids
    <3>5. FoundIsFresh(l)'
      BY <3>1 DEF FoundIsFresh, Found
    <3> QED BY <1>0, <3>1, <3>3, <3>4, <3>5, ReadsKeepWatch DEF LoopInv
  <2> QED BY <2>4, <2>5
<1> QED BY <1>1, <1>2, <1>3

\* A loop that stays with its deposit, no row written.
LEMMA StayingReads ==
  ASSUME TypeOK, WatchInv, NEW l \in Loops, scan[l].pc \notin {"idle", "hashes", "wallet"},
         UNCHANGED deposit, NEW pc \in ScanPcs \ {"idle", "hashes", "wallet"}, NEW tx,
         StaysWith(l, pc, tx),
         pc \in Found => /\ OwnHash(Subject(l), deposit[Subject(l)], tx.hash)
                         /\ ChainLoop(l) => tx.hash \notin scan[l].taken
  PROVE  WatchInv'
<1>1. deposit'[Subject(l)].status = "pending" /\ deposit'[Subject(l)].meta.by = "nobody"
  BY SubjectIsPending DEF At
<1>2. LoopInv(l)'
  BY <1>1, NoRow, StayingKeeps
<1> QED BY <1>2, ReadsKeepWatch DEF StaysWith

\* A loop that skips its deposit, no row written.
LEMMA SkippingReads ==
  ASSUME TypeOK, WatchInv, NEW l \in Loops, scan[l].pc \notin {"idle", "hashes", "wallet"},
         UNCHANGED deposit, Skip(l)
  PROVE  WatchInv'
<1>1. deposit'[Subject(l)].meta.by = "nobody"
  BY SubjectIsPending DEF At
<1>2. LoopInv(l)'
  BY <1>1, NoRow, SkipKeeps
<1>3. \A m \in Loops \ {l} : scan'[m] = scan[m]
  BY ScanMovesAlone DEF Skip, NextDeposit
<1> QED BY <1>2, <1>3, ReadsKeepWatch

\* inspect finds payments of the deposit's own kind that are not taken.
LEMMA InspectKeepsWatch ==
  ASSUME TypeOK, WatchInv, NEW l \in Loops, At(l, "inspect"), NEW answer \in Answers(l),
         Inspect(l, answer)
  PROVE  WatchInv'
<1>0. /\ ScanType(scan[l]) /\ UNCHANGED deposit /\ scan = [m \in Loops |-> scan[m]]
      /\ scan[l].pc \notin {"idle", "hashes", "wallet"}
  BY DEF TypeOK, ScansType, Inspect, rows, At
<1>1. ASSUME NEW kind, NEW tx \in Fresh(l, kind, answer.txs), NEW pc \in {"risk", "progress"},
             StaysWith(l, pc, tx)
      PROVE  WatchInv'
  <2>1. OwnHash(Subject(l), deposit[Subject(l)], tx.hash) /\ tx.hash \notin scan[l].taken
    BY AnswerIsOwn
  <2>2. pc \in ScanPcs \ {"idle", "hashes", "wallet"}
    BY DEF ScanPcs
  <2> QED BY <1>0, <1>1, <2>1, <2>2, StayingReads
<1>2. ASSUME NEW tx \in Fresh(l, "match", answer.txs), NEW held,
             scan' = [scan EXCEPT ![l].pc = "risk", ![l].tx = tx, ![l].held = held]
      PROVE  WatchInv'
  <2>1. StaysWith(l, "risk", tx)
    BY <1>0, <1>2 DEF StaysWith, ScanType
  <2> QED BY <1>1, <2>1
<1>3. ASSUME NEW tx \in Fresh(l, "review", answer.txs),
             scan' = [scan EXCEPT ![l].pc = "progress", ![l].tx = tx, ![l].near = TRUE]
      PROVE  WatchInv'
  <2>1. StaysWith(l, "progress", tx)
    BY <1>0, <1>3 DEF StaysWith, ScanType
  <2> QED BY <1>1, <2>1
<1>4. CASE Goto(l, "cancel")
  <2>1. StaysWith(l, "cancel", scan[l].tx)
    BY <1>4, GotoStays
  <2> QED BY <1>0, <2>1, StayingReads DEF ScanPcs, Found
<1>5. CASE Skip(l)
  BY <1>0, <1>5, SkippingReads
<1> QED BY <1>2, <1>3, <1>4, <1>5 DEF Inspect

\* A loop with a payment that is not taken yet.
LEMMA FoundHash ==
  ASSUME WatchInv, NEW l \in Loops, scan[l].pc \in Found \ {"wallet"}
  PROVE  /\ OwnHash(Subject(l), deposit[Subject(l)], scan[l].tx.hash)
         /\ ChainLoop(l) => scan[l].tx.hash \notin scan[l].taken
BY DEF WatchInv, LoopInv, FoundIsFresh, At

\* The risk checks and the SELECT of creditDeposit.
LEMMA ChecksKeepWatch ==
  ASSUME TypeOK, WatchInv, NEW l \in Loops, AssessRisk(l) \/ SelectDeposit(l)
  PROVE  WatchInv'
<1>0. /\ ScanType(scan[l]) /\ UNCHANGED deposit /\ scan = [m \in Loops |-> scan[m]]
      /\ scan[l].pc \in Found \ {"wallet"} /\ scan[l].pc \notin {"idle", "hashes", "wallet"}
  BY DEF TypeOK, ScansType, AssessRisk, SelectDeposit, rows, At, Found
<1>1. ASSUME NEW pc \in {"progress", "claim"}, StaysWith(l, pc, scan[l].tx) PROVE WatchInv'
  <2>1. pc \in ScanPcs \ {"idle", "hashes", "wallet"}
    BY DEF ScanPcs
  <2> QED BY <1>0, <1>1, <2>1, FoundHash, StayingReads
<1>2. CASE AssessRisk(l)
  <2>1. PICK risky : scan' = [scan EXCEPT ![l].pc = "progress", ![l].held = @ \/ Collides(l) \/ risky]
    BY <1>2 DEF AssessRisk
  <2>2. StaysWith(l, "progress", scan[l].tx)
    BY <1>0, <2>1 DEF StaysWith, ScanType
  <2> QED BY <1>1, <2>2
<1>3. CASE SelectDeposit(l)
  <2>1. CASE Skip(l)
    BY <1>0, <2>1, SkippingReads
  <2>2. CASE Goto(l, "claim")
    BY <1>1, <2>2, GotoStays
  <2> QED BY <1>3, <2>1, <2>2 DEF SelectDeposit
<1> QED BY <1>2, <1>3

\* The UPDATEs that credit nothing.
LEMMA WritesKeepWatch ==
  ASSUME TypeOK, WatchInv, OneTimerPerMode, NEW l \in Loops,
         CancelUnpaid(l) \/ Progress(l) \/ FlagDepositForReview(l)
  PROVE  WatchInv'
<1>1. /\ OnlyRow(Subject(l)) /\ Subject(l) \in Ids
      /\ deposit'[Subject(l)].meta.by = "nobody"
      /\ Progress(l) => deposit'[Subject(l)].status = "pending"
  BY UncreditedWrites
<1>2. scan[l].pc \notin {"idle", "hashes", "wallet"}
  BY DEF At, CancelUnpaid, Progress, FlagDepositForReview
<1>3. CreditsAreMarked' /\ PaymentCreditedOnce'
  BY <1>1, MarksKept
<1>4. Skip(l) \/ (Progress(l) /\ \E pc \in {"flag", "credit"} : Goto(l, pc))
  BY DEF CancelUnpaid, Progress, FlagDepositForReview
<1>5. \A m \in Loops \ {l} : scan'[m] = scan[m]
  BY <1>4, ScanMovesAlone DEF Skip, NextDeposit, Goto
<1>6. \A m \in Loops \ {l} : LoopInv(m)'
  BY <1>1, <1>2, <1>5, OtherLoopKeeps
<1>7. LoopInv(l)'
  <2>1. CASE Skip(l)
    BY <1>1, <1>2, <2>1, SkipKeeps
  <2>2. ASSUME NEW pc \in {"flag", "credit"}, Goto(l, pc), Progress(l) PROVE LoopInv(l)'
    <3>1. scan[l].pc \in Found \ {"wallet"} /\ pc \in ScanPcs \ {"idle", "hashes", "wallet"}
      BY <2>2 DEF Progress, At, Found, ScanPcs
    <3>2. StaysWith(l, pc, scan[l].tx)
      BY <2>2, GotoStays
    <3> QED BY <1>1, <1>2, <2>2, <3>1, <3>2, FoundHash, StayingKeeps
  <2> QED BY <1>4, <2>1, <2>2
<1> QED BY <1>3, <1>6, <1>7 DEF WatchInv

\* The claim marks its row with a payment that no other row is marked with.
LEMMA ClaimKeepsWatch ==
  ASSUME TypeOK, WatchInv, OneTimerPerMode, NEW l \in Loops, ClaimDeposit(l)
  PROVE  WatchInv'
<1>0. scan[l].pc \notin {"idle", "hashes", "wallet"} /\ scan[l].pc \in Found \ {"wallet"}
  BY DEF ClaimDeposit, At, Found
<1>1. CASE Subject(l) \notin Creditable
  BY <1>0, <1>1, SkippingReads DEF ClaimDeposit
<1>2. CASE Subject(l) \in Creditable
  <2> DEFINE i == Subject(l)
  <2>1. /\ i \in Ids /\ deposit[i] \in Deposits /\ i \in ToDo(l) /\ Watched(l, deposit[i])
        /\ ToDo(l) = scan[l].rest
    BY <1>0, SubjectIsPending DEF ToDo, At
  <2>2. deposit' = Claimed(l) /\ Goto(l, "wallet") /\ Ids = DOMAIN deposit
    BY <1>2 DEF ClaimDeposit, Ids
  <2>3. /\ Ids' = Ids
        /\ deposit'[i].simulate = deposit[i].simulate /\ deposit'[i].status = "confirmed"
        /\ deposit'[i].meta.by = "watcher" /\ deposit'[i].meta.hash = scan[l].tx.hash
    BY <2>1, <2>2 DEF Claimed, Ids, Deposits, Metas
  <2>4. \A j \in Ids : j # i => deposit'[j] = deposit[j]
    BY <2>1, <2>2 DEF Claimed, Deposits
  <2>5. OnlyRow(i)
    BY <2>3, <2>4 DEF OnlyRow
  <2>6. /\ OwnHash(i, deposit[i], scan[l].tx.hash)
        /\ ChainLoop(l) => scan[l].tx.hash \notin scan[l].taken
    BY <1>0, FoundHash
  <2>7. StaysWith(l, "wallet", scan[l].tx)
    BY <2>2, GotoStays
  <2>8. (Subject(l))' = i
    BY <2>7 DEF StaysWith, Subject
  <2>9. \A j \in Ids : ChainLoop(l) /\ deposit[j].meta.by = "watcher" /\ deposit[j].simulate = 0
                         => deposit[j].meta.hash \in scan[l].taken
    BY <1>0 DEF WatchInv, LoopInv, TakenIsKnown, Holds, At
  <2> HIDE DEF i
  <2>10. CreditsAreMarked'
    BY <2>3, <2>4, <2>6 DEF WatchInv, CreditsAreMarked, OwnHash
  <2>11. \A j \in Ids \ {i} : deposit[j].meta.by = "watcher" => deposit[j].meta.hash # scan[l].tx.hash
    <3>1. SUFFICES ASSUME NEW j \in Ids \ {i}, deposit[j].meta.by = "watcher"
                   PROVE  deposit[j].meta.hash # scan[l].tx.hash
      OBVIOUS
    <3>2. OwnHash(j, deposit[j], deposit[j].meta.hash)
      BY <3>1 DEF WatchInv, CreditsAreMarked
    <3>3. CASE deposit[j].simulate = 0 /\ deposit[i].simulate = 0
      BY <2>1, <2>6, <2>9, <3>1, <3>3 DEF Watched, ChainLoop
    <3>4. CASE deposit[j].simulate # 0 /\ deposit[i].simulate # 0
      BY <2>6, <3>1, <3>2, <3>4 DEF OwnHash
    <3>5. CASE deposit[j].simulate = 0 /\ deposit[i].simulate # 0
      BY <2>6, <3>2, <3>5, ModesDiffer DEF OwnHash
    <3>6. CASE deposit[j].simulate # 0 /\ deposit[i].simulate = 0
      BY <2>6, <3>2, <3>6, ModesDiffer DEF OwnHash
    <3> QED BY <3>3, <3>4, <3>5, <3>6
  <2>12. PaymentCreditedOnce'
    BY <2>3, <2>4, <2>11 DEF WatchInv, PaymentCreditedOnce
  <2>13. \A m \in Loops \ {l} : LoopInv(m)'
    BY <1>0, <2>5, <2>7, OtherLoopKeeps DEF StaysWith, i
  <2>14. (At(l, "wallet"))' /\ (ToDo(l))' = ToDo(l) /\ \A j : (Holds(l, j))' <=> j = i
    BY <2>1, <2>7, <2>8 DEF StaysWith, At, ToDo, Holds
  <2>15. ToDoIsPending(l)'
    <3>1. SUFFICES ASSUME NEW j \in ToDo(l)
                   PROVE  /\ Watched(l, deposit'[j])
                          /\ scan[l].pending[j].simulate = deposit'[j].simulate
                          /\ scan[l].pending[j].meta.by = "nobody"
                          /\ deposit'[j].status = "pending" \/ j = i
      BY <2>7, <2>14 DEF ToDoIsPending, Watched, StaysWith
    <3>2. /\ j \in Ids /\ Watched(l, deposit[j]) /\ scan[l].pending[j].simulate = deposit[j].simulate
          /\ scan[l].pending[j].meta.by = "nobody" /\ deposit[j].status = "pending"
      BY <1>0, ToDoType DEF WatchInv, LoopInv, ToDoIsPending, Holds, At
    <3> QED BY <2>3, <2>4, <3>2 DEF Watched
  <2>16. FoundIsFresh(l)'
    BY <2>3, <2>6, <2>7, <2>8, <2>14 DEF FoundIsFresh, OwnHash, StaysWith
  <2>17. TakenIsKnown(l)'
    BY <2>3, <2>4, <2>7, <2>9, <2>14 DEF TakenIsKnown, StaysWith
  <2> QED BY <2>10, <2>12, <2>13, <2>15, <2>16, <2>17 DEF WatchInv, LoopInv
<1> QED BY <1>1, <1>2

\* Once the wallet is credited the payment counts as taken.
LEMMA CreditKeepsWatch ==
  ASSUME TypeOK, WatchInv, NEW l \in Loops, CreditDeposit(l)
  PROVE  WatchInv'
<1> DEFINE taken == scan[l].taken \cup {scan[l].tx.hash}
<1>1. scan[l].pc = "wallet" /\ UNCHANGED deposit /\ NextDeposit(l, taken)
  BY DEF CreditDeposit, At
<1>2. TakenIsKnown(l) /\ FoundIsFresh(l)
  BY DEF WatchInv, LoopInv
<1>3. deposit[Subject(l)].meta.hash = scan[l].tx.hash
  BY <1>1, <1>2 DEF FoundIsFresh, Found, At
<1>4. ChainLoop(l) => \A i \in Ids : (deposit[i].meta.by = "watcher" /\ deposit[i].simulate = 0)'
                                       => deposit'[i].meta.hash \in taken
  BY <1>1, <1>2, <1>3 DEF TakenIsKnown, Holds, At
<1>5. OnlyRow(Subject(l))
  BY <1>1, NoRow
<1>6. \A m \in Loops \ {l} : scan'[m] = scan[m]
  BY <1>1, ScanMovesAlone DEF NextDeposit
<1> HIDE DEF taken
<1>7. LoopInv(l)'
  BY <1>1, <1>4, <1>5, NextDepositKeeps
<1> QED BY <1>1, <1>6, <1>7, ReadsKeepWatch

\* What players, the chain and the admin app may do to the rows.
RowsFromOutside ==
  /\ UNCHANGED scan /\ Ids \subseteq Ids'
  /\ \A i \in Ids : /\ deposit'[i].meta = deposit[i].meta
                    /\ deposit'[i].simulate = deposit[i].simulate
                    /\ deposit[i].status # "review" => deposit'[i].status = deposit[i].status
  /\ \A i \in Ids' \ Ids : deposit'[i].meta.by = "nobody"

\* None of it is the watcher's business.
LEMMA OutsideKeepsWatch ==
  ASSUME TypeOK, WatchInv, RowsFromOutside
  PROVE  WatchInv'
<1>1. \A i \in Ids' : deposit'[i].meta.by = "watcher" =>
        i \in Ids /\ deposit[i].meta.by = "watcher" /\ deposit'[i].meta.hash = deposit[i].meta.hash
  BY DEF RowsFromOutside
<1>2. CreditsAreMarked'
  BY <1>1 DEF WatchInv, CreditsAreMarked, RowsFromOutside, OwnHash
<1>3. PaymentCreditedOnce'
  BY <1>1 DEF WatchInv, PaymentCreditedOnce
<1>4. ASSUME NEW l \in Loops PROVE LoopInv(l)'
  <2>1. \A pc : (At(l, pc))' = At(l, pc)
    BY DEF RowsFromOutside, At
  <2>2. (ToDo(l))' = ToDo(l) /\ (Subject(l))' = Subject(l)
    BY <2>1 DEF RowsFromOutside, ToDo, Subject, Watched
  <2>3. \A i : (Holds(l, i))' = Holds(l, i)
    BY <2>1, <2>2 DEF Holds
  <2>4. LoopInv(l) /\ ToDo(l) \subseteq Ids
    BY ToDoType DEF WatchInv
  <2>5. ToDoIsPending(l)'
    BY <2>2, <2>3, <2>4 DEF LoopInv, ToDoIsPending, RowsFromOutside, Watched
  <2>6. FoundIsFresh(l)'
    <3>1. scan[l].pc \in Found => Subject(l) \in Ids
      BY SubjectType DEF Found
    <3> QED BY <2>1, <2>2, <2>4, <3>1 DEF LoopInv, FoundIsFresh, RowsFromOutside, OwnHash
  <2>7. TakenIsKnown(l)'
    BY <1>1, <2>1, <2>3, <2>4 DEF LoopInv, TakenIsKnown, RowsFromOutside
  <2> QED BY <2>5, <2>6, <2>7 DEF LoopInv
<1> QED BY <1>2, <1>3, <1>4 DEF WatchInv

\* A new deposit is marked by nobody, and the admin app decides what is in review.
LEMMA OutsideSteps ==
  ASSUME TypeOK,
         \/ \E u \in Users, usd \in UsdAmounts, address \in Addresses,
              simulate \in {0} \cup SimAmounts : CreateDeposit(u, usd, address, simulate)
         \/ \E address \in Addresses, amount \in PaidAmounts : Pay(address, amount)
         \/ \E k \in DOMAIN payment : Confirm(k)
         \/ \E i \in Ids : QuoteExpires(i) \/ SimulatedConfirmation(i) \/ DecideReview(i)
         \/ UNCHANGED vars
  PROVE  RowsFromOutside
<1>1. CASE UNCHANGED <<deposit, scan>>
  BY <1>1 DEF RowsFromOutside, Ids
<1>2. ASSUME NEW u, NEW usd, NEW address, NEW simulate, CreateDeposit(u, usd, address, simulate)
      PROVE  RowsFromOutside
  <2> DEFINE used == {deposit[i].amount : i \in {j \in InStatus({"pending"}) :
                                                  deposit[j].address = address}}
             row == [user |-> u, usd |-> usd, amount |-> QuoteCryptoAmount(usd, used),
                     address |-> address, simulate |-> simulate, status |-> "pending",
                     meta |-> NoMeta]
  <2>1. deposit' = Append(deposit, row) /\ UNCHANGED scan
    BY <1>2 DEF CreateDeposit
  <2>2. row.meta.by = "nobody"
    BY DEF NoMeta
  <2> HIDE DEF row
  <2>3. deposit \in Seq(Deposits) /\ Ids = 1..Len(deposit)
    BY IdsAreIndexes DEF TypeOK, RowsType
  <2>4. Ids' = 1..(Len(deposit) + 1)
    BY <2>1, <2>3 DEF Ids
  <2>5. \A i \in Ids : deposit'[i] = deposit[i]
    BY <2>1, <2>3
  <2>6. \A i \in Ids' \ Ids : deposit'[i] = row
    BY <2>1, <2>3, <2>4
  <2> QED BY <2>1, <2>2, <2>3, <2>4, <2>5, <2>6 DEF RowsFromOutside
<1>3. ASSUME NEW i \in Ids, DecideReview(i) PROVE RowsFromOutside
  <2>1. deposit[i] \in Deposits /\ deposit[i].status = "review" /\ UNCHANGED scan
    BY <1>3 DEF TypeOK, RowsType, Ids, DecideReview, InStatus
  <2>2. PICK status \in {"confirmed", "failed"} : deposit' = [deposit EXCEPT ![i].status = status]
    BY <1>3 DEF DecideReview
  <2> QED BY <2>1, <2>2 DEF RowsFromOutside, Ids, Deposits
<1> QED BY <1>1, <1>2, <1>3
        DEF Pay, Confirm, QuoteExpires, SimulatedConfirmation, vars, rows

\* With one loop per mode every step keeps the watcher's knowledge.
LEMMA WatchStep ==
  ASSUME OneTimerPerMode, TypeOK, WatchInv, [Next]_vars
  PROVE  WatchInv'
<1>1. ASSUME NEW l \in Loops, ScanStep(l) \/ StopScan(l) PROVE WatchInv'
  BY <1>1, BeginKeepsWatch, InspectKeepsWatch, ChecksKeepWatch, WritesKeepWatch, ClaimKeepsWatch,
     CreditKeepsWatch DEF ScanStep
<1> QED BY <1>1, OutsideSteps, OutsideKeepsWatch DEF Next

\* The watcher's knowledge holds at every step.
LEMMA WatchHolds ==
  ASSUME OneTimerPerMode
  PROVE  Spec => []WatchInv
<1>1. Init => WatchInv
  <2> SUFFICES ASSUME Init PROVE WatchInv
    OBVIOUS
  <2>1. Ids = {} /\ \A l \in Loops : scan[l] = Stopped
    BY DEF Init, Ids
  <2>2. \A l \in Loops : LoopInv(l)
    BY <2>1 DEF LoopInv, ToDoIsPending, FoundIsFresh, TakenIsKnown, ToDo, At, Stopped, Found
  <2> QED BY <2>1, <2>2 DEF WatchInv, CreditsAreMarked, PaymentCreditedOnce
<1>2. TypeOK /\ WatchInv /\ [Next]_vars => WatchInv'
  BY WatchStep
<1> QED BY <1>1, <1>2, TypeCorrect, PTL DEF Spec

\* With one worker, a payment never credits two deposits, whatever windows overlap.
THEOREM PaymentsCreditOneDeposit ==
  ASSUME OneTimerPerMode
  PROVE  Spec => []PaymentCreditedOnce
<1>1. WatchInv => PaymentCreditedOnce
  BY DEF WatchInv
<1> QED BY <1>1, WatchHolds, PTL

\* With one worker, the watcher touches no deposit that is no longer pending, though it
\* writes by id what it read long ago.
THEOREM DecidedDepositsAreLeftAlone ==
  ASSUME OneTimerPerMode
  PROVE  Spec => DecidedIsLeftAlone
<1> DEFINE Left == \A i \in Ids : deposit[i].status # "pending" =>
                     /\ deposit'[i].meta = deposit[i].meta
                     /\ deposit'[i].status # deposit[i].status => deposit[i].status = "review"
<1>1. TypeOK /\ WatchInv /\ [Next]_vars => [Left]_vars
  <2> SUFFICES ASSUME TypeOK, WatchInv, Next PROVE Left
    OBVIOUS
  <2>1. CASE UNCHANGED deposit
    BY <2>1
  <2>2. ASSUME NEW l \in Loops, CancelUnpaid(l) \/ Progress(l) \/ FlagDepositForReview(l) PROVE Left
    BY <2>2, UncreditedWrites DEF OnlyRow
  <2>3. ASSUME NEW l \in Loops, ClaimDeposit(l) PROVE Left
    <3>1. Subject(l) \in Ids /\ deposit[Subject(l)] \in Deposits /\ deposit[Subject(l)].status = "pending"
      BY <2>3, SubjectIsPending DEF ClaimDeposit, At
    <3>2. CASE deposit' = Claimed(l)
      BY <3>1, <3>2 DEF Claimed, Ids
    <3> QED BY <2>1, <2>3, <3>2 DEF ClaimDeposit
  <2>4. CASE RowsFromOutside
    BY <2>4 DEF RowsFromOutside
  <2>5. ASSUME NEW l \in Loops,
               \/ Tick(l) \/ ReadHashes(l) \/ AssessRisk(l) \/ StopScan(l)
               \/ SelectDeposit(l) \/ CreditDeposit(l)
               \/ \E answer \in Answers(l) : Inspect(l, answer)
        PROVE  Left
    BY <2>1, <2>5 DEF Tick, ReadHashes, AssessRisk, StopScan, SelectDeposit, CreditDeposit,
                      Inspect, rows
  <2> HIDE DEF Left
  <2> QED BY <2>2, <2>3, <2>4, <2>5, OutsideSteps DEF Next, ScanStep
<1> QED BY <1>1, TypeCorrect, WatchHolds, PTL DEF Spec, DecidedIsLeftAlone
---------------------------------------------------------------------------
(* The deposit book: a claim is on a deposit that was not paid, which is   *)
(* what the statements that move money need.                               *)

\* A deposit's place in the book, from its row and its credits.
LEMMA StagesAre ==
  /\ DOMAIN Stages = Ids
  /\ \A i \in Ids : Stages[i] = [user |-> deposit[i].user, usd |-> deposit[i].usd, at |-> BookStage(i)]
BY DEF Stages

\* What the players asked for is not rewritten.
AsksStand(i) == deposit'[i].user = deposit[i].user /\ deposit'[i].usd = deposit[i].usd

\* Rows that keep their place leave the book alone.
LEMMA BookStands ==
  ASSUME Ids' = Ids, UNCHANGED deposited,
         \A i \in Ids : AsksStand(i) /\ (BookStage(i))' = BookStage(i)
  PROVE  UNCHANGED <<Stages, deposited>>
BY DEF Stages, AsksStand

\* A row that changes its place is one move of the book.
LEMMA BookMoves ==
  ASSUME Ids' = Ids, NEW i \in Ids, NEW at, (BookStage(i))' = at, AsksStand(i),
         \A j \in Ids \ {i} : AsksStand(j) /\ (BookStage(j))' = BookStage(j)
  PROVE  DB!Move(i, at)
<1>1. Stages' = [j \in Ids |-> [user |-> deposit[j].user, usd |-> deposit[j].usd,
                                at |-> IF j = i THEN at ELSE BookStage(j)]]
  BY DEF Stages, AsksStand
<1>2. [Stages EXCEPT ![i].at = at] = [Stages EXCEPT ![i] = [Stages[i] EXCEPT !.at = at]]
  OBVIOUS
<1>3. [Stages[i] EXCEPT !.at = at] = [user |-> deposit[i].user, usd |-> deposit[i].usd, at |-> at]
  BY StagesAre
<1>4. Stages' = [Stages EXCEPT ![i] = [Stages[i] EXCEPT !.at = at]]
  BY <1>1, <1>3 DEF Stages
<1> QED BY <1>2, <1>4 DEF DB!Move

\* The book names a row's place by its status.
LEMMA PlaceOf ==
  ASSUME NEW i \in Ids
  PROVE  /\ deposit[i].status = "pending" => DB!In(i, "open")
         /\ deposit[i].status = "review" => DB!In(i, "held")
         /\ deposit[i].status = "confirmed" /\ credits[i] = 0 => DB!In(i, "claimed")
         /\ \A at : DB!In(i, at) => i \in DOMAIN Stages
BY StagesAre DEF DB!In, BookStage

\* The book's next-state relation, one move of an existing deposit at a time.
LEMMA MoveIsNext ==
  ASSUME NEW i \in Ids,
         DB!Hold(i) \/ DB!Close(i) \/ DB!Claim(i) \/ DB!Pay(i) \/ DB!Approve(i)
  PROVE  DB!Next
BY StagesAre DEF DB!Next

\* A row that gets another status, with the credits left alone, is a move of the book.
LEMMA StatusMoves ==
  ASSUME TypeOK, NEW i \in Ids, NEW row, NEW at,
         deposit' = [deposit EXCEPT ![i] = row],
         row.user = deposit[i].user, row.usd = deposit[i].usd, UNCHANGED credits,
         at = CASE row.status = "pending" -> "open"
                [] row.status = "review" -> "held"
                [] row.status = "confirmed" -> IF credits[i] = 0 THEN "claimed" ELSE "paid"
                [] OTHER -> "closed"
  PROVE  DB!Move(i, at)
<1>1. Ids' = Ids /\ deposit'[i] = row /\ \A j \in Ids \ {i} : deposit'[j] = deposit[j]
  BY DEF Ids
<1>2. (BookStage(i))' = at /\ AsksStand(i)
  BY <1>1 DEF BookStage, AsksStand
<1>3. \A j \in Ids \ {i} : AsksStand(j) /\ (BookStage(j))' = BookStage(j)
  BY <1>1 DEF BookStage, AsksStand
<1> QED BY <1>1, <1>2, <1>3, BookMoves

\* A scan that writes no row, or only metadata, leaves the book alone.
LEMMA QuietScanKeepsBook ==
  ASSUME TypeOK, UNCHANGED <<deposited, credits>>, Ids' = Ids,
         \A i \in Ids : \/ deposit'[i] = deposit[i]
                       \/ \E meta : deposit'[i] = [deposit[i] EXCEPT !.meta = meta]
  PROVE  UNCHANGED <<Stages, deposited>>
<1>1. ASSUME NEW i \in Ids PROVE AsksStand(i) /\ (BookStage(i))' = BookStage(i)
  <2>1. deposit[i] \in Deposits
    BY DEF TypeOK, RowsType, Ids
  <2>2. AsksStand(i) /\ deposit'[i].status = deposit[i].status
    BY <2>1 DEF Deposits, AsksStand
  <2> QED BY <2>2 DEF BookStage
<1> QED BY <1>1, BookStands

---------------------------------------------------------------------------
(* The statements of a scan *)

\* Cancelling closes a pending deposit or does nothing.
LEMMA CancelKeepsBook ==
  ASSUME TypeOK, NEW l \in Loops, CancelUnpaid(l)
  PROVE  DB!Next \/ UNCHANGED <<Stages, deposited>>
<1>0. PICK i : i = Subject(l)
  OBVIOUS
<1>1. i \in Ids /\ deposit[i] \in Deposits
  BY <1>0, SubjectType, MetaType DEF CancelUnpaid, At
<1>2. CASE i \notin InStatus({"pending"})
  BY <1>0, <1>2, QuietScanKeepsBook DEF CancelUnpaid, Ids
<1>3. CASE i \in InStatus({"pending"})
  <2> DEFINE row == [deposit[i] EXCEPT !.status = "cancelled", !.meta = Snapshot(l).meta]
  <2>1. /\ deposit' = [deposit EXCEPT ![i] = row] /\ UNCHANGED <<credits, deposited>>
        /\ row.status = "cancelled" /\ row.user = deposit[i].user /\ row.usd = deposit[i].usd
    BY <1>0, <1>1, <1>3 DEF CancelUnpaid, Deposits, Ids
  <2> HIDE DEF row
  <2>2. DB!Move(i, "closed")
    BY <1>1, <2>1, StatusMoves
  <2>3. DB!Close(i)
    BY <1>1, <1>3, <2>1, <2>2, PlaceOf DEF DB!Close, InStatus
  <2> QED BY <1>1, <2>3, MoveIsNext
<1> QED BY <1>2, <1>3

\* Progress writes metadata only.
LEMMA ProgressKeepsBook ==
  ASSUME TypeOK, NEW l \in Loops, Progress(l)
  PROVE  UNCHANGED <<Stages, deposited>>
<1>1. Subject(l) \in Ids /\ UNCHANGED <<credits, deposited>>
  BY SubjectType DEF Progress, At
<1>2. Ids' = Ids /\ \A i \in Ids : \/ deposit'[i] = deposit[i]
                                   \/ \E meta : deposit'[i] = [deposit[i] EXCEPT !.meta = meta]
  <2> DEFINE new == [Snapshot(l).meta EXCEPT !.hash = scan[l].tx.hash, !.conf = scan[l].tx.conf,
                       !.simConf = IF Snapshot(l).simulate # 0 THEN scan[l].tx.conf ELSE @]
  <2>1. deposit' = deposit \/ deposit' = [deposit EXCEPT ![Subject(l)].meta = new]
    BY DEF Progress, ShowProgress
  <2> HIDE DEF new
  <2> QED BY <1>1, <2>1 DEF Ids
<1> QED BY <1>1, <1>2, QuietScanKeepsBook

\* Flagging holds a pending deposit or does nothing.
LEMMA FlagKeepsBook ==
  ASSUME TypeOK, NEW l \in Loops, FlagDepositForReview(l)
  PROVE  DB!Next \/ UNCHANGED <<Stages, deposited>>
<1>0. PICK i : i = Subject(l)
  OBVIOUS
<1>1. i \in Ids /\ deposit[i] \in Deposits
  BY <1>0, SubjectType, MetaType DEF FlagDepositForReview, At
<1>2. CASE i \notin InStatus({"pending"})
  BY <1>0, <1>2, QuietScanKeepsBook DEF FlagDepositForReview, Ids
<1>3. CASE i \in InStatus({"pending"})
  <2> DEFINE row == [deposit[i] EXCEPT !.status = "review", !.meta.hash = scan[l].tx.hash,
                                       !.meta.conf = scan[l].tx.conf]
  <2>1. /\ deposit' = [deposit EXCEPT ![i] = row] /\ UNCHANGED <<credits, deposited>>
        /\ row.status = "review" /\ row.user = deposit[i].user /\ row.usd = deposit[i].usd
    BY <1>0, <1>1, <1>3 DEF FlagDepositForReview, Deposits, Ids
  <2> HIDE DEF row
  <2>2. DB!Move(i, "held")
    BY <1>1, <2>1, StatusMoves
  <2>3. DB!Hold(i)
    BY <1>1, <1>3, <2>1, <2>2, PlaceOf DEF DB!Hold, InStatus
  <2> QED BY <1>1, <2>3, MoveIsNext
<1> QED BY <1>2, <1>3

\* The claim is on a deposit that was not paid, because only confirmed ones are.
LEMMA ClaimKeepsBook ==
  ASSUME TypeOK, CreditInv, NEW l \in Loops, ClaimDeposit(l)
  PROVE  DB!Next \/ UNCHANGED <<Stages, deposited>>
<1>0. PICK i : i = Subject(l)
  OBVIOUS
<1>1. i \in Ids /\ deposit[i] \in Deposits
  BY <1>0, SubjectType, MetaType DEF ClaimDeposit, At
<1>2. CASE i \notin Creditable
  BY <1>0, <1>2, QuietScanKeepsBook DEF ClaimDeposit, Ids
<1>3. CASE i \in Creditable
  <2> DEFINE row == [deposit[i] EXCEPT !.status = "confirmed",
                       !.meta = [@ EXCEPT !.hash = scan[l].tx.hash,
                                          !.conf = scan[l].tx.conf, !.by = "watcher"]]
  <2>1. /\ deposit' = [deposit EXCEPT ![i] = row] /\ UNCHANGED <<credits, deposited>>
        /\ row.status = "confirmed" /\ row.user = deposit[i].user /\ row.usd = deposit[i].usd
    BY <1>0, <1>1, <1>3 DEF ClaimDeposit, Claimed, Deposits, Ids
  <2> HIDE DEF row
  <2>2. deposit[i].status \in {"pending", "review"} /\ credits[i] = 0
    <3>1. credits[i] \in Nat
      BY <1>1, IdsAreIndexes DEF TypeOK, RowsType
    <3> QED BY <1>1, <1>3, <3>1 DEF Creditable, InStatus, CreditInv, CreditedOnce
  <2>3. DB!Move(i, "claimed")
    BY <1>1, <2>1, <2>2, StatusMoves
  <2>4. DB!Claim(i)
    BY <1>1, <2>1, <2>2, <2>3, PlaceOf DEF DB!Claim
  <2> QED BY <1>1, <2>4, MoveIsNext
<1> QED BY <1>2, <1>3

\* A credit that goes with the wallet's row makes a claimed or held deposit paid.
LEMMA CreditMoves ==
  ASSUME TypeOK, NEW i \in Ids, credits[i] = 0, credits' = [credits EXCEPT ![i] = 1],
         deposit'[i].status = "confirmed", AsksStand(i), Ids' = Ids,
         \A j \in Ids \ {i} : deposit'[j] = deposit[j]
  PROVE  DB!Move(i, "paid")
<1>1. DOMAIN credits = Ids
  BY IdsAreIndexes DEF TypeOK, RowsType
<1>2. (BookStage(i))' = "paid"
  BY <1>1 DEF BookStage
<1>3. \A j \in Ids \ {i} : AsksStand(j) /\ (BookStage(j))' = BookStage(j)
  BY <1>1 DEF BookStage, AsksStand
<1> QED BY <1>2, <1>3, BookMoves

\* The wallet UPDATE adds what the book says the deposit pays.
LEMMA WalletPays ==
  ASSUME NEW i \in Ids,
         deposited' = [deposited EXCEPT ![deposit[i].user] = @ + deposit[i].usd]
  PROVE  DB!Pays(i)
<1>1. Stages[i].user = deposit[i].user /\ Stages[i].usd = deposit[i].usd
  BY StagesAre
<1> QED BY <1>1 DEF DB!Pays

\* The wallet is updated for a claim that was not paid yet.
LEMMA CreditKeepsBook ==
  ASSUME TypeOK, CreditInv, NEW l \in Loops, CreditDeposit(l)
  PROVE  DB!Next
<1>0. PICK i : i = Subject(l)
  OBVIOUS
<1>1. /\ i \in Ids /\ UNCHANGED deposit
      /\ deposit[i].status = "confirmed" /\ credits[i] = 0
  BY <1>0, SubjectType DEF CreditDeposit, At, CreditInv, ClaimsAreHeld
<1>2. credits' = [credits EXCEPT ![i] = 1]
  BY <1>0, <1>1 DEF CreditDeposit
<1>3. DB!Move(i, "paid")
  BY <1>1, <1>2, CreditMoves DEF AsksStand, Ids
<1>4. DB!Pays(i)
  BY <1>0, <1>1, WalletPays DEF CreditDeposit
<1>5. DB!Pay(i)
  BY <1>1, <1>3, <1>4, PlaceOf DEF DB!Pay
<1> QED BY <1>1, <1>5, MoveIsNext

\* A scan keeps the book.
LEMMA ScanKeepsBook ==
  ASSUME TypeOK, CreditInv, NEW l \in Loops, ScanStep(l) \/ StopScan(l)
  PROVE  DB!Next \/ UNCHANGED <<Stages, deposited>>
<1>1. ASSUME UNCHANGED rows PROVE UNCHANGED <<Stages, deposited>>
  BY <1>1, QuietScanKeepsBook DEF rows, Ids
<1>2. CASE \/ Tick(l) \/ ReadHashes(l) \/ AssessRisk(l) \/ SelectDeposit(l) \/ StopScan(l)
           \/ \E answer \in Answers(l) : Inspect(l, answer)
  BY <1>1, <1>2 DEF Tick, ReadHashes, AssessRisk, SelectDeposit, StopScan, Inspect
<1> QED BY <1>2, CancelKeepsBook, ProgressKeepsBook, FlagKeepsBook, ClaimKeepsBook,
           CreditKeepsBook DEF ScanStep

---------------------------------------------------------------------------
(* What surrounds the worker *)

\* The admin app approves a held deposit, which pays it, or closes it.
LEMMA DecideKeepsBook ==
  ASSUME TypeOK, CreditInv, NEW i \in Ids, DecideReview(i)
  PROVE  DB!Next
<1>1. /\ deposit[i].status = "review" /\ deposit[i] \in Deposits /\ credits[i] \in Nat
      /\ i \in DOMAIN credits
  BY IdsAreIndexes DEF DecideReview, InStatus, TypeOK, RowsType, Ids
<1>2. credits[i] = 0
  BY <1>1 DEF CreditInv, CreditedOnce
<1>3. ASSUME NEW status, deposit' = [deposit EXCEPT ![i].status = status]
      PROVE  /\ deposit' = [deposit EXCEPT ![i] = [deposit[i] EXCEPT !.status = status]]
             /\ [deposit[i] EXCEPT !.status = status].status = status
             /\ [deposit[i] EXCEPT !.status = status].user = deposit[i].user
             /\ [deposit[i] EXCEPT !.status = status].usd = deposit[i].usd
  BY <1>1, <1>3 DEF Deposits, Ids
<1>4. CASE /\ deposit' = [deposit EXCEPT ![i].status = "confirmed"]
           /\ deposited' = [deposited EXCEPT ![deposit[i].user] = @ + deposit[i].usd]
           /\ credits' = [credits EXCEPT ![i] = @ + 1]
  <2>1. /\ Ids' = Ids /\ deposit'[i].status = "confirmed" /\ AsksStand(i)
        /\ \A j \in Ids \ {i} : deposit'[j] = deposit[j]
    BY <1>3, <1>4 DEF Ids, AsksStand
  <2>2. DB!Move(i, "paid")
    <3>1. credits' = [credits EXCEPT ![i] = 1]
      BY <1>2, <1>4
    <3> QED BY <1>2, <2>1, <3>1, CreditMoves
  <2>3. DB!Approve(i)
    BY <1>1, <1>4, <2>2, PlaceOf, WalletPays DEF DB!Approve
  <2> QED BY <2>3, MoveIsNext
<1>5. CASE deposit' = [deposit EXCEPT ![i].status = "failed"] /\ UNCHANGED <<deposited, credits>>
  <2>1. DB!Move(i, "closed")
    BY <1>3, <1>5, StatusMoves
  <2>2. DB!Close(i)
    BY <1>1, <1>5, <2>1, PlaceOf DEF DB!Close
  <2> QED BY <2>2, MoveIsNext
<1> QED BY <1>4, <1>5 DEF DecideReview

\* A request for a deposit opens an entry at the end of the book.
LEMMA CreateKeepsBook ==
  ASSUME TypeOK, NEW u \in Users, NEW usd \in UsdAmounts, NEW address, NEW simulate,
         CreateDeposit(u, usd, address, simulate)
  PROVE  DB!Next
<1> DEFINE n == Len(deposit)
           entry == [user |-> u, usd |-> usd, at |-> "open"]
<1>1. PICK row : /\ deposit' = Append(deposit, row) /\ credits' = Append(credits, 0)
                 /\ row.user = u /\ row.usd = usd /\ row.status = "pending"
  <2>1. PICK amount : /\ deposit' = Append(deposit,
                           [user |-> u, usd |-> usd, amount |-> amount, address |-> address,
                            simulate |-> simulate, status |-> "pending", meta |-> NoMeta])
                      /\ credits' = Append(credits, 0)
    BY Zenon DEF CreateDeposit
  <2> DEFINE row == [user |-> u, usd |-> usd, amount |-> amount, address |-> address,
                     simulate |-> simulate, status |-> "pending", meta |-> NoMeta]
  <2>2. row.user = u /\ row.usd = usd /\ row.status = "pending"
    OBVIOUS
  <2> HIDE DEF row
  <2> QED BY <2>1, <2>2 DEF row
<1>2. /\ n \in Nat /\ Ids = 1..n /\ Ids' = 1..(n + 1)
      /\ \A i \in Ids : deposit'[i] = deposit[i] /\ credits'[i] = credits[i]
      /\ deposit'[n + 1] = row
  BY <1>1, IdsAreIndexes DEF TypeOK, RowsType, Ids
<1>3. DOMAIN Stages = 1..n /\ Stages \in Seq(Range(Stages)) /\ Len(Stages) = n
  <2>1. DOMAIN Stages = 1..n
    BY <1>2, StagesAre
  <2>2. Stages = [i \in 1..n |-> Stages[i]]
    BY <1>2 DEF Stages
  <2> QED BY <1>2, <2>1, <2>2 DEF Range
<1>4. Append(Stages, entry) = [i \in 1..(n + 1) |-> IF i = n + 1 THEN entry ELSE Stages[i]]
  BY <1>2, <1>3
<1>5. Stages' = [i \in 1..(n + 1) |-> IF i = n + 1 THEN entry ELSE Stages[i]]
  <2>1. \A i \in 1..n : /\ i \in Ids /\ AsksStand(i) /\ (BookStage(i))' = BookStage(i)
    BY <1>2 DEF AsksStand, BookStage
  <2>2. /\ deposit'[n + 1].user = u /\ deposit'[n + 1].usd = usd
        /\ deposit'[n + 1].status = "pending"
    BY <1>1, <1>2
  <2>3. \A i \in 1..(n + 1) :
          [user |-> deposit'[i].user, usd |-> deposit'[i].usd, at |-> (BookStage(i))']
            = IF i = n + 1 THEN entry ELSE Stages[i]
    <3> TAKE i \in 1..(n + 1)
    <3>1. CASE i = n + 1
      BY <2>2, <3>1 DEF BookStage
    <3>2. CASE i \in 1..n
      BY <1>2, <2>1, <3>2, StagesAre DEF AsksStand
    <3> QED BY <1>2, <3>1, <3>2
  <2>4. Stages' = [i \in 1..(n + 1) |->
          [user |-> deposit'[i].user, usd |-> deposit'[i].usd, at |-> (BookStage(i))']]
    BY <1>2 DEF Stages
  <2> QED BY <2>3, <2>4
<1>6. DB!Ask(u, usd)
  BY <1>4, <1>5 DEF DB!Ask, CreateDeposit
<1> QED BY <1>6 DEF DB!Next

\* However scans overlap or stop, a deposit is a deposit of the book: closed or
\* confirmed for good, and paid once.
THEOREM WatcherKeepsTheDepositBook == Spec => KeepsTheDepositBook
<1>1. Init => DB!Init
  BY DEF Init, DB!Init, Stages, Ids
<1>2. TypeOK /\ CreditInv /\ [Next]_vars => DB!Next \/ UNCHANGED <<Stages, deposited>>
  <2> SUFFICES ASSUME TypeOK, CreditInv, [Next]_vars
               PROVE  DB!Next \/ UNCHANGED <<Stages, deposited>>
    OBVIOUS
  <2>1. ASSUME UNCHANGED rows PROVE UNCHANGED <<Stages, deposited>>
    BY <2>1, QuietScanKeepsBook DEF rows, Ids
  <2>2. CASE \/ \E i \in Ids : QuoteExpires(i) \/ SimulatedConfirmation(i)
             \/ \E address \in Addresses, amount \in PaidAmounts : Pay(address, amount)
             \/ \E k \in DOMAIN payment : Confirm(k)
             \/ UNCHANGED vars
    BY <2>1, <2>2 DEF QuoteExpires, SimulatedConfirmation, Pay, Confirm, vars
  <2>3. CASE \E l \in Loops : ScanStep(l) \/ StopScan(l)
    BY <2>3, ScanKeepsBook
  <2>4. CASE \E i \in Ids : DecideReview(i)
    BY <2>4, DecideKeepsBook
  <2>5. CASE \E u \in Users, usd \in UsdAmounts, address \in Addresses,
              simulate \in {0} \cup SimAmounts : CreateDeposit(u, usd, address, simulate)
    BY <2>5, CreateKeepsBook
  <2> QED BY <2>2, <2>3, <2>4, <2>5 DEF Next
<1> QED BY <1>1, <1>2, TypeCorrect, CreditsHold, PTL DEF Spec, KeepsTheDepositBook, DB!Spec, DB!book
=============================================================================
