---------------------------- MODULE SerialProofs ----------------------------
(***************************************************************************)
(* Theorems about players who send one request at a time.  PlayService     *)
(* takes no lock and opens no transaction: it reads, answers on what it    *)
(* read and writes several statements later.  What it read is still true   *)
(* then only because no other handler of the same player ran in between,   *)
(* which nothing in the engine ensures; each theorem assumes it.           *)
(***************************************************************************)
EXTENDS LedgerProofs

---------------------------------------------------------------------------
(* One handler per player *)

\* A handler in flight is its player's only one.
Alone == \A q, r \in Requests : req[q] # Idle /\ req[q].user = req[r].user => q = r

\* A handler acts for a player, an idle slot for nobody.
LEMMA ActiveIsBusy == \A h \in Active : h # Idle /\ h.user \in Users /\ h.user # Nobody
BY PlayersAssumption DEF Active, Idle

\* The statements that write rows.
Writes(r) == SessionWrites(r) \/ BetWrites(r) \/ \E g \in GridGames : RoundWrites(r, g)

\* They are a handler's, and the other handlers stay where they are.
LEMMA WritersAct ==
  ASSUME HandlerType, NEW r \in Requests, Writes(r)
  PROVE  req[r] \in Active /\ Others(r)
BY SessionWriting, BetWriting, RoundWriting DEF Writes

\* A handler works for one player from its arrival to its answer, and with serial
\* players it arrives when that player has no other.
LEMMA PlayerKept ==
  ASSUME HandlerType, [Next]_vars, NEW q \in Requests
  PROVE  \/ req'[q] = Idle
         \/ req[q] # Idle /\ req'[q].user = req[q].user
         \/ Others(q) /\ (SerialPlayers => \A p \in Requests : req[p].user # req'[q].user)
<1>1. CASE Reads(q) /\ Read(req[q], req'[q])
  BY <1>1, Reading, ActiveIsBusy DEF Read, SameRequest
<1>2. CASE Goes(q)
  <2>1. Writes(q)
    BY <1>2 DEF Goes, Writes, SessionWrites, BetWrites, RoundWrites
  <2>2. req[q] # Idle
    BY <2>1, WritersAct, ActiveIsBusy
  <2>3. req'[q].user = req[q].user
    BY <1>2 DEF Goes, GoesOn, SameCall, Inserted
  <2> QED BY <2>2, <2>3
<1>3. CASE Arrivals(q)
  BY <1>3, Arriving
<1> QED BY <1>1, <1>2, <1>3, HandlerStep

\* So no player ever has two handlers.
LEMMA AloneKept ==
  ASSUME SerialPlayers, HandlerType, HandlerType', Alone, [Next]_vars
  PROVE  Alone'
<1> SUFFICES ASSUME NEW q \in Requests, NEW r \in Requests,
                    req'[q] # Idle, req'[q].user = req'[r].user, q # r
             PROVE  FALSE
  BY DEF Alone
<1>1. req'[q] \in Active
  BY DEF HandlerType, Handlers
<1>2. req'[r] # Idle
  BY <1>1, ActiveIsBusy DEF Idle
<1>3. ASSUME NEW p \in Requests, NEW x \in Requests, p # x, Others(p),
             \A y \in Requests : req[y].user # req'[p].user
      PROVE  req'[x].user # req'[p].user
  BY <1>3 DEF Others
<1>4. CASE /\ req[q] # Idle /\ req'[q].user = req[q].user
           /\ req[r] # Idle /\ req'[r].user = req[r].user
  BY <1>4 DEF Alone
<1> QED BY <1>2, <1>3, <1>4, PlayerKept

---------------------------------------------------------------------------
(* A step touches one player's rows *)

\* What a step for player v leaves alone, and whose rows it inserts.
Touches(v) ==
  /\ \A s \in DOMAIN session : session[s].user # v => session'[s] = session[s]
  /\ \A s \in DOMAIN session' \ DOMAIN session : session'[s].user = v
  /\ \A i \in DOMAIN bet : bet[i].user # v => bet'[i] = bet[i] /\ ledger'[i] = ledger[i]
  /\ \A i \in DOMAIN bet' \ DOMAIN bet : bet'[i].user = v

\* Sessions are started, ended and bumped for the player they belong to.
LEMMA SessionsTouched ==
  ASSUME TypeOK, RefInv, NEW r \in Requests, SessionWrites(r)
  PROVE  Touches(req[r].user)
<1> USE DEF TypeOK, At
<1>1. UNCHANGED <<bet, ledger>> /\ req[r] \in Active
  BY SessionWriting
<1>2. CASE EndOpenSessions(r)
  <2>1. \A s \in DOMAIN session : session'[s] = [session[s] EXCEPT !.ended = \/ @
                                    \/ /\ session[s].user = req[r].user
                                       /\ session[s].game = req[r].game]
    BY <1>2 DEF EndOpenSessions
  <2>2. ASSUME NEW s \in DOMAIN session, session[s].user # req[r].user
        PROVE  session'[s] = session[s]
    <3>1. session[s] \in SessionRows
      BY ElementType DEF SessionType
    <3> QED BY <2>1, <2>2, <3>1 DEF SessionRows
  <2> QED BY <1>1, <1>2, <2>2, SessionRowsWritten DEF Touches
<1>3. CASE InsertSession(r)
  <2> DEFINE n == Len(session) + 1
  <2>1. /\ DOMAIN session' = DOMAIN session \cup {n}
        /\ \A t \in DOMAIN session : session'[t] = session[t]
    BY <1>3, SessionRowsWritten
  <2>2. session'[n].user = req[r].user
    <3>1. session'[n] = [user |-> req[r].user, game |-> req[r].game, ended |-> FALSE,
                         betCount |-> 0, staked |-> 0, won |-> 0]
      BY <1>3, SessionRowsWritten
    <3> HIDE DEF n
    <3> QED BY <3>1
  <2> HIDE DEF n
  <2> QED BY <1>1, <2>1, <2>2 DEF Touches
<1>4. CASE MarkEnded(r)
  <2>1. session[req[r].sid].user = req[r].user
    BY <1>4 DEF RefInv, RefersTo, MarkEnded
  <2> QED BY <1>1, <1>4, <2>1, SessionRowsWritten DEF Touches
<1> QED BY <1>2, <1>3, <1>4 DEF SessionWrites

\* A bump counts in the session of the handler's player.
LEMMA BumpTouches ==
  ASSUME TypeOK, RefInv, NEW r \in Requests, req[r].op \in Playing, req[r].pc = "bump",
         NEW staked, NEW won, BumpSession(req[r].sid, staked, won), UNCHANGED <<bet, ledger>>
  PROVE  Touches(req[r].user)
<1>1. session[req[r].sid].user = req[r].user
  BY DEF RefInv, RefersTo
<1> QED BY <1>1, BumpedRow DEF Touches, TypeOK

\* A booking is made in the ledger of a bet of the handler's player.
LEMMA BookingTouches ==
  ASSUME TypeOK, RefInv, NEW r \in Requests, req[r].op \in {"placeBet", "start", "cashOut"},
         req[r].pc = "ledger", NEW staked, NEW paid, NEW payouts,
         EntryUpdated(req[r].ref, staked, paid, payouts), UNCHANGED <<session, bet>>
  PROVE  Touches(req[r].user)
<1>1. bet[req[r].ref].user = req[r].user
  BY DEF RefInv, RefersTo, Owns, Betting, Settling
<1>2. DOMAIN ledger = DOMAIN bet
  BY LedgerDomain DEF TypeOK
<1> QED BY <1>1, <1>2 DEF Touches, EntryUpdated

\* An insert adds a row of the handler's player.
LEMMA InsertTouches ==
  ASSUME NEW r \in Requests, NewRow(r), UNCHANGED session
  PROVE  Touches(req[r].user)
BY DEF NewRow, Touches

\* A round is closed or raised by its own player.
LEMMA UpdateTouches ==
  ASSUME TypeOK, RefInv, NEW r \in Requests, req[r].op \in Settling,
         req[r].pc \notin {"session", "row"}, BetUpdated(req[r].ref), UNCHANGED <<session, ledger>>
  PROVE  Touches(req[r].user)
<1>1. bet[req[r].ref].user = req[r].user
  BY DEF RefInv, RefersTo, Owns
<1> QED BY <1>1 DEF Touches, BetUpdated

\* Every statement of a handler touches its own player's rows.
LEMMA WritesTouch ==
  ASSUME TypeOK, RefInv, NEW r \in Requests, Writes(r)
  PROVE  Touches(req[r].user)
<1> USE DEF At, Step, Playing, Betting, Settling
<1>1. UNCHANGED <<session, bet, ledger>> => Touches(req[r].user)
  BY DEF Touches
<1>2. ASSUME BetWrites(r)
      PROVE  Touches(req[r].user)
  <2>1. CASE SettleWallet(r) \/ ConsumeForcedRound(r)
    BY <1>1, <2>1 DEF SettleWallet, ConsumeForcedRound
  <2>2. CASE InsertSettledBet(r)
    BY <2>2, BetInserted, InsertTouches DEF InsertSettledBet
  <2>3. CASE InsertBetLedger(r)
    <3>1. EntryUpdated(req[r].ref, req[r].stake, req[r].payout, IF req[r].payout > 0 THEN 1 ELSE 0)
      BY <2>3, LedgerRowsWritten
    <3> QED BY <2>3, <3>1, BookingTouches DEF InsertBetLedger
  <2>4. CASE BumpSettledBet(r)
    BY <2>4, BumpTouches DEF BumpSettledBet
  <2> QED BY <1>2, <2>1, <2>2, <2>3, <2>4 DEF BetWrites
<1>3. ASSUME NEW g \in GridGames, RoundWrites(r, g)
      PROVE  Touches(req[r].user)
  <2>1. CASE HoldStake(r, g) \/ ReleaseStake(r, g) \/ CreditPayout(r, g)
    BY <1>1, <2>1 DEF HoldStake, ReleaseStake, CreditPayout
  <2>2. CASE InsertOpenRound(r, g)
    BY <2>2, BetInserted, InsertTouches DEF InsertOpenRound
  <2>3. CASE InsertStakeRow(r, g)
    <3>1. EntryUpdated(req[r].ref, req[r].stake, 0, 0)
      BY <2>3, LedgerRowsWritten
    <3> QED BY <2>3, <3>1, BookingTouches DEF InsertStakeRow
  <2>4. CASE InsertPayoutRow(r, g)
    <3>1. EntryUpdated(req[r].ref, 0, req[r].payout, 1)
      BY <2>4, LedgerRowsWritten
    <3> QED BY <2>4, <3>1, BookingTouches DEF InsertPayoutRow
  <2>5. CASE BumpStartedRound(r, g)
    BY <2>5, BumpTouches DEF BumpStartedRound
  <2>6. CASE BumpCashedOutRound(r, g)
    BY <2>6, BumpTouches DEF BumpCashedOutRound
  <2>7. CASE CloseLostRound(r, g)
    BY <2>7, BetRowsWritten, UpdateTouches DEF CloseLostRound
  <2>8. CASE RaiseMultiplier(r, g)
    BY <2>8, BetRowsWritten, UpdateTouches DEF RaiseMultiplier
  <2>9. CASE CloseCashedOutRound(r, g)
    BY <2>9, BetRowsWritten, UpdateTouches DEF CloseCashedOutRound
  <2> QED BY <1>3, <2>1, <2>2, <2>3, <2>4, <2>5, <2>6, <2>7, <2>8, <2>9 DEF RoundWrites
<1> QED BY <1>2, <1>3, SessionsTouched DEF Writes

\* A step is taken elsewhere, or by one handler that writes no row or its player's.
LEMMA WhoWrites ==
  ASSUME HandlerType, [Next]_vars
  PROVE  \/ UNCHANGED <<session, bet, ledger, req, failures>>
         \/ \E r \in Requests : /\ Others(r) /\ UNCHANGED <<wallet, session, bet, ledger>>
                                /\ Arrivals(r) \/ Reads(r) \/ Abort(r)
         \/ \E r \in Requests : Others(r) /\ req[r] \in Active /\ Writes(r)
<1>1. ASSUME NEW r \in Requests, Arrivals(r) \/ Reads(r) \/ Abort(r)
      PROVE  Others(r) /\ UNCHANGED <<wallet, session, bet, ledger>>
  BY <1>1, Arriving, Reading, FinishKeeps DEF Abort, rows
<1> QED BY <1>1, StepCases, WritersAct DEF Elsewhere, Writes

---------------------------------------------------------------------------
(* What a handler still knows of the rows it read *)

NoSession(S, u, g) == \A s \in DOMAIN S : S[s].user = u /\ S[s].game = g => S[s].ended
NoRound(B, u, g)   == \A i \in DOMAIN B : B[i].user = u /\ B[i].game = g => B[i].status # "open"
BetsIn(B, u)       == {i \in DOMAIN B : B[i].user = u}

\* What handler h relies on, read one or more statements ago: that the old sessions are
\* ended, that its session is open, that there is no other round, how many bets there
\* are, and the round as it stands.
Knows(h, S, B) ==
  /\ h.op = "startSession" /\ h.pc = "insert" => NoSession(S, h.user, h.game)
  /\ h.op \in Playing /\ h.pc # "session" => ~S[h.sid].ended
  /\ h.op = "start" /\ h.pc \in {"wallet", "nonce", "control", "debit", "insert"}
       => NoRound(B, h.user, h.game)
  /\ h.op \in Betting /\ h.pc \in {"control", "debit", "insert"}
       => h.nonce = Cardinality(BetsIn(B, h.user)) + 1
  /\ h.op \in Settling /\ h.pc \notin {"session", "row", "ledger", "bump"}
       => B[h.ref].status = "open"
  /\ h.op = "reveal" /\ h.pc \notin {"session", "row"}
       => h.opened = B[h.ref].opened /\ h.count = B[h.ref].count
  /\ h.op = "cashOut" /\ h.pc \in {"credit", "settle"}
       => B[h.ref].opened # <<>> /\ h.payout = RoundMoney(B[h.ref].stake * B[h.ref].mult)

OneRound ==
  \A i, j \in DOMAIN bet :
    /\ bet[i].status = "open" /\ bet[j].status = "open"
    /\ bet[i].user = bet[j].user /\ bet[i].game = bet[j].game
    => i = j

\* The invariant of serial players.
SerialInv ==
  /\ Alone /\ OneOpenSession /\ OneRound /\ NoncesCount
  /\ \A r \in Requests : Knows(req[r], session, bet)

\* An idle slot knows nothing.
LEMMA IdleKnows == ASSUME NEW S, NEW B PROVE Knows(Idle, S, B)
BY DEF Knows, Idle, Playing, Betting, Settling

\* Neither does a request that has just arrived.
LEMMA ArrivalKnows == ASSUME NEW k, NEW S, NEW B, Arrived(k) PROVE Knows(k, S, B)
BY DEF Knows, Arrived, Playing, Betting, Settling

\* What a handler knows is not touched by a step for another player.
LEMMA KnowsStays ==
  ASSUME NEW h, NEW v, h.user # v, Touches(v), RefersTo(h, session, bet),
         Knows(h, session, bet), SessionsGrow, BetsGrow
  PROVE  Knows(h, session', bet')
<1> USE DEF Playing, Betting, Settling
<1>1. ASSUME h.op \in Playing, h.pc # "session"
      PROVE  session'[h.sid] = session[h.sid]
  BY <1>1 DEF RefersTo, Touches
<1>2. ASSUME h.op \in Settling, h.pc \notin {"session", "row"}
      PROVE  bet'[h.ref] = bet[h.ref]
  BY <1>2 DEF RefersTo, Owns, Touches
<1>3. BetsIn(bet', h.user) = BetsIn(bet, h.user)
  BY DEF BetsIn, Touches, BetsGrow, SameBet
<1>4. NoSession(session, h.user, h.game) => NoSession(session', h.user, h.game)
  BY DEF NoSession, Touches, SessionsGrow, SameSession
<1>5. NoRound(bet, h.user, h.game) => NoRound(bet', h.user, h.game)
  BY DEF NoRound, Touches, BetsGrow, SameBet
<1> HIDE DEF Playing, Betting, Settling
<1>6. h.op = "start" => h.op \in Playing /\ h.op \in Betting
  BY DEF Playing, Betting
<1>7. h.op \in {"reveal", "cashOut"} => h.op \in Settling
  BY DEF Settling
<1> QED BY <1>1, <1>2, <1>3, <1>4, <1>5, <1>6, <1>7 DEF Knows

\* A read adds what it found to what the handler knows.
LEMMA ReadKnows ==
  ASSUME NEW h, NEW k, RefersTo(h, session, bet), Knows(h, session, bet), Read(h, k)
  PROVE  Knows(k, session, bet)
<1> USE DEF Playing, Betting, Settling
<1>1. h.op = k.op /\ h.user = k.user /\ h.game = k.game /\ h.sid = k.sid /\ h.ref = k.ref
  BY DEF Read, SameRequest
<1>2. k.op = "startSession" => k.pc = "end"
  BY <1>1 DEF Read
<1>3. k.op \in Playing => ~session[k.sid].ended
  BY <1>1 DEF Read, Knows, SessionIsOpen
<1>4. k.op = "start" /\ k.pc \in {"wallet", "nonce", "control", "debit", "insert"}
        => NoRound(bet, k.user, k.game)
  BY <1>1 DEF Read, Knows, NoRound
<1>5. k.op \in Betting /\ k.pc \in {"control", "debit", "insert"}
        => k.nonce = Cardinality(BetsIn(bet, k.user)) + 1
  BY <1>1 DEF Read, Knows, BetsIn
<1>6. k.op \in Settling /\ k.pc # "row" =>
        /\ bet[k.ref].status = "open"
        /\ k.op = "reveal" => k.opened = bet[k.ref].opened /\ k.count = bet[k.ref].count
        /\ k.op = "cashOut" => /\ bet[k.ref].opened # <<>>
                               /\ k.payout = RoundMoney(bet[k.ref].stake * bet[k.ref].mult)
  BY <1>1 DEF Read, RoundIsOpen
<1>7. k.op \in Settling => k.pc # "session"
  BY <1>1 DEF Read
<1> HIDE DEF Playing, Betting, Settling
<1>8. k.op \in {"reveal", "cashOut"} => k.op \in Settling
  BY DEF Settling
<1> QED BY <1>2, <1>3, <1>4, <1>5, <1>6, <1>7, <1>8 DEF Knows

\* Ending the old sessions leaves none open; the other writes to sessions are the last.
LEMMA SessionWriteKnows ==
  ASSUME TypeOK, NEW r \in Requests, SessionWrites(r)
  PROVE  Knows(req'[r], session', bet')
<1>1. CASE EndOpenSessions(r)
  <2>1. req'[r].op = "startSession" /\ req'[r].user = req[r].user /\ req'[r].game = req[r].game
    BY <1>1, SessionWriting DEF TypeOK, GoesOn, SameCall, EndOpenSessions, At
  <2>2. NoSession(session', req[r].user, req[r].game)
    <3> SUFFICES ASSUME NEW s \in DOMAIN session',
                        session'[s].user = req[r].user, session'[s].game = req[r].game
                 PROVE  session'[s].ended
      BY DEF NoSession
    <3>1. /\ DOMAIN session' = DOMAIN session
          /\ \A t \in DOMAIN session :
               /\ SameSession(session'[t], session[t])
               /\ session'[t].ended = \/ session[t].ended
                                      \/ /\ session[t].user = req[r].user
                                         /\ session[t].game = req[r].game
      BY <1>1, SessionRowsWritten DEF TypeOK
    <3>2. session[s].user = req[r].user /\ session[s].game = req[r].game
      BY <3>1 DEF SameSession
    <3> QED BY <3>1, <3>2
  <2> QED BY <2>1, <2>2 DEF Knows, Playing, Betting, Settling
<1>2. CASE InsertSession(r) \/ MarkEnded(r)
  BY <1>2, SessionWriting, IdleKnows DEF TypeOK
<1> QED BY <1>1, <1>2 DEF SessionWrites

\* Past its last check of the round, a handler needs to know its session only.
LEMMA KnowsSession ==
  ASSUME NEW k, NEW S, NEW B, ~S[k.sid].ended,
         \/ k.op = "placeBet" /\ k.pc \in {"ledger", "bump", "consume"}
         \/ k.op = "start" /\ k.pc \in {"ledger", "bump"}
         \/ k.op = "cashOut" /\ k.pc \in {"ledger", "bump"}
  PROVE  Knows(k, S, B)
BY DEF Knows, Playing, Betting, Settling

\* A handler that goes on knows as much, when it writes no session and no bet.
LEMMA GoesOnKnows ==
  ASSUME NEW r \in Requests, Knows(req[r], session, bet), UNCHANGED <<session, bet>>,
         \/ /\ req[r].op \in Betting /\ req[r].pc = "debit" /\ GoesOn(r, "insert")
         \/ req[r].op = "reveal" /\ req[r].pc = "unlock" /\ GoesOn(r, "lost")
         \/ req[r].op = "cashOut" /\ req[r].pc = "credit" /\ GoesOn(r, "settle")
  PROVE  Knows(req'[r], session', bet')
BY DEF Knows, GoesOn, SameCall, Playing, Betting, Settling

\* The bump leaves the session open.
LEMMA BumpKeepsOpen ==
  ASSUME SessionType, NEW s, s \in DOMAIN session, ~session[s].ended, NEW staked, NEW won,
         BumpSession(s, staked, won)
  PROVE  ~session'[s].ended
BY BumpedRow

\* placeBet goes on knowing its session and, up to the insert, the number of bets.
LEMMA BetWriteKnows ==
  ASSUME TypeOK, RefInv, NEW r \in Requests, Knows(req[r], session, bet), BetWrites(r)
  PROVE  Knows(req'[r], session', bet')
<1> USE DEF TypeOK, At
<1>1. req[r].op = "placeBet" => req[r].sid \in DOMAIN session
  BY DEF RefInv, RefersTo, Playing, Betting
<1>2. req[r].op = "placeBet" /\ req[r].pc # "session" => ~session[req[r].sid].ended
  BY DEF Knows, Playing, Betting
<1>3. CASE SettleWallet(r)
  <2>1. req'[r] = Idle \/ GoesOn(r, "insert")
    BY <1>3, BetWriting
  <2>2. req[r].op \in Betting /\ req[r].pc = "debit" /\ UNCHANGED <<session, bet>>
    BY <1>3 DEF SettleWallet, Betting
  <2> QED BY <2>1, <2>2, GoesOnKnows, IdleKnows
<1>4. CASE InsertSettledBet(r)
  <2>1. Inserted(r) /\ UNCHANGED session /\ req[r].op = "placeBet" /\ req[r].pc = "insert"
    BY <1>4, BetWriting DEF InsertSettledBet
  <2>2. req'[r].op = "placeBet" /\ req'[r].pc = "ledger" /\ req'[r].sid = req[r].sid
    BY <2>1 DEF Inserted
  <2> QED BY <1>2, <2>1, <2>2, KnowsSession
<1>5. CASE InsertBetLedger(r)
  <2>1. GoesOn(r, "bump") /\ UNCHANGED session /\ req[r].op = "placeBet" /\ req[r].pc = "ledger"
    BY <1>5, BetWriting DEF InsertBetLedger
  <2>2. req'[r].op = "placeBet" /\ req'[r].pc = "bump" /\ req'[r].sid = req[r].sid
    BY <2>1 DEF GoesOn, SameCall
  <2> QED BY <1>2, <2>1, <2>2, KnowsSession
<1>6. CASE BumpSettledBet(r)
  <2>1. /\ req'[r] = Idle \/ GoesOn(r, "consume")
        /\ BumpSession(req[r].sid, req[r].stake, req[r].payout)
        /\ req[r].op = "placeBet" /\ req[r].pc = "bump"
    BY <1>6, BetWriting DEF BumpSettledBet
  <2>2. ~session'[req[r].sid].ended
    BY <1>1, <1>2, <2>1, BumpKeepsOpen
  <2>3. GoesOn(r, "consume") => /\ req'[r].op = "placeBet" /\ req'[r].pc = "consume"
                                /\ req'[r].sid = req[r].sid
    BY <2>1 DEF GoesOn, SameCall
  <2> QED BY <2>1, <2>2, <2>3, KnowsSession, IdleKnows
<1>7. CASE ConsumeForcedRound(r)
  BY <1>7, BetWriting, IdleKnows
<1> QED BY <1>3, <1>4, <1>5, <1>6, <1>7 DEF BetWrites

\* start, reveal and cashOut go on knowing their session, and the round until they close it.
LEMMA RoundWriteKnows ==
  ASSUME TypeOK, RefInv, NEW r \in Requests, Knows(req[r], session, bet),
         NEW g \in GridGames, RoundWrites(r, g)
  PROVE  Knows(req'[r], session', bet')
<1> USE DEF TypeOK, At, Step
<1>1. req[r].op \in {"start", "cashOut"} /\ req[r].pc # "session" => ~session[req[r].sid].ended
  BY DEF Knows, Playing, Betting, Settling
<1>2. CASE HoldStake(r, g)
  <2>1. req'[r] = Idle \/ GoesOn(r, "insert")
    BY <1>2, RoundWriting
  <2>2. req[r].op \in Betting /\ req[r].pc = "debit" /\ UNCHANGED <<session, bet>>
    BY <1>2 DEF HoldStake, Betting
  <2> QED BY <2>1, <2>2, GoesOnKnows, IdleKnows
<1>3. CASE InsertOpenRound(r, g)
  <2>1. Inserted(r) /\ UNCHANGED session /\ req[r].op = "start" /\ req[r].pc = "insert"
    BY <1>3, RoundWriting DEF InsertOpenRound
  <2>2. req'[r].op = "start" /\ req'[r].pc = "ledger" /\ req'[r].sid = req[r].sid
    BY <2>1 DEF Inserted
  <2> QED BY <1>1, <2>1, <2>2, KnowsSession
<1>4. CASE InsertStakeRow(r, g) \/ InsertPayoutRow(r, g)
  <2>1. /\ GoesOn(r, "bump") /\ UNCHANGED session
        /\ req[r].op \in {"start", "cashOut"} /\ req[r].pc = "ledger"
    BY <1>4, RoundWriting DEF InsertStakeRow, InsertPayoutRow
  <2>2. req'[r].op \in {"start", "cashOut"} /\ req'[r].pc = "bump" /\ req'[r].sid = req[r].sid
    BY <2>1 DEF GoesOn, SameCall
  <2> QED BY <1>1, <2>1, <2>2, KnowsSession
<1>5. CASE ReleaseStake(r, g)
  BY <1>5, RoundWriting, GoesOnKnows DEF ReleaseStake
<1>6. CASE CreditPayout(r, g)
  BY <1>6, RoundWriting, GoesOnKnows DEF CreditPayout
<1>7. CASE CloseCashedOutRound(r, g)
  <2>1. GoesOn(r, "ledger") /\ UNCHANGED session /\ req[r].op = "cashOut" /\ req[r].pc = "settle"
    BY <1>7, RoundWriting DEF CloseCashedOutRound
  <2>2. req'[r].op = "cashOut" /\ req'[r].pc = "ledger" /\ req'[r].sid = req[r].sid
    BY <2>1 DEF GoesOn, SameCall
  <2> QED BY <1>1, <2>1, <2>2, KnowsSession
<1>8. CASE BumpStartedRound(r, g) \/ CloseLostRound(r, g) \/ BumpCashedOutRound(r, g)
  BY <1>8, RoundWriting, IdleKnows
<1>9. CASE RaiseMultiplier(r, g)
  <2>1. \/ req'[r] = Idle
        \/ req'[r].op = "cashOut" /\ req'[r].pc = "session"
    BY <1>9, RoundWriting
  <2>2. req'[r].op = "cashOut" /\ req'[r].pc = "session" => Knows(req'[r], session', bet')
    BY DEF Knows, Playing, Betting, Settling
  <2> QED BY <2>1, <2>2, IdleKnows
<1> QED BY <1>2, <1>3, <1>4, <1>5, <1>6, <1>7, <1>8, <1>9 DEF RoundWrites

\* Every handler still knows after a step what it knew, and what it has read since.
LEMMA KnowsKept ==
  ASSUME TypeOK, RefInv, SerialInv, [Next]_vars, NEW q \in Requests
  PROVE  Knows(req'[q], session', bet')
<1>1. HandlerType /\ Knows(req[q], session, bet) /\ RefersTo(req[q], session, bet)
  BY DEF TypeOK, SerialInv, RefInv
<1>2. CASE UNCHANGED <<session, bet, ledger, req, failures>>
  BY <1>1, <1>2
<1>3. ASSUME NEW r \in Requests, Others(r), UNCHANGED <<wallet, session, bet, ledger>>,
             Arrivals(r) \/ Reads(r) \/ Abort(r)
      PROVE  Knows(req'[q], session', bet')
  <2>1. CASE q # r
    BY <1>1, <1>3, <2>1 DEF Others
  <2>2. CASE q = r
    <3>1. Arrivals(r) => Knows(req'[r], session', bet')
      BY <1>1, Arriving, ArrivalKnows
    <3>2. Abort(r) => Knows(req'[r], session', bet')
      BY <1>1, FinishKeeps, IdleKnows DEF Abort
    <3>3. Reads(r) => Knows(req'[r], session, bet)
      BY <1>1, <2>2, Reading, ReadKnows, IdleKnows
    <3> QED BY <1>3, <2>2, <3>1, <3>2, <3>3
  <2> QED BY <2>1, <2>2
<1>4. ASSUME NEW r \in Requests, Others(r), req[r] \in Active, Writes(r)
      PROVE  Knows(req'[q], session', bet')
  <2>1. CASE q # r /\ req[q] = Idle
    BY <1>4, <2>1, IdleKnows DEF Others
  <2>2. CASE q # r /\ req[q] # Idle
    <3>1. req[q].user # req[r].user
      BY <2>2 DEF SerialInv, Alone
    <3>2. Touches(req[r].user)
      BY <1>4, WritesTouch
    <3>3. SessionsGrow /\ BetsGrow
      BY TablesGrow
    <3>4. req'[q] = req[q]
      BY <1>4, <2>2 DEF Others
    <3> QED BY <1>1, <3>1, <3>2, <3>3, <3>4, KnowsStays
  <2>3. CASE q = r
    <3>1. BetWrites(r) => Knows(req'[r], session', bet')
      BY <1>1, <2>3, BetWriteKnows
    <3>2. \A g \in GridGames : RoundWrites(r, g) => Knows(req'[r], session', bet')
      BY <1>1, <2>3, RoundWriteKnows
    <3> QED BY <1>4, <2>3, <3>1, <3>2, SessionWriteKnows DEF Writes
  <2> QED BY <2>1, <2>2, <2>3
<1> QED BY <1>1, <1>2, <1>3, <1>4, WhoWrites

---------------------------------------------------------------------------
(* What a step does to sessions and bets when players are serial *)

\* Ended sessions stay as they are, and only an insert makes a session.
SessionsMove ==
  /\ DOMAIN session' = DOMAIN session
  /\ \A s \in DOMAIN session : /\ SameSession(session'[s], session[s])
                               /\ session[s].ended => session'[s] = session[s]

\* A session is inserted for a player who has none open on the game.
SessionAdded ==
  LET n == Len(session) + 1
      row == session'[n]
  IN /\ n \notin DOMAIN session /\ DOMAIN session' = DOMAIN session \cup {n}
     /\ \A s \in DOMAIN session : session'[s] = session[s]
     /\ NoSession(session, row.user, row.game)

\* A bump counts in an open session.
LEMMA BumpMoves ==
  ASSUME TypeOK, RefInv, NEW r \in Requests, Knows(req[r], session, bet),
         req[r].op \in Playing, req[r].pc = "bump",
         NEW staked, NEW won, BumpSession(req[r].sid, staked, won)
  PROVE  SessionsMove
<1>1. ~session[req[r].sid].ended
  BY DEF Knows
<1> QED BY <1>1, BumpedRow DEF SessionsMove, TypeOK

\* What a step does to the sessions.
LEMMA SessionStep ==
  ASSUME TypeOK, RefInv, SerialInv, [Next]_vars
  PROVE  SessionsMove \/ SessionAdded
<1> USE DEF At, Step, Playing, Betting, Settling
<1>1. UNCHANGED session => SessionsMove
  BY DEF SessionsMove, SameSession
<1>2. ASSUME NEW r \in Requests, SessionWrites(r)
      PROVE  SessionsMove \/ SessionAdded
  <2>1. CASE EndOpenSessions(r)
    BY <2>1, SessionRowsWritten DEF SessionsMove, TypeOK
  <2>2. CASE MarkEnded(r)
    BY <2>2, SessionRowsWritten DEF SessionsMove, TypeOK
  <2>3. CASE InsertSession(r)
    <3> DEFINE n == Len(session) + 1
    <3>1. /\ n \notin DOMAIN session /\ DOMAIN session' = DOMAIN session \cup {n}
          /\ \A s \in DOMAIN session : session'[s] = session[s]
          /\ session'[n] = [user |-> req[r].user, game |-> req[r].game, ended |-> FALSE,
                            betCount |-> 0, staked |-> 0, won |-> 0]
      BY <2>3, SessionRowsWritten DEF TypeOK
    <3>2. NoSession(session, req[r].user, req[r].game)
      BY <2>3 DEF SerialInv, Knows, InsertSession
    <3> HIDE DEF n
    <3>3. session'[n].user = req[r].user /\ session'[n].game = req[r].game
      BY <3>1
    <3> QED BY <3>1, <3>2, <3>3 DEF SessionAdded, n
  <2> QED BY <1>2, <2>1, <2>2, <2>3 DEF SessionWrites
<1>3. ASSUME NEW r \in Requests, BetWrites(r) \/ \E g \in GridGames : RoundWrites(r, g)
      PROVE  SessionsMove
  <2>1. Knows(req[r], session, bet)
    BY DEF SerialInv
  <2>2. CASE BumpSettledBet(r)
    BY <2>1, <2>2, BumpMoves DEF BumpSettledBet
  <2>3. ASSUME NEW g \in GridGames, BumpStartedRound(r, g)
        PROVE  SessionsMove
    BY <2>1, <2>3, BumpMoves DEF BumpStartedRound
  <2>4. ASSUME NEW g \in GridGames, BumpCashedOutRound(r, g)
        PROVE  SessionsMove
    BY <2>1, <2>4, BumpMoves DEF BumpCashedOutRound
  <2>5. BetWrites(r) => BumpSettledBet(r) \/ UNCHANGED session
    BY DEF BetWrites, SettleWallet, InsertSettledBet, InsertBetLedger, ConsumeForcedRound
  <2>6. ASSUME NEW g \in GridGames, RoundWrites(r, g)
        PROVE  BumpStartedRound(r, g) \/ BumpCashedOutRound(r, g) \/ UNCHANGED session
    BY <2>6 DEF RoundWrites, HoldStake, InsertOpenRound, InsertStakeRow, ReleaseStake,
       CloseLostRound, RaiseMultiplier, CreditPayout, CloseCashedOutRound, InsertPayoutRow
  <2> QED BY <1>1, <1>3, <2>2, <2>3, <2>4, <2>5, <2>6
<1> QED BY <1>1, <1>2, <1>3, WhoWrites DEF Writes, TypeOK

\* The picks of x are the first picks of y.
Extends(y, x) ==
  /\ Len(y.opened) >= Len(x.opened)
  /\ SubSeq(y.opened, 1, Len(x.opened)) = x.opened

\* A bet is inserted for a player with one bet fewer than its nonce says, and as an
\* open round only when he has none.
BetAdded(r) ==
  /\ NewRow(r)
  /\ req[r].nonce = Cardinality(BetsIn(bet, req[r].user)) + 1
  /\ LET row == bet'[Len(bet) + 1]
     IN row.status = "open" => NoRound(bet, row.user, row.game)

\* The one row that is written over is an open round's, which keeps its picks.
RoundMoved(i) ==
  /\ i \in DOMAIN bet /\ BetUpdated(i) /\ bet[i].status = "open"
  /\ Extends(bet'[i], bet[i])

\* Adding a pick keeps the earlier ones.
LEMMA PicksExtend ==
  ASSUME NEW S, NEW s \in Seq(S), NEW x \in S
  PROVE  /\ Len(Append(s, x)) >= Len(s) /\ SubSeq(Append(s, x), 1, Len(s)) = s
         /\ SubSeq(s, 1, Len(s)) = s
<1>1. Append(s, x) \in Seq(S) /\ Len(Append(s, x)) = Len(s) + 1
  OBVIOUS
<1>2. \A k \in 1..Len(s) : Append(s, x)[k] = s[k]
  OBVIOUS
<1>3. Len(s) \in Nat
  OBVIOUS
<1>4. SubSeq(Append(s, x), 1, Len(s)) = [k \in 1..Len(s) |-> Append(s, x)[k]]
  BY <1>1, <1>3
<1>5. s = [k \in 1..Len(s) |-> s[k]]
  OBVIOUS
<1> QED BY <1>1, <1>2, <1>3, <1>4, <1>5

\* What a step does to the bets.
LEMMA BetStep ==
  ASSUME TypeOK, RefInv, SerialInv, [Next]_vars
  PROVE  \/ UNCHANGED bet
         \/ \E r \in Requests : BetAdded(r)
         \/ \E i \in DOMAIN bet : RoundMoved(i)
<1> USE DEF At, Step, Playing, Betting, Settling
<1>1. ASSUME NEW r \in Requests
      PROVE  Knows(req[r], session, bet) /\ RefersTo(req[r], session, bet)
  BY DEF SerialInv, RefInv
<1>2. ASSUME NEW r \in Requests, InsertSettledBet(r)
      PROVE  BetAdded(r)
  <2>1. req[r].nonce = Cardinality(BetsIn(bet, req[r].user)) + 1
    BY <1>1, <1>2 DEF Knows, InsertSettledBet
  <2>2. NewRow(r) /\ bet'[Len(bet) + 1].status # "open"
    BY <1>2, BetInserted
  <2> QED BY <2>1, <2>2 DEF BetAdded
<1>3. ASSUME NEW r \in Requests, NEW g \in GridGames, InsertOpenRound(r, g)
      PROVE  BetAdded(r)
  <2>1. req[r].nonce = Cardinality(BetsIn(bet, req[r].user)) + 1
    BY <1>1, <1>3 DEF Knows, InsertOpenRound
  <2>2. NoRound(bet, req[r].user, g)
    BY <1>1, <1>3 DEF Knows, InsertOpenRound
  <2>3. NewRow(r) /\ bet'[Len(bet) + 1].game = g
    BY <1>3, BetInserted
  <2>4. bet'[Len(bet) + 1].user = req[r].user
    BY <2>3 DEF NewRow
  <2> QED BY <2>1, <2>2, <2>3, <2>4 DEF BetAdded
<1>4. ASSUME NEW r \in Requests, NEW g \in GridGames,
             CloseLostRound(r, g) \/ RaiseMultiplier(r, g) \/ CloseCashedOutRound(r, g)
      PROVE  RoundMoved(req[r].ref)
  <2> DEFINE i == req[r].ref
  <2>1. i \in DOMAIN bet /\ bet[i].status = "open"
    BY <1>1, <1>4 DEF Knows, RefersTo, CloseLostRound, RaiseMultiplier, CloseCashedOutRound
  <2>2. BetUpdated(i)
    BY <1>4, BetRowsWritten
  <2>3. bet[i].opened \in Seq(Nat)
    <3>1. bet[i] \in BetRows
      BY <2>1, ElementType DEF TypeOK, BetType
    <3> QED BY <3>1 DEF BetRows
  <2>4. req[r] \in Active
    BY <1>4, RoundWriting DEF TypeOK, RoundWrites
  <2>5. req[r].tile \in Nat
    BY <2>4 DEF Active
  <2>6. CASE CloseLostRound(r, g) \/ RaiseMultiplier(r, g)
    <3>1. bet'[i].opened = Append(req[r].opened, req[r].tile)
      BY <2>1, <2>6, BetRowsWritten
    <3>2. req[r].opened = bet[i].opened
      BY <1>1, <2>6 DEF Knows, CloseLostRound, RaiseMultiplier
    <3> HIDE DEF i
    <3>3. Extends(bet'[i], bet[i])
      BY <2>3, <2>5, <3>1, <3>2, PicksExtend DEF Extends
    <3> QED BY <2>1, <2>2, <3>3 DEF RoundMoved, i
  <2>7. CASE CloseCashedOutRound(r, g)
    <3>1. bet'[i].opened = bet[i].opened
      BY <2>1, <2>7, BetRowsWritten
    <3> HIDE DEF i
    <3>2. Extends(bet'[i], bet[i])
      BY <2>3, <2>5, <3>1, PicksExtend DEF Extends
    <3> QED BY <2>1, <2>2, <3>2 DEF RoundMoved, i
  <2> QED BY <1>4, <2>6, <2>7
<1>5. ASSUME NEW r \in Requests, NEW g \in GridGames,
             CloseLostRound(r, g) \/ RaiseMultiplier(r, g) \/ CloseCashedOutRound(r, g)
      PROVE  \E i \in DOMAIN bet : RoundMoved(i)
  BY <1>4, <1>5 DEF RoundMoved
<1>6. UNCHANGED bet \/ BetWrite
  BY Writers
<1> QED BY <1>2, <1>3, <1>5, <1>6 DEF BetWrite

---------------------------------------------------------------------------
(* Each part of the invariant is kept *)

\* A session is only inserted where none is open.
LEMMA OneSessionKept ==
  ASSUME OneOpenSession, SessionsMove \/ SessionAdded
  PROVE  OneOpenSession'
<1>1. CASE SessionsMove
  BY <1>1 DEF OneOpenSession, SessionsMove, SameSession
<1>2. CASE SessionAdded
  <2> DEFINE n == Len(session) + 1
  <2>1. /\ DOMAIN session' = DOMAIN session \cup {n}
        /\ \A s \in DOMAIN session : session'[s] = session[s]
        /\ \A s \in DOMAIN session : session[s].user = session'[n].user
                                       /\ session[s].game = session'[n].game => session[s].ended
    BY <1>2 DEF SessionAdded, NoSession
  <2> HIDE DEF n
  <2> QED BY <2>1 DEF OneOpenSession
<1> QED BY <1>1, <1>2

\* A round is only opened where none is, and a finished one is not opened again.
LEMMA OneRoundKept ==
  ASSUME OneRound,
         \/ UNCHANGED bet
         \/ \E r \in Requests : BetAdded(r)
         \/ \E i \in DOMAIN bet : RoundMoved(i)
  PROVE  OneRound'
<1>1. CASE UNCHANGED bet
  BY <1>1 DEF OneRound
<1>2. ASSUME NEW r \in Requests, BetAdded(r)
      PROVE  OneRound'
  <2> DEFINE n == Len(bet) + 1
  <2>1. /\ DOMAIN bet' = DOMAIN bet \cup {n}
        /\ \A i \in DOMAIN bet : bet'[i] = bet[i]
        /\ bet'[n].status = "open" =>
             \A i \in DOMAIN bet : bet[i].user = bet'[n].user /\ bet[i].game = bet'[n].game
                                     => bet[i].status # "open"
    BY <1>2 DEF BetAdded, NewRow, NoRound
  <2> HIDE DEF n
  <2> QED BY <2>1 DEF OneRound
<1>3. ASSUME NEW k \in DOMAIN bet, RoundMoved(k)
      PROVE  OneRound'
  BY <1>3 DEF OneRound, RoundMoved, BetUpdated, SameBet
<1> QED BY <1>1, <1>2, <1>3

\* The bets of a player are a finite set of rows.
LEMMA BetsAreFinite ==
  ASSUME BetType, NEW u
  PROVE  /\ IsFiniteSet(BetsIn(bet, u)) /\ Cardinality(BetsIn(bet, u)) \in Nat
         /\ DOMAIN bet = 1..Len(bet) /\ Len(bet) \in Nat
<1>1. DOMAIN bet = 1..Len(bet) /\ Len(bet) \in Nat
  BY DEF BetType
<1>2. IsFiniteSet(1..Len(bet))
  BY <1>1, FS_Interval
<1>3. BetsIn(bet, u) \subseteq 1..Len(bet)
  BY <1>1 DEF BetsIn
<1> QED BY <1>1, <1>2, <1>3, FS_Subset, FS_CardinalityType

\* A bet's nonce counts it: it was read with every other bet of the player inserted.
LEMMA NoncesKept ==
  ASSUME BetType, NoncesCount,
         \/ UNCHANGED bet
         \/ \E r \in Requests : BetAdded(r)
         \/ \E i \in DOMAIN bet : RoundMoved(i)
  PROVE  NoncesCount'
<1>1. DOMAIN bet = 1..Len(bet) /\ Len(bet) \in Nat
  BY BetsAreFinite
<1>2. CASE UNCHANGED bet
  BY <1>2 DEF NoncesCount
<1>3. ASSUME NEW r \in Requests, BetAdded(r)
      PROVE  NoncesCount'
  <2> DEFINE n == Len(bet) + 1
             v == req[r].user
  <2>1. /\ n \notin DOMAIN bet /\ DOMAIN bet' = DOMAIN bet \cup {n}
        /\ \A i \in DOMAIN bet : bet'[i] = bet[i]
        /\ bet'[n].user = v /\ bet'[n].nonce = Cardinality(BetsIn(bet, v)) + 1
    BY <1>3 DEF BetAdded, NewRow
  <2>2. ASSUME NEW i \in DOMAIN bet
        PROVE  bet'[i].nonce = Cardinality({j \in 1..i : bet'[j].user = bet'[i].user})
    <3>1. {j \in 1..i : bet'[j].user = bet'[i].user} = {j \in 1..i : bet[j].user = bet[i].user}
      BY <1>1, <2>1, <2>2
    <3> QED BY <2>1, <3>1 DEF NoncesCount
  <2>3. bet'[n].nonce = Cardinality({j \in 1..n : bet'[j].user = bet'[n].user})
    <3>1. {j \in 1..n : bet'[j].user = bet'[n].user} = BetsIn(bet, v) \cup {n}
      BY <1>1, <2>1 DEF BetsIn
    <3>2. n \notin BetsIn(bet, v)
      BY <2>1 DEF BetsIn
    <3>3. IsFiniteSet(BetsIn(bet, v))
      BY BetsAreFinite
    <3>4. Cardinality(BetsIn(bet, v) \cup {n}) = Cardinality(BetsIn(bet, v)) + 1
      BY <3>2, <3>3, FS_AddElement
    <3> QED BY <2>1, <3>1, <3>4
  <2> HIDE DEF n, v
  <2> QED BY <2>1, <2>2, <2>3 DEF NoncesCount
<1>4. ASSUME NEW k \in DOMAIN bet, RoundMoved(k)
      PROVE  NoncesCount'
  <2>1. DOMAIN bet' = DOMAIN bet
    BY <1>4 DEF RoundMoved, BetUpdated
  <2>2. \A i \in DOMAIN bet : bet'[i].user = bet[i].user /\ bet'[i].nonce = bet[i].nonce
    BY <1>4 DEF RoundMoved, BetUpdated, SameBet
  <2>3. ASSUME NEW i \in DOMAIN bet
        PROVE  {j \in 1..i : bet'[j].user = bet'[i].user} = {j \in 1..i : bet[j].user = bet[i].user}
    BY <1>1, <2>2
  <2> QED BY <2>1, <2>2, <2>3 DEF NoncesCount
<1> QED BY <1>2, <1>3, <1>4

\* Serial players stay serial, and their rows single and numbered.
LEMMA SerialKept ==
  ASSUME SerialPlayers, TypeOK, TypeOK', RefInv, SerialInv, [Next]_vars
  PROVE  SerialInv'
<1>1. Alone'
  BY AloneKept DEF SerialInv, TypeOK
<1>2. OneOpenSession'
  BY SessionStep, OneSessionKept DEF SerialInv
<1>3. OneRound'
  BY BetStep, OneRoundKept DEF SerialInv
<1>4. NoncesCount'
  BY BetStep, NoncesKept DEF SerialInv, TypeOK
<1> QED BY <1>1, <1>2, <1>3, <1>4, KnowsKept DEF SerialInv

\* Nobody has anything at first.
LEMMA InitSerial == Init => SerialInv
<1> SUFFICES ASSUME Init PROVE SerialInv
  OBVIOUS
<1>1. session = <<>> /\ bet = <<>> /\ \A r \in Requests : req[r] = Idle
  BY DEF Init
<1>2. DOMAIN session = {} /\ DOMAIN bet = {}
  BY <1>1
<1> QED BY <1>1, <1>2, IdleKnows DEF SerialInv, Alone, OneOpenSession, OneRound, NoncesCount

\* The invariant holds in every state.
LEMMA SerialHolds == ASSUME SerialPlayers PROVE Spec => [](TypeOK /\ BookInv /\ SerialInv)
<1>1. Init => TypeOK /\ MoneyInv /\ BookInv /\ SerialInv
  BY InitKeepsInv, InitBooks, InitSerial
<1>2. TypeOK /\ MoneyInv /\ BookInv /\ SerialInv /\ [Next]_vars
        => (TypeOK /\ MoneyInv /\ BookInv /\ SerialInv)'
  BY StepKeepsInv, RefsKept, StakeKept, SerialKept DEF BookInv
<1> QED BY <1>1, <1>2, PTL DEF Spec

---------------------------------------------------------------------------
(* Theorems about serial players *)

\* A player who sends one request at a time never has two open sessions on a game:
\* startSession ends the old ones and inserts the new one in separate statements.
THEOREM SessionsAreSingle == ASSUME SerialPlayers PROVE Spec => []OneOpenSession
<1>1. SerialInv => OneOpenSession
  BY DEF SerialInv
<1> QED BY <1>1, SerialHolds, PTL

\* Nor two open rounds: startMines and startTowers look for an open round seven
\* statements before they insert one, and no index of the table forbids a second.
THEOREM RoundsAreSingle == ASSUME SerialPlayers PROVE Spec => []OneOpenRound
<1>1. TypeOK /\ SerialInv => OneOpenRound
  <2> SUFFICES ASSUME TypeOK, SerialInv, NEW u \in Users, NEW g \in GridGames
               PROVE  Cardinality(Open(u, g)) <= 1
    BY DEF OneOpenRound
  <2>1. \A i, j \in Open(u, g) : i = j
    BY DEF SerialInv, OneRound, Open, BetsOf
  <2>2. CASE Open(u, g) = {}
    BY <2>2, FS_EmptySet
  <2>3. ASSUME NEW i \in Open(u, g)
        PROVE  Cardinality(Open(u, g)) = 1
    <3>1. Open(u, g) = {i}
      BY <2>1, <2>3
    <3> QED BY <3>1, FS_Singleton
  <2> QED BY <2>2, <2>3
<1> QED BY <1>1, SerialHolds, PTL

\* His bets are numbered 1, 2, 3... without gaps: nextNonce counts rows three statements
\* before the row that takes the number is inserted.
THEOREM NoncesAreCounted == ASSUME SerialPlayers PROVE Spec => []NoncesCount
<1>1. SerialInv => NoncesCount
  BY DEF SerialInv
<1> QED BY <1>1, SerialHolds, PTL

\* The row of a settled bet never changes: reveal and cashOut check the status in one
\* statement and write by id in another.
THEOREM FinishedRoundsAreFinal == ASSUME SerialPlayers PROVE Spec => FinishedRoundIsFinal
<1>1. TypeOK /\ BookInv /\ SerialInv /\ [Next]_vars
        => [\A i \in DOMAIN bet : Finished(i) => bet'[i] = bet[i]]_vars
  <2> SUFFICES ASSUME TypeOK, BookInv, SerialInv, [Next]_vars,
                      NEW i \in DOMAIN bet, bet[i].status # "open"
               PROVE  bet'[i] = bet[i]
    BY DEF Finished
  <2>1. ASSUME NEW r \in Requests, BetAdded(r)
        PROVE  bet'[i] = bet[i]
    BY <2>1 DEF BetAdded, NewRow
  <2>2. ASSUME NEW k \in DOMAIN bet, RoundMoved(k)
        PROVE  bet'[i] = bet[i]
    BY <2>2 DEF RoundMoved, BetUpdated
  <2> QED BY <2>1, <2>2, BetStep DEF BookInv
<1> QED BY <1>1, SerialHolds, PTL DEF FinishedRoundIsFinal, Spec

\* A reveal writes the picks it read back with its own, and loses none in between.
THEOREM PicksAreNeverLost == ASSUME SerialPlayers PROVE Spec => PicksAreKept
<1>1. TypeOK /\ BookInv /\ SerialInv /\ [Next]_vars
        => [\A i \in DOMAIN bet : /\ Len(bet'[i].opened) >= Len(bet[i].opened)
                                  /\ SubSeq(bet'[i].opened, 1, Len(bet[i].opened)) = bet[i].opened]_vars
  <2> SUFFICES ASSUME TypeOK, BookInv, SerialInv, [Next]_vars, NEW i \in DOMAIN bet
               PROVE  Extends(bet'[i], bet[i])
    BY DEF Extends
  <2>1. bet'[i] = bet[i] => Extends(bet'[i], bet[i])
    <3>1. bet[i].opened \in Seq(Nat)
      <4>1. bet[i] \in BetRows
        BY ElementType DEF TypeOK, BetType
      <4> QED BY <4>1 DEF BetRows
    <3> QED BY <3>1, PicksExtend DEF Extends
  <2>2. ASSUME NEW r \in Requests, BetAdded(r)
        PROVE  bet'[i] = bet[i]
    BY <2>2 DEF BetAdded, NewRow
  <2>3. ASSUME NEW k \in DOMAIN bet, RoundMoved(k)
        PROVE  bet'[i] = bet[i] \/ Extends(bet'[i], bet[i])
    BY <2>3 DEF RoundMoved, BetUpdated
  <2> QED BY <2>1, <2>2, <2>3, BetStep DEF BookInv
<1> QED BY <1>1, SerialHolds, PTL DEF PicksAreKept, Spec

\* The counters of an ended session never move: no handler of the player outlives the
\* session it checked when it began.
THEOREM EndedSessionsAreFrozen == ASSUME SerialPlayers PROVE Spec => EndedSessionIsFrozen
<1>1. TypeOK /\ BookInv /\ SerialInv /\ [Next]_vars
        => [\A s \in DOMAIN session : session[s].ended => session'[s] = session[s]]_vars
  BY SessionStep DEF BookInv, SessionsMove, SessionAdded
<1> QED BY <1>1, SerialHolds, PTL DEF EndedSessionIsFrozen, Spec

---------------------------------------------------------------------------
(* What bets are paid *)

\* A handler about to insert the payout row of its bet.
Paying(h) == h.op \in {"placeBet", "cashOut"} /\ h.pc = "ledger"

PaysFor(r, i) == Paying(req[r]) /\ req[r].ref = i

\* What a handler is going to pay is what its stake and multiplier make, and what the
\* row of its bet says by the time it books it.
Priced(h, B) ==
  /\ h.op = "placeBet" /\ h.pc \in {"debit", "insert"} => h.payout = RoundMoney(h.stake * h.mult)
  /\ Paying(h) => h.payout = B[h.ref].payout /\ B[h.ref].status # "open"

\* A bet's row says what its result pays.
Settled(b) ==
  /\ b.status \in {"won", "cashed_out"} => b.payout = RoundMoney(b.stake * b.mult)
  /\ b.status \in {"lost", "open"} => b.payout = 0

\* A bet is paid at most once, not before it is settled, and unless a handler failed it
\* is paid or has a handler that will.
RowPaid(i) ==
  /\ Settled(bet[i])
  /\ bet[i].status = "open" => ledger[i].paid = 0 /\ ledger[i].payouts = 0
  /\ ledger[i].payouts <= 1
  /\ \A r \in Requests : PaysFor(r, i) => ledger[i].paid = 0 /\ ledger[i].payouts = 0
  /\ failures = 0 => ledger[i].paid = bet[i].payout \/ \E r \in Requests : PaysFor(r, i)

PaidInv ==
  /\ \A r \in Requests : Priced(req[r], bet)
  /\ \A i \in DOMAIN bet : RowPaid(i)

\* A handler that is neither to be paid nor placing a bet is priced.
LEMMA UnpaidIsPriced ==
  ASSUME NEW h, NEW B, ~Paying(h), h.op # "placeBet" \/ h.pc \notin {"debit", "insert"}
  PROVE  Priced(h, B)
BY DEF Priced

\* What pays for a bet owns it.
LEMMA PayerOwns ==
  ASSUME RefInv, NEW r \in Requests, Paying(req[r])
  PROVE  Owns(req[r], bet)
BY DEF Paying, RefInv, RefersTo, Betting, Settling

\* Nobody pays for a bet another handler works on: both would act for its player.
LEMMA OnlyPayer ==
  ASSUME HandlerType, RefInv, SerialInv, NEW r \in Requests, req[r] \in Active, Owns(req[r], bet),
         NEW q \in Requests, PaysFor(q, req[r].ref)
  PROVE  q = r
<1>1. req[q].user = req[r].user
  BY PayerOwns DEF PaysFor, Owns
<1>2. req[r] # Idle
  BY ActiveIsBusy
<1> QED BY <1>1, <1>2 DEF SerialInv, Alone

\* The handler that reads or writes stays priced.
LEMMA ActorPriced ==
  ASSUME TypeOK, RefInv, SerialInv, NEW r \in Requests, Priced(req[r], bet),
         Arrivals(r) \/ Reads(r) \/ Abort(r) \/ Writes(r)
  PROVE  Priced(req'[r], bet')
<1> USE DEF At, Step
<1>1. HandlerType /\ TypeOK
  BY DEF TypeOK
<1>2. Priced(Idle, bet')
  BY UnpaidIsPriced DEF Paying, Idle
<1>3. Arrivals(r) => Priced(req'[r], bet')
  BY <1>1, Arriving, UnpaidIsPriced DEF Arrived, Paying
<1>4. Abort(r) => Priced(req'[r], bet')
  BY <1>1, <1>2, FinishKeeps DEF Abort
<1>5. ASSUME Reads(r)
      PROVE  Priced(req'[r], bet')
  <2>1. req'[r] = Idle \/ Read(req[r], req'[r])
    BY <1>1, <1>5, Reading
  <2>2. Read(req[r], req'[r]) => Priced(req'[r], bet')
    BY DEF Read, SameRequest, Priced, Paying
  <2> QED BY <1>2, <2>1, <2>2
<1>6. SessionWrites(r) => Priced(req'[r], bet')
  <2>1. EndOpenSessions(r) => req'[r].op = "startSession"
    BY <1>1, SessionWriting DEF SessionWrites, GoesOn, SameCall, EndOpenSessions
  <2>2. req'[r].op = "startSession" => Priced(req'[r], bet')
    BY UnpaidIsPriced DEF Paying
  <2> QED BY <1>1, <1>2, <2>1, <2>2, SessionWriting DEF SessionWrites
<1>7. ASSUME BetWrites(r)
      PROVE  Priced(req'[r], bet')
  <2>1. CASE SettleWallet(r)
    <3>1. req'[r] = Idle \/ GoesOn(r, "insert")
      BY <1>1, <1>7, <2>1, BetWriting
    <3>2. GoesOn(r, "insert") => Priced(req'[r], bet')
      BY <2>1 DEF SettleWallet, GoesOn, SameCall, Priced, Paying
    <3> QED BY <1>2, <3>1, <3>2
  <2>2. CASE InsertSettledBet(r)
    <3>1. /\ req'[r].pc = "ledger" /\ req'[r].ref = Len(bet) + 1
          /\ req'[r].payout = req[r].payout
      BY <1>1, <1>7, <2>2, BetWriting DEF Inserted
    <3>2. bet'[Len(bet) + 1].payout = req[r].payout /\ bet'[Len(bet) + 1].status # "open"
      BY <1>1, <2>2, BetInserted
    <3> QED BY <3>1, <3>2 DEF Priced
  <2>3. CASE InsertBetLedger(r) \/ BumpSettledBet(r) \/ ConsumeForcedRound(r)
    <3>1. req'[r] = Idle \/ req'[r].pc \in {"bump", "consume"}
      BY <1>1, <1>7, <2>3, BetWriting DEF GoesOn
    <3> QED BY <1>2, <3>1, UnpaidIsPriced DEF Paying
  <2> QED BY <1>7, <2>1, <2>2, <2>3 DEF BetWrites
<1>8. ASSUME NEW g \in GridGames, RoundWrites(r, g)
      PROVE  Priced(req'[r], bet')
  <2>1. CASE CloseCashedOutRound(r, g)
    <3>1. /\ req'[r].pc = "ledger" /\ req'[r].ref = req[r].ref
          /\ req'[r].payout = req[r].payout
      BY <1>1, <1>8, <2>1, RoundWriting DEF GoesOn, SameCall
    <3>2. req[r].ref \in DOMAIN bet
      BY <2>1 DEF CloseCashedOutRound, RefInv, RefersTo, Settling
    <3>3. bet'[req[r].ref].payout = req[r].payout /\ bet'[req[r].ref].status # "open"
      BY <1>1, <2>1, <3>2, BetRowsWritten
    <3> QED BY <3>1, <3>3 DEF Priced
  <2>2. CASE ~CloseCashedOutRound(r, g)
    <3>1. \/ req'[r] = Idle \/ req'[r].op = "start" \/ req'[r].op = "reveal"
          \/ req'[r].op = "cashOut" /\ req'[r].pc \in {"session", "settle", "bump"}
      <4>1. CASE HoldStake(r, g) \/ InsertStakeRow(r, g) \/ ReleaseStake(r, g)
                   \/ CreditPayout(r, g) \/ InsertPayoutRow(r, g)
        BY <1>1, <1>8, <4>1, RoundWriting DEF GoesOn, SameCall, HoldStake, InsertStakeRow,
           ReleaseStake, CreditPayout, InsertPayoutRow
      <4>2. CASE InsertOpenRound(r, g)
        BY <1>1, <1>8, <4>2, RoundWriting DEF Inserted, InsertOpenRound
      <4>3. CASE RaiseMultiplier(r, g) \/ BumpStartedRound(r, g) \/ CloseLostRound(r, g)
                   \/ BumpCashedOutRound(r, g)
        BY <1>1, <1>8, <4>3, RoundWriting
      <4> QED BY <1>8, <2>2, <4>1, <4>2, <4>3 DEF RoundWrites
    <3> QED BY <1>2, <3>1, UnpaidIsPriced DEF Paying
  <2> QED BY <2>1, <2>2
<1> QED BY <1>3, <1>4, <1>5, <1>6, <1>7, <1>8 DEF Writes

\* So does every other.
LEMMA PricedKept ==
  ASSUME TypeOK, RefInv, SerialInv, PaidInv, [Next]_vars, NEW q \in Requests
  PROVE  Priced(req'[q], bet')
<1>1. HandlerType /\ Priced(req[q], bet)
  BY DEF TypeOK, PaidInv
<1>2. CASE UNCHANGED <<session, bet, ledger, req, failures>>
  BY <1>1, <1>2
<1>3. ASSUME NEW r \in Requests, Others(r), UNCHANGED <<wallet, session, bet, ledger>>,
             Arrivals(r) \/ Reads(r) \/ Abort(r)
      PROVE  Priced(req'[q], bet')
  <2>1. q # r => Priced(req'[q], bet')
    BY <1>1, <1>3 DEF Others
  <2>2. q = r => Priced(req'[q], bet')
    BY <1>1, <1>3, ActorPriced
  <2> QED BY <2>1, <2>2
<1>4. ASSUME NEW r \in Requests, Others(r), req[r] \in Active, Writes(r)
      PROVE  Priced(req'[q], bet')
  <2>1. CASE q # r /\ Paying(req[q])
    <3>1. req[q] # Idle
      BY <2>1 DEF Paying, Idle
    <3>2. req[q].user # req[r].user
      BY <2>1, <3>1 DEF SerialInv, Alone
    <3>3. Owns(req[q], bet)
      BY <2>1, PayerOwns
    <3>4. Touches(req[r].user)
      BY <1>4, WritesTouch
    <3>5. bet'[req[q].ref] = bet[req[q].ref]
      BY <3>2, <3>3, <3>4 DEF Owns, Touches
    <3>6. req'[q] = req[q]
      BY <1>4, <2>1 DEF Others
    <3> QED BY <1>1, <3>5, <3>6 DEF Priced
  <2>2. CASE q # r /\ ~Paying(req[q])
    BY <1>1, <1>4, <2>2 DEF Others, Priced
  <2>3. q = r => Priced(req'[q], bet')
    BY <1>1, <1>4, ActorPriced
  <2> QED BY <2>1, <2>2, <2>3
<1> QED BY <1>1, <1>2, <1>3, <1>4, WhoWrites

\* The row of bet i and its ledger entry say of payment what they said.
SamePay(i) ==
  /\ i \in DOMAIN bet /\ i \in DOMAIN bet' /\ bet'[i] = bet[i]
  /\ ledger'[i].paid = ledger[i].paid /\ ledger'[i].payouts = ledger[i].payouts

\* A bet stays paid when neither it nor its payer moves.
LEMMA RowStays ==
  ASSUME NEW r \in Requests, Others(r), UNCHANGED failures, NEW i, RowPaid(i), SamePay(i),
         Paying(req'[r]) /\ req'[r].ref = i <=> Paying(req[r]) /\ req[r].ref = i
  PROVE  RowPaid(i)'
<1>1. \A q \in Requests : PaysFor(q, i)' <=> PaysFor(q, i)
  BY DEF Others, PaysFor
<1> QED BY <1>1 DEF RowPaid, SamePay

\* A handler that stops leaves the bet unpaid, which counts only until the first failure.
LEMMA RowKeptByAbort ==
  ASSUME TypeOK, NEW r \in Requests, Others(r), req'[r] = Idle, failures' = failures + 1,
         UNCHANGED <<bet, ledger>>, NEW i, RowPaid(i)
  PROVE  RowPaid(i)'
<1>1. ~Paying(req'[r])
  BY DEF Paying, Idle
<1>2. \A q \in Requests : PaysFor(q, i)' => PaysFor(q, i)
  BY <1>1 DEF Others, PaysFor
<1>3. failures' # 0
  BY DEF TypeOK
<1> QED BY <1>2, <1>3 DEF RowPaid

\* Nothing pays for a bet that is not there yet.
LEMMA NewRowUnpaid ==
  ASSUME RefInv, NEW q \in Requests, req'[q] = req[q], NEW n, n \notin DOMAIN bet
  PROVE  ~PaysFor(q, n)'
BY PayerOwns DEF PaysFor, Owns

\* An inserted bet is a round that pays nothing yet, or waits for the handler that will pay it.
LEMMA RowsAfterInsert ==
  ASSUME TypeOK, RefInv, PaidInv, NEW r \in Requests, Others(r), UNCHANGED failures,
         NewRow(r), ~Paying(req[r]), NEW n, n = Len(bet) + 1, Settled(bet'[n]),
         \/ ~Paying(req'[r]) /\ bet'[n].payout = 0
         \/ Paying(req'[r]) /\ req'[r].ref = n
  PROVE  \A i \in DOMAIN bet' : RowPaid(i)'
<1>1. /\ n \notin DOMAIN bet /\ DOMAIN bet' = DOMAIN bet \cup {n}
      /\ \A i \in DOMAIN bet : bet'[i] = bet[i] /\ ledger'[i] = ledger[i]
      /\ ledger'[n] = [staked |-> 0, paid |-> 0, payouts |-> 0]
  BY DEF NewRow
<1>2. ASSUME NEW i \in DOMAIN bet
      PROVE  RowPaid(i)'
  <2>1. SamePay(i) /\ RowPaid(i)
    BY <1>1, <1>2 DEF SamePay, PaidInv
  <2>2. Paying(req'[r]) /\ req'[r].ref = i <=> Paying(req[r]) /\ req[r].ref = i
    BY <1>1, <1>2
  <2> QED BY <2>1, <2>2, RowStays
<1>3. RowPaid(n)'
  <2>1. ledger'[n].paid = 0 /\ ledger'[n].payouts = 0
    BY <1>1
  <2>2. \A q \in Requests : q # r => ~PaysFor(q, n)'
    BY <1>1, NewRowUnpaid DEF Others
  <2>3. Paying(req'[r]) /\ req'[r].ref = n => PaysFor(r, n)'
    BY DEF PaysFor
  <2>4. bet'[n].payout = 0 \/ \E q \in Requests : PaysFor(q, n)'
    BY <2>3
  <2> QED BY <2>1, <2>4 DEF RowPaid
<1> QED BY <1>1, <1>2, <1>3

\* A payout row is inserted once, by the one handler that pays, and for what the bet says.
LEMMA RowsAfterPayout ==
  ASSUME TypeOK, RefInv, SerialInv, PaidInv, NEW r \in Requests, req[r] \in Active, Others(r),
         UNCHANGED <<bet, failures>>, Paying(req[r]), ~Paying(req'[r]),
         NEW k, k = req[r].ref, NEW staked, NEW payouts \in 0..1,
         EntryUpdated(k, staked, req[r].payout, payouts)
  PROVE  \A i \in DOMAIN bet' : RowPaid(i)'
<1>1. Owns(req[r], bet) /\ k \in DOMAIN bet /\ DOMAIN ledger = DOMAIN bet
  BY PayerOwns, LedgerDomain DEF Owns, TypeOK
<1>2. ASSUME NEW i \in DOMAIN bet, i # k
      PROVE  RowPaid(i)'
  <2>1. SamePay(i) /\ RowPaid(i)
    BY <1>1, <1>2 DEF SamePay, PaidInv, EntryUpdated
  <2>2. Paying(req'[r]) /\ req'[r].ref = i <=> Paying(req[r]) /\ req[r].ref = i
    BY <1>2
  <2> QED BY <2>1, <2>2, RowStays
<1>3. RowPaid(k)'
  <2>1. RowPaid(k) /\ ledger[k].paid = 0 /\ ledger[k].payouts = 0
    BY <1>1 DEF PaidInv, RowPaid, PaysFor
  <2>2. ledger'[k].paid = req[r].payout /\ ledger'[k].payouts = payouts
    <3>1. ledger'[k].paid = ledger[k].paid + req[r].payout
            /\ ledger'[k].payouts = ledger[k].payouts + payouts
      BY <1>1 DEF EntryUpdated
    <3>2. req[r].payout \in Nat
      BY DEF Active
    <3> QED BY <2>1, <3>1, <3>2
  <2>3. bet[k].payout = req[r].payout /\ bet[k].status # "open"
    BY DEF PaidInv, Priced
  <2>4. ASSUME NEW q \in Requests
        PROVE  ~PaysFor(q, k)'
    <3>1. PaysFor(q, k) => q = r
      BY <1>1, OnlyPayer DEF TypeOK
    <3>2. q # r => req'[q] = req[q]
      BY DEF Others
    <3> QED BY <3>1, <3>2 DEF PaysFor
  <2> QED BY <2>1, <2>2, <2>3, <2>4 DEF RowPaid
<1> QED BY <1>1, <1>2, <1>3

\* A round is closed unpaid, with nothing to pay or by the handler that then pays.
LEMMA RowsAfterMove ==
  ASSUME TypeOK, RefInv, SerialInv, PaidInv, NEW r \in Requests, req[r] \in Active, Others(r),
         UNCHANGED <<ledger, failures>>, NEW k, k = req[r].ref, Owns(req[r], bet),
         BetUpdated(k), bet[k].status = "open", Settled(bet'[k]), ~Paying(req[r]),
         \/ ~Paying(req'[r]) /\ bet'[k].payout = 0
         \/ Paying(req'[r]) /\ req'[r].ref = k
  PROVE  \A i \in DOMAIN bet' : RowPaid(i)'
<1>1. k \in DOMAIN bet /\ DOMAIN bet' = DOMAIN bet
  BY DEF Owns, BetUpdated
<1>2. ASSUME NEW i \in DOMAIN bet, i # k
      PROVE  RowPaid(i)'
  <2>1. SamePay(i) /\ RowPaid(i)
    BY <1>1, <1>2 DEF SamePay, PaidInv, BetUpdated
  <2>2. Paying(req'[r]) /\ req'[r].ref = i <=> Paying(req[r]) /\ req[r].ref = i
    BY <1>2
  <2> QED BY <2>1, <2>2, RowStays
<1>3. RowPaid(k)'
  <2>1. ledger'[k].paid = 0 /\ ledger'[k].payouts = 0
    BY <1>1 DEF PaidInv, RowPaid
  <2>2. Paying(req'[r]) /\ req'[r].ref = k => PaysFor(r, k)'
    BY DEF PaysFor
  <2>3. bet'[k].payout = 0 \/ \E q \in Requests : PaysFor(q, k)'
    BY <2>2
  <2> QED BY <2>1, <2>3 DEF RowPaid
<1> QED BY <1>1, <1>2, <1>3

\* A step that moves no bet, no payout and no payer leaves everything paid as it was.
LEMMA RowsUnmoved ==
  ASSUME TypeOK, PaidInv, NEW r \in Requests, Others(r), UNCHANGED <<bet, failures>>,
         ~Paying(req[r]), ~Paying(req'[r]),
         \A i \in DOMAIN bet : ledger'[i].paid = ledger[i].paid
                                 /\ ledger'[i].payouts = ledger[i].payouts
  PROVE  \A i \in DOMAIN bet' : RowPaid(i)'
<1> SUFFICES ASSUME NEW i \in DOMAIN bet
             PROVE  RowPaid(i)'
  OBVIOUS
<1>1. SamePay(i) /\ RowPaid(i)
  BY DEF SamePay, PaidInv
<1> QED BY <1>1, RowStays

\* What the result of an instant bet pays.
LEMMA RolledIsSettled ==
  ASSUME NEW b, b.stake \in Nat, b.mult \in Nat, b.payout = RoundMoney(b.stake * b.mult),
         b.status = IF b.mult > 0 THEN "won" ELSE "lost"
  PROVE  Settled(b)
<1>1. CASE b.mult > 0
  BY <1>1 DEF Settled
<1>2. CASE b.mult = 0
  <2>1. b.stake * 0 = 0
    OBVIOUS
  <2>2. b.payout = 0
    BY <1>2, <2>1 DEF RoundMoney
  <2> QED BY <1>2, <2>2 DEF Settled
<1> QED BY <1>1, <1>2

\* placeBet's writes keep every bet paid at most once.
LEMMA PaidByBet ==
  ASSUME TypeOK, RefInv, SerialInv, PaidInv, NEW r \in Requests, BetWrites(r)
  PROVE  \A i \in DOMAIN bet' : RowPaid(i)'
<1> USE DEF At
<1>1. HandlerType /\ req[r] \in Active /\ Others(r) /\ UNCHANGED failures
  BY BetWriting DEF TypeOK
<1>2. \A i \in DOMAIN bet : UNCHANGED ledger => /\ ledger'[i].paid = ledger[i].paid
                                               /\ ledger'[i].payouts = ledger[i].payouts
  OBVIOUS
<1>3. CASE SettleWallet(r) \/ BumpSettledBet(r) \/ ConsumeForcedRound(r)
  <2>1. req'[r] = Idle \/ req'[r].pc \in {"insert", "consume"}
    BY <1>1, <1>3, BetWriting DEF GoesOn
  <2>2. ~Paying(req'[r])
    BY <2>1 DEF Paying, Idle
  <2>3. ~Paying(req[r]) /\ UNCHANGED <<bet, ledger>>
    BY <1>3 DEF Paying, SettleWallet, BumpSettledBet, ConsumeForcedRound
  <2> QED BY <1>1, <1>2, <2>2, <2>3, RowsUnmoved
<1>4. CASE InsertSettledBet(r)
  <2>1. PICK n : n = Len(bet) + 1
    OBVIOUS
  <2>2. /\ NewRow(r) /\ bet'[n].mult = req[r].mult /\ bet'[n].payout = req[r].payout
        /\ bet'[n].status = IF req[r].mult > 0 THEN "won" ELSE "lost"
    BY <1>4, <2>1, BetInserted
  <2>3. bet'[n].stake = req[r].stake
    BY <2>1, <2>2 DEF NewRow
  <2>4. req[r].payout = RoundMoney(req[r].stake * req[r].mult)
    BY <1>4 DEF PaidInv, Priced, InsertSettledBet
  <2>5. req[r].stake \in Nat /\ req[r].mult \in Nat
    BY <1>1 DEF Active
  <2>6. Settled(bet'[n])
    BY <2>2, <2>3, <2>4, <2>5, RolledIsSettled
  <2>7. req'[r].op = "placeBet" /\ req'[r].pc = "ledger" /\ req'[r].ref = n
    BY <1>1, <1>4, <2>1, BetWriting DEF Inserted, InsertSettledBet
  <2>8. ~Paying(req[r]) /\ Paying(req'[r])
    BY <1>4, <2>7 DEF Paying, InsertSettledBet
  <2> QED BY <1>1, <2>1, <2>2, <2>6, <2>7, <2>8, RowsAfterInsert
<1>5. CASE InsertBetLedger(r)
  <2>1. PICK k : k = req[r].ref
    OBVIOUS
  <2>2. PICK payouts \in 0..1 : EntryUpdated(k, req[r].stake, req[r].payout, payouts)
    BY <1>5, <2>1, LedgerRowsWritten
  <2>3. Paying(req[r]) /\ UNCHANGED bet
    BY <1>5 DEF Paying, InsertBetLedger
  <2>4. ~Paying(req'[r])
    BY <1>1, <1>5, BetWriting DEF GoesOn, Paying
  <2> QED BY <1>1, <2>1, <2>2, <2>3, <2>4, RowsAfterPayout
<1> QED BY <1>3, <1>4, <1>5 DEF BetWrites

\* So do those of Mines and Towers.
LEMMA PaidByRound ==
  ASSUME TypeOK, RefInv, SerialInv, PaidInv, NEW r \in Requests, NEW g \in GridGames,
         RoundWrites(r, g)
  PROVE  \A i \in DOMAIN bet' : RowPaid(i)'
<1> USE DEF At, Step
<1>1. HandlerType /\ req[r] \in Active /\ Others(r) /\ UNCHANGED failures
  BY RoundWriting DEF TypeOK
<1>2. \A i \in DOMAIN bet : UNCHANGED ledger => /\ ledger'[i].paid = ledger[i].paid
                                               /\ ledger'[i].payouts = ledger[i].payouts
  OBVIOUS
<1>3. CASE \/ HoldStake(r, g) \/ BumpStartedRound(r, g) \/ ReleaseStake(r, g)
           \/ CreditPayout(r, g) \/ BumpCashedOutRound(r, g)
  <2>1. req'[r] = Idle \/ req'[r].pc \in {"insert", "lost", "settle"}
    BY <1>1, <1>3, RoundWriting DEF GoesOn
  <2>2. ~Paying(req'[r])
    BY <2>1 DEF Paying, Idle
  <2>3. ~Paying(req[r]) /\ UNCHANGED <<bet, ledger>>
    BY <1>3 DEF Paying, HoldStake, BumpStartedRound, ReleaseStake, CreditPayout, BumpCashedOutRound
  <2> QED BY <1>1, <1>2, <2>2, <2>3, RowsUnmoved
<1>4. CASE InsertOpenRound(r, g)
  <2>1. PICK n : n = Len(bet) + 1
    OBVIOUS
  <2>2. NewRow(r) /\ bet'[n].payout = 0 /\ bet'[n].status = "open"
    BY <1>4, <2>1, BetInserted
  <2>3. Settled(bet'[n])
    BY <2>2 DEF Settled
  <2>4. ~Paying(req[r])
    BY <1>4 DEF Paying, InsertOpenRound
  <2>5. ~Paying(req'[r])
    BY <1>1, <1>4, RoundWriting DEF Inserted, InsertOpenRound, Paying
  <2> QED BY <1>1, <2>1, <2>2, <2>3, <2>4, <2>5, RowsAfterInsert
<1>5. CASE InsertStakeRow(r, g)
  <2>1. EntryUpdated(req[r].ref, req[r].stake, 0, 0)
    BY <1>5, LedgerRowsWritten
  <2>2. ASSUME NEW i \in DOMAIN bet
        PROVE  ledger'[i].paid = ledger[i].paid /\ ledger'[i].payouts = ledger[i].payouts
    <3>1. i \in DOMAIN ledger
      BY LedgerDomain DEF TypeOK
    <3>2. ledger[i].paid \in Nat /\ ledger[i].payouts \in Nat
      <4>1. ledger[i] \in LedgerRows
        BY <3>1, ElementType DEF TypeOK, LedgerType
      <4> QED BY <4>1 DEF LedgerRows
    <3> QED BY <2>1, <3>1, <3>2 DEF EntryUpdated
  <2>3. ~Paying(req[r]) /\ UNCHANGED bet
    BY <1>5 DEF Paying, InsertStakeRow
  <2>4. ~Paying(req'[r])
    BY <1>1, <1>5, RoundWriting DEF GoesOn, Paying
  <2> QED BY <1>1, <2>2, <2>3, <2>4, RowsUnmoved
<1>6. CASE InsertPayoutRow(r, g)
  <2>1. PICK k : k = req[r].ref
    OBVIOUS
  <2>2. EntryUpdated(k, 0, req[r].payout, 1)
    BY <1>6, <2>1, LedgerRowsWritten
  <2>3. Paying(req[r]) /\ UNCHANGED bet
    BY <1>6 DEF Paying, InsertPayoutRow
  <2>4. ~Paying(req'[r])
    BY <1>1, <1>6, RoundWriting DEF GoesOn, Paying
  <2>5. 1 \in 0..1
    OBVIOUS
  <2> QED BY <1>1, <2>1, <2>2, <2>3, <2>4, <2>5, RowsAfterPayout
<1>7. CASE CloseLostRound(r, g) \/ RaiseMultiplier(r, g) \/ CloseCashedOutRound(r, g)
  <2>1. PICK k : k = req[r].ref
    OBVIOUS
  <2>2. Owns(req[r], bet) /\ bet[k].status = "open" /\ k \in DOMAIN bet
    BY <1>7, <2>1 DEF SerialInv, RefInv, Knows, RefersTo, Owns, Settling,
       CloseLostRound, RaiseMultiplier, CloseCashedOutRound
  <2>3. BetUpdated(k) /\ UNCHANGED ledger
    BY <1>7, <2>1, BetRowsWritten DEF CloseLostRound, RaiseMultiplier, CloseCashedOutRound
  <2>4. ~Paying(req[r])
    BY <1>7 DEF Paying, CloseLostRound, RaiseMultiplier, CloseCashedOutRound
  <2>5. bet[k].payout = 0
    BY <2>2 DEF PaidInv, RowPaid, Settled
  <2>6. CASE CloseLostRound(r, g)
    <3>1. bet'[k].status = "lost" /\ bet'[k].payout = 0
      BY <2>1, <2>2, <2>6, BetRowsWritten
    <3>2. ~Paying(req'[r])
      BY <1>1, <1>7, <2>6, RoundWriting DEF Paying, Idle
    <3>3. Settled(bet'[k])
      BY <3>1 DEF Settled
    <3> QED BY <1>1, <2>1, <2>2, <2>3, <2>4, <3>1, <3>2, <3>3, RowsAfterMove
  <2>7. CASE RaiseMultiplier(r, g)
    <3>1. bet'[k].status = "open" /\ bet'[k].payout = 0
      BY <2>1, <2>2, <2>5, <2>7, BetRowsWritten
    <3>2. ~Paying(req'[r])
      BY <1>1, <1>7, <2>7, RoundWriting DEF Paying, Idle
    <3>3. Settled(bet'[k])
      BY <3>1 DEF Settled
    <3> QED BY <1>1, <2>1, <2>2, <2>3, <2>4, <3>1, <3>2, <3>3, RowsAfterMove
  <2>8. CASE CloseCashedOutRound(r, g)
    <3>1. /\ bet'[k].status = "cashed_out" /\ bet'[k].payout = req[r].payout
          /\ bet'[k].mult = bet[k].mult
      BY <2>1, <2>2, <2>8, BetRowsWritten
    <3>2. bet'[k].stake = bet[k].stake
      BY <2>2, <2>3 DEF BetUpdated, SameBet
    <3>3. req[r].payout = RoundMoney(bet[k].stake * bet[k].mult)
      BY <2>1, <2>8 DEF SerialInv, Knows, CloseCashedOutRound
    <3>4. Settled(bet'[k])
      BY <3>1, <3>2, <3>3 DEF Settled
    <3>5. req'[r].op = "cashOut" /\ req'[r].pc = "ledger" /\ req'[r].ref = k
      BY <1>1, <1>7, <2>1, <2>8, RoundWriting DEF GoesOn, SameCall, CloseCashedOutRound
    <3>6. Paying(req'[r])
      BY <3>5 DEF Paying
    <3> QED BY <1>1, <2>1, <2>2, <2>3, <2>4, <3>4, <3>5, <3>6, RowsAfterMove
  <2> QED BY <1>7, <2>6, <2>7, <2>8
<1> QED BY <1>3, <1>4, <1>5, <1>6, <1>7 DEF RoundWrites

\* Every step keeps every bet paid at most once, and what it says.
LEMMA PaidKept ==
  ASSUME TypeOK, RefInv, SerialInv, PaidInv, [Next]_vars
  PROVE  PaidInv'
<1>1. HandlerType
  BY DEF TypeOK
<1>2. CASE UNCHANGED <<session, bet, ledger, req, failures>>
  <2>1. \A i \in DOMAIN bet' : RowPaid(i)'
    BY <1>2 DEF PaidInv, RowPaid, PaysFor
  <2> QED BY <2>1, PricedKept DEF PaidInv
<1>3. ASSUME NEW r \in Requests, Others(r), UNCHANGED <<wallet, session, bet, ledger>>,
             Arrivals(r) \/ Reads(r) \/ Abort(r)
      PROVE  \A i \in DOMAIN bet' : RowPaid(i)'
  <2>1. \A i \in DOMAIN bet : /\ ledger'[i].paid = ledger[i].paid
                              /\ ledger'[i].payouts = ledger[i].payouts
    BY <1>3
  <2>2. CASE Arrivals(r)
    <3>1. req[r] = Idle /\ Arrived(req'[r]) /\ UNCHANGED failures
      BY <1>1, <2>2, Arriving
    <3>2. ~Paying(req[r]) /\ ~Paying(req'[r])
      BY <3>1 DEF Paying, Arrived, Idle
    <3> QED BY <1>3, <2>1, <3>1, <3>2, RowsUnmoved
  <2>3. CASE Reads(r)
    <3>1. /\ req[r] \in Active /\ UNCHANGED failures
          /\ req'[r] = Idle \/ Read(req[r], req'[r])
      BY <1>1, <2>3, Reading
    <3>2. ~Paying(req'[r])
      BY <3>1 DEF Paying, Read, Idle, SameRequest
    <3>3. ~Paying(req[r])
      BY <2>3 DEF Paying, Reads, At, Step, GetPlayableGame, ReadSession, PlaceBetChecks,
         ReadWallet, CountBets, RollRound, StartChecks, SelectOpenRound, LayGrid,
         RevealChecks, ReadRound, CashOutChecks, ReadRoundToPay
    <3> QED BY <1>3, <2>1, <3>1, <3>2, <3>3, RowsUnmoved
  <2>4. CASE Abort(r)
    <3>1. req'[r] = Idle /\ failures' = failures + 1
      BY <1>1, <2>4, FinishKeeps DEF Abort
    <3> QED BY <1>3, <3>1, RowKeptByAbort DEF PaidInv
  <2> QED BY <1>3, <2>2, <2>3, <2>4
<1>4. ASSUME NEW r \in Requests, SessionWrites(r)
      PROVE  \A i \in DOMAIN bet' : RowPaid(i)'
  <2>1. Others(r) /\ UNCHANGED <<bet, ledger, failures>>
    BY <1>1, <1>4, SessionWriting
  <2>2. req'[r] = Idle \/ req'[r].pc = "insert"
    BY <1>1, <1>4, SessionWriting DEF SessionWrites, GoesOn
  <2>3. ~Paying(req'[r])
    BY <2>2 DEF Paying, Idle
  <2>4. ~Paying(req[r])
    BY <1>4 DEF Paying, At, SessionWrites, EndOpenSessions, InsertSession, MarkEnded
  <2>5. \A i \in DOMAIN bet : /\ ledger'[i].paid = ledger[i].paid
                              /\ ledger'[i].payouts = ledger[i].payouts
    BY <2>1
  <2> QED BY <2>1, <2>3, <2>4, <2>5, RowsUnmoved
<1>5. (\A i \in DOMAIN bet' : RowPaid(i)') => PaidInv'
  BY PricedKept DEF PaidInv
<1> QED BY <1>1, <1>2, <1>3, <1>4, <1>5, WhoWrites, PaidByBet, PaidByRound DEF Writes

\* No bets, nothing to pay.
LEMMA InitPaid == Init => PaidInv
<1> SUFFICES ASSUME Init PROVE PaidInv
  OBVIOUS
<1>1. DOMAIN bet = {} /\ \A r \in Requests : req[r] = Idle
  BY DEF Init
<1>2. Priced(Idle, bet)
  BY UnpaidIsPriced DEF Paying, Idle
<1> QED BY <1>1, <1>2 DEF PaidInv

\* The two invariants of serial players hold in every state.
LEMMA PaidHolds ==
  ASSUME SerialPlayers
  PROVE  Spec => [](TypeOK /\ BookInv /\ SerialInv /\ PaidInv)
<1>1. Init => TypeOK /\ MoneyInv /\ BookInv /\ SerialInv /\ PaidInv
  BY InitKeepsInv, InitBooks, InitSerial, InitPaid
<1>2. TypeOK /\ MoneyInv /\ BookInv /\ SerialInv /\ PaidInv /\ [Next]_vars
        => (TypeOK /\ MoneyInv /\ BookInv /\ SerialInv /\ PaidInv)'
  BY StepKeepsInv, RefsKept, StakeKept, SerialKept, PaidKept DEF BookInv
<1> QED BY <1>1, <1>2, PTL DEF Spec

\* A settled bet is paid once, what its row says: cashOut closes the round and books the
\* payout in separate statements, and placeBet inserts the bet before its payout row.
THEOREM BetsArePaidOnce == ASSUME SerialPlayers PROVE Spec => []PaidOnce
<1>1. BookInv /\ PaidInv => PaidOnce
  <2> SUFFICES ASSUME BookInv, PaidInv, failures = 0, NEW i \in DOMAIN bet, Quiet(bet[i].user)
               PROVE  /\ ledger[i].payouts <= 1 /\ ledger[i].paid = bet[i].payout
                      /\ Settled(bet[i])
    BY DEF PaidOnce, Settled
  <2>1. \A r \in Requests : ~PaysFor(r, i)
    BY PayerOwns DEF PaysFor, Owns, Quiet, InFlight, BookInv
  <2> QED BY <2>1 DEF PaidInv, RowPaid
<1> QED BY <1>1, PaidHolds, PTL
=============================================================================
