---------------------------- MODULE BetBookProofs ----------------------------
(***************************************************************************)
(* What wallets hold for the rounds in play, and the proof that the play   *)
(* service keeps the book BetBook promises, for players who send one       *)
(* request at a time and as long as no handler has failed; that instant    *)
(* bets are capped, whatever the players send; and that a rule forces as   *)
(* many instant bets as it was given.                                      *)
(***************************************************************************)
EXTENDS SerialProofs

---------------------------------------------------------------------------
(* The stakes of a player's rounds on a game, of handlers R over bets B *)

Opens(h, u, g) == h.user = u /\ h.op = "start" /\ h.pc = "insert" /\ h.game = g

Releases(h, i) ==
  h.ref = i /\ ((h.op = "reveal" /\ h.pc = "lost") \/ (h.op = "cashOut" /\ h.pc = "settle"))

Opening(R, u, g) == {r \in Requests : Opens(R[r], u, g)}

InPlay(R, B, u, g) ==
  {i \in DOMAIN B : /\ B[i].user = u /\ B[i].game = g /\ B[i].status = "open"
                    /\ ~\E r \in Requests : Releases(R[r], i)}

Stakings(R) == [r \in Requests |-> R[r].stake]
Staking(B)  == [i \in DOMAIN B |-> B[i].stake]

HeldOf(R, B, u, g) ==
  SumOver(Stakings(R), Opening(R, u, g)) + SumOver(Staking(B), InPlay(R, B, u, g))

\* What is held now and after a step.
LEMMA HeldIs ==
  ASSUME NEW u, NEW g
  PROVE  Held(u, g) = HeldOf(req, bet, u, g) /\ Held(u, g)' = HeldOf(req', bet', u, g)
<1>1. /\ {r \in InFlight(u) : Step(r, "start", g, "insert")} = Opening(req, u, g)
      /\ {r \in InFlight(u)' : Step(r, "start", g, "insert")'} = Opening(req', u, g)
  BY DEF InFlight, Step, At, Opening, Opens
<1>2. \A i : /\ Releasing(i) <=> \E r \in Requests : Releases(req[r], i)
             /\ Releasing(i)' <=> \E r \in Requests : Releases(req'[r], i)
  BY DEF Releasing, Releases, At
<1>3. {i \in Open(u, g) : ~Releasing(i)} = InPlay(req, bet, u, g)
  BY <1>2 DEF Open, BetsOf, InPlay
<1>4. {i \in Open(u, g)' : ~Releasing(i)'} = InPlay(req', bet', u, g)
  BY <1>2 DEF Open, BetsOf, InPlay
<1>5. Held(u, g) = HeldOf(req, bet, u, g)
  BY <1>1, <1>3 DEF Held, HeldOf, Stakings, Staking
<1>6. Held(u, g)' = HeldOf(req', bet', u, g)
  BY <1>1, <1>4 DEF Held, HeldOf, Stakings, Staking
<1> QED BY <1>5, <1>6

\* Nothing is held with no round in play.
LEMMA HoldsNothing ==
  ASSUME NEW R, NEW B, NEW u, NEW g, Opening(R, u, g) = {}, InPlay(R, B, u, g) = {}
  PROVE  HeldOf(R, B, u, g) = 0
<1>1. SumOver(Stakings(R), {}) = 0 /\ SumOver(Staking(B), {}) = 0
  BY SumEmpty
<1> QED BY <1>1 DEF HeldOf

\* The stake of a start that has debited it and not inserted its round.
LEMMA HoldsOpening ==
  ASSUME NEW R, NEW B, NEW u, NEW g, NEW r \in Requests, R[r].stake \in Nat,
         Opening(R, u, g) = {r}, InPlay(R, B, u, g) = {}
  PROVE  HeldOf(R, B, u, g) = R[r].stake
<1>1. Stakings(R)[r] = R[r].stake
  BY DEF Stakings
<1>2. SumOver(Stakings(R), {r}) = R[r].stake /\ SumOver(Staking(B), {}) = 0
  BY <1>1, SumOne, SumEmpty
<1> QED BY <1>2 DEF HeldOf

\* The stake of the round.
LEMMA HoldsRound ==
  ASSUME NEW R, NEW B, NEW u, NEW g, NEW i \in DOMAIN B, B[i].stake \in Nat,
         Opening(R, u, g) = {}, InPlay(R, B, u, g) = {i}
  PROVE  HeldOf(R, B, u, g) = B[i].stake
<1>1. Staking(B)[i] = B[i].stake
  BY DEF Staking
<1>2. SumOver(Staking(B), {i}) = B[i].stake /\ SumOver(Stakings(R), {}) = 0
  BY <1>1, SumOne, SumEmpty
<1> QED BY <1>2 DEF HeldOf

\* As much is held as before when the same rounds are in play.
LEMMA HoldsSame ==
  ASSUME NEW R, NEW B, NEW R2, NEW B2, NEW u, NEW g,
         IsFiniteSet(Opening(R, u, g)), IsFiniteSet(InPlay(R, B, u, g)),
         Opening(R2, u, g) = Opening(R, u, g), InPlay(R2, B2, u, g) = InPlay(R, B, u, g),
         \A r \in Opening(R, u, g) : R2[r].stake = R[r].stake,
         \A i \in InPlay(R, B, u, g) : B2[i].stake = B[i].stake
  PROVE  HeldOf(R2, B2, u, g) = HeldOf(R, B, u, g)
<1>1. SumOver(Stakings(R2), Opening(R, u, g)) = SumOver(Stakings(R), Opening(R, u, g))
  <2>1. \A r \in Opening(R, u, g) : Stakings(R2)[r] = Stakings(R)[r]
    BY DEF Stakings, Opening
  <2> QED BY <2>1, SumSame
<1>2. SumOver(Staking(B2), InPlay(R, B, u, g)) = SumOver(Staking(B), InPlay(R, B, u, g))
  <2>1. \A i \in InPlay(R, B, u, g) : Staking(B2)[i] = Staking(B)[i]
    <3>1. \A i \in InPlay(R, B, u, g) : i \in DOMAIN B /\ i \in DOMAIN B2
      BY DEF InPlay
    <3> QED BY <3>1 DEF Staking
  <2> QED BY <2>1, SumSame
<1> QED BY <1>1, <1>2 DEF HeldOf

\* A serial player has few rounds in play.
LEMMA RoundsAreFinite ==
  ASSUME TypeOK, SerialInv, NEW u, NEW g
  PROVE  /\ IsFiniteSet(Opening(req, u, g)) /\ IsFiniteSet(InPlay(req, bet, u, g))
         /\ HeldOf(req, bet, u, g) \in Nat
<1>1. \A q, r \in Opening(req, u, g) : q = r
  <2> SUFFICES ASSUME NEW q \in Requests, NEW r \in Requests, Opens(req[q], u, g),
                      Opens(req[r], u, g)
               PROVE  q = r
    BY DEF Opening
  <2>1. req[q] # Idle
    BY DEF Opens, Idle
  <2> QED BY <2>1 DEF Opens, SerialInv, Alone
<1>2. IsFiniteSet(Opening(req, u, g))
  <2>1. CASE Opening(req, u, g) = {}
    BY <2>1, FS_EmptySet
  <2>2. ASSUME NEW r \in Opening(req, u, g)
        PROVE  IsFiniteSet(Opening(req, u, g))
    <3>1. Opening(req, u, g) = {r}
      BY <1>1, <2>2
    <3> QED BY <3>1, FS_Singleton
  <2> QED BY <2>1, <2>2
<1>3. IsFiniteSet(InPlay(req, bet, u, g))
  <2>1. InPlay(req, bet, u, g) \subseteq BetsIn(bet, u)
    BY DEF InPlay, BetsIn
  <2> QED BY <2>1, BetsAreFinite, FS_Subset DEF TypeOK
<1>4. \A r \in Opening(req, u, g) : Stakings(req)[r] \in Nat
  <2> SUFFICES ASSUME NEW r \in Requests, Opens(req[r], u, g)
               PROVE  req[r].stake \in Nat
    BY DEF Opening, Stakings
  <2>1. req[r] # Idle
    BY DEF Opens, Idle
  <2>2. req[r] \in Active
    BY <2>1, AtActive DEF TypeOK
  <2> QED BY <2>2 DEF Active
<1>5. \A i \in InPlay(req, bet, u, g) : Staking(bet)[i] \in Nat
  BY RowsAreFinite DEF InPlay, Staking
<1>6. /\ SumOver(Stakings(req), Opening(req, u, g)) \in Nat
      /\ SumOver(Staking(bet), InPlay(req, bet, u, g)) \in Nat
  BY <1>2, <1>3, <1>4, <1>5, SumType
<1> QED BY <1>2, <1>3, <1>6 DEF HeldOf

---------------------------------------------------------------------------
(* Who moves what is held *)

\* The round a handler has read is its player's, on its game.
LEMMA RefIsOfGame ==
  ASSUME NEW h, NEW S, NEW B, RefersTo(h, S, B), \A i \in DOMAIN B : SessionOf(B[i], S),
         \/ h.op \in Settling /\ h.pc \notin {"session", "row"}
         \/ h.op \in Betting /\ h.pc \in {"ledger", "bump", "consume"}
  PROVE  h.ref \in DOMAIN B /\ B[h.ref].user = h.user /\ B[h.ref].game = h.game
<1>1. h.ref \in DOMAIN B /\ B[h.ref].user = h.user /\ B[h.ref].sid = h.sid
  BY DEF RefersTo, Owns
<1>2. S[h.sid].game = h.game
  BY DEF RefersTo, Playing, Betting, Settling
<1> QED BY <1>1, <1>2 DEF SessionOf

\* What the handler that acts leaves alone: bets of other players and games.
BetsElsewhere(v, g) ==
  /\ DOMAIN bet \subseteq DOMAIN bet'
  /\ \A i \in DOMAIN bet : ~(bet[i].user = v /\ bet[i].game = g) => bet'[i] = bet[i]
  /\ \A i \in DOMAIN bet : bet'[i].user = bet[i].user /\ bet'[i].game = bet[i].game
  /\ \A i \in DOMAIN bet' \ DOMAIN bet : bet'[i].user = v /\ bet'[i].game = g

\* Then what is held for other players and games stays.
LEMMA HeldElsewhere ==
  ASSUME TypeOK, RefInv, RefInv', SerialInv, NEW r \in Requests, Others(r), NEW v, NEW g,
         req[r].user = v /\ req[r].game = g,
         req'[r] = Idle \/ (req'[r].user = v /\ req'[r].game = g),
         BetsElsewhere(v, g), NEW u, NEW f, u # v \/ f # g, u # Nobody
  PROVE  Held(u, f)' = Held(u, f)
<1>1. ~Opens(req[r], u, f) /\ ~Opens(req'[r], u, f)
  BY DEF Opens, Idle
<1>2. Opening(req', u, f) = Opening(req, u, f)
  BY <1>1 DEF Opening, Others
<1>3. \A q \in Opening(req, u, f) : req'[q].stake = req[q].stake
  BY <1>1 DEF Opening, Others
<1>4. ASSUME NEW i \in DOMAIN bet, bet[i].user = u, bet[i].game = f
      PROVE  ~Releases(req[r], i) /\ ~Releases(req'[r], i)
  <2>1. ~Releases(req[r], i)
    <3>1. Releases(req[r], i) => req[r].op \in Settling /\ req[r].pc \notin {"session", "row"}
      BY DEF Releases, Settling
    <3>2. Releases(req[r], i) => bet[i].user = req[r].user /\ bet[i].game = req[r].game
      BY <3>1, RefIsOfGame DEF RefInv, Releases
    <3> QED BY <1>4, <3>2
  <2>2. ~Releases(req'[r], i)
    <3>1. Releases(req'[r], i) => req'[r].op \in Settling /\ req'[r].pc \notin {"session", "row"}
      BY DEF Releases, Settling
    <3>2. RefersTo(req'[r], session', bet') /\ \A j \in DOMAIN bet' : SessionOf(bet'[j], session')
      BY DEF RefInv
    <3>3. Releases(req'[r], i) => bet'[i].user = req'[r].user /\ bet'[i].game = req'[r].game
      BY <3>1, <3>2, RefIsOfGame DEF Releases
    <3>4. ~Releases(Idle, i)
      BY DEF Releases, Idle
    <3>5. bet'[i].user = u /\ bet'[i].game = f
      BY <1>4 DEF BetsElsewhere
    <3> QED BY <3>3, <3>4, <3>5
  <2> QED BY <2>1, <2>2
<1>5. ASSUME NEW i \in DOMAIN bet, bet[i].user = u, bet[i].game = f
      PROVE  /\ bet'[i] = bet[i]
             /\ (\E q \in Requests : Releases(req'[q], i)) <=> \E q \in Requests : Releases(req[q], i)
  BY <1>4, <1>5 DEF BetsElsewhere, Others
<1>6. InPlay(req', bet', u, f) = InPlay(req, bet, u, f)
  <2>1. ASSUME NEW i
        PROVE  i \in InPlay(req', bet', u, f) <=> i \in InPlay(req, bet, u, f)
    <3>1. i \in InPlay(req', bet', u, f) => i \in DOMAIN bet /\ bet[i].user = u /\ bet[i].game = f
      BY DEF InPlay, BetsElsewhere
    <3>2. i \in InPlay(req, bet, u, f) => i \in DOMAIN bet /\ bet[i].user = u /\ bet[i].game = f
      BY DEF InPlay
    <3>3. i \in DOMAIN bet => i \in DOMAIN bet'
      BY DEF BetsElsewhere
    <3> QED BY <1>5, <3>1, <3>2, <3>3 DEF InPlay
  <2> QED BY <2>1
<1>7. \A i \in InPlay(req, bet, u, f) : bet'[i].stake = bet[i].stake
  BY <1>5 DEF InPlay
<1>8. HeldOf(req', bet', u, f) = HeldOf(req, bet, u, f)
  BY <1>2, <1>3, <1>6, <1>7, RoundsAreFinite, HoldsSame
<1> QED BY <1>8, HeldIs

\* The stake a handler is about to put in a row, or has given back.
Between(h) ==
  \/ h.op = "start" /\ h.pc = "insert"
  \/ h.op = "reveal" /\ h.pc = "lost"
  \/ h.op = "cashOut" /\ h.pc = "settle"

\* The rounds in play stay: other rows are finished, before and after.
SameRounds ==
  /\ DOMAIN bet \subseteq DOMAIN bet'
  /\ \A i \in DOMAIN bet : SameBet(bet'[i], bet[i]) /\ (bet'[i].status = bet[i].status)
  /\ \A i \in DOMAIN bet' \ DOMAIN bet : bet'[i].status # "open"

\* Nothing is held or released by a handler between two other statements.
LEMMA HeldStays ==
  ASSUME TypeOK, SerialInv, NEW r \in Requests, Others(r),
         ~Between(req[r]), ~Between(req'[r]), SameRounds, NEW u, NEW g
  PROVE  Held(u, g)' = Held(u, g)
<1>1. ~Opens(req[r], u, g) /\ ~Opens(req'[r], u, g)
  BY DEF Between, Opens
<1>2. Opening(req', u, g) = Opening(req, u, g)
  BY <1>1 DEF Opening, Others
<1>3. \A q \in Opening(req, u, g) : req'[q].stake = req[q].stake
  BY <1>1 DEF Opening, Others
<1>4. \A i : ~Releases(req[r], i) /\ ~Releases(req'[r], i)
  BY DEF Between, Releases
<1>5. \A i : (\E q \in Requests : Releases(req'[q], i)) <=> \E q \in Requests : Releases(req[q], i)
  BY <1>4 DEF Others
<1>6. InPlay(req', bet', u, g) = InPlay(req, bet, u, g)
  BY <1>5 DEF InPlay, SameRounds, SameBet
<1>7. \A i \in InPlay(req, bet, u, g) : bet'[i].stake = bet[i].stake
  BY DEF InPlay, SameRounds, SameBet
<1>8. HeldOf(req', bet', u, g) = HeldOf(req, bet, u, g)
  BY <1>2, <1>3, <1>6, <1>7, RoundsAreFinite, HoldsSame
<1> QED BY <1>8, HeldIs

\* Closing a round whose stake was given back changes nothing that is held.
LEMMA HeldAtClose ==
  ASSUME TypeOK, SerialInv, NEW r \in Requests, Others(r), NEW i \in DOMAIN bet,
         Releases(req[r], i), ~Between(req'[r]), BetUpdated(i), bet'[i].status # "open",
         NEW u, NEW g
  PROVE  Held(u, g)' = Held(u, g)
<1>1. ~Opens(req[r], u, g) /\ ~Opens(req'[r], u, g)
  BY DEF Between, Opens, Releases
<1>2. Opening(req', u, g) = Opening(req, u, g)
  BY <1>1 DEF Opening, Others
<1>3. \A q \in Opening(req, u, g) : req'[q].stake = req[q].stake
  BY <1>1 DEF Opening, Others
<1>4. \A j : j # i => ~Releases(req[r], j)
  BY DEF Releases
<1>5. \A j : ~Releases(req'[r], j)
  BY DEF Between, Releases
<1>6. \A j : j # i => ((\E q \in Requests : Releases(req'[q], j))
                        <=> \E q \in Requests : Releases(req[q], j))
  BY <1>4, <1>5 DEF Others
<1>7. i \notin InPlay(req, bet, u, g) /\ i \notin InPlay(req', bet', u, g)
  BY DEF InPlay
<1>8. ASSUME NEW j, j # i
      PROVE  j \in InPlay(req', bet', u, g) <=> j \in InPlay(req, bet, u, g)
  BY <1>6, <1>8 DEF InPlay, BetUpdated
<1>9. InPlay(req', bet', u, g) = InPlay(req, bet, u, g)
  BY <1>7, <1>8
<1>10. \A j \in InPlay(req, bet, u, g) : bet'[j].stake = bet[j].stake
  BY DEF InPlay, BetUpdated, SameBet
<1>11. HeldOf(req', bet', u, g) = HeldOf(req, bet, u, g)
  BY <1>2, <1>3, <1>9, <1>10, RoundsAreFinite, HoldsSame
<1> QED BY <1>11, HeldIs

\* The rounds of player v with no handler but r: none opens but its own, none is released
\* but its own.
OwnedBy(R, B, r, v, g) ==
  /\ Opening(R, v, g) = IF Opens(R[r], v, g) THEN {r} ELSE {}
  /\ \A i : i \in InPlay(R, B, v, g) <=>
              /\ i \in DOMAIN B /\ B[i].user = v /\ B[i].game = g
              /\ B[i].status = "open" /\ ~Releases(R[r], i)

\* They are so for the only handler a player has.
LEMMA OwnRounds ==
  ASSUME NEW R, NEW S, NEW B, NEW r \in Requests, NEW v, NEW g,
         \A q \in Requests : RefersTo(R[q], S, B), \A i \in DOMAIN B : SessionOf(B[i], S),
         \A q \in Requests : R[q].user = v => q = r
  PROVE  OwnedBy(R, B, r, v, g)
<1>1. Opening(R, v, g) = IF Opens(R[r], v, g) THEN {r} ELSE {}
  BY DEF Opening, Opens
<1>2. ASSUME NEW i \in DOMAIN B, B[i].user = v, NEW q \in Requests, Releases(R[q], i)
      PROVE  q = r
  <2>1. R[q].op \in Settling /\ R[q].pc \notin {"session", "row"} /\ R[q].ref = i
    BY <1>2 DEF Releases, Settling
  <2>2. B[i].user = R[q].user
    BY <2>1, RefIsOfGame
  <2> QED BY <1>2, <2>2
<1>3. \A i \in DOMAIN B : B[i].user = v =>
        ((\E q \in Requests : Releases(R[q], i)) <=> Releases(R[r], i))
  BY <1>2
<1> QED BY <1>1, <1>3 DEF InPlay, OwnedBy

---------------------------------------------------------------------------
(* The statements that take a stake, put it in a row and give it back *)

\* The state the next lemmas speak of, and the one it goes to.
Serial == TypeOK /\ RefInv /\ SerialInv

\* A handler in flight stays its player's only one.
LEMMA OnlyHandler ==
  ASSUME Serial, NEW r \in Requests, req[r] \in Active, Others(r)
  PROVE  /\ \A q \in Requests : req[q].user = req[r].user => q = r
         /\ \A q \in Requests : req'[q].user = req[r].user => q = r
<1>1. req[r] # Idle
  BY ActiveIsBusy
<1>2. \A q \in Requests : req[q].user = req[r].user => q = r
  BY <1>1 DEF Serial, SerialInv, Alone
<1> QED BY <1>2 DEF Others

\* So the rounds of its player are its own, before and after it acts.
LEMMA ActorsRounds ==
  ASSUME Serial, Serial', NEW r \in Requests, req[r] \in Active, Others(r), NEW v,
         v = req[r].user, NEW g
  PROVE  OwnedBy(req, bet, r, v, g) /\ OwnedBy(req', bet', r, v, g)
<1>1. /\ \A q \in Requests : req[q].user = v => q = r
      /\ \A q \in Requests : req'[q].user = v => q = r
  BY OnlyHandler
<1>2. /\ \A q \in Requests : RefersTo(req[q], session, bet)
      /\ \A i \in DOMAIN bet : SessionOf(bet[i], session)
  BY DEF Serial, RefInv
<1>3. /\ \A q \in Requests : RefersTo(req'[q], session', bet')
      /\ \A i \in DOMAIN bet' : SessionOf(bet'[i], session')
  BY DEF Serial, RefInv
<1>4. OwnedBy(req, bet, r, v, g)
  BY <1>1, <1>2, OwnRounds
<1>5. OwnedBy(req', bet', r, v, g)
  BY <1>1, <1>3, OwnRounds
<1> QED BY <1>4, <1>5

\* The debit holds a stake where none was held.
LEMMA HeldByDebit ==
  ASSUME Serial, Serial', NEW r \in Requests, NEW g \in GridGames, HoldStake(r, g),
         GoesOn(r, "insert"), NEW v, v = req[r].user
  PROVE  /\ Held(v, g) = 0 /\ Held(v, g)' = req[r].stake
         /\ \A u \in Users, f \in GridGames :
              u # v \/ f # g => Held(u, f)' = Held(u, f)
<1> USE DEF Step, At
<1>1. /\ req[r] \in Active /\ Others(r) /\ req[r].game = g /\ UNCHANGED bet
      /\ req[r].op = "start" /\ req[r].pc = "debit"
  BY RoundWriting DEF HoldStake, RoundWrites, Serial, TypeOK
<1>2. /\ req'[r].op = "start" /\ req'[r].pc = "insert" /\ req'[r].user = v /\ req'[r].game = g
      /\ req'[r].stake = req[r].stake
  BY <1>1 DEF GoesOn, SameCall
<1>3. NoRound(bet, v, g)
  BY <1>1 DEF Serial, SerialInv, Knows
<1>4. OwnedBy(req, bet, r, v, g)
  BY <1>1, ActorsRounds
<1>5. OwnedBy(req', bet', r, v, g)
  BY <1>1, ActorsRounds
<1>6. Held(v, g) = 0
  <2>1. Opening(req, v, g) = {}
    BY <1>1, <1>4 DEF Opens, OwnedBy
  <2>2. InPlay(req, bet, v, g) = {}
    BY <1>3, <1>4 DEF NoRound, OwnedBy
  <2> QED BY <2>1, <2>2, HoldsNothing, HeldIs
<1>7. Held(v, g)' = req[r].stake
  <2>1. Opening(req', v, g) = {r}
    BY <1>2, <1>5 DEF Opens, OwnedBy
  <2>2. InPlay(req', bet', v, g) = {}
    BY <1>1, <1>3, <1>5 DEF NoRound, OwnedBy
  <2>3. req'[r].stake \in Nat
    BY <1>1, <1>2 DEF Active
  <2>4. HeldOf(req', bet', v, g) = req'[r].stake
    BY <2>1, <2>2, <2>3, HoldsOpening
  <2> QED BY <1>2, <2>4, HeldIs
<1>8. ASSUME NEW u \in Users, NEW f \in GridGames, u # v \/ f # g
      PROVE  Held(u, f)' = Held(u, f)
  <2>1. BetsElsewhere(v, g) /\ u # Nobody
    BY <1>1, PlayersAssumption DEF BetsElsewhere
  <2>2. TypeOK /\ RefInv /\ RefInv' /\ SerialInv
    BY DEF Serial
  <2> QED BY <1>1, <1>2, <1>8, <2>1, <2>2, HeldElsewhere
<1> QED BY <1>6, <1>7, <1>8

\* The insert keeps it held, in a row.
LEMMA HeldByInsert ==
  ASSUME Serial, Serial', NEW r \in Requests, NEW g \in GridGames, NEW v, v = req[r].user, InsertOpenRound(r, g)
  PROVE  \A u \in Users, f \in GridGames : Held(u, f)' = Held(u, f)
<1> DEFINE n == Len(bet) + 1
<1> USE DEF Step, At
<1>1. /\ req[r] \in Active /\ Others(r) /\ req[r].game = g /\ Inserted(r)
      /\ req[r].op = "start" /\ req[r].pc = "insert"
  BY RoundWriting DEF InsertOpenRound, RoundWrites, Serial, TypeOK
<1>2. /\ req'[r].op = "start" /\ req'[r].pc = "ledger" /\ req'[r].user = v /\ req'[r].game = g
  BY <1>1 DEF Inserted
<1>3. NoRound(bet, v, g)
  BY <1>1 DEF Serial, SerialInv, Knows
<1>4. /\ n \notin DOMAIN bet /\ DOMAIN bet' = DOMAIN bet \cup {n}
      /\ \A i \in DOMAIN bet : bet'[i] = bet[i]
      /\ bet'[n].user = v /\ bet'[n].stake = req[r].stake
      /\ bet'[n].game = g /\ bet'[n].status = "open"
  BY BetInserted DEF NewRow, Serial
<1> HIDE DEF n
<1>5. OwnedBy(req, bet, r, v, g)
  BY <1>1, ActorsRounds
<1>6. OwnedBy(req', bet', r, v, g)
  BY <1>1, ActorsRounds
<1>7. req[r].stake \in Nat
  BY <1>1 DEF Active
<1>8. Held(v, g) = req[r].stake
  <2>1. Opening(req, v, g) = {r}
    BY <1>1, <1>5 DEF Opens, OwnedBy
  <2>2. InPlay(req, bet, v, g) = {}
    BY <1>3, <1>5 DEF NoRound, OwnedBy
  <2>3. HeldOf(req, bet, v, g) = req[r].stake
    BY <1>7, <2>1, <2>2, HoldsOpening
  <2> QED BY <2>3, HeldIs
<1>9. Held(v, g)' = req[r].stake
  <2>1. Opening(req', v, g) = {}
    BY <1>2, <1>6 DEF Opens, OwnedBy
  <2>2. ~Releases(req'[r], n)
    BY <1>2 DEF Releases
  <2>3. InPlay(req', bet', v, g) = {n}
    BY <1>3, <1>4, <1>6, <2>2 DEF NoRound, OwnedBy
  <2>4. HeldOf(req', bet', v, g) = bet'[n].stake
    BY <1>4, <1>7, <2>1, <2>3, HoldsRound
  <2> QED BY <1>4, <2>4, HeldIs
<1>10. ASSUME NEW u \in Users, NEW f \in GridGames, u # v \/ f # g
       PROVE  Held(u, f)' = Held(u, f)
  <2>1. BetsElsewhere(v, g) /\ u # Nobody
    BY <1>4, PlayersAssumption DEF BetsElsewhere
  <2>2. TypeOK /\ RefInv /\ RefInv' /\ SerialInv
    BY DEF Serial
  <2> QED BY <1>1, <1>2, <1>10, <2>1, <2>2, HeldElsewhere
<1> QED BY <1>8, <1>9, <1>10

\* A release gives back what the round holds.
LEMMA HeldByRelease ==
  ASSUME Serial, Serial', NEW r \in Requests, NEW g \in GridGames, NEW v, v = req[r].user,
         ReleaseStake(r, g) \/ CreditPayout(r, g)
  PROVE  /\ Held(v, g) = req[r].stake /\ Held(v, g)' = 0
         /\ \A u \in Users, f \in GridGames :
              u # v \/ f # g => Held(u, f)' = Held(u, f)
<1> DEFINE n == req[r].ref
<1> USE DEF Step, At
<1>1. /\ req[r] \in Active /\ Others(r) /\ req[r].game = g /\ UNCHANGED bet
      /\ req[r].op \in Settling /\ req[r].pc \in {"unlock", "credit"}
  BY RoundWriting DEF ReleaseStake, CreditPayout, RoundWrites, Serial, TypeOK, Settling
<1>2. /\ req'[r].user = v /\ req'[r].game = g /\ Releases(req'[r], n)
      /\ req'[r].op \in Settling
  BY <1>1, RoundWriting DEF ReleaseStake, CreditPayout, RoundWrites, Serial, TypeOK, GoesOn,
     SameCall, Releases
<1>3. /\ n \in DOMAIN bet /\ bet[n].user = v /\ bet[n].game = g /\ bet[n].status = "open"
      /\ bet[n].stake = req[r].stake
  <2>1. RefersTo(req[r], session, bet) /\ Knows(req[r], session, bet)
    BY DEF Serial, SerialInv, RefInv
  <2>2. \A i \in DOMAIN bet : SessionOf(bet[i], session)
    BY DEF Serial, RefInv
  <2>3. bet[n].user = v /\ bet[n].game = g
    BY <1>1, <2>1, <2>2, RefIsOfGame
  <2> QED BY <1>1, <2>1, <2>3 DEF Knows, RefersTo, Owns
<1>4. \A i \in DOMAIN bet : bet[i].user = v /\ bet[i].game = g /\ bet[i].status = "open" => i = n
  BY <1>3 DEF Serial, SerialInv, OneRound
<1> HIDE DEF n
<1>5. OwnedBy(req, bet, r, v, g)
  BY <1>1, ActorsRounds
<1>6. OwnedBy(req', bet', r, v, g)
  BY <1>1, ActorsRounds
<1>7. Held(v, g) = req[r].stake
  <2>1. Opening(req, v, g) = {}
    BY <1>1, <1>5 DEF Opens, OwnedBy, Settling
  <2>2. ~Releases(req[r], n)
    BY <1>1 DEF Releases
  <2>3. InPlay(req, bet, v, g) = {n}
    BY <1>3, <1>4, <1>5, <2>2 DEF OwnedBy
  <2>4. bet[n].stake \in Nat
    BY <1>1, <1>3 DEF Active
  <2>5. HeldOf(req, bet, v, g) = bet[n].stake
    BY <1>3, <2>1, <2>3, <2>4, HoldsRound
  <2> QED BY <1>3, <2>5, HeldIs
<1>8. Held(v, g)' = 0
  <2>1. Opening(req', v, g) = {}
    BY <1>2, <1>6 DEF Opens, OwnedBy, Settling
  <2>2. InPlay(req', bet', v, g) = {}
    BY <1>1, <1>2, <1>4, <1>6 DEF OwnedBy
  <2>3. HeldOf(req', bet', v, g) = 0
    BY <2>1, <2>2, HoldsNothing
  <2> QED BY <2>3, HeldIs
<1>9. ASSUME NEW u \in Users, NEW f \in GridGames, u # v \/ f # g
      PROVE  Held(u, f)' = Held(u, f)
  <2>1. BetsElsewhere(v, g) /\ u # Nobody
    BY <1>1, PlayersAssumption DEF BetsElsewhere
  <2>2. TypeOK /\ RefInv /\ RefInv' /\ SerialInv
    BY DEF Serial
  <2> QED BY <1>1, <1>2, <1>9, <2>1, <2>2, HeldElsewhere
<1> QED BY <1>7, <1>8, <1>9

---------------------------------------------------------------------------
(* What a step does to what is held, and to the wallets *)

HeldSame == \A u \in Users, f \in GridGames : Held(u, f)' = Held(u, f)

\* A stake is taken for a round, or given back.
Takes(r, g)     == HoldStake(r, g) /\ GoesOn(r, "insert")
GivesBack(r, g) == ReleaseStake(r, g) \/ CreditPayout(r, g)

\* Wallets move otherwise with a deposit or an instant bet.
OtherwisePaid ==
  \/ UNCHANGED wallet
  \/ \E u \in Users : CreditWallet(u)
  \/ \E r \in Requests : SettleWallet(r) /\ GoesOn(r, "insert")

\* The same rows are the same rounds.
LEMMA RoundsUnmoved == ASSUME UNCHANGED bet PROVE SameRounds
BY DEF SameRounds, SameBet

\* An idle slot is between no two statements, nor is a request that has just arrived.
LEMMA IdleIsNotBetween == ~Between(Idle) /\ (\A k : Arrived(k) => ~Between(k))
BY DEF Between, Idle, Arrived

\* Arrivals and reads move no money.
LEMMA HeldByRead ==
  ASSUME Serial, NEW r \in Requests, Arrivals(r) \/ Reads(r)
  PROVE  HeldSame /\ UNCHANGED wallet
<1> SUFFICES ASSUME TypeOK, SerialInv PROVE HeldSame /\ UNCHANGED wallet
  BY DEF Serial
<1>1. Others(r) /\ UNCHANGED <<wallet, bet>> /\ ~Between(req[r]) /\ ~Between(req'[r])
  <2>1. CASE Arrivals(r)
    BY <2>1, Arriving, IdleIsNotBetween DEF TypeOK
  <2>2. CASE Reads(r)
    <3>1. Others(r) /\ UNCHANGED <<wallet, bet>> /\ (req'[r] = Idle \/ Read(req[r], req'[r]))
      BY <2>2, Reading DEF TypeOK
    <3>2. Read(req[r], req'[r]) => ~Between(req'[r])
      BY DEF Read, SameRequest, Between, Betting, Settling
    <3>3. ~Between(req[r])
      BY <2>2 DEF Reads, Between, At, Step, GetPlayableGame, ReadSession, PlaceBetChecks,
         ReadWallet, CountBets, RollRound, StartChecks, SelectOpenRound, LayGrid,
         RevealChecks, ReadRound, CashOutChecks, ReadRoundToPay
    <3> QED BY <3>1, <3>2, <3>3, IdleIsNotBetween
  <2> QED BY <2>1, <2>2
<1>2. SameRounds
  BY <1>1, RoundsUnmoved
<1> QED BY <1>1, <1>2, HeldStays DEF HeldSame

\* Sessions and instant bets hold nothing.
LEMMA HeldByBet ==
  ASSUME Serial, NEW r \in Requests, SessionWrites(r) \/ BetWrites(r)
  PROVE  HeldSame /\ OtherwisePaid
<1> SUFFICES ASSUME TypeOK, SerialInv PROVE HeldSame /\ OtherwisePaid
  BY DEF Serial
<1>1. CASE SessionWrites(r)
  <2>1. /\ Others(r) /\ UNCHANGED <<wallet, bet>>
        /\ req'[r] = Idle \/ req'[r].op = req[r].op
    BY <1>1, SessionWriting DEF TypeOK, SessionWrites, GoesOn, SameCall
  <2>2. req[r].op \in {"startSession", "endSession"}
    BY <1>1 DEF SessionWrites, EndOpenSessions, InsertSession, MarkEnded, At
  <2>3. ~Between(req[r]) /\ ~Between(req'[r])
    BY <2>1, <2>2, IdleIsNotBetween DEF Between
  <2>4. SameRounds
    BY <2>1, RoundsUnmoved
  <2> QED BY <2>1, <2>3, <2>4, HeldStays DEF HeldSame, OtherwisePaid
<1>2. CASE BetWrites(r)
  <2>1. /\ Others(r)
        /\ req'[r] = Idle \/ req'[r].op = req[r].op
    BY <1>2, BetWriting DEF TypeOK, BetWrites, GoesOn, SameCall, Inserted
  <2>2. req[r].op = "placeBet"
    BY <1>2 DEF BetWrites, SettleWallet, InsertSettledBet, InsertBetLedger, BumpSettledBet,
       ConsumeForcedRound, At
  <2>3. ~Between(req[r]) /\ ~Between(req'[r])
    BY <2>1, <2>2, IdleIsNotBetween DEF Between
  <2>4. InsertSettledBet(r) => SameRounds
    BY BetInserted DEF SameRounds, NewRow, SameBet
  <2>5. SameRounds
    BY <1>2, <2>4, RoundsUnmoved DEF BetWrites, SettleWallet, InsertBetLedger, BumpSettledBet,
       ConsumeForcedRound
  <2>6. SettleWallet(r) => OtherwisePaid
    BY <1>2, BetWriting DEF TypeOK, OtherwisePaid
  <2>7. OtherwisePaid
    BY <1>2, <2>6 DEF BetWrites, InsertSettledBet, InsertBetLedger, BumpSettledBet,
       ConsumeForcedRound, OtherwisePaid
  <2> QED BY <2>1, <2>3, <2>5, <2>7, HeldStays DEF HeldSame
<1> QED BY <1>1, <1>2

\* A round's stake is taken once and given back once; nothing in between moves it.
LEMMA HeldByRound ==
  ASSUME Serial, Serial', NEW r \in Requests, NEW g \in GridGames, RoundWrites(r, g),
         ~Takes(r, g), ~GivesBack(r, g)
  PROVE  HeldSame /\ UNCHANGED wallet
<1> USE DEF Step, At
<1>1. /\ TypeOK /\ SerialInv /\ HandlerType /\ Others(r)
      /\ RefersTo(req[r], session, bet)
  BY RoundWriting DEF Serial, TypeOK, RefInv
<1>2. UNCHANGED wallet
  <2>1. HoldStake(r, g) => UNCHANGED wallet
    BY <1>1, RoundWriting DEF RoundWrites, Takes
  <2> QED BY <2>1 DEF RoundWrites, GivesBack, InsertOpenRound, InsertStakeRow,
             BumpStartedRound, CloseLostRound, RaiseMultiplier, CloseCashedOutRound,
             InsertPayoutRow, BumpCashedOutRound
<1>3. CASE InsertOpenRound(r, g)
  BY <1>2, <1>3, HeldByInsert DEF HeldSame
<1>4. ASSUME CloseLostRound(r, g) \/ CloseCashedOutRound(r, g)
      PROVE  HeldSame
  <2> DEFINE i == req[r].ref
  <2>1. i \in DOMAIN bet /\ Releases(req[r], i)
    BY <1>1, <1>4 DEF CloseLostRound, CloseCashedOutRound, RefersTo, Settling, Releases
  <2>2. BetUpdated(i) /\ bet'[i].status # "open"
    BY <1>1, <1>4, <2>1, BetRowsWritten
  <2>3. req'[r] = Idle \/ req'[r].pc = "ledger"
    BY <1>1, <1>4, RoundWriting DEF RoundWrites, GoesOn
  <2>4. ~Between(req'[r])
    BY <2>3, IdleIsNotBetween DEF Between
  <2> HIDE DEF i
  <2> QED BY <1>1, <2>1, <2>2, <2>4, HeldAtClose DEF HeldSame
<1>5. ASSUME \/ HoldStake(r, g) \/ InsertStakeRow(r, g) \/ BumpStartedRound(r, g)
             \/ RaiseMultiplier(r, g) \/ InsertPayoutRow(r, g) \/ BumpCashedOutRound(r, g)
      PROVE  HeldSame
  <2>1. ~Between(req[r])
    BY <1>5 DEF HoldStake, InsertStakeRow, BumpStartedRound, RaiseMultiplier, InsertPayoutRow,
       BumpCashedOutRound, Between
  <2>2. req'[r] = Idle \/ req'[r].pc \in {"bump", "session"}
    BY <1>1, <1>5, RoundWriting DEF RoundWrites, GoesOn, Takes
  <2>3. ~Between(req'[r])
    BY <2>2, IdleIsNotBetween DEF Between
  <2>4. RaiseMultiplier(r, g) => SameRounds
    <3>1. RaiseMultiplier(r, g) => req[r].ref \in DOMAIN bet
      BY <1>1 DEF RaiseMultiplier, RefersTo, Settling
    <3> QED BY <1>1, <3>1, BetRowsWritten DEF SameRounds, BetUpdated
  <2>5. SameRounds
    BY <1>5, <2>4, RoundsUnmoved DEF HoldStake, InsertStakeRow, BumpStartedRound,
       InsertPayoutRow, BumpCashedOutRound
  <2> QED BY <1>1, <2>1, <2>3, <2>5, HeldStays DEF HeldSame
<1> QED BY <1>2, <1>3, <1>4, <1>5 DEF RoundWrites, GivesBack

\* Every step in which no handler fails is one of these.
LEMMA HeldStep ==
  ASSUME Serial, Serial', [Next]_vars, failures' = failures
  PROVE  \/ HeldSame /\ OtherwisePaid
         \/ \E r \in Requests, g \in GridGames : Takes(r, g) \/ GivesBack(r, g)
<1>1. CASE Elsewhere
  <2>1. \A u, f : Held(u, f)' = Held(u, f)
    <3>1. req' = req /\ bet' = bet
      BY <1>1 DEF Elsewhere
    <3> QED BY <3>1, HeldIs
  <2> QED BY <1>1, <2>1 DEF Elsewhere, HeldSame, OtherwisePaid
<1>2. ASSUME NEW r \in Requests, Arrivals(r) \/ Reads(r)
      PROVE  HeldSame /\ OtherwisePaid
  BY <1>2, HeldByRead DEF OtherwisePaid
<1>3. \A r \in Requests : ~Abort(r)
  BY DEF Abort, Serial, TypeOK
<1>4. ASSUME NEW r \in Requests, SessionWrites(r) \/ BetWrites(r)
      PROVE  HeldSame /\ OtherwisePaid
  BY <1>4, HeldByBet
<1>5. ASSUME NEW r \in Requests, NEW g \in GridGames, RoundWrites(r, g)
      PROVE  (HeldSame /\ OtherwisePaid) \/ Takes(r, g) \/ GivesBack(r, g)
  BY <1>5, HeldByRound DEF OtherwisePaid
<1> QED BY <1>1, <1>2, <1>3, <1>4, <1>5, StepCases

---------------------------------------------------------------------------
(* What is locked is what is held *)

Locked(u) == wallet[u].lockedBalance = Held(u, "mines") + Held(u, "towers")

\* What a player's rounds hold is a natural amount.
LEMMA HeldType == ASSUME TypeOK, SerialInv, NEW u, NEW g PROVE Held(u, g) \in Nat
BY RoundsAreFinite, HeldIs

\* Deposits and instant bets lock nothing.
LEMMA LockedOtherwise ==
  ASSUME TypeOK, OtherwisePaid
  PROVE  \A u \in Users : wallet'[u].lockedBalance = wallet[u].lockedBalance
<1>1. ASSUME NEW u \in Users, CreditWallet(u), NEW x \in Users
      PROVE  wallet'[x].lockedBalance = wallet[x].lockedBalance
  <2>1. PICK amount \in DepositAmounts : WalletMoved(u, amount, wallet[u].lockedBalance, 0, 0)
    BY <1>1, CreditMoves DEF TypeOK
  <2> QED BY <2>1 DEF WalletMoved
<1>2. ASSUME NEW r \in Requests, SettleWallet(r), GoesOn(r, "insert"), NEW x \in Users
      PROVE  wallet'[x].lockedBalance = wallet[x].lockedBalance
  <2>1. /\ req[r] \in Active /\ req'[r].op = "placeBet"
        /\ req'[r] # Idle => Debit(req[r].user, req[r].stake, req[r].payout, 0)
    BY <1>2, BetWriting DEF TypeOK, BetWrites, SettleWallet, At, GoesOn, SameCall
  <2>2. Debit(req[r].user, req[r].stake, req[r].payout, 0)
    BY <2>1 DEF Idle
  <2>3. req[r].user \in Users /\ req[r].stake \in Nat /\ req[r].payout \in Nat
    BY <2>1 DEF Active
  <2>4. WalletMoved(req[r].user, req[r].payout - req[r].stake,
                    wallet[req[r].user].lockedBalance + 0, req[r].stake, req[r].payout)
    BY <2>2, <2>3, DebitMoves DEF TypeOK
  <2>5. wallet[req[r].user].lockedBalance \in Int
    BY <2>3 DEF TypeOK, WalletType, Wallets
  <2> QED BY <2>4, <2>5 DEF WalletMoved
<1> QED BY <1>1, <1>2 DEF OtherwisePaid

\* A start takes its stake from a wallet that covers it, and locks it.
LEMMA TakeMoves ==
  ASSUME TypeOK, NEW r \in Requests, NEW g \in GridGames, Takes(r, g)
  PROVE  /\ req[r] \in Active /\ req[r].game = g
         /\ wallet[req[r].user].balance >= req[r].stake
         /\ WalletMoved(req[r].user, 0 - req[r].stake,
                        wallet[req[r].user].lockedBalance + req[r].stake, req[r].stake, 0)
<1>1. /\ req[r] \in Active /\ req[r].game = g /\ req'[r].op = "start"
      /\ req'[r] # Idle => /\ Debit(req[r].user, req[r].stake, 0, req[r].stake)
                           /\ wallet[req[r].user].balance >= req[r].stake
  BY RoundWriting DEF TypeOK, RoundWrites, HoldStake, Step, At, Takes, GoesOn, SameCall
<1>2. /\ Debit(req[r].user, req[r].stake, 0, req[r].stake)
      /\ wallet[req[r].user].balance >= req[r].stake
  BY <1>1 DEF Idle
<1>3. req[r].user \in Users /\ req[r].stake \in Nat
  BY <1>1 DEF Active
<1> QED BY <1>1, <1>2, <1>3, DebitMoves DEF TypeOK

\* The stake a start takes is locked with what its player's other round holds.
LEMMA LockedByTake ==
  ASSUME Serial, Serial', NEW r \in Requests, NEW g \in GridGames, Takes(r, g),
         \A u \in Users : Locked(u)
  PROVE  \A u \in Users : Locked(u)'
<1> DEFINE v == req[r].user
           stake == req[r].stake
<1>1. /\ req[r] \in Active /\ v \in Users /\ stake \in Nat
      /\ WalletMoved(v, 0 - stake, wallet[v].lockedBalance + stake, stake, 0)
  BY TakeMoves DEF Serial, Active
<1> SUFFICES ASSUME NEW u \in Users PROVE Locked(u)'
  OBVIOUS
<1>2. /\ u = v => wallet'[u].lockedBalance = wallet[u].lockedBalance + stake
      /\ u # v => wallet'[u] = wallet[u]
  BY <1>1 DEF WalletMoved
<1>3. PICK w : w = v
  OBVIOUS
<1>4. /\ Held(w, g) = 0 /\ Held(w, g)' = stake
      /\ \A x \in Users, f \in GridGames : x # w \/ f # g => Held(x, f)' = Held(x, f)
  BY <1>3, HeldByDebit DEF Takes
<1>5. Held(u, "mines") \in Nat /\ Held(u, "towers") \in Nat /\ Locked(u)
  BY HeldType DEF Serial
<1>6. CASE u = v
  BY <1>1, <1>2, <1>3, <1>4, <1>5, <1>6 DEF Locked, GridGames
<1>7. CASE u # v
  BY <1>2, <1>3, <1>4, <1>5, <1>7 DEF Locked, GridGames
<1> QED BY <1>6, <1>7

\* A release unlocks the stake and leaves what the other round holds: GREATEST(..., 0)
\* has nothing to correct.
LEMMA LockedByRelease ==
  ASSUME Serial, Serial', NEW r \in Requests, NEW g \in GridGames, GivesBack(r, g),
         \A u \in Users : Locked(u)
  PROVE  \A u \in Users : Locked(u)'
<1> DEFINE v == req[r].user
           stake == req[r].stake
<1>1. /\ req[r] \in Active /\ v \in Users /\ stake \in Nat
      /\ \A x \in Users : x # v => wallet'[x] = wallet[x]
      /\ wallet'[v].lockedBalance = Released(r)
  <2>1. req[r] \in Active
    BY RoundWriting DEF Serial, TypeOK, RoundWrites, GivesBack
  <2>2. HandlerType /\ WalletType
    BY DEF Serial, TypeOK
  <2> QED BY <2>1, <2>2, ReleaseMoves DEF GivesBack, WalletMoved, Active
<1> SUFFICES ASSUME NEW u \in Users PROVE Locked(u)'
  OBVIOUS
<1>2. PICK w : w = v
  OBVIOUS
<1>3. /\ Held(w, g) = stake /\ Held(w, g)' = 0
      /\ \A x \in Users, f \in GridGames : x # w \/ f # g => Held(x, f)' = Held(x, f)
  BY <1>2, HeldByRelease DEF GivesBack
<1>4. Held(u, "mines") \in Nat /\ Held(u, "towers") \in Nat /\ Locked(u)
  BY HeldType DEF Serial
<1>5. CASE u = v
  <2>1. Released(r) = AtLeastZero(wallet[u].lockedBalance - stake)
    BY <1>5 DEF Released
  <2>2. wallet[u].lockedBalance - stake = IF g = "mines" THEN Held(u, "towers")
                                                        ELSE Held(u, "mines")
    BY <1>2, <1>3, <1>4, <1>5 DEF Locked, GridGames
  <2>3. Released(r) = IF g = "mines" THEN Held(u, "towers") ELSE Held(u, "mines")
    BY <1>4, <2>1, <2>2 DEF AtLeastZero
  <2>4. wallet'[u].lockedBalance = Released(r)
    BY <1>1, <1>5
  <2> QED BY <1>2, <1>3, <1>4, <1>5, <2>3, <2>4 DEF Locked, GridGames
<1>6. CASE u # v
  BY <1>1, <1>2, <1>3, <1>4, <1>6 DEF Locked, GridGames
<1> QED BY <1>5, <1>6

\* So what is locked stays what is held.
LEMMA LockedKept ==
  ASSUME Serial, Serial', LockedIsHeld, [Next]_vars
  PROVE  LockedIsHeld'
<1> SUFFICES ASSUME failures' = 0 PROVE \A u \in Users : Locked(u)'
  BY DEF LockedIsHeld, Locked
<1>1. failures' = failures
  <2>1. failures \in Nat
    BY DEF Serial, TypeOK
  <2> QED BY <2>1, Writers DEF Abort
<1>2. \A u \in Users : Locked(u)
  BY <1>1 DEF LockedIsHeld, Locked
<1>3. CASE HeldSame /\ OtherwisePaid
  <2>1. \A u \in Users : wallet'[u].lockedBalance = wallet[u].lockedBalance
    BY <1>3, LockedOtherwise DEF Serial
  <2> QED BY <1>2, <1>3, <2>1 DEF Locked, HeldSame, GridGames
<1> QED BY <1>1, <1>2, <1>3, HeldStep, LockedByTake, LockedByRelease

\* No wallet locks anything and no round is in play when the service starts.
LEMMA NothingHeldAtInit ==
  ASSUME Init, NEW u \in Users, NEW g \in GridGames
  PROVE  Held(u, g) = 0 /\ wallet[u].lockedBalance = 0 /\ wallet[u].balance = 0
<1>1. Opening(req, u, g) = {}
  BY DEF Init, Opening, Opens, Idle
<1>2. InPlay(req, bet, u, g) = {}
  BY LenProperties DEF Init, InPlay
<1>3. HeldOf(req, bet, u, g) = 0
  BY <1>1, <1>2, HoldsNothing
<1> QED BY <1>3, HeldIs DEF Init, NewWallet

\* While no handler has failed, lockedBalance is what the rounds in play were staked, at
\* every statement: each round's stake is locked by its start and unlocked once, by
\* the reveal that loses it or the cash-out that pays it.
THEOREM LocksFollowTheRounds == ASSUME SerialPlayers PROVE Spec => []LockedIsHeld
<1>1. Init => LockedIsHeld
  BY NothingHeldAtInit DEF LockedIsHeld, GridGames
<1>2. TypeOK /\ BookInv /\ SerialInv => Serial
  BY DEF Serial, BookInv
<1>3. Serial /\ Serial' /\ LockedIsHeld /\ [Next]_vars => LockedIsHeld'
  BY LockedKept
<1>4. Spec => []Serial
  BY <1>2, SerialHolds, PTL
<1> QED BY <1>1, <1>3, <1>4, PTL DEF Spec

---------------------------------------------------------------------------
(* What a round in play is made of *)

\* What handler h will write, as far as its checks and its roll have settled it: a stake
\* within the limits, the odds of its rule, a board of its mine count, and a pick that is
\* on the board, new and safe.
Calls(h, B) ==
  /\ h.op \in Betting /\ h.pc = "session" => h.stake \in {RoundMoney(y) : y \in StakeInputs}
  /\ h.op \in Betting /\ h.pc \notin {"session", "ledger", "bump", "consume"} => h.stake \in Stakes
  /\ h.op = "placeBet" /\ h.pc = "debit" => h.mult \in WinOdds
  /\ h.op = "start" /\ h.pc \notin {"ledger", "bump"} => h.count \in CountInputs(h.game)
  /\ h.op = "start" /\ h.pc \in {"debit", "insert"} /\ h.game = "mines"
       => h.traps \in BuildMinesGrid(h.count, "none")
  /\ h.op = "reveal" /\ h.pc \in {"row", "raise"} => h.tile < Tiles(h.game)
  /\ h.op = "reveal" /\ h.pc = "raise" =>
       /\ MayOpen(h.game, B[h.ref], h.tile)
       /\ Cell(h.game, B[h.ref].opened, h.tile) \notin B[h.ref].traps

\* Picks of Mines are different tiles of the board with no mine under them.
SafePicks(opened, traps) ==
  /\ \A n \in DOMAIN opened : opened[n] \in 0..TileCount - 1 /\ <<0, opened[n]>> \notin traps
  /\ \A m, n \in DOMAIN opened : opened[m] = opened[n] => m = n

\* An open round has a stake within the limits, picks its board allows, and the
\* multiplier they make.
Playable(b) ==
  b.status = "open" =>
    /\ b.stake \in Stakes /\ b.count \in CountInputs(b.game)
    /\ b.game = "mines" => b.traps \in BuildMinesGrid(b.count, "none") /\ SafePicks(b.opened, b.traps)
    /\ b.game = "towers" => Len(b.opened) <= TowerRows
    /\ b.opened # <<>> => b.mult = Multiplier(b.game, b.count, Len(b.opened))

\* A rule keeps the cap the admin gave it.
CapKept == \A u \in Users : \E rule \in ControlRules : rule.cap = control[u].cap

PlayInv ==
  /\ CapKept
  /\ \A r \in Requests : Calls(req[r], bet)
  /\ \A i \in DOMAIN bet : Playable(bet[i])

\* A call that is not a bet to be made or a pick to be stored settles nothing.
LEMMA FreeCalls ==
  ASSUME NEW h, NEW B, h.op \in Betting => h.pc \in {"ledger", "bump", "consume"},
         h.op = "start" => h.pc # "consume", h.op = "reveal" => h.pc \notin {"row", "raise"}
  PROVE  Calls(h, B)
BY DEF Calls, Betting

\* An idle slot settles nothing.
LEMMA IdleCalls == ASSUME NEW B PROVE Calls(Idle, B)
BY FreeCalls DEF Idle, Betting

\* A request arrives with a stake as it was sent, and a mine count that is offered.
LEMMA ArrivalCalls ==
  ASSUME TypeOK, NEW r \in Requests, Arrivals(r)
  PROVE  Calls(req'[r], bet')
<1>1. ASSUME NEW call, Arrive(r, call), Calls(call, bet')
      PROVE  Calls(req'[r], bet')
  BY <1>1, ArriveKeeps DEF TypeOK
<1>2. CASE StartSessionArrives(r)
  <2>1. PICK u \in Users, g \in Games :
          Arrive(r, [Idle EXCEPT !.op = "startSession", !.pc = "game", !.user = u, !.game = g])
    BY <1>2 DEF StartSessionArrives
  <2> DEFINE call == [Idle EXCEPT !.op = "startSession", !.pc = "game", !.user = u, !.game = g]
  <2>2. call.op = "startSession" /\ call.pc = "game"
    BY DEF Idle
  <2> HIDE DEF call
  <2>3. Calls(call, bet')
    BY <2>2, FreeCalls DEF Betting
  <2> QED BY <1>1, <2>1, <2>3 DEF call
<1>3. CASE EndSessionArrives(r)
  <2>1. PICK u \in Users, s \in DOMAIN session :
          Arrive(r, [Idle EXCEPT !.op = "endSession", !.pc = "row", !.user = u,
                                 !.game = session[s].game, !.sid = s])
    BY <1>3 DEF EndSessionArrives
  <2> DEFINE call == [Idle EXCEPT !.op = "endSession", !.pc = "row", !.user = u,
                                 !.game = session[s].game, !.sid = s]
  <2>2. call.op = "endSession" /\ call.pc = "row"
    BY DEF Idle
  <2> HIDE DEF call
  <2>3. Calls(call, bet')
    BY <2>2, FreeCalls DEF Betting
  <2> QED BY <1>1, <2>1, <2>3 DEF call
<1>4. CASE PlaceBetArrives(r)
  <2>1. PICK u \in Users, s \in DOMAIN session, x \in StakeInputs :
          Arrive(r, [Idle EXCEPT !.op = "placeBet", !.pc = "session", !.user = u,
                                 !.sid = s, !.stake = RoundMoney(x)])
    BY <1>4 DEF PlaceBetArrives
  <2> DEFINE call == [Idle EXCEPT !.op = "placeBet", !.pc = "session", !.user = u,
                                  !.sid = s, !.stake = RoundMoney(x)]
  <2>2. call.op = "placeBet" /\ call.pc = "session" /\ call.stake = RoundMoney(x)
    BY DEF Idle
  <2> HIDE DEF call
  <2>3. Calls(call, bet')
    BY <2>2 DEF Calls
  <2> QED BY <1>1, <2>1, <2>3 DEF call
<1>5. ASSUME NEW g \in GridGames, StartArrives(r, g)
      PROVE  Calls(req'[r], bet')
  <2>1. PICK u \in Users, s \in DOMAIN session, x \in StakeInputs, count \in CountInputs(g) :
          Arrive(r, [Idle EXCEPT !.op = "start", !.pc = "session", !.user = u, !.game = g,
                                 !.sid = s, !.stake = RoundMoney(x), !.count = count])
    BY <1>5 DEF StartArrives
  <2> DEFINE call == [Idle EXCEPT !.op = "start", !.pc = "session", !.user = u, !.game = g,
                                  !.sid = s, !.stake = RoundMoney(x), !.count = count]
  <2>2. /\ call.op = "start" /\ call.pc = "session" /\ call.stake = RoundMoney(x)
        /\ call.game = g /\ call.count = count
    BY DEF Idle
  <2> HIDE DEF call
  <2>3. Calls(call, bet')
    BY <2>2 DEF Calls
  <2> QED BY <1>1, <2>1, <2>3 DEF call
<1>6. ASSUME NEW g \in GridGames, RevealArrives(r, g)
      PROVE  Calls(req'[r], bet')
  <2>1. PICK u \in Users, s \in DOMAIN session, i \in DOMAIN bet, tile \in 0..Tiles(g) :
          Arrive(r, [Idle EXCEPT !.op = "reveal", !.pc = "session", !.user = u, !.game = g,
                                 !.sid = s, !.ref = i, !.tile = tile])
    BY <1>6 DEF RevealArrives
  <2> DEFINE call == [Idle EXCEPT !.op = "reveal", !.pc = "session", !.user = u, !.game = g,
                                 !.sid = s, !.ref = i, !.tile = tile]
  <2>2. call.op = "reveal" /\ call.pc = "session"
    BY DEF Idle
  <2> HIDE DEF call
  <2>3. Calls(call, bet')
    BY <2>2, FreeCalls DEF Betting
  <2> QED BY <1>1, <2>1, <2>3 DEF call
<1>7. ASSUME NEW g \in GridGames, CashOutArrives(r, g)
      PROVE  Calls(req'[r], bet')
  <2>1. PICK u \in Users, s \in DOMAIN session, i \in DOMAIN bet :
          Arrive(r, [Idle EXCEPT !.op = "cashOut", !.pc = "session", !.user = u, !.game = g,
                                 !.sid = s, !.ref = i])
    BY <1>7 DEF CashOutArrives
  <2> DEFINE call == [Idle EXCEPT !.op = "cashOut", !.pc = "session", !.user = u, !.game = g,
                                 !.sid = s, !.ref = i]
  <2>2. call.op = "cashOut" /\ call.pc = "session"
    BY DEF Idle
  <2> HIDE DEF call
  <2>3. Calls(call, bet')
    BY <2>2, FreeCalls DEF Betting
  <2> QED BY <1>1, <2>1, <2>3 DEF call
<1> QED BY <1>2, <1>3, <1>4, <1>5, <1>6, <1>7 DEF Arrivals

\* The rule read before the roll caps it like the rule it was made from.
LEMMA RollInOdds ==
  ASSUME CapKept, NEW u \in Users, NEW forced, NEW raw \in Roll(forced),
         forced \in {"none", "win", "loss"}
  PROVE  ApplyWinCap(raw, control[u]) \in WinOdds
<1>1. PICK rule \in ControlRules : rule.cap = control[u].cap
  BY DEF CapKept
<1>2. ApplyWinCap(raw, control[u]) = ApplyWinCap(raw, rule)
  BY <1>1 DEF ApplyWinCap
<1>3. raw \in Multipliers \cup {0}
  BY DEF Roll
<1> QED BY <1>2, <1>3 DEF WinOdds

\* A forced loss moves the mines, not their number.
LEMMA GridsAreBoards ==
  ASSUME NEW count, NEW forced, NEW traps \in Grids("mines", count, forced)
  PROVE  traps \in BuildMinesGrid(count, "none")
BY DEF Grids, BuildMinesGrid

\* A read leaves what the handler has settled, and settles what it checks or rolls.
LEMMA ReadCalls ==
  ASSUME TypeOK, CapKept, NEW r \in Requests, Reads(r), Calls(req[r], bet)
  PROVE  Calls(req'[r], bet)
<1> USE DEF Step, At
<1>1. HandlerType /\ req[r] \in Active /\ Calls(Idle, bet)
  BY Reading, IdleCalls DEF TypeOK
<1>2. ASSUME NEW ok, NEW pc, Check(r, ok, pc)
      PROVE  req'[r] = Idle \/ (ok /\ SameCall(req'[r], req[r]) /\ req'[r].pc = pc)
  BY <1>1, <1>2, CheckKeeps
<1>3. CASE GetPlayableGame(r) \/ ReadSession(r)
  <2>1. req'[r] = Idle \/ req'[r].op \in {"startSession", "endSession"}
    BY <1>2, <1>3 DEF GetPlayableGame, ReadSession, SameCall
  <2> QED BY <1>1, <2>1, FreeCalls DEF Betting
<1>4. CASE PlaceBetChecks(r)
  <2>1. req[r].op = "placeBet" /\ req[r].pc = "session"
    BY <1>4 DEF PlaceBetChecks
  <2>2. \/ req'[r] = Idle
        \/ ValidStake(req[r].stake) /\ SameCall(req'[r], req[r]) /\ req'[r].pc = "wallet"
    BY <1>2, <1>4 DEF PlaceBetChecks
  <2>3. ValidStake(req[r].stake) => req[r].stake \in Stakes
    BY <2>1 DEF Calls, Betting, Stakes
  <2>4. req'[r] = Idle \/ Calls(req'[r], bet)
    BY <2>1, <2>2, <2>3 DEF SameCall, Calls, Betting
  <2> QED BY <1>1, <2>4
<1>5. CASE ReadWallet(r)
  BY <1>1, <1>2, <1>5 DEF ReadWallet, SameCall, Calls, Betting
<1>6. CASE CountBets(r)
  <2> DEFINE n == Cardinality({i \in DOMAIN bet : bet[i].user = req[r].user}) + 1
             h == [req[r] EXCEPT !.pc = "control", !.nonce = n]
  <2>1. req'[r] = h
    BY <1>1, <1>6 DEF CountBets, HandlerType
  <2>2. /\ h.op = req[r].op /\ h.pc = "control" /\ h.stake = req[r].stake
        /\ h.count = req[r].count /\ h.game = req[r].game
    <3> HIDE DEF n
    <3> QED BY <1>1 DEF Active
  <2>3. req[r].op \in Betting /\ req[r].pc = "nonce"
    BY <1>6 DEF CountBets, Betting
  <2> HIDE DEF h
  <2> QED BY <2>1, <2>2, <2>3 DEF Calls, Betting
<1>7. CASE RollRound(r)
  <2> DEFINE rule == control[req[r].user]
             Rolled(forced, raw) ==
               req' = [req EXCEPT ![r].pc = "debit", ![r].forced = forced,
                                  ![r].metered = Metered(rule), ![r].mult = ApplyWinCap(raw, rule),
                                  ![r].payout = RoundMoney(req[r].stake * ApplyWinCap(raw, rule))]
  <2>1. PICK forced \in ResolveControl(rule) : \E raw \in Roll(forced) : Rolled(forced, raw)
    BY <1>7 DEF RollRound
  <2>2. PICK raw \in Roll(forced) : Rolled(forced, raw)
    BY <2>1
  <2> DEFINE mult == ApplyWinCap(raw, rule)
             payout == RoundMoney(req[r].stake * mult)
             metered == Metered(rule)
             h == [req[r] EXCEPT !.pc = "debit", !.forced = forced, !.metered = metered,
                                 !.mult = mult, !.payout = payout]
  <2>3. req'[r] = h
    BY <1>1, <2>2 DEF HandlerType
  <2>4. /\ h.op = req[r].op /\ h.pc = "debit" /\ h.stake = req[r].stake /\ h.mult = mult
    <3> HIDE DEF mult, payout, metered
    <3> QED BY <1>1 DEF Active
  <2>5. mult \in WinOdds
    <3>1. req[r].user \in Users /\ rule \in Rules
      BY <1>1 DEF Active, TypeOK, ControlType
    <3>2. forced \in {"none", "win", "loss"}
      BY <2>2, <3>1, RollType
    <3> QED BY <3>1, <3>2, RollInOdds
  <2>6. req[r].op = "placeBet" /\ req[r].pc = "control"
    BY <1>7 DEF RollRound
  <2> HIDE DEF h, mult
  <2> QED BY <2>3, <2>4, <2>5, <2>6 DEF Calls, Betting
<1>8. ASSUME NEW g \in GridGames, StartChecks(r, g) \/ SelectOpenRound(r, g)
      PROVE  Calls(req'[r], bet)
  <2>1. req[r].op = "start" /\ req[r].pc \in {"session", "open"}
    BY <1>8 DEF StartChecks, SelectOpenRound
  <2>2. CASE StartChecks(r, g)
    <3>1. \/ req'[r] = Idle
          \/ ValidStake(req[r].stake) /\ SameCall(req'[r], req[r]) /\ req'[r].pc = "open"
      BY <1>2, <2>2 DEF StartChecks
    <3>2. ValidStake(req[r].stake) => req[r].stake \in Stakes
      BY <2>1, <2>2 DEF StartChecks, Calls, Betting, Stakes
    <3>3. req'[r] = Idle \/ Calls(req'[r], bet)
      BY <2>1, <3>1, <3>2 DEF SameCall, Calls, Betting
    <3> QED BY <1>1, <3>3
  <2>3. CASE SelectOpenRound(r, g)
    <3>1. req'[r] = Idle \/ (SameCall(req'[r], req[r]) /\ req'[r].pc = "wallet")
      BY <1>2, <2>3 DEF SelectOpenRound
    <3>2. req[r].pc = "open"
      BY <2>3 DEF SelectOpenRound
    <3>3. req'[r] = Idle \/ Calls(req'[r], bet)
      BY <2>1, <3>1, <3>2 DEF SameCall, Calls, Betting
    <3> QED BY <1>1, <3>3
  <2> QED BY <1>8, <2>2, <2>3
<1>9. ASSUME NEW g \in GridGames, LayGrid(r, g)
      PROVE  Calls(req'[r], bet)
  <2>0. PICK forced : \E traps \in Grids(g, req[r].count, forced) :
          req' = [req EXCEPT ![r].pc = "debit", ![r].forced = forced, ![r].traps = traps]
    BY <1>9 DEF LayGrid
  <2>1. PICK traps \in Grids(g, req[r].count, forced) :
          req' = [req EXCEPT ![r].pc = "debit", ![r].forced = forced, ![r].traps = traps]
    BY <2>0
  <2> DEFINE h == [req[r] EXCEPT !.pc = "debit", !.forced = forced, !.traps = traps]
  <2>2. req'[r] = h
    BY <1>1, <2>1 DEF HandlerType
  <2>3. /\ h.op = req[r].op /\ h.pc = "debit" /\ h.stake = req[r].stake /\ h.traps = traps
        /\ h.count = req[r].count /\ h.game = req[r].game
    BY <1>1 DEF Active
  <2>4. req[r].op = "start" /\ req[r].pc = "control" /\ req[r].game = g
    BY <1>9 DEF LayGrid
  <2>5. g = "mines" => traps \in BuildMinesGrid(req[r].count, "none")
    BY <2>1, GridsAreBoards
  <2> HIDE DEF h
  <2> QED BY <2>2, <2>3, <2>4, <2>5 DEF Calls, Betting
<1>10. ASSUME NEW g \in GridGames, RevealChecks(r, g)
       PROVE  Calls(req'[r], bet)
  <2>1. req[r].op = "reveal" /\ req[r].game = g
    BY <1>10 DEF RevealChecks
  <2>2. \/ req'[r] = Idle
        \/ req[r].tile < Tiles(g) /\ SameCall(req'[r], req[r]) /\ req'[r].pc = "row"
    BY <1>2, <1>10 DEF RevealChecks
  <2> QED BY <1>1, <2>1, <2>2 DEF SameCall, Calls, Betting
<1>11. ASSUME NEW g \in GridGames, ReadRound(r, g)
       PROVE  Calls(req'[r], bet)
  <2> DEFINE row == bet[req[r].ref]
             trap == Cell(g, row.opened, req[r].tile) \in row.traps
             pc == IF trap THEN "unlock" ELSE "raise"
             h == [req[r] EXCEPT !.pc = pc, !.stake = row.stake, !.count = row.count,
                                 !.opened = row.opened]
  <2>1. \/ Finish(r)
        \/ MayOpen(g, row, req[r].tile) /\ req' = [req EXCEPT ![r] = h]
    BY <1>11 DEF ReadRound
  <2>2. req[r].op = "reveal" /\ req[r].game = g /\ req[r].pc = "row"
    BY <1>11 DEF ReadRound
  <2>3. /\ h.op = req[r].op /\ h.pc = pc /\ h.ref = req[r].ref /\ h.tile = req[r].tile
        /\ h.game = req[r].game
    <3> HIDE DEF pc, row
    <3> QED BY <1>1 DEF Active
  <2>4. /\ pc = "unlock" \/ (pc = "raise" /\ Cell(g, row.opened, req[r].tile) \notin row.traps)
    OBVIOUS
  <2>5. req'[r] = Idle \/ (req'[r] = h /\ MayOpen(g, row, req[r].tile))
    BY <1>1, <2>1, FinishKeeps DEF HandlerType
  <2> HIDE DEF h, pc
  <2>6. h.pc = "raise" => Cell(h.game, bet[h.ref].opened, h.tile) \notin bet[h.ref].traps
    BY <2>2, <2>3, <2>4
  <2>7. req[r].tile < Tiles(g)
    BY <2>2 DEF Calls
  <2>8. MayOpen(g, row, req[r].tile) => MayOpen(h.game, bet[h.ref], h.tile)
    BY <2>2, <2>3
  <2>9. h.op = "reveal" /\ h.tile < Tiles(h.game)
    BY <2>2, <2>3, <2>7
  <2>10. MayOpen(g, row, req[r].tile) => Calls(h, bet)
    BY <2>6, <2>8, <2>9 DEF Calls, Betting
  <2> QED BY <1>1, <2>5, <2>10
<1>12. ASSUME NEW g \in GridGames, CashOutChecks(r, g) \/ ReadRoundToPay(r, g)
       PROVE  Calls(req'[r], bet)
  <2>1. req[r].op = "cashOut"
    BY <1>12 DEF CashOutChecks, ReadRoundToPay
  <2>2. req'[r] = Idle \/ req'[r].op = "cashOut"
    BY <1>1, <2>1, Reading DEF Read, SameRequest
  <2> QED BY <1>1, <2>2, FreeCalls DEF Betting
<1> QED BY <1>3, <1>4, <1>5, <1>6, <1>7, <1>8, <1>9, <1>10, <1>11, <1>12 DEF Reads

\* A write leaves nothing to settle, or what the debit has settled for the insert.
LEMMA WriteCalls ==
  ASSUME TypeOK, NEW r \in Requests, Writes(r), Calls(req[r], bet)
  PROVE  Calls(req'[r], bet')
<1> USE DEF Step, At
<1>1. HandlerType /\ Calls(Idle, bet')
  BY IdleCalls DEF TypeOK
<1>2. CASE SessionWrites(r)
  <2>1. EndOpenSessions(r) => req'[r].op = "startSession"
    BY <1>1, <1>2, SessionWriting DEF GoesOn, SameCall, EndOpenSessions
  <2>2. req'[r].op = "startSession" => Calls(req'[r], bet')
    BY FreeCalls DEF Betting
  <2> QED BY <1>1, <1>2, <2>1, <2>2, SessionWriting DEF SessionWrites
<1>3. CASE BetWrites(r)
  <2>1. CASE SettleWallet(r)
    <3>1. req'[r] = Idle \/ GoesOn(r, "insert")
      BY <1>1, <1>3, <2>1, BetWriting
    <3>2. GoesOn(r, "insert") => Calls(req'[r], bet')
      BY <2>1 DEF SettleWallet, GoesOn, SameCall, Calls, Betting
    <3> QED BY <1>1, <3>1, <3>2
  <2>2. CASE ~SettleWallet(r)
    <3>1. req[r].op = "placeBet"
      BY <1>3, <2>2 DEF BetWrites, InsertSettledBet, InsertBetLedger, BumpSettledBet,
         ConsumeForcedRound
    <3>2. \/ req'[r] = Idle
          \/ req'[r].op = "placeBet" /\ req'[r].pc \in {"ledger", "bump", "consume"}
      BY <1>1, <1>3, <2>2, <3>1, BetWriting DEF BetWrites, GoesOn, SameCall, Inserted
    <3> QED BY <1>1, <3>2, FreeCalls
  <2> QED BY <2>1, <2>2
<1>4. ASSUME NEW g \in GridGames, RoundWrites(r, g)
      PROVE  Calls(req'[r], bet')
  <2>1. CASE HoldStake(r, g)
    <3>1. req'[r] = Idle \/ GoesOn(r, "insert")
      BY <1>1, <1>4, <2>1, RoundWriting
    <3>2. GoesOn(r, "insert") => Calls(req'[r], bet')
      BY <2>1 DEF HoldStake, GoesOn, SameCall, Calls, Betting
    <3> QED BY <1>1, <3>1, <3>2
  <2>2. CASE ~HoldStake(r, g)
    <3>1. \/ req'[r] = Idle
          \/ req'[r].op = "start" /\ req'[r].pc \in {"ledger", "bump"}
          \/ req'[r].op = "reveal" /\ req'[r].pc = "lost"
          \/ req'[r].op = "cashOut"
      <4>1. CASE InsertStakeRow(r, g) \/ ReleaseStake(r, g) \/ CreditPayout(r, g)
                   \/ CloseCashedOutRound(r, g) \/ InsertPayoutRow(r, g)
        BY <1>1, <1>4, <4>1, RoundWriting DEF GoesOn, SameCall, InsertStakeRow,
           ReleaseStake, CreditPayout, CloseCashedOutRound, InsertPayoutRow
      <4>2. CASE InsertOpenRound(r, g)
        BY <1>1, <1>4, <4>2, RoundWriting DEF Inserted, InsertOpenRound
      <4>3. CASE RaiseMultiplier(r, g) \/ BumpStartedRound(r, g) \/ CloseLostRound(r, g)
                   \/ BumpCashedOutRound(r, g)
        BY <1>1, <1>4, <4>3, RoundWriting
      <4> QED BY <1>4, <2>2, <4>1, <4>2, <4>3 DEF RoundWrites
    <3> QED BY <1>1, <3>1, FreeCalls DEF Betting
  <2> QED BY <2>1, <2>2
<1> QED BY <1>2, <1>3, <1>4 DEF Writes

\* What a handler has settled stays settled, whoever acts.
LEMMA CallsKept ==
  ASSUME Serial, PlayInv, [Next]_vars, NEW q \in Requests
  PROVE  Calls(req'[q], bet')
<1>1. TypeOK /\ HandlerType /\ RefInv /\ CapKept /\ \A r \in Requests : Calls(req[r], bet)
  BY DEF Serial, TypeOK, PlayInv
<1>2. CASE UNCHANGED <<session, bet, ledger, req, failures>>
  BY <1>1, <1>2
<1>3. ASSUME NEW r \in Requests, Others(r), UNCHANGED <<wallet, session, bet, ledger>>,
             Arrivals(r) \/ Reads(r) \/ Abort(r)
      PROVE  Calls(req'[q], bet')
  <2>1. q # r => Calls(req'[q], bet')
    BY <1>1, <1>3 DEF Others
  <2>2. Reads(r) => Calls(req'[r], bet)
    BY <1>1, ReadCalls
  <2>3. Abort(r) => Calls(req'[r], bet)
    BY <1>1, FinishKeeps, IdleCalls DEF Abort
  <2>4. Arrivals(r) => Calls(req'[r], bet')
    BY <1>1, ArrivalCalls
  <2> QED BY <1>3, <2>1, <2>2, <2>3, <2>4
<1>4. ASSUME NEW r \in Requests, Others(r), req[r] \in Active, Writes(r)
      PROVE  Calls(req'[q], bet')
  <2>1. CASE q # r /\ req[q].op = "reveal" /\ req[q].pc = "raise"
    <3>1. req[q] # Idle
      BY <2>1 DEF Idle
    <3>2. req[q].user # req[r].user
      BY <2>1, <3>1 DEF Serial, SerialInv, Alone
    <3>3. Owns(req[q], bet)
      BY <1>1, <2>1 DEF RefInv, RefersTo, Settling
    <3>4. Touches(req[r].user)
      BY <1>1, <1>4, WritesTouch
    <3>5. bet'[req[q].ref] = bet[req[q].ref]
      BY <3>2, <3>3, <3>4 DEF Owns, Touches
    <3>6. req'[q] = req[q]
      BY <1>4, <2>1 DEF Others
    <3> QED BY <1>1, <3>5, <3>6 DEF Calls
  <2>2. CASE q # r /\ ~(req[q].op = "reveal" /\ req[q].pc = "raise")
    BY <1>1, <1>4, <2>2 DEF Others, Calls
  <2>3. q = r => Calls(req'[q], bet')
    BY <1>1, <1>4, WriteCalls
  <2> QED BY <2>1, <2>2, <2>3
<1> QED BY <1>1, <1>2, <1>3, <1>4, WhoWrites

\* A safe pick is one more safe pick.
LEMMA PickIsSafe ==
  ASSUME NEW s \in Seq(Nat), NEW tile \in Nat, NEW traps, SafePicks(s, traps),
         tile < TileCount, <<0, tile>> \notin traps, \A n \in DOMAIN s : s[n] # tile
  PROVE  SafePicks(Append(s, tile), traps)
<1> DEFINE t == Append(s, tile)
           last == Len(s) + 1
<1>1. /\ DOMAIN t = DOMAIN s \cup {last} /\ last \notin DOMAIN s
      /\ \A n \in DOMAIN s : t[n] = s[n]
      /\ t[last] = tile
  OBVIOUS
<1>2. tile \in 0..TileCount - 1
  BY GridAssumption
<1> HIDE DEF t, last
<1>3. SafePicks(t, traps)
  BY <1>1, <1>2 DEF SafePicks
<1> QED BY <1>3 DEF t

\* A raised round is still playable.
LEMMA RaisedIsPlayable ==
  ASSUME Serial, PlayInv, NEW r \in Requests, NEW g \in GridGames, RaiseMultiplier(r, g)
  PROVE  Playable(bet'[req[r].ref])
<1> DEFINE i == req[r].ref
           s == bet[i].opened
           tile == req[r].tile
           traps == bet[i].traps
<1> USE DEF Step, At
<1>1. /\ RefersTo(req[r], session, bet) /\ Knows(req[r], session, bet)
      /\ Calls(req[r], bet) /\ HandlerType /\ TypeOK
      /\ req[r].op = "reveal" /\ req[r].pc = "raise" /\ req[r].game = g
  BY DEF Serial, RefInv, SerialInv, PlayInv, TypeOK, RaiseMultiplier
<1>2. i \in DOMAIN bet /\ bet[i].game = g
  BY <1>1, RefIsOfGame DEF Serial, RefInv, Settling
<1>3. /\ bet[i].status = "open" /\ req[r].opened = s /\ req[r].count = bet[i].count
  BY <1>1 DEF Knows, Settling
<1>4. Playable(bet[i])
  BY <1>2 DEF PlayInv
<1>5. s \in Seq(Nat) /\ tile \in Nat
  <2>1. bet[i] \in BetRows
    BY <1>1, <1>2, ElementType DEF TypeOK, BetType
  <2>2. req[r] \in Active
    BY <1>1, RoundWriting DEF RoundWrites
  <2> QED BY <2>1, <2>2 DEF BetRows, Active
<1>6. /\ BetUpdated(i) /\ bet'[i].status = bet[i].status
      /\ bet'[i].opened = Append(s, tile)
      /\ bet'[i].mult = Multiplier(g, bet[i].count, Len(Append(s, tile)))
  BY <1>1, <1>2, <1>3, BetRowsWritten
<1>7. SameBet(bet'[i], bet[i])
  BY <1>2, <1>6 DEF BetUpdated
<1>8. tile < Tiles(g) /\ MayOpen(g, bet[i], tile) /\ Cell(g, s, tile) \notin traps
  BY <1>1 DEF Calls
<1>9. ASSUME g = "mines"
      PROVE  traps \in BuildMinesGrid(bet[i].count, "none") /\ SafePicks(Append(s, tile), traps)
  <2>1. traps \in BuildMinesGrid(bet[i].count, "none") /\ SafePicks(s, traps)
    BY <1>2, <1>3, <1>4, <1>9 DEF Playable
  <2>2. tile < TileCount /\ <<0, tile>> \notin traps /\ \A n \in DOMAIN s : s[n] # tile
    BY <1>8, <1>9 DEF Tiles, Cell, MayOpen
  <2> HIDE DEF s, tile, traps
  <2> QED BY <1>5, <2>1, <2>2, PickIsSafe
<1>10. g = "towers" => Len(Append(s, tile)) <= TowerRows
  <2>1. g = "towers" => Len(s) < TowerRows
    BY <1>8 DEF MayOpen
  <2>2. Len(Append(s, tile)) = Len(s) + 1 /\ Len(s) \in Nat
    BY <1>5
  <2> QED BY <2>1, <2>2, GridAssumption
<1>11. bet[i].stake \in Stakes /\ bet[i].count \in CountInputs(g)
  BY <1>2, <1>3, <1>4 DEF Playable
<1> HIDE DEF i, s, tile, traps
<1>12. Playable(bet'[i])
  BY <1>2, <1>6, <1>7, <1>9, <1>10, <1>11 DEF Playable, SameBet, traps
<1> QED BY <1>12 DEF i

\* A round is opened playable and stays so until it is closed.
LEMMA PlayableKept ==
  ASSUME Serial, PlayInv, [Next]_vars
  PROVE  \A i \in DOMAIN bet' : Playable(bet'[i])
<1> USE DEF Step, At
<1>1. TypeOK /\ \A i \in DOMAIN bet : Playable(bet[i])
  BY DEF Serial, PlayInv
<1>2. CASE UNCHANGED bet
  BY <1>1, <1>2
<1>3. ASSUME NEW r \in Requests, NewRow(r), Playable(bet'[Len(bet) + 1])
      PROVE  \A i \in DOMAIN bet' : Playable(bet'[i])
  BY <1>1, <1>3 DEF NewRow
<1>4. ASSUME NEW r \in Requests, InsertSettledBet(r)
      PROVE  \A i \in DOMAIN bet' : Playable(bet'[i])
  <2>1. NewRow(r) /\ bet'[Len(bet) + 1].status # "open"
    BY <1>1, <1>4, BetInserted
  <2> QED BY <1>3, <2>1 DEF Playable
<1>5. ASSUME NEW r \in Requests, NEW g \in GridGames, InsertOpenRound(r, g)
      PROVE  \A i \in DOMAIN bet' : Playable(bet'[i])
  <2> DEFINE b == bet'[Len(bet) + 1]
  <2>1. /\ NewRow(r) /\ b.game = g /\ b.count = req[r].count /\ b.traps = req[r].traps
        /\ b.stake = req[r].stake /\ b.opened = <<>>
    <3>1. NewRow(r) /\ b.game = g /\ b.count = req[r].count /\ b.traps = req[r].traps
      BY <1>1, <1>5, BetInserted
    <3> QED BY <3>1 DEF NewRow
  <2>2. req[r].op = "start" /\ req[r].pc = "insert" /\ req[r].game = g /\ Calls(req[r], bet)
    BY <1>5 DEF InsertOpenRound, PlayInv
  <2>3. /\ req[r].stake \in Stakes /\ req[r].count \in CountInputs(g)
        /\ g = "mines" => req[r].traps \in BuildMinesGrid(req[r].count, "none")
    BY <2>2 DEF Calls, Betting
  <2>4. SafePicks(<<>>, b.traps) /\ Len(<<>>) <= TowerRows
    BY GridAssumption, EmptySeq DEF SafePicks
  <2> HIDE DEF b
  <2>5. Playable(b)
    BY <2>1, <2>3, <2>4 DEF Playable
  <2> QED BY <1>3, <2>1, <2>5 DEF b
<1>6. ASSUME NEW k, BetUpdated(k), Playable(bet'[k])
      PROVE  \A i \in DOMAIN bet' : Playable(bet'[i])
  BY <1>1, <1>6 DEF BetUpdated
<1>7. ASSUME NEW r \in Requests, NEW g \in GridGames, CloseLostRound(r, g) \/ CloseCashedOutRound(r, g)
      PROVE  \A i \in DOMAIN bet' : Playable(bet'[i])
  <2>1. req[r].ref \in DOMAIN bet
    BY <1>7 DEF Serial, RefInv, RefersTo, Settling, CloseLostRound, CloseCashedOutRound
  <2>2. BetUpdated(req[r].ref) /\ bet'[req[r].ref].status # "open"
    BY <1>1, <1>7, <2>1, BetRowsWritten
  <2> QED BY <1>6, <2>2 DEF Playable
<1>8. ASSUME NEW r \in Requests, NEW g \in GridGames, RaiseMultiplier(r, g)
      PROVE  \A i \in DOMAIN bet' : Playable(bet'[i])
  BY <1>1, <1>6, <1>8, BetRowsWritten, RaisedIsPlayable
<1> QED BY <1>2, <1>4, <1>5, <1>7, <1>8, Writers DEF BetWrite

\* Using up a forced round leaves the rule's cap.
LEMMA CapsStay ==
  ASSUME TypeOK, [Next]_vars
  PROVE  \A x \in Users : control'[x].cap = control[x].cap
<1>1. CASE UNCHANGED control
  BY <1>1
<1>2. ASSUME NEW r \in Requests, ConsumeForcedRound(r)
      PROVE  \A x \in Users : control'[x].cap = control[x].cap
  <2> DEFINE u == req[r].user
             n == AtLeastZero(control[u].forceRounds - 1)
             rule == [control[u] EXCEPT !.forceRounds = n]
  <2>1. control' = [control EXCEPT ![u] = rule]
    BY <1>2 DEF ConsumeForcedRound
  <2>2. u \in Users => rule.cap = control[u].cap
    <3>1. u \in Users => control[u] \in Rules
      BY DEF TypeOK, ControlType
    <3> HIDE DEF n, u
    <3> QED BY <3>1 DEF Rules
  <2> HIDE DEF rule, u
  <2> QED BY <2>1, <2>2 DEF TypeOK, ControlType
<1> QED BY <1>1, <1>2, Writers DEF ControlWrite

\* The invariant of rounds in play holds in every state.
LEMMA PlayHolds ==
  ASSUME SerialPlayers
  PROVE  Spec => [](Serial /\ PaidInv /\ PlayInv)
<1>1. Init => PlayInv
  <2> SUFFICES ASSUME Init PROVE PlayInv
    OBVIOUS
  <2>1. DOMAIN bet = {} /\ \A r \in Requests : req[r] = Idle
    BY DEF Init
  <2>2. CapKept
    BY DEF Init, CapKept
  <2> QED BY <2>1, <2>2, IdleCalls DEF PlayInv
<1>2. Serial /\ PlayInv /\ [Next]_vars => PlayInv'
  <2> SUFFICES ASSUME Serial, PlayInv, [Next]_vars PROVE PlayInv'
    OBVIOUS
  <2>1. CapKept'
    BY CapsStay DEF PlayInv, Serial, CapKept
  <2>2. \A q \in Requests : Calls(req'[q], bet')
    BY CallsKept
  <2> QED BY <2>1, <2>2, PlayableKept DEF PlayInv
<1>3. TypeOK /\ BookInv /\ SerialInv => Serial
  BY DEF Serial, BookInv
<1> QED BY <1>1, <1>2, <1>3, PaidHolds, PTL DEF Spec

---------------------------------------------------------------------------
(* What a round can be cashed out at *)

\* A Mines board has no more cells than tiles.
LEMMA BoardSize ==
  LET board == {0} \X (0..TileCount - 1)
  IN  IsFiniteSet(board) /\ Cardinality(board) <= TileCount
<1> DEFINE board == {0} \X (0..TileCount - 1)
           tiles == 0..TileCount - 1
           f == [c \in board |-> c[2]]
<1>1. f \in Injection(board, tiles)
  BY DEF Injection, IsInjective
<1>2. IsFiniteSet(tiles) /\ Cardinality(tiles) = TileCount
  BY FS_Interval, GridAssumption
<1> HIDE DEF f, tiles
<1>3. IsFiniteSet(board) /\ Cardinality(board) <= TileCount
  BY <1>1, <1>2, FS_Injection
<1> QED BY <1>3

\* Different tiles that hide no mine are at most the tiles that are not mined.
LEMMA PicksFit ==
  ASSUME NEW count \in Nat, NEW traps \in BuildMinesGrid(count, "none"),
         NEW opened \in Seq(Nat), SafePicks(opened, traps)
  PROVE  Len(opened) <= TileCount - count
<1> DEFINE board == {0} \X (0..TileCount - 1)
           free == board \ traps
           picks == 1..Len(opened)
           f == [k \in picks |-> <<0, opened[k]>>]
<1>1. traps \subseteq board /\ Cardinality(traps) = count
  BY DEF BuildMinesGrid
<1>2. IsFiniteSet(board) /\ Cardinality(board) <= TileCount
  BY BoardSize
<1>3. DOMAIN opened = picks /\ Len(opened) \in Nat
  OBVIOUS
<1>4. f \in Injection(picks, free)
  <2>1. \A k \in picks : opened[k] \in 0..TileCount - 1 /\ <<0, opened[k]>> \notin traps
    BY <1>3 DEF SafePicks
  <2>2. \A k \in picks : f[k] \in free
    BY <2>1
  <2>3. \A k, l \in picks : f[k] = f[l] => k = l
    <3>1. \A k, l \in picks : opened[k] = opened[l] => k = l
      BY <1>3 DEF SafePicks
    <3>2. \A k, l \in picks : f[k] = f[l] => opened[k] = opened[l]
      OBVIOUS
    <3> QED BY <3>1, <3>2
  <2>4. f \in [picks -> free] /\ DOMAIN f = picks
    BY <2>2
  <2> HIDE DEF f, picks, free
  <2> QED BY <2>3, <2>4 DEF Injection, IsInjective
<1>5. IsFiniteSet(picks) /\ Cardinality(picks) = Len(opened)
  <2>1. \A n \in Nat : IsFiniteSet(1..n) /\ Cardinality(1..n) = n
    <3> TAKE n \in Nat
    <3>1. IsFiniteSet(1..n) /\ Cardinality(1..n) = IF 1 > n THEN 0 ELSE n - 1 + 1
      BY FS_Interval
    <3> QED BY <3>1
  <2> QED BY <1>3, <2>1
<1> HIDE DEF f, picks, board
<1>6. IsFiniteSet(free) /\ Cardinality(free) = Cardinality(board) - count
  <2>1. board \cap traps = traps
    BY <1>1
  <2> QED BY <1>1, <1>2, <2>1, FS_Difference
<1> HIDE DEF free
<1>7. Cardinality(picks) <= Cardinality(free)
  BY <1>4, <1>6, FS_Injection
<1>8. Cardinality(board) \in Nat
  BY <1>2, FS_CardinalityType
<1> QED BY <1>2, <1>3, <1>5, <1>6, <1>7, <1>8, GridAssumption

\* A round with a pick can be cashed out at odds of its game, and never for nothing.
LEMMA RoundInOdds ==
  ASSUME NEW b \in BetRows, b.status = "open", b.game \in GridGames, Playable(b), b.opened # <<>>
  PROVE  b.mult \in Odds(b.game) \ {0}
<1> DEFINE n == Len(b.opened)
<1>1. b.opened \in Seq(Nat) /\ n \in Nat /\ n >= 1
  <2>1. b.opened \in Seq(Nat)
    BY DEF BetRows
  <2> QED BY <2>1, EmptySeq
<1>2. b.count \in CountInputs(b.game) /\ b.mult = Multiplier(b.game, b.count, n)
  BY DEF Playable
<1>3. CASE b.game = "mines"
  <2>1. b.count \in MineCounts /\ b.count \in Nat
    BY <1>2, <1>3, GridAssumption DEF CountInputs
  <2>2. n <= TileCount - b.count
    BY <1>1, <1>3, <2>1, PicksFit DEF Playable
  <2> HIDE DEF n
  <2>3. n \in 1..TileCount - b.count /\ n \in 1..TileCount + TowerRows
    BY <1>1, <2>1, <2>2, GridAssumption
  <2>4. b.mult = MinesMultiplier[b.count][n]
    BY <1>2, <1>3, <2>3 DEF Multiplier
  <2>5. b.mult > 0
    BY <2>1, <2>3, <2>4, OddsAssumption
  <2> QED BY <1>2, <2>3, <2>5 DEF Odds
<1>4. CASE b.game = "towers"
  <2>1. n <= TowerRows
    BY <1>4 DEF Playable
  <2> HIDE DEF n
  <2>2. n \in 1..TowerRows /\ n \in 1..TileCount + TowerRows
    BY <1>1, <2>1, GridAssumption
  <2>3. b.mult = TowersMultiplier[n]
    BY <1>2, <1>4, <2>2 DEF Multiplier
  <2>4. b.mult > 0
    BY <2>2, <2>3, OddsAssumption
  <2> QED BY <1>2, <2>2, <2>4 DEF Odds
<1> QED BY <1>3, <1>4 DEF GridGames

---------------------------------------------------------------------------
(* The service keeps the book *)

\* Funds move with the balance of the one wallet that moves.
LEMMA FundsMoved ==
  ASSUME TypeOK, NEW v \in Users, NEW net \in Int, NEW locked, NEW wagered, NEW won,
         WalletMoved(v, net, locked, wagered, won)
  PROVE  Funds' = [Funds EXCEPT ![v] = @ + net] /\ Funds[v] = wallet[v].balance
                  /\ Funds[v] \in Int
<1>1. \A u \in Users : wallet'[u].balance = IF u = v THEN wallet[v].balance + net
                                                     ELSE wallet[u].balance
  BY DEF WalletMoved
<1>2. wallet[v].balance \in Int
  BY DEF TypeOK, WalletType, Wallets
<1> QED BY <1>1, <1>2 DEF Funds

\* What is held moves with the one round that moves.
LEMMA HeldMoved ==
  ASSUME NEW v \in Users, NEW g \in GridGames, NEW n, Held(v, g)' = n,
         \A u \in Users, f \in GridGames : u # v \/ f # g => Held(u, f)' = Held(u, f)
  PROVE  HeldBook' = [HeldBook EXCEPT ![v][g] = n] /\ HeldBook[v][g] = Held(v, g)
<1>1. \A u \in Users, f \in GridGames : HeldBook[u][f] = Held(u, f) /\ HeldBook'[u][f] = Held(u, f)'
  BY DEF HeldBook
<1>2. HeldBook' = [u \in Users |-> [f \in GridGames |-> Held(u, f)']]
  BY DEF HeldBook
<1>3. [HeldBook EXCEPT ![v][g] = n]
        = [u \in Users |-> [f \in GridGames |-> IF u = v /\ f = g THEN n ELSE Held(u, f)]]
  BY DEF HeldBook
<1>4. [u \in Users |-> [f \in GridGames |-> Held(u, f)']]
        = [u \in Users |-> [f \in GridGames |-> IF u = v /\ f = g THEN n ELSE Held(u, f)]]
  <2>1. \A u \in Users, f \in GridGames : Held(u, f)' = IF u = v /\ f = g THEN n ELSE Held(u, f)
    OBVIOUS
  <2> QED BY <2>1
<1> QED BY <1>1, <1>2, <1>3, <1>4

\* A stake that was checked is worth something.
LEMMA StakesArePositive == \A x \in Stakes : x \in Nat /\ x > 0
BY MoneyAssumption, RoundMoneyType DEF Stakes, ValidStake

\* The debit opens a round of the book.
LEMMA BookOpens ==
  ASSUME Serial, Serial', PlayInv, NEW r \in Requests, NEW g \in GridGames, Takes(r, g)
  PROVE  Book!Next
<1> DEFINE stake == req[r].stake
<1>1. PICK v : v = req[r].user
  OBVIOUS
<1>2. /\ req[r] \in Active /\ wallet[v].balance >= stake
      /\ WalletMoved(v, 0 - stake, wallet[v].lockedBalance + stake, stake, 0)
  BY <1>1, TakeMoves DEF Serial
<1>3. v \in Users
  BY <1>1, <1>2 DEF Active
<1>4. stake \in Stakes /\ stake \in Nat
  <2>1. req[r].op = "start" /\ req[r].pc = "debit" /\ Calls(req[r], bet)
    BY DEF Takes, HoldStake, Step, At, PlayInv
  <2> QED BY <2>1, StakesArePositive DEF Calls, Betting
<1>5. /\ Held(v, g) = 0 /\ Held(v, g)' = stake
      /\ \A u \in Users, f \in GridGames : u # v \/ f # g => Held(u, f)' = Held(u, f)
  BY <1>1, HeldByDebit DEF Takes
<1>6. HeldBook' = [HeldBook EXCEPT ![v][g] = stake] /\ HeldBook[v][g] = 0
  BY <1>3, <1>5, HeldMoved
<1>7. /\ Funds' = [Funds EXCEPT ![v] = @ + (0 - stake)]
      /\ Funds[v] = wallet[v].balance /\ Funds[v] \in Int
  BY <1>2, <1>3, <1>4, FundsMoved DEF Serial
<1>8. Funds' = [Funds EXCEPT ![v] = @ - stake] /\ stake <= Funds[v]
  <2>1. Funds[v] + (0 - stake) = Funds[v] - stake
    BY <1>4, <1>7
  <2>2. stake <= Funds[v]
    BY <1>2, <1>4, <1>7
  <2> QED BY <1>7, <2>1, <2>2, Zenon
<1> HIDE DEF stake
<1>9. Book!Open(v, g)
  BY <1>4, <1>6, <1>8 DEF Book!Open
<1> QED BY <1>3, <1>9 DEF Book!Next

\* What a release gives back is the stake of an open, playable round.
LEMMA ReleasedRound ==
  ASSUME Serial, PlayInv, NEW r \in Requests, NEW g \in GridGames, GivesBack(r, g)
  PROVE  /\ req[r] \in Active
         /\ req[r].ref \in DOMAIN bet /\ bet[req[r].ref] \in BetRows
         /\ bet[req[r].ref].game = g /\ bet[req[r].ref].status = "open"
         /\ Playable(bet[req[r].ref]) /\ bet[req[r].ref].stake = req[r].stake
         /\ req[r].stake \in Nat /\ req[r].stake > 0
         /\ CreditPayout(r, g) =>
              /\ bet[req[r].ref].opened # <<>>
              /\ req[r].payout = RoundMoney(bet[req[r].ref].stake * bet[req[r].ref].mult)
<1> DEFINE i == req[r].ref
<1> USE DEF Step, At
<1>1. /\ req[r].op \in Settling /\ req[r].game = g /\ req[r].pc \in {"unlock", "credit"}
      /\ CreditPayout(r, g) => req[r].op = "cashOut" /\ req[r].pc = "credit"
  BY DEF GivesBack, ReleaseStake, CreditPayout, Settling
<1>2. /\ RefersTo(req[r], session, bet) /\ Knows(req[r], session, bet)
      /\ \A j \in DOMAIN bet : SessionOf(bet[j], session)
  BY DEF Serial, RefInv, SerialInv
<1>3. i \in DOMAIN bet /\ bet[i].game = g
  BY <1>1, <1>2, RefIsOfGame
<1>4. bet[i].stake = req[r].stake
  BY <1>1, <1>2 DEF RefersTo, Owns
<1>5. bet[i].status = "open"
  BY <1>1, <1>2 DEF Knows
<1>6. bet[i] \in BetRows
  BY <1>3, ElementType DEF Serial, TypeOK, BetType
<1>7. Playable(bet[i])
  BY <1>3 DEF PlayInv
<1>8. req[r].stake \in Stakes
  BY <1>4, <1>5, <1>7 DEF Playable
<1>9. CreditPayout(r, g) =>
        bet[i].opened # <<>> /\ req[r].payout = RoundMoney(bet[i].stake * bet[i].mult)
  BY <1>1, <1>2 DEF Knows
<1>10. req[r] \in Active
  BY RoundWriting DEF GivesBack, RoundWrites, Serial, TypeOK
<1> QED BY <1>3, <1>4, <1>5, <1>6, <1>7, <1>8, <1>9, <1>10, StakesArePositive

\* The release of a stake loses its round, the credit of a payout cashes it out.
LEMMA BookCloses ==
  ASSUME Serial, Serial', PlayInv, NEW r \in Requests, NEW g \in GridGames, GivesBack(r, g)
  PROVE  Book!Next
<1> DEFINE stake == req[r].stake
           b == bet[req[r].ref]
<1>1. PICK v : v = req[r].user
  OBVIOUS
<1>2. /\ req[r] \in Active /\ b \in BetRows /\ b.game = g /\ b.status = "open" /\ Playable(b)
      /\ b.stake = stake /\ stake \in Nat /\ stake > 0
      /\ CreditPayout(r, g) => b.opened # <<>> /\ req[r].payout = RoundMoney(b.stake * b.mult)
  BY ReleasedRound
<1>3. v \in Users
  BY <1>1, <1>2 DEF Active
<1>4. /\ Held(v, g) = stake /\ Held(v, g)' = 0
      /\ \A u \in Users, f \in GridGames : u # v \/ f # g => Held(u, f)' = Held(u, f)
  BY <1>1, HeldByRelease DEF GivesBack
<1>5. HeldBook' = [HeldBook EXCEPT ![v][g] = 0] /\ HeldBook[v][g] = stake
  BY <1>3, <1>4, HeldMoved
<1>6. /\ ReleaseStake(r, g) => WalletMoved(v, 0, Released(r), 0, 0)
      /\ CreditPayout(r, g) => WalletMoved(v, req[r].payout, Released(r), 0, req[r].payout)
  BY <1>1, ReleaseMoves DEF Serial, TypeOK
<1> HIDE DEF stake, b
<1>7. CASE ReleaseStake(r, g)
  <2>1. Funds' = [Funds EXCEPT ![v] = @ + 0] /\ Funds[v] \in Int
    BY <1>3, <1>6, <1>7, FundsMoved DEF Serial
  <2>2. Funds' = Funds
    BY <2>1 DEF Funds
  <2>3. Book!Lose(v, g)
    BY <1>2, <1>5, <2>2 DEF Book!Lose
  <2> QED BY <1>3, <2>3 DEF Book!Next
<1>8. CASE CreditPayout(r, g)
  <2>1. b.mult \in Odds(g) \ {0}
    BY <1>2, <1>8, RoundInOdds
  <2>2. req[r].payout \in Int
    BY <1>2 DEF Active
  <2>3. Funds' = [Funds EXCEPT ![v] = @ + req[r].payout]
    BY <1>3, <1>6, <1>8, <2>2, FundsMoved DEF Serial
  <2>4. req[r].payout = Book!Pays(HeldBook[v][g], b.mult)
    BY <1>2, <1>5, <1>8 DEF Book!Pays, RoundMoney
  <2>5. Book!CashOut(v, g)
    <3>1. HeldBook[v][g] > 0
      BY <1>2, <1>5
    <3>2. Funds' = [Funds EXCEPT ![v] = @ + Book!Pays(HeldBook[v][g], b.mult)]
      BY <2>3, <2>4
    <3>3. b.mult \in [f \in GridGames |-> Odds(f) \ {0}][g]
      BY <2>1
    <3> QED BY <1>5, <3>1, <3>2, <3>3 DEF Book!CashOut
  <2> QED BY <1>3, <2>5 DEF Book!Next
<1> QED BY <1>7, <1>8 DEF GivesBack

\* A deposit and an instant bet move funds as the book says, and no other statement does.
LEMMA BookOtherwise ==
  ASSUME Serial, PaidInv, PlayInv, HeldSame, OtherwisePaid
  PROVE  Book!Next \/ UNCHANGED <<Funds, HeldBook>>
<1>1. HeldBook' = HeldBook
  BY DEF HeldSame, HeldBook
<1>2. CASE UNCHANGED wallet
  <2>1. Funds' = Funds
    BY <1>2 DEF Funds
  <2> QED BY <1>1, <2>1
<1>3. ASSUME NEW u \in Users, CreditWallet(u)
      PROVE  Book!Next
  <2>1. PICK amount \in DepositAmounts : WalletMoved(u, amount, wallet[u].lockedBalance, 0, 0)
    BY <1>3, CreditMoves DEF Serial, TypeOK
  <2>2. amount \in Int
    BY MoneyAssumption
  <2>3. Funds' = [Funds EXCEPT ![u] = @ + amount]
    BY <2>1, <2>2, FundsMoved DEF Serial
  <2>4. Book!Deposit(u)
    BY <1>1, <2>3 DEF Book!Deposit
  <2> QED BY <2>4 DEF Book!Next
<1>4. ASSUME NEW r \in Requests, SettleWallet(r), GoesOn(r, "insert")
      PROVE  Book!Next
  <2> DEFINE v == req[r].user
             stake == req[r].stake
             mult == req[r].mult
             payout == req[r].payout
  <2>1. req[r].op = "placeBet" /\ req[r].pc = "debit"
    BY <1>4 DEF SettleWallet, At
  <2>2. stake \in Stakes /\ mult \in WinOdds /\ payout = RoundMoney(stake * mult)
    BY <2>1 DEF PlayInv, Calls, Betting, PaidInv, Priced
  <2>3. /\ req[r] \in Active
        /\ req'[r] # Idle => /\ Debit(v, stake, payout, 0)
                             /\ wallet[v].balance >= stake
    BY <1>4, BetWriting DEF Serial, TypeOK, BetWrites
  <2>4. Debit(v, stake, payout, 0) /\ wallet[v].balance >= stake
    BY <1>4, <2>1, <2>3 DEF GoesOn, SameCall, Idle
  <2>5. v \in Users /\ stake \in Nat /\ payout \in Nat
    BY <2>3 DEF Active
  <2> HIDE DEF v, stake, mult, payout
  <2>6. WalletMoved(v, payout - stake, wallet[v].lockedBalance + 0, stake, payout)
    BY <2>4, <2>5, DebitMoves DEF Serial, TypeOK
  <2>7. payout - stake \in Int
    BY <2>5
  <2>8. /\ Funds' = [Funds EXCEPT ![v] = @ + (payout - stake)]
        /\ Funds[v] = wallet[v].balance /\ Funds[v] \in Int
    BY <2>5, <2>6, <2>7, FundsMoved DEF Serial
  <2>9. Funds' = [Funds EXCEPT ![v] = @ - stake + payout] /\ stake <= Funds[v]
    <3>1. Funds[v] + (payout - stake) = Funds[v] - stake + payout
      BY <2>5, <2>8
    <3>2. stake <= Funds[v]
      BY <2>4, <2>5, <2>8
    <3> QED BY <2>8, <3>1, <3>2, Zenon
  <2>10. payout = Book!Pays(stake, mult)
    BY <2>2 DEF RoundMoney, Book!Pays
  <2>11. Book!Instant(v)
    BY <1>1, <2>2, <2>9, <2>10 DEF Book!Instant
  <2> QED BY <2>5, <2>11 DEF Book!Next
<1> QED BY <1>2, <1>3, <1>4 DEF OtherwisePaid

\* The play service implements the book for players who send one request at a time, as
\* long as no handler has failed: of the statements that placeBet, start, reveal and
\* cashOut run, the one that moves the wallet makes the whole bet, with a stake within
\* the limits, at odds of its game, and the others change nothing the book knows.
THEOREM ServiceKeepsTheBook == ASSUME SerialPlayers PROVE Spec => KeepsTheBook
<1>1. Init => Book!Init
  <2> SUFFICES ASSUME Init PROVE Book!Init
    OBVIOUS
  <2>1. Funds = [u \in Users |-> 0]
    BY NothingHeldAtInit DEF Funds, Init, NewWallet
  <2>2. HeldBook = [u \in Users |-> [g \in GridGames |-> 0]]
    BY NothingHeldAtInit DEF HeldBook
  <2> QED BY <2>1, <2>2 DEF Book!Init
<1>2. Serial /\ Serial' /\ PaidInv /\ PlayInv /\ [Next]_vars
        => [failures' = 0 => Book!Next \/ UNCHANGED <<Funds, HeldBook>>]_vars
  <2> SUFFICES ASSUME Serial, Serial', PaidInv, PlayInv, [Next]_vars, failures' = 0
               PROVE  Book!Next \/ UNCHANGED <<Funds, HeldBook>>
    OBVIOUS
  <2>1. failures' = failures
    <3>1. failures \in Nat
      BY DEF Serial, TypeOK
    <3> QED BY <3>1, Writers DEF Abort
  <2> QED BY <2>1, HeldStep, BookOpens, BookCloses, BookOtherwise
<1> QED BY <1>1, <1>2, PlayHolds, PTL DEF Spec, KeepsTheBook
---------------------------------------------------------------------------
(* What a rule caps *)

Capped(mult, u) == control[u].cap > 0 => mult <= control[u].cap

\* Instant bets are capped by the rule of their player, and so is what a handler
\* has rolled and not inserted yet.
CapInv ==
  /\ \A i \in DOMAIN bet : bet[i].game = "instant" => Capped(bet[i].mult, bet[i].user)
  /\ \A r \in Requests :
       req[r].op = "placeBet" /\ req[r].pc \in {"debit", "insert"}
         => Capped(req[r].mult, req[r].user)

\* A round is capped as it is rolled.
LEMMA RolledIsCapped ==
  ASSUME TypeOK, NEW r \in Requests, RollRound(r)
  PROVE  Capped(req'[r].mult, req[r].user)
<1> DEFINE rule == control[req[r].user]
           Rolled(forced, raw) ==
             req' = [req EXCEPT ![r].pc = "debit", ![r].forced = forced,
                                ![r].metered = Metered(rule), ![r].mult = ApplyWinCap(raw, rule),
                                ![r].payout = RoundMoney(req[r].stake * ApplyWinCap(raw, rule))]
<1>1. PICK forced \in ResolveControl(rule) : \E raw \in Roll(forced) : Rolled(forced, raw)
  BY DEF RollRound
<1>2. PICK raw \in Roll(forced) : Rolled(forced, raw)
  BY <1>1
<1> DEFINE mult == ApplyWinCap(raw, rule)
           payout == RoundMoney(req[r].stake * mult)
           metered == Metered(rule)
           h == [req[r] EXCEPT !.pc = "debit", !.forced = forced, !.metered = metered,
                               !.mult = mult, !.payout = payout]
<1>3. req[r] \in Active /\ HandlerType
  BY AtBusy, AtActive DEF TypeOK, RollRound, At, Ops
<1>4. req'[r] = h
  BY <1>2, <1>3 DEF HandlerType
<1>5. h.mult = mult
  <2> HIDE DEF mult, payout, metered
  <2> QED BY <1>3 DEF Active
<1>6. raw \in Nat /\ rule.cap \in Nat
  <2>1. req[r].user \in Users /\ rule \in Rules
    BY <1>3 DEF Active, TypeOK, ControlType
  <2>2. forced \in {"none", "win", "loss"}
    BY <1>2, <2>1, RollType
  <2>3. raw \in Multipliers \cup {0}
    BY <1>2, <2>2 DEF Roll
  <2> QED BY <2>1, <2>3, MoneyAssumption DEF Rules
<1>7. rule.cap > 0 => mult <= rule.cap
  <2> HIDE DEF rule
  <2> QED BY <1>6 DEF ApplyWinCap
<1> QED BY <1>4, <1>5, <1>7 DEF Capped

\* What a handler has rolled stays capped until the bet is in.
LEMMA RollsStayCapped ==
  ASSUME TypeOK, TypeOK', CapInv, [Next]_vars, NEW q \in Requests,
         req'[q].op = "placeBet", req'[q].pc \in {"debit", "insert"}
  PROVE  Capped(req[q].mult, req[q].user)'
<1> USE DEF Step, At
<1>1. HandlerType /\ \A x \in Users : control'[x].cap = control[x].cap
  BY CapsStay DEF TypeOK
<1>2. req'[q].user \in Users /\ req'[q] # Idle
  <2>1. req'[q] # Idle
    BY DEF Idle
  <2>2. req'[q] \in Handlers
    BY DEF TypeOK, HandlerType
  <2> QED BY <2>1, <2>2 DEF Handlers, Active
<1>3. Capped(req'[q].mult, req'[q].user) => Capped(req[q].mult, req[q].user)'
  BY <1>1, <1>2 DEF Capped
<1>4. CASE req'[q] = req[q]
  BY <1>3, <1>4 DEF CapInv
<1>5. CASE Arrivals(q) /\ Arrived(req'[q])
  BY <1>5 DEF Arrived
<1>6. ASSUME Reads(q), Read(req[q], req'[q])
      PROVE  Capped(req'[q].mult, req'[q].user)
  <2>1. req[q].op = "placeBet" /\ req[q].pc = "control" /\ req'[q].user = req[q].user
    BY <1>6 DEF Read, SameRequest, Betting, Settling
  <2>2. RollRound(q)
    BY <1>6, <2>1
       DEF Reads, GetPlayableGame, ReadSession, PlaceBetChecks, ReadWallet, CountBets, StartChecks,
           SelectOpenRound, LayGrid, RevealChecks, ReadRound, CashOutChecks, ReadRoundToPay
  <2> QED BY <2>1, <2>2, RolledIsCapped
<1>7. ASSUME Goes(q)
      PROVE  Capped(req'[q].mult, req'[q].user)
  <2>1. SettleWallet(q) /\ GoesOn(q, "insert")
    BY <1>7 DEF Goes, GoesOn, SameCall, Inserted, EndOpenSessions, SettleWallet, InsertSettledBet,
         InsertBetLedger, BumpSettledBet, HoldStake, InsertOpenRound, InsertStakeRow,
         ReleaseStake, CreditPayout, CloseCashedOutRound, InsertPayoutRow
  <2> QED BY <2>1 DEF CapInv, SettleWallet, GoesOn, SameCall
<1> QED BY <1>1, <1>2, <1>3, <1>4, <1>5, <1>6, <1>7, HandlerStep

\* Bets stay capped: an instant bet is inserted as it was rolled and never written
\* again.
LEMMA BetsStayCapped ==
  ASSUME TypeOK, TypeOK', RefInv, CapInv, [Next]_vars, NEW i \in DOMAIN bet',
         bet'[i].game = "instant"
  PROVE  Capped(bet[i].mult, bet[i].user)'
<1> USE DEF Step, At
<1>1. \A x \in Users : control'[x].cap = control[x].cap
  BY CapsStay
<1>2. bet'[i].user \in Users
  <2>1. BetType'
    BY DEF TypeOK
  <2>2. bet'[i] \in BetRows
    BY <2>1, ElementType DEF BetType
  <2> QED BY <2>2 DEF BetRows
<1>3. Capped(bet'[i].mult, bet'[i].user) => Capped(bet[i].mult, bet[i].user)'
  BY <1>1, <1>2 DEF Capped
<1>4. CASE UNCHANGED bet
  BY <1>3, <1>4 DEF CapInv
<1>5. ASSUME NEW r \in Requests, InsertSettledBet(r)
      PROVE  Capped(bet'[i].mult, bet'[i].user)
  <2>1. /\ NewRow(r) /\ bet'[Len(bet) + 1].mult = req[r].mult
        /\ req[r].op = "placeBet" /\ req[r].pc = "insert"
    BY <1>5, BetInserted DEF InsertSettledBet
  <2> QED BY <2>1 DEF NewRow, CapInv
<1>6. ASSUME NEW r \in Requests, NEW g \in GridGames, InsertOpenRound(r, g)
      PROVE  Capped(bet'[i].mult, bet'[i].user)
  <2>1. NewRow(r) /\ bet'[Len(bet) + 1].game # "instant"
    BY <1>6, BetInserted DEF GridGames
  <2> QED BY <2>1 DEF NewRow, CapInv
<1>7. ASSUME NEW r \in Requests, NEW g \in GridGames,
             \/ CloseLostRound(r, g) \/ CloseCashedOutRound(r, g) \/ RaiseMultiplier(r, g)
      PROVE  Capped(bet'[i].mult, bet'[i].user)
  <2>1. req[r].op \in Settling /\ req[r].pc \notin {"session", "row"} /\ RoundWrites(r, g)
    BY <1>7 DEF CloseLostRound, CloseCashedOutRound, RaiseMultiplier, Settling, RoundWrites
  <2>2. req[r].game = g
    BY <2>1, RoundWriting DEF TypeOK
  <2>3. req[r].ref \in DOMAIN bet /\ bet[req[r].ref].game = g
    BY <2>1, <2>2, RefIsOfGame DEF RefInv
  <2>4. BetUpdated(req[r].ref)
    BY <1>7, BetRowsWritten
  <2>5. i \in DOMAIN bet /\ bet[i].game = "instant"
    BY <2>4 DEF BetUpdated, SameBet
  <2>6. i # req[r].ref
    BY <2>3, <2>5 DEF GridGames
  <2>7. bet'[i] = bet[i]
    BY <2>4, <2>5, <2>6 DEF BetUpdated
  <2> QED BY <2>5, <2>7 DEF CapInv
<1> QED BY <1>3, <1>4, <1>5, <1>6, <1>7, Writers DEF BetWrite

\* No instant bet pays more than the cap of its player's rule: placeBet
\* caps the multiplier it has rolled before any money moves.  A rule keeps the cap it
\* started with: the handlers use up its forced rounds and nothing else.
THEOREM InstantWinsAreCapped == Spec => []ControlledWinIsCapped
<1>1. Init => CapInv
  <2> SUFFICES ASSUME Init PROVE CapInv
    OBVIOUS
  <2>1. DOMAIN bet = {} /\ \A r \in Requests : req[r] = Idle
    BY DEF Init
  <2> QED BY <2>1 DEF CapInv, Idle
<1>2. TypeOK /\ TypeOK' /\ BookInv /\ CapInv /\ [Next]_vars => CapInv'
  <2> SUFFICES ASSUME TypeOK, TypeOK', BookInv, CapInv, [Next]_vars PROVE CapInv'
    OBVIOUS
  <2>1. \A i \in DOMAIN bet' : bet'[i].game = "instant" => Capped(bet[i].mult, bet[i].user)'
    BY BetsStayCapped DEF BookInv
  <2>2. \A r \in Requests : req'[r].op = "placeBet" /\ req'[r].pc \in {"debit", "insert"}
          => Capped(req[r].mult, req[r].user)'
    BY RollsStayCapped
  <2> QED BY <2>1, <2>2 DEF CapInv, Capped
<1>3. CapInv => ControlledWinIsCapped
  BY DEF CapInv, Capped, ControlledWinIsCapped
<1> QED BY <1>1, <1>2, <1>3, BooksHold, PTL DEF Spec

---------------------------------------------------------------------------
(* How many rounds a rule forces *)

\* Bets are instant and only rules decide them: a round of Mines or Towers obeys a rule
\* and uses nothing up, and a difficulty goes on when a rule is used up.
OnlyRulesDecide == Difficulty = 0 /\ \A g \in GridGames : <<"start", g>> \notin Commands

Forces(rule) == rule.mode \in {"force_win", "force_loss"}

\* What a handler read of the rule of its player is still so, and it has rolled what that
\* rule forces.
MeterRight(h, C) ==
  h.op = "placeBet" =>
    /\ h.pc \in {"debit", "insert", "ledger", "bump", "consume"} /\ Forces(C[h.user])
         => (h.metered <=> C[h.user].forceRounds > 0)
    /\ h.pc \in {"debit", "insert"} /\ Forces(C[h.user]) => (h.metered <=> h.forced # "none")
    /\ h.pc = "consume" => h.metered

\* A handler whose bet is in and has not used up its round yet.
Owing(h) == h.op = "placeBet" /\ h.pc \in {"ledger", "bump", "consume"} /\ h.metered
Owes(R, u) == \E r \in Requests : R[r].user = u /\ Owing(R[r])

DecidedBets(B, u) == {i \in DOMAIN B : B[i].user = u /\ B[i].controlled /\ B[i].status # "open"}

\* Of n rounds the rule had, those it has left and those it decided, less one on its way.
Metering(n, C, R, B, u) ==
  n + (IF Owes(R, u) THEN 1 ELSE 0) = C[u].forceRounds + Cardinality(DecidedBets(B, u))

\* As many rounds as a rule forces were decided, are left or are on their way.
MeterInv ==
  /\ \A i \in DOMAIN bet : Finished(i)
  /\ \A r \in Requests : req[r].op # "start" /\ MeterRight(req[r], control)
  /\ \A u \in Users : Forces(control[u]) =>
       \E rule \in ControlRules :
         /\ rule.mode = control[u].mode /\ rule.cap = control[u].cap
         /\ failures = 0 => Metering(rule.forceRounds, control, req, bet, u)

\* Players send commands.
LEMMA ArrivalIsCommand ==
  ASSUME HandlerType, NEW r \in Requests, Arrivals(r)
  PROVE  <<req'[r].op, req'[r].game>> \in Commands
<1> DEFINE Goal == <<req'[r].op, req'[r].game>> \in Commands
<1>1. ASSUME NEW call, Arrive(r, call) PROVE Goal
  BY <1>1, ArriveKeeps DEF Arrive
<1> HIDE DEF Goal
<1>2. StartSessionArrives(r) \/ EndSessionArrives(r) \/ PlaceBetArrives(r) => Goal
  BY <1>1 DEF StartSessionArrives, EndSessionArrives, PlaceBetArrives
<1>3. \A g \in GridGames : StartArrives(r, g) \/ RevealArrives(r, g) \/ CashOutArrives(r, g) => Goal
  BY <1>1 DEF StartArrives, RevealArrives, CashOutArrives
<1> QED BY <1>2, <1>3 DEF Arrivals, Goal

\* No round is started, and every bet is inserted settled.
LEMMA NoRoundsStart ==
  ASSUME OnlyRulesDecide, TypeOK, RefInv, SerialInv, MeterInv, [Next]_vars
  PROVE  /\ \A i \in DOMAIN bet' : Finished(i)'
         /\ \A q \in Requests : req'[q].op # "start"
         /\ UNCHANGED bet \/ \E r \in Requests : InsertSettledBet(r)
<1> USE DEF Step, At
<1>1. ASSUME NEW q \in Requests PROVE req'[q].op # "start"
  <2>1. req[q].op # "start"
    BY DEF MeterInv
  <2>2. CASE Arrivals(q)
    BY <2>2, Arriving, ArrivalIsCommand DEF TypeOK, Arrived, OnlyRulesDecide
  <2>3. ASSUME Reads(q), Read(req[q], req'[q]) PROVE req'[q].op = req[q].op
    BY <2>3 DEF Read, SameRequest
  <2>4. ASSUME Goes(q) PROVE req'[q].op = req[q].op \/ req'[q].op = "cashOut"
    BY <2>4 DEF Goes, GoesOn, SameCall, Inserted
  <2>5. Idle.op # "start" /\ HandlerType
    BY DEF Idle, TypeOK
  <2> QED BY <2>1, <2>2, <2>3, <2>4, <2>5, HandlerStep
<1>2. UNCHANGED bet \/ \E r \in Requests : InsertSettledBet(r)
  <2>1. ASSUME NEW r \in Requests, NEW g \in GridGames,
               \/ InsertOpenRound(r, g) \/ CloseLostRound(r, g) \/ RaiseMultiplier(r, g)
               \/ CloseCashedOutRound(r, g)
        PROVE  FALSE
    <3>1. Knows(req[r], session, bet) /\ RefersTo(req[r], session, bet) /\ req[r].op # "start"
      BY DEF SerialInv, RefInv, MeterInv
    <3>2. req[r].ref \in DOMAIN bet /\ bet[req[r].ref].status = "open"
      BY <2>1, <3>1 DEF Knows, RefersTo, InsertOpenRound, CloseLostRound, RaiseMultiplier,
                        CloseCashedOutRound, Settling
    <3> QED BY <3>2 DEF MeterInv, Finished
  <2> QED BY <2>1, Writers DEF BetWrite
<1>3. \A i \in DOMAIN bet' : Finished(i)'
  <2>1. CASE UNCHANGED bet
    BY <2>1 DEF MeterInv, Finished
  <2>2. ASSUME NEW r \in Requests, InsertSettledBet(r) PROVE \A i \in DOMAIN bet' : Finished(i)'
    <3>1. NewRow(r) /\ bet'[Len(bet) + 1].status # "open"
      BY <2>2, BetInserted
    <3> QED BY <3>1 DEF NewRow, MeterInv, Finished
  <2> QED BY <1>2, <2>1, <2>2
<1> QED BY <1>1, <1>2, <1>3

\* Only a handler uses a rule up, and only its own player's.
LEMMA RuleUsed ==
  ASSUME TypeOK, [Next]_vars, NEW u \in Users, control'[u] # control[u]
  PROVE  \E r \in Requests :
           /\ ConsumeForcedRound(r) /\ req[r].user = u
           /\ control'[u].mode = control[u].mode /\ control'[u].cap = control[u].cap
           /\ control'[u].forceRounds = AtLeastZero(control[u].forceRounds - 1)
<1>1. PICK r \in Requests : ConsumeForcedRound(r)
  BY Writers DEF ControlWrite
<1> DEFINE v == req[r].user
           n == AtLeastZero(control[v].forceRounds - 1)
           rule == [control[v] EXCEPT !.forceRounds = n]
<1>2. control' = [control EXCEPT ![v] = rule]
  BY <1>1 DEF ConsumeForcedRound
<1>3. control[u] \in Rules
  BY DEF TypeOK, ControlType
<1>4. u = v
  <2> HIDE DEF rule, v
  <2> QED BY <1>2 DEF TypeOK, ControlType
<1>5. rule.forceRounds = n /\ rule.mode = control[v].mode /\ rule.cap = control[v].cap
  <2> HIDE DEF n, v
  <2> QED BY <1>3, <1>4 DEF Rules
<1>6. control'[u] = rule
  <2> HIDE DEF rule, v
  <2> QED BY <1>2, <1>4 DEF TypeOK, ControlType
<1>7. n = AtLeastZero(control[u].forceRounds - 1)
  BY <1>4
<1> HIDE DEF n, rule
<1> QED BY <1>1, <1>4, <1>5, <1>6, <1>7

\* With fair odds, a rule that forces has its way as long as it has rounds left.
LEMMA RollObeysTheRule ==
  ASSUME OnlyRulesDecide, TypeOK, NEW r \in Requests, RollRound(r)
  PROVE  /\ UNCHANGED control /\ req'[r].op = "placeBet" /\ req'[r].pc = "debit"
         /\ req'[r].user = req[r].user
         /\ Forces(control[req[r].user]) =>
              /\ req'[r].metered <=> control[req[r].user].forceRounds > 0
              /\ req'[r].metered <=> req'[r].forced # "none"
<1> DEFINE rule == control[req[r].user]
           Rolled(forced, raw) ==
             req' = [req EXCEPT ![r].pc = "debit", ![r].forced = forced,
                                ![r].metered = Metered(rule), ![r].mult = ApplyWinCap(raw, rule),
                                ![r].payout = RoundMoney(req[r].stake * ApplyWinCap(raw, rule))]
<1>1. PICK forced \in ResolveControl(rule) : \E raw \in Roll(forced) : Rolled(forced, raw)
  BY DEF RollRound
<1>2. PICK raw \in Roll(forced) : Rolled(forced, raw)
  BY <1>1
<1> DEFINE mult == ApplyWinCap(raw, rule)
           payout == RoundMoney(req[r].stake * mult)
           metered == Metered(rule)
           h == [req[r] EXCEPT !.pc = "debit", !.forced = forced, !.metered = metered,
                               !.mult = mult, !.payout = payout]
<1>3. req[r] \in Active /\ HandlerType /\ req[r].op = "placeBet"
  BY AtBusy, AtActive DEF TypeOK, RollRound, At, Ops
<1>4. req'[r] = h
  BY <1>2, <1>3 DEF HandlerType
<1>5. /\ h.forced = forced /\ h.metered = metered /\ h.pc = "debit"
      /\ h.op = req[r].op /\ h.user = req[r].user
  <2> HIDE DEF mult, payout, metered
  <2> QED BY <1>3 DEF Active
<1>6. Forces(rule) => (metered <=> rule.forceRounds > 0)
  BY DEF Metered, Forces
<1>7. Forces(rule) => (metered <=> forced # "none")
  <2> SUFFICES ASSUME Forces(rule) PROVE metered <=> forced # "none"
    OBVIOUS
  <2> HIDE DEF rule
  <2>1. CASE metered
    <3>1. ResolveControl(rule) \subseteq {"win", "loss"}
      BY <2>1 DEF ResolveControl, DecideForcedResult, Metered, Forces
    <3> QED BY <1>1, <2>1, <3>1
  <2>2. CASE ~metered
    <3>1. DecideForcedResult(rule) = {"none"}
      BY <2>2 DEF DecideForcedResult, Forces
    <3>2. DecideFromDifficulty = {"none"}
      BY DEF DecideFromDifficulty, OnlyRulesDecide
    <3>3. ResolveControl(rule) = {"none"}
      BY <3>1, <3>2 DEF ResolveControl
    <3> QED BY <1>1, <2>2, <3>3
  <2> QED BY <2>1, <2>2
<1>8. UNCHANGED control
  BY DEF RollRound, rows
<1> HIDE DEF h, metered
<1> QED BY <1>3, <1>4, <1>5, <1>6, <1>7, <1>8

\* What a handler read of its player's rule stays so until it uses a round up.
LEMMA MeterRightKept ==
  ASSUME OnlyRulesDecide, TypeOK, RefInv, SerialInv, MeterInv, [Next]_vars, NEW q \in Requests
  PROVE  MeterRight(req'[q], control')
<1> USE DEF At, Step
<1>1. HandlerType /\ MeterRight(req[q], control) /\ req[q].op # "start"
  BY DEF TypeOK, MeterInv
<1>2. CASE req'[q] = Idle
  BY <1>2 DEF MeterRight, Idle
<1>3. CASE req'[q] = req[q] /\ req[q] # Idle
  <2>1. req[q].user \in Users
    BY <1>1, <1>3 DEF HandlerType, Handlers, Active
  <2>2. CASE control'[req[q].user] = control[req[q].user]
    BY <1>1, <1>3, <2>2 DEF MeterRight
  <2>3. ASSUME NEW r \in Requests, ConsumeForcedRound(r), req[r].user = req[q].user PROVE FALSE
    <3>1. req'[r] = Idle /\ req[r] # Idle
      BY <1>1, <2>3, BetWriting, ActiveIsBusy DEF BetWrites
    <3>2. r = q
      BY <2>3, <3>1 DEF SerialInv, Alone
    <3> QED BY <1>3, <3>1, <3>2
  <2> QED BY <2>1, <2>2, <2>3, RuleUsed
<1>4. CASE Arrived(req'[q])
  BY <1>4 DEF Arrived, MeterRight
<1>5. CASE Reads(q) /\ Read(req[q], req'[q])
  <2>1. CASE RollRound(q)
    BY <2>1, RollObeysTheRule DEF MeterRight
  <2>2. CASE ~RollRound(q)
    <3>1. ~(req[q].op = "placeBet" /\ req[q].pc = "control")
      BY <1>5, <2>2
       DEF Reads, GetPlayableGame, ReadSession, PlaceBetChecks, ReadWallet, CountBets, StartChecks,
           SelectOpenRound, LayGrid, RevealChecks, ReadRound, CashOutChecks, ReadRoundToPay
    <3>2. req'[q].op = "placeBet" => req'[q].pc \in {"wallet", "nonce", "control"}
      BY <1>5, <3>1 DEF Read, SameRequest, Betting, Settling
    <3> QED BY <3>2 DEF MeterRight
  <2> QED BY <2>1, <2>2
<1>6. CASE Goes(q)
  <2>1. CASE req'[q].op # "placeBet"
    BY <2>1 DEF MeterRight
  <2>2. CASE req'[q].op = "placeBet"
    <3>1. \/ SettleWallet(q) /\ GoesOn(q, "insert")
          \/ InsertSettledBet(q) /\ Inserted(q)
          \/ InsertBetLedger(q) /\ GoesOn(q, "bump")
          \/ BumpSettledBet(q) /\ GoesOn(q, "consume")
      BY <1>1, <1>6, <2>2
       DEF Goes, EndOpenSessions, GoesOn, SameCall, Inserted, HoldStake, InsertOpenRound,
           InsertStakeRow, ReleaseStake, CreditPayout, CloseCashedOutRound, InsertPayoutRow
    <3>2. UNCHANGED control
      BY <3>1 DEF SettleWallet, InsertSettledBet, InsertBetLedger, BumpSettledBet
    <3>3. CASE SettleWallet(q) /\ GoesOn(q, "insert")
      BY <1>1, <3>2, <3>3 DEF SettleWallet, GoesOn, SameCall, MeterRight
    <3>4. CASE InsertSettledBet(q) /\ Inserted(q)
      BY <1>1, <3>2, <3>4 DEF InsertSettledBet, Inserted, MeterRight
    <3>5. CASE InsertBetLedger(q) /\ GoesOn(q, "bump")
      BY <1>1, <3>2, <3>5 DEF InsertBetLedger, GoesOn, SameCall, MeterRight
    <3>6. CASE BumpSettledBet(q) /\ GoesOn(q, "consume")
      <4>1. req[q].metered
        <5>1. req'[q] # Idle
          BY <2>2 DEF Idle
        <5>2. CASE ~req[q].metered
          BY <1>1, <3>6, <5>1, <5>2, FinishKeeps DEF BumpSettledBet
        <5> QED BY <5>2
      <4> QED BY <1>1, <3>2, <3>6, <4>1 DEF BumpSettledBet, GoesOn, SameCall, MeterRight
    <3> QED BY <3>1, <3>3, <3>4, <3>5, <3>6
  <2> QED BY <2>1, <2>2
<1> QED BY <1>1, <1>2, <1>3, <1>4, <1>5, <1>6, HandlerStep

\* What u owes changes only by a step of its handler.
LEMMA OwesStay ==
  ASSUME NEW r \in Requests, Others(r), NEW u,
         Owing(req'[r]) /\ req'[r].user = u <=> Owing(req[r]) /\ req[r].user = u
  PROVE  Owes(req', u) <=> Owes(req, u)
<1>1. \A q \in Requests : q # r => req'[q] = req[q]
  BY DEF Others
<1> QED BY <1>1 DEF Owes

\* The one handler a player has owes what he owes.
LEMMA OwesAlone ==
  ASSUME Alone, NEW r \in Requests, Others(r), req[r] # Idle
  PROVE  /\ Owes(req, req[r].user) <=> Owing(req[r])
         /\ req'[r].user = req[r].user => (Owes(req', req[r].user) <=> Owing(req'[r]))
         /\ req'[r] = Idle /\ req[r].user # Nobody => ~Owes(req', req[r].user)
<1>1. \A q \in Requests : req[q].user = req[r].user => q = r
  BY DEF Alone
<1>2. \A q \in Requests : q # r => req'[q] = req[q]
  BY DEF Others
<1>3. Idle.user = Nobody
  BY DEF Idle
<1> QED BY <1>1, <1>2, <1>3 DEF Owes

\* What u may still do to the meter: the mode and the cap of its rule stay, and, when no
\* handler failed, what it has and what it decided still add up.
MeterMoves(u) ==
  /\ control'[u].mode = control[u].mode /\ control'[u].cap = control[u].cap
  /\ failures' = 0 => failures = 0
  /\ failures' = 0 /\ Forces(control[u]) =>
       \A n \in Nat : Metering(n, control, req, bet, u) => Metering(n, control', req', bet', u)

\* A step that owes no more or less, and decides nothing for u, leaves the meter.
LEMMA MeterStays ==
  ASSUME NEW u, control'[u] = control[u], failures' = 0 => failures = 0,
         failures' = 0 => (Owes(req', u) <=> Owes(req, u)),
         DecidedBets(bet', u) = DecidedBets(bet, u)
  PROVE  MeterMoves(u)
BY DEF MeterMoves, Metering

\* Bets are counted by numbers.
LEMMA DecidedAreFinite ==
  ASSUME BetType, NEW u
  PROVE  /\ IsFiniteSet(DecidedBets(bet, u)) /\ Cardinality(DecidedBets(bet, u)) \in Nat
<1>1. DecidedBets(bet, u) \subseteq BetsIn(bet, u)
  BY DEF DecidedBets, BetsIn
<1> QED BY <1>1, BetsAreFinite, FS_Subset, FS_CardinalityType

\* A settled bet is inserted: the round its rule decided is on its way.
LEMMA MeterAtInsert ==
  ASSUME TypeOK, SerialInv, MeterInv, NEW r \in Requests, InsertSettledBet(r), NEW u \in Users
  PROVE  MeterMoves(u)
<1> DEFINE n == Len(bet) + 1
           row == [user |-> req[r].user, game |-> "instant", sid |-> req[r].sid,
                   stake |-> req[r].stake, mult |-> req[r].mult, payout |-> req[r].payout,
                   status |-> IF req[r].mult > 0 THEN "won" ELSE "lost",
                   count |-> 0, traps |-> {}, opened |-> <<>>,
                   nonce |-> req[r].nonce, controlled |-> req[r].forced # "none"]
<1>1. /\ UNCHANGED <<control, failures>> /\ req[r].op = "placeBet" /\ req[r].pc = "insert"
      /\ HandlerType /\ BetType
  BY DEF InsertSettledBet, At, TypeOK
<1>2. /\ req[r] \in Active /\ Others(r) /\ Inserted(r) /\ req[r] # Idle
  BY <1>1, BetWriting, ActiveIsBusy DEF BetWrites
<1>3. NewRow(r)
  BY BetInserted
<1>4. bet'[n] = row
  <2>1. bet' = Append(bet, row)
    BY DEF InsertSettledBet, InsertBet
  <2> HIDE DEF row
  <2> QED BY <1>1, <2>1 DEF BetType
<1>5. row.user = req[r].user /\ row.status # "open" /\ (row.controlled <=> req[r].forced # "none")
  OBVIOUS
<1> HIDE DEF row
<1>6. /\ n \notin DOMAIN bet /\ DOMAIN bet' = DOMAIN bet \cup {n}
      /\ \A i \in DOMAIN bet : bet'[i] = bet[i]
  BY <1>3 DEF NewRow
<1>7. CASE u # req[r].user
  <2>1. DecidedBets(bet', u) = DecidedBets(bet, u)
    BY <1>4, <1>5, <1>6, <1>7 DEF DecidedBets
  <2>2. Owes(req', u) <=> Owes(req, u)
    BY <1>2, <1>7, OwesStay DEF Inserted
  <2> QED BY <1>1, <2>1, <2>2, MeterStays
<1>8. CASE u = req[r].user
  <2>1. ~Owes(req, u) /\ (Owes(req', u) <=> req[r].metered)
    BY <1>1, <1>2, <1>8, OwesAlone DEF SerialInv, Inserted, Owing
  <2>2. Forces(control[u]) => (req[r].metered <=> row.controlled)
    BY <1>1, <1>5, <1>8 DEF MeterInv, MeterRight
  <2>3. /\ row.controlled => DecidedBets(bet', u) = DecidedBets(bet, u) \cup {n}
        /\ ~row.controlled => DecidedBets(bet', u) = DecidedBets(bet, u)
        /\ n \notin DecidedBets(bet, u)
    BY <1>4, <1>5, <1>6, <1>8 DEF DecidedBets
  <2>4. IsFiniteSet(DecidedBets(bet, u)) /\ Cardinality(DecidedBets(bet, u)) \in Nat
    BY <1>1, DecidedAreFinite
  <2>5. Cardinality(DecidedBets(bet, u) \cup {n}) = Cardinality(DecidedBets(bet, u)) + 1
    BY <2>3, <2>4, FS_AddElement
  <2>6. control[u].forceRounds \in Nat
    BY DEF TypeOK, ControlType, Rules
  <2>7. ASSUME Forces(control[u]), NEW x \in Nat, Metering(x, control, req, bet, u)
        PROVE  Metering(x, control', req', bet', u)
    <3>1. x + 0 = control[u].forceRounds + Cardinality(DecidedBets(bet, u))
      BY <2>1, <2>7 DEF Metering
    <3>2. CASE row.controlled
      <4>1. Cardinality(DecidedBets(bet', u)) = Cardinality(DecidedBets(bet, u)) + 1
        BY <2>3, <2>5, <3>2
      <4>2. Owes(req', u)
        BY <2>1, <2>2, <2>7, <3>2
      <4>3. x + 1 = control[u].forceRounds + (Cardinality(DecidedBets(bet, u)) + 1)
        BY <2>4, <2>6, <3>1
      <4> QED BY <1>1, <4>1, <4>2, <4>3 DEF Metering
    <3>3. CASE ~row.controlled
      <4>1. DecidedBets(bet', u) = DecidedBets(bet, u) /\ ~Owes(req', u)
        BY <2>1, <2>2, <2>3, <2>7, <3>3
      <4> QED BY <1>1, <3>1, <4>1 DEF Metering
    <3> QED BY <3>2, <3>3
  <2> QED BY <1>1, <2>7 DEF MeterMoves
<1> QED BY <1>7, <1>8

\* A round is used up: the one on its way has arrived, and the rule had one left.
LEMMA MeterAtConsume ==
  ASSUME TypeOK, SerialInv, MeterInv, [Next]_vars, NEW r \in Requests, ConsumeForcedRound(r),
         NEW u \in Users
  PROVE  MeterMoves(u)
<1>1. /\ UNCHANGED <<bet, failures>> /\ req[r].op = "placeBet" /\ req[r].pc = "consume"
      /\ HandlerType /\ MeterRight(req[r], control)
  BY DEF ConsumeForcedRound, At, TypeOK, MeterInv
<1>2. /\ req[r] \in Active /\ Others(r) /\ req'[r] = Idle
      /\ req[r] # Idle /\ req[r].user \in Users /\ req[r].user # Nobody
  BY <1>1, BetWriting, ActiveIsBusy DEF BetWrites
<1>3. DecidedBets(bet', u) = DecidedBets(bet, u)
  BY <1>1 DEF DecidedBets
<1>4. ~Owing(Idle)
  BY DEF Owing, Idle
<1>5. CASE u # req[r].user
  <2>1. Owes(req', u) <=> Owes(req, u)
    BY <1>2, <1>4, <1>5, OwesStay
  <2>2. CASE control'[u] = control[u]
    BY <1>1, <1>3, <2>1, <2>2, MeterStays
  <2>3. ASSUME NEW q \in Requests, ConsumeForcedRound(q) PROVE q = r
    <3>1. req'[q] = Idle /\ req[q] # Idle
      BY <1>1, <2>3, BetWriting, ActiveIsBusy DEF BetWrites
    <3> QED BY <1>2, <3>1 DEF Others
  <2> QED BY <1>5, <2>2, <2>3, RuleUsed
<1>6. CASE u = req[r].user
  <2>1. /\ control'[u].mode = control[u].mode /\ control'[u].cap = control[u].cap
        /\ control'[u].forceRounds = AtLeastZero(control[u].forceRounds - 1)
    <3> DEFINE n == AtLeastZero(control[u].forceRounds - 1)
               rule == [control[u] EXCEPT !.forceRounds = n]
    <3>1. control' = [control EXCEPT ![u] = rule] /\ control[u] \in Rules
      BY <1>6 DEF ConsumeForcedRound, TypeOK, ControlType
    <3>2. rule.forceRounds = n /\ rule.mode = control[u].mode /\ rule.cap = control[u].cap
      <4> HIDE DEF n
      <4> QED BY <3>1 DEF Rules
    <3>3. control'[u] = rule
      <4> HIDE DEF rule
      <4> QED BY <3>1 DEF TypeOK, ControlType
    <3> HIDE DEF rule
    <3> QED BY <3>2, <3>3
  <2>2. Owes(req, u) /\ ~Owes(req', u)
    BY <1>1, <1>2, <1>6, OwesAlone DEF SerialInv, MeterRight, Owing
  <2>3. control[u].forceRounds \in Nat /\ (Forces(control[u]) => control[u].forceRounds > 0)
    BY <1>1, <1>6 DEF TypeOK, ControlType, Rules, MeterRight
  <2>4. Cardinality(DecidedBets(bet, u)) \in Nat
    BY DecidedAreFinite DEF TypeOK
  <2>5. ASSUME Forces(control[u]), NEW x \in Nat, Metering(x, control, req, bet, u)
        PROVE  Metering(x, control', req', bet', u)
    <3>1. x + 1 = control[u].forceRounds + Cardinality(DecidedBets(bet, u))
      BY <2>2, <2>5 DEF Metering
    <3>2. control'[u].forceRounds = control[u].forceRounds - 1
      BY <2>1, <2>3, <2>5 DEF AtLeastZero
    <3>3. x + 0 = control'[u].forceRounds + Cardinality(DecidedBets(bet, u))
      <4> DEFINE a == control[u].forceRounds
                 b == control'[u].forceRounds
                 c == Cardinality(DecidedBets(bet, u))
      <4>1. x \in Nat /\ a \in Nat /\ c \in Nat /\ x + 1 = a + c /\ b = a - 1
        BY <2>3, <2>4, <2>5, <3>1, <3>2
      <4>2. x + 0 = b + c
        <5> HIDE DEF a, b, c
        <5> QED BY <4>1
      <4> QED BY <4>2
    <3> QED BY <1>3, <2>2, <3>3 DEF Metering
  <2> QED BY <1>1, <2>1, <2>5 DEF MeterMoves
<1> QED BY <1>5, <1>6

\* Every step moves the meter as it should.
LEMMA MeterStep ==
  ASSUME OnlyRulesDecide, TypeOK, RefInv, SerialInv, MeterInv, [Next]_vars, NEW u \in Users
  PROVE  MeterMoves(u)
<1> USE DEF At, Step
<1>1. HandlerType /\ (\A q \in Requests : req[q].op # "start") /\ ~Owing(Idle)
  BY DEF TypeOK, MeterInv, Owing, Idle
<1>2. CASE \E r \in Requests : InsertSettledBet(r)
  BY <1>2, MeterAtInsert
<1>3. CASE \E r \in Requests : ConsumeForcedRound(r)
  BY <1>3, MeterAtConsume
<1>4. ASSUME UNCHANGED bet, UNCHANGED control, failures' = 0 => failures = 0,
             NEW r \in Requests, Others(r),
             Owing(req'[r]) /\ req'[r].user = u <=> Owing(req[r]) /\ req[r].user = u
      PROVE  MeterMoves(u)
  <2>1. DecidedBets(bet', u) = DecidedBets(bet, u)
    BY <1>4 DEF DecidedBets
  <2>2. Owes(req', u) <=> Owes(req, u)
    BY <1>4, OwesStay
  <2> QED BY <1>4, <2>1, <2>2, MeterStays
<1>5. CASE Elsewhere
  <2>1. control'[u] = control[u] /\ DecidedBets(bet', u) = DecidedBets(bet, u)
        /\ (Owes(req', u) <=> Owes(req, u)) /\ failures' = failures
    BY <1>5 DEF Elsewhere, DecidedBets, Owes
  <2> QED BY <2>1, MeterStays
<1>6. ASSUME NEW r \in Requests, Arrivals(r) PROVE MeterMoves(u)
  <2>1. ~Owing(req'[r]) /\ ~Owing(req[r])
    BY <1>1, <1>6, Arriving DEF Arrived, Owing
  <2> QED BY <1>1, <1>4, <1>6, <2>1, Arriving
<1>7. ASSUME NEW r \in Requests, Reads(r) PROVE MeterMoves(u)
  <2>1. Read(req[r], req'[r]) => ~Owing(req'[r]) /\ ~Owing(req[r])
    BY DEF Read, SameRequest, Betting, Settling, Owing
  <2>2. ~Owing(req[r])
    BY <1>7
     DEF Reads, GetPlayableGame, ReadSession, PlaceBetChecks, ReadWallet, CountBets, RollRound,
         StartChecks, SelectOpenRound, LayGrid, RevealChecks, ReadRound, CashOutChecks,
         ReadRoundToPay, Owing
  <2> QED BY <1>1, <1>4, <1>7, <2>1, <2>2, Reading
<1>8. ASSUME NEW r \in Requests, Abort(r) PROVE MeterMoves(u)
  <2>1. failures' # 0 /\ UNCHANGED <<bet, control>>
    BY <1>8 DEF Abort, rows, TypeOK
  <2>2. DecidedBets(bet', u) = DecidedBets(bet, u)
    BY <2>1 DEF DecidedBets
  <2> QED BY <2>1, <2>2, MeterStays
<1>9. ASSUME NEW r \in Requests, SessionWrites(r) PROVE MeterMoves(u)
  <2>1. req[r].op # "placeBet" /\ (req'[r] = Idle \/ SameCall(req'[r], req[r]))
    BY <1>1, <1>9, SessionWriting
       DEF SessionWrites, EndOpenSessions, InsertSession, MarkEnded, GoesOn
  <2>2. ~Owing(req'[r]) /\ ~Owing(req[r])
    BY <1>1, <2>1 DEF Owing, SameCall
  <2> QED BY <1>1, <1>4, <1>9, <2>2, SessionWriting
<1>10. ASSUME NEW r \in Requests, SettleWallet(r) \/ InsertBetLedger(r) \/ BumpSettledBet(r)
       PROVE  MeterMoves(u)
  <2>1. Others(r) /\ UNCHANGED <<bet, control, failures>>
    BY <1>1, <1>10, BetWriting DEF BetWrites, SettleWallet, InsertBetLedger, BumpSettledBet
  <2>2. CASE SettleWallet(r)
    <3>1. ~Owing(req'[r]) /\ ~Owing(req[r])
      BY <1>1, <2>2, BetWriting DEF BetWrites, SettleWallet, GoesOn, Owing
    <3> QED BY <1>4, <2>1, <3>1
  <2>3. CASE InsertBetLedger(r)
    <3>1. Owing(req'[r]) <=> Owing(req[r])
      BY <1>1, <2>3, BetWriting DEF BetWrites, InsertBetLedger, GoesOn, SameCall, Owing
    <3>2. req'[r].user = req[r].user
      BY <1>1, <2>3, BetWriting DEF BetWrites, GoesOn, SameCall
    <3> QED BY <1>4, <2>1, <3>1, <3>2
  <2>4. CASE BumpSettledBet(r) /\ req[r].metered
    <3>1. SameCall(req'[r], req[r]) /\ req'[r].pc = "consume"
      BY <1>1, <2>4, BetWriting, GotoKeeps DEF BetWrites, BumpSettledBet
    <3>2. Owing(req'[r]) <=> Owing(req[r])
      BY <2>4, <3>1 DEF BumpSettledBet, SameCall, Owing
    <3>3. req'[r].user = req[r].user
      BY <3>1 DEF SameCall
    <3> QED BY <1>4, <2>1, <3>2, <3>3
  <2>5. CASE BumpSettledBet(r) /\ ~req[r].metered
    <3>1. ~Owing(req'[r]) /\ ~Owing(req[r])
      BY <1>1, <2>5, FinishKeeps DEF BumpSettledBet, Owing
    <3> QED BY <1>4, <2>1, <3>1
  <2> QED BY <1>10, <2>2, <2>3, <2>4, <2>5
<1>11. ASSUME UNCHANGED bet, NEW r \in Requests, NEW g \in GridGames, RoundWrites(r, g)
       PROVE  MeterMoves(u)
  <2>1. Others(r) /\ UNCHANGED failures
    BY <1>1, <1>11, RoundWriting
  <2>2. req[r].op # "placeBet" /\ UNCHANGED control
    BY <1>11
     DEF RoundWrites, HoldStake, InsertOpenRound, InsertStakeRow, BumpStartedRound, ReleaseStake,
         CloseLostRound, RaiseMultiplier, CreditPayout, CloseCashedOutRound, InsertPayoutRow,
         BumpCashedOutRound
  <2>3. req'[r].op # "placeBet"
    <3>1. req'[r] = Idle \/ req'[r].op = req[r].op \/ req'[r].op = "cashOut"
      BY <1>1, <1>11, RoundWriting DEF RoundWrites, GoesOn, SameCall, Inserted
    <3> QED BY <2>2, <3>1 DEF Idle
  <2>4. ~Owing(req'[r]) /\ ~Owing(req[r])
    BY <2>2, <2>3 DEF Owing
  <2> QED BY <1>4, <1>11, <2>1, <2>2, <2>4
<1>12. UNCHANGED bet \/ \E r \in Requests : InsertSettledBet(r)
  BY NoRoundsStart
<1> QED BY <1>2, <1>3, <1>5, <1>6, <1>7, <1>8, <1>9, <1>10, <1>11, <1>12, StepCases DEF BetWrites

\* A forced rule decides as many rounds as it was given, for players who send one
\* instant bet at a time under fair odds: placeBet counts a round down by what it read of
\* the rule before the roll, and never below zero.
THEOREM ForcedRoundsAreCounted ==
  ASSUME SerialPlayers, OnlyRulesDecide PROVE Spec => []ForcedRoundsAreMetered
<1>1. Init => MeterInv
  <2> SUFFICES ASSUME Init PROVE MeterInv
    OBVIOUS
  <2>1. /\ DOMAIN bet = {} /\ (\A r \in Requests : req[r] = Idle) /\ failures = 0
        /\ control \in [Users -> ControlRules]
    BY DEF Init
  <2>2. Idle.op = "idle"
    BY DEF Idle
  <2>3. \A u \in Users : ~Owes(req, u) /\ DecidedBets(bet, u) = {}
    BY <2>1, <2>2 DEF Owes, Owing, DecidedBets
  <2>4. \A u \in Users : control[u] \in ControlRules /\ control[u].forceRounds \in Nat
    BY <2>1, MoneyAssumption DEF Rules
  <2>5. Cardinality({}) = 0
    BY FS_EmptySet
  <2>6. \A u \in Users : Metering(control[u].forceRounds, control, req, bet, u)
    BY <2>3, <2>4, <2>5 DEF Metering
  <2> QED BY <2>1, <2>2, <2>4, <2>6 DEF MeterInv, MeterRight
<1>2. TypeOK /\ BookInv /\ SerialInv /\ MeterInv /\ [Next]_vars => MeterInv'
  <2> SUFFICES ASSUME TypeOK, BookInv, SerialInv, MeterInv, [Next]_vars PROVE MeterInv'
    OBVIOUS
  <2>1. RefInv
    BY DEF BookInv
  <2>2. \A i \in DOMAIN bet' : Finished(i)'
    BY <2>1, NoRoundsStart
  <2>3. \A r \in Requests : req'[r].op # "start" /\ MeterRight(req'[r], control')
    BY <2>1, NoRoundsStart, MeterRightKept
  <2>4. ASSUME NEW u \in Users, Forces(control'[u])
        PROVE  \E rule \in ControlRules :
                 /\ rule.mode = control'[u].mode /\ rule.cap = control'[u].cap
                 /\ failures' = 0 => Metering(rule.forceRounds, control', req', bet', u)
    <3>1. MeterMoves(u)
      BY <2>1, MeterStep
    <3>2. Forces(control[u])
      BY <2>4, <3>1 DEF Forces, MeterMoves
    <3>3. PICK rule \in ControlRules :
            /\ rule.mode = control[u].mode /\ rule.cap = control[u].cap
            /\ failures = 0 => Metering(rule.forceRounds, control, req, bet, u)
      BY <3>2 DEF MeterInv
    <3>4. rule.forceRounds \in Nat
      BY MoneyAssumption DEF Rules
    <3> QED BY <3>1, <3>2, <3>3, <3>4 DEF MeterMoves
  <2> QED BY <2>2, <2>3, <2>4 DEF MeterInv
<1>3. TypeOK /\ MeterInv => ForcedRoundsAreMetered
  <2> SUFFICES ASSUME TypeOK, MeterInv, failures = 0, NEW u \in Users, Quiet(u),
                      control[u].mode \in {"force_win", "force_loss"}
               PROVE  \E rule \in ControlRules :
                        /\ rule.mode = control[u].mode /\ rule.cap = control[u].cap
                        /\ rule.forceRounds =
                             control[u].forceRounds +
                               Cardinality({i \in BetsOf(u) : bet[i].controlled /\ Finished(i)})
    BY DEF ForcedRoundsAreMetered
  <2>1. {i \in BetsOf(u) : bet[i].controlled /\ Finished(i)} = DecidedBets(bet, u)
    BY DEF BetsOf, Finished, DecidedBets
  <2>2. ~Owes(req, u)
    BY DEF Quiet, InFlight, Owes
  <2>3. PICK rule \in ControlRules :
          /\ rule.mode = control[u].mode /\ rule.cap = control[u].cap
          /\ Metering(rule.forceRounds, control, req, bet, u)
    BY DEF MeterInv, Forces
  <2>4. rule.forceRounds \in Nat
    BY MoneyAssumption DEF Rules
  <2>5. rule.forceRounds + 0 = control[u].forceRounds + Cardinality(DecidedBets(bet, u))
    BY <2>2, <2>3 DEF Metering
  <2>6. rule.forceRounds = control[u].forceRounds + Cardinality(DecidedBets(bet, u))
    BY <2>4, <2>5
  <2> QED BY <2>1, <2>3, <2>6
<1> QED BY <1>1, <1>2, <1>3, SerialHolds, PTL DEF Spec
=============================================================================
