---------------------------- MODULE FanoutProofs ----------------------------
(***************************************************************************)
(* For any games, bounds and fault budgets: whatever publisher, queue or   *)
(* worker fails, a bet that was settled is answered with the bet, and the  *)
(* fan-out keeps its types.  For a player with one tab and one worker: the *)
(* channel ends on the latest bet, the history of a session is what was    *)
(* settled in it, and an ended one does not come back.                     *)
(***************************************************************************)
EXTENDS FanoutProperties, SequenceTheorems, FiniteSetTheorems, TLAPS

Stages == {"queued", "checked", "fanout", "replied", "lost"}
Outlets == {"user", "lobby", "bus", "realtime", "history", "ended"}
Outcomes == {"placed", "lost", "cleared", "cashed_out"}
Views  == {"waiting", "ok", "refused", "unavailable"}

Sessions == [game : Games, open : BOOLEAN, round : BOOLEAN]
Bets     == [sid : Nat, how : Outcomes, pays : BOOLEAN]
Calls    == [op : Ops, game : Games, sid : Nat, at : Stages, view : Views,
             todo : Seq(Outlets), bet : Nat]

ServiceType == session \in Seq(Sessions) /\ bet \in Seq(Bets)
FaultType   == faults \in [FaultKinds -> Nat]
CallType    == call \in Seq(Calls)

\* What is known of a request when f counts the faults: it has a bet only once its checks
\* are over, it is refused only without one, it is lost only with the engine, and a bet is
\* answered with "unavailable" only by the gateway's timer.
Sound(k, f) ==
  /\ k.at \in {"queued", "checked"} => k.bet = 0
  /\ k.at = "fanout" => k.todo # <<>>
  /\ k.at = "lost" => f["engine"] > 0
  /\ k.view = "refused" => k.at = "replied" /\ k.bet = 0
  /\ k.view = "unavailable" /\ k.op = "placeBet" => f["engine"] > 0 \/ f["timeout"] > 0

CallsSound == \A c \in DOMAIN call : Sound(call[c], faults)

AnswersInv == ServiceType /\ FaultType /\ CallType /\ CallsSound

FaultsGrow == FaultType' /\ \A k \in FaultKinds : faults'[k] >= faults[k]

---------------------------------------------------------------------------
(* Lemmas *)

\* The invariant says what the property asks.
LEMMA SoundIsEnough == AnswersInv => FanoutNeverFailsABet
BY DEF AnswersInv, CallsSound, Sound, FanoutNeverFailsABet, FaultType, FaultKinds, Unharmed

\* Sequences of names: the empty one, and those that stay when the first is published.
LEMMA NoNames == <<>> \in Seq(Outlets)
BY EmptySeq

\* What is left to publish stays a list of outlets, and is not empty before the last one.
LEMMA RestOfNames ==
  ASSUME NEW todo \in Seq(Outlets), todo # <<>>, Len(todo) # 1
  PROVE  Tail(todo) \in Seq(Outlets) /\ Tail(todo) # <<>>
<1>1. Tail(todo) \in Seq(Outlets) /\ Len(Tail(todo)) = Len(todo) - 1 /\ Len(todo) \in Nat
  BY HeadTailProperties
<1>2. Len(todo) # 0
  BY EmptySeq
<1>3. Len(Tail(todo)) # 0
  BY <1>1, <1>2
<1>4. Len(<<>>) = 0
  BY EmptySeq
<1> QED BY <1>1, <1>3, <1>4, Zenon

\* Two lists of outlets make one, not empty when the first is not.
LEMMA JoinedNames ==
  ASSUME NEW a \in Seq(Outlets), NEW b \in Seq(Outlets)
  PROVE  a \o b \in Seq(Outlets) /\ (a # <<>> => a \o b # <<>>)
<1>1. a \o b \in Seq(Outlets) /\ Len(a \o b) = Len(a) + Len(b)
  BY ConcatProperties
<1>2. Len(a) \in Nat /\ Len(b) \in Nat /\ (a # <<>> => Len(a) # 0)
  BY EmptySeq, LenProperties
<1> QED BY <1>1, <1>2, EmptySeq

\* A fault is counted, and no other count changes.
LEMMA FaultCounts ==
  ASSUME FaultType, NEW kind \in FaultKinds, Fault(kind)
  PROVE  FaultsGrow /\ faults'[kind] > 0
BY DEF FaultType, Fault, FaultsGrow

\* What did not happen leaves the counts alone.
LEMMA NoFault == ASSUME FaultType, UNCHANGED faults PROVE FaultsGrow
BY DEF FaultType, FaultsGrow

\* What was known of a request stays known when faults are added.
LEMMA StaysSound ==
  ASSUME FaultType, FaultsGrow, NEW k, Sound(k, faults)
  PROVE  Sound(k, faults')
BY DEF FaultType, FaultsGrow, Sound, FaultKinds

\* A step that leaves the requests alone keeps the invariant.
LEMMA QuietStep ==
  ASSUME AnswersInv, FaultsGrow, UNCHANGED <<service, call>>
  PROVE  AnswersInv'
<1>1. ServiceType' /\ FaultType' /\ CallType'
  BY DEF AnswersInv, FaultsGrow, ServiceType, CallType, service
<1>2. CallsSound'
  BY StaysSound DEF AnswersInv, CallsSound
<1> QED BY <1>1, <1>2 DEF AnswersInv

\* A step that changes one request keeps the invariant when that request is sound.
LEMMA OneCall ==
  ASSUME AnswersInv, FaultsGrow, ServiceType', NEW c \in DOMAIN call, NEW k \in Calls,
         Sound(k, faults'), call' = [call EXCEPT ![c] = k]
  PROVE  AnswersInv'
<1>1. CallType' /\ DOMAIN call' = DOMAIN call
  BY DEF AnswersInv, CallType
<1>2. \A d \in DOMAIN call : Sound(call'[d], faults')
  <2> TAKE d \in DOMAIN call
  <2>1. CASE d = c
    BY <2>1
  <2>2. CASE d # c
    BY <2>2, StaysSound DEF AnswersInv, CallsSound
  <2> QED BY <2>1, <2>2
<1> QED BY <1>1, <1>2 DEF AnswersInv, CallsSound, FaultsGrow

\* A request of the player's, from its type.
LEMMA CallIs ==
  ASSUME AnswersInv, NEW c \in DOMAIN call
  PROVE  call[c] \in Calls /\ Sound(call[c], faults)
BY DEF AnswersInv, CallType, CallsSound

\* The end of a handler: a refusal without a bet, or a throw of one that is no placeBet.
LEMMA ReplyKeeps ==
  ASSUME AnswersInv, FaultsGrow, ServiceType', NEW c \in DOMAIN call, Handled(c),
         NEW answer \in {"ok", "refused", "unavailable"}, call' = Reply(c, answer),
         answer = "refused" => call[c].bet = 0,
         answer = "unavailable" => call[c].op # "placeBet"
  PROVE  AnswersInv'
<1> DEFINE k == [call[c] EXCEPT !.at = "replied", !.todo = <<>>,
                                !.view = IF @ = "waiting" THEN answer ELSE @]
<1>1. call[c] \in Calls /\ Sound(call[c], faults')
  BY CallIs, StaysSound DEF AnswersInv
<1>2. call' = [call EXCEPT ![c] = k]
  BY DEF Reply
<1>3. k \in Calls /\ Sound(k, faults')
  BY <1>1, NoNames DEF Calls, Sound, Stages, Views, Handled
<1> HIDE DEF k
<1> QED BY <1>2, <1>3, OneCall

\* A handler that goes on to its next publication, or ends with the last one.
LEMMA GoOnKeeps ==
  ASSUME AnswersInv, FaultsGrow, ServiceType', NEW c \in DOMAIN call, Publishes(c),
         call' = GoOn(c)
  PROVE  AnswersInv'
<1>1. call[c] \in Calls /\ Sound(call[c], faults') /\ call[c].todo # <<>>
  BY CallIs, StaysSound DEF AnswersInv, Sound, Publishes
<1>2. CASE Len(call[c].todo) = 1
  BY <1>2, ReplyKeeps DEF GoOn, Publishes, Handled
<1>3. CASE Len(call[c].todo) # 1
  <2> DEFINE k == [call[c] EXCEPT !.todo = Tail(@)]
  <2>1. call' = [call EXCEPT ![c] = k]
    BY <1>3 DEF GoOn
  <2>2. Tail(call[c].todo) \in Seq(Outlets) /\ Tail(call[c].todo) # <<>>
    BY <1>1, <1>3, RestOfNames DEF Calls
  <2>3. k \in Calls /\ Sound(k, faults')
    BY <1>1, <2>2 DEF Calls, Sound, Publishes
  <2> HIDE DEF k
  <2> QED BY <2>1, <2>3, OneCall
<1> QED BY <1>2, <1>3

\* A handler whose checks are over and that has something to publish; a settled bet is
\* new to it.
LEMMA ToFanoutKeeps ==
  ASSUME AnswersInv, UNCHANGED faults, ServiceType', NEW c \in DOMAIN call,
         call[c].at \in {"queued", "checked"},
         NEW todo \in Seq(Outlets), todo # <<>>, NEW i \in Nat,
         \/ call' = [call EXCEPT ![c].at = "fanout", ![c].todo = todo, ![c].bet = i]
         \/ call' = [call EXCEPT ![c].at = "fanout", ![c].todo = todo]
  PROVE  AnswersInv'
<1>1. FaultsGrow /\ call[c] \in Calls /\ Sound(call[c], faults')
  BY CallIs, StaysSound, NoFault DEF AnswersInv
<1>2. CASE call' = [call EXCEPT ![c].at = "fanout", ![c].todo = todo, ![c].bet = i]
  <2> DEFINE k == [call[c] EXCEPT !.at = "fanout", !.todo = todo, !.bet = i]
  <2>1. call' = [call EXCEPT ![c] = k]
    BY <1>2
  <2>2. k \in Calls /\ Sound(k, faults')
    BY <1>1 DEF Calls, Sound, Stages
  <2> HIDE DEF k
  <2> QED BY <1>1, <2>1, <2>2, OneCall
<1>3. CASE call' = [call EXCEPT ![c].at = "fanout", ![c].todo = todo]
  <2> DEFINE k == [call[c] EXCEPT !.at = "fanout", !.todo = todo]
  <2>1. call' = [call EXCEPT ![c] = k]
    BY <1>3
  <2>2. k \in Calls /\ Sound(k, faults')
    BY <1>1 DEF Calls, Sound, Stages
  <2> HIDE DEF k
  <2> QED BY <1>1, <2>1, <2>2, OneCall
<1> QED BY <1>2, <1>3

\* A session, from its type.
LEMMA SessionIs ==
  ASSUME ServiceType
  PROVE  /\ DOMAIN session = 1..Len(session) /\ Len(session) \in Nat
         /\ \A s \in DOMAIN session : s \in Nat /\ session[s] \in Sessions
<1>1. DOMAIN session = 1..Len(session) /\ Len(session) \in Nat
  BY LenProperties DEF ServiceType
<1>2. \A s \in 1..Len(session) : session[s] \in Sessions
  BY <1>1, ElementOfSeq DEF ServiceType
<1> QED BY <1>1, <1>2

---------------------------------------------------------------------------
(* The engine's steps *)

\* The player sends a request.
LEMMA SendKeeps ==
  ASSUME AnswersInv, NEW op \in Ops, NEW g \in Games, NEW sid \in Nat, Send(op, g, sid)
  PROVE  AnswersInv'
<1> DEFINE k == [op |-> op, game |-> g, sid |-> sid, at |-> "queued",
                 view |-> "waiting", todo |-> <<>>, bet |-> 0]
<1>1. k \in Calls /\ Sound(k, faults)
  BY DEF Calls, Sound, Stages, Views
<1>2. call' = Append(call, k) /\ UNCHANGED <<session, bet, faults>>
  BY DEF Send, service
<1> HIDE DEF k
<1>3. CallType' /\ DOMAIN call' = DOMAIN call \cup {Len(call) + 1} /\ call'[Len(call) + 1] = k
      /\ \A c \in DOMAIN call : call'[c] = call[c]
  BY <1>1, <1>2 DEF AnswersInv, CallType
<1>4. CallsSound'
  BY <1>1, <1>2, <1>3 DEF AnswersInv, CallsSound
<1> QED BY <1>2, <1>3, <1>4 DEF AnswersInv, ServiceType, FaultType

\* A request the player may send names a game and a session there is.
LEMMA SendAnyKeeps == ASSUME AnswersInv, SendAny PROVE AnswersInv'
<1>1. CASE \E g \in Games : Send("startSession", g, 0)
  BY <1>1, SendKeeps DEF Ops
<1>2. CASE \E s \in DOMAIN session, op \in Ops \ {"startSession"} : Send(op, session[s].game, s)
  <2> PICK s \in DOMAIN session, op \in Ops \ {"startSession"} : Send(op, session[s].game, s)
    BY <1>2
  <2>1. s \in Nat /\ session[s].game \in Games
    BY SessionIs DEF AnswersInv, ServiceType, Sessions
  <2> QED BY <2>1, SendKeeps
<1> QED BY <1>1, <1>2 DEF SendAny

\* The gateway gives a request up.
LEMMA TimeoutKeeps ==
  ASSUME AnswersInv, NEW c \in DOMAIN call, Timeout(c) PROVE AnswersInv'
<1>1. FaultsGrow /\ (faults'["engine"] > 0 \/ faults'["timeout"] > 0) /\ ServiceType'
  <2>1. ServiceType'
    BY DEF Timeout, AnswersInv, ServiceType, service
  <2>2. CASE call[c].at = "lost"
    BY <2>1, <2>2, NoFault, CallIs DEF Timeout, Sound, AnswersInv
  <2>3. CASE call[c].at # "lost"
    BY <2>1, <2>3, FaultCounts DEF Timeout, FaultKinds, AnswersInv
  <2> QED BY <2>2, <2>3
<1> DEFINE k == [call[c] EXCEPT !.view = "unavailable"]
<1>2. call[c] \in Calls /\ Sound(call[c], faults') /\ call[c].view = "waiting"
  BY <1>1, CallIs, StaysSound DEF AnswersInv, Timeout, Waiting
<1>3. k \in Calls /\ Sound(k, faults')
  BY <1>1, <1>2 DEF Calls, Sound, Views
<1>4. call' = [call EXCEPT ![c] = k]
  BY DEF Timeout
<1> HIDE DEF k
<1> QED BY <1>1, <1>3, <1>4, OneCall

\* A restart of the engine loses the requests it had taken.
LEMMA RestartKeeps == ASSUME AnswersInv, EngineRestarts PROVE AnswersInv'
<1>1. FaultsGrow /\ faults'["engine"] > 0 /\ ServiceType'
  BY FaultCounts DEF EngineRestarts, FaultKinds, AnswersInv, ServiceType, service
<1> DEFINE lose(k) == [k EXCEPT !.at = "lost", !.todo = <<>>]
<1>2. \A c \in DOMAIN call :
        /\ call'[c] = IF Handled(c) THEN lose(call[c]) ELSE call[c]
        /\ call'[c] \in Calls /\ Sound(call'[c], faults')
  <2> TAKE c \in DOMAIN call
  <2>1. call'[c] = IF Handled(c) THEN lose(call[c]) ELSE call[c]
    BY DEF EngineRestarts
  <2>2. call[c] \in Calls /\ Sound(call[c], faults')
    BY <1>1, CallIs, StaysSound DEF AnswersInv
  <2>3. Handled(c) => lose(call[c]) \in Calls /\ Sound(lose(call[c]), faults')
    BY <1>1, <2>2, NoNames DEF Calls, Sound, Stages, Handled
  <2> QED BY <2>1, <2>2, <2>3
<1>3. CallType' /\ DOMAIN call' = DOMAIN call
  <2>1. Len(call) \in Nat /\ DOMAIN call = 1..Len(call)
    BY LenProperties DEF AnswersInv, CallType
  <2>2. DOMAIN call' = 1..Len(call) /\ call' = [c \in 1..Len(call) |-> call'[c]]
    BY <2>1 DEF EngineRestarts
  <2>3. call' \in [1..Len(call) -> Calls]
    BY <1>2, <2>1, <2>2
  <2> QED BY <2>1, <2>2, <2>3, SeqDef DEF CallType
<1> QED BY <1>1, <1>2, <1>3 DEF AnswersInv, CallsSound, FaultsGrow

\* The tables of the play service keep their types.
LEMMA SettledIsBet ==
  ASSUME AnswersInv, NEW c \in DOMAIN call, NEW how \in Outcomes, NEW pays \in BOOLEAN, NEW todo,
         Settle(c, how, pays, todo)
  PROVE  bet' \in Seq(Bets) /\ Len(bet) + 1 \in Nat
<1>1. [sid |-> call[c].sid, how |-> how, pays |-> pays] \in Bets
  BY CallIs DEF Calls, Bets
<1> QED BY <1>1 DEF Settle, AnswersInv, ServiceType

\* A settled bet always has something to publish.
LEMMA FanoutIsNotEmpty ==
  ASSUME NEW pays \in BOOLEAN PROVE FanoutBet(pays) \in Seq(Outlets) /\ FanoutBet(pays) # <<>>
<1> DEFINE first == <<"user">>
           lobby == IF pays THEN <<"lobby">> ELSE <<>>
           last  == <<"bus", "realtime", "history">>
<1>1. first \in Seq(Outlets) /\ first # <<>> /\ last \in Seq(Outlets)
  BY DEF Outlets
<1>2. lobby \in Seq(Outlets)
  <2>1. <<"lobby">> \in Seq(Outlets)
    BY DEF Outlets
  <2> QED BY <2>1, NoNames
<1>3. FanoutBet(pays) = (first \o lobby) \o last
  BY DEF FanoutBet
<1> HIDE DEF first, lobby, last
<1> QED BY <1>1, <1>2, <1>3, JoinedNames


\* Writing one field of one session keeps the types, also when there is no such session.
LEMMA SessionsStay ==
  ASSUME ServiceType, NEW s,
         \/ session' = [session EXCEPT ![s].open = FALSE]
         \/ \E b \in BOOLEAN : session' = [session EXCEPT ![s].round = b]
  PROVE  session' \in Seq(Sessions)
<1>1. CASE s \notin DOMAIN session
  <2>1. session' = session
    BY <1>1, LenProperties DEF ServiceType
  <2> QED BY <2>1 DEF ServiceType
<1>2. CASE s \in DOMAIN session /\ session' = [session EXCEPT ![s].open = FALSE]
  <2>1. [session[s] EXCEPT !.open = FALSE] \in Sessions
    BY <1>2, SessionIs DEF Sessions
  <2> QED BY <1>2, <2>1 DEF ServiceType
<1>3. CASE s \in DOMAIN session /\ \E b \in BOOLEAN : session' = [session EXCEPT ![s].round = b]
  <2> PICK b \in BOOLEAN : session' = [session EXCEPT ![s].round = b]
    BY <1>3
  <2>1. [session[s] EXCEPT !.round = b] \in Sessions
    BY <1>3, SessionIs DEF Sessions
  <2> QED BY <1>3, <2>1 DEF ServiceType
<1> QED BY <1>1, <1>2, <1>3

\* startSession ends the open sessions of its game and adds its own.
LEMMA StartSessionKeeps ==
  ASSUME AnswersInv, UNCHANGED faults, NEW c \in DOMAIN call, PlayStartSession(c)
  PROVE  AnswersInv'
<1> DEFINE closed(s) == [session[s] EXCEPT !.open = @ /\ s \notin OpenSessions(call[c].game)]
           own == [game |-> call[c].game, open |-> TRUE, round |-> FALSE]
           ended == [s \in DOMAIN session |-> closed(s)]
<1>1. ServiceType
  BY DEF AnswersInv
<1>2. \A s \in DOMAIN session : closed(s) \in Sessions
  BY <1>1, SessionIs DEF Sessions
<1>3. own \in Sessions
  BY CallIs DEF Calls, Sessions
<1>4. session' = Append(ended, own)
  BY DEF PlayStartSession
<1>5. ended \in Seq(Sessions)
  <2> HIDE DEF closed
  <2>1. ended \in [1..Len(session) -> Sessions] /\ Len(session) \in Nat
    BY <1>1, <1>2, SessionIs
  <2> HIDE DEF ended
  <2> QED BY <2>1, SeqDef
<1>6. session' \in Seq(Sessions)
  <2> HIDE DEF closed, ended, own
  <2> QED BY <1>3, <1>4, <1>5
<1>7. <<"realtime">> \in Seq(Outlets)
  BY DEF Outlets
<1>8. ServiceType'
  BY <1>1, <1>6 DEF PlayStartSession, ServiceType
<1>9. call[c].at \in {"queued", "checked"}
      /\ call' = [call EXCEPT ![c].at = "fanout", ![c].todo = <<"realtime">>]
  BY DEF PlayStartSession
<1> QED BY <1>7, <1>8, <1>9, ToFanoutKeeps

\* endSession closes one session and has its end to publish.
LEMMA EndSessionKeeps ==
  ASSUME AnswersInv, UNCHANGED faults, NEW c \in DOMAIN call, PlayEndSession(c)
  PROVE  AnswersInv'
<1>1. ServiceType'
  BY SessionsStay DEF PlayEndSession, AnswersInv, ServiceType
<1>2. <<"ended">> \in Seq(Outlets)
  BY DEF Outlets
<1>3. call[c].at \in {"queued", "checked"}
      /\ call' = [call EXCEPT ![c].at = "fanout", ![c].todo = <<"ended">>]
  BY DEF PlayEndSession
<1> QED BY <1>1, <1>2, <1>3, ToFanoutKeeps

\* The checks of a request: it goes on without a bet, or it is refused without one.
LEMMA ChecksKeep ==
  ASSUME AnswersInv, UNCHANGED faults, NEW c \in DOMAIN call, PlayChecks(c) \/ PlayRefuses(c)
  PROVE  AnswersInv'
<1>1. FaultsGrow /\ ServiceType' /\ call[c] \in Calls /\ Sound(call[c], faults')
  BY NoFault, CallIs DEF PlayChecks, PlayRefuses, AnswersInv, ServiceType, service
<1>2. Handled(c) /\ call[c].bet = 0
  BY CallIs DEF PlayChecks, PlayRefuses, Handled, Sound
<1>3. CASE call' = Reply(c, "refused")
  BY <1>1, <1>2, <1>3, ReplyKeeps
<1>4. CASE call[c].at = "queued" /\ call' = [call EXCEPT ![c].at = "checked"]
  <2> DEFINE k == [call[c] EXCEPT !.at = "checked"]
  <2>1. k \in Calls /\ Sound(k, faults')
    BY <1>1, <1>2, <1>4 DEF Calls, Sound, Stages
  <2>2. call' = [call EXCEPT ![c] = k]
    BY <1>4
  <2> HIDE DEF k
  <2> QED BY <1>1, <2>1, <2>2, OneCall
<1> QED BY <1>3, <1>4 DEF PlayChecks, PlayRefuses

\* A bet is settled and is to be published.
LEMMA SettleKeeps ==
  ASSUME AnswersInv, UNCHANGED faults, NEW c \in DOMAIN call, call[c].at = "checked",
         NEW how \in Outcomes, NEW pays \in BOOLEAN, NEW todo \in Seq(Outlets), todo # <<>>,
         Settle(c, how, pays, todo), session' \in Seq(Sessions)
  PROVE  AnswersInv'
<1>1. bet' \in Seq(Bets) /\ Len(bet) + 1 \in Nat
  BY SettledIsBet
<1>2. call' = [call EXCEPT ![c].at = "fanout", ![c].todo = todo, ![c].bet = Len(bet) + 1]
  BY DEF Settle
<1> QED BY <1>1, <1>2, ToFanoutKeeps DEF ServiceType

\* placeBet settles a bet of the session it checked.
LEMMA PlaceBetKeeps ==
  ASSUME AnswersInv, UNCHANGED faults, NEW c \in DOMAIN call, PlayPlaceBet(c)
  PROVE  AnswersInv'
<1> PICK pays \in BOOLEAN : Settle(c, "placed", pays, FanoutBet(pays))
  BY DEF PlayPlaceBet
<1>1. call[c].at = "checked" /\ session' \in Seq(Sessions)
  BY DEF PlayPlaceBet, AnswersInv, ServiceType
<1>2. "placed" \in Outcomes
  BY DEF Outcomes
<1> QED BY <1>1, <1>2, FanoutIsNotEmpty, SettleKeeps

\* A start is answered at once: no consumer here reads what it publishes.
LEMMA StartKeeps ==
  ASSUME AnswersInv, UNCHANGED faults, NEW c \in DOMAIN call, PlayStart(c)
  PROVE  AnswersInv'
<1>1. ServiceType'
  BY SessionsStay DEF PlayStart, AnswersInv, ServiceType
<1>2. Handled(c) /\ call' = Reply(c, "ok") /\ FaultsGrow
  BY NoFault DEF PlayStart, Handled, AnswersInv
<1> QED BY <1>1, <1>2, ReplyKeeps

\* Ending a round keeps the sessions' types.
LEMMA RoundEnds ==
  ASSUME AnswersInv, NEW c \in DOMAIN call, EndRound(c) PROVE session' \in Seq(Sessions)
BY SessionsStay DEF EndRound, AnswersInv

\* A reveal leaves the round open, or ends it with a bet.
LEMMA RevealKeeps ==
  ASSUME AnswersInv, UNCHANGED faults, NEW c \in DOMAIN call, PlayReveal(c)
  PROVE  AnswersInv'
<1>1. call[c].at = "checked"
  BY DEF PlayReveal, InRound
<1>2. <<"realtime">> \in Seq(Outlets) /\ <<"realtime">> # <<>>
  BY DEF Outlets
<1>3. CASE /\ call' = [call EXCEPT ![c].at = "fanout", ![c].todo = <<"realtime">>]
           /\ UNCHANGED service
  <2>1. ServiceType'
    BY <1>3 DEF AnswersInv, ServiceType, service
  <2> QED BY <1>1, <1>2, <1>3, <2>1, ToFanoutKeeps
<1>4. CASE Settle(c, "lost", FALSE, <<"realtime">>) /\ EndRound(c)
  BY <1>1, <1>2, <1>4, RoundEnds, SettleKeeps DEF Outcomes
<1>5. CASE Settle(c, "cleared", TRUE, <<"realtime">>) /\ EndRound(c)
  BY <1>1, <1>2, <1>5, RoundEnds, SettleKeeps DEF Outcomes
<1> QED BY <1>3, <1>4, <1>5 DEF PlayReveal

\* cashOut ends the round with a bet.
LEMMA CashOutKeeps ==
  ASSUME AnswersInv, UNCHANGED faults, NEW c \in DOMAIN call, PlayCashOut(c)
  PROVE  AnswersInv'
BY RoundEnds, SettleKeeps, FanoutIsNotEmpty DEF PlayCashOut, InRound, Outcomes

\* The steps of the play service, one by one.
LEMMA PlayKeeps ==
  ASSUME AnswersInv, NEW c \in DOMAIN call, Play(c)
  PROVE  AnswersInv'
<1>1. UNCHANGED faults
  BY DEF Play
<1>2. \/ PlayStartSession(c) \/ PlayEndSession(c) \/ PlayChecks(c) \/ PlayRefuses(c)
      \/ PlayPlaceBet(c) \/ PlayStart(c) \/ PlayReveal(c) \/ PlayCashOut(c)
  BY Zenon DEF Play
<1> QED BY <1>1, <1>2, StartSessionKeeps, EndSessionKeeps, ChecksKeep, PlaceBetKeeps,
           StartKeeps, RevealKeeps, CashOutKeeps

\* A publication that is made, or that fails: only placeBet answers a throw with its bet.
LEMMA PublishKeeps ==
  ASSUME AnswersInv, NEW c \in DOMAIN call, Publish(c) \/ PublishFails(c)
  PROVE  AnswersInv'
<1>1. FaultsGrow
  BY NoFault, FaultCounts DEF Publish, PublishFails, FaultKinds, AnswersInv
<1>2. ServiceType' /\ Publishes(c) /\ Handled(c)
  BY DEF Publish, PublishFails, Publishes, Handled, AnswersInv, ServiceType, service
<1>3. CASE call' = GoOn(c)
  BY <1>1, <1>2, <1>3, GoOnKeeps
<1>4. CASE call' = AfterThrow(c)
  BY <1>1, <1>2, <1>4, ReplyKeeps DEF AfterThrow
<1> QED BY <1>3, <1>4 DEF Publish, PublishFails

\* The gateway and the engine, one by one.
LEMMA EngineKeeps == ASSUME AnswersInv, Engine PROVE AnswersInv'
BY SendAnyKeeps, TimeoutKeeps, PlayKeeps, PublishKeeps, RestartKeeps DEF Engine, Handler

---------------------------------------------------------------------------
(* The workers *)

\* A step that may fail counts at most a fault.
LEMMA MayFailIsQuiet ==
  ASSUME FaultType, NEW effect, MayFail(effect) PROVE FaultsGrow
BY NoFault, FaultCounts DEF MayFail, FaultKinds

\* Whatever a worker does, it counts faults at most and touches no request.
LEMMA WorkersAreQuiet ==
  ASSUME AnswersInv, NEW w \in Workers,
         RealtimeProcessor(w) \/ SessionProcessor(w) \/ WorkerRestarts(w)
  PROVE  FaultsGrow /\ UNCHANGED <<service, call>>
<1>1. FaultType
  BY DEF AnswersInv
<1>2. CASE TakeRealtime(w)
  BY <1>1, <1>2, NoFault, FaultCounts DEF TakeRealtime, MayFail, FaultKinds
<1>3. CASE Announce(w)
  BY <1>1, <1>3, NoFault, FaultCounts DEF Announce, MayFail, FaultKinds
<1>4. CASE DeleteHistory(w) \/ ReadHistory(w)
  BY <1>1, <1>4, NoFault DEF DeleteHistory, ReadHistory, Take
<1>5. CASE WriteHistory(w) \/ Complete(w)
  BY <1>1, <1>5, NoFault DEF WriteHistory, Complete
<1>6. CASE SessionJobFails(w) \/ WorkerRestarts(w)
  BY <1>1, <1>6, FaultCounts DEF SessionJobFails, WorkerRestarts, FaultKinds
<1> QED BY <1>2, <1>3, <1>4, <1>5, <1>6 DEF RealtimeProcessor, SessionProcessor

\* Neither does the bus consumer nor an expiry.
LEMMA OthersAreQuiet ==
  ASSUME AnswersInv,
         \/ \E i \in bus : OnBetSettled(i)
         \/ \E s \in DOMAIN history : HistoryExpires(s)
  PROVE  FaultsGrow /\ UNCHANGED <<service, call>>
BY NoFault, FaultCounts DEF AnswersInv, OnBetSettled, MayFail, HistoryExpires, FaultKinds

\* AnswersInv is inductive.
LEMMA NextKeeps == ASSUME AnswersInv, [Next]_vars PROVE AnswersInv'
<1>1. CASE Engine
  BY <1>1, EngineKeeps
<1>2. CASE UNCHANGED vars
  BY <1>2, NoFault, QuietStep DEF vars, AnswersInv
<1> QED BY <1>1, <1>2, WorkersAreQuiet, OthersAreQuiet, QuietStep DEF Next

\* The player comes with sessions and bets of their types, and no request.
LEMMA InitKeeps == ASSUME Init PROVE AnswersInv
<1>1. call = <<>> /\ faults = [k \in FaultKinds |-> 0]
  BY DEF Init, InitEngine
<1>2. \/ session = <<>> /\ bet = <<>>
      \/ \E g \in Games, b \in BOOLEAN : session = OpenSession(g, b) /\ bet \in {<<>>, EarlierWin}
  BY DEF Init, InitEngine, Comes
<1>3. session \in Seq(Sessions)
  <2>1. \A g \in Games, b \in BOOLEAN : OpenSession(g, b) \in Seq(Sessions)
    BY DEF OpenSession, Sessions
  <2> QED BY <1>2, <2>1, EmptySeq
<1>4. bet \in Seq(Bets)
  <2>1. EarlierWin \in Seq(Bets)
    BY DEF EarlierWin, Bets, Outcomes
  <2> QED BY <1>2, <2>1, EmptySeq
<1>5. CallType /\ DOMAIN call = {}
  BY <1>1, EmptySeq DEF CallType
<1> QED BY <1>1, <1>3, <1>4, <1>5 DEF AnswersInv, ServiceType, FaultType, CallsSound

---------------------------------------------------------------------------
\* placeBet catches what fanoutBet throws: whatever publisher, queue or worker fails, a
\* bet that was settled is not answered as refused, and as "unavailable" only after the
\* gateway's timer ran out or the engine stopped.
THEOREM SettledBetsAreAnswered == Spec => []FanoutNeverFailsABet
<1>1. Init => AnswersInv
  BY InitKeeps
<1>2. AnswersInv /\ [Next]_vars => AnswersInv'
  BY NextKeeps
<1>3. AnswersInv => FanoutNeverFailsABet
  BY SoundIsEnough
<1> QED BY <1>1, <1>2, <1>3, PTL DEF Spec


---------------------------------------------------------------------------
(* What a step does to the requests, the sessions and the bets *)

PlayOps == {"placeBet", "start", "reveal", "cashOut"}

\* Only request c changes, and what was asked stays.
Moves(c) ==
  /\ DOMAIN call' = DOMAIN call
  /\ \A d \in DOMAIN call : /\ call'[d].op = call[d].op /\ call'[d].sid = call[d].sid
                            /\ d # c => call'[d] = call[d]

GoesOn(c, at, todo, i) ==
  /\ Moves(c)
  /\ call'[c].at = at /\ call'[c].todo = todo /\ call'[c].bet = i /\ call'[c].view = call[c].view

Answered(c, answer) ==
  /\ Moves(c)
  /\ call'[c].at = "replied" /\ call'[c].todo = <<>> /\ call'[c].bet = call[c].bet
  /\ call'[c].view = IF call[c].view = "waiting" THEN answer ELSE call[c].view

\* Sessions are never removed and never open again.
SessionsGo ==
  /\ DOMAIN session \subseteq DOMAIN session'
  /\ \A s \in DOMAIN session : session'[s].open => session[s].open
SameSessions == DOMAIN session' = DOMAIN session /\ SessionsGo

\* What Play comes to, by the request.
Opened(c) ==
  /\ call[c].op = "startSession" /\ call[c].at = "queued"
  /\ GoesOn(c, "fanout", <<"realtime">>, call[c].bet)
  /\ DOMAIN session' = DOMAIN session \cup {Len(session) + 1} /\ Len(session') = Len(session) + 1
  /\ SessionsGo /\ UNCHANGED bet
Ended(c) ==
  /\ call[c].op = "endSession" /\ call[c].at = "queued"
  /\ GoesOn(c, "fanout", <<"ended">>, call[c].bet)
  /\ call[c].sid \in DOMAIN session => ~session'[call[c].sid].open
  /\ SameSessions /\ UNCHANGED bet
Checked(c) ==
  /\ call[c].op \in PlayOps /\ call[c].at = "queued" /\ session[call[c].sid].open
  /\ GoesOn(c, "checked", call[c].todo, call[c].bet)
  /\ UNCHANGED service
Finished(c) ==
  /\ call[c].op \in PlayOps /\ call[c].at \in {"queued", "checked"}
  /\ \E answer \in {"ok", "refused"} : Answered(c, answer)
  /\ SameSessions /\ UNCHANGED bet
Played(c) ==
  /\ call[c].op = "reveal" /\ call[c].at = "checked"
  /\ GoesOn(c, "fanout", <<"realtime">>, call[c].bet)
  /\ UNCHANGED service
Settled(c) ==
  /\ call[c].at = "checked" /\ SameSessions
  /\ \E how \in Outcomes, pays \in BOOLEAN, todo \in Seq(Outlets) :
       /\ bet' = Append(bet, [sid |-> call[c].sid, how |-> how, pays |-> pays])
       /\ GoesOn(c, "fanout", todo, Len(bet) + 1)
       /\ \/ /\ call[c].op = "reveal" /\ todo = <<"realtime">> /\ how \in {"lost", "cleared"}
          \/ /\ call[c].op \in {"placeBet", "cashOut"} /\ todo = FanoutBet(pays)
             /\ how \in {"placed", "cashed_out"}

\* One publication is through, made or not.
Passed(c) ==
  /\ call[c].at = "fanout"
  /\ \/ Len(call[c].todo) = 1 /\ Answered(c, "ok")
     \/ Len(call[c].todo) # 1 /\ GoesOn(c, "fanout", Tail(call[c].todo), call[c].bet)

\* A request rewritten.
LEMMA Rewriting ==
  ASSUME AnswersInv, NEW c \in DOMAIN call, NEW k, call' = [call EXCEPT ![c] = k],
         k.op = call[c].op, k.sid = call[c].sid
  PROVE  Moves(c) /\ call'[c] = k
BY DEF AnswersInv, CallType, Moves

\* A request answered.
LEMMA Answering ==
  ASSUME AnswersInv, NEW c \in DOMAIN call, NEW answer, call' = Reply(c, answer)
  PROVE  Answered(c, answer)
<1> DEFINE view == IF call[c].view = "waiting" THEN answer ELSE call[c].view
           k == [call[c] EXCEPT !.at = "replied", !.todo = <<>>, !.view = view]
<1>1. call' = [call EXCEPT ![c] = k]
  BY DEF Reply
<1>2. /\ k.op = call[c].op /\ k.sid = call[c].sid /\ k.at = "replied" /\ k.todo = <<>>
      /\ k.bet = call[c].bet /\ k.view = view
  <2> HIDE DEF view
  <2> QED BY CallIs DEF Calls
<1> HIDE DEF k
<1> QED BY <1>1, <1>2, Rewriting DEF Answered

\* A request that goes on, with a bet just settled or with the one it has.
LEMMA Settling ==
  ASSUME AnswersInv, NEW c \in DOMAIN call, NEW todo, NEW i,
         call' = [call EXCEPT ![c].at = "fanout", ![c].todo = todo, ![c].bet = i]
  PROVE  GoesOn(c, "fanout", todo, i)
<1> DEFINE k == [call[c] EXCEPT !.at = "fanout", !.todo = todo, !.bet = i]
<1>1. /\ k.op = call[c].op /\ k.sid = call[c].sid /\ k.at = "fanout" /\ k.todo = todo
      /\ k.bet = i /\ k.view = call[c].view
  BY CallIs DEF Calls
<1>2. call' = [call EXCEPT ![c] = k]
  OBVIOUS
<1> HIDE DEF k
<1> QED BY <1>1, <1>2, Rewriting DEF GoesOn

\* A handler that turns to its fan-out, or goes on with it, changes nothing else of its request.
LEMMA Fanning ==
  ASSUME AnswersInv, NEW c \in DOMAIN call, NEW todo,
         \/ call' = [call EXCEPT ![c].at = "fanout", ![c].todo = todo]
         \/ call[c].at = "fanout" /\ call' = [call EXCEPT ![c].todo = todo]
  PROVE  GoesOn(c, "fanout", todo, call[c].bet)
<1> DEFINE k == [call[c] EXCEPT !.at = "fanout", !.todo = todo]
           w == [call[c] EXCEPT !.todo = todo]
<1>1. /\ k.op = call[c].op /\ k.sid = call[c].sid /\ k.at = "fanout" /\ k.todo = todo
      /\ k.bet = call[c].bet /\ k.view = call[c].view
  BY CallIs DEF Calls
<1>2. /\ w.op = call[c].op /\ w.sid = call[c].sid /\ w.at = call[c].at /\ w.todo = todo
      /\ w.bet = call[c].bet /\ w.view = call[c].view
  BY CallIs DEF Calls
<1>3. \/ call' = [call EXCEPT ![c] = k]
      \/ call[c].at = "fanout" /\ call' = [call EXCEPT ![c] = w]
  OBVIOUS
<1> HIDE DEF k, w
<1> QED BY <1>1, <1>2, <1>3, Rewriting DEF GoesOn

\* Nor does one whose checks passed.
LEMMA Checking ==
  ASSUME AnswersInv, NEW c \in DOMAIN call, call' = [call EXCEPT ![c].at = "checked"]
  PROVE  GoesOn(c, "checked", call[c].todo, call[c].bet)
<1> DEFINE k == [call[c] EXCEPT !.at = "checked"]
<1>1. /\ k.op = call[c].op /\ k.sid = call[c].sid /\ k.at = "checked" /\ k.todo = call[c].todo
      /\ k.bet = call[c].bet /\ k.view = call[c].view
  BY CallIs DEF Calls
<1>2. call' = [call EXCEPT ![c] = k]
  OBVIOUS
<1> HIDE DEF k
<1> QED BY <1>1, <1>2, Rewriting DEF GoesOn

\* A publication is followed by the next one or by the answer.
LEMMA Passing ==
  ASSUME AnswersInv, NEW c \in DOMAIN call, Publishes(c), call' = GoOn(c)
  PROVE  Passed(c)
<1>1. Len(call[c].todo) = 1 => Answered(c, "ok")
  BY Answering DEF GoOn
<1>2. Len(call[c].todo) # 1 => call' = [call EXCEPT ![c].todo = Tail(call[c].todo)]
  BY DEF GoOn
<1> QED BY <1>1, <1>2, Fanning DEF Passed, Publishes

\* Sessions after one field of one of them is written, when there is such a session.
LEMMA SessionsWritten ==
  ASSUME ServiceType, NEW s,
         \/ session' = [session EXCEPT ![s].open = FALSE]
         \/ \E b \in BOOLEAN : session' = [session EXCEPT ![s].round = b]
  PROVE  /\ SameSessions
         /\ session' = [session EXCEPT ![s].open = FALSE] /\ s \in DOMAIN session
              => ~session'[s].open
<1>1. \A t \in DOMAIN session : session[t] \in Sessions
  BY SessionIs
<1>2. CASE session' = [session EXCEPT ![s].open = FALSE]
  <2>1. \A t \in DOMAIN session : [session[t] EXCEPT !.open = FALSE].open = FALSE
    BY <1>1 DEF Sessions
  <2>2. /\ DOMAIN session' = DOMAIN session
        /\ \A t \in DOMAIN session :
             session'[t] = IF t = s THEN [session[t] EXCEPT !.open = FALSE] ELSE session[t]
    BY <1>2 DEF ServiceType
  <2> QED BY <2>1, <2>2 DEF SameSessions, SessionsGo
<1>3. ASSUME NEW b \in BOOLEAN, session' = [session EXCEPT ![s].round = b]
      PROVE  SameSessions
  <2>1. \A t \in DOMAIN session : [session[t] EXCEPT !.round = b].open = session[t].open
    BY <1>1 DEF Sessions
  <2>2. /\ DOMAIN session' = DOMAIN session
        /\ \A t \in DOMAIN session :
             session'[t] = IF t = s THEN [session[t] EXCEPT !.round = b] ELSE session[t]
    BY <1>3 DEF ServiceType
  <2> QED BY <2>1, <2>2 DEF SameSessions, SessionsGo
<1>5. session' = [session EXCEPT ![s].open = FALSE] /\ s \in DOMAIN session => ~session'[s].open
  <2> SUFFICES ASSUME session' = [session EXCEPT ![s].open = FALSE], s \in DOMAIN session
               PROVE  ~session'[s].open
    OBVIOUS
  <2>1. [session[s] EXCEPT !.open = FALSE].open = FALSE
    BY <1>1 DEF Sessions
  <2> QED BY <2>1 DEF ServiceType
<1> QED BY <1>2, <1>3, <1>5

\* Sessions that do not change have not moved.
LEMMA SessionsUnmoved == ASSUME UNCHANGED session PROVE SameSessions
BY DEF SameSessions, SessionsGo

\* A new session ends the open ones of its game.
LEMMA Opening ==
  ASSUME AnswersInv, NEW c \in DOMAIN call, call[c].op = "startSession", PlayStartSession(c)
  PROVE  Opened(c)
<1> DEFINE closed(s) == [session[s] EXCEPT !.open = @ /\ s \notin OpenSessions(call[c].game)]
           own == [game |-> call[c].game, open |-> TRUE, round |-> FALSE]
           ended == [s \in DOMAIN session |-> closed(s)]
<1>1. ServiceType
  BY DEF AnswersInv
<1>2. \A s \in DOMAIN session : closed(s) \in Sessions /\ (closed(s).open => session[s].open)
  BY <1>1, SessionIs DEF Sessions
<1>3. session' = Append(ended, own)
  BY DEF PlayStartSession
<1>4. /\ DOMAIN session = 1..Len(session) /\ Len(session) \in Nat
      /\ own \in Sessions
  BY <1>1, SessionIs, CallIs DEF Calls, Sessions
<1>5. ended \in Seq(Sessions) /\ Len(ended) = Len(session) /\ DOMAIN ended = DOMAIN session
  <2> HIDE DEF closed
  <2>1. ended \in [1..Len(session) -> Sessions] /\ Len(session) \in Nat
    BY <1>2, <1>4
  <2>2. DOMAIN ended = DOMAIN session
    OBVIOUS
  <2> HIDE DEF ended
  <2>3. ended \in Seq(Sessions)
    BY <2>1, SeqDef
  <2>4. DOMAIN ended = 1..Len(ended) /\ Len(ended) \in Nat
    BY <2>3, LenProperties
  <2> QED BY <1>4, <2>2, <2>3, <2>4
<1>6. \A s \in DOMAIN session : ended[s] = closed(s)
  OBVIOUS
<1>7. /\ DOMAIN session' = DOMAIN session \cup {Len(session) + 1}
      /\ Len(session') = Len(session) + 1
      /\ \A s \in DOMAIN session : session'[s] = ended[s]
  <2> HIDE DEF closed, ended, own
  <2> QED BY <1>3, <1>4, <1>5
<1>8. SessionsGo
  BY <1>2, <1>6, <1>7 DEF SessionsGo
<1>9. GoesOn(c, "fanout", <<"realtime">>, call[c].bet)
  BY Fanning DEF PlayStartSession
<1> QED BY <1>7, <1>8, <1>9 DEF PlayStartSession, Opened

\* Play answers, goes on, or settles one bet.
LEMMA Playing ==
  ASSUME AnswersInv, NEW c \in DOMAIN call, Play(c)
  PROVE  /\ \/ Opened(c) \/ Ended(c) \/ Checked(c) \/ Finished(c) \/ Played(c) \/ Settled(c)
         /\ UNCHANGED <<outlets, history, faults>>
<1>1. ServiceType /\ call[c].op \in Ops /\ UNCHANGED <<outlets, history, faults>>
  BY CallIs DEF AnswersInv, Calls, Play
<1>2. CASE call[c].op = "startSession"
  BY <1>1, <1>2, Opening DEF Play
<1>3. CASE call[c].op = "endSession"
  <2>1. PlayEndSession(c)
    BY <1>3 DEF Play
  <2>2. SameSessions /\ (call[c].sid \in DOMAIN session => ~session'[call[c].sid].open)
    BY <1>1, <2>1, SessionsWritten DEF PlayEndSession
  <2> QED BY <1>1, <1>3, <2>1, <2>2, Fanning DEF PlayEndSession, Ended
<1>4. ASSUME call[c].op \in PlayOps, PlayChecks(c) \/ PlayRefuses(c)
      PROVE  Checked(c) \/ Finished(c)
  <2>1. UNCHANGED service /\ SameSessions
    BY <1>4, SessionsUnmoved DEF PlayChecks, PlayRefuses, service
  <2>2. CASE call' = Reply(c, "refused")
    BY <1>4, <2>1, <2>2, Answering DEF Finished, PlayChecks, PlayRefuses, service
  <2>3. CASE /\ call[c].at = "queued" /\ session[call[c].sid].open
             /\ call' = [call EXCEPT ![c].at = "checked"]
    <3>1. GoesOn(c, "checked", call[c].todo, call[c].bet)
      BY <2>3, Checking
    <3> QED BY <1>4, <2>1, <2>3, <3>1 DEF Checked
  <2> QED BY <1>4, <2>2, <2>3 DEF PlayChecks, PlayRefuses
<1>5. ASSUME NEW how \in Outcomes, NEW pays \in BOOLEAN, NEW todo \in Seq(Outlets),
             Settle(c, how, pays, todo), call[c].at = "checked", SameSessions,
             \/ call[c].op = "reveal" /\ todo = <<"realtime">> /\ how \in {"lost", "cleared"}
             \/ /\ call[c].op \in {"placeBet", "cashOut"} /\ todo = FanoutBet(pays)
                /\ how \in {"placed", "cashed_out"}
      PROVE  Settled(c)
  <2>1. GoesOn(c, "fanout", todo, Len(bet) + 1)
    BY <1>5, Settling DEF Settle
  <2> QED BY <1>5, <2>1 DEF Settled, Settle
<1>6. CASE call[c].op = "placeBet"
  <2>1. PlayPlaceBet(c) => Settled(c)
    <3> SUFFICES ASSUME NEW pays \in BOOLEAN, Settle(c, "placed", pays, FanoutBet(pays)),
                        call[c].at = "checked", UNCHANGED session
                 PROVE  Settled(c)
      BY DEF PlayPlaceBet
    <3> QED BY <1>5, <1>6, FanoutIsNotEmpty, SessionsUnmoved DEF Outcomes
  <2>2. PlayChecks(c) \/ PlayRefuses(c) \/ PlayPlaceBet(c)
    BY <1>6 DEF Play
  <2> QED BY <1>1, <1>4, <1>6, <2>1, <2>2 DEF PlayOps
<1>7. CASE call[c].op = "start"
  <2>1. PlayStart(c) => Finished(c)
    BY <1>1, <1>7, SessionsWritten, Answering DEF PlayStart, Finished, PlayOps
  <2>2. PlayChecks(c) \/ PlayRefuses(c) \/ PlayStart(c)
    BY <1>7 DEF Play
  <2> QED BY <1>1, <1>4, <1>7, <2>1, <2>2 DEF PlayOps
<1>8. EndRound(c) => SameSessions
  BY <1>1, SessionsWritten DEF EndRound
<1>9. CASE call[c].op = "reveal"
  <2>1. <<"realtime">> \in Seq(Outlets)
    BY DEF Outlets
  <2>2. PlayReveal(c) => Played(c) \/ Settled(c)
    <3>1. PlayReveal(c) => call[c].at = "checked"
      BY DEF PlayReveal, InRound
    <3>2. Settle(c, "lost", FALSE, <<"realtime">>) /\ EndRound(c) /\ call[c].at = "checked" => Settled(c)
      BY <1>5, <1>8, <1>9, <2>1 DEF Outcomes
    <3>3. Settle(c, "cleared", TRUE, <<"realtime">>) /\ EndRound(c) /\ call[c].at = "checked"
            => Settled(c)
      BY <1>5, <1>8, <1>9, <2>1 DEF Outcomes
    <3>4. ASSUME call' = [call EXCEPT ![c].at = "fanout", ![c].todo = <<"realtime">>],
                 UNCHANGED service, call[c].at = "checked"
          PROVE  Played(c)
      <4>1. GoesOn(c, "fanout", <<"realtime">>, call[c].bet)
        BY <3>4, Fanning
      <4> QED BY <1>9, <3>4, <4>1 DEF Played
    <3> QED BY <3>1, <3>2, <3>3, <3>4 DEF PlayReveal
  <2>3. PlayChecks(c) \/ PlayRefuses(c) \/ PlayReveal(c)
    BY <1>9 DEF Play
  <2> QED BY <1>1, <1>4, <1>9, <2>2, <2>3 DEF PlayOps
<1>10. CASE call[c].op = "cashOut"
  <2>1. PlayCashOut(c) => Settled(c)
    BY <1>5, <1>8, <1>10, FanoutIsNotEmpty DEF PlayCashOut, InRound, Outcomes
  <2>2. PlayChecks(c) \/ PlayRefuses(c) \/ PlayCashOut(c)
    BY <1>10 DEF Play
  <2> QED BY <1>1, <1>4, <1>10, <2>1, <2>2 DEF PlayOps
<1> QED BY <1>1, <1>2, <1>3, <1>6, <1>7, <1>9, <1>10 DEF Ops

---------------------------------------------------------------------------
(* Types: what requests, jobs and lists name exists *)

BetJobs(n) == {j \in [bet : 0..n, win : BOOLEAN] : j.win => j.bet # 0}
SessionJobs(m, n) ==
  {j \in [name : {"history", "ended"}, sid : 1..m, item : 0..n] : j.name = "history" => j.item # 0}

Named(todo) == {todo[n] : n \in DOMAIN todo}

\* What request k names when there are m sessions and n bets, and what it has to publish.
Names(k, m, n) ==
  /\ (k.sid = 0 /\ k.op = "startSession") \/ (k.sid \in 1..m /\ k.op # "startSession")
  /\ k.bet \in 0..n
  /\ k.at # "fanout" => k.todo = <<>>
  /\ k.bet = 0 => Named(k.todo) \cap {"lobby", "bus", "history"} = {}
  /\ k.op \in {"placeBet", "cashOut"} /\ k.at = "fanout" => k.bet # 0
  /\ k.op = "startSession" => Named(k.todo) \cap {"history", "ended"} = {}

CallsFit == \A c \in DOMAIN call : Names(call[c], Len(session), Len(bet))
BetsFit  == \A i \in DOMAIN bet : bet[i].sid \in 1..Len(session)

BetCalls == {c \in DOMAIN call : call[c].bet # 0}

\* Requests are bounded, each opens one session and settles one bet at most.
Counted ==
  /\ Len(call) <= MaxRequests
  /\ Cardinality(StartRequests) + Len(session) <= MaxSessions
  /\ Len(bet) <= Cardinality(BetCalls) + 1

ToldFit == told \in 0..Len(bet) /\ announced \subseteq 1..Len(bet) /\ bus \subseteq 1..Len(bet)

QueuesFit ==
  /\ realtimeQueue \in Seq(BetJobs(Len(bet)))
  /\ sessionQueue \in Seq(SessionJobs(Len(session), Len(bet)))
WorkersFit ==
  /\ publishing \in [Workers -> AtMostOne(BetJobs(Len(bet)))]
  /\ storing \in [Workers -> AtMostOne(SessionJobs(Len(session), Len(bet)))]
  /\ stored \in [Workers -> BOOLEAN] /\ existing \in [Workers -> Seq(1..Len(bet))]
  /\ \A w \in Workers : storing[w] # <<>> /\ ~stored[w] => storing[w][1].name = "history"
HistoryFits == history \in [1..MaxSessions -> Seq(1..Len(bet))]

OutsideFits == ToldFit /\ QueuesFit /\ WorkersFit /\ HistoryFits

FitInv == AnswersInv /\ CallsFit /\ BetsFit /\ Counted /\ OutsideFits

\* Lengths are numbers.
LEMMA Lengths ==
  ASSUME AnswersInv
  PROVE  /\ Len(session) \in Nat /\ DOMAIN session = 1..Len(session)
         /\ Len(bet) \in Nat /\ DOMAIN bet = 1..Len(bet)
         /\ Len(call) \in Nat /\ DOMAIN call = 1..Len(call)
BY LenProperties DEF AnswersInv, ServiceType, CallType

\* Jobs stay jobs when there are more sessions and bets to name.
LEMMA JobsGrow ==
  ASSUME NEW m \in Nat, NEW n \in Nat, NEW p \in Nat, NEW q \in Nat, m <= p, n <= q
  PROVE  /\ 1..n \subseteq 1..q /\ 0..n \subseteq 0..q
         /\ BetJobs(n) \subseteq BetJobs(q) /\ SessionJobs(m, n) \subseteq SessionJobs(p, q)
         /\ AtMostOne(BetJobs(n)) \subseteq AtMostOne(BetJobs(q))
         /\ AtMostOne(SessionJobs(m, n)) \subseteq AtMostOne(SessionJobs(p, q))
<1>1. 1..n \subseteq 1..q /\ 0..n \subseteq 0..q /\ 1..m \subseteq 1..p
  OBVIOUS
<1>2. BetJobs(n) \subseteq BetJobs(q)
  BY <1>1 DEF BetJobs
<1>3. SessionJobs(m, n) \subseteq SessionJobs(p, q)
  BY <1>1 DEF SessionJobs
<1>4. \A S, T : S \subseteq T => AtMostOne(S) \subseteq AtMostOne(T)
  BY DEF AtMostOne
<1> QED BY <1>1, <1>2, <1>3, <1>4

\* A step that only adds sessions and bets leaves what is outside the engine right.
LEMMA OutsideStays ==
  ASSUME AnswersInv, AnswersInv', OutsideFits, Len(session) <= Len(session'), Len(bet) <= Len(bet'),
         UNCHANGED <<outlets, history, processors>>
  PROVE  OutsideFits'
<1>1. /\ Len(session) \in Nat /\ Len(bet) \in Nat /\ Len(session') \in Nat /\ Len(bet') \in Nat
  BY Lengths DEF AnswersInv, ServiceType
<1>2. /\ 1..Len(bet) \subseteq 1..Len(bet') /\ 0..Len(bet) \subseteq 0..Len(bet')
      /\ BetJobs(Len(bet)) \subseteq BetJobs(Len(bet'))
      /\ SessionJobs(Len(session), Len(bet)) \subseteq SessionJobs(Len(session'), Len(bet'))
      /\ AtMostOne(BetJobs(Len(bet))) \subseteq AtMostOne(BetJobs(Len(bet')))
      /\ AtMostOne(SessionJobs(Len(session), Len(bet)))
           \subseteq AtMostOne(SessionJobs(Len(session'), Len(bet')))
  BY <1>1, JobsGrow
<1>3. ToldFit'
  BY <1>2 DEF OutsideFits, ToldFit, outlets
<1>4. QueuesFit'
  BY <1>2, SeqMonotonic DEF OutsideFits, QueuesFit, outlets
<1>5. Seq(1..Len(bet)) \subseteq Seq(1..Len(bet'))
  BY <1>2, SeqMonotonic
<1>6. \A S, T, f : S \subseteq T /\ f \in [Workers -> S] => f \in [Workers -> T]
  OBVIOUS
<1>7. WorkersFit'
  BY <1>2, <1>5, <1>6 DEF OutsideFits, WorkersFit, processors
<1>8. HistoryFits'
  BY <1>5 DEF OutsideFits, HistoryFits
<1> QED BY <1>3, <1>4, <1>7, <1>8 DEF OutsideFits

---------------------------------------------------------------------------
(* Types: the engine *)

\* The names of a sequence.
LEMMA NamedEmpty == Named(<<>>) = {} /\ \A x : Named(<<x>>) = {x}
BY DEF Named

\* A list names its head and what its tail names.
LEMMA NamedTail ==
  ASSUME NEW S, NEW todo \in Seq(S), todo # <<>>
  PROVE  /\ Named(todo) = {Head(todo)} \cup Named(Tail(todo))
         /\ Head(todo) \in S /\ (Len(todo) = 1 => Tail(todo) = <<>>)
<1>1. /\ Head(todo) \in S /\ Tail(todo) \in Seq(S) /\ Len(Tail(todo)) = Len(todo) - 1
      /\ \A n \in 1..Len(Tail(todo)) : Tail(todo)[n] = todo[n + 1]
  BY HeadTailProperties
<1>2. /\ DOMAIN todo = 1..Len(todo) /\ Len(todo) \in Nat \ {0}
      /\ DOMAIN Tail(todo) = 1..Len(Tail(todo)) /\ Head(todo) = todo[1]
  BY <1>1, LenProperties, EmptySeq
<1>3. Len(todo) = 1 => Tail(todo) = <<>>
  <2>1. Len(todo) = 1 => Len(Tail(todo)) = 0
    BY <1>1, <1>2
  <2>2. Tail(todo) # <<>> => Len(Tail(todo)) \in Nat \ {0}
    BY <1>1, EmptySeq
  <2> QED BY <2>1, <2>2
<1>4. \A n \in DOMAIN todo : n = 1 \/ (n - 1 \in DOMAIN Tail(todo) /\ Tail(todo)[n - 1] = todo[n])
  BY <1>1, <1>2
<1>5. \A n \in DOMAIN Tail(todo) : n + 1 \in DOMAIN todo /\ Tail(todo)[n] = todo[n + 1]
  BY <1>1, <1>2
<1>6. Named(todo) \subseteq {Head(todo)} \cup Named(Tail(todo))
  BY <1>2, <1>4 DEF Named
<1>7. {Head(todo)} \cup Named(Tail(todo)) \subseteq Named(todo)
  BY <1>2, <1>5 DEF Named
<1> QED BY <1>1, <1>3, <1>6, <1>7

\* Two lists joined name what each of them names.
LEMMA NamedJoin ==
  ASSUME NEW a \in Seq(Outlets), NEW b \in Seq(Outlets)
  PROVE  Named(a \o b) = Named(a) \cup Named(b)
<1>1. /\ a \o b \in Seq(Outlets) /\ Len(a \o b) = Len(a) + Len(b)
      /\ \A i \in 1..Len(a) + Len(b) : (a \o b)[i] = IF i <= Len(a) THEN a[i] ELSE b[i - Len(a)]
  BY ConcatProperties
<1>2. /\ DOMAIN a = 1..Len(a) /\ DOMAIN b = 1..Len(b) /\ DOMAIN (a \o b) = 1..Len(a \o b)
      /\ Len(a) \in Nat /\ Len(b) \in Nat
  BY <1>1, LenProperties
<1>3. \A i \in DOMAIN (a \o b) : (a \o b)[i] \in Named(a) \cup Named(b)
  <2> TAKE i \in DOMAIN (a \o b)
  <2>1. i <= Len(a) => i \in DOMAIN a /\ (a \o b)[i] = a[i]
    BY <1>1, <1>2
  <2>2. ~(i <= Len(a)) => i - Len(a) \in DOMAIN b /\ (a \o b)[i] = b[i - Len(a)]
    BY <1>1, <1>2
  <2> QED BY <2>1, <2>2 DEF Named
<1>4. \A i \in DOMAIN a : i \in DOMAIN (a \o b) /\ (a \o b)[i] = a[i]
  BY <1>1, <1>2
<1>5. \A i \in DOMAIN b : i + Len(a) \in DOMAIN (a \o b) /\ (a \o b)[i + Len(a)] = b[i]
  BY <1>1, <1>2
<1>6. Named(a \o b) \subseteq Named(a) \cup Named(b)
  BY <1>3 DEF Named
<1>7. \A x \in Named(a) \cup Named(b) : x \in Named(a \o b)
  <2> TAKE x \in Named(a) \cup Named(b)
  <2>1. ASSUME NEW i \in DOMAIN a, x = a[i] PROVE x \in Named(a \o b)
    BY <1>4, <2>1 DEF Named
  <2>2. ASSUME NEW i \in DOMAIN b, x = b[i] PROVE x \in Named(a \o b)
    BY <1>5, <2>2 DEF Named
  <2> QED BY <2>1, <2>2 DEF Named
<1> QED BY <1>6, <1>7

\* What a settled bet is published to.
LEMMA NamedFanout ==
  ASSUME NEW pays \in BOOLEAN
  PROVE  Named(FanoutBet(pays)) =
           {"user", "bus", "realtime", "history"} \cup (IF pays THEN {"lobby"} ELSE {})
<1> DEFINE lobby == IF pays THEN <<"lobby">> ELSE <<>>
           last == <<"bus", "realtime", "history">>
           first == <<"user">>
<1>1. first \in Seq(Outlets) /\ last \in Seq(Outlets) /\ lobby \in Seq(Outlets)
  <2>1. <<"lobby">> \in Seq(Outlets) /\ first \in Seq(Outlets) /\ last \in Seq(Outlets)
    BY DEF Outlets
  <2> QED BY <2>1, NoNames
<1>2. Named(last) = {"bus", "realtime", "history"}
  BY DEF Named
<1>3. Named(lobby) = IF pays THEN {"lobby"} ELSE {}
  BY NamedEmpty
<1>4. Named(first) = {"user"}
  BY NamedEmpty
<1>5. FanoutBet(pays) = (first \o lobby) \o last
  BY DEF FanoutBet
<1> HIDE DEF first, lobby, last
<1>6. Named(FanoutBet(pays)) = (Named(first) \cup Named(lobby)) \cup Named(last)
  <2>1. Named(first \o lobby) = Named(first) \cup Named(lobby)
    BY <1>1, NamedJoin
  <2>2. first \o lobby \in Seq(Outlets)
    BY <1>1, ConcatProperties
  <2>3. Named((first \o lobby) \o last) = Named(first \o lobby) \cup Named(last)
    BY <1>1, <2>2, NamedJoin
  <2> QED BY <1>5, <2>1, <2>3
<1> QED BY <1>2, <1>3, <1>4, <1>6

\* What a request names exists when there is more of it.
LEMMA NamesGrow ==
  ASSUME NEW k, NEW m \in Nat, NEW n \in Nat, NEW p \in Nat, NEW q \in Nat, m <= p, n <= q,
         Names(k, m, n)
  PROVE  Names(k, p, q)
BY JobsGrow DEF Names

\* The request that moves is the one to look at.
LEMMA OneCallFits ==
  ASSUME FitInv, AnswersInv', NEW c \in DOMAIN call, Moves(c),
         Len(session) <= Len(session'), Len(bet) <= Len(bet'),
         Names(call'[c], Len(session'), Len(bet'))
  PROVE  CallsFit'
<1>1. /\ Len(session) \in Nat /\ Len(bet) \in Nat /\ Len(session') \in Nat /\ Len(bet') \in Nat
  BY Lengths DEF FitInv, AnswersInv, ServiceType
<1>2. \A d \in DOMAIN call : Names(call[d], Len(session'), Len(bet'))
  BY <1>1, NamesGrow DEF FitInv, CallsFit
<1> QED BY <1>2 DEF CallsFit, Moves

\* The requests counted.
LEMMA CountsAreFinite ==
  ASSUME AnswersInv
  PROVE  /\ IsFiniteSet(StartRequests) /\ IsFiniteSet(BetCalls) /\ IsFiniteSet(DOMAIN call)
         /\ Cardinality(StartRequests) \in Nat /\ Cardinality(BetCalls) \in Nat
         /\ Cardinality(BetCalls) <= Len(call)
<1>1. IsFiniteSet(DOMAIN call) /\ Cardinality(DOMAIN call) = Len(call)
  <2>1. \A n \in Nat : IsFiniteSet(1..n) /\ Cardinality(1..n) = n
    BY FS_Interval
  <2> QED BY <2>1, Lengths
<1>2. StartRequests \subseteq DOMAIN call /\ BetCalls \subseteq DOMAIN call
  BY DEF StartRequests, BetCalls
<1> QED BY <1>1, <1>2, FS_Subset, FS_CardinalityType

\* Fewer requests for a session and as many bets: the counts stay within their bounds.
LEMMA CountsStay ==
  ASSUME FitInv, AnswersInv', Len(call') = Len(call), Len(session') = Len(session),
         Len(bet') = Len(bet), StartRequests' \subseteq StartRequests, BetCalls' = BetCalls
  PROVE  Counted'
<1>1. AnswersInv /\ Counted
  BY DEF FitInv
<1>2. Cardinality(StartRequests') <= Cardinality(StartRequests) /\ Cardinality(StartRequests') \in Nat
  BY <1>1, CountsAreFinite, FS_Subset, FS_CardinalityType
<1>3. /\ Len(session) \in Nat /\ Cardinality(StartRequests) \in Nat
  BY <1>1, Lengths, CountsAreFinite
<1> QED BY <1>1, <1>2, <1>3, FanoutAssumption DEF Counted

\* An interval has one length.
LEMMA SameInterval ==
  ASSUME NEW m \in Nat, NEW n \in Nat, 1..m = 1..n PROVE m = n
OBVIOUS

\* How many requests there are does not change when one moves.
LEMMA SameLength ==
  ASSUME AnswersInv, AnswersInv', DOMAIN call' = DOMAIN call
  PROVE  Len(call') = Len(call)
<1>1. Len(call) \in Nat /\ DOMAIN call = 1..Len(call)
  BY Lengths
<1>2. Len(call') \in Nat /\ DOMAIN call' = 1..Len(call')
  BY LenProperties DEF AnswersInv, CallType
<1> QED BY <1>1, <1>2

\* The player's next request.
LEMMA SendFits ==
  ASSUME FitInv, AnswersInv', SendAny, UNCHANGED processors
  PROVE  FitInv'
<1> DEFINE n == Len(call) + 1
<1>1. /\ AnswersInv /\ CallsFit /\ BetsFit /\ Counted /\ OutsideFits
      /\ DOMAIN session = 1..Len(session) /\ Len(session) \in Nat
      /\ DOMAIN call = 1..Len(call) /\ Len(call) \in Nat /\ Len(bet) \in Nat
  BY Lengths DEF FitInv
<1>2. PICK op \in Ops, g \in Games, sid \in 0..Len(session) :
        /\ Send(op, g, sid)
        /\ \/ /\ op = "startSession" /\ sid = 0
              /\ Cardinality(StartRequests) + Len(session) < MaxSessions
           \/ op # "startSession" /\ sid \in 1..Len(session)
  <2>1. CASE /\ Cardinality(StartRequests) + Len(session) < MaxSessions
             /\ \E g \in Games : Send("startSession", g, 0)
    <3>1. 0 \in 0..Len(session)
      BY <1>1
    <3> QED BY <2>1, <3>1 DEF Ops
  <2>2. CASE \E s \in DOMAIN session, op \in Ops \ {"startSession"} : Send(op, session[s].game, s)
    <3> PICK s \in DOMAIN session, op \in Ops \ {"startSession"} : Send(op, session[s].game, s)
      BY <2>2
    <3>1. session[s].game \in Games
      BY <1>1, SessionIs DEF AnswersInv, Sessions
    <3>2. s \in 0..Len(session) /\ s \in 1..Len(session)
      BY <1>1
    <3> QED BY <3>1, <3>2
  <2> QED BY <2>1, <2>2 DEF SendAny
<1> DEFINE k == [op |-> op, game |-> g, sid |-> sid, at |-> "queued",
                 view |-> "waiting", todo |-> <<>>, bet |-> 0]
<1>3. /\ k.op = op /\ k.sid = sid /\ k.at = "queued" /\ k.todo = <<>> /\ k.bet = 0
  OBVIOUS
<1>4. /\ call' = Append(call, k) /\ Len(call) < MaxRequests
      /\ UNCHANGED <<session, bet, outlets, history>>
  BY <1>2 DEF Send, service
<1> HIDE DEF k
<1>5. /\ DOMAIN call' = DOMAIN call \cup {n} /\ n \notin DOMAIN call /\ Len(call') = n /\ call'[n] = k
      /\ \A d \in DOMAIN call : call'[d] = call[d]
  <2>1. call \in Seq(Calls)
    BY <1>1 DEF AnswersInv, CallType
  <2> QED BY <1>1, <1>4, <2>1
<1>6. CallsFit'
  <2>1. Names(k, Len(session), Len(bet))
    <3>1. 0 \in 0..Len(bet) /\ Named(k.todo) = {}
      BY <1>1, <1>3, NamedEmpty
    <3> QED BY <1>2, <1>3, <3>1 DEF Names
  <2> QED BY <1>1, <1>4, <1>5, <2>1 DEF CallsFit
<1>7. BetsFit'
  BY <1>1, <1>4 DEF BetsFit
<1>8. BetCalls' = BetCalls
  BY <1>3, <1>5 DEF BetCalls
<1>9. StartRequests' = IF op = "startSession" THEN StartRequests \cup {n} ELSE StartRequests
  BY <1>3, <1>5 DEF StartRequests
<1>10. Cardinality(StartRequests') + Len(session) <= MaxSessions
  <2>1. CASE op = "startSession"
    <3>1. Cardinality(StartRequests \cup {n}) <= Cardinality(StartRequests) + 1
          /\ Cardinality(StartRequests \cup {n}) \in Nat
      <4>1. IsFiniteSet(StartRequests) /\ Cardinality(StartRequests) \in Nat
        BY <1>1, CountsAreFinite
      <4>2. Cardinality(StartRequests \cup {n}) =
              IF n \in StartRequests THEN Cardinality(StartRequests)
                                     ELSE Cardinality(StartRequests) + 1
        BY <4>1, FS_AddElement
      <4> QED BY <4>1, <4>2
    <3>2. Cardinality(StartRequests) \in Nat
      BY <1>1, CountsAreFinite
    <3> QED BY <1>1, <1>2, <1>9, <2>1, <3>1, <3>2, FanoutAssumption
  <2>2. CASE op # "startSession"
    BY <1>1, <1>9, <2>2 DEF Counted
  <2> QED BY <2>1, <2>2
<1>11. Counted'
  BY <1>1, <1>4, <1>5, <1>8, <1>10, FanoutAssumption DEF Counted
<1>12. OutsideFits'
  BY <1>1, <1>4, OutsideStays
<1> QED BY <1>6, <1>7, <1>11, <1>12 DEF FitInv

\* Requests that publish nothing more.
LEMMA AnsweredFits ==
  ASSUME FitInv, NEW c \in DOMAIN call, NEW answer, Answered(c, answer)
  PROVE  Names(call'[c], Len(session), Len(bet))
BY NamedEmpty DEF Answered, Moves, FitInv, CallsFit, Names

\* One request moves and settles nothing.
LEMMA MoveFits ==
  ASSUME FitInv, AnswersInv', NEW c \in DOMAIN call, Moves(c), SameSessions, UNCHANGED bet,
         call'[c].bet = call[c].bet, call'[c].at # "queued" \/ call'[c].at = call[c].at,
         Names(call'[c], Len(session), Len(bet))
  PROVE  Len(session') = Len(session) /\ CallsFit' /\ BetsFit' /\ Counted'
<1>1. /\ AnswersInv /\ BetsFit /\ DOMAIN session = 1..Len(session) /\ Len(session) \in Nat
      /\ Len(bet) \in Nat
  BY Lengths DEF FitInv
<1>2. Len(session') \in Nat /\ DOMAIN session' = 1..Len(session')
  BY LenProperties DEF AnswersInv, ServiceType
<1>3. Len(session') = Len(session)
  BY <1>1, <1>2, SameInterval DEF SameSessions
<1>4. CallsFit'
  BY <1>1, <1>3, OneCallFits
<1>5. BetsFit'
  BY <1>1, <1>3 DEF BetsFit
<1>6. StartRequests' \subseteq StartRequests /\ BetCalls' = BetCalls
  BY DEF Moves, StartRequests, BetCalls
<1>7. Len(call') = Len(call)
  BY <1>1, SameLength DEF Moves
<1> QED BY <1>3, <1>4, <1>5, <1>6, <1>7, CountsStay

\* Play answers, goes on to publish, or settles a bet.
LEMMA PlayFits ==
  ASSUME FitInv, AnswersInv', NEW c \in DOMAIN call, Play(c), UNCHANGED processors
  PROVE  FitInv'
<1>1. /\ AnswersInv /\ CallsFit /\ BetsFit /\ Counted /\ OutsideFits
      /\ DOMAIN session = 1..Len(session) /\ Len(session) \in Nat
      /\ DOMAIN bet = 1..Len(bet) /\ Len(bet) \in Nat
  BY Lengths DEF FitInv
<1>2. /\ Opened(c) \/ Ended(c) \/ Checked(c) \/ Finished(c) \/ Played(c) \/ Settled(c)
      /\ UNCHANGED <<outlets, history>>
  BY <1>1, Playing
<1>3. Names(call[c], Len(session), Len(bet)) /\ Sound(call[c], faults)
  BY <1>1, CallIs DEF CallsFit
<1>4. Len(session') \in Nat /\ DOMAIN session' = 1..Len(session')
  BY LenProperties DEF AnswersInv, ServiceType
<1>5. CASE Opened(c)
  <2>1. Moves(c) /\ call'[c].todo = <<"realtime">> /\ call'[c].bet = call[c].bet
        /\ call'[c].at = "fanout" /\ call[c].op = "startSession" /\ UNCHANGED bet
        /\ Len(session') = Len(session) + 1
    BY <1>5 DEF Opened, GoesOn
  <2>2. Names(call'[c], Len(session'), Len(bet'))
    BY <1>3, <2>1, NamedEmpty DEF Names, Moves
  <2>3. CallsFit'
    BY <1>1, <2>1, <2>2, OneCallFits
  <2>4. BetsFit'
    BY <1>1, <2>1 DEF BetsFit
  <2>5. StartRequests' = StartRequests \ {c} /\ c \in StartRequests
    BY <1>5, <2>1 DEF StartRequests, Moves, Opened
  <2>6. BetCalls' = BetCalls
    BY <2>1 DEF BetCalls, Moves
  <2>7. Cardinality(StartRequests') = Cardinality(StartRequests) - 1
        /\ Cardinality(StartRequests) \in Nat
    BY <1>1, <2>5, CountsAreFinite, FS_RemoveElement
  <2>8. Len(call') = Len(call)
    BY <1>1, <2>1, SameLength DEF Moves
  <2>9. Counted'
    BY <1>1, <2>1, <2>6, <2>7, <2>8, FanoutAssumption DEF Counted
  <2>10. OutsideFits'
    BY <1>1, <1>2, <2>1, OutsideStays
  <2> QED BY <2>3, <2>4, <2>9, <2>10 DEF FitInv
<1>6. ASSUME SameSessions, UNCHANGED bet, Moves(c), call'[c].bet = call[c].bet,
             call'[c].at # "queued", Names(call'[c], Len(session), Len(bet))
      PROVE  FitInv'
  <2>1. Len(session') = Len(session) /\ CallsFit' /\ BetsFit' /\ Counted'
    BY <1>6, MoveFits
  <2>2. OutsideFits'
    BY <1>1, <1>2, <1>6, <2>1, OutsideStays
  <2> QED BY <2>1, <2>2 DEF FitInv
<1>7. CASE Ended(c)
  <2>1. /\ SameSessions /\ UNCHANGED bet /\ Moves(c) /\ call'[c].bet = call[c].bet
        /\ call'[c].at = "fanout" /\ call'[c].todo = <<"ended">> /\ call[c].op = "endSession"
    BY <1>7 DEF Ended, GoesOn
  <2>2. Names(call'[c], Len(session), Len(bet))
    BY <1>3, <2>1, NamedEmpty DEF Names, Moves
  <2> QED BY <1>6, <2>1, <2>2
<1>8. CASE Checked(c)
  <2>1. /\ SameSessions /\ UNCHANGED bet /\ Moves(c) /\ call'[c].bet = call[c].bet
        /\ call'[c].at = "checked" /\ call'[c].todo = call[c].todo /\ call[c].at = "queued"
    BY <1>8, SessionsUnmoved DEF Checked, GoesOn, service
  <2>2. Names(call'[c], Len(session), Len(bet))
    BY <1>3, <2>1 DEF Names, Moves
  <2> QED BY <1>6, <2>1, <2>2
<1>9. CASE Finished(c)
  <2> PICK answer \in {"ok", "refused"} : Answered(c, answer)
    BY <1>9 DEF Finished
  <2>1. Names(call'[c], Len(session), Len(bet))
    BY AnsweredFits
  <2> QED BY <1>6, <1>9, <2>1 DEF Finished, Answered
<1>10. CASE Played(c)
  <2>1. /\ SameSessions /\ UNCHANGED bet /\ Moves(c) /\ call'[c].bet = call[c].bet
        /\ call'[c].at = "fanout" /\ call'[c].todo = <<"realtime">> /\ call[c].op = "reveal"
    BY <1>10, SessionsUnmoved DEF Played, GoesOn, service
  <2>2. Names(call'[c], Len(session), Len(bet))
    BY <1>3, <2>1, NamedEmpty DEF Names, Moves
  <2> QED BY <1>6, <2>1, <2>2
<1>11. CASE Settled(c)
  <2> PICK how \in Outcomes, pays \in BOOLEAN, todo \in Seq(Outlets) :
             /\ bet' = Append(bet, [sid |-> call[c].sid, how |-> how, pays |-> pays])
             /\ GoesOn(c, "fanout", todo, Len(bet) + 1)
             /\ \/ call[c].op = "reveal" /\ todo = <<"realtime">>
                \/ call[c].op \in {"placeBet", "cashOut"} /\ todo = FanoutBet(pays)
    BY <1>11 DEF Settled
  <2> DEFINE b == [sid |-> call[c].sid, how |-> how, pays |-> pays]
  <2>1. /\ Moves(c) /\ call'[c].bet = Len(bet) + 1 /\ call'[c].at = "fanout"
        /\ call'[c].todo = todo /\ call[c].op \in {"reveal", "placeBet", "cashOut"}
        /\ call[c].at = "checked" /\ call[c].bet = 0 /\ SameSessions
    BY <1>3, <1>11 DEF GoesOn, Settled, Sound
  <2>2. b.sid = call[c].sid
    OBVIOUS
  <2> HIDE DEF b
  <2>3. Len(session') = Len(session)
    BY <1>1, <1>4, <2>1, SameInterval DEF SameSessions
  <2>4. /\ Len(bet') = Len(bet) + 1 /\ DOMAIN bet' = DOMAIN bet \cup {Len(bet) + 1}
        /\ bet'[Len(bet) + 1] = b /\ \A i \in DOMAIN bet : bet'[i] = bet[i]
    <3>1. bet \in Seq(Bets) /\ bet' = Append(bet, b)
      BY <1>1 DEF AnswersInv, ServiceType, b
    <3> QED BY <1>1, <3>1
  <2>5. call[c].sid \in 1..Len(session)
    BY <1>3, <2>1 DEF Names
  <2>6. Names(call'[c], Len(session'), Len(bet'))
    <3>1. Len(bet) + 1 \in 0..Len(bet') /\ Len(bet) + 1 # 0
      BY <1>1, <2>4
    <3> QED BY <2>1, <2>3, <2>5, <3>1 DEF Names, Moves
  <2>7. CallsFit'
    BY <1>1, <2>1, <2>3, <2>4, <2>6, OneCallFits
  <2>8. BetsFit'
    BY <1>1, <2>2, <2>3, <2>4, <2>5 DEF BetsFit
  <2>9. StartRequests' \subseteq StartRequests
    BY <2>1 DEF Moves, StartRequests
  <2>10. BetCalls' = BetCalls \cup {c} /\ c \notin BetCalls
    <3>1. Len(bet) + 1 # 0
      BY <1>1
    <3> QED BY <2>1, <3>1 DEF Moves, BetCalls
  <2>11. /\ Cardinality(BetCalls') = Cardinality(BetCalls) + 1 /\ Cardinality(BetCalls) \in Nat
         /\ Cardinality(StartRequests') <= Cardinality(StartRequests)
         /\ Cardinality(StartRequests') \in Nat /\ Cardinality(StartRequests) \in Nat
    BY <1>1, <2>9, <2>10, CountsAreFinite, FS_AddElement, FS_Subset, FS_CardinalityType
  <2>12. Len(call') = Len(call)
    BY <1>1, <2>1, SameLength DEF Moves
  <2>13. Counted'
    BY <1>1, <2>3, <2>4, <2>11, <2>12, FanoutAssumption DEF Counted
  <2>14. OutsideFits'
    BY <1>1, <1>2, <2>3, <2>4, OutsideStays
  <2> QED BY <2>7, <2>8, <2>13, <2>14 DEF FitInv
<1> QED BY <1>2, <1>5, <1>7, <1>8, <1>9, <1>10, <1>11

\* A request given up is as it was.
LEMMA GivingUp ==
  ASSUME AnswersInv, NEW c \in DOMAIN call, Timeout(c)
  PROVE  /\ Moves(c) /\ call'[c].at = call[c].at /\ call'[c].todo = call[c].todo
         /\ call'[c].bet = call[c].bet
         /\ call[c].view = "waiting" /\ call'[c].view = "unavailable"
<1> DEFINE k == [call[c] EXCEPT !.view = "unavailable"]
<1>1. /\ k.op = call[c].op /\ k.sid = call[c].sid /\ k.at = call[c].at /\ k.todo = call[c].todo
      /\ k.bet = call[c].bet /\ k.view = "unavailable"
  BY CallIs DEF Calls
<1>2. call' = [call EXCEPT ![c] = k] /\ call[c].view = "waiting"
  BY DEF Timeout, Waiting
<1> HIDE DEF k
<1> QED BY <1>1, <1>2, Rewriting

\* The gateway's timer only changes what the player sees.
LEMMA TimeoutFits ==
  ASSUME FitInv, AnswersInv', NEW c \in DOMAIN call, Timeout(c), UNCHANGED processors
  PROVE  FitInv'
<1>1. AnswersInv /\ OutsideFits /\ Names(call[c], Len(session), Len(bet)) /\ Len(session) \in Nat
      /\ Len(bet) \in Nat
  BY Lengths DEF FitInv, CallsFit
<1>2. UNCHANGED <<session, bet, outlets, history>> /\ SameSessions
  BY SessionsUnmoved DEF Timeout, service
<1>3. Names(call'[c], Len(session), Len(bet))
  BY <1>1, GivingUp DEF Names, Moves
<1>4. CallsFit' /\ BetsFit' /\ Counted'
  BY <1>1, <1>2, <1>3, GivingUp, MoveFits
<1>5. OutsideFits'
  BY <1>1, <1>2, OutsideStays
<1> QED BY <1>4, <1>5 DEF FitInv

\* What a restart loses.
LEMMA Losing ==
  ASSUME AnswersInv, EngineRestarts
  PROVE  /\ DOMAIN call' = DOMAIN call
         /\ \A c \in DOMAIN call :
              /\ call'[c].op = call[c].op /\ call'[c].sid = call[c].sid
              /\ call'[c].bet = call[c].bet /\ call'[c].view = call[c].view
              /\ Handled(c) => call'[c].at = "lost" /\ call'[c].todo = <<>>
              /\ ~Handled(c) => call'[c] = call[c]
<1> DEFINE lose(k) == [k EXCEPT !.at = "lost", !.todo = <<>>]
<1>1. DOMAIN call' = DOMAIN call
  BY DEF EngineRestarts
<1>2. ASSUME NEW c \in DOMAIN call
      PROVE  /\ call'[c].op = call[c].op /\ call'[c].sid = call[c].sid
             /\ call'[c].bet = call[c].bet /\ call'[c].view = call[c].view
             /\ Handled(c) => call'[c].at = "lost" /\ call'[c].todo = <<>>
             /\ ~Handled(c) => call'[c] = call[c]
  <2>1. call'[c] = IF Handled(c) THEN lose(call[c]) ELSE call[c]
    BY DEF EngineRestarts
  <2>2. /\ lose(call[c]).op = call[c].op /\ lose(call[c]).sid = call[c].sid
        /\ lose(call[c]).bet = call[c].bet /\ lose(call[c]).view = call[c].view
        /\ lose(call[c]).at = "lost" /\ lose(call[c]).todo = <<>>
    BY CallIs DEF Calls
  <2> HIDE DEF lose
  <2> QED BY <2>1, <2>2
<1> QED BY <1>1, <1>2

\* A restart of the engine loses requests and nothing else.
LEMMA RestartFits ==
  ASSUME FitInv, AnswersInv', EngineRestarts, UNCHANGED processors
  PROVE  FitInv'
<1>1. AnswersInv /\ BetsFit /\ OutsideFits /\ CallsFit /\ Len(session) \in Nat /\ Len(bet) \in Nat
  BY Lengths DEF FitInv
<1>2. UNCHANGED <<session, bet, outlets, history>>
  BY DEF EngineRestarts, service
<1>3. CallsFit'
  <2> SUFFICES ASSUME NEW c \in DOMAIN call PROVE Names(call'[c], Len(session), Len(bet))
    BY <1>1, <1>2, Losing DEF CallsFit
  <2>1. Names(call[c], Len(session), Len(bet))
    BY <1>1 DEF CallsFit
  <2>2. CASE Handled(c)
    BY <1>1, <2>1, <2>2, Losing, NamedEmpty DEF Names
  <2>3. CASE ~Handled(c)
    BY <1>1, <2>1, <2>3, Losing
  <2> QED BY <2>2, <2>3
<1>4. BetsFit'
  BY <1>1, <1>2 DEF BetsFit
<1>5. StartRequests' \subseteq StartRequests /\ BetCalls' = BetCalls /\ DOMAIN call' = DOMAIN call
  BY <1>1, Losing DEF StartRequests, BetCalls, Handled
<1>6. Counted'
  BY <1>1, <1>2, <1>5, SameLength, CountsStay
<1>7. OutsideFits'
  BY <1>1, <1>2, OutsideStays
<1> QED BY <1>3, <1>4, <1>6, <1>7 DEF FitInv

\* A publication names what exists.
LEMMA DeliverFits ==
  ASSUME FitInv, NEW c \in DOMAIN call, call[c].at = "fanout", NEW to \in Outlets,
         to \in Named(call[c].todo), Deliver(c, to), UNCHANGED <<session, bet, history, processors>>
  PROVE  OutsideFits'
<1>1. /\ AnswersInv /\ OutsideFits /\ Names(call[c], Len(session), Len(bet))
      /\ Len(session) \in Nat /\ Len(bet) \in Nat /\ DOMAIN bet = 1..Len(bet)
  BY Lengths DEF FitInv, CallsFit
<1>2. /\ call[c].bet \in 0..Len(bet) /\ \A i \in DOMAIN bet : bet[i] \in Bets
      /\ call[c].bet = 0 => to \notin {"lobby", "bus", "history"}
      /\ call[c].op \in {"placeBet", "cashOut"} => call[c].bet # 0
      /\ to \in {"history", "ended"} => call[c].sid \in 1..Len(session)
  <2>1. \A i \in DOMAIN bet : bet[i] \in Bets
    BY <1>1, ElementOfSeq DEF AnswersInv, ServiceType
  <2> QED BY <1>1, <2>1 DEF Names
<1>3. WorkersFit' /\ HistoryFits'
  BY <1>1 DEF OutsideFits, WorkersFit, HistoryFits, processors
<1>4. CASE to = "user"
  <2>1. told' \in 0..Len(bet) /\ UNCHANGED <<announced, bus, realtimeQueue, sessionQueue>>
    BY <1>1, <1>2, <1>4 DEF Deliver, TellUser, OutsideFits, ToldFit
  <2> QED BY <1>1, <1>3, <2>1 DEF OutsideFits, ToldFit, QueuesFit
<1>5. CASE to = "lobby"
  <2>1. /\ announced' = announced \cup {call[c].bet} /\ call[c].bet \in 1..Len(bet)
        /\ UNCHANGED <<told, bus, realtimeQueue, sessionQueue>>
    BY <1>1, <1>2, <1>5 DEF Deliver
  <2> QED BY <1>1, <1>3, <2>1 DEF OutsideFits, ToldFit, QueuesFit
<1>6. CASE to = "bus"
  <2>1. /\ bus' \subseteq bus \cup {call[c].bet} /\ call[c].bet \in 1..Len(bet)
        /\ UNCHANGED <<told, announced, realtimeQueue, sessionQueue>>
    BY <1>1, <1>2, <1>6 DEF Deliver
  <2> QED BY <1>1, <1>3, <2>1 DEF OutsideFits, ToldFit, QueuesFit
<1>7. CASE to = "realtime"
  <2>1. /\ realtimeQueue' = Append(realtimeQueue, RealtimeJob(c))
        /\ UNCHANGED <<told, announced, bus, sessionQueue>>
    BY <1>7 DEF Deliver
  <2>2. RealtimeJob(c) \in BetJobs(Len(bet))
    <3>1. CASE call[c].op \in {"placeBet", "cashOut"}
      <4>1. call[c].bet \in DOMAIN bet /\ call[c].bet # 0
        BY <1>1, <1>2, <3>1
      <4>2. bet[call[c].bet].pays \in BOOLEAN
        BY <1>2, <4>1 DEF Bets
      <4> QED BY <1>2, <3>1, <4>1, <4>2 DEF RealtimeJob, BetJobs
    <3>2. CASE call[c].op \notin {"placeBet", "cashOut"}
      <4>1. RealtimeJob(c) = [bet |-> call[c].bet, win |-> FALSE]
        BY <3>2 DEF RealtimeJob
      <4> QED BY <1>2, <4>1 DEF BetJobs
    <3> QED BY <3>1, <3>2
  <2>3. realtimeQueue \in Seq(BetJobs(Len(bet)))
    BY <1>1 DEF OutsideFits, QueuesFit
  <2>4. realtimeQueue' \in Seq(BetJobs(Len(bet)))
    BY <2>1, <2>2, <2>3, AppendProperties
  <2> QED BY <1>1, <1>3, <2>1, <2>4 DEF OutsideFits, ToldFit, QueuesFit
<1>8. ASSUME NEW job \in SessionJobs(Len(session), Len(bet)),
             sessionQueue' = Append(sessionQueue, job),
             UNCHANGED <<told, announced, bus, realtimeQueue>>
      PROVE  OutsideFits'
  <2>1. sessionQueue \in Seq(SessionJobs(Len(session), Len(bet)))
    BY <1>1 DEF OutsideFits, QueuesFit
  <2>2. sessionQueue' \in Seq(SessionJobs(Len(session), Len(bet)))
    BY <1>8, <2>1, AppendProperties
  <2> QED BY <1>1, <1>3, <1>8, <2>2 DEF OutsideFits, ToldFit, QueuesFit
<1>9. CASE to = "history"
  <2> DEFINE job == [name |-> "history", sid |-> call[c].sid, item |-> call[c].bet]
  <2>1. job \in SessionJobs(Len(session), Len(bet))
    BY <1>1, <1>2, <1>9 DEF SessionJobs
  <2>2. sessionQueue' = Append(sessionQueue, job) /\ UNCHANGED <<told, announced, bus, realtimeQueue>>
    BY <1>9 DEF Deliver
  <2> HIDE DEF job
  <2> QED BY <1>8, <2>1, <2>2
<1>10. CASE to = "ended"
  <2> DEFINE job == [name |-> "ended", sid |-> call[c].sid, item |-> 0]
  <2>1. job \in SessionJobs(Len(session), Len(bet))
    BY <1>1, <1>2, <1>10 DEF SessionJobs
  <2>2. sessionQueue' = Append(sessionQueue, job) /\ UNCHANGED <<told, announced, bus, realtimeQueue>>
    BY <1>10 DEF Deliver
  <2> HIDE DEF job
  <2> QED BY <1>8, <2>1, <2>2
<1> QED BY <1>4, <1>5, <1>6, <1>7, <1>9, <1>10 DEF Outlets

\* A publication made or failed, and the request goes on or ends.
LEMMA PublishFits ==
  ASSUME FitInv, AnswersInv', NEW c \in DOMAIN call, Publish(c) \/ PublishFails(c),
         UNCHANGED processors
  PROVE  FitInv'
<1>1. /\ AnswersInv /\ OutsideFits /\ Names(call[c], Len(session), Len(bet))
      /\ Len(session) \in Nat /\ Len(bet) \in Nat
  BY Lengths DEF FitInv, CallsFit
<1>2. /\ UNCHANGED <<session, bet, history>> /\ SameSessions /\ call[c].at = "fanout"
      /\ Publishes(c)
  BY SessionsUnmoved DEF Publish, PublishFails, Publishes, service
<1>3. call[c].todo \in Seq(Outlets) /\ call[c].todo # <<>>
  BY <1>1, <1>2, CallIs DEF Calls, Sound
<1>4. /\ Head(call[c].todo) \in Outlets /\ Head(call[c].todo) \in Named(call[c].todo)
      /\ Named(Tail(call[c].todo)) \subseteq Named(call[c].todo)
  BY <1>3, NamedTail
<1>5. Moves(c) /\ call'[c].bet = call[c].bet /\ call'[c].at # "queued"
      /\ Names(call'[c], Len(session), Len(bet))
  <2>1. CASE call' = GoOn(c)
    <3>1. Passed(c)
      BY <1>1, <1>2, <2>1, Passing
    <3>2. CASE Answered(c, "ok")
      BY <3>2, AnsweredFits DEF Answered
    <3>3. CASE GoesOn(c, "fanout", Tail(call[c].todo), call[c].bet)
      BY <1>1, <1>2, <1>4, <3>3 DEF GoesOn, Names, Moves
    <3> QED BY <3>1, <3>2, <3>3 DEF Passed
  <2>2. CASE call' = AfterThrow(c)
    <3> DEFINE answer == IF call[c].op = "placeBet" THEN "ok" ELSE "unavailable"
    <3>1. Answered(c, answer)
      BY <1>1, <2>2, Answering DEF AfterThrow
    <3> HIDE DEF answer
    <3> QED BY <3>1, AnsweredFits DEF Answered
  <2> QED BY <2>1, <2>2 DEF Publish, PublishFails
<1>6. CallsFit' /\ BetsFit' /\ Counted'
  BY <1>2, <1>5, MoveFits
<1>7. OutsideFits'
  <2>1. CASE Publish(c)
    BY <1>2, <1>4, <2>1, DeliverFits DEF Publish
  <2>2. CASE PublishFails(c)
    BY <1>1, <1>2, <2>2, OutsideStays DEF PublishFails
  <2> QED BY <2>1, <2>2
<1> QED BY <1>6, <1>7 DEF FitInv

---------------------------------------------------------------------------
(* Types: the workers *)

\* A step outside the engine is right when what it leaves outside is.
LEMMA QuietFits ==
  ASSUME FitInv, AnswersInv', OutsideFits', UNCHANGED <<service, call>>
  PROVE  FitInv'
BY DEF FitInv, CallsFit, BetsFit, Counted, StartRequests, BetCalls, service

\* A worker holds a job or none.
LEMMA InHand ==
  ASSUME NEW S, NEW held \in AtMostOne(S)
  PROVE  /\ held \in Seq(S) /\ (held # <<>> => held[1] \in S /\ held = <<held[1]>>)
         /\ <<>> \in AtMostOne(S) /\ \A x \in S : <<x>> \in AtMostOne(S)
<1>1. <<>> \in Seq(S) /\ \A x \in S : <<x>> \in Seq(S)
  OBVIOUS
<1>2. <<>> \in AtMostOne(S) /\ \A x \in S : <<x>> \in AtMostOne(S)
  BY DEF AtMostOne
<1>3. held = <<>> \/ \E x \in S : held = <<x>>
  BY Zenon DEF AtMostOne
<1>4. held # <<>> => held[1] \in S /\ held = <<held[1]>>
  <2> SUFFICES ASSUME NEW x \in S, held = <<x>> PROVE held[1] \in S /\ held = <<held[1]>>
    BY <1>3
  <2>1. held[1] = x
    OBVIOUS
  <2> QED BY <2>1
<1> QED BY <1>1, <1>2, <1>3, <1>4

\* The list with one more item: the item first, and as many of the others as there is
\* room for.
LEMMA WithItemIs ==
  ASSUME NEW S, NEW item \in S, NEW list \in Seq(S)
  PROVE  /\ WithItem(item, list) \in Seq(S)
         /\ Len(WithItem(item, list)) =
              IF Len(list) < HistoryLimit THEN Len(list) + 1 ELSE HistoryLimit
         /\ WithItem(item, list)[1] = item
         /\ \A i \in 1..Len(list) : i < HistoryLimit => WithItem(item, list)[i + 1] = list[i]
<1> DEFINE all == <<item>> \o list
           n == IF Len(list) < HistoryLimit THEN Len(list) + 1 ELSE HistoryLimit
<1>1. HistoryLimit \in Nat \ {0} /\ Len(list) \in Nat
  BY FanoutAssumption, LenProperties
<1>2. Min({Len(list) + 1, HistoryLimit}) = n
  <2>1. n \in {Len(list) + 1, HistoryLimit} /\ \A y \in {Len(list) + 1, HistoryLimit} : n <= y
    BY <1>1
  <2>2. \A x \in {Len(list) + 1, HistoryLimit} :
          (\A y \in {Len(list) + 1, HistoryLimit} : x <= y) => x = n
    BY <1>1
  <2> HIDE DEF n
  <2> QED BY <2>1, <2>2 DEF Min
<1>3. /\ all \in Seq(S) /\ Len(all) = Len(list) + 1 /\ all[1] = item
      /\ \A i \in 1..Len(list) : all[i + 1] = list[i]
  <2>1. <<item>> \in Seq(S) /\ Len(<<item>>) = 1 /\ <<item>>[1] = item
    OBVIOUS
  <2>2. /\ all \in Seq(S) /\ Len(all) = 1 + Len(list)
        /\ \A i \in 1..1 + Len(list) :
             all[i] = IF i <= 1 THEN <<item>>[i] ELSE list[i - 1]
    BY <2>1, ConcatProperties
  <2> HIDE DEF all
  <2> QED BY <1>1, <2>1, <2>2
<1>4. n \in 1..Len(all) /\ n \in Int /\ n <= HistoryLimit /\ (\A i \in 1..Len(list) : i < HistoryLimit => i + 1 <= n)
  BY <1>1, <1>3
<1>5. WithItem(item, list) = SubSeq(all, 1, n)
  BY <1>2 DEF WithItem
<1> HIDE DEF all
<1>6. \A i \in 1..n : all[i] \in S
  BY <1>1, <1>3, <1>4, ElementOfSeq
<1> HIDE DEF n
<1>7. /\ SubSeq(all, 1, n) \in Seq(S) /\ Len(SubSeq(all, 1, n)) = n
      /\ \A i \in 1..n : SubSeq(all, 1, n)[i] = all[i]
  BY <1>4, <1>6, SubSeqProperties
<1> QED BY <1>1, <1>3, <1>4, <1>5, <1>7 DEF n

\* The worker of the realtime queue names bets there are.
LEMMA RealtimeFits ==
  ASSUME FitInv, NEW w \in Workers, RealtimeProcessor(w)
  PROVE  OutsideFits'
<1>1. /\ OutsideFits /\ Len(bet) \in Nat
  BY Lengths DEF FitInv
<1>2. UNCHANGED <<session, bet, bus, sessionQueue, history, storing, stored, existing>>
  BY DEF RealtimeProcessor, TakeRealtime, Announce, service
<1> DEFINE J == BetJobs(Len(bet))
<1>3. publishing \in [Workers -> AtMostOne(J)] /\ realtimeQueue \in Seq(J)
  BY <1>1 DEF OutsideFits, QueuesFit, WorkersFit
<1>4. CASE TakeRealtime(w)
  <2> DEFINE job == Head(realtimeQueue)
  <2>1. job \in J /\ realtimeQueue' \in Seq(J)
    BY <1>3, <1>4, HeadTailProperties DEF TakeRealtime
  <2>2. <<job>> \in AtMostOne(J)
    BY <2>1 DEF AtMostOne
  <2>3. publishing' \in [Workers -> AtMostOne(J)]
    BY <1>3, <1>4, <2>2 DEF TakeRealtime
  <2>4. job.bet \in 0..Len(bet)
    BY <2>1 DEF BetJobs
  <2>5. told' \in 0..Len(bet) /\ UNCHANGED announced
    BY <1>1, <1>4, <2>4 DEF TakeRealtime, MayFail, TellUser, OutsideFits, ToldFit
  <2> HIDE DEF job
  <2> QED BY <1>1, <1>2, <2>1, <2>3, <2>5 DEF OutsideFits, ToldFit, QueuesFit, WorkersFit, HistoryFits
<1>5. CASE Announce(w)
  <2> DEFINE job == publishing[w][1]
  <2>1. job \in J
    BY <1>3, <1>5, InHand DEF Announce
  <2>2. UNCHANGED <<told, realtimeQueue>> /\ announced' \subseteq 1..Len(bet)
    <3>1. job.win => job.bet \in 1..Len(bet)
      BY <1>1, <2>1 DEF BetJobs
    <3>2. UNCHANGED announced \/ (job.win /\ announced' = announced \cup {job.bet})
      BY <1>5 DEF Announce, MayFail
    <3>3. UNCHANGED <<told, realtimeQueue>>
      BY <1>5 DEF Announce, MayFail
    <3> HIDE DEF job
    <3> QED BY <1>1, <3>1, <3>2, <3>3 DEF OutsideFits, ToldFit
  <2>3. publishing' \in [Workers -> AtMostOne(J)]
    BY <1>3, <1>5, InHand DEF Announce
  <2> HIDE DEF job
  <2> QED BY <1>1, <1>2, <1>3, <2>2, <2>3 DEF OutsideFits, ToldFit, QueuesFit, WorkersFit, HistoryFits
<1> QED BY <1>4, <1>5 DEF RealtimeProcessor

\* The worker of the session queue stores bets there are.
LEMMA SessionFits ==
  ASSUME FitInv, NEW w \in Workers, SessionProcessor(w)
  PROVE  OutsideFits'
<1>1. /\ OutsideFits /\ Len(bet) \in Nat
  BY Lengths DEF FitInv
<1> DEFINE J == SessionJobs(Len(session), Len(bet))
           I == 1..Len(bet)
<1>2. /\ storing \in [Workers -> AtMostOne(J)] /\ sessionQueue \in Seq(J)
      /\ stored \in [Workers -> BOOLEAN] /\ existing \in [Workers -> Seq(I)]
      /\ history \in [1..MaxSessions -> Seq(I)]
      /\ \A v \in Workers : storing[v] # <<>> /\ ~stored[v] => storing[v][1].name = "history"
  BY <1>1 DEF OutsideFits, QueuesFit, WorkersFit, HistoryFits
<1>3. <<>> \in Seq(I)
  BY EmptySeq
<1>4. UNCHANGED <<session, bet, told, announced, bus, realtimeQueue, publishing>>
  BY DEF SessionProcessor, DeleteHistory, ReadHistory, WriteHistory, SessionJobFails, Complete,
         Take, service, outlets
<1>5. ASSUME storing' \in [Workers -> AtMostOne(J)], sessionQueue' \in Seq(J),
             stored' \in [Workers -> BOOLEAN], existing' \in [Workers -> Seq(I)],
             history' \in [1..MaxSessions -> Seq(I)],
             \A v \in Workers : storing'[v] # <<>> /\ ~stored'[v] => storing'[v][1].name = "history"
      PROVE  OutsideFits'
  BY <1>1, <1>4, <1>5 DEF OutsideFits, ToldFit, QueuesFit, WorkersFit, HistoryFits
<1>6. ASSUME Take(w)
      PROVE  storing' \in [Workers -> AtMostOne(J)] /\ sessionQueue' \in Seq(J)
  <2>1. Head(sessionQueue) \in J /\ Tail(sessionQueue) \in Seq(J)
    BY <1>2, <1>6, HeadTailProperties DEF Take
  <2>2. <<Head(sessionQueue)>> \in AtMostOne(J)
    BY <2>1 DEF AtMostOne
  <2> QED BY <1>2, <1>6, <2>1, <2>2 DEF Take
<1>7. CASE DeleteHistory(w)
  <2>1. stored' \in [Workers -> BOOLEAN] /\ UNCHANGED existing /\ history' \in [1..MaxSessions -> Seq(I)]
    BY <1>2, <1>3, <1>7 DEF DeleteHistory
  <2>2. \A v \in Workers : storing'[v] # <<>> /\ ~stored'[v] => storing'[v][1].name = "history"
    BY <1>2, <1>7 DEF DeleteHistory, Take
  <2> QED BY <1>2, <1>5, <1>6, <1>7, <2>1, <2>2 DEF DeleteHistory
<1>8. CASE ReadHistory(w)
  <2>1. Head(sessionQueue).sid \in 1..MaxSessions
    <3>1. Head(sessionQueue) \in J
      BY <1>2, <1>8, HeadTailProperties DEF ReadHistory, Take
    <3>2. Len(session) <= MaxSessions /\ Len(session) \in Nat
      <4>1. AnswersInv /\ Counted
        BY DEF FitInv
      <4>2. Len(session) \in Nat /\ Cardinality(StartRequests) \in Nat
        BY <4>1, Lengths, CountsAreFinite
      <4> QED BY <4>1, <4>2, FanoutAssumption DEF Counted
    <3>3. Head(sessionQueue).sid \in 1..Len(session)
      BY <3>1 DEF SessionJobs
    <3> QED BY <3>2, <3>3, FanoutAssumption
  <2>2. stored' \in [Workers -> BOOLEAN] /\ UNCHANGED history /\ existing' \in [Workers -> Seq(I)]
    BY <1>2, <1>8, <2>1 DEF ReadHistory
  <2>3. \A v \in Workers : storing'[v] # <<>> /\ ~stored'[v] => storing'[v][1].name = "history"
    BY <1>2, <1>8 DEF ReadHistory, Take
  <2> QED BY <1>2, <1>5, <1>6, <1>8, <2>2, <2>3 DEF ReadHistory
<1>9. CASE WriteHistory(w)
  <2> DEFINE job == storing[w][1]
             list == WithItem(job.item, existing[w])
  <2>1. job \in J /\ job.name = "history"
    BY <1>2, <1>9, InHand DEF WriteHistory
  <2>2. job.item \in I
    BY <1>1, <2>1 DEF SessionJobs
  <2>3. list \in Seq(I)
    BY <1>2, <2>2, WithItemIs
  <2>4. /\ history' = [history EXCEPT ![job.sid] = list]
        /\ existing' = [existing EXCEPT ![w] = <<>>] /\ stored' = [stored EXCEPT ![w] = TRUE]
        /\ UNCHANGED <<storing, sessionQueue>>
    BY <1>9 DEF WriteHistory, outlets
  <2> HIDE DEF job, list
  <2>5. history' \in [1..MaxSessions -> Seq(I)] /\ existing' \in [Workers -> Seq(I)]
        /\ stored' \in [Workers -> BOOLEAN]
    BY <1>2, <1>3, <2>3, <2>4
  <2>6. \A v \in Workers : storing'[v] # <<>> /\ ~stored'[v] => storing'[v][1].name = "history"
    BY <1>2, <2>4
  <2> QED BY <1>2, <1>5, <2>4, <2>5, <2>6
<1>10. CASE Complete(w)
  <2>1. /\ storing' = [storing EXCEPT ![w] = <<>>]
        /\ UNCHANGED <<sessionQueue, history, stored, existing>>
    BY <1>10 DEF Complete, outlets
  <2>2. storing' \in [Workers -> AtMostOne(J)]
    BY <1>2, <2>1 DEF AtMostOne
  <2>3. \A v \in Workers : storing'[v] # <<>> /\ ~stored'[v] => storing'[v][1].name = "history"
    BY <1>2, <2>1
  <2> QED BY <1>2, <1>5, <2>1, <2>2, <2>3
<1>11. CASE SessionJobFails(w)
  <2>1. UNCHANGED <<history, stored>>
    BY <1>11 DEF SessionJobFails
  <2>2. CASE sessionQueue # <<>> /\ sessionQueue' = Tail(sessionQueue) /\ UNCHANGED <<storing, existing>>
    <3>1. sessionQueue' \in Seq(J)
      BY <1>2, <2>2, HeadTailProperties
    <3> QED BY <1>2, <1>5, <2>1, <2>2, <3>1
  <2>3. CASE /\ storing' = [storing EXCEPT ![w] = <<>>] /\ existing' = [existing EXCEPT ![w] = <<>>]
             /\ UNCHANGED sessionQueue
    <3>1. storing' \in [Workers -> AtMostOne(J)] /\ existing' \in [Workers -> Seq(I)]
      BY <1>2, <1>3, <2>3 DEF AtMostOne
    <3>2. \A v \in Workers : storing'[v] # <<>> /\ ~stored'[v] => storing'[v][1].name = "history"
      BY <1>2, <2>1, <2>3
    <3> QED BY <1>2, <1>5, <2>1, <2>3, <3>1, <3>2
  <2> QED BY <1>11, <2>2, <2>3 DEF SessionJobFails
<1> QED BY <1>7, <1>8, <1>9, <1>10, <1>11 DEF SessionProcessor

\* The jobs a dead worker held go back to the head of their queues.
LEMMA WorkerRestartFits ==
  ASSUME FitInv, NEW w \in Workers, WorkerRestarts(w)
  PROVE  OutsideFits'
<1>1. OutsideFits
  BY DEF FitInv
<1> DEFINE R == BetJobs(Len(bet))
           J == SessionJobs(Len(session), Len(bet))
           I == 1..Len(bet)
<1>2. /\ publishing \in [Workers -> AtMostOne(R)] /\ realtimeQueue \in Seq(R)
      /\ storing \in [Workers -> AtMostOne(J)] /\ sessionQueue \in Seq(J)
      /\ existing \in [Workers -> Seq(I)] /\ stored \in [Workers -> BOOLEAN]
      /\ \A v \in Workers : storing[v] # <<>> /\ ~stored[v] => storing[v][1].name = "history"
  BY <1>1 DEF OutsideFits, QueuesFit, WorkersFit
<1>3. publishing[w] \in Seq(R) /\ storing[w] \in Seq(J) /\ <<>> \in Seq(I)
  BY <1>2, InHand, EmptySeq
<1>4. /\ realtimeQueue' = publishing[w] \o realtimeQueue
      /\ sessionQueue' = storing[w] \o sessionQueue
      /\ publishing' = [publishing EXCEPT ![w] = <<>>] /\ storing' = [storing EXCEPT ![w] = <<>>]
      /\ existing' = [existing EXCEPT ![w] = <<>>] /\ bus' \subseteq bus
      /\ UNCHANGED <<session, bet, told, announced, history, stored>>
  BY DEF WorkerRestarts, service
<1>5. realtimeQueue' \in Seq(R) /\ sessionQueue' \in Seq(J)
  BY <1>2, <1>3, <1>4, ConcatProperties
<1>6. publishing' \in [Workers -> AtMostOne(R)] /\ storing' \in [Workers -> AtMostOne(J)]
  BY <1>2, <1>4 DEF AtMostOne
<1>7. existing' \in [Workers -> Seq(I)] /\ stored' \in [Workers -> BOOLEAN]
      /\ \A v \in Workers : storing'[v] # <<>> /\ ~stored'[v] => storing'[v][1].name = "history"
  BY <1>2, <1>3, <1>4
<1> QED BY <1>1, <1>4, <1>5, <1>6, <1>7
        DEF OutsideFits, ToldFit, QueuesFit, WorkersFit, HistoryFits

\* An event consumed, a history expired.
LEMMA OthersFit ==
  ASSUME FitInv, \/ \E i \in bus : OnBetSettled(i)
                 \/ \E s \in DOMAIN history : HistoryExpires(s)
  PROVE  OutsideFits'
<1>1. OutsideFits
  BY DEF FitInv
<1>2. ASSUME NEW i \in bus, OnBetSettled(i) PROVE OutsideFits'
  <2>1. /\ bus' = bus \ {i} /\ told' = told /\ announced' \subseteq announced \cup {i}
        /\ UNCHANGED <<session, bet, realtimeQueue, sessionQueue, history, processors>>
    BY <1>2 DEF OnBetSettled, MayFail, service
  <2> QED BY <1>1, <2>1
          DEF OutsideFits, ToldFit, QueuesFit, WorkersFit, HistoryFits, processors
<1>3. ASSUME NEW s \in DOMAIN history, HistoryExpires(s) PROVE OutsideFits'
  <2>1. /\ history' = [history EXCEPT ![s] = <<>>]
        /\ UNCHANGED <<session, bet, outlets, processors>>
    BY <1>3 DEF HistoryExpires, service
  <2>2. <<>> \in Seq(1..Len(bet))
    BY EmptySeq
  <2> QED BY <1>1, <2>1, <2>2
          DEF OutsideFits, ToldFit, QueuesFit, WorkersFit, HistoryFits, processors, outlets
<1> QED BY <1>2, <1>3

\* FitInv is inductive.
LEMMA NextFits == ASSUME FitInv, [Next]_vars PROVE FitInv'
<1>1. AnswersInv /\ AnswersInv' /\ OutsideFits
  BY NextKeeps DEF FitInv
<1>2. ASSUME Engine, UNCHANGED processors PROVE FitInv'
  BY <1>1, <1>2, SendFits, TimeoutFits, PlayFits, PublishFits, RestartFits DEF Engine, Handler
<1>3. ASSUME NEW w \in Workers, RealtimeProcessor(w) \/ SessionProcessor(w) \/ WorkerRestarts(w)
      PROVE  FitInv'
  <2>1. UNCHANGED <<service, call>>
    BY <1>1, <1>3, WorkersAreQuiet
  <2>2. OutsideFits'
    BY <1>3, RealtimeFits, SessionFits, WorkerRestartFits
  <2> QED BY <1>1, <2>1, <2>2, QuietFits
<1>4. ASSUME \/ \E i \in bus : OnBetSettled(i)
             \/ \E s \in DOMAIN history : HistoryExpires(s)
      PROVE  FitInv'
  <2>1. UNCHANGED <<service, call>> /\ OutsideFits'
    BY <1>1, <1>4, OthersAreQuiet, OthersFit
  <2> QED BY <1>1, <2>1, QuietFits
<1>5. CASE UNCHANGED vars
  <2>1. OutsideFits' /\ UNCHANGED <<service, call>>
    BY <1>1, <1>5 DEF vars, OutsideFits, ToldFit, QueuesFit, WorkersFit, HistoryFits, service,
                      outlets, processors
  <2> QED BY <1>1, <2>1, QuietFits
<1> QED BY <1>2, <1>3, <1>4, <1>5 DEF Next

\* The player comes with what he was told, and nothing on its way.
LEMMA InitFits == ASSUME Init PROVE FitInv
<1>1. AnswersInv
  BY InitKeeps
<1>2. /\ call = <<>> /\ DOMAIN call = {} /\ bus = {} /\ realtimeQueue = <<>> /\ sessionQueue = <<>>
      /\ publishing = [w \in Workers |-> <<>>] /\ storing = [w \in Workers |-> <<>>]
      /\ stored = [w \in Workers |-> FALSE] /\ existing = [w \in Workers |-> <<>>]
  BY EmptySeq DEF Init, InitEngine, InitWorker
<1>3. PICK atFirst, wins : /\ Comes(atFirst, wins)
                           /\ \/ atFirst = <<>> /\ wins = <<>>
                              \/ /\ \E g \in Games, b \in BOOLEAN : atFirst = OpenSession(g, b)
                                 /\ wins \in {<<>>, EarlierWin}
  <2>1. FALSE \in BOOLEAN /\ TRUE \in BOOLEAN
    OBVIOUS
  <2> QED BY <2>1 DEF Init, InitEngine
<1>4. /\ Len(EarlierWin) = 1 /\ DOMAIN EarlierWin = 1..1 /\ EarlierWin[1].sid = 1
      /\ Len(<<>>) = 0 /\ DOMAIN <<>> = 1..0
  BY EmptySeq DEF EarlierWin
<1>5. \A g, b : Len(OpenSession(g, b)) = 1
  BY DEF OpenSession
<1>6. /\ Len(session) <= 1 /\ Len(bet) <= 1 /\ Len(bet) <= Len(session)
      /\ Len(session) \in Nat /\ Len(bet) \in Nat
      /\ DOMAIN bet = 1..Len(bet) /\ \A i \in DOMAIN bet : bet[i].sid = 1
  <2>1. session = atFirst /\ bet = wins
    BY <1>3 DEF Comes
  <2>2. Len(session) \in {0, 1} /\ (wins # <<>> => Len(session) = 1)
    BY <1>3, <1>4, <1>5, <2>1
  <2>3. CASE wins = <<>>
    <3>1. DOMAIN bet = {} /\ Len(bet) = 0 /\ 1..0 = {}
      BY <1>4, <2>1, <2>3
    <3>2. Len(session) <= 1 /\ Len(bet) <= 1 /\ Len(bet) <= Len(session)
      <4>1. \A m \in {0, 1} : m <= 1 /\ 0 <= 1 /\ 0 <= m
        OBVIOUS
      <4> QED BY <2>2, <3>1, <4>1, Zenon
    <3> QED BY <2>2, <3>1, <3>2
  <2>4. CASE wins = EarlierWin
    <3>1. 1..1 = {1} /\ wins # <<>>
      BY <1>4, <2>4
    <3>2. DOMAIN bet = 1..1 /\ Len(bet) = 1 /\ bet[1].sid = 1 /\ Len(session) = 1
      BY <1>4, <2>1, <2>2, <2>4, <3>1
    <3>3. \A i \in DOMAIN bet : bet[i].sid = 1
      BY <3>1, <3>2
    <3> QED BY <3>2, <3>3
  <2> QED BY <1>3, <2>3, <2>4
<1>7. CallsFit
  BY <1>2 DEF CallsFit
<1>8. BetsFit
  BY <1>6 DEF BetsFit
<1>9. Counted
  <2>1. StartRequests = {} /\ BetCalls = {} /\ Len(call) = 0
    BY <1>2, EmptySeq DEF StartRequests, BetCalls
  <2>2. Cardinality({}) = 0
    BY FS_EmptySet
  <2> QED BY <1>6, <2>1, <2>2, FanoutAssumption DEF Counted
<1>10. OutsideFits
  <2>1. /\ told = Len(bet) /\ announced = DOMAIN bet
        /\ history = [s \in 1..MaxSessions |-> IF s = 1 THEN [i \in DOMAIN bet |-> i] ELSE <<>>]
    BY <1>3 DEF Comes
  <2>2. ToldFit
    BY <1>2, <1>6, <2>1 DEF ToldFit
  <2>3. QueuesFit
    BY <1>2, EmptySeq DEF QueuesFit
  <2>4. WorkersFit
    <3>1. \A S : <<>> \in AtMostOne(S)
      BY DEF AtMostOne
    <3> QED BY <1>2, <3>1, EmptySeq DEF WorkersFit
  <2>5. HistoryFits
    <3>1. [i \in DOMAIN bet |-> i] \in Seq(1..Len(bet))
      <4>1. [i \in DOMAIN bet |-> i] \in [1..Len(bet) -> 1..Len(bet)]
        BY <1>6
      <4> QED BY <1>6, <4>1, SeqDef
    <3>2. <<>> \in Seq(1..Len(bet))
      BY EmptySeq
    <3> QED BY <2>1, <3>1, <3>2 DEF HistoryFits
  <2> QED BY <2>2, <2>3, <2>4, <2>5 DEF OutsideFits
<1> QED BY <1>1, <1>7, <1>8, <1>9, <1>10 DEF FitInv

\* Sessions and bets stay within their bounds.
LEMMA WithinBounds ==
  ASSUME FitInv
  PROVE  /\ Len(session) \in Nat /\ Len(session) <= MaxSessions
         /\ Len(bet) \in Nat /\ Len(bet) <= MaxBets /\ MaxSessions \in Nat /\ MaxBets \in Nat
<1>1. AnswersInv /\ Counted
  BY DEF FitInv
<1>2. /\ Len(session) \in Nat /\ Len(bet) \in Nat /\ Cardinality(StartRequests) \in Nat
      /\ Cardinality(BetCalls) \in Nat /\ Cardinality(BetCalls) <= Len(call) /\ Len(call) \in Nat
  BY <1>1, Lengths, CountsAreFinite
<1> QED BY <1>1, <1>2, FanoutAssumption DEF Counted, MaxBets

\* What fits is of its type.
LEMMA FitIsTyped == ASSUME FitInv PROVE TypeOK
<1>1. /\ AnswersInv /\ CallsFit /\ BetsFit /\ OutsideFits
      /\ DOMAIN session = 1..Len(session) /\ DOMAIN bet = 1..Len(bet)
  BY Lengths DEF FitInv
<1>2. \A s \in DOMAIN session : session[s] \in [game : Games, open : BOOLEAN, round : BOOLEAN]
  BY <1>1, SessionIs DEF AnswersInv, Sessions
<1>3. \A c \in DOMAIN call :
       /\ call[c].sid \in {0} \cup DOMAIN session /\ call[c].bet \in 0..Len(bet)
       /\ call[c].at \in {"queued", "checked", "fanout", "replied", "lost"}
       /\ call[c].view \in {"waiting", "ok", "refused", "unavailable"}
       /\ "history" \in Range(call[c].todo) => call[c].bet # 0
  <2> TAKE c \in DOMAIN call
  <2>1. Names(call[c], Len(session), Len(bet)) /\ call[c] \in Calls
    BY <1>1, CallIs DEF CallsFit
  <2>2. "history" \in Range(call[c].todo) => call[c].bet # 0
    <3>1. Range(call[c].todo) = Named(call[c].todo)
      BY DEF Range, Named
    <3> QED BY <2>1, <3>1 DEF Names
  <2> QED BY <1>1, <2>1, <2>2 DEF Names, Calls, Stages, Views
<1>4. /\ BetJobs(Len(bet)) \subseteq RealtimeJobs /\ SessionJobs(Len(session), Len(bet)) \subseteq Jobs
  <2>1. 0..Len(bet) \subseteq 0..MaxBets /\ 1..Len(session) \subseteq 1..MaxSessions
    BY WithinBounds
  <2> QED BY <2>1 DEF BetJobs, SessionJobs, RealtimeJobs, Jobs
<1>5. realtimeQueue \in Seq(RealtimeJobs) /\ sessionQueue \in Seq(Jobs)
  BY <1>1, <1>4, SeqMonotonic DEF OutsideFits, QueuesFit
<1>6. \A w \in Workers : publishing[w] \in AtMostOne(RealtimeJobs) /\ storing[w] \in AtMostOne(Jobs)
  <2>1. \A S, T : S \subseteq T => AtMostOne(S) \subseteq AtMostOne(T)
    BY DEF AtMostOne
  <2>2. /\ AtMostOne(BetJobs(Len(bet))) \subseteq AtMostOne(RealtimeJobs)
        /\ AtMostOne(SessionJobs(Len(session), Len(bet))) \subseteq AtMostOne(Jobs)
    BY <1>4, <2>1
  <2> QED BY <1>1, <2>2 DEF OutsideFits, WorkersFit
<1>7. \A s \in 1..MaxSessions : Range(history[s]) \subseteq DOMAIN bet
  <2> TAKE s \in 1..MaxSessions
  <2>1. history[s] \in Seq(1..Len(bet))
    BY <1>1 DEF OutsideFits, HistoryFits
  <2>2. DOMAIN history[s] = 1..Len(history[s]) /\ \A i \in 1..Len(history[s]) : history[s][i] \in 1..Len(bet)
    BY <2>1, LenProperties, ElementOfSeq
  <2> QED BY <1>1, <2>2 DEF Range
<1>8. told \in 0..Len(bet) /\ announced \subseteq DOMAIN bet /\ bus \subseteq DOMAIN bet
  BY <1>1 DEF OutsideFits, ToldFit
<1>9. \A k \in FaultKinds : faults[k] \in Nat
  BY <1>1 DEF AnswersInv, FaultType
<1>10. \A i \in DOMAIN bet : bet[i].sid \in DOMAIN session
  BY <1>1 DEF BetsFit
<1> QED BY <1>2, <1>3, <1>5, <1>6, <1>7, <1>8, <1>9, <1>10 DEF TypeOK

\* Whatever is sent, published, queued or kept names a session and a bet there are, and the
\* bounds on requests bound both: a request opens one session or settles one bet at most.
THEOREM FanoutTypeCorrect == Spec => []TypeOK
<1>1. Init => FitInv
  BY InitFits
<1>2. FitInv /\ [Next]_vars => FitInv'
  BY NextFits
<1>3. FitInv => TypeOK
  BY FitIsTyped
<1> QED BY <1>1, <1>2, <1>3, PTL DEF Spec

---------------------------------------------------------------------------
(* One request and one worker at a time                                     *)

\* The player has one request under way, and there is one worker.  Two requests may be
\* published in either order, and so may what two workers hold.
OneAtATime == Tabs <= 1 /\ \A v, w \in Workers : v = w

\* The player waits for one request, and a handler works for a player who waits.
Alone ==
  /\ \A c, d \in Waiting : c = d
  /\ Unharmed({"timeout"}) => \A c \in DOMAIN call : Handled(c) => c \in Waiting

\* A step of one request that begins no wait.
LEMMA AloneStays ==
  ASSUME Alone, FaultType, FaultsGrow, NEW c \in DOMAIN call, Moves(c), Handled(c),
         call'[c].view = "waiting" => call[c].view = "waiting",
         call'[c].at # "replied" => call'[c].view = call[c].view
  PROVE  Alone'
<1>1. Waiting' \subseteq Waiting
  BY DEF Waiting, Moves
<1>2. Unharmed({"timeout"})' => Unharmed({"timeout"})
  BY DEF Unharmed, FaultsGrow, FaultType, FaultKinds
<1>3. \A d \in DOMAIN call : Handled(d)' => Handled(d) /\ call'[d].view = call[d].view
  BY DEF Handled, Moves
<1> QED BY <1>1, <1>2, <1>3 DEF Alone, Waiting, Moves

\* Alone is inductive when the player has one tab.
LEMMA AloneKeeps ==
  ASSUME OneAtATime, AnswersInv, Alone, [Next]_vars
  PROVE  Alone'
<1>1. FaultType /\ DOMAIN call = 1..Len(call) /\ Len(call) \in Nat
  BY Lengths DEF AnswersInv
<1>2. ASSUME UNCHANGED call, FaultsGrow PROVE Alone'
  <2>1. Unharmed({"timeout"})' => Unharmed({"timeout"})
    BY <1>1, <1>2 DEF Unharmed, FaultsGrow, FaultType, FaultKinds
  <2> QED BY <1>2, <2>1 DEF Alone, Waiting, Handled
<1>3. ASSUME NEW op, NEW g, NEW sid, Send(op, g, sid) PROVE Alone'
  <2>1. Waiting = {}
    <3>1. IsFiniteSet(Waiting) /\ Cardinality(Waiting) \in Nat
      <4>1. IsFiniteSet(DOMAIN call)
        BY CountsAreFinite
      <4> QED BY <4>1, FS_Subset, FS_CardinalityType DEF Waiting
    <3>2. Cardinality(Waiting) = 0
      BY <1>3, <3>1, FanoutAssumption DEF Send, OneAtATime
    <3> QED BY <3>1, <3>2, FS_EmptySet
  <2> DEFINE k == [op |-> op, game |-> g, sid |-> sid, at |-> "queued",
                   view |-> "waiting", todo |-> <<>>, bet |-> 0]
             n == Len(call) + 1
  <2>2. k.at = "queued" /\ k.view = "waiting" /\ call' = Append(call, k) /\ UNCHANGED faults
    BY <1>3 DEF Send
  <2> HIDE DEF k
  <2>3. /\ DOMAIN call' = DOMAIN call \cup {n} /\ call'[n] = k
        /\ \A d \in DOMAIN call : call'[d] = call[d]
    BY <1>1, <2>2 DEF AnswersInv, CallType
  <2>4. Waiting' = {n}
    BY <2>1, <2>2, <2>3 DEF Waiting
  <2>5. Unharmed({"timeout"})' => \A d \in DOMAIN call : ~Handled(d)
    BY <2>1, <2>2 DEF Unharmed, Alone
  <2> QED BY <2>3, <2>4, <2>5 DEF Alone, Handled
<1>4. ASSUME NEW c \in DOMAIN call, Timeout(c) PROVE Alone'
  <2>1. Moves(c) /\ call'[c].at = call[c].at /\ call'[c].view = "unavailable"
    BY <1>4, GivingUp
  <2>2. Waiting' \subseteq Waiting \ {c}
    BY <2>1 DEF Waiting, Moves
  <2>3. CASE call[c].at = "lost"
    BY <1>4, <2>1, <2>2, <2>3 DEF Alone, Unharmed, Handled, Moves, Timeout, Waiting
  <2>4. CASE call[c].at # "lost"
    <3>1. faults'["timeout"] > 0
      BY <1>1, <1>4, <2>4, FaultCounts DEF Timeout, FaultKinds
    <3> QED BY <2>2, <3>1 DEF Alone, Unharmed
  <2> QED BY <2>3, <2>4
<1>5. ASSUME NEW c \in DOMAIN call, Play(c) PROVE Alone'
  <2>1. FaultsGrow
    BY <1>1, <1>5, NoFault DEF Play
  <2>2. Opened(c) \/ Ended(c) \/ Checked(c) \/ Finished(c) \/ Played(c) \/ Settled(c)
    BY <1>5, Playing
  <2>3. Moves(c) /\ Handled(c) /\ (call'[c].view = "waiting" => call[c].view = "waiting")
        /\ (call'[c].at # "replied" => call'[c].view = call[c].view)
    BY <2>2 DEF Opened, Ended, Checked, Finished, Played, Settled, GoesOn, Answered, Handled
  <2> QED BY <1>1, <2>1, <2>3, AloneStays
<1>6. ASSUME NEW c \in DOMAIN call, Publish(c) \/ PublishFails(c) PROVE Alone'
  <2>1. FaultsGrow /\ Publishes(c)
    BY <1>1, <1>6, NoFault, FaultCounts DEF Publish, PublishFails, FaultKinds
  <2>2. CASE call' = GoOn(c)
    <3>1. Passed(c)
      BY <2>1, <2>2, Passing
    <3> QED BY <1>1, <2>1, <3>1, AloneStays DEF Passed, GoesOn, Answered, Handled, Publishes
  <2>3. CASE call' = AfterThrow(c)
    <3> DEFINE answer == IF call[c].op = "placeBet" THEN "ok" ELSE "unavailable"
    <3>1. Answered(c, answer)
      BY <2>3, Answering DEF AfterThrow
    <3> QED BY <1>1, <2>1, <3>1, AloneStays DEF Answered, Handled, Publishes
  <2> QED BY <1>6, <2>2, <2>3 DEF Publish, PublishFails
<1>7. ASSUME EngineRestarts PROVE Alone'
  <2>1. Waiting' = Waiting /\ \A c \in DOMAIN call : ~(call'[c].at \in {"queued", "checked", "fanout"})
    BY <1>7, Losing DEF Waiting, Handled
  <2> QED BY <1>7, <2>1, Losing DEF Alone, Handled
<1>8. ASSUME NEW w \in Workers, RealtimeProcessor(w) \/ SessionProcessor(w) \/ WorkerRestarts(w)
      PROVE  Alone'
  BY <1>2, <1>8, WorkersAreQuiet
<1>9. ASSUME \/ \E i \in bus : OnBetSettled(i)
             \/ \E s \in DOMAIN history : HistoryExpires(s)
      PROVE  Alone'
  BY <1>2, <1>9, OthersAreQuiet
<1>10. CASE UNCHANGED vars
  BY <1>1, <1>2, <1>10, NoFault DEF vars
<1>11. SendAny => Alone'
  BY <1>3 DEF SendAny
<1>12. CASE Engine
  BY <1>4, <1>5, <1>6, <1>7, <1>11, <1>12 DEF Engine, Handler
<1> QED BY <1>8, <1>9, <1>10, <1>12 DEF Next

---------------------------------------------------------------------------
(* Queues *)

\* Some element of a queue is one of them; each early one has a late one behind it.
Holds(q, some) == \E n \in DOMAIN q : q[n] \in some
Followed(q, early, late) ==
  \A n \in DOMAIN q : q[n] \in early => \E m \in DOMAIN q : n < m /\ q[m] \in late

\* A queue with one more at its end.
LEMMA Queued ==
  ASSUME NEW S, NEW q \in Seq(S), NEW x \in S, NEW early, NEW late, x \notin early
  PROVE  /\ Followed(q, early, late) \/ x \in late => Followed(Append(q, x), early, late)
         /\ Holds(q, late) \/ x \in late => Holds(Append(q, x), late)
<1> DEFINE n == Len(q) + 1
           r == Append(q, x)
<1>1. /\ DOMAIN q = 1..Len(q) /\ Len(q) \in Nat /\ DOMAIN r = DOMAIN q \cup {n} /\ r[n] = x
      /\ \A i \in DOMAIN q : r[i] = q[i] /\ i < n
  OBVIOUS
<1> HIDE DEF r, n
<1>2. x \in late => Followed(r, early, late) /\ Holds(r, late)
  BY <1>1 DEF Followed, Holds
<1>3. Followed(q, early, late) => Followed(r, early, late)
  BY <1>1 DEF Followed
<1>4. Holds(q, late) => Holds(r, late)
  BY <1>1 DEF Holds
<1> QED BY <1>2, <1>3, <1>4 DEF r

\* A queue without its head.
LEMMA Dequeued ==
  ASSUME NEW S, NEW q \in Seq(S), q # <<>>, NEW early, NEW late, Followed(q, early, late)
  PROVE  /\ Followed(Tail(q), early, late)
         /\ Head(q) \in early => Holds(Tail(q), late)
         /\ Holds(q, late) /\ Head(q) \notin late => Holds(Tail(q), late)
<1> DEFINE r == Tail(q)
<1>1. /\ r \in Seq(S) /\ Len(r) = Len(q) - 1 /\ Head(q) = q[1]
      /\ \A i \in 1..Len(r) : r[i] = q[i + 1]
  BY HeadTailProperties
<1>2. /\ DOMAIN q = 1..Len(q) /\ Len(q) \in Nat \ {0} /\ DOMAIN r = 1..Len(r)
  BY <1>1, LenProperties, EmptySeq
<1> HIDE DEF r
<1>3. \A m \in DOMAIN q : 1 < m => m - 1 \in DOMAIN r /\ r[m - 1] = q[m]
  BY <1>1, <1>2
<1>4. \A i \in DOMAIN r : i + 1 \in DOMAIN q /\ r[i] = q[i + 1]
  BY <1>1, <1>2
<1>5. Followed(r, early, late)
  <2> SUFFICES ASSUME NEW i \in DOMAIN r, r[i] \in early
               PROVE  \E m \in DOMAIN r : i < m /\ r[m] \in late
    BY DEF Followed
  <2> PICK m \in DOMAIN q : i + 1 < m /\ q[m] \in late
    BY <1>4 DEF Followed
  <2>1. i < m - 1 /\ 1 < m
    BY <1>2
  <2> QED BY <1>3, <2>1
<1>6. q[1] \in early => Holds(r, late)
  <2> SUFFICES ASSUME q[1] \in early PROVE Holds(r, late)
    OBVIOUS
  <2>1. 1 \in DOMAIN q
    BY <1>2
  <2> PICK m \in DOMAIN q : 1 < m /\ q[m] \in late
    BY <2>1 DEF Followed
  <2> QED BY <1>3 DEF Holds
<1>7. Holds(q, late) /\ q[1] \notin late => Holds(r, late)
  <2>1. \A m \in DOMAIN q : m = 1 \/ 1 < m
    BY <1>2
  <2> QED BY <1>3, <2>1 DEF Holds
<1> QED BY <1>1, <1>5, <1>6, <1>7 DEF r

\* A queue that gets back what was taken from its head.
LEMMA PutBack ==
  ASSUME NEW S, NEW q \in Seq(S), NEW held \in AtMostOne(S), NEW early, NEW late,
         Followed(q, early, late), Holds(held, early) => Holds(q, late)
  PROVE  /\ Followed(held \o q, early, late)
         /\ Holds(q, late) => Holds(held \o q, late)
<1> DEFINE r == held \o q
<1>1. CASE held = <<>>
  <2>1. r = q
    BY <1>1, ConcatEmptySeq
  <2> HIDE DEF r
  <2> QED BY <2>1 DEF r
<1>2. CASE held # <<>>
  <2>1. PICK x \in S : held = <<x>>
    BY <1>2, InHand
  <2>2. /\ held \in Seq(S) /\ Len(held) = 1 /\ DOMAIN held = {1} /\ held[1] = x
    BY <2>1
  <2>3. /\ r \in Seq(S) /\ Len(r) = 1 + Len(q)
        /\ \A i \in 1..1 + Len(q) : r[i] = IF i <= 1 THEN held[i] ELSE q[i - 1]
    <3>1. /\ r \in Seq(S) /\ Len(r) = Len(held) + Len(q)
          /\ \A i \in 1..Len(held) + Len(q) :
               r[i] = IF i <= Len(held) THEN held[i] ELSE q[i - Len(held)]
      BY <2>2, ConcatProperties
    <3> HIDE DEF r
    <3> QED BY <2>2, <3>1
  <2>4. DOMAIN r = 1..Len(r) /\ DOMAIN q = 1..Len(q) /\ Len(q) \in Nat
    BY <2>3, LenProperties
  <2> HIDE DEF r
  <2>5. /\ \A i \in DOMAIN q : i + 1 \in DOMAIN r /\ r[i + 1] = q[i] /\ 1 < i + 1
        /\ \A i \in DOMAIN r : i = 1 \/ (i - 1 \in DOMAIN q /\ r[i] = q[i - 1])
        /\ r[1] = x
    BY <2>2, <2>3, <2>4
  <2>6. Holds(q, late) => Holds(r, late) /\ \E m \in DOMAIN r : 1 < m /\ r[m] \in late
    BY <2>5 DEF Holds
  <2>7. Followed(r, early, late)
    <3> SUFFICES ASSUME NEW i \in DOMAIN r, r[i] \in early
                 PROVE  \E m \in DOMAIN r : i < m /\ r[m] \in late
      BY DEF Followed
    <3>1. CASE i = 1
      <4>1. Holds(held, early)
        BY <2>2, <2>5, <3>1 DEF Holds
      <4> QED BY <2>6, <3>1, <4>1
    <3>2. CASE i # 1
      <4> PICK m \in DOMAIN q : i - 1 < m /\ q[m] \in late
        BY <2>5, <3>2 DEF Followed
      <4>1. i < m + 1
        BY <2>4
      <4> QED BY <2>5, <4>1
    <3> QED BY <3>1, <3>2
  <2> QED BY <2>6, <2>7 DEF r
<1> QED BY <1>1, <1>2

\* What happened to none of these kinds had not happened before, and is not happening now.
LEMMA StillUnharmed ==
  ASSUME FaultType, FaultsGrow, NEW kinds \in SUBSET FaultKinds, Unharmed(kinds)'
  PROVE  Unharmed(kinds)
BY DEF Unharmed, FaultsGrow, FaultType

\* A fault of a kind is seen by whoever excludes that kind.
LEMMA Harmed ==
  ASSUME FaultType, NEW kinds \in SUBSET FaultKinds, NEW kind \in kinds, Fault(kind)
  PROVE  ~Unharmed(kinds)'
<1>1. faults'[kind] > 0
  BY FaultCounts
<1> QED BY <1>1 DEF Unharmed

---------------------------------------------------------------------------
(* The last bet told                                                        *)

Tellings == {i \in DOMAIN bet : bet[i].how # "lost"}
IsNewest(i) == i \in {0} \cup Tellings /\ \A j \in Tellings : j <= i

\* Jobs that tell the player an older bet, and jobs that tell him bet i.
AnyRealtimeJob == [bet : Nat, win : BOOLEAN]
Early(i) == {j \in AnyRealtimeJob : j.bet \in Tellings \ {i}}
Late(i)  == {j \in AnyRealtimeJob : j.bet = i /\ i # 0}

\* A request that publishes one of the bets T.
Teller(k, T) == k.at = "fanout" /\ k.bet \in T

\* Bet i is still to be queued; or every older one queued or held is followed by it, and it
\* has been told or will be.
ToBeTold(i) ==
  \E c \in DOMAIN call :
    Teller(call[c], Tellings) /\ call[c].bet = i /\ "realtime" \in Named(call[c].todo)
Through(i) ==
  /\ Followed(realtimeQueue, Early(i), Late(i))
  /\ \A w \in Workers : Holds(publishing[w], Early(i)) => Holds(realtimeQueue, Late(i))
  /\ told = i \/ Holds(realtimeQueue, Late(i))

Tells(i) ==
  /\ IsNewest(i)
  /\ \A c \in DOMAIN call : Teller(call[c], Tellings) => call[c].bet = i
  /\ ToBeTold(i) \/ Through(i)

Tellable == Unharmed({"publish", "timeout", "engine"})
TellsInv == Tellable => \E i \in 0..Len(bet) : Tells(i)

\* The requests that publish a bet the player is told are those that did before.
SameTellers ==
  /\ \A c \in DOMAIN call' : Teller(call'[c], Tellings) =>
       c \in DOMAIN call /\ Teller(call[c], Tellings) /\ call'[c].bet = call[c].bet
  /\ \A c \in DOMAIN call : Teller(call[c], Tellings) /\ "realtime" \in Named(call[c].todo) =>
       /\ c \in DOMAIN call' /\ Teller(call'[c], Tellings) /\ call'[c].bet = call[c].bet
       /\ "realtime" \in Named(call'[c].todo)

\* With nothing on its way the newest bet is the one told last.
LEMMA NewestIsTold == ASSUME FitInv, TellsInv PROVE LastToldIsLatest
<1> SUFFICES ASSUME Idle, Tellable
             PROVE  told = Max({0} \cup {i \in DOMAIN bet : bet[i].how # "lost"})
  BY DEF LastToldIsLatest, Tellable
<1>1. PICK i \in 0..Len(bet) : Tells(i)
  BY DEF TellsInv
<1>2. ~ToBeTold(i)
  BY DEF Idle, ToBeTold, Teller, Handled
<1>3. ~Holds(realtimeQueue, Late(i))
  <2>1. realtimeQueue = <<>> /\ DOMAIN <<>> = {}
    BY EmptySeq DEF Idle
  <2> QED BY <2>1 DEF Holds
<1>4. told = i /\ IsNewest(i)
  BY <1>1, <1>2, <1>3 DEF Tells, Through
<1>5. DOMAIN bet = 1..Len(bet) /\ Len(bet) \in Nat
  BY Lengths DEF FitInv
<1> DEFINE all == {0} \cup Tellings
<1>6. i \in all /\ \A j \in all : i >= j
  BY <1>4, <1>5 DEF IsNewest, Tellings
<1>7. \A x \in all : (\A j \in all : x >= j) => x = i
  BY <1>5, <1>6 DEF Tellings
<1>8. Max(all) = i
  <2> HIDE DEF all
  <2> QED BY <1>6, <1>7 DEF Max
<1> QED BY <1>4, <1>8 DEF Tellings

\* A step that tells nothing.
LEMMA TellsStay ==
  ASSUME NEW i, Tells(i), UNCHANGED <<told, realtimeQueue, publishing>>,
         Tellings' = Tellings, SameTellers
  PROVE  Tells(i)'
<1>1. IsNewest(i)' /\ Early(i)' = Early(i) /\ Late(i)' = Late(i)
  BY DEF Tells, IsNewest, Early, Late
<1>3. \A c \in DOMAIN call' : Teller(call'[c], Tellings') => call'[c].bet = i
  BY DEF SameTellers, Tells
<1>4. ToBeTold(i) => ToBeTold(i)'
  <2> SUFFICES ASSUME NEW c \in DOMAIN call, Teller(call[c], Tellings), call[c].bet = i,
                      "realtime" \in Named(call[c].todo)
               PROVE  ToBeTold(i)'
    BY DEF ToBeTold
  <2>1. /\ c \in DOMAIN call' /\ Teller(call'[c], Tellings') /\ call'[c].bet = i
        /\ "realtime" \in Named(call'[c].todo)
    BY DEF SameTellers
  <2> QED BY <2>1 DEF ToBeTold, Named
<1>5. Through(i) => Through(i)'
  BY <1>1 DEF Through, Followed, Holds
<1> QED BY <1>1, <1>3, <1>4, <1>5 DEF Tells

\* Requests of others, and this one, which publishes no bet or the same.
LEMMA TellersStay ==
  ASSUME NEW c \in DOMAIN call, Moves(c),
         Teller(call'[c], Tellings) => Teller(call[c], Tellings) /\ call'[c].bet = call[c].bet,
         Teller(call[c], Tellings) /\ "realtime" \in Named(call[c].todo) =>
           /\ Teller(call'[c], Tellings) /\ call'[c].bet = call[c].bet
           /\ "realtime" \in Named(call'[c].todo)
  PROVE  SameTellers
BY DEF SameTellers, Moves

\* A bet settled that the player is told becomes the newest, and is to be told.
LEMMA NewestSettled ==
  ASSUME FitInv, AnswersInv', Alone, Unharmed({"timeout"}), NEW c \in DOMAIN call,
         NEW how \in Outcomes, NEW pays \in BOOLEAN, NEW todo \in Seq(Outlets), how # "lost",
         NEW n, n = Len(bet) + 1,
         bet' = Append(bet, [sid |-> call[c].sid, how |-> how, pays |-> pays]),
         GoesOn(c, "fanout", todo, n), "realtime" \in Named(todo), Handled(c),
         call[c].at = "checked"
  PROVE  Tells(n)'
<1> DEFINE b == [sid |-> call[c].sid, how |-> how, pays |-> pays]
<1>1. AnswersInv /\ DOMAIN bet = 1..Len(bet) /\ Len(bet) \in Nat /\ bet \in Seq(Bets)
  BY Lengths DEF FitInv, AnswersInv, ServiceType
<1>2. b.how = how /\ bet' = Append(bet, b)
  OBVIOUS
<1> HIDE DEF b
<1>3. /\ DOMAIN bet' = DOMAIN bet \cup {n} /\ n \notin DOMAIN bet /\ bet'[n] = b
      /\ \A j \in DOMAIN bet : bet'[j] = bet[j] /\ j <= n
  BY <1>1, <1>2
<1>4. n \in Nat /\ n <= n /\ n \in DOMAIN bet'
  BY <1>1, <1>3
<1>5. Tellings' = Tellings \cup {n} /\ \A j \in Tellings : j <= n
  BY <1>2, <1>3 DEF Tellings
<1>6. IsNewest(n)'
  BY <1>3, <1>4, <1>5 DEF IsNewest
<1>7. Moves(c) /\ call'[c].at = "fanout" /\ call'[c].bet = n /\ call'[c].todo = todo
  BY DEF GoesOn
<1>8. \A d \in DOMAIN call : d # c => call'[d].at # "fanout"
  <2>1. \A d \in DOMAIN call : Handled(d) => d = c
    BY DEF Alone
  <2> QED BY <1>7, <2>1 DEF Handled, Moves
<1>9. \A d \in DOMAIN call' : Teller(call'[d], Tellings') => call'[d].bet = n
  BY <1>7, <1>8 DEF Teller, Moves
<1>10. ToBeTold(n)'
  <2>1. c \in DOMAIN call' /\ Teller(call'[c], Tellings')
    BY <1>5, <1>7 DEF Teller, Moves
  <2> QED BY <1>7, <2>1 DEF ToBeTold, Named
<1> QED BY <1>6, <1>9, <1>10 DEF Tells

\* A bet the player is not told changes nothing.
LEMMA LostSettled ==
  ASSUME FitInv, NEW c \in DOMAIN call, NEW pays,
         bet' = Append(bet, [sid |-> call[c].sid, how |-> "lost", pays |-> pays]),
         pays \in BOOLEAN
  PROVE  Tellings' = Tellings /\ Len(bet) + 1 \notin Tellings
<1> DEFINE n == Len(bet) + 1
           b == [sid |-> call[c].sid, how |-> "lost", pays |-> pays]
<1>1. DOMAIN bet = 1..Len(bet) /\ Len(bet) \in Nat /\ bet \in Seq(Bets)
  BY Lengths DEF FitInv, AnswersInv, ServiceType
<1>2. b.how = "lost" /\ bet' = Append(bet, b)
  OBVIOUS
<1> HIDE DEF b
<1>3. /\ DOMAIN bet' = DOMAIN bet \cup {n} /\ n \notin DOMAIN bet /\ bet'[n] = b
      /\ \A j \in DOMAIN bet : bet'[j] = bet[j]
  BY <1>1, <1>2
<1> QED BY <1>2, <1>3 DEF Tellings

\* A step of the play service settles a bet newer than every one being told.
LEMMA PlayTells ==
  ASSUME FitInv, AnswersInv', Alone, Unharmed({"timeout"}), NEW c \in DOMAIN call, Play(c),
         UNCHANGED processors, NEW i, Tells(i)
  PROVE  \E j : Tells(j)'
<1>1. /\ Opened(c) \/ Ended(c) \/ Checked(c) \/ Finished(c) \/ Played(c) \/ Settled(c)
      /\ UNCHANGED <<told, realtimeQueue, publishing>>
  BY Playing DEF FitInv, outlets, processors
<1>2. /\ call[c].at \in {"queued", "checked"} => call[c].bet = 0
      /\ 0 \notin Tellings /\ \A j \in Tellings : bet[j].how # "lost"
  <2>1. DOMAIN bet = 1..Len(bet) /\ Len(bet) \in Nat
    BY Lengths DEF FitInv
  <2> QED BY <2>1, CallIs DEF FitInv, Sound, Tellings
<1>3. ASSUME Moves(c), call[c].at \in {"queued", "checked"}, call'[c].bet \notin Tellings,
             Tellings' = Tellings
      PROVE  Tells(i)'
  <2>1. SameTellers
    BY <1>3, TellersStay DEF Teller
  <2> QED BY <1>1, <1>3, <2>1, TellsStay
<1>4. ASSUME Opened(c) \/ Ended(c) \/ Checked(c) \/ Finished(c) \/ Played(c) PROVE Tells(i)'
  <2>1. Moves(c) /\ call[c].at \in {"queued", "checked"} /\ call'[c].bet = call[c].bet
        /\ UNCHANGED bet
    BY <1>4 DEF Opened, Ended, Checked, Finished, Played, GoesOn, Answered, service
  <2> QED BY <1>2, <1>3, <2>1 DEF Tellings
<1>5. CASE Settled(c)
  <2> PICK how \in Outcomes, pays \in BOOLEAN, todo \in Seq(Outlets) :
             /\ bet' = Append(bet, [sid |-> call[c].sid, how |-> how, pays |-> pays])
             /\ GoesOn(c, "fanout", todo, Len(bet) + 1)
             /\ \/ call[c].op = "reveal" /\ todo = <<"realtime">>
                \/ call[c].op \in {"placeBet", "cashOut"} /\ todo = FanoutBet(pays)
    BY <1>5 DEF Settled
  <2>1. call[c].at = "checked" /\ Handled(c)
    BY <1>5 DEF Settled, Handled
  <2>2. "realtime" \in Named(todo)
    BY NamedEmpty, NamedFanout
  <2>3. CASE how = "lost"
    <3>1. Tellings' = Tellings /\ Len(bet) + 1 \notin Tellings
      BY <2>3, LostSettled
    <3> QED BY <1>3, <2>1, <3>1 DEF GoesOn
  <2>4. CASE how # "lost"
    <3>1. PICK n : n = Len(bet) + 1
      OBVIOUS
    <3> QED BY <2>1, <2>2, <2>4, <3>1, NewestSettled
  <2> QED BY <2>3, <2>4
<1> QED BY <1>1, <1>4, <1>5

\* What a request tells, it tells of the newest bet.
LEMMA PublishTells ==
  ASSUME FitInv, NEW c \in DOMAIN call, Publish(c), UNCHANGED processors,
         NEW i, Tells(i)
  PROVE  Tells(i)'
<1> DEFINE b == call[c].bet
           to == Head(call[c].todo)
<1>1. /\ AnswersInv /\ Names(call[c], Len(session), Len(bet)) /\ OutsideFits
      /\ DOMAIN bet = 1..Len(bet) /\ Len(bet) \in Nat
  BY Lengths DEF FitInv, CallsFit
<1>2. call[c].at = "fanout" /\ UNCHANGED <<bet, publishing>> /\ Deliver(c, to)
  BY DEF Publish, Publishes, service, processors
<1>3. call[c].todo \in Seq(Outlets) /\ call[c].todo # <<>>
  BY <1>1, <1>2, CallIs DEF Calls, Sound
<1>4. /\ to \in Outlets /\ Named(call[c].todo) = {to} \cup Named(Tail(call[c].todo))
      /\ Len(call[c].todo) = 1 => Named(Tail(call[c].todo)) = {}
  BY <1>3, NamedTail, NamedEmpty
<1>5. Passed(c)
  BY <1>1, <1>2, Passing DEF Publish
<1>6. /\ Moves(c) /\ call'[c].bet = b
      /\ \/ call'[c].at = "replied" /\ Named(call[c].todo) = {to}
         \/ call'[c].at = "fanout" /\ call'[c].todo = Tail(call[c].todo)
  BY <1>4, <1>5 DEF Passed, Answered, GoesOn
<1>7. to # "realtime" => SameTellers
  BY <1>2, <1>4, <1>6, TellersStay DEF Teller
<1>8. Tellings' = Tellings
  BY <1>2 DEF Tellings
<1>9. IsNewest(i)' /\ Early(i)' = Early(i) /\ Late(i)' = Late(i)
  BY <1>8 DEF Tells, IsNewest, Early, Late
<1>10. \A d \in DOMAIN call' : Teller(call'[d], Tellings') => call'[d].bet = i
  BY <1>2, <1>6, <1>8 DEF Tells, Teller, Moves
<1>11. b \in Tellings => b = i /\ i # 0
  BY <1>1, <1>2 DEF Tells, Teller, Tellings
<1>12. CASE to = "user" /\ b \in Tellings
  <2>1. told' = i /\ UNCHANGED realtimeQueue
    BY <1>2, <1>11, <1>12 DEF Deliver, TellUser, Tellings
  <2>2. ToBeTold(i) => ToBeTold(i)'
    <3> SUFFICES ASSUME NEW d \in DOMAIN call, Teller(call[d], Tellings), call[d].bet = i,
                        "realtime" \in Named(call[d].todo)
                 PROVE  ToBeTold(i)'
      BY DEF ToBeTold
    <3>1. /\ d \in DOMAIN call' /\ Teller(call'[d], Tellings') /\ call'[d].bet = i
          /\ "realtime" \in Named(call'[d].todo)
      BY <1>7, <1>8, <1>12 DEF SameTellers
    <3> QED BY <3>1 DEF ToBeTold, Named
  <2>3. Through(i) => Through(i)'
    BY <1>2, <1>9, <2>1 DEF Through, Followed, Holds
  <2> QED BY <1>9, <1>10, <2>2, <2>3 DEF Tells
<1>13. CASE to # "realtime" /\ ~(to = "user" /\ b \in Tellings)
  <2>1. b \in 0..Len(bet)
    BY <1>1 DEF Names
  <2>2. UNCHANGED <<told, realtimeQueue>>
    BY <1>1, <1>2, <1>4, <1>13, <2>1 DEF Deliver, TellUser, Tellings, Outlets
  <2> QED BY <1>2, <1>7, <1>8, <1>13, <2>2, TellsStay
<1>14. CASE to = "realtime"
  <2> DEFINE job == RealtimeJob(c)
  <2>1. realtimeQueue' = Append(realtimeQueue, job) /\ UNCHANGED told
    BY <1>2, <1>14 DEF Deliver
  <2>2. job \in AnyRealtimeJob /\ job.bet = b /\ job \in BetJobs(Len(bet))
    <3>1. OutsideFits' /\ Len(bet') = Len(bet)
      BY <1>2, <1>3, <1>4, DeliverFits DEF Publish, service
    <3>2. realtimeQueue' \in Seq(BetJobs(Len(bet))) /\ realtimeQueue \in Seq(BetJobs(Len(bet)))
      BY <1>1, <3>1 DEF OutsideFits, QueuesFit
    <3>3. job.bet = b
      BY DEF RealtimeJob
    <3> HIDE DEF job
    <3>4. job = realtimeQueue'[Len(realtimeQueue) + 1] /\ Len(realtimeQueue') = Len(realtimeQueue) + 1
          /\ Len(realtimeQueue) \in Nat
      BY <2>1, <3>2, AppendProperties, LenProperties
    <3>5. job \in BetJobs(Len(bet))
      <4>1. Len(realtimeQueue) + 1 \in 1..Len(realtimeQueue')
        BY <3>4
      <4> QED BY <3>2, <3>4, <4>1, ElementOfSeq
    <3> QED BY <1>1, <3>3, <3>5 DEF BetJobs, AnyRealtimeJob
  <2> HIDE DEF job
  <2>3. realtimeQueue \in Seq(BetJobs(Len(bet)))
    BY <1>1 DEF OutsideFits, QueuesFit
  <2>4. job \notin Early(i)
    BY <1>11, <2>2 DEF Early
  <2>5. CASE b \in Tellings
    <3>1. job \in Late(i)
      BY <1>11, <2>2, <2>5 DEF Late
    <3>2. Followed(realtimeQueue', Early(i), Late(i)) /\ Holds(realtimeQueue', Late(i))
      BY <2>1, <2>2, <2>3, <2>4, <3>1, Queued
    <3>3. Through(i)'
      BY <1>2, <1>9, <3>2 DEF Through, Followed, Holds
    <3> QED BY <1>9, <1>10, <3>3 DEF Tells
  <2>6. CASE b \notin Tellings
    <3>1. ToBeTold(i) => ToBeTold(i)'
      <4> SUFFICES ASSUME NEW d \in DOMAIN call, Teller(call[d], Tellings), call[d].bet = i,
                          "realtime" \in Named(call[d].todo)
                   PROVE  ToBeTold(i)'
        BY DEF ToBeTold
      <4>1. call'[d] = call[d] /\ d \in DOMAIN call'
        BY <1>6, <2>6 DEF Moves, Teller
      <4>2. Teller(call'[d], Tellings') /\ call'[d].bet = i /\ "realtime" \in Named(call'[d].todo)
        BY <1>8, <4>1
      <4> QED BY <4>1, <4>2 DEF ToBeTold, Named
    <3>2. Through(i) => Through(i)'
      <4> SUFFICES ASSUME Through(i) PROVE Through(i)'
        OBVIOUS
      <4>1. /\ Followed(realtimeQueue', Early(i), Late(i))
            /\ Holds(realtimeQueue, Late(i)) => Holds(realtimeQueue', Late(i))
        BY <2>1, <2>2, <2>3, <2>4, Queued DEF Through
      <4> QED BY <1>2, <1>9, <2>1, <4>1 DEF Through, Followed, Holds
    <3> QED BY <1>9, <1>10, <3>1, <3>2 DEF Tells
  <2> QED BY <2>5, <2>6
<1> QED BY <1>12, <1>13, <1>14

\* The worker tells the bets of the queue in their order, and repeats what it held when it
\* died before what waits.
LEMMA WorkerTells ==
  ASSUME OneAtATime, FitInv, FitInv', NEW w \in Workers, Tellable',
         RealtimeProcessor(w) \/ WorkerRestarts(w), NEW i, Tells(i)
  PROVE  Tells(i)'
<1> DEFINE J == BetJobs(Len(bet))
<1>1. /\ AnswersInv /\ FaultType /\ OutsideFits /\ Len(bet) \in Nat /\ DOMAIN bet = 1..Len(bet)
      /\ UNCHANGED <<bet, call>>
  BY WorkersAreQuiet, Lengths DEF FitInv, AnswersInv, service
<1>2. publishing \in [Workers -> AtMostOne(J)] /\ realtimeQueue \in Seq(J)
  BY <1>1 DEF OutsideFits, QueuesFit, WorkersFit
<1>3. /\ IsNewest(i)' /\ Early(i)' = Early(i) /\ Late(i)' = Late(i) /\ Tellings' = Tellings
      /\ \A c \in DOMAIN call' : Teller(call'[c], Tellings') => call'[c].bet = i
      /\ ToBeTold(i) => ToBeTold(i)'
  BY <1>1 DEF Tells, IsNewest, Early, Late, Tellings, ToBeTold
<1>4. SUFFICES ASSUME Through(i) PROVE Through(i)'
  BY <1>3 DEF Tells
<1>5. \A job \in J : /\ job \in AnyRealtimeJob
                     /\ job \in Early(i) <=> job.bet \in Tellings \ {i}
                     /\ job \in Late(i) <=> job.bet = i /\ i # 0
  BY <1>1 DEF BetJobs, AnyRealtimeJob, Early, Late
<1>6. CASE TakeRealtime(w)
  <2> DEFINE job == Head(realtimeQueue)
  <2>1. /\ realtimeQueue # <<>> /\ realtimeQueue' = Tail(realtimeQueue)
        /\ publishing' = [publishing EXCEPT ![w] = <<job>>]
        /\ \/ TellUser(job.bet)
           \/ Fault("publish")
    BY <1>6 DEF TakeRealtime, MayFail
  <2>2. job \in J
    BY <1>2, <2>1, HeadTailProperties
  <2> HIDE DEF job
  <2>3. TellUser(job.bet)
    <3>1. Fault("publish") => ~Tellable'
      BY <1>1, Harmed DEF Tellable, FaultKinds
    <3> QED BY <2>1, <3>1
  <2>4. told' = IF job.bet \in Tellings THEN job.bet ELSE told
    <3>1. job.bet \in 0..Len(bet)
      BY <2>2 DEF BetJobs
    <3>2. job.bet \in Tellings <=> job.bet # 0 /\ bet[job.bet].how # "lost"
      BY <1>1, <3>1 DEF Tellings
    <3> QED BY <2>3, <3>2 DEF TellUser
  <2>5. /\ Followed(realtimeQueue', Early(i), Late(i))
        /\ job \in Early(i) => Holds(realtimeQueue', Late(i))
        /\ Holds(realtimeQueue, Late(i)) /\ job \notin Late(i) => Holds(realtimeQueue', Late(i))
    BY <1>2, <1>4, <2>1, Dequeued DEF Through, job
  <2>6. \A v \in Workers : Holds(publishing'[v], Early(i)) => job \in Early(i)
    <3>1. \A v \in Workers : publishing'[v] = <<job>>
      BY <1>2, <2>1 DEF OneAtATime
    <3>2. DOMAIN <<job>> = {1} /\ <<job>>[1] = job
      OBVIOUS
    <3> QED BY <3>1, <3>2 DEF Holds
  <2>7. told' = i \/ Holds(realtimeQueue', Late(i))
    <3>1. CASE job.bet \in Tellings
      BY <1>5, <2>2, <2>4, <2>5, <3>1
    <3>2. CASE job.bet \notin Tellings
      <4>1. i \in {0} \cup Tellings
        BY DEF Tells, IsNewest
      <4>2. job \notin Late(i)
        BY <1>5, <2>2, <3>2, <4>1
      <4> QED BY <1>4, <2>4, <2>5, <3>2, <4>2 DEF Through
    <3> QED BY <3>1, <3>2
  <2> QED BY <1>3, <2>5, <2>6, <2>7 DEF Through, Followed, Holds
<1>7. CASE Announce(w)
  <2>1. /\ publishing' = [publishing EXCEPT ![w] = <<>>] /\ UNCHANGED <<told, realtimeQueue>>
    BY <1>7 DEF Announce, MayFail
  <2>2. \A v \in Workers : ~Holds(publishing'[v], Early(i))
    <3>1. \A v \in Workers : publishing'[v] = <<>>
      BY <1>2, <2>1 DEF OneAtATime
    <3>2. DOMAIN <<>> = {}
      BY EmptySeq
    <3> QED BY <3>1, <3>2 DEF Holds
  <2> QED BY <1>3, <1>4, <2>1, <2>2 DEF Through, Followed, Holds
<1>8. CASE WorkerRestarts(w)
  <2>1. /\ realtimeQueue' = publishing[w] \o realtimeQueue /\ UNCHANGED told
        /\ publishing' = [publishing EXCEPT ![w] = <<>>]
    BY <1>8 DEF WorkerRestarts
  <2>2. \A v \in Workers : ~Holds(publishing'[v], Early(i))
    <3>1. \A v \in Workers : publishing'[v] = <<>>
      BY <1>2, <2>1 DEF OneAtATime
    <3>2. DOMAIN <<>> = {}
      BY EmptySeq
    <3> QED BY <3>1, <3>2 DEF Holds
  <2>3. publishing[w] \in AtMostOne(J)
    BY <1>2
  <2>4. /\ Followed(realtimeQueue', Early(i), Late(i))
        /\ Holds(realtimeQueue, Late(i)) => Holds(realtimeQueue', Late(i))
    BY <1>2, <1>4, <2>1, <2>3, PutBack DEF Through
  <2> QED BY <1>3, <1>4, <2>1, <2>2, <2>4 DEF Through, Followed, Holds
<1> QED BY <1>6, <1>7, <1>8 DEF RealtimeProcessor

\* Steps that leave bets, requests and the realtime queue alone.
LEMMA OthersTell ==
  ASSUME NEW i, Tells(i), UNCHANGED <<bet, call, told, realtimeQueue, publishing>>
  PROVE  Tells(i)'
BY DEF Tells, IsNewest, Early, Late, Tellings, ToBeTold, Through, Followed, Holds

\* No fault is ever forgotten.
LEMMA FaultsOnlyGrow == ASSUME AnswersInv, [Next]_vars PROVE FaultsGrow
<1>1. FaultType
  BY DEF AnswersInv
<1>2. ASSUME NEW c \in DOMAIN call, Timeout(c) \/ Handler(c) PROVE FaultsGrow
  BY <1>1, <1>2, NoFault, FaultCounts
     DEF Timeout, Handler, Play, Publish, PublishFails, FaultKinds
<1>3. SendAny => FaultsGrow
  <2>1. SendAny => UNCHANGED faults
    BY DEF SendAny, Send
  <2> QED BY <1>1, <2>1, NoFault
<1>4. EngineRestarts => FaultsGrow
  BY <1>1, FaultCounts DEF EngineRestarts, FaultKinds
<1>5. UNCHANGED vars => FaultsGrow
  BY <1>1, NoFault DEF vars
<1> QED BY <1>2, <1>3, <1>4, <1>5, WorkersAreQuiet, OthersAreQuiet DEF Next, Engine

\* A step keeps what is told in order.
LEMMA TellsKeeps ==
  ASSUME OneAtATime, FitInv, Alone, TellsInv, [Next]_vars
  PROVE  TellsInv'
<1>1. AnswersInv /\ FitInv' /\ AnswersInv' /\ FaultType
  BY NextFits DEF FitInv, AnswersInv
<1>2. FaultsGrow
  BY <1>1, FaultsOnlyGrow
<1>3. SUFFICES ASSUME Tellable' PROVE \E i \in 0..Len(bet') : Tells(i)'
  BY DEF TellsInv
<1>4. Tellable /\ Unharmed({"timeout"}) /\ Unharmed({"timeout"})'
  <2>1. Tellable
    BY <1>1, <1>2, <1>3, StillUnharmed DEF Tellable, FaultKinds
  <2> QED BY <1>3, <2>1 DEF Tellable, Unharmed
<1>5. PICK i \in 0..Len(bet) : Tells(i)
  BY <1>4 DEF TellsInv
<1>6. SUFFICES \E j : Tells(j)'
  <2>1. DOMAIN bet' = 1..Len(bet') /\ Len(bet') \in Nat
    BY <1>1, LenProperties DEF AnswersInv, ServiceType
  <2>2. ASSUME NEW j, Tells(j)' PROVE j \in 0..Len(bet')
    BY <2>1, <2>2 DEF Tells, IsNewest, Tellings
  <2> QED BY <2>2
<1>7. ASSUME NEW kind \in {"publish", "timeout", "engine"}, Fault(kind) PROVE FALSE
  BY <1>1, <1>3, <1>7, Harmed DEF Tellable, FaultKinds
<1>8. ASSUME SendAny, UNCHANGED processors PROVE Tells(i)'
  <2>1. PICK op, g, sid : Send(op, g, sid)
    BY <1>8 DEF SendAny
  <2> DEFINE k == [op |-> op, game |-> g, sid |-> sid, at |-> "queued",
                   view |-> "waiting", todo |-> <<>>, bet |-> 0]
             n == Len(call) + 1
  <2>2. k.at = "queued" /\ call' = Append(call, k) /\ UNCHANGED <<bet, outlets>>
    BY <2>1 DEF Send, service
  <2> HIDE DEF k
  <2>3. DOMAIN call = 1..Len(call) /\ Len(call) \in Nat /\ call \in Seq(Calls)
    BY <1>1, Lengths DEF AnswersInv, CallType
  <2>4. /\ DOMAIN call' = DOMAIN call \cup {n} /\ call'[n] = k
        /\ \A d \in DOMAIN call : call'[d] = call[d]
    BY <2>2, <2>3
  <2>5. SameTellers
    BY <2>2, <2>4 DEF SameTellers, Teller
  <2>6. Tellings' = Tellings /\ UNCHANGED <<told, realtimeQueue, publishing>>
    BY <1>8, <2>2 DEF Tellings, outlets, processors
  <2> QED BY <1>5, <2>5, <2>6, TellsStay
<1>9. ASSUME NEW c \in DOMAIN call, Timeout(c), UNCHANGED processors PROVE Tells(i)'
  <2>1. call[c].at = "lost"
    BY <1>7, <1>9 DEF Timeout
  <2>2. Moves(c) /\ call'[c].at = "lost"
    BY <1>1, <1>9, <2>1, GivingUp
  <2>3. SameTellers
    BY <2>1, <2>2, TellersStay DEF Teller
  <2>4. Tellings' = Tellings /\ UNCHANGED <<told, realtimeQueue, publishing>>
    BY <1>9 DEF Timeout, Tellings, service, outlets, processors
  <2> QED BY <1>5, <2>3, <2>4, TellsStay
<1>10. ASSUME NEW c \in DOMAIN call, Handler(c), UNCHANGED processors PROVE \E j : Tells(j)'
  BY <1>1, <1>4, <1>5, <1>7, <1>10, PlayTells, PublishTells DEF Handler, PublishFails
<1>11. ~EngineRestarts
  BY <1>7 DEF EngineRestarts
<1>12. ASSUME NEW w \in Workers, RealtimeProcessor(w) \/ SessionProcessor(w) \/ WorkerRestarts(w)
       PROVE  Tells(i)'
  <2>1. CASE SessionProcessor(w)
    <3>1. UNCHANGED <<bet, call, told, realtimeQueue, publishing>>
      BY <2>1 DEF SessionProcessor, DeleteHistory, ReadHistory, WriteHistory, SessionJobFails,
                  Complete, Take, service, outlets
    <3> QED BY <1>5, <3>1, OthersTell
  <2> QED BY <1>1, <1>3, <1>5, <1>12, <2>1, WorkerTells
<1>13. ASSUME \/ \E s \in bus : OnBetSettled(s)
              \/ \E s \in DOMAIN history : HistoryExpires(s)
       PROVE  Tells(i)'
  <2>1. UNCHANGED <<bet, call, told, realtimeQueue, publishing>>
    BY <1>13 DEF OnBetSettled, HistoryExpires, MayFail, service, outlets, processors
  <2> QED BY <1>5, <2>1, OthersTell
<1>14. CASE UNCHANGED vars
  BY <1>5, <1>14, OthersTell DEF vars, service, outlets, processors
<1>15. CASE Engine /\ UNCHANGED processors
  BY <1>8, <1>9, <1>10, <1>11, <1>15 DEF Engine
<1> QED BY <1>12, <1>13, <1>14, <1>15 DEF Next

\* The player comes with his last win told, or with none.
LEMMA TellsAtFirst == ASSUME Init PROVE Alone /\ TellsInv
<1>1. /\ call = <<>> /\ DOMAIN call = {} /\ realtimeQueue = <<>> /\ DOMAIN realtimeQueue = {}
      /\ \A w \in Workers : publishing[w] = <<>> /\ DOMAIN publishing[w] = {}
  BY EmptySeq DEF Init, InitEngine, InitWorker
<1>2. Alone
  BY <1>1 DEF Alone, Waiting
<1>3. told = Len(bet) /\ bet \in {<<>>, EarlierWin}
  BY DEF Init, InitEngine, Comes
<1>4. IsNewest(Len(bet)) /\ Len(bet) \in 0..Len(bet)
  <2>1. CASE bet = <<>>
    <3>1. DOMAIN bet = {} /\ Len(bet) = 0
      BY <2>1, EmptySeq
    <3> QED BY <3>1 DEF IsNewest, Tellings
  <2>2. CASE bet = EarlierWin
    <3>1. DOMAIN bet = {1} /\ Len(bet) = 1 /\ bet[1].how = "placed"
      BY <2>2 DEF EarlierWin
    <3> QED BY <3>1 DEF IsNewest, Tellings
  <2> QED BY <1>3, <2>1, <2>2
<1>5. Through(Len(bet))
  BY <1>1, <1>3 DEF Through, Followed, Holds
<1>6. Tells(Len(bet))
  BY <1>1, <1>4, <1>5 DEF Tells
<1> QED BY <1>2, <1>4, <1>6 DEF TellsInv

\* The engine publishes a bet on the player's channel and queues a job that publishes it
\* again: with one request and one worker at a time, jobs repeated by a worker that died
\* included, the bet told last is the last one settled once nothing is on its way, unless a
\* publication failed, the gateway gave up on a request, or the engine stopped.
THEOREM BetsAreToldInOrder ==
  ASSUME OneAtATime PROVE Spec => []LastToldIsLatest
<1>1. Init => FitInv /\ Alone /\ TellsInv
  BY InitFits, TellsAtFirst
<1>2. FitInv /\ Alone /\ TellsInv /\ [Next]_vars => FitInv' /\ Alone' /\ TellsInv'
  BY NextFits, AloneKeeps, TellsKeeps DEF FitInv
<1>3. FitInv /\ TellsInv => LastToldIsLatest
  BY NewestIsTold
<1> QED BY <1>1, <1>2, <1>3, PTL DEF Spec

---------------------------------------------------------------------------
(* The end of a session                                                     *)

\* Jobs that put a bet in the history of session s, and jobs that delete it.
AnySessionJob == [name : {"history", "ended"}, sid : Nat, item : Nat]
Items(s) == {j \in AnySessionJob : j.name = "history" /\ j.sid = s}
Ends(s)  == {j \in AnySessionJob : j.name = "ended" /\ j.sid = s}

EndedBy(k, s) == k.op = "endSession" /\ k.sid = s /\ k.view = "ok"
Leaves(k, s)  == k.op = "endSession" /\ k.sid = s /\ k.at = "fanout"
PlaysIn(k, s) == k.op \in PlayOps /\ k.sid = s /\ k.at \in {"checked", "fanout"}

\* Nothing plays in session s any more, and whatever still puts a bet in its history, or has,
\* is followed by a job that deletes it.
Leaving(s) ==
  /\ Followed(sessionQueue, Items(s), Ends(s))
  /\ \A w \in Workers : Holds(storing[w], Items(s)) => Holds(sessionQueue, Ends(s))
  /\ history[s] = <<>> \/ Holds(sessionQueue, Ends(s))
Quiet(s) == ~session[s].open /\ \A c \in DOMAIN call : ~PlaysIn(call[c], s)
Gone(s) == Quiet(s) /\ Leaving(s)

\* The end that is to be queued, of a session that has ended.
EndsRight(k) == k.op = "endSession" /\ k.at = "fanout" => k.todo = <<"ended">>

Ending == Unharmed({"timeout", "publish"})
EndsHold ==
  /\ \A c \in DOMAIN call : EndsRight(call[c])
  /\ \A s \in DOMAIN session :
       /\ (\E c \in DOMAIN call : Leaves(call[c], s)) => Quiet(s)
       /\ AskedToEnd(s) => Gone(s)
EndsInv == Ending => EndsHold

\* With no job of it left, the history of a session that was ended is gone.
LEMMA GoneIsGone == ASSUME FitInv, EndsInv PROVE EndedHistoryStaysGone
<1> SUFFICES ASSUME Ending, NEW s \in DOMAIN session, AskedToEnd(s), JobsOf(s) = {}
             PROVE  history[s] = <<>>
  BY DEF EndedHistoryStaysGone, Ending
<1>1. ~Holds(sessionQueue, Ends(s))
  BY DEF JobsOf, Range, Holds, Ends
<1> QED BY <1>1 DEF EndsInv, EndsHold, Gone, Leaving

\* Requests after a step: a session is asked to end by those that did, and what plays in an
\* ended one is what did.
LEMMA QuietStays ==
  ASSUME NEW s \in DOMAIN session, Quiet(s), SessionsGo, DOMAIN call \subseteq DOMAIN call',
         \A c \in DOMAIN call' : PlaysIn(call'[c], s) => c \in DOMAIN call /\ PlaysIn(call[c], s)
  PROVE  Quiet(s)'
<1>1. ~session'[s].open
  BY DEF Quiet, SessionsGo
<1>2. \A c \in DOMAIN call' : ~PlaysIn(call'[c], s)
  BY DEF Quiet
<1> QED BY <1>1, <1>2 DEF Quiet, PlaysIn

\* A step that adds nothing to the session queue's work.
LEMMA LeavingStays ==
  ASSUME NEW s, Leaving(s), UNCHANGED <<sessionQueue, storing, history>>
  PROVE  Leaving(s)'
BY DEF Leaving, Followed, Holds, Items, Ends

\* The jobs of the session queue, by what they do.
LEMMA SessionJobIs ==
  ASSUME FitInv, NEW job \in SessionJobs(Len(session), Len(bet)), NEW s
  PROVE  /\ job \in AnySessionJob
         /\ job \in Items(s) <=> job.name = "history" /\ job.sid = s
         /\ job \in Ends(s) <=> job.name = "ended" /\ job.sid = s
<1>1. Len(session) \in Nat /\ Len(bet) \in Nat
  BY Lengths DEF FitInv
<1>2. job \in AnySessionJob
  BY <1>1 DEF SessionJobs, AnySessionJob
<1> QED BY <1>2 DEF Items, Ends

\* The worker of the session queue puts in and deletes in the order of the queue, and
\* repeats what it held when it died before what waits.
LEMMA WorkerLeaves ==
  ASSUME OneAtATime, FitInv, NEW w \in Workers, Ending',
         SessionProcessor(w) \/ WorkerRestarts(w), NEW s, Leaving(s)
  PROVE  Leaving(s)'
<1> DEFINE J == SessionJobs(Len(session), Len(bet))
           I == 1..Len(bet)
<1>1. AnswersInv /\ FaultType /\ OutsideFits
  BY DEF FitInv, AnswersInv
<1>2. /\ storing \in [Workers -> AtMostOne(J)] /\ sessionQueue \in Seq(J)
      /\ stored \in [Workers -> BOOLEAN] /\ history \in [1..MaxSessions -> Seq(I)]
      /\ \A v \in Workers : storing[v] # <<>> /\ ~stored[v] => storing[v][1].name = "history"
  BY <1>1 DEF OutsideFits, QueuesFit, WorkersFit, HistoryFits
<1>3. /\ Followed(sessionQueue, Items(s), Ends(s))
      /\ \A v \in Workers : Holds(storing[v], Items(s)) => Holds(sessionQueue, Ends(s))
      /\ history[s] = <<>> \/ Holds(sessionQueue, Ends(s))
  BY DEF Leaving
<1>4. ASSUME Followed(sessionQueue', Items(s), Ends(s)),
             \A v \in Workers : Holds(storing'[v], Items(s)) => Holds(sessionQueue', Ends(s)),
             history'[s] = <<>> \/ Holds(sessionQueue', Ends(s))
      PROVE  Leaving(s)'
  BY <1>4 DEF Leaving, Followed, Holds, Items, Ends
<1>5. ~Fault("publish")
  BY <1>1, Harmed DEF Ending, FaultKinds
<1>6. ASSUME NEW x, \A v \in Workers : storing'[v] = x, ~Holds(x, Items(s)),
             Followed(sessionQueue', Items(s), Ends(s)),
             history'[s] = <<>> \/ Holds(sessionQueue', Ends(s))
      PROVE  Leaving(s)'
  BY <1>4, <1>6
<1>7. ~Holds(<<>>, Items(s))
  <2>1. DOMAIN <<>> = {}
    BY EmptySeq
  <2> QED BY <2>1 DEF Holds
<1>8. ASSUME Take(w)
      PROVE  /\ Head(sessionQueue) \in J
             /\ \A v \in Workers : storing'[v] = <<Head(sessionQueue)>>
             /\ Followed(sessionQueue', Items(s), Ends(s))
             /\ Head(sessionQueue) \in Items(s) => Holds(sessionQueue', Ends(s))
             /\ Holds(sessionQueue, Ends(s)) /\ Head(sessionQueue) \notin Ends(s)
                  => Holds(sessionQueue', Ends(s))
  <2>1. sessionQueue # <<>> /\ sessionQueue' = Tail(sessionQueue)
    BY <1>8 DEF Take
  <2>2. Head(sessionQueue) \in J
    BY <1>2, <2>1, HeadTailProperties
  <2>3. \A v \in Workers : storing'[v] = <<Head(sessionQueue)>>
    BY <1>2, <1>8 DEF Take, OneAtATime
  <2> QED BY <1>2, <1>3, <2>1, <2>2, <2>3, Dequeued
<1>9. \A job : Holds(<<job>>, Items(s)) => job \in Items(s)
  BY DEF Holds
<1>10. CASE DeleteHistory(w)
  <2> DEFINE job == Head(sessionQueue)
  <2>1. /\ job \in J /\ job.name = "ended" /\ history' = [history EXCEPT ![job.sid] = <<>>]
        /\ Take(w)
    BY <1>8, <1>10 DEF DeleteHistory
  <2>2. job \notin Items(s)
    BY <2>1, SessionJobIs
  <2>3. history'[s] = <<>> \/ (history'[s] = history[s] /\ job \notin Ends(s))
    <3>1. CASE job.sid = s
      <4>1. job.sid \in 1..MaxSessions
        <5>1. job.sid \in 1..Len(session)
          BY <2>1 DEF SessionJobs
        <5>2. Len(session) \in Nat /\ MaxSessions \in Nat /\ Len(session) <= MaxSessions
          BY WithinBounds
        <5> QED BY <5>1, <5>2
      <4> HIDE DEF job
      <4> QED BY <1>2, <2>1, <3>1, <4>1
    <3>2. CASE job.sid # s
      <4>1. job \notin Ends(s)
        BY <2>1, <3>2, SessionJobIs
      <4>2. history'[s] = history[s]
        BY <1>2, <2>1, <3>2
      <4> QED BY <4>1, <4>2
    <3> QED BY <3>1, <3>2
  <2>4. ~Holds(<<job>>, Items(s))
    BY <1>9, <2>2
  <2> HIDE DEF job
  <2>5. history'[s] = <<>> \/ Holds(sessionQueue', Ends(s))
    BY <1>3, <1>8, <2>1, <2>3 DEF job
  <2> QED BY <1>6, <1>8, <2>1, <2>4, <2>5 DEF job
<1>11. CASE ReadHistory(w)
  <2>1. Take(w) /\ Head(sessionQueue).name = "history" /\ UNCHANGED history
    BY <1>11 DEF ReadHistory
  <2>2. Head(sessionQueue) \notin Ends(s)
    BY <1>8, <2>1, SessionJobIs
  <2>3. history'[s] = <<>> \/ Holds(sessionQueue', Ends(s))
    BY <1>3, <1>8, <2>1, <2>2
  <2>4. \A v \in Workers : Holds(storing'[v], Items(s)) => Holds(sessionQueue', Ends(s))
    BY <1>8, <1>9, <2>1
  <2> QED BY <1>4, <1>8, <2>1, <2>3, <2>4
<1>12. CASE WriteHistory(w)
  <2> DEFINE job == storing[w][1]
  <2>1. /\ job \in J /\ job.name = "history" /\ UNCHANGED <<sessionQueue, storing>>
        /\ history' = [history EXCEPT ![job.sid] = WithItem(job.item, existing[w])]
        /\ storing[w] = <<job>>
    BY <1>2, <1>12, InHand DEF WriteHistory, outlets
  <2>2. history'[s] = history[s] \/ Holds(sessionQueue, Ends(s))
    <3>1. CASE job.sid = s
      <4>1. job \in Items(s)
        BY <2>1, <3>1, SessionJobIs
      <4>2. Holds(storing[w], Items(s))
        <5> HIDE DEF job
        <5>1. DOMAIN <<job>> = {1} /\ <<job>>[1] = job
          OBVIOUS
        <5> QED BY <2>1, <4>1, <5>1 DEF Holds
      <4> QED BY <1>3, <4>2
    <3>2. CASE job.sid # s
      <4> HIDE DEF job
      <4> QED BY <1>2, <2>1, <3>2
    <3> QED BY <3>1, <3>2
  <2> QED BY <1>3, <1>4, <2>1, <2>2
<1>13. CASE Complete(w)
  <2>1. /\ \A v \in Workers : storing'[v] = <<>>
        /\ UNCHANGED <<sessionQueue, history>>
    BY <1>2, <1>13 DEF Complete, OneAtATime, outlets
  <2> QED BY <1>3, <1>6, <1>7, <2>1
<1>14. ~SessionJobFails(w)
  BY <1>5 DEF SessionJobFails
<1>15. CASE WorkerRestarts(w)
  <2>1. /\ \A v \in Workers : storing'[v] = <<>>
        /\ sessionQueue' = storing[w] \o sessionQueue /\ UNCHANGED history
    BY <1>2, <1>15 DEF WorkerRestarts, OneAtATime
  <2>2. storing[w] \in AtMostOne(J)
    BY <1>2
  <2>3. /\ Followed(sessionQueue', Items(s), Ends(s))
        /\ Holds(sessionQueue, Ends(s)) => Holds(sessionQueue', Ends(s))
    BY <1>2, <1>3, <2>1, <2>2, PutBack
  <2> QED BY <1>3, <1>6, <1>7, <2>1, <2>3
<1> QED BY <1>10, <1>11, <1>12, <1>13, <1>14, <1>15 DEF SessionProcessor

\* A step that begins nothing in an ended session, ends none, and answers the end of none.
LEMMA EndsStay ==
  ASSUME FitInv, EndsHold, SessionsGo, UNCHANGED <<sessionQueue, storing, history>>,
         DOMAIN call \subseteq DOMAIN call',
         \A c \in DOMAIN call' : EndsRight(call'[c]),
         \A c \in DOMAIN call', s \in DOMAIN session :
           PlaysIn(call'[c], s) => c \in DOMAIN call /\ (PlaysIn(call[c], s) \/ session[s].open),
         \A c \in DOMAIN call', s \in DOMAIN session' :
           /\ Leaves(call'[c], s) => c \in DOMAIN call /\ Leaves(call[c], s)
           /\ EndedBy(call'[c], s) => c \in DOMAIN call /\ EndedBy(call[c], s)
  PROVE  EndsHold'
<1>1. \A c \in DOMAIN call : \A s : Leaves(call[c], s) \/ EndedBy(call[c], s) => s \in DOMAIN session
  BY Lengths DEF FitInv, CallsFit, Names, Leaves, EndedBy
<1>2. ASSUME NEW s \in DOMAIN session, Quiet(s) PROVE Quiet(s)'
  BY <1>2, QuietStays DEF Quiet
<1>3. ASSUME NEW s \in DOMAIN session', NEW c \in DOMAIN call', Leaves(call'[c], s)
      PROVE  Quiet(s)'
  BY <1>1, <1>2, <1>3 DEF EndsHold
<1>4. ASSUME NEW s \in DOMAIN session', NEW c \in DOMAIN call', EndedBy(call'[c], s)
      PROVE  Gone(s)'
  <2>1. s \in DOMAIN session /\ AskedToEnd(s)
    BY <1>1, <1>4 DEF AskedToEnd, EndedBy
  <2>2. Gone(s)
    BY <2>1 DEF EndsHold
  <2> QED BY <1>2, <2>1, <2>2, LeavingStays DEF Gone
<1>5. \A s \in DOMAIN session' : AskedToEnd(s)' => Gone(s)'
  BY <1>4 DEF AskedToEnd, EndedBy
<1>6. \A s \in DOMAIN session' : (\E c \in DOMAIN call' : Leaves(call'[c], s)) => Quiet(s)'
  BY <1>3
<1> QED BY <1>5, <1>6 DEF EndsHold, EndsRight, Leaves

\* The same, of a request that moves.
LEMMA EndsStayBut ==
  ASSUME FitInv, EndsHold, SessionsGo, UNCHANGED <<sessionQueue, storing, history>>,
         NEW c \in DOMAIN call, Moves(c), EndsRight(call'[c]),
         \A s \in DOMAIN session :
           PlaysIn(call'[c], s) => PlaysIn(call[c], s) \/ session[s].open,
         \A s \in DOMAIN session' :
           /\ Leaves(call'[c], s) => Leaves(call[c], s)
           /\ EndedBy(call'[c], s) => EndedBy(call[c], s)
  PROVE  EndsHold'
<1>1. \A d \in DOMAIN call' : EndsRight(call'[d])
  BY DEF Moves, EndsHold
<1>2. \A d \in DOMAIN call', s \in DOMAIN session :
        PlaysIn(call'[d], s) => d \in DOMAIN call /\ (PlaysIn(call[d], s) \/ session[s].open)
  BY DEF Moves
<1>3. \A d \in DOMAIN call', s \in DOMAIN session' :
           /\ Leaves(call'[d], s) => d \in DOMAIN call /\ Leaves(call[d], s)
           /\ EndedBy(call'[d], s) => d \in DOMAIN call /\ EndedBy(call[d], s)
  BY DEF Moves
<1>4. DOMAIN call \subseteq DOMAIN call'
  BY DEF Moves
<1> QED BY <1>1, <1>2, <1>3, <1>4, EndsStay

\* A step of the play service opens no session that is ending.
LEMMA PlayEnds ==
  ASSUME FitInv, Alone, Unharmed({"timeout"}), EndsHold, NEW c \in DOMAIN call, Play(c),
         UNCHANGED processors
  PROVE  EndsHold'
<1>1. /\ Opened(c) \/ Ended(c) \/ Checked(c) \/ Finished(c) \/ Played(c) \/ Settled(c)
      /\ UNCHANGED <<sessionQueue, storing, history>>
  BY Playing DEF FitInv, outlets, processors
<1>2. DOMAIN session = 1..Len(session) /\ Names(call[c], Len(session), Len(bet))
  BY Lengths DEF FitInv, CallsFit
<1>3. UNCHANGED session => SessionsGo
  BY DEF SessionsGo
<1>4. CASE Opened(c)
  BY <1>1, <1>4, EndsStayBut
     DEF Opened, GoesOn, Moves, EndsRight, PlaysIn, Leaves, EndedBy, PlayOps
<1>5. CASE Checked(c)
  BY <1>1, <1>3, <1>5, EndsStayBut
     DEF Checked, GoesOn, Moves, EndsRight, PlaysIn, Leaves, EndedBy, PlayOps, service
<1>6. CASE Finished(c)
  BY <1>1, <1>6, EndsStayBut
     DEF Finished, Answered, Moves, EndsRight, PlaysIn, Leaves, EndedBy, PlayOps, SameSessions
<1>7. CASE Played(c)
  BY <1>1, <1>3, <1>7, EndsStayBut
     DEF Played, GoesOn, Moves, EndsRight, PlaysIn, Leaves, EndedBy, PlayOps, service
<1>8. CASE Settled(c)
  <2>1. /\ Moves(c) /\ call'[c].at = "fanout" /\ call'[c].view = call[c].view
        /\ call[c].op \in PlayOps /\ call[c].at = "checked" /\ SessionsGo
    BY <1>8 DEF Settled, GoesOn, PlayOps, SameSessions
  <2> QED BY <1>1, <2>1, EndsStayBut
          DEF Moves, EndsRight, PlaysIn, Leaves, EndedBy, PlayOps
<1>9. CASE Ended(c)
  <2>1. /\ Moves(c) /\ call'[c].at = "fanout" /\ call'[c].todo = <<"ended">>
        /\ call'[c].view = call[c].view /\ call[c].op = "endSession" /\ call[c].at = "queued"
        /\ SessionsGo /\ DOMAIN session' = DOMAIN session
        /\ call[c].sid \in DOMAIN session => ~session'[call[c].sid].open
    BY <1>9 DEF Ended, GoesOn, SameSessions
  <2>2. \A d \in DOMAIN call : ~PlaysIn(call'[d], call[c].sid)
    <3>1. \A d \in DOMAIN call : Handled(d) => d = c
      BY <2>1 DEF Alone, Handled
    <3> QED BY <2>1, <3>1 DEF Moves, PlaysIn, Handled, PlayOps
  <2>3. \A d \in DOMAIN call' : EndsRight(call'[d])
    BY <2>1 DEF Moves, EndsHold, EndsRight
  <2>4. ASSUME NEW s \in DOMAIN session, Quiet(s) PROVE Quiet(s)'
    <3>1. \A d \in DOMAIN call' : PlaysIn(call'[d], s) => d \in DOMAIN call /\ PlaysIn(call[d], s)
      BY <2>1 DEF Moves, PlaysIn, PlayOps
    <3> QED BY <2>1, <2>4, <3>1, QuietStays DEF Moves
  <2>5. ASSUME NEW s \in DOMAIN session', NEW d \in DOMAIN call', Leaves(call'[d], s)
        PROVE  Quiet(s)'
    <3>1. CASE d = c
      <4>1. s = call[c].sid
        BY <2>1, <2>5, <3>1 DEF Leaves, Moves
      <4> QED BY <2>1, <2>2, <4>1 DEF Quiet, Moves, PlaysIn
    <3>2. CASE d # c
      BY <2>1, <2>4, <2>5, <3>2 DEF Moves, EndsHold
    <3> QED BY <3>1, <3>2
  <2>6. ASSUME NEW s \in DOMAIN session', NEW d \in DOMAIN call', EndedBy(call'[d], s)
        PROVE  Gone(s)'
    <3>1. s \in DOMAIN session /\ d \in DOMAIN call /\ EndedBy(call[d], s)
      BY <2>1, <2>6 DEF Moves, EndedBy
    <3>2. Gone(s)
      BY <3>1 DEF EndsHold, AskedToEnd, EndedBy
    <3> QED BY <1>1, <2>4, <3>1, <3>2, LeavingStays DEF Gone
  <2>7. \A s \in DOMAIN session' : AskedToEnd(s)' => Gone(s)'
    BY <2>6 DEF AskedToEnd, EndedBy
  <2> QED BY <2>3, <2>5, <2>7 DEF EndsHold, EndsRight, Leaves
<1> QED BY <1>1, <1>4, <1>5, <1>6, <1>7, <1>8, <1>9

\* What is published for a session that is ended is its end; the answer comes after it.
LEMMA PublishEnds ==
  ASSUME FitInv, EndsHold, NEW c \in DOMAIN call, Publish(c), UNCHANGED processors
  PROVE  EndsHold'
<1> DEFINE to == Head(call[c].todo)
           J == SessionJobs(Len(session), Len(bet))
<1>1. /\ AnswersInv /\ Names(call[c], Len(session), Len(bet)) /\ OutsideFits
      /\ DOMAIN session = 1..Len(session)
  BY Lengths DEF FitInv, CallsFit
<1>2. /\ call[c].at = "fanout" /\ UNCHANGED <<session, bet, history, storing>> /\ Deliver(c, to)
  BY DEF Publish, Publishes, service, processors
<1>3. call[c].todo \in Seq(Outlets) /\ call[c].todo # <<>> /\ call[c].op \in Ops
  BY <1>1, <1>2, CallIs DEF Calls, Sound
<1>4. to \in Outlets /\ to \in Named(call[c].todo)
  BY <1>3, NamedTail
<1>5. call[c].op = "endSession" => call[c].todo = <<"ended">> /\ to = "ended" /\ Len(call[c].todo) = 1
  <2>1. Len(<<"ended">>) = 1 /\ Head(<<"ended">>) = "ended"
    OBVIOUS
  <2> QED BY <1>2, <2>1 DEF EndsHold, EndsRight
<1>6. Passed(c)
  BY <1>1, <1>2, Passing DEF Publish
<1>7. /\ Moves(c) /\ EndsRight(call'[c])
      /\ \A s : PlaysIn(call'[c], s) => PlaysIn(call[c], s)
      /\ \A s : ~Leaves(call'[c], s)
      /\ \A s : EndedBy(call'[c], s) => Leaves(call[c], s)
  BY <1>2, <1>5, <1>6
     DEF Passed, Answered, GoesOn, Moves, EndsRight, PlaysIn, Leaves, EndedBy
<1>8. sessionQueue \in Seq(J)
  BY <1>1 DEF OutsideFits, QueuesFit
<1>9. ASSUME NEW s \in DOMAIN session, Quiet(s) PROVE Quiet(s)'
  <2>1. \A d \in DOMAIN call' : PlaysIn(call'[d], s) => d \in DOMAIN call /\ PlaysIn(call[d], s)
    BY <1>7 DEF Moves
  <2>2. SessionsGo /\ DOMAIN call \subseteq DOMAIN call'
    BY <1>2, <1>7 DEF SessionsGo, Moves
  <2> QED BY <1>9, <2>1, <2>2, QuietStays
<1>10. ASSUME NEW s \in DOMAIN session, Quiet(s),
              Leaving(s) \/ (to = "ended" /\ call[c].sid = s)
       PROVE  Leaving(s)'
  <2>1. CASE to \notin {"history", "ended"}
    <3>1. UNCHANGED sessionQueue
      BY <1>2, <1>4, <2>1 DEF Deliver, Outlets
    <3> QED BY <1>2, <1>10, <2>1, <3>1, LeavingStays
  <2>2. ASSUME NEW job \in J, sessionQueue' = Append(sessionQueue, job), job \notin Items(s),
               Leaving(s) \/ job \in Ends(s)
        PROVE  Leaving(s)'
    <3>1. /\ Followed(sessionQueue', Items(s), Ends(s))
          /\ Holds(sessionQueue, Ends(s)) \/ job \in Ends(s) => Holds(sessionQueue', Ends(s))
      BY <1>8, <2>2, Queued DEF Leaving
    <3> QED BY <1>2, <2>2, <3>1 DEF Leaving, Followed, Holds, Items, Ends
  <2>3. CASE to = "history"
    <3> DEFINE job == [name |-> "history", sid |-> call[c].sid, item |-> call[c].bet]
    <3>1. sessionQueue' = Append(sessionQueue, job)
      BY <1>2, <2>3 DEF Deliver
    <3>2. call[c].op \in PlayOps
      BY <1>1, <1>3, <1>4, <1>5, <2>3 DEF Names, Ops, PlayOps
    <3>3. call[c].sid # s
      BY <1>2, <1>10, <3>2 DEF Quiet, PlaysIn
    <3>4. job \in J
      BY <1>1, <1>4, <2>3, <3>2 DEF SessionJobs, Names, PlayOps
    <3>5. job.sid # s
      BY <3>3
    <3> HIDE DEF job
    <3>6. job \notin Items(s)
      BY <3>4, <3>5, SessionJobIs
    <3> QED BY <1>10, <2>2, <2>3, <3>1, <3>4, <3>6
  <2>4. CASE to = "ended"
    <3> DEFINE job == [name |-> "ended", sid |-> call[c].sid, item |-> 0]
    <3>1. sessionQueue' = Append(sessionQueue, job)
      BY <1>2, <2>4 DEF Deliver
    <3>2. call[c].sid \in 1..Len(session) /\ 0 \in 0..Len(bet)
      <4>1. Len(bet) \in Nat
        BY Lengths DEF FitInv
      <4> QED BY <1>1, <1>4, <2>4, <4>1 DEF Names
    <3>3. job \in J /\ job.name = "ended" /\ job.sid = call[c].sid
      BY <3>2 DEF SessionJobs
    <3> HIDE DEF job
    <3>4. job \notin Items(s) /\ (call[c].sid = s => job \in Ends(s))
      BY <3>3, SessionJobIs
    <3> QED BY <1>10, <2>2, <3>1, <3>3, <3>4
  <2> QED BY <2>1, <2>3, <2>4
<1>11. \A d \in DOMAIN call' : EndsRight(call'[d])
  BY <1>7 DEF Moves, EndsHold
<1>12. ASSUME NEW s \in DOMAIN session', NEW d \in DOMAIN call', Leaves(call'[d], s)
       PROVE  Quiet(s)'
  <2>1. s \in DOMAIN session /\ d \in DOMAIN call /\ Leaves(call[d], s)
    BY <1>2, <1>7, <1>12 DEF Moves
  <2> QED BY <1>9, <2>1 DEF EndsHold
<1>13. ASSUME NEW s \in DOMAIN session', NEW d \in DOMAIN call', EndedBy(call'[d], s)
       PROVE  Gone(s)'
  <2>1. s \in DOMAIN session /\ d \in DOMAIN call
    BY <1>2, <1>7 DEF Moves
  <2>2. CASE EndedBy(call[d], s)
    <3>1. Gone(s)
      BY <2>1, <2>2 DEF EndsHold, AskedToEnd, EndedBy
    <3> QED BY <1>9, <1>10, <2>1, <3>1 DEF Gone
  <2>3. CASE ~EndedBy(call[d], s)
    <3>1. Leaves(call[c], s)
      BY <1>7, <1>13, <2>1, <2>3 DEF Moves
    <3>2. Quiet(s)
      BY <2>1, <3>1 DEF EndsHold
    <3> QED BY <1>5, <1>9, <1>10, <2>1, <3>1, <3>2 DEF Gone, Leaves
  <2> QED BY <2>2, <2>3
<1>14. \A s \in DOMAIN session' : AskedToEnd(s)' => Gone(s)'
  BY <1>13 DEF AskedToEnd, EndedBy
<1> QED BY <1>11, <1>12, <1>14 DEF EndsHold, EndsRight, Leaves

\* EndsInv is inductive for one tab and one worker.
LEMMA EndsKeeps ==
  ASSUME OneAtATime, FitInv, Alone, EndsInv, [Next]_vars
  PROVE  EndsInv'
<1>1. AnswersInv /\ FaultType /\ FaultsGrow
  BY FaultsOnlyGrow DEF FitInv, AnswersInv
<1>2. SUFFICES ASSUME Ending' PROVE EndsHold'
  BY DEF EndsInv
<1>3. Unharmed({"timeout"}) /\ EndsHold
  <2>1. Ending
    BY <1>1, <1>2, StillUnharmed DEF Ending, FaultKinds
  <2> QED BY <2>1 DEF Ending, Unharmed, EndsInv
<1>4. ASSUME NEW kind \in {"publish", "timeout"}, Fault(kind) PROVE FALSE
  BY <1>1, <1>2, <1>4, Harmed DEF Ending, FaultKinds
<1>5. UNCHANGED session => SessionsGo
  BY DEF SessionsGo
<1>6. ASSUME SendAny, UNCHANGED processors PROVE EndsHold'
  <2>1. PICK op, g, sid : Send(op, g, sid)
    BY <1>6 DEF SendAny
  <2> DEFINE k == [op |-> op, game |-> g, sid |-> sid, at |-> "queued",
                   view |-> "waiting", todo |-> <<>>, bet |-> 0]
             n == Len(call) + 1
  <2>2. /\ k.at = "queued" /\ k.view = "waiting" /\ call' = Append(call, k)
        /\ UNCHANGED <<session, sessionQueue, storing, history>>
    BY <1>6, <2>1 DEF Send, service, outlets, processors
  <2> HIDE DEF k
  <2>3. DOMAIN call = 1..Len(call) /\ Len(call) \in Nat /\ call \in Seq(Calls)
    BY <1>1, Lengths DEF AnswersInv, CallType
  <2>4. /\ DOMAIN call' = DOMAIN call \cup {n} /\ call'[n] = k
        /\ \A d \in DOMAIN call : call'[d] = call[d]
    BY <2>2, <2>3
  <2>5. \A s : ~PlaysIn(k, s) /\ ~Leaves(k, s) /\ ~EndedBy(k, s) /\ EndsRight(k)
    BY <2>2 DEF PlaysIn, Leaves, EndedBy, EndsRight
  <2>6. \A d \in DOMAIN call' : EndsRight(call'[d])
    BY <1>3, <2>4, <2>5 DEF EndsHold
  <2>7. \A d \in DOMAIN call', s \in DOMAIN session :
          PlaysIn(call'[d], s) => d \in DOMAIN call /\ (PlaysIn(call[d], s) \/ session[s].open)
    BY <2>4, <2>5
  <2>8. \A d \in DOMAIN call', s \in DOMAIN session' :
           /\ Leaves(call'[d], s) => d \in DOMAIN call /\ Leaves(call[d], s)
           /\ EndedBy(call'[d], s) => d \in DOMAIN call /\ EndedBy(call[d], s)
    BY <2>4, <2>5
  <2> QED BY <1>3, <1>5, <2>2, <2>4, <2>6, <2>7, <2>8, EndsStay
<1>7. ASSUME NEW c \in DOMAIN call, Timeout(c), UNCHANGED processors PROVE EndsHold'
  <2>1. /\ call[c].at = "lost" /\ UNCHANGED <<session, sessionQueue, storing, history>>
    BY <1>4, <1>7 DEF Timeout, service, outlets, processors
  <2>2. Moves(c) /\ call'[c].at = "lost" /\ call'[c].view = "unavailable"
    BY <1>1, <1>7, <2>1, GivingUp
  <2>3. EndsRight(call'[c]) /\ \A s : ~PlaysIn(call'[c], s) /\ ~Leaves(call'[c], s) /\ ~EndedBy(call'[c], s)
    BY <2>2 DEF EndsRight, PlaysIn, Leaves, EndedBy
  <2> QED BY <1>3, <1>5, <2>1, <2>2, <2>3, EndsStayBut
<1>8. ASSUME NEW c \in DOMAIN call, Handler(c), UNCHANGED processors PROVE EndsHold'
  BY <1>3, <1>4, <1>8, PlayEnds, PublishEnds DEF Handler, PublishFails
<1>9. ASSUME EngineRestarts, UNCHANGED processors PROVE EndsHold'
  <2>1. UNCHANGED <<session, sessionQueue, storing, history>>
    BY <1>9 DEF EngineRestarts, service, outlets, processors
  <2>2. /\ DOMAIN call' = DOMAIN call
        /\ \A c \in DOMAIN call :
             /\ call'[c].op = call[c].op /\ call'[c].sid = call[c].sid /\ call'[c].view = call[c].view
             /\ call'[c] = call[c] \/ call'[c].at = "lost"
    BY <1>1, <1>9, Losing
  <2>3. \A c \in DOMAIN call' : EndsRight(call'[c])
    BY <1>3, <2>2 DEF EndsHold, EndsRight
  <2>4. \A c \in DOMAIN call', s \in DOMAIN session :
          PlaysIn(call'[c], s) => c \in DOMAIN call /\ (PlaysIn(call[c], s) \/ session[s].open)
    BY <2>2 DEF PlaysIn
  <2>5. \A c \in DOMAIN call', s \in DOMAIN session' :
           /\ Leaves(call'[c], s) => c \in DOMAIN call /\ Leaves(call[c], s)
           /\ EndedBy(call'[c], s) => c \in DOMAIN call /\ EndedBy(call[c], s)
    BY <2>2 DEF Leaves, EndedBy
  <2> QED BY <1>3, <1>5, <2>1, <2>2, <2>3, <2>4, <2>5, EndsStay
<1>10. ASSUME UNCHANGED <<session, call>>,
              \A s : Leaving(s) => Leaving(s)'
       PROVE  EndsHold'
  BY <1>3, <1>10 DEF EndsHold, EndsRight, Leaves, AskedToEnd, Gone, Quiet, PlaysIn
<1>11. ASSUME NEW w \in Workers, RealtimeProcessor(w) \/ SessionProcessor(w) \/ WorkerRestarts(w)
       PROVE  EndsHold'
  <2>1. UNCHANGED <<session, call>>
    BY <1>1, <1>11, WorkersAreQuiet DEF service
  <2>2. CASE RealtimeProcessor(w)
    <3>1. UNCHANGED <<sessionQueue, storing, history>>
      BY <2>2 DEF RealtimeProcessor, TakeRealtime, Announce
    <3> QED BY <1>10, <2>1, <3>1, LeavingStays
  <2>3. CASE SessionProcessor(w) \/ WorkerRestarts(w)
    BY <1>2, <1>10, <2>1, <2>3, WorkerLeaves
  <2> QED BY <1>11, <2>2, <2>3
<1>12. ASSUME NEW i \in bus, OnBetSettled(i) PROVE EndsHold'
  <2>1. UNCHANGED <<session, call, sessionQueue, storing, history>>
    BY <1>12 DEF OnBetSettled, service, processors
  <2> QED BY <1>10, <2>1, LeavingStays
<1>13. ASSUME NEW t \in DOMAIN history, HistoryExpires(t) PROVE EndsHold'
  <2>1. /\ UNCHANGED <<session, call, sessionQueue, storing>>
        /\ history' = [history EXCEPT ![t] = <<>>]
    BY <1>13 DEF HistoryExpires, service, outlets, processors
  <2>2. \A s : history'[s] = <<>> \/ history'[s] = history[s]
    <3>1. history \in [1..MaxSessions -> Seq(1..Len(bet))]
      BY DEF FitInv, OutsideFits, HistoryFits
    <3> QED BY <2>1, <3>1
  <2>3. \A s : Leaving(s) => Leaving(s)'
    BY <2>1, <2>2 DEF Leaving, Followed, Holds, Items, Ends
  <2> QED BY <1>10, <2>1, <2>3
<1>14. CASE UNCHANGED vars
  <2>1. UNCHANGED <<session, call, sessionQueue, storing, history>>
    BY <1>14 DEF vars, service, outlets, processors
  <2> QED BY <1>10, <2>1, LeavingStays
<1>15. CASE Engine /\ UNCHANGED processors
  BY <1>6, <1>7, <1>8, <1>9, <1>15 DEF Engine
<1> QED BY <1>11, <1>12, <1>13, <1>14, <1>15 DEF Next

\* The "ended" job comes behind every job of its session: with one request and one worker at
\* a time, once a player's request to end a session is answered nothing more is played in it,
\* and whatever puts a bet in its history, also a job repeated by a worker that died, is
\* followed by a job that deletes it, unless a queue or Redis refused a job or the gateway
\* gave up on a request.  The engine and the worker may stop.
THEOREM EndedHistoriesStayGone ==
  ASSUME OneAtATime PROVE Spec => []EndedHistoryStaysGone
<1>1. Init => FitInv /\ Alone /\ EndsInv
  <2> SUFFICES ASSUME Init PROVE FitInv /\ Alone /\ EndsInv
    OBVIOUS
  <2>1. DOMAIN call = {}
    BY EmptySeq DEF Init, InitEngine
  <2> QED BY <2>1, InitFits, TellsAtFirst DEF EndsInv, EndsHold, AskedToEnd
<1>2. FitInv /\ Alone /\ EndsInv /\ [Next]_vars => FitInv' /\ Alone' /\ EndsInv'
  BY NextFits, AloneKeeps, EndsKeeps DEF FitInv
<1>3. FitInv /\ EndsInv => EndedHistoryStaysGone
  BY GoneIsGone
<1> QED BY <1>1, <1>2, <1>3, PTL DEF Spec

---------------------------------------------------------------------------
(* The history of a session                                                 *)

\* The bets that jobs put in a history.
JobItems(Q) == {j.item : j \in {k \in Q : k.name = "history"}}

\* Of the jobs that put bets in a history, later ones put in newer bets.
Ascending(q) ==
  \A m, n \in DOMAIN q :
    m < n /\ q[m].name = "history" /\ q[n].name = "history" => q[m].item < q[n].item

\* A request that is to queue its bet for the history of session s, last of what it publishes.
Adding(k)   == k.at = "fanout" /\ "history" \in Named(k.todo)
Adds(k, s)  == Adding(k) /\ k.sid = s
LastOnly(todo) == \A n \in DOMAIN todo : todo[n] = "history" => n = Len(todo)
CallRight(k) ==
  /\ LastOnly(k.todo)
  /\ "ended" \in Named(k.todo) => k.op = "endSession"

\* Bets on their way to a history: queued, in the hands of a worker, still to be queued.
HandJobs  == UNION {Named(storing[w]) : w \in {v \in Workers : ~stored[v]}}
QueuedBets == JobItems(Named(sessionQueue))
HandBets   == JobItems(HandJobs)
CallBets   == {call[c].bet : c \in {d \in DOMAIN call : Adding(call[d])}}
Awaited    == QueuedBets \cup HandBets \cup CallBets

\* They are on their way in the order in which they were settled, each to its session.
InOrder ==
  /\ Ascending(sessionQueue)
  /\ \A h \in HandBets, q \in QueuedBets : h < q
  /\ \A x \in CallBets, a \in QueuedBets \cup HandBets : a < x
CallsRight ==
  /\ \A c \in DOMAIN call : CallRight(call[c])
  /\ \A c \in DOMAIN call : \A s : Adds(call[c], s) => call[c].bet \in BetsOf(s)
JobsRight ==
  \A j \in Named(sessionQueue) \cup HandJobs : j.name = "history" => j.item \in BetsOf(j.sid)
HandsRight ==
  \A w \in Workers : ~stored[w] => \A j \in Named(storing[w]) : existing[w] = history[j.sid]

\* What has arrived in the history of session s is the latest of its bets that are not on
\* their way, and these are newer.
Kept(s) ==
  /\ \A j \in Named(sessionQueue) : j.sid = s => j.name = "history"
  /\ AreTheLatest(history[s], BetsOf(s) \ Awaited)
  /\ \A a \in BetsOf(s) \cap Awaited, d \in BetsOf(s) \ Awaited : d < a

KeptHold ==
  /\ CallsRight /\ JobsRight /\ HandsRight /\ InOrder
  /\ \A s \in 1..MaxSessions : ~AskedToEnd(s) => Kept(s)
KeptInv == Unharmed(FaultKinds) => KeptHold

\* With nothing on its way the history is the latest bets of its session.
LEMMA KeptIsTheSession == ASSUME FitInv, KeptInv PROVE HistoryIsTheSession
<1> SUFFICES ASSUME Idle, Unharmed(FaultKinds), NEW s \in DOMAIN session, ~AskedToEnd(s)
             PROVE  AreTheLatest(history[s], BetsOf(s))
  BY DEF HistoryIsTheSession
<1>1. s \in 1..MaxSessions
  <2>1. s \in 1..Len(session)
    BY Lengths DEF FitInv
  <2>2. Len(session) \in Nat /\ Len(session) <= MaxSessions /\ MaxSessions \in Nat
    BY WithinBounds
  <2> QED BY <2>1, <2>2
<1>2. Kept(s)
  BY <1>1 DEF KeptInv, KeptHold
<1>3. Awaited = {}
  <2>1. Named(sessionQueue) = {} /\ \A w \in Workers : Named(storing[w]) = {}
    BY NamedEmpty DEF Idle
  <2>2. CallBets = {}
    BY DEF Idle, CallBets, Adding, Handled
  <2> QED BY <2>1, <2>2 DEF Awaited, QueuedBets, HandBets, HandJobs, JobItems
<1>4. BetsOf(s) \ Awaited = BetsOf(s)
  BY <1>3
<1> QED BY <1>2, <1>4 DEF Kept

\* A step that puts nothing on its way or further.
LEMMA KeptStays ==
  ASSUME KeptHold, UNCHANGED <<sessionQueue, storing, stored, existing, history>>,
         \A s : BetsOf(s)' = BetsOf(s), CallBets' = CallBets,
         \A c \in DOMAIN call' : CallRight(call'[c]),
         \A c \in DOMAIN call' : \A s : Adds(call'[c], s) => call'[c].bet \in BetsOf(s),
         \A s : AskedToEnd(s) => AskedToEnd(s)'
  PROVE  KeptHold'
<1>1. UNCHANGED <<QueuedBets, HandJobs, HandBets>>
  BY DEF QueuedBets, HandBets, HandJobs, JobItems, Named
<1>2. Awaited' = Awaited
  BY <1>1 DEF Awaited
<1>3. InOrder'
  BY <1>1 DEF KeptHold, InOrder, Ascending
<1>4. JobsRight' /\ HandsRight'
  BY <1>1 DEF KeptHold, JobsRight, HandsRight, Named
<1>5. CallsRight'
  BY DEF CallsRight, CallRight, Adds, Adding, LastOnly, Named
<1>6. ASSUME NEW s \in 1..MaxSessions, ~AskedToEnd(s)' PROVE Kept(s)'
  <2>1. Kept(s)
    BY <1>6 DEF KeptHold
  <2> QED BY <1>2, <2>1 DEF Kept, AreTheLatest, Named
<1> QED BY <1>3, <1>4, <1>5, <1>6 DEF KeptHold

\* The same, of a request that moves.
LEMMA KeptStaysBut ==
  ASSUME KeptHold, UNCHANGED <<sessionQueue, storing, stored, existing, history>>,
         \A s : BetsOf(s)' = BetsOf(s), NEW c \in DOMAIN call, Moves(c),
         CallRight(call'[c]), Adding(call'[c]) <=> Adding(call[c]),
         Adding(call[c]) => call'[c].bet = call[c].bet,
         call'[c].view = call[c].view \/ call[c].view = "waiting"
  PROVE  KeptHold'
<1>1. CallBets' = CallBets
  BY DEF CallBets, Moves, Adding, Named
<1>2. \A d \in DOMAIN call' : CallRight(call'[d])
  BY DEF Moves, KeptHold, CallsRight
<1>3. \A d \in DOMAIN call' : \A s : Adds(call'[d], s) => call'[d].bet \in BetsOf(s)
  BY DEF Moves, KeptHold, CallsRight, Adds
<1>4. \A s : AskedToEnd(s) => AskedToEnd(s)'
  BY DEF Moves, AskedToEnd
<1> QED BY <1>1, <1>2, <1>3, <1>4, KeptStays

\* What a request publishes when it begins to.
LEMMA FanoutRight ==
  /\ LastOnly(<<>>) /\ LastOnly(<<"realtime">>) /\ LastOnly(<<"ended">>)
  /\ \A pays \in BOOLEAN : LastOnly(FanoutBet(pays))
<1>1. LastOnly(<<>>) /\ LastOnly(<<"realtime">>) /\ LastOnly(<<"ended">>)
  BY EmptySeq DEF LastOnly
<1>2. ASSUME NEW a \in Seq(Outlets), NEW b \in Seq(Outlets), "history" \notin Named(a), LastOnly(b)
      PROVE  LastOnly(a \o b)
  <2>1. /\ a \o b \in Seq(Outlets) /\ Len(a \o b) = Len(a) + Len(b)
        /\ \A i \in 1..Len(a) + Len(b) : (a \o b)[i] = IF i <= Len(a) THEN a[i] ELSE b[i - Len(a)]
    BY ConcatProperties
  <2>2. /\ DOMAIN a = 1..Len(a) /\ DOMAIN b = 1..Len(b) /\ DOMAIN (a \o b) = 1..Len(a \o b)
        /\ Len(a) \in Nat /\ Len(b) \in Nat
    BY <2>1, LenProperties
  <2> SUFFICES ASSUME NEW n \in DOMAIN (a \o b), (a \o b)[n] = "history" PROVE n = Len(a \o b)
    BY DEF LastOnly
  <2>3. ~(n <= Len(a))
    BY <1>2, <2>1, <2>2 DEF Named
  <2>4. n - Len(a) \in DOMAIN b /\ b[n - Len(a)] = "history"
    BY <2>1, <2>2, <2>3
  <2>5. n - Len(a) = Len(b)
    BY <1>2, <2>4 DEF LastOnly
  <2> QED BY <2>1, <2>2, <2>5
<1>3. ASSUME NEW pays \in BOOLEAN PROVE LastOnly(FanoutBet(pays))
  <2> DEFINE first == <<"user">>
             lobby == IF pays THEN <<"lobby">> ELSE <<>>
             last  == <<"bus", "realtime", "history">>
  <2>1. first \in Seq(Outlets) /\ last \in Seq(Outlets) /\ lobby \in Seq(Outlets)
    <3>1. <<"lobby">> \in Seq(Outlets) /\ first \in Seq(Outlets) /\ last \in Seq(Outlets)
      BY DEF Outlets
    <3> QED BY <3>1, NoNames
  <2>2. LastOnly(last)
    <3>1. last[1] = "bus" /\ last[2] = "realtime" /\ DOMAIN last = 1..3 /\ Len(last) = 3
      OBVIOUS
    <3>2. \A n \in 1..3 : n = 1 \/ n = 2 \/ n = 3
      OBVIOUS
    <3> QED BY <3>1, <3>2 DEF LastOnly
  <2>3. "history" \notin Named(first) /\ "history" \notin Named(lobby)
    BY NamedEmpty
  <2>4. FanoutBet(pays) = (first \o lobby) \o last
    BY DEF FanoutBet
  <2> HIDE DEF first, lobby, last
  <2>5. first \o lobby \in Seq(Outlets) /\ "history" \notin Named(first \o lobby)
    BY <2>1, <2>3, NamedJoin, ConcatProperties
  <2> QED BY <1>2, <2>1, <2>2, <2>4, <2>5
<1> QED BY <1>1, <1>3

\* What is last stays last.
LEMMA RestRight ==
  ASSUME NEW todo \in Seq(Outlets), todo # <<>>, LastOnly(todo)
  PROVE  /\ LastOnly(Tail(todo))
         /\ Head(todo) = "history" => Len(todo) = 1
<1>1. /\ Tail(todo) \in Seq(Outlets) /\ Len(Tail(todo)) = Len(todo) - 1 /\ Head(todo) = todo[1]
      /\ \A n \in 1..Len(Tail(todo)) : Tail(todo)[n] = todo[n + 1]
  BY HeadTailProperties
<1>2. /\ DOMAIN todo = 1..Len(todo) /\ Len(todo) \in Nat \ {0}
      /\ DOMAIN Tail(todo) = 1..Len(Tail(todo))
  BY <1>1, LenProperties, EmptySeq
<1>3. 1 \in DOMAIN todo
  BY <1>2
<1>4. ASSUME NEW n \in DOMAIN Tail(todo), Tail(todo)[n] = "history" PROVE n = Len(Tail(todo))
  <2>1. n + 1 \in DOMAIN todo /\ todo[n + 1] = "history"
    BY <1>1, <1>2, <1>4
  <2>2. n + 1 = Len(todo)
    BY <2>1 DEF LastOnly
  <2> QED BY <1>1, <1>2, <2>2
<1> QED BY <1>1, <1>3, <1>4 DEF LastOnly

\* The names of a queue with one more at its end.
LEMMA NamedAppend ==
  ASSUME NEW S, NEW q \in Seq(S), NEW x \in S
  PROVE  Named(Append(q, x)) = Named(q) \cup {x}
<1> DEFINE n == Len(q) + 1
           r == Append(q, x)
<1>1. DOMAIN r = DOMAIN q \cup {n} /\ r[n] = x /\ \A i \in DOMAIN q : r[i] = q[i]
  OBVIOUS
<1> HIDE DEF r, n
<1> QED BY <1>1 DEF Named, r

\* A queue with one more job at its end, and one without its head.
LEMMA OrderQueued ==
  ASSUME NEW S, NEW q \in Seq(S), NEW job \in S, Ascending(q),
         job.name = "history" => \A j \in Named(q) : j.name = "history" => j.item < job.item
  PROVE  Ascending(Append(q, job))
<1> DEFINE n == Len(q) + 1
           r == Append(q, job)
<1>1. /\ DOMAIN q = 1..Len(q) /\ Len(q) \in Nat /\ DOMAIN r = DOMAIN q \cup {n} /\ r[n] = job
      /\ \A i \in DOMAIN q : r[i] = q[i] /\ i < n /\ ~(n < i)
  OBVIOUS
<1> HIDE DEF r
<1>2. ~(n < n)
  BY <1>1
<1> HIDE DEF n
<1>3. \A i \in DOMAIN q : q[i] \in Named(q)
  BY DEF Named
<1>4. Ascending(r)
  BY <1>1, <1>2, <1>3 DEF Ascending
<1> QED BY <1>4 DEF r

\* Taking the head off an ascending queue leaves the bets newer than it.
LEMMA OrderDequeued ==
  ASSUME NEW S, NEW q \in Seq(S), q # <<>>, Ascending(q)
  PROVE  /\ Ascending(Tail(q)) /\ Named(q) = {Head(q)} \cup Named(Tail(q))
         /\ Head(q).name = "history" =>
              \A j \in Named(Tail(q)) : j.name = "history" => Head(q).item < j.item
<1> DEFINE r == Tail(q)
<1>1. /\ r \in Seq(S) /\ Len(r) = Len(q) - 1 /\ Head(q) = q[1]
      /\ \A i \in 1..Len(r) : r[i] = q[i + 1]
  BY HeadTailProperties
<1>2. /\ DOMAIN q = 1..Len(q) /\ Len(q) \in Nat \ {0} /\ DOMAIN r = 1..Len(r)
  BY <1>1, LenProperties, EmptySeq
<1>3. Named(q) = {Head(q)} \cup Named(r)
  BY NamedTail
<1> HIDE DEF r
<1>4. /\ \A i \in DOMAIN r : i + 1 \in DOMAIN q /\ r[i] = q[i + 1] /\ 1 < i + 1
      /\ \A i, j \in DOMAIN r : i < j => i + 1 < j + 1
      /\ 1 \in DOMAIN q
  BY <1>1, <1>2
<1>5. Ascending(r)
  <2> SUFFICES ASSUME NEW m \in DOMAIN r, NEW n \in DOMAIN r, m < n,
                      r[m].name = "history", r[n].name = "history"
               PROVE  r[m].item < r[n].item
    BY DEF Ascending
  <2>1. m + 1 \in DOMAIN q /\ n + 1 \in DOMAIN q /\ m + 1 < n + 1
        /\ r[m] = q[m + 1] /\ r[n] = q[n + 1]
    BY <1>4
  <2> QED BY <2>1 DEF Ascending
<1>6. ASSUME q[1].name = "history", NEW n \in DOMAIN r, r[n].name = "history"
      PROVE  q[1].item < r[n].item
  <2>1. n + 1 \in DOMAIN q /\ 1 < n + 1 /\ r[n] = q[n + 1]
    BY <1>4
  <2> QED BY <1>4, <1>6, <2>1 DEF Ascending
<1>7. q[1].name = "history" => \A j \in Named(r) : j.name = "history" => q[1].item < j.item
  BY <1>6 DEF Named
<1> QED BY <1>1, <1>3, <1>5, <1>7 DEF r

\* The list with a newer item is the latest of the items with it.
LEMMA LatestWithItem ==
  ASSUME NEW S, NEW T \in SUBSET Nat, NEW list \in Seq(T), AreTheLatest(list, S), NEW x \in T,
         \A d \in S : d \in Nat /\ d < x
  PROVE  AreTheLatest(WithItem(x, list), S \cup {x})
<1> DEFINE new == WithItem(x, list)
<1>1. /\ new \in Seq(T)
      /\ Len(new) = IF Len(list) < HistoryLimit THEN Len(list) + 1 ELSE HistoryLimit
      /\ new[1] = x
      /\ \A i \in 1..Len(list) : i < HistoryLimit => new[i + 1] = list[i]
  BY WithItemIs
<1>2. /\ DOMAIN list = 1..Len(list) /\ Len(list) \in Nat
      /\ DOMAIN new = 1..Len(new) /\ Len(new) \in Nat
      /\ HistoryLimit \in Nat \ {0} /\ x \in Nat
  BY <1>1, LenProperties, FanoutAssumption
<1> HIDE DEF new
<1>3. /\ Range(list) \subseteq S /\ Len(list) <= HistoryLimit
      /\ \A i, j \in DOMAIN list : i < j => list[i] > list[j]
      /\ \A b \in S \ Range(list) : Len(list) = HistoryLimit /\ \A i \in DOMAIN list : list[i] > b
  BY DEF AreTheLatest
<1>4. \A i \in DOMAIN new : i = 1 \/ (i - 1 \in DOMAIN list /\ new[i] = list[i - 1])
  <2> TAKE i \in DOMAIN new
  <2>1. Len(new) <= Len(list) + 1 /\ Len(new) <= HistoryLimit
    <3>1. /\ Len(list) \in Nat /\ HistoryLimit \in Nat /\ Len(list) <= HistoryLimit
          /\ Len(new) = IF Len(list) < HistoryLimit THEN Len(list) + 1 ELSE HistoryLimit
      BY <1>1, <1>2, <1>3
    <3> QED BY <3>1
  <2>2. i # 1 => i - 1 \in 1..Len(list) /\ i - 1 < HistoryLimit /\ i = (i - 1) + 1
    BY <1>2, <2>1
  <2> QED BY <1>1, <1>2, <2>2
<1>5. \A i \in DOMAIN list : list[i] \in S /\ list[i] \in Nat /\ list[i] < x
  BY <1>3 DEF Range
<1>6. Len(new) <= HistoryLimit /\ 1 \in DOMAIN new
  BY <1>1, <1>2
<1>7. Range(new) \subseteq S \cup {x}
  <2>1. \A i \in DOMAIN new : new[i] \in S \cup {x}
    BY <1>1, <1>4, <1>5
  <2> QED BY <2>1 DEF Range
<1>8. ASSUME NEW i \in DOMAIN new, NEW j \in DOMAIN new, i < j PROVE new[i] > new[j]
  <2>1. j - 1 \in DOMAIN list /\ new[j] = list[j - 1]
    BY <1>2, <1>4, <1>8
  <2>2. CASE i = 1
    BY <1>1, <1>5, <2>1, <2>2
  <2>3. CASE i # 1
    <3>1. i - 1 \in DOMAIN list /\ new[i] = list[i - 1] /\ i - 1 < j - 1
      BY <1>2, <1>4, <1>8, <2>3
    <3> QED BY <1>3, <2>1, <3>1
  <2> QED BY <2>2, <2>3
<1>9. ASSUME NEW b \in (S \cup {x}) \ Range(new)
      PROVE  Len(new) = HistoryLimit /\ \A i \in DOMAIN new : new[i] > b
  <2>1. b \in S /\ b \in Nat /\ b < x
    BY <1>1, <1>6 DEF Range
  <2>2. CASE b \notin Range(list)
    <3>1. Len(list) = HistoryLimit /\ \A i \in DOMAIN list : list[i] > b
      BY <1>3, <2>1, <2>2
    <3>2. Len(new) = HistoryLimit
      BY <1>1, <3>1, <1>2
    <3> QED BY <1>1, <1>4, <2>1, <3>1, <3>2
  <2>3. CASE b \in Range(list)
    <3> PICK k \in DOMAIN list : b = list[k]
      BY <2>3 DEF Range
    <3>1. ~(k < HistoryLimit)
      <4> SUFFICES ASSUME k < HistoryLimit PROVE FALSE
        OBVIOUS
      <4>1. new[k + 1] = list[k] /\ k + 1 \in DOMAIN new
        BY <1>1, <1>2
      <4> QED BY <4>1 DEF Range
    <3>2. k = HistoryLimit /\ Len(list) = HistoryLimit
      <4>1. k \in 1..Len(list) /\ Len(list) <= HistoryLimit
        BY <1>2, <1>3
      <4>2. Len(list) \in Nat /\ HistoryLimit \in Nat
        BY <1>2
      <4> QED BY <3>1, <4>1, <4>2
    <3>3. Len(new) = HistoryLimit
      BY <1>1, <1>2, <3>2
    <3>4. ASSUME NEW i \in DOMAIN new PROVE new[i] > b
      <4>1. CASE i = 1
        BY <1>1, <2>1, <4>1
      <4>2. CASE i # 1
        <5>1. i - 1 \in DOMAIN list /\ new[i] = list[i - 1] /\ i - 1 < k
          BY <1>2, <1>4, <3>2, <3>3, <4>2
        <5> QED BY <1>3, <5>1
      <4> QED BY <4>1, <4>2
    <3> QED BY <3>3, <3>4
  <2> QED BY <2>2, <2>3
<1> QED BY <1>6, <1>7, <1>8, <1>9 DEF AreTheLatest, new

\* A bet that is to be put in a history is one of those of its session, and no bet of another.
LEMMA AwaitedBets ==
  ASSUME FitInv, KeptHold
  PROVE  /\ Awaited \subseteq DOMAIN bet /\ DOMAIN bet = 1..Len(bet) /\ Len(bet) \in Nat
         /\ \A s : BetsOf(s) \subseteq DOMAIN bet
         /\ \A s, t : s # t => BetsOf(s) \cap BetsOf(t) = {}
<1>1. DOMAIN bet = 1..Len(bet) /\ Len(bet) \in Nat
  BY Lengths DEF FitInv
<1>2. \A s : BetsOf(s) \subseteq DOMAIN bet
  BY DEF BetsOf
<1>3. QueuedBets \cup HandBets \subseteq DOMAIN bet
  BY <1>2 DEF KeptHold, JobsRight, QueuedBets, HandBets, JobItems
<1>4. CallBets \subseteq DOMAIN bet
  BY <1>2 DEF KeptHold, CallsRight, CallBets, Adds
<1>5. \A s, t : s # t => BetsOf(s) \cap BetsOf(t) = {}
  BY DEF BetsOf
<1> QED BY <1>1, <1>2, <1>3, <1>4, <1>5 DEF Awaited

\* A bet that is settled is newer than those on their way, and is to be queued behind them.
LEMMA SettledIsKept ==
  ASSUME FitInv, Alone, Unharmed({"timeout"}), KeptHold,
         UNCHANGED <<sessionQueue, storing, stored, existing, history>>,
         NEW c \in DOMAIN call, call[c].at = "checked", call[c].op \in PlayOps,
         NEW how \in {"placed", "cashed_out"}, NEW pays \in BOOLEAN,
         bet' = Append(bet, [sid |-> call[c].sid, how |-> how, pays |-> pays]),
         GoesOn(c, "fanout", FanoutBet(pays), Len(bet) + 1)
  PROVE  KeptHold'
<1> DEFINE n == Len(bet) + 1
           t == call[c].sid
           b == [sid |-> t, how |-> how, pays |-> pays]
<1>1. /\ DOMAIN bet = 1..Len(bet) /\ Len(bet) \in Nat /\ bet \in Seq(Bets)
      /\ Awaited \subseteq DOMAIN bet
      /\ \A s : BetsOf(s) \subseteq DOMAIN bet
  BY AwaitedBets DEF FitInv, AnswersInv, ServiceType
<1>2. b.sid = t /\ b.how = how
  OBVIOUS
<1>3. bet' = Append(bet, b)
  OBVIOUS
<1>4. /\ Moves(c) /\ call'[c].at = "fanout" /\ call'[c].todo = FanoutBet(pays)
      /\ call'[c].bet = n /\ call'[c].view = call[c].view
  BY DEF GoesOn
<1> HIDE DEF b
<1>5. /\ DOMAIN bet' = DOMAIN bet \cup {n} /\ bet'[n] = b /\ n \in Nat
      /\ \A i \in DOMAIN bet : bet'[i] = bet[i] /\ i < n /\ i \in Nat
  <2>1. /\ DOMAIN bet' = DOMAIN bet \cup {n} /\ bet'[n] = b
        /\ \A i \in DOMAIN bet : bet'[i] = bet[i]
    <3>1. DOMAIN bet' = 1..n
      BY <1>1, <1>3
    <3>2. 1..n = (1..Len(bet)) \cup {n}
      BY <1>1
    <3>3. bet'[n] = b /\ \A i \in DOMAIN bet : bet'[i] = bet[i]
      BY <1>1, <1>3
    <3> HIDE DEF n
    <3> QED BY <1>1, <3>1, <3>2, <3>3
  <2> QED BY <1>1, <2>1
<1> HIDE DEF n
<1>6. \A s : BetsOf(s)' = BetsOf(s) \cup {i \in {n} : s = t}
  BY <1>2, <1>5 DEF BetsOf, FannedOut
<1>7. \A d \in DOMAIN call : ~Adding(call[d])
  BY DEF Alone, Adding, Handled
<1>8. CallBets = {} /\ CallBets' = {n}
  <2>1. \A d \in DOMAIN call' : Adding(call'[d]) <=> d = c
    BY <1>4, <1>7, NamedFanout DEF Moves, Adding
  <2> QED BY <1>4, <1>7, <2>1 DEF CallBets, Moves, Adding, Named
<1>9. UNCHANGED <<QueuedBets, HandJobs, HandBets>>
  BY DEF QueuedBets, HandBets, HandJobs, JobItems, Named
<1>10. Awaited' = Awaited \cup {n} /\ n \notin Awaited /\ n \notin DOMAIN bet
  <2>1. ~(n < n)
    BY <1>5
  <2> QED BY <1>1, <1>5, <1>8, <1>9, <2>1 DEF Awaited
<1>11. InOrder'
  <2>1. \A a \in QueuedBets \cup HandBets : a < n
    BY <1>1, <1>5 DEF Awaited
  <2> QED BY <1>8, <1>9, <2>1 DEF KeptHold, InOrder, Ascending
<1>12. JobsRight'
  <2>1. \A s : BetsOf(s) \subseteq BetsOf(s)'
    BY <1>6
  <2>2. \A j \in Named(sessionQueue) \cup HandJobs : j.name = "history" => j.item \in BetsOf(j.sid)'
    BY <2>1 DEF KeptHold, JobsRight
  <2> QED BY <1>9, <2>2 DEF JobsRight, Named
<1>13. HandsRight'
  BY DEF KeptHold, HandsRight, Named
<1>14. CallsRight'
  <2>1. CallRight(call'[c])
    BY <1>4, FanoutRight, NamedFanout DEF CallRight
  <2>2. \A d \in DOMAIN call' : CallRight(call'[d])
    BY <1>4, <2>1 DEF Moves, KeptHold, CallsRight
  <2>3. \A d \in DOMAIN call' : \A s : Adds(call'[d], s) => call'[d].bet \in BetsOf(s)'
    <3> TAKE d \in DOMAIN call'
    <3>1. d # c => ~Adding(call'[d])
      BY <1>4, <1>7 DEF Moves
    <3>2. call'[c].sid = t
      BY <1>4 DEF Moves
    <3> QED BY <1>4, <1>6, <3>1, <3>2 DEF Adds
  <2> QED BY <2>2, <2>3 DEF CallsRight, CallRight, Adds, Adding, LastOnly, Named
<1>15. ASSUME NEW s \in 1..MaxSessions, ~AskedToEnd(s)' PROVE Kept(s)'
  <2>1. ~AskedToEnd(s)
    BY <1>4, <1>15 DEF AskedToEnd, Moves
  <2>2. Kept(s)
    BY <1>15, <2>1 DEF KeptHold
  <2>3. BetsOf(s)' \ Awaited' = BetsOf(s) \ Awaited
    BY <1>1, <1>6, <1>10
  <2>4. \A a \in BetsOf(s)' \cap Awaited', d \in BetsOf(s) \ Awaited : d < a
    <3> TAKE a \in BetsOf(s)' \cap Awaited', d \in BetsOf(s) \ Awaited
    <3>1. d < n
      BY <1>1, <1>5
    <3>2. a # n => a \in BetsOf(s) \cap Awaited
      BY <1>6, <1>10
    <3> QED BY <2>2, <3>1, <3>2 DEF Kept
  <2>5. \A a \in BetsOf(s)' \cap Awaited', d \in BetsOf(s)' \ Awaited' : d < a
    BY <2>3, <2>4
  <2>6. AreTheLatest(history[s], BetsOf(s)' \ Awaited')
    BY <2>2, <2>3 DEF Kept
  <2>7. \A j \in Named(sessionQueue) : j.sid = s => j.name = "history"
    BY <2>2 DEF Kept
  <2> QED BY <2>5, <2>6, <2>7 DEF Kept, AreTheLatest, Named
<1> QED BY <1>11, <1>12, <1>13, <1>14, <1>15 DEF KeptHold

\* Any other step of the play service puts nothing on its way.
LEMMA PlayIsKept ==
  ASSUME FitInv, Alone, Unharmed({"timeout"}), KeptHold, NEW c \in DOMAIN call, Play(c),
         UNCHANGED processors
  PROVE  KeptHold'
<1>1. /\ Opened(c) \/ Ended(c) \/ Checked(c) \/ Finished(c) \/ Played(c) \/ Settled(c)
      /\ UNCHANGED <<sessionQueue, storing, stored, existing, history>>
  BY Playing DEF FitInv, outlets, processors
<1>2. bet' = bet => \A s : BetsOf(s)' = BetsOf(s)
  BY DEF BetsOf, FannedOut
<1>3. CallRight(call[c]) /\ Names(call[c], Len(session), Len(bet))
  BY DEF KeptHold, CallsRight, FitInv, CallsFit
<1>4. Named(<<>>) = {} /\ Named(<<"realtime">>) = {"realtime"} /\ Named(<<"ended">>) = {"ended"}
  BY NamedEmpty
<1>5. ASSUME Moves(c), call[c].at \in {"queued", "checked"}, \A s : BetsOf(s)' = BetsOf(s),
             \/ call'[c].todo \in {<<>>, <<"realtime">>}
             \/ call[c].op = "endSession" /\ call'[c].todo = <<"ended">>,
             call'[c].view = call[c].view \/ call[c].view = "waiting"
      PROVE  KeptHold'
  <2>1. ~Adding(call[c]) /\ ~Adding(call'[c])
    BY <1>4, <1>5 DEF Adding
  <2>2. CallRight(call'[c])
    BY <1>4, <1>5, FanoutRight DEF CallRight, Moves
  <2> QED BY <1>1, <1>5, <2>1, <2>2, KeptStaysBut
<1>6. CASE Opened(c)
  BY <1>2, <1>5, <1>6 DEF Opened, GoesOn
<1>7. CASE Ended(c)
  BY <1>2, <1>5, <1>7 DEF Ended, GoesOn
<1>8. CASE Checked(c)
  <2>1. call[c].todo = <<>> /\ UNCHANGED bet
    BY <1>3, <1>8 DEF Checked, Names, service
  <2> QED BY <1>2, <1>5, <1>8, <2>1 DEF Checked, GoesOn
<1>9. CASE Finished(c)
  BY <1>2, <1>5, <1>9 DEF Finished, Answered
<1>10. CASE Played(c)
  BY <1>2, <1>5, <1>10 DEF Played, GoesOn, service
<1>11. CASE Settled(c)
  <2> PICK how \in Outcomes, pays \in BOOLEAN, todo \in Seq(Outlets) :
        /\ bet' = Append(bet, [sid |-> call[c].sid, how |-> how, pays |-> pays])
        /\ GoesOn(c, "fanout", todo, Len(bet) + 1)
        /\ \/ /\ call[c].op = "reveal" /\ todo = <<"realtime">> /\ how \in {"lost", "cleared"}
           \/ /\ call[c].op \in {"placeBet", "cashOut"} /\ todo = FanoutBet(pays)
              /\ how \in {"placed", "cashed_out"}
    BY <1>11 DEF Settled
  <2>1. CASE how \in {"placed", "cashed_out"}
    <3>1. call[c].op \in PlayOps /\ todo = FanoutBet(pays) /\ call[c].at = "checked"
      BY <1>11, <2>1 DEF PlayOps, Settled
    <3> QED BY <1>1, <2>1, <3>1, SettledIsKept
  <2>2. CASE how \in {"lost", "cleared"}
    <3> DEFINE b == [sid |-> call[c].sid, how |-> how, pays |-> pays]
    <3>1. b.how = how /\ bet' = Append(bet, b) /\ bet \in Seq(Bets)
      BY DEF FitInv, AnswersInv, ServiceType
    <3> HIDE DEF b
    <3>2. /\ DOMAIN bet' = DOMAIN bet \cup {Len(bet) + 1} /\ bet'[Len(bet) + 1] = b
          /\ \A i \in DOMAIN bet : bet'[i] = bet[i]
      <4>1. DOMAIN bet = 1..Len(bet) /\ Len(bet) \in Nat
        BY Lengths DEF FitInv
      <4> QED BY <3>1, <4>1
    <3>3. \A s : BetsOf(s)' = BetsOf(s)
      BY <2>2, <3>1, <3>2 DEF FannedOut, BetsOf
    <3> QED BY <1>5, <1>11, <2>2, <3>3 DEF Settled, GoesOn
  <2> QED BY <2>1, <2>2 DEF Outcomes
<1> QED BY <1>1, <1>6, <1>7, <1>8, <1>9, <1>10, <1>11

\* What is published in order arrives in the queue in order, and the end of a session comes
\* when the player is told of it.
LEMMA PublishIsKept ==
  ASSUME FitInv, Alone, Unharmed({"timeout"}), EndsHold, KeptHold, NEW c \in DOMAIN call,
         Publish(c), UNCHANGED processors
  PROVE  KeptHold'
<1> DEFINE to == Head(call[c].todo)
           J == SessionJobs(Len(session), Len(bet))
<1>1. /\ AnswersInv /\ Names(call[c], Len(session), Len(bet)) /\ OutsideFits
      /\ CallRight(call[c]) /\ EndsRight(call[c])
  BY DEF FitInv, CallsFit, KeptHold, CallsRight, EndsHold
<1>2. /\ call[c].at = "fanout" /\ UNCHANGED <<session, bet, history, storing, stored, existing>>
      /\ Deliver(c, to)
  BY DEF Publish, Publishes, service, processors
<1>3. call[c].todo \in Seq(Outlets) /\ call[c].todo # <<>> /\ call[c].op \in Ops
  BY <1>1, <1>2, CallIs DEF Calls, Sound
<1>4. /\ to \in Outlets /\ Named(call[c].todo) = {to} \cup Named(Tail(call[c].todo))
      /\ Len(call[c].todo) = 1 => Named(Tail(call[c].todo)) = {}
  BY <1>3, NamedTail, NamedEmpty
<1>5. LastOnly(Tail(call[c].todo)) /\ (to = "history" => Len(call[c].todo) = 1)
  BY <1>1, <1>3, RestRight DEF CallRight
<1>6. Passed(c)
  BY <1>1, <1>2, Passing DEF Publish
<1>7. /\ Moves(c) /\ CallRight(call'[c])
      /\ call'[c].bet = call[c].bet
      /\ call'[c].view = call[c].view \/ call[c].view = "waiting"
  <2>1. CASE Len(call[c].todo) = 1
    BY <1>6, <2>1, FanoutRight, NamedEmpty DEF Passed, Answered, CallRight
  <2>2. CASE Len(call[c].todo) # 1
    BY <1>1, <1>4, <1>5, <1>6, <2>2 DEF Passed, GoesOn, CallRight, Moves
  <2> QED BY <2>1, <2>2
<1>8. Adding(call'[c]) <=> "history" \in Named(Tail(call[c].todo))
  <2>1. CASE Len(call[c].todo) = 1
    BY <1>4, <1>6, <2>1 DEF Passed, Answered, Adding
  <2>2. CASE Len(call[c].todo) # 1
    BY <1>6, <2>2 DEF Passed, GoesOn, Adding
  <2> QED BY <2>1, <2>2
<1>9. Adding(call[c]) <=> to = "history" \/ "history" \in Named(Tail(call[c].todo))
  BY <1>2, <1>4 DEF Adding
<1>10. \A s : BetsOf(s)' = BetsOf(s)
  BY <1>2 DEF BetsOf, FannedOut
<1>11. sessionQueue \in Seq(J)
  BY <1>1 DEF OutsideFits, QueuesFit
<1>12. CASE to \notin {"history", "ended"}
  <2>1. UNCHANGED sessionQueue
    BY <1>2, <1>4, <1>12 DEF Deliver, Outlets
  <2> QED BY <1>2, <1>7, <1>8, <1>9, <1>10, <1>12, <2>1, KeptStaysBut
<1>13. UNCHANGED <<HandJobs, HandBets>>
  BY <1>2 DEF HandBets, HandJobs, JobItems, Named
<1>14. HandsRight'
  BY <1>2 DEF KeptHold, HandsRight, Named
<1>15. CallsRight'
  <2>1. \A d \in DOMAIN call' : CallRight(call'[d])
    BY <1>7 DEF Moves, KeptHold, CallsRight
  <2>2. Adding(call'[c]) => Adding(call[c])
    BY <1>8, <1>9
  <2>3. \A d \in DOMAIN call' : \A s : Adds(call'[d], s) => call'[d].bet \in BetsOf(s)
    BY <1>7, <2>2 DEF Moves, KeptHold, CallsRight, Adds
  <2> QED BY <1>10, <2>1, <2>3 DEF CallsRight, CallRight, Adds, Adding, LastOnly, Named
<1>16. \A s : AskedToEnd(s) => AskedToEnd(s)'
  BY <1>7 DEF AskedToEnd, Moves
<1>17. ASSUME NEW job \in J, sessionQueue' = Append(sessionQueue, job),
              job.name = "history" => /\ job.item \in BetsOf(job.sid)
                                      /\ \A a \in QueuedBets \cup HandBets : a < job.item,
              Awaited' = Awaited,
              QueuedBets' = QueuedBets \cup {i \in {job.item} : job.name = "history"},
              \A x \in CallBets', a \in QueuedBets' \cup HandBets : a < x,
              \A s : ~AskedToEnd(s)' => job.sid # s \/ job.name = "history"
       PROVE  KeptHold'
  <2>1. job.name = "history" => \A j \in Named(sessionQueue) : j.name = "history" => j.item < job.item
    BY <1>17 DEF QueuedBets, JobItems
  <2>2. Ascending(sessionQueue)
    BY DEF KeptHold, InOrder
  <2>3. Ascending(sessionQueue') /\ Named(sessionQueue') = Named(sessionQueue) \cup {job}
    BY <1>11, <1>17, <2>1, <2>2, OrderQueued, NamedAppend
  <2>4. \A h \in HandBets, q \in QueuedBets' : h < q
    BY <1>17 DEF KeptHold, InOrder
  <2>5. InOrder'
    BY <1>13, <1>17, <2>3, <2>4 DEF InOrder, Ascending
  <2>6. \A j \in Named(sessionQueue') \cup HandJobs : j.name = "history" => j.item \in BetsOf(j.sid)
    BY <1>17, <2>3 DEF KeptHold, JobsRight
  <2>7. JobsRight'
    <3>1. \A j \in Named(sessionQueue') \cup HandJobs' : j.name = "history" => j.item \in BetsOf(j.sid)'
      BY <1>10, <1>13, <2>6
    <3> QED BY <3>1 DEF JobsRight, Named
  <2>8. ASSUME NEW s \in 1..MaxSessions, ~AskedToEnd(s)' PROVE Kept(s)'
    <3>1. Kept(s)
      BY <1>16, <2>8 DEF KeptHold
    <3>2. \A j \in Named(sessionQueue') : j.sid = s => j.name = "history"
      BY <1>17, <2>3, <2>8, <3>1 DEF Kept
    <3> QED BY <1>2, <1>10, <1>17, <3>1, <3>2 DEF Kept, AreTheLatest, Named
  <2> QED BY <1>14, <1>15, <2>5, <2>7, <2>8 DEF KeptHold
<1>18. ASSUME NEW job \in J, sessionQueue' = Append(sessionQueue, job)
       PROVE  QueuedBets' = QueuedBets \cup {i \in {job.item} : job.name = "history"}
  <2>1. Named(sessionQueue') = Named(sessionQueue) \cup {job}
    BY <1>11, <1>18, NamedAppend
  <2>2. JobItems(Named(sessionQueue')) =
          JobItems(Named(sessionQueue)) \cup {i \in {job.item} : job.name = "history"}
    BY <2>1 DEF JobItems
  <2> QED BY <2>2 DEF QueuedBets, JobItems, Named
<1>19. CASE to = "history"
  <2> DEFINE x == call[c].bet
             job == [name |-> "history", sid |-> call[c].sid, item |-> x]
  <2>1. sessionQueue' = Append(sessionQueue, job)
    BY <1>2, <1>19 DEF Deliver
  <2>2. Adding(call[c]) /\ ~Adding(call'[c])
    BY <1>4, <1>5, <1>8, <1>9, <1>19
  <2>3. \A d \in DOMAIN call : Adding(call[d]) <=> d = c
    BY <2>2 DEF Alone, Adding, Handled
  <2>4. CallBets = {x} /\ CallBets' = {}
    <3>1. \A d \in DOMAIN call' : ~Adding(call'[d])
      BY <1>7, <2>2, <2>3 DEF Moves
    <3>2. CallBets' = {}
      BY <3>1 DEF CallBets, Adding, Named
    <3>3. CallBets = {x}
      BY <2>3 DEF CallBets
    <3> QED BY <3>2, <3>3
  <2>5. x \in BetsOf(call[c].sid)
    BY <2>2 DEF KeptHold, CallsRight, Adds
  <2>6. job \in J /\ job.name = "history" /\ job.sid = call[c].sid /\ job.item = x
    <3>1. call[c].bet \in 0..Len(bet) /\ call[c].bet # 0
      BY <1>1, <1>4, <1>19 DEF Names
    <3>2. call[c].sid \in 1..Len(session)
      BY <1>1, <1>4, <1>19 DEF Names
    <3> QED BY <3>1, <3>2 DEF SessionJobs
  <2> HIDE DEF job
  <2>7. QueuedBets' = QueuedBets \cup {x}
    BY <1>18, <2>1, <2>6
  <2>8. Awaited' = Awaited
    BY <1>13, <2>4, <2>7 DEF Awaited
  <2>9. \A a \in QueuedBets \cup HandBets : a < x
    BY <2>4 DEF KeptHold, InOrder
  <2>10. QueuedBets' = QueuedBets \cup {i \in {job.item} : job.name = "history"}
    BY <2>6, <2>7
  <2> QED BY <1>17, <2>1, <2>4, <2>5, <2>6, <2>8, <2>9, <2>10
<1>20. CASE to = "ended"
  <2> DEFINE job == [name |-> "ended", sid |-> call[c].sid, item |-> 0]
  <2>1. sessionQueue' = Append(sessionQueue, job)
    BY <1>2, <1>20 DEF Deliver
  <2>2. call[c].op = "endSession" /\ call[c].todo = <<"ended">>
    BY <1>1, <1>2, <1>4, <1>20 DEF CallRight, EndsRight
  <2>3. Len(call[c].todo) = 1 /\ "history" \notin Named(call[c].todo)
    <3>1. Len(<<"ended">>) = 1
      OBVIOUS
    <3> QED BY <2>2, <3>1, NamedEmpty
  <2>4. ~Adding(call[c]) /\ ~Adding(call'[c])
    BY <1>4, <1>8, <1>9, <2>3
  <2>5. CallBets' = CallBets
    BY <1>7, <2>4 DEF CallBets, Moves, Adding, Named
  <2>6. \A s : s = call[c].sid => AskedToEnd(s)'
    <3>1. call[c].view = "waiting"
      BY <1>2 DEF Alone, Handled, Waiting
    <3>2. call'[c].view = "ok" /\ call'[c].op = "endSession" /\ call'[c].sid = call[c].sid
          /\ c \in DOMAIN call'
      BY <1>6, <2>2, <2>3, <3>1 DEF Passed, Answered, Moves
    <3> QED BY <3>2 DEF AskedToEnd
  <2>7. job \in J /\ job.name = "ended" /\ job.sid = call[c].sid
    <3>1. call[c].sid \in 1..Len(session)
      BY <1>1, <2>2 DEF Names
    <3>2. 0 \in 0..Len(bet)
      <4>1. Len(bet) \in Nat
        BY Lengths DEF FitInv
      <4> QED BY <4>1
    <3> QED BY <3>1, <3>2 DEF SessionJobs
  <2> HIDE DEF job
  <2>8. QueuedBets' = QueuedBets \cup {i \in {job.item} : job.name = "history"}
    BY <1>18, <2>1, <2>7
  <2>9. QueuedBets' = QueuedBets
    BY <2>7, <2>8
  <2>10. Awaited' = Awaited
    BY <1>13, <2>5, <2>9 DEF Awaited
  <2>11. \A y \in CallBets', a \in QueuedBets' \cup HandBets : a < y
    BY <2>5, <2>9 DEF KeptHold, InOrder
  <2>12. \A s : ~AskedToEnd(s)' => job.sid # s
    BY <2>6, <2>7
  <2> QED BY <1>17, <2>1, <2>7, <2>8, <2>10, <2>11, <2>12
<1> QED BY <1>12, <1>19, <1>20

\* The one worker of the session queue puts each bet on top of older ones, and deletes the
\* history of a session only when the player ended it.
LEMMA WorkerIsKept ==
  ASSUME OneAtATime, FitInv, KeptHold, NEW w \in Workers, SessionProcessor(w), ~Fault("publish")
  PROVE  KeptHold'
<1> DEFINE J == SessionJobs(Len(session), Len(bet))
           I == 1..Len(bet)
<1>1. /\ storing \in [Workers -> AtMostOne(J)] /\ sessionQueue \in Seq(J)
      /\ stored \in [Workers -> BOOLEAN] /\ existing \in [Workers -> Seq(I)]
      /\ history \in [1..MaxSessions -> Seq(I)]
      /\ \A v \in Workers : storing[v] # <<>> /\ ~stored[v] => storing[v][1].name = "history"
  BY DEF FitInv, OutsideFits, QueuesFit, WorkersFit, HistoryFits
<1>2. UNCHANGED <<session, bet, call>>
  BY DEF SessionProcessor, DeleteHistory, ReadHistory, WriteHistory, Complete, SessionJobFails,
         Take, service
<1>3. /\ \A s : BetsOf(s)' = BetsOf(s)
      /\ CallBets' = CallBets /\ CallsRight' /\ \A s : AskedToEnd(s)' <=> AskedToEnd(s)
  <2>1. \A s : BetsOf(s)' = BetsOf(s)
    BY <1>2 DEF BetsOf, FannedOut
  <2>2. CallBets' = CallBets /\ \A s : AskedToEnd(s)' <=> AskedToEnd(s)
    BY <1>2 DEF CallBets, Adding, Named, AskedToEnd
  <2>3. CallsRight'
    BY <1>2, <2>1 DEF KeptHold, CallsRight, CallRight, Adds, Adding, LastOnly, Named
  <2> QED BY <2>1, <2>2, <2>3
<1>4. HandJobs = IF stored[w] THEN {} ELSE Named(storing[w])
  BY DEF OneAtATime, HandJobs
<1>5. HandJobs' = IF stored'[w] THEN {} ELSE Named(storing'[w])
  BY DEF OneAtATime, HandJobs, Named
<1>6. /\ QueuedBets' = JobItems(Named(sessionQueue')) /\ HandBets' = JobItems(HandJobs')
      /\ QueuedBets = JobItems(Named(sessionQueue)) /\ HandBets = JobItems(HandJobs)
  BY DEF QueuedBets, HandBets, JobItems, Named
<1>7. JobItems({}) = {}
      /\ \A j : JobItems({j}) = {i \in {j.item} : j.name = "history"}
      /\ \A P, Q : JobItems(P \cup Q) = JobItems(P) \cup JobItems(Q)
  BY DEF JobItems
<1>8. ASSUME Ascending(sessionQueue'),
             Named(sessionQueue') \cup HandJobs' \subseteq Named(sessionQueue) \cup HandJobs,
             \A h \in HandBets', q \in QueuedBets' : h < q,
             QueuedBets' \cup HandBets' \subseteq QueuedBets \cup HandBets,
             ~stored'[w] => \A j \in Named(storing'[w]) : existing'[w] = history'[j.sid],
             \A s \in 1..MaxSessions : ~AskedToEnd(s) =>
                /\ AreTheLatest(history'[s], BetsOf(s) \ Awaited')
                /\ \A a \in BetsOf(s) \cap Awaited', d \in BetsOf(s) \ Awaited' : d < a,
             Named(sessionQueue') \subseteq Named(sessionQueue)
      PROVE  KeptHold'
  <2>1. InOrder'
    <3>1. \A x \in CallBets', a \in QueuedBets' \cup HandBets' : a < x
      BY <1>3, <1>8 DEF KeptHold, InOrder
    <3> QED BY <1>8, <3>1 DEF InOrder, Ascending
  <2>2. JobsRight'
    <3>1. \A j \in Named(sessionQueue') \cup HandJobs' : j.name = "history" => j.item \in BetsOf(j.sid)'
      BY <1>3, <1>8 DEF KeptHold, JobsRight
    <3> QED BY <3>1 DEF JobsRight, Named
  <2>3. HandsRight'
    BY <1>8 DEF OneAtATime, HandsRight, Named
  <2>4. ASSUME NEW s \in 1..MaxSessions, ~AskedToEnd(s)' PROVE Kept(s)'
    <3>1. ~AskedToEnd(s) /\ Kept(s)
      BY <1>3, <2>4 DEF KeptHold
    <3>2. \A j \in Named(sessionQueue') : j.sid = s => j.name = "history"
      BY <1>8, <3>1 DEF Kept
    <3>3. /\ AreTheLatest(history'[s], BetsOf(s)' \ Awaited')
          /\ \A a \in BetsOf(s)' \cap Awaited', d \in BetsOf(s)' \ Awaited' : d < a
      BY <1>3, <1>8, <3>1
    <3> QED BY <3>2, <3>3 DEF Kept, AreTheLatest, Named
  <2> QED BY <1>3, <2>1, <2>2, <2>3, <2>4 DEF KeptHold
<1>9. ASSUME NEW s \in 1..MaxSessions, ~AskedToEnd(s), Awaited' = Awaited, history'[s] = history[s]
      PROVE  /\ AreTheLatest(history'[s], BetsOf(s) \ Awaited')
             /\ \A a \in BetsOf(s) \cap Awaited', d \in BetsOf(s) \ Awaited' : d < a
  BY <1>9 DEF KeptHold, Kept
<1>10. ASSUME Take(w)
       PROVE  /\ Head(sessionQueue) \in J /\ storing'[w] = <<Head(sessionQueue)>>
              /\ Ascending(sessionQueue')
              /\ Named(sessionQueue) = {Head(sessionQueue)} \cup Named(sessionQueue')
              /\ Head(sessionQueue).name = "history" =>
                   \A j \in Named(sessionQueue') :
                     j.name = "history" => Head(sessionQueue).item < j.item
              /\ HandJobs = {}
  <2>1. sessionQueue # <<>> /\ sessionQueue' = Tail(sessionQueue) /\ storing[w] = <<>>
    BY <1>10 DEF Take
  <2>2. Head(sessionQueue) \in J
    BY <1>1, <2>1, HeadTailProperties
  <2>3. storing'[w] = <<Head(sessionQueue)>>
    BY <1>1, <1>10 DEF Take
  <2>4. Ascending(sessionQueue)
    BY DEF KeptHold, InOrder
  <2>5. /\ Ascending(Tail(sessionQueue))
        /\ Named(sessionQueue) = {Head(sessionQueue)} \cup Named(Tail(sessionQueue))
        /\ Head(sessionQueue).name = "history" =>
             \A j \in Named(Tail(sessionQueue)) : j.name = "history" => Head(sessionQueue).item < j.item
    BY <1>1, <2>1, <2>4, OrderDequeued
  <2> QED BY <1>4, <2>1, <2>2, <2>3, <2>5, NamedEmpty
<1>11. CASE DeleteHistory(w)
  <2> DEFINE job == Head(sessionQueue)
  <2>1. /\ Take(w) /\ job.name = "ended" /\ history' = [history EXCEPT ![job.sid] = <<>>]
        /\ stored'[w] = TRUE
    BY <1>1, <1>11 DEF DeleteHistory
  <2> HIDE DEF job
  <2>2. /\ Ascending(sessionQueue') /\ Named(sessionQueue) = {job} \cup Named(sessionQueue')
        /\ HandJobs = {}
    BY <1>10, <2>1 DEF job
  <2>3. HandJobs' = {}
    BY <1>5, <2>1
  <2>4. QueuedBets = QueuedBets' /\ HandBets = {} /\ HandBets' = {}
    <3>1. JobItems({job}) = {}
      BY <1>7, <2>1
    <3>2. JobItems({job} \cup Named(sessionQueue')) = JobItems({job}) \cup JobItems(Named(sessionQueue'))
      BY <1>7
    <3>3. QueuedBets = JobItems({job}) \cup QueuedBets'
      BY <1>6, <2>2, <3>2
    <3> QED BY <1>6, <1>7, <2>2, <2>3, <3>1, <3>3
  <2>5. Awaited' = Awaited
    BY <1>3, <2>4 DEF Awaited
  <2>6. \A s \in 1..MaxSessions : ~AskedToEnd(s) => history'[s] = history[s]
    <3> SUFFICES ASSUME NEW s \in 1..MaxSessions, ~AskedToEnd(s) PROVE history'[s] = history[s]
      OBVIOUS
    <3>1. job.sid # s
      BY <2>1, <2>2 DEF KeptHold, Kept
    <3> QED BY <1>1, <2>1, <3>1
  <2> QED BY <1>8, <1>9, <2>1, <2>2, <2>3, <2>4, <2>5, <2>6
<1>12. CASE ReadHistory(w)
  <2> DEFINE job == Head(sessionQueue)
  <2>1. /\ Take(w) /\ job.name = "history" /\ UNCHANGED history
        /\ existing'[w] = history[job.sid] /\ stored'[w] = FALSE
    BY <1>1, <1>12 DEF ReadHistory
  <2> HIDE DEF job
  <2>2. /\ Ascending(sessionQueue') /\ Named(sessionQueue) = {job} \cup Named(sessionQueue')
        /\ HandJobs = {} /\ storing'[w] = <<job>>
        /\ \A j \in Named(sessionQueue') : j.name = "history" => job.item < j.item
    BY <1>10, <2>1 DEF job
  <2>3. HandJobs' = {job} /\ Named(storing'[w]) = {job}
    BY <1>5, <2>1, <2>2, NamedEmpty
  <2>4. QueuedBets = QueuedBets' \cup {job.item} /\ HandBets = {} /\ HandBets' = {job.item}
    <3>1. JobItems({job}) = {job.item}
      BY <1>7, <2>1
    <3>2. JobItems({job} \cup Named(sessionQueue')) = JobItems({job}) \cup JobItems(Named(sessionQueue'))
      BY <1>7
    <3>3. QueuedBets = JobItems({job}) \cup QueuedBets'
      BY <1>6, <2>2, <3>2
    <3> QED BY <1>6, <1>7, <2>2, <2>3, <3>1, <3>3
  <2>5. Awaited' = Awaited
    BY <1>3, <2>4 DEF Awaited
  <2>6. \A q \in QueuedBets' : job.item < q
    BY <1>6, <2>2 DEF JobItems
  <2> QED BY <1>8, <1>9, <2>1, <2>2, <2>3, <2>4, <2>5, <2>6
<1>13. CASE WriteHistory(w)
  <2> DEFINE job == storing[w][1]
             x == job.item
  <2>1. /\ job \in J /\ job.name = "history" /\ storing[w] = <<job>> /\ ~stored[w]
        /\ UNCHANGED <<sessionQueue, storing>> /\ stored'[w] = TRUE
        /\ history' = [history EXCEPT ![job.sid] = WithItem(x, existing[w])]
    BY <1>1, <1>13, InHand DEF WriteHistory, outlets
  <2>2. x \in I /\ job.sid \in 1..MaxSessions
    <3>1. x \in 0..Len(bet) /\ x # 0 /\ job.sid \in 1..Len(session)
      BY <2>1 DEF SessionJobs
    <3>2. Len(session) \in Nat /\ MaxSessions \in Nat /\ Len(session) <= MaxSessions /\ Len(bet) \in Nat
      BY WithinBounds, Lengths DEF FitInv
    <3> HIDE DEF job
    <3> QED BY <3>1, <3>2
  <2> HIDE DEF job
  <2>3. HandJobs = {job} /\ HandJobs' = {}
    BY <1>4, <1>5, <2>1, NamedEmpty
  <2>4. HandBets = {x} /\ HandBets' = {} /\ QueuedBets' = QueuedBets
    <3>1. JobItems({job}) = {x}
      BY <1>7, <2>1
    <3> QED BY <1>6, <1>7, <2>1, <2>3, <3>1
  <2>5. existing[w] = history[job.sid] /\ x \in BetsOf(job.sid)
    <3>1. job \in Named(storing[w])
      BY <2>1, NamedEmpty
    <3> QED BY <2>1, <2>3, <3>1 DEF KeptHold, HandsRight, JobsRight
  <2>6. \A a \in QueuedBets \cup CallBets : x < a
    BY <2>4 DEF KeptHold, InOrder
  <2>7. Awaited' = Awaited \ {x} /\ x \in Awaited
    <3>1. ~(x < x)
      BY <2>2, Lengths DEF FitInv
    <3> QED BY <1>3, <2>4, <2>6, <3>1 DEF Awaited
  <2>8. ASSUME NEW s \in 1..MaxSessions, ~AskedToEnd(s)
        PROVE  /\ AreTheLatest(history'[s], BetsOf(s) \ Awaited')
               /\ \A a \in BetsOf(s) \cap Awaited', d \in BetsOf(s) \ Awaited' : d < a
    <3>1. Kept(s)
      BY <2>8 DEF KeptHold
    <3>2. CASE s # job.sid
      <4>1. x \notin BetsOf(s)
        BY <2>5, <3>2, AwaitedBets
      <4>2. BetsOf(s) \ Awaited' = BetsOf(s) \ Awaited /\ BetsOf(s) \cap Awaited' = BetsOf(s) \cap Awaited
        BY <2>7, <4>1
      <4>3. history'[s] = history[s]
        BY <1>1, <2>1, <3>2
      <4> QED BY <3>1, <4>2, <4>3 DEF Kept
    <3>3. CASE s = job.sid
      <4> DEFINE D == BetsOf(s) \ Awaited
      <4>1. BetsOf(s) \ Awaited' = D \cup {x} /\ BetsOf(s) \cap Awaited' \subseteq BetsOf(s) \cap Awaited
        BY <2>5, <2>7, <3>3
      <4>2. history'[s] = WithItem(x, history[s]) /\ history[s] \in Seq(I)
        BY <1>1, <2>1, <2>2, <2>5, <3>3
      <4>3. AreTheLatest(history[s], D) /\ \A d \in D : d < x
        BY <2>5, <2>7, <3>1, <3>3 DEF Kept
      <4>4. I \in SUBSET Nat /\ \A d \in D : d \in Nat
        BY AwaitedBets
      <4> HIDE DEF D
      <4>5. AreTheLatest(WithItem(x, history[s]), D \cup {x})
        BY <2>2, <4>2, <4>3, <4>4, LatestWithItem
      <4>6. \A a \in BetsOf(s) \cap Awaited' : a \in QueuedBets \cup CallBets
        BY <1>3, <2>4 DEF Awaited
      <4>7. \A a \in BetsOf(s) \cap Awaited', d \in D \cup {x} : d < a
        BY <2>6, <3>1, <4>1, <4>6 DEF Kept, D
      <4> QED BY <4>1, <4>2, <4>5, <4>7
    <3> QED BY <3>2, <3>3
  <2>9. Ascending(sessionQueue')
    BY <2>1 DEF KeptHold, InOrder
  <2> QED BY <1>8, <2>1, <2>3, <2>4, <2>8, <2>9
<1>14. CASE Complete(w)
  <2>1. /\ storing' = [storing EXCEPT ![w] = <<>>] /\ stored[w]
        /\ UNCHANGED <<sessionQueue, stored, history>>
    BY <1>14 DEF Complete, outlets
  <2>2. HandJobs = {} /\ HandJobs' = {} /\ stored'[w]
    BY <1>4, <1>5, <2>1
  <2>3. QueuedBets' = QueuedBets /\ HandBets = {} /\ HandBets' = {}
    BY <1>6, <1>7, <2>1, <2>2
  <2>4. Awaited' = Awaited
    BY <1>3, <2>3 DEF Awaited
  <2>5. Ascending(sessionQueue')
    BY <2>1 DEF KeptHold, InOrder
  <2> QED BY <1>8, <1>9, <2>1, <2>2, <2>3, <2>4, <2>5
<1>15. ~SessionJobFails(w)
  BY DEF SessionJobFails
<1> QED BY <1>11, <1>12, <1>13, <1>14, <1>15 DEF SessionProcessor

\* A step keeps the histories of the sessions.
LEMMA KeptKeeps ==
  ASSUME OneAtATime, FitInv, Alone, EndsInv, KeptInv, [Next]_vars
  PROVE  KeptInv'
<1>1. AnswersInv /\ FaultType /\ FaultsGrow
  BY FaultsOnlyGrow DEF FitInv, AnswersInv
<1>2. SUFFICES ASSUME Unharmed(FaultKinds)' PROVE KeptHold'
  BY DEF KeptInv
<1>3. Unharmed(FaultKinds) /\ Unharmed({"timeout"}) /\ EndsHold /\ KeptHold
  <2>1. Unharmed(FaultKinds)
    BY <1>1, <1>2, StillUnharmed
  <2> QED BY <2>1 DEF Unharmed, FaultKinds, EndsInv, Ending, KeptInv
<1>4. ASSUME NEW kind \in FaultKinds, Fault(kind) PROVE FALSE
  BY <1>1, <1>2, <1>4, Harmed
<1>5. ASSUME SendAny, UNCHANGED processors PROVE KeptHold'
  <2>1. PICK op, g, sid : Send(op, g, sid)
    BY <1>5 DEF SendAny
  <2> DEFINE k == [op |-> op, game |-> g, sid |-> sid, at |-> "queued",
                   view |-> "waiting", todo |-> <<>>, bet |-> 0]
             n == Len(call) + 1
  <2>2. /\ k.at = "queued" /\ k.todo = <<>> /\ k.view = "waiting" /\ call' = Append(call, k)
        /\ UNCHANGED <<bet, sessionQueue, storing, stored, existing, history>>
    BY <1>5, <2>1 DEF Send, service, outlets, processors
  <2> HIDE DEF k
  <2>3. DOMAIN call = 1..Len(call) /\ Len(call) \in Nat /\ call \in Seq(Calls)
    BY <1>1, Lengths DEF AnswersInv, CallType
  <2>4. /\ DOMAIN call' = DOMAIN call \cup {n} /\ call'[n] = k
        /\ \A d \in DOMAIN call : call'[d] = call[d]
    BY <2>2, <2>3
  <2>5. ~Adding(k) /\ CallRight(k)
    BY <2>2, FanoutRight, NamedEmpty DEF Adding, CallRight
  <2>6. \A d \in DOMAIN call' : Adding(call'[d]) => d \in DOMAIN call /\ Adding(call[d])
    BY <2>4, <2>5
  <2>7. CallBets' = CallBets
    BY <2>4, <2>6 DEF CallBets, Adding, Named
  <2>8. \A s : BetsOf(s)' = BetsOf(s)
    BY <2>2 DEF BetsOf, FannedOut
  <2>9. \A d \in DOMAIN call' : CallRight(call'[d])
    BY <1>3, <2>4, <2>5 DEF KeptHold, CallsRight
  <2>10. \A d \in DOMAIN call' : \A s : Adds(call'[d], s) => call'[d].bet \in BetsOf(s)
    BY <1>3, <2>4, <2>6 DEF KeptHold, CallsRight, Adds
  <2>11. \A s : AskedToEnd(s) => AskedToEnd(s)'
    BY <2>4 DEF AskedToEnd
  <2> QED BY <1>3, <2>2, <2>7, <2>8, <2>9, <2>10, <2>11, KeptStays
<1>6. ~\E c \in DOMAIN call : Timeout(c)
  <2> SUFFICES ASSUME NEW c \in DOMAIN call, Timeout(c) PROVE FALSE
    OBVIOUS
  <2>1. call[c].at = "lost"
    BY <1>4 DEF Timeout, FaultKinds
  <2>2. faults["engine"] > 0
    BY <1>1, <2>1, CallIs DEF Sound
  <2> QED BY <1>3, <2>2 DEF Unharmed, FaultKinds
<1>7. ASSUME NEW c \in DOMAIN call, Handler(c), UNCHANGED processors PROVE KeptHold'
  <2>1. ~PublishFails(c)
    BY <1>4 DEF PublishFails, FaultKinds
  <2> QED BY <1>3, <1>7, <2>1, PlayIsKept, PublishIsKept DEF Handler
<1>8. ~EngineRestarts
  BY <1>4 DEF EngineRestarts, FaultKinds
<1>9. ASSUME UNCHANGED <<session, bet, call, sessionQueue, storing, stored, existing, history>>
      PROVE  KeptHold'
  <2>1. \A s : BetsOf(s)' = BetsOf(s)
    BY <1>9 DEF BetsOf, FannedOut
  <2>2. CallBets' = CallBets /\ \A s : AskedToEnd(s) => AskedToEnd(s)'
    BY <1>9 DEF CallBets, Adding, Named, AskedToEnd
  <2>3. /\ \A d \in DOMAIN call' : CallRight(call'[d])
        /\ \A d \in DOMAIN call' : \A s : Adds(call'[d], s) => call'[d].bet \in BetsOf(s)
    BY <1>3, <1>9 DEF KeptHold, CallsRight
  <2> QED BY <1>3, <1>9, <2>1, <2>2, <2>3, KeptStays
<1>10. ASSUME NEW w \in Workers, RealtimeProcessor(w) \/ SessionProcessor(w) \/ WorkerRestarts(w)
       PROVE  KeptHold'
  <2>1. CASE RealtimeProcessor(w)
    <3>1. UNCHANGED <<session, bet, call, sessionQueue, storing, stored, existing, history>>
      BY <2>1 DEF RealtimeProcessor, TakeRealtime, Announce, service
    <3> QED BY <1>9, <3>1
  <2>2. CASE SessionProcessor(w)
    <3>1. ~Fault("publish")
      BY <1>4 DEF FaultKinds
    <3> QED BY <1>3, <2>2, <3>1, WorkerIsKept
  <2>3. ~WorkerRestarts(w)
    BY <1>4 DEF WorkerRestarts, FaultKinds
  <2> QED BY <1>10, <2>1, <2>2, <2>3
<1>11. ASSUME NEW i \in bus, OnBetSettled(i) PROVE KeptHold'
  <2>1. UNCHANGED <<session, bet, call, sessionQueue, storing, stored, existing, history>>
    BY <1>11 DEF OnBetSettled, service, processors
  <2> QED BY <1>9, <2>1
<1>12. ~\E s \in DOMAIN history : HistoryExpires(s)
  BY <1>4 DEF HistoryExpires, FaultKinds
<1>13. CASE UNCHANGED vars
  <2>1. UNCHANGED <<session, bet, call, sessionQueue, storing, stored, existing, history>>
    BY <1>13 DEF vars, service, outlets, processors
  <2> QED BY <1>9, <2>1
<1>14. CASE Engine /\ UNCHANGED processors
  BY <1>5, <1>6, <1>7, <1>8, <1>14 DEF Engine
<1> QED BY <1>10, <1>11, <1>12, <1>13, <1>14 DEF Next

\* The player comes with his last win in the history of its session, or with none.
LEMMA KeptAtFirst == ASSUME Init PROVE EndsInv /\ KeptInv
<1>1. /\ DOMAIN call = {} /\ Named(sessionQueue) = {} /\ sessionQueue = <<>>
      /\ \A w \in Workers : Named(storing[w]) = {}
  BY EmptySeq, NamedEmpty DEF Init, InitEngine, InitWorker
<1>2. EndsInv
  BY <1>1 DEF EndsInv, EndsHold, AskedToEnd
<1>3. Awaited = {} /\ HandJobs = {} /\ QueuedBets = {} /\ HandBets = {} /\ CallBets = {}
  <2>1. HandJobs = {}
    BY <1>1 DEF HandJobs
  <2>2. JobItems({}) = {}
    BY DEF JobItems
  <2>3. CallBets = {}
    BY <1>1 DEF CallBets
  <2>4. QueuedBets = {} /\ HandBets = {}
    BY <1>1, <2>1, <2>2 DEF QueuedBets, HandBets
  <2> QED BY <2>1, <2>3, <2>4 DEF Awaited
<1>4. Ascending(sessionQueue)
  <2>1. DOMAIN sessionQueue = {}
    BY <1>1, EmptySeq
  <2> QED BY <2>1 DEF Ascending
<1>5. CallsRight /\ JobsRight /\ HandsRight /\ InOrder
  BY <1>1, <1>3, <1>4 DEF CallsRight, JobsRight, HandsRight, InOrder
<1>6. /\ bet \in {<<>>, EarlierWin}
      /\ history = [s \in 1..MaxSessions |-> IF s = 1 THEN [i \in DOMAIN bet |-> i] ELSE <<>>]
  BY DEF Init, InitEngine, Comes
<1>7. ASSUME NEW s \in 1..MaxSessions PROVE AreTheLatest(history[s], BetsOf(s))
  <2>1. Len(<<>>) = 0 /\ DOMAIN <<>> = {} /\ HistoryLimit \in Nat \ {0}
    BY EmptySeq, FanoutAssumption
  <2>2. CASE bet = <<>>
    <3>1. history[s] = <<>> /\ BetsOf(s) = {}
      BY <1>6, <2>1, <2>2 DEF BetsOf
    <3> QED BY <2>1, <3>1 DEF AreTheLatest, Range
  <2>3. CASE bet = EarlierWin
    <3>1. DOMAIN bet = {1} /\ bet[1].sid = 1 /\ bet[1].how = "placed"
      BY <2>3 DEF EarlierWin
    <3>2. CASE s = 1
      <4>1. history[s] = [i \in {1} |-> i]
        BY <1>6, <3>1, <3>2
      <4>2. [i \in {1} |-> i] = <<1>> /\ Len(<<1>>) = 1 /\ DOMAIN <<1>> = {1} /\ <<1>>[1] = 1
        OBVIOUS
      <4>3. BetsOf(s) = {1}
        BY <3>1, <3>2 DEF BetsOf, FannedOut
      <4> QED BY <2>1, <4>1, <4>2, <4>3 DEF AreTheLatest, Range
    <3>3. CASE s # 1
      <4>1. history[s] = <<>> /\ BetsOf(s) = {}
        BY <1>6, <3>1, <3>3 DEF BetsOf
      <4> QED BY <2>1, <4>1 DEF AreTheLatest, Range
    <3> QED BY <3>2, <3>3
  <2> QED BY <1>6, <2>2, <2>3
<1>8. \A s \in 1..MaxSessions : Kept(s)
  BY <1>1, <1>3, <1>7 DEF Kept
<1> QED BY <1>2, <1>5, <1>8 DEF KeptInv, KeptHold

\* Bets are put in their session's history in the order in which they were settled: with one
\* request and one worker at a time, when nothing failed and nothing is on its way, the history
\* of a session that the player did not end is its bets, the newest first, up to the limit.
THEOREM HistoriesAreTheSessions ==
  ASSUME OneAtATime PROVE Spec => []HistoryIsTheSession
<1>1. Init => FitInv /\ Alone /\ EndsInv /\ KeptInv
  BY InitFits, TellsAtFirst, KeptAtFirst
<1>2. FitInv /\ Alone /\ EndsInv /\ KeptInv /\ [Next]_vars => FitInv' /\ Alone' /\ EndsInv' /\ KeptInv'
  BY NextFits, AloneKeeps, EndsKeeps, KeptKeeps DEF FitInv
<1>3. FitInv /\ KeptInv => HistoryIsTheSession
  BY KeptIsTheSession
<1> QED BY <1>1, <1>2, <1>3, PTL DEF Spec
=============================================================================
