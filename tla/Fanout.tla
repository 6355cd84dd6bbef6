------------------------------- MODULE Fanout -------------------------------
(***************************************************************************)
(* One player, the gateway and the engine's RPC handlers: a request is     *)
(* queued on RabbitMQ, played by the play service, and what it settled is  *)
(* published and queued for the worker before the answer goes back.  The   *)
(* play service is here one step per check and one per settlement; its     *)
(* statements are in PlayService.  Messages no consumer of this repository *)
(* reads, and the copy on the session's channel, are left out.             *)
(***************************************************************************)
EXTENDS Integers, Sequences, FiniteSets

CONSTANTS
  Games,         \* a subset of {"instant", "grid"}: games of one bet, games of rounds
  Tabs,          \* requests the player keeps waiting at once
  MaxRequests,   \* requests in all
  MaxSessions,
  HistoryLimit,  \* items the worker keeps of a session: 50 in the code
  FaultBudgets   \* functions: kind of fault -> how often; a behaviour keeps within one

MaxBets == MaxRequests + 1  \* a request settles at most one, and one may have been there

FaultKinds == {"publish", "timeout", "engine", "worker", "expiry"}

ASSUME FanoutAssumption ==
  /\ Games \subseteq {"instant", "grid"}
  /\ Tabs \in Nat /\ MaxRequests \in Nat /\ MaxSessions \in Nat \ {0}
  /\ HistoryLimit \in Nat \ {0}
  /\ FaultBudgets \subseteq [FaultKinds -> Nat]

VARIABLES
  session,       \* sessions in order: [game, open, round]: the open round of its game, or not
  bet,           \* settled bets in order: [sid, how, pays]
  call,          \* requests in order, with what their handler has still to publish
  told,          \* the last bet published on the player's channel, 0 if none
  announced,     \* the wins published in the lobby
  bus,           \* bet.settled events of paying wins, not consumed yet: others are dropped
  realtimeQueue, \* BullMQ jobs, first the next one
  sessionQueue,
  history,       \* session -> what Redis holds of it, newest first; <<>> for no key
  faults         \* kind of fault -> how often it has happened

service == <<session, bet>>
outlets == <<told, announced, bus, realtimeQueue, sessionQueue>>

Ops == {"startSession", "endSession", "placeBet", "start", "reveal", "cashOut"}
OpsOf(g) == IF g = "instant" THEN Ops \ {"start", "reveal", "cashOut"} ELSE Ops \ {"placeBet"}

Waiting == {c \in DOMAIN call : call[c].view = "waiting"}
Handled(c) == call[c].at \in {"queued", "checked", "fanout"}

Fault(kind) ==
  /\ faults' = [faults EXCEPT ![kind] = @ + 1]
  /\ \E budget \in FaultBudgets : \A k \in FaultKinds : faults'[k] <= budget[k]
Unharmed(kinds) == \A k \in kinds : faults[k] = 0

---------------------------------------------------------------------------
(* The gateway *)

\* The player asks for a session of a game (sid 0) or names one of his sessions; the
\* gateway forwards the request and waits.  A request its guards refuse is never sent.
Send(op, g, sid) ==
  /\ Len(call) < MaxRequests /\ Cardinality(Waiting) < Tabs
  /\ call' = Append(call, [op |-> op, game |-> g, sid |-> sid, at |-> "queued",
                           view |-> "waiting", todo |-> <<>>, bet |-> 0])
  /\ UNCHANGED <<service, outlets, history, faults>>

StartRequests == {c \in DOMAIN call : call[c].op = "startSession" /\ call[c].at = "queued"}

SendAny ==
  \/ Cardinality(StartRequests) + Len(session) < MaxSessions /\ \E g \in Games : Send("startSession", g, 0)
  \/ \E s \in DOMAIN session, op \in Ops \ {"startSession"} :
       op \in OpsOf(session[s].game) /\ Send(op, session[s].game, s)

\* Mutant of Timeout: a request whose handler is gone is waited for.
TimeoutOfHandled(c) ==
  /\ c \in Waiting /\ call[c].at # "lost"
  /\ Fault("timeout")
  /\ call' = [call EXCEPT ![c].view = "unavailable"]
  /\ UNCHANGED <<service, outlets, history>>

\* After 8 seconds the player is told that play is paused, whatever the engine does.
Timeout(c) ==
  /\ c \in Waiting
  /\ IF call[c].at = "lost" THEN UNCHANGED faults ELSE Fault("timeout")
  /\ call' = [call EXCEPT ![c].view = "unavailable"]
  /\ UNCHANGED <<service, outlets, history>>

\* The reply of a handler, if anyone still waits for it: a handler that threw is
\* answered as one that does not answer.
Reply(c, answer) ==
  [call EXCEPT ![c].at = "replied", ![c].todo = <<>>,
               ![c].view = IF @ = "waiting" THEN answer ELSE @]

---------------------------------------------------------------------------
(* The play service, as far as its results are published *)

OpenSessions(g) == {s \in DOMAIN session : session[s].game = g /\ session[s].open}

\* startSession ends the player's open sessions of the game and inserts its own.
PlayStartSession(c) ==
  /\ call[c].at = "queued"
  /\ session' = Append([s \in DOMAIN session |->
                          [session[s] EXCEPT !.open = @ /\ s \notin OpenSessions(call[c].game)]],
                       [game |-> call[c].game, open |-> TRUE, round |-> FALSE])
  /\ call' = [call EXCEPT ![c].at = "fanout", ![c].todo = <<"realtime">>]
  /\ UNCHANGED bet

\* Mutant of PlayEndSession: the end of a session that has ended already is not queued.
PlayEndOpenSession(c) ==
  /\ call[c].at = "queued"
  /\ session' = [session EXCEPT ![call[c].sid].open = FALSE]
  /\ call' = IF session[call[c].sid].open
             THEN [call EXCEPT ![c].at = "fanout", ![c].todo = <<"ended">>] ELSE Reply(c, "ok")
  /\ UNCHANGED bet

\* endSession answers ok for a session that has ended already, and its handler queues
\* the end of it again.
PlayEndSession(c) ==
  /\ call[c].at = "queued"
  /\ session' = [session EXCEPT ![call[c].sid].open = FALSE]
  /\ call' = [call EXCEPT ![c].at = "fanout", ![c].todo = <<"ended">>]
  /\ UNCHANGED bet

\* requireOpenSession, several statements before the bet or the round is written.
PlayChecks(c) ==
  /\ call[c].at = "queued"
  /\ call' = IF session[call[c].sid].open
             THEN [call EXCEPT ![c].at = "checked"] ELSE Reply(c, "refused")
  /\ UNCHANGED service

PlayRefuses(c) ==
  /\ call[c].at = "checked"
  /\ call' = Reply(c, "refused")
  /\ UNCHANGED service

\* Mutant of FanoutBet: the bus is not told.
FanoutBetOffTheBus(pays) ==
  <<"user">> \o (IF pays THEN <<"lobby">> ELSE <<>>) \o <<"realtime", "history">>

\* What fanoutBet publishes, in its order; the lobby hears of wins that pay.
FanoutBet(pays) ==
  <<"user">> \o (IF pays THEN <<"lobby">> ELSE <<>>) \o <<"bus", "realtime", "history">>

\* Mutant of Settle: the bet published is the last one known before.
SettleStale(c, how, pays, todo) ==
  /\ bet' = Append(bet, [sid |-> call[c].sid, how |-> how, pays |-> pays])
  /\ call' = [call EXCEPT ![c].at = "fanout", ![c].todo = todo, ![c].bet = Len(bet)]

Settle(c, how, pays, todo) ==
  /\ bet' = Append(bet, [sid |-> call[c].sid, how |-> how, pays |-> pays])
  /\ call' = [call EXCEPT ![c].at = "fanout", ![c].todo = todo, ![c].bet = Len(bet) + 1]

PlayPlaceBet(c) ==
  /\ call[c].at = "checked"
  /\ \E pays \in BOOLEAN : Settle(c, "placed", pays, FanoutBet(pays))
  /\ UNCHANGED session

InRound(c) == call[c].at = "checked" /\ session[call[c].sid].round
EndRound(c) == session' = [session EXCEPT ![call[c].sid].round = FALSE]

\* A round is started when the player has none open in the game; nothing is queued.
PlayStart(c) ==
  /\ call[c].at = "checked"
  /\ \A s \in DOMAIN session : session[s].game = call[c].game => ~session[s].round
  /\ session' = [session EXCEPT ![call[c].sid].round = TRUE]
  /\ call' = Reply(c, "ok")
  /\ UNCHANGED bet

\* A reveal queues the round's new state, also when it loses the round or clears it: a
\* cleared round is cashed out by the play service and never passes through fanoutBet.
PlayReveal(c) ==
  /\ InRound(c)
  /\ \/ /\ call' = [call EXCEPT ![c].at = "fanout", ![c].todo = <<"realtime">>]
        /\ UNCHANGED service
     \/ Settle(c, "lost", FALSE, <<"realtime">>) /\ EndRound(c)
     \/ Settle(c, "cleared", TRUE, <<"realtime">>) /\ EndRound(c)

PlayCashOut(c) ==
  InRound(c) /\ Settle(c, "cashed_out", TRUE, FanoutBet(TRUE)) /\ EndRound(c)

Play(c) ==
  /\ CASE call[c].op = "startSession" -> PlayStartSession(c)
       [] call[c].op = "endSession"   -> PlayEndSession(c)
       [] call[c].op = "placeBet"     -> PlayChecks(c) \/ PlayRefuses(c) \/ PlayPlaceBet(c)
       [] call[c].op = "start"        -> PlayChecks(c) \/ PlayRefuses(c) \/ PlayStart(c)
       [] call[c].op = "reveal"       -> PlayChecks(c) \/ PlayRefuses(c) \/ PlayReveal(c)
       [] OTHER                       -> PlayChecks(c) \/ PlayRefuses(c) \/ PlayCashOut(c)
  /\ UNCHANGED <<outlets, history, faults>>

---------------------------------------------------------------------------
(* Publishing *)

\* Mutant of TellUser: the player's channel carries wins only.
TellWins(i) == told' = IF i # 0 /\ bet[i].pays THEN i ELSE told

\* Ably shows the player one bet after another; only settled bets carry a balance.
TellUser(i) == told' = IF i # 0 /\ bet[i].how # "lost" THEN i ELSE told

\* The job fanoutBet queues is a bet, the one a reveal queues a round: the worker sends
\* both to the player's channel and only a bet to the lobby.
RealtimeJob(c) ==
  [bet |-> call[c].bet, win |-> call[c].op \in {"placeBet", "cashOut"} /\ bet[call[c].bet].pays]

Deliver(c, to) ==
  CASE to = "user"     -> TellUser(call[c].bet)
                          /\ UNCHANGED <<announced, bus, realtimeQueue, sessionQueue>>
    [] to = "lobby"    -> announced' = announced \cup {call[c].bet}
                          /\ UNCHANGED <<told, bus, realtimeQueue, sessionQueue>>
    [] to = "bus"      -> bus' = bus \cup {i \in {call[c].bet} : bet[i].pays}
                          /\ UNCHANGED <<told, announced, realtimeQueue, sessionQueue>>
    [] to = "realtime" -> realtimeQueue' = Append(realtimeQueue, RealtimeJob(c))
                          /\ UNCHANGED <<told, announced, bus, sessionQueue>>
    [] to = "history"  -> sessionQueue' = Append(sessionQueue,
                            [name |-> "history", sid |-> call[c].sid, item |-> call[c].bet])
                          /\ UNCHANGED <<told, announced, bus, realtimeQueue>>
    [] OTHER           -> sessionQueue' = Append(sessionQueue,
                            [name |-> "ended", sid |-> call[c].sid, item |-> 0])
                          /\ UNCHANGED <<told, announced, bus, realtimeQueue>>

Publishes(c) == call[c].at = "fanout"

\* On to the next publication; after the last one the handler returns its result.
GoOn(c) ==
  IF Len(call[c].todo) = 1 THEN Reply(c, "ok") ELSE [call EXCEPT ![c].todo = Tail(@)]

Publish(c) ==
  /\ Publishes(c)
  /\ Deliver(c, Head(call[c].todo))
  /\ call' = GoOn(c)
  /\ UNCHANGED <<service, history, faults>>

\* RealtimeService.publish and EventsService.publish log what fails and go on.
Swallows(to) == to \in {"user", "lobby", "bus"}

\* Mutant of AfterThrow: nothing is caught.
ThrowToGateway(c) == Reply(c, "unavailable")

\* placeBet catches what fanoutBet throws.  The other handlers do not: when a queue
\* refuses a job of theirs the player is answered as if nothing had been played.
AfterThrow(c) == Reply(c, IF call[c].op = "placeBet" THEN "ok" ELSE "unavailable")

PublishFails(c) ==
  /\ Publishes(c)
  /\ Fault("publish")
  /\ call' = IF Swallows(Head(call[c].todo)) THEN GoOn(c) ELSE AfterThrow(c)
  /\ UNCHANGED <<service, outlets, history>>

\* The consumer acknowledges nothing (noAck): a restart of the engine loses every
\* request it had taken, wherever its handler stood.
EngineRestarts ==
  /\ Fault("engine")
  /\ call' = [c \in DOMAIN call |->
                IF Handled(c) THEN [call[c] EXCEPT !.at = "lost", !.todo = <<>>] ELSE call[c]]
  /\ UNCHANGED <<service, outlets, history>>

Handler(c) == Play(c) \/ Publish(c) \/ PublishFails(c)

\* The player comes to the lobby, or back to a session he has open: one with a round open,
\* or one with a win long told, announced and in its history, or a fresh one.
Comes(atFirst, wins) ==
  /\ session = atFirst
  /\ bet = wins
  /\ told = Len(wins) /\ announced = DOMAIN wins
  /\ history = [s \in 1..MaxSessions |-> IF s = 1 THEN [i \in DOMAIN wins |-> i] ELSE <<>>]

OpenSession(g, round) == <<[game |-> g, open |-> TRUE, round |-> round]>>
EarlierWin == <<[sid |-> 1, how |-> "placed", pays |-> TRUE]>>

InitEngine ==
  /\ \/ Comes(<<>>, <<>>)
     \/ \E g \in Games : Comes(OpenSession(g, FALSE), <<>>)
     \/ "grid" \in Games /\ Comes(OpenSession("grid", TRUE), <<>>)
     \/ "instant" \in Games /\ Comes(OpenSession("instant", FALSE), EarlierWin)
  /\ call = <<>> /\ bus = {}
  /\ realtimeQueue = <<>> /\ sessionQueue = <<>>
  /\ faults = [k \in FaultKinds |-> 0]

Engine == SendAny \/ (\E c \in DOMAIN call : Timeout(c) \/ Handler(c)) \/ EngineRestarts

=============================================================================
