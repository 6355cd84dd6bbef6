-------------------------- MODULE FanoutProperties --------------------------
(***************************************************************************)
(* What a player, the lobby and the cached history are told of the bets    *)
(* the play service settled.                                               *)
(***************************************************************************)
EXTENDS HistoryWorker

Jobs == [name : {"history", "ended"}, sid : 1..MaxSessions, item : 0..MaxBets]
RealtimeJobs == [bet : 0..MaxBets, win : BOOLEAN]
AtMostOne(S) == {<<>>} \cup {<<x>> : x \in S}

\* Bets, requests, jobs and lists refer to what exists, and a call that publishes bets
\* names the bet it settled.
TypeOK ==
  /\ \A s \in DOMAIN session : session[s] \in [game : Games, open : BOOLEAN, round : BOOLEAN]
  /\ \A i \in DOMAIN bet : bet[i].sid \in DOMAIN session
  /\ \A c \in DOMAIN call :
       /\ call[c].sid \in {0} \cup DOMAIN session /\ call[c].bet \in 0..Len(bet)
       /\ call[c].at \in {"queued", "checked", "fanout", "replied", "lost"}
       /\ call[c].view \in {"waiting", "ok", "refused", "unavailable"}
       /\ "history" \in Range(call[c].todo) => call[c].bet # 0
  /\ told \in 0..Len(bet) /\ announced \subseteq DOMAIN bet /\ bus \subseteq DOMAIN bet
  /\ realtimeQueue \in Seq(RealtimeJobs) /\ sessionQueue \in Seq(Jobs)
  /\ \A s \in 1..MaxSessions : Range(history[s]) \subseteq DOMAIN bet
  /\ \A w \in Workers : publishing[w] \in AtMostOne(RealtimeJobs) /\ storing[w] \in AtMostOne(Jobs)
  /\ \A k \in FaultKinds : faults[k] \in Nat

\* Nothing is on its way any more.
Idle ==
  /\ \A c \in DOMAIN call : ~Handled(c)
  /\ bus = {} /\ realtimeQueue = <<>> /\ sessionQueue = <<>>
  /\ \A w \in Workers : publishing[w] = <<>> /\ storing[w] = <<>>

FannedOut(i) == bet[i].how \in {"placed", "cashed_out"}
BetsOf(s)    == {i \in DOMAIN bet : bet[i].sid = s /\ FannedOut(i)}

\* The latest of S, newest first and up to the limit: what the list leaves out is older.
AreTheLatest(list, S) ==
  /\ Range(list) \subseteq S /\ Len(list) <= HistoryLimit
  /\ \A i, j \in DOMAIN list : i < j => list[i] > list[j]
  /\ \A b \in S \ Range(list) : Len(list) = HistoryLimit /\ \A i \in DOMAIN list : list[i] > b

AskedToEnd(s) ==
  \E c \in DOMAIN call : call[c].op = "endSession" /\ call[c].sid = s /\ call[c].view = "ok"

JobsOf(s) ==
  {j \in Range(sessionQueue) \cup UNION {Range(storing[w]) : w \in Workers} : j.sid = s}

---------------------------------------------------------------------------
(* Safety *)

\* fanoutBet and SessionProcessor: when nothing went wrong and nothing is on its way, the
\* history of a session nobody asked to end is its instant bets and cashed-out rounds,
\* newest first, up to the limit; also of a session another one has replaced.
HistoryIsTheSession ==
  Idle /\ Unharmed(FaultKinds) =>
    \A s \in DOMAIN session : ~AskedToEnd(s) => AreTheLatest(history[s], BetsOf(s))

\* The "ended" job: once a player has ended a session and its jobs are done, its history
\* is gone and stays gone.  Restarts of engine and worker do not bring it back; a request
\* the gateway gave up on can, so the player must have had every answer in time.
EndedHistoryStaysGone ==
  Unharmed({"timeout", "publish"}) =>
    \A s \in DOMAIN session : AskedToEnd(s) /\ JobsOf(s) = {} => history[s] = <<>>

\* RealtimeService: "a failure here must never surface as a failed bet".  Whatever
\* publisher or queue fails, the engine answers a bet it settled with the bet.
FanoutNeverFailsABet ==
  \A c \in DOMAIN call :
    call[c].op = "placeBet" /\ call[c].bet # 0 =>
      /\ call[c].view # "refused"
      /\ call[c].view = "unavailable" => ~Unharmed({"timeout", "engine"})

\* The player's channel carries every bet twice, from the engine and again from the
\* worker: when both are through, the last one it carried is the last one settled, so
\* that the balance shown is the player's.  A restarted worker repeats jobs in order.
LastToldIsLatest ==
  Idle /\ Unharmed({"publish", "timeout", "engine"}) =>
    told = Max({0} \cup {i \in DOMAIN bet : bet[i].how # "lost"})

---------------------------------------------------------------------------
(* Liveness *)

\* The gateway's timer: the player never waits for good, whatever becomes of a handler.
RequestsAreAnswered == []<>(Waiting = {})

\* EventsController: "Second path for the same facts".  The lobby hears of a win from the
\* engine, the queue and the bus: it takes three faults, or an engine that stops before
\* it publishes, to keep one from it.
WinsReachTheLobby ==
  []<>(\/ \A i \in DOMAIN bet : FannedOut(i) /\ bet[i].pays => i \in announced
       \/ faults["publish"] + faults["worker"] > 2 \/ ~Unharmed({"engine"}))

BeingFannedOut(i) == \E c \in DOMAIN call : call[c].bet = i /\ "history" \in Range(call[c].todo)

\* A bet that is being fanned out comes to stand in its session's history, unless the
\* engine stops or a queue or Redis refuses it; a restarted worker takes its job up again.
BetsReachTheHistory ==
  \A i \in 1..MaxBets :
    BeingFannedOut(i) ~> \/ i \in DOMAIN bet /\ i \in Range(history[bet[i].sid])
                         \/ ~Unharmed({"publish", "engine"})
=============================================================================
