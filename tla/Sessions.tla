------------------------------ MODULE Sessions ------------------------------
(***************************************************************************)
(* startSession and endSession of PlayService: the wait-room sessions that *)
(* scope a player's rounds.                                                *)
(***************************************************************************)
EXTENDS PlayDb

\* session.start: at most MaxSessions rows, counting the ones being inserted.
StartSessionArrives(r) ==
  \E u \in Users, g \in Games :
    /\ Len(session) + Cardinality({q \in Requests : req[q].op = "startSession"}) < MaxSessions
    /\ Arrive(r, [Idle EXCEPT !.op = "startSession", !.pc = "game", !.user = u, !.game = g])

\* getPlayableGame: the game is active and not hidden from this player.
GetPlayableGame(r) ==
  /\ At(r, "startSession", "game")
  /\ Check(r, /\ req[r].game \notin admin.closed
              /\ <<req[r].user, req[r].game>> \notin admin.hidden, "end")
  /\ UNCHANGED <<rows, admin, failures>>

\* Mutant of EndOpenSessions: the old sessions stay open.
KeepOpenSessions(r) ==
  At(r, "startSession", "end") /\ Goto(r, "insert") /\ UNCHANGED <<rows, admin, failures>>

\* One UPDATE ends every open session of the player on this game.
EndOpenSessions(r) ==
  /\ At(r, "startSession", "end")
  /\ session' = [s \in DOMAIN session |->
       [session[s] EXCEPT !.ended = \/ @
                                    \/ /\ session[s].user = req[r].user
                                       /\ session[s].game = req[r].game]]
  /\ Goto(r, "insert")
  /\ UNCHANGED <<wallet, bet, ledger, control, admin, failures>>

\* The new row; the reads that build the reply change nothing.
InsertSession(r) ==
  /\ At(r, "startSession", "insert")
  /\ session' = Append(session, [user |-> req[r].user, game |-> req[r].game, ended |-> FALSE,
                                 betCount |-> 0, staked |-> 0, won |-> 0])
  /\ Finish(r)
  /\ UNCHANGED <<wallet, bet, ledger, control, admin, failures>>

StartSession(r) ==
  \/ StartSessionArrives(r)
  \/ GetPlayableGame(r)
  \/ EndOpenSessions(r)
  \/ InsertSession(r)

EndSessionArrives(r) ==
  \E u \in Users, s \in DOMAIN session :
    Arrive(r, [Idle EXCEPT !.op = "endSession", !.pc = "row", !.user = u,
                           !.game = session[s].game, !.sid = s])

\* Someone else's session is "not found"; an ended one is answered at once.
ReadSession(r) ==
  /\ At(r, "endSession", "row")
  /\ Check(r, session[req[r].sid].user = req[r].user /\ ~session[req[r].sid].ended, "end")
  /\ UNCHANGED <<rows, admin, failures>>

MarkEnded(r) ==
  /\ At(r, "endSession", "end")
  /\ session' = [session EXCEPT ![req[r].sid].ended = TRUE]
  /\ Finish(r)
  /\ UNCHANGED <<wallet, bet, ledger, control, admin, failures>>

EndSession(r) == EndSessionArrives(r) \/ ReadSession(r) \/ MarkEnded(r)
=============================================================================
