--------------------------- MODULE HistoryWorker ---------------------------
(***************************************************************************)
(* The workers that consume what the engine queued: the realtime queue     *)
(* (RealtimeProcessor), the session queue (SessionProcessor, which keeps   *)
(* each session's history in Redis) and the bet.settled events of the bus  *)
(* (EventsController).  A processor runs one job of its queue at a time.   *)
(***************************************************************************)
EXTENDS Fanout, SequencesExt

CONSTANT Workers

VARIABLES
  publishing,  \* worker -> the realtime job it runs, as a sequence of at most one
  storing,     \* worker -> the session job it runs, as a sequence of at most one
  stored,      \* worker -> whether that job has changed Redis and is only to be completed
  existing     \* worker -> what it read of the job's history

processors == <<publishing, storing, stored, existing>>
vars == <<service, call, outlets, history, faults, processors>>

InitWorker ==
  /\ publishing = [w \in Workers |-> <<>>] /\ storing = [w \in Workers |-> <<>>]
  /\ stored = [w \in Workers |-> FALSE] /\ existing = [w \in Workers |-> <<>>]

---------------------------------------------------------------------------
(* RealtimeProcessor *)

\* Ably may fail at any publication; the job goes on (RealtimeService.publish).
MayFail(effect) ==
  (effect /\ UNCHANGED faults) \/ (Fault("publish") /\ UNCHANGED <<told, announced>>)

\* Taking a job changes nothing that shows before its first publication.
TakeRealtime(w) ==
  /\ publishing[w] = <<>> /\ realtimeQueue # <<>>
  /\ publishing' = [publishing EXCEPT ![w] = <<Head(realtimeQueue)>>]
  /\ MayFail(TellUser(Head(realtimeQueue).bet) /\ UNCHANGED announced)
  /\ realtimeQueue' = Tail(realtimeQueue)
  /\ UNCHANGED <<service, call, bus, sessionQueue, history, storing, stored, existing>>

Announce(w) ==
  /\ publishing[w] # <<>>
  /\ LET job == publishing[w][1] IN
       IF job.win THEN MayFail(announced' = announced \cup {job.bet} /\ UNCHANGED told)
                  ELSE UNCHANGED <<told, announced, faults>>
  /\ publishing' = [publishing EXCEPT ![w] = <<>>]
  /\ UNCHANGED <<service, call, bus, realtimeQueue, sessionQueue, history,
                 storing, stored, existing>>

---------------------------------------------------------------------------
(* EventsController *)

\* A settled bet that won and paid; the consumer drops any other.
OnBetSettled(i) ==
  /\ i \in bus
  /\ bus' = bus \ {i}
  /\ MayFail(announced' = announced \cup {i} /\ UNCHANGED told)
  /\ UNCHANGED <<service, call, realtimeQueue, sessionQueue, history, processors>>

---------------------------------------------------------------------------
(* SessionProcessor *)

Take(w) ==
  /\ storing[w] = <<>> /\ sessionQueue # <<>>
  /\ storing' = [storing EXCEPT ![w] = <<Head(sessionQueue)>>]
  /\ sessionQueue' = Tail(sessionQueue)
  /\ UNCHANGED <<service, call, told, announced, bus, realtimeQueue, faults, publishing>>

\* CacheService.del
DeleteHistory(w) ==
  /\ Take(w)
  /\ Head(sessionQueue).name = "ended"
  /\ history' = [history EXCEPT ![Head(sessionQueue).sid] = <<>>]
  /\ stored' = [stored EXCEPT ![w] = TRUE]
  /\ UNCHANGED existing

\* CacheService.get
ReadHistory(w) ==
  /\ Take(w)
  /\ Head(sessionQueue).name = "history"
  /\ existing' = [existing EXCEPT ![w] = history[Head(sessionQueue).sid]]
  /\ stored' = [stored EXCEPT ![w] = FALSE]
  /\ UNCHANGED history

\* Mutant of WithItem: the item goes last, so that a full list never takes another.
OldestFirst(item, list) == SubSeq(Append(list, item), 1, Min({Len(list) + 1, HistoryLimit}))

\* [item, ...existing].slice(0, 50)
WithItem(item, list) == SubSeq(<<item>> \o list, 1, Min({Len(list) + 1, HistoryLimit}))

\* CacheService.set
WriteHistory(w) ==
  /\ storing[w] # <<>> /\ ~stored[w]
  /\ history' = [history EXCEPT ![storing[w][1].sid] = WithItem(storing[w][1].item, existing[w])]
  /\ existing' = [existing EXCEPT ![w] = <<>>]
  /\ stored' = [stored EXCEPT ![w] = TRUE]
  /\ UNCHANGED <<service, call, outlets, faults, publishing, storing>>

Complete(w) ==
  /\ storing[w] # <<>> /\ stored[w]
  /\ storing' = [storing EXCEPT ![w] = <<>>]
  /\ UNCHANGED <<service, call, outlets, history, faults, publishing, stored, existing>>

\* Redis refuses a command: the job throws, and jobs are tried once.
SessionJobFails(w) ==
  /\ Fault("publish")
  /\ \/ /\ storing[w] = <<>> /\ sessionQueue # <<>>
        /\ sessionQueue' = Tail(sessionQueue)
        /\ UNCHANGED <<storing, existing>>
     \/ /\ storing[w] # <<>> /\ ~stored[w]
        /\ storing' = [storing EXCEPT ![w] = <<>>]
        /\ existing' = [existing EXCEPT ![w] = <<>>]
        /\ UNCHANGED sessionQueue
  /\ UNCHANGED <<service, call, told, announced, bus, realtimeQueue, history, publishing, stored>>

\* The key lives twelve hours after the last item.
HistoryExpires(s) ==
  /\ history[s] # <<>>
  /\ Fault("expiry")
  /\ history' = [history EXCEPT ![s] = <<>>]
  /\ UNCHANGED <<service, call, outlets, processors>>

---------------------------------------------------------------------------
(* A worker dies and comes back: BullMQ runs the jobs it held again, before the waiting *)
(* ones; the bus does not deliver again what it had pushed (noAck).                     *)

\* Mutant of WorkerRestarts: a job that stalls is not run again.
WorkerForgets(w) ==
  /\ Fault("worker")
  /\ publishing' = [publishing EXCEPT ![w] = <<>>]
  /\ storing' = [storing EXCEPT ![w] = <<>>]
  /\ existing' = [existing EXCEPT ![w] = <<>>]
  /\ \E kept \in SUBSET bus : bus' = kept
  /\ UNCHANGED <<service, call, told, announced, realtimeQueue, sessionQueue, history, stored>>

WorkerRestarts(w) ==
  /\ Fault("worker")
  /\ realtimeQueue' = publishing[w] \o realtimeQueue
  /\ sessionQueue' = storing[w] \o sessionQueue
  /\ publishing' = [publishing EXCEPT ![w] = <<>>]
  /\ storing' = [storing EXCEPT ![w] = <<>>]
  /\ existing' = [existing EXCEPT ![w] = <<>>]
  /\ \E kept \in SUBSET bus : bus' = kept
  /\ UNCHANGED <<service, call, told, announced, history, stored>>

---------------------------------------------------------------------------
RealtimeProcessor(w) == TakeRealtime(w) \/ Announce(w)

SessionProcessor(w) ==
  \/ DeleteHistory(w) \/ ReadHistory(w) \/ WriteHistory(w)
  \/ SessionJobFails(w) \/ Complete(w)

Next ==
  \/ Engine /\ UNCHANGED processors
  \/ \E w \in Workers : RealtimeProcessor(w) \/ SessionProcessor(w) \/ WorkerRestarts(w)
  \/ \E i \in bus : OnBetSettled(i)
  \/ \E s \in DOMAIN history : HistoryExpires(s)

Init == InitEngine /\ InitWorker

Spec == Init /\ [][Next]_vars

\* The event loops of the engine and of the workers take every step that is ready, the
\* gateway's timer fires for a request that is lost, and consumers take what is queued.
FairSpec ==
  /\ Spec
  /\ WF_vars(UNCHANGED processors /\ \E c \in DOMAIN call : Handler(c))
  /\ WF_vars(UNCHANGED processors /\ \E c \in DOMAIN call : call[c].at = "lost" /\ Timeout(c))
  /\ WF_vars(\E w \in Workers : RealtimeProcessor(w))
  /\ WF_vars(\E w \in Workers : SessionProcessor(w))
  /\ WF_vars(\E i \in bus : OnBetSettled(i))

=============================================================================
