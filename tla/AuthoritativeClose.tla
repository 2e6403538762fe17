------------------------- MODULE AuthoritativeClose -------------------------
(***************************************************************************)
(* The close made by the server: the callable closeShiftAuthoritative, and *)
(* the terminals whose build uses it.  A request that was sent may be      *)
(* executed at any time, again, or after its caller gave up.               *)
(***************************************************************************)
EXTENDS ShiftClose

VARIABLES
  sent,     \* requests the callable was sent
  read,     \* call -> cash movements of the document it read before the call
  deferral  \* terminal -> where the replay of its deferred close stands

authVars == <<sent, read, deferral>>

Requests == [corr : Corrs, count : Counts]
AuthTypeOK ==
  /\ sent \subseteq Requests
  /\ read \in [Calls -> SUBSET Cash]
  /\ deferral \in [Devices -> {"idle", "calling"}]
AuthInit ==
  /\ sent = {}
  /\ read = [c \in Calls |-> {}]
  /\ deferral = [d \in Devices |-> "idle"]

-----------------------------------------------------------------------------
(* The callable, in one transaction.  It folds the server's movements and  *)
(* the count of the request; on a closed shift it only repeats its own     *)
(* answer, to the same request.                                            *)
Planned(request) == [cash |-> shift.cash, count |-> request.count]
Replays(request) == shift.corr = request.corr /\ authored /\ shift.figures.count = request.count
Answers(request) == ~Closed \/ Replays(request)

Execute(request) ==
  IF Closed THEN UNCHANGED <<shift, authored>>
  ELSE CloseShift(request.corr, Planned(request)) /\ authored' = TRUE

(* A request whose caller no longer listens.                               *)
ExecuteLate(request) ==
  /\ request \in sent /\ ~Closed
  /\ Execute(request)
  /\ UNCHANGED <<sealed, cashVars, seen, seenClosed, journalVars, closeVars, authVars>>

Request(c) == [corr |-> call[c].corr, count |-> CallCount[c]]
Expected(c) == [cash |-> read[c], count |-> CallCount[c]]

-----------------------------------------------------------------------------
(* The server is out of reach: the close is recorded, and nothing is sent. *)
CheckDeferred(c) ==
  LET d == CallDevice[c] IN
  /\ call[c].at \in {"idle", "flushing"} /\ d \in Authoritative /\ ~Journaling(d)
  /\ NoCashPending(d) /\ ~HasAttempt(d)
  /\ To(c, "checked", None, [cash |-> seen[d], count |-> CallCount[c]])
  /\ UNCHANGED <<shiftVars, journalVars, worker, zs, restarts, authVars>>

RecordDeferred(c) ==
  LET d == CallDevice[c] IN
  /\ call[c].at = "checked" /\ d \in Authoritative
  /\ End(c)
  /\ IF Upsertable(d, call[c].figures, TRUE)
       THEN /\ UpsertCloseIntent(d, call[c].figures, TRUE)
            /\ seenClosed' = [seenClosed EXCEPT ![d] = TRUE]
       ELSE UNCHANGED <<entry, seenClosed>>
  /\ UNCHANGED <<shift, authored, sealed, cashVars, seen, attempt, queued, worker, zs, restarts, authVars>>

(* Within reach: an existing record is only ever proven, by a replay.      *)
StartAuthoritative(c) ==
  /\ call[c].at = "idle" /\ CallDevice[c] \in Authoritative /\ ~HasEntry(CallDevice[c])
  /\ To(c, "flushing", None, None)
  /\ UNCHANGED <<shiftVars, journalVars, worker, zs, restarts, authVars>>

ProveJournaled(c) ==
  LET d == CallDevice[c] IN
  /\ call[c].at = "idle" /\ d \in Authoritative /\ HasEntry(d)
  /\ entry[d].status # "rejected_manual_attention"
  /\ CommittedOwnClose(entry[d].corr) /\ shift.figures = entry[d].figures
  /\ Replays([corr |-> shift.corr, count |-> shift.figures.count])
  /\ ShowZ(d, shift.corr, shift.figures) /\ End(c)
  /\ UNCHANGED <<shiftVars, journalVars, worker, restarts, authVars>>

(* The document is read, once this terminal's writes are out.              *)
ReadBeforeCall(c) ==
  LET d == CallDevice[c] IN
  /\ call[c].at = "flushing" /\ d \in Authoritative
  /\ unsent[d] = {} /\ queued[d] = None
  /\ read' = [read EXCEPT ![c] = shift.cash]
  /\ IF Closed
       THEN HasAttempt(d) /\ To(c, "prepared", attempt[d].corr, None)
       ELSE To(c, "prepared", None, None)
  /\ UNCHANGED <<shiftVars, journalVars, worker, zs, restarts, sent, deferral>>

(* The attempt is bound to the close expected from that read, which must   *)
(* be the drawer the cashier reviewed; one there is must be bound to it.   *)
BoundTo(d, figures) == attempt[d].expected = figures /\ ~attempt[d].superseded
BindAndCall(c) ==
  LET d == CallDevice[c]  corr == <<d, "online">> IN
  /\ call[c].at = "prepared" /\ d \in Authoritative /\ ~HasEntry(d)
  /\ IF call[c].corr = None
       THEN /\ seen[d] = read[c]
            /\ HasAttempt(d) => BoundTo(d, Expected(c))
       ELSE HasAttempt(d) /\ ~attempt[d].superseded /\ attempt[d].expected # None
            /\ attempt[d].expected.count = CallCount[c]
  /\ PrepareOnlineCloseAttempt(d, Expected(c))
  /\ To(c, "calling", corr, None)
  /\ sent' = sent \cup {[corr |-> corr, count |-> CallCount[c]]}
  /\ UNCHANGED <<shiftVars, entry, queued, worker, zs, restarts, read, deferral>>

(* The callable answers: the canonical close, which the call goes on to    *)
(* prove.                                                                  *)
Answered(c) ==
  /\ call[c].at = "calling" /\ Answers(Request(c))
  /\ Execute(Request(c))
  /\ To(c, "committed", call[c].corr, IF Closed THEN shift.figures ELSE Planned(Request(c)))
  /\ UNCHANGED <<sealed, cashVars, seen, seenClosed, journalVars, worker, zs, restarts, authVars>>

(* It refuses, or no answer comes; a close by this id is remembered.       *)
GiveUp(c) ==
  LET d == CallDevice[c] IN
  /\ call[c].at \in {"flushing", "prepared", "calling"} /\ d \in Authoritative
  /\ \/ /\ call[c].at = "calling" /\ CommittedOwnClose(call[c].corr)
        /\ MarkCommitObserved(d, call[c].corr)
     \/ UNCHANGED attempt
  /\ End(c)
  /\ UNCHANGED <<shiftVars, entry, queued, worker, zs, restarts, authVars>>

(* Proof: the document, the answer and the expected close are the same.    *)
ProofMatches(c, d) ==
  /\ CommittedOwnClose(call[c].corr) /\ shift.figures = call[c].figures
  /\ Finalizable(d, call[c].corr, call[c].figures, TRUE)
FinalizeAuthoritative(c) ==
  LET d == CallDevice[c] IN
  /\ call[c].at = "committed" /\ d \in Authoritative
  /\ \/ /\ ProofMatches(c, d)
        /\ FinalizeOnlineClose(d, call[c].corr, call[c].figures)
        /\ ShowZ(d, call[c].corr, call[c].figures)
        /\ guard' = [guard EXCEPT ![d] = {}]
     \/ MarkCommitObserved(d, call[c].corr) /\ UNCHANGED <<entry, zs, guard>>
  /\ End(c)
  /\ UNCHANGED <<shift, authored, sealed, refund, seen, seenClosed, unsent, queued, worker, restarts, authVars>>

-----------------------------------------------------------------------------
(* The sweep proves a bound attempt by a replay of its stored request,     *)
(* which the callable answers for a close of its own.                      *)
SweepAttempt(d) == RecoverAttempt(d, authored) /\ UNCHANGED authVars

(* The sweep replays a deferred close: the server would commit exactly it, *)
(* or nothing is sent and the record is rejected.                          *)
DeferredRequest(d) == [corr |-> entry[d].corr, count |-> entry[d].figures.count]
DeferredPending(d) == HasEntry(d) /\ entry[d].deferred /\ entry[d].status = "local_closed_pending"
MatchesServer(d) ==
  IF Closed THEN shift.corr = entry[d].corr ELSE Planned(DeferredRequest(d)) = entry[d].figures
ReplayDeferred(d) ==
  /\ DeferredPending(d) /\ deferral[d] = "idle" /\ unsent[d] = {}
  /\ IF MatchesServer(d)
       THEN /\ deferral' = [deferral EXCEPT ![d] = "calling"]
            /\ sent' = sent \cup {DeferredRequest(d)}
            /\ UNCHANGED entry
       ELSE entry' = Rejected(d) /\ UNCHANGED <<deferral, sent>>
  /\ UNCHANGED <<shiftVars, attempt, queued, closeVars, read>>

(* The answer is compared with the record; equal, the record is synced.    *)
DeferredAnswered(d) ==
  /\ deferral[d] = "calling" /\ deferral' = [deferral EXCEPT ![d] = "idle"]
  /\ Execute(DeferredRequest(d))
  /\ IF shift'.corr = entry[d].corr /\ authored' /\ shift'.figures = entry[d].figures
       THEN MarkSynced(d, IF shift'.sync = "pending" THEN "outstanding" ELSE "done")
       ELSE entry' = Rejected(d)
  /\ UNCHANGED <<sealed, cashVars, seen, seenClosed, attempt, queued, closeVars, sent, read>>

DeferredLost(d) ==
  /\ deferral[d] = "calling" /\ deferral' = [deferral EXCEPT ![d] = "idle"]
  /\ UNCHANGED <<shiftVars, journalVars, closeVars, sent, read>>

AuthCall(c) == \/ CheckDeferred(c) \/ RecordDeferred(c) \/ StartAuthoritative(c) \/ ProveJournaled(c)
               \/ ReadBeforeCall(c) \/ BindAndCall(c) \/ Answered(c) \/ GiveUp(c)
               \/ FinalizeAuthoritative(c)
Replay(d) == ReplayDeferred(d) \/ DeferredAnswered(d) \/ DeferredLost(d)
=============================================================================
