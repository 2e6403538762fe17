----------------------------- MODULE ShiftClose -----------------------------
(***************************************************************************)
(* The close as the terminals make it themselves: online in a transaction, *)
(* offline as a journaled record with a queued write, and the sweep that   *)
(* settles both.  A call the cashier no longer waits for keeps running, so *)
(* several calls of one terminal overlap.                                  *)
(***************************************************************************)
EXTENDS CloseJournal

CONSTANTS Calls,        \* calls of closeShift
          CallDevice,   \* call -> terminal
          CallCount,    \* call -> what the cashier counted
          Workers,      \* reconciliations: the sweep, or one a close started
          WorkerDevice, \* worker -> terminal
          Authoritative,\* terminals whose build leaves the close to the server
          MaxRestarts   \* bound on restarts of a terminal

ASSUME CloseAssumption ==
  /\ CallDevice \in [Calls -> Devices] /\ CallCount \in [Calls -> Counts]
  /\ WorkerDevice \in [Workers -> Devices]
  /\ Authoritative \subseteq Devices
  /\ MaxRestarts \in Nat

VARIABLES
  call,     \* call -> where it stands, its correlation id and figures
  worker,   \* worker -> where it stands, and the sync state it read
  zs,       \* the Z reports shown as the server's close
  restarts

callVars == <<call, zs>>
closeVars == <<call, worker, zs, restarts>>

CallStates == {"idle", "checked", "flushing", "prepared", "committed", "calling", "done"}
CloseTypeOK ==
  /\ call \in [Calls -> [at : CallStates, corr : Corrs \cup {None}, figures : Figures \cup {None}]]
  /\ worker \in [Workers -> [at : {"idle", "read", "marked", "written"}, corr : Corrs \cup {None},
                             sync : {"none", "pending", "synced"}]]
  /\ zs \subseteq [device : Devices, corr : Corrs, figures : Figures]
  /\ restarts \in 0..MaxRestarts

IdleCall == [at |-> "idle", corr |-> None, figures |-> None]
IdleWorker == [at |-> "idle", corr |-> None, sync |-> "none"]
CloseInit ==
  /\ call = [c \in Calls |-> IdleCall]
  /\ worker = [k \in Workers |-> IdleWorker]
  /\ zs = {} /\ restarts = 0

To(c, at, corr, figures) == call' = [call EXCEPT ![c] = [at |-> at, corr |-> corr, figures |-> figures]]
End(c) == To(c, "done", None, None)
ShowZ(d, corr, figures) == zs' = zs \cup {[device |-> d, corr |-> corr, figures |-> figures]}
Journaling(d) == \E c \in Calls : CallDevice[c] = d /\ call[c].at = "checked"

(* The document is closed by the correlation id, as the strict parse wants.*)
MutCommittedOwnClose(corr) == Closed /\ shift.corr[1] = corr[1]  (* mutant: any close of this terminal *)

CommittedOwnClose(corr) == Closed /\ shift.corr = corr

-----------------------------------------------------------------------------
(* Offline: no guard, no attempt of unknown outcome; then the record, and  *)
(* the close write behind the terminal's other writes.                     *)
MutNoCashPending(d) == TRUE  (* mutant: the guards are not read *)

NoCashPending(d) == guard[d] = {}
CheckOffline(c) ==
  LET d == CallDevice[c] IN
  /\ call[c].at = "idle" /\ d \notin Authoritative /\ ~seenClosed[d] /\ ~Journaling(d)
  /\ NoCashPending(d) /\ ~HasAttempt(d)
  /\ To(c, "checked", None, [cash |-> seen[d], count |-> CallCount[c]])
  /\ UNCHANGED <<shiftVars, journalVars, worker, zs, restarts>>

JournalOffline(c) ==
  LET d == CallDevice[c] IN
  /\ call[c].at = "checked" /\ d \notin Authoritative
  /\ End(c)
  /\ IF Upsertable(d, call[c].figures, FALSE)
       THEN /\ UpsertCloseIntent(d, call[c].figures, FALSE)
            /\ queued' = [queued EXCEPT ![d] = call[c].figures]
            /\ seenClosed' = [seenClosed EXCEPT ![d] = TRUE]
       ELSE UNCHANGED <<entry, queued, seenClosed>>
  /\ UNCHANGED <<shift, authored, sealed, cashVars, seen, attempt, worker, zs, restarts>>

(* The rules accept the queued close on an open shift, while they accept   *)
(* it from a client at all.                                                *)
MutAcceptsClientClose == ~sealed  (* mutant: the rules take a close of a closed shift *)

AcceptsClientClose == ~Closed /\ ~sealed
FirstInLine(d) == unsent[d] = {}
FlushClose(d) ==
  /\ queued[d] # None /\ FirstInLine(d)
  /\ queued' = [queued EXCEPT ![d] = None]
  /\ IF AcceptsClientClose
       THEN CloseShift(entry[d].corr, queued[d]) /\ UNCHANGED <<entry, seenClosed>>
       ELSE /\ UNCHANGED shift
            /\ entry' \in {entry, Rejected(d)}   \* the page that queued it may be gone
            /\ seenClosed' = [seenClosed EXCEPT ![d] = Closed]
  /\ UNCHANGED <<authored, sealed, cashVars, seen, attempt, closeVars>>

-----------------------------------------------------------------------------
(* Online: wait for the queued writes, store the attempt, close.           *)
StartOnline(c) ==
  LET d == CallDevice[c] IN
  /\ call[c].at = "idle" /\ d \notin Authoritative /\ ~seenClosed[d]
  /\ To(c, "flushing", None, [cash |-> seen[d], count |-> CallCount[c]])
  /\ UNCHANGED <<shiftVars, journalVars, worker, zs, restarts>>

PrepareOnline(c) ==
  LET d == CallDevice[c] IN
  /\ call[c].at = "flushing" /\ d \notin Authoritative
  /\ unsent[d] = {} /\ queued[d] = None
  /\ PrepareOnlineCloseAttempt(d, None)
  /\ IF Preparable(d, None)
       THEN To(c, "prepared", IF HasEntry(d) THEN entry[d].corr ELSE attempt'[d].corr, call[c].figures)
       ELSE End(c)
  /\ UNCHANGED <<shiftVars, entry, queued, worker, zs, restarts>>

(* The transaction on an open shift folds what the terminal held when the  *)
(* close began and what the server holds; its answer may be lost.          *)
Journaled(d, corr) == HasEntry(d) /\ entry[d].corr = corr
Folded(c) == [call[c].figures EXCEPT !.cash = @ \cup shift.cash]
CommitOnline(c) ==
  LET d == CallDevice[c] IN
  /\ call[c].at = "prepared" /\ d \notin Authoritative
  /\ AcceptsClientClose /\ ~Journaled(d, call[c].corr)
  /\ CloseShift(call[c].corr, Folded(c))
  /\ \/ To(c, "committed", call[c].corr, Folded(c)) /\ guard' = [guard EXCEPT ![d] = {}]
     \/ End(c) /\ UNCHANGED guard
  /\ UNCHANGED <<authored, sealed, refund, seen, seenClosed, unsent, journalVars, worker, zs, restarts>>

(* It finds the shift closed by this very id: an earlier try committed.    *)
FindOwnCommit(c) ==
  LET d == CallDevice[c] IN
  /\ call[c].at = "prepared" /\ d \notin Authoritative
  /\ CommittedOwnClose(call[c].corr)
  /\ To(c, "committed", call[c].corr, shift.figures)
  /\ guard' = [guard EXCEPT ![d] = {}]
  /\ UNCHANGED <<shift, authored, sealed, refund, seen, seenClosed, unsent, journalVars, worker, zs, restarts>>

(* It finds the shift closed by another id, so that the attempt can never  *)
(* commit; or it fails, and the attempt is kept.                           *)
RefusedOnline(c) ==
  LET d == CallDevice[c] IN
  /\ call[c].at = "prepared" /\ d \notin Authoritative
  /\ End(c)
  /\ \/ /\ Closed /\ ~CommittedOwnClose(call[c].corr)
        /\ SupersedeOnlineCloseAttempt(d, call[c].corr)
     \/ UNCHANGED attempt
  /\ UNCHANGED <<shiftVars, entry, queued, worker, zs, restarts>>

(* The server's document proves the close, and the journal records it: the *)
(* Z is shown.  Unproven, or refused by the journal, it is not.            *)
ProveAndFinalize(c) ==
  LET d == CallDevice[c]  corr == call[c].corr  figures == call[c].figures IN
  /\ call[c].at = "committed" /\ d \notin Authoritative
  /\ CommittedOwnClose(corr) /\ shift.figures = figures
  /\ Finalizable(d, corr, figures, FALSE)
  /\ FinalizeOnlineClose(d, corr, figures)
  /\ ShowZ(d, corr, figures) /\ End(c)
  /\ UNCHANGED <<shiftVars, queued, worker, restarts>>

LeaveObserved(c) ==
  /\ call[c].at = "committed" /\ CallDevice[c] \notin Authoritative
  /\ MarkCommitObserved(CallDevice[c], call[c].corr)
  /\ End(c)
  /\ UNCHANGED <<shiftVars, entry, queued, worker, zs, restarts>>

(* The cache shows the shift closed: the retry of a close that committed   *)
(* shows its Z, from the record or from the attempt.                       *)
RecoverOwnCommittedClose(c) ==
  LET d == CallDevice[c] IN
  /\ call[c].at = "idle" /\ d \notin Authoritative /\ seenClosed[d] /\ Closed
  /\ \/ /\ Journaled(d, shift.corr) /\ ~entry[d].deferred /\ entry[d].figures = shift.figures
        /\ UNCHANGED <<entry, attempt>>
     \/ /\ ~Journaled(d, shift.corr) /\ HasAttempt(d) /\ attempt[d].corr = shift.corr
        /\ Finalizable(d, shift.corr, shift.figures, FALSE)
        /\ FinalizeOnlineClose(d, shift.corr, shift.figures)
  /\ ShowZ(d, shift.corr, shift.figures) /\ End(c)
  /\ UNCHANGED <<shiftVars, queued, worker, restarts>>

-----------------------------------------------------------------------------
(* The sweep settles a stored attempt against the server's document.  Once *)
(* closed the document only changes its sync mark, so the read and the     *)
(* store transaction that acts on it make one step.                        *)
RecoverAttempt(d, proof) ==
  /\ HasAttempt(d) /\ ~attempt[d].superseded /\ Closed
  /\ IF CommittedOwnClose(attempt[d].corr)
       THEN Finalizable(d, shift.corr, shift.figures, proof) /\ FinalizeOnlineClose(d, shift.corr, shift.figures)
       ELSE ~attempt[d].observed /\ SupersedeOnlineCloseAttempt(d, attempt[d].corr) /\ UNCHANGED entry
  /\ UNCHANGED <<shiftVars, queued, closeVars>>

(* A pending record: the server's close is compared with it.               *)
ConfirmsEntry(e) == shift.corr = e.corr /\ shift.figures = e.figures
ReadClose(k) ==
  LET d == WorkerDevice[k] IN
  /\ worker[k].at = "idle" /\ HasEntry(d) /\ Closed
  /\ entry[d].status = "local_closed_pending" /\ ~entry[d].deferred
  /\ IF ConfirmsEntry(entry[d])
       THEN /\ worker' = [worker EXCEPT ![k] = [at |-> "read", corr |-> shift.corr, sync |-> shift.sync]]
            /\ UNCHANGED entry
       ELSE entry' = Rejected(d) /\ UNCHANGED worker
  /\ UNCHANGED <<shiftVars, attempt, queued, callVars, restarts>>

(* The record becomes synced, still owing the mark if the read said so.    *)
MarkRead(k) ==
  LET d == WorkerDevice[k]  owes == worker[k].sync = "pending" IN
  /\ worker[k].at = "read"
  /\ MarkSynced(d, IF owes THEN "outstanding" ELSE "done")
  /\ worker' = [worker EXCEPT ![k] = IF owes THEN [@ EXCEPT !.at = "marked"] ELSE IdleWorker]
  /\ UNCHANGED <<shiftVars, attempt, queued, callVars, restarts>>

(* A synced record that still owes the mark is taken up again.             *)
RetryNormalization(k) ==
  LET d == WorkerDevice[k] IN
  /\ worker[k].at = "idle" /\ HasEntry(d) /\ Closed
  /\ entry[d].status = "synced" /\ entry[d].norm = "outstanding"
  /\ ConfirmsEntry(entry[d])
  /\ worker' = [worker EXCEPT ![k] =
       [at |-> IF shift.sync = "synced" THEN "written" ELSE "marked", corr |-> shift.corr, sync |-> shift.sync]]
  /\ UNCHANGED <<shiftVars, journalVars, callVars, restarts>>

WriteNormalization(k) ==
  LET decision == NormalizationDecision(worker[k].corr) IN
  /\ worker[k].at = "marked"
  /\ shift' = IF decision = "write" THEN [shift EXCEPT !.sync = "synced"] ELSE shift
  /\ worker' = [worker EXCEPT ![k] =
       IF decision = "precondition_failed" THEN IdleWorker ELSE [@ EXCEPT !.at = "written"]]
  /\ UNCHANGED <<authored, sealed, cashVars, seen, seenClosed, journalVars, callVars, restarts>>

RecordNormalization(k) ==
  /\ worker[k].at = "written"
  /\ SetNormalization(WorkerDevice[k], worker[k].corr)
  /\ worker' = [worker EXCEPT ![k] = IdleWorker]
  /\ UNCHANGED <<shiftVars, attempt, queued, callVars, restarts>>

(* The terminal restarts: what is stored stays, every call is gone.        *)
Restart(d) ==
  /\ restarts < MaxRestarts /\ restarts' = restarts + 1
  /\ call' = [c \in Calls |-> IF CallDevice[c] = d /\ call[c].at # "idle"
                                THEN [at |-> "done", corr |-> None, figures |-> None] ELSE call[c]]
  /\ worker' = [k \in Workers |-> IF WorkerDevice[k] = d THEN IdleWorker ELSE worker[k]]
  /\ UNCHANGED <<shiftVars, journalVars, zs>>

Call(c) == \/ CheckOffline(c) \/ JournalOffline(c) \/ StartOnline(c) \/ PrepareOnline(c)
           \/ CommitOnline(c) \/ FindOwnCommit(c) \/ RefusedOnline(c) \/ ProveAndFinalize(c)
           \/ LeaveObserved(c) \/ RecoverOwnCommittedClose(c)
Reconcile(k) == ReadClose(k) \/ MarkRead(k) \/ RetryNormalization(k) \/ WriteNormalization(k)
                \/ RecordNormalization(k)
=============================================================================
