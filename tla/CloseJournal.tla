---------------------------- MODULE CloseJournal ----------------------------
(***************************************************************************)
(* The close journal of every terminal (IndexedDB): the record of a close, *)
(* the attempt of an online close, and the queued close write.  Each       *)
(* operator below is one store transaction.                                *)
(***************************************************************************)
EXTENDS ShiftDoc

VARIABLES
  entry,    \* terminal -> its record of a close of the shift
  attempt,  \* terminal -> its durable online attempt
  queued    \* terminal -> figures of the close write it queued

journalVars == <<entry, attempt, queued>>

Entries == [corr : Corrs, figures : Figures, deferred : BOOLEAN,
            status : {"local_closed_pending", "synced", "rejected_manual_attention"},
            norm : {"unset", "outstanding", "done"}]
Attempts == [corr : Corrs, expected : Figures \cup {None}, observed : BOOLEAN, superseded : BOOLEAN]

ASSUME JournalAssumption == None \notin Entries /\ None \notin Attempts

JournalTypeOK ==
  /\ entry \in [Devices -> Entries \cup {None}]
  /\ attempt \in [Devices -> Attempts \cup {None}]
  /\ queued \in [Devices -> Figures \cup {None}]

JournalInit ==
  /\ entry = [d \in Devices |-> None]
  /\ attempt = [d \in Devices |-> None]
  /\ queued = [d \in Devices |-> None]

HasEntry(d) == entry[d] # None
HasAttempt(d) == attempt[d] # None

(* mutant: the record carries no mark of what it still owes the server *)
MutNewEntry(corr, figures, deferred) ==
  [corr |-> corr, figures |-> figures, deferred |-> deferred, status |-> "local_closed_pending"]

NewEntry(corr, figures, deferred) ==
  [corr |-> corr, figures |-> figures, deferred |-> deferred,
   status |-> "local_closed_pending", norm |-> "unset"]

(* A close of this shift may be journaled over nothing, or over its equal. *)
Upsertable(d, figures, deferred) ==
  HasEntry(d) => entry[d].figures = figures /\ entry[d].deferred = deferred
UpsertCloseIntent(d, figures, deferred) ==
  entry' = [entry EXCEPT ![d] = IF HasEntry(d) THEN @ ELSE NewEntry(<<d, "offline">>, figures, deferred)]

(* The durable identity of an online close: the one there is, or a new one.*)
(* A legacy close does not take up an attempt of the other protocol.       *)
Preparable(d, expected) ==
  HasEntry(d) \/ (HasAttempt(d) => (expected = None => attempt[d].expected = None))
PrepareOnlineCloseAttempt(d, expected) ==
  attempt' = [attempt EXCEPT ![d] =
    IF HasEntry(d) \/ HasAttempt(d) THEN @
    ELSE [corr |-> <<d, "online">>, expected |-> expected, observed |-> FALSE, superseded |-> FALSE]]

(* What the attempt allows to be journaled: only its own close, not once a *)
(* tombstone, and under the authority only the expected close with proof.  *)
AttemptAllows(d, corr, figures, proof) ==
  /\ attempt[d].corr = corr
  /\ ~attempt[d].superseded
  /\ attempt[d].expected # None => attempt[d].expected = figures /\ proof
Finalizable(d, corr, figures, proof) ==
  /\ HasAttempt(d) => AttemptAllows(d, corr, figures, proof)
  /\ IF HasEntry(d) THEN entry[d].figures = figures /\ entry[d].corr = corr ELSE HasAttempt(d)
FinalizeOnlineClose(d, corr, figures) ==
  /\ entry' = [entry EXCEPT ![d] = IF HasEntry(d) THEN @ ELSE NewEntry(corr, figures, FALSE)]
  /\ attempt' = [attempt EXCEPT ![d] = None]

SupersedeOnlineCloseAttempt(d, corr) ==
  attempt' = [attempt EXCEPT ![d] =
    IF HasAttempt(d) /\ attempt[d].corr = corr /\ ~attempt[d].observed
      THEN [@ EXCEPT !.superseded = TRUE] ELSE @]
MarkCommitObserved(d, corr) ==
  attempt' = [attempt EXCEPT ![d] =
    IF HasAttempt(d) /\ attempt[d].corr = corr THEN [@ EXCEPT !.observed = TRUE] ELSE @]

(* The status writes look at nothing but the presence of the record.       *)
MutMarkSynced(d, norm) == (* mutant: the mark is taken as written *)
  entry' = [entry EXCEPT ![d] = [@ EXCEPT !.status = "synced", !.norm = "done"]]

MarkSynced(d, norm) == entry' = [entry EXCEPT ![d] = [@ EXCEPT !.status = "synced", !.norm = norm]]

MutRejected(d) == entry  (* mutant: a refused record stays pending *)

Rejected(d) == [entry EXCEPT ![d] = [@ EXCEPT !.status = "rejected_manual_attention"]]
SetNormalization(d, corr) ==
  entry' = [entry EXCEPT ![d] =
    IF @.status = "synced" /\ @.corr = corr THEN [@ EXCEPT !.norm = "done"] ELSE @]
=============================================================================
