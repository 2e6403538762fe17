---------------------------- MODULE ShiftsProofs ----------------------------
(***************************************************************************)
(* Theorems about Shifts, for any terminals, calls, workers, movements and *)
(* refunds, any number of restarts, and either protocol on each terminal.  *)
(***************************************************************************)
EXTENDS Shifts, TLAPS

USE ShiftAssumption, JournalAssumption, CloseAssumption

-----------------------------------------------------------------------------
(* Correlation ids, and the closing records the journal and the document   *)
(* may hold.                                                               *)
LEMMA CorrsOfDevice ==
  ASSUME NEW d \in Devices
  PROVE  <<d, "online">> \in Corrs /\ <<d, "offline">> \in Corrs
BY DEF Corrs

(* What the type invariant leaves open and every action relies on: which   *)
(* fields are set, by where a call, a record or a worker stands.           *)
DocShape ==
  /\ Closed => shift.corr \in Corrs /\ shift.figures \in Figures /\ shift.sync # "none"
  /\ ~Closed => ~authored

CallRecord == [at : CallStates, corr : Corrs \cup {None}, figures : Figures \cup {None}]
CallShape(d, record) ==
  /\ record.at \in {"checked", "committed"} => record.figures \in Figures
  /\ record.at \in {"committed", "calling"} => record.corr \in Corrs
  /\ record.at \in {"flushing", "prepared"} /\ d \notin Authoritative => record.figures \in Figures
  /\ record.at = "prepared" /\ d \notin Authoritative => record.corr \in Corrs

EntryShape(d) == HasEntry(d) => entry[d].corr \in {<<d, "offline">>, <<d, "online">>}
AttemptShape(d) == HasAttempt(d) => attempt[d].corr = <<d, "online">>
QueuedShape(d) == queued[d] # None => HasEntry(d) /\ queued[d] = entry[d].figures
DeferralShape(d) == deferral[d] = "calling" => HasEntry(d) /\ entry[d].deferred

WorkerRecord == [at : {"idle", "read", "marked", "written"}, corr : Corrs \cup {None},
                 sync : {"none", "pending", "synced"}]
WorkerShape(k) == worker[k].at # "idle" => HasEntry(WorkerDevice[k]) /\ worker[k].corr \in Corrs

Shape ==
  /\ DocShape
  /\ \A c \in Calls : CallShape(CallDevice[c], call[c])
  /\ \A d \in Devices : EntryShape(d) /\ AttemptShape(d) /\ QueuedShape(d) /\ DeferralShape(d)
  /\ \A k \in Workers : WorkerShape(k)

TInv == TypeOK /\ Shape

-----------------------------------------------------------------------------
(* The type invariant in five parts, each about its own variables.         *)
DocPart == ShiftTypeOK /\ DocShape
CallPart == /\ call \in [Calls -> CallRecord]
            /\ \A c \in Calls : CallShape(CallDevice[c], call[c])
JournalPart == /\ JournalTypeOK
               /\ \A d \in Devices : EntryShape(d) /\ AttemptShape(d) /\ QueuedShape(d)
WorkerPart == /\ worker \in [Workers -> WorkerRecord]
              /\ \A k \in Workers : WorkerShape(k)
RestPart == /\ zs \subseteq [device : Devices, corr : Corrs, figures : Figures]
            /\ restarts \in 0..MaxRestarts
            /\ AuthTypeOK /\ \A d \in Devices : DeferralShape(d)

LEMMA Parts ==
  /\ TInv <=> DocPart /\ CallPart /\ JournalPart /\ WorkerPart /\ RestPart
  /\ TInv' <=> DocPart' /\ CallPart' /\ JournalPart' /\ WorkerPart' /\ RestPart'
BY DEF TInv, TypeOK, Shape, CloseTypeOK, DocPart, CallPart, JournalPart, WorkerPart, RestPart,
       CallRecord, WorkerRecord

(* A part keeps its truth when the variables it reads stay.  A record once *)
(* made keeps its correlation id, figures and protocol.                    *)
KeepsEntries ==
  \A d \in Devices : HasEntry(d) =>
    /\ HasEntry(d)'
    /\ entry'[d].corr = entry[d].corr /\ entry'[d].figures = entry[d].figures
    /\ entry'[d].deferred = entry[d].deferred

LEMMA CallStays == CallPart /\ UNCHANGED call => CallPart'
BY DEF CallPart, CallShape
LEMMA DocStays == DocPart /\ UNCHANGED shiftVars => DocPart'
BY DEF DocPart, DocShape, ShiftTypeOK, shiftVars, Closed
LEMMA JournalStays == JournalPart /\ UNCHANGED journalVars => JournalPart' /\ KeepsEntries
BY DEF JournalPart, JournalTypeOK, journalVars, EntryShape, AttemptShape, QueuedShape, HasEntry,
       HasAttempt, KeepsEntries
LEMMA WorkerStays == WorkerPart /\ KeepsEntries /\ UNCHANGED worker => WorkerPart'
BY DEF WorkerPart, WorkerShape, KeepsEntries
LEMMA RestStays == RestPart /\ KeepsEntries /\ UNCHANGED <<zs, restarts, authVars>> => RestPart'
BY DEF RestPart, AuthTypeOK, authVars, DeferralShape, KeepsEntries

(* A call moves on to a record of the shape its stage asks for.            *)
LEMMA CallMoves ==
  ASSUME CallPart, NEW c \in Calls, NEW record \in CallRecord, CallShape(CallDevice[c], record),
         call' = [call EXCEPT ![c] = record]
  PROVE  CallPart'
BY DEF CallPart, CallShape

LEMMA CallEnds ==
  ASSUME CallPart, NEW c \in Calls, End(c)
  PROVE  CallPart'
<1> DEFINE record == [at |-> "done", corr |-> None, figures |-> None]
<1>1. record \in CallRecord /\ CallShape(CallDevice[c], record)
  BY DEF CallRecord, CallStates, CallShape
<1> QED
  BY <1>1, CallMoves DEF End, To

-----------------------------------------------------------------------------
(* The close write, on an open shift, with a correlation id and figures.   *)
LEMMA CloseWrites ==
  ASSUME DocPart, NEW corr \in Corrs, NEW figures \in Figures, CloseShift(corr, figures),
         authored' \in BOOLEAN, UNCHANGED <<sealed, refund, seen, unsent>>,
         guard' \in [Devices -> SUBSET Refunds], seenClosed' \in [Devices -> BOOLEAN]
  PROVE  DocPart'
BY DEF DocPart, DocShape, ShiftTypeOK, CloseShift, Closed

LEMMA CashierDoc ==
  ASSUME DocPart, ShiftNext
  PROVE  DocPart'
<1> USE DEF DocPart, ShiftTypeOK, DocShape, Closed, cashVars
<1>1. ASSUME NEW m \in Cash, RecordCash(m) PROVE DocPart'
  BY <1>1 DEF RecordCash
<1>2. ASSUME NEW m \in Cash, FlushCash(m) PROVE DocPart'
  BY <1>2 DEF FlushCash
<1>3. ASSUME NEW r \in Refunds, SendRefund(r) PROVE DocPart'
  BY <1>3 DEF SendRefund
<1>4. ASSUME NEW r \in Refunds, CommitRefund(r) PROVE DocPart'
  BY <1>4 DEF CommitRefund
<1>5. ASSUME NEW r \in Refunds, RefuseRefund(r) PROVE DocPart'
  BY <1>5 DEF RefuseRefund
<1>6. ASSUME NEW r \in Refunds, SyncRefund(r) PROVE DocPart'
  BY <1>6 DEF SyncRefund
<1>7. ASSUME NEW d \in Devices, Refresh(d) PROVE DocPart'
  BY <1>7 DEF Refresh
<1>8. ASSUME Seal PROVE DocPart'
  BY <1>8 DEF Seal
<1> QED
  BY <1>1, <1>2, <1>3, <1>4, <1>5, <1>6, <1>7, <1>8 DEF ShiftNext
-----------------------------------------------------------------------------
(* The operations of the journal keep it well-formed, whoever calls them.  *)
LEMMA NewEntryType ==
  ASSUME NEW corr \in Corrs, NEW figures \in Figures, NEW deferred \in BOOLEAN
  PROVE  NewEntry(corr, figures, deferred) \in Entries
BY DEF NewEntry, Entries

LEMMA EntryWrite ==
  ASSUME JournalPart, NEW d \in Devices, NEW e \in Entries,
         e.corr \in {<<d, "offline">>, <<d, "online">>},
         HasEntry(d) => e.corr = entry[d].corr /\ e.figures = entry[d].figures /\ e.deferred = entry[d].deferred,
         entry' = [entry EXCEPT ![d] = e],
         UNCHANGED queued, attempt' \in [Devices -> Attempts \cup {None}],
         \A b \in Devices : attempt'[b] \in {attempt[b], None}
  PROVE  JournalPart' /\ KeepsEntries
BY DEF JournalPart, JournalTypeOK, EntryShape, AttemptShape, QueuedShape, HasEntry, HasAttempt,
       KeepsEntries

LEMMA AttemptWrite ==
  ASSUME JournalPart, NEW d \in Devices, NEW a \in Attempts, a.corr = <<d, "online">>,
         attempt' = [attempt EXCEPT ![d] = a], UNCHANGED <<entry, queued>>
  PROVE  JournalPart' /\ KeepsEntries
BY DEF JournalPart, JournalTypeOK, EntryShape, AttemptShape, QueuedShape, HasEntry, HasAttempt,
       KeepsEntries

LEMMA Upserts ==
  ASSUME JournalPart, NEW d \in Devices, NEW figures \in Figures, NEW deferred \in BOOLEAN,
         UpsertCloseIntent(d, figures, deferred), Upsertable(d, figures, deferred),
         queued' \in {queued, [queued EXCEPT ![d] = figures]}, UNCHANGED attempt
  PROVE  JournalPart' /\ KeepsEntries
<1>1. NewEntry(<<d, "offline">>, figures, deferred) \in Entries
  BY CorrsOfDevice, NewEntryType
<1>2. JournalTypeOK'
  BY <1>1 DEF JournalPart, JournalTypeOK, UpsertCloseIntent
<1>3. \A b \in Devices : entry'[b] = IF b = d /\ ~HasEntry(d) THEN NewEntry(<<d, "offline">>, figures, deferred)
                                     ELSE entry[b]
  BY DEF JournalPart, JournalTypeOK, UpsertCloseIntent
<1>4. HasEntry(d)' /\ entry'[d].figures = figures
  BY <1>1, <1>3 DEF HasEntry, NewEntry, Upsertable
<1>5. KeepsEntries /\ \A b \in Devices : EntryShape(b)'
  BY <1>1, <1>3 DEF JournalPart, EntryShape, HasEntry, KeepsEntries, NewEntry
<1>6. \A b \in Devices : AttemptShape(b)' /\ QueuedShape(b)'
  BY <1>3, <1>4 DEF JournalPart, JournalTypeOK, AttemptShape, QueuedShape, HasEntry, HasAttempt
<1> QED
  BY <1>2, <1>5, <1>6 DEF JournalPart

LEMMA Finalizes ==
  ASSUME JournalPart, NEW d \in Devices, NEW corr \in Corrs, NEW figures \in Figures, NEW proof,
         Finalizable(d, corr, figures, proof), FinalizeOnlineClose(d, corr, figures), UNCHANGED queued
  PROVE  JournalPart' /\ KeepsEntries
<1> DEFINE e == IF HasEntry(d) THEN entry[d] ELSE NewEntry(corr, figures, FALSE)
<1>1. e \in Entries
  BY NewEntryType DEF JournalPart, JournalTypeOK, HasEntry
<1>2. e.corr \in {<<d, "offline">>, <<d, "online">>}
  BY DEF JournalPart, EntryShape, AttemptShape, Finalizable, AttemptAllows, NewEntry
<1>3. HasEntry(d) => e.corr = entry[d].corr /\ e.figures = entry[d].figures /\ e.deferred = entry[d].deferred
  OBVIOUS
<1>4. entry' = [entry EXCEPT ![d] = e]
  BY DEF FinalizeOnlineClose, JournalPart, JournalTypeOK
<1>5. /\ attempt' \in [Devices -> Attempts \cup {None}]
      /\ \A b \in Devices : attempt'[b] \in {attempt[b], None}
  BY DEF FinalizeOnlineClose, JournalPart, JournalTypeOK
<1> HIDE DEF e
<1> QED
  BY <1>1, <1>2, <1>3, <1>4, <1>5, EntryWrite

LEMMA Prepares ==
  ASSUME JournalPart, NEW d \in Devices, NEW expected \in Figures \cup {None},
         PrepareOnlineCloseAttempt(d, expected), UNCHANGED <<entry, queued>>
  PROVE  JournalPart' /\ KeepsEntries /\ (~HasEntry(d) => HasAttempt(d)')
<1> DEFINE a == [corr |-> <<d, "online">>, expected |-> expected, observed |-> FALSE, superseded |-> FALSE]
<1>1. a \in Attempts /\ a.corr = <<d, "online">>
  BY CorrsOfDevice DEF Attempts
<1>2. CASE HasEntry(d) \/ HasAttempt(d)
  <2>1. attempt' = attempt
    BY <1>2 DEF PrepareOnlineCloseAttempt, JournalPart, JournalTypeOK
  <2> QED
    BY <2>1, <1>2, JournalStays DEF journalVars, HasAttempt
<1>3. CASE ~(HasEntry(d) \/ HasAttempt(d))
  <2>1. attempt' = [attempt EXCEPT ![d] = a]
    BY <1>3 DEF PrepareOnlineCloseAttempt
  <2> HIDE DEF a
  <2>2. JournalPart' /\ KeepsEntries
    BY <2>1, <1>1, AttemptWrite
  <2>3. HasAttempt(d)'
    BY <2>1, <1>1 DEF JournalPart, JournalTypeOK, HasAttempt
  <2> QED
    BY <2>2, <2>3
<1> QED
  BY <1>2, <1>3

LEMMA Marks ==
  ASSUME JournalPart, NEW d \in Devices, NEW corr, UNCHANGED <<entry, queued>>,
         MarkCommitObserved(d, corr) \/ SupersedeOnlineCloseAttempt(d, corr)
  PROVE  JournalPart' /\ KeepsEntries
<1> DEFINE a == attempt'[d]
<1>1. CASE HasAttempt(d)
  <2>1. attempt[d] \in Attempts /\ attempt[d].corr = <<d, "online">>
    BY <1>1 DEF JournalPart, JournalTypeOK, AttemptShape, HasAttempt
  <2>2. a \in {attempt[d], [attempt[d] EXCEPT !.observed = TRUE], [attempt[d] EXCEPT !.superseded = TRUE]}
    BY <1>1 DEF JournalPart, JournalTypeOK, MarkCommitObserved, SupersedeOnlineCloseAttempt
  <2>3. attempt' = [attempt EXCEPT ![d] = a]
    BY DEF JournalPart, JournalTypeOK, MarkCommitObserved, SupersedeOnlineCloseAttempt
  <2>4. a \in Attempts /\ a.corr = <<d, "online">>
    <3> HIDE DEF a
    <3> QED
      BY <2>1, <2>2 DEF Attempts
  <2> HIDE DEF a
  <2> QED
    BY <2>3, <2>4, AttemptWrite
<1>2. CASE ~HasAttempt(d)
  <2>1. attempt' = attempt
    BY <1>2 DEF JournalPart, JournalTypeOK, MarkCommitObserved, SupersedeOnlineCloseAttempt
  <2> QED
    BY <2>1, JournalStays DEF journalVars
<1> QED
  BY <1>1, <1>2

(* The status writes, on a record that is there.                           *)
LEMMA StatusWrites ==
  ASSUME JournalPart, NEW d \in Devices, HasEntry(d), UNCHANGED <<attempt, queued>>,
         \/ entry' = Rejected(d)
         \/ \E norm \in {"outstanding", "done"} : MarkSynced(d, norm)
         \/ \E corr \in Corrs : SetNormalization(d, corr)
  PROVE  JournalPart' /\ KeepsEntries
<1> DEFINE e == entry'[d]
<1>4. entry[d] \in Entries
  BY DEF JournalPart, JournalTypeOK, HasEntry
<1>5. /\ entry' = [entry EXCEPT ![d] = e]
      /\ \/ e = entry[d]
         \/ e = [entry[d] EXCEPT !.status = "rejected_manual_attention"]
         \/ e = [entry[d] EXCEPT !.norm = "done"]
         \/ \E norm \in {"outstanding", "done"} : e = [entry[d] EXCEPT !.status = "synced", !.norm = norm]
  BY DEF JournalPart, JournalTypeOK, Rejected, MarkSynced, SetNormalization
<1>1. /\ e \in Entries /\ e.corr = entry[d].corr /\ e.figures = entry[d].figures
      /\ e.deferred = entry[d].deferred
  <2> HIDE DEF e
  <2> QED
    BY <1>4, <1>5 DEF Entries
<1>2. e.corr \in {<<d, "offline">>, <<d, "online">>}
  BY <1>1 DEF JournalPart, EntryShape
<1>3. /\ attempt' \in [Devices -> Attempts \cup {None}]
      /\ \A b \in Devices : attempt'[b] \in {attempt[b], None}
  BY DEF JournalPart, JournalTypeOK
<1> HIDE DEF e
<1> QED
  BY <1>1, <1>2, <1>3, <1>5, EntryWrite
-----------------------------------------------------------------------------
(* Every step keeps the parts, and every record.                           *)
Sound == DocPart /\ CallPart /\ JournalPart /\ WorkerPart /\ RestPart
Kept == Sound' /\ KeepsEntries

LEMMA SeenSum ==
  ASSUME DocPart, CallPart, NEW c \in Calls
  PROVE  [cash |-> seen[CallDevice[c]], count |-> CallCount[c]] \in Figures
BY DEF DocPart, ShiftTypeOK, Figures

LEMMA CallMovesTo ==
  ASSUME CallPart, NEW c \in Calls, NEW at \in CallStates, NEW corr \in Corrs \cup {None},
         NEW figures \in Figures \cup {None}, To(c, at, corr, figures),
         CallShape(CallDevice[c], [at |-> at, corr |-> corr, figures |-> figures])
  PROVE  CallPart'
<1> DEFINE record == [at |-> at, corr |-> corr, figures |-> figures]
<1>1. record \in CallRecord
  BY DEF CallRecord
<1> QED
  BY <1>1, CallMoves DEF To

LEMMA CallStep ==
  ASSUME Sound, NEW c \in Calls, Call(c), UNCHANGED authVars
  PROVE  Kept
<1> DEFINE d == CallDevice[c]
<1>1. ASSUME CheckOffline(c) PROVE Kept
  <2>1. CallPart'
    BY <1>1, SeenSum, CallMovesTo DEF CheckOffline, Sound, CallStates, CallShape
  <2> QED
    BY <1>1, <2>1, DocStays, JournalStays, WorkerStays, RestStays DEF CheckOffline, Sound, Kept
<1>2. ASSUME JournalOffline(c) PROVE Kept
  <2>1. CallPart'
    BY <1>2, CallEnds DEF JournalOffline, Sound
  <2>2. call[c].figures \in Figures
    BY <1>2 DEF JournalOffline, Sound, CallPart, CallShape
  <2>3. JournalPart' /\ KeepsEntries
    BY <1>2, <2>2, Upserts, JournalStays DEF JournalOffline, Sound, journalVars
  <2>4. DocPart'
    BY <1>2 DEF JournalOffline, Sound, DocPart, ShiftTypeOK, DocShape, Closed, cashVars
  <2> QED
    BY <1>2, <2>1, <2>3, <2>4, WorkerStays, RestStays DEF JournalOffline, Sound, Kept
<1>3. ASSUME StartOnline(c) PROVE Kept
  <2>1. CallPart'
    BY <1>3, SeenSum, CallMovesTo DEF StartOnline, Sound, CallStates, CallShape
  <2> QED
    BY <1>3, <2>1, DocStays, JournalStays, WorkerStays, RestStays DEF StartOnline, Sound, Kept
<1>4. ASSUME PrepareOnline(c) PROVE Kept
  <2>1. JournalPart' /\ KeepsEntries /\ (~HasEntry(d) => HasAttempt(d)')
    BY <1>4, Prepares DEF PrepareOnline, Sound
  <2>2. CallPart'
    <3>1. CASE Preparable(d, None)
      <4> DEFINE corr == IF HasEntry(d) THEN entry[d].corr ELSE attempt'[d].corr
      <4>1. call[c].figures \in Figures
        BY <1>4 DEF PrepareOnline, Sound, CallPart, CallShape
      <4>2. HasEntry(d) => entry[d].corr \in Corrs
        BY CorrsOfDevice DEF Sound, JournalPart, EntryShape
      <4>3. ~HasEntry(d) => attempt'[d].corr \in Corrs
        BY <2>1, CorrsOfDevice DEF JournalPart, AttemptShape, HasAttempt
      <4>4. To(c, "prepared", corr, call[c].figures)
        BY <1>4, <3>1 DEF PrepareOnline
      <4>5. corr \in Corrs
        BY <4>2, <4>3
      <4> HIDE DEF corr
      <4> QED
        BY <4>1, <4>4, <4>5, CallMovesTo DEF Sound, CallStates, CallShape
    <3>2. CASE ~Preparable(d, None)
      BY <1>4, <3>2, CallEnds DEF PrepareOnline, Sound
    <3> QED
      BY <3>1, <3>2
  <2> QED
    BY <1>4, <2>1, <2>2, DocStays, WorkerStays, RestStays DEF PrepareOnline, Sound, Kept
<1>5. ASSUME CommitOnline(c) PROVE Kept
  <2>1. call[c].corr \in Corrs /\ Folded(c) \in Figures
    BY <1>5 DEF CommitOnline, Sound, CallPart, CallShape, Folded, Figures, DocPart, ShiftTypeOK
  <2>2. CallPart'
    BY <1>5, <2>1, CallEnds, CallMovesTo DEF CommitOnline, Sound, CallStates, CallShape
  <2>3. DocPart'
    BY <1>5, <2>1, CloseWrites DEF CommitOnline, Sound, DocPart, ShiftTypeOK
  <2> QED
    BY <1>5, <2>2, <2>3, JournalStays, WorkerStays, RestStays DEF CommitOnline, Sound, Kept
<1>6. ASSUME FindOwnCommit(c) PROVE Kept
  <2>1. call[c].corr \in Corrs /\ shift.figures \in Figures
    BY <1>6 DEF FindOwnCommit, Sound, CallPart, CallShape, DocPart, DocShape, CommittedOwnClose
  <2>2. CallPart'
    BY <1>6, <2>1, CallMovesTo DEF FindOwnCommit, Sound, CallStates, CallShape
  <2>3. DocPart'
    BY <1>6 DEF FindOwnCommit, Sound, DocPart, ShiftTypeOK, DocShape, Closed
  <2> QED
    BY <1>6, <2>2, <2>3, JournalStays, WorkerStays, RestStays DEF FindOwnCommit, Sound, Kept
<1>7. ASSUME RefusedOnline(c) PROVE Kept
  <2>1. CallPart'
    BY <1>7, CallEnds DEF RefusedOnline, Sound
  <2>2. JournalPart' /\ KeepsEntries
    BY <1>7, Marks, JournalStays DEF RefusedOnline, Sound, journalVars
  <2> QED
    BY <1>7, <2>1, <2>2, DocStays, WorkerStays, RestStays DEF RefusedOnline, Sound, Kept
<1>8. ASSUME ProveAndFinalize(c) PROVE Kept
  <2>1. call[c].corr \in Corrs /\ call[c].figures \in Figures
    BY <1>8 DEF ProveAndFinalize, Sound, CallPart, CallShape
  <2>2. JournalPart' /\ KeepsEntries
    BY <1>8, <2>1, Finalizes DEF ProveAndFinalize, Sound
  <2>3. CallPart'
    BY <1>8, CallEnds DEF ProveAndFinalize, Sound
  <2>4. RestPart'
    BY <1>8, <2>1, <2>2 DEF ProveAndFinalize, Sound, RestPart, ShowZ, AuthTypeOK, authVars,
       DeferralShape, KeepsEntries
  <2> QED
    BY <1>8, <2>2, <2>3, <2>4, DocStays, WorkerStays DEF ProveAndFinalize, Sound, Kept
<1>9. ASSUME LeaveObserved(c) PROVE Kept
  <2>1. CallPart'
    BY <1>9, CallEnds DEF LeaveObserved, Sound
  <2>2. JournalPart' /\ KeepsEntries
    BY <1>9, Marks DEF LeaveObserved, Sound
  <2> QED
    BY <1>9, <2>1, <2>2, DocStays, WorkerStays, RestStays DEF LeaveObserved, Sound, Kept
<1>10. ASSUME RecoverOwnCommittedClose(c) PROVE Kept
  <2>1. shift.corr \in Corrs /\ shift.figures \in Figures
    BY <1>10 DEF RecoverOwnCommittedClose, Sound, DocPart, DocShape
  <2>2. JournalPart' /\ KeepsEntries
    BY <1>10, <2>1, Finalizes, JournalStays DEF RecoverOwnCommittedClose, Sound, journalVars
  <2>3. CallPart'
    BY <1>10, CallEnds DEF RecoverOwnCommittedClose, Sound
  <2>4. RestPart'
    BY <1>10, <2>1, <2>2 DEF RecoverOwnCommittedClose, Sound, RestPart, ShowZ, AuthTypeOK, authVars,
       DeferralShape, KeepsEntries
  <2> QED
    BY <1>10, <2>2, <2>3, <2>4, DocStays, WorkerStays DEF RecoverOwnCommittedClose, Sound, Kept
<1> QED
  BY <1>1, <1>2, <1>3, <1>4, <1>5, <1>6, <1>7, <1>8, <1>9, <1>10 DEF Call
-----------------------------------------------------------------------------
(* The callable's transaction: the close of the server, or its own answer. *)
LEMMA ExecuteDoc ==
  ASSUME DocPart, NEW request \in Requests, Execute(request),
         UNCHANGED <<sealed, cashVars, seen, seenClosed>>
  PROVE  DocPart' /\ Planned(request) \in Figures
<1>1. request.corr \in Corrs /\ Planned(request) \in Figures
  BY DEF Requests, Planned, DocPart, ShiftTypeOK, Figures
<1>2. CASE Closed
  BY <1>1, <1>2, DocStays DEF Execute, shiftVars, cashVars
<1>3. CASE ~Closed
  BY <1>1, <1>3, CloseWrites DEF Execute, cashVars, DocPart, ShiftTypeOK
<1> QED
  BY <1>1, <1>2, <1>3

LEMMA RequestType ==
  ASSUME Sound, NEW c \in Calls, call[c].at = "calling"
  PROVE  Request(c) \in Requests
BY DEF Sound, CallPart, CallShape, Request, Requests

LEMMA AuthCallStep ==
  ASSUME Sound, NEW c \in Calls, AuthCall(c)
  PROVE  Kept
<1> DEFINE d == CallDevice[c]
<1>1. ASSUME CheckDeferred(c) PROVE Kept
  <2>1. CallPart'
    BY <1>1, SeenSum, CallMovesTo DEF CheckDeferred, Sound, CallStates, CallShape
  <2> QED
    BY <1>1, <2>1, DocStays, JournalStays, WorkerStays, RestStays DEF CheckDeferred, Sound, Kept
<1>2. ASSUME RecordDeferred(c) PROVE Kept
  <2>1. CallPart'
    BY <1>2, CallEnds DEF RecordDeferred, Sound
  <2>2. call[c].figures \in Figures
    BY <1>2 DEF RecordDeferred, Sound, CallPart, CallShape
  <2>3. JournalPart' /\ KeepsEntries
    BY <1>2, <2>2, Upserts, JournalStays DEF RecordDeferred, Sound, journalVars
  <2>4. DocPart'
    BY <1>2 DEF RecordDeferred, Sound, DocPart, ShiftTypeOK, DocShape, Closed, cashVars
  <2> QED
    BY <1>2, <2>1, <2>3, <2>4, WorkerStays, RestStays DEF RecordDeferred, Sound, Kept
<1>3. ASSUME StartAuthoritative(c) PROVE Kept
  <2>1. CallPart'
    BY <1>3, CallMovesTo DEF StartAuthoritative, Sound, CallStates, CallShape
  <2> QED
    BY <1>3, <2>1, DocStays, JournalStays, WorkerStays, RestStays DEF StartAuthoritative, Sound, Kept
<1>4. ASSUME ProveJournaled(c) PROVE Kept
  <2>1. shift.corr \in Corrs /\ shift.figures \in Figures
    BY <1>4 DEF ProveJournaled, Sound, DocPart, DocShape, CommittedOwnClose
  <2>2. CallPart' /\ KeepsEntries
    BY <1>4, CallEnds, JournalStays DEF ProveJournaled, Sound
  <2>3. RestPart'
    BY <1>4, <2>1, <2>2 DEF ProveJournaled, Sound, RestPart, ShowZ, AuthTypeOK, authVars,
       DeferralShape, KeepsEntries
  <2> QED
    BY <1>4, <2>2, <2>3, DocStays, JournalStays, WorkerStays DEF ProveJournaled, Sound, Kept
<1>5. ASSUME ReadBeforeCall(c) PROVE Kept
  <2>1. /\ To(c, "prepared", None, None) => CallPart'
        /\ HasAttempt(d) /\ To(c, "prepared", attempt[d].corr, None) => CallPart'
    BY <1>5, CorrsOfDevice, CallMovesTo DEF ReadBeforeCall, Sound, CallStates, CallShape,
       JournalPart, AttemptShape
  <2>2. CallPart' /\ KeepsEntries
    BY <1>5, <2>1, JournalStays DEF ReadBeforeCall, Sound
  <2>3. RestPart'
    BY <1>5, <2>2 DEF ReadBeforeCall, Sound, RestPart, AuthTypeOK, DocPart, ShiftTypeOK,
       DeferralShape, KeepsEntries
  <2> QED
    BY <1>5, <2>2, <2>3, DocStays, JournalStays, WorkerStays DEF ReadBeforeCall, Sound, Kept
<1>6. ASSUME BindAndCall(c) PROVE Kept
  <2>1. Expected(c) \in Figures
    BY DEF Sound, RestPart, AuthTypeOK, Expected, Figures
  <2>2. JournalPart' /\ KeepsEntries
    BY <1>6, <2>1, Prepares DEF BindAndCall, Sound
  <2>3. CallPart'
    BY <1>6, CorrsOfDevice, CallMovesTo DEF BindAndCall, Sound, CallStates, CallShape
  <2>4. [corr |-> <<d, "online">>, count |-> CallCount[c]] \in Requests
    BY CorrsOfDevice DEF Requests
  <2>5. RestPart'
    BY <1>6, <2>2, <2>4 DEF BindAndCall, Sound, RestPart, AuthTypeOK, DeferralShape, KeepsEntries
  <2> QED
    BY <1>6, <2>2, <2>3, <2>5, DocStays, WorkerStays DEF BindAndCall, Sound, Kept
<1>7. ASSUME Answered(c) PROVE Kept
  <2>1. Request(c) \in Requests /\ call[c].corr \in Corrs
    BY <1>7, RequestType DEF Answered, Sound, CallPart, CallShape
  <2>2. DocPart' /\ Planned(Request(c)) \in Figures
    BY <1>7, <2>1, ExecuteDoc DEF Answered, Sound
  <2>3. (IF Closed THEN shift.figures ELSE Planned(Request(c))) \in Figures
    BY <2>2 DEF Sound, DocPart, DocShape
  <2>4. CallPart'
    BY <1>7, <2>1, <2>3, CallMovesTo DEF Answered, Sound, CallStates, CallShape
  <2> QED
    BY <1>7, <2>2, <2>4, JournalStays, WorkerStays, RestStays DEF Answered, Sound, Kept
<1>8. ASSUME GiveUp(c) PROVE Kept
  <2>1. CallPart'
    BY <1>8, CallEnds DEF GiveUp, Sound
  <2>2. JournalPart' /\ KeepsEntries
    BY <1>8, Marks, JournalStays DEF GiveUp, Sound, journalVars
  <2> QED
    BY <1>8, <2>1, <2>2, DocStays, WorkerStays, RestStays DEF GiveUp, Sound, Kept
<1>9. ASSUME FinalizeAuthoritative(c) PROVE Kept
  <2>1. call[c].corr \in Corrs /\ call[c].figures \in Figures
    BY <1>9 DEF FinalizeAuthoritative, Sound, CallPart, CallShape
  <2>2. JournalPart' /\ KeepsEntries
    BY <1>9, <2>1, Finalizes, Marks DEF FinalizeAuthoritative, ProofMatches, Sound
  <2>3. CallPart'
    BY <1>9, CallEnds DEF FinalizeAuthoritative, Sound
  <2>4. DocPart'
    BY <1>9 DEF FinalizeAuthoritative, Sound, DocPart, ShiftTypeOK, DocShape, Closed
  <2>5. RestPart'
    BY <1>9, <2>1, <2>2 DEF FinalizeAuthoritative, Sound, RestPart, ShowZ, AuthTypeOK, authVars,
       DeferralShape, KeepsEntries
  <2> QED
    BY <1>9, <2>2, <2>3, <2>4, <2>5, WorkerStays DEF FinalizeAuthoritative, Sound, Kept
<1> QED
  BY <1>1, <1>2, <1>3, <1>4, <1>5, <1>6, <1>7, <1>8, <1>9 DEF AuthCall
-----------------------------------------------------------------------------
(* The sweeps, the queued close, restarts and late requests.               *)
LEMMA WorkerMoves ==
  ASSUME WorkerPart, KeepsEntries, NEW k \in Workers, NEW record \in WorkerRecord,
         worker' = [worker EXCEPT ![k] = record],
         record.at # "idle" => HasEntry(WorkerDevice[k]) /\ record.corr \in Corrs
  PROVE  WorkerPart'
BY DEF WorkerPart, WorkerShape, KeepsEntries

LEMMA ReconcileStep ==
  ASSUME Sound, NEW k \in Workers, Reconcile(k), UNCHANGED authVars
  PROVE  Kept
<1> DEFINE d == WorkerDevice[k]
<1> USE DEF callVars
<1>0. IdleWorker \in WorkerRecord /\ IdleWorker.at = "idle" /\ worker[k] \in WorkerRecord
  BY DEF WorkerRecord, IdleWorker, Sound, WorkerPart
<1>1. ASSUME ReadClose(k) PROVE Kept
  <2>1. JournalPart' /\ KeepsEntries
    BY <1>1, StatusWrites, JournalStays DEF ReadClose, Sound, journalVars
  <2>2. WorkerPart'
    <3>1. CASE UNCHANGED worker
      BY <2>1, <3>1, WorkerStays DEF Sound
    <3>2. CASE worker' = [worker EXCEPT ![k] = [at |-> "read", corr |-> shift.corr, sync |-> shift.sync]]
      BY <1>1, <2>1, <3>2, WorkerMoves
         DEF ReadClose, Sound, DocPart, DocShape, ShiftTypeOK, WorkerRecord
    <3> QED
      BY <1>1, <3>1, <3>2 DEF ReadClose
  <2> QED
    BY <1>1, <2>1, <2>2, DocStays, CallStays, RestStays DEF ReadClose, Sound, Kept
<1>2. ASSUME MarkRead(k) PROVE Kept
  <2>1. HasEntry(d)
    BY <1>2 DEF MarkRead, Sound, WorkerPart, WorkerShape
  <2>2. JournalPart' /\ KeepsEntries
    BY <1>2, <2>1, StatusWrites DEF MarkRead, Sound
  <2>3. worker[k].corr \in Corrs /\ worker[k].at # "idle"
    BY <1>2 DEF MarkRead, Sound, WorkerPart, WorkerShape
  <2>4. [worker[k] EXCEPT !.at = "marked"] \in WorkerRecord /\ [worker[k] EXCEPT !.at = "marked"].corr = worker[k].corr
    BY <1>0 DEF WorkerRecord
  <2>5. worker' = [worker EXCEPT ![k] = [worker[k] EXCEPT !.at = "marked"]] \/ worker' = [worker EXCEPT ![k] = IdleWorker]
    BY <1>2 DEF MarkRead, Sound, WorkerPart
  <2>6. WorkerPart'
    BY <1>0, <2>1, <2>2, <2>3, <2>4, <2>5, WorkerMoves DEF Sound
  <2> QED
    BY <1>2, <2>2, <2>6, DocStays, CallStays, RestStays DEF MarkRead, Sound, Kept
<1>3. ASSUME RetryNormalization(k) PROVE Kept
  <2> DEFINE record == [at |-> IF shift.sync = "synced" THEN "written" ELSE "marked",
                        corr |-> shift.corr, sync |-> shift.sync]
  <2>1. record \in WorkerRecord /\ record.corr \in Corrs /\ HasEntry(d)
    BY <1>3 DEF RetryNormalization, Sound, DocPart, DocShape, ShiftTypeOK, WorkerRecord
  <2>2. worker' = [worker EXCEPT ![k] = record]
    BY <1>3 DEF RetryNormalization
  <2>3. KeepsEntries
    BY <1>3, JournalStays DEF RetryNormalization, Sound
  <2> HIDE DEF record
  <2>4. WorkerPart'
    BY <2>1, <2>2, <2>3, WorkerMoves DEF Sound
  <2> QED
    BY <1>3, <2>4, <2>3, DocStays, CallStays, JournalStays, RestStays DEF RetryNormalization, Sound, Kept
<1>4. ASSUME WriteNormalization(k) PROVE Kept
  <2>1. DocPart'
    BY <1>4 DEF WriteNormalization, NormalizationDecision, Sound, DocPart, DocShape, ShiftTypeOK,
                Closed, cashVars
  <2>2. KeepsEntries
    BY <1>4, JournalStays DEF WriteNormalization, Sound
  <2>3. HasEntry(d) /\ worker[k].corr \in Corrs
    BY <1>4 DEF WriteNormalization, Sound, WorkerPart, WorkerShape
  <2>4. [worker[k] EXCEPT !.at = "written"] \in WorkerRecord /\ [worker[k] EXCEPT !.at = "written"].corr = worker[k].corr
    BY <1>0 DEF WorkerRecord
  <2>5. worker' = [worker EXCEPT ![k] = [worker[k] EXCEPT !.at = "written"]] \/ worker' = [worker EXCEPT ![k] = IdleWorker]
    BY <1>4 DEF WriteNormalization, Sound, WorkerPart
  <2>6. WorkerPart'
    BY <1>0, <2>2, <2>3, <2>4, <2>5, WorkerMoves DEF Sound
  <2> QED
    BY <1>4, <2>1, <2>2, <2>6, CallStays, JournalStays, RestStays DEF WriteNormalization, Sound, Kept
<1>5. ASSUME RecordNormalization(k) PROVE Kept
  <2>1. HasEntry(d) /\ worker[k].corr \in Corrs
    BY <1>5 DEF RecordNormalization, Sound, WorkerPart, WorkerShape
  <2>2. JournalPart' /\ KeepsEntries
    BY <1>5, <2>1, StatusWrites DEF RecordNormalization, Sound
  <2>3. WorkerPart'
    BY <1>0, <1>5, <2>2, WorkerMoves DEF RecordNormalization, Sound
  <2> QED
    BY <1>5, <2>2, <2>3, DocStays, CallStays, RestStays DEF RecordNormalization, Sound, Kept
<1> QED
  BY <1>1, <1>2, <1>3, <1>4, <1>5 DEF Reconcile

LEMMA FlushCloseStep ==
  ASSUME Sound, NEW d \in Devices, FlushClose(d), UNCHANGED authVars
  PROVE  Kept
<1>1. HasEntry(d) /\ queued[d] \in Figures /\ entry[d].corr \in Corrs
  BY CorrsOfDevice DEF FlushClose, Sound, JournalPart, QueuedShape, EntryShape, JournalTypeOK
<1>2. JournalPart' /\ KeepsEntries
  <2>1. /\ queued' \in [Devices -> Figures \cup {None}]
        /\ \A b \in Devices : queued'[b] \in {queued[b], None}
    BY DEF FlushClose, Sound, JournalPart, JournalTypeOK
  <2>2. CASE entry' = entry
    BY <2>1, <2>2 DEF FlushClose, Sound, JournalPart, JournalTypeOK, EntryShape, AttemptShape,
                      QueuedShape, HasEntry, HasAttempt, KeepsEntries
  <2>3. CASE entry' = Rejected(d)
    <3> DEFINE e == [entry[d] EXCEPT !.status = "rejected_manual_attention"]
    <3>1. entry' = [entry EXCEPT ![d] = e]
      BY <2>3 DEF Rejected, Sound, JournalPart, JournalTypeOK
    <3>2. entry[d] \in Entries
      BY <1>1 DEF Sound, JournalPart, JournalTypeOK, HasEntry
    <3>3. e \in Entries /\ e.corr = entry[d].corr /\ e.figures = entry[d].figures /\ e.deferred = entry[d].deferred
      BY <3>2 DEF Entries
    <3> HIDE DEF e
    <3> QED
      BY <1>1, <2>1, <3>1, <3>3 DEF FlushClose, Sound, JournalPart, JournalTypeOK, EntryShape,
         AttemptShape, QueuedShape, HasEntry, HasAttempt, KeepsEntries
  <2> QED
    BY <2>2, <2>3 DEF FlushClose
<1>3. DocPart'
  <2>1. CASE AcceptsClientClose
    BY <1>1, <2>1, CloseWrites DEF FlushClose, Sound, cashVars, DocPart, ShiftTypeOK
  <2>2. CASE ~AcceptsClientClose
    BY <2>2 DEF FlushClose, Sound, cashVars, DocPart, ShiftTypeOK, DocShape, Closed
  <2> QED
    BY <2>1, <2>2
<1> QED
  BY <1>2, <1>3, CallStays, WorkerStays, RestStays DEF FlushClose, closeVars, Sound, Kept

LEMMA RestartStep ==
  ASSUME Sound, NEW d \in Devices, Restart(d), deferral' = [deferral EXCEPT ![d] = "idle"],
         UNCHANGED <<sent, read>>
  PROVE  Kept
<1>1. KeepsEntries /\ JournalPart' /\ DocPart'
  BY JournalStays, DocStays DEF Restart, Sound
<1>2. CallPart'
  BY DEF Restart, Sound, CallPart, CallRecord, CallShape, CallStates
<1>3. WorkerPart'
  BY <1>1 DEF Restart, Sound, WorkerPart, WorkerRecord, WorkerShape, IdleWorker, KeepsEntries
<1>4. RestPart'
  BY <1>1 DEF Restart, Sound, RestPart, AuthTypeOK, DeferralShape, KeepsEntries
<1> QED
  BY <1>1, <1>2, <1>3, <1>4 DEF Sound, Kept

LEMMA SweepStep ==
  ASSUME Sound, NEW d \in Devices, SweepAttempt(d)
  PROVE  Kept
<1>1. shift.corr \in Corrs /\ shift.figures \in Figures
  BY DEF SweepAttempt, RecoverAttempt, Sound, DocPart, DocShape
<1>2. JournalPart' /\ KeepsEntries
  BY <1>1, Finalizes, Marks DEF SweepAttempt, RecoverAttempt, Sound
<1> QED
  BY <1>2, DocStays, CallStays, WorkerStays, RestStays DEF SweepAttempt, RecoverAttempt, Sound, Kept, closeVars

LEMMA DeferredRequestType ==
  ASSUME Sound, NEW d \in Devices, HasEntry(d)
  PROVE  DeferredRequest(d) \in Requests
<1>1. entry[d] \in Entries
  BY DEF Sound, JournalPart, JournalTypeOK, HasEntry
<1> QED
  BY <1>1 DEF DeferredRequest, Requests, Entries, Figures

LEMMA ReplayStep ==
  ASSUME Sound, NEW d \in Devices, Replay(d)
  PROVE  Kept
<1> USE DEF closeVars
<1>1. ASSUME ReplayDeferred(d) PROVE Kept
  <2>1. HasEntry(d) /\ entry[d].deferred /\ DeferredRequest(d) \in Requests
    BY <1>1, DeferredRequestType DEF ReplayDeferred, DeferredPending
  <2>2. JournalPart' /\ KeepsEntries
    BY <1>1, <2>1, StatusWrites, JournalStays DEF ReplayDeferred, Sound, journalVars
  <2>3. RestPart'
    BY <1>1, <2>1, <2>2 DEF ReplayDeferred, Sound, RestPart, AuthTypeOK, DeferralShape, KeepsEntries
  <2> QED
    BY <1>1, <2>2, <2>3, DocStays, CallStays, WorkerStays DEF ReplayDeferred, Sound, Kept
<1>2. ASSUME DeferredAnswered(d) PROVE Kept
  <2>1. HasEntry(d) /\ entry[d].deferred /\ DeferredRequest(d) \in Requests
    BY <1>2, DeferredRequestType DEF DeferredAnswered, Sound, RestPart, DeferralShape
  <2>2. JournalPart' /\ KeepsEntries
    BY <1>2, <2>1, StatusWrites DEF DeferredAnswered, Sound
  <2>3. DocPart'
    BY <1>2, <2>1, ExecuteDoc DEF DeferredAnswered, Sound
  <2>4. RestPart'
    BY <1>2, <2>2 DEF DeferredAnswered, Sound, RestPart, AuthTypeOK, DeferralShape, KeepsEntries
  <2> QED
    BY <1>2, <2>2, <2>3, <2>4, CallStays, WorkerStays DEF DeferredAnswered, Sound, Kept
<1>3. ASSUME DeferredLost(d) PROVE Kept
  <2>1. KeepsEntries
    BY <1>3, JournalStays DEF DeferredLost, Sound
  <2>2. RestPart'
    BY <1>3, <2>1 DEF DeferredLost, Sound, RestPart, AuthTypeOK, DeferralShape, KeepsEntries
  <2> QED
    BY <1>3, <2>1, <2>2, DocStays, CallStays, JournalStays, WorkerStays DEF DeferredLost, Sound, Kept
<1> QED
  BY <1>1, <1>2, <1>3 DEF Replay

LEMMA LateStep ==
  ASSUME Sound, NEW request \in Requests, ExecuteLate(request)
  PROVE  Kept
<1>1. DocPart'
  BY ExecuteDoc DEF ExecuteLate, Sound
<1> QED
  BY <1>1, CallStays, JournalStays, WorkerStays, RestStays DEF ExecuteLate, closeVars, Sound, Kept

LEMMA CashierStep ==
  ASSUME Sound, Cashier, UNCHANGED <<journalVars, closeVars, authVars>>
  PROVE  Kept
BY CashierDoc, CallStays, JournalStays, WorkerStays, RestStays DEF Cashier, closeVars, Sound, Kept

LEMMA NextKeeps ==
  ASSUME Sound, Next
  PROVE  Kept
<1>1. ASSUME Cashier, UNCHANGED <<journalVars, closeVars, authVars>> PROVE Kept
  BY <1>1, CashierStep
<1>2. ASSUME NEW c \in Calls, Call(c), UNCHANGED authVars PROVE Kept
  BY <1>2, CallStep
<1>3. ASSUME NEW c \in Calls, AuthCall(c) PROVE Kept
  BY <1>3, AuthCallStep
<1>4. ASSUME NEW k \in Workers, Reconcile(k), UNCHANGED authVars PROVE Kept
  BY <1>4, ReconcileStep
<1>5. ASSUME NEW d \in Devices, FlushClose(d), UNCHANGED authVars PROVE Kept
  BY <1>5, FlushCloseStep
<1>6. ASSUME NEW d \in Devices, Restart(d), deferral' = [deferral EXCEPT ![d] = "idle"],
             UNCHANGED <<sent, read>>
      PROVE  Kept
  BY <1>6, RestartStep
<1>7. ASSUME NEW d \in Devices, SweepAttempt(d) \/ Replay(d) PROVE Kept
  BY <1>7, SweepStep, ReplayStep
<1>8. ASSUME NEW request \in Requests, ExecuteLate(request) PROVE Kept
  BY <1>8, LateStep
<1> QED
  BY <1>1, <1>2, <1>3, <1>4, <1>5, <1>6, <1>7, <1>8 DEF Next

LEMMA StepKeeps ==
  ASSUME TInv, [Next]_vars
  PROVE  TInv' /\ KeepsEntries
<1>1. Sound
  BY Parts DEF Sound
<1>2. CASE UNCHANGED vars
  <2>1. KeepsEntries /\ JournalPart'
    BY <1>1, <1>2, JournalStays DEF vars, Sound
  <2>2. DocPart' /\ CallPart' /\ WorkerPart' /\ RestPart'
    BY <1>1, <1>2, <2>1, DocStays, CallStays, WorkerStays, RestStays DEF vars, closeVars, Sound
  <2> QED
    BY <2>1, <2>2, Parts
<1>3. CASE Next
  BY <1>1, <1>3, NextKeeps, Parts DEF Kept, Sound
<1> QED
  BY <1>2, <1>3

LEMMA InitTInv == Init => TInv
<1> SUFFICES ASSUME Init PROVE TInv
  OBVIOUS
<1>1. DocPart
  BY DEF Init, ShiftInit, DocPart, ShiftTypeOK, DocShape, Closed
<1>2. CallPart
  BY DEF Init, CloseInit, IdleCall, CallPart, CallRecord, CallShape, CallStates
<1>3. JournalPart
  BY DEF Init, JournalInit, JournalPart, JournalTypeOK, EntryShape, AttemptShape, QueuedShape,
         HasEntry, HasAttempt
<1>4. WorkerPart
  BY DEF Init, CloseInit, IdleWorker, WorkerPart, WorkerRecord, WorkerShape
<1>5. RestPart
  BY DEF Init, CloseInit, AuthInit, RestPart, AuthTypeOK, DeferralShape
<1> QED
  BY <1>1, <1>2, <1>3, <1>4, <1>5, Parts

LEMMA TInvHolds == Spec => []TInv
BY InitTInv, StepKeeps, PTL DEF Spec

(* Every document, record, attempt and call has the shape the code gives   *)
(* it, through restarts, overlapping calls and requests executed late.     *)
THEOREM ShiftsTyped == Spec => []TypeOK
<1>1. TInv => TypeOK
  BY DEF TInv
<1> QED
  BY <1>1, TInvHolds, PTL
-----------------------------------------------------------------------------
(* A closed document changes in its sync mark only.                        *)
ClosedStays ==
  Closed => /\ Closed' /\ authored' = authored
            /\ shift'.corr = shift.corr /\ shift'.figures = shift.figures /\ shift'.cash = shift.cash
            /\ shift'.sync \in {shift.sync, "synced"}

LEMMA ClosedStep ==
  ASSUME TInv, [Next]_vars
  PROVE  ClosedStays
<1> USE DEF ClosedStays, Closed
<1>1. CASE UNCHANGED <<shift, authored>>
  BY <1>1
<1>2. ASSUME Cashier PROVE ClosedStays
  BY <1>2 DEF Cashier, ShiftNext, RecordCash, FlushCash, SendRefund, CommitRefund, RefuseRefund,
              SyncRefund, Refresh, Seal, ShiftTakesRefund
<1>3. ASSUME NEW c \in Calls, Call(c) PROVE ClosedStays
  <2>1. CASE CommitOnline(c)
    BY <2>1 DEF CommitOnline, AcceptsClientClose
  <2>2. CASE ~CommitOnline(c)
    BY <1>1, <1>3, <2>2
       DEF Call, CheckOffline, JournalOffline, StartOnline, PrepareOnline, FindOwnCommit,
           RefusedOnline, ProveAndFinalize, LeaveObserved, RecoverOwnCommittedClose, shiftVars
  <2> QED
    BY <2>1, <2>2
<1>4. ASSUME NEW c \in Calls, AuthCall(c) PROVE ClosedStays
  <2>1. CASE Answered(c)
    BY <2>1 DEF Answered, Execute
  <2>2. CASE ~Answered(c)
    BY <1>1, <1>4, <2>2
       DEF AuthCall, CheckDeferred, RecordDeferred, StartAuthoritative, ProveJournaled,
           ReadBeforeCall, BindAndCall, GiveUp, FinalizeAuthoritative, shiftVars
  <2> QED
    BY <2>1, <2>2
<1>5. ASSUME NEW k \in Workers, Reconcile(k) PROVE ClosedStays
  <2>1. CASE WriteNormalization(k)
    BY <2>1 DEF WriteNormalization, TInv, TypeOK, ShiftTypeOK
  <2>2. CASE ~WriteNormalization(k)
    BY <1>1, <1>5, <2>2 DEF Reconcile, ReadClose, MarkRead, RetryNormalization, RecordNormalization, shiftVars
  <2> QED
    BY <2>1, <2>2
<1>6. ASSUME NEW d \in Devices, FlushClose(d) PROVE ClosedStays
  BY <1>6 DEF FlushClose, AcceptsClientClose
<1>7. ASSUME NEW d \in Devices, Restart(d) \/ SweepAttempt(d) PROVE ClosedStays
  BY <1>7 DEF Restart, SweepAttempt, RecoverAttempt, shiftVars
<1>8. ASSUME NEW d \in Devices, Replay(d) PROVE ClosedStays
  BY <1>8 DEF Replay, ReplayDeferred, DeferredAnswered, DeferredLost, Execute, shiftVars
<1>9. ASSUME NEW request \in Requests, ExecuteLate(request) PROVE ClosedStays
  BY <1>9 DEF ExecuteLate
<1>10. CASE UNCHANGED vars
  BY <1>10 DEF vars, shiftVars
<1> QED
  BY <1>2, <1>3, <1>4, <1>5, <1>6, <1>7, <1>8, <1>9, <1>10 DEF Next

(* Once closed, a shift keeps its close and its drawer for good, and its   *)
(* sync mark only goes forward, whoever writes the document and however    *)
(* late: the rules refuse a second close, the callable repeats its answer. *)
THEOREM CloseStaysFinal == Spec => CloseIsFinal
<1>1. TInv /\ [Next]_vars =>
        [Closed => /\ shift'.status = "closed" /\ shift'.corr = shift.corr
                   /\ shift'.figures = shift.figures /\ shift'.cash = shift.cash
                   /\ shift.sync = "synced" => shift'.sync = "synced"]_vars
  BY ClosedStep DEF ClosedStays, Closed
<1> QED
  BY <1>1, TInvHolds, PTL DEF Spec, CloseIsFinal
-----------------------------------------------------------------------------
(* What a call and a worker hold of the close between two steps: a call    *)
(* that committed, and a worker that read a close, hold the server's.      *)
CommittedCall(c) == call[c].at = "committed" => Closed /\ shift.corr = call[c].corr
WorkerTells(k) ==
  /\ worker[k].at # "idle" => Closed /\ worker[k].corr = shift.corr
  /\ worker[k].at = "read" =>
       /\ ConfirmsEntry(entry[WorkerDevice[k]])
       /\ ~entry[WorkerDevice[k]].deferred
       /\ worker[k].sync = "pending" \/ shift.sync = "synced"
  /\ worker[k].at = "written" => shift.sync = "synced"

TellsInv ==
  /\ TerminalTellsTheClose
  /\ \A c \in Calls : CommittedCall(c)
  /\ \A k \in Workers : WorkerTells(k)

(* A step that leaves each of them alone, or makes it true.                *)
ZsTold == \A z \in zs' : z \in zs \/ ZIsTheClose(z)'
EntriesTold == \A d \in Devices : entry'[d] = entry[d] \/ entry'[d].status # "synced" \/ SyncedIsTheClose(d)'
AttemptsTold == \A d \in Devices : attempt'[d] = attempt[d] \/ AttemptMarksTrue(d)'
CallsTold == \A c \in Calls : call'[c] = call[c] \/ CommittedCall(c)'
WorkersTold == \A k \in Workers : worker'[k] = worker[k] \/ WorkerTells(k)'
Told == ZsTold /\ EntriesTold /\ AttemptsTold /\ CallsTold /\ WorkersTold

LEMMA ToldKeeps ==
  ASSUME TInv, TellsInv, ClosedStays, KeepsEntries, Told
  PROVE  TellsInv'
<1>1. \A z \in zs' : ZIsTheClose(z)'
  BY DEF Told, ZsTold, TellsInv, TerminalTellsTheClose, ZIsTheClose, ClosedStays
<1>2. ASSUME NEW d \in Devices PROVE SyncedIsTheClose(d)'
  BY DEF Told, EntriesTold, TellsInv, TerminalTellsTheClose, SyncedIsTheClose, ZIsTheClose,
         ClosedStays, HasEntry
<1>3. ASSUME NEW d \in Devices PROVE AttemptMarksTrue(d)'
  BY DEF Told, AttemptsTold, TellsInv, TerminalTellsTheClose, AttemptMarksTrue, ClosedStays, HasAttempt
<1>4. ASSUME NEW c \in Calls PROVE CommittedCall(c)'
  BY DEF Told, CallsTold, TellsInv, CommittedCall, ClosedStays
<1>5. ASSUME NEW k \in Workers PROVE WorkerTells(k)'
  <2>1. CASE worker'[k] = worker[k]
    <3>1. worker[k].at # "idle" => HasEntry(WorkerDevice[k])
      BY DEF TInv, Shape, WorkerShape
    <3> QED
      BY <2>1, <3>1 DEF TellsInv, WorkerTells, ConfirmsEntry, ClosedStays, KeepsEntries
  <2> QED
    BY <2>1 DEF Told, WorkersTold
<1> QED
  BY <1>1, <1>2, <1>3, <1>4, <1>5 DEF TellsInv, TerminalTellsTheClose

LEMMA ZStays == UNCHANGED zs => ZsTold
BY DEF ZsTold
LEMMA EntryStays == UNCHANGED entry => EntriesTold
BY DEF EntriesTold
LEMMA AttemptStays == UNCHANGED attempt => AttemptsTold
BY DEF AttemptsTold
LEMMA CallToldStays == UNCHANGED call => CallsTold
BY DEF CallsTold
LEMMA WorkerToldStays == UNCHANGED worker => WorkersTold
BY DEF WorkersTold

(* The operations of the journal, as to what they tell.                    *)
LEMMA UpsertTold ==
  ASSUME TInv, NEW d \in Devices, NEW figures, NEW deferred, UpsertCloseIntent(d, figures, deferred)
  PROVE  EntriesTold
BY DEF TInv, TypeOK, JournalTypeOK, UpsertCloseIntent, NewEntry, EntriesTold

LEMMA FinalizeTold ==
  ASSUME TInv, NEW d \in Devices, NEW corr, NEW figures, FinalizeOnlineClose(d, corr, figures)
  PROVE  EntriesTold /\ AttemptsTold
BY DEF TInv, TypeOK, JournalTypeOK, FinalizeOnlineClose, NewEntry, EntriesTold, AttemptsTold,
       AttemptMarksTrue, HasAttempt

LEMMA PrepareTold ==
  ASSUME TInv, NEW d \in Devices, NEW expected, PrepareOnlineCloseAttempt(d, expected)
  PROVE  AttemptsTold
BY DEF TInv, TypeOK, JournalTypeOK, PrepareOnlineCloseAttempt, AttemptsTold, AttemptMarksTrue

LEMMA RejectTold ==
  ASSUME TInv, NEW d \in Devices, entry' = Rejected(d), HasEntry(d)
  PROVE  EntriesTold
<1>1. entry[d] \in Entries /\ entry \in [Devices -> Entries \cup {None}]
  BY DEF TInv, TypeOK, JournalTypeOK, HasEntry
<1> QED
  BY <1>1 DEF Rejected, Entries, EntriesTold

(* An attempt is marked observed or superseded on the server's word.       *)
LEMMA MarkTold ==
  ASSUME TInv, TellsInv, ClosedStays, Closed, NEW d \in Devices, NEW corr,
         \/ MarkCommitObserved(d, corr) /\ shift.corr = corr
         \/ SupersedeOnlineCloseAttempt(d, corr) /\ shift.corr # corr
  PROVE  AttemptsTold
<1>1. \A b \in Devices \ {d} : attempt'[b] = attempt[b]
  BY DEF TInv, TypeOK, JournalTypeOK, MarkCommitObserved, SupersedeOnlineCloseAttempt
<1>2. ASSUME HasAttempt(d), attempt[d].corr = corr PROVE AttemptMarksTrue(d)'
  <2>1. attempt[d] \in Attempts /\ AttemptMarksTrue(d)
    BY <1>2 DEF TInv, TypeOK, JournalTypeOK, HasAttempt, TellsInv, TerminalTellsTheClose
  <2>2. /\ attempt'[d].corr = corr
        /\ MarkCommitObserved(d, corr) => attempt'[d].superseded = attempt[d].superseded
        /\ SupersedeOnlineCloseAttempt(d, corr) => attempt'[d].observed = attempt[d].observed
    BY <1>2, <2>1 DEF TInv, TypeOK, JournalTypeOK, MarkCommitObserved, SupersedeOnlineCloseAttempt, Attempts
  <2> QED
    BY <1>2, <2>1, <2>2 DEF AttemptMarksTrue, ClosedStays
<1>3. ~(HasAttempt(d) /\ attempt[d].corr = corr) => attempt'[d] = attempt[d]
  BY DEF TInv, TypeOK, JournalTypeOK, MarkCommitObserved, SupersedeOnlineCloseAttempt
<1> QED
  BY <1>1, <1>2, <1>3 DEF AttemptsTold

(* A call that moves to another stage than "committed" claims nothing.     *)
LEMMA CallTold ==
  ASSUME TInv, NEW c \in Calls, NEW at, NEW corr, NEW figures, To(c, at, corr, figures),
         at = "committed" => Closed' /\ shift'.corr = corr
  PROVE  CallsTold
BY DEF TInv, TypeOK, CloseTypeOK, To, CallsTold, CommittedCall
LEMMA CallTells ==
  ASSUME TInv, TellsInv, ClosedStays, KeepsEntries, NEW c \in Calls, Call(c)
  PROVE  Told
<1> DEFINE d == CallDevice[c]
<1> USE ZStays, EntryStays, AttemptStays, WorkerToldStays DEF Told, journalVars, End
<1>1. ASSUME CheckOffline(c) PROVE Told
  BY <1>1, CallTold DEF CheckOffline
<1>2. ASSUME JournalOffline(c) PROVE Told
  BY <1>2, CallTold, UpsertTold DEF JournalOffline
<1>3. ASSUME StartOnline(c) PROVE Told
  BY <1>3, CallTold DEF StartOnline
<1>4. ASSUME PrepareOnline(c) PROVE Told
  <2>1. CallsTold
    BY <1>4, CallTold DEF PrepareOnline
  <2> QED
    BY <1>4, <2>1, PrepareTold DEF PrepareOnline
<1>5. ASSUME CommitOnline(c) PROVE Told
  <2>1. Closed' /\ shift'.corr = call[c].corr
    BY <1>5 DEF CommitOnline, CloseShift, Closed, TInv, TypeOK, ShiftTypeOK
  <2> QED
    BY <1>5, <2>1, CallTold DEF CommitOnline
<1>6. ASSUME FindOwnCommit(c) PROVE Told
  BY <1>6, CallTold DEF FindOwnCommit, CommittedOwnClose, ClosedStays
<1>7. ASSUME RefusedOnline(c) PROVE Told
  <2>1. AttemptsTold
    BY <1>7, MarkTold DEF RefusedOnline, CommittedOwnClose
  <2> QED
    BY <1>7, <2>1, CallTold DEF RefusedOnline
<1>8. ASSUME ProveAndFinalize(c) PROVE Told
  <2>1. ZsTold
    BY <1>8 DEF ProveAndFinalize, ShowZ, ZsTold, ZIsTheClose, CommittedOwnClose, ClosedStays
  <2> QED
    BY <1>8, <2>1, CallTold, FinalizeTold DEF ProveAndFinalize
<1>9. ASSUME LeaveObserved(c) PROVE Told
  <2>1. Closed /\ shift.corr = call[c].corr
    BY <1>9 DEF LeaveObserved, TellsInv, CommittedCall
  <2> QED
    BY <1>9, <2>1, CallTold, MarkTold DEF LeaveObserved
<1>10. ASSUME RecoverOwnCommittedClose(c) PROVE Told
  <2>1. ZsTold
    BY <1>10 DEF RecoverOwnCommittedClose, ShowZ, ZsTold, ZIsTheClose, ClosedStays
  <2> QED
    BY <1>10, <2>1, CallTold, FinalizeTold DEF RecoverOwnCommittedClose
<1> QED
  BY <1>1, <1>2, <1>3, <1>4, <1>5, <1>6, <1>7, <1>8, <1>9, <1>10 DEF Call

LEMMA AuthCallTells ==
  ASSUME TInv, TellsInv, ClosedStays, KeepsEntries, NEW c \in Calls, AuthCall(c)
  PROVE  Told
<1> DEFINE d == CallDevice[c]
<1> USE ZStays, EntryStays, AttemptStays, WorkerToldStays DEF Told, journalVars, End
<1>1. ASSUME CheckDeferred(c) PROVE Told
  BY <1>1, CallTold DEF CheckDeferred
<1>2. ASSUME RecordDeferred(c) PROVE Told
  BY <1>2, CallTold, UpsertTold DEF RecordDeferred
<1>3. ASSUME StartAuthoritative(c) PROVE Told
  BY <1>3, CallTold DEF StartAuthoritative
<1>4. ASSUME ProveJournaled(c) PROVE Told
  <2>1. ZsTold
    BY <1>4 DEF ProveJournaled, ShowZ, ZsTold, ZIsTheClose, CommittedOwnClose, ClosedStays
  <2> QED
    BY <1>4, <2>1, CallTold DEF ProveJournaled
<1>5. ASSUME ReadBeforeCall(c) PROVE Told
  <2>1. CallsTold
    BY <1>5, CallTold DEF ReadBeforeCall
  <2> QED
    BY <1>5, <2>1 DEF ReadBeforeCall
<1>6. ASSUME BindAndCall(c) PROVE Told
  BY <1>6, CallTold, PrepareTold DEF BindAndCall
<1>7. ASSUME Answered(c) PROVE Told
  <2>1. Closed' /\ shift'.corr = call[c].corr
    BY <1>7 DEF Answered, Execute, Answers, Replays, CloseShift, Request, Closed, TInv, TypeOK, ShiftTypeOK
  <2> QED
    BY <1>7, <2>1, CallTold DEF Answered
<1>8. ASSUME GiveUp(c) PROVE Told
  <2>1. AttemptsTold
    BY <1>8, MarkTold DEF GiveUp, CommittedOwnClose
  <2> QED
    BY <1>8, <2>1, CallTold DEF GiveUp
<1>9. ASSUME FinalizeAuthoritative(c) PROVE Told
  <2>1. Closed /\ shift.corr = call[c].corr
    BY <1>9 DEF FinalizeAuthoritative, TellsInv, CommittedCall
  <2>2. ZsTold
    <3>1. CASE UNCHANGED zs
      BY <3>1
    <3>2. CASE ProofMatches(c, d) /\ ShowZ(d, call[c].corr, call[c].figures)
      BY <2>1, <3>2 DEF ProofMatches, ShowZ, ZsTold, ZIsTheClose, ClosedStays
    <3> QED
      BY <1>9, <3>1, <3>2 DEF FinalizeAuthoritative
  <2>3. EntriesTold /\ AttemptsTold
    BY <1>9, <2>1, FinalizeTold, MarkTold DEF FinalizeAuthoritative
  <2> QED
    BY <1>9, <2>2, <2>3, CallTold DEF FinalizeAuthoritative
<1> QED
  BY <1>1, <1>2, <1>3, <1>4, <1>5, <1>6, <1>7, <1>8, <1>9 DEF AuthCall

LEMMA ReconcileTells ==
  ASSUME TInv, TInv', TellsInv, ClosedStays, KeepsEntries, NEW k \in Workers, Reconcile(k)
  PROVE  Told
<1> DEFINE d == WorkerDevice[k]
<1> USE ZStays, EntryStays, AttemptStays, CallToldStays DEF Told, journalVars, callVars
<1>0. /\ worker \in [Workers -> WorkerRecord] /\ WorkerShape(k) /\ WorkerTells(k)
      /\ SyncedIsTheClose(d) /\ shift.sync \in {"none", "pending", "synced"}
      /\ entry \in [Devices -> Entries \cup {None}]
  BY DEF TInv, TypeOK, CloseTypeOK, ShiftTypeOK, JournalTypeOK, WorkerRecord, Shape, TellsInv, TerminalTellsTheClose
<1>1. ASSUME ReadClose(k) PROVE Told
  <2>1. EntriesTold
    BY <1>1, RejectTold DEF ReadClose
  <2>2. WorkersTold
    <3>1. CASE ConfirmsEntry(entry[d])
      <4>1. worker' = [worker EXCEPT ![k] = [at |-> "read", corr |-> shift.corr, sync |-> shift.sync]]
        BY <1>1, <3>1 DEF ReadClose
      <4>2. shift.sync = "pending" \/ shift.sync = "synced"
        BY <1>0, <1>1 DEF ReadClose, TInv, Shape, DocShape
      <4>3. WorkerTells(k)'
        BY <1>0, <1>1, <3>1, <4>1, <4>2 DEF ReadClose, WorkerTells, ClosedStays, KeepsEntries, ConfirmsEntry, shiftVars
      <4> QED
        BY <1>0, <4>1, <4>3 DEF WorkersTold
    <3>2. CASE ~ConfirmsEntry(entry[d])
      BY <1>1, <3>2, WorkerToldStays DEF ReadClose
    <3> QED
      BY <3>1, <3>2
  <2> QED
    BY <1>1, <2>1, <2>2 DEF ReadClose
<1>2. ASSUME MarkRead(k) PROVE Told
  <2>1. WorkersTold
    <3>1. \A j \in Workers \ {k} : worker'[j] = worker[j]
      BY <1>0, <1>2 DEF MarkRead
    <3>2. worker'[k].at = "idle" \/ (worker'[k].at = "marked" /\ worker'[k].corr = worker[k].corr)
      <4>1. CASE worker[k].sync = "pending"
        BY <1>0, <1>2, <4>1 DEF MarkRead, WorkerRecord
      <4>2. CASE worker[k].sync # "pending"
        <5>1. worker'[k] = IdleWorker
          BY <1>0, <1>2, <4>2 DEF MarkRead
        <5> QED
          BY <5>1 DEF IdleWorker
      <4> QED
        BY <4>1, <4>2
    <3>3. WorkerTells(k)'
      BY <1>0, <1>2, <3>2 DEF MarkRead, WorkerTells, ClosedStays
    <3> QED
      BY <3>1, <3>3 DEF WorkersTold
  <2>2. EntriesTold
    <3>1. HasEntry(d) /\ entry[d] \in Entries
      BY <1>0, <1>2 DEF MarkRead, WorkerShape, HasEntry
    <3>2. \A b \in Devices \ {d} : entry'[b] = entry[b]
      BY <1>0, <1>2 DEF MarkRead, MarkSynced
    <3>3. entry'[d].norm = "done" => worker[k].sync # "pending"
      BY <1>0, <1>2, <3>1 DEF MarkRead, MarkSynced, Entries
    <3>4. Closed /\ ConfirmsEntry(entry[d]) /\ ~entry[d].deferred
      <4>1. worker[k].at = "read"
        BY <1>2 DEF MarkRead
      <4> QED
        BY <1>0, <4>1 DEF WorkerTells, ConfirmsEntry
    <3>5. entry'[d].norm = "done" => shift.sync = "synced"
      BY <1>0, <1>2, <3>3 DEF MarkRead, WorkerTells
    <3>6. ZIsTheClose(entry[d])' /\ ~entry'[d].deferred /\ shift' = shift
      BY <1>2, <3>1, <3>4 DEF MarkRead, ConfirmsEntry, ZIsTheClose, KeepsEntries, ClosedStays, shiftVars
    <3>7. SyncedIsTheClose(d)'
      BY <3>5, <3>6 DEF SyncedIsTheClose
    <3> QED
      BY <3>2, <3>7 DEF EntriesTold
  <2> QED
    BY <1>2, <2>1, <2>2 DEF MarkRead
<1>3. ASSUME RetryNormalization(k) PROVE Told
  <2>1. worker' = [worker EXCEPT ![k] =
          [at |-> IF shift.sync = "synced" THEN "written" ELSE "marked", corr |-> shift.corr, sync |-> shift.sync]]
    BY <1>3 DEF RetryNormalization
  <2>2. WorkerTells(k)'
    BY <1>0, <1>3, <2>1 DEF RetryNormalization, WorkerTells, ClosedStays, shiftVars
  <2>3. WorkersTold
    BY <1>0, <2>1, <2>2 DEF WorkersTold
  <2> QED
    BY <1>3, <2>3 DEF RetryNormalization
<1>4. ASSUME WriteNormalization(k) PROVE Told
  <2>1. \A j \in Workers \ {k} : worker'[j] = worker[j]
    BY <1>0, <1>4 DEF WriteNormalization
  <2>2. Closed /\ worker[k].corr = shift.corr
    BY <1>0, <1>4 DEF WriteNormalization, WorkerTells
  <2>3. shift'.sync = "synced"
    BY <1>4, <2>2 DEF WriteNormalization, NormalizationDecision, TInv, TypeOK, ShiftTypeOK
  <2>4. worker'[k].at = "written" /\ worker'[k].corr = worker[k].corr
    BY <1>0, <1>4, <2>2 DEF WriteNormalization, NormalizationDecision, WorkerRecord
  <2>5. WorkerTells(k)'
    BY <2>2, <2>3, <2>4 DEF WorkerTells, ClosedStays
  <2>6. WorkersTold
    BY <2>1, <2>5 DEF WorkersTold
  <2> QED
    BY <1>4, <2>6 DEF WriteNormalization
<1>5. ASSUME RecordNormalization(k) PROVE Told
  <2>1. WorkersTold
    BY <1>0, <1>5 DEF RecordNormalization, WorkersTold, WorkerTells, IdleWorker
  <2>2. EntriesTold
    <3>1. HasEntry(d) /\ entry[d] \in Entries
      BY <1>0, <1>5 DEF RecordNormalization, WorkerShape, HasEntry
    <3>2. \A b \in Devices \ {d} : entry'[b] = entry[b]
      BY <1>0, <1>5 DEF RecordNormalization, SetNormalization
    <3>3. entry'[d].status = "synced" => entry[d].status = "synced"
      BY <1>0, <1>5, <3>1 DEF RecordNormalization, SetNormalization, Entries
    <3>4. SyncedIsTheClose(d)'
      BY <1>0, <1>5, <3>1, <3>3
         DEF RecordNormalization, WorkerTells, SyncedIsTheClose, ZIsTheClose, KeepsEntries, ClosedStays, shiftVars
    <3> QED
      BY <3>2, <3>4 DEF EntriesTold
  <2> QED
    BY <1>5, <2>1, <2>2 DEF RecordNormalization
<1> QED
  BY <1>1, <1>2, <1>3, <1>4, <1>5 DEF Reconcile
LEMMA OthersTell ==
  ASSUME TInv, TInv', TellsInv, ClosedStays, KeepsEntries, NEW d \in Devices,
         FlushClose(d) \/ Restart(d) \/ SweepAttempt(d) \/ Replay(d)
  PROVE  Told
<1> USE ZStays, EntryStays, AttemptStays, CallToldStays, WorkerToldStays
    DEF Told, journalVars, callVars, closeVars
<1>1. ASSUME FlushClose(d) PROVE Told
  <2>1. HasEntry(d)
    BY <1>1 DEF FlushClose, TInv, Shape, QueuedShape
  <2>2. EntriesTold
    BY <1>1, <2>1, RejectTold DEF FlushClose
  <2> QED
    BY <1>1, <2>2 DEF FlushClose
<1>2. ASSUME Restart(d) PROVE Told
  <2>1. CallsTold
    BY <1>2 DEF Restart, CallsTold, CommittedCall, TInv, TypeOK, CloseTypeOK
  <2>2. WorkersTold
    BY <1>2 DEF Restart, WorkersTold, WorkerTells, IdleWorker, TInv, TypeOK, CloseTypeOK
  <2> QED
    BY <1>2, <2>1, <2>2 DEF Restart
<1>3. ASSUME SweepAttempt(d) PROVE Told
  <2>1. AttemptsTold /\ EntriesTold
    BY <1>3, FinalizeTold, MarkTold DEF SweepAttempt, RecoverAttempt, CommittedOwnClose
  <2> QED
    BY <1>3, <2>1 DEF SweepAttempt, RecoverAttempt
<1>4. ASSUME ReplayDeferred(d) PROVE Told
  <2>1. EntriesTold
    BY <1>4, RejectTold DEF ReplayDeferred, DeferredPending
  <2> QED
    BY <1>4, <2>1 DEF ReplayDeferred
<1>5. ASSUME DeferredAnswered(d) PROVE Told
  <2>1. HasEntry(d) /\ entry[d] \in Entries
    BY <1>5 DEF DeferredAnswered, TInv, TypeOK, JournalTypeOK, Shape, DeferralShape, HasEntry
  <2>2. EntriesTold
    <3>1. CASE shift'.corr = entry[d].corr /\ authored' /\ shift'.figures = entry[d].figures
      <4>1. entry' = [entry EXCEPT ![d] = [entry[d] EXCEPT !.status = "synced",
                        !.norm = IF shift'.sync = "pending" THEN "outstanding" ELSE "done"]]
        BY <1>5, <3>1 DEF DeferredAnswered, MarkSynced, TInv, TypeOK, JournalTypeOK
      <4>2. Closed' /\ shift'.sync \in {"pending", "synced"}
        BY <3>1 DEF TInv, TypeOK, ShiftTypeOK, Shape, DocShape
      <4>3. entry'[d].norm = "done" => shift'.sync # "pending"
        BY <2>1, <4>1 DEF Entries, TInv, TypeOK, JournalTypeOK
      <4>4. ZIsTheClose(entry[d])'
        BY <2>1, <3>1, <4>2 DEF ZIsTheClose, KeepsEntries
      <4>5. SyncedIsTheClose(d)'
        BY <3>1, <4>2, <4>3, <4>4 DEF SyncedIsTheClose
      <4> QED
        BY <4>1, <4>5 DEF EntriesTold, TInv, TypeOK, JournalTypeOK
    <3>2. CASE entry' = Rejected(d)
      BY <2>1, <3>2, RejectTold
    <3> QED
      BY <1>5, <3>1, <3>2 DEF DeferredAnswered
  <2> QED
    BY <1>5, <2>2 DEF DeferredAnswered
<1>6. ASSUME DeferredLost(d) PROVE Told
  BY <1>6 DEF DeferredLost
<1> QED
  BY <1>1, <1>2, <1>3, <1>4, <1>5, <1>6 DEF Replay

LEMMA StepTells ==
  ASSUME TInv, TellsInv, [Next]_vars
  PROVE  TellsInv'
<1>1. TInv' /\ KeepsEntries /\ ClosedStays
  BY StepKeeps, ClosedStep
<1>2. CASE UNCHANGED <<journalVars, closeVars>>
  BY <1>2, ZStays, EntryStays, AttemptStays, CallToldStays, WorkerToldStays, <1>1, ToldKeeps
     DEF Told, journalVars, closeVars
<1>3. ASSUME Told PROVE TellsInv'
  BY <1>1, <1>3, ToldKeeps
<1>4. ASSUME NEW c \in Calls, Call(c) PROVE TellsInv'
  BY <1>1, <1>3, <1>4, CallTells
<1>5. ASSUME NEW c \in Calls, AuthCall(c) PROVE TellsInv'
  BY <1>1, <1>3, <1>5, AuthCallTells
<1>6. ASSUME NEW k \in Workers, Reconcile(k) PROVE TellsInv'
  BY <1>1, <1>3, <1>6, ReconcileTells
<1>7. ASSUME NEW d \in Devices, FlushClose(d) \/ Restart(d) \/ SweepAttempt(d) \/ Replay(d)
      PROVE  TellsInv'
  BY <1>1, <1>3, <1>7, OthersTell
<1>8. ASSUME NEW request \in Requests, ExecuteLate(request) PROVE TellsInv'
  BY <1>2, <1>8 DEF ExecuteLate
<1> QED
  BY <1>2, <1>4, <1>5, <1>6, <1>7, <1>8 DEF Next, vars

LEMMA InitTells == Init => TellsInv
BY DEF Init, JournalInit, CloseInit, IdleCall, IdleWorker, TellsInv, TerminalTellsTheClose,
       SyncedIsTheClose, AttemptMarksTrue, HasEntry, HasAttempt, CommittedCall, WorkerTells

(* What a terminal shows and records of a close is the server's close:     *)
(* every Z, every synced record and its mark, every attempt marked         *)
(* observed or superseded, whatever call was lost, retried or overtaken.   *)
THEOREM TerminalsTellTheClose == Spec => []TerminalTellsTheClose
<1>1. TInv /\ TellsInv /\ [Next]_vars => TellsInv'
  BY StepTells
<1>2. TellsInv => TerminalTellsTheClose
  BY DEF TellsInv
<1> QED
  BY <1>1, <1>2, InitTells, TInvHolds, PTL DEF Spec
-----------------------------------------------------------------------------
(* The drawer.  A refund is on the document exactly when it committed, and *)
(* no queued write is a refund.                                            *)
RefundsTrue ==
  /\ \A r \in Refunds : Committed(r) <=> r \in shift.cash
  /\ \A d \in Devices : unsent[d] \cap Refunds = {}

(* While the shift is open: sums that will be on the server when the       *)
(* terminal's writes are out, and sums that hold each refund of the        *)
(* terminal that was ever sent.                                            *)
Reaching(d, cash) == cash \subseteq shift.cash \cup unsent[d]
OwnRefunds(d, cash) ==
  \A r \in Refunds : CashDevice[r] = d /\ refund[r] \in {"sent", "committed"} => Committed(r) /\ r \in cash

(* A refund that was sent is guarded until its terminal has seen it.       *)
Guarded(r) ==
  refund[r] \in {"sent", "committed"} =>
    \/ r \in guard[CashDevice[r]]
    \/ Committed(r) /\ r \in seen[CashDevice[r]]

(* What the terminal holds, what it queued while the rules took it, and    *)
(* the record, which nothing but an offline close writes on an open shift. *)
SeenReaches(d) == Reaching(d, seen[d])
QueuedHolds(d) ==
  queued[d] # None /\ ~sealed =>
    seenClosed[d] /\ Reaching(d, queued[d].cash) /\ OwnRefunds(d, queued[d].cash)
EntryOffline(d) == HasEntry(d) => entry[d].corr = <<d, "offline">>

(* What a call holds on its way to the close.                              *)
CallHolds(c) ==
  LET d == CallDevice[c]  cash == call[c].figures.cash IN
  /\ call[c].at = "checked" => Reaching(d, cash) /\ OwnRefunds(d, cash)
  /\ call[c].at = "flushing" /\ d \notin Authoritative => Reaching(d, cash)
  /\ call[c].at = "prepared" /\ d \notin Authoritative => cash \subseteq shift.cash

OpenInv ==
  ~Closed => /\ \A r \in Refunds : Guarded(r)
             /\ \A d \in Devices : SeenReaches(d) /\ QueuedHolds(d) /\ EntryOffline(d)
             /\ \A c \in Calls : CallHolds(c)

DrawerInv == RefundsTrue /\ OpenInv /\ DrawerComplete

-----------------------------------------------------------------------------
(* Movements, refunds and what a terminal has seen change by the cashier's *)
(* steps only; a guard that goes otherwise goes with the close.            *)
CashStays == /\ shift'.cash = shift.cash /\ UNCHANGED <<refund, unsent, seen, sealed>>
             /\ ~Closed' => UNCHANGED guard

LEMMA OnlyCashier ==
  ASSUME TInv, [Next]_vars
  PROVE  \/ Cashier /\ UNCHANGED <<journalVars, closeVars, authVars>>
         \/ CashStays
<1> USE DEF CashStays
<1>1. ASSUME UNCHANGED shiftVars PROVE CashStays
  BY <1>1 DEF shiftVars
<1>2. ASSUME NEW corr, NEW figures, CloseShift(corr, figures) PROVE Closed' /\ shift'.cash = shift.cash
  BY <1>2 DEF CloseShift, Closed, TInv, TypeOK, ShiftTypeOK
<1>3. ASSUME NEW c \in Calls, Call(c) PROVE CashStays
  <2>1. CASE CommitOnline(c)
    BY <1>2, <2>1 DEF CommitOnline
  <2>2. CASE FindOwnCommit(c) \/ JournalOffline(c)
    BY <2>2 DEF FindOwnCommit, JournalOffline, CommittedOwnClose, Closed, cashVars
  <2>3. CASE ~CommitOnline(c) /\ ~FindOwnCommit(c) /\ ~JournalOffline(c)
    BY <1>1, <1>3, <2>3
       DEF Call, CheckOffline, StartOnline, PrepareOnline, RefusedOnline, ProveAndFinalize,
           LeaveObserved, RecoverOwnCommittedClose
  <2> QED
    BY <2>1, <2>2, <2>3
<1>4. ASSUME NEW c \in Calls, AuthCall(c) PROVE CashStays
  <2>1. CASE Answered(c)
    BY <1>2, <2>1 DEF Answered, Execute, cashVars
  <2>2. CASE RecordDeferred(c) \/ FinalizeAuthoritative(c)
    BY <2>2 DEF RecordDeferred, FinalizeAuthoritative, ProofMatches, CommittedOwnClose, Closed, cashVars
  <2>3. CASE ~Answered(c) /\ ~RecordDeferred(c) /\ ~FinalizeAuthoritative(c)
    BY <1>1, <1>4, <2>3
       DEF AuthCall, CheckDeferred, StartAuthoritative, ProveJournaled, ReadBeforeCall, BindAndCall, GiveUp
  <2> QED
    BY <2>1, <2>2, <2>3
<1>5. ASSUME NEW k \in Workers, Reconcile(k) PROVE CashStays
  <2>1. CASE WriteNormalization(k)
    BY <2>1 DEF WriteNormalization, TInv, TypeOK, ShiftTypeOK, cashVars
  <2>2. CASE ~WriteNormalization(k)
    BY <1>1, <1>5, <2>2 DEF Reconcile, ReadClose, MarkRead, RetryNormalization, RecordNormalization
  <2> QED
    BY <2>1, <2>2
<1>6. ASSUME NEW d \in Devices, FlushClose(d) PROVE CashStays
  BY <1>2, <1>6 DEF FlushClose, cashVars
<1>7. ASSUME NEW d \in Devices, Restart(d) \/ SweepAttempt(d) PROVE CashStays
  BY <1>1, <1>7 DEF Restart, SweepAttempt, RecoverAttempt
<1>8. ASSUME NEW d \in Devices, Replay(d) PROVE CashStays
  BY <1>1, <1>2, <1>8 DEF Replay, ReplayDeferred, DeferredAnswered, DeferredLost, Execute, cashVars
<1>9. ASSUME NEW request \in Requests, ExecuteLate(request) PROVE CashStays
  BY <1>2, <1>9 DEF ExecuteLate, Execute, cashVars
<1>10. CASE UNCHANGED vars
  BY <1>1, <1>10 DEF vars
<1> QED
  BY <1>3, <1>4, <1>5, <1>6, <1>7, <1>8, <1>9, <1>10 DEF Next
(* The cashier's steps keep the accounts of the refunds.                   *)
LEMMA CashierRefunds ==
  ASSUME TInv, RefundsTrue, ShiftNext
  PROVE  RefundsTrue'
<1> USE DEF RefundsTrue, Committed, TInv, TypeOK, ShiftTypeOK, cashVars
<1>1. ASSUME NEW m \in Cash, RecordCash(m) PROVE RefundsTrue'
  BY <1>1 DEF RecordCash
<1>2. ASSUME NEW m \in Cash, FlushCash(m) PROVE RefundsTrue'
  <2>1. m \notin Refunds
    BY <1>2 DEF FlushCash
  <2>2. UNCHANGED refund /\ shift'.cash \in {shift.cash, shift.cash \cup {m}}
    BY <1>2 DEF FlushCash
  <2>3. \A d \in Devices : unsent'[d] \subseteq unsent[d]
    BY <1>2 DEF FlushCash
  <2> QED
    BY <2>1, <2>2, <2>3
<1>3. ASSUME NEW r \in Refunds, SendRefund(r) PROVE RefundsTrue'
  BY <1>3 DEF SendRefund
<1>4. ASSUME NEW r \in Refunds, CommitRefund(r) PROVE RefundsTrue'
  <2>1. shift'.cash = shift.cash \cup {r} /\ refund' = [refund EXCEPT ![r] = "committed"] /\ unsent' = unsent
    BY <1>4 DEF CommitRefund
  <2> QED
    BY <2>1
<1>5. ASSUME NEW r \in Refunds, RefuseRefund(r) PROVE RefundsTrue'
  BY <1>5 DEF RefuseRefund
<1>6. ASSUME NEW r \in Refunds, SyncRefund(r) PROVE RefundsTrue'
  BY <1>6 DEF SyncRefund
<1>7. ASSUME NEW d \in Devices, Refresh(d) PROVE RefundsTrue'
  BY <1>7 DEF Refresh
<1>8. ASSUME Seal PROVE RefundsTrue'
  BY <1>8 DEF Seal
<1> QED
  BY <1>1, <1>2, <1>3, <1>4, <1>5, <1>6, <1>7, <1>8 DEF ShiftNext

LEMMA StepRefunds ==
  ASSUME TInv, RefundsTrue, [Next]_vars
  PROVE  RefundsTrue'
<1>1. CASE Cashier
  BY <1>1, CashierRefunds DEF Cashier
<1>2. CASE CashStays
  BY <1>2 DEF CashStays, RefundsTrue, Committed
<1> QED
  BY <1>1, <1>2, OnlyCashier

-----------------------------------------------------------------------------
(* The step that closes the shift has the drawer: the server folds its own *)
(* entries; a terminal's queued close has the refunds of the terminal.     *)
LEMMA ServerFold ==
  ASSUME TInv, RefundsTrue, NEW corr, NEW figures, CloseShift(corr, figures),
         figures.cash = shift.cash, UNCHANGED refund
  PROVE  DrawerComplete'
<1>1. Closed' /\ shift'.cash = shift.cash /\ shift'.figures = figures
  BY DEF CloseShift, Closed, TInv, TypeOK, ShiftTypeOK
<1> QED
  BY <1>1 DEF DrawerComplete, RefundsTrue, Committed

LEMMA ClosingStep ==
  ASSUME TInv, RefundsTrue, OpenInv, [Next]_vars, ~Closed, Closed'
  PROVE  DrawerComplete'
<1>1. CASE UNCHANGED shift
  BY <1>1 DEF Closed
<1>2. CASE Cashier
  BY <1>2 DEF Cashier, ShiftNext, RecordCash, FlushCash, SendRefund, CommitRefund, RefuseRefund,
              SyncRefund, Refresh, Seal, Closed, TInv, TypeOK, ShiftTypeOK
<1>3. ASSUME NEW c \in Calls, Call(c) PROVE DrawerComplete'
  <2>1. CASE CommitOnline(c)
    <3>1. call[c].figures.cash \subseteq shift.cash /\ call[c].figures \in Figures
      BY <2>1 DEF CommitOnline, OpenInv, CallHolds, TInv, Shape, CallShape
    <3>2. Folded(c).cash = shift.cash
      BY <3>1 DEF Folded, Figures
    <3> QED
      BY <2>1, <3>2, ServerFold DEF CommitOnline
  <2>2. CASE ~CommitOnline(c)
    BY <1>1, <1>3, <2>2
       DEF Call, CheckOffline, JournalOffline, StartOnline, PrepareOnline, FindOwnCommit,
           RefusedOnline, ProveAndFinalize, LeaveObserved, RecoverOwnCommittedClose, shiftVars
  <2> QED
    BY <2>1, <2>2
<1>4. ASSUME NEW request, Execute(request), UNCHANGED refund PROVE DrawerComplete'
  BY <1>4, ServerFold DEF Execute, Planned
<1>5. ASSUME NEW c \in Calls, AuthCall(c) PROVE DrawerComplete'
  <2>1. CASE Answered(c)
    BY <1>4, <2>1 DEF Answered, cashVars
  <2>2. CASE ~Answered(c)
    BY <1>1, <1>5, <2>2
       DEF AuthCall, CheckDeferred, RecordDeferred, StartAuthoritative, ProveJournaled,
           ReadBeforeCall, BindAndCall, GiveUp, FinalizeAuthoritative, shiftVars
  <2> QED
    BY <2>1, <2>2
<1>6. ASSUME NEW k \in Workers, Reconcile(k) PROVE DrawerComplete'
  BY <1>1, <1>6 DEF Reconcile, ReadClose, MarkRead, RetryNormalization, RecordNormalization,
                    WriteNormalization, NormalizationDecision, shiftVars
<1>7. ASSUME NEW d \in Devices, FlushClose(d) PROVE DrawerComplete'
  <2>1. AcceptsClientClose /\ CloseShift(entry[d].corr, queued[d]) /\ UNCHANGED <<refund, authored>>
    BY <1>7 DEF FlushClose, cashVars, Closed
  <2>2. /\ entry[d].corr = <<d, "offline">>
        /\ queued[d].cash \subseteq shift.cash /\ OwnRefunds(d, queued[d].cash)
    <3>1. queued[d] # None /\ unsent[d] = {} /\ HasEntry(d)
      BY <1>7 DEF FlushClose, FirstInLine, TInv, Shape, QueuedShape
    <3> QED
      BY <2>1, <3>1 DEF OpenInv, QueuedHolds, EntryOffline, Reaching, AcceptsClientClose
  <2>3. /\ shift'.cash = shift.cash /\ shift'.corr = <<d, "offline">> /\ shift'.figures = queued[d]
        /\ ~authored'
    BY <2>1, <2>2 DEF CloseShift, TInv, TypeOK, ShiftTypeOK, Shape, DocShape
  <2> QED
    BY <2>1, <2>2, <2>3 DEF DrawerComplete, RefundsTrue, OwnRefunds, Committed
<1>8. ASSUME NEW d \in Devices, Restart(d) \/ SweepAttempt(d) PROVE DrawerComplete'
  BY <1>1, <1>8 DEF Restart, SweepAttempt, RecoverAttempt, shiftVars
<1>9. ASSUME NEW d \in Devices, Replay(d) PROVE DrawerComplete'
  BY <1>1, <1>4, <1>9 DEF Replay, ReplayDeferred, DeferredAnswered, DeferredLost, shiftVars, cashVars
<1>10. ASSUME NEW request \in Requests, ExecuteLate(request) PROVE DrawerComplete'
  BY <1>4, <1>10 DEF ExecuteLate, cashVars
<1> QED
  BY <1>1, <1>2, <1>3, <1>5, <1>6, <1>7, <1>8, <1>9, <1>10 DEF Next, vars, shiftVars

LEMMA StepDrawer ==
  ASSUME TInv, DrawerInv, [Next]_vars
  PROVE  DrawerComplete'
<1>1. CASE Closed
  <2>1. ClosedStays
    BY ClosedStep
  <2>2. \A r \in Refunds : Committed(r)' => Committed(r)
    <3>1. CASE Cashier
      BY <1>1, <3>1 DEF Cashier, ShiftNext, RecordCash, FlushCash, SendRefund, CommitRefund,
         RefuseRefund, SyncRefund, Refresh, Seal, ShiftTakesRefund, cashVars, Committed,
         TInv, TypeOK, ShiftTypeOK
    <3>2. CASE CashStays
      BY <3>2 DEF CashStays, Committed
    <3> QED
      BY <3>1, <3>2, OnlyCashier
  <2> QED
    BY <1>1, <2>1, <2>2 DEF ClosedStays, DrawerInv, DrawerComplete
<1>2. CASE ~Closed /\ Closed'
  BY <1>2, ClosingStep DEF DrawerInv
<1>3. CASE ~Closed'
  BY <1>3 DEF DrawerComplete
<1> QED
  BY <1>1, <1>2, <1>3
-----------------------------------------------------------------------------
(* The open shift, under the cashier's steps.                              *)
LEMMA CashierOpen ==
  ASSUME TInv, RefundsTrue, OpenInv, Cashier, UNCHANGED <<journalVars, closeVars, authVars>>, ~Closed'
  PROVE  OpenInv'
<1> USE DEF TInv, TypeOK, ShiftTypeOK, cashVars
<1>0. ~Closed /\ UNCHANGED <<entry, queued, call>>
  BY DEF Cashier, ShiftNext, RecordCash, FlushCash, SendRefund, CommitRefund, RefuseRefund,
         SyncRefund, Refresh, Seal, Closed, journalVars, closeVars
(* What was reaching the server is, and nothing is sent behind a close.    *)
<1>1. \A d \in Devices : shift.cash \cup unsent[d] \subseteq shift'.cash \cup unsent'[d] /\ shift.cash \subseteq shift'.cash
  BY <1>0 DEF Cashier, ShiftNext, RecordCash, FlushCash, SendRefund, CommitRefund, RefuseRefund,
              SyncRefund, Refresh, Seal
<1>2. \A d \in Devices : SeenReaches(d)'
  BY <1>0, <1>1 DEF Cashier, ShiftNext, RecordCash, FlushCash, SendRefund, CommitRefund, RefuseRefund,
     SyncRefund, Refresh, Seal, OpenInv, SeenReaches, Reaching
<1>3. \A d \in Devices : seenClosed[d] => seenClosed'[d]
  BY DEF Cashier, ShiftNext, RecordCash, FlushCash, SendRefund, CommitRefund, RefuseRefund,
         SyncRefund, Refresh, Seal
<1>4. sealed => sealed'
  BY DEF Cashier, ShiftNext, RecordCash, FlushCash, SendRefund, CommitRefund, RefuseRefund,
         SyncRefund, Refresh, Seal
<1>5. ASSUME NEW r \in Refunds
      PROVE  /\ Guarded(r)'
             /\ refund'[r] \in {"sent", "committed"} => \/ refund[r] \in {"sent", "committed"}
                                                        \/ ~seenClosed[CashDevice[r]] /\ ~Journaling(CashDevice[r])
             /\ Committed(r) => Committed(r)'
             /\ Committed(r)' => Committed(r) \/ refund[r] = "sent"
  <2>1. Guarded(r)
    BY <1>0 DEF OpenInv
  <2>2. CASE RefuseRefund(r) \/ SendRefund(r) \/ CommitRefund(r)
    BY <2>1, <2>2 DEF RefuseRefund, SendRefund, CommitRefund, Guarded, Committed, Cashier
  <2>3. CASE \E q \in Refunds : SyncRefund(q)
    BY <2>1, <2>3 DEF SyncRefund, ProvedOnShift, Guarded, Committed, RefundsTrue
  <2>4. CASE \E q \in Refunds \ {r} : RefuseRefund(q) \/ SendRefund(q) \/ CommitRefund(q)
    BY <2>1, <2>4 DEF RefuseRefund, SendRefund, CommitRefund, Guarded, Committed
  <2>5. CASE Seal \/ (\E d \in Devices : Refresh(d)) \/ (\E m \in Cash : RecordCash(m) \/ FlushCash(m))
    BY <1>0, <2>1, <2>5 DEF Seal, Refresh, RecordCash, FlushCash, Guarded, Committed
  <2> QED
    BY <2>2, <2>3, <2>4, <2>5 DEF Cashier, ShiftNext
<1>6. ASSUME NEW d \in Devices, NEW cash, Reaching(d, cash) PROVE Reaching(d, cash)'
  BY <1>1, <1>6 DEF Reaching
<1>7. ASSUME NEW d \in Devices, NEW cash, OwnRefunds(d, cash), seenClosed[d] \/ Journaling(d)
      PROVE  OwnRefunds(d, cash)'
  BY <1>5, <1>7 DEF OwnRefunds, Committed
<1>8. ASSUME NEW d \in Devices PROVE QueuedHolds(d)' /\ EntryOffline(d)'
  BY <1>0, <1>3, <1>4, <1>6, <1>7 DEF OpenInv, QueuedHolds, EntryOffline, HasEntry
<1>9. ASSUME NEW c \in Calls PROVE CallHolds(c)'
  <2>1. CallHolds(c) /\ call' = call
    BY <1>0 DEF OpenInv
  <2>2. call[c].at = "checked" => Journaling(CallDevice[c])
    BY DEF Journaling
  <2> QED
    BY <1>1, <1>6, <1>7, <2>1, <2>2 DEF CallHolds
<1> QED
  BY <1>2, <1>5, <1>8, <1>9 DEF OpenInv
(* The open shift, under the other steps: the sums keep their promises, so *)
(* only what a step newly queues, records or holds is to be shown.         *)
EntriesOpen == \A d \in Devices : entry'[d] = entry[d] \/ EntryOffline(d)'
QueuesOpen == \A d \in Devices : \/ queued'[d] = queued[d] /\ (seenClosed[d] => seenClosed'[d])
                                 \/ QueuedHolds(d)'
CallsOpen == \A c \in Calls : call'[c] = call[c] \/ CallHolds(c)'

LEMMA OpenStays ==
  ASSUME OpenInv, CashStays, ~Closed, ~Closed', EntriesOpen, QueuesOpen, CallsOpen
  PROVE  OpenInv'
<1>1. \A d \in Devices : \A cash : Reaching(d, cash)' <=> Reaching(d, cash)
  BY DEF CashStays, Reaching
<1>2. \A d \in Devices : \A cash : OwnRefunds(d, cash)' <=> OwnRefunds(d, cash)
  BY DEF CashStays, OwnRefunds, Committed
<1>3. ASSUME NEW r \in Refunds PROVE Guarded(r)'
  BY DEF OpenInv, CashStays, Guarded, Committed
<1>4. ASSUME NEW d \in Devices PROVE SeenReaches(d)' /\ QueuedHolds(d)' /\ EntryOffline(d)'
  BY <1>1, <1>2 DEF OpenInv, CashStays, SeenReaches, QueuedHolds, EntryOffline, HasEntry,
     EntriesOpen, QueuesOpen
<1>5. ASSUME NEW c \in Calls PROVE CallHolds(c)'
  BY <1>1, <1>2 DEF OpenInv, CashStays, CallHolds, CallsOpen
<1> QED
  BY <1>3, <1>4, <1>5 DEF OpenInv

(* A call that moves to a stage with nothing to hold, or with the sum that *)
(* its terminal has seen.                                                  *)
LEMMA CallOpens ==
  ASSUME TInv, NEW c \in Calls, NEW at, NEW corr, NEW figures, To(c, at, corr, figures),
         \/ at \notin {"checked", "flushing", "prepared"}
         \/ at # "checked" /\ CallDevice[c] \in Authoritative
  PROVE  CallsOpen
BY DEF TInv, TypeOK, CloseTypeOK, To, CallsOpen, CallHolds

LEMMA CallChecks ==
  ASSUME TInv, OpenInv, CashStays, ~Closed, NEW c \in Calls,
         To(c, "checked", None, [cash |-> seen[CallDevice[c]], count |-> CallCount[c]]),
         NoCashPending(CallDevice[c])
  PROVE  CallsOpen
<1> DEFINE d == CallDevice[c]
<1>1. Reaching(d, seen[d])' /\ OwnRefunds(d, seen[d])'
  <2>1. Reaching(d, seen[d]) /\ OwnRefunds(d, seen[d])
    BY DEF OpenInv, SeenReaches, OwnRefunds, Guarded, NoCashPending
  <2> QED
    BY <2>1 DEF CashStays, Reaching, OwnRefunds, Committed
<1>2. call'[c].at = "checked" /\ call'[c].figures.cash = seen[d] /\ seen' = seen
  BY DEF To, TInv, TypeOK, CloseTypeOK, CashStays
<1>3. CallHolds(c)'
  BY <1>1, <1>2 DEF CallHolds
<1> QED
  BY <1>3 DEF To, TInv, TypeOK, CloseTypeOK, CallsOpen

LEMMA UpsertOpens ==
  ASSUME TInv, OpenInv, ~Closed, NEW d \in Devices, NEW figures, NEW deferred,
         UpsertCloseIntent(d, figures, deferred)
  PROVE  EntriesOpen
BY DEF UpsertCloseIntent, TInv, TypeOK, JournalTypeOK, EntriesOpen, EntryOffline, HasEntry, NewEntry

LEMMA CallOpen ==
  ASSUME TInv, OpenInv, CashStays, ~Closed, ~Closed', NEW c \in Calls, Call(c)
  PROVE  EntriesOpen /\ QueuesOpen /\ CallsOpen
<1> DEFINE d == CallDevice[c]
<1>a. UNCHANGED entry => EntriesOpen
  BY DEF EntriesOpen
<1>b. UNCHANGED <<queued, seenClosed>> => QueuesOpen
  BY DEF QueuesOpen
<1> USE <1>a, <1>b DEF journalVars, shiftVars, End
<1>1. CASE CheckOffline(c)
  BY <1>1, CallChecks DEF CheckOffline
<1>2. CASE JournalOffline(c)
  <2>1. EntriesOpen /\ CallsOpen
    BY <1>2, UpsertOpens, CallOpens DEF JournalOffline
  <2>2. CASE Upsertable(d, call[c].figures, FALSE)
    <3>1. queued' = [queued EXCEPT ![d] = call[c].figures] /\ seenClosed' = [seenClosed EXCEPT ![d] = TRUE]
      BY <1>2, <2>2 DEF JournalOffline
    <3>2. PICK cash : cash = call[c].figures.cash
      OBVIOUS
    <3>3. queued'[d].cash = cash /\ seenClosed'[d] /\ Reaching(d, cash)' /\ OwnRefunds(d, cash)'
      <4>1. Reaching(d, cash) /\ OwnRefunds(d, cash)
        BY <1>2, <3>2 DEF JournalOffline, OpenInv, CallHolds
      <4>2. shift'.cash = shift.cash /\ unsent' = unsent /\ refund' = refund
        BY DEF CashStays
      <4> QED
        BY <3>1, <3>2, <4>1, <4>2 DEF Reaching, OwnRefunds, Committed, TInv, TypeOK, JournalTypeOK, ShiftTypeOK
    <3>4. QueuedHolds(d)'
      BY <3>3 DEF QueuedHolds
    <3> QED
      BY <2>1, <3>1, <3>4 DEF QueuesOpen, TInv, TypeOK, JournalTypeOK, ShiftTypeOK
  <2>3. CASE ~Upsertable(d, call[c].figures, FALSE)
    BY <1>2, <2>1, <2>3 DEF JournalOffline
  <2> QED
    BY <2>2, <2>3
<1>3. CASE StartOnline(c)
  <2>1. call'[c].at = "flushing" /\ call'[c].figures.cash = seen[d]
    BY <1>3 DEF StartOnline, To, TInv, TypeOK, CloseTypeOK
  <2>2. Reaching(d, seen[d])'
    BY DEF OpenInv, SeenReaches, Reaching, CashStays
  <2>3. CallHolds(c)'
    BY <2>1, <2>2 DEF CallHolds, CashStays
  <2>4. CallsOpen
    BY <1>3, <2>3 DEF StartOnline, To, TInv, TypeOK, CloseTypeOK, CallsOpen
  <2> QED
    BY <1>3, <2>4 DEF StartOnline
<1>4. CASE PrepareOnline(c)
  <2>1. CASE Preparable(d, None)
    <3>1. call[c].figures.cash \subseteq shift.cash
      BY <1>4 DEF PrepareOnline, OpenInv, CallHolds, Reaching
    <3>2. call'[c].at = "prepared" /\ call'[c].figures = call[c].figures
      BY <1>4, <2>1 DEF PrepareOnline, To, TInv, TypeOK, CloseTypeOK
    <3>3. CallHolds(c)'
      BY <3>1, <3>2 DEF CallHolds, CashStays
    <3>4. CallsOpen
      BY <1>4, <2>1, <3>3 DEF PrepareOnline, To, TInv, TypeOK, CloseTypeOK, CallsOpen
    <3> QED
      BY <1>4, <3>4 DEF PrepareOnline
  <2>2. CASE ~Preparable(d, None)
    BY <1>4, <2>2, CallOpens DEF PrepareOnline
  <2> QED
    BY <2>1, <2>2
<1>5. CASE CommitOnline(c)
  BY <1>5 DEF CommitOnline, CloseShift, Closed, TInv, TypeOK, ShiftTypeOK
<1>6. CASE RefusedOnline(c)
  BY <1>6, CallOpens DEF RefusedOnline
<1>7. CASE LeaveObserved(c)
  BY <1>7, CallOpens DEF LeaveObserved
<1>8. CASE FindOwnCommit(c) \/ ProveAndFinalize(c) \/ RecoverOwnCommittedClose(c)
  BY <1>8 DEF FindOwnCommit, ProveAndFinalize, RecoverOwnCommittedClose, CommittedOwnClose
<1> QED
  BY <1>1, <1>2, <1>3, <1>4, <1>5, <1>6, <1>7, <1>8 DEF Call

LEMMA AuthCallOpen ==
  ASSUME TInv, OpenInv, CashStays, ~Closed, ~Closed', NEW c \in Calls, AuthCall(c)
  PROVE  EntriesOpen /\ QueuesOpen /\ CallsOpen
<1> DEFINE d == CallDevice[c]
<1>a. UNCHANGED entry => EntriesOpen
  BY DEF EntriesOpen
<1>b. UNCHANGED <<queued, seenClosed>> => QueuesOpen
  BY DEF QueuesOpen
<1> USE <1>a, <1>b DEF journalVars, shiftVars, End
<1>1. CASE CheckDeferred(c)
  BY <1>1, CallChecks DEF CheckDeferred
<1>2. CASE RecordDeferred(c)
  <2>1. EntriesOpen /\ CallsOpen
    BY <1>2, UpsertOpens, CallOpens DEF RecordDeferred
  <2>2. QueuesOpen
    BY <1>2 DEF RecordDeferred, QueuesOpen, TInv, TypeOK, ShiftTypeOK
  <2> QED
    BY <2>1, <2>2
<1>3. CASE StartAuthoritative(c)
  BY <1>3, CallOpens DEF StartAuthoritative
<1>4. CASE ReadBeforeCall(c)
  <2>1. To(c, "prepared", None, None)
    BY <1>4 DEF ReadBeforeCall
  <2> QED
    BY <1>4, <2>1, CallOpens DEF ReadBeforeCall
<1>5. CASE BindAndCall(c)
  BY <1>5, CallOpens DEF BindAndCall
<1>6. CASE Answered(c)
  BY <1>6 DEF Answered, Execute, CloseShift, Closed, TInv, TypeOK, ShiftTypeOK
<1>7. CASE GiveUp(c)
  BY <1>7, CallOpens DEF GiveUp
<1>8. CASE FinalizeAuthoritative(c)
  <2>1. UNCHANGED <<entry, queued, seenClosed>>
    BY <1>8 DEF FinalizeAuthoritative, ProofMatches, CommittedOwnClose
  <2> QED
    BY <1>8, <2>1, CallOpens DEF FinalizeAuthoritative
<1>9. CASE ProveJournaled(c)
  BY <1>9 DEF ProveJournaled, CommittedOwnClose
<1> QED
  BY <1>1, <1>2, <1>3, <1>4, <1>5, <1>6, <1>7, <1>8, <1>9 DEF AuthCall

LEMMA OthersOpen ==
  ASSUME TInv, KeepsEntries, OpenInv, CashStays, ~Closed, ~Closed', NEW d \in Devices,
         FlushClose(d) \/ Restart(d) \/ SweepAttempt(d) \/ Replay(d)
  PROVE  EntriesOpen /\ QueuesOpen /\ CallsOpen
<1>a. \A b \in Devices : HasEntry(b) => EntryOffline(b)'
  BY DEF KeepsEntries, OpenInv, EntryOffline
<1>b. UNCHANGED entry => EntriesOpen
  BY DEF EntriesOpen
<1>c. UNCHANGED <<queued, seenClosed>> => QueuesOpen
  BY DEF QueuesOpen
<1>d. UNCHANGED call => CallsOpen
  BY DEF CallsOpen
<1>e. entry' = Rejected(d) /\ HasEntry(d) => EntriesOpen
  BY <1>a DEF EntriesOpen, Rejected, TInv, TypeOK, JournalTypeOK
<1> USE <1>b, <1>c, <1>d, <1>e DEF journalVars, shiftVars, closeVars
<1>1. CASE FlushClose(d)
  <2>1. ~AcceptsClientClose
    BY <1>1 DEF FlushClose, CloseShift, Closed, TInv, TypeOK, ShiftTypeOK
  <2>2. EntriesOpen /\ CallsOpen
    BY <1>1, <2>1 DEF FlushClose, TInv, Shape, QueuedShape
  <2>3. QueuesOpen
    BY <1>1, <2>1 DEF FlushClose, QueuesOpen, QueuedHolds, TInv, TypeOK, JournalTypeOK, ShiftTypeOK
  <2> QED
    BY <2>2, <2>3
<1>2. CASE Restart(d)
  <2>1. CallsOpen
    BY <1>2 DEF Restart, CallsOpen, CallHolds
  <2> QED
    BY <1>2, <2>1 DEF Restart
<1>3. CASE SweepAttempt(d)
  BY <1>3 DEF SweepAttempt, RecoverAttempt
<1>4. CASE ReplayDeferred(d)
  BY <1>4 DEF ReplayDeferred, DeferredPending
<1>5. CASE DeferredAnswered(d)
  BY <1>5 DEF DeferredAnswered, Execute, CloseShift, Closed, TInv, TypeOK, ShiftTypeOK
<1>6. CASE DeferredLost(d)
  BY <1>6 DEF DeferredLost
<1> QED
  BY <1>1, <1>2, <1>3, <1>4, <1>5, <1>6 DEF Replay
LEMMA StepOpen ==
  ASSUME TInv, DrawerInv, [Next]_vars
  PROVE  OpenInv'
<1> SUFFICES ASSUME ~Closed' PROVE OpenInv'
  BY DEF OpenInv
<1>1. ~Closed /\ KeepsEntries /\ OpenInv /\ RefundsTrue
  BY ClosedStep, StepKeeps DEF ClosedStays, DrawerInv
<1>2. CASE Cashier /\ UNCHANGED <<journalVars, closeVars, authVars>>
  BY <1>1, <1>2, CashierOpen
<1>3. CASE CashStays
  <2>1. ASSUME EntriesOpen, QueuesOpen, CallsOpen PROVE OpenInv'
    BY <1>1, <1>3, <2>1, OpenStays
  <2>2. ASSUME UNCHANGED <<entry, queued, seenClosed, call>> PROVE OpenInv'
    BY <2>1, <2>2 DEF EntriesOpen, QueuesOpen, CallsOpen
  <2>3. ASSUME NEW c \in Calls, Call(c) \/ AuthCall(c) PROVE OpenInv'
    BY <1>1, <1>3, <2>1, <2>3, CallOpen, AuthCallOpen
  <2>4. ASSUME NEW d \in Devices, FlushClose(d) \/ Restart(d) \/ SweepAttempt(d) \/ Replay(d)
        PROVE  OpenInv'
    BY <1>1, <1>3, <2>1, <2>4, OthersOpen
  <2>5. ASSUME NEW k \in Workers, Reconcile(k) PROVE OpenInv'
    <3>1. CASE ReadClose(k) \/ RetryNormalization(k)
      BY <1>1, <3>1 DEF ReadClose, RetryNormalization
    <3>2. CASE WriteNormalization(k)
      BY <2>2, <3>2 DEF WriteNormalization, journalVars, callVars
    <3>3. CASE MarkRead(k) \/ RecordNormalization(k)
      <4>1. HasEntry(WorkerDevice[k]) /\ UNCHANGED <<queued, seenClosed, call>>
        BY <3>3 DEF MarkRead, RecordNormalization, TInv, Shape, WorkerShape, shiftVars, callVars
      <4>2. \A b \in Devices \ {WorkerDevice[k]} : entry'[b] = entry[b]
        BY <3>3 DEF MarkRead, RecordNormalization, MarkSynced, SetNormalization, TInv, TypeOK, JournalTypeOK
      <4>3. EntryOffline(WorkerDevice[k])'
        BY <1>1, <4>1 DEF OpenInv, EntryOffline, KeepsEntries
      <4>4. EntriesOpen
        BY <4>2, <4>3 DEF EntriesOpen
      <4> QED
        BY <2>1, <4>1, <4>4 DEF QueuesOpen, CallsOpen
    <3> QED
      BY <2>5, <3>1, <3>2, <3>3 DEF Reconcile
  <2>6. ASSUME NEW request \in Requests, ExecuteLate(request) PROVE OpenInv'
    BY <2>2, <2>6 DEF ExecuteLate, journalVars, closeVars
  <2>7. CASE UNCHANGED vars
    BY <2>2, <2>7 DEF vars, shiftVars, journalVars, closeVars
  <2>8. CASE Cashier /\ UNCHANGED <<journalVars, closeVars, authVars>>
    BY <1>2, <2>8
  <2> QED
    BY <2>3, <2>4, <2>5, <2>6, <2>7, <2>8 DEF Next
<1> QED
  BY <1>2, <1>3, OnlyCashier

LEMMA InitDrawer == Init => DrawerInv
BY DEF Init, ShiftInit, JournalInit, CloseInit, IdleCall, DrawerInv, RefundsTrue, Committed, OpenInv,
       Guarded, SeenReaches, Reaching, QueuedHolds, EntryOffline, HasEntry, CallHolds, DrawerComplete, Closed

(* The drawer of a closed shift is complete: a refund and a close never    *)
(* pass each other, whichever protocol closes and whatever is overtaken.   *)
THEOREM DrawersAreComplete == Spec => []DrawerComplete
<1>1. TInv /\ DrawerInv /\ [Next]_vars => DrawerInv'
  BY StepRefunds, StepOpen, StepDrawer DEF DrawerInv
<1>2. DrawerInv => DrawerComplete
  BY DEF DrawerInv
<1> QED
  BY <1>1, <1>2, InitDrawer, TInvHolds, PTL DEF Spec
=============================================================================
