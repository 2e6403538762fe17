--------------------------- MODULE CloseValidation ---------------------------
(***************************************************************************)
(* The validation of one closed shift: the case and its alert, the capture *)
(* of evidence, the router of source events, the sweep's invocations with  *)
(* their lease (T1, T2, T3, Q7) and the manager's adjudication.            *)
(***************************************************************************)
EXTENDS Naturals, FiniteSets, FiniteSetsExt

CONSTANTS Changes,     \* writes to the shift's sales, cash and credit documents
          CommitTime,  \* Changes -> when each commits; equal times are one transaction
          Deletions,   \* those that delete their document
          Hashes,      \* close hashes the shift document may show
          FirstHash,   \* the first of them
          Invocations, \* invocations of the sweep
          Managers,    \* adjudicating managers
          NoOwner,
          MaxRevalidation, \* MAX_REVALIDATION_ATTEMPTS
          MaxRedelivery \* bound on the redeliveries of events

CloseValidationAssumption ==
  /\ CommitTime \in [Changes -> Nat \ {0}] /\ Deletions \subseteq Changes
  /\ FirstHash \in Hashes /\ NoOwner \notin Invocations /\ Managers \cap Invocations = {}
  /\ MaxRevalidation \in Nat \ {0} /\ MaxRedelivery \in Nat

VARIABLES now,        \* time of the last commit to the sources
          undelivered,\* events of the sources not delivered yet
          redelivered,\* how many were delivered once more
          caseDoc,    \* shiftCloseCases
          alertDoc,   \* the state in shiftCloseAlerts
          runs,       \* shiftCloseValidationRuns
          upToDate,   \* who read the case at the caseVersion it still has
          invocation
caseVars == <<now, undelivered, redelivered, caseDoc, alertDoc, runs, upToDate, invocation>>

Committed == {c \in Changes : CommitTime[c] <= now}
AlertStates == {"none", "open", "acknowledged", "resolved"}
RestStates == {"queued", "validated", "permanently_unverifiable", "requires_operator_review", "retryable_error"}
NoRun == [hash |-> FirstHash, revision |-> 0, snap |-> 0]
NoInvocation == [at |-> "idle", hash |-> FirstHash, revision |-> 0, recheck |-> FALSE, prior |-> "queued", snap |-> 0]
RunDocs == [hash : Hashes, revision : Nat, snap : Nat]

CaseTypeOK ==
  /\ now \in Nat /\ undelivered \subseteq Changes /\ redelivered \in 0..MaxRedelivery
  /\ caseDoc \in [pending : BOOLEAN, selected : RunDocs, latestHash : Hashes, owner : Invocations \cup {NoOwner},
                  lapsed : BOOLEAN, eligible : BOOLEAN, sweep : BOOLEAN, state : RestStates \cup {"validating"},
                  alert : AlertStates, revision : Nat, attempts : 0..MaxRevalidation,
                  watermark : Nat, ledger : SUBSET Changes, evidence : [Hashes -> Nat]]
  /\ alertDoc \in AlertStates /\ runs \subseteq RunDocs
  /\ upToDate \subseteq Invocations \cup Managers
  /\ invocation \in [Invocations -> [at : {"idle", "leased", "read", "failed", "done"}, hash : Hashes, revision : Nat,
                                     recheck : BOOLEAN, prior : RestStates \cup {"validating"}, snap : Nat]]

(* The update time of evidence that is captured between two commits, as    *)
(* the least commit time that is not before it; 0 is no evidence.          *)
CapturedNow == now + 1

CaseInit ==
  /\ now = 0 /\ undelivered = {} /\ redelivered = 0 /\ alertDoc = "none" /\ runs = {} /\ upToDate = {}
  /\ caseDoc = [pending |-> TRUE, selected |-> NoRun, latestHash |-> FirstHash, owner |-> NoOwner, lapsed |-> FALSE,
                eligible |-> TRUE, sweep |-> TRUE, state |-> "queued", alert |-> "none", revision |-> 1,
                attempts |-> 0, watermark |-> 0, ledger |-> {},
                evidence |-> [h \in Hashes |-> IF h = FirstHash THEN CapturedNow ELSE 0]]
  /\ invocation = [i \in Invocations |-> NoInvocation]

(* Every write of the case adds one to caseVersion: whoever compares the   *)
(* version it read finds it changed.  readers are those who know it.       *)
WriteCase(new, readers) == caseDoc' = new /\ upToDate' = readers
Release(c) == [c EXCEPT !.owner = NoOwner, !.lapsed = FALSE]

(* ---- sources, their events and the evidence ---- *)
CommitSources ==
  /\ Committed # Changes
  /\ now' = Min({CommitTime[c] : c \in Changes \ Committed})
  /\ undelivered' = undelivered \cup {c \in Changes : CommitTime[c] = now'}
  /\ UNCHANGED <<redelivered, caseDoc, alertDoc, runs, upToDate, invocation>>

StaleEvent(e, c) == CommitTime[e] < c.watermark
(* buildEnqueueWriteSet; a pending case keeps its nextEligibleAt.          *)
Enqueued(e, c) ==
  [c EXCEPT !.revision = @ + 1, !.pending = TRUE, !.state = "queued", !.eligible = @ /\ c.pending, !.ledger = @ \cup {e},
            !.watermark = CommitTime[e]]

(* processRouteTarget, for a first delivery or another one.                *)
Route(e, again) ==
  /\ IF again THEN e \in Committed \ undelivered /\ redelivered < MaxRedelivery ELSE e \in undelivered
  /\ undelivered' = undelivered \ {e}
  /\ redelivered' = IF again THEN redelivered + 1 ELSE redelivered
  /\ IF e \in caseDoc.ledger \/ StaleEvent(e, caseDoc)
       THEN UNCHANGED <<caseDoc, upToDate>>
       ELSE WriteCase(Enqueued(e, caseDoc), {})
  /\ UNCHANGED <<now, alertDoc, runs, invocation>>

(* captureOnWrite of a close hash that has no evidence yet.                *)
Capture(h) ==
  /\ caseDoc.evidence[h] = 0
  /\ WriteCase([caseDoc EXCEPT !.revision = @ + 1, !.latestHash = h, !.evidence[h] = CapturedNow, !.pending = TRUE], {})
  /\ UNCHANGED <<now, undelivered, redelivered, alertDoc, runs, invocation>>

(* ---- time ---- *)
LeaseLapses ==
  /\ caseDoc.owner # NoOwner /\ ~caseDoc.lapsed
  /\ caseDoc' = [caseDoc EXCEPT !.lapsed = TRUE]
  /\ UNCHANGED <<now, undelivered, redelivered, alertDoc, runs, upToDate, invocation>>
DeferralEnds ==
  /\ ~caseDoc.eligible /\ caseDoc' = [caseDoc EXCEPT !.eligible = TRUE]
  /\ UNCHANGED <<now, undelivered, redelivered, alertDoc, runs, upToDate, invocation>>

(* ---- the sweep ---- *)
HasPendingWork(c) == c.pending \/ c.selected.revision = 0 \/ c.selected.hash # c.latestHash
IsRecheckEligible(c) == ~HasPendingWork(c) /\ c.sweep /\ c.selected.revision # 0
LeaseFree(c) == c.owner = NoOwner \/ c.lapsed

AcquireLease(i) ==
  /\ invocation[i].at = "idle"
  /\ caseDoc.eligible /\ (HasPendingWork(caseDoc) \/ IsRecheckEligible(caseDoc)) /\ LeaseFree(caseDoc)
  /\ WriteCase([caseDoc EXCEPT !.owner = i, !.lapsed = FALSE, !.state = "validating"], {i})
  /\ invocation' = [invocation EXCEPT ![i] =
       [at |-> "leased", hash |-> caseDoc.latestHash, revision |-> caseDoc.revision,
        recheck |-> IsRecheckEligible(caseDoc), prior |-> caseDoc.state, snap |-> 0]]
  /\ UNCHANGED <<now, undelivered, redelivered, alertDoc, runs>>

ReadSnapshot(i) ==
  /\ invocation[i].at = "leased"
  /\ invocation' = [invocation EXCEPT ![i].at = "read", ![i].snap = now]
  /\ UNCHANGED <<now, undelivered, redelivered, caseDoc, alertDoc, runs, upToDate>>

Ends(i) == invocation' = [invocation EXCEPT ![i] = [NoInvocation EXCEPT !.at = "done"]]
Fail(i) == invocation' = [invocation EXCEPT ![i].at = "failed"]
Decides(i) == invocation[i].at = "read" /\ UNCHANGED <<now, undelivered, redelivered>>

UpToDate(i) == i \in upToDate /\ caseDoc.revision = invocation[i].revision

LosesOwnership(i) ==
  /\ Decides(i) /\ caseDoc.owner # i /\ Ends(i)
  /\ UNCHANGED <<caseDoc, alertDoc, runs, upToDate>>

ReleasesStale(i) ==
  /\ Decides(i) /\ caseDoc.owner = i /\ ~UpToDate(i) /\ Ends(i)
  /\ WriteCase([Release(caseDoc) EXCEPT !.state = "queued"], {})
  /\ UNCHANGED <<alertDoc, runs>>

Sound == alertDoc = caseDoc.alert   \* validateAlertInvariants
RestsEqual(i) == invocation[i].recheck /\ caseDoc.selected.snap = invocation[i].snap
                   /\ caseDoc.selected.revision = invocation[i].revision

KeepsSelection(i) ==
  /\ Decides(i) /\ caseDoc.owner = i /\ UpToDate(i) /\ Sound /\ RestsEqual(i) /\ Ends(i)
  /\ \E horizonAhead \in BOOLEAN :
       WriteCase([Release(caseDoc) EXCEPT !.state = invocation[i].prior, !.eligible = FALSE, !.sweep = horizonAhead], {})
  /\ UNCHANGED <<alertDoc, runs>>

NewRun(i) == [hash |-> invocation[i].hash, snap |-> invocation[i].snap,
              revision |-> invocation[i].revision + (IF invocation[i].recheck THEN 1 ELSE 0)]
RunIdTaken(r) == \E old \in runs : old.hash = r.hash /\ old.revision = r.revision

Selects(i) == Decides(i) /\ caseDoc.owner = i /\ UpToDate(i) /\ Sound /\ ~RestsEqual(i)
ReadMicros(snap) == Max({0} \cup {CommitTime[c] : c \in {d \in Changes \ Deletions : CommitTime[d] <= snap}})
MutWatermarkAfter(i) == Max({caseDoc.watermark, now + 1})  (* mutant: the watermark is the time of the transaction *)

WatermarkAfter(i) ==
  Max({caseDoc.watermark, ReadMicros(invocation[i].snap), caseDoc.evidence[invocation[i].hash]})

SelectRun(i) ==
  /\ Selects(i) /\ ~RunIdTaken(NewRun(i)) /\ Ends(i)
  /\ runs' = runs \cup {NewRun(i)}
  /\ \E verdict \in {"match", "discrepancy", "malformed"}, horizonAhead \in BOOLEAN :
       /\ alertDoc' = IF verdict # "match" THEN "open"
                      ELSE IF caseDoc.alert \in {"open", "acknowledged"} THEN "resolved" ELSE "none"
       /\ WriteCase([Release(caseDoc) EXCEPT
            !.selected = NewRun(i), !.revision = NewRun(i).revision, !.pending = FALSE, !.attempts = 0,
            !.state = IF verdict = "malformed" THEN "permanently_unverifiable" ELSE "validated",
            !.alert = alertDoc', !.eligible = ~horizonAhead, !.sweep = horizonAhead,
            !.watermark = WatermarkAfter(i)], {})

(* T2 throws, T3 throws or finds an anomaly: what is written is decided by *)
(* a transaction of its own.                                               *)
Throws(i) ==
  /\ invocation[i].at \in {"leased", "read"} /\ Fail(i)
  /\ UNCHANGED <<now, undelivered, redelivered, caseDoc, alertDoc, runs, upToDate>>

(* buildCategoryAOutcome; the count matters up to MAX_REVALIDATION_ATTEMPTS.*)
DeferTransient(i) ==
  /\ invocation[i].at = "failed" /\ caseDoc.owner = i /\ Ends(i)
  /\ LET attempts == Min({caseDoc.attempts + 1, MaxRevalidation})
         exhausted == attempts = MaxRevalidation
     IN  /\ WriteCase([Release(caseDoc) EXCEPT
              !.attempts = attempts, !.eligible = FALSE,
              !.state = IF exhausted THEN "requires_operator_review" ELSE "retryable_error"], {})
         /\ alertDoc' = IF exhausted THEN "open" ELSE alertDoc
  /\ UNCHANGED <<now, undelivered, redelivered, runs>>

DeferPermanent(i) ==
  /\ \/ invocation[i].at = "failed"
     \/ invocation[i].at = "read" /\ UpToDate(i) /\ (~Sound \/ (Selects(i) /\ RunIdTaken(NewRun(i))))
  /\ caseDoc.owner = i /\ Ends(i)
  /\ WriteCase([Release(caseDoc) EXCEPT !.state = "queued", !.eligible = FALSE], {})
  /\ UNCHANGED <<now, undelivered, redelivered, alertDoc, runs>>

(* The transaction finds another owner, fails to commit, or the invocation *)
(* dies: nothing is written.                                               *)
Stops(i) ==
  /\ invocation[i].at \notin {"idle", "done"} /\ Ends(i)
  /\ UNCHANGED <<now, undelivered, redelivered, caseDoc, alertDoc, runs, upToDate>>

(* runQ7.                                                                  *)
RecoverLease ==
  /\ caseDoc.state = "validating" /\ caseDoc.owner # NoOwner /\ caseDoc.lapsed
  /\ WriteCase([Release(caseDoc) EXCEPT !.state = "queued"], {})
  /\ UNCHANGED <<now, undelivered, redelivered, alertDoc, runs, invocation>>

(* ---- resolveShiftCloseAlert ---- *)
LoadCase(m) ==
  /\ upToDate' = upToDate \cup {m}
  /\ UNCHANGED <<now, undelivered, redelivered, caseDoc, alertDoc, runs, invocation>>

Adjudicate(m) ==
  /\ m \in upToDate /\ LeaseFree(caseDoc) /\ Sound
  /\ \/ alertDoc = "open" /\ alertDoc' = "acknowledged"
     \/ alertDoc \in {"open", "acknowledged"} /\ alertDoc' = "resolved"
  /\ WriteCase([caseDoc EXCEPT !.alert = alertDoc'], {})
  /\ UNCHANGED <<now, undelivered, redelivered, runs, invocation>>

CaseNext ==
  \/ CommitSources \/ LeaseLapses \/ DeferralEnds \/ RecoverLease
  \/ \E e \in Changes, again \in BOOLEAN : Route(e, again)
  \/ \E h \in Hashes : Capture(h)
  \/ \E m \in Managers : LoadCase(m) \/ Adjudicate(m)
  \/ \E i \in Invocations :
       \/ AcquireLease(i) \/ ReadSnapshot(i) \/ LosesOwnership(i) \/ ReleasesStale(i) \/ KeepsSelection(i)
       \/ SelectRun(i) \/ Throws(i) \/ DeferTransient(i) \/ DeferPermanent(i) \/ Stops(i)

ValidationSpec == CaseInit /\ [][CaseNext]_caseVars

-----------------------------------------------------------------------------
(* No write to the shift's documents is forgotten: it is in the snapshot of*)
(* the selected run, or the case is pending, or its event is still to come.*)
SourcesAccounted ==
  \A c \in Committed : \/ CommitTime[c] <= caseDoc.selected.snap \/ HasPendingWork(caseDoc) \/ c \in undelivered

(* The case and its alert show the same state, as the worker and the       *)
(* manager's adjudication both demand before they go on.                   *)
CaseAndAlertAgree == alertDoc = caseDoc.alert
=============================================================================
