-------------------------- MODULE ComponentProofs --------------------------
(***************************************************************************)
(* Theorems about the components that are checked side by side: the        *)
(* validation of closed shifts, for any writes and commit times, close     *)
(* hashes, invocations, managers and redeliveries; what a terminal         *)
(* records, for any number of sales, sweeps, windows and calls; the        *)
(* adjudication of offline voids, for any orders, approvals, sweeps,       *)
(* relays and drains; a right PIN, which never lifts a lock in force; and  *)
(* the cut, for any lots, lines and quantities.                            *)
(***************************************************************************)
EXTENDS FifoCut, CloseValidation, SaleIntents, ShiftOpens, DurableBoot, ManagerApproval, OfflineVoid, SumLemmas

-----------------------------------------------------------------------------
(* The least and the greatest of a set of times.                           *)
LEMMA LeastExists ==
  ASSUME NEW S, S \subseteq Nat, S # {} PROVE \E x \in S : \A y \in S : x <= y
<1>1. PICK x \in S : \A y \in S : ~(<<y, x>> \in OpToRel(<, Nat))
  BY NatLessThanWellFounded, WFMin
<1>2. \A y \in S : ~(y < x)
  BY <1>1 DEF OpToRel
<1> QED BY <1>2

LEMMA MinIsLeast ==
  ASSUME NEW S, S \subseteq Nat, S # {} PROVE Min(S) \in S /\ \A y \in S : Min(S) <= y
<1>1. \E x \in S : \A y \in S : x <= y
  BY LeastExists
<1> QED BY <1>1 DEF Min

LEMMA MaxIsGreatest ==
  ASSUME NEW S, S \subseteq Nat, S # {}, NEW n \in Nat, \A x \in S : x <= n
  PROVE  Max(S) \in S /\ \A y \in S : y <= Max(S)
<1> DEFINE D == {n - x : x \in S}
<1>1. D \subseteq Nat /\ D # {}
  <2>1. \A x \in S : n - x \in Nat
    OBVIOUS
  <2> QED BY <2>1
<1>2. PICK k \in D : \A l \in D : k <= l
  <2> HIDE DEF D
  <2> QED BY <1>1, LeastExists
<1>3. PICK x \in S : k = n - x
  OBVIOUS
<1>4. ASSUME NEW y \in S PROVE x >= y
  <2>1. n - y \in D /\ n \in Int /\ x \in Int /\ y \in Int
    OBVIOUS
  <2>2. n - x <= n - y
    BY <1>2, <1>3, <2>1
  <2> QED BY <2>1, <2>2
<1> QED BY <1>4 DEF Max

(* The greatest time that a snapshot reads is not after the snapshot.      *)
LEMMA ReadBeforeSnap ==
  ASSUME CloseValidationAssumption, NEW snap \in Nat PROVE ReadMicros(snap) \in Nat /\ ReadMicros(snap) <= snap
<1> DEFINE S == {0} \cup {CommitTime[c] : c \in {d \in Changes \ Deletions : CommitTime[d] <= snap}}
<1>1. S \subseteq Nat /\ S # {} /\ \A x \in S : x <= snap
  BY DEF CloseValidationAssumption
<1> HIDE DEF S
<1>2. Max(S) \in S
  BY <1>1, MaxIsGreatest
<1>3. ReadMicros(snap) = Max(S)
  BY DEF ReadMicros, S
<1> QED BY <1>1, <1>2, <1>3

-----------------------------------------------------------------------------
(* The sources of a closed shift.  An event is of a write that was         *)
(* committed, and is delivered or in the ledger; the watermark and the     *)
(* evidence pass neither the next commit nor the one after the snapshot of *)
(* a run that stands; and a worker that has read, and still knows the case,*)
(* has read every write whose event was delivered.                         *)
EventsOnce == undelivered \subseteq Committed /\ caseDoc.ledger \subseteq Committed \ undelivered
WatermarkSound ==
  /\ caseDoc.watermark <= now + 1 /\ \A h \in Hashes : caseDoc.evidence[h] <= now + 1
  /\ caseDoc.watermark <= caseDoc.selected.snap + 1 \/ HasPendingWork(caseDoc)
HasRead(c, snap) == CommitTime[c] <= snap \/ c \in undelivered
ReaderAccounts ==
  \A i \in Invocations : invocation[i].at = "read" /\ i \in upToDate =>
    /\ caseDoc.watermark <= invocation[i].snap + 1 /\ invocation[i].snap <= now
    /\ \A h \in Hashes : caseDoc.evidence[h] <= invocation[i].snap + 1
    /\ \A c \in Committed : HasRead(c, invocation[i].snap)
SourceInv == CaseTypeOK /\ EventsOnce /\ WatermarkSound /\ ReaderAccounts /\ SourcesAccounted

CaseDocs == [pending : BOOLEAN, selected : RunDocs, latestHash : Hashes, owner : Invocations \cup {NoOwner},
             lapsed : BOOLEAN, eligible : BOOLEAN, sweep : BOOLEAN, state : RestStates \cup {"validating"},
             alert : AlertStates, revision : Nat, attempts : 0..MaxRevalidation,
             watermark : Nat, ledger : SUBSET Changes, evidence : [Hashes -> Nat]]
InvocationDocs == [at : {"idle", "leased", "read", "failed", "done"}, hash : Hashes, revision : Nat,
                   recheck : BOOLEAN, prior : RestStates \cup {"validating"}, snap : Nat]

LEMMA CaseInitInv == ASSUME CloseValidationAssumption, CaseInit PROVE SourceInv
<1>1. CaseTypeOK
  BY DEF CloseValidationAssumption, CaseInit, CaseTypeOK, NoRun, NoInvocation, RunDocs, RestStates, AlertStates,
         CapturedNow
<1>2. Committed = {}
  BY DEF CloseValidationAssumption, CaseInit, Committed
<1>3. EventsOnce /\ WatermarkSound /\ ReaderAccounts /\ SourcesAccounted
  BY <1>2 DEF CaseInit, EventsOnce, WatermarkSound, ReaderAccounts, SourcesAccounted, HasPendingWork, NoRun,
               NoInvocation, CapturedNow
<1> QED BY <1>1, <1>3 DEF SourceInv

(* A write of the case that leaves what is selected, and to whom what is   *)
(* known: those who have read are as they were, or know it no longer.      *)
LEMMA QuietWrite ==
  ASSUME CloseValidationAssumption, SourceInv, CaseTypeOK', UNCHANGED <<now, undelivered>>,
         caseDoc'.selected = caseDoc.selected, caseDoc'.pending = caseDoc.pending,
         caseDoc'.latestHash = caseDoc.latestHash, caseDoc'.ledger = caseDoc.ledger,
         caseDoc'.watermark = caseDoc.watermark, caseDoc'.evidence = caseDoc.evidence,
         \A i \in Invocations : invocation'[i].at = "read" /\ i \in upToDate' =>
           i \in upToDate /\ invocation'[i] = invocation[i]
  PROVE  SourceInv'
<1>1. Committed' = Committed /\ HasPendingWork(caseDoc') = HasPendingWork(caseDoc)
  BY DEF Committed, HasPendingWork
<1>2. EventsOnce' /\ WatermarkSound' /\ SourcesAccounted'
  BY <1>1 DEF SourceInv, EventsOnce, WatermarkSound, SourcesAccounted
<1>3. ReaderAccounts'
  BY <1>1 DEF SourceInv, ReaderAccounts, HasRead
<1> QED BY <1>2, <1>3 DEF SourceInv

(* What a write of the case makes of its type.                             *)
LEMMA TypeOfCase == CaseTypeOK <=> /\ now \in Nat /\ undelivered \subseteq Changes /\ redelivered \in 0..MaxRedelivery
                                   /\ caseDoc \in CaseDocs /\ alertDoc \in AlertStates /\ runs \subseteq RunDocs
                                   /\ upToDate \subseteq Invocations \cup Managers
                                   /\ invocation \in [Invocations -> InvocationDocs]
  BY DEF CaseTypeOK, CaseDocs, InvocationDocs

LEMMA CaseStep ==
  ASSUME CloseValidationAssumption, SourceInv, [CaseNext]_caseVars PROVE SourceInv'
<1> DEFINE Typed == /\ now \in Nat /\ undelivered \subseteq Changes /\ redelivered \in 0..MaxRedelivery
                    /\ caseDoc \in CaseDocs /\ alertDoc \in AlertStates /\ runs \subseteq RunDocs
                    /\ upToDate \subseteq Invocations \cup Managers
                    /\ invocation \in [Invocations -> InvocationDocs]
<1>a. Typed
  BY TypeOfCase DEF SourceInv
<1>b. Typed' => CaseTypeOK'
  BY DEF CaseTypeOK, CaseDocs, InvocationDocs
<1>c. \A i \in Invocations : invocation[i] \in InvocationDocs
  BY <1>a
<1>d. NoInvocation \in InvocationDocs /\ NoInvocation.at = "idle"
  BY DEF NoInvocation, InvocationDocs, CloseValidationAssumption, RestStates
<1>e. ASSUME NEW i \in Invocations, Ends(i)
      PROVE  /\ invocation' \in [Invocations -> InvocationDocs]
             /\ \A j \in Invocations : invocation'[j].at = "read" => j # i /\ invocation'[j] = invocation[j]
  <2>1. [NoInvocation EXCEPT !.at = "done"] \in InvocationDocs
    BY <1>d DEF InvocationDocs
  <2>2. [NoInvocation EXCEPT !.at = "done"].at = "done"
    BY <1>d DEF InvocationDocs
  <2>3. invocation' = [invocation EXCEPT ![i] = [NoInvocation EXCEPT !.at = "done"]]
    BY <1>e DEF Ends
  <2> HIDE <1>d
  <2> QED BY <1>a, <2>1, <2>2, <2>3
<1> HIDE DEF Typed
<1>1. CASE UNCHANGED caseVars
  <2>1. CaseTypeOK'
    BY <1>1 DEF SourceInv, CaseTypeOK, caseVars
  <2> QED BY <1>1, <2>1, QuietWrite DEF caseVars
<1>2. CASE CommitSources
  <2> DEFINE Later == {CommitTime[c] : c \in Changes \ Committed}
  <2>1. Later \subseteq Nat /\ Later # {}
    BY <1>2 DEF CommitSources, CloseValidationAssumption, Committed
  <2> HIDE DEF Later
  <2>2. now' = Min(Later) /\ now' \in Later /\ \A t \in Later : now' <= t
    BY <1>2, <2>1, MinIsLeast DEF CommitSources, Later
  <2>3. now' \in Nat /\ now < now'
    BY <1>a, <2>1, <2>2 DEF Later, Committed, Typed, CloseValidationAssumption
  <2>4. undelivered' = undelivered \cup {c \in Changes : CommitTime[c] = now'}
        /\ UNCHANGED <<redelivered, caseDoc, alertDoc, runs, upToDate, invocation>>
    BY <1>2 DEF CommitSources
  <2>5. Committed \subseteq Committed' /\ \A c \in Committed' \ Committed : CommitTime[c] = now' /\ c \in undelivered'
    <3>1. Committed \subseteq Committed'
      BY <1>a, <2>3 DEF Committed, Typed, CloseValidationAssumption
    <3>2. ASSUME NEW c \in Committed' \ Committed PROVE CommitTime[c] = now'
      <4>1. CommitTime[c] \in Later /\ CommitTime[c] <= now' /\ c \in Changes
        BY DEF Later, Committed
      <4>2. now' <= CommitTime[c] /\ CommitTime[c] \in Nat
        BY <2>1, <2>2, <4>1
      <4> QED BY <2>3, <4>1, <4>2
    <3> QED BY <2>4, <3>1, <3>2 DEF Committed
  <2>6. undelivered' \subseteq Committed' /\ \A c \in undelivered' \ undelivered : c \notin Committed
    BY <1>a, <2>3, <2>4, <2>5 DEF SourceInv, EventsOnce, Committed, Typed, CloseValidationAssumption
  <2>7. CaseTypeOK'
    <3>1. Typed'
      BY <1>a, <2>3, <2>4 DEF Typed
    <3> QED BY <1>b, <3>1
  <2>8. EventsOnce'
    BY <2>4, <2>5, <2>6 DEF SourceInv, EventsOnce
  <2>9. WatermarkSound'
    BY <1>a, <2>3, <2>4 DEF SourceInv, WatermarkSound, Typed, CaseDocs
  <2>10. ReaderAccounts'
    BY <1>a, <1>c, <2>3, <2>4, <2>5 DEF SourceInv, ReaderAccounts, HasRead, Typed, InvocationDocs
  <2>11. SourcesAccounted'
    BY <2>4, <2>5 DEF SourceInv, SourcesAccounted
  <2> QED BY <2>7, <2>8, <2>9, <2>10, <2>11 DEF SourceInv
<1>3. CASE LeaseLapses \/ DeferralEnds \/ RecoverLease
  <2>1. CaseTypeOK'
    <3>1. CASE LeaseLapses
      BY <1>a, <1>b, <3>1 DEF LeaseLapses, Typed, CaseDocs
    <3>2. CASE DeferralEnds
      BY <1>a, <1>b, <3>2 DEF DeferralEnds, Typed, CaseDocs
    <3>3. CASE RecoverLease
      BY <1>a, <1>b, <3>3 DEF RecoverLease, WriteCase, Release, Typed, CaseDocs, RestStates
    <3> QED BY <1>3, <3>1, <3>2, <3>3
  <2>2. /\ UNCHANGED <<now, undelivered, invocation>> /\ upToDate' \subseteq upToDate
        /\ caseDoc'.selected = caseDoc.selected /\ caseDoc'.pending = caseDoc.pending
        /\ caseDoc'.latestHash = caseDoc.latestHash /\ caseDoc'.ledger = caseDoc.ledger
        /\ caseDoc'.watermark = caseDoc.watermark /\ caseDoc'.evidence = caseDoc.evidence
    BY <1>a, <1>3 DEF LeaseLapses, DeferralEnds, RecoverLease, WriteCase, Release, Typed, CaseDocs
  <2> QED BY <2>1, <2>2, QuietWrite
<1>4. ASSUME NEW e \in Changes, NEW again \in BOOLEAN, Route(e, again) PROVE SourceInv'
  <2>1. /\ e \in Committed /\ undelivered' = undelivered \ {e} /\ UNCHANGED <<now, alertDoc, runs, invocation>>
        /\ redelivered' \in 0..MaxRedelivery
        /\ again => e \notin undelivered
    BY <1>a, <1>4 DEF Route, SourceInv, EventsOnce, Typed, CloseValidationAssumption
  <2>2. Committed' = Committed
    BY <2>1 DEF Committed
  <2>3. CASE e \in caseDoc.ledger
    <3>1. UNCHANGED <<caseDoc, upToDate>> /\ undelivered' = undelivered
      BY <1>4, <2>1, <2>3 DEF Route, SourceInv, EventsOnce
    <3>2. CaseTypeOK'
      BY <1>a, <1>b, <2>1, <3>1 DEF Typed
    <3> QED BY <2>1, <3>1, <3>2, QuietWrite
  <2>4. CASE e \notin caseDoc.ledger /\ StaleEvent(e, caseDoc)
    <3>1. UNCHANGED <<caseDoc, upToDate>>
      BY <1>4, <2>4 DEF Route
    <3>2. CaseTypeOK'
      BY <1>a, <1>b, <2>1, <3>1 DEF Typed
    <3>3. EventsOnce' /\ WatermarkSound'
      BY <2>1, <2>2, <3>1 DEF SourceInv, EventsOnce, WatermarkSound
    <3>4. CommitTime[e] \in Nat /\ CommitTime[e] < caseDoc.watermark /\ caseDoc.watermark \in Nat
      BY <1>a, <2>4 DEF StaleEvent, CloseValidationAssumption, Typed, CaseDocs
    <3>5. ReaderAccounts'
      <4> SUFFICES ASSUME NEW i \in Invocations, invocation[i].at = "read", i \in upToDate
                   PROVE  /\ caseDoc.watermark <= invocation[i].snap + 1 /\ invocation[i].snap <= now
                          /\ \A h \in Hashes : caseDoc.evidence[h] <= invocation[i].snap + 1
                          /\ \A c \in Committed : HasRead(c, invocation[i].snap)'
        BY <2>1, <2>2, <3>1 DEF ReaderAccounts, HasRead
      <4>1. /\ caseDoc.watermark <= invocation[i].snap + 1 /\ invocation[i].snap \in Nat /\ invocation[i].snap <= now
            /\ \A h \in Hashes : caseDoc.evidence[h] <= invocation[i].snap + 1
            /\ \A c \in Committed : HasRead(c, invocation[i].snap)
        BY <1>c DEF SourceInv, ReaderAccounts, InvocationDocs
      <4>2. CommitTime[e] <= invocation[i].snap
        BY <3>4, <4>1
      <4>3. ASSUME NEW c \in Committed
            PROVE  CommitTime[c] <= invocation'[i].snap \/ c \in undelivered'
        <5>1. invocation' = invocation /\ undelivered' = undelivered \ {e}
          BY <2>1
        <5>2. CommitTime[c] <= invocation[i].snap \/ c \in undelivered
          BY <4>1 DEF HasRead
        <5> QED BY <4>2, <5>1, <5>2
      <4> QED BY <4>1, <4>3 DEF HasRead
    <3>6. SourcesAccounted'
      <4>1. CommitTime[e] <= caseDoc.selected.snap \/ HasPendingWork(caseDoc)
        BY <1>a, <3>4 DEF SourceInv, WatermarkSound, Typed, CaseDocs, RunDocs
      <4> QED BY <2>1, <2>2, <3>1, <4>1 DEF SourceInv, SourcesAccounted
    <3> QED BY <3>2, <3>3, <3>5, <3>6 DEF SourceInv
  <2>5. CASE e \notin caseDoc.ledger /\ ~StaleEvent(e, caseDoc)
    <3>1. caseDoc' = Enqueued(e, caseDoc) /\ upToDate' = {}
      BY <1>4, <2>5 DEF Route, WriteCase
    <3>2. /\ caseDoc' \in CaseDocs /\ caseDoc'.pending /\ caseDoc'.watermark = CommitTime[e]
          /\ caseDoc'.ledger = caseDoc.ledger \cup {e} /\ caseDoc'.evidence = caseDoc.evidence
      <4>1. /\ caseDoc \in CaseDocs /\ caseDoc.revision + 1 \in Nat /\ "queued" \in RestStates
            /\ caseDoc.ledger \cup {e} \in SUBSET Changes /\ CommitTime[e] \in Nat
            /\ (caseDoc.eligible /\ caseDoc.pending) \in BOOLEAN
        BY <1>a DEF CaseDocs, CloseValidationAssumption, RestStates, Typed
      <4> DEFINE both == caseDoc.eligible /\ caseDoc.pending
      <4>2. caseDoc' = [caseDoc EXCEPT !.revision = caseDoc.revision + 1, !.pending = TRUE, !.state = "queued",
              !.eligible = both, !.ledger = caseDoc.ledger \cup {e}, !.watermark = CommitTime[e]]
        BY <3>1 DEF Enqueued
      <4> HIDE DEF both
      <4>3. both \in BOOLEAN
        BY <4>1 DEF both
      <4> QED BY <4>1, <4>2, <4>3 DEF CaseDocs
    <3>3. CaseTypeOK'
      BY <1>a, <1>b, <2>1, <3>1, <3>2 DEF Typed
    <3>4. HasPendingWork(caseDoc')
      BY <3>2 DEF HasPendingWork
    <3>5. EventsOnce'
      BY <2>1, <2>2, <3>2 DEF SourceInv, EventsOnce
    <3>6. ReaderAccounts' /\ SourcesAccounted'
      BY <2>1, <3>1, <3>2, <3>4 DEF ReaderAccounts, SourcesAccounted, Committed
    <3>7. WatermarkSound'
      <4>1. CommitTime[e] \in Nat /\ CommitTime[e] <= now /\ now \in Nat
        BY <1>a, <2>1 DEF Committed, Typed, CloseValidationAssumption
      <4> QED BY <2>1, <3>2, <3>4, <4>1 DEF SourceInv, WatermarkSound
    <3> QED BY <3>3, <3>5, <3>6, <3>7 DEF SourceInv
  <2> QED BY <2>3, <2>4, <2>5
<1>5. ASSUME NEW h \in Hashes, Capture(h) PROVE SourceInv'
  <2>1. /\ caseDoc' \in CaseDocs /\ caseDoc'.pending /\ caseDoc'.watermark = caseDoc.watermark
        /\ caseDoc'.evidence = [caseDoc.evidence EXCEPT ![h] = now + 1]
        /\ caseDoc'.ledger = caseDoc.ledger /\ upToDate' = {}
        /\ UNCHANGED <<now, undelivered, redelivered, alertDoc, runs, invocation>>
    <3>1. /\ caseDoc \in CaseDocs /\ caseDoc.revision + 1 \in Nat
          /\ [caseDoc.evidence EXCEPT ![h] = now + 1] \in [Hashes -> Nat]
      BY <1>a DEF CaseDocs, Typed
    <3>2. /\ caseDoc' = [caseDoc EXCEPT !.revision = caseDoc.revision + 1, !.latestHash = h,
                                        !.evidence = [caseDoc.evidence EXCEPT ![h] = now + 1], !.pending = TRUE]
          /\ upToDate' = {}
          /\ UNCHANGED <<now, undelivered, redelivered, alertDoc, runs, invocation>>
      BY <1>5 DEF Capture, WriteCase, CapturedNow
    <3> QED BY <3>1, <3>2 DEF CaseDocs
  <2>2. CaseTypeOK'
    BY <1>a, <1>b, <2>1 DEF Typed
  <2>3. HasPendingWork(caseDoc') /\ Committed' = Committed
    BY <2>1 DEF HasPendingWork, Committed
  <2>4. EventsOnce' /\ ReaderAccounts' /\ SourcesAccounted'
    BY <2>1, <2>3 DEF SourceInv, EventsOnce, ReaderAccounts, SourcesAccounted
  <2>5. WatermarkSound'
    <3>1. \A g \in Hashes : caseDoc'.evidence[g] = IF g = h THEN now + 1 ELSE caseDoc.evidence[g]
      BY <1>a, <2>1 DEF Typed, CaseDocs
    <3> QED BY <1>a, <2>1, <2>3, <3>1 DEF SourceInv, WatermarkSound, Typed
  <2> QED BY <2>2, <2>4, <2>5 DEF SourceInv
<1>6. ASSUME NEW m \in Managers, LoadCase(m) \/ Adjudicate(m) PROVE SourceInv'
  <2>1. /\ CaseTypeOK'
        /\ UNCHANGED <<now, undelivered, invocation>> /\ upToDate' \subseteq upToDate \cup {m}
        /\ caseDoc'.selected = caseDoc.selected /\ caseDoc'.pending = caseDoc.pending
        /\ caseDoc'.latestHash = caseDoc.latestHash /\ caseDoc'.ledger = caseDoc.ledger
        /\ caseDoc'.watermark = caseDoc.watermark /\ caseDoc'.evidence = caseDoc.evidence
    <3>1. CASE LoadCase(m)
      BY <1>a, <1>b, <3>1 DEF LoadCase, Typed
    <3>2. CASE Adjudicate(m)
      <4>1. alertDoc' \in AlertStates /\ caseDoc' = [caseDoc EXCEPT !.alert = alertDoc'] /\ upToDate' = {}
            /\ UNCHANGED <<now, undelivered, redelivered, runs, invocation>>
        BY <3>2 DEF Adjudicate, WriteCase, AlertStates
      <4> QED BY <1>a, <1>b, <4>1 DEF Typed, CaseDocs
    <3> QED BY <1>6, <3>1, <3>2
  <2>2. \A i \in Invocations : i \in upToDate' => i \in upToDate
    BY <2>1 DEF CloseValidationAssumption
  <2> QED BY <2>1, <2>2, QuietWrite
<1>7. ASSUME NEW i \in Invocations, AcquireLease(i) PROVE SourceInv'
  <2> DEFINE leased == [at |-> "leased", hash |-> caseDoc.latestHash, revision |-> caseDoc.revision,
                        recheck |-> IsRecheckEligible(caseDoc), prior |-> caseDoc.state, snap |-> 0]
  <2>1. leased \in InvocationDocs
    <3>1. IsRecheckEligible(caseDoc) \in BOOLEAN
      BY <1>a DEF IsRecheckEligible, HasPendingWork, Typed, CaseDocs
    <3>2. caseDoc.latestHash \in Hashes /\ caseDoc.revision \in Nat /\ caseDoc.state \in RestStates \cup {"validating"}
      BY <1>a DEF Typed, CaseDocs
    <3> HIDE DEF IsRecheckEligible
    <3> QED BY <3>1, <3>2 DEF InvocationDocs
  <2>2. /\ caseDoc' = [caseDoc EXCEPT !.owner = i, !.lapsed = FALSE, !.state = "validating"] /\ upToDate' = {i}
        /\ invocation' = [invocation EXCEPT ![i] = leased]
        /\ UNCHANGED <<now, undelivered, redelivered, alertDoc, runs>>
    BY <1>7 DEF AcquireLease, WriteCase
  <2>3. leased.at = "leased"
    OBVIOUS
  <2> HIDE DEF leased
  <2>4. invocation' \in [Invocations -> InvocationDocs] /\ invocation'[i].at = "leased"
    BY <1>a, <2>1, <2>2, <2>3 DEF Typed
  <2>5. /\ caseDoc' \in CaseDocs /\ caseDoc'.selected = caseDoc.selected /\ caseDoc'.pending = caseDoc.pending
        /\ caseDoc'.latestHash = caseDoc.latestHash /\ caseDoc'.ledger = caseDoc.ledger
        /\ caseDoc'.watermark = caseDoc.watermark /\ caseDoc'.evidence = caseDoc.evidence
    BY <1>a, <2>2 DEF Typed, CaseDocs
  <2>6. CaseTypeOK'
    BY <1>a, <1>b, <2>2, <2>4, <2>5 DEF Typed
  <2> QED BY <2>2, <2>4, <2>5, <2>6, QuietWrite
<1>8. ASSUME NEW i \in Invocations, ReadSnapshot(i) PROVE SourceInv'
  <2>1. /\ invocation' = [invocation EXCEPT ![i] = [invocation[i] EXCEPT !.at = "read", !.snap = now]]
        /\ UNCHANGED <<now, undelivered, redelivered, caseDoc, alertDoc, runs, upToDate>>
    BY <1>8 DEF ReadSnapshot
  <2>2. [invocation[i] EXCEPT !.at = "read", !.snap = now] \in InvocationDocs
        /\ [invocation[i] EXCEPT !.at = "read", !.snap = now].snap = now
    BY <1>a, <1>c DEF InvocationDocs, Typed
  <2>3. /\ invocation' \in [Invocations -> InvocationDocs] /\ invocation'[i].snap = now
        /\ \A j \in Invocations : j # i => invocation'[j] = invocation[j]
    BY <1>a, <2>1, <2>2 DEF Typed
  <2>4. CaseTypeOK'
    BY <1>a, <1>b, <2>1, <2>3 DEF Typed
  <2>5. Committed' = Committed /\ \A c \in Committed : CommitTime[c] <= now
    BY <2>1 DEF Committed
  <2>6. ReaderAccounts'
    <3> SUFFICES ASSUME NEW j \in Invocations, invocation'[j].at = "read", j \in upToDate
                 PROVE  /\ caseDoc.watermark <= invocation'[j].snap + 1 /\ invocation'[j].snap <= now
                        /\ \A h \in Hashes : caseDoc.evidence[h] <= invocation'[j].snap + 1
                        /\ \A c \in Committed : HasRead(c, invocation'[j].snap)
      BY <2>1, <2>5 DEF ReaderAccounts, HasRead
    <3>1. CASE j = i
      <4>1. /\ caseDoc.watermark <= now + 1 /\ now <= now
            /\ \A h \in Hashes : caseDoc.evidence[h] <= now + 1
        BY <1>a DEF SourceInv, WatermarkSound, Typed
      <4> QED BY <2>3, <2>5, <3>1, <4>1 DEF HasRead
    <3>2. CASE j # i
      BY <2>3, <3>2 DEF SourceInv, ReaderAccounts
    <3> QED BY <3>1, <3>2
  <2>7. EventsOnce' /\ WatermarkSound' /\ SourcesAccounted'
    BY <2>1, <2>5 DEF SourceInv, EventsOnce, WatermarkSound, SourcesAccounted
  <2> QED BY <2>4, <2>6, <2>7 DEF SourceInv
(* An invocation that ends and leaves the selection.                       *)
<1>9. ASSUME NEW i \in Invocations, Ends(i), caseDoc' \in CaseDocs, alertDoc' \in AlertStates,
             upToDate' \in {upToDate, {}},
             UNCHANGED <<now, undelivered, redelivered, runs>>,
             caseDoc'.selected = caseDoc.selected, caseDoc'.pending = caseDoc.pending,
             caseDoc'.latestHash = caseDoc.latestHash, caseDoc'.ledger = caseDoc.ledger,
             caseDoc'.watermark = caseDoc.watermark, caseDoc'.evidence = caseDoc.evidence
      PROVE  SourceInv'
  <2>1. CaseTypeOK'
    BY <1>a, <1>b, <1>e, <1>9 DEF Typed
  <2> QED BY <1>e, <1>9, <2>1, QuietWrite
<1>10. ASSUME NEW i \in Invocations, LosesOwnership(i) \/ Stops(i) PROVE SourceInv'
  BY <1>a, <1>9, <1>10 DEF LosesOwnership, Stops, Decides, Typed
<1>11. ASSUME NEW i \in Invocations, Throws(i) PROVE SourceInv'
  <2>1. /\ invocation' = [invocation EXCEPT ![i] = [invocation[i] EXCEPT !.at = "failed"]]
        /\ UNCHANGED <<now, undelivered, redelivered, caseDoc, alertDoc, runs, upToDate>>
    BY <1>11 DEF Throws, Fail
  <2>2. [invocation[i] EXCEPT !.at = "failed"] \in InvocationDocs
        /\ [invocation[i] EXCEPT !.at = "failed"].at = "failed"
    BY <1>c DEF InvocationDocs
  <2>3. /\ invocation' \in [Invocations -> InvocationDocs] /\ invocation'[i].at = "failed"
        /\ \A j \in Invocations : j # i => invocation'[j] = invocation[j]
    BY <1>a, <2>1, <2>2 DEF Typed
  <2>4. CaseTypeOK'
    BY <1>a, <1>b, <2>1, <2>3 DEF Typed
  <2> QED BY <2>1, <2>3, <2>4, QuietWrite
<1>12. ASSUME NEW i \in Invocations, ReleasesStale(i) \/ KeepsSelection(i) \/ DeferPermanent(i) PROVE SourceInv'
  <2>1. /\ \A w \in BOOLEAN, t \in RestStates \cup {"validating"} :
             [Release(caseDoc) EXCEPT !.state = t, !.eligible = FALSE, !.sweep = w] \in CaseDocs
        /\ [Release(caseDoc) EXCEPT !.state = "queued"] \in CaseDocs
        /\ [Release(caseDoc) EXCEPT !.state = "queued", !.eligible = FALSE] \in CaseDocs
        /\ invocation[i].prior \in RestStates \cup {"validating"}
    <3> DEFINE c == Release(caseDoc)
    <3>1. c \in CaseDocs /\ "queued" \in RestStates
      BY <1>a DEF Release, RestStates, Typed, CaseDocs
    <3>2. invocation[i].prior \in RestStates \cup {"validating"}
      BY <1>c DEF InvocationDocs
    <3> HIDE DEF c
    <3>3. /\ \A w \in BOOLEAN, t \in RestStates \cup {"validating"} :
               [c EXCEPT !.state = t, !.eligible = FALSE, !.sweep = w] \in CaseDocs
          /\ [c EXCEPT !.state = "queued"] \in CaseDocs
          /\ [c EXCEPT !.state = "queued", !.eligible = FALSE] \in CaseDocs
      BY <3>1, Zenon DEF CaseDocs
    <3> QED BY <3>2, <3>3 DEF c
  <2>2. /\ caseDoc' \in CaseDocs /\ caseDoc'.selected = caseDoc.selected /\ caseDoc'.pending = caseDoc.pending
        /\ caseDoc'.latestHash = caseDoc.latestHash /\ caseDoc'.ledger = caseDoc.ledger
        /\ caseDoc'.watermark = caseDoc.watermark /\ caseDoc'.evidence = caseDoc.evidence
    <3>1. CASE ReleasesStale(i)
      BY <1>a, <2>1, <3>1 DEF ReleasesStale, WriteCase, Release, Typed, CaseDocs
    <3>2. CASE KeepsSelection(i)
      <4>1. PICK w \in BOOLEAN :
              caseDoc' = [Release(caseDoc) EXCEPT !.state = invocation[i].prior, !.eligible = FALSE, !.sweep = w]
        BY <3>2 DEF KeepsSelection, WriteCase
      <4>2. caseDoc' \in CaseDocs
        BY <2>1, <4>1
      <4> QED BY <1>a, <4>1, <4>2 DEF Release, Typed, CaseDocs
    <3>3. CASE DeferPermanent(i)
      BY <1>a, <2>1, <3>3 DEF DeferPermanent, WriteCase, Release, Typed, CaseDocs
    <3> QED BY <1>12, <3>1, <3>2, <3>3
  <2>3. Ends(i) /\ upToDate' = {} /\ UNCHANGED <<now, undelivered, redelivered, runs, alertDoc>>
    BY <1>12 DEF ReleasesStale, KeepsSelection, DeferPermanent, WriteCase, Decides
  <2> QED BY <1>a, <1>9, <2>2, <2>3 DEF Typed
<1>13. ASSUME NEW i \in Invocations, DeferTransient(i) PROVE SourceInv'
  <2> DEFINE attempts == Min({caseDoc.attempts + 1, MaxRevalidation})
  <2>1. attempts \in 0..MaxRevalidation
    <3>1. {caseDoc.attempts + 1, MaxRevalidation} \subseteq Nat
      BY <1>a DEF Typed, CaseDocs, CloseValidationAssumption
    <3>2. attempts \in {caseDoc.attempts + 1, MaxRevalidation} /\ attempts <= MaxRevalidation
      BY <3>1, MinIsLeast
    <3> HIDE DEF attempts
    <3> QED BY <3>1, <3>2
  <2>2. PICK s \in RestStates :
          caseDoc' = [caseDoc EXCEPT !.owner = NoOwner, !.lapsed = FALSE, !.attempts = attempts,
                                     !.eligible = FALSE, !.state = s]
    BY <1>a, <1>13 DEF DeferTransient, WriteCase, Release, RestStates, Typed, CaseDocs
  <2>3. alertDoc' \in AlertStates /\ Ends(i) /\ upToDate' = {} /\ UNCHANGED <<now, undelivered, redelivered, runs>>
    BY <1>a, <1>13 DEF DeferTransient, WriteCase, AlertStates, Typed
  <2> HIDE DEF attempts
  <2>4. /\ caseDoc' \in CaseDocs /\ caseDoc'.selected = caseDoc.selected /\ caseDoc'.pending = caseDoc.pending
        /\ caseDoc'.latestHash = caseDoc.latestHash /\ caseDoc'.ledger = caseDoc.ledger
        /\ caseDoc'.watermark = caseDoc.watermark /\ caseDoc'.evidence = caseDoc.evidence
    BY <1>a, <2>1, <2>2 DEF Typed, CaseDocs
  <2> QED BY <1>9, <2>3, <2>4
(* A run that is selected has read every write whose event was delivered.  *)
<1>14. ASSUME NEW i \in Invocations, SelectRun(i) PROVE SourceInv'
  <2>1. /\ invocation[i].at = "read" /\ i \in upToDate /\ Ends(i) /\ upToDate' = {}
        /\ runs' = runs \cup {NewRun(i)} /\ UNCHANGED <<now, undelivered, redelivered>>
    BY <1>14 DEF SelectRun, Selects, Decides, UpToDate, WriteCase
  <2>2. /\ invocation[i].snap \in Nat /\ invocation[i].revision \in Nat /\ invocation[i].hash \in Hashes
    BY <1>c DEF InvocationDocs
  <2>3. /\ caseDoc.watermark <= invocation[i].snap + 1 /\ invocation[i].snap <= now
        /\ \A h \in Hashes : caseDoc.evidence[h] <= invocation[i].snap + 1
        /\ \A c \in Committed : HasRead(c, invocation[i].snap)
    BY <2>1 DEF SourceInv, ReaderAccounts
  <2>4. NewRun(i) \in RunDocs /\ NewRun(i).snap = invocation[i].snap /\ NewRun(i).revision \in Nat
    BY <2>2 DEF NewRun, RunDocs
  <2>5. WatermarkAfter(i) \in Nat /\ WatermarkAfter(i) <= invocation[i].snap + 1
    <3> DEFINE S == {caseDoc.watermark, ReadMicros(invocation[i].snap), caseDoc.evidence[invocation[i].hash]}
    <3>1. ReadMicros(invocation[i].snap) \in Nat /\ ReadMicros(invocation[i].snap) <= invocation[i].snap
      BY <2>2, ReadBeforeSnap
    <3>2. caseDoc.watermark \in Nat /\ caseDoc.evidence[invocation[i].hash] \in Nat
      BY <1>a, <2>2 DEF Typed, CaseDocs
    <3>3. S \subseteq Nat /\ S # {} /\ \A x \in S : x <= invocation[i].snap + 1
      BY <2>2, <2>3, <3>1, <3>2
    <3>4. WatermarkAfter(i) = Max(S)
      BY DEF WatermarkAfter
    <3> HIDE DEF S
    <3>5. Max(S) \in S
      BY <2>2, <3>3, MaxIsGreatest
    <3> QED BY <3>3, <3>4, <3>5
  <2>6. PICK verdict \in {"match", "discrepancy", "malformed"}, horizonAhead \in BOOLEAN :
          /\ alertDoc' = IF verdict # "match" THEN "open"
                         ELSE IF caseDoc.alert \in {"open", "acknowledged"} THEN "resolved" ELSE "none"
          /\ caseDoc' = [Release(caseDoc) EXCEPT
               !.selected = NewRun(i), !.revision = NewRun(i).revision, !.pending = FALSE, !.attempts = 0,
               !.state = IF verdict = "malformed" THEN "permanently_unverifiable" ELSE "validated",
               !.alert = alertDoc', !.eligible = ~horizonAhead, !.sweep = horizonAhead,
               !.watermark = WatermarkAfter(i)]
    BY <1>14 DEF SelectRun, WriteCase
  <2>7. alertDoc' \in AlertStates
    BY <2>6 DEF AlertStates
  <2>8. PICK s \in RestStates :
          caseDoc' = [caseDoc EXCEPT !.owner = NoOwner, !.lapsed = FALSE,
               !.selected = NewRun(i), !.revision = NewRun(i).revision, !.pending = FALSE, !.attempts = 0,
               !.state = s, !.alert = alertDoc', !.eligible = ~horizonAhead, !.sweep = horizonAhead,
               !.watermark = WatermarkAfter(i)]
    BY <1>a, <2>6 DEF Release, RestStates, Typed, CaseDocs
  <2>9. /\ caseDoc' \in CaseDocs /\ caseDoc'.selected = NewRun(i) /\ caseDoc'.ledger = caseDoc.ledger
        /\ caseDoc'.watermark = WatermarkAfter(i) /\ caseDoc'.evidence = caseDoc.evidence
    <3>1. 0 \in 0..MaxRevalidation
      BY DEF CloseValidationAssumption
    <3> QED BY <1>a, <2>4, <2>5, <2>7, <2>8, <3>1 DEF Typed, CaseDocs
  <2>10. CaseTypeOK'
    BY <1>a, <1>b, <1>e, <2>1, <2>4, <2>7, <2>9 DEF Typed
  <2>11. Committed' = Committed
    BY <2>1 DEF Committed
  <2>12. EventsOnce'
    BY <2>1, <2>9, <2>11 DEF SourceInv, EventsOnce
  <2>13. SourcesAccounted'
    BY <2>1, <2>3, <2>4, <2>9, <2>11 DEF SourcesAccounted, HasRead
  <2>14. WatermarkSound'
    <3>1. WatermarkAfter(i) <= now + 1 /\ WatermarkAfter(i) <= NewRun(i).snap + 1
      BY <1>a, <2>2, <2>3, <2>4, <2>5 DEF Typed
    <3> QED BY <2>1, <2>9, <3>1 DEF SourceInv, WatermarkSound
  <2>15. ReaderAccounts'
    BY <2>1 DEF ReaderAccounts
  <2> QED BY <2>10, <2>12, <2>13, <2>14, <2>15 DEF SourceInv
<1> QED BY <1>1, <1>2, <1>3, <1>4, <1>5, <1>6, <1>7, <1>8, <1>10, <1>11, <1>12, <1>13, <1>14 DEF CaseNext

(* The alert of a shift, the runs over its sources and the invocations of  *)
(* the worker are of their types.                                          *)
THEOREM CaseTyped == ASSUME CloseValidationAssumption PROVE ValidationSpec => []CaseTypeOK
<1>1. CaseInit => SourceInv
  BY CaseInitInv
<1>2. SourceInv /\ [CaseNext]_caseVars => SourceInv'
  BY CaseStep
<1>3. SourceInv => CaseTypeOK
  BY DEF SourceInv
<1> QED BY <1>1, <1>2, <1>3, PTL DEF ValidationSpec

(* No write to a closed shift is forgotten by its validation: any number   *)
(* of writes, events delayed or delivered again, and invocations.          *)
THEOREM SourcesStayAccounted == ASSUME CloseValidationAssumption PROVE ValidationSpec => []SourcesAccounted
<1>1. CaseInit => SourceInv
  BY CaseInitInv
<1>2. SourceInv /\ [CaseNext]_caseVars => SourceInv'
  BY CaseStep
<1>3. SourceInv => SourcesAccounted
  BY DEF SourceInv
<1> QED BY <1>1, <1>2, <1>3, PTL DEF ValidationSpec

-----------------------------------------------------------------------------
(* The sale intent journal.  A sale is on the server from the moment its   *)
(* write is taken, and a write that was denied is not; what a sweep heard  *)
(* stays so while it is on its way to the journal.                         *)
WriteTellsServer ==
  \A o \in Sales : /\ write[o] \in {"taken", "resolved"} => o \in onServer
                   /\ write[o] \in {"none", "queued", "denied"} => o \notin onServer
RejectedIsDenied == \A o \in Sales : saleIntent[o] = "rejected_by_rules" => write[o] = "denied"
HeardIsTrue ==
  \A k \in Lookups : lookup[k].at = "looked" =>
    lookup[k].order \in Sales /\ (lookup[k].exists => lookup[k].order \in onServer)

LookupRecords == [at : {"idle", "listed", "looked"}, listed : [Sales -> IntentStatuses \cup {"none"}],
                  todo : SUBSET Sales, order : Sales \cup {NoSale}, exists : BOOLEAN]
IntentInv == IntentTypeOK /\ WriteTellsServer /\ RejectedIsDenied /\ HeardIsTrue /\ JournalIsTrue

(* A terminal that has sold nothing.                                       *)
LEMMA IntentInitInv == ASSUME IntentAssumption, IntentInit PROVE IntentInv
  BY DEF IntentAssumption, IntentInit, IntentInv, IntentTypeOK, WriteTellsServer, RejectedIsDenied,
         HeardIsTrue, JournalIsTrue, NoLookup

(* A status that the matrix allows, or that it refuses, is a status.       *)
LEMMA TransitionType ==
  ASSUME IntentTypeOK, NEW o \in Sales, NEW to \in IntentStatuses, TransitionStatus(o, to)
  PROVE  /\ saleIntent' \in [Sales -> IntentStatuses \cup {"none"}]
         /\ \A p \in Sales : saleIntent'[p] # saleIntent[p] => p = o /\ saleIntent'[p] = to
  BY DEF IntentTypeOK, TransitionStatus

(* Every step keeps the journal true.                                      *)
LEMMA IntentStep ==
  ASSUME IntentAssumption, IntentInv, [IntentNext]_intentVars PROVE IntentInv'
<1> USE DEF IntentInv, IntentTypeOK, WriteTellsServer, RejectedIsDenied, HeardIsTrue, JournalIsTrue
<1>1. ASSUME NEW o \in Sales, QueueSaleWrite(o) PROVE IntentInv'
  BY <1>1 DEF QueueSaleWrite
<1>2. ASSUME NEW o \in Sales, Taken(o) PROVE IntentInv'
  BY <1>2 DEF Taken
<1>3. ASSUME NEW o \in Sales, NEW outcome \in {"resolved", "denied", "failed"}, Settles(o, outcome)
      PROVE  IntentInv'
  BY <1>3 DEF Settles
<1>4. ASSUME NEW o \in Sales, EnqueueSaleIntent(o) PROVE IntentInv'
  BY <1>4 DEF EnqueueSaleIntent, Observes, IntentStatuses
<1>5. ASSUME NEW o \in Sales, MarkFlushedToCache(o) PROVE IntentInv'
  <2>1. "flushed_to_cache" \in IntentStatuses
    BY DEF IntentStatuses
  <2>2. /\ saleIntent' \in [Sales -> IntentStatuses \cup {"none"}]
        /\ \A p \in Sales : saleIntent'[p] # saleIntent[p] => saleIntent'[p] = "flushed_to_cache"
    BY <1>5, <2>1, TransitionType DEF MarkFlushedToCache
  <2> QED
    BY <1>5, <2>2 DEF MarkFlushedToCache, Observes
<1>6. ASSUME NEW o \in Sales, HearOfWrite(o) PROVE IntentInv'
  <2>1. StatusOf(write[o]) \in IntentStatuses
    BY <1>6 DEF HearOfWrite, StatusOf, IntentStatuses
  <2>2. /\ saleIntent' \in [Sales -> IntentStatuses \cup {"none"}]
        /\ \A p \in Sales : saleIntent'[p] # saleIntent[p] => p = o /\ saleIntent'[p] = StatusOf(write[o])
    BY <1>6, <2>1, TransitionType DEF HearOfWrite
  <2>3. /\ StatusOf(write[o]) = "server_acknowledged" => o \in onServer
        /\ StatusOf(write[o]) = "rejected_by_rules" => write[o] = "denied"
    BY <1>6 DEF HearOfWrite, StatusOf
  <2> QED
    BY <1>6, <2>2, <2>3 DEF HearOfWrite, Observes
<1>7. ASSUME NEW k \in Lookups, ListSaleIntents(k) PROVE IntentInv'
  <2>1. PICK stale \in SUBSET Sales :
          lookup' = [lookup EXCEPT ![k] = [NoLookup EXCEPT !.at = "listed", !.listed = saleIntent, !.todo = stale]]
    BY <1>7 DEF ListSaleIntents
  <2> DEFINE new == [NoLookup EXCEPT !.at = "listed", !.listed = saleIntent, !.todo = stale]
  <2>2. new.at = "listed" /\ new \in LookupRecords
    BY DEF NoLookup, LookupRecords
  <2> HIDE DEF new
  <2>3. lookup' = [lookup EXCEPT ![k] = new]
    BY <2>1 DEF new
  <2>4. UNCHANGED <<write, onServer, saleIntent, observer, reloads>>
    BY <1>7 DEF ListSaleIntents
  <2>5. lookup' \in [Lookups -> LookupRecords]
    BY <2>2, <2>3 DEF LookupRecords
  <2>6. \A j \in Lookups : lookup'[j] = lookup[j] \/ lookup'[j].at = "listed"
    BY <2>2, <2>3
  <2>7. HeardIsTrue'
    BY <2>4, <2>6
  <2>8. IntentTypeOK'
    BY <2>4, <2>5 DEF LookupRecords
  <2> QED
    BY <2>4, <2>7, <2>8
<1>8. ASSUME NEW k \in Lookups, LookupAsyncOrder(k) PROVE IntentInv'
  <2>1. PICK o \in lookup[k].todo :
          lookup' = [lookup EXCEPT ![k] = [at |-> "looked", listed |-> lookup[k].listed,
                                           todo |-> lookup[k].todo \ {o}, order |-> o, exists |-> Exists(o)]]
    BY <1>8 DEF LookupAsyncOrder
  <2>2. o \in Sales /\ Exists(o) \in BOOLEAN
    BY <2>1 DEF Exists
  <2>3. UNCHANGED <<write, onServer, saleIntent, observer, reloads>>
    BY <1>8 DEF LookupAsyncOrder
  <2>4. IntentTypeOK'
    BY <2>1, <2>2, <2>3
  <2>5. HeardIsTrue'
    BY <2>1, <2>2, <2>3 DEF Exists
  <2> QED
    BY <2>3, <2>4, <2>5
<1>9. ASSUME NEW k \in Lookups, ApplySweepDecision(k) PROVE IntentInv'
  <2>1. "server_acknowledged" \in IntentStatuses
    BY DEF IntentStatuses
  <2>2. /\ saleIntent' \in [Sales -> IntentStatuses \cup {"none"}]
        /\ \A p \in Sales : saleIntent'[p] # saleIntent[p] =>
             saleIntent'[p] = "server_acknowledged" /\ p \in onServer
    BY <1>9, <2>1, TransitionType DEF ApplySweepDecision
  <2> DEFINE new == [lookup[k] EXCEPT !.at = "listed", !.order = NoSale]
  <2>3. lookup' = [lookup EXCEPT ![k] = new]
    BY <1>9 DEF ApplySweepDecision
  <2>4. lookup[k] \in LookupRecords
    BY DEF LookupRecords
  <2>5. new.at = "listed" /\ new \in LookupRecords
    BY <2>4 DEF LookupRecords
  <2> HIDE DEF new
  <2>6. UNCHANGED <<write, onServer, observer, reloads>>
    BY <1>9 DEF ApplySweepDecision
  <2> QED
    BY <2>2, <2>3, <2>5, <2>6 DEF LookupRecords
<1>10. ASSUME NEW k \in Lookups, EndLookups(k) PROVE IntentInv'
  BY <1>10 DEF EndLookups, NoLookup
<1>11. CASE Reload
  BY <1>11 DEF Reload, NoLookup, IntentAssumption
<1>12. CASE UNCHANGED intentVars
  BY <1>12 DEF intentVars
<1> QED
  BY <1>1, <1>2, <1>3, <1>4, <1>5, <1>6, <1>7, <1>8, <1>9, <1>10, <1>11, <1>12 DEF IntentNext

(* The journal, its writes and its sweeps are of their types.              *)
THEOREM IntentTyped == ASSUME IntentAssumption PROVE IntentSpec => []IntentTypeOK
<1>1. IntentInit => IntentInv
  BY IntentInitInv
<1>2. IntentInv /\ [IntentNext]_intentVars => IntentInv'
  BY IntentStep
<1>3. IntentInv => IntentTypeOK
  BY DEF IntentInv
<1> QED BY <1>1, <1>2, <1>3, PTL DEF IntentSpec

(* A sale that the journal calls acknowledged is on the server, and one    *)
(* that it calls rejected is not, whatever the observer, the sweeps and    *)
(* the restarts do.                                                        *)
THEOREM JournalSound == ASSUME IntentAssumption PROVE IntentSpec => []JournalIsTrue
<1>1. IntentInit => IntentInv
  BY IntentInitInv
<1>2. IntentInv /\ [IntentNext]_intentVars => IntentInv'
  BY IntentStep
<1>3. IntentInv => JournalIsTrue
  BY DEF IntentInv
<1> QED
  BY <1>1, <1>2, <1>3, PTL DEF IntentSpec

-----------------------------------------------------------------------------
(* The store.  A native process that is up has written its floor, and it   *)
(* started over no migration that was broken off.                          *)
BootInv ==
  /\ BootTypeOK
  /\ native \in {"checked", "up"} => disk.manifest # "COPYING"
  /\ native = "up" => disk.floor
  /\ authority \notin {"copied", "legacy"}

(* The three disks a terminal may start from.                              *)
LEMMA BootInitInv == ASSUME BootAssumption, BootInit PROVE BootInv
<1>1. disk \in [floor : BOOLEAN, manifest : {"absent", "COPYING", "COMMITTED"}, files : {"none", "some", "all"}]
  <2>1. CASE disk = [floor |-> FALSE, manifest |-> "absent", files |-> "none"]
    BY <2>1
  <2>2. CASE disk = [floor |-> TRUE, manifest |-> "COMMITTED", files |-> "all"]
    BY <2>2
  <2>3. CASE disk = [floor |-> FALSE, manifest |-> "COPYING", files |-> "some"]
    BY <2>3
  <2> QED
    BY <2>1, <2>2, <2>3 DEF BootInit, Disks
<1>2. migrated \in BOOLEAN
  BY DEF BootInit
<1>3. native = "down" /\ authority = "none" /\ starts \in 0..MaxStarts
  BY DEF BootInit, BootAssumption
<1> QED
  BY <1>1, <1>2, <1>3 DEF BootInv, BootTypeOK

(* The gates and the floor leave no way to the cutover.                    *)
LEMMA BootStep == ASSUME BootAssumption, BootInv, [BootNext]_bootVars PROVE BootInv'
<1> USE DEF BootInv, BootTypeOK
<1>1. CASE Start
  BY <1>1 DEF Start, StartupIntegrity, CommittedStateValid, DurableFilesExist, BootAssumption
<1>2. CASE WriteFloor
  BY <1>2 DEF WriteFloor
<1>3. CASE BootNativeDurableStore
  <2>1. ManifestReadable => disk.manifest = "COMMITTED"
    BY <1>3 DEF BootNativeDurableStore, ManifestReadable, PriorStateExists
  <2>2. UNCHANGED disk /\ authority' \in {"blocked", "native"}
    BY <1>3, <2>1 DEF BootNativeDurableStore
  <2> QED
    BY <1>3, <2>2 DEF BootNativeDurableStore
<1>4. CASE Stop
  BY <1>4 DEF Stop
<1>5. CASE LoseFiles
  BY <1>5 DEF LoseFiles
<1>6. CASE UNCHANGED bootVars
  BY <1>6 DEF bootVars
<1> QED
  BY <1>1, <1>2, <1>3, <1>4, <1>5, <1>6 DEF BootNext

(* The files of the store and the authority over them are of their types.  *)
THEOREM BootTyped == ASSUME BootAssumption PROVE BootSpec => []BootTypeOK
<1>1. BootInit => BootInv
  BY BootInitInv
<1>2. BootInv /\ [BootNext]_bootVars => BootInv'
  BY BootStep
<1>3. BootInv => BootTypeOK
  BY DEF BootInv
<1> QED BY <1>1, <1>2, <1>3, PTL DEF BootSpec

(* A terminal that has worked on the native store never goes back to       *)
(* IndexedDB nor to a new copy of it, however often it is started and      *)
(* whatever files it loses.                                                *)
THEOREM MigrationSound == ASSUME BootAssumption PROVE BootSpec => MigrationIsFinal
<1>1. BootInit => BootInv
  BY BootInitInv
<1>2. BootInv /\ [BootNext]_bootVars => BootInv'
  BY BootStep
<1>3. BootInv' => [migrated => authority' \notin {"legacy", "copied"}]_bootVars
  BY DEF BootInv
<1> QED
  BY <1>1, <1>2, <1>3, PTL DEF BootSpec, MigrationIsFinal

-----------------------------------------------------------------------------
(* The opening of a shift.  One create is ever on its way for a shift: in  *)
(* the hands of the call or of the sweep that claimed it, or in the queue. *)
(* When it is gone, the shift is on the server or it was refused for good. *)
CallHolds(c, s) == opening[c].at = "write" /\ opening[c].shift = s
WindowHolds(w, s) == reconcile[w][s] = "write"
Spent(s) ==
  /\ openIntent[s].create = "outstanding"
  /\ \A c \in Opens : ~CallHolds(c, s)
  /\ \A w \in Screens : ~WindowHolds(w, s)
  /\ \A x \in creates : x.shift # s

HoldersHaveClaimed ==
  \A s \in Shifts :
    /\ \A c \in Opens : CallHolds(c, s) => openIntent[s].create = "outstanding"
    /\ \A w \in Screens : WindowHolds(w, s) => openIntent[s].create = "outstanding"
    /\ \A x \in creates : x.shift = s => openIntent[s].create = "outstanding"
OneHolder ==
  \A s \in Shifts :
    /\ \A c \in Opens : CallHolds(c, s) =>
         /\ \A d \in Opens : CallHolds(d, s) => d = c
         /\ \A w \in Screens : ~WindowHolds(w, s)
         /\ \A x \in creates : x.shift # s
    /\ \A w \in Screens : WindowHolds(w, s) =>
         /\ \A v \in Screens : WindowHolds(v, s) => v = w
         /\ \A x \in creates : x.shift # s
    /\ \A x, y \in creates : x.shift = s /\ y.shift = s => x = y
CreatedIsSpent == \A s \in Shifts : shiftDoc[s] # "absent" => Spent(s)
DeniedIsSpent ==
  \A c \in Opens : opening[c].at = "denied" => Spent(opening[c].shift) /\ shiftDoc[opening[c].shift] = "absent"
RejectedIsSpent ==
  \A s \in Shifts : openIntent[s].status = "rejected_manual_attention" => Spent(s) /\ shiftDoc[s] = "absent"

(* A call that is to journal its shift has drawn it alone.                 *)
Journaled(s) == openIntent[s].status # "none" \/ openIntent[s].create # "none"
DrawnIsNew ==
  /\ \A c \in Opens : opening[c].at \notin {"idle", "done"} => opening[c].shift \in Shifts
  /\ \A c \in Opens : opening[c].at = "idle" => opening[c].shift = NoShift
  /\ \A c \in Opens : opening[c].at = "upsert" => ~Journaled(opening[c].shift)
  /\ \A c, d \in Opens : opening[c].at = "upsert" /\ opening[d].shift = opening[c].shift => c = d
JournaledIsDrawn == \A s \in Shifts : Journaled(s) => \E c \in Opens : opening[c].shift = s
AwaitsItsOwn == \A x \in creates : x.by \in Opens => opening[x.by].shift = x.shift
ReadOpen == \A w \in Screens, s \in Shifts : reconcile[w][s] = "open" => shiftDoc[s] # "absent"
SyncedIsThere == \A s \in Shifts : openIntent[s].status = "synced" => shiftDoc[s] # "absent"

OpensInv ==
  /\ OpensTypeOK /\ HoldersHaveClaimed /\ OneHolder /\ CreatedIsSpent /\ DeniedIsSpent /\ RejectedIsSpent
  /\ DrawnIsNew /\ JournaledIsDrawn /\ AwaitsItsOwn /\ ReadOpen /\ SyncedIsThere

(* Nothing is open and nothing is on its way.                              *)
LEMMA OpensInitInv == ASSUME OpensAssumption, OpensInit PROVE OpensInv
<1> USE DEF OpensAssumption, OpensInit, NoIntent
<1>1. OpensTypeOK
  BY DEF OpensTypeOK, ReconcileSteps
<1>2. \A s \in Shifts : openIntent[s].status = "none" /\ openIntent[s].create = "none"
  OBVIOUS
<1> QED
  BY <1>1, <1>2 DEF OpensInv, HoldersHaveClaimed, OneHolder, CreatedIsSpent, DeniedIsSpent, RejectedIsSpent,
       DrawnIsNew, JournaledIsDrawn, Journaled, AwaitsItsOwn, ReadOpen, SyncedIsThere, CallHolds, WindowHolds, Spent

(* A step that puts no create into anybody's hands, and records nothing    *)
(* but that a shift which is on the server is synced.                      *)
Quiet ==
  /\ OpensTypeOK'
  /\ \A d \in Opens : /\ opening'[d].shift = opening[d].shift
                      /\ opening'[d].at \in {"idle", "upsert", "write", "denied"} => opening'[d].at = opening[d].at
                      /\ opening'[d].at # "done" => opening[d].at # "done"
                      /\ opening[d].at = "idle" => opening'[d].at = "idle"
  /\ \A w \in Screens, s \in Shifts : /\ reconcile'[w][s] = "write" => reconcile[w][s] = "write"
                                      /\ reconcile'[w][s] = "open" => shiftDoc[s] # "absent"
  /\ \A s \in Shifts : /\ openIntent'[s].create = openIntent[s].create
                       /\ \/ openIntent'[s].status = openIntent[s].status
                          \/ /\ openIntent'[s].status = "synced" /\ shiftDoc[s] # "absent"
                             /\ openIntent[s].status # "none"
                       /\ shiftDoc'[s] = "absent" <=> shiftDoc[s] = "absent"
  /\ creates' \subseteq creates

(* Such a step keeps a shift to one create.                                *)
LEMMA QuietStep == ASSUME OpensInv, Quiet PROVE OpensInv'
<1> USE DEF OpensInv, Quiet, CallHolds, WindowHolds, Spent, Journaled
<1>0. \A s \in Shifts : Spent(s) => Spent(s)'
  OBVIOUS
<1>1. HoldersHaveClaimed'
  BY DEF HoldersHaveClaimed
<1>2. OneHolder'
  BY DEF OneHolder
<1>3. CreatedIsSpent'
  BY <1>0 DEF CreatedIsSpent
<1>4. DeniedIsSpent'
  BY <1>0 DEF DeniedIsSpent, DrawnIsNew
<1>5. RejectedIsSpent'
  BY <1>0 DEF RejectedIsSpent
<1>6. DrawnIsNew'
  BY DEF DrawnIsNew
<1>7. JournaledIsDrawn'
  BY DEF JournaledIsDrawn
<1>8. AwaitsItsOwn'
  BY DEF AwaitsItsOwn, OpensTypeOK
<1>9. ReadOpen' /\ SyncedIsThere'
  BY DEF ReadOpen, SyncedIsThere
<1> QED
  BY <1>1, <1>2, <1>3, <1>4, <1>5, <1>6, <1>7, <1>8, <1>9

(* A window moves one reconciliation.                                      *)
LEMMA ReconcileMoves ==
  ASSUME OpensTypeOK, NEW w \in Screens, NEW s \in Shifts, NEW to \in ReconcileSteps,
         reconcile' = [reconcile EXCEPT ![w][s] = to]
  PROVE  /\ reconcile' \in [Screens -> [Shifts -> ReconcileSteps]]
         /\ \A v \in Screens, t \in Shifts : reconcile'[v][t] = IF v = w /\ t = s THEN to ELSE reconcile[v][t]
  BY DEF OpensTypeOK

(* The create of a shift is claimed, and goes to one call or one window.   *)
Claims(s) ==
  /\ openIntent[s].status = "local_open_pending" /\ openIntent[s].create = "none"
  /\ openIntent'[s].status = "local_open_pending" /\ openIntent'[s].create = "outstanding"
  /\ \A t \in Shifts \ {s} : /\ openIntent'[t].status = openIntent[t].status
                             /\ openIntent'[t].create = openIntent[t].create

(* The one who claims is the only holder.                                  *)
LEMMA ClaimStep ==
  ASSUME OpensInv, OpensTypeOK', NEW s \in Shifts, Claims(s), UNCHANGED <<shiftDoc, creates>>,
         \A d \in Opens : opening'[d].shift = opening[d].shift,
         \/ /\ UNCHANGED opening
            /\ \E w \in Screens : \A v \in Screens, t \in Shifts :
                 reconcile'[v][t] = IF v = w /\ t = s THEN "write" ELSE reconcile[v][t]
         \/ /\ UNCHANGED reconcile
            /\ \E c \in Opens : /\ opening[c].shift = s /\ opening[c].at = "claim"
                                /\ \A d \in Opens : opening'[d].at = IF d = c THEN "write" ELSE opening[d].at
  PROVE  OpensInv'
<1> USE DEF OpensInv, Claims
<1>0. /\ \A t \in Shifts : Spent(t) => t # s
      /\ \A t \in Shifts : Spent(t) => Spent(t)'
  BY DEF Spent, CallHolds, WindowHolds
<1>1. HoldersHaveClaimed'
  BY DEF HoldersHaveClaimed, CallHolds, WindowHolds
<1>2. OneHolder'
  BY DEF OneHolder, HoldersHaveClaimed, CallHolds, WindowHolds
<1>3. CreatedIsSpent'
  BY <1>0 DEF CreatedIsSpent
<1>4. DeniedIsSpent'
  BY <1>0 DEF DeniedIsSpent, DrawnIsNew
<1>5. RejectedIsSpent'
  BY <1>0 DEF RejectedIsSpent
<1>6. DrawnIsNew'
  BY DEF DrawnIsNew, Journaled
<1>7. JournaledIsDrawn'
  BY DEF JournaledIsDrawn, Journaled
<1>8. AwaitsItsOwn'
  BY DEF AwaitsItsOwn
<1>9. ReadOpen' /\ SyncedIsThere'
  BY DEF ReadOpen, SyncedIsThere
<1> QED
  BY <1>1, <1>2, <1>3, <1>4, <1>5, <1>6, <1>7, <1>8, <1>9

(* Every step keeps a shift to one create.                                 *)
LEMMA OpensStep ==
  ASSUME OpensAssumption, OpensInv, [OpensNext]_openVars PROVE OpensInv'
<1>1. ASSUME NEW c \in Opens, ReconcileShiftOpenIntent(c) PROVE OpensInv'
  <2>1. Quiet
    BY <1>1 DEF Quiet, OpensInv, OpensTypeOK, ReconcileSteps, ReconcileShiftOpenIntent, OpenGoes,
         OpensAssumption, DrawnIsNew, ReadOpen
  <2> QED
    BY <2>1, QuietStep
<1>2. ASSUME NEW x \in creates, CreateFails(x, "failed") PROVE OpensInv'
  <2>1. UNCHANGED <<shiftDoc, openIntent, closedHere, reopened>> /\ creates' \subseteq creates
    BY <1>2 DEF CreateFails, AnswerCreate
  <2>2. /\ opening' = IF x.by \in Opens THEN [opening EXCEPT ![x.by].at = "done"] ELSE opening
        /\ reconcile' = IF x.by \in Screens THEN [reconcile EXCEPT ![x.by][x.shift] = "idle"] ELSE reconcile
    BY <1>2 DEF CreateFails, AnswerCreate
  <2>3. \A d \in Opens : opening'[d].shift = opening[d].shift
                       /\ opening'[d].at = IF d = x.by THEN "done" ELSE opening[d].at
    BY <2>2 DEF OpensInv, OpensTypeOK
  <2>4. \A w \in Screens, s \in Shifts : reconcile'[w][s] \in {reconcile[w][s], "idle"}
    BY <2>2 DEF OpensInv, OpensTypeOK
  <2>5. x.by \in Opens => opening[x.by].at # "idle"
    <3>1. x \in creates /\ x.shift \in Shifts
      BY <1>2 DEF OpensInv, OpensTypeOK, CreateFails
    <3> QED BY <3>1 DEF OpensInv, AwaitsItsOwn, DrawnIsNew, OpensAssumption
  <2>6. OpensTypeOK'
    <3>1. opening' \in [Opens -> [at : {"idle", "upsert", "claim", "write", "await", "denied", "reconcile", "done"},
                                  shift : Shifts \cup {NoShift}]]
      <4>1. opening \in [Opens -> [at : {"idle", "upsert", "claim", "write", "await", "denied", "reconcile", "done"},
                                   shift : Shifts \cup {NoShift}]]
        BY DEF OpensInv, OpensTypeOK
      <4> QED BY <2>2, <4>1
    <3>2. reconcile' \in [Screens -> [Shifts -> ReconcileSteps]]
      BY <2>2 DEF OpensInv, OpensTypeOK, ReconcileSteps
    <3> QED BY <2>1, <3>1, <3>2 DEF OpensInv, OpensTypeOK
  <2>7. Quiet
    BY <2>1, <2>3, <2>4, <2>5, <2>6 DEF Quiet, OpensInv, ReadOpen
  <2> QED
    BY <2>7, QuietStep
<1>3. ASSUME NEW w \in Screens, NEW s \in Shifts, RunShiftOpenReconciliationSweep(w, s) PROVE OpensInv'
  <2>1. Quiet
    BY <1>3 DEF Quiet, OpensInv, OpensTypeOK, ReconcileSteps, RunShiftOpenReconciliationSweep,
         ReconcileStep, ReadOpen
  <2> QED
    BY <2>1, QuietStep
<1>4. ASSUME NEW w \in Screens, NEW s \in Shifts, ReadConfirmation(w, s) PROVE OpensInv'
  <2>1. PICK to \in {"open", "absent", "idle"} : /\ reconcile' = [reconcile EXCEPT ![w][s] = to]
                                                 /\ to = "open" => shiftDoc[s] # "absent"
    <3>1. CASE shiftDoc[s] = "open" /\ (ReconcileStep(w, s, "read", "open") \/ ReconcileStep(w, s, "check", "open"))
      BY <3>1 DEF ReconcileStep
    <3>2. CASE shiftDoc[s] = "absent" /\ ReconcileStep(w, s, "read", "absent")
      BY <3>2 DEF ReconcileStep
    <3>3. CASE ReconcileStep(w, s, "read", "idle") \/ ReconcileStep(w, s, "check", "idle")
      BY <3>3 DEF ReconcileStep
    <3> QED
      BY <1>4, <3>1, <3>2, <3>3 DEF ReadConfirmation
  <2>2. UNCHANGED <<openIntent, shiftDoc, creates, opening, closedHere, reopened>>
    BY <1>4 DEF ReadConfirmation
  <2>3. /\ reconcile' \in [Screens -> [Shifts -> ReconcileSteps]]
        /\ \A v \in Screens, t \in Shifts : reconcile'[v][t] = IF v = w /\ t = s THEN to ELSE reconcile[v][t]
    <3>1. to \in ReconcileSteps
      BY <2>1 DEF ReconcileSteps
    <3> DEFINE mine == [reconcile[w] EXCEPT ![s] = to]
    <3>2. mine \in [Shifts -> ReconcileSteps] /\ \A t \in Shifts : mine[t] = IF t = s THEN to ELSE reconcile[w][t]
      BY <3>1 DEF OpensInv, OpensTypeOK
    <3>3. reconcile' = [reconcile EXCEPT ![w] = mine]
      BY <2>1
    <3> HIDE DEF mine
    <3> QED
      BY <3>2, <3>3 DEF OpensInv, OpensTypeOK
  <2>4. Quiet
    BY <2>1, <2>2, <2>3 DEF Quiet, OpensInv, OpensTypeOK, ReadOpen
  <2> QED
    BY <2>4, QuietStep
<1>5. ASSUME NEW w \in Screens, NEW s \in Shifts, CanSafelyReissue(w, s) PROVE OpensInv'
  <2>1. Quiet
    BY <1>5 DEF Quiet, OpensInv, OpensTypeOK, ReconcileSteps, CanSafelyReissue, ReconcileStep, ReadOpen
  <2> QED
    BY <2>1, QuietStep
<1>6. ASSUME NEW w \in Screens, NEW s \in Shifts, MarkSynced(w, s) PROVE OpensInv'
  <2>1. /\ reconcile' = [reconcile EXCEPT ![w][s] = "idle"] /\ shiftDoc[s] # "absent"
        /\ UNCHANGED <<shiftDoc, creates, opening, closedHere, reopened>>
    BY <1>6 DEF MarkSynced, ReconcileStep, OpensInv, ReadOpen
  <2>2. CASE UNCHANGED openIntent
    <3>1. Quiet
      <4>1. OpensTypeOK'
        BY <2>1, <2>2 DEF OpensInv, OpensTypeOK, ReconcileSteps
      <4> QED
        BY <2>1, <2>2, <4>1 DEF Quiet, OpensInv, OpensTypeOK, ReadOpen
    <3> QED
      BY <3>1, QuietStep
  <2>3. CASE OpenPending(s) /\ openIntent' = [openIntent EXCEPT ![s].status = "synced"]
    <3>1. Quiet
      <4>1. OpensTypeOK'
        BY <2>1, <2>3 DEF OpensInv, OpensTypeOK, ReconcileSteps
      <4> QED
        BY <2>1, <2>3, <4>1 DEF Quiet, OpensInv, OpensTypeOK, ReadOpen, OpenPending
    <3> QED
      BY <3>1, QuietStep
  <2> QED
    BY <1>6, <2>2, <2>3 DEF MarkSynced, MarkStatus
<1>7. ASSUME NEW s \in Shifts, ServerCloses(s) PROVE OpensInv'
  <2>1. Quiet
    BY <1>7 DEF Quiet, OpensInv, OpensTypeOK, ReconcileSteps, ServerCloses, ReadOpen
  <2> QED
    BY <2>1, QuietStep
<1>8. ASSUME NEW s \in Shifts, DeferredClose(s) PROVE OpensInv'
  <2>1. Quiet
    BY <1>8 DEF Quiet, OpensInv, OpensTypeOK, ReconcileSteps, DeferredClose, ReadOpen
  <2> QED
    BY <2>1, QuietStep
<1>9. ASSUME UNCHANGED openVars PROVE OpensInv'
  <2>1. Quiet
    BY <1>9 DEF Quiet, OpensInv, OpensTypeOK, ReconcileSteps, openVars, ReadOpen
  <2> QED
    BY <2>1, QuietStep
<1>10. ASSUME NEW c \in Opens, OpenShift(c) PROVE OpensInv'
  <2>1. UNCHANGED <<openIntent, shiftDoc, creates, reconcile, closedHere, reopened>> /\ opening[c].at = "idle"
    BY <1>10 DEF OpenShift
  <2>2. PICK s \in Shifts, to \in {"reconcile", "upsert"} :
          /\ opening' = [opening EXCEPT ![c] = [at |-> to, shift |-> s]]
          /\ to = "upsert" => s \notin Drawn
          /\ to = "reconcile" => OpenPending(s)
    BY <1>10 DEF OpenShift
  <2>3. OpensTypeOK'
    BY <2>1, <2>2 DEF OpensInv, OpensTypeOK
  <2>4. \A d \in Opens : /\ d = c => opening'[d].at = to /\ opening'[d].shift = s
                         /\ d # c => opening'[d].at = opening[d].at /\ opening'[d].shift = opening[d].shift
    BY <2>2 DEF OpensInv, OpensTypeOK
  <2>5. to = "upsert" => \A d \in Opens : opening[d].shift # s
    BY <2>2 DEF Drawn
  <2>6. opening[c].shift = NoShift
    BY <2>1 DEF OpensInv, DrawnIsNew
  <2>7. \A t \in Shifts : Spent(t) => Spent(t)'
    BY <2>1, <2>2, <2>4 DEF Spent, CallHolds, WindowHolds
  <2>8. HoldersHaveClaimed' /\ OneHolder'
    BY <2>1, <2>2, <2>4 DEF OpensInv, HoldersHaveClaimed, OneHolder, CallHolds, WindowHolds
  <2>9. CreatedIsSpent' /\ RejectedIsSpent'
    BY <2>1, <2>7 DEF OpensInv, CreatedIsSpent, RejectedIsSpent
  <2>10. DeniedIsSpent'
    BY <2>1, <2>2, <2>4, <2>7 DEF OpensInv, DeniedIsSpent, DrawnIsNew
  <2>11. DrawnIsNew'
    BY <2>1, <2>2, <2>4, <2>5, <2>6 DEF OpensInv, DrawnIsNew, JournaledIsDrawn, Journaled, OpenPending
  <2>12. JournaledIsDrawn'
    BY <2>1, <2>4, <2>6, OpensAssumption DEF OpensInv, JournaledIsDrawn, Journaled, OpensAssumption
  <2>13. AwaitsItsOwn'
    BY <2>1, <2>4, <2>6, OpensAssumption DEF OpensInv, OpensTypeOK, AwaitsItsOwn, OpensAssumption
  <2>14. ReadOpen' /\ SyncedIsThere'
    BY <2>1 DEF OpensInv, ReadOpen, SyncedIsThere
  <2> QED
    BY <2>3, <2>8, <2>9, <2>10, <2>11, <2>12, <2>13, <2>14 DEF OpensInv
<1>11. ASSUME NEW c \in Opens, UpsertOpenIntent(c) PROVE OpensInv'
  <2> DEFINE s == opening[c].shift
  <2>1. /\ UNCHANGED <<shiftDoc, creates, reconcile, closedHere, reopened>>
        /\ s \in Shifts /\ ~Journaled(s) /\ opening[c].at = "upsert" /\ opening[c].shift = s
    BY <1>11 DEF UpsertOpenIntent, OpensInv, DrawnIsNew
  <2> HIDE DEF s
  <2>2. CASE UNCHANGED openIntent /\ OpenGoes(c, "done")
    <3>1. Quiet
      <4>1. OpensTypeOK' /\ \A d \in Opens : /\ opening'[d].shift = opening[d].shift
                                             /\ opening'[d].at = IF d = c THEN "done" ELSE opening[d].at
        BY <2>1, <2>2 DEF OpensInv, OpensTypeOK, OpenGoes
      <4> QED
        BY <2>1, <2>2, <4>1 DEF Quiet, OpensInv, ReadOpen
    <3> QED
      BY <3>1, QuietStep
  <2>3. CASE /\ openIntent' = [openIntent EXCEPT ![s] = [status |-> "local_open_pending", create |-> "none"]]
             /\ OpenGoes(c, "claim")
    <3>1. OpensTypeOK'
      <4>1. opening' \in [Opens -> [at : {"idle", "upsert", "claim", "write", "await", "denied", "reconcile", "done"},
                                    shift : Shifts \cup {NoShift}]]
        BY <2>1, <2>3 DEF OpensInv, OpensTypeOK, OpenGoes
      <4>2. openIntent' \in [Shifts -> [status : {"none", "local_open_pending", "synced", "rejected_manual_attention"},
                                        create : {"none", "outstanding"}]]
        <5>1. openIntent \in [Shifts -> [status : {"none", "local_open_pending", "synced", "rejected_manual_attention"},
                                               create : {"none", "outstanding"}]]
          BY DEF OpensInv, OpensTypeOK
        <5> QED BY <5>1, <2>1, <2>3
      <4> QED
        BY <2>1, <4>1, <4>2 DEF OpensInv, OpensTypeOK
    <3>2. \A t \in Shifts : /\ openIntent'[t].create = openIntent[t].create
                            /\ openIntent'[t].status = IF t = s THEN "local_open_pending" ELSE openIntent[t].status
      BY <2>1, <2>3 DEF OpensInv, OpensTypeOK, Journaled
    <3>3. \A d \in Opens : /\ opening'[d].shift = opening[d].shift
                           /\ opening'[d].at = IF d = c THEN "claim" ELSE opening[d].at
      BY <2>3 DEF OpensInv, OpensTypeOK, OpenGoes
    <3>4. \A t \in Shifts : Spent(t) => Spent(t)'
      BY <2>1, <3>2, <3>3 DEF Spent, CallHolds, WindowHolds
    <3>5. HoldersHaveClaimed' /\ OneHolder'
      BY <2>1, <3>2, <3>3 DEF OpensInv, HoldersHaveClaimed, OneHolder, CallHolds, WindowHolds
    <3>6. CreatedIsSpent' /\ RejectedIsSpent'
      BY <2>1, <3>2, <3>4 DEF OpensInv, CreatedIsSpent, RejectedIsSpent
    <3>7. DeniedIsSpent'
      BY <2>1, <3>3, <3>4 DEF OpensInv, DeniedIsSpent, DrawnIsNew
    <3>8. DrawnIsNew'
      BY <2>1, <3>2, <3>3 DEF OpensInv, DrawnIsNew, Journaled
    <3>9. JournaledIsDrawn'
      BY <2>1, <3>2, <3>3 DEF OpensInv, JournaledIsDrawn, Journaled
    <3>10. AwaitsItsOwn'
      BY <2>1, <3>3 DEF OpensInv, OpensTypeOK, AwaitsItsOwn
    <3>11. ReadOpen' /\ SyncedIsThere'
      BY <2>1, <3>2 DEF OpensInv, ReadOpen, SyncedIsThere
    <3> QED
      BY <3>1, <3>5, <3>6, <3>7, <3>8, <3>9, <3>10, <3>11 DEF OpensInv
  <2> QED
    BY <1>11, <2>2, <2>3 DEF UpsertOpenIntent, s
<1>12. ASSUME NEW c \in Opens, MarkRejectedManualAttention(c) PROVE OpensInv'
  <2> DEFINE s == opening[c].shift
  <2>1. /\ UNCHANGED <<shiftDoc, creates, reconcile, closedHere, reopened>> /\ OpenGoes(c, "done")
        /\ opening[c].at = "denied" /\ s \in Shifts /\ Spent(s) /\ shiftDoc[s] = "absent"
    BY <1>12 DEF MarkRejectedManualAttention, OpensInv, DrawnIsNew, DeniedIsSpent
  <2> HIDE DEF s
  <2>2. CASE UNCHANGED openIntent
    <3>1. Quiet
      <4>1. OpensTypeOK' /\ \A d \in Opens : /\ opening'[d].shift = opening[d].shift
                                             /\ opening'[d].at = IF d = c THEN "done" ELSE opening[d].at
        BY <2>1, <2>2 DEF OpensInv, OpensTypeOK, OpenGoes
      <4> QED
        BY <2>1, <2>2, <4>1 DEF Quiet, OpensInv, ReadOpen
    <3> QED
      BY <3>1, QuietStep
  <2>3. CASE OpenPending(s) /\ openIntent' = [openIntent EXCEPT ![s].status = "rejected_manual_attention"]
    <3>1. OpensTypeOK'
      <4>1. opening' \in [Opens -> [at : {"idle", "upsert", "claim", "write", "await", "denied", "reconcile", "done"},
                                    shift : Shifts \cup {NoShift}]]
        BY <2>1, <2>3 DEF OpensInv, OpensTypeOK, OpenGoes
      <4>2. openIntent' \in [Shifts -> [status : {"none", "local_open_pending", "synced", "rejected_manual_attention"},
                                        create : {"none", "outstanding"}]]
        <5>1. openIntent \in [Shifts -> [status : {"none", "local_open_pending", "synced", "rejected_manual_attention"},
                                               create : {"none", "outstanding"}]]
          BY DEF OpensInv, OpensTypeOK
        <5> QED BY <5>1, <2>1, <2>3
      <4> QED
        BY <2>1, <4>1, <4>2 DEF OpensInv, OpensTypeOK
    <3>2. \A t \in Shifts : /\ openIntent'[t].create = openIntent[t].create
                            /\ openIntent'[t].status = IF t = s THEN "rejected_manual_attention" ELSE openIntent[t].status
      BY <2>1, <2>3 DEF OpensInv, OpensTypeOK
    <3>3. \A d \in Opens : /\ opening'[d].shift = opening[d].shift
                           /\ opening'[d].at = IF d = c THEN "done" ELSE opening[d].at
      BY <2>1 DEF OpensInv, OpensTypeOK, OpenGoes
    <3>4. \A t \in Shifts : Spent(t) => Spent(t)'
      BY <2>1, <3>2, <3>3 DEF Spent, CallHolds, WindowHolds
    <3>5. HoldersHaveClaimed' /\ OneHolder'
      BY <2>1, <3>2, <3>3 DEF OpensInv, HoldersHaveClaimed, OneHolder, CallHolds, WindowHolds
    <3>6. CreatedIsSpent' /\ RejectedIsSpent'
      BY <2>1, <3>2, <3>4 DEF OpensInv, CreatedIsSpent, RejectedIsSpent
    <3>7. DeniedIsSpent'
      BY <2>1, <3>3, <3>4 DEF OpensInv, DeniedIsSpent, DrawnIsNew
    <3>8. DrawnIsNew'
      BY <2>1, <2>3, <3>2, <3>3 DEF OpensInv, DrawnIsNew, Journaled, OpenPending
    <3>9. JournaledIsDrawn'
      BY <2>1, <2>3, <3>2, <3>3 DEF OpensInv, JournaledIsDrawn, Journaled, OpenPending
    <3>10. AwaitsItsOwn'
      BY <2>1, <3>3 DEF OpensInv, OpensTypeOK, AwaitsItsOwn
    <3>11. ReadOpen' /\ SyncedIsThere'
      BY <2>1, <3>2 DEF OpensInv, ReadOpen, SyncedIsThere
    <3> QED
      BY <3>1, <3>5, <3>6, <3>7, <3>8, <3>9, <3>10, <3>11 DEF OpensInv
  <2> QED
    BY <1>12, <2>2, <2>3 DEF MarkRejectedManualAttention, MarkStatus, s
<1>13. ASSUME NEW c \in Opens, SetDoc(c) PROVE OpensInv'
  <2>1. OpensTypeOK'
    BY <1>13 DEF SetDoc, OpenGoes, OpensInv, OpensTypeOK, DrawnIsNew
  <2>2. HoldersHaveClaimed'
    BY <1>13 DEF SetDoc, OpenGoes, OpensInv, OpensTypeOK, HoldersHaveClaimed, CallHolds, WindowHolds,
         DrawnIsNew, CreatedIsSpent
  <2>3. OneHolder'
    BY <1>13 DEF SetDoc, OpenGoes, OpensInv, OpensTypeOK, OneHolder, CallHolds, WindowHolds,
         HoldersHaveClaimed, DrawnIsNew
  <2>4. CreatedIsSpent'
    BY <1>13 DEF SetDoc, OpenGoes, OpensInv, OpensTypeOK, CreatedIsSpent, Spent, CallHolds, WindowHolds,
         HoldersHaveClaimed, OneHolder, DrawnIsNew
  <2>5. DeniedIsSpent'
    BY <1>13 DEF SetDoc, OpenGoes, OpensInv, OpensTypeOK, DeniedIsSpent, Spent, CallHolds, WindowHolds,
         HoldersHaveClaimed, OneHolder, DrawnIsNew, CreatedIsSpent, AwaitsItsOwn
  <2>6. RejectedIsSpent'
    BY <1>13 DEF SetDoc, OpenGoes, OpensInv, OpensTypeOK, RejectedIsSpent, Spent, CallHolds, WindowHolds,
         HoldersHaveClaimed, OneHolder, DrawnIsNew, DeniedIsSpent
  <2>7. DrawnIsNew'
    BY <1>13 DEF SetDoc, OpenGoes, OpensInv, OpensTypeOK, DrawnIsNew, Journaled, AwaitsItsOwn,
         OpensAssumption
  <2>8. JournaledIsDrawn'
    BY <1>13 DEF SetDoc, OpenGoes, OpensInv, OpensTypeOK, JournaledIsDrawn, Journaled, DrawnIsNew,
         HoldersHaveClaimed
  <2>9. AwaitsItsOwn'
    BY <1>13 DEF SetDoc, OpenGoes, OpensInv, OpensTypeOK, AwaitsItsOwn, DrawnIsNew
  <2>10. ReadOpen'
    BY <1>13 DEF SetDoc, OpenGoes, OpensInv, OpensTypeOK, ReadOpen
  <2>11. SyncedIsThere'
    BY <1>13 DEF SetDoc, OpenGoes, OpensInv, OpensTypeOK, SyncedIsThere
  <2> QED
    BY <2>1, <2>2, <2>3, <2>4, <2>5, <2>6, <2>7, <2>8, <2>9, <2>10, <2>11 DEF OpensInv
<1>14. ASSUME NEW x \in creates, CreateTaken(x) PROVE OpensInv'
  <2>1. OpensTypeOK'
    <3>1. x.shift \in Shifts
      BY DEF OpensInv, OpensTypeOK
    <3>2. shiftDoc' \in [Shifts -> {"absent", "open", "closed"}]
      BY <1>14, <3>1 DEF CreateTaken, OpensInv, OpensTypeOK
    <3>3. AnswerCreate(x, "acked")
      BY <1>14 DEF CreateTaken
    <3>4. /\ creates' \subseteq [shift : Shifts, by : Opens \cup Screens \cup {Nobody}]
          /\ UNCHANGED <<openIntent, closedHere, reopened>>
      BY <3>3 DEF AnswerCreate, OpensInv, OpensTypeOK
    <3>5. opening' \in [Opens -> [at : {"idle", "upsert", "claim", "write", "await", "denied", "reconcile", "done"},
                                  shift : Shifts \cup {NoShift}]]
      BY <3>3, Z3 DEF AnswerCreate, OpensInv, OpensTypeOK
    <3>6. reconcile' \in [Screens -> [Shifts -> ReconcileSteps]]
      BY <3>1, <3>3, ReconcileMoves DEF AnswerCreate, OpensInv, OpensTypeOK, ReconcileSteps
    <3> QED
      BY <3>1, <3>2, <3>4, <3>5, <3>6 DEF OpensInv, OpensTypeOK
  <2>2. HoldersHaveClaimed'
    BY <1>14 DEF CreateTaken, AnswerCreate, OpensInv, OpensTypeOK, HoldersHaveClaimed, CallHolds,
         WindowHolds, DrawnIsNew, CreatedIsSpent
  <2>3. OneHolder'
    BY <1>14 DEF CreateTaken, AnswerCreate, OpensInv, OpensTypeOK, OneHolder, CallHolds, WindowHolds,
         HoldersHaveClaimed, DrawnIsNew
  <2>4. CreatedIsSpent'
    BY <1>14 DEF CreateTaken, AnswerCreate, OpensInv, OpensTypeOK, CreatedIsSpent, Spent, CallHolds,
         WindowHolds, HoldersHaveClaimed, OneHolder, DrawnIsNew
  <2>5. DeniedIsSpent'
    BY <1>14 DEF CreateTaken, AnswerCreate, OpensInv, OpensTypeOK, DeniedIsSpent, Spent, CallHolds,
         WindowHolds, HoldersHaveClaimed, OneHolder, DrawnIsNew, CreatedIsSpent, AwaitsItsOwn
  <2>6. RejectedIsSpent'
    BY <1>14 DEF CreateTaken, AnswerCreate, OpensInv, OpensTypeOK, RejectedIsSpent, Spent, CallHolds,
         WindowHolds, HoldersHaveClaimed, OneHolder, DrawnIsNew, DeniedIsSpent
  <2>7. DrawnIsNew'
    BY <1>14 DEF CreateTaken, AnswerCreate, OpensInv, OpensTypeOK, DrawnIsNew, Journaled, AwaitsItsOwn,
         OpensAssumption
  <2>8. JournaledIsDrawn'
    BY <1>14 DEF CreateTaken, AnswerCreate, OpensInv, OpensTypeOK, JournaledIsDrawn, Journaled, DrawnIsNew,
         HoldersHaveClaimed
  <2>9. AwaitsItsOwn'
    BY <1>14 DEF CreateTaken, AnswerCreate, OpensInv, OpensTypeOK, AwaitsItsOwn, DrawnIsNew
  <2>10. ReadOpen'
    BY <1>14 DEF CreateTaken, AnswerCreate, OpensInv, OpensTypeOK, ReadOpen
  <2>11. SyncedIsThere'
    BY <1>14 DEF CreateTaken, AnswerCreate, OpensInv, OpensTypeOK, SyncedIsThere
  <2> QED
    BY <2>1, <2>2, <2>3, <2>4, <2>5, <2>6, <2>7, <2>8, <2>9, <2>10, <2>11 DEF OpensInv
<1>15. ASSUME NEW x \in creates, CreateFails(x, "denied") PROVE OpensInv'
  <2>1. OpensTypeOK'
    BY <1>15 DEF CreateFails, AnswerCreate, OpensInv, OpensTypeOK, ReconcileSteps
  <2>2. HoldersHaveClaimed'
    BY <1>15 DEF CreateFails, AnswerCreate, OpensInv, OpensTypeOK, HoldersHaveClaimed, CallHolds,
         WindowHolds, DrawnIsNew, CreatedIsSpent
  <2>3. OneHolder'
    BY <1>15 DEF CreateFails, AnswerCreate, OpensInv, OpensTypeOK, OneHolder, CallHolds, WindowHolds,
         HoldersHaveClaimed, DrawnIsNew
  <2>4. CreatedIsSpent'
    BY <1>15 DEF CreateFails, AnswerCreate, OpensInv, OpensTypeOK, CreatedIsSpent, Spent, CallHolds,
         WindowHolds, HoldersHaveClaimed, OneHolder, DrawnIsNew
  <2>5. DeniedIsSpent'
    BY <1>15 DEF CreateFails, AnswerCreate, OpensInv, OpensTypeOK, DeniedIsSpent, Spent, CallHolds,
         WindowHolds, HoldersHaveClaimed, OneHolder, DrawnIsNew, CreatedIsSpent, AwaitsItsOwn
  <2>6. RejectedIsSpent'
    BY <1>15 DEF CreateFails, AnswerCreate, OpensInv, OpensTypeOK, RejectedIsSpent, Spent, CallHolds,
         WindowHolds, HoldersHaveClaimed, OneHolder, DrawnIsNew, DeniedIsSpent
  <2>7. DrawnIsNew'
    BY <1>15 DEF CreateFails, AnswerCreate, OpensInv, OpensTypeOK, DrawnIsNew, Journaled, AwaitsItsOwn,
         OpensAssumption
  <2>8. JournaledIsDrawn'
    BY <1>15 DEF CreateFails, AnswerCreate, OpensInv, OpensTypeOK, JournaledIsDrawn, Journaled, DrawnIsNew,
         HoldersHaveClaimed
  <2>9. AwaitsItsOwn'
    BY <1>15 DEF CreateFails, AnswerCreate, OpensInv, OpensTypeOK, AwaitsItsOwn, DrawnIsNew
  <2>10. ReadOpen'
    BY <1>15 DEF CreateFails, AnswerCreate, OpensInv, OpensTypeOK, ReadOpen
  <2>11. SyncedIsThere'
    BY <1>15 DEF CreateFails, AnswerCreate, OpensInv, OpensTypeOK, SyncedIsThere
  <2> QED
    BY <2>1, <2>2, <2>3, <2>4, <2>5, <2>6, <2>7, <2>8, <2>9, <2>10, <2>11 DEF OpensInv
<1>16. ASSUME NEW w \in Screens, NEW s \in Shifts, ReissueShiftOpenWrite(w, s) PROVE OpensInv'
  <2>1. OpensTypeOK'
    BY <1>16 DEF ReissueShiftOpenWrite, ReconcileStep, OpensInv, OpensTypeOK, ReconcileSteps
  <2>2. HoldersHaveClaimed'
    BY <1>16 DEF ReissueShiftOpenWrite, ReconcileStep, OpensInv, OpensTypeOK, HoldersHaveClaimed,
         CallHolds, WindowHolds, DrawnIsNew, CreatedIsSpent
  <2>3. OneHolder'
    BY <1>16 DEF ReissueShiftOpenWrite, ReconcileStep, OpensInv, OpensTypeOK, OneHolder, CallHolds,
         WindowHolds, HoldersHaveClaimed, DrawnIsNew
  <2>4. CreatedIsSpent'
    BY <1>16 DEF ReissueShiftOpenWrite, ReconcileStep, OpensInv, OpensTypeOK, CreatedIsSpent, Spent,
         CallHolds, WindowHolds, HoldersHaveClaimed, OneHolder, DrawnIsNew
  <2>5. DeniedIsSpent'
    BY <1>16 DEF ReissueShiftOpenWrite, ReconcileStep, OpensInv, OpensTypeOK, DeniedIsSpent, Spent,
         CallHolds, WindowHolds, HoldersHaveClaimed, OneHolder, DrawnIsNew, CreatedIsSpent, AwaitsItsOwn
  <2>6. RejectedIsSpent'
    BY <1>16 DEF ReissueShiftOpenWrite, ReconcileStep, OpensInv, OpensTypeOK, RejectedIsSpent, Spent,
         CallHolds, WindowHolds, HoldersHaveClaimed, OneHolder, DrawnIsNew, DeniedIsSpent
  <2>7. DrawnIsNew'
    BY <1>16 DEF ReissueShiftOpenWrite, ReconcileStep, OpensInv, OpensTypeOK, DrawnIsNew, Journaled,
         AwaitsItsOwn, OpensAssumption
  <2>8. JournaledIsDrawn'
    BY <1>16 DEF ReissueShiftOpenWrite, ReconcileStep, OpensInv, OpensTypeOK, JournaledIsDrawn, Journaled,
         DrawnIsNew, HoldersHaveClaimed
  <2>9. AwaitsItsOwn'
    BY <1>16 DEF ReissueShiftOpenWrite, ReconcileStep, OpensInv, OpensTypeOK, AwaitsItsOwn, DrawnIsNew
  <2>10. ReadOpen'
    BY <1>16 DEF ReissueShiftOpenWrite, ReconcileStep, OpensInv, OpensTypeOK, ReadOpen
  <2>11. SyncedIsThere'
    BY <1>16 DEF ReissueShiftOpenWrite, ReconcileStep, OpensInv, OpensTypeOK, SyncedIsThere
  <2> QED
    BY <2>1, <2>2, <2>3, <2>4, <2>5, <2>6, <2>7, <2>8, <2>9, <2>10, <2>11 DEF OpensInv
<1>17. ASSUME NEW w \in Screens, ReopenWindow(w) PROVE OpensInv'
  <2>1. OpensTypeOK'
    <3>1. creates' \subseteq [shift : Shifts, by : Opens \cup Screens \cup {Nobody}]
      <4> SUFFICES ASSUME NEW y \in creates'
                   PROVE  y \in [shift : Shifts, by : Opens \cup Screens \cup {Nobody}]
        OBVIOUS
      <4>1. PICK x \in creates : y = x \/ y = [x EXCEPT !.by = Nobody]
        BY <1>17 DEF ReopenWindow
      <4> QED
        BY <4>1 DEF OpensInv, OpensTypeOK
    <3>2. opening' \in [Opens -> [at : {"idle", "upsert", "claim", "write", "await", "denied", "reconcile", "done"},
                                  shift : Shifts \cup {NoShift}]]
      BY <1>17 DEF ReopenWindow, OpensInv, OpensTypeOK
    <3>3. reconcile' \in [Screens -> [Shifts -> ReconcileSteps]]
      BY <1>17 DEF ReopenWindow, OpensInv, OpensTypeOK, ReconcileSteps
    <3>4. reopened' \in 0..MaxReopens
      BY <1>17 DEF ReopenWindow, OpensInv, OpensTypeOK, OpensAssumption
    <3> QED
      BY <1>17, <3>1, <3>2, <3>3, <3>4 DEF ReopenWindow, OpensInv, OpensTypeOK
  <2>2. HoldersHaveClaimed'
    BY <1>17 DEF ReopenWindow, OpensInv, OpensTypeOK, HoldersHaveClaimed, CallHolds, WindowHolds,
         DrawnIsNew, CreatedIsSpent
  <2>3. OneHolder'
    BY <1>17 DEF ReopenWindow, OpensInv, OpensTypeOK, OneHolder, CallHolds, WindowHolds,
         HoldersHaveClaimed, DrawnIsNew
  <2>4. CreatedIsSpent'
    BY <1>17 DEF ReopenWindow, OpensInv, OpensTypeOK, CreatedIsSpent, Spent, CallHolds, WindowHolds,
         HoldersHaveClaimed, OneHolder, DrawnIsNew
  <2>5. DeniedIsSpent'
    BY <1>17 DEF ReopenWindow, OpensInv, OpensTypeOK, DeniedIsSpent, Spent, CallHolds, WindowHolds,
         HoldersHaveClaimed, OneHolder, DrawnIsNew, CreatedIsSpent, AwaitsItsOwn
  <2>6. RejectedIsSpent'
    BY <1>17 DEF ReopenWindow, OpensInv, OpensTypeOK, RejectedIsSpent, Spent, CallHolds, WindowHolds,
         HoldersHaveClaimed, OneHolder, DrawnIsNew, DeniedIsSpent
  <2>7. DrawnIsNew'
    BY <1>17 DEF ReopenWindow, OpensInv, OpensTypeOK, DrawnIsNew, Journaled, AwaitsItsOwn, OpensAssumption
  <2>8. JournaledIsDrawn'
    BY <1>17 DEF ReopenWindow, OpensInv, OpensTypeOK, JournaledIsDrawn, Journaled, DrawnIsNew,
         HoldersHaveClaimed
  <2>9. AwaitsItsOwn'
    BY <1>17 DEF ReopenWindow, OpensInv, OpensTypeOK, AwaitsItsOwn, DrawnIsNew
  <2>10. ReadOpen'
    BY <1>17 DEF ReopenWindow, OpensInv, OpensTypeOK, ReadOpen
  <2>11. SyncedIsThere'
    BY <1>17 DEF ReopenWindow, OpensInv, OpensTypeOK, SyncedIsThere
  <2> QED
    BY <2>1, <2>2, <2>3, <2>4, <2>5, <2>6, <2>7, <2>8, <2>9, <2>10, <2>11 DEF OpensInv
<1>18. ASSUME NEW w \in Screens, NEW s \in Shifts, ReissueClaim(w, s) PROVE OpensInv'
  <2>1. UNCHANGED <<shiftDoc, creates, opening, closedHere, reopened>>
    BY <1>18 DEF ReissueClaim
  <2>2. CASE UNCHANGED openIntent /\ ReconcileStep(w, s, "claim", "idle")
    <3>1. Quiet
      BY <2>1, <2>2 DEF Quiet, OpensInv, OpensTypeOK, ReconcileSteps, ReconcileStep, ReadOpen
    <3> QED
      BY <3>1, QuietStep
  <2>3. CASE Claimable(s) /\ ClaimCreate(s) /\ ReconcileStep(w, s, "claim", "write")
    <3>0. openIntent' = [openIntent EXCEPT ![s].create = "outstanding"]
      BY <2>3 DEF ClaimCreate
    <3>1. Claims(s)
      BY <2>3, <3>0 DEF OpensInv, OpensTypeOK, Claimable, OpenPending, Claims
    <3>2. \A v \in Screens, t \in Shifts : reconcile'[v][t] = IF v = w /\ t = s THEN "write" ELSE reconcile[v][t]
      BY <2>3 DEF OpensInv, OpensTypeOK, ReconcileStep
    <3>3. \A d \in Opens : opening'[d].at = opening[d].at /\ opening'[d].shift = opening[d].shift
      BY <2>1
    <3>4. OpensTypeOK'
      BY <2>1, <2>3, <3>0 DEF OpensInv, OpensTypeOK, ReconcileStep, ReconcileSteps
    <3> QED
      BY <2>1, <3>1, <3>2, <3>3, <3>4, ClaimStep
  <2> QED
    BY <1>18, <2>2, <2>3 DEF ReissueClaim
<1>19. ASSUME NEW c \in Opens, ClaimRemoteCreateAttempt(c) PROVE OpensInv'
  <2> DEFINE s == opening[c].shift
  <2>1. /\ UNCHANGED <<shiftDoc, creates, reconcile, closedHere, reopened>> /\ s \in Shifts
        /\ opening[c].at = "claim" /\ opening[c].shift = s
    BY <1>19 DEF ClaimRemoteCreateAttempt, OpensInv, DrawnIsNew
  <2> HIDE DEF s
  <2>2. ASSUME NEW to \in {"reconcile", "done"}, UNCHANGED openIntent, OpenGoes(c, to) PROVE OpensInv'
    <3>1. Quiet
      <4>1. OpensTypeOK' /\ \A d \in Opens : /\ opening'[d].shift = opening[d].shift
                                             /\ opening'[d].at = IF d = c THEN to ELSE opening[d].at
        BY <2>1, <2>2 DEF OpensInv, OpensTypeOK, OpenGoes
      <4> QED
        BY <2>1, <2>2, <4>1 DEF Quiet, OpensInv, ReadOpen
    <3> QED
      BY <3>1, QuietStep
  <2>3. CASE Claimable(s) /\ ClaimCreate(s) /\ OpenGoes(c, "write")
    <3>0. openIntent' = [openIntent EXCEPT ![s].create = "outstanding"]
      BY <2>3 DEF ClaimCreate
    <3>1. Claims(s)
      BY <2>1, <2>3, <3>0 DEF OpensInv, OpensTypeOK, Claimable, OpenPending, Claims
    <3>2. \A d \in Opens : /\ opening'[d].shift = opening[d].shift
                           /\ opening'[d].at = IF d = c THEN "write" ELSE opening[d].at
      BY <2>3 DEF OpensInv, OpensTypeOK, OpenGoes
    <3>3. OpensTypeOK'
      <4>1. opening' \in [Opens -> [at : {"idle", "upsert", "claim", "write", "await", "denied", "reconcile", "done"},
                                    shift : Shifts \cup {NoShift}]]
        BY <2>1, <2>3 DEF OpensInv, OpensTypeOK, OpenGoes
      <4>2. openIntent' \in [Shifts -> [status : {"none", "local_open_pending", "synced", "rejected_manual_attention"},
                                        create : {"none", "outstanding"}]]
        <5>1. openIntent \in [Shifts -> [status : {"none", "local_open_pending", "synced", "rejected_manual_attention"},
                                               create : {"none", "outstanding"}]]
          BY DEF OpensInv, OpensTypeOK
        <5> QED BY <5>1, <2>1, <2>3, <3>0
      <4> QED
        BY <2>1, <4>1, <4>2 DEF OpensInv, OpensTypeOK
    <3> QED
      BY <2>1, <3>1, <3>2, <3>3, ClaimStep
  <2> QED
    BY <1>19, <2>2, <2>3 DEF ClaimRemoteCreateAttempt, s
<1> QED
  BY <1>1, <1>2, <1>3, <1>4, <1>5, <1>6, <1>7, <1>8, <1>9, <1>13, <1>14, <1>15, <1>16, <1>17, <1>18, <1>19, <1>10, <1>11, <1>12 DEF
       OpensNext

(* The calls that open shifts, their records and sweeps are of their types.*)
THEOREM OpensTyped == ASSUME OpensAssumption PROVE OpensSpec => []OpensTypeOK
<1>1. OpensInit => OpensInv
  BY OpensInitInv
<1>2. OpensInv /\ [OpensNext]_openVars => OpensInv'
  BY OpensStep
<1>3. OpensInv => OpensTypeOK
  BY DEF OpensInv
<1> QED BY <1>1, <1>2, <1>3, PTL DEF OpensSpec

(* A shift recorded as synced is on the server, and one recorded as        *)
(* rejected is not, and no create of this terminal will bring it there.    *)
THEOREM OpenVerdictSound == ASSUME OpensAssumption PROVE OpensSpec => []OpenVerdictIsTrue
<1>1. OpensInit => OpensInv
  BY OpensInitInv
<1>2. OpensInv /\ [OpensNext]_openVars => OpensInv'
  BY OpensStep
<1>3. OpensInv => OpenVerdictIsTrue
  BY DEF OpensInv, RejectedIsSpent, SyncedIsThere, OpenVerdictIsTrue
<1> QED
  BY <1>1, <1>2, <1>3, PTL DEF OpensSpec

-----------------------------------------------------------------------------
(* The counter of failed approvals of a person at a branch.                *)

(* A call compares only a PIN it found unlocked, and time does not go back.*)
ObservedUnlocked == \A a \in Asks : ask[a].at = "compared" => ask[a].observed.locked <= clock

ApprovalInv == ApprovalTypeOK /\ ObservedUnlocked

(* A counted failure is a counter again.                                   *)
LEMMA NextFailureType ==
  ASSUME ApprovalAssumption, NEW c \in Counter, NEW time \in Nat
  PROVE  NextFailure(c, time) \in Counter /\ NextFailure(c, time).failures > 0
  BY DEF ApprovalAssumption, Counter, NextFailure

(* The counter and the calls start as typed, with nothing compared.        *)
LEMMA ApprovalInitInv ==
  ASSUME ApprovalAssumption, ApprovalInit
  PROVE  ApprovalInv
  BY DEF ApprovalAssumption, ApprovalInit, ApprovalInv, ApprovalTypeOK, ObservedUnlocked, Counter,
         NoFailures, NotAsking

(* Every step keeps the types and what a comparison has observed.          *)
LEMMA ApprovalStep ==
  ASSUME ApprovalAssumption, ApprovalInv, [ApprovalNext]_approvalVars
  PROVE  ApprovalInv'
<1> USE DEF ApprovalInv, ApprovalTypeOK, ObservedUnlocked
<1>1. CASE Tick
  BY <1>1 DEF Tick, ApprovalAssumption, Counter
<1>2. ASSUME NEW a \in Asks, Unauthorized(a) PROVE ApprovalInv'
  <2>1. NoFailures \in Counter /\ clock \in 0..MaxClock
    BY DEF NoFailures, Counter, ApprovalAssumption
  <2> QED
    BY <1>2, <2>1 DEF Unauthorized, ApprovalAssumption
<1>3. ASSUME NEW a \in Asks, Observe(a) PROVE ApprovalInv'
  BY <1>3 DEF Observe, Locked, Counter, ApprovalAssumption
<1>4. ASSUME NEW a \in Asks, CountFailure(a) PROVE ApprovalInv'
  <2>1. ask[a].now \in Nat
    BY <1>4 DEF ApprovalAssumption
  <2>2. counter' \in Counter
    BY <1>4, <2>1, NextFailureType DEF CountFailure
  <2> QED
    BY <1>4, <2>2 DEF CountFailure, NotAsking, NoFailures, Counter, ApprovalAssumption
<1>5. ASSUME NEW a \in Asks, Approve(a) PROVE ApprovalInv'
  BY <1>5 DEF Approve, NotAsking, NoFailures, Counter, ApprovalAssumption
<1>6. CASE UNCHANGED approvalVars
  BY <1>6 DEF approvalVars
<1> QED
  BY <1>1, <1>2, <1>3, <1>4, <1>5, <1>6 DEF ApprovalNext

(* Only the reset clears the counter, and it saw the same lock or a later  *)
(* one, which was over when it looked.                                     *)
LEMMA ResetStep ==
  ASSUME ApprovalAssumption, ApprovalInv, [ApprovalNext]_approvalVars
  PROVE  [SparesLock]_approvalVars
<1> SUFFICES ASSUME counter.failures > 0, counter'.failures = 0
             PROVE  ~Locked(counter, clock)
  BY DEF SparesLock
<1> USE DEF ApprovalInv, ApprovalTypeOK, ObservedUnlocked
<1>1. CASE Tick \/ UNCHANGED approvalVars
  BY <1>1 DEF Tick, approvalVars, Counter
<1>2. ASSUME NEW a \in Asks, Unauthorized(a) \/ Observe(a) PROVE ~Locked(counter, clock)
  BY <1>2 DEF Unauthorized, Observe, Counter
<1>3. ASSUME NEW a \in Asks, CountFailure(a) PROVE ~Locked(counter, clock)
  <2>1. ask[a].now \in Nat
    BY <1>3 DEF ApprovalAssumption
  <2> QED
    BY <1>3, <2>1, NextFailureType DEF CountFailure, Counter
<1>4. ASSUME NEW a \in Asks, Approve(a) PROVE ~Locked(counter, clock)
  <2>1. ask[a].at = "compared" /\ ShouldApplyAttemptReset(ask[a].observed, counter)
    BY <1>4 DEF Approve, Counter
  <2>2. counter.locked <= ask[a].observed.locked /\ ask[a].observed.locked <= clock
    BY <2>1 DEF ShouldApplyAttemptReset
  <2>3. ask[a].observed \in Counter
    BY <1>4
  <2> QED
    BY <2>2, <2>3 DEF Locked, Counter, ApprovalAssumption
<1> QED
  BY <1>1, <1>2, <1>3, <1>4 DEF ApprovalNext

(* The counter, the clock and the calls keep their types.                  *)
THEOREM ApprovalTyped ==
  ASSUME ApprovalAssumption
  PROVE  ApprovalSpec => []ApprovalTypeOK
<1>1. ApprovalInit => ApprovalInv
  BY ApprovalInitInv
<1>2. ApprovalInv /\ [ApprovalNext]_approvalVars => ApprovalInv'
  BY ApprovalStep
<1>3. ApprovalInv => ApprovalTypeOK
  BY DEF ApprovalInv
<1> QED
  BY <1>1, <1>2, <1>3, PTL DEF ApprovalSpec

(* No reset, however late, clears a counter while its lock is in force.    *)
THEOREM ResetSparesEveryLock ==
  ASSUME ApprovalAssumption
  PROVE  ApprovalSpec => ResetSparesLock
<1>1. ApprovalInit => ApprovalInv
  BY ApprovalInitInv
<1>2. ApprovalInv /\ [ApprovalNext]_approvalVars => ApprovalInv'
  BY ApprovalStep
<1>3. ApprovalInv /\ [ApprovalNext]_approvalVars => [SparesLock]_approvalVars
  BY ResetStep
<1> QED
  BY <1>1, <1>2, <1>3, PTL DEF ApprovalSpec, ResetSparesLock

-----------------------------------------------------------------------------
(* A relay that stands before the terminal write carries a verdict, and    *)
(* owns the void if it is an accepting one.                                *)
Owned(a) == sale[Target[a]].status = "voided" /\ sale[Target[a]].by = a
SettlesOwned ==
  \A r \in Relays : relay[r].pc = "settle" =>
    relay[r].says \in Verdict /\ (relay[r].says \in Accepted => Owned(relay[r].att))

(* A relay answers a verdict or asks to try again, nothing else.           *)
AnswersKnown ==
  \A r \in Relays : relay[r].pc = "answered" => relay[r].says \in Verdict \cup Transient

(* A sweep waits for a relay of its own attestation, and what it heard is  *)
(* in the record.                                                          *)
WaitsForItsOwn ==
  \A s \in Sweeps : sweep[s].pc = "sent" =>
    /\ relay[sweep[s].relay].pc # "idle"
    /\ relay[sweep[s].relay].att = sweep[s].att
HeardIsRecorded ==
  \A s \in Sweeps : sweep[s].pc = "apply" /\ sweep[s].heard \in Verdict =>
    record[sweep[s].att] = sweep[s].heard

(* Only a row below the ceiling is claimed.                                *)
ClaimedBelowCeiling == \A a \in Attestations : row[a].status = "SYNCING" => row[a].failures < Ceiling

OfflineVoidInv ==
  /\ OfflineVoidTypeOK
  /\ OneVerdict /\ AcceptedIsOwned /\ SettlesOwned /\ AnswersKnown
  /\ WaitsForItsOwn /\ HeardIsRecorded /\ RowIsTheVerdict
  /\ ClaimedBelowCeiling

-----------------------------------------------------------------------------
(* The initial states satisfy the invariant.                               *)
LEMMA OfflineVoidInitInv ==
  ASSUME OfflineVoidAssumption, OfflineVoidInit
  PROVE  OfflineVoidInv
<1> USE DEF OfflineVoidAssumption, OfflineAdjudicationAssumption, EvidenceAssumption, OfflineVoidInit
<1>1. AdjudicationTypeOK
  BY DEF AdjudicationInit, AdjudicationTypeOK, Sale, Relay
<1>2. EvidenceTypeOK
  BY DEF EvidenceInit, EvidenceTypeOK, Row, Sweep, Resting, Open
<1>3. QueueTypeOK
  BY DEF QueueInit, QueueTypeOK, Intent, Drain, Idle, Outcome
<1>4. OneVerdict /\ AcceptedIsOwned /\ SettlesOwned /\ AnswersKnown
  BY DEF AdjudicationInit, OneVerdict, AcceptedIsOwned, SettlesOwned, AnswersKnown, Accepted, Verdict
<1>5. WaitsForItsOwn /\ HeardIsRecorded /\ RowIsTheVerdict /\ ClaimedBelowCeiling
  BY DEF EvidenceInit, WaitsForItsOwn, HeardIsRecorded, RowIsTheVerdict, ClaimedBelowCeiling, Resting
<1> QED
  BY <1>1, <1>2, <1>3, <1>4, <1>5 DEF OfflineVoidInv, OfflineVoidTypeOK

-----------------------------------------------------------------------------
(* What every step of the server keeps, seen from the terminal: a verdict  *)
(* stays in the record, and a relay that has started carries the same      *)
(* attestation and does not start again.                                   *)
RecordKeeps == \A a \in Attestations : record[a] \in Verdict => record'[a] = record[a]
RelayKeeps == \A r \in Relays : relay[r].pc # "idle" =>
                relay'[r].pc # "idle" /\ relay'[r].att = relay[r].att
OwnerKeeps == \A o \in Orders : sale[o].status = "voided" => sale'[o] = sale[o]

AdjudicationInv ==
  AdjudicationTypeOK /\ OneVerdict /\ AcceptedIsOwned /\ SettlesOwned /\ AnswersKnown

AdjudicationKeeps == AdjudicationInv' /\ RecordKeeps /\ RelayKeeps

(* A step of one relay that leaves the sale and the records alone.         *)
LEMMA RelayMoves ==
  ASSUME OfflineVoidAssumption, AdjudicationInv,
         NEW r \in Relays, NEW pc \in {"fresh", "reject", "consume", "finish", "execute",
                                       "confirm", "settle", "answered", "lost"},
         NEW says \in Verdict \cup Transient \cup {"none", "already_reconciled", "refused"},
         relay[r].pc # "idle", Goto(r, pc, says),
         UNCHANGED <<sale, dayOver, authorized, record>>,
         pc = "answered" => says \in Verdict \cup Transient,
         pc = "answered" /\ says \in Verdict => record[relay[r].att] = says,
         pc = "settle" => says \in Verdict /\ (says \in Accepted => Owned(relay[r].att))
  PROVE  AdjudicationKeeps
<1> USE DEF OfflineVoidAssumption, OfflineAdjudicationAssumption, AdjudicationInv
<1>1. relay' = [relay EXCEPT ![r].pc = pc, ![r].says = says] /\ relay \in [Relays -> Relay]
  BY DEF Goto, AdjudicationTypeOK
<1>2. /\ relay' \in [Relays -> Relay]
      /\ relay'[r].pc = pc /\ relay'[r].says = says /\ relay'[r].att = relay[r].att
      /\ \A q \in Relays \ {r} : relay'[q] = relay[q]
  BY <1>1 DEF Relay
<1>3. AdjudicationTypeOK'
  BY <1>2 DEF AdjudicationTypeOK
<1>4. OneVerdict'
  BY <1>2 DEF OneVerdict
<1>5. AcceptedIsOwned'
  BY DEF AcceptedIsOwned
<1>6. SettlesOwned' /\ AnswersKnown'
  BY <1>2 DEF SettlesOwned, Owned, AnswersKnown
<1>7. RecordKeeps /\ RelayKeeps
  BY <1>2 DEF RecordKeeps, RelayKeeps
<1> QED
  BY <1>3, <1>4, <1>5, <1>6, <1>7 DEF AdjudicationKeeps

(* A step of one relay that writes its record, which held no verdict.      *)
LEMMA RecordWritten ==
  ASSUME OfflineVoidAssumption, AdjudicationInv,
         NEW r \in Relays, NEW pc \in {"finish", "answered"},
         NEW says \in Verdict \cup {"none"},
         NEW new \in Verdict \cup {"CONSUMED_PENDING_EXECUTION"},
         relay[r].pc # "idle", Goto(r, pc, says),
         record' = [record EXCEPT ![relay[r].att] = new],
         record[relay[r].att] \notin Verdict,
         pc = "answered" => says = new,
         new \in Accepted => Owned(relay[r].att),
         UNCHANGED <<sale, dayOver, authorized>>
  PROVE  AdjudicationKeeps
<1> USE DEF OfflineVoidAssumption, OfflineAdjudicationAssumption, AdjudicationInv
<1> DEFINE a == relay[r].att
<1>1. relay' = [relay EXCEPT ![r].pc = pc, ![r].says = says] /\ relay \in [Relays -> Relay]
  BY DEF Goto, AdjudicationTypeOK
<1>2. /\ relay' \in [Relays -> Relay]
      /\ relay'[r].pc = pc /\ relay'[r].says = says /\ relay'[r].att = a
      /\ \A q \in Relays \ {r} : relay'[q] = relay[q]
  BY <1>1 DEF Relay
<1>3. /\ a \in Attestations
      /\ record' \in [Attestations -> Verdict \cup {"absent", "CONSUMED_PENDING_EXECUTION"}]
      /\ record'[a] = new /\ \A b \in Attestations \ {a} : record'[b] = record[b]
  BY <1>1 DEF AdjudicationTypeOK, Relay
<1>4. AdjudicationTypeOK'
  BY <1>2, <1>3 DEF AdjudicationTypeOK
<1>5. OneVerdict'
  <2> SUFFICES ASSUME NEW q \in Relays, relay'[q].pc = "answered", relay'[q].says \in Verdict
               PROVE  record'[relay'[q].att] = relay'[q].says
    BY DEF OneVerdict
  <2>1. CASE q = r
    BY <1>2, <1>3, <2>1
  <2>2. CASE q # r
    <3>1. record[relay[q].att] = relay[q].says /\ relay[q].says \in Verdict
      BY <1>2, <2>2 DEF OneVerdict
    <3>2. relay[q].att \in Attestations \ {a}
      BY <1>1, <3>1 DEF Relay
    <3> QED
      BY <1>2, <1>3, <2>2, <3>1, <3>2
  <2> QED
    BY <2>1, <2>2
<1>6. AcceptedIsOwned'
  BY <1>3 DEF AcceptedIsOwned, Owned
<1>7. SettlesOwned' /\ AnswersKnown'
  BY <1>2 DEF SettlesOwned, Owned, AnswersKnown
<1>8. RecordKeeps /\ RelayKeeps
  BY <1>2, <1>3 DEF RecordKeeps, RelayKeeps
<1> QED
  BY <1>4, <1>5, <1>6, <1>7, <1>8 DEF AdjudicationKeeps

(* A step that touches the sales, and never one that is voided.            *)
LEMMA SaleMoves ==
  ASSUME OfflineVoidAssumption, AdjudicationInv,
         NEW o \in Orders, NEW s \in Sale,
         sale[o].status # "voided", sale' = [sale EXCEPT ![o] = s],
         UNCHANGED <<dayOver, authorized, record, relay>>
  PROVE  AdjudicationKeeps
<1> USE DEF OfflineVoidAssumption, OfflineAdjudicationAssumption, AdjudicationInv
<1>1. sale' \in [Orders -> Sale] /\ OwnerKeeps
  BY DEF AdjudicationTypeOK, OwnerKeeps
<1>2. AdjudicationTypeOK'
  BY <1>1 DEF AdjudicationTypeOK
<1>3. OneVerdict' /\ AnswersKnown' /\ RecordKeeps /\ RelayKeeps
  BY DEF OneVerdict, AnswersKnown, RecordKeeps, RelayKeeps
<1>4. AcceptedIsOwned'
  BY <1>1 DEF AcceptedIsOwned, OwnerKeeps
<1>5. SettlesOwned'
  BY <1>1 DEF SettlesOwned, Owned, OwnerKeeps, AdjudicationTypeOK, Relay
<1> QED
  BY <1>2, <1>3, <1>4, <1>5 DEF AdjudicationKeeps

(* Submitting: an idle relay starts, and answers only what the record says. *)
LEMMA SubmitKeeps ==
  ASSUME OfflineVoidAssumption, AdjudicationInv,
         NEW r \in Relays, NEW a \in Attestations, Submit(r, a)
  PROVE  AdjudicationKeeps
<1> USE DEF OfflineVoidAssumption, OfflineAdjudicationAssumption, AdjudicationInv
<1>1. /\ relay \in [Relays -> Relay] /\ relay[r].pc = "idle"
      /\ UNCHANGED <<sale, dayOver, authorized, record>>
  BY DEF Submit, AdjudicationTypeOK
<1>2. /\ relay' \in [Relays -> Relay]
      /\ \A q \in Relays \ {r} : relay'[q] = relay[q]
      /\ relay'[r].pc # "settle"
      /\ relay'[r].pc = "answered" /\ relay'[r].says \in Verdict =>
           record[relay'[r].att] = relay'[r].says
      /\ relay'[r].pc = "answered" => relay'[r].says \in Verdict
  BY <1>1 DEF Submit, Relay
<1>3. AdjudicationTypeOK'
  BY <1>1, <1>2 DEF AdjudicationTypeOK
<1>4. OneVerdict' /\ AcceptedIsOwned' /\ AnswersKnown'
  BY <1>1, <1>2 DEF OneVerdict, AcceptedIsOwned, AnswersKnown
<1>5. SettlesOwned' /\ RecordKeeps /\ RelayKeeps
  BY <1>1, <1>2 DEF SettlesOwned, Owned, RecordKeeps, RelayKeeps
<1> QED
  BY <1>3, <1>4, <1>5 DEF AdjudicationKeeps

(* Every step of a relay that has started.                                 *)
LEMMA RelayStepKeeps ==
  ASSUME OfflineVoidAssumption, AdjudicationInv, NEW r \in Relays, RelayStep(r)
  PROVE  AdjudicationKeeps
<1> DEFINE a == relay[r].att
<1>0. /\ a \in Attestations /\ relay[r] \in Relay /\ Target[a] \in Orders
      /\ sale \in [Orders -> Sale] /\ sale[Target[a]] \in Sale
      /\ record[a] \in Verdict \cup {"absent", "CONSUMED_PENDING_EXECUTION"}
  BY DEF AdjudicationInv, AdjudicationTypeOK, Relay, OfflineVoidAssumption,
         OfflineAdjudicationAssumption
<1>1. ASSUME Dispatch(r), relay[r].pc # "idle", UNCHANGED <<sale, dayOver, authorized, record>>
      PROVE  AdjudicationKeeps
  <2>1. CASE record[a] \in Verdict
    <3>1. Goto(r, "answered", record[a])
      BY <1>1, <2>1 DEF Dispatch, Answer
    <3> QED
      BY <1>1, <2>1, <3>1, RelayMoves
  <2>2. CASE record[a] \notin Verdict
    <3>1. Goto(r, "finish", "none")
      BY <1>1, <2>2 DEF Dispatch
    <3> QED
      BY <1>1, <3>1, RelayMoves
  <2> QED
    BY <2>1, <2>2
<1>2. CASE Preflight(r)
  <2>1. PICK pc \in {"consume", "reject"} : Goto(r, pc, "none")
    BY <1>2 DEF Preflight
  <2> QED
    BY <1>2, <2>1, RelayMoves DEF Preflight
<1>3. CASE Terminalize(r)
  <2>1. relay[r].pc # "idle" /\ UNCHANGED <<sale, dayOver, authorized>>
    BY <1>3 DEF Terminalize
  <2>2. CASE record[a] = "absent"
    <3>1. Goto(r, "answered", "REJECTED") /\ record' = [record EXCEPT ![a] = "REJECTED"]
      BY <1>3, <2>2 DEF Terminalize, Answer
    <3> QED
      BY <2>1, <2>2, <3>1, RecordWritten DEF Verdict, Accepted
  <2>3. CASE record[a] # "absent"
    BY <1>1, <1>3, <2>1, <2>3 DEF Terminalize
  <2> QED
    BY <2>2, <2>3
<1>4. CASE Consume(r)
  <2>1. relay[r].pc # "idle" /\ UNCHANGED <<sale, dayOver, authorized>>
    BY <1>4 DEF Consume
  <2>2. CASE record[a] # "absent"
    BY <1>1, <1>4, <2>1, <2>2 DEF Consume
  <2>3. CASE record[a] = "absent" /\ ~Linearized(a)
    <3>1. Goto(r, "answered", "REJECTED") /\ record' = [record EXCEPT ![a] = "REJECTED"]
      BY <1>4, <2>3 DEF Consume, Answer
    <3> QED
      BY <2>1, <2>3, <3>1, RecordWritten DEF Verdict, Accepted
  <2>4. CASE record[a] = "absent" /\ Linearized(a)
    <3>1. /\ Goto(r, "finish", "none")
          /\ record' = [record EXCEPT ![a] = "CONSUMED_PENDING_EXECUTION"]
      BY <1>4, <2>4 DEF Consume
    <3> QED
      BY <2>1, <2>4, <3>1, RecordWritten DEF Verdict, Accepted
  <2> QED
    BY <2>2, <2>3, <2>4
<1>5. CASE Finish(r)
  <2>1. relay[r].pc # "idle" /\ UNCHANGED <<sale, dayOver, authorized, record>>
    BY <1>5 DEF Finish
  <2>2. CASE Correlated(a) = "MATCHING"
    <3>1. Goto(r, "settle", "NOOP") /\ Owned(a)
      BY <1>5, <2>2 DEF Finish, Correlated, Owned
    <3> QED
      BY <2>1, <3>1, RelayMoves DEF Verdict, Accepted
  <2>3. CASE Correlated(a) = "NOT_VOIDED"
    <3>1. Goto(r, "execute", "none")
      BY <1>5, <2>3 DEF Finish
    <3> QED
      BY <2>1, <3>1, RelayMoves
  <2>4. CASE Correlated(a) = "UNPROVED"
    <3>1. Goto(r, "settle", "MANUAL_ATTENTION_REQUIRED")
      BY <1>5, <2>4 DEF Finish
    <3> QED
      BY <2>1, <3>1, RelayMoves DEF Verdict, Accepted
  <2> QED
    BY <2>2, <2>3, <2>4 DEF Correlated
<1>6. CASE Execute(r)
  <2>1. relay[r].pc = "execute" /\ UNCHANGED <<dayOver, authorized, record>>
    BY <1>6 DEF Execute
  <2>2. CASE sale[Target[a]].status = "sold"
    <3>1. /\ sale' = [sale EXCEPT ![Target[a]] = [status |-> "voided", by |-> a]]
          /\ Goto(r, "confirm", "VOID_APPLIED")
      BY <1>6, <2>2 DEF Execute, TargetOf
    <3>2. sale' \in [Orders -> Sale] /\ OwnerKeeps
      BY <1>0, <2>2, <3>1 DEF Sale, OwnerKeeps
    <3>3. relay' = [relay EXCEPT ![r].pc = "confirm", ![r].says = "VOID_APPLIED"]
      BY <3>1 DEF Goto
    <3>4. /\ relay' \in [Relays -> Relay]
          /\ relay'[r].pc = "confirm" /\ relay'[r].att = a
          /\ \A q \in Relays \ {r} : relay'[q] = relay[q]
      BY <3>3 DEF AdjudicationInv, AdjudicationTypeOK, Relay, Verdict, Accepted
    <3>5. AdjudicationTypeOK'
      BY <2>1, <3>2, <3>4 DEF AdjudicationInv, AdjudicationTypeOK
    <3>6. OneVerdict' /\ AnswersKnown' /\ RecordKeeps /\ RelayKeeps
      BY <2>1, <3>4 DEF AdjudicationInv, OneVerdict, AnswersKnown, RecordKeeps, RelayKeeps
    <3>7. AcceptedIsOwned'
      BY <2>1, <3>2 DEF AdjudicationInv, AcceptedIsOwned, OwnerKeeps, OfflineVoidAssumption,
                        OfflineAdjudicationAssumption
    <3>8. SettlesOwned'
      BY <3>2, <3>4 DEF AdjudicationInv, AdjudicationTypeOK, Relay, SettlesOwned, Owned,
                        OwnerKeeps, OfflineVoidAssumption, OfflineAdjudicationAssumption
    <3> QED
      BY <3>5, <3>6, <3>7, <3>8 DEF AdjudicationKeeps, AdjudicationInv
  <2>3. CASE sale[Target[a]].status # "sold"
    <3>1. PICK says \in {"already_reconciled", "refused"} : Goto(r, "confirm", says)
      BY <1>6, <2>3 DEF Execute, TargetOf
    <3>2. UNCHANGED sale
      BY <1>6, <2>3 DEF Execute, TargetOf
    <3> QED
      BY <2>1, <3>1, <3>2, RelayMoves
  <2> QED
    BY <2>2, <2>3
<1>7. CASE Confirm(r)
  <2>1. relay[r].pc # "idle" /\ UNCHANGED <<sale, dayOver, authorized, record>>
    BY <1>7 DEF Confirm
  <2>2. CASE relay[r].says \in {"VOID_APPLIED", "already_reconciled"}
             /\ Correlated(a) = "MATCHING"
    <3>1. Owned(a) /\ \E says \in Accepted : Goto(r, "settle", says)
      BY <1>7, <2>2 DEF Confirm, Correlated, Owned, Accepted
    <3> QED
      BY <2>1, <3>1, RelayMoves DEF Verdict
  <2>3. CASE ~(relay[r].says \in {"VOID_APPLIED", "already_reconciled"}
               /\ Correlated(a) = "MATCHING")
    <3>1. Goto(r, "settle", "MANUAL_ATTENTION_REQUIRED")
      BY <1>7, <2>3 DEF Confirm
    <3> QED
      BY <2>1, <3>1, RelayMoves DEF Verdict, Accepted
  <2> QED
    BY <2>2, <2>3
<1>8. CASE Settle(r)
  <2>1. relay[r].pc = "settle" /\ UNCHANGED <<sale, dayOver, authorized>>
    BY <1>8 DEF Settle
  <2>2. CASE StillPending(a)
    <3>1. /\ Goto(r, "answered", relay[r].says)
          /\ record' = [record EXCEPT ![a] = relay[r].says]
      BY <1>8, <2>2 DEF Settle, Answer
    <3>2. relay[r].says \in Verdict
      BY <2>1 DEF AdjudicationInv, SettlesOwned
    <3>3. relay[r].says \in Accepted => Owned(a)
      BY <2>1 DEF AdjudicationInv, SettlesOwned
    <3> QED
      BY <2>1, <2>2, <3>1, <3>2, <3>3, RecordWritten DEF StillPending, Verdict, Accepted
  <2>3. CASE ~StillPending(a)
    BY <1>1, <1>8, <2>1, <2>3 DEF Settle
  <2> QED
    BY <2>2, <2>3
<1>9. CASE TryAgain(r)
  <2>1. PICK says \in Transient : Goto(r, "answered", says)
    BY <1>9 DEF TryAgain, Answer
  <2>2. says \notin Verdict
    BY DEF Transient, Verdict, Accepted
  <2> QED
    BY <1>9, <2>1, <2>2, RelayMoves DEF TryAgain
<1>10. CASE Lose(r)
  BY <1>10, RelayMoves DEF Lose
<1> QED
  BY <1>2, <1>3, <1>4, <1>5, <1>6, <1>7, <1>8, <1>9, <1>10 DEF RelayStep

(* What the rest of the server does.                                       *)
LEMMA ServerEventKeeps ==
  ASSUME OfflineVoidAssumption, AdjudicationInv, ServerEvent
  PROVE  AdjudicationKeeps
<1> USE DEF OfflineVoidAssumption, OfflineAdjudicationAssumption
<1>0. sale \in [Orders -> Sale]
  BY DEF AdjudicationInv, AdjudicationTypeOK
<1>1. ASSUME NEW o \in Orders, OrderArrives(o) PROVE AdjudicationKeeps
  <2>1. [sale[o] EXCEPT !.status = "sold"] \in Sale /\ sale[o].status # "voided"
    BY <1>0, <1>1 DEF Sale, OrderArrives
  <2>2. sale' = [sale EXCEPT ![o] = [sale[o] EXCEPT !.status = "sold"]]
    BY <1>0, <1>1 DEF OrderArrives
  <2> QED
    BY <1>1, <2>1, <2>2, SaleMoves DEF OrderArrives
<1>2. ASSUME NEW o \in Orders, ReturnLands(o) PROVE AdjudicationKeeps
  <2>1. [sale[o] EXCEPT !.status = "returned"] \in Sale /\ sale[o].status # "voided"
    BY <1>0, <1>2 DEF Sale, ReturnLands
  <2>2. sale' = [sale EXCEPT ![o] = [sale[o] EXCEPT !.status = "returned"]]
    BY <1>0, <1>2 DEF ReturnLands
  <2> QED
    BY <1>2, <2>1, <2>2, SaleMoves DEF ReturnLands
<1>3. ASSUME NEW o \in Orders, VoidElsewhere(o) PROVE AdjudicationKeeps
  <2>1. PICK e \in {Other, NoExec} :
          sale' = [sale EXCEPT ![o] = [status |-> "voided", by |-> e]]
    BY <1>3 DEF VoidElsewhere
  <2>2. [status |-> "voided", by |-> e] \in Sale
    BY DEF Sale
  <2> QED
    BY <1>3, <2>1, <2>2, SaleMoves DEF VoidElsewhere
<1>4. ASSUME UNCHANGED <<sale, record, relay>>, dayOver' \in [Orders -> BOOLEAN],
             authorized' \in BOOLEAN
      PROVE  AdjudicationKeeps
  BY <1>4 DEF AdjudicationKeeps, AdjudicationInv, AdjudicationTypeOK, OneVerdict, AcceptedIsOwned,
              SettlesOwned, AnswersKnown, Owned, RecordKeeps, RelayKeeps
<1>5. ASSUME NEW o \in Orders, DayEnds(o) PROVE AdjudicationKeeps
  BY <1>4, <1>5 DEF DayEnds, AdjudicationInv, AdjudicationTypeOK
<1>6. CASE Revoke
  BY <1>4, <1>6 DEF Revoke, AdjudicationInv, AdjudicationTypeOK
<1> QED
  BY <1>1, <1>2, <1>3, <1>5, <1>6 DEF ServerEvent

-----------------------------------------------------------------------------
(* The terminal's part of the invariant survives whatever the server does. *)
EvidenceInv == /\ EvidenceTypeOK /\ WaitsForItsOwn /\ HeardIsRecorded /\ RowIsTheVerdict
               /\ ClaimedBelowCeiling

LEMMA ServerSpares ==
  ASSUME OfflineVoidAssumption, EvidenceInv, RecordKeeps, RelayKeeps, UNCHANGED evidenceVars
  PROVE  EvidenceInv'
<1>1. /\ \A s \in Sweeps : sweep[s].relay \in Relays /\ sweep[s].att \in Attestations
      /\ UNCHANGED <<row, generation, sweep>>
  BY DEF EvidenceInv, EvidenceTypeOK, Sweep, evidenceVars
<1>2. EvidenceTypeOK' /\ ClaimedBelowCeiling'
  BY <1>1 DEF EvidenceInv, EvidenceTypeOK, ClaimedBelowCeiling
<1>3. WaitsForItsOwn'
  BY <1>1 DEF EvidenceInv, WaitsForItsOwn, RelayKeeps
<1>4. HeardIsRecorded'
  BY <1>1 DEF EvidenceInv, HeardIsRecorded, RecordKeeps
<1>5. RowIsTheVerdict'
  BY <1>1 DEF EvidenceInv, RowIsTheVerdict, RecordKeeps, Verdict, Accepted
<1> QED
  BY <1>2, <1>3, <1>4, <1>5 DEF EvidenceInv

(* A sweep that moves on, the rows and the server as they were.            *)
LEMMA SweepMoves ==
  ASSUME OfflineVoidAssumption, EvidenceInv, NEW s \in Sweeps, NEW new \in Sweep,
         sweep' = [sweep EXCEPT ![s] = new], new.pc # "sent",
         new.pc = "apply" /\ new.heard \in Verdict => record[new.att] = new.heard,
         UNCHANGED <<row, adjudicationVars>>, generation' \in 0..MaxSweeps
  PROVE  EvidenceInv'
<1>1. /\ sweep' \in [Sweeps -> Sweep] /\ sweep'[s] = new
      /\ \A t \in Sweeps \ {s} : sweep'[t] = sweep[t]
      /\ UNCHANGED <<row, record, relay>>
  BY DEF EvidenceInv, EvidenceTypeOK, adjudicationVars
<1>2. EvidenceTypeOK' /\ ClaimedBelowCeiling' /\ RowIsTheVerdict'
  BY <1>1 DEF EvidenceInv, EvidenceTypeOK, ClaimedBelowCeiling, RowIsTheVerdict
<1>3. WaitsForItsOwn' /\ HeardIsRecorded'
  BY <1>1 DEF EvidenceInv, WaitsForItsOwn, HeardIsRecorded
<1> QED
  BY <1>2, <1>3 DEF EvidenceInv

(* Resting is a state of a sweep.                                          *)
LEMMA RestingTyped ==
  ASSUME OfflineVoidAssumption
  PROVE  Resting \in Sweep /\ Resting.pc = "idle"
         /\ \A g \in 0..MaxSweeps :
              /\ [Resting EXCEPT !.pc = "sweeping", !.gen = g] \in Sweep
              /\ [Resting EXCEPT !.pc = "sweeping", !.gen = g].pc = "sweeping"
<1>1. Resting \in Sweep /\ Resting.pc = "idle"
  BY DEF Resting, Sweep, OfflineVoidAssumption, OfflineAdjudicationAssumption, EvidenceAssumption
<1>2. ASSUME NEW g \in 0..MaxSweeps, NEW q \in Sweep
      PROVE  /\ [q EXCEPT !.pc = "sweeping", !.gen = g] \in Sweep
             /\ [q EXCEPT !.pc = "sweeping", !.gen = g].pc = "sweeping"
  BY DEF Sweep
<1> QED
  BY <1>1, <1>2

(* Every step of a sweep keeps the terminal's part.                        *)
LEMMA SweepStepKeeps ==
  ASSUME OfflineVoidAssumption, EvidenceInv, AdjudicationInv, NEW s \in Sweeps, SweepStep(s)
  PROVE  EvidenceInv' /\ AdjudicationInv'
<1> USE DEF OfflineVoidAssumption
<1>0. /\ row \in [Attestations -> Row] /\ sweep \in [Sweeps -> Sweep]
      /\ sweep[s] \in Sweep /\ generation \in 0..MaxSweeps
      /\ sweep[s].att \in Attestations /\ sweep[s].relay \in Relays /\ sweep[s].gen \in 0..MaxSweeps
  BY DEF EvidenceInv, EvidenceTypeOK, Sweep
<1>1. ASSUME UNCHANGED adjudicationVars PROVE AdjudicationInv'
  BY <1>1 DEF adjudicationVars, AdjudicationInv, AdjudicationTypeOK, OneVerdict, AcceptedIsOwned,
              SettlesOwned, AnswersKnown, Owned
<1>2. CASE Allocate(s)
  <2>1. PICK next \in 1..MaxSweeps :
          /\ generation' = next
          /\ sweep' = [sweep EXCEPT ![s] = [Resting EXCEPT !.pc = "sweeping", !.gen = next]]
    BY <1>2 DEF Allocate
  <2>2. next \in 0..MaxSweeps
    BY DEF EvidenceAssumption
  <2> QED
    BY <1>1, <1>2, <2>1, <2>2, RestingTyped, SweepMoves DEF Allocate
<1>3. CASE EndSweep(s)
  <2>1. sweep' = [sweep EXCEPT ![s] = Resting] /\ UNCHANGED <<row, generation, adjudicationVars>>
    BY <1>3 DEF EndSweep
  <2> QED
    BY <1>0, <1>1, <2>1, RestingTyped, SweepMoves
<1>4. CASE Hear(s)
  <2>1. PICK heard \in {"TIMEOUT", relay[sweep[s].relay].says} :
          /\ heard # "TIMEOUT" => relay[sweep[s].relay].pc = "answered"
          /\ sweep' = [sweep EXCEPT ![s].pc = "apply", ![s].heard = heard]
    BY <1>4 DEF Hear
  <2>2. /\ relay[sweep[s].relay].att = sweep[s].att
        /\ relay[sweep[s].relay] \in Relay
    BY <1>0, <1>4 DEF Hear, EvidenceInv, WaitsForItsOwn, AdjudicationInv, AdjudicationTypeOK
  <2> DEFINE new == [sweep[s] EXCEPT !.pc = "apply", !.heard = heard]
  <2>3. heard \in Verdict => record[sweep[s].att] = heard
    BY <1>0, <2>1, <2>2 DEF AdjudicationInv, OneVerdict, Verdict, Accepted
  <2>4. heard # "TIMEOUT" => heard \in Verdict \cup Transient
    BY <1>0, <1>4, <2>1, <2>2 DEF AdjudicationInv, AnswersKnown
  <2>5. new \in Sweep /\ new.pc = "apply" /\ new.heard = heard /\ new.att = sweep[s].att
    BY <1>0, <2>4 DEF Sweep
  <2>6. sweep' = [sweep EXCEPT ![s] = new]
    BY <1>0, <2>1
  <2> QED
    BY <1>0, <1>1, <1>4, <2>3, <2>5, <2>6, SweepMoves DEF Hear
<1>5. ASSUME NEW a \in Attestations, Claim(s, a) PROVE EvidenceInv' /\ AdjudicationInv'
  <2>1. /\ row' \in [Attestations -> Row] /\ row'[a].status = "SYNCING"
        /\ row'[a].failures < Ceiling
        /\ \A b \in Attestations \ {a} : row'[b] = row[b]
    BY <1>0, <1>5 DEF Claim, Row, Open
  <2>2. /\ sweep' \in [Sweeps -> Sweep] /\ sweep'[s].pc = "claimed"
        /\ \A t \in Sweeps \ {s} : sweep'[t] = sweep[t]
    BY <1>0, <1>5 DEF Claim, Sweep
  <2>3. UNCHANGED <<generation, record, relay>>
    BY <1>5 DEF Claim, adjudicationVars
  <2>4. EvidenceTypeOK' /\ ClaimedBelowCeiling'
    BY <2>1, <2>2, <2>3 DEF EvidenceInv, EvidenceTypeOK, ClaimedBelowCeiling
  <2>5. WaitsForItsOwn' /\ HeardIsRecorded'
    BY <2>2, <2>3 DEF EvidenceInv, WaitsForItsOwn, HeardIsRecorded
  <2>6. RowIsTheVerdict'
    BY <2>1, <2>3 DEF EvidenceInv, RowIsTheVerdict
  <2> QED
    BY <1>1, <1>5, <2>4, <2>5, <2>6 DEF EvidenceInv, Claim
<1>6. ASSUME NEW r \in Relays, Relayed(s, r) PROVE EvidenceInv' /\ AdjudicationInv'
  <2>1. Submit(r, sweep[s].att) /\ AdjudicationKeeps
    BY <1>0, <1>6, SubmitKeeps DEF Relayed
  <2>2. /\ sweep' \in [Sweeps -> Sweep]
        /\ sweep'[s].pc = "sent" /\ sweep'[s].relay = r /\ sweep'[s].att = sweep[s].att
        /\ \A t \in Sweeps \ {s} : sweep'[t] = sweep[t]
    BY <1>0, <1>6 DEF Relayed, Sweep
  <2>3. relay'[r].pc # "idle" /\ relay'[r].att = sweep[s].att
    BY <1>0, <2>1 DEF Submit, AdjudicationInv, AdjudicationTypeOK
  <2>4. UNCHANGED <<row, generation, record>>
    BY <1>6 DEF Relayed, Submit
  <2>5. EvidenceTypeOK' /\ ClaimedBelowCeiling' /\ RowIsTheVerdict'
    BY <2>2, <2>4 DEF EvidenceInv, EvidenceTypeOK, ClaimedBelowCeiling, RowIsTheVerdict
  <2>6. WaitsForItsOwn'
    <3> SUFFICES ASSUME NEW t \in Sweeps, sweep'[t].pc = "sent"
                 PROVE  /\ relay'[sweep'[t].relay].pc # "idle"
                        /\ relay'[sweep'[t].relay].att = sweep'[t].att
      BY DEF WaitsForItsOwn
    <3>1. CASE t = s
      BY <2>2, <2>3, <3>1
    <3>2. CASE t # s
      <4>1. sweep'[t] = sweep[t] /\ sweep[t].relay \in Relays
        BY <1>0, <2>2, <3>2 DEF Sweep
      <4> QED
        BY <2>1, <4>1 DEF AdjudicationKeeps, RelayKeeps, EvidenceInv, WaitsForItsOwn
    <3> QED
      BY <3>1, <3>2
  <2>7. HeardIsRecorded'
    BY <2>2, <2>4 DEF EvidenceInv, HeardIsRecorded
  <2> QED
    BY <2>1, <2>5, <2>6, <2>7 DEF EvidenceInv, AdjudicationKeeps
<1>7. CASE Apply(s)
  <2> DEFINE a == sweep[s].att
  <2>1. /\ sweep' \in [Sweeps -> Sweep] /\ sweep'[s].pc = "sweeping"
        /\ \A t \in Sweeps \ {s} : sweep'[t] = sweep[t]
        /\ UNCHANGED <<generation, record, relay>>
    BY <1>0, <1>7, RestingTyped DEF Apply, adjudicationVars
  <2>2. WaitsForItsOwn' /\ HeardIsRecorded'
    BY <2>1 DEF EvidenceInv, WaitsForItsOwn, HeardIsRecorded
  <2>3. CASE Holds(s)
    <3> DEFINE new == Applied(row[a], sweep[s].heard)
    <3>1. row' = [row EXCEPT ![a] = new] /\ row[a].status = "SYNCING"
      BY <1>7, <2>3 DEF Apply, Holds
    <3>2. row[a] \in Row /\ row[a].failures < Ceiling
      BY <1>0, <3>1 DEF EvidenceInv, ClaimedBelowCeiling
    <3>3. sweep[s].heard \in Verdict => record[a] = sweep[s].heard
      BY <1>7 DEF Apply, EvidenceInv, HeardIsRecorded
    <3>4. /\ new \in Row /\ new.status # "SYNCING"
          /\ new.status = "SERVER_ACCEPTED" => sweep[s].heard \in Accepted
          /\ new.status = "SERVER_REJECTED" => sweep[s].heard = "REJECTED"
      <4>1. row[a].failures + 1 \in 0..Ceiling
        BY <3>2 DEF Row, EvidenceAssumption
      <4>2. /\ new \in [status : {"SERVER_ACCEPTED", "SERVER_REJECTED", "MANUAL_ATTENTION",
                                  "PRIVILEGED_INTENT_QUEUED"},
                         claim : {0}, failures : 0..Ceiling]
            /\ new.status = "SERVER_ACCEPTED" => sweep[s].heard \in Accepted
            /\ new.status = "SERVER_REJECTED" => sweep[s].heard = "REJECTED"
        BY <3>2, <4>1 DEF Applied, Row, Accepted
      <4> QED
        BY <3>2, <4>2 DEF Row, Open, EvidenceAssumption
    <3>5. EvidenceTypeOK' /\ ClaimedBelowCeiling'
      BY <1>0, <2>1, <3>1, <3>4 DEF EvidenceInv, EvidenceTypeOK, ClaimedBelowCeiling
    <3>6. RowIsTheVerdict'
      BY <1>0, <2>1, <3>1, <3>3, <3>4 DEF EvidenceInv, RowIsTheVerdict, Verdict
    <3> QED
      BY <1>1, <1>7, <2>2, <3>5, <3>6 DEF EvidenceInv, Apply
  <2>4. CASE ~Holds(s)
    <3>1. UNCHANGED row
      BY <1>7, <2>4 DEF Apply
    <3>2. EvidenceTypeOK' /\ ClaimedBelowCeiling' /\ RowIsTheVerdict'
      BY <1>0, <2>1, <3>1 DEF EvidenceInv, EvidenceTypeOK, ClaimedBelowCeiling, RowIsTheVerdict
    <3> QED
      BY <1>1, <1>7, <2>2, <3>2 DEF EvidenceInv, Apply
  <2> QED
    BY <2>3, <2>4
<1> QED
  BY <1>2, <1>3, <1>4, <1>5, <1>6, <1>7 DEF SweepStep

-----------------------------------------------------------------------------
(* The older queue keeps its type, and touches nothing else.               *)
LEMMA DrainKeepsType ==
  ASSUME OfflineVoidAssumption, QueueTypeOK,
         \/ \E d \in Drains : DrainStep(d)
         \/ \E o \in Orders : Enqueue(o) \/ LeaseExpires(o)
  PROVE  QueueTypeOK' /\ UNCHANGED <<evidenceVars, adjudicationVars>>
<1> USE DEF OfflineVoidAssumption
<1>0. intent \in [Orders -> Intent] /\ drain \in [Drains -> Drain]
  BY DEF QueueTypeOK
<1>1. ASSUME NEW d \in Drains, NEW o \in Orders, ClaimIntent(d, o)
      PROVE  QueueTypeOK' /\ UNCHANGED <<evidenceVars, adjudicationVars>>
  <2>1. /\ intent' = [intent EXCEPT ![o].status = "in_flight", ![o].leased = TRUE]
        /\ drain' = [drain EXCEPT ![d] = [pc |-> "read", order |-> o,
                                          attempts |-> intent[o].attempts, outcome |-> "none"]]
        /\ UNCHANGED <<evidenceVars, adjudicationVars>>
    BY <1>1 DEF ClaimIntent
  <2>2. intent[o] \in Intent /\ intent[o].attempts \in 0..MaxAttempts
    BY <1>0 DEF Intent
  <2>3. intent' \in [Orders -> Intent]
    BY <1>0, <2>1 DEF Intent
  <2>4. drain' \in [Drains -> Drain]
    BY <1>0, <2>1, <2>2 DEF Drain, Outcome
  <2> QED
    BY <2>1, <2>3, <2>4 DEF QueueTypeOK
<1>2. ASSUME NEW d \in Drains, Evaluate(d)
      PROVE  QueueTypeOK' /\ UNCHANGED <<evidenceVars, adjudicationVars>>
  <2>1. PICK outcome \in Outcome :
          drain' = [drain EXCEPT ![d].pc = "mark", ![d].outcome = outcome]
    BY <1>2 DEF Evaluate, AfterFailure, Outcome
  <2>2. drain' \in [Drains -> Drain]
    BY <1>0, <2>1 DEF Drain
  <2>3. UNCHANGED <<intent, evidenceVars, adjudicationVars>>
    BY <1>2 DEF Evaluate
  <2> QED
    BY <1>0, <2>2, <2>3 DEF QueueTypeOK
<1>3. ASSUME NEW d \in Drains, Mark(d)
      PROVE  QueueTypeOK' /\ UNCHANGED <<evidenceVars, adjudicationVars>>
  <2> DEFINE o == drain[d].order
  <2>1. /\ o \in Orders /\ intent[o] \in Intent
        /\ intent[o].attempts \in 0..MaxAttempts
        /\ drain[d].outcome = "retry" => intent[o].attempts < MaxAttempts
    BY <1>0, <1>3 DEF Mark, Drain, Intent
  <2>2. PICK new \in Intent : intent' = [intent EXCEPT ![o] = new]
    <3>1. PICK st \in {"confirmed", "terminal", "pending"}, n \in 0..MaxAttempts :
            intent' = [intent EXCEPT ![o] = [status |-> st, leased |-> FALSE, attempts |-> n]]
      <4> DEFINE st == CASE drain[d].outcome = "confirm"  -> "confirmed"
                         [] drain[d].outcome = "terminal" -> "terminal"
                         [] OTHER -> "pending"
                 n == IF drain[d].outcome = "retry" THEN intent[o].attempts + 1
                      ELSE intent[o].attempts
      <4>1. st \in {"confirmed", "terminal", "pending"} /\ n \in 0..MaxAttempts
        BY <2>1
      <4>2. intent' = [intent EXCEPT ![o] = [status |-> st, leased |-> FALSE, attempts |-> n]]
        BY <1>0, <1>3, <2>1 DEF Mark
      <4> QED
        BY <4>1, <4>2
    <3> QED
      BY <3>1 DEF Intent
  <2>3. drain' = [drain EXCEPT ![d] = Idle] /\ Idle \in Drain
    BY <1>3 DEF Mark, Idle, Drain, Outcome, OfflineAdjudicationAssumption
  <2>4. intent' \in [Orders -> Intent] /\ drain' \in [Drains -> Drain]
    BY <1>0, <2>2, <2>3
  <2>5. UNCHANGED <<evidenceVars, adjudicationVars>>
    BY <1>3 DEF Mark
  <2> QED
    BY <2>4, <2>5 DEF QueueTypeOK
<1>4. ASSUME NEW o \in Orders, Enqueue(o) \/ LeaseExpires(o)
      PROVE  QueueTypeOK' /\ UNCHANGED <<evidenceVars, adjudicationVars>>
  <2>1. CASE Enqueue(o)
    <3>1. intent' = [intent EXCEPT ![o].status = "pending"]
      BY <2>1 DEF Enqueue
    <3>2. intent' \in [Orders -> Intent]
      BY <1>0, <3>1 DEF Intent
    <3> QED
      BY <1>0, <2>1, <3>2 DEF Enqueue, QueueTypeOK
  <2>2. CASE LeaseExpires(o)
    <3>1. intent' = [intent EXCEPT ![o].leased = FALSE]
      BY <2>2 DEF LeaseExpires
    <3>2. intent' \in [Orders -> Intent]
      BY <1>0, <3>1 DEF Intent
    <3> QED
      BY <1>0, <2>2, <3>2 DEF LeaseExpires, QueueTypeOK
  <2> QED
    BY <1>4, <2>1, <2>2
<1> QED
  BY <1>1, <1>2, <1>3, <1>4 DEF DrainStep

(* Every step of the whole keeps the invariant.                            *)
LEMMA OfflineVoidInvStep ==
  ASSUME OfflineVoidAssumption, OfflineVoidInv, [OfflineVoidNext]_offlineVoidVars
  PROVE  OfflineVoidInv'
<1>0. AdjudicationInv /\ EvidenceInv /\ QueueTypeOK
  BY DEF OfflineVoidInv, OfflineVoidTypeOK, AdjudicationInv, EvidenceInv
<1> SUFFICES AdjudicationInv' /\ EvidenceInv' /\ QueueTypeOK'
  BY DEF OfflineVoidInv, OfflineVoidTypeOK, AdjudicationInv, EvidenceInv
<1>1. ASSUME UNCHANGED <<intent, drain>> PROVE QueueTypeOK'
  BY <1>0, <1>1 DEF QueueTypeOK
<1>2. ASSUME UNCHANGED adjudicationVars PROVE AdjudicationInv' /\ RecordKeeps /\ RelayKeeps
  BY <1>0, <1>2 DEF adjudicationVars, AdjudicationInv, AdjudicationTypeOK, OneVerdict, AcceptedIsOwned,
                    SettlesOwned, AnswersKnown, Owned, RecordKeeps, RelayKeeps
<1>3. CASE UNCHANGED offlineVoidVars
  BY <1>0, <1>1, <1>2, <1>3, ServerSpares DEF offlineVoidVars, queueVars
<1>4. CASE Restart
  <2>1. /\ row' = row /\ generation' = generation /\ sweep' = [s \in Sweeps |-> Resting]
        /\ intent' = intent /\ drain' = [d \in Drains |-> Idle] /\ UNCHANGED adjudicationVars
    BY <1>4 DEF Restart
  <2>2. EvidenceTypeOK' /\ WaitsForItsOwn' /\ HeardIsRecorded'
    BY <1>0, <2>1, RestingTyped DEF EvidenceInv, EvidenceTypeOK, WaitsForItsOwn, HeardIsRecorded
  <2>3. RowIsTheVerdict' /\ ClaimedBelowCeiling'
    BY <1>0, <2>1 DEF EvidenceInv, RowIsTheVerdict, ClaimedBelowCeiling, adjudicationVars
  <2>4. QueueTypeOK'
    <3>1. Idle \in Drain
      BY DEF Idle, Drain, Outcome, OfflineVoidAssumption, OfflineAdjudicationAssumption
    <3> QED
      BY <1>0, <2>1, <3>1 DEF QueueTypeOK
  <2> QED
    BY <1>2, <2>1, <2>2, <2>3, <2>4 DEF EvidenceInv
<1>5. ASSUME NEW a \in Attestations, Ingest(a), UNCHANGED drain
      PROVE  AdjudicationInv' /\ EvidenceInv' /\ QueueTypeOK'
  <2>1. /\ row' = [row EXCEPT ![a].status = "PRIVILEGED_INTENT_QUEUED"]
        /\ UNCHANGED <<generation, sweep, intent, adjudicationVars>>
    BY <1>5 DEF Ingest
  <2>2. /\ row' \in [Attestations -> Row]
        /\ \A b \in Attestations : row'[b].status \in {"SYNCING", "SERVER_ACCEPTED",
             "SERVER_REJECTED"} => row'[b] = row[b]
    BY <1>0, <2>1 DEF EvidenceInv, EvidenceTypeOK, Row, Open
  <2>3. EvidenceTypeOK' /\ WaitsForItsOwn' /\ HeardIsRecorded'
    BY <1>0, <2>1, <2>2 DEF EvidenceInv, EvidenceTypeOK, WaitsForItsOwn, HeardIsRecorded,
                            adjudicationVars
  <2>4. RowIsTheVerdict' /\ ClaimedBelowCeiling'
    BY <1>0, <2>1, <2>2 DEF EvidenceInv, RowIsTheVerdict, ClaimedBelowCeiling, adjudicationVars
  <2> QED
    BY <1>1, <1>2, <1>5, <2>1, <2>3, <2>4 DEF EvidenceInv
<1>6. ASSUME NEW s \in Sweeps, SweepStep(s), UNCHANGED drain
      PROVE  AdjudicationInv' /\ EvidenceInv' /\ QueueTypeOK'
  <2>1. UNCHANGED intent
    BY <1>6 DEF SweepStep, Allocate, Hear, Apply, EndSweep, Claim, Relayed
  <2> QED
    BY <1>0, <1>1, <1>6, <2>1, SweepStepKeeps
<1>7. ASSUME NEW r \in Relays, RelayStep(r), UNCHANGED <<evidenceVars, queueVars>>
      PROVE  AdjudicationInv' /\ EvidenceInv' /\ QueueTypeOK'
  <2>1. AdjudicationKeeps
    BY <1>0, <1>7, RelayStepKeeps
  <2> QED
    BY <1>0, <1>1, <1>7, <2>1, ServerSpares DEF AdjudicationKeeps, queueVars
<1>8. CASE ServerEvent /\ UNCHANGED <<evidenceVars, queueVars>>
  <2>1. AdjudicationKeeps
    BY <1>0, <1>8, ServerEventKeeps
  <2> QED
    BY <1>0, <1>1, <1>8, <2>1, ServerSpares DEF AdjudicationKeeps, queueVars
<1>9. CASE \/ \E o \in Orders : Enqueue(o) \/ LeaseExpires(o)
           \/ \E d \in Drains : DrainStep(d)
  <2>1. QueueTypeOK' /\ UNCHANGED <<evidenceVars, adjudicationVars>>
    BY <1>0, <1>9, DrainKeepsType
  <2> QED
    BY <1>0, <1>2, <2>1, ServerSpares
<1> QED
  BY <1>3, <1>4, <1>5, <1>6, <1>7, <1>8, <1>9 DEF OfflineVoidNext

-----------------------------------------------------------------------------
(* The invariant holds in every state of every terminal and server.        *)
LEMMA OfflineVoidInvHolds ==
  ASSUME OfflineVoidAssumption
  PROVE  OfflineVoidSpec => []OfflineVoidInv
<1>1. OfflineVoidInit => OfflineVoidInv
  BY OfflineVoidInitInv
<1>2. OfflineVoidInv /\ [OfflineVoidNext]_offlineVoidVars => OfflineVoidInv'
  BY OfflineVoidInvStep
<1> QED
  BY <1>1, <1>2, PTL DEF OfflineVoidSpec

(* Every variable of the terminal's journal, its queue and the server's    *)
(* adjudication is of its type.                                            *)
THEOREM OfflineVoidTyped ==
  ASSUME OfflineVoidAssumption
  PROVE  OfflineVoidSpec => []OfflineVoidTypeOK
<1>1. OfflineVoidInv => OfflineVoidTypeOK
  BY DEF OfflineVoidInv
<1> QED
  BY <1>1, OfflineVoidInvHolds, PTL

(* However many relays carry one attestation, each answers what the record *)
(* says, or asks to try again (adjudicateOfflinePrivilegedActionCore.ts).  *)
THEOREM EveryRelayOneVerdict ==
  ASSUME OfflineVoidAssumption
  PROVE  OfflineVoidSpec => []OneVerdict
<1>1. OfflineVoidInv => OneVerdict
  BY DEF OfflineVoidInv
<1> QED
  BY <1>1, OfflineVoidInvHolds, PTL

(* No approval is recorded as applied but by the execution it derives      *)
(* (decideCanonicalVoidCorrelation).                                       *)
THEOREM AcceptanceIsOwned ==
  ASSUME OfflineVoidAssumption
  PROVE  OfflineVoidSpec => []AcceptedIsOwned
<1>1. OfflineVoidInv => AcceptedIsOwned
  BY DEF OfflineVoidInv
<1> QED
  BY <1>1, OfflineVoidInvHolds, PTL

(* What the terminal shows as decided is the record, whatever timeouts     *)
(* detached a sweep from the relay it sent (privilegedEvidenceStore.ts).   *)
THEOREM JournalShowsTheVerdict ==
  ASSUME OfflineVoidAssumption
  PROVE  OfflineVoidSpec => []RowIsTheVerdict
<1>1. OfflineVoidInv => RowIsTheVerdict
  BY DEF OfflineVoidInv
<1> QED
  BY <1>1, OfflineVoidInvHolds, PTL

(* A decided row stays as it was decided.                                  *)
THEOREM DecidedRowsStay ==
  ASSUME OfflineVoidAssumption
  PROVE  OfflineVoidSpec => RowIsFinal
<1>1. OfflineVoidTypeOK /\ [OfflineVoidNext]_offlineVoidVars => [StaysFinal]_offlineVoidVars
  <2> SUFFICES ASSUME OfflineVoidTypeOK, OfflineVoidNext PROVE StaysFinal
    BY DEF offlineVoidVars, evidenceVars, StaysFinal
  <2>0. row \in [Attestations -> Row]
    BY DEF OfflineVoidTypeOK, EvidenceTypeOK
  <2>1. ASSUME UNCHANGED row PROVE StaysFinal
    BY <2>1 DEF StaysFinal
  <2>2. ASSUME NEW a \in Attestations, Ingest(a) PROVE StaysFinal
    BY <2>0, <2>2 DEF Ingest, StaysFinal, Final
  <2>3. ASSUME NEW s \in Sweeps, SweepStep(s) PROVE StaysFinal
    <3>1. ASSUME NEW a \in Attestations, Claim(s, a) PROVE StaysFinal
      BY <2>0, <3>1 DEF Claim, StaysFinal, Final
    <3>2. CASE Apply(s)
      BY <2>0, <2>1, <3>2 DEF Apply, Holds, StaysFinal, Final
    <3> QED
      BY <2>1, <2>3, <3>1, <3>2 DEF SweepStep, Allocate, Hear, EndSweep, Relayed
  <2>4. ASSUME NEW d \in Drains, DrainStep(d) PROVE UNCHANGED row
    BY <2>4 DEF DrainStep, Evaluate, Mark, ClaimIntent, evidenceVars
  <2>5. ASSUME NEW o \in Orders, Enqueue(o) \/ LeaseExpires(o) PROVE UNCHANGED row
    BY <2>5 DEF Enqueue, LeaseExpires, evidenceVars
  <2> QED
    BY <2>1, <2>2, <2>3, <2>4, <2>5 DEF OfflineVoidNext, Restart, evidenceVars
<1> QED
  BY <1>1, OfflineVoidTyped, PTL DEF OfflineVoidSpec, RowIsFinal

(* No approval is consumed once the authority behind it is withdrawn       *)
(* (OPTION_A_LINEARIZE).                                                   *)
THEOREM ConsumptionIsAuthorized ==
  ASSUME OfflineVoidAssumption
  PROVE  OfflineVoidSpec => ConsumedUnderAuthority
<1>1. OfflineVoidInv /\ [OfflineVoidNext]_offlineVoidVars => [ConsumesUnderAuthority]_offlineVoidVars
  <2> SUFFICES ASSUME OfflineVoidInv, OfflineVoidNext PROVE ConsumesUnderAuthority
    BY DEF offlineVoidVars, adjudicationVars, ConsumesUnderAuthority
  <2>0. /\ record \in [Attestations -> Verdict \cup {"absent", "CONSUMED_PENDING_EXECUTION"}]
        /\ relay \in [Relays -> Relay]
        /\ SettlesOwned
    BY DEF OfflineVoidInv, OfflineVoidTypeOK, AdjudicationTypeOK
  <2>1. ASSUME UNCHANGED record PROVE ConsumesUnderAuthority
    BY <2>1 DEF ConsumesUnderAuthority
  <2>2. ASSUME NEW r \in Relays, RelayStep(r) PROVE ConsumesUnderAuthority
    <3>1. CASE Consume(r)
      BY <2>0, <2>1, <3>1 DEF Consume, ConsumesUnderAuthority, Linearized
    <3>2. CASE Terminalize(r)
      BY <2>0, <2>1, <3>2 DEF Terminalize, ConsumesUnderAuthority
    <3>3. CASE Settle(r)
      BY <2>0, <2>1, <3>3 DEF Settle, StillPending, ConsumesUnderAuthority
    <3> QED
      BY <2>1, <2>2, <3>1, <3>2, <3>3
         DEF RelayStep, Preflight, Finish, Execute, Confirm, TryAgain, Lose
  <2>3. ASSUME NEW s \in Sweeps, SweepStep(s) PROVE UNCHANGED record
    BY <2>3 DEF SweepStep, Allocate, Hear, Apply, EndSweep, Claim, Relayed, Submit, adjudicationVars
  <2>4. ASSUME NEW d \in Drains, DrainStep(d) PROVE UNCHANGED record
    BY <2>4 DEF DrainStep, Evaluate, Mark, ClaimIntent, adjudicationVars
  <2>5. ASSUME NEW o \in Orders, Enqueue(o) \/ LeaseExpires(o) PROVE UNCHANGED record
    BY <2>5 DEF Enqueue, LeaseExpires, adjudicationVars
  <2>6. CASE ServerEvent
    BY <2>1, <2>6 DEF ServerEvent, OrderArrives, ReturnLands, VoidElsewhere, DayEnds, Revoke
  <2>7. ASSUME NEW a \in Attestations, Ingest(a) PROVE UNCHANGED record
    BY <2>7 DEF Ingest, adjudicationVars
  <2> QED
    BY <2>1, <2>2, <2>3, <2>4, <2>5, <2>6, <2>7 DEF OfflineVoidNext, Restart, adjudicationVars
<1> QED
  BY <1>1, OfflineVoidInvHolds, PTL DEF OfflineVoidSpec, ConsumedUnderAuthority

-----------------------------------------------------------------------------
(* The fence of the two stores.  A drain holds the intent it has claimed   *)
(* undecided until it marks it, so that marking it pending opens no second *)
(* path; with a second drain this fails (see the run TwoAuthorities).      *)
IsOpen(a) == row[a].status \in Open

FenceInv ==
  /\ \A a, b \in Attestations : Target[a] = Target[b] /\ IsOpen(a) /\ IsOpen(b) => a = b
  /\ \A a \in Attestations : IsOpen(a) => ~LegacyActive(Target[a])
  /\ \A d \in Drains : drain[d].pc # "idle" => LegacyActive(drain[d].order)

LEMMA FenceInit == OfflineVoidInit => FenceInv
BY DEF OfflineVoidInit, EvidenceInit, QueueInit, FenceInv, IsOpen, Open, Idle

(* No step of a sweep opens a row that was not open.                       *)
LEMMA SweepOpensNothing ==
  ASSUME EvidenceTypeOK, NEW s \in Sweeps, SweepStep(s)
  PROVE  \A a \in Attestations : IsOpen(a)' => IsOpen(a)
<1>0. row \in [Attestations -> Row]
  BY DEF EvidenceTypeOK
<1>1. ASSUME NEW a \in Attestations, Claim(s, a)
      PROVE  \A b \in Attestations : IsOpen(b)' => IsOpen(b)
  BY <1>0, <1>1 DEF Claim, IsOpen, Open
<1>2. CASE Apply(s)
  BY <1>0, <1>2 DEF Apply, Holds, IsOpen, Open
<1> QED
  BY <1>1, <1>2 DEF SweepStep, Allocate, Hear, EndSweep, Relayed, IsOpen

LEMMA FenceStep ==
  ASSUME OfflineVoidAssumption, \A d, e \in Drains : d = e,
         OfflineVoidTypeOK, FenceInv, [OfflineVoidNext]_offlineVoidVars
  PROVE  FenceInv'
<1>0. /\ row \in [Attestations -> Row] /\ intent \in [Orders -> Intent]
      /\ drain \in [Drains -> Drain] /\ \A a \in Attestations : Target[a] \in Orders
  BY DEF OfflineVoidTypeOK, EvidenceTypeOK, QueueTypeOK, OfflineVoidAssumption,
         OfflineAdjudicationAssumption
<1>1. CASE UNCHANGED <<row, intent, drain>>
  BY <1>1 DEF FenceInv, IsOpen, LegacyActive
<1>2. CASE Restart
  BY <1>2 DEF Restart, FenceInv, IsOpen, LegacyActive, Idle
<1>3. ASSUME NEW a \in Attestations, Ingest(a), UNCHANGED drain
      PROVE  FenceInv'
  <2>1. /\ ~HasOpenRow(Target[a]) /\ ~LegacyActive(Target[a]) /\ UNCHANGED <<intent, drain>>
        /\ \A b \in Attestations \ {a} : row'[b] = row[b]
    BY <1>0, <1>3 DEF Ingest
  <2>2. \A b \in Attestations : IsOpen(b)' => b = a \/ IsOpen(b)
    BY <2>1 DEF IsOpen
  <2> QED
    BY <2>1, <2>2 DEF FenceInv, HasOpenRow, IsOpen, LegacyActive
<1>4. ASSUME NEW s \in Sweeps, SweepStep(s), UNCHANGED drain
      PROVE  FenceInv'
  <2>1. UNCHANGED intent
    BY <1>4 DEF SweepStep, Allocate, Hear, Apply, EndSweep, Claim, Relayed
  <2>2. \A a \in Attestations : IsOpen(a)' => IsOpen(a)
    BY <1>4, SweepOpensNothing DEF OfflineVoidTypeOK
  <2> QED
    BY <1>4, <2>1, <2>2 DEF FenceInv, LegacyActive
<1>5. ASSUME NEW o \in Orders, Enqueue(o)
      PROVE  FenceInv'
  <2>1. /\ ~HasOpenRow(o) /\ UNCHANGED <<row, drain>>
        /\ intent'[o].status = "pending"
        /\ \A p \in Orders \ {o} : intent'[p] = intent[p]
    BY <1>0, <1>5 DEF Enqueue, evidenceVars, Intent
  <2> QED
    BY <1>0, <2>1 DEF FenceInv, HasOpenRow, IsOpen, LegacyActive, Drain
<1>6. ASSUME NEW o \in Orders, LeaseExpires(o)
      PROVE  FenceInv'
  <2>1. UNCHANGED <<row, drain>> /\ \A p \in Orders : intent'[p].status = intent[p].status
    BY <1>0, <1>6 DEF LeaseExpires, evidenceVars, Intent
  <2> QED
    BY <1>0, <2>1 DEF FenceInv, IsOpen, LegacyActive, Drain
<1>7. ASSUME NEW d \in Drains, NEW o \in Orders, ClaimIntent(d, o)
      PROVE  FenceInv'
  <2>1. /\ LegacyActive(o) /\ UNCHANGED row
        /\ intent'[o].status = "in_flight"
        /\ \A p \in Orders \ {o} : intent'[p] = intent[p]
        /\ drain'[d].order = o
    BY <1>0, <1>7 DEF ClaimIntent, evidenceVars, LegacyActive, Intent
  <2>2. \A p \in Orders : LegacyActive(p)' <=> LegacyActive(p)
    BY <2>1 DEF LegacyActive
  <2>3. \A e \in Drains : e = d
    OBVIOUS
  <2> QED
    BY <1>0, <2>1, <2>2, <2>3 DEF FenceInv, IsOpen
<1>8. ASSUME NEW d \in Drains, Evaluate(d)
      PROVE  FenceInv'
  <2>1. /\ UNCHANGED <<row, intent>> /\ drain[d].pc = "read"
        /\ drain'[d].order = drain[d].order
    BY <1>0, <1>8 DEF Evaluate, evidenceVars, Drain
  <2>2. \A e \in Drains : e = d
    OBVIOUS
  <2> QED
    BY <1>0, <2>1, <2>2 DEF FenceInv, IsOpen, LegacyActive
<1>9. ASSUME NEW d \in Drains, Mark(d)
      PROVE  FenceInv'
  <2>1. /\ UNCHANGED row /\ drain[d].pc = "mark" /\ drain'[d].pc = "idle"
        /\ \A p \in Orders \ {drain[d].order} : intent'[p] = intent[p]
    BY <1>0, <1>9 DEF Mark, evidenceVars, Idle
  <2>2. \A e \in Drains : e = d
    OBVIOUS
  <2>3. LegacyActive(drain[d].order)
    BY <2>1 DEF FenceInv
  <2>4. \A p \in Orders : LegacyActive(p)' => LegacyActive(p)
    BY <2>1, <2>3 DEF LegacyActive
  <2> QED
    BY <1>0, <2>1, <2>2, <2>4 DEF FenceInv, IsOpen
<1>10. ASSUME NEW r \in Relays, RelayStep(r), UNCHANGED <<evidenceVars, queueVars>>
       PROVE  FenceInv'
  BY <1>1, <1>10 DEF evidenceVars, queueVars
<1> QED
  BY <1>1, <1>2, <1>3, <1>4, <1>5, <1>6, <1>7, <1>8, <1>9, <1>10
  DEF OfflineVoidNext, DrainStep, offlineVoidVars, evidenceVars, queueVars

(* A sale has one live path to a void at a time, on a terminal whose       *)
(* drains of the older queue do not overlap: ingesting a privileged row    *)
(* and enqueuing an older intent each look at the other's store in their   *)
(* transaction, and a sweep never reopens a decided row.                   *)
THEOREM OneAuthorityEach ==
  ASSUME OfflineVoidAssumption, \A d, e \in Drains : d = e
  PROVE  OfflineVoidSpec => []OneAuthority
<1>1. FenceInv => OneAuthority
  <2> SUFFICES ASSUME FenceInv, NEW o \in Orders
               PROVE  Cardinality({a \in Attestations : Target[a] = o /\ row[a].status \in Open})
                        + (IF intent[o].status \in {"pending", "in_flight"} THEN 1 ELSE 0) <= 1
    BY DEF OneAuthority
  <2> DEFINE S == {a \in Attestations : Target[a] = o /\ row[a].status \in Open}
  <2>1. CASE S = {}
    <3>1. Cardinality(S) = 0
      BY <2>1, FS_EmptySet
    <3> QED
      BY <3>1
  <2>2. CASE S # {}
    <3>1. PICK a \in S : TRUE
      BY <2>2
    <3>2. S = {a}
      BY <3>1 DEF FenceInv, IsOpen
    <3>3. Cardinality(S) = 1
      BY <3>2, FS_Singleton
    <3>4. ~(intent[o].status \in {"pending", "in_flight"})
      BY <3>1 DEF FenceInv, IsOpen, LegacyActive
    <3> QED
      BY <3>3, <3>4
  <2> QED
    BY <2>1, <2>2
<1>2. OfflineVoidTypeOK /\ FenceInv /\ [OfflineVoidNext]_offlineVoidVars => FenceInv'
  BY FenceStep
<1> QED
  BY <1>1, <1>2, FenceInit, OfflineVoidTyped, PTL DEF OfflineVoidSpec

-----------------------------------------------------------------------------
USE CutAssumption

-----------------------------------------------------------------------------
(* While a line still lacks units, the lots it has walked past are empty.  *)
WalkInv ==
  line \in Lines /\ remaining > 0 => \A k \in Lots : k < lot => qtyRemaining[k] = 0

CutInv == LoopTypeOK /\ WalkInv /\ OldestFirst /\ OversoldOnlyWhenDry

LEMMA CutInvInit == Init => CutInv
<1> SUFFICES ASSUME Init PROVE CutInv
  OBVIOUS
<1> USE DEF Init, Lots, Lines
<1>1. LoopTypeOK
  BY DEF LoopTypeOK, DemandOf
<1>2. WalkInv /\ OldestFirst /\ OversoldOnlyWhenDry
  BY DEF WalkInv, OldestFirst, OversoldOnlyWhenDry
<1> QED
  BY <1>1, <1>2 DEF CutInv

LEMMA CutInvNext == CutInv /\ [Next]_vars => CutInv'
<1> SUFFICES ASSUME CutInv, [Next]_vars PROVE CutInv'
  OBVIOUS
<1> USE DEF CutInv
<1>1. CASE CutLot
  <2> DEFINE cut == Cut(remaining, qtyRemaining[lot])
  <2>1. /\ line \in Lines /\ lot \in Lots /\ lot \in Nat /\ remaining > 0
        /\ remaining \in 0..MaxUnits /\ qtyRemaining[lot] \in 0..MaxUnits /\ qtyRemaining[lot] > 0
    BY <1>1 DEF CutLot, AtLot, LoopTypeOK, Lots
  <2>2. /\ cut \in 1..MaxUnits
        /\ qtyRemaining[lot] - cut \in 0..MaxUnits /\ remaining - cut \in 0..MaxUnits
        /\ remaining - cut > 0 => qtyRemaining[lot] - cut = 0
    BY <2>1 DEF Cut
  <2>3. /\ lotRefs' = [lotRefs EXCEPT ![line] = [lotRefs[line] EXCEPT ![lot] = cut]]
        /\ qtyRemaining' = [qtyRemaining EXCEPT ![lot] = qtyRemaining[lot] - cut]
        /\ remaining' = remaining - cut /\ lot' = lot + 1
        /\ UNCHANGED <<initial, demand, line, oversell>>
    BY <1>1 DEF CutLot
  <2> HIDE DEF cut
  <2>4. /\ qtyRemaining'[lot] = qtyRemaining[lot] - cut
        /\ \A l \in Lots \ {lot} : qtyRemaining'[l] = qtyRemaining[l]
    BY <2>1, <2>3 DEF LoopTypeOK
  <2>5. LoopTypeOK'
    <3>1. lot' \in 1..(NLots + 1)
      BY <2>1, <2>3 DEF Lots
    <3>2. [lotRefs[line] EXCEPT ![lot] = cut] \in [Lots -> 0..MaxUnits]
      BY <2>1, <2>2 DEF LoopTypeOK
    <3> QED
      BY <2>1, <2>2, <2>3, <3>1, <3>2 DEF LoopTypeOK
  <2>6. WalkInv'
    <3> SUFFICES ASSUME remaining' > 0, NEW k \in Lots, k < lot'
                 PROVE  qtyRemaining'[k] = 0
      BY DEF WalkInv
    <3>1. CASE k = lot
      BY <2>2, <2>3, <2>4, <3>1
    <3>2. CASE k # lot
      BY <2>1, <2>3, <2>4, <3>2 DEF WalkInv, Lots
    <3> QED
      BY <3>1, <3>2
  <2>7. OldestFirst'
    <3> SUFFICES ASSUME NEW k \in Lots, NEW l \in Lots, k < l, qtyRemaining'[l] < initial[l]
                 PROVE  qtyRemaining'[k] = 0
      BY <2>3 DEF OldestFirst
    <3>1. CASE l = lot
      BY <2>1, <2>4, <3>1 DEF WalkInv, Lots
    <3>2. CASE l # lot
      BY <2>1, <2>4, <3>2 DEF OldestFirst, Lots
    <3> QED
      BY <3>1, <3>2
  <2>8. OversoldOnlyWhenDry'
    BY <2>1, <2>3, <2>4 DEF OversoldOnlyWhenDry
  <2> QED
    BY <2>5, <2>6, <2>7, <2>8
<1>2. CASE SkipLot
  <2>0. /\ line \in Lines /\ remaining > 0 /\ lot \in Lots /\ qtyRemaining[lot] = 0
        /\ lot' = lot + 1 /\ lot \in Nat
        /\ UNCHANGED <<initial, demand, qtyRemaining, line, remaining, lotRefs, oversell>>
    BY <1>2 DEF SkipLot, AtLot, Lots
  <2>1. LoopTypeOK'
    <3>1. lot' \in 1..(NLots + 1)
      BY <2>0 DEF Lots
    <3> QED
      BY <2>0, <3>1 DEF LoopTypeOK
  <2>2. WalkInv'
    <3> SUFFICES ASSUME NEW k \in Lots, k < lot'
                 PROVE  qtyRemaining'[k] = 0
      BY DEF WalkInv
    <3>1. k < lot \/ k = lot
      BY <2>0 DEF Lots
    <3> QED
      BY <2>0, <3>1 DEF WalkInv
  <2> QED
    BY <1>2, <2>1, <2>2 DEF SkipLot, OldestFirst, OversoldOnlyWhenDry
<1>3. CASE EndLine
  <2>0. line \in Lines /\ line + 1 \in 1..(NLines + 2)
    BY <1>3 DEF EndLine, Lines
  <2>1. LoopTypeOK'
    <3>1. DemandOf(line + 1) \in 0..MaxUnits
      BY DEF DemandOf, LoopTypeOK
    <3> QED
      BY <1>3, <2>0, <3>1 DEF EndLine, LoopTypeOK
  <2>2. WalkInv'
    BY <1>3 DEF EndLine, WalkInv, Lots
  <2>3. OversoldOnlyWhenDry'
    <3>1. remaining > 0 => \A l \in Lots : qtyRemaining[l] = 0
      BY <1>3 DEF EndLine, WalkInv, LoopTypeOK, Lots
    <3> QED
      BY <1>3, <2>0, <3>1 DEF EndLine, OversoldOnlyWhenDry, LoopTypeOK
  <2> QED
    BY <1>3, <2>1, <2>2, <2>3 DEF EndLine, OldestFirst
<1>4. CASE WriteLots
  BY <1>4 DEF WriteLots, LoopTypeOK, WalkInv, OldestFirst, OversoldOnlyWhenDry, Lines
<1>5. CASE UNCHANGED vars
  BY <1>5 DEF vars, LoopTypeOK, WalkInv, OldestFirst, OversoldOnlyWhenDry
<1> QED
  BY <1>1, <1>2, <1>3, <1>4, <1>5 DEF Next

(* The lines of a sale together cut the oldest lots first, and a line is   *)
(* written with an oversell reference only when every lot is empty:        *)
(* planFifoCutFromState starts each line again at the oldest lot, over     *)
(* what the lines before it have left.                                     *)
THEOREM SaleCutsGreedily == Spec => []CutsGreedily
BY CutInvInit, CutInvNext, PTL DEF Spec, CutInv, CutsGreedily

-----------------------------------------------------------------------------
(* What the loops have taken adds up, by lot, by line and in all.  A cut   *)
(* is assigned and not added, so the line must not have cut the lot yet.   *)
Uncut == \A i \in Lines, l \in Lots : i > line \/ (i = line /\ l >= lot) => lotRefs[i][l] = 0

(* What a line still lacks.                                                *)
Lacking(i) == IF i < line THEN oversell[i] ELSE IF i = line THEN remaining ELSE demand[i]

UnitsOf == [i \in Lines |-> Units(lotRefs[i])]

LotsAddUp == \A l \in Lots : Merged[l] = initial[l] - qtyRemaining[l]
LinesAddUp == \A i \in Lines : UnitsOf[i] + Lacking(i) = demand[i]
SaleAddsUp == Units(Merged) = SumFunction(UnitsOf)

LotsWritten ==
  line = NLines + 2 =>
    \A l \in Lots : written[l] = [qty |-> qtyRemaining[l], isDepleted |-> qtyRemaining[l] = 0]

AddInv == Uncut /\ LotsAddUp /\ LinesAddUp /\ SaleAddsUp /\ LotsWritten

LEMMA Finite == IsFiniteSet(Lots) /\ IsFiniteSet(Lines)
BY FS_Interval DEF Lots, Lines

(* The sums are over the lots of a line, the lines of a lot, and these.    *)
LEMMA SumsAre ==
  ASSUME LoopTypeOK
  PROVE  /\ \A i \in Lines : UnitsOf[i] = SumFunctionOnSet(lotRefs[i], Lots) /\ UnitsOf[i] \in Int
         /\ \A l \in Lots : /\ Merged[l] = SumFunctionOnSet([i \in Lines |-> lotRefs[i][l]], Lines)
                            /\ Merged[l] \in Int
         /\ Units(Merged) = SumFunctionOnSet(Merged, Lots)
         /\ SumFunction(UnitsOf) = SumFunctionOnSet(UnitsOf, Lines)
<1>1. \A i \in Lines : /\ lotRefs[i] \in [Lots -> 0..MaxUnits] /\ DOMAIN lotRefs[i] = Lots
                       /\ \A l \in Lots : lotRefs[i][l] \in Int
  BY DEF LoopTypeOK
<1>2. ASSUME NEW i \in Lines
      PROVE  UnitsOf[i] = SumFunctionOnSet(lotRefs[i], Lots) /\ UnitsOf[i] \in Int
  <2>1. UnitsOf[i] = SumFunctionOnSet(lotRefs[i], Lots)
    BY <1>1 DEF UnitsOf, Units, SumFunction
  <2>2. SumFunctionOnSet(lotRefs[i], Lots) \in Int
    BY <1>1, Finite, SumOne
  <2> QED
    BY <2>1, <2>2
<1>3. ASSUME NEW l \in Lots
      PROVE  /\ Merged[l] = SumFunctionOnSet([i \in Lines |-> lotRefs[i][l]], Lines)
             /\ Merged[l] \in Int
  <2> DEFINE f == [i \in Lines |-> lotRefs[i][l]]
  <2>1. Merged[l] = SumFunctionOnSet(f, Lines)
    BY DEF Merged, SumFunction
  <2>2. \A i \in Lines : f[i] \in Int
    BY <1>1
  <2> HIDE DEF f
  <2>3. SumFunctionOnSet(f, Lines) \in Int
    BY <2>2, Finite, SumOne
  <2> QED
    BY <2>1, <2>3 DEF f
<1>4. DOMAIN Merged = Lots /\ DOMAIN UnitsOf = Lines
  BY DEF Merged, UnitsOf
<1> QED
  BY <1>2, <1>3, <1>4 DEF Units, SumFunction

(* A cut of a lot by a line that had not touched it moves every sum by it. *)
LEMMA CutMoves ==
  ASSUME LoopTypeOK, LoopTypeOK', NEW cut \in Int, line \in Lines, lot \in Lots, lotRefs[line][lot] = 0,
         lotRefs' = [lotRefs EXCEPT ![line] = [lotRefs[line] EXCEPT ![lot] = cut]]
  PROVE  /\ UnitsOf'[line] = UnitsOf[line] + cut
         /\ \A i \in Lines \ {line} : UnitsOf'[i] = UnitsOf[i]
         /\ Merged'[lot] = Merged[lot] + cut
         /\ \A l \in Lots \ {lot} : Merged'[l] = Merged[l]
         /\ Units(Merged)' = Units(Merged) + cut
         /\ SumFunction(UnitsOf)' = SumFunction(UnitsOf) + cut
<1>1. /\ \A i \in Lines : /\ lotRefs[i] \in [Lots -> 0..MaxUnits]
                          /\ \A l \in Lots : lotRefs[i][l] \in Int
      /\ lotRefs'[line][lot] = cut
      /\ \A l \in Lots \ {lot} : lotRefs'[line][l] = lotRefs[line][l]
      /\ \A i \in Lines \ {line} : lotRefs'[i] = lotRefs[i]
  BY DEF LoopTypeOK
<1>2. /\ UnitsOf'[line] = SumFunctionOnSet(lotRefs'[line], Lots)
      /\ \A i \in Lines : UnitsOf'[i] = SumFunctionOnSet(lotRefs'[i], Lots)
      /\ \A l \in Lots : Merged'[l] = SumFunctionOnSet([i \in Lines |-> lotRefs'[i][l]], Lines)
      /\ Units(Merged)' = SumFunctionOnSet(Merged', Lots)
      /\ SumFunction(UnitsOf)' = SumFunctionOnSet(UnitsOf', Lines)
  <2>1. \A i \in Lines : DOMAIN lotRefs'[i] = Lots
    BY DEF LoopTypeOK
  <2> QED
    BY <2>1 DEF UnitsOf, Merged, Units, SumFunction
<1>3. UnitsOf'[line] = UnitsOf[line] + cut
  <2>1. SumFunctionOnSet(lotRefs'[line], Lots)
          = SumFunctionOnSet(lotRefs[line], Lots) - lotRefs[line][lot] + lotRefs'[line][lot]
    BY <1>1, Finite, SumUpdate
  <2>2. UnitsOf[line] = SumFunctionOnSet(lotRefs[line], Lots) /\ UnitsOf[line] \in Int
    BY SumsAre
  <2> QED
    BY <1>1, <1>2, <2>1, <2>2
<1>4. \A i \in Lines \ {line} : UnitsOf'[i] = UnitsOf[i]
  BY <1>1, <1>2, SumsAre
<1>5. Merged'[lot] = Merged[lot] + cut
  <2> DEFINE f == [i \in Lines |-> lotRefs[i][lot]]
             g == [i \in Lines |-> lotRefs'[i][lot]]
  <2>1. /\ \A i \in Lines : f[i] \in Int
        /\ \A i \in Lines \ {line} : g[i] = f[i]
        /\ f[line] = 0 /\ g[line] = cut
    BY <1>1
  <2>2. Merged[lot] = SumFunctionOnSet(f, Lines) /\ Merged[lot] \in Int
    BY SumsAre
  <2>3. Merged'[lot] = SumFunctionOnSet(g, Lines)
    BY <1>2
  <2> HIDE DEF f, g
  <2>4. SumFunctionOnSet(g, Lines) = SumFunctionOnSet(f, Lines) - f[line] + g[line]
    BY <2>1, Finite, SumUpdate
  <2> QED
    BY <2>1, <2>2, <2>3, <2>4
<1>6. \A l \in Lots \ {lot} : Merged'[l] = Merged[l]
  <2> TAKE l \in Lots \ {lot}
  <2>1. \A i \in Lines : lotRefs'[i][l] = lotRefs[i][l]
    BY <1>1
  <2>2. [i \in Lines |-> lotRefs'[i][l]] = [i \in Lines |-> lotRefs[i][l]]
    BY <2>1
  <2> QED
    BY <1>2, <2>2, SumsAre
<1>7. Units(Merged)' = Units(Merged) + cut
  <2>1. \A l \in Lots : Merged[l] \in Int
    BY SumsAre
  <2>2. Merged'[lot] \in Int
    BY <1>5, <2>1
  <2>3. /\ SumFunctionOnSet(Merged, Lots) \in Int
        /\ SumFunctionOnSet(Merged', Lots) = SumFunctionOnSet(Merged, Lots) - Merged[lot] + Merged'[lot]
    BY <1>6, <2>1, <2>2, Finite, SumUpdate
  <2> QED
    BY <1>2, <1>5, <2>1, <2>3, SumsAre
<1>8. SumFunction(UnitsOf)' = SumFunction(UnitsOf) + cut
  <2>1. \A i \in Lines : UnitsOf[i] \in Int
    BY SumsAre
  <2>2. UnitsOf'[line] \in Int
    BY <1>3, <2>1
  <2>3. /\ SumFunctionOnSet(UnitsOf, Lines) \in Int
        /\ SumFunctionOnSet(UnitsOf', Lines)
             = SumFunctionOnSet(UnitsOf, Lines) - UnitsOf[line] + UnitsOf'[line]
    BY <1>4, <2>1, <2>2, Finite, SumUpdate
  <2> QED
    BY <1>2, <1>3, <2>1, <2>3, SumsAre
<1> QED
  BY <1>3, <1>4, <1>5, <1>6, <1>7, <1>8

LEMMA AddInvInit == Init => AddInv
<1> SUFFICES ASSUME Init PROVE AddInv
  OBVIOUS
<1>1. LoopTypeOK
  BY CutInvInit DEF CutInv
<1>2. Uncut /\ LotsWritten
  BY DEF Init, Uncut, LotsWritten
<1>3. \A i \in Lines, l \in Lots : lotRefs[i][l] = 0
  BY DEF Init
<1>4. \A i \in Lines : UnitsOf[i] = 0
  BY <1>1, <1>3, Finite, SumsAre, SumZero
<1>5. \A l \in Lots : Merged[l] = 0
  <2> TAKE l \in Lots
  <2> DEFINE f == [i \in Lines |-> lotRefs[i][l]]
  <2>1. \A i \in Lines : f[i] = 0
    BY <1>3
  <2>2. Merged[l] = SumFunctionOnSet(f, Lines)
    BY <1>1, SumsAre
  <2> HIDE DEF f
  <2> QED
    BY <2>1, <2>2, Finite, SumZero
<1>6. LotsAddUp
  BY <1>5 DEF Init, LotsAddUp
<1>7. LinesAddUp
  BY <1>4 DEF Init, LinesAddUp, Lacking, DemandOf, Lines
<1>8. SaleAddsUp
  <2>1. SumFunctionOnSet(Merged, Lots) = 0 /\ SumFunctionOnSet(UnitsOf, Lines) = 0
    BY <1>4, <1>5, Finite, SumZero
  <2> QED
    BY <1>1, <2>1, SumsAre DEF SaleAddsUp
<1> QED
  BY <1>2, <1>6, <1>7, <1>8 DEF AddInv

LEMMA AddInvNext == CutInv /\ CutInv' /\ AddInv /\ [Next]_vars => AddInv'
<1> SUFFICES ASSUME CutInv, CutInv', AddInv, [Next]_vars PROVE AddInv'
  OBVIOUS
<1>1. LoopTypeOK /\ LoopTypeOK'
  BY DEF CutInv
<1>2. ASSUME UNCHANGED lotRefs
      PROVE  /\ UnitsOf' = UnitsOf /\ Merged' = Merged
             /\ (Units(Merged))' = Units(Merged) /\ (SumFunction(UnitsOf))' = SumFunction(UnitsOf)
  BY <1>2 DEF UnitsOf, Merged
<1>3. CASE CutLot
  <2> DEFINE cut == Cut(remaining, qtyRemaining[lot])
  <2>1. /\ line \in Lines /\ lot \in Lots /\ lot \in Nat /\ line \in Nat /\ line # NLines + 2
        /\ remaining \in Int /\ \A l \in Lots : qtyRemaining[l] \in Int /\ initial[l] \in Int
    BY <1>1, <1>3 DEF CutLot, AtLot, LoopTypeOK, Lots, Lines
  <2>2. cut \in Int
    BY <2>1 DEF Cut
  <2>3. /\ lotRefs' = [lotRefs EXCEPT ![line] = [lotRefs[line] EXCEPT ![lot] = cut]]
        /\ qtyRemaining' = [qtyRemaining EXCEPT ![lot] = qtyRemaining[lot] - cut]
        /\ remaining' = remaining - cut /\ lot' = lot + 1
        /\ UNCHANGED <<initial, demand, line, oversell>>
    BY <1>3 DEF CutLot
  <2> HIDE DEF cut
  <2>4. lotRefs[line][lot] = 0
    BY <2>1 DEF AddInv, Uncut
  <2>5. /\ UnitsOf'[line] = UnitsOf[line] + cut
        /\ \A i \in Lines \ {line} : UnitsOf'[i] = UnitsOf[i]
        /\ Merged'[lot] = Merged[lot] + cut
        /\ \A l \in Lots \ {lot} : Merged'[l] = Merged[l]
        /\ (Units(Merged))' = Units(Merged) + cut
        /\ (SumFunction(UnitsOf))' = SumFunction(UnitsOf) + cut
    BY <1>1, <2>1, <2>2, <2>3, <2>4, CutMoves
  <2>6. Uncut'
    <3> SUFFICES ASSUME NEW i \in Lines, NEW l \in Lots, i > line \/ (i = line /\ l >= lot + 1)
                 PROVE  lotRefs'[i][l] = 0
      BY <2>3 DEF Uncut
    <3>1. lotRefs[i][l] = 0 /\ ~(i = line /\ l = lot)
      BY <2>1 DEF AddInv, Uncut, Lots, Lines
    <3> QED
      BY <1>1, <2>1, <2>3, <3>1 DEF LoopTypeOK
  <2>7. LotsAddUp'
    <3> SUFFICES ASSUME NEW l \in Lots PROVE Merged'[l] = initial[l] - qtyRemaining'[l]
      BY <2>3 DEF LotsAddUp
    <3>1. Merged[l] = initial[l] - qtyRemaining[l]
      BY DEF AddInv, LotsAddUp
    <3>2. qtyRemaining'[l] = IF l = lot THEN qtyRemaining[l] - cut ELSE qtyRemaining[l]
      BY <1>1, <2>1, <2>3 DEF LoopTypeOK
    <3> QED
      BY <2>1, <2>2, <2>5, <3>1, <3>2
  <2>8. LinesAddUp'
    <3> SUFFICES ASSUME NEW i \in Lines PROVE UnitsOf'[i] + Lacking(i)' = demand[i]
      BY <2>3 DEF LinesAddUp
    <3>1. UnitsOf[i] + Lacking(i) = demand[i] /\ UnitsOf[i] \in Int
      BY <1>1, SumsAre DEF AddInv, LinesAddUp
    <3> QED
      BY <2>1, <2>2, <2>3, <2>5, <3>1 DEF Lacking
  <2>9. SaleAddsUp' /\ LotsWritten'
    BY <2>1, <2>3, <2>5 DEF AddInv, SaleAddsUp, LotsWritten
  <2> QED
    BY <2>6, <2>7, <2>8, <2>9 DEF AddInv
<1>4. CASE SkipLot
  <2>1. /\ line \in Lines /\ lot \in Lots /\ lot' = lot + 1
        /\ UNCHANGED <<initial, demand, qtyRemaining, line, remaining, lotRefs, oversell, written>>
    BY <1>4 DEF SkipLot, AtLot
  <2>2. Uncut'
    BY <2>1 DEF AddInv, Uncut, Lots
  <2> QED
    BY <1>2, <2>1, <2>2 DEF AddInv, LotsAddUp, LinesAddUp, SaleAddsUp, LotsWritten, Lacking
<1>5. CASE EndLine
  <2>1. /\ line \in Lines /\ line' = line + 1 /\ line \in Nat /\ line # NLines + 1
        /\ remaining' = DemandOf(line + 1)
        /\ oversell' = [oversell EXCEPT ![line] = remaining]
        /\ UNCHANGED <<initial, demand, qtyRemaining, lotRefs, written>>
    BY <1>5 DEF EndLine, Lines
  <2>2. Uncut'
    BY <2>1 DEF AddInv, Uncut, Lines
  <2>3. LinesAddUp'
    <3> SUFFICES ASSUME NEW i \in Lines PROVE UnitsOf[i] + Lacking(i)' = demand[i]
      BY <1>2, <2>1 DEF LinesAddUp
    <3>1. UnitsOf[i] + Lacking(i) = demand[i]
      BY DEF AddInv, LinesAddUp
    <3>2. Lacking(i)' = Lacking(i)
      <4>1. oversell'[line] = remaining /\ \A j \in Lines \ {line} : oversell'[j] = oversell[j]
        BY <1>1, <2>1 DEF LoopTypeOK
      <4> QED
        BY <2>1, <4>1 DEF Lacking, DemandOf, Lines
    <3> QED
      BY <3>1, <3>2
  <2> QED
    BY <1>2, <2>1, <2>2, <2>3 DEF AddInv, LotsAddUp, SaleAddsUp, LotsWritten
<1>6. CASE WriteLots
  <2>1. /\ line = NLines + 1 /\ line' = NLines + 2
        /\ written' = [l \in Lots |-> [qty |-> initial[l] - Merged[l],
                                       isDepleted |-> Merged[l] > 0 /\ initial[l] - Merged[l] <= 0]]
        /\ UNCHANGED <<initial, demand, qtyRemaining, lot, remaining, lotRefs, oversell>>
    BY <1>6 DEF WriteLots
  <2>2. LotsWritten'
    <3> SUFFICES ASSUME NEW l \in Lots
                 PROVE  written'[l] = [qty |-> qtyRemaining[l], isDepleted |-> qtyRemaining[l] = 0]
      BY <2>1 DEF LotsWritten
    <3>1. Merged[l] = initial[l] - qtyRemaining[l]
      BY DEF AddInv, LotsAddUp
    <3>2. initial[l] \in 1..MaxUnits /\ qtyRemaining[l] \in 0..MaxUnits
      BY <1>1 DEF LoopTypeOK
    <3>3. /\ initial[l] - Merged[l] = qtyRemaining[l]
          /\ (Merged[l] > 0 /\ initial[l] - Merged[l] <= 0) <=> qtyRemaining[l] = 0
      BY <3>1, <3>2
    <3>4. written'[l] = [qty |-> initial[l] - Merged[l],
                         isDepleted |-> Merged[l] > 0 /\ initial[l] - Merged[l] <= 0]
      BY <2>1
    <3> QED
      BY <3>3, <3>4
  <2>3. Uncut'
    BY <2>1 DEF AddInv, Uncut, Lines
  <2>4. LinesAddUp'
    BY <1>2, <2>1 DEF AddInv, LinesAddUp, Lacking, Lines
  <2> QED
    BY <1>2, <2>1, <2>2, <2>3, <2>4 DEF AddInv, LotsAddUp, SaleAddsUp
<1>7. CASE UNCHANGED vars
  <2>1. UNCHANGED <<initial, demand, qtyRemaining, line, lot, remaining, lotRefs, oversell, written>>
    BY <1>7 DEF vars
  <2> QED
    BY <1>2, <2>1
    DEF AddInv, Uncut, LotsAddUp, LinesAddUp, SaleAddsUp, LotsWritten, Lacking
<1> QED
  BY <1>3, <1>4, <1>5, <1>6, <1>7 DEF Next

LEMMA CutCorrect == Spec => [](CutInv /\ AddInv)
BY CutInvInit, CutInvNext, AddInvInit, AddInvNext, PTL DEF Spec

(* A sale of several lines is the FIFO cut of all its units: mergeLotCuts  *)
(* loses no cut, each line has exactly what it sold, and a lot is written  *)
(* with exactly the rest and flagged only when it is empty.                *)
THEOREM SaleIsCutOnce == Spec => []SaleIsOneCut
<1>1. CutInv /\ AddInv => SaleIsOneCut
  <2> SUFFICES ASSUME CutInv, AddInv, line = NLines + 2 PROVE SaleIsOneCut
    BY DEF SaleIsOneCut
  <2>1. LoopTypeOK
    BY DEF CutInv
  <2>2. \A i \in Lines : /\ UnitsOf[i] + oversell[i] = demand[i] /\ UnitsOf[i] \in Int
                         /\ oversell[i] \in Nat /\ demand[i] \in Nat
    <3> TAKE i \in Lines
    <3>1. Lacking(i) = oversell[i]
      BY DEF Lacking, Lines
    <3> QED
      BY <2>1, <3>1, SumsAre DEF AddInv, LinesAddUp, LoopTypeOK
  <2>3. \A i \in Lines : Units(lotRefs[i]) + oversell[i] = demand[i]
    BY <2>2 DEF UnitsOf
  <2>4. ASSUME NEW l \in Lots
        PROVE  /\ Merged[l] = initial[l] - qtyRemaining[l] /\ Merged[l] \in Nat
               /\ initial[l] \in Nat /\ qtyRemaining[l] \in Nat
    <3> DEFINE f == [i \in Lines |-> lotRefs[i][l]]
    <3>1. \A i \in Lines : f[i] \in Nat
      BY <2>1 DEF LoopTypeOK
    <3>2. Merged[l] = SumFunctionOnSet(f, Lines)
      BY <2>1, SumsAre
    <3> HIDE DEF f
    <3>3. Merged[l] \in Nat
      BY <3>1, <3>2, Finite, SumNat
    <3> QED
      BY <2>1, <3>3 DEF AddInv, LotsAddUp, LoopTypeOK
  <2>5. /\ DOMAIN initial = Lots /\ DOMAIN oversell = Lines /\ DOMAIN demand = Lines
        /\ OldestFirst /\ OversoldOnlyWhenDry
    BY <2>1 DEF LoopTypeOK, CutInv
  <2>6. SumFunction(oversell) > 0 => \A l \in Lots : qtyRemaining[l] = 0
    <3>1. CASE \A i \in Lines : oversell[i] = 0
      <4>1. SumFunctionOnSet(oversell, Lines) = 0
        BY <3>1, Finite, SumZero
      <4> QED
        BY <2>5, <4>1 DEF SumFunction
    <3>2. CASE \E i \in Lines : oversell[i] # 0
      BY <2>2, <2>5, <3>2 DEF OversoldOnlyWhenDry
    <3> QED
      BY <3>1, <3>2
  <2>7. Greedy(initial, Merged, SumFunction(oversell))
    BY <2>4, <2>5, <2>6 DEF Greedy, OldestFirst
  <2>8. Units(Merged) + SumFunction(oversell) = SumFunction(demand)
    <3>1. \A i \in Lines : UnitsOf[i] \in Int /\ oversell[i] \in Int /\ demand[i] = UnitsOf[i] + oversell[i]
      BY <2>2
    <3>2. SumFunctionOnSet(demand, Lines)
            = SumFunctionOnSet(UnitsOf, Lines) + SumFunctionOnSet(oversell, Lines)
      BY <3>1, Finite, SumAdd
    <3>3. Units(Merged) = SumFunctionOnSet(UnitsOf, Lines)
      BY <2>1, SumsAre DEF AddInv, SaleAddsUp
    <3> QED
      BY <2>5, <3>2, <3>3 DEF SumFunction
  <2> QED
    BY <2>3, <2>7, <2>8 DEF SaleIsOneCut, FifoPlan, AddInv, LotsWritten
<1> QED
  BY <1>1, CutCorrect, PTL

(* The loops keep their bounds, and what is written is a number and a flag.*)
THEOREM CutTyped == Spec => []TypeOK
<1> DEFINE Written == written \in [Lots -> [qty : Int, isDepleted : BOOLEAN]]
<1>1. Init => Written
  BY DEF Init, NotWritten
<1>2. CutInv /\ AddInv /\ Written /\ [Next]_vars => Written'
  <2> SUFFICES ASSUME CutInv, AddInv, Written, [Next]_vars PROVE Written'
    OBVIOUS
  <2>1. CASE WriteLots
    <3>1. \A l \in Lots : initial[l] \in Int /\ Merged[l] \in Int
      BY DEF CutInv, LoopTypeOK, AddInv, LotsAddUp
    <3>2. \A l \in Lots : initial[l] - Merged[l] \in Int
      BY <3>1
    <3> HIDE DEF Written
    <3>3. \A l \in Lots : [qty |-> initial[l] - Merged[l], isDepleted |-> Merged[l] > 0 /\ initial[l] - Merged[l] <= 0]
                            \in [qty : Int, isDepleted : BOOLEAN]
      BY <3>2
    <3> QED BY <2>1, <3>3 DEF WriteLots, Written
  <2>2. CASE UNCHANGED written
    BY <2>2
  <2> QED BY <2>1, <2>2 DEF Next, AtLot, CutLot, SkipLot, EndLine, vars
<1>3. CutInv /\ Written => TypeOK
  BY DEF CutInv, TypeOK
<1>4. Spec => [](CutInv /\ AddInv)
  BY CutCorrect
<1> HIDE DEF Written
<1> QED BY <1>1, <1>2, <1>3, <1>4, PTL DEF Spec
=============================================================================
