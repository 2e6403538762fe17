----------------------------- MODULE ShiftOpens -----------------------------
(***************************************************************************)
(* The opening of a shift from a terminal that may be offline: an intent   *)
(* is journaled, its one create is claimed and queued, and the shift is    *)
(* used at once.  What became of the create is learnt from its answer,     *)
(* while the window lives, or by a sweep that reads the server and may     *)
(* issue a create nobody has claimed.                                      *)
(***************************************************************************)
EXTENDS Naturals

CONSTANTS Screens,     \* windows of one terminal
          Opens,       \* calls of openShift, for one member of staff
          OpenScreen,  \* call -> its window
          Shifts,      \* shift ids that calls may draw
          NoShift, Nobody,
          MaxReopens  \* bound of the exploration

ASSUME OpensAssumption ==
  /\ OpenScreen \in [Opens -> Screens] /\ Opens \cap Screens = {}
  /\ NoShift \notin Shifts /\ Nobody \notin Opens \cup Screens
  /\ MaxReopens \in Nat

VARIABLES
  openIntent,  \* shift -> entry of the journal
  shiftDoc,    \* shift -> its document on the server
  creates,     \* creates in the terminal's queue, each with who awaits it
  opening,     \* call -> where it is, and its shift
  reconcile,   \* window -> shift -> the one reconciliation under way
  closedHere,  \* shifts whose deferred close this terminal has recorded
  reopened     \* restarts of a window

openVars == <<openIntent, shiftDoc, creates, opening, reconcile, closedHere, reopened>>

NoIntent == [status |-> "none", create |-> "none"]
ReconcileSteps == {"idle", "check", "read", "absent", "claim", "write", "await", "open"}
OpensTypeOK ==
  /\ openIntent \in [Shifts -> [status : {"none", "local_open_pending", "synced", "rejected_manual_attention"},
                                create : {"none", "outstanding"}]]
  /\ shiftDoc \in [Shifts -> {"absent", "open", "closed"}]
  /\ creates \subseteq [shift : Shifts, by : Opens \cup Screens \cup {Nobody}]
  /\ opening \in [Opens -> [at : {"idle", "upsert", "claim", "write", "await", "denied", "reconcile", "done"},
                            shift : Shifts \cup {NoShift}]]
  /\ reconcile \in [Screens -> [Shifts -> ReconcileSteps]]
  /\ closedHere \subseteq Shifts
  /\ reopened \in 0..MaxReopens

OpensInit ==
  /\ openIntent = [s \in Shifts |-> NoIntent]
  /\ shiftDoc = [s \in Shifts |-> "absent"]
  /\ creates = {}
  /\ opening = [c \in Opens |-> [at |-> "idle", shift |-> NoShift]]
  /\ reconcile = [w \in Screens |-> [s \in Shifts |-> "idle"]]
  /\ closedHere = {}
  /\ reopened = 0

-----------------------------------------------------------------------------
(* The journal: a create is claimed once, and a pending entry is settled   *)
(* once.  Any transaction may fail, and then nothing is written.           *)
OpenPending(s) == openIntent[s].status = "local_open_pending"
MutClaimable(s) == OpenPending(s)  (* mutant: whoever else has claimed it *)
Claimable(s) == OpenPending(s) /\ openIntent[s].create = "none"
ClaimCreate(s) == openIntent' = [openIntent EXCEPT ![s].create = "outstanding"]
MarkStatus(s, status) ==
  \/ openIntent' = IF OpenPending(s) THEN [openIntent EXCEPT ![s].status = status] ELSE openIntent
  \/ UNCHANGED openIntent

Drawn == {opening[c].shift : c \in Opens}
OpenGoes(c, at) == opening' = [opening EXCEPT ![c].at = at]

(* A rejected open blocks; a pending one is resumed, and never created     *)
(* again; else an id is drawn.                                             *)
OpenShift(c) ==
  /\ opening[c].at = "idle"
  /\ \A s \in Shifts : openIntent[s].status # "rejected_manual_attention"
  /\ LET resumable == {s \in Shifts : OpenPending(s)} \ closedHere IN
       IF resumable # {}
         THEN \E s \in resumable : opening' = [opening EXCEPT ![c] = [at |-> "reconcile", shift |-> s]]
         ELSE \E s \in Shifts \ Drawn : opening' = [opening EXCEPT ![c] = [at |-> "upsert", shift |-> s]]
  /\ UNCHANGED <<openIntent, shiftDoc, creates, reconcile, closedHere, reopened>>

UpsertOpenIntent(c) ==
  /\ opening[c].at = "upsert"
  /\ \/ /\ openIntent' = [openIntent EXCEPT ![opening[c].shift] = [status |-> "local_open_pending", create |-> "none"]]
        /\ OpenGoes(c, "claim")
     \/ UNCHANGED openIntent /\ OpenGoes(c, "done")
  /\ UNCHANGED <<shiftDoc, creates, reconcile, closedHere, reopened>>

ClaimRemoteCreateAttempt(c) ==
  /\ opening[c].at = "claim"
  /\ LET s == opening[c].shift IN
       \/ Claimable(s) /\ ClaimCreate(s) /\ OpenGoes(c, "write")
       \/ ~Claimable(s) /\ UNCHANGED openIntent /\ OpenGoes(c, IF OpenPending(s) THEN "reconcile" ELSE "done")
       \/ UNCHANGED openIntent /\ OpenGoes(c, "done")
  /\ UNCHANGED <<shiftDoc, creates, reconcile, closedHere, reopened>>

SetDoc(c) ==
  /\ opening[c].at = "write"
  /\ creates' = creates \cup {[shift |-> opening[c].shift, by |-> c]}
  /\ OpenGoes(c, "await")
  /\ UNCHANGED <<openIntent, shiftDoc, reconcile, closedHere, reopened>>

(* The server's answer reaches whoever still awaits it.  A create of a     *)
(* shift that exists is an update, which the rules deny.                   *)
AnswerCreate(x, outcome) ==
  /\ creates' = creates \ {x}
  /\ opening' = IF x.by \in Opens
                  THEN [opening EXCEPT ![x.by].at = CASE outcome = "acked" -> "reconcile"
                                                      [] outcome = "denied" -> "denied"
                                                      [] OTHER -> "done"]
                  ELSE opening
  /\ reconcile' = IF x.by \in Screens THEN [reconcile EXCEPT ![x.by][x.shift] = "idle"] ELSE reconcile
  /\ UNCHANGED <<openIntent, closedHere, reopened>>

CreateTaken(x) ==
  /\ x \in creates /\ shiftDoc[x.shift] = "absent"
  /\ shiftDoc' = [shiftDoc EXCEPT ![x.shift] = "open"]
  /\ AnswerCreate(x, "acked")
CreateFails(x, outcome) ==
  /\ x \in creates /\ UNCHANGED shiftDoc
  /\ AnswerCreate(x, outcome)

MarkRejectedManualAttention(c) ==
  /\ opening[c].at = "denied"
  /\ MarkStatus(opening[c].shift, "rejected_manual_attention")
  /\ OpenGoes(c, "done")
  /\ UNCHANGED <<shiftDoc, creates, reconcile, closedHere, reopened>>

-----------------------------------------------------------------------------
(* A window reconciles a shift once at a time: whoever asks meanwhile      *)
(* joins.  One that a call starts confirms only; one that a sweep starts   *)
(* may issue the create.  A stale listing starts one that changes nothing. *)
ReconcileStep(w, s, from, to) ==
  /\ reconcile[w][s] = from
  /\ reconcile' = [reconcile EXCEPT ![w][s] = to]

ReconcileShiftOpenIntent(c) ==
  LET w == OpenScreen[c]  s == opening[c].shift IN
  /\ opening[c].at = "reconcile" /\ OpenGoes(c, "done")
  /\ reconcile' = [reconcile EXCEPT ![w][s] = IF @ = "idle" THEN "check" ELSE @]
  /\ UNCHANGED <<openIntent, shiftDoc, creates, closedHere, reopened>>

RunShiftOpenReconciliationSweep(w, s) ==
  /\ OpenPending(s) /\ ReconcileStep(w, s, "idle", "read")
  /\ UNCHANGED <<openIntent, shiftDoc, creates, opening, closedHere, reopened>>

ReadConfirmation(w, s) ==
  /\ \/ shiftDoc[s] = "open" /\ (ReconcileStep(w, s, "read", "open") \/ ReconcileStep(w, s, "check", "open"))
     \/ shiftDoc[s] = "absent" /\ ReconcileStep(w, s, "read", "absent")
     \/ ReconcileStep(w, s, "read", "idle") \/ ReconcileStep(w, s, "check", "idle")
  /\ UNCHANGED <<openIntent, shiftDoc, creates, opening, closedHere, reopened>>

(* Absence is not enough: the entry is read again, and the create claimed. *)
CanSafelyReissue(w, s) ==
  /\ ReconcileStep(w, s, "absent", IF Claimable(s) THEN "claim" ELSE "idle")
  /\ UNCHANGED <<openIntent, shiftDoc, creates, opening, closedHere, reopened>>

ReissueClaim(w, s) ==
  /\ \/ Claimable(s) /\ ClaimCreate(s) /\ ReconcileStep(w, s, "claim", "write")
     \/ UNCHANGED openIntent /\ ReconcileStep(w, s, "claim", "idle")
  /\ UNCHANGED <<shiftDoc, creates, opening, closedHere, reopened>>

ReissueShiftOpenWrite(w, s) ==
  /\ ReconcileStep(w, s, "write", "await")
  /\ creates' = creates \cup {[shift |-> s, by |-> w]}
  /\ UNCHANGED <<openIntent, shiftDoc, opening, closedHere, reopened>>

MarkSynced(w, s) ==
  /\ ReconcileStep(w, s, "open", "idle")
  /\ MarkStatus(s, "synced")
  /\ UNCHANGED <<shiftDoc, creates, opening, closedHere, reopened>>

-----------------------------------------------------------------------------
(* The close of a shift, on the server or recorded here for later.         *)
ServerCloses(s) ==
  /\ shiftDoc[s] = "open"
  /\ shiftDoc' = [shiftDoc EXCEPT ![s] = "closed"]
  /\ UNCHANGED <<openIntent, creates, opening, reconcile, closedHere, reopened>>
DeferredClose(s) ==
  /\ openIntent[s].status \in {"local_open_pending", "synced"}
  /\ closedHere' = closedHere \cup {s}
  /\ UNCHANGED <<openIntent, shiftDoc, creates, opening, reconcile, reopened>>

(* The window dies: the queue is sent later, and nobody awaits it.         *)
ReopenWindow(w) ==
  LET mine(by) == by = w \/ (by \in Opens /\ OpenScreen[by] = w) IN
  /\ reopened < MaxReopens /\ reopened' = reopened + 1
  /\ creates' = {IF mine(x.by) THEN [x EXCEPT !.by = Nobody] ELSE x : x \in creates}
  /\ opening' = [c \in Opens |-> IF OpenScreen[c] = w /\ opening[c].at # "idle"
                                   THEN [opening[c] EXCEPT !.at = "done"] ELSE opening[c]]
  /\ reconcile' = [reconcile EXCEPT ![w] = [s \in Shifts |-> "idle"]]
  /\ UNCHANGED <<openIntent, shiftDoc, closedHere>>

OpensNext ==
  \/ \E c \in Opens : \/ OpenShift(c) \/ UpsertOpenIntent(c) \/ ClaimRemoteCreateAttempt(c) \/ SetDoc(c)
                      \/ MarkRejectedManualAttention(c) \/ ReconcileShiftOpenIntent(c)
  \/ \E x \in creates : CreateTaken(x) \/ CreateFails(x, "denied") \/ CreateFails(x, "failed")
  \/ \E w \in Screens, s \in Shifts :
       \/ RunShiftOpenReconciliationSweep(w, s) \/ ReadConfirmation(w, s) \/ CanSafelyReissue(w, s)
       \/ ReissueClaim(w, s) \/ ReissueShiftOpenWrite(w, s) \/ MarkSynced(w, s)
  \/ \E s \in Shifts : ServerCloses(s) \/ DeferredClose(s)
  \/ \E w \in Screens : ReopenWindow(w)

OpensSpec == OpensInit /\ [][OpensNext]_openVars

-----------------------------------------------------------------------------
(* The verdict a terminal records of an open is so: synced, the server has *)
(* the shift; rejected, it does not, since its one create was denied and   *)
(* no second create was ever sent after one that was taken.                *)
OpenVerdictIsTrue ==
  \A s \in Shifts : /\ openIntent[s].status = "synced" => shiftDoc[s] # "absent"
                    /\ openIntent[s].status = "rejected_manual_attention" => shiftDoc[s] = "absent"
=============================================================================
