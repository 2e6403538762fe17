------------------------- MODULE PrivilegedEvidence -------------------------
(***************************************************************************)
(* The terminal's durable journal of locally approved voids                *)
(* (privilegedEvidenceStore.ts) and the sweep that relays them             *)
(* (syncPrivilegedEvidence.ts).  A sweep owns a generation, claims rows    *)
(* under it, submits, and applies the answer only to a row it still holds. *)
(* A timeout detaches a sweep from its work without stopping the work, so  *)
(* an old sweep may still apply while a new one runs.                      *)
(***************************************************************************)
EXTENDS OfflineAdjudication, FiniteSetsExt

CONSTANTS Sweeps,     \* sweeps that may overlap
          Ceiling,    \* PRIVILEGED_EVIDENCE_MAX_RETRYABLE_FAILURES
          MaxSweeps   \* bound on the generations given out

EvidenceAssumption == Ceiling \in Nat \ {0} /\ MaxSweeps \in Nat

VARIABLES row,        \* the journal, by attestation
          generation, \* the stored claim generation
          sweep,      \* where a sweep is
          intent      \* the voidIntents store, written by VoidIntentQueue

evidenceVars == <<row, generation, sweep>>

Open == {"PRIVILEGED_INTENT_QUEUED", "SYNCING", "SERVER_ACCEPTED", "MANUAL_ATTENTION"}
Final == {"SERVER_ACCEPTED", "SERVER_REJECTED", "MANUAL_ATTENTION"}

Row == [status : Open \cup {"none", "SERVER_REJECTED"},
        claim : 0..MaxSweeps,    \* claimGeneration, 0 for null
        failures : 0..Ceiling]   \* retryableFailureCount
Sweep == [pc : {"idle", "sweeping", "claimed", "sent", "apply"}, gen : 0..MaxSweeps,
          att : Attestations, relay : Relays, heard : Verdict \cup Transient \cup {"none", "TIMEOUT"}]

EvidenceTypeOK == /\ row \in [Attestations -> Row]
                  /\ generation \in 0..MaxSweeps
                  /\ sweep \in [Sweeps -> Sweep]

Resting == [pc |-> "idle", gen |-> 0, att |-> CHOOSE a \in Attestations : TRUE,
            relay |-> CHOOSE r \in Relays : TRUE, heard |-> "none"]

EvidenceInit ==
  /\ row = [a \in Attestations |-> [status |-> "none", claim |-> 0, failures |-> 0]]
  /\ generation = 0
  /\ sweep = [s \in Sweeps |-> Resting]

HasOpenRow(o) == \E a \in Attestations : Target[a] = o /\ row[a].status \in Open

(* mutant: the reverse half of the fence is missing *)
MutLegacyActive(o) == FALSE

LegacyActive(o) == intent[o].status \in {"pending", "in_flight"}

(* ingestAttestedPrivilegedAction, for the projection's caller: no second  *)
(* row and no live legacy intent for the target, in one transaction.       *)
Ingest(a) ==
  /\ row[a].status = "none"
  /\ ~HasOpenRow(Target[a])
  /\ ~LegacyActive(Target[a])
  /\ row' = [row EXCEPT ![a].status = "PRIVILEGED_INTENT_QUEUED"]
  /\ UNCHANGED <<generation, sweep, intent, adjudicationVars>>

(* OP-1: above the stored generation and above every row's.                *)
Allocate(s) ==
  LET next == Max({generation} \cup {row[a].claim : a \in Attestations}) + 1 IN
  /\ sweep[s].pc = "idle"
  /\ next \in 1..MaxSweeps
  /\ generation' = next
  /\ sweep' = [sweep EXCEPT ![s] = [Resting EXCEPT !.pc = "sweeping", !.gen = next]]
  /\ UNCHANGED <<row, intent, adjudicationVars>>

(* OP-2: a queued row, or one an older sweep left claimed.                 *)
Claim(s, a) ==
  /\ sweep[s].pc = "sweeping"
  /\ \/ row[a].status = "PRIVILEGED_INTENT_QUEUED"
     \/ row[a].status = "SYNCING" /\ row[a].claim < sweep[s].gen
  /\ row[a].failures < Ceiling
  /\ row' = [row EXCEPT ![a].status = "SYNCING", ![a].claim = sweep[s].gen]
  /\ sweep' = [sweep EXCEPT ![s].pc = "claimed", ![s].att = a]
  /\ UNCHANGED <<generation, intent, adjudicationVars>>

Relayed(s, r) ==
  /\ sweep[s].pc = "claimed"
  /\ Submit(r, sweep[s].att)
  /\ sweep' = [sweep EXCEPT ![s].pc = "sent", ![s].relay = r]
  /\ UNCHANGED <<row, generation, intent>>

(* The answer, a transport failure, or the sweep's own timeout: the last   *)
(* leaves the relay running.                                               *)
Hear(s) ==
  /\ sweep[s].pc = "sent"
  /\ \E heard \in {"TIMEOUT", relay[sweep[s].relay].says} :
       /\ heard # "TIMEOUT" => relay[sweep[s].relay].pc = "answered"
       /\ sweep' = [sweep EXCEPT ![s].pc = "apply", ![s].heard = heard]
  /\ UNCHANGED <<row, generation, intent, adjudicationVars>>

(* computeApplyPatch: what an answer makes of the row.                     *)
Applied(r, heard) ==
  LET failures == r.failures + 1 IN
  CASE heard \in Accepted                    -> [r EXCEPT !.status = "SERVER_ACCEPTED", !.claim = 0]
    [] heard = "REJECTED"                    -> [r EXCEPT !.status = "SERVER_REJECTED", !.claim = 0]
    [] heard = "MANUAL_ATTENTION_REQUIRED"   -> [r EXCEPT !.status = "MANUAL_ATTENTION", !.claim = 0]
    [] heard = "CALLER_DEPENDENT" ->
         [r EXCEPT !.status = "PRIVILEGED_INTENT_QUEUED", !.claim = 0]
    [] OTHER -> [status |-> IF failures >= Ceiling THEN "MANUAL_ATTENTION"
                            ELSE "PRIVILEGED_INTENT_QUEUED",
                 claim |-> 0, failures |-> failures]

(* mutant: the answer is applied to whatever the row has become *)
MutHolds(s) == row[sweep[s].att].failures < Ceiling

Holds(s) == /\ row[sweep[s].att].status = "SYNCING"
            /\ row[sweep[s].att].claim = sweep[s].gen

(* OP-3: fenced by the claim.                                              *)
Apply(s) ==
  LET a == sweep[s].att IN
  /\ sweep[s].pc = "apply"
  /\ IF Holds(s) THEN row' = [row EXCEPT ![a] = Applied(row[a], sweep[s].heard)]
                 ELSE UNCHANGED row
  /\ sweep' = [sweep EXCEPT ![s] = [Resting EXCEPT !.pc = "sweeping", !.gen = sweep[s].gen]]
  /\ UNCHANGED <<generation, intent, adjudicationVars>>

(* The sweep is done, or a durable operation timed out under it.           *)
EndSweep(s) == /\ sweep[s].pc # "idle"
               /\ sweep' = [sweep EXCEPT ![s] = Resting]
               /\ UNCHANGED <<row, generation, intent, adjudicationVars>>

SweepStep(s) == \/ Allocate(s) \/ Hear(s) \/ Apply(s) \/ EndSweep(s)
                \/ \E a \in Attestations : Claim(s, a)
                \/ \E r \in Relays : Relayed(s, r)

-----------------------------------------------------------------------------
(* What the terminal shows as decided is what the server recorded, and it  *)
(* is not taken back by an answer that arrives late under an old           *)
(* generation (OP-3's fence).                                              *)
RowIsTheVerdict ==
  \A a \in Attestations :
    /\ row[a].status = "SERVER_ACCEPTED" => record[a] \in Accepted
    /\ row[a].status = "SERVER_REJECTED" => record[a] = "REJECTED"

StaysFinal ==
  \A a \in Attestations : row[a].status \in Final => row'[a].status = row[a].status
=============================================================================
