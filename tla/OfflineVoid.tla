---------------------------- MODULE OfflineVoid ----------------------------
(***************************************************************************)
(* One terminal and the server: the journal of privileged voids and the    *)
(* older void queue share one database and one target, and the server      *)
(* adjudicates what the sweeps relay.                                      *)
(***************************************************************************)
EXTENDS VoidIntentQueue

OfflineVoidAssumption ==
  OfflineAdjudicationAssumption /\ EvidenceAssumption /\ MaxAttempts \in Nat \ {0}

offlineVoidVars == <<adjudicationVars, evidenceVars, queueVars>>

OfflineVoidInit == AdjudicationInit /\ EvidenceInit /\ QueueInit

(* The terminal restarts: sweeps and drains are gone, the stores stay.     *)
Restart ==
  /\ sweep' = [s \in Sweeps |-> Resting]
  /\ drain' = [d \in Drains |-> Idle]
  /\ UNCHANGED <<row, generation, intent, adjudicationVars>>

OfflineVoidNext ==
  \/ Restart
  \/ \E a \in Attestations : Ingest(a) /\ UNCHANGED drain
  \/ \E s \in Sweeps : SweepStep(s) /\ UNCHANGED drain
  \/ \E r \in Relays : RelayStep(r) /\ UNCHANGED <<evidenceVars, queueVars>>
  \/ ServerEvent /\ UNCHANGED <<evidenceVars, queueVars>>
  \/ \E o \in Orders : Enqueue(o) \/ LeaseExpires(o)
  \/ \E d \in Drains : DrainStep(d)

OfflineVoidSpec == OfflineVoidInit /\ [][OfflineVoidNext]_offlineVoidVars

OfflineVoidTypeOK == AdjudicationTypeOK /\ EvidenceTypeOK /\ QueueTypeOK

(* A target has at most one live path to a void: one privileged row that   *)
(* is open, or one legacy intent that is not decided, and never both       *)
(* (privilegedEvidenceStore.ts, RC-D3-004).                                *)
OneAuthority ==
  \A o \in Orders :
    Cardinality({a \in Attestations : Target[a] = o /\ row[a].status \in Open})
      + (IF intent[o].status \in {"pending", "in_flight"} THEN 1 ELSE 0) <= 1

(* No approval is consumed after the authority behind it was withdrawn.    *)
ConsumedUnderAuthority == [][ConsumesUnderAuthority]_offlineVoidVars

(* A late answer under an old generation changes no decided row.           *)
RowIsFinal == [][StaysFinal]_offlineVoidVars
=============================================================================
