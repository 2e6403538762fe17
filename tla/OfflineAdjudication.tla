------------------------ MODULE OfflineAdjudication ------------------------
(***************************************************************************)
(* adjudicateOfflinePrivilegedAction: the server's decision about a void   *)
(* that a manager approved on a terminal while it was offline.  The signed *)
(* attestation is relayed by calls (relays), any number of which may carry *)
(* the same one.  A relay is not a transaction: it dispatches on the       *)
(* record, checks, consumes, reads the order, voids it, reads it again and *)
(* makes the record terminal, and it may die between any two steps.  The   *)
(* execution id is derived from the attestation, so the attestation stands *)
(* for it.  The sale is what the steps tell apart of the order document.   *)
(***************************************************************************)
EXTENDS Naturals, FiniteSets

CONSTANTS Orders,
          Attestations, \* attestations, each approving one void
          Target,       \* the order an attestation is for
          Relays,       \* invocations of the callable (each runs once)
          Other,        \* an execution that is none of Attestations
          NoExec,       \* no execution: a void by the client's flag
          OnServer,     \* the orders that are on the server at the start
          MayRevoke     \* may the authority be withdrawn?

OfflineAdjudicationAssumption ==
  /\ Orders # {} /\ Attestations # {} /\ Relays # {}
  /\ Target \in [Attestations -> Orders]
  /\ OnServer \subseteq Orders
  /\ {Other, NoExec} \cap Attestations = {} /\ Other # NoExec
  /\ MayRevoke \in BOOLEAN

VARIABLES sale,       \* the order document
          dayOver,    \* the order's day has ended (UTC+7)
          authorized, \* every mutable authority fact still holds
          record,     \* privilegedAdjudications/{attestation}
          relay       \* where an invocation is

adjudicationVars == <<sale, dayOver, authorized, record, relay>>

Accepted == {"VOID_APPLIED", "NOOP"}     \* COMPLETED, with its outcomeKind
Verdict == Accepted \cup {"REJECTED", "MANUAL_ATTENTION_REQUIRED"}
Transient == {"RETRYABLE", "CALLER_DEPENDENT"}

Sale == [status : {"absent", "sold", "returned", "voided"},
         by : Attestations \cup {Other, NoExec}]
Relay == [pc : {"idle", "fresh", "reject", "consume", "finish", "execute", "confirm",
                "settle", "answered", "lost"},
          att : Attestations,
          says : Verdict \cup Transient \cup {"none", "already_reconciled", "refused"}]

AdjudicationTypeOK ==
  /\ sale \in [Orders -> Sale]
  /\ dayOver \in [Orders -> BOOLEAN]
  /\ authorized \in BOOLEAN
  /\ record \in [Attestations -> Verdict \cup {"absent", "CONSUMED_PENDING_EXECUTION"}]
  /\ relay \in [Relays -> Relay]

AdjudicationInit ==
  /\ sale = [o \in Orders |-> [status |-> IF o \in OnServer THEN "sold" ELSE "absent",
                               by |-> NoExec]]
  /\ dayOver = [o \in Orders |-> FALSE]
  /\ authorized = TRUE
  /\ record = [a \in Attestations |-> "absent"]
  /\ relay = [r \in Relays |-> [pc |-> "idle", att |-> CHOOSE a \in Attestations : TRUE,
                                says |-> "none"]]

TargetOf(r) == Target[relay[r].att]
Goto(r, pc, says) == relay' = [relay EXCEPT ![r].pc = pc, ![r].says = says]
Answer(r, says) == Goto(r, "answered", says)

(* mutant: a generic void counts as this execution's *)
MutCorrelated(a) == IF sale[Target[a]].status # "voided" THEN "NOT_VOIDED" ELSE "MATCHING"

(* decideCanonicalVoidCorrelation *)
Correlated(a) == IF sale[Target[a]].status # "voided" THEN "NOT_VOIDED"
                 ELSE IF sale[Target[a]].by = a THEN "MATCHING" ELSE "UNPROVED"

(* dispatchExistingRecord: a terminal record is answered as it stands, a   *)
(* consumed one is finished.                                               *)
Dispatch(r) == IF record[relay[r].att] \in Verdict
               THEN Answer(r, record[relay[r].att])
               ELSE Goto(r, "finish", "none")

-----------------------------------------------------------------------------
(* Stage R: the durable record first, before anything mutable is read.     *)
Submit(r, a) ==
  /\ relay[r].pc = "idle"
  /\ relay' = [relay EXCEPT ![r] =
       IF record[a] = "absent" THEN [pc |-> "fresh", att |-> a, says |-> "none"]
       ELSE IF record[a] \in Verdict THEN [pc |-> "answered", att |-> a, says |-> record[a]]
       ELSE [pc |-> "finish", att |-> a, says |-> "none"]]
  /\ UNCHANGED <<sale, dayOver, authorized, record>>

(* Stage F: the checks before the transaction (F5 to F15).                 *)
Preflight(r) ==
  /\ relay[r].pc = "fresh"
  /\ Goto(r, IF authorized /\ sale[TargetOf(r)].status \in {"sold", "returned"}
                /\ ~dayOver[TargetOf(r)]
             THEN "consume" ELSE "reject", "none")
  /\ UNCHANGED <<sale, dayOver, authorized, record>>

(* terminalize: the rejection is created only where no record is.          *)
Terminalize(r) ==
  /\ relay[r].pc = "reject"
  /\ IF record[relay[r].att] = "absent"
     THEN /\ record' = [record EXCEPT ![relay[r].att] = "REJECTED"]
          /\ Answer(r, "REJECTED")
     ELSE Dispatch(r) /\ UNCHANGED record
  /\ UNCHANGED <<sale, dayOver, authorized>>

(* mutant: the authority read before the transaction is trusted *)
MutLinearized(a) == sale[Target[a]].status \in {"sold", "returned"}

(* Read again inside the consuming transaction: the authority, and that    *)
(* the order is there and not voided.                                      *)
Linearized(a) == authorized /\ sale[Target[a]].status \in {"sold", "returned"}

Consume(r) ==
  LET a == relay[r].att IN
  /\ relay[r].pc = "consume"
  /\ \/ record[a] # "absent" /\ Dispatch(r) /\ UNCHANGED record
     \/ /\ record[a] = "absent" /\ ~Linearized(a)
        /\ record' = [record EXCEPT ![a] = "REJECTED"]
        /\ Answer(r, "REJECTED")
     \/ /\ record[a] = "absent" /\ Linearized(a)
        /\ record' = [record EXCEPT ![a] = "CONSUMED_PENDING_EXECUTION"]
        /\ Goto(r, "finish", "none")
  /\ UNCHANGED <<sale, dayOver, authorized>>

-----------------------------------------------------------------------------
(* finishPhaseC: is the void already there, and whose is it?               *)
Finish(r) ==
  /\ relay[r].pc = "finish"
  /\ CASE Correlated(relay[r].att) = "MATCHING"   -> Goto(r, "settle", "NOOP")
       [] Correlated(relay[r].att) = "NOT_VOIDED" -> Goto(r, "execute", "none")
       [] OTHER -> Goto(r, "settle", "MANUAL_ATTENTION_REQUIRED")
  /\ UNCHANGED <<sale, dayOver, authorized, record>>

(* executeCanonicalVoid (handleVoidIntent, see VoidIntent.tla), as one     *)
(* transaction: it voids a sale that has no return, and stamps it.         *)
Execute(r) ==
  LET o == TargetOf(r) IN
  /\ relay[r].pc = "execute"
  /\ CASE sale[o].status = "sold" ->
            /\ sale' = [sale EXCEPT ![o] = [status |-> "voided", by |-> relay[r].att]]
            /\ Goto(r, "confirm", "VOID_APPLIED")
       [] sale[o].status = "voided" -> Goto(r, "confirm", "already_reconciled") /\ UNCHANGED sale
       [] OTHER -> Goto(r, "confirm", "refused") /\ UNCHANGED sale
  /\ UNCHANGED <<dayOver, authorized, record>>

(* mutant: the proof is answered before it is made durable *)
MutConfirm(r) ==
  LET proved == Correlated(relay[r].att) = "MATCHING" IN
  /\ relay[r].pc = "confirm"
  /\ IF proved THEN Answer(r, "VOID_APPLIED") ELSE Goto(r, "settle", "MANUAL_ATTENTION_REQUIRED")
  /\ UNCHANGED <<sale, dayOver, authorized, record>>

(* The order is read again: only its execution id proves the void.         *)
Confirm(r) ==
  LET says == relay[r].says
      proved == Correlated(relay[r].att) = "MATCHING" IN
  /\ relay[r].pc = "confirm"
  /\ Goto(r, "settle", CASE says = "VOID_APPLIED" /\ proved       -> "VOID_APPLIED"
                         [] says = "already_reconciled" /\ proved -> "NOOP"
                         [] OTHER -> "MANUAL_ATTENTION_REQUIRED")
  /\ UNCHANGED <<sale, dayOver, authorized, record>>

(* mutant: whatever the record has become, it is written *)
MutStillPending(a) == record[a] # "absent"

StillPending(a) == record[a] = "CONSUMED_PENDING_EXECUTION"

(* terminalizePhaseC: a record that is terminal by now is adopted.         *)
Settle(r) ==
  LET a == relay[r].att IN
  /\ relay[r].pc = "settle"
  /\ IF StillPending(a)
     THEN record' = [record EXCEPT ![a] = relay[r].says] /\ Answer(r, relay[r].says)
     ELSE Dispatch(r) /\ UNCHANGED record
  /\ UNCHANGED <<sale, dayOver, authorized>>

(* Contention, an unavailable backend, a relay of another branch: nothing  *)
(* more is written and the client is told to try again.                    *)
TryAgain(r) ==
  /\ relay[r].pc \in {"fresh", "reject", "consume", "finish", "execute", "confirm", "settle"}
  /\ \E says \in Transient :
       /\ says = "CALLER_DEPENDENT" => relay[r].pc \in {"fresh", "finish"}
       /\ Answer(r, says)
  /\ UNCHANGED <<sale, dayOver, authorized, record>>

(* The invocation dies, or its answer is lost.                             *)
Lose(r) ==
  /\ relay[r].pc \notin {"idle", "lost"}
  /\ Goto(r, "lost", "none")
  /\ UNCHANGED <<sale, dayOver, authorized, record>>

RelayStep(r) == \/ Preflight(r) \/ Terminalize(r) \/ Consume(r) \/ Finish(r) \/ Execute(r)
                \/ Confirm(r) \/ Settle(r) \/ TryAgain(r) \/ Lose(r)

-----------------------------------------------------------------------------
(* What the rest of the system does meanwhile.                             *)
OrderArrives(o) == /\ sale[o].status = "absent"
                   /\ sale' = [sale EXCEPT ![o].status = "sold"]
                   /\ UNCHANGED <<dayOver, authorized, record, relay>>

ReturnLands(o) == /\ sale[o].status = "sold"
                  /\ sale' = [sale EXCEPT ![o].status = "returned"]
                  /\ UNCHANGED <<dayOver, authorized, record, relay>>

VoidElsewhere(o) == /\ sale[o].status = "sold"
                    /\ \E e \in {Other, NoExec} :
                         sale' = [sale EXCEPT ![o] = [status |-> "voided", by |-> e]]
                    /\ UNCHANGED <<dayOver, authorized, record, relay>>

DayEnds(o) == /\ ~dayOver[o]
              /\ dayOver' = [dayOver EXCEPT ![o] = TRUE]
              /\ UNCHANGED <<sale, authorized, record, relay>>

Revoke == /\ MayRevoke /\ authorized
          /\ authorized' = FALSE
          /\ UNCHANGED <<sale, dayOver, record, relay>>

ServerEvent == \/ \E o \in Orders : \/ OrderArrives(o) \/ ReturnLands(o)
                                    \/ VoidElsewhere(o) \/ DayEnds(o)
               \/ Revoke

-----------------------------------------------------------------------------
(* A record says ACCEPTED only of a void that its own execution made: two  *)
(* managers' approvals of one sale never both claim it, nor does a relay   *)
(* that merely found the sale voided (finishPhaseC).                       *)
AcceptedIsOwned ==
  \A a \in Attestations :
    record[a] \in Accepted => /\ sale[Target[a]].status = "voided"
                              /\ sale[Target[a]].by = a

(* Every relay of one attestation gives the same final answer, outcome     *)
(* kind included, however they overtake each other: the record's (IR-003). *)
OneVerdict ==
  \A r \in Relays :
    relay[r].pc = "answered" /\ relay[r].says \in Verdict => record[relay[r].att] = relay[r].says

(* No approval is consumed after the authority behind it was withdrawn,    *)
(* and none for a sale that is voided by then, whatever the checks before  *)
(* the transaction saw (OPTION_A_LINEARIZE).                               *)
ConsumesUnderAuthority ==
  \A a \in Attestations :
    record[a] = "absent" /\ record'[a] = "CONSUMED_PENDING_EXECUTION"
      => authorized /\ sale[Target[a]].status # "voided"
=============================================================================
