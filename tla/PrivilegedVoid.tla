--------------------------- MODULE PrivilegedVoid ---------------------------
(***************************************************************************)
(* submitPrivilegedVoid: a callable that consumes a manager's one-shot     *)
(* approval and voids the sale it names.  An execution is the exact        *)
(* binding of approval, command and target, whose digest is written on the *)
(* order as privilegedVoidExecutionId; a call is one invocation, several   *)
(* of which may run for one execution, because the client retries.  A call *)
(* is not a transaction: it reads, consumes, voids, reads again, stamps    *)
(* and marks in separate steps, and it may die between any two.            *)
(***************************************************************************)
EXTENDS VoidIntent

CONSTANTS Calls,      \* invocations of the callable
          CallExec,   \* the execution a call asks for
          ExecOrder,  \* the sale an execution voids
          ExecAction, \* the reconcileStatus its protectedAction is for
          CallCrash   \* may an invocation die between two steps?

ASSUME PrivilegedAssumption ==
  /\ CallExec \in [Calls -> Execs]
  /\ ExecOrder \in [Execs -> Orders]
  /\ ExecAction \in [Execs -> {"pending_reconcile", "settled"}]
  /\ CallCrash \in BOOLEAN

VARIABLES nonce,  \* privilegedActionNonces/{nonceKey}
          call    \* where an invocation is, and what its void returned

privilegedVars == <<nonce, call>>

(* "matched" is the NOOP of a resume that finds the void already its own.  *)
VoidResult == {"none", "matched", "VOID_TOMBSTONED", "VOID_APPLIED",
               "VOID_ANOMALY_COMMITTED"} \cup VoidNoop

Nonce == [status : {"absent", "PENDING", "COMPLETED"}, outcome : VoidResult]
Call == [pc : {"idle", "consume", "decide", "execute", "confirm", "attribute", "mark"},
         outcome : VoidResult]

PrivilegedTypeOK == /\ nonce \in [Execs -> Nonce]
                    /\ call \in [Calls -> Call]

PrivilegedInit ==
  /\ nonce = [e \in Execs |-> [status |-> "absent", outcome |-> "none"]]
  /\ call = [c \in Calls |-> [pc |-> "idle", outcome |-> "none"]]

Target(c) == ExecOrder[CallExec[c]]

Goto(c, pc, outcome) == call' = [call EXCEPT ![c] = [pc |-> pc, outcome |-> outcome]]

(* The call answers its client, with a result or an error, and ends.       *)
Return(c) == Goto(c, "idle", "none")

(* mutant: any execution id matches *)
MutCorrelated(o, e) ==
  IF ~IsAlreadyCanonicallyVoided(order[o]) THEN "NOT_VOIDED"
  ELSE IF order[o].privilegedVoidExecutionId = NoExec THEN "MISSING"
  ELSE "MATCHING"

(* decideCanonicalVoidCorrelation *)
Correlated(o, e) ==
  IF ~IsAlreadyCanonicallyVoided(order[o]) THEN "NOT_VOIDED"
  ELSE IF order[o].privilegedVoidExecutionId = NoExec THEN "MISSING"
  ELSE IF order[o].privilegedVoidExecutionId = e THEN "MATCHING"
  ELSE "DIFFERENT"

-----------------------------------------------------------------------------
(* A fresh execution: everything is checked once before the transaction,   *)
(* the status against the protected action here and nowhere else.          *)
Begin(c) ==
  /\ call[c].pc = "idle"
  /\ nonce[CallExec[c]].status = "absent"
  /\ order[Target(c)].reconcileStatus = ExecAction[CallExec[c]]
  /\ ~IsAlreadyCanonicallyVoided(order[Target(c)])
  /\ ~HasReturn(Target(c))
  /\ Goto(c, "consume", "none")
  /\ UNCHANGED <<nonce, storeVars>>

(* An execution record exists and is not completed: the call resumes it.   *)
Resume(c) ==
  /\ call[c].pc = "idle"
  /\ nonce[CallExec[c]].status = "PENDING"
  /\ Goto(c, "decide", "none")
  /\ UNCHANGED <<nonce, storeVars>>

(* The transaction that consumes the approval, creates the execution       *)
(* record and, on a settled sale, stamps who voids it.                     *)
ConsumeApproval(c) ==
  /\ call[c].pc = "consume"
  /\ nonce[CallExec[c]].status = "absent"
  /\ ~IsAlreadyCanonicallyVoided(order[Target(c)])
  /\ ~HasReturn(Target(c))
  /\ nonce' = [nonce EXCEPT ![CallExec[c]] = [status |-> "PENDING", outcome |-> "none"]]
  /\ IF order[Target(c)].reconcileStatus = "settled"
     THEN /\ order' = [order EXCEPT ![Target(c)] = [@ EXCEPT !.voidedBy = TRUE]]
          /\ Publish(Target(c), {})
     ELSE UNCHANGED <<order, eventVars>>
  /\ Goto(c, "decide", "none")
  /\ UNCHANGED <<saleVars, stockVars, creditVars>>

(* The same transaction finds the approval consumed by another call, the   *)
(* sale voided or a return accepted.                                       *)
ConsumeRefused(c) ==
  /\ call[c].pc = "consume"
  /\ \/ nonce[CallExec[c]].status # "absent"
     \/ IsAlreadyCanonicallyVoided(order[Target(c)])
     \/ HasReturn(Target(c))
  /\ Return(c)
  /\ UNCHANGED <<nonce, storeVars>>

-----------------------------------------------------------------------------
(* finishCanonical: is the sale voided already, and by this execution?     *)
Decide(c) ==
  /\ call[c].pc = "decide"
  /\ LET decision == Correlated(Target(c), CallExec[c]) IN
     \/ decision = "NOT_VOIDED" /\ Goto(c, "execute", "none")
     \/ decision = "MATCHING" /\ Goto(c, "mark", "matched")
     \/ decision \in {"MISSING", "DIFFERENT"} /\ Return(c)
  /\ UNCHANGED <<nonce, storeVars>>

(* executeCanonicalVoid: the transaction of handleVoidIntent.              *)
Execute(c) ==
  /\ call[c].pc = "execute"
  /\ LET o == Target(c)
         e == CallExec[c]
     IN /\ Goto(c, "confirm", VoidOutcome(o, e))
        /\ \/ VoidWrite(o, e) /\ Publish(o, {})
           \/ VoidOutcome(o, e) \in VoidNoop /\ UNCHANGED storeVars
  /\ UNCHANGED nonce

(* The outcome, and the document read again.                               *)
Confirm(c) ==
  /\ call[c].pc = "confirm"
  /\ LET outcome == call[c].outcome
         matching == Correlated(Target(c), CallExec[c]) = "MATCHING"
     IN \/ /\ outcome \in {"VOID_TOMBSTONED", "VOID_APPLIED"} /\ matching
           /\ Goto(c, "attribute", outcome)
        \/ /\ outcome = "already_reconciled" /\ matching
           /\ Goto(c, "mark", "matched")
        \/ /\ \/ outcome \in {"VOID_TOMBSTONED", "VOID_APPLIED", "already_reconciled"} /\ ~matching
              \/ outcome \in {"return_present", "absent"}
           /\ Return(c)
        \/ /\ outcome \in {"not_settled", "terminal_marker_present", "VOID_ANOMALY_COMMITTED"}
           /\ Goto(c, "mark", outcome)
  /\ UNCHANGED <<nonce, storeVars>>

(* applyVoidAttribution: a merge write of its own.                         *)
Attribute(c) ==
  /\ call[c].pc = "attribute"
  /\ order' = [order EXCEPT ![Target(c)] = [@ EXCEPT !.voidedBy = TRUE]]
  /\ Publish(Target(c), {})
  /\ Goto(c, "mark", call[c].outcome)
  /\ UNCHANGED <<nonce, saleVars, stockVars, creditVars>>

(* markCompleted, and the answer ok.                                       *)
MarkCompleted(c) ==
  /\ call[c].pc = "mark"
  /\ nonce' = [nonce EXCEPT ![CallExec[c]] =
       [status |-> "COMPLETED", outcome |-> call[c].outcome]]
  /\ Return(c)
  /\ UNCHANGED storeVars

(* The invocation dies, or its client's connection does.                   *)
CrashCall(c) ==
  /\ CallCrash
  /\ call[c].pc # "idle"
  /\ Return(c)
  /\ UNCHANGED <<nonce, storeVars>>

(* What an invocation that has started does next.                          *)
Continue(c) ==
  \/ ConsumeApproval(c) \/ ConsumeRefused(c) \/ Decide(c) \/ Execute(c)
  \/ Confirm(c) \/ Attribute(c) \/ MarkCompleted(c)

PrivilegedNext == \E c \in Calls : Begin(c) \/ Resume(c) \/ Continue(c) \/ CrashCall(c)
=============================================================================
