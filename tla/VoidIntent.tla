----------------------------- MODULE VoidIntent -----------------------------
(***************************************************************************)
(* handleVoidIntent: one transaction that voids a sale.  The trigger runs  *)
(* it for a flagged document and passes no execution (NoExec); the         *)
(* privileged callable runs it with the execution it has consumed.         *)
(***************************************************************************)
EXTENDS OrderStore

TerminalMarkerPresent(doc) == doc.voidAnomaly # "none"

(* mutant: an execution may void what is voided already *)
MutVoidOutcome(o, e) ==
  LET doc == order[o] IN
  IF doc.reconcileStatus = "absent" THEN "absent"
  ELSE IF TerminalMarkerPresent(doc) THEN "terminal_marker_present"
  ELSE IF HasReturn(o) THEN "return_present"
  ELSE IF doc.reconcileStatus = "pending_reconcile" THEN "VOID_TOMBSTONED"
  ELSE IF doc.reconcileStatus # "settled" THEN "not_settled"
  ELSE IF doc.voidReconciled THEN "already_reconciled"
  ELSE IF canonical[o] = "completed" THEN "VOID_APPLIED"
  ELSE "VOID_ANOMALY_COMMITTED"

(* The early returns of the transaction, in the order the code takes them. *)
(* The revision fault needs a historyRev that nothing in the code writes.  *)
VoidOutcome(o, e) ==
  LET doc == order[o] IN
  IF doc.reconcileStatus = "absent" THEN "absent"
  ELSE IF TerminalMarkerPresent(doc) THEN "terminal_marker_present"
  ELSE IF HasReturn(o) THEN "return_present"
  ELSE IF e # NoExec /\ IsAlreadyCanonicallyVoided(doc) THEN "already_reconciled"
  ELSE IF doc.reconcileStatus = "pending_reconcile" THEN "VOID_TOMBSTONED"
  ELSE IF doc.reconcileStatus # "settled" THEN "not_settled"
  ELSE IF doc.voidReconciled THEN "already_reconciled"
  ELSE IF canonical[o] = "completed" THEN "VOID_APPLIED"
  ELSE "VOID_ANOMALY_COMMITTED"

VoidNoop == {"absent", "terminal_marker_present", "return_present",
             "already_reconciled", "not_settled"}

(* privilegedCorrelationWrite: only a privileged caller writes the field.  *)
Correlation(o, e) == IF e = NoExec THEN order[o].privilegedVoidExecutionId ELSE e

(* An unsettled sale: the document alone is closed, so that it never       *)
(* settles; nothing was deducted, nothing is put back.                     *)
VoidTombstone(o, e) ==
  /\ VoidOutcome(o, e) = "VOID_TOMBSTONED"
  /\ order' = [order EXCEPT ![o] =
       [@ EXCEPT !.status = "voided", !.reconcileStatus = "settled",
                 !.privilegedVoidExecutionId = Correlation(o, e)]]
  /\ UNCHANGED <<saleVars, stockVars, creditVars>>

(* A settled sale without a canonical order to void (or with one that is   *)
(* already voided): a marker for a human, and no effect.                   *)
VoidAnomaly(o, e) ==
  /\ VoidOutcome(o, e) = "VOID_ANOMALY_COMMITTED"
  /\ order' = [order EXCEPT ![o] =
       [@ EXCEPT !.voidAnomaly = IF canonical[o] = "absent" THEN "missing_canonical"
                                                            ELSE "canonical_ineligible"]]
  /\ UNCHANGED <<saleVars, stockVars, creditVars>>

(* planLotRestocks: what the sale took from each lot goes back.            *)
Restock(o) == [l \in Lots |-> remaining[l] + cut[o][l]]

(* mutant: the total is reversed, not the credit part *)
MutReversedCredit(o) == Max0(creditUsed - Share[o])

(* planCreditReversal *)
ReversedCredit(o) == Max0(creditUsed - CreditAmt[o])

(* A settled sale: the inverse of everything reconcileSale did.            *)
VoidApply(o, e) ==
  /\ VoidOutcome(o, e) = "VOID_APPLIED"
  /\ remaining' = Restock(o)
  /\ depleted' = [l \in Lots |-> depleted[l] /\ cut[o][l] = 0]
  /\ stock' = stock + Qty[o]
  /\ creditUsed' = ReversedCredit(o)
  /\ outstandingBalance' = outstandingBalance - CreditAmt[o]
  /\ canonical' = [canonical EXCEPT ![o] = "voided"]
  /\ moves' = [moves EXCEPT ![o] = [@ EXCEPT !.void = moves[o].void + Qty[o]]]
  /\ order' = [order EXCEPT ![o] =
       [@ EXCEPT !.status = "voided", !.voidReconciled = TRUE,
                 !.privilegedVoidExecutionId = Correlation(o, e)]]
  /\ UNCHANGED <<received, cut, oversold, ledger>>

(* The three outcomes that write.                                          *)
VoidWrite(o, e) == VoidTombstone(o, e) \/ VoidAnomaly(o, e) \/ VoidApply(o, e)
=============================================================================
