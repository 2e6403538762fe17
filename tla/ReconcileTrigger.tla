-------------------------- MODULE ReconcileTrigger --------------------------
(***************************************************************************)
(* The life of an asyncOrders document on the server: the checkout writes  *)
(* it, the reconcileOrder trigger settles it or voids it, an administrator *)
(* re-arms a failed one.  The trigger is a background function: an event   *)
(* is delivered in any order and, when DuplicateDelivery, more than once;  *)
(* it is declared without retry, so an invocation that dies is not run     *)
(* again (HandlerCrash).                                                   *)
(***************************************************************************)
EXTENDS VoidIntent

CONSTANTS LegacyVoids,       \* documents a client flagged voidRequested
          Malformed,         \* documents validateCanonicalSaleSource refuses
          DuplicateDelivery, \* may an event be delivered again?
          HandlerCrash,      \* may an invocation die before its patch?
          RetryCap,          \* RECONCILE_RETRY_CAP
          AttemptBound,      \* bound on the settlement attempts of a sale
          Payments,          \* amounts receiveCreditPayment is called with
          MaxPaid            \* bound on what is paid in all

ASSUME TriggerAssumption ==
  /\ LegacyVoids \subseteq Orders
  /\ Malformed \subseteq Orders
  /\ DuplicateDelivery \in BOOLEAN
  /\ HandlerCrash \in BOOLEAN
  /\ RetryCap \in Nat
  /\ AttemptBound \in Nat
  /\ Payments \subseteq Nat \ {0}
  /\ MaxPaid \in Nat

VARIABLES throwing,   \* invocations whose reconcileSale threw, not yet patched
          creditPaid  \* the sum of the creditPayments documents

triggerVars == <<throwing, creditPaid>>

TriggerTypeOK == /\ throwing \in [Orders -> Nat]
                 /\ creditPaid \in Nat

TriggerInit == /\ throwing = [o \in Orders |-> 0]
               /\ creditPaid = 0

-----------------------------------------------------------------------------
(* submitAsyncOrder: the checkout creates the document.                    *)
SubmitAsyncOrder(o) ==
  /\ ~Exists(o)
  /\ order' = [order EXCEPT ![o] = Document("pending_reconcile")]
  /\ Publish(o, {})
  /\ UNCHANGED <<saleVars, stockVars, creditVars, triggerVars>>

(* The client's void flag, a write of seven keys.  The rules refuse it     *)
(* today; documents flagged before they did still reach the trigger.       *)
LegacyVoidFlag(o) ==
  /\ o \in LegacyVoids
  /\ Exists(o) /\ order[o].status # "voided"
  /\ order' = [order EXCEPT ![o] =
       [@ EXCEPT !.voidRequested = TRUE, !.status = "voided", !.voidedBy = TRUE]]
  /\ Publish(o, {})
  /\ UNCHANGED <<saleVars, stockVars, creditVars, triggerVars>>

-----------------------------------------------------------------------------
(* An event the platform may hand to an invocation now.                    *)
Deliverable(ev) == IF DuplicateDelivery THEN ev \in published ELSE ev \in undelivered

(* The invocation ends having written nothing to the document.             *)
Consume(ev) == /\ undelivered' = undelivered \ {ev}
               /\ UNCHANGED published

(* mutant: lots are cut by qtyReceived *)
MutAvailable == received

(* What the transaction's query finds in a lot.                            *)
Available == [l \in Lots |-> IF depleted[l] THEN 0 ELSE remaining[l]]

(* isDepleted of the lots that are cut.                                    *)
DepletedAfter(take) == [l \in Lots |-> IF take[l] > 0 THEN Available[l] <= take[l] ELSE depleted[l]]

(* mutant: the status of the source is not validated *)
MutSourceValid(o) == o \notin Malformed

SourceValid(o) == o \notin Malformed /\ order[o].status # "voided"

Settleable(o) ==
  /\ order[o].reconcileStatus = "pending_reconcile"
  /\ canonical[o] = "absent"
  /\ SourceValid(o)

(* reconcileSale: cut the lots, deduct the stock (which may go negative),  *)
(* write the movement, charge the account, create the canonical order and  *)
(* settle the document, in one transaction.                                *)
SettleSale(o) ==
  /\ Deliverable(<<o, "settle">>)
  /\ Settleable(o)
  /\ \E take \in [Lots -> 0..Qty[o]], rest \in 0..Qty[o] :
       /\ FifoPlan(Available, Qty[o], take, rest)
       /\ cut' = [cut EXCEPT ![o] = take]
       /\ oversold' = [oversold EXCEPT ![o] = rest]
       /\ remaining' = [l \in Lots |-> remaining[l] - take[l]]
       /\ depleted' = DepletedAfter(take)
  /\ stock' = stock - Qty[o]
  /\ moves' = [moves EXCEPT ![o] = [@ EXCEPT !.sale = moves[o].sale + Qty[o]]]
  /\ creditUsed' = creditUsed + CreditAmt[o]
  /\ outstandingBalance' = outstandingBalance + CreditAmt[o]
  /\ canonical' = [canonical EXCEPT ![o] = "completed"]
  /\ order' = [order EXCEPT ![o] = [@ EXCEPT !.reconcileStatus = "settled", !.status = "open"]]
  /\ Publish(o, {<<o, "settle">>})
  /\ UNCHANGED <<received, ledger, triggerVars>>

(* The guard of the transaction: someone settled or voided it first.       *)
SettleNoop(o) ==
  /\ Deliverable(<<o, "settle">>)
  /\ order[o].reconcileStatus # "pending_reconcile"
  /\ Consume(<<o, "settle">>)
  /\ UNCHANGED <<order, saleVars, stockVars, creditVars, triggerVars>>

(* mutant: the failure is swallowed *)
MutSettleThrows(o) ==
  /\ Deliverable(<<o, "settle">>)
  /\ Consume(<<o, "settle">>)
  /\ UNCHANGED <<order, saleVars, stockVars, creditVars, triggerVars>>

(* reconcileSale throws: the canonical order exists, the source is         *)
(* invalid, or the transaction itself failed.  Nothing is committed.       *)
SettleThrows(o) ==
  /\ Deliverable(<<o, "settle">>)
  /\ order[o].reconcileAttempts + throwing[o] < AttemptBound
  /\ throwing' = [throwing EXCEPT ![o] = @ + 1]
  /\ Consume(<<o, "settle">>)
  /\ UNCHANGED <<order, saleVars, stockVars, creditVars, creditPaid>>

(* mutant: the failure is counted and the status left *)
MutPatchException(o) ==
  /\ throwing[o] > 0
  /\ throwing' = [throwing EXCEPT ![o] = @ - 1]
  /\ order' = [order EXCEPT ![o].reconcileAttempts = @ + 1]
  /\ UNCHANGED <<saleVars, stockVars, creditVars, eventVars, creditPaid>>

(* The catch of reconcileOnWrite: a merge write outside any transaction,   *)
(* which does not look at the document it patches.                         *)
PatchException(o) ==
  /\ throwing[o] > 0
  /\ throwing' = [throwing EXCEPT ![o] = @ - 1]
  /\ order' = [order EXCEPT ![o] =
       [@ EXCEPT !.reconcileStatus = "exception",
                 !.reconcileAttempts = order[o].reconcileAttempts + 1]]
  /\ Publish(o, {})
  /\ UNCHANGED <<saleVars, stockVars, creditVars, creditPaid>>

(* The invocation dies before it patches; no retry is configured.          *)
CrashBeforePatch(o) ==
  /\ HandlerCrash
  /\ throwing[o] > 0
  /\ throwing' = [throwing EXCEPT ![o] = @ - 1]
  /\ UNCHANGED <<storeVars, creditPaid>>

(* A flagged document goes to handleVoidIntent.  When its transaction      *)
(* fails, the catch writes voidError on the document, which is still       *)
(* flagged, so that the write publishes the same event again: the event    *)
(* counts as not yet handed over.  Only an invocation that dies before     *)
(* that write uses the event up.                                           *)
DeliverVoid(o) ==
  /\ Deliverable(<<o, "void">>)
  /\ \/ /\ VoidWrite(o, NoExec)
        /\ Publish(o, {<<o, "void">>})
     \/ /\ VoidOutcome(o, NoExec) \in VoidNoop \/ HandlerCrash
        /\ Consume(<<o, "void">>)
        /\ UNCHANGED <<order, saleVars, stockVars, creditVars>>
  /\ UNCHANGED triggerVars

(* mutant: any document is re-armed *)
MutRetryableAnyStatus(o) ==
  /\ Exists(o)
  /\ ~order[o].voidRequested
  /\ order[o].reconcileAttempts < RetryCap

Retryable(o) ==
  /\ order[o].reconcileStatus = "exception"
  /\ ~order[o].voidRequested
  /\ order[o].reconcileAttempts < RetryCap

(* performReconcileRetry: re-arm a failed sale, and let the trigger run.   *)
RetryReconcile(o) ==
  /\ Retryable(o)
  /\ order' = [order EXCEPT ![o] = [@ EXCEPT !.reconcileStatus = "pending_reconcile"]]
  /\ Publish(o, {})
  /\ UNCHANGED <<saleVars, stockVars, creditVars, triggerVars>>

-----------------------------------------------------------------------------
(* receiveCreditPayment: the customer pays part of the account.            *)
ReceiveCreditPayment(amount) ==
  /\ creditPaid + amount <= MaxPaid
  /\ amount <= outstandingBalance
  /\ outstandingBalance' = outstandingBalance - amount
  /\ creditUsed' = Max0(creditUsed - amount)
  /\ creditPaid' = creditPaid + amount
  /\ UNCHANGED <<order, saleVars, stockVars, eventVars, throwing>>

Settle(o) == SettleSale(o) \/ SettleNoop(o) \/ SettleThrows(o)

TriggerNext ==
  \/ \E o \in Orders : \/ SubmitAsyncOrder(o)
                       \/ LegacyVoidFlag(o)
                       \/ Settle(o)
                       \/ PatchException(o)
                       \/ CrashBeforePatch(o)
                       \/ DeliverVoid(o)
                       \/ RetryReconcile(o)
  \/ \E amount \in Payments : ReceiveCreditPayment(amount)
=============================================================================
