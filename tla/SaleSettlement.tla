--------------------------- MODULE SaleSettlement ---------------------------
(***************************************************************************)
(* The composition: the trigger, the administrator's retry, the privileged *)
(* void and the sale return, all over the same documents.                  *)
(***************************************************************************)
EXTENDS ReconcileTrigger, PrivilegedVoid, SaleReturn

vars == <<storeVars, triggerVars, privilegedVars, returnVars>>

(* Every document, event, call and attempt has the shape the code gives it; *)
(* in particular no lot is ever cut below zero, although the code would     *)
(* tolerate it, and creditUsed is never negative.                           *)
TypeOK == StoreTypeOK /\ TriggerTypeOK /\ PrivilegedTypeOK /\ ReturnTypeOK

Init == StoreInit /\ TriggerInit /\ PrivilegedInit /\ ReturnInit

Next == \/ TriggerNext /\ UNCHANGED <<privilegedVars, returnVars>>
        \/ PrivilegedNext /\ UNCHANGED <<triggerVars, returnVars>>
        \/ ReturnNext /\ UNCHANGED <<triggerVars, privilegedVars>>

Spec == Init /\ [][Next]_vars

(* The platform delivers every event, and an invocation that started runs  *)
(* to its end, unless it dies.  Nothing obliges a client or an             *)
(* administrator to act.                                                   *)
Fairness ==
  /\ \A o \in Orders : /\ WF_vars(Settle(o) /\ UNCHANGED <<privilegedVars, returnVars>>)
                       /\ WF_vars(DeliverVoid(o) /\ UNCHANGED <<privilegedVars, returnVars>>)
                       /\ WF_vars(PatchException(o) /\ UNCHANGED <<privilegedVars, returnVars>>)
  /\ \A c \in Calls : WF_vars(Continue(c) /\ UNCHANGED <<triggerVars, returnVars>>)

FairSpec == Spec /\ Fairness

-----------------------------------------------------------------------------
Sum(f) == SumFunction(f)
Sold(o) == canonical[o] = "completed"

(* Units of the sale still out of lot l: what a void or a return of it may *)
(* yet put back.                                                           *)
Outstanding(o, l) == IF Sold(o) THEN cut[o][l] - returnedFrom[o][l] ELSE 0

(* The branch stock is what the movements say and what the lots hold, less *)
(* what is sold without a lot: settling, voiding and returning each write  *)
(* the stock, the lots and the movements together.                         *)
StockAccounted ==
  /\ stock = Sum(InitialLots)
              + Sum([o \in Orders |-> moves[o].void + moves[o].return - moves[o].sale])
  /\ stock = Sum(remaining) - Sum([o \in Orders |-> IF Sold(o) THEN oversold[o] ELSE 0])

(* A lot has room for every unit that may still come back to it, and the   *)
(* FIFO query, which skips depleted lots, skips the empty ones only.       *)
LotsSound ==
  \A l \in Lots :
    /\ remaining[l] + Sum([o \in Orders |-> Outstanding(o, l)]) <= received[l]
    /\ depleted[l] <=> remaining[l] = 0

(* A sale is deducted once and put back at most once, by a void or by      *)
(* returns and never by both, whatever is delivered again or retried.      *)
EffectsOnce ==
  \A o \in Orders :
    /\ moves[o].sale = (IF canonical[o] = "absent" THEN 0 ELSE Qty[o])
    /\ moves[o].void = (IF canonical[o] = "voided" THEN Qty[o] ELSE 0)
    /\ moves[o].return = ledger[o].returned
    /\ ledger[o].returned + moves[o].void <= Qty[o]

(* A return and a void exclude each other from the moment either commits:  *)
(* a returned sale is never voided, and a sale whose void has consumed its *)
(* approval (voidedBy) is never returned.                                  *)
ReturnExcludesVoid ==
  \A o \in Orders : HasReturn(o) => Sold(o) /\ ~order[o].voidedBy

(* A return submitted again because its outcome was unknown is refunded    *)
(* once: the attempt it replaces never commits.                            *)
RefundedOnce ==
  \A a \in Attempts : Replaces[a] # NoAttempt =>
    ~(attempt[a].status = "committed" /\ attempt[Replaces[a]].status = "committed")

(* The refunds of a sale are those of its committed attempts, each paid    *)
(* once, and add up to the rounded share of what came back, so rounding    *)
(* never drifts, and the whole share is refunded at the end.               *)
RefundExact ==
  /\ RefundedOnce
  /\ \A o \in Orders :
       /\ ledger[o].refunded = Sum([a \in {b \in Attempts : AttemptOrder[b] = o} |-> attempt[a].refund])
       /\ ledger[o].refunded = CumulativeRefund(o, ledger[o].returned)
       /\ ledger[o].refunded <= Share[o]
       /\ ledger[o].returned = Qty[o] => ledger[o].refunded = Share[o]

(* The execution's sale is voided, and names it as what voided it.         *)
VoidedUnder(e) ==
  /\ order[ExecOrder[e]].status = "voided"
  /\ order[ExecOrder[e]].privilegedVoidExecutionId = e

(* An execution recorded as having voided its sale is the one the order    *)
(* names, and the sale is voided: an approval is never spent on another's  *)
(* void, whatever calls run at once and wherever they die.                 *)
OwnedVoid ==
  \A e \in Execs :
    nonce[e].outcome \in {"matched", "VOID_TOMBSTONED", "VOID_APPLIED"} =>
      VoidedUnder(e)

(* A sale voided by an execution whose units are still out had a failure   *)
(* counted, and is not marked as reversed: as long as no attempt failed, a *)
(* void reverses the sale or finds it not yet settled, whatever is         *)
(* delivered again, and no reversal is ever recorded that did not happen.  *)
DeductedVoidIsMarked ==
  \A o \in Orders : order[o].status = "voided" /\ ~order[o].voidRequested /\ Sold(o) =>
    order[o].reconcileAttempts > 0 /\ ~order[o].voidReconciled

(* A sale that waits to be settled has an event or an invocation that will *)
(* settle it or mark it failed: it is never waiting on no one.             *)
PendingIsCarried ==
  \A o \in Orders : order[o].reconcileStatus = "pending_reconcile" =>
    <<o, "settle">> \in undelivered \/ throwing[o] > 0

(* The account owes what the standing credit sales charged less what was   *)
(* paid, and creditUsed never understates it.                              *)
CreditAccounted ==
  /\ outstandingBalance = Sum([o \in Orders |-> IF Sold(o) THEN CreditAmt[o] ELSE 0]) - creditPaid
  /\ creditUsed >= outstandingBalance

(* Once an order names the execution that voided it, it never names        *)
(* another, and it stays voided.                                           *)
WinnerKept ==
  [][\A o \in Orders : order[o].privilegedVoidExecutionId # NoExec =>
       /\ order'[o].privilegedVoidExecutionId = order[o].privilegedVoidExecutionId
       /\ order'[o].status = "voided"]_vars

-----------------------------------------------------------------------------
(* A statement of the repository that the code does not keep.              *)

(* A sale voided by an execution was cancelled before it settled or has    *)
(* been reversed: no canonical order stays completed under a voided        *)
(* document, nor its units deducted.                                       *)
VoidedMeansReversed ==
  \A o \in Orders : order[o].status = "voided" /\ ~order[o].voidRequested => ~Sold(o)

-----------------------------------------------------------------------------
(* What became of a sale, read off its documents.                          *)
Effect(o) ==
  IF canonical[o] = "voided" THEN "reversed"
  ELSE IF Sold(o) THEN "sold"
  ELSE IF order[o].status = "voided" THEN "cancelled"
  ELSE "none"

Abstract == INSTANCE SaleEffect WITH
  Opening <- Units(InitialLots),
  Refund <- [o \in Orders |-> [n \in 0..Qty[o] |-> CumulativeRefund(o, n)]],
  effect <- [o \in Orders |-> Effect(o)],
  returned <- [o \in Orders |-> ledger[o].returned],
  refunded <- [o \in Orders |-> ledger[o].refunded]

(* Every step is a step of SaleEffect or leaves the sale's effect alone:   *)
(* in particular a sale voided before it settled never settles, and a      *)
(* reversed one is never deducted again.                                   *)
ImplementsSaleEffect == Abstract!Spec

(* A waiting sale is settled, voided or marked failed in the end.          *)
PendingResolved ==
  \A o \in Orders :
    order[o].reconcileStatus = "pending_reconcile" ~> order[o].reconcileStatus # "pending_reconcile"

(* A void that consumed its approval on a settled sale is carried through. *)
StampedVoidLands ==
  \A o \in Orders : order[o].voidedBy ~> ~Sold(o)
=============================================================================
