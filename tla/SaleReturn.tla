----------------------------- MODULE SaleReturn -----------------------------
(***************************************************************************)
(* submitSaleReturn: a partial or full return of a settled sale, against   *)
(* the cumulative ledger of the sale.  An attempt is one returnId (branch, *)
(* order and attemptId); the client submits it, and when it does not learn *)
(* what became of it asks for it to be resolved, which either answers with *)
(* the committed return or fences the attempt for good.  Only then does    *)
(* the client submit the same return again, as a new attempt.              *)
(***************************************************************************)
EXTENDS OrderStore

CONSTANTS Attempts,
          NoAttempt,
          AttemptOrder,  \* the sale an attempt returns
          AttemptQty,    \* the base units it returns
          Replaces,      \* the attempt it submits again, or NoAttempt
          EditedLots     \* lots whose cost was edited since the sale

ASSUME ReturnAssumption ==
  /\ IsFiniteSet(Attempts)
  /\ NoAttempt \notin Attempts
  /\ AttemptOrder \in [Attempts -> Orders]
  /\ AttemptQty \in [Attempts -> Nat \ {0}]
  /\ Replaces \in [Attempts -> Attempts \cup {NoAttempt}]
  /\ EditedLots \subseteq Lots

VARIABLES attempt,      \* saleReturns, saleReturnAttemptResolutions, the quote
          returnedFrom  \* units of the cut of a sale that returns restored

returnVars == <<attempt, returnedFrom>>

(* A quote is the expectedRefund the request carries.                      *)
Attempt == [status : {"new", "quoted", "committed", "fenced"}, quote : Int, refund : Int]

ReturnTypeOK == /\ attempt \in [Attempts -> Attempt]
                /\ returnedFrom \in [Orders -> [Lots -> Nat]]

ReturnInit ==
  /\ attempt = [a \in Attempts |-> [status |-> "new", quote |-> 0, refund |-> 0]]
  /\ returnedFrom = [o \in Orders |-> [l \in Lots |-> 0]]

-----------------------------------------------------------------------------
(* cumulativeRefundMinor: round-half-up(share * cum / sold).               *)
CumulativeRefund(o, cum) ==
  IF cum = 0 THEN 0 ELSE (2 * Share[o] * cum + Qty[o]) \div (2 * Qty[o])

(* mutant: each return is rounded by itself *)
MutRefundFor(o, returned, q) == CumulativeRefund(o, q)

(* lineRefundForReturnMinor *)
RefundFor(o, returned, q) == CumulativeRefund(o, returned + q) - CumulativeRefund(o, returned)

(* mutant: a consumed void is not in progress *)
MutIsOrderVoidedOrVoiding(doc) ==
  \/ IsAlreadyCanonicallyVoided(doc)
  \/ doc.privilegedVoidExecutionId # NoExec
  \/ doc.voidRequested
  \/ doc.voidAnomaly # "none"

IsOrderVoidedOrVoiding(doc) ==
  \/ IsAlreadyCanonicallyVoided(doc)
  \/ doc.privilegedVoidExecutionId # NoExec
  \/ doc.voidRequested
  \/ doc.voidedBy
  \/ doc.voidAnomaly # "none"

(* parseSaleEvidence *)
Returnable(o) ==
  /\ ~IsOrderVoidedOrVoiding(order[o])
  /\ order[o].reconcileStatus = "settled"
  /\ canonical[o] = "completed"
  /\ CreditAmt[o] = 0

(* planLotRestoration: the units go back in the order the lots were cut,   *)
(* those of earlier returns first.  Units sold without a lot come last,    *)
(* and a return that reaches them is refused (oversellFreeBaseEnd).        *)
RestorePlan(o, q, put) ==
  /\ Units(put) = q
  /\ \A l \in Lots : returnedFrom[o][l] + put[l] <= cut[o][l]
  /\ \A k, l \in Lots : k < l /\ put[l] > 0 => returnedFrom[o][k] + put[k] = cut[o][k]

(* decideInPlaceLotRestore: is the lot the layer that was sold, with room? *)
InPlace(l, n) == l \notin EditedLots /\ remaining[l] + n <= received[l]

(* The lots that do not take their units back, and new lots for them.      *)
Displaced(put) == {l \in Lots : put[l] > 0 /\ ~InPlace(l, put[l])}

(* Each displaced portion becomes a restoration lot of its own, newer than *)
(* every lot there is; fresh is what the new lots hold.  Lots of one       *)
(* return share their receivedAt, so any order among them may follow.      *)
FreeLots == {l \in Lots : received[l] = 0}
RestorationLots(put, fresh) ==
  \E target \in Injection(Displaced(put), FreeLots) :
    /\ \A k \in Displaced(put) : fresh[target[k]] = put[k]
    /\ \A l \in Lots : fresh[l] > 0 => l \in Range(target)
    /\ \A k \in FreeLots, l \in Range(target) : k < l => k \in Range(target)

(* mutant: a displaced portion goes back to its own lot as well *)
MutGain(put, fresh, l) == fresh[l] + put[l]

(* What a lot gains: its own units back, or those of a displaced portion.  *)
Gain(put, fresh, l) == fresh[l] + IF l \in Displaced(put) THEN 0 ELSE put[l]

(* mutant: a lot that was empty stays flagged *)
MutStillDepleted(l, n) == depleted[l]

(* A lot that takes units back is found again by the FIFO query.           *)
StillDepleted(l, n) == depleted[l] /\ n = 0

-----------------------------------------------------------------------------
(* getSaleReturnContext and the cashier's confirmation: the refund the     *)
(* client expects, computed from the ledger as it is now.                  *)
QuoteReturn(a) ==
  /\ attempt[a].status = "new"
  /\ Replaces[a] # NoAttempt => attempt[Replaces[a]].status = "fenced"
  /\ LET o == AttemptOrder[a] IN
     /\ Returnable(o)
     /\ ledger[o].returned + AttemptQty[a] <= Qty[o]
     /\ attempt' = [attempt EXCEPT ![a] =
          [@ EXCEPT !.status = "quoted",
                    !.quote = RefundFor(o, ledger[o].returned, AttemptQty[a])]]
  /\ UNCHANGED <<returnedFrom, storeVars>>

(* Neither its return document nor its fence exists.                       *)
Undecided(a) == attempt[a].status = "quoted"

(* The transaction of performSubmitSaleReturn.                             *)
CommitReturn(a) ==
  /\ Undecided(a)
  /\ LET o == AttemptOrder[a]
         q == AttemptQty[a]
     IN /\ Returnable(o)
        /\ ledger[o].returned + q <= Qty[o]
        /\ attempt[a].quote = RefundFor(o, ledger[o].returned, q)
        /\ \E put, fresh \in [Lots -> 0..q] :
             /\ RestorePlan(o, q, put)
             /\ RestorationLots(put, fresh)
             /\ received' = [l \in Lots |-> received[l] + fresh[l]]
             /\ remaining' = [l \in Lots |-> remaining[l] + Gain(put, fresh, l)]
             /\ depleted' = [l \in Lots |-> StillDepleted(l, Gain(put, fresh, l))]
             /\ returnedFrom' = [returnedFrom EXCEPT ![o] = [l \in Lots |-> returnedFrom[o][l] + put[l]]]
        /\ stock' = stock + q
        /\ moves' = [moves EXCEPT ![o] = [@ EXCEPT !.return = moves[o].return + q]]
        /\ ledger' = [ledger EXCEPT ![o] =
             [count |-> ledger[o].count + 1, returned |-> ledger[o].returned + q,
              refunded |-> ledger[o].refunded + attempt[a].quote]]
        /\ attempt' = [attempt EXCEPT ![a] =
             [@ EXCEPT !.status = "committed", !.refund = attempt[a].quote]]
  /\ UNCHANGED <<order, canonical, cut, oversold, creditVars, eventVars>>

(* mode 'resolve': an attempt that has not committed never will.           *)
ResolveAttempt(a) ==
  /\ Undecided(a)
  /\ attempt' = [attempt EXCEPT ![a] = [@ EXCEPT !.status = "fenced"]]
  /\ UNCHANGED <<returnedFrom, storeVars>>

ReturnNext == \E a \in Attempts : QuoteReturn(a) \/ CommitReturn(a) \/ ResolveAttempt(a)
=============================================================================
