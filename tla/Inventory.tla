----------------------------- MODULE Inventory -----------------------------
(***************************************************************************)
(* The stock of a product under everything that moves it: goods received,  *)
(* transfers and their discrepancies, adjustments, reversals, and sales    *)
(* (which reconcileOrder cuts as SaleSettlement describes).                *)
(***************************************************************************)
EXTENDS Reversals

CONSTANTS MaxLots, MaxSold, MaxEdits, MaxAdjusted   \* bounds on lots, sales, writes of a document, counts

(* A transfer has a destination of its own.                                *)
InventoryAssumption ==
  /\ ReversalAssumption /\ {Home, From, To} \subseteq Branches /\ (Transfers = {} \/ From # To)
  /\ IsFiniteSet(Receipts) /\ IsFiniteSet(Transfers) /\ IsFiniteSet(Discrepancies)
  /\ Quantities \subseteq Nat /\ Amounts \subseteq Nat /\ Differences \subseteq Int
  /\ MaxLots \in Nat /\ MaxSold \in Nat /\ MaxEdits \in Nat /\ MaxAdjusted \in Nat

VARIABLES sold,      \* units sold at each branch
          restocked  \* the stock of a branch has grown since a reversal was asked for
invVars == <<stockVars, receivingVars, transferVars, reversalVars, sold, restocked>>

InvInit == /\ StockInit /\ ReceivingInit /\ TransferInit /\ ReversalInit
           /\ sold = [b \in Branches |-> 0] /\ restocked = FALSE

(* A sale takes from the lots what they have and from the counter all.     *)
Sell(b) ==
  /\ sold[b] < MaxSold
  /\ counter' = [counter EXCEPT ![b] = @ - 1] /\ lots' = CutLots(FifoTake(Active(b), 1))
  /\ sold' = [sold EXCEPT ![b] = @ + 1]
  /\ UNCHANGED <<receivingVars, transferVars, reversalVars>>

Asked == \E t \in Terminals, x \in Documents : intent[t][x] # NoIntent
Grows == \E b \in Branches : counter'[b] > counter[b]

InvNext ==
  /\ \/ Sell(From)
     \/ Sell(To)
     \/ ReceivingNext /\ UNCHANGED <<transferVars, reversalVars, sold>>
     \/ TransferNext /\ UNCHANGED <<receivingVars, reversalVars, sold>>
     \/ ReversalNext /\ UNCHANGED sold
  /\ Len(lots') <= MaxLots /\ \A x \in Documents : Document(x)'.updatedAt <= MaxEdits
  /\ \A b \in Branches : adjusted'[b] \in (-MaxAdjusted)..MaxAdjusted
  /\ restocked' = (restocked \/ (Asked /\ Grows))

InvSpec == InvInit /\ [][InvNext]_invVars

InvTypeOK ==
  /\ StockTypeOK /\ ReceivingTypeOK /\ TransferTypeOK /\ ReversalTypeOK
  /\ sold \in [Branches -> 0..MaxSold] /\ restocked \in BOOLEAN

-----------------------------------------------------------------------------
SumOver(S, qty(_)) == MapThenSumSet(qty, S)
Completed(docs, f) == {x \in docs : f[x].status = "completed"}
Received == SumOver(Completed(Receipts, receipt), LAMBDA r : receipt[r].qty)
Shipped == SumOver(Completed(Transfers, transfer), LAMBDA t : transfer[t].qty)
Corrected == SumOver({d \in Discrepancies : discrepancy[d].status = "resolved"},
                     LAMBDA d : discrepancy[d].difference)
If(p, n) == IF p THEN n ELSE 0

(* The counter of every branch is what its documents say: the receipts and *)
(* transfers that stand, the corrections, the counts and the sales, each   *)
(* once, whoever reversed, cancelled or resolved what at the same time.    *)
CounterIsDocumented ==
  \A b \in Branches : counter[b] =
    If(b = Home, Received) + If(b = To, Shipped + Corrected) - If(b = From, Shipped)
      + adjusted[b] - sold[b]

(* ... unless a screen has written totals over something it had not read.  *)
DocumentedOrClobbered == clobbered \/ CounterIsDocumented

(* A late answer, or a late failure, undoes nothing that was settled.      *)
StaysSettled == \A t \in Terminals, x \in Documents :
  intent[t][x].status \in {"server_accepted", "manual_review_resolved"}
    => intent'[t][x].status = intent[t][x].status

(* A terminal that was told yes has had its own reversal carried out.      *)
AcceptedIsReversed == \A t \in Terminals, x \in Documents :
  intent[t][x].status = "server_accepted" => ledger[x] = t

(* A terminal does not ask a manager about a reversal of its own that went *)
(* through, however many answers were lost, unless stock has come in.      *)
ManualIsNotApplied == \A t \in Terminals, x \in Documents :
  /\ intent[t][x].status \in {"manual_review_required", "manual_review_resolved"}
  /\ ledger[x] = t
  => restocked \/ clobbered

(* What a terminal was told of its reversal is what became of it.          *)
AnswersAreTrue == AcceptedIsReversed /\ ManualIsNotApplied
=============================================================================
