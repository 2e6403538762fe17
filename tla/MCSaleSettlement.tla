-------------------------- MODULE MCSaleSettlement --------------------------
(***************************************************************************)
(* Instances of SaleSettlement for TLC.                                    *)
(***************************************************************************)
EXTENDS SaleSettlement, TLC

CONSTANTS o1, o2, e1, e2, c1, c2, c3, a1, a2, a3, a4, none

(* One lot of two units and one of one, free slots, and two sales of two   *)
(* units: the second runs out of stock unless the first is put back.       *)
StockLots == <<2, 1, 0>>
ReturnSlots == <<2, 1, 0, 0>>
TwoQty == o1 :> 2 @@ o2 :> 2
TwoShare == o1 :> 3 @@ o2 :> 1
OnCredit == o1 :> 2 @@ o2 :> 0
NoCredit == [o \in Orders |-> 0]

TwoOfO1 == o1 :> 2
ThreeForO1 == o1 :> 3

(* Three units at five satang, from lots of one and two units, returned    *)
(* one by one, where each third of the refund rounds, or two at once, from *)
(* both lots.  Two slots are free.                                         *)
ReturnLots == <<1, 2, 0, 0>>
ThreeOfO1 == o1 :> 3
FiveForO1 == o1 :> 5
ReturnO2 == [a \in Attempts |-> o2]
ReturnO1 == [a \in Attempts |-> o1]
OneByOne == [a \in Attempts |-> IF a = a4 THEN 2 ELSE 1]
SecondReplacesFirst == [a \in Attempts |-> IF a = a2 THEN a1 ELSE none]
NoReplacement == [a \in Attempts |-> none]

(* Two executions for one sale, one while it is pending and one once it is *)
(* settled, with one call each or two calls for the second.                *)
VoidO1 == [e \in Execs |-> o1]
OneEach == c1 :> e1 @@ c2 :> e2
TwoForE2 == c1 :> e1 @@ c2 :> e2 @@ c3 :> e2
OneCall == c1 :> e1
PendingOnly == e1 :> "pending_reconcile"
PendingAndSettled == e1 :> "pending_reconcile" @@ e2 :> "settled"

NoCalls == [c \in {} |-> none]
NoExecOrder == [e \in {} |-> none]
NoReturns == [a \in {} |-> none]
=============================================================================
