----------------------------- MODULE SaleEffect -----------------------------
(***************************************************************************)
(* What the server promises of a sale, whatever is delivered twice, lost,  *)
(* retried or run at once: it takes its units out of the stock once, and   *)
(* then either is reversed, once and whole, or is returned piece by piece, *)
(* each piece refunded; a sale that is cancelled first never takes them.   *)
(***************************************************************************)
EXTENDS Integers

CONSTANTS Orders,
          Qty,     \* units a sale takes
          Opening, \* the stock before any sale
          Refund   \* satang due for the first n units that come back

VARIABLES effect,    \* where a sale is
          stock,     \* the branch stock of the product
          returned,  \* units of a sale returned so far
          refunded   \* satang refunded for them

vars == <<effect, stock, returned, refunded>>

Init ==
  /\ effect = [o \in Orders |-> "none"]
  /\ stock = Opening
  /\ returned = [o \in Orders |-> 0]
  /\ refunded = [o \in Orders |-> 0]

Sell(o) ==
  /\ effect[o] = "none"
  /\ effect' = [effect EXCEPT ![o] = "sold"]
  /\ stock' = stock - Qty[o]
  /\ UNCHANGED <<returned, refunded>>

Cancel(o) ==
  /\ effect[o] = "none"
  /\ effect' = [effect EXCEPT ![o] = "cancelled"]
  /\ UNCHANGED <<stock, returned, refunded>>

Reverse(o) ==
  /\ effect[o] = "sold"
  /\ returned[o] = 0
  /\ effect' = [effect EXCEPT ![o] = "reversed"]
  /\ stock' = stock + Qty[o]
  /\ UNCHANGED <<returned, refunded>>

Return(o) ==
  /\ effect[o] = "sold"
  /\ \E q \in 1..(Qty[o] - returned[o]) :
       /\ returned' = [returned EXCEPT ![o] = @ + q]
       /\ stock' = stock + q
  /\ refunded' = [refunded EXCEPT ![o] = Refund[o][returned'[o]]]
  /\ UNCHANGED effect

Next == \E o \in Orders : Sell(o) \/ Cancel(o) \/ Reverse(o) \/ Return(o)

Spec == Init /\ [][Next]_vars
=============================================================================
