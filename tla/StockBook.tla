----------------------------- MODULE StockBook -----------------------------
(***************************************************************************)
(* The stock of one product at every branch, kept twice: the counter       *)
(* productStocks.totalStockBase and the lots in stockLots.  Every write    *)
(* of the inventory screens moves both.  A lot is known by its place in    *)
(* the sequence; "at" is its receipt time, which a transfer carries along. *)
(***************************************************************************)
EXTENDS Integers, FiniteSetsExt, SequencesExt

CONSTANT Branches
VARIABLES counter, lots
stockVars == <<counter, lots>>

Lot(b, qty, at) == [branch |-> b, qty |-> qty, at |-> at]
StockInit == counter = [b \in Branches |-> 0] /\ lots = <<>>
StockTypeOK ==
  /\ counter \in [Branches -> Int]
  /\ \A l \in DOMAIN lots : lots[l] \in [branch : Branches, qty : Int, at : 1..Len(lots)]

(* fetchActiveLotRefs and the query of the server: the lots not depleted.  *)
Active(b) == {l \in DOMAIN lots : lots[l].branch = b /\ lots[l].qty > 0}
Units(refs) == MapThenSumSet(LAMBDA l : lots[l].qty, refs)

(* planFifoCutFromState over the lots referred to: the oldest give first.  *)
Older(k, l) == lots[k].at < lots[l].at \/ (lots[k].at = lots[l].at /\ k < l)
Least(m, n) == IF m < n THEN m ELSE n
Lacking(refs, q) == q - Least(q, Units(refs))
FifoTake(refs, q) ==
  [l \in refs |-> Least(lots[l].qty, Lacking({k \in refs : Older(k, l)}, q))]

(* The cut lots, and the lots touched, oldest first: the i-th has i - 1    *)
(* touched lots that are older.                                            *)
CutLots(take) == [l \in DOMAIN lots |->
  IF l \in DOMAIN take THEN [lots[l] EXCEPT !.qty = @ - take[l]] ELSE lots[l]]
Touched(take) ==
  LET cut == {l \in DOMAIN take : take[l] > 0} IN
  [i \in 1..Cardinality(cut) |-> CHOOSE l \in cut : Cardinality({k \in cut : Older(k, l)}) = i - 1]

(* A document is cancelled, by whichever path.                             *)
Cancelled(doc) == [doc EXCEPT !.status = "cancelled", !.updatedAt = @ + 1]

(* The lots a reference still finds undepleted when it is read again.      *)
StillActive(refs) == {l \in refs : lots[l].qty > 0}
=============================================================================
