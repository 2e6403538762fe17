----------------------------- MODULE Transfers -----------------------------
(***************************************************************************)
(* Stock moved from one branch to another (transferCrud.ts), the shortage  *)
(* the receiving branch reports and the sending branch corrects, and the   *)
(* counts that adjust a branch.  A query cannot run in a transaction of    *)
(* the client: the lots to cut are listed first and read again in it.      *)
(***************************************************************************)
EXTENDS StockBook

CONSTANTS Transfers, Clerks, Discrepancies, From, To, Amounts, Differences, AllowNegative

VARIABLES transfer,     \* inventoryTransfers/{id} and its one item
          plan,         \* what a clerk is about to do, and the lots listed for it
          discrepancy,  \* transferDiscrepancies/{id}
          adjusted      \* net of the inventoryAdjustments of each branch
transferVars == <<transfer, plan, discrepancy, adjusted>>

NoTransfer == [status |-> "none", qty |-> 0, details |-> <<>>, updatedAt |-> 0]
NoTime == 0   \* no receivedAtMs
NoPlan == [to |-> "nothing"]
NoDiscrepancy == [status |-> "none", difference |-> 0]

TransferInit ==
  /\ transfer = [t \in Transfers |-> NoTransfer] /\ plan = [k \in Clerks |-> NoPlan]
  /\ discrepancy = [d \in Discrepancies |-> NoDiscrepancy] /\ adjusted = [b \in Branches |-> 0]
TransferTypeOK ==
  /\ \A t \in Transfers : /\ transfer[t].status \in {"none", "completed", "cancelled"}
                          /\ transfer[t].qty = FoldSeq(LAMBDA d, n : d.qty + n, 0, transfer[t].details)
  /\ \A k \in Clerks : plan[k] = NoPlan \/ plan[k].refs \subseteq DOMAIN lots
  /\ \A d \in Discrepancies : discrepancy[d].status \in {"none", "reported", "resolved"}
  /\ adjusted \in [Branches -> Int]

List(k, what, t, b) ==
  /\ plan[k] = NoPlan
  /\ plan' = [plan EXCEPT ![k] = [to |-> what, of |-> t, refs |-> Active(b)]]
  /\ UNCHANGED <<transfer, discrepancy, adjusted, stockVars>>

ListToConfirm(k, t) == transfer[t].status = "none" /\ List(k, "confirm", t, From)
ListToCancel(k, t) == transfer[t].status = "completed" /\ List(k, "cancel", t, To)
ListToAdjust(k, b) == List(k, "adjust", b, b)

Listed(k) == StillActive(plan[k].refs)
Suffices(b, q) == counter[b] >= q \/ AllowNegative

(* Each cut lot is mirrored at the destination with its receipt time; what *)
(* the listed lots lack is one lot more, received now.                     *)
Details(take, rest) ==
  LET cut == Touched(take) IN
  [i \in DOMAIN cut |-> [qty |-> take[cut[i]], at |-> lots[cut[i]].at]]
    \o (IF rest = 0 THEN <<>> ELSE <<[qty |-> rest, at |-> NoTime]>>)
LotsAt(b, details) == [i \in DOMAIN details |->
  Lot(b, details[i].qty, IF details[i].at = NoTime THEN Len(lots) + i ELSE details[i].at)]
Shift(from, to, q) == [counter EXCEPT ![from] = @ - q, ![to] = @ + q]

ConfirmTransfer(k, q) ==
  LET take == FifoTake(Listed(k), q)
      details == Details(take, Lacking(Listed(k), q))
  IN  /\ plan[k].to = "confirm" /\ transfer[plan[k].of].status = "none" /\ Suffices(From, q)
      /\ lots' = CutLots(take) \o LotsAt(To, details)
      /\ counter' = Shift(From, To, q)
      /\ transfer' = [transfer EXCEPT ![plan[k].of] =
           [status |-> "completed", qty |-> q, details |-> details, updatedAt |-> 1]]
      /\ plan' = [plan EXCEPT ![k] = NoPlan]
      /\ UNCHANGED <<discrepancy, adjusted>>

MayBeCancelled(t) == transfer[t].status # "cancelled"

(* Also the first half of editBranchTransfer; confirming the edited        *)
(* transfer is a transaction of its own.                                   *)
CancelTransfer(k) ==
  LET t == plan[k].of
      q == transfer[t].qty
  IN  /\ plan[k].to = "cancel" /\ MayBeCancelled(t) /\ Suffices(To, q)
      /\ lots' = CutLots(FifoTake(Listed(k), q)) \o LotsAt(From, transfer[t].details)
      /\ counter' = Shift(To, From, q)
      /\ transfer' = [transfer EXCEPT ![t] = Cancelled(@)]
      /\ plan' = [plan EXCEPT ![k] = NoPlan]
      /\ UNCHANGED <<discrepancy, adjusted>>

(* A clerk whose document was cancelled meanwhile, or lacks the stock.     *)
GiveUp(k) ==
  /\ plan[k] # NoPlan /\ plan' = [plan EXCEPT ![k] = NoPlan]
  /\ UNCHANGED <<transfer, discrepancy, adjusted, stockVars>>

(* Moves the stock of b by n, cutting refs or adding a lot.                *)
MoveStock(b, n, refs) ==
  /\ counter' = [counter EXCEPT ![b] = @ + n]
  /\ lots' = IF n < 0 THEN CutLots(FifoTake(refs, -n)) ELSE Append(lots, Lot(b, n, Len(lots) + 1))

ConfirmAdjustment(k, n) ==
  LET b == plan[k].of IN
  /\ plan[k].to = "adjust" /\ n # 0 /\ Suffices(b, -n)
  /\ MoveStock(b, n, Listed(k))
  /\ adjusted' = [adjusted EXCEPT ![b] = @ + n]
  /\ plan' = [plan EXCEPT ![k] = NoPlan]
  /\ UNCHANGED <<transfer, discrepancy>>

(* Metadata only; the transfer may be cancelled between check and write.   *)
ReportDiscrepancy(d, t, n) ==
  /\ discrepancy[d].status = "none" /\ transfer[t].status # "none" /\ transfer[t].qty + n >= 0
  /\ discrepancy' = [discrepancy EXCEPT ![d] = [status |-> "reported", difference |-> n, of |-> t]]
  /\ UNCHANGED <<transfer, plan, adjusted, stockVars>>

IsOpen(d) == discrepancy[d].status = "reported"

ResolveDiscrepancy(d) ==
  /\ IsOpen(d) /\ discrepancy[d].difference # 0 /\ transfer[discrepancy[d].of].status # "cancelled"
  /\ MoveStock(To, discrepancy[d].difference, Active(To))
  /\ discrepancy' = [discrepancy EXCEPT ![d] = [@ EXCEPT !.status = "resolved"]]
  /\ UNCHANGED <<transfer, plan, adjusted>>

TransferNext ==
  \/ \E k \in Clerks, t \in Transfers : ListToConfirm(k, t) \/ ListToCancel(k, t)
  \/ \E k \in Clerks, b \in Branches : ListToAdjust(k, b)
  \/ \E k \in Clerks, q \in Amounts : ConfirmTransfer(k, q)
  \/ \E k \in Clerks, n \in Differences : ConfirmAdjustment(k, n)
  \/ \E k \in Clerks : CancelTransfer(k) \/ GiveUp(k)
  \/ \E d \in Discrepancies, t \in Transfers, n \in Differences : ReportDiscrepancy(d, t, n)
  \/ \E d \in Discrepancies : ResolveDiscrepancy(d)
=============================================================================
