----------------------------- MODULE Receivings -----------------------------
(***************************************************************************)
(* Goods received at one branch: confirmReceiving, a transaction, and the  *)
(* three screens that read first and write a batch later (saveReceiving-   *)
(* Draft, updateReceiving, cancelReceiving), the last two writing totals   *)
(* they computed from what they had read.                                  *)
(***************************************************************************)
EXTENDS StockBook

CONSTANTS Receipts, Desks, Home, Quantities

VARIABLES receipt,   \* receivings/{id} and its one item
          desk,      \* what a screen has read and not yet written
          clobbered  \* a batch was written over something it had not read
receivingVars == <<receipt, desk, clobbered>>

NoLot == 0   \* DRAFT_LOT_ID
NoReceipt == [status |-> "none", qty |-> 0, lot |-> NoLot, updatedAt |-> 0]
Away == [doing |-> "nothing"]

ReceivingInit ==
  /\ receipt = [r \in Receipts |-> NoReceipt] /\ desk = [d \in Desks |-> Away] /\ clobbered = FALSE
ReceivingTypeOK ==
  /\ receipt \in [Receipts -> [status : {"none", "draft", "completed", "cancelled"},
                               qty : Nat, lot : 0..Len(lots), updatedAt : Nat]]
  /\ \A d \in Desks : desk[d] = Away \/ desk[d].doing \in {"draft", "update", "cancel"}
  /\ clobbered \in BOOLEAN

(* A document that was just read is a draft or is not there yet; its lines *)
(* become the items, one new lot holds them, and the counter grows.        *)
MutMayBeConfirmed(r) ==  (* mutant: a completed document is confirmed again *)
  receipt[r].status # "cancelled"

MayBeConfirmed(r) == receipt[r].status \in {"none", "draft"}

ConfirmReceiving(r, q) ==
  /\ MayBeConfirmed(r)
  /\ lots' = Append(lots, Lot(Home, q, Len(lots) + 1))
  /\ counter' = [counter EXCEPT ![Home] = @ + q]
  /\ receipt' = [receipt EXCEPT ![r] =
       [status |-> "completed", qty |-> q, lot |-> Len(lots) + 1, updatedAt |-> @.updatedAt + 1]]
  /\ UNCHANGED <<desk, clobbered>>

NewDraft(r, q) ==
  /\ receipt[r].status = "none"
  /\ receipt' = [receipt EXCEPT ![r] = [NoReceipt EXCEPT !.status = "draft", !.qty = q, !.updatedAt = 1]]
  /\ UNCHANGED <<desk, clobbered, stockVars>>

(* What a screen reads before it writes: the document, its lot, its total. *)
(* The form offers to cancel completed documents only.                     *)
LotQty(l) == IF l = NoLot THEN 0 ELSE lots[l].qty
Snapshot(r) == [receipt |-> receipt[r], counter |-> counter[Home], lotQty |-> LotQty(receipt[r].lot)]
Read(d, r, doing, statuses) ==
  /\ desk[d] = Away /\ receipt[r].status \in statuses
  /\ desk' = [desk EXCEPT ![d] = [doing |-> doing, of |-> r, saw |-> Snapshot(r)]]
  /\ UNCHANGED <<receipt, clobbered, stockVars>>

ReadForDraft(d, r)  == Read(d, r, "draft", {"draft"})
ReadForUpdate(d, r) == Read(d, r, "update", {"completed"})
ReadForCancel(d, r) == Read(d, r, "cancel", {"completed"})

(* The batch: the total and the lot as read, moved by delta.               *)
SetAsRead(d, delta) ==
  LET s == desk[d].saw IN
  /\ counter' = [counter EXCEPT ![Home] = s.counter + delta]
  /\ lots' = IF s.receipt.lot = NoLot THEN lots
             ELSE [lots EXCEPT ![s.receipt.lot].qty = s.lotQty + delta]
Leave(d, outdated) == desk' = [desk EXCEPT ![d] = Away] /\ clobbered' = (clobbered \/ outdated)
Outdated(d) == Snapshot(desk[d].of) # desk[d].saw

WriteDraft(d, q) ==
  /\ desk[d].doing = "draft"
  /\ receipt' = [receipt EXCEPT ![desk[d].of] =
       [status |-> "draft", qty |-> q, lot |-> NoLot, updatedAt |-> @.updatedAt + 1]]
  /\ Leave(d, receipt[desk[d].of] # desk[d].saw.receipt) /\ UNCHANGED stockVars

Edited(doc, q) == [doc EXCEPT !.qty = q, !.updatedAt = @ + 1]

WriteUpdate(d, q) ==
  /\ desk[d].doing = "update"
  /\ SetAsRead(d, q - desk[d].saw.receipt.qty)
  /\ receipt' = [receipt EXCEPT ![desk[d].of] = Edited(@, q)]
  /\ Leave(d, Outdated(d))

WriteCancel(d) ==
  /\ desk[d].doing = "cancel"
  /\ SetAsRead(d, -desk[d].saw.receipt.qty)
  /\ receipt' = [receipt EXCEPT ![desk[d].of] = Cancelled(@)]
  /\ Leave(d, Outdated(d))

ReceivingNext ==
  \/ \E r \in Receipts, q \in Quantities : ConfirmReceiving(r, q) \/ NewDraft(r, q)
  \/ \E d \in Desks, r \in Receipts : ReadForDraft(d, r) \/ ReadForUpdate(d, r) \/ ReadForCancel(d, r)
  \/ \E d \in Desks, q \in Quantities : WriteDraft(d, q) \/ WriteUpdate(d, q)
  \/ \E d \in Desks : WriteCancel(d)
=============================================================================
