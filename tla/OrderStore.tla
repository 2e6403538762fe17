----------------------------- MODULE OrderStore -----------------------------
(***************************************************************************)
(* The Firestore documents of one branch that settling, voiding and        *)
(* returning a sale read and write, and the events Firestore publishes     *)
(* when an asyncOrders document changes.  Every transaction of the code is *)
(* one step here: Firestore serializes them.                               *)
(*                                                                         *)
(* One product is sold; each sale has one line of Qty[o] base units, paid  *)
(* Share[o] satang, of which CreditAmt[o] was put on the account of the    *)
(* one customer.  Lots are the stockLots of the product, oldest first; a   *)
(* lot with received = 0 does not exist yet.                               *)
(***************************************************************************)
EXTENDS Fifo, FiniteSets

CONSTANTS Orders,       \* asyncOrders ids
          Execs,        \* privileged void executions
          NoExec,       \* no privilegedVoidExecutionId on the document
          NLots,        \* bound on the number of stockLots documents
          InitialLots,  \* the units each lot starts with, 0 for a free slot
          Qty,          \* base units a sale sells
          Share,        \* satang paid for a sale
          CreditAmt     \* satang of it charged to the customer's account

Lots == 1..NLots

ASSUME StoreAssumption ==
  /\ IsFiniteSet(Orders)
  /\ NoExec \notin Execs
  /\ NLots \in Nat
  /\ InitialLots \in [Lots -> Nat]
  /\ Qty \in [Orders -> Nat \ {0}]
  /\ Share \in [Orders -> Nat]
  /\ CreditAmt \in [Orders -> Nat]

VARIABLES order,        \* asyncOrders/{o}
          canonical,    \* orders/{o}: absent, completed or voided
          cut,          \* lines[].lotRefs of the settled sale, real lots
          oversold,     \* lines[].lotRefs with lotId 'oversell'
          moves,        \* stockMovements of a sale: units by type
          ledger,       \* saleReturnLedgers/{o}; count 0 is no document
          stock,        \* productStocks.totalStockBase
          received,     \* stockLots.qtyReceived
          remaining,    \* stockLots.qtyRemaining
          depleted,     \* stockLots.isDepleted
          creditUsed,   \* creditAccounts.creditUsed
          outstandingBalance, \* customers.outstandingBalance
          published,    \* events Firestore may deliver (again)
          undelivered   \* events still to be delivered a first time

stockVars == <<stock, received, remaining, depleted>>
creditVars == <<creditUsed, outstandingBalance>>
saleVars == <<canonical, cut, oversold, moves, ledger>>
eventVars == <<published, undelivered>>
storeVars == <<order, saleVars, stockVars, creditVars, eventVars>>

-----------------------------------------------------------------------------
(* The fields of an asyncOrders document that control flow reads.  status  *)
(* merges completed and pending_payment into open; voidedBy says whether   *)
(* the field holds a name.                                                 *)
OrderDoc ==
  [reconcileStatus : {"absent", "pending_reconcile", "settled", "exception"},
   status : {"open", "voided"},
   reconcileAttempts : Nat,
   voidRequested : BOOLEAN,
   voidReconciled : BOOLEAN,
   voidedBy : BOOLEAN,
   voidAnomaly : {"none", "missing_canonical", "canonical_ineligible"},
   privilegedVoidExecutionId : Execs \cup {NoExec}]

Document(reconcileStatus) ==
  [reconcileStatus |-> reconcileStatus, status |-> "open",
   reconcileAttempts |-> 0, voidRequested |-> FALSE, voidReconciled |-> FALSE,
   voidedBy |-> FALSE, voidAnomaly |-> "none",
   privilegedVoidExecutionId |-> NoExec]

Movements == [sale : Nat, void : Nat, return : Nat]
Ledger == [count : Nat, returned : Nat, refunded : Int]
Event == Orders \X {"settle", "void"}

StoreTypeOK ==
  /\ order \in [Orders -> OrderDoc]
  /\ canonical \in [Orders -> {"absent", "completed", "voided"}]
  /\ cut \in [Orders -> [Lots -> Nat]]
  /\ oversold \in [Orders -> Nat]
  /\ moves \in [Orders -> Movements]
  /\ ledger \in [Orders -> Ledger]
  /\ stock \in Int
  /\ received \in [Lots -> Nat]
  /\ remaining \in [Lots -> Nat]
  /\ depleted \in [Lots -> BOOLEAN]
  /\ creditUsed \in Nat
  /\ outstandingBalance \in Int
  /\ published \subseteq Event
  /\ undelivered \subseteq published

StoreInit ==
  /\ order = [o \in Orders |-> Document("absent")]
  /\ canonical = [o \in Orders |-> "absent"]
  /\ cut = [o \in Orders |-> [l \in Lots |-> 0]]
  /\ oversold = [o \in Orders |-> 0]
  /\ moves = [o \in Orders |-> [sale |-> 0, void |-> 0, return |-> 0]]
  /\ ledger = [o \in Orders |-> [count |-> 0, returned |-> 0, refunded |-> 0]]
  /\ stock = Units(InitialLots)
  /\ received = InitialLots
  /\ remaining = InitialLots
  /\ depleted = [l \in Lots |-> InitialLots[l] = 0]
  /\ creditUsed = 0
  /\ outstandingBalance = 0
  /\ published = {}
  /\ undelivered = {}

-----------------------------------------------------------------------------
Exists(o) == order[o].reconcileStatus # "absent"

(* mutant: only a complete return blocks the void *)
MutHasReturn(o) == ledger[o].returned = Qty[o]

(* saleReturnLedgerBlocksVoid: the document exists. *)
HasReturn(o) == ledger[o].count > 0

(* mutant: the stamp is taken for the void *)
MutIsAlreadyCanonicallyVoided(doc) == doc.status = "voided" \/ doc.voidReconciled \/ doc.voidedBy

IsAlreadyCanonicallyVoided(doc) == doc.status = "voided" \/ doc.voidReconciled

(* The handler reconcileOnWrite routes on the payload of the event, which  *)
(* is the document as the write left it: a void intent first, then a       *)
(* pending sale; a write that is neither is ignored.                       *)
Payload(doc) ==
  IF doc.voidRequested THEN {"void"}
  ELSE IF doc.reconcileStatus = "pending_reconcile" THEN {"settle"} ELSE {}

(* A write of asyncOrders/{o} publishes an event; handled is the event the *)
(* writer was answering, if any.                                           *)
Publish(o, handled) ==
  /\ published' = published \cup ({o} \X Payload(order'[o]))
  /\ undelivered' = (undelivered \ handled) \cup ({o} \X Payload(order'[o]))
=============================================================================
