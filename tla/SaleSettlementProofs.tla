------------------------ MODULE SaleSettlementProofs ------------------------
(***************************************************************************)
(* Theorems about SaleSettlement, for any sales, lots, executions, calls   *)
(* and return attempts, with events delivered twice and invocations that   *)
(* die: the types, that a waiting sale is carried, what a sale does to the *)
(* stock, that this implements SaleEffect, who owns a void, that returns   *)
(* and voids exclude each other, that a void reverses unless an attempt    *)
(* failed, and that stock, lots, credit and refunds add up.                *)
(***************************************************************************)
EXTENDS SaleSettlement, SumLemmas

USE StoreAssumption

-----------------------------------------------------------------------------
(* Publishing adds events of a sale, and takes away those that were        *)
(* answered.                                                               *)
LEMMA PublishType ==
  ASSUME NEW o \in Orders, NEW handled, StoreTypeOK, Publish(o, handled)
  PROVE  /\ published' \subseteq Event
         /\ undelivered' \subseteq published'
BY DEF Publish, Payload, Event, StoreTypeOK

(* A document that is patched is a document.                               *)
LEMMA PatchType ==
  ASSUME NEW o \in Orders, NEW doc \in OrderDoc, StoreTypeOK,
         order' = [order EXCEPT ![o] = doc]
  PROVE  order' \in [Orders -> OrderDoc]
BY DEF StoreTypeOK

(* A void keeps the types of all it writes.                                *)
LEMMA VoidWriteType ==
  ASSUME NEW o \in Orders, NEW e \in Execs \cup {NoExec}, StoreTypeOK,
         VoidWrite(o, e)
  PROVE  /\ order' \in [Orders -> OrderDoc]
         /\ canonical' \in [Orders -> {"absent", "completed", "voided"}]
         /\ cut' = cut /\ oversold' = oversold /\ ledger' = ledger /\ received' = received
         /\ moves' \in [Orders -> Movements]
         /\ stock' \in Int
         /\ remaining' \in [Lots -> Nat]
         /\ depleted' \in [Lots -> BOOLEAN]
         /\ creditUsed' \in Nat
         /\ outstandingBalance' \in Int
<1> DEFINE doc == order[o]
<1>0. doc \in OrderDoc /\ Correlation(o, e) \in Execs \cup {NoExec}
  BY DEF StoreTypeOK, Correlation, OrderDoc
<1>1. CASE VoidTombstone(o, e)
  <2>1. order' \in [Orders -> OrderDoc]
    BY <1>0, <1>1 DEF VoidTombstone, StoreTypeOK, OrderDoc
  <2> QED
    BY <1>1, <2>1 DEF VoidTombstone, StoreTypeOK, saleVars, stockVars, creditVars
<1>2. CASE VoidAnomaly(o, e)
  <2>1. order' \in [Orders -> OrderDoc]
    BY <1>0, <1>2 DEF VoidAnomaly, StoreTypeOK, OrderDoc
  <2> QED
    BY <1>2, <2>1 DEF VoidAnomaly, StoreTypeOK, saleVars, stockVars, creditVars
<1>3. CASE VoidApply(o, e)
  <2>1. order' \in [Orders -> OrderDoc]
    BY <1>0, <1>3 DEF VoidApply, StoreTypeOK, OrderDoc
  <2>2. moves' \in [Orders -> Movements]
    <3>1. moves[o] \in Movements /\ Qty[o] \in Nat
      BY DEF StoreTypeOK
    <3>2. [moves[o] EXCEPT !.void = moves[o].void + Qty[o]] \in Movements
      BY <3>1 DEF Movements
    <3> QED
      BY <1>3, <3>2 DEF VoidApply, StoreTypeOK
  <2>3. remaining' \in [Lots -> Nat] /\ depleted' \in [Lots -> BOOLEAN]
    BY <1>3 DEF VoidApply, Restock, StoreTypeOK
  <2>4. creditUsed' \in Nat /\ outstandingBalance' \in Int /\ stock' \in Int
    BY <1>3 DEF VoidApply, ReversedCredit, Max0, StoreTypeOK
  <2> QED
    BY <1>3, <2>1, <2>2, <2>3, <2>4 DEF VoidApply, StoreTypeOK
<1> QED
  BY <1>1, <1>2, <1>3 DEF VoidWrite

-----------------------------------------------------------------------------
(* The steps of the trigger.                                               *)
LEMMA SettleSaleType ==
  ASSUME NEW o \in Orders, StoreTypeOK, SettleSale(o)
  PROVE  StoreTypeOK'
<1>1. PICK take \in [Lots -> 0..Qty[o]], rest \in 0..Qty[o] :
        /\ FifoPlan(Available, Qty[o], take, rest)
        /\ cut' = [cut EXCEPT ![o] = take]
        /\ oversold' = [oversold EXCEPT ![o] = rest]
        /\ remaining' = [l \in Lots |-> remaining[l] - take[l]]
        /\ depleted' = DepletedAfter(take)
  BY DEF SettleSale
<1>2. \A l \in Lots : take[l] \in Nat /\ take[l] <= remaining[l]
  <2>1. \A l \in Lots : take[l] <= Available[l]
    BY <1>1 DEF FifoPlan, Greedy, Available
  <2> QED
    BY <2>1 DEF Available, StoreTypeOK
<1>3. remaining' \in [Lots -> Nat]
  BY <1>1, <1>2 DEF StoreTypeOK
<1>4. cut' \in [Orders -> [Lots -> Nat]] /\ oversold' \in [Orders -> Nat]
  BY <1>1 DEF StoreTypeOK
<1>5. depleted' \in [Lots -> BOOLEAN]
  <2>1. ASSUME NEW l \in Lots
        PROVE  DepletedAfter(take)[l] \in BOOLEAN
    <3>1. depleted[l] \in BOOLEAN
      BY DEF StoreTypeOK
    <3>2. (Available[l] <= take[l]) \in BOOLEAN
      BY <1>2 DEF Available, StoreTypeOK
    <3> QED
      BY <3>1, <3>2 DEF DepletedAfter
  <2> QED
    BY <1>1, <2>1, Zenon DEF DepletedAfter
<1>6. moves' \in [Orders -> Movements]
  <2>1. moves[o] \in Movements /\ Qty[o] \in Nat
    BY DEF StoreTypeOK
  <2>2. [moves[o] EXCEPT !.sale = moves[o].sale + Qty[o]] \in Movements
    BY <2>1 DEF Movements
  <2> QED
    BY <2>2 DEF SettleSale, StoreTypeOK
<1>7. order' \in [Orders -> OrderDoc]
  <2>1. [order[o] EXCEPT !.reconcileStatus = "settled", !.status = "open"] \in OrderDoc
    <3>1. order[o] \in OrderDoc
      BY DEF StoreTypeOK
    <3> QED
      BY <3>1 DEF OrderDoc
  <2> QED
    BY <2>1, PatchType DEF SettleSale
<1>8. published' \subseteq Event /\ undelivered' \subseteq published'
  BY PublishType DEF SettleSale
<1>9. stock' \in Int /\ creditUsed' \in Nat /\ outstandingBalance' \in Int
  BY DEF SettleSale, StoreTypeOK
<1> QED
  BY <1>3, <1>4, <1>5, <1>6, <1>7, <1>8, <1>9 DEF SettleSale, StoreTypeOK

LEMMA TriggerStepType ==
  ASSUME TypeOK, TriggerNext, UNCHANGED <<privilegedVars, returnVars>>
  PROVE  TypeOK'
<1> USE TriggerAssumption DEF TypeOK
<1>0. PrivilegedTypeOK' /\ ReturnTypeOK'
  BY DEF PrivilegedTypeOK, ReturnTypeOK, privilegedVars, returnVars
<1>1. ASSUME NEW o \in Orders, SubmitAsyncOrder(o)
      PROVE  StoreTypeOK' /\ TriggerTypeOK'
  <2>1. order' \in [Orders -> OrderDoc]
    BY <1>1 DEF SubmitAsyncOrder, Document, StoreTypeOK, OrderDoc
  <2> QED
    BY <1>1, <2>1, PublishType
    DEF SubmitAsyncOrder, StoreTypeOK, TriggerTypeOK, saleVars, stockVars, creditVars, triggerVars
<1>2. ASSUME NEW o \in Orders, LegacyVoidFlag(o)
      PROVE  StoreTypeOK' /\ TriggerTypeOK'
  <2>1. order' \in [Orders -> OrderDoc]
    <3>1. [order[o] EXCEPT !.voidRequested = TRUE, !.status = "voided", !.voidedBy = TRUE]
            \in OrderDoc
      <4>1. order[o] \in OrderDoc
        BY DEF StoreTypeOK
      <4> QED
        BY <4>1 DEF OrderDoc
    <3> QED
      BY <1>2, <3>1, PatchType DEF LegacyVoidFlag
  <2> QED
    BY <1>2, <2>1, PublishType
    DEF LegacyVoidFlag, StoreTypeOK, TriggerTypeOK, saleVars, stockVars, creditVars, triggerVars
<1>3. ASSUME NEW o \in Orders, SettleSale(o)
      PROVE  StoreTypeOK' /\ TriggerTypeOK'
  BY <1>3, SettleSaleType DEF SettleSale, TriggerTypeOK, triggerVars
<1>4. ASSUME NEW o \in Orders, SettleNoop(o)
      PROVE  StoreTypeOK' /\ TriggerTypeOK'
  BY <1>4 DEF SettleNoop, Consume, StoreTypeOK, TriggerTypeOK, saleVars, stockVars,
              creditVars, triggerVars
<1>5. ASSUME NEW o \in Orders, SettleThrows(o)
      PROVE  StoreTypeOK' /\ TriggerTypeOK'
  BY <1>5 DEF SettleThrows, Consume, StoreTypeOK, TriggerTypeOK, saleVars, stockVars, creditVars
<1>6. ASSUME NEW o \in Orders, PatchException(o)
      PROVE  StoreTypeOK' /\ TriggerTypeOK'
  <2>1. order' \in [Orders -> OrderDoc]
    <3>1. [order[o] EXCEPT !.reconcileStatus = "exception",
                           !.reconcileAttempts = order[o].reconcileAttempts + 1] \in OrderDoc
      <4>1. order[o] \in OrderDoc
        BY DEF StoreTypeOK
      <4>2. order[o].reconcileAttempts + 1 \in Nat
        BY <4>1 DEF OrderDoc
      <4> QED
        BY <4>1, <4>2 DEF OrderDoc
    <3> QED
      BY <1>6, <3>1, PatchType DEF PatchException
  <2>2. throwing' \in [Orders -> Nat]
    <3>1. throwing[o] - 1 \in Nat
      BY <1>6 DEF PatchException, TriggerTypeOK
    <3> QED
      BY <1>6, <3>1 DEF PatchException, TriggerTypeOK
  <2> QED
    BY <1>6, <2>1, <2>2, PublishType
    DEF PatchException, StoreTypeOK, TriggerTypeOK, saleVars, stockVars, creditVars
<1>7. ASSUME NEW o \in Orders, CrashBeforePatch(o)
      PROVE  StoreTypeOK' /\ TriggerTypeOK'
  BY <1>7 DEF CrashBeforePatch, StoreTypeOK, TriggerTypeOK, storeVars, saleVars, stockVars,
              creditVars, eventVars
<1>8. ASSUME NEW o \in Orders, DeliverVoid(o)
      PROVE  StoreTypeOK' /\ TriggerTypeOK'
  <2>1. CASE VoidWrite(o, NoExec) /\ Publish(o, {<<o, "void">>})
    BY <1>8, <2>1, VoidWriteType, PublishType
    DEF DeliverVoid, StoreTypeOK, TriggerTypeOK, triggerVars
  <2>2. CASE Consume(<<o, "void">>) /\ UNCHANGED <<order, saleVars, stockVars, creditVars>>
    BY <1>8, <2>2 DEF DeliverVoid, Consume, StoreTypeOK, TriggerTypeOK, saleVars, stockVars,
                      creditVars, triggerVars
  <2> QED
    BY <1>8, <2>1, <2>2 DEF DeliverVoid
<1>9. ASSUME NEW o \in Orders, RetryReconcile(o)
      PROVE  StoreTypeOK' /\ TriggerTypeOK'
  <2>1. order' \in [Orders -> OrderDoc]
    <3>1. [order[o] EXCEPT !.reconcileStatus = "pending_reconcile"] \in OrderDoc
      <4>1. order[o] \in OrderDoc
        BY DEF StoreTypeOK
      <4> QED
        BY <4>1 DEF OrderDoc
    <3> QED
      BY <1>9, <3>1, PatchType DEF RetryReconcile
  <2> QED
    BY <1>9, <2>1, PublishType
    DEF RetryReconcile, StoreTypeOK, TriggerTypeOK, saleVars, stockVars, creditVars, triggerVars
<1>10. ASSUME NEW amount \in Payments, ReceiveCreditPayment(amount)
       PROVE  StoreTypeOK' /\ TriggerTypeOK'
  <2>1. amount \in Nat
    OBVIOUS
  <2> QED
    BY <1>10, <2>1 DEF ReceiveCreditPayment, Max0, StoreTypeOK, TriggerTypeOK, saleVars,
                       stockVars, eventVars
<1> QED
  BY <1>0, <1>1, <1>2, <1>3, <1>4, <1>5, <1>6, <1>7, <1>8, <1>9, <1>10 DEF TriggerNext, Settle

-----------------------------------------------------------------------------
(* The steps of a privileged void.                                         *)
LEMMA PrivilegedStepType ==
  ASSUME TypeOK, PrivilegedNext, UNCHANGED <<triggerVars, returnVars>>
  PROVE  TypeOK'
<1> USE PrivilegedAssumption DEF TypeOK
<1>0. TriggerTypeOK' /\ ReturnTypeOK'
  BY DEF TriggerTypeOK, ReturnTypeOK, triggerVars, returnVars
<1> SUFFICES ASSUME NEW c \in Calls, Begin(c) \/ Resume(c) \/ Continue(c) \/ CrashCall(c)
             PROVE  StoreTypeOK' /\ PrivilegedTypeOK'
  BY <1>0 DEF PrivilegedNext
<1>t. CallExec[c] \in Execs /\ Target(c) \in Orders
  BY DEF Target
<1>v. [order[Target(c)] EXCEPT !.voidedBy = TRUE] \in OrderDoc
  <2>1. order[Target(c)] \in OrderDoc
    BY <1>t DEF StoreTypeOK
  <2> QED
    BY <2>1 DEF OrderDoc
<1>g. ASSUME NEW pc \in {"idle", "consume", "decide", "execute", "confirm", "attribute", "mark"},
             NEW outcome \in VoidResult, Goto(c, pc, outcome)
      PROVE  call' \in [Calls -> Call]
  BY <1>g DEF Goto, PrivilegedTypeOK, Call
<1>r. Return(c) => call' \in [Calls -> Call]
  BY <1>g DEF Return, VoidResult
<1>s. UNCHANGED storeVars => StoreTypeOK'
  BY DEF StoreTypeOK, storeVars, saleVars, stockVars, creditVars, eventVars
<1>o. call[c].outcome \in VoidResult
  BY DEF PrivilegedTypeOK, Call
<1>1. CASE Begin(c)
  BY <1>1, <1>g, <1>s DEF Begin, PrivilegedTypeOK, VoidResult
<1>2. CASE Resume(c)
  BY <1>2, <1>g, <1>s DEF Resume, PrivilegedTypeOK, VoidResult
<1>3. CASE ConsumeApproval(c)
  <2>1. call' \in [Calls -> Call]
    BY <1>3, <1>g DEF ConsumeApproval, VoidResult
  <2>2. nonce' \in [Execs -> Nonce]
    BY <1>3, <1>t DEF ConsumeApproval, PrivilegedTypeOK, Nonce, VoidResult
  <2>3. order' \in [Orders -> OrderDoc]
    BY <1>3, <1>t, <1>v, PatchType DEF ConsumeApproval, StoreTypeOK
  <2>4. published' \subseteq Event /\ undelivered' \subseteq published'
    BY <1>3, <1>t, PublishType DEF ConsumeApproval, StoreTypeOK, eventVars
  <2> QED
    BY <1>3, <2>1, <2>2, <2>3, <2>4
    DEF ConsumeApproval, StoreTypeOK, PrivilegedTypeOK, saleVars, stockVars, creditVars
<1>4. CASE ConsumeRefused(c)
  BY <1>4, <1>r, <1>s DEF ConsumeRefused, PrivilegedTypeOK
<1>5. CASE Decide(c)
  BY <1>5, <1>g, <1>r, <1>s DEF Decide, PrivilegedTypeOK, VoidResult
<1>6. CASE Execute(c)
  <2>1. VoidOutcome(Target(c), CallExec[c]) \in VoidResult
    BY DEF VoidOutcome, VoidResult, VoidNoop
  <2>2. call' \in [Calls -> Call]
    BY <1>6, <1>g, <2>1 DEF Execute
  <2>3. CASE VoidWrite(Target(c), CallExec[c]) /\ Publish(Target(c), {})
    BY <1>6, <1>t, <2>2, <2>3, VoidWriteType, PublishType
    DEF Execute, StoreTypeOK, PrivilegedTypeOK
  <2>4. CASE UNCHANGED storeVars
    BY <1>6, <1>s, <2>2, <2>4 DEF Execute, PrivilegedTypeOK
  <2> QED
    BY <1>6, <2>3, <2>4 DEF Execute
<1>7. CASE Confirm(c)
  BY <1>7, <1>g, <1>r, <1>s, <1>o DEF Confirm, PrivilegedTypeOK, VoidResult
<1>8. CASE Attribute(c)
  <2>1. order' \in [Orders -> OrderDoc]
    BY <1>8, <1>t, <1>v, PatchType DEF Attribute
  <2>2. call' \in [Calls -> Call]
    BY <1>8, <1>g, <1>o DEF Attribute
  <2> QED
    BY <1>8, <1>t, <2>1, <2>2, PublishType
    DEF Attribute, StoreTypeOK, PrivilegedTypeOK, saleVars, stockVars, creditVars
<1>9. CASE MarkCompleted(c)
  <2>1. nonce' \in [Execs -> Nonce]
    BY <1>9, <1>t, <1>o DEF MarkCompleted, PrivilegedTypeOK, Nonce
  <2> QED
    BY <1>9, <1>r, <1>s, <2>1 DEF MarkCompleted, PrivilegedTypeOK
<1>10. CASE CrashCall(c)
  BY <1>10, <1>r, <1>s DEF CrashCall, PrivilegedTypeOK
<1> QED
  BY <1>1, <1>2, <1>3, <1>4, <1>5, <1>6, <1>7, <1>8, <1>9, <1>10 DEF Continue

-----------------------------------------------------------------------------
(* The steps of a return.                                                  *)
LEMMA RefundType ==
  ASSUME NEW o \in Orders, NEW cum \in Nat
  PROVE  CumulativeRefund(o, cum) \in Int
<1> DEFINE num == 2 * Share[o] * cum + Qty[o]
           den == 2 * Qty[o]
<1>1. Share[o] \in Nat /\ Qty[o] \in Nat \ {0}
  OBVIOUS
<1>2. Share[o] * cum \in Nat
  BY <1>1
<1>3. num \in Nat /\ den \in Nat \ {0}
  BY <1>1, <1>2
<1>4. num \div den \in Int
  <2> HIDE DEF num, den
  <2> QED
    BY <1>3
<1> QED
  BY <1>4 DEF CumulativeRefund

LEMMA ReturnStepType ==
  ASSUME TypeOK, ReturnNext, UNCHANGED <<triggerVars, privilegedVars>>
  PROVE  TypeOK'
<1> USE ReturnAssumption DEF TypeOK
<1>0. TriggerTypeOK' /\ PrivilegedTypeOK'
  BY DEF TriggerTypeOK, PrivilegedTypeOK, triggerVars, privilegedVars
<1> SUFFICES ASSUME NEW a \in Attempts,
                    QuoteReturn(a) \/ CommitReturn(a) \/ ResolveAttempt(a)
             PROVE  StoreTypeOK' /\ ReturnTypeOK'
  BY <1>0 DEF ReturnNext
<1> DEFINE o == AttemptOrder[a]
           q == AttemptQty[a]
<1>t. /\ o \in Orders /\ q \in Nat /\ q # 0
      /\ attempt[a] \in Attempt /\ ledger[o] \in Ledger /\ moves[o] \in Movements
  BY DEF StoreTypeOK, ReturnTypeOK
<1>l. ledger[o].count \in Nat /\ ledger[o].returned \in Nat /\ ledger[o].refunded \in Int
  BY <1>t DEF Ledger
<1>s. UNCHANGED storeVars => StoreTypeOK'
  BY DEF StoreTypeOK, storeVars, saleVars, stockVars, creditVars, eventVars
<1> HIDE DEF o, q
<1>1. CASE QuoteReturn(a)
  <2> DEFINE quote == RefundFor(o, ledger[o].returned, q)
  <2>1. quote \in Int
    BY <1>t, <1>l, RefundType DEF RefundFor
  <2>2. attempt' = [attempt EXCEPT ![a] = [attempt[a] EXCEPT !.status = "quoted", !.quote = quote]]
    BY <1>1 DEF QuoteReturn, o, q
  <2> HIDE DEF quote
  <2>3. [attempt[a] EXCEPT !.status = "quoted", !.quote = quote] \in Attempt
    BY <1>t, <2>1 DEF Attempt
  <2> QED
    BY <1>1, <1>s, <2>2, <2>3 DEF QuoteReturn, ReturnTypeOK
<1>2. CASE CommitReturn(a)
  <2>1. PICK put \in [Lots -> 0..q], fresh \in [Lots -> 0..q] :
          /\ received' = [l \in Lots |-> received[l] + fresh[l]]
          /\ remaining' = [l \in Lots |-> remaining[l] + Gain(put, fresh, l)]
          /\ depleted' = [l \in Lots |-> StillDepleted(l, Gain(put, fresh, l))]
          /\ returnedFrom' = [returnedFrom EXCEPT ![o] = [l \in Lots |-> returnedFrom[o][l] + put[l]]]
    BY <1>2 DEF CommitReturn, o, q
  <2>2. \A l \in Lots : Gain(put, fresh, l) \in Nat
    BY <1>t DEF Gain
  <2>3. /\ received' \in [Lots -> Nat] /\ remaining' \in [Lots -> Nat]
        /\ depleted' \in [Lots -> BOOLEAN]
    BY <1>t, <2>1, <2>2 DEF StoreTypeOK, StillDepleted
  <2>4. returnedFrom' \in [Orders -> [Lots -> Nat]]
    <3>1. [l \in Lots |-> returnedFrom[o][l] + put[l]] \in [Lots -> Nat]
      BY <1>t DEF ReturnTypeOK
    <3> QED
      BY <1>t, <2>1, <3>1 DEF ReturnTypeOK
  <2>5. moves' \in [Orders -> Movements]
    <3>1. [moves[o] EXCEPT !.return = moves[o].return + q] \in Movements
      BY <1>t DEF Movements
    <3> QED
      BY <1>2, <1>t, <3>1 DEF CommitReturn, StoreTypeOK, o, q
  <2>6. attempt[a].quote \in Int
    BY <1>t DEF Attempt
  <2>7. ledger' \in [Orders -> Ledger]
    <3>1. [count |-> ledger[o].count + 1, returned |-> ledger[o].returned + q,
           refunded |-> ledger[o].refunded + attempt[a].quote] \in Ledger
      BY <1>t, <1>l, <2>6 DEF Ledger
    <3> QED
      BY <1>2, <1>t, <3>1 DEF CommitReturn, StoreTypeOK, o, q
  <2>8. attempt' \in [Attempts -> Attempt]
    <3>1. [attempt[a] EXCEPT !.status = "committed", !.refund = attempt[a].quote] \in Attempt
      BY <1>t, <2>6 DEF Attempt
    <3> QED
      BY <1>2, <3>1 DEF CommitReturn, ReturnTypeOK
  <2>9. stock' \in Int
    BY <1>2, <1>t DEF CommitReturn, StoreTypeOK, o, q
  <2> QED
    BY <1>2, <2>3, <2>4, <2>5, <2>7, <2>8, <2>9
    DEF CommitReturn, StoreTypeOK, ReturnTypeOK, creditVars, eventVars
<1>3. CASE ResolveAttempt(a)
  <2>1. [attempt[a] EXCEPT !.status = "fenced"] \in Attempt
    BY <1>t DEF Attempt
  <2> QED
    BY <1>3, <1>s, <2>1 DEF ResolveAttempt, ReturnTypeOK
<1> QED
  BY <1>1, <1>2, <1>3

-----------------------------------------------------------------------------
LEMMA InitType == Init => TypeOK
<1> SUFFICES ASSUME Init PROVE TypeOK
  OBVIOUS
<1>1. StoreTypeOK
  <2>1. Units(InitialLots) \in Nat
    <3>1. IsFiniteSet(Lots)
      BY StoreAssumption, FS_Interval DEF Lots
    <3>2. \A l \in Lots : InitialLots[l] \in Nat
      BY StoreAssumption
    <3>3. DOMAIN InitialLots = Lots
      BY StoreAssumption
    <3> QED
      BY <3>1, <3>2, <3>3, SumNat DEF Units, SumFunction
  <2> QED
    BY <2>1 DEF Init, StoreInit, StoreTypeOK, Document, OrderDoc, Movements, Ledger
<1>2. TriggerTypeOK /\ PrivilegedTypeOK
  BY DEF Init, TriggerInit, TriggerTypeOK, PrivilegedInit, PrivilegedTypeOK, Nonce, Call, VoidResult
<1>3. ReturnTypeOK
  BY DEF Init, ReturnInit, ReturnTypeOK, Attempt
<1> QED
  BY <1>1, <1>2, <1>3 DEF TypeOK

LEMMA NextType == TypeOK /\ [Next]_vars => TypeOK'
<1> SUFFICES ASSUME TypeOK, [Next]_vars PROVE TypeOK'
  OBVIOUS
<1>1. CASE UNCHANGED vars
  BY <1>1 DEF TypeOK, StoreTypeOK, TriggerTypeOK, PrivilegedTypeOK, ReturnTypeOK, vars, storeVars,
              saleVars, stockVars, creditVars, eventVars, triggerVars, privilegedVars, returnVars
<1> QED
  BY <1>1, TriggerStepType, PrivilegedStepType, ReturnStepType DEF Next

(* Every reachable state has the documents the code expects to read: no    *)
(* lot holds fewer than no units, no attempt count is negative and no      *)
(* status is outside the ones the handlers switch on.                      *)
THEOREM TypeCorrect == Spec => []TypeOK
BY InitType, NextType, PTL DEF Spec

-----------------------------------------------------------------------------
(* A waiting sale is carried by an event or an invocation, as long as no   *)
(* invocation dies: the code has no other way to take it up again.         *)
Pending(o) == order[o].reconcileStatus = "pending_reconcile"
Carried(o) == <<o, "settle">> \in undelivered \/ throwing[o] > 0

LEMMA CarriedInit == Init => PendingIsCarried
BY DEF Init, StoreInit, Document, PendingIsCarried

(* A write of a document that answers no settle event keeps every waiting  *)
(* sale carried, if it re-arms no sale it publishes no event for.          *)
LEMMA CarriedWrite ==
  ASSUME TypeOK, PendingIsCarried, NEW o \in Orders, NEW new, NEW handled,
         order' = [order EXCEPT ![o] = new], Publish(o, handled),
         \A p \in Orders \ {o} : <<p, "settle">> \notin handled,
         throwing' = throwing,
         \/ new.reconcileStatus # "pending_reconcile"
         \/ ~new.voidRequested
         \/ new.reconcileStatus = order[o].reconcileStatus /\ <<o, "settle">> \notin handled
  PROVE  PendingIsCarried'
<1> SUFFICES ASSUME NEW p \in Orders, Pending(p)'
             PROVE  Carried(p)'
  BY DEF PendingIsCarried, Pending, Carried
<1>1. order'[o] = new /\ \A r \in Orders \ {o} : order'[r] = order[r]
  BY DEF TypeOK, StoreTypeOK
<1>2. CASE p # o
  BY <1>1, <1>2 DEF PendingIsCarried, Pending, Carried, Publish
<1>3. CASE p = o /\ ~new.voidRequested
  BY <1>1, <1>3 DEF Pending, Carried, Publish, Payload
<1>4. CASE p = o /\ new.voidRequested
  BY <1>1, <1>4 DEF PendingIsCarried, Pending, Carried, Publish
<1> QED
  BY <1>2, <1>3, <1>4

LEMMA CarriedVoid ==
  ASSUME TypeOK, PendingIsCarried, NEW o \in Orders, NEW e \in Execs \cup {NoExec}, NEW handled,
         VoidWrite(o, e), Publish(o, handled), handled \subseteq {<<o, "void">>},
         throwing' = throwing
  PROVE  PendingIsCarried'
<1>0. order[o] \in OrderDoc
  BY DEF TypeOK, StoreTypeOK
<1>1. PICK new : /\ order' = [order EXCEPT ![o] = new]
                 /\ new.reconcileStatus \in {order[o].reconcileStatus, "settled"}
  <2>1. CASE VoidTombstone(o, e)
    <3> DEFINE new == [order[o] EXCEPT !.status = "voided", !.reconcileStatus = "settled",
                         !.privilegedVoidExecutionId = Correlation(o, e)]
    <3>1. order' = [order EXCEPT ![o] = new] /\ new.reconcileStatus = "settled"
      BY <1>0, <2>1 DEF VoidTombstone, OrderDoc
    <3> QED
      BY <3>1
  <2>2. CASE VoidAnomaly(o, e)
    <3> DEFINE new == [order[o] EXCEPT !.voidAnomaly =
                         IF canonical[o] = "absent" THEN "missing_canonical"
                                                    ELSE "canonical_ineligible"]
    <3>1. order' = [order EXCEPT ![o] = new] /\ new.reconcileStatus = order[o].reconcileStatus
      BY <1>0, <2>2 DEF VoidAnomaly, OrderDoc
    <3> QED
      BY <3>1
  <2>3. CASE VoidApply(o, e)
    <3> DEFINE new == [order[o] EXCEPT !.status = "voided", !.voidReconciled = TRUE,
                         !.privilegedVoidExecutionId = Correlation(o, e)]
    <3>1. order' = [order EXCEPT ![o] = new] /\ new.reconcileStatus = order[o].reconcileStatus
      BY <1>0, <2>3 DEF VoidApply, OrderDoc
    <3> QED
      BY <3>1
  <2> QED
    BY <2>1, <2>2, <2>3 DEF VoidWrite
<1> QED
  BY <1>1, CarriedWrite

LEMMA CarriedStep ==
  ASSUME HandlerCrash = FALSE, TypeOK, PendingIsCarried, [Next]_vars
  PROVE  PendingIsCarried'
<1> USE DEF TypeOK
<1>0. \A o \in Orders : order[o] \in OrderDoc
  BY DEF StoreTypeOK
<1>1. CASE UNCHANGED <<order, undelivered, throwing>>
  BY <1>1 DEF PendingIsCarried
<1>2. ASSUME NEW o \in Orders, SubmitAsyncOrder(o)
      PROVE  PendingIsCarried'
  <2>1. ~Document("pending_reconcile").voidRequested
    BY DEF Document
  <2> QED
    BY <1>2, <2>1, CarriedWrite DEF SubmitAsyncOrder, triggerVars
<1>3. ASSUME NEW o \in Orders, LegacyVoidFlag(o)
      PROVE  PendingIsCarried'
  <2> DEFINE new == [order[o] EXCEPT !.voidRequested = TRUE, !.status = "voided", !.voidedBy = TRUE]
  <2>1. new.reconcileStatus = order[o].reconcileStatus
    BY <1>0 DEF OrderDoc
  <2>2. order' = [order EXCEPT ![o] = new] /\ Publish(o, {}) /\ throwing' = throwing
    BY <1>3 DEF LegacyVoidFlag, triggerVars
  <2> HIDE DEF new
  <2> QED
    BY <2>1, <2>2, CarriedWrite
<1>4. ASSUME NEW o \in Orders, SettleSale(o)
      PROVE  PendingIsCarried'
  <2> DEFINE new == [order[o] EXCEPT !.reconcileStatus = "settled", !.status = "open"]
  <2>1. new.reconcileStatus = "settled"
    BY <1>0 DEF OrderDoc
  <2>2. order' = [order EXCEPT ![o] = new] /\ Publish(o, {<<o, "settle">>}) /\ throwing' = throwing
    BY <1>4 DEF SettleSale, triggerVars
  <2> HIDE DEF new
  <2> QED
    BY <2>1, <2>2, CarriedWrite
<1>5. ASSUME NEW o \in Orders, SettleNoop(o) \/ SettleThrows(o)
      PROVE  PendingIsCarried'
  <2>1. order' = order /\ undelivered' = undelivered \ {<<o, "settle">>}
    BY <1>5 DEF SettleNoop, SettleThrows, Consume
  <2>2. throwing \in [Orders -> Nat]
    BY DEF TriggerTypeOK
  <2>3. \/ order[o].reconcileStatus # "pending_reconcile" /\ throwing' = throwing
        \/ throwing' = [throwing EXCEPT ![o] = throwing[o] + 1]
    BY <1>5 DEF SettleNoop, SettleThrows, triggerVars
  <2> QED
    BY <2>1, <2>2, <2>3 DEF PendingIsCarried
<1>6. ASSUME NEW o \in Orders, PatchException(o)
      PROVE  PendingIsCarried'
  <2> DEFINE new == [order[o] EXCEPT !.reconcileStatus = "exception",
                       !.reconcileAttempts = order[o].reconcileAttempts + 1]
  <2>1. new.reconcileStatus = "exception"
    BY <1>0 DEF OrderDoc
  <2>2. order' = [order EXCEPT ![o] = new] /\ Publish(o, {})
    BY <1>6 DEF PatchException
  <2>3. order'[o].reconcileStatus = "exception" /\ \A p \in Orders \ {o} : order'[p] = order[p]
    BY <2>1, <2>2 DEF StoreTypeOK
  <2>4. \A p \in Orders \ {o} : throwing'[p] = throwing[p]
    BY <1>6 DEF PatchException, TriggerTypeOK
  <2> QED
    BY <2>2, <2>3, <2>4 DEF PendingIsCarried, Publish
<1>7. ASSUME NEW o \in Orders, RetryReconcile(o)
      PROVE  PendingIsCarried'
  <2> DEFINE new == [order[o] EXCEPT !.reconcileStatus = "pending_reconcile"]
  <2>1. ~new.voidRequested
    BY <1>0, <1>7 DEF RetryReconcile, Retryable, OrderDoc
  <2>2. order' = [order EXCEPT ![o] = new] /\ Publish(o, {}) /\ throwing' = throwing
    BY <1>7 DEF RetryReconcile, triggerVars
  <2> HIDE DEF new
  <2> QED
    BY <2>1, <2>2, CarriedWrite
<1>8. ASSUME NEW o \in Orders, DeliverVoid(o)
      PROVE  PendingIsCarried'
  BY <1>8, CarriedVoid DEF DeliverVoid, Consume, PendingIsCarried, triggerVars
<1>9. CASE TriggerNext
  BY <1>1, <1>2, <1>3, <1>4, <1>5, <1>6, <1>7, <1>8, <1>9
  DEF TriggerNext, Settle, CrashBeforePatch, ReceiveCreditPayment, eventVars
<1>10. ASSUME NEW c \in Calls, ConsumeApproval(c) \/ Attribute(c), throwing' = throwing
       PROVE  PendingIsCarried'
  <2> USE PrivilegedAssumption
  <2>0. Target(c) \in Orders
    BY DEF Target
  <2> DEFINE new == [order[Target(c)] EXCEPT !.voidedBy = TRUE]
  <2>1. new.reconcileStatus = order[Target(c)].reconcileStatus
    BY <1>0, <2>0 DEF OrderDoc
  <2>2. \/ UNCHANGED <<order, eventVars>>
        \/ order' = [order EXCEPT ![Target(c)] = new] /\ Publish(Target(c), {})
    BY <1>10 DEF ConsumeApproval, Attribute
  <2> HIDE DEF new
  <2> QED
    BY <1>1, <1>10, <2>0, <2>1, <2>2, CarriedWrite DEF eventVars
<1>11. ASSUME NEW c \in Calls, Execute(c), throwing' = throwing
       PROVE  PendingIsCarried'
  <2> USE PrivilegedAssumption
  <2>1. Target(c) \in Orders /\ CallExec[c] \in Execs
    BY DEF Target
  <2> QED
    BY <1>1, <1>11, <2>1, CarriedVoid DEF Execute, storeVars, eventVars
<1>12. CASE PrivilegedNext /\ UNCHANGED triggerVars
  BY <1>1, <1>10, <1>11, <1>12
  DEF PrivilegedNext, Begin, Resume, Continue, CrashCall, ConsumeRefused, Decide, Confirm,
      MarkCompleted, storeVars, eventVars, triggerVars
<1>13. CASE ReturnNext /\ UNCHANGED triggerVars
  BY <1>1, <1>13
  DEF ReturnNext, QuoteReturn, CommitReturn, ResolveAttempt, storeVars, eventVars, triggerVars
<1> QED
  BY <1>1, <1>9, <1>12, <1>13 DEF Next, vars, storeVars, eventVars, triggerVars

(* A sale that waits to be settled has an event or an invocation that will *)
(* settle it or mark it failed, as long as no invocation of the trigger    *)
(* dies; with HandlerCrash it is lost, and nothing takes it up again.      *)
THEOREM PendingStaysCarried ==
  ASSUME HandlerCrash = FALSE
  PROVE  Spec => []PendingIsCarried
<1>1. TypeOK /\ PendingIsCarried /\ [Next]_vars => PendingIsCarried'
  BY CarriedStep
<1> QED
  BY <1>1, CarriedInit, TypeCorrect, PTL DEF Spec

-----------------------------------------------------------------------------
(* The document of a sale that was never submitted is the empty one, and a *)
(* named execution has voided its sale.                                    *)
FreshOpen(doc) == doc.reconcileStatus = "absent" => doc.status = "open"
NamedVoided(doc) == doc.privilegedVoidExecutionId # NoExec => doc.status = "voided"

DocInv == \A o \in Orders : FreshOpen(order[o]) /\ NamedVoided(order[o])

(* What any write of a document preserves.                                 *)
Keeps(doc, new) ==
  /\ new \in OrderDoc /\ FreshOpen(new) /\ NamedVoided(new)
  /\ doc.privilegedVoidExecutionId # NoExec =>
       new.privilegedVoidExecutionId = doc.privilegedVoidExecutionId

(* A write of one document that leaves the canonical order, the movements, *)
(* the ledger and the stock alone, and at most closes the sale.            *)
Patch(o) ==
  /\ \E new \in OrderDoc : /\ Keeps(order[o], new)
                           /\ new.status \in {order[o].status, "voided"}
                           /\ order' = [order EXCEPT ![o] = new]
  /\ UNCHANGED <<canonical, moves, ledger, stock>>

(* A void that finds the sale unsettled, or has nothing to void.           *)
LEMMA VoidKinds ==
  ASSUME NEW o \in Orders, NEW e \in Execs \cup {NoExec}, StoreTypeOK, DocInv, VoidWrite(o, e)
  PROVE  Patch(o) \/ VoidApply(o, e)
<1>1. order[o] \in OrderDoc /\ FreshOpen(order[o]) /\ NamedVoided(order[o])
  BY DEF StoreTypeOK, DocInv
<1>2. CASE VoidTombstone(o, e)
  <2> DEFINE doc == [order[o] EXCEPT !.status = "voided", !.reconcileStatus = "settled",
                       !.privilegedVoidExecutionId = Correlation(o, e)]
  <2>0. /\ Correlation(o, e) \in Execs \cup {NoExec}
        /\ order[o].privilegedVoidExecutionId \in {NoExec, Correlation(o, e)}
    BY <1>1, <1>2 DEF VoidTombstone, VoidOutcome, IsAlreadyCanonicallyVoided, NamedVoided,
                      Correlation, OrderDoc
  <2>1. Keeps(order[o], doc) /\ doc.status = "voided"
    <3> HIDE DEF Correlation
    <3> QED
      BY <1>1, <2>0 DEF OrderDoc, Keeps, FreshOpen, NamedVoided
  <2>2. order' = [order EXCEPT ![o] = doc]
    BY <1>2 DEF VoidTombstone
  <2> QED
    BY <1>2, <2>1, <2>2 DEF VoidTombstone, Patch, Keeps, saleVars, stockVars
<1>3. CASE VoidAnomaly(o, e)
  <2> DEFINE doc == [order[o] EXCEPT !.voidAnomaly =
                       IF canonical[o] = "absent" THEN "missing_canonical"
                                                  ELSE "canonical_ineligible"]
  <2>1. Keeps(order[o], doc) /\ doc.status = order[o].status
    BY <1>1 DEF OrderDoc, Keeps, FreshOpen, NamedVoided
  <2>2. order' = [order EXCEPT ![o] = doc]
    BY <1>3 DEF VoidAnomaly
  <2> QED
    BY <1>3, <2>1, <2>2 DEF VoidAnomaly, Patch, Keeps, saleVars, stockVars
<1> QED
  BY <1>2, <1>3 DEF VoidWrite

(* Every step leaves the effects alone, patches a document, or is one of   *)
(* the three transactions that move units.                                 *)
LEMMA PrivilegedKinds ==
  ASSUME TypeOK, DocInv, PrivilegedNext
  PROVE  \/ UNCHANGED <<order, canonical, moves, ledger, stock>>
         \/ \E o \in Orders : Patch(o)
         \/ \E o \in Orders, e \in Execs : VoidApply(o, e)
<1> USE PrivilegedAssumption DEF TypeOK
<1>1. PICK c \in Calls : Begin(c) \/ Resume(c) \/ Continue(c) \/ CrashCall(c)
  BY DEF PrivilegedNext
<1> DEFINE o == Target(c)
<1>2. o \in Orders /\ CallExec[c] \in Execs
  BY DEF Target
<1>3. order[o] \in OrderDoc /\ FreshOpen(order[o]) /\ NamedVoided(order[o])
  BY <1>2 DEF StoreTypeOK, DocInv
<1>4. ASSUME order' = [order EXCEPT ![o] = [@ EXCEPT !.voidedBy = TRUE]],
             UNCHANGED <<canonical, moves, ledger, stock>>
      PROVE  Patch(o)
  <2>1. Keeps(order[o], [order[o] EXCEPT !.voidedBy = TRUE])
    BY <1>3 DEF OrderDoc, Keeps, FreshOpen, NamedVoided
  <2>2. [order[o] EXCEPT !.voidedBy = TRUE].status = order[o].status
    BY <1>3 DEF OrderDoc
  <2> QED
    BY <1>4, <2>1, <2>2 DEF Patch, Keeps
<1>5. ASSUME Execute(c)
      PROVE  \/ UNCHANGED <<order, canonical, moves, ledger, stock>>
             \/ Patch(o) \/ VoidApply(o, CallExec[c])
  BY <1>2, <1>5, VoidKinds DEF Execute, storeVars, saleVars, stockVars
<1> QED
  BY <1>1, <1>2, <1>4, <1>5
  DEF Begin, Resume, Continue, CrashCall, ConsumeApproval, ConsumeRefused, Decide, Confirm,
      Attribute, MarkCompleted, storeVars, saleVars, stockVars

LEMMA TriggerKinds ==
  ASSUME TypeOK, DocInv, TriggerNext
  PROVE  \/ UNCHANGED <<order, canonical, moves, ledger, stock>>
         \/ \E o \in Orders : Patch(o) \/ SettleSale(o) \/ VoidApply(o, NoExec)
<1> USE DEF TypeOK
<1>1. CASE \E amount \in Payments : ReceiveCreditPayment(amount)
  BY <1>1 DEF ReceiveCreditPayment, saleVars, stockVars
<1>2. SUFFICES ASSUME NEW o \in Orders,
                      \/ SubmitAsyncOrder(o) \/ LegacyVoidFlag(o) \/ SettleNoop(o)
                      \/ SettleThrows(o) \/ PatchException(o) \/ CrashBeforePatch(o)
                      \/ DeliverVoid(o) \/ RetryReconcile(o)
               PROVE  \/ UNCHANGED <<order, canonical, moves, ledger, stock>>
                      \/ Patch(o) \/ VoidApply(o, NoExec)
  BY <1>1 DEF TriggerNext, Settle
<1>3. order[o] \in OrderDoc /\ FreshOpen(order[o]) /\ NamedVoided(order[o])
  BY DEF StoreTypeOK, DocInv
<1>4. ASSUME NEW doc, Keeps(order[o], doc), order' = [order EXCEPT ![o] = doc],
             doc.status \in {order[o].status, "voided"},
             UNCHANGED <<saleVars, stockVars>>
      PROVE  Patch(o)
  BY <1>4 DEF Patch, Keeps, saleVars, stockVars
<1>5. CASE SubmitAsyncOrder(o)
  <2>1. order[o].status = "open" /\ order[o].privilegedVoidExecutionId = NoExec
    BY <1>3, <1>5 DEF SubmitAsyncOrder, Exists, FreshOpen, NamedVoided
  <2>2. Keeps(order[o], Document("pending_reconcile"))
    BY <2>1 DEF Keeps, FreshOpen, NamedVoided, Document, OrderDoc
  <2>3. Document("pending_reconcile").status = "open"
    BY DEF Document
  <2> QED
    BY <1>4, <1>5, <2>1, <2>2, <2>3 DEF SubmitAsyncOrder
<1>6. CASE LegacyVoidFlag(o)
  <2> DEFINE doc == [order[o] EXCEPT !.voidRequested = TRUE, !.status = "voided", !.voidedBy = TRUE]
  <2>1. Keeps(order[o], doc) /\ doc.status = "voided"
    BY <1>3, <1>6 DEF OrderDoc, Keeps, FreshOpen, NamedVoided, LegacyVoidFlag, Exists
  <2>2. order' = [order EXCEPT ![o] = doc] /\ UNCHANGED <<saleVars, stockVars>>
    BY <1>6 DEF LegacyVoidFlag
  <2> HIDE DEF doc
  <2> QED
    BY <1>4, <2>1, <2>2
<1>7. CASE PatchException(o)
  <2> DEFINE doc == [order[o] EXCEPT !.reconcileStatus = "exception",
                       !.reconcileAttempts = order[o].reconcileAttempts + 1]
  <2>0. order[o].reconcileAttempts + 1 \in Nat
    BY <1>3 DEF OrderDoc
  <2>1. Keeps(order[o], doc) /\ doc.status = order[o].status
    BY <1>3, <2>0 DEF OrderDoc, Keeps, FreshOpen, NamedVoided
  <2>2. order' = [order EXCEPT ![o] = doc] /\ UNCHANGED <<saleVars, stockVars>>
    BY <1>7 DEF PatchException
  <2> HIDE DEF doc
  <2> QED
    BY <1>4, <2>1, <2>2
<1>8. CASE RetryReconcile(o)
  <2> DEFINE doc == [order[o] EXCEPT !.reconcileStatus = "pending_reconcile"]
  <2>1. Keeps(order[o], doc) /\ doc.status = order[o].status
    BY <1>3 DEF OrderDoc, Keeps, FreshOpen, NamedVoided
  <2>2. order' = [order EXCEPT ![o] = doc] /\ UNCHANGED <<saleVars, stockVars>>
    BY <1>8 DEF RetryReconcile
  <2> HIDE DEF doc
  <2> QED
    BY <1>4, <2>1, <2>2
<1>9. CASE DeliverVoid(o)
  BY <1>9, VoidKinds DEF DeliverVoid, saleVars, stockVars
<1> QED
  BY <1>2, <1>5, <1>6, <1>7, <1>8, <1>9
  DEF SettleNoop, SettleThrows, CrashBeforePatch, storeVars, saleVars, stockVars

LEMMA StepKinds ==
  ASSUME TypeOK, DocInv, Next
  PROVE  \/ UNCHANGED <<order, canonical, moves, ledger, stock>>
         \/ \E o \in Orders : Patch(o) \/ SettleSale(o)
         \/ \E o \in Orders, e \in Execs \cup {NoExec} : VoidApply(o, e)
         \/ \E a \in Attempts : CommitReturn(a)
<1>1. ASSUME ReturnNext
      PROVE  \/ UNCHANGED <<order, canonical, moves, ledger, stock>>
             \/ \E a \in Attempts : CommitReturn(a)
  BY <1>1 DEF ReturnNext, QuoteReturn, ResolveAttempt, storeVars, saleVars, stockVars
<1> QED
  BY <1>1, TriggerKinds, PrivilegedKinds DEF Next

-----------------------------------------------------------------------------
(* The three transactions that move units, each on the documents of its    *)
(* own sale.                                                               *)
LEMMA SettleSaleWrites ==
  ASSUME NEW o \in Orders, TypeOK, DocInv, SettleSale(o)
  PROVE  /\ canonical[o] = "absent"
         /\ order[o].status = "open"
         /\ \E new \in OrderDoc : /\ Keeps(order[o], new)
                                  /\ new.status = "open"
                                  /\ order' = [order EXCEPT ![o] = new]
         /\ canonical' = [canonical EXCEPT ![o] = "completed"]
         /\ moves' = [moves EXCEPT ![o] = [moves[o] EXCEPT !.sale = moves[o].sale + Qty[o]]]
         /\ stock' = stock - Qty[o]
         /\ ledger' = ledger
<1> DEFINE new == [order[o] EXCEPT !.reconcileStatus = "settled", !.status = "open"]
<1>1. order[o] \in OrderDoc /\ FreshOpen(order[o]) /\ NamedVoided(order[o])
  BY DEF TypeOK, StoreTypeOK, DocInv
<1>2. canonical[o] = "absent" /\ order[o].status # "voided"
  BY DEF SettleSale, Settleable, SourceValid
<1>3. order[o].status = "open" /\ order[o].privilegedVoidExecutionId = NoExec
  BY <1>1, <1>2 DEF OrderDoc, NamedVoided
<1>4. new \in OrderDoc /\ Keeps(order[o], new) /\ new.status = "open"
  BY <1>1, <1>3 DEF OrderDoc, Keeps, FreshOpen, NamedVoided
<1>5. order' = [order EXCEPT ![o] = new]
  BY DEF SettleSale
<1> HIDE DEF new
<1> QED
  BY <1>2, <1>3, <1>4, <1>5 DEF SettleSale

LEMMA VoidApplyWrites ==
  ASSUME NEW o \in Orders, NEW e \in Execs \cup {NoExec}, TypeOK, DocInv, VoidApply(o, e)
  PROVE  /\ Sold(o)
         /\ ~HasReturn(o)
         /\ \E new \in OrderDoc : /\ Keeps(order[o], new)
                                  /\ order' = [order EXCEPT ![o] = new]
         /\ canonical' = [canonical EXCEPT ![o] = "voided"]
         /\ moves' = [moves EXCEPT ![o] = [moves[o] EXCEPT !.void = moves[o].void + Qty[o]]]
         /\ stock' = stock + Qty[o]
         /\ ledger' = ledger
<1> DEFINE new == [order[o] EXCEPT !.status = "voided", !.voidReconciled = TRUE,
                     !.privilegedVoidExecutionId = Correlation(o, e)]
<1>1. order[o] \in OrderDoc /\ FreshOpen(order[o]) /\ NamedVoided(order[o])
  BY DEF TypeOK, StoreTypeOK, DocInv
<1>2. Sold(o) /\ ~HasReturn(o) /\ order[o].reconcileStatus # "absent"
  BY DEF VoidApply, VoidOutcome, Sold
<1>3. /\ Correlation(o, e) \in Execs \cup {NoExec}
      /\ order[o].privilegedVoidExecutionId \in {NoExec, Correlation(o, e)}
  BY <1>1 DEF VoidApply, VoidOutcome, IsAlreadyCanonicallyVoided, NamedVoided, Correlation, OrderDoc
<1>4. new \in OrderDoc /\ Keeps(order[o], new)
  <2> HIDE DEF Correlation
  <2> QED
    BY <1>1, <1>2, <1>3 DEF OrderDoc, Keeps, FreshOpen, NamedVoided
<1>5. order' = [order EXCEPT ![o] = new]
  BY DEF VoidApply
<1> HIDE DEF new
<1> QED
  BY <1>2, <1>4, <1>5 DEF VoidApply

LEMMA CommitReturnWrites ==
  ASSUME NEW a \in Attempts, TypeOK, CommitReturn(a)
  PROVE  \E o \in Orders, q \in Nat \ {0} :
           /\ Returnable(o)
           /\ ledger[o].returned + q <= Qty[o]
           /\ attempt[a].quote = RefundFor(o, ledger[o].returned, q)
           /\ order' = order /\ canonical' = canonical
           /\ moves' = [moves EXCEPT ![o] = [moves[o] EXCEPT !.return = moves[o].return + q]]
           /\ stock' = stock + q
           /\ ledger' = [ledger EXCEPT ![o] =
                [count |-> ledger[o].count + 1, returned |-> ledger[o].returned + q,
                 refunded |-> ledger[o].refunded + attempt[a].quote]]
<1> USE ReturnAssumption
<1>1. AttemptOrder[a] \in Orders /\ AttemptQty[a] \in Nat \ {0}
  OBVIOUS
<1> QED
  BY <1>1 DEF CommitReturn

LEMMA DocInvInductive ==
  /\ Init => DocInv
  /\ TypeOK /\ DocInv /\ [Next]_vars => DocInv'
<1>1. Init => DocInv
  BY DEF Init, StoreInit, DocInv, FreshOpen, NamedVoided, Document
<1>2. ASSUME TypeOK, DocInv, [Next]_vars
      PROVE  DocInv'
  <2>1. ASSUME NEW o \in Orders, NEW new, Keeps(order[o], new),
               order' = [order EXCEPT ![o] = new]
        PROVE  DocInv'
    BY <1>2, <2>1 DEF DocInv, Keeps, TypeOK, StoreTypeOK
  <2>2. CASE order' = order
    BY <1>2, <2>2 DEF DocInv
  <2>3. ASSUME NEW o \in Orders, Patch(o)
        PROVE  DocInv'
    BY <2>1, <2>3 DEF Patch
  <2>4. ASSUME NEW o \in Orders, SettleSale(o)
        PROVE  DocInv'
    BY <1>2, <2>1, <2>4, SettleSaleWrites
  <2>5. ASSUME NEW o \in Orders, NEW e \in Execs \cup {NoExec}, VoidApply(o, e)
        PROVE  DocInv'
    BY <1>2, <2>1, <2>5, VoidApplyWrites
  <2>6. ASSUME NEW a \in Attempts, CommitReturn(a)
        PROVE  DocInv'
    BY <1>2, <2>2, <2>6, CommitReturnWrites
  <2> QED
    BY <1>2, <2>2, <2>3, <2>4, <2>5, <2>6, StepKinds DEF vars, storeVars
<1> QED
  BY <1>1, <1>2

LEMMA DocCorrect == Spec => [](TypeOK /\ DocInv)
BY InitType, NextType, DocInvInductive, PTL DEF Spec

-----------------------------------------------------------------------------
(* The step of WinnerKept.                                                 *)
WinnerStays(o) ==
  order[o].privilegedVoidExecutionId # NoExec =>
    /\ order'[o].privilegedVoidExecutionId = order[o].privilegedVoidExecutionId
    /\ order'[o].status = "voided"

LEMMA WinnerStep ==
  ASSUME TypeOK, DocInv, [Next]_vars
  PROVE  \A p \in Orders : WinnerStays(p)
<1> USE DEF WinnerStays
<1>1. ASSUME NEW o \in Orders, NEW new, Keeps(order[o], new),
             order' = [order EXCEPT ![o] = new]
      PROVE  \A p \in Orders : WinnerStays(p)
  BY <1>1 DEF DocInv, Keeps, NamedVoided, TypeOK, StoreTypeOK
<1>2. CASE order' = order
  BY <1>2 DEF DocInv, NamedVoided
<1>3. ASSUME NEW o \in Orders, Patch(o)
      PROVE  \A p \in Orders : WinnerStays(p)
  BY <1>1, <1>3 DEF Patch
<1>4. ASSUME NEW o \in Orders, SettleSale(o)
      PROVE  \A p \in Orders : WinnerStays(p)
  BY <1>1, <1>4, SettleSaleWrites
<1>5. ASSUME NEW o \in Orders, NEW e \in Execs \cup {NoExec}, VoidApply(o, e)
      PROVE  \A p \in Orders : WinnerStays(p)
  BY <1>1, <1>5, VoidApplyWrites
<1>6. ASSUME NEW a \in Attempts, CommitReturn(a)
      PROVE  \A p \in Orders : WinnerStays(p)
  BY <1>2, <1>6, CommitReturnWrites
<1> QED
  BY <1>2, <1>3, <1>4, <1>5, <1>6, StepKinds DEF vars, storeVars

(* Once an order names the execution that voided it, it never names        *)
(* another: handleVoidIntent refuses an execution whose sale is voided,    *)
(* and reconcileSale a voided source.                                      *)
THEOREM WinnerIsKept == Spec => WinnerKept
<1>1. TypeOK /\ DocInv /\ [Next]_vars =>
        [\A o \in Orders : order[o].privilegedVoidExecutionId # NoExec =>
           /\ order'[o].privilegedVoidExecutionId = order[o].privilegedVoidExecutionId
           /\ order'[o].status = "voided"]_vars
  BY WinnerStep DEF WinnerStays
<1> QED
  BY <1>1, DocCorrect, PTL DEF Spec, WinnerKept

-----------------------------------------------------------------------------
(* What the documents of a sale say of its units agrees: the canonical     *)
(* order with the movements, the movements with the ledger.                *)
MovesAgree(o) ==
  /\ moves[o].sale = (IF canonical[o] = "absent" THEN 0 ELSE Qty[o])
  /\ moves[o].void = (IF canonical[o] = "voided" THEN Qty[o] ELSE 0)
  /\ moves[o].return = ledger[o].returned

(* Only a sold sale has a return, and it has returned no more than it      *)
(* sold; the refunds of a sale are what its returned units are due.        *)
LedgerSound(o) ==
  /\ HasReturn(o) => Sold(o)
  /\ ~HasReturn(o) => ledger[o].returned = 0
  /\ ledger[o].returned <= Qty[o]
  /\ ledger[o].refunded = CumulativeRefund(o, ledger[o].returned)

EffectInv == \A o \in Orders : MovesAgree(o) /\ LedgerSound(o)

LEMMA EffectInvInit == Init => EffectInv
BY DEF Init, StoreInit, EffectInv, MovesAgree, LedgerSound, HasReturn, CumulativeRefund

LEMMA EffectInvNext == TypeOK /\ DocInv /\ EffectInv /\ [Next]_vars => EffectInv'
<1> SUFFICES ASSUME TypeOK, DocInv, EffectInv, [Next]_vars
             PROVE  EffectInv'
  OBVIOUS
<1> USE DEF TypeOK
<1>m. \A o \in Orders : moves[o] \in Movements /\ ledger[o] \in Ledger /\ Qty[o] \in Nat /\ Qty[o] # 0
  BY DEF StoreTypeOK
<1>0. ASSUME NEW o \in Orders,
             \A p \in Orders \ {o} : /\ canonical'[p] = canonical[p]
                                     /\ moves'[p] = moves[p]
                                     /\ ledger'[p] = ledger[p],
             MovesAgree(o)', LedgerSound(o)'
      PROVE  EffectInv'
  <2> SUFFICES ASSUME NEW p \in Orders \ {o}
               PROVE  MovesAgree(p)' /\ LedgerSound(p)'
    BY <1>0 DEF EffectInv
  <2> QED
    BY <1>0 DEF EffectInv, MovesAgree, LedgerSound, HasReturn, Sold, CumulativeRefund
<1>1. CASE UNCHANGED <<canonical, moves, ledger>>
  BY <1>1 DEF EffectInv, MovesAgree, LedgerSound, HasReturn, Sold, CumulativeRefund
<1>2. ASSUME NEW o \in Orders, SettleSale(o)
      PROVE  EffectInv'
  <2>1. MovesAgree(o) /\ LedgerSound(o) /\ canonical[o] = "absent" /\ ~HasReturn(o)
    BY <1>2, SettleSaleWrites DEF EffectInv, LedgerSound, Sold
  <2>0. /\ canonical' = [canonical EXCEPT ![o] = "completed"] /\ ledger' = ledger
        /\ moves' = [moves EXCEPT ![o] = [moves[o] EXCEPT !.sale = moves[o].sale + Qty[o]]]
    BY <1>2, SettleSaleWrites
  <2>2. /\ canonical'[o] = "completed" /\ ledger' = ledger
        /\ moves'[o] = [moves[o] EXCEPT !.sale = moves[o].sale + Qty[o]]
    BY <2>0 DEF StoreTypeOK
  <2>3. MovesAgree(o)'
    BY <1>m, <2>1, <2>2 DEF MovesAgree, Movements
  <2>4. LedgerSound(o)'
    BY <2>1, <2>2 DEF LedgerSound, HasReturn, Sold, CumulativeRefund
  <2>5. \A p \in Orders \ {o} : canonical'[p] = canonical[p] /\ moves'[p] = moves[p]
    BY <2>0 DEF StoreTypeOK
  <2> QED
    BY <1>0, <2>2, <2>3, <2>4, <2>5
<1>3. ASSUME NEW o \in Orders, NEW e \in Execs \cup {NoExec}, VoidApply(o, e)
      PROVE  EffectInv'
  <2>1. MovesAgree(o) /\ LedgerSound(o) /\ canonical[o] = "completed" /\ ~HasReturn(o)
    BY <1>3, VoidApplyWrites DEF EffectInv, Sold
  <2>0. /\ canonical' = [canonical EXCEPT ![o] = "voided"] /\ ledger' = ledger
        /\ moves' = [moves EXCEPT ![o] = [moves[o] EXCEPT !.void = moves[o].void + Qty[o]]]
    BY <1>3, VoidApplyWrites
  <2>2. /\ canonical'[o] = "voided" /\ ledger' = ledger
        /\ moves'[o] = [moves[o] EXCEPT !.void = moves[o].void + Qty[o]]
    BY <2>0 DEF StoreTypeOK
  <2>3. MovesAgree(o)'
    BY <1>m, <2>1, <2>2 DEF MovesAgree, Movements
  <2>4. LedgerSound(o)'
    BY <2>1, <2>2 DEF LedgerSound, HasReturn, Sold, CumulativeRefund
  <2>5. \A p \in Orders \ {o} : canonical'[p] = canonical[p] /\ moves'[p] = moves[p]
    BY <2>0 DEF StoreTypeOK
  <2> QED
    BY <1>0, <2>2, <2>3, <2>4, <2>5
<1>4. ASSUME NEW a \in Attempts, CommitReturn(a)
      PROVE  EffectInv'
  <2>1. PICK o \in Orders, q \in Nat \ {0} :
           /\ Returnable(o)
           /\ ledger[o].returned + q <= Qty[o]
           /\ attempt[a].quote = RefundFor(o, ledger[o].returned, q)
           /\ canonical' = canonical
           /\ moves' = [moves EXCEPT ![o] = [moves[o] EXCEPT !.return = moves[o].return + q]]
           /\ ledger' = [ledger EXCEPT ![o] =
                [count |-> ledger[o].count + 1, returned |-> ledger[o].returned + q,
                 refunded |-> ledger[o].refunded + attempt[a].quote]]
    BY <1>4, CommitReturnWrites
  <2>2. MovesAgree(o) /\ LedgerSound(o) /\ canonical[o] = "completed"
    BY <2>1 DEF EffectInv, Returnable
  <2>3. /\ moves'[o] = [moves[o] EXCEPT !.return = moves[o].return + q]
        /\ ledger'[o] = [count |-> ledger[o].count + 1, returned |-> ledger[o].returned + q,
                         refunded |-> ledger[o].refunded + attempt[a].quote]
    BY <2>1 DEF StoreTypeOK
  <2>4. /\ ledger'[o].count = ledger[o].count + 1
        /\ ledger'[o].returned = ledger[o].returned + q
        /\ ledger'[o].refunded = ledger[o].refunded + attempt[a].quote
    BY <2>3
  <2>5. MovesAgree(o)'
    BY <1>m, <2>1, <2>2, <2>3, <2>4 DEF MovesAgree, Movements
  <2>6. ledger'[o].refunded = CumulativeRefund(o, ledger'[o].returned)
    <3>1. ledger[o].returned \in Nat /\ ledger[o].returned + q \in Nat
      BY <1>m DEF Ledger
    <3>2. /\ CumulativeRefund(o, ledger[o].returned) \in Int
          /\ CumulativeRefund(o, ledger[o].returned + q) \in Int
      BY <3>1, RefundType
    <3>3. ledger[o].refunded = CumulativeRefund(o, ledger[o].returned)
      BY <2>2 DEF LedgerSound
    <3> QED
      BY <2>1, <2>4, <3>2, <3>3 DEF RefundFor
  <2>7. LedgerSound(o)'
    <3>1. CumulativeRefund(o, ledger[o].returned)' = CumulativeRefund(o, ledger'[o].returned)
      BY DEF CumulativeRefund
    <3>2. ledger'[o].count > 0
      BY <1>m, <2>4 DEF Ledger
    <3> QED
      BY <2>1, <2>2, <2>4, <2>6, <3>1, <3>2 DEF LedgerSound, HasReturn, Sold
  <2>8. \A p \in Orders \ {o} : /\ moves'[p] = moves[p] /\ ledger'[p] = ledger[p]
                                /\ canonical'[p] = canonical[p]
    BY <2>1 DEF StoreTypeOK
  <2> QED
    BY <1>0, <2>5, <2>7, <2>8
<1>5. ASSUME NEW o \in Orders, Patch(o)
      PROVE  EffectInv'
  BY <1>1, <1>5 DEF Patch
<1> QED
  BY <1>1, <1>2, <1>3, <1>4, <1>5, StepKinds DEF vars, storeVars, saleVars

(* A sale is deducted once and put back at most once, by a void or by      *)
(* returns and never by both: reconcileSale, handleVoidIntent and the      *)
(* return transaction each look at what the others wrote.                  *)
THEOREM EffectsHappenOnce == Spec => []EffectsOnce
<1>1. TypeOK /\ EffectInv => EffectsOnce
  <2> SUFFICES ASSUME TypeOK, EffectInv, NEW o \in Orders
               PROVE  /\ MovesAgree(o)
                      /\ ledger[o].returned + moves[o].void <= Qty[o]
    BY DEF EffectsOnce, MovesAgree
  <2>1. MovesAgree(o) /\ LedgerSound(o)
    BY DEF EffectInv
  <2>2. ledger[o] \in Ledger /\ Qty[o] \in Nat
    BY DEF TypeOK, StoreTypeOK
  <2> QED
    BY <2>1, <2>2 DEF MovesAgree, LedgerSound, Sold, Ledger
<1> QED
  BY <1>1, DocCorrect, EffectInvInit, EffectInvNext, PTL DEF Spec

-----------------------------------------------------------------------------
(* The implementation of SaleEffect.                                       *)
LEMMA EffectInitially == Init => Abstract!Init
BY DEF Init, StoreInit, Abstract!Init, Effect, Sold, Document

(* The effects of other sales stay while the documents of o are written.   *)
LEMMA EffectOfOne ==
  ASSUME NEW o \in Orders, NEW new,
         \A p \in Orders \ {o} : order'[p] = order[p] /\ canonical'[p] = canonical[p],
         Effect(o)' = new
  PROVE  [p \in Orders |-> Effect(p)]' = [[p \in Orders |-> Effect(p)] EXCEPT ![o] = new]
BY DEF Effect, Sold

LEMMA EffectStep ==
  TypeOK /\ DocInv /\ EffectInv /\ [Next]_vars => [Abstract!Next]_(Abstract!vars)
<1> SUFFICES ASSUME TypeOK, DocInv, EffectInv, [Next]_vars
             PROVE  Abstract!Next \/ UNCHANGED Abstract!vars
  OBVIOUS
<1> USE DEF TypeOK
<1> DEFINE effect == [o \in Orders |-> Effect(o)]
           returned == [o \in Orders |-> ledger[o].returned]
           refunded == [o \in Orders |-> ledger[o].refunded]
<1>1. CASE UNCHANGED <<order, canonical, moves, ledger, stock>>
  BY <1>1 DEF Abstract!vars, Effect, Sold
<1>2. ASSUME NEW o \in Orders, Patch(o)
      PROVE  Abstract!Cancel(o) \/ UNCHANGED Abstract!vars
  <2>1. PICK new \in OrderDoc : /\ new.status \in {order[o].status, "voided"}
                                /\ order' = [order EXCEPT ![o] = new]
    BY <1>2 DEF Patch
  <2>2. UNCHANGED <<canonical, ledger, stock>>
    BY <1>2 DEF Patch
  <2>3. \A p \in Orders \ {o} : order'[p] = order[p] /\ canonical'[p] = canonical[p]
    BY <2>1, <2>2 DEF StoreTypeOK
  <2>4. order'[o] = new
    BY <2>1 DEF StoreTypeOK
  <2>5. CASE Effect(o)' = Effect(o)
    BY <2>2, <2>3, <2>5 DEF Abstract!vars, Effect, Sold
  <2>6. CASE Effect(o)' # Effect(o)
    <3>1. Effect(o) = "none" /\ Effect(o)' = "cancelled"
      BY <2>1, <2>2, <2>4, <2>6 DEF Effect, Sold
    <3>2. effect' = [effect EXCEPT ![o] = "cancelled"]
      BY <2>3, <3>1, EffectOfOne
    <3> QED
      BY <2>2, <3>1, <3>2 DEF Abstract!Cancel
  <2> QED
    BY <2>5, <2>6
<1>3. ASSUME NEW o \in Orders, SettleSale(o)
      PROVE  Abstract!Sell(o)
  <2>1. /\ canonical[o] = "absent" /\ order[o].status = "open"
        /\ canonical' = [canonical EXCEPT ![o] = "completed"]
        /\ stock' = stock - Qty[o] /\ ledger' = ledger
    BY <1>3, SettleSaleWrites
  <2>2. PICK new \in OrderDoc : order' = [order EXCEPT ![o] = new]
    BY <1>3, SettleSaleWrites
  <2>3. \A p \in Orders \ {o} : order'[p] = order[p] /\ canonical'[p] = canonical[p]
    BY <2>1, <2>2 DEF StoreTypeOK
  <2>4. Effect(o) = "none" /\ Effect(o)' = "sold"
    BY <2>1 DEF Effect, Sold, StoreTypeOK
  <2>5. effect' = [effect EXCEPT ![o] = "sold"]
    BY <2>3, <2>4, EffectOfOne
  <2> QED
    BY <2>1, <2>4, <2>5 DEF Abstract!Sell
<1>4. ASSUME NEW o \in Orders, NEW e \in Execs \cup {NoExec}, VoidApply(o, e)
      PROVE  Abstract!Reverse(o)
  <2>1. /\ Sold(o) /\ ~HasReturn(o)
        /\ canonical' = [canonical EXCEPT ![o] = "voided"]
        /\ stock' = stock + Qty[o] /\ ledger' = ledger
    BY <1>4, VoidApplyWrites
  <2>2. PICK new \in OrderDoc : order' = [order EXCEPT ![o] = new]
    BY <1>4, VoidApplyWrites
  <2>3. \A p \in Orders \ {o} : order'[p] = order[p] /\ canonical'[p] = canonical[p]
    BY <2>1, <2>2 DEF StoreTypeOK
  <2>4. Effect(o) = "sold" /\ Effect(o)' = "reversed"
    BY <2>1 DEF Effect, Sold, StoreTypeOK
  <2>5. effect' = [effect EXCEPT ![o] = "reversed"]
    BY <2>3, <2>4, EffectOfOne
  <2>6. ledger[o].returned = 0
    BY <2>1 DEF EffectInv, LedgerSound
  <2> QED
    BY <2>1, <2>4, <2>5, <2>6 DEF Abstract!Reverse
<1>5. ASSUME NEW a \in Attempts, CommitReturn(a)
      PROVE  \E o \in Orders : Abstract!Return(o)
  <2>1. PICK o \in Orders, q \in Nat \ {0} :
           /\ Returnable(o)
           /\ ledger[o].returned + q <= Qty[o]
           /\ order' = order /\ canonical' = canonical
           /\ stock' = stock + q
           /\ ledger' = [ledger EXCEPT ![o] =
                [count |-> ledger[o].count + 1, returned |-> ledger[o].returned + q,
                 refunded |-> ledger[o].refunded + attempt[a].quote]]
    BY <1>5, CommitReturnWrites
  <2>2. /\ ledger[o].returned \in Nat /\ Qty[o] \in Nat
        /\ q \in 1..(Qty[o] - ledger[o].returned) /\ ledger[o].returned + q \in 0..Qty[o]
    <3>1. ledger[o].returned \in Nat /\ Qty[o] \in Nat
      BY DEF StoreTypeOK, Ledger
    <3> QED
      BY <2>1, <3>1
  <2>3. Effect(o) = "sold" /\ effect' = effect
    BY <2>1 DEF Returnable, Effect, Sold
  <2>4. ledger'[o].returned = ledger[o].returned + q
    BY <2>1 DEF StoreTypeOK
  <2>5. \A p \in Orders \ {o} : ledger'[p] = ledger[p]
    BY <2>1 DEF StoreTypeOK
  <2>6. returned' = [returned EXCEPT ![o] = returned[o] + q]
    BY <2>4, <2>5
  <2>7. EffectInv'
    BY EffectInvNext
  <2>8. ledger'[o].refunded = CumulativeRefund(o, ledger'[o].returned)
    BY <2>7 DEF EffectInv, LedgerSound, CumulativeRefund
  <2>9. refunded' = [refunded EXCEPT ![o] = CumulativeRefund(o, returned'[o])]
    BY <2>5, <2>8
  <2>10. [p \in Orders |-> [n \in 0..Qty[p] |-> CumulativeRefund(p, n)]][o][returned'[o]]
           = CumulativeRefund(o, returned'[o])
    BY <2>2, <2>4
  <2> QED
    BY <2>1, <2>2, <2>3, <2>6, <2>9, <2>10 DEF Abstract!Return
<1> QED
  BY <1>1, <1>2, <1>3, <1>4, <1>5, StepKinds DEF Abstract!Next, vars, storeVars, saleVars, stockVars

(* Settling, voiding and returning, with all their early returns, events   *)
(* and crashes, do to a sale no more than SaleEffect allows.               *)
THEOREM Implements == Spec => ImplementsSaleEffect
BY EffectInitially, EffectStep, DocCorrect, EffectInvInit, EffectInvNext, PTL
DEF Spec, ImplementsSaleEffect, Abstract!Spec

-----------------------------------------------------------------------------
(* Who owns a void, and that returns and voids exclude each other.         *)
USE PrivilegedAssumption

-----------------------------------------------------------------------------
(* The outcomes that say the execution voided its sale.                    *)
Done == {"matched", "VOID_TOMBSTONED", "VOID_APPLIED"}

Names(o, e) == order[o].privilegedVoidExecutionId = e

(* A call that has confirmed its void, and an execution recorded with such *)
(* an outcome: the order names the execution.                              *)
Confirmed(c) == \/ call[c].pc = "attribute"
                \/ call[c].pc = "mark" /\ call[c].outcome \in Done

OwnInv ==
  /\ \A e \in Execs : nonce[e].outcome \in Done => Names(ExecOrder[e], e)
  /\ \A c \in Calls : Confirmed(c) => Names(Target(c), CallExec[c])

LEMMA NamesStay ==
  ASSUME TypeOK, DocInv, [Next]_vars, NEW e \in Execs, Names(ExecOrder[e], e)
  PROVE  Names(ExecOrder[e], e)'
BY WinnerStep DEF WinnerStays, Names

LEMMA OwnInvInit == Init => OwnInv
BY DEF Init, PrivilegedInit, OwnInv, Confirmed, Done

LEMMA MatchingNames ==
  ASSUME NEW o \in Orders, NEW e \in Execs, Correlated(o, e) = "MATCHING"
  PROVE  Names(o, e)
BY DEF Correlated, Names

LEMMA OwnInvNext == TypeOK /\ DocInv /\ OwnInv /\ [Next]_vars => OwnInv'
<1> SUFFICES ASSUME TypeOK, DocInv, OwnInv, [Next]_vars
             PROVE  OwnInv'
  OBVIOUS
<1>1. CASE UNCHANGED privilegedVars
  BY <1>1, NamesStay DEF OwnInv, Confirmed, privilegedVars, Target
<1>2. CASE PrivilegedNext
  <2>1. PICK c \in Calls : Begin(c) \/ Resume(c) \/ Continue(c) \/ CrashCall(c)
    BY <1>2 DEF PrivilegedNext
  <2> DEFINE e == CallExec[c]
  <2>2. e \in Execs /\ Target(c) = ExecOrder[e] /\ ExecOrder[e] \in Orders
    BY DEF Target
  <2>3. call \in [Calls -> Call] /\ nonce \in [Execs -> Nonce]
    BY DEF TypeOK, PrivilegedTypeOK
  <2>4. ASSUME NEW pc, NEW outcome, Goto(c, pc, outcome), UNCHANGED nonce,
               pc = "attribute" \/ (pc = "mark" /\ outcome \in Done) => Names(ExecOrder[e], e)'
        PROVE  OwnInv'
    <3>1. ASSUME NEW d \in Calls, Confirmed(d)'
          PROVE  Names(Target(d), CallExec[d])'
      <4>1. CASE d = c
        BY <2>2, <2>3, <2>4, <3>1, <4>1 DEF Goto, Confirmed
      <4>2. CASE d # c
        <5>1. Confirmed(d)
          BY <2>3, <2>4, <3>1, <4>2 DEF Goto, Confirmed
        <5>2. Names(ExecOrder[CallExec[d]], CallExec[d]) /\ CallExec[d] \in Execs
          BY <5>1 DEF OwnInv, Target
        <5> QED
          BY <5>2, NamesStay DEF Target
      <4> QED
        BY <4>1, <4>2
    <3>2. ASSUME NEW f \in Execs, nonce'[f].outcome \in Done
          PROVE  Names(ExecOrder[f], f)'
      BY <2>4, <3>2, NamesStay DEF OwnInv
    <3> QED
      BY <3>1, <3>2 DEF OwnInv
  <2>5. CASE Begin(c) \/ Resume(c)
    BY <2>4, <2>5 DEF Begin, Resume
  <2>6. CASE ConsumeRefused(c) \/ CrashCall(c)
    BY <2>4, <2>6 DEF ConsumeRefused, CrashCall, Return
  <2>7. CASE ConsumeApproval(c)
    <3>1. Goto(c, "decide", "none")
      BY <2>7 DEF ConsumeApproval
    <3>2. nonce' = [nonce EXCEPT ![e] = [status |-> "PENDING", outcome |-> "none"]]
      BY <2>7 DEF ConsumeApproval
    <3>3. ASSUME NEW d \in Calls, Confirmed(d)'
          PROVE  Names(Target(d), CallExec[d])'
      <4>1. Confirmed(d)
        BY <2>3, <3>1, <3>3 DEF Goto, Confirmed
      <4>2. Names(ExecOrder[CallExec[d]], CallExec[d]) /\ CallExec[d] \in Execs
        BY <4>1 DEF OwnInv, Target
      <4> QED
        BY <4>2, NamesStay DEF Target
    <3>4. ASSUME NEW f \in Execs, nonce'[f].outcome \in Done
          PROVE  Names(ExecOrder[f], f)'
      <4>1. nonce[f].outcome \in Done
        BY <2>2, <2>3, <3>2, <3>4 DEF Done
      <4> QED
        BY <4>1, NamesStay DEF OwnInv
    <3> QED
      BY <3>3, <3>4 DEF OwnInv
  <2>8. CASE Decide(c)
    <3>1. CASE Correlated(Target(c), e) = "MATCHING"
      <4>1. Names(ExecOrder[e], e)'
        BY <2>2, <3>1, MatchingNames, NamesStay
      <4> QED
        BY <2>4, <2>8, <3>1, <4>1 DEF Decide
    <3>2. CASE Correlated(Target(c), e) # "MATCHING"
      BY <2>4, <2>8, <3>2 DEF Decide, Return
    <3> QED
      BY <3>1, <3>2
  <2>9. CASE Execute(c)
    BY <2>4, <2>9 DEF Execute
  <2>10. CASE Confirm(c)
    <3>1. CASE Correlated(Target(c), e) = "MATCHING"
      <4>1. Names(ExecOrder[e], e)'
        BY <2>2, <3>1, MatchingNames, NamesStay
      <4> QED
        BY <2>4, <2>10, <4>1 DEF Confirm, Return
    <3>2. CASE Correlated(Target(c), e) # "MATCHING"
      BY <2>4, <2>10, <3>2 DEF Confirm, Return, Done
    <3> QED
      BY <3>1, <3>2
  <2>11. CASE Attribute(c)
    <3>1. Names(ExecOrder[e], e)
      BY <2>2, <2>11 DEF Attribute, OwnInv, Confirmed
    <3> QED
      BY <2>2, <2>4, <2>11, <3>1, NamesStay DEF Attribute
  <2>12. CASE MarkCompleted(c)
    <3>1. Goto(c, "idle", "none")
      BY <2>12 DEF MarkCompleted, Return
    <3>2. nonce' = [nonce EXCEPT ![e] = [status |-> "COMPLETED", outcome |-> call[c].outcome]]
      BY <2>12 DEF MarkCompleted
    <3>3. ASSUME NEW d \in Calls, Confirmed(d)'
          PROVE  Names(Target(d), CallExec[d])'
      <4>1. Confirmed(d)
        BY <2>3, <3>1, <3>3 DEF Goto, Confirmed
      <4>2. Names(ExecOrder[CallExec[d]], CallExec[d]) /\ CallExec[d] \in Execs
        BY <4>1 DEF OwnInv, Target
      <4> QED
        BY <4>2, NamesStay DEF Target
    <3>4. ASSUME NEW f \in Execs, nonce'[f].outcome \in Done
          PROVE  Names(ExecOrder[f], f)'
      <4>1. CASE f = e
        <5>1. call[c].outcome \in Done
          BY <2>2, <2>3, <3>2, <3>4, <4>1
        <5>2. Names(ExecOrder[e], e)
          BY <2>2, <2>12, <5>1 DEF MarkCompleted, OwnInv, Confirmed
        <5> QED
          BY <2>2, <4>1, <5>2, NamesStay
      <4>2. CASE f # e
        <5>1. nonce[f].outcome \in Done
          BY <2>3, <3>2, <3>4, <4>2
        <5> QED
          BY <5>1, NamesStay DEF OwnInv
      <4> QED
        BY <4>1, <4>2
    <3> QED
      BY <3>3, <3>4 DEF OwnInv
  <2> QED
    BY <2>1, <2>5, <2>6, <2>7, <2>8, <2>9, <2>10, <2>11, <2>12 DEF Continue
<1> QED
  BY <1>1, <1>2 DEF Next, vars, privilegedVars

(* An execution recorded as having voided its sale is the one the order    *)
(* names, and the sale is voided, whatever calls run at once and wherever  *)
(* they die: finishCanonical confirms the id after the void commits.       *)
THEOREM VoidIsOwned == Spec => []OwnedVoid
<1>1. DocInv /\ OwnInv => OwnedVoid
  BY DEF DocInv, OwnInv, OwnedVoid, VoidedUnder, Names, NamedVoided, Done
<1> QED
  BY <1>1, DocCorrect, OwnInvInit, OwnInvNext, PTL DEF Spec

-----------------------------------------------------------------------------
(* A returned sale carries no trace of a void.                             *)
Unvoided(doc) == ~doc.voidedBy /\ doc.privilegedVoidExecutionId = NoExec

RetInv == \A o \in Orders : HasReturn(o) => Unvoided(order[o])

LEMMA RetInvInit == Init => RetInv
BY DEF Init, StoreInit, RetInv, HasReturn

(* A write of one document that is not returned, or keeps it unvoided.     *)
LEMMA RetInvWrite ==
  ASSUME TypeOK, RetInv, NEW o \in Orders, NEW new,
         order' = [order EXCEPT ![o] = new], ledger' = ledger,
         HasReturn(o) => Unvoided(new)
  PROVE  RetInv'
BY DEF RetInv, HasReturn, TypeOK, StoreTypeOK

LEMMA RetInvNext ==
  ASSUME LegacyVoids = {}, TypeOK, DocInv, OwnInv, RetInv, [Next]_vars
  PROVE  RetInv'
<1> USE DEF TypeOK
<1>0. \A o \in Orders : order[o] \in OrderDoc
  BY DEF StoreTypeOK
<1>1. CASE UNCHANGED <<order, ledger>>
  BY <1>1 DEF RetInv, HasReturn
<1>2. ASSUME NEW o \in Orders, NEW e \in Execs \cup {NoExec}, VoidWrite(o, e)
      PROVE  RetInv'
  <2>1. ~HasReturn(o)
    BY <1>2 DEF VoidWrite, VoidTombstone, VoidAnomaly, VoidApply, VoidOutcome
  <2> QED
    BY <1>2, <2>1, RetInvWrite
    DEF VoidWrite, VoidTombstone, VoidAnomaly, VoidApply, saleVars
<1>3. ASSUME NEW o \in Orders, SubmitAsyncOrder(o) \/ PatchException(o) \/ RetryReconcile(o)
      PROVE  RetInv'
  <2>1. CASE SubmitAsyncOrder(o)
    <3>1. Unvoided(Document("pending_reconcile"))
      BY DEF Unvoided, Document
    <3> QED
      BY <2>1, <3>1, RetInvWrite DEF SubmitAsyncOrder, saleVars
  <2>2. CASE PatchException(o)
    <3> DEFINE new == [order[o] EXCEPT !.reconcileStatus = "exception",
                         !.reconcileAttempts = order[o].reconcileAttempts + 1]
    <3>1. HasReturn(o) => Unvoided(new)
      BY <1>0 DEF RetInv, Unvoided, OrderDoc
    <3>2. order' = [order EXCEPT ![o] = new] /\ ledger' = ledger
      BY <2>2 DEF PatchException, saleVars
    <3> HIDE DEF new
    <3> QED
      BY <3>1, <3>2, RetInvWrite
  <2>3. CASE RetryReconcile(o)
    <3> DEFINE new == [order[o] EXCEPT !.reconcileStatus = "pending_reconcile"]
    <3>1. HasReturn(o) => Unvoided(new)
      BY <1>0 DEF RetInv, Unvoided, OrderDoc
    <3>2. order' = [order EXCEPT ![o] = new] /\ ledger' = ledger
      BY <2>3 DEF RetryReconcile, saleVars
    <3> HIDE DEF new
    <3> QED
      BY <3>1, <3>2, RetInvWrite
  <2> QED
    BY <1>3, <2>1, <2>2, <2>3
<1>4. ASSUME NEW o \in Orders, SettleSale(o)
      PROVE  RetInv'
  <2> DEFINE new == [order[o] EXCEPT !.reconcileStatus = "settled", !.status = "open"]
  <2>1. HasReturn(o) => Unvoided(new)
    BY <1>0 DEF RetInv, Unvoided, OrderDoc
  <2>2. order' = [order EXCEPT ![o] = new] /\ ledger' = ledger
    BY <1>4 DEF SettleSale
  <2> HIDE DEF new
  <2> QED
    BY <2>1, <2>2, RetInvWrite
<1>5. CASE TriggerNext
  BY <1>1, <1>2, <1>3, <1>4, <1>5
  DEF TriggerNext, Settle, LegacyVoidFlag, SettleNoop, SettleThrows, CrashBeforePatch,
      DeliverVoid, ReceiveCreditPayment, storeVars, saleVars
<1>6. ASSUME NEW c \in Calls, ConsumeApproval(c)
      PROVE  RetInv'
  <2>1. ~HasReturn(Target(c)) /\ Target(c) \in Orders
    BY <1>6 DEF ConsumeApproval, Target
  <2> QED
    BY <1>1, <1>6, <2>1, RetInvWrite DEF ConsumeApproval, saleVars
<1>7. ASSUME NEW c \in Calls, Attribute(c)
      PROVE  RetInv'
  <2>1. Names(Target(c), CallExec[c]) /\ CallExec[c] # NoExec /\ Target(c) \in Orders
    BY <1>7 DEF Attribute, OwnInv, Confirmed, Target
  <2>2. ~HasReturn(Target(c))
    BY <2>1 DEF RetInv, Unvoided, Names
  <2> QED
    BY <1>7, <2>1, <2>2, RetInvWrite DEF Attribute, saleVars
<1>8. ASSUME NEW c \in Calls, Execute(c)
      PROVE  RetInv'
  BY <1>1, <1>2, <1>8 DEF Execute, Target, storeVars, saleVars
<1>9. CASE PrivilegedNext
  BY <1>1, <1>6, <1>7, <1>8, <1>9
  DEF PrivilegedNext, Begin, Resume, Continue, CrashCall, ConsumeRefused, Decide, Confirm,
      MarkCompleted, storeVars, saleVars
<1>10. ASSUME NEW a \in Attempts, CommitReturn(a)
       PROVE  RetInv'
  <2>1. PICK o \in Orders, q \in Nat \ {0} :
           /\ Returnable(o) /\ order' = order
           /\ ledger' = [ledger EXCEPT ![o] =
                [count |-> ledger[o].count + 1, returned |-> ledger[o].returned + q,
                 refunded |-> ledger[o].refunded + attempt[a].quote]]
    BY <1>10, CommitReturnWrites
  <2>2. Unvoided(order[o])
    BY <2>1 DEF Returnable, IsOrderVoidedOrVoiding, Unvoided
  <2>3. \A p \in Orders \ {o} : ledger'[p] = ledger[p]
    BY <2>1 DEF StoreTypeOK
  <2> QED
    BY <2>1, <2>2, <2>3 DEF RetInv, HasReturn
<1>11. CASE ReturnNext
  BY <1>1, <1>10, <1>11 DEF ReturnNext, QuoteReturn, ResolveAttempt, storeVars, saleVars
<1> QED
  BY <1>1, <1>5, <1>9, <1>11 DEF Next, vars, storeVars, saleVars

(* A return and a void exclude each other from the moment either commits,  *)
(* when no client has flagged a document itself (the rules refuse it): the *)
(* return transaction reads every trace a void leaves, and the void the    *)
(* ledger.                                                                 *)
THEOREM ReturnsExcludeVoids ==
  ASSUME LegacyVoids = {}
  PROVE  Spec => []ReturnExcludesVoid
<1>1. EffectInv /\ RetInv => ReturnExcludesVoid
  BY DEF EffectInv, LedgerSound, RetInv, Unvoided, ReturnExcludesVoid
<1>2. TypeOK /\ DocInv /\ OwnInv /\ RetInv /\ [Next]_vars => RetInv'
  BY RetInvNext
<1> QED
  BY <1>1, <1>2, DocCorrect, OwnInvInit, OwnInvNext, RetInvInit, EffectInvInit, EffectInvNext,
     PTL DEF Spec

-----------------------------------------------------------------------------
(* A void reverses unless an attempt failed.  A void that finds its sale   *)
(* waiting closes the document alone.  As long as no attempt was counted   *)
(* as failed, a waiting document has no canonical order, since settling    *)
(* writes both; only the blind patch and the retry part them.              *)
Marked(doc, was) ==
  /\ doc.voidReconciled => was = "voided"
  /\ doc.reconcileStatus = "absent" => was = "absent"
  /\ doc.reconcileAttempts = 0 =>
       /\ doc.reconcileStatus # "exception"
       /\ doc.reconcileStatus = "pending_reconcile" => was = "absent"
       /\ doc.status = "voided" /\ ~doc.voidRequested => was # "completed"

MarkInv == \A o \in Orders : Marked(order[o], canonical[o])

LEMMA MarkInvInit == Init => MarkInv
BY DEF Init, StoreInit, MarkInv, Marked, Document

(* A step that writes the documents of one sale only.                      *)
LEMMA MarkWrite ==
  ASSUME TypeOK, MarkInv, NEW o \in Orders, NEW doc, NEW was,
         order' = [order EXCEPT ![o] = doc], canonical' = [canonical EXCEPT ![o] = was],
         Marked(doc, was)
  PROVE  MarkInv'
<1>1. order \in [Orders -> OrderDoc] /\ canonical \in [Orders -> {"absent", "completed", "voided"}]
  BY DEF TypeOK, StoreTypeOK
<1>2. /\ order'[o] = doc /\ canonical'[o] = was
      /\ \A p \in Orders \ {o} : order'[p] = order[p] /\ canonical'[p] = canonical[p]
  BY <1>1
<1> QED
  BY <1>2 DEF MarkInv

(* The same, of a document of another shape over the same canonical order. *)
LEMMA MarkPatch ==
  ASSUME TypeOK, MarkInv, NEW o \in Orders, NEW doc,
         order' = [order EXCEPT ![o] = doc], canonical' = canonical, Marked(doc, canonical[o])
  PROVE  MarkInv'
<1>1. canonical' = [canonical EXCEPT ![o] = canonical[o]]
  BY DEF TypeOK, StoreTypeOK
<1> QED
  BY <1>1, MarkWrite

LEMMA MarkVoid ==
  ASSUME TypeOK, MarkInv, NEW o \in Orders, NEW e \in Execs \cup {NoExec}, VoidWrite(o, e)
  PROVE  MarkInv'
<1>1. order[o] \in OrderDoc /\ Marked(order[o], canonical[o])
  BY DEF TypeOK, StoreTypeOK, MarkInv
<1>2. CASE VoidTombstone(o, e)
  <2> DEFINE doc == [order[o] EXCEPT !.status = "voided", !.reconcileStatus = "settled",
                       !.privilegedVoidExecutionId = Correlation(o, e)]
  <2>1. order[o].reconcileStatus = "pending_reconcile"
    BY <1>2 DEF VoidTombstone, VoidOutcome
  <2>2. Marked(doc, canonical[o])
    BY <1>1, <2>1 DEF Marked, OrderDoc
  <2>3. order' = [order EXCEPT ![o] = doc] /\ canonical' = canonical
    BY <1>2 DEF VoidTombstone, saleVars
  <2> HIDE DEF doc
  <2> QED
    BY <2>2, <2>3, MarkPatch
<1>3. CASE VoidAnomaly(o, e)
  <2> DEFINE doc == [order[o] EXCEPT !.voidAnomaly =
                       IF canonical[o] = "absent" THEN "missing_canonical"
                                                  ELSE "canonical_ineligible"]
  <2>1. Marked(doc, canonical[o])
    BY <1>1 DEF Marked, OrderDoc
  <2>2. order' = [order EXCEPT ![o] = doc] /\ canonical' = canonical
    BY <1>3 DEF VoidAnomaly, saleVars
  <2> HIDE DEF doc
  <2> QED
    BY <2>1, <2>2, MarkPatch
<1>4. CASE VoidApply(o, e)
  <2> DEFINE doc == [order[o] EXCEPT !.status = "voided", !.voidReconciled = TRUE,
                       !.privilegedVoidExecutionId = Correlation(o, e)]
  <2>1. order[o].reconcileStatus = "settled"
    BY <1>1, <1>4 DEF VoidApply, VoidOutcome, OrderDoc
  <2>2. Marked(doc, "voided")
    BY <1>1, <2>1 DEF Marked, OrderDoc
  <2>3. order' = [order EXCEPT ![o] = doc] /\ canonical' = [canonical EXCEPT ![o] = "voided"]
    BY <1>4 DEF VoidApply
  <2> HIDE DEF doc
  <2> QED
    BY <2>2, <2>3, MarkWrite
<1> QED
  BY <1>2, <1>3, <1>4 DEF VoidWrite

LEMMA MarkTrigger ==
  ASSUME TypeOK, MarkInv, TriggerNext
  PROVE  MarkInv'
<1>0. CASE UNCHANGED <<order, canonical>>
  BY <1>0 DEF MarkInv
<1>1. SUFFICES ASSUME NEW o \in Orders,
                      \/ SubmitAsyncOrder(o) \/ LegacyVoidFlag(o) \/ SettleSale(o)
                      \/ PatchException(o) \/ DeliverVoid(o) \/ RetryReconcile(o)
               PROVE  MarkInv'
  BY <1>0
  DEF TriggerNext, Settle, SettleNoop, SettleThrows, CrashBeforePatch, ReceiveCreditPayment,
      storeVars, saleVars
<1>2. order[o] \in OrderDoc /\ Marked(order[o], canonical[o])
  BY DEF TypeOK, StoreTypeOK, MarkInv
<1>3. CASE SubmitAsyncOrder(o)
  <2>1. order[o].reconcileStatus = "absent"
    BY <1>3 DEF SubmitAsyncOrder, Exists
  <2>2. Marked(Document("pending_reconcile"), canonical[o])
    BY <1>2, <2>1 DEF Marked, Document
  <2> QED
    BY <1>3, <2>2, MarkPatch DEF SubmitAsyncOrder, saleVars
<1>4. CASE LegacyVoidFlag(o)
  <2> DEFINE doc == [order[o] EXCEPT !.voidRequested = TRUE, !.status = "voided", !.voidedBy = TRUE]
  <2>1. Marked(doc, canonical[o])
    BY <1>2 DEF Marked, OrderDoc
  <2>2. order' = [order EXCEPT ![o] = doc] /\ canonical' = canonical
    BY <1>4 DEF LegacyVoidFlag, saleVars
  <2> HIDE DEF doc
  <2> QED
    BY <2>1, <2>2, MarkPatch
<1>5. CASE SettleSale(o)
  <2> DEFINE doc == [order[o] EXCEPT !.reconcileStatus = "settled", !.status = "open"]
  <2>1. canonical[o] = "absent"
    BY <1>5 DEF SettleSale, Settleable
  <2>2. Marked(doc, "completed")
    BY <1>2, <2>1 DEF Marked, OrderDoc
  <2>3. order' = [order EXCEPT ![o] = doc] /\ canonical' = [canonical EXCEPT ![o] = "completed"]
    BY <1>5 DEF SettleSale
  <2> HIDE DEF doc
  <2> QED
    BY <2>2, <2>3, MarkWrite
<1>6. CASE PatchException(o)
  <2> DEFINE doc == [order[o] EXCEPT !.reconcileStatus = "exception",
                       !.reconcileAttempts = order[o].reconcileAttempts + 1]
  <2>1. order[o].reconcileAttempts \in Nat
    BY <1>2 DEF OrderDoc
  <2>2. Marked(doc, canonical[o])
    BY <1>2, <2>1 DEF Marked, OrderDoc
  <2>3. order' = [order EXCEPT ![o] = doc] /\ canonical' = canonical
    BY <1>6 DEF PatchException, saleVars
  <2> HIDE DEF doc
  <2> QED
    BY <2>2, <2>3, MarkPatch
<1>7. CASE DeliverVoid(o)
  BY <1>0, <1>7, MarkVoid DEF DeliverVoid, saleVars
<1>8. CASE RetryReconcile(o)
  <2> DEFINE doc == [order[o] EXCEPT !.reconcileStatus = "pending_reconcile"]
  <2>1. order[o].reconcileStatus = "exception"
    BY <1>8 DEF RetryReconcile, Retryable
  <2>2. Marked(doc, canonical[o])
    BY <1>2, <2>1 DEF Marked, OrderDoc
  <2>3. order' = [order EXCEPT ![o] = doc] /\ canonical' = canonical
    BY <1>8 DEF RetryReconcile, saleVars
  <2> HIDE DEF doc
  <2> QED
    BY <2>2, <2>3, MarkPatch
<1> QED
  BY <1>1, <1>3, <1>4, <1>5, <1>6, <1>7, <1>8

LEMMA MarkPrivileged ==
  ASSUME TypeOK, MarkInv, PrivilegedNext
  PROVE  MarkInv'
<1>0. CASE UNCHANGED <<order, canonical>>
  BY <1>0 DEF MarkInv
<1>1. PICK c \in Calls : Begin(c) \/ Resume(c) \/ Continue(c) \/ CrashCall(c)
  BY DEF PrivilegedNext
<1> DEFINE o == Target(c)
           doc == [order[o] EXCEPT !.voidedBy = TRUE]
<1>2. o \in Orders /\ CallExec[c] \in Execs \cup {NoExec}
  BY DEF Target
<1>3. ASSUME order' = [order EXCEPT ![o] = doc], canonical' = canonical
      PROVE  MarkInv'
  <2>1. order[o] \in OrderDoc /\ Marked(order[o], canonical[o])
    BY <1>2 DEF TypeOK, StoreTypeOK, MarkInv
  <2>2. Marked(doc, canonical[o])
    BY <2>1 DEF Marked, OrderDoc
  <2> HIDE DEF doc, o
  <2> QED
    BY <1>2, <1>3, <2>2, MarkPatch
<1>4. CASE ConsumeApproval(c)
  BY <1>0, <1>3, <1>4 DEF ConsumeApproval, saleVars
<1>5. CASE Execute(c)
  BY <1>0, <1>2, <1>5, MarkVoid DEF Execute, storeVars, saleVars
<1>6. CASE Attribute(c)
  BY <1>3, <1>6 DEF Attribute, saleVars
<1> QED
  BY <1>0, <1>1, <1>4, <1>5, <1>6
  DEF Begin, Resume, Continue, CrashCall, ConsumeRefused, Decide, Confirm, MarkCompleted,
      storeVars, saleVars

LEMMA MarkInvNext ==
  ASSUME TypeOK, MarkInv, [Next]_vars
  PROVE  MarkInv'
<1>1. CASE UNCHANGED <<order, canonical>>
  BY <1>1 DEF MarkInv
<1>2. CASE ReturnNext
  BY <1>1, <1>2 DEF ReturnNext, QuoteReturn, CommitReturn, ResolveAttempt, storeVars, saleVars
<1> QED
  BY <1>1, <1>2, MarkTrigger, MarkPrivileged DEF Next, vars, storeVars, saleVars

(* A void that does not reverse a sold sale leaves its mark: whatever is   *)
(* delivered twice and wherever an invocation dies, a voided document over *)
(* a standing canonical order shows a counted failure and no reversal, and *)
(* a sale none of whose attempts failed is reversed by its void.           *)
THEOREM VoidsReverse == Spec => []DeductedVoidIsMarked
<1>1. TypeOK /\ MarkInv => DeductedVoidIsMarked
  <2> SUFFICES ASSUME TypeOK, MarkInv, NEW o \in Orders, order[o].status = "voided",
                      ~order[o].voidRequested, Sold(o)
               PROVE  order[o].reconcileAttempts > 0 /\ ~order[o].voidReconciled
    BY DEF DeductedVoidIsMarked
  <2>1. order[o].reconcileAttempts \in Nat
    BY DEF TypeOK, StoreTypeOK, OrderDoc
  <2> QED
    BY <2>1 DEF MarkInv, Marked, Sold
<1>2. TypeOK /\ MarkInv /\ [Next]_vars => MarkInv'
  BY MarkInvNext
<1> QED
  BY <1>1, <1>2, TypeCorrect, MarkInvInit, PTL DEF Spec

-----------------------------------------------------------------------------
(* The books of the branch.                                                *)
HIDE PrivilegedAssumption
USE TriggerAssumption, ReturnAssumption

-----------------------------------------------------------------------------
(* Sums over the sales and over the lots.                                  *)
LEMMA SumOver ==
  ASSUME NEW S, NEW f, DOMAIN f = S
  PROVE  Sum(f) = SumFunctionOnSet(f, S) /\ Units(f) = SumFunctionOnSet(f, S)
BY DEF Sum, Units, SumFunction

LEMMA LotsFinite == IsFiniteSet(Lots)
<1>1. 1 \in Int /\ NLots \in Int
  OBVIOUS
<1> QED
  BY <1>1, FS_Interval DEF Lots

(* One sale's term changes.                                                *)
LEMMA SaleTerm ==
  ASSUME NEW f \in [Orders -> Int], NEW g \in [Orders -> Int], NEW o \in Orders,
         \A p \in Orders \ {o} : g[p] = f[p]
  PROVE  Sum(f) \in Int /\ Sum(g) \in Int /\ Sum(g) = Sum(f) - f[o] + g[o]
<1>1. Sum(f) = SumFunctionOnSet(f, Orders) /\ Sum(g) = SumFunctionOnSet(g, Orders)
  BY SumOver
<1>2. IsFiniteSet(Orders) /\ (\A p \in Orders : f[p] \in Int) /\ f[o] \in Int /\ g[o] \in Int
  OBVIOUS
<1>3. /\ SumFunctionOnSet(f, Orders) \in Int
      /\ SumFunctionOnSet(g, Orders) = SumFunctionOnSet(f, Orders) - f[o] + g[o]
  BY <1>2, SumUpdate
<1> QED
  BY <1>1, <1>2, <1>3

(* Every lot gains or loses.                                               *)
LEMMA LotTerms ==
  ASSUME NEW f \in [Lots -> Int], NEW g \in [Lots -> Int], NEW h \in [Lots -> Int],
         \A l \in Lots : h[l] = f[l] + g[l]
  PROVE  Sum(f) \in Int /\ Sum(g) \in Int /\ Sum(h) = Sum(f) + Sum(g)
<1>1. /\ Sum(f) = SumFunctionOnSet(f, Lots) /\ Sum(g) = SumFunctionOnSet(g, Lots)
      /\ Sum(h) = SumFunctionOnSet(h, Lots)
  BY SumOver
<1>2. \A l \in Lots : f[l] \in Int /\ g[l] \in Int /\ h[l] = f[l] + g[l]
  OBVIOUS
<1> QED
  BY <1>1, <1>2, LotsFinite, SumAdd, Z3

LEMMA SumIsUnits == ASSUME NEW f PROVE Sum(f) = Units(f)
BY DEF Sum, Units

LEMMA SalesZero ==
  ASSUME NEW f, DOMAIN f = Orders, \A o \in Orders : f[o] = 0
  PROVE  Sum(f) = 0
<1>1. Sum(f) = SumFunctionOnSet(f, Orders)
  BY SumOver
<1>2. IsFiniteSet(Orders)
  OBVIOUS
<1> QED
  BY <1>1, <1>2, SumZero

-----------------------------------------------------------------------------
(* What a step does to the books: nothing, or it is one of the three       *)
(* transactions of a sale, a step of an attempt, or a payment.             *)
saleBooks == <<saleVars, stockVars>>

LEMMA VoidBooks ==
  ASSUME NEW o \in Orders, NEW e, VoidWrite(o, e)
  PROVE  UNCHANGED <<saleBooks, creditVars>> \/ VoidApply(o, e)
BY DEF VoidWrite, VoidTombstone, VoidAnomaly, saleBooks

LEMMA StepBooks ==
  ASSUME [Next]_vars
  PROVE  \/ UNCHANGED <<saleBooks, creditVars, creditPaid, returnVars>>
         \/ /\ \/ \E o \in Orders : SettleSale(o)
               \/ \E o \in Orders, e \in Execs \cup {NoExec} : VoidApply(o, e)
            /\ UNCHANGED <<creditPaid, returnVars>>
         \/ /\ \E a \in Attempts : QuoteReturn(a) \/ CommitReturn(a) \/ ResolveAttempt(a)
            /\ UNCHANGED creditPaid
         \/ \E amount \in Payments : ReceiveCreditPayment(amount) /\ UNCHANGED returnVars
<1> USE PrivilegedAssumption
<1>1. CASE UNCHANGED vars
  BY <1>1 DEF vars, storeVars, saleBooks, triggerVars
<1>2. CASE TriggerNext /\ UNCHANGED <<privilegedVars, returnVars>>
  <2>1. CASE \E amount \in Payments : ReceiveCreditPayment(amount)
    BY <1>2, <2>1
  <2>2. SUFFICES ASSUME NEW o \in Orders,
                        \/ SubmitAsyncOrder(o) \/ LegacyVoidFlag(o) \/ SettleSale(o) \/ SettleNoop(o)
                        \/ SettleThrows(o) \/ PatchException(o) \/ CrashBeforePatch(o)
                        \/ DeliverVoid(o) \/ RetryReconcile(o)
                 PROVE  \/ UNCHANGED <<saleBooks, creditVars, creditPaid, returnVars>>
                        \/ (SettleSale(o) \/ VoidApply(o, NoExec)) /\ UNCHANGED <<creditPaid, returnVars>>
    BY <1>2, <2>1 DEF TriggerNext, Settle
  <2>3. CASE DeliverVoid(o)
    BY <1>2, <2>3, VoidBooks DEF DeliverVoid, saleBooks, triggerVars
  <2>4. CASE SettleSale(o)
    BY <1>2, <2>4 DEF SettleSale, triggerVars
  <2> QED
    BY <1>2, <2>2, <2>3, <2>4
    DEF SubmitAsyncOrder, LegacyVoidFlag, SettleNoop, SettleThrows, PatchException, CrashBeforePatch,
        RetryReconcile, storeVars, saleBooks, triggerVars
<1>3. CASE PrivilegedNext /\ UNCHANGED <<triggerVars, returnVars>>
  <2>1. PICK c \in Calls : Begin(c) \/ Resume(c) \/ Continue(c) \/ CrashCall(c)
    BY <1>3 DEF PrivilegedNext
  <2>2. CASE Execute(c)
    <3>1. Target(c) \in Orders /\ CallExec[c] \in Execs
      BY DEF Target
    <3> QED
      BY <1>3, <2>2, <3>1, VoidBooks DEF Execute, storeVars, saleBooks, triggerVars
  <2> QED
    BY <1>3, <2>1, <2>2
    DEF Begin, Resume, Continue, CrashCall, ConsumeApproval, ConsumeRefused, Decide, Confirm,
        Attribute, MarkCompleted, storeVars, saleBooks, triggerVars
<1>4. CASE ReturnNext /\ UNCHANGED <<triggerVars, privilegedVars>>
  BY <1>4 DEF ReturnNext, triggerVars
<1> QED
  BY <1>1, <1>2, <1>3, <1>4 DEF Next

-----------------------------------------------------------------------------
(* What the three transactions write, as the accounts see it.              *)
LEMMA SettleBooks ==
  ASSUME NEW o \in Orders, TypeOK, SettleSale(o)
  PROVE  \E take \in [Lots -> Nat], rest \in Nat :
           /\ canonical[o] = "absent" /\ canonical' = [canonical EXCEPT ![o] = "completed"]
           /\ Units(take) + rest = Qty[o]
           /\ cut' = [cut EXCEPT ![o] = take] /\ oversold' = [oversold EXCEPT ![o] = rest]
           /\ remaining' = [l \in Lots |-> remaining[l] - take[l]]
           /\ \A l \in Lots : depleted'[l] = IF take[l] > 0 THEN remaining[l] = take[l] ELSE depleted[l]
           /\ stock' = stock - Qty[o]
           /\ moves' = [moves EXCEPT ![o] = [moves[o] EXCEPT !.sale = moves[o].sale + Qty[o]]]
           /\ creditUsed' = creditUsed + CreditAmt[o]
           /\ outstandingBalance' = outstandingBalance + CreditAmt[o]
           /\ UNCHANGED <<received, ledger>>
<1>1. PICK take \in [Lots -> 0..Qty[o]], rest \in 0..Qty[o] :
        /\ FifoPlan(Available, Qty[o], take, rest)
        /\ cut' = [cut EXCEPT ![o] = take]
        /\ oversold' = [oversold EXCEPT ![o] = rest]
        /\ remaining' = [l \in Lots |-> remaining[l] - take[l]]
        /\ depleted' = DepletedAfter(take)
  BY DEF SettleSale
<1>2. take \in [Lots -> Nat] /\ rest \in Nat /\ Units(take) + rest = Qty[o]
  BY <1>1 DEF FifoPlan
<1>3. ASSUME NEW l \in Lots
      PROVE  depleted'[l] = IF take[l] > 0 THEN remaining[l] = take[l] ELSE depleted[l]
  <2>1. depleted'[l] = IF take[l] > 0 THEN Available[l] <= take[l] ELSE depleted[l]
    BY <1>1 DEF DepletedAfter
  <2>2. take[l] <= Available[l] /\ Available[l] = IF depleted[l] THEN 0 ELSE remaining[l]
    BY <1>1 DEF FifoPlan, Greedy, Available
  <2>3. remaining[l] \in Nat /\ take[l] \in Nat /\ depleted[l] \in BOOLEAN
    BY <1>2 DEF TypeOK, StoreTypeOK
  <2>4. CASE take[l] > 0
    <3>1. Available[l] = remaining[l]
      BY <2>2, <2>3, <2>4
    <3>2. (Available[l] <= take[l]) <=> (remaining[l] = take[l])
      BY <2>2, <2>3, <3>1
    <3>3. depleted'[l] = (Available[l] <= take[l])
      BY <2>1, <2>4
    <3> QED
      BY <2>4, <3>2, <3>3
  <2>5. CASE ~(take[l] > 0)
    BY <2>1, <2>5
  <2> QED
    BY <2>4, <2>5
<1>4. canonical[o] = "absent"
  BY DEF SettleSale, Settleable
<1> QED
  BY <1>1, <1>2, <1>3, <1>4 DEF SettleSale

LEMMA ApplyBooks ==
  ASSUME NEW o \in Orders, NEW e \in Execs \cup {NoExec}, TypeOK, VoidApply(o, e)
  PROVE  /\ canonical[o] = "completed" /\ ~HasReturn(o)
         /\ canonical' = [canonical EXCEPT ![o] = "voided"]
         /\ remaining' = [l \in Lots |-> remaining[l] + cut[o][l]]
         /\ depleted' = [l \in Lots |-> depleted[l] /\ cut[o][l] = 0]
         /\ stock' = stock + Qty[o]
         /\ moves' = [moves EXCEPT ![o] = [moves[o] EXCEPT !.void = moves[o].void + Qty[o]]]
         /\ creditUsed' = Max0(creditUsed - CreditAmt[o])
         /\ outstandingBalance' = outstandingBalance - CreditAmt[o]
         /\ UNCHANGED <<received, cut, oversold, ledger>>
BY DEF VoidApply, VoidOutcome, Restock, ReversedCredit

-----------------------------------------------------------------------------
(* The account of the customer.  It balances step by step: no other        *)
(* invariant is needed.                                                    *)
Charged == [o \in Orders |-> IF Sold(o) THEN CreditAmt[o] ELSE 0]

LEMMA ChargedType == Charged \in [Orders -> Int] /\ Charged' \in [Orders -> Int]
BY DEF Charged

LEMMA CreditInit == Init => CreditAccounted
<1> SUFFICES ASSUME Init PROVE CreditAccounted
  OBVIOUS
<1>1. Sum(Charged) = 0
  BY SalesZero DEF Charged, Sold, Init, StoreInit
<1> QED
  BY <1>1 DEF CreditAccounted, Charged, Init, StoreInit, TriggerInit

LEMMA CreditStep == TypeOK /\ CreditAccounted /\ [Next]_vars => CreditAccounted'
<1> SUFFICES ASSUME TypeOK, CreditAccounted, [Next]_vars
             PROVE  CreditAccounted'
  OBVIOUS
<1>1. /\ creditUsed \in Nat /\ outstandingBalance \in Int /\ creditPaid \in Nat
      /\ canonical \in [Orders -> {"absent", "completed", "voided"}]
  BY DEF TypeOK, StoreTypeOK, TriggerTypeOK
<1>2. outstandingBalance = Sum(Charged) - creditPaid /\ creditUsed >= outstandingBalance
  BY DEF CreditAccounted, Charged
<1>3. SUFFICES /\ outstandingBalance' = Sum(Charged') - creditPaid'
               /\ creditUsed' >= outstandingBalance'
  BY DEF CreditAccounted, Charged
<1>4. canonical' = canonical => Charged' = Charged
  BY DEF Charged, Sold
<1>5. ASSUME NEW o \in Orders, SettleSale(o), UNCHANGED creditPaid
      PROVE  /\ outstandingBalance' = Sum(Charged') - creditPaid'
             /\ creditUsed' >= outstandingBalance'
  <2>1. /\ canonical[o] = "absent" /\ canonical' = [canonical EXCEPT ![o] = "completed"]
        /\ creditUsed' = creditUsed + CreditAmt[o]
        /\ outstandingBalance' = outstandingBalance + CreditAmt[o]
    BY <1>5, SettleBooks
  <2>2. /\ \A p \in Orders \ {o} : Charged'[p] = Charged[p]
        /\ Charged[o] = 0 /\ Charged'[o] = CreditAmt[o]
    BY <1>1, <2>1 DEF Charged, Sold
  <2>3. Sum(Charged) \in Int /\ Sum(Charged') = Sum(Charged) - Charged[o] + Charged'[o]
    BY <2>2, ChargedType, SaleTerm
  <2> QED
    BY <1>1, <1>2, <1>5, <2>1, <2>2, <2>3
<1>6. ASSUME NEW o \in Orders, NEW e \in Execs \cup {NoExec}, VoidApply(o, e), UNCHANGED creditPaid
      PROVE  /\ outstandingBalance' = Sum(Charged') - creditPaid'
             /\ creditUsed' >= outstandingBalance'
  <2>1. /\ canonical[o] = "completed" /\ canonical' = [canonical EXCEPT ![o] = "voided"]
        /\ creditUsed' = Max0(creditUsed - CreditAmt[o])
        /\ outstandingBalance' = outstandingBalance - CreditAmt[o]
    BY <1>6, ApplyBooks
  <2>2. /\ \A p \in Orders \ {o} : Charged'[p] = Charged[p]
        /\ Charged[o] = CreditAmt[o] /\ Charged'[o] = 0
    BY <1>1, <2>1 DEF Charged, Sold
  <2>3. Sum(Charged) \in Int /\ Sum(Charged') = Sum(Charged) - Charged[o] + Charged'[o]
    BY <2>2, ChargedType, SaleTerm, Z3
  <2> QED
    BY <1>1, <1>2, <1>6, <2>1, <2>2, <2>3 DEF Max0
<1>7. ASSUME NEW amount \in Payments, ReceiveCreditPayment(amount)
      PROVE  /\ outstandingBalance' = Sum(Charged') - creditPaid'
             /\ creditUsed' >= outstandingBalance'
  <2>1. Charged' = Charged
    BY <1>4, <1>7 DEF ReceiveCreditPayment, saleVars
  <2>2. Sum(Charged) \in Int
    <3>1. \A p \in Orders : Charged[p] \in Int
      BY ChargedType
    <3>2. Sum(Charged) = SumFunctionOnSet(Charged, Orders)
      BY SumOver DEF Charged
    <3>3. IsFiniteSet(Orders)
      OBVIOUS
    <3> QED
      BY <3>1, <3>2, <3>3, SumOne
  <2>3. amount \in Nat
    OBVIOUS
  <2> QED
    BY <1>1, <1>2, <1>7, <2>1, <2>2, <2>3 DEF ReceiveCreditPayment, Max0
<1>8. ASSUME NEW a \in Attempts, QuoteReturn(a) \/ CommitReturn(a) \/ ResolveAttempt(a)
      PROVE  canonical' = canonical /\ UNCHANGED creditVars
  BY <1>8 DEF QuoteReturn, CommitReturn, ResolveAttempt, storeVars, saleVars
<1> QED
  BY <1>2, <1>4, <1>5, <1>6, <1>7, <1>8, StepBooks DEF saleBooks, saleVars, creditVars

(* The account owes what the standing credit sales charged less what was   *)
(* paid, and creditUsed never understates it, for any sales and payments,  *)
(* whatever is delivered twice and wherever an invocation dies.            *)
THEOREM AccountBalances == Spec => []CreditAccounted
BY CreditInit, CreditStep, TypeCorrect, PTL DEF Spec

-----------------------------------------------------------------------------
(* A return puts back what it returns: the portions that go to lots of     *)
(* their own are those their lots do not take.                             *)
LEMMA GainsAreReturned ==
  ASSUME NEW q \in Nat, NEW put \in [Lots -> 0..q], NEW fresh \in [Lots -> 0..q],
         RestorationLots(put, fresh)
  PROVE  Sum([l \in Lots |-> Gain(put, fresh, l)]) = Units(put)
<1> DEFINE D == Displaced(put)
           kept == [l \in Lots |-> IF l \in D THEN 0 ELSE put[l]]
           moved == [l \in Lots |-> IF l \in D THEN put[l] ELSE 0]
           gains == [l \in Lots |-> Gain(put, fresh, l)]
<1>1. /\ kept \in [Lots -> Int] /\ moved \in [Lots -> Int] /\ fresh \in [Lots -> Int]
      /\ put \in [Lots -> Int]
  OBVIOUS
<1>2. gains \in [Lots -> Int] /\ \A l \in Lots : gains[l] = fresh[l] + kept[l]
  BY <1>1 DEF Gain
<1>3. \A l \in Lots : put[l] = moved[l] + kept[l]
  OBVIOUS
<1>4. D \in SUBSET Lots
  BY DEF Displaced
<1> HIDE DEF D, kept, gains
<1>5. Sum(gains) = Sum(fresh) + Sum(kept)
  BY <1>1, <1>2, LotTerms
<1>6. Sum(put) = Sum(moved) + Sum(kept)
  BY <1>1, <1>3, LotTerms
<1>7. Sum(moved) = SumFunctionOnSet(moved, D)
  <2>1. Sum(moved) = SumFunctionOnSet(moved, Lots)
    BY SumOver
  <2>2. (\A l \in Lots : moved[l] \in Int) /\ (\A l \in Lots \ D : moved[l] = 0)
    BY <1>1
  <2> QED
    BY <1>4, <2>1, <2>2, LotsFinite, SumSupport
<1>8. PICK target \in Injection(D, FreeLots) :
        /\ \A k \in D : fresh[target[k]] = put[k]
        /\ \A l \in Lots : fresh[l] > 0 => l \in Range(target)
  BY DEF RestorationLots, D
<1>9. /\ \A k \in D : fresh[target[k]] = moved[k] /\ target[k] \in Lots
      /\ \A j, k \in D : target[j] = target[k] => j = k
      /\ Range(target) = {target[k] : k \in D}
  BY <1>4, <1>8 DEF Injection, IsInjective, Range, FreeLots
<1>10. SumFunctionOnSet(fresh, Range(target)) = SumFunctionOnSet(moved, D)
  <2>1. IsFiniteSet(D) /\ \A k \in D : moved[k] \in Int
    BY <1>1, <1>4, LotsFinite, FS_Subset
  <2> HIDE DEF moved
  <2>2. SumFunctionOnSet(fresh, {target[k] : k \in D}) = SumFunctionOnSet(moved, D)
    BY <1>9, <2>1, SumInjected
  <2> QED
    BY <1>9, <2>2
<1>11. Sum(fresh) = SumFunctionOnSet(fresh, Range(target))
  <2>1. Sum(fresh) = SumFunctionOnSet(fresh, Lots)
    BY SumOver
  <2>2. /\ Range(target) \in SUBSET Lots
        /\ \A l \in Lots : fresh[l] \in Int
        /\ \A l \in Lots \ Range(target) : fresh[l] = 0
    <3>1. Range(target) \in SUBSET Lots
      <4>1. {target[k] : k \in D} \subseteq Lots
        <5>1. \A k \in D : target[k] \in Lots
          BY <1>9
        <5> QED
          BY <5>1
      <4> QED
        BY <1>9, <4>1
    <3>2. ASSUME NEW l \in Lots \ Range(target)
          PROVE  fresh[l] = 0
      <4>1. ~(fresh[l] > 0) /\ fresh[l] \in 0..q
        BY <1>8
      <4> QED
        BY <4>1
    <3> QED
      BY <1>1, <3>1, <3>2
  <2> QED
    BY <2>1, <2>2, LotsFinite, SumSupport
<1>12. Sum(put) = Units(put)
  BY SumIsUnits
<1> QED
  BY <1>5, <1>6, <1>7, <1>10, <1>11, <1>12 DEF gains

LEMMA ReturnBooks ==
  ASSUME NEW a \in Attempts, TypeOK, CommitReturn(a)
  PROVE  LET o == AttemptOrder[a]
             q == AttemptQty[a]
         IN  /\ o \in Orders /\ q \in Nat \ {0} /\ canonical[o] = "completed"
             /\ stock' = stock + q
             /\ moves' = [moves EXCEPT ![o] = [moves[o] EXCEPT !.return = moves[o].return + q]]
             /\ ledger'[o].count > 0 /\ \A p \in Orders \ {o} : ledger'[p] = ledger[p]
             /\ UNCHANGED <<canonical, cut, oversold>>
             /\ \E put \in [Lots -> Nat], gain \in [Lots -> Nat], fresh \in [Lots -> Nat] :
                  /\ Sum(gain) = q
                  /\ remaining' = [l \in Lots |-> remaining[l] + gain[l]]
                  /\ received' = [l \in Lots |-> received[l] + fresh[l]]
                  /\ depleted' = [l \in Lots |-> depleted[l] /\ gain[l] = 0]
                  /\ returnedFrom' = [returnedFrom EXCEPT ![o] = [l \in Lots |-> returnedFrom[o][l] + put[l]]]
                  /\ \A l \in Lots : /\ gain[l] <= fresh[l] + put[l]
<1> DEFINE o == AttemptOrder[a]
           q == AttemptQty[a]
<1>1. o \in Orders /\ q \in Nat \ {0} /\ ledger[o] \in Ledger
  BY DEF TypeOK, StoreTypeOK
<1>2. PICK put \in [Lots -> 0..q], fresh \in [Lots -> 0..q] :
        /\ RestorePlan(o, q, put)
        /\ RestorationLots(put, fresh)
        /\ received' = [l \in Lots |-> received[l] + fresh[l]]
        /\ remaining' = [l \in Lots |-> remaining[l] + Gain(put, fresh, l)]
        /\ depleted' = [l \in Lots |-> StillDepleted(l, Gain(put, fresh, l))]
        /\ returnedFrom' = [returnedFrom EXCEPT ![o] = [l \in Lots |-> returnedFrom[o][l] + put[l]]]
  BY DEF CommitReturn
<1> DEFINE gain == [l \in Lots |-> Gain(put, fresh, l)]
<1>3. Sum(gain) = q
  BY <1>1, <1>2, GainsAreReturned DEF RestorePlan
<1>4. put \in [Lots -> Nat] /\ fresh \in [Lots -> Nat] /\ gain \in [Lots -> Nat]
  BY <1>1, <1>2 DEF Gain
<1>5. \A l \in Lots : gain[l] <= fresh[l] + put[l]
  BY <1>4 DEF Gain
<1>6. depleted' = [l \in Lots |-> depleted[l] /\ gain[l] = 0]
  BY <1>2 DEF StillDepleted
<1>7. ledger'[o].count > 0 /\ \A p \in Orders \ {o} : ledger'[p] = ledger[p]
  BY <1>1 DEF CommitReturn, TypeOK, StoreTypeOK, Ledger
<1>8. remaining' = [l \in Lots |-> remaining[l] + gain[l]]
  BY <1>2
<1> HIDE DEF gain
<1> QED
  BY <1>1, <1>2, <1>3, <1>4, <1>5, <1>6, <1>7, <1>8 DEF CommitReturn, Returnable

-----------------------------------------------------------------------------
(* The stock.  The second equation needs that the lots a sale was cut from *)
(* and what it oversold make up the sale, for a void puts back the former  *)
(* and forgets the latter.                                                 *)
CutWhole == \A o \in Orders : canonical[o] # "absent" => Units(cut[o]) + oversold[o] = Qty[o]

Net == [o \in Orders |-> moves[o].void + moves[o].return - moves[o].sale]
Loose == [o \in Orders |-> IF Sold(o) THEN oversold[o] ELSE 0]

StockInv == CutWhole /\ StockAccounted

LEMMA StockTypes ==
  ASSUME TypeOK
  PROVE  /\ stock \in Int /\ Net \in [Orders -> Int] /\ Loose \in [Orders -> Int]
         /\ Sum(InitialLots) \in Int /\ Sum(Net) \in Int /\ Sum(Loose) \in Int /\ Sum(remaining) \in Int
         /\ remaining \in [Lots -> Int]
<1>1. stock \in Int /\ remaining \in [Lots -> Int] /\ InitialLots \in [Lots -> Int]
  BY DEF TypeOK, StoreTypeOK
<1>2. Net \in [Orders -> Int]
  BY DEF TypeOK, StoreTypeOK, Movements, Net
<1>3. Loose \in [Orders -> Int]
  BY DEF TypeOK, StoreTypeOK, Loose
<1>4. ASSUME NEW S, IsFiniteSet(S), NEW f \in [S -> Int]
      PROVE  Sum(f) \in Int
  <2>1. Sum(f) = SumFunctionOnSet(f, S) /\ \A x \in S : f[x] \in Int
    BY SumOver
  <2> QED
    BY <1>4, <2>1, SumOne
<1>5. IsFiniteSet(Orders)
  OBVIOUS
<1> QED
  BY <1>1, <1>2, <1>3, <1>4, <1>5, LotsFinite

LEMMA StockInit == Init => StockInv
<1> SUFFICES ASSUME Init PROVE StockInv
  OBVIOUS
<1>1. TypeOK
  BY InitType
<1>2. Sum(Net) = 0
  BY SalesZero DEF Net, Init, StoreInit
<1>3. Sum(Loose) = 0
  BY SalesZero DEF Loose, Sold, Init, StoreInit
<1>4. stock = Sum(InitialLots) /\ remaining = InitialLots
  BY SumIsUnits DEF Init, StoreInit
<1>5. CutWhole
  BY DEF CutWhole, Init, StoreInit
<1> QED
  BY <1>1, <1>2, <1>3, <1>4, <1>5, StockTypes DEF StockInv, StockAccounted, Net, Loose

LEMMA StockStep == TypeOK /\ StockInv /\ [Next]_vars => StockInv'
<1> SUFFICES ASSUME TypeOK, StockInv, [Next]_vars
             PROVE  StockInv'
  OBVIOUS
<1>t. TypeOK'
  BY NextType
<1>1. /\ stock = Sum(InitialLots) + Sum(Net)
      /\ stock = Sum(remaining) - Sum(Loose)
  BY DEF StockInv, StockAccounted, Net, Loose
<1>2. ASSUME stock' = Sum(InitialLots) + Sum(Net'), stock' = Sum(remaining') - Sum(Loose'), CutWhole'
      PROVE  StockInv'
  BY <1>2 DEF StockInv, StockAccounted, Net, Loose
<1>3. /\ Net' \in [Orders -> Int] /\ Loose' \in [Orders -> Int] /\ Sum(remaining') \in Int
      /\ remaining' \in [Lots -> Int]
  <2>1. Net' \in [Orders -> Int] /\ Loose' \in [Orders -> Int] /\ remaining' \in [Lots -> Int]
    BY <1>t DEF TypeOK, StoreTypeOK, Movements, Net, Loose
  <2>2. Sum(remaining') = SumFunctionOnSet(remaining', Lots) /\ \A l \in Lots : remaining'[l] \in Int
    BY <2>1, SumOver
  <2> QED
    BY <2>1, <2>2, LotsFinite, SumOne
<1>4. /\ moves \in [Orders -> Movements] /\ canonical \in [Orders -> {"absent", "completed", "voided"}]
      /\ oversold \in [Orders -> Nat] /\ cut \in [Orders -> [Lots -> Nat]]
  BY DEF TypeOK, StoreTypeOK
<1>5. CASE UNCHANGED saleBooks
  <2>1. Net' = Net /\ Loose' = Loose /\ CutWhole'
    BY <1>5 DEF Net, Loose, Sold, CutWhole, saleBooks, saleVars, StockInv, Units
  <2> QED
    BY <1>1, <1>2, <1>5, <2>1 DEF saleBooks, stockVars
<1>6. ASSUME NEW o \in Orders, SettleSale(o)
      PROVE  StockInv'
  <2>1. PICK take \in [Lots -> Nat], rest \in Nat :
           /\ canonical[o] = "absent" /\ canonical' = [canonical EXCEPT ![o] = "completed"]
           /\ Units(take) + rest = Qty[o]
           /\ cut' = [cut EXCEPT ![o] = take] /\ oversold' = [oversold EXCEPT ![o] = rest]
           /\ remaining' = [l \in Lots |-> remaining[l] - take[l]]
           /\ stock' = stock - Qty[o]
           /\ moves' = [moves EXCEPT ![o] = [moves[o] EXCEPT !.sale = moves[o].sale + Qty[o]]]
    BY <1>6, SettleBooks, Z3
  <2>2. Net'[o] = Net[o] - Qty[o] /\ \A p \in Orders \ {o} : Net'[p] = Net[p]
    BY <1>4, <2>1 DEF Net, Movements
  <2>3. Loose[o] = 0 /\ Loose'[o] = rest /\ \A p \in Orders \ {o} : Loose'[p] = Loose[p]
    BY <1>4, <2>1 DEF Loose, Sold
  <2>4. Sum(Net') = Sum(Net) - Qty[o]
    <3>1. Sum(Net') = Sum(Net) - Net[o] + Net'[o] /\ Net[o] \in Int
      BY <1>3, <2>2, StockTypes, SaleTerm
    <3> QED
      BY <2>2, <3>1, StockTypes
  <2>5. Sum(Loose') = Sum(Loose) + rest
    <3>1. Sum(Loose') = Sum(Loose) - Loose[o] + Loose'[o]
      BY <1>3, <2>3, StockTypes, SaleTerm
    <3> QED
      BY <2>3, <3>1, StockTypes
  <2>6. Sum(remaining) = Sum(remaining') + Units(take)
    <3>1. \A l \in Lots : remaining[l] = remaining'[l] + take[l]
      BY <2>1, StockTypes
    <3>2. take \in [Lots -> Int]
      BY <2>1
    <3> QED
      BY <1>3, <3>1, <3>2, StockTypes, LotTerms, SumIsUnits
  <2>7. Units(take) = Qty[o] - rest
    <3>1. Units(take) \in Int
      <4>1. Units(take) = SumFunctionOnSet(take, Lots) /\ \A l \in Lots : take[l] \in Int
        BY <2>1, SumOver
      <4> QED
        BY <4>1, LotsFinite, SumOne
    <3> QED
      BY <2>1, <3>1
  <2>8. CutWhole'
    BY <1>4, <2>1 DEF CutWhole, StockInv, Units
  <2>9. rest \in Int /\ Qty[o] \in Int
    BY <2>1
  <2> QED
    BY <1>1, <1>2, <1>3, <2>1, <2>4, <2>5, <2>6, <2>7, <2>8, <2>9, StockTypes
<1>7. ASSUME NEW o \in Orders, NEW e \in Execs \cup {NoExec}, VoidApply(o, e)
      PROVE  StockInv'
  <2>1. /\ canonical[o] = "completed" /\ canonical' = [canonical EXCEPT ![o] = "voided"]
        /\ remaining' = [l \in Lots |-> remaining[l] + cut[o][l]]
        /\ stock' = stock + Qty[o]
        /\ moves' = [moves EXCEPT ![o] = [moves[o] EXCEPT !.void = moves[o].void + Qty[o]]]
        /\ UNCHANGED <<cut, oversold>>
    BY <1>7, ApplyBooks
  <2>2. Net'[o] = Net[o] + Qty[o] /\ \A p \in Orders \ {o} : Net'[p] = Net[p]
    BY <1>4, <2>1 DEF Net, Movements
  <2>3. Loose[o] = oversold[o] /\ Loose'[o] = 0 /\ \A p \in Orders \ {o} : Loose'[p] = Loose[p]
    BY <1>4, <2>1 DEF Loose, Sold
  <2>4. Sum(Net') = Sum(Net) + Qty[o]
    <3>1. Sum(Net') = Sum(Net) - Net[o] + Net'[o] /\ Net[o] \in Int
      BY <1>3, <2>2, StockTypes, SaleTerm
    <3> QED
      BY <2>2, <3>1, StockTypes
  <2>5. Sum(Loose') = Sum(Loose) - oversold[o]
    <3>1. Sum(Loose') = Sum(Loose) - Loose[o] + Loose'[o]
      BY <1>3, <2>3, StockTypes, SaleTerm
    <3> QED
      BY <1>4, <2>3, <3>1, StockTypes
  <2>6. Sum(remaining') = Sum(remaining) + Units(cut[o]) /\ Units(cut[o]) \in Int
    <3>1. \A l \in Lots : remaining'[l] = remaining[l] + cut[o][l]
      BY <2>1
    <3>2. cut[o] \in [Lots -> Int]
      BY <1>4
    <3> QED
      BY <1>3, <3>1, <3>2, StockTypes, LotTerms, SumIsUnits
  <2>7. Units(cut[o]) + oversold[o] = Qty[o]
    BY <2>1 DEF StockInv, CutWhole
  <2>8. CutWhole'
    BY <1>4, <2>1 DEF CutWhole, StockInv, Units
  <2>9. oversold[o] \in Int /\ Qty[o] \in Int
    BY <1>4
  <2> QED
    BY <1>1, <1>2, <1>3, <2>1, <2>4, <2>5, <2>6, <2>7, <2>8, <2>9, StockTypes
<1>8. ASSUME NEW a \in Attempts, CommitReturn(a)
      PROVE  StockInv'
  <2> DEFINE o == AttemptOrder[a]
             q == AttemptQty[a]
  <2>1. PICK gain \in [Lots -> Nat] :
             /\ o \in Orders /\ q \in Nat
             /\ stock' = stock + q
             /\ moves' = [moves EXCEPT ![o] = [moves[o] EXCEPT !.return = moves[o].return + q]]
             /\ UNCHANGED <<canonical, cut, oversold>>
             /\ Sum(gain) = q
             /\ remaining' = [l \in Lots |-> remaining[l] + gain[l]]
    BY <1>8, ReturnBooks
  <2> HIDE DEF o, q
  <2>2. Net'[o] = Net[o] + q /\ \A p \in Orders \ {o} : Net'[p] = Net[p]
    BY <1>4, <2>1 DEF Net, Movements
  <2>3. Loose' = Loose /\ CutWhole'
    BY <2>1 DEF Loose, Sold, CutWhole, StockInv, Units
  <2>4. Sum(Net') = Sum(Net) + q
    <3>1. Sum(Net') = Sum(Net) - Net[o] + Net'[o] /\ Net[o] \in Int
      BY <1>3, <2>1, <2>2, StockTypes, SaleTerm
    <3> QED
      BY <2>1, <2>2, <3>1, StockTypes
  <2>5. Sum(remaining') = Sum(remaining) + q
    <3>1. \A l \in Lots : remaining'[l] = remaining[l] + gain[l]
      BY <2>1
    <3>2. gain \in [Lots -> Int]
      BY <2>1
    <3> QED
      BY <1>3, <2>1, <3>1, <3>2, StockTypes, LotTerms
  <2> QED
    BY <1>1, <1>2, <1>3, <2>1, <2>3, <2>4, <2>5, StockTypes
<1> QED
  BY <1>5, <1>6, <1>7, <1>8, StepBooks
  DEF QuoteReturn, ResolveAttempt, ReceiveCreditPayment, storeVars, saleBooks

(* The branch stock is what the movements say and what the lots hold, less *)
(* what is sold without a lot, for any sales and lots: every transaction   *)
(* writes the three together, and a void or a return puts back in the lots *)
(* exactly what the sale took from them.                                   *)
THEOREM StockBalances == Spec => []StockAccounted
<1>1. StockInv => StockAccounted
  BY DEF StockInv
<1> QED
  BY <1>1, StockInit, StockStep, TypeCorrect, PTL DEF Spec

-----------------------------------------------------------------------------
(* The lots.  A sale nothing came back from has all of its cut outstanding,*)
(* so a void of it, which restocks the whole cut, restocks no more.        *)
Untouched == \A o \in Orders : ~HasReturn(o) => \A l \in Lots : returnedFrom[o][l] = 0

Out(l) == [o \in Orders |-> Outstanding(o, l)]
Room(l) == remaining[l] + Sum(Out(l)) <= received[l]
Flagged(l) == depleted[l] <=> remaining[l] = 0

LotsInv == Untouched /\ LotsSound

LEMMA RoomAndFlag ==
  /\ LotsSound <=> \A l \in Lots : Room(l) /\ Flagged(l)
  /\ LotsSound' <=> \A l \in Lots : Room(l)' /\ Flagged(l)'
BY DEF LotsSound, Room, Flagged, Out

LEMMA EffectCorrect == Spec => [](TypeOK /\ EffectInv)
<1>1. TypeOK /\ DocInv /\ EffectInv /\ [Next]_vars => EffectInv'
  BY EffectInvNext
<1> QED
  BY <1>1, EffectInvInit, DocCorrect, PTL DEF Spec

LEMMA OutType == TypeOK => \A l \in Lots : Out(l) \in [Orders -> Int] /\ Sum(Out(l)) \in Int
<1> SUFFICES ASSUME TypeOK, NEW l \in Lots
             PROVE  Out(l) \in [Orders -> Int] /\ Sum(Out(l)) \in Int
  OBVIOUS
<1>1. Out(l) \in [Orders -> Int]
  BY DEF Out, Outstanding, TypeOK, StoreTypeOK, ReturnTypeOK
<1>2. Sum(Out(l)) = SumFunctionOnSet(Out(l), Orders) /\ \A o \in Orders : Out(l)[o] \in Int
  BY <1>1, SumOver
<1>3. IsFiniteSet(Orders)
  OBVIOUS
<1> QED
  BY <1>1, <1>2, <1>3, SumOne

LEMMA LotsInit == Init => LotsInv
<1> SUFFICES ASSUME Init PROVE LotsInv
  OBVIOUS
<1>1. Untouched
  BY DEF Untouched, Init, ReturnInit
<1>2. ASSUME NEW l \in Lots
      PROVE  Room(l) /\ Flagged(l)
  <2>1. Sum(Out(l)) = 0
    BY SalesZero DEF Out, Outstanding, Sold, Init, StoreInit
  <2>2. remaining[l] = received[l] /\ remaining[l] \in Nat
    BY DEF Init, StoreInit
  <2>3. Flagged(l)
    BY DEF Flagged, Init, StoreInit
  <2> QED
    BY <2>1, <2>2, <2>3 DEF Room
<1> QED
  BY <1>1, <1>2, RoomAndFlag DEF LotsInv

(* One lot, when what one sale has outstanding in it changes.              *)
LEMMA LotStep ==
  ASSUME TypeOK, TypeOK', NEW l \in Lots, NEW o \in Orders,
         \A p \in Orders \ {o} : Outstanding(p, l)' = Outstanding(p, l),
         Room(l),
         remaining'[l] + Outstanding(o, l)' - received'[l] <= remaining[l] + Outstanding(o, l) - received[l]
  PROVE  Room(l)'
<1>1. Out(l) \in [Orders -> Int] /\ Out(l)' \in [Orders -> Int]
  BY DEF Out, Outstanding, TypeOK, StoreTypeOK, ReturnTypeOK
<1>2. \A p \in Orders \ {o} : Out(l)'[p] = Out(l)[p]
  BY DEF Out
<1>3. Sum(Out(l)) \in Int /\ Sum(Out(l)') = Sum(Out(l)) - Out(l)[o] + Out(l)'[o]
  BY <1>1, <1>2, SaleTerm
<1>4. Out(l)[o] = Outstanding(o, l) /\ Out(l)'[o] = Outstanding(o, l)'
  BY DEF Out
<1>5. Outstanding(o, l) \in Int /\ Outstanding(o, l)' \in Int
  BY <1>1, <1>4
<1>6. remaining[l] \in Int /\ received[l] \in Int /\ remaining'[l] \in Int /\ received'[l] \in Int
  BY DEF TypeOK, StoreTypeOK
<1>7. Sum(Out(l))' = Sum(Out(l)')
  BY DEF Sum
<1> QED
  BY <1>3, <1>4, <1>5, <1>6, <1>7 DEF Room

LEMMA LotsStep == TypeOK /\ EffectInv /\ LotsInv /\ [Next]_vars => LotsInv'
<1> SUFFICES ASSUME TypeOK, EffectInv, LotsInv, [Next]_vars
             PROVE  LotsInv'
  OBVIOUS
<1>t. TypeOK'
  BY NextType
<1>1. Untouched /\ \A l \in Lots : Room(l) /\ Flagged(l)
  BY RoomAndFlag DEF LotsInv
<1>2. /\ canonical \in [Orders -> {"absent", "completed", "voided"}]
      /\ cut \in [Orders -> [Lots -> Nat]] /\ returnedFrom \in [Orders -> [Lots -> Nat]]
      /\ remaining \in [Lots -> Nat] /\ received \in [Lots -> Nat] /\ depleted \in [Lots -> BOOLEAN]
      /\ ledger \in [Orders -> Ledger]
  BY DEF TypeOK, StoreTypeOK, ReturnTypeOK
<1>3. SUFFICES Untouched' /\ \A l \in Lots : Room(l)' /\ Flagged(l)'
  BY RoomAndFlag DEF LotsInv
<1>4. ASSUME UNCHANGED saleBooks, UNCHANGED returnedFrom
      PROVE  Untouched' /\ \A l \in Lots : Room(l)' /\ Flagged(l)'
  BY <1>1, <1>4 DEF Untouched, HasReturn, Room, Flagged, Out, Outstanding, Sold, saleBooks, saleVars,
                    stockVars, Sum
<1>5. ASSUME NEW o \in Orders, SettleSale(o), UNCHANGED returnVars
      PROVE  Untouched' /\ \A l \in Lots : Room(l)' /\ Flagged(l)'
  <2>1. PICK take \in [Lots -> Nat] :
           /\ canonical[o] = "absent" /\ canonical' = [canonical EXCEPT ![o] = "completed"]
           /\ cut' = [cut EXCEPT ![o] = take]
           /\ remaining' = [l \in Lots |-> remaining[l] - take[l]]
           /\ \A l \in Lots : depleted'[l] = IF take[l] > 0 THEN remaining[l] = take[l] ELSE depleted[l]
           /\ UNCHANGED <<received, ledger>>
    BY <1>5, SettleBooks
  <2>2. UNCHANGED returnedFrom
    BY <1>5 DEF returnVars
  <2>3. ~HasReturn(o)
    BY <2>1 DEF EffectInv, LedgerSound, Sold
  <2>4. Untouched'
    BY <1>1, <2>1, <2>2 DEF Untouched, HasReturn
  <2>5. ASSUME NEW l \in Lots
        PROVE  Room(l)' /\ Flagged(l)'
    <3>1. returnedFrom[o][l] = 0
      BY <1>1, <2>3 DEF Untouched
    <3>2. Outstanding(o, l) = 0 /\ Outstanding(o, l)' = take[l]
      BY <1>2, <2>1, <2>2, <3>1 DEF Outstanding, Sold
    <3>3. \A p \in Orders \ {o} : Outstanding(p, l)' = Outstanding(p, l)
      BY <1>2, <2>1, <2>2 DEF Outstanding, Sold
    <3>4. remaining'[l] = remaining[l] - take[l] /\ received'[l] = received[l] /\ take[l] \in Nat
      BY <2>1
    <3>5. remaining[l] \in Nat /\ received[l] \in Nat /\ remaining'[l] \in Nat
      BY <1>2, <1>t DEF TypeOK, StoreTypeOK
    <3>6. Room(l)'
      <4>1. remaining'[l] + Outstanding(o, l)' - received'[l] <= remaining[l] + Outstanding(o, l) - received[l]
        BY <3>2, <3>4, <3>5
      <4> QED
        BY <1>1, <1>t, <3>3, <4>1, LotStep
    <3>7. Flagged(l)'
      <4>1. depleted'[l] = IF take[l] > 0 THEN remaining[l] = take[l] ELSE depleted[l]
        BY <2>1
      <4>2. depleted[l] <=> remaining[l] = 0
        BY <1>1 DEF Flagged
      <4>3. CASE take[l] > 0
        <5>1. depleted'[l] <=> remaining[l] = take[l]
          BY <4>1, <4>3
        <5>2. remaining[l] = take[l] <=> remaining'[l] = 0
          BY <3>4, <3>5
        <5> QED
          BY <5>1, <5>2 DEF Flagged
      <4>4. CASE ~(take[l] > 0)
        <5>1. depleted'[l] = depleted[l]
          BY <4>1, <4>4
        <5>2. remaining'[l] = remaining[l]
          BY <3>4, <3>5, <4>4
        <5> QED
          BY <4>2, <5>1, <5>2 DEF Flagged
      <4> QED
        BY <4>3, <4>4
    <3> QED
      BY <3>6, <3>7
  <2> QED
    BY <2>4, <2>5
<1>6. ASSUME NEW o \in Orders, NEW e \in Execs \cup {NoExec}, VoidApply(o, e), UNCHANGED returnVars
      PROVE  Untouched' /\ \A l \in Lots : Room(l)' /\ Flagged(l)'
  <2>1. /\ canonical[o] = "completed" /\ ~HasReturn(o)
        /\ canonical' = [canonical EXCEPT ![o] = "voided"]
        /\ remaining' = [l \in Lots |-> remaining[l] + cut[o][l]]
        /\ depleted' = [l \in Lots |-> depleted[l] /\ cut[o][l] = 0]
        /\ UNCHANGED <<received, cut, ledger>>
    BY <1>6, ApplyBooks
  <2>2. UNCHANGED returnedFrom
    BY <1>6 DEF returnVars
  <2>3. Untouched'
    BY <1>1, <2>1, <2>2 DEF Untouched, HasReturn
  <2>4. ASSUME NEW l \in Lots
        PROVE  Room(l)' /\ Flagged(l)'
    <3>1. returnedFrom[o][l] = 0 /\ cut[o][l] \in Nat
      BY <1>1, <1>2, <2>1 DEF Untouched
    <3>2. Outstanding(o, l) = cut[o][l] /\ Outstanding(o, l)' = 0
      BY <1>2, <2>1, <3>1 DEF Outstanding, Sold
    <3>3. \A p \in Orders \ {o} : Outstanding(p, l)' = Outstanding(p, l)
      BY <1>2, <2>1, <2>2 DEF Outstanding, Sold
    <3>4. remaining'[l] = remaining[l] + cut[o][l] /\ received'[l] = received[l]
      BY <2>1
    <3>5. remaining[l] \in Nat /\ received[l] \in Nat
      BY <1>2
    <3>6. Room(l)'
      <4>1. remaining'[l] + Outstanding(o, l)' - received'[l] <= remaining[l] + Outstanding(o, l) - received[l]
        BY <3>1, <3>2, <3>4, <3>5
      <4> QED
        BY <1>1, <1>t, <3>3, <4>1, LotStep
    <3>7. Flagged(l)'
      <4>1. depleted'[l] <=> depleted[l] /\ cut[o][l] = 0
        BY <2>1
      <4>2. depleted[l] <=> remaining[l] = 0
        BY <1>1 DEF Flagged
      <4>3. remaining'[l] = 0 <=> remaining[l] = 0 /\ cut[o][l] = 0
        BY <3>1, <3>4, <3>5
      <4> QED
        BY <4>1, <4>2, <4>3 DEF Flagged
    <3> QED
      BY <3>6, <3>7
  <2> QED
    BY <2>3, <2>4
<1>7. ASSUME NEW a \in Attempts, CommitReturn(a)
      PROVE  Untouched' /\ \A l \in Lots : Room(l)' /\ Flagged(l)'
  <2> DEFINE o == AttemptOrder[a]
  <2>1. PICK put \in [Lots -> Nat], gain \in [Lots -> Nat], fresh \in [Lots -> Nat] :
          /\ o \in Orders /\ canonical[o] = "completed"
          /\ ledger'[o].count > 0 /\ \A p \in Orders \ {o} : ledger'[p] = ledger[p]
          /\ UNCHANGED <<canonical, cut>>
          /\ remaining' = [l \in Lots |-> remaining[l] + gain[l]]
          /\ received' = [l \in Lots |-> received[l] + fresh[l]]
          /\ depleted' = [l \in Lots |-> depleted[l] /\ gain[l] = 0]
          /\ returnedFrom' = [returnedFrom EXCEPT ![o] = [l \in Lots |-> returnedFrom[o][l] + put[l]]]
          /\ \A l \in Lots : gain[l] <= fresh[l] + put[l]
    BY <1>7, ReturnBooks
  <2> HIDE DEF o
  <2>2. Untouched'
    BY <1>1, <1>2, <2>1 DEF Untouched, HasReturn
  <2>3. ASSUME NEW l \in Lots
        PROVE  Room(l)' /\ Flagged(l)'
    <3>1. /\ put[l] \in Nat /\ gain[l] \in Nat /\ fresh[l] \in Nat /\ gain[l] <= fresh[l] + put[l]
          /\ cut[o][l] \in Nat /\ returnedFrom[o][l] \in Nat
      BY <1>2, <2>1
    <3>2. returnedFrom'[o][l] = returnedFrom[o][l] + put[l]
      BY <1>2, <2>1
    <3>3. Outstanding(o, l) = cut[o][l] - returnedFrom[o][l] /\ Outstanding(o, l)' = cut[o][l] - returnedFrom'[o][l]
      BY <2>1 DEF Outstanding, Sold
    <3>4. \A p \in Orders \ {o} : Outstanding(p, l)' = Outstanding(p, l)
      BY <1>2, <2>1 DEF Outstanding, Sold
    <3>5. remaining'[l] = remaining[l] + gain[l] /\ received'[l] = received[l] + fresh[l]
      BY <2>1
    <3>6. remaining[l] \in Nat /\ received[l] \in Nat
      BY <1>2
    <3>7. Room(l)'
      <4>1. remaining'[l] + Outstanding(o, l)' - received'[l] <= remaining[l] + Outstanding(o, l) - received[l]
        BY <3>1, <3>2, <3>3, <3>5, <3>6
      <4> QED
        BY <1>1, <1>t, <2>1, <3>4, <4>1, LotStep
    <3>8. Flagged(l)'
      <4>1. depleted'[l] <=> depleted[l] /\ gain[l] = 0
        BY <2>1
      <4>2. depleted[l] <=> remaining[l] = 0
        BY <1>1 DEF Flagged
      <4>3. remaining'[l] = 0 <=> remaining[l] = 0 /\ gain[l] = 0
        BY <3>1, <3>5, <3>6
      <4> QED
        BY <4>1, <4>2, <4>3 DEF Flagged
    <3> QED
      BY <3>7, <3>8
  <2> QED
    BY <2>2, <2>3
<1>8. ASSUME NEW a \in Attempts, QuoteReturn(a) \/ ResolveAttempt(a)
      PROVE  UNCHANGED saleBooks /\ UNCHANGED returnedFrom
  BY <1>8 DEF QuoteReturn, ResolveAttempt, storeVars, saleBooks
<1>9. ASSUME NEW amount \in Payments, ReceiveCreditPayment(amount), UNCHANGED returnVars
      PROVE  UNCHANGED saleBooks /\ UNCHANGED returnedFrom
  BY <1>9 DEF ReceiveCreditPayment, saleBooks, returnVars
<1> QED
  BY <1>4, <1>5, <1>6, <1>7, <1>8, <1>9, StepBooks DEF returnVars

(* A lot has room for every unit that may still come back to it, from      *)
(* every standing sale that was cut from it, and the flag the FIFO query   *)
(* filters on says exactly that the lot is empty.                          *)
THEOREM LotsKeepRoom == Spec => []LotsSound
<1>1. LotsInv => LotsSound
  BY DEF LotsInv
<1>2. TypeOK /\ EffectInv /\ LotsInv /\ [Next]_vars => LotsInv'
  BY LotsStep
<1> QED
  BY <1>1, <1>2, LotsInit, EffectCorrect, PTL DEF Spec

-----------------------------------------------------------------------------
(* The refunds.  The rounded share of what came back grows with what came  *)
(* back, and is the whole share when everything did.                       *)
LEMMA DivisionIs ==
  ASSUME NEW d \in Nat, d # 0, NEW k \in Int, NEW r \in Nat, r < d
  PROVE  (d * k + r) \div d = k
OBVIOUS

LEMMA DivisionGrows ==
  ASSUME NEW d \in Nat, d # 0, NEW x \in Int, NEW y \in Int, x <= y
  PROVE  x \div d <= y \div d
OBVIOUS

LEMMA ProductGrows ==
  ASSUME NEW s \in Nat, NEW n \in Nat, NEW m \in Nat, n <= m
  PROVE  s * n <= s * m
OBVIOUS

LEMMA RefundWithinShare ==
  ASSUME NEW o \in Orders, NEW n \in 0..Qty[o]
  PROVE  /\ CumulativeRefund(o, n) <= Share[o]
         /\ CumulativeRefund(o, Qty[o]) = Share[o]
<1> DEFINE S == Share[o]
           Q == Qty[o]
           d == 2 * Q
<1>1. S \in Nat /\ Q \in Nat \ {0} /\ n \in Nat /\ n <= Q
  OBVIOUS
<1>2. d \in Nat /\ d # 0 /\ Q < d
  BY <1>1
<1>3. CumulativeRefund(o, Q) = (2 * S * Q + Q) \div d
  BY <1>1 DEF CumulativeRefund
<1>4. CumulativeRefund(o, n) = IF n = 0 THEN 0 ELSE (2 * S * n + Q) \div d
  BY DEF CumulativeRefund
<1> HIDE DEF S, Q
<1>5. 2 * S * Q + Q = d * S + Q
  BY <1>1
<1>6. S * n <= S * Q /\ S * n \in Nat /\ S * Q \in Nat
  BY <1>1, ProductGrows
<1>7. /\ 2 * S * n + Q <= 2 * S * Q + Q
      /\ 2 * S * n + Q \in Int /\ 2 * S * Q + Q \in Int
  <2>1. 2 * S * n = 2 * (S * n) /\ 2 * S * Q = 2 * (S * Q)
    BY <1>1
  <2> QED
    BY <1>1, <1>6, <2>1
<1> HIDE DEF d
<1>8. (d * S + Q) \div d = S
  BY <1>1, <1>2, DivisionIs
<1>9. (2 * S * n + Q) \div d <= (2 * S * Q + Q) \div d
  BY <1>2, <1>7, DivisionGrows
<1> QED
  BY <1>1, <1>3, <1>4, <1>5, <1>8, <1>9 DEF S, Q

(* An attempt that was quoted replaces one that is fenced for good, and an *)
(* attempt has refunded nothing before it commits.                         *)
AttemptSound(a) ==
  /\ attempt[a].status # "new" /\ Replaces[a] # NoAttempt => attempt[Replaces[a]].status = "fenced"
  /\ attempt[a].status # "committed" => attempt[a].refund = 0

AttemptsOf(o) == {b \in Attempts : AttemptOrder[b] = o}
RefundsOf(o) == [a \in AttemptsOf(o) |-> attempt[a].refund]

RefundInv ==
  /\ \A a \in Attempts : AttemptSound(a)
  /\ \A o \in Orders : ledger[o].refunded = Sum(RefundsOf(o))

LEMMA AttemptsFinite == \A o \in Orders : IsFiniteSet(AttemptsOf(o))
<1>1. IsFiniteSet(Attempts) /\ \A o \in Orders : AttemptsOf(o) \in SUBSET Attempts
  BY DEF AttemptsOf
<1> QED
  BY <1>1, FS_Subset

LEMMA RefundInit == Init => RefundInv
<1> SUFFICES ASSUME Init PROVE RefundInv
  OBVIOUS
<1>1. \A a \in Attempts : AttemptSound(a)
  BY DEF AttemptSound, Init, ReturnInit
<1>2. ASSUME NEW o \in Orders
      PROVE  ledger[o].refunded = Sum(RefundsOf(o))
  <2>1. Sum(RefundsOf(o)) = SumFunctionOnSet(RefundsOf(o), AttemptsOf(o))
    BY SumOver DEF RefundsOf
  <2>2. \A a \in AttemptsOf(o) : RefundsOf(o)[a] = 0
    BY DEF RefundsOf, AttemptsOf, Init, ReturnInit
  <2>3. SumFunctionOnSet(RefundsOf(o), AttemptsOf(o)) = 0
    BY <2>2, AttemptsFinite, SumZero
  <2> QED
    BY <2>1, <2>3 DEF Init, StoreInit
<1> QED
  BY <1>1, <1>2 DEF RefundInv

(* A step that writes one attempt, from a status that is not final.        *)
LEMMA AttemptStep ==
  ASSUME TypeOK, NEW a \in Attempts, NEW new \in Attempt, \A b \in Attempts : AttemptSound(b),
         attempt' = [attempt EXCEPT ![a] = new],
         attempt[a].status \in {"new", "quoted"},
         Replaces[a] # NoAttempt => attempt[Replaces[a]].status = "fenced",
         new.status # "committed" => new.refund = 0
  PROVE  \A b \in Attempts : AttemptSound(b)'
<1> SUFFICES ASSUME NEW b \in Attempts PROVE AttemptSound(b)'
  OBVIOUS
<1>1. attempt \in [Attempts -> Attempt]
  BY DEF TypeOK, ReturnTypeOK
<1>2. ASSUME NEW c \in Attempts, attempt[c].status = "fenced"
      PROVE  attempt'[c].status = "fenced"
  BY <1>1, <1>2
<1>3. attempt'[b] = IF b = a THEN new ELSE attempt[b]
  BY <1>1
<1>4. AttemptSound(b)
  OBVIOUS
<1>5. Replaces[b] \in Attempts \cup {NoAttempt}
  OBVIOUS
<1> QED
  BY <1>2, <1>3, <1>4, <1>5 DEF AttemptSound

LEMMA RefundStep == TypeOK /\ RefundInv /\ [Next]_vars => RefundInv'
<1> SUFFICES ASSUME TypeOK, RefundInv, [Next]_vars
             PROVE  RefundInv'
  OBVIOUS
<1>t. TypeOK'
  BY NextType
<1>1. /\ attempt \in [Attempts -> Attempt] /\ ledger \in [Orders -> Ledger]
      /\ \A a \in Attempts : AttemptSound(a)
  BY DEF TypeOK, StoreTypeOK, ReturnTypeOK, RefundInv
<1>2. ASSUME ledger' = ledger, \A a \in Attempts : attempt'[a].refund = attempt[a].refund
      PROVE  \A o \in Orders : ledger'[o].refunded = Sum(RefundsOf(o))'
  <2>1. \A o \in Orders : RefundsOf(o)' = RefundsOf(o)
    BY <1>2 DEF RefundsOf, AttemptsOf
  <2> QED
    BY <1>2, <2>1 DEF RefundInv, Sum
<1>3. ASSUME UNCHANGED <<attempt, ledger>>
      PROVE  RefundInv'
  BY <1>1, <1>2, <1>3 DEF RefundInv, AttemptSound
<1>4. ASSUME NEW a \in Attempts, QuoteReturn(a)
      PROVE  RefundInv'
  <2> DEFINE o == AttemptOrder[a]
             quote == RefundFor(o, ledger[o].returned, AttemptQty[a])
             new == [attempt[a] EXCEPT !.status = "quoted", !.quote = quote]
  <2>1. /\ attempt' = [attempt EXCEPT ![a] = new] /\ ledger' = ledger
        /\ attempt[a].status = "new"
        /\ Replaces[a] # NoAttempt => attempt[Replaces[a]].status = "fenced"
    BY <1>4 DEF QuoteReturn, storeVars, saleVars
  <2>2. attempt[a] \in Attempt /\ attempt'[a] \in Attempt
    BY <1>1, <1>t DEF TypeOK, ReturnTypeOK
  <2>3. new \in Attempt
    BY <1>1, <2>1, <2>2
  <2> HIDE DEF quote
  <2>4. new.status = "quoted" /\ new.refund = attempt[a].refund
    BY <2>2 DEF Attempt
  <2> HIDE DEF new
  <2>5. new.refund = 0
    BY <1>1, <2>1, <2>4 DEF AttemptSound
  <2>6. \A b \in Attempts : AttemptSound(b)'
    BY <1>1, <2>1, <2>3, <2>5, AttemptStep
  <2>7. \A b \in Attempts : attempt'[b].refund = attempt[b].refund
    BY <1>1, <2>1, <2>4
  <2> QED
    BY <1>2, <2>1, <2>6, <2>7 DEF RefundInv
<1>5. ASSUME NEW a \in Attempts, ResolveAttempt(a)
      PROVE  RefundInv'
  <2> DEFINE new == [attempt[a] EXCEPT !.status = "fenced"]
  <2>1. /\ attempt' = [attempt EXCEPT ![a] = new] /\ ledger' = ledger
        /\ attempt[a].status = "quoted"
    BY <1>5 DEF ResolveAttempt, Undecided, storeVars, saleVars
  <2>2. attempt[a] \in Attempt
    BY <1>1
  <2>3. new \in Attempt /\ new.status = "fenced" /\ new.refund = attempt[a].refund
    BY <2>2 DEF Attempt
  <2> HIDE DEF new
  <2>4. new.refund = 0 /\ (Replaces[a] # NoAttempt => attempt[Replaces[a]].status = "fenced")
    BY <1>1, <2>1, <2>3 DEF AttemptSound
  <2>5. \A b \in Attempts : AttemptSound(b)'
    BY <1>1, <2>1, <2>3, <2>4, AttemptStep
  <2>6. \A b \in Attempts : attempt'[b].refund = attempt[b].refund
    BY <1>1, <2>1, <2>3
  <2> QED
    BY <1>2, <2>1, <2>5, <2>6 DEF RefundInv
<1>6. ASSUME NEW a \in Attempts, CommitReturn(a)
      PROVE  RefundInv'
  <2> DEFINE o == AttemptOrder[a]
             new == [attempt[a] EXCEPT !.status = "committed", !.refund = attempt[a].quote]
  <2>1. /\ attempt' = [attempt EXCEPT ![a] = new] /\ attempt[a].status = "quoted"
        /\ ledger' = [ledger EXCEPT ![o] =
             [count |-> ledger[o].count + 1, returned |-> ledger[o].returned + AttemptQty[a],
              refunded |-> ledger[o].refunded + attempt[a].quote]]
    BY <1>6 DEF CommitReturn, Undecided
  <2>2. attempt[a] \in Attempt /\ o \in Orders /\ attempt[a].quote \in Int
    BY <1>1 DEF Attempt
  <2>3. new \in Attempt /\ new.status = "committed" /\ new.refund = attempt[a].quote
    BY <2>2 DEF Attempt
  <2>o. a \in AttemptsOf(o)
    BY DEF AttemptsOf
  <2> HIDE DEF new, o
  <2>4. attempt[a].refund = 0 /\ (Replaces[a] # NoAttempt => attempt[Replaces[a]].status = "fenced")
    BY <1>1, <2>1 DEF AttemptSound
  <2>5. \A b \in Attempts : AttemptSound(b)'
    BY <1>1, <2>1, <2>3, <2>4, AttemptStep
  <2>6. \A b \in Attempts \ {a} : attempt'[b] = attempt[b]
    BY <1>1, <2>1
  <2>7. attempt'[a].refund = attempt[a].quote
    BY <1>1, <2>1, <2>3
  <2>8. ASSUME NEW p \in Orders
        PROVE  ledger'[p].refunded = Sum(RefundsOf(p))'
    <3>1. ledger[p].refunded = Sum(RefundsOf(p)) /\ Sum(RefundsOf(p))' = Sum(RefundsOf(p)')
      BY DEF RefundInv, Sum
    <3>2. CASE p # o
      <4>1. a \notin AttemptsOf(p)
        BY <3>2 DEF AttemptsOf, o
      <4>2. RefundsOf(p)' = RefundsOf(p)
        BY <2>6, <4>1 DEF RefundsOf, AttemptsOf
      <4>3. ledger'[p] = ledger[p]
        BY <1>1, <2>1, <3>2
      <4> QED
        BY <3>1, <4>2, <4>3
    <3>3. CASE p = o
      <4> DEFINE f == RefundsOf(o)
                 g == RefundsOf(o)'
                 A == AttemptsOf(o)
      <4>1. A \in SUBSET Attempts
        BY DEF AttemptsOf
      <4>2. \A b \in A : f[b] = attempt[b].refund /\ g[b] = attempt'[b].refund
        BY DEF RefundsOf, AttemptsOf
      <4>3. \A b \in A : f[b] \in Int
        BY <1>1, <4>1, <4>2 DEF Attempt
      <4>4. f[a] = 0 /\ g[a] = attempt[a].quote /\ g[a] \in Int
        BY <2>2, <2>4, <2>7, <2>o, <4>2
      <4>5. \A b \in A \ {a} : g[b] = f[b]
        BY <2>6, <4>1, <4>2
      <4>6. Sum(f) = SumFunctionOnSet(f, A) /\ Sum(g) = SumFunctionOnSet(g, A)
        BY SumOver DEF RefundsOf, AttemptsOf
      <4>7. IsFiniteSet(A) /\ a \in A
        BY <2>2, <2>o, AttemptsFinite
      <4> HIDE DEF f, g, A
      <4>8. /\ SumFunctionOnSet(f, A) \in Int
            /\ SumFunctionOnSet(g, A) = SumFunctionOnSet(f, A) - f[a] + g[a]
        BY <4>3, <4>4, <4>5, <4>7, SumUpdate
      <4>9. Sum(g) = Sum(f) + attempt[a].quote
        BY <2>2, <4>4, <4>6, <4>8
      <4>10. ledger'[o].refunded = ledger[o].refunded + attempt[a].quote
        BY <1>1, <2>1, <2>2
      <4> QED
        BY <3>1, <3>3, <4>9, <4>10 DEF f, g
    <3> QED
      BY <3>2, <3>3
  <2> QED
    BY <2>5, <2>8 DEF RefundInv
<1>7. ASSUME NEW o \in Orders, SettleSale(o), UNCHANGED returnVars
      PROVE  RefundInv'
  BY <1>3, <1>7 DEF SettleSale, returnVars
<1>8. ASSUME NEW o \in Orders, NEW e \in Execs \cup {NoExec}, VoidApply(o, e), UNCHANGED returnVars
      PROVE  RefundInv'
  BY <1>3, <1>8 DEF VoidApply, returnVars
<1>9. ASSUME NEW amount \in Payments, ReceiveCreditPayment(amount), UNCHANGED returnVars
      PROVE  RefundInv'
  BY <1>3, <1>9 DEF ReceiveCreditPayment, returnVars, saleVars
<1>10. CASE UNCHANGED <<saleBooks, creditVars, creditPaid, returnVars>>
  BY <1>3, <1>10 DEF saleBooks, saleVars, returnVars
<1> QED
  BY <1>4, <1>5, <1>6, <1>7, <1>8, <1>9, <1>10, StepBooks

(* The refunds of a sale are those of its committed attempts, each paid    *)
(* once though an attempt is submitted again, and add up to the rounded    *)
(* share of what came back: rounding never drifts, and the whole share is  *)
(* refunded when the whole sale is back, for any shares and quantities.    *)
THEOREM RefundsAddUp == Spec => []RefundExact
<1>1. TypeOK /\ EffectInv /\ RefundInv => RefundExact
  <2> SUFFICES ASSUME TypeOK, EffectInv, RefundInv
               PROVE  RefundExact
    OBVIOUS
  <2>1. RefundedOnce
    BY DEF RefundedOnce, RefundInv, AttemptSound
  <2>2. ASSUME NEW o \in Orders
        PROVE  /\ ledger[o].refunded = Sum(RefundsOf(o))
               /\ ledger[o].refunded = CumulativeRefund(o, ledger[o].returned)
               /\ ledger[o].refunded <= Share[o]
               /\ ledger[o].returned = Qty[o] => ledger[o].refunded = Share[o]
    <3>1. /\ ledger[o].refunded = CumulativeRefund(o, ledger[o].returned)
          /\ ledger[o].returned <= Qty[o]
      BY DEF EffectInv, LedgerSound
    <3>2. ledger[o].returned \in 0..Qty[o]
      BY <3>1 DEF TypeOK, StoreTypeOK, Ledger
    <3> QED
      BY <3>1, <3>2, RefundWithinShare DEF RefundInv
  <2> QED
    BY <2>1, <2>2 DEF RefundExact, RefundsOf, AttemptsOf
<1>2. TypeOK /\ RefundInv /\ [Next]_vars => RefundInv'
  BY RefundStep
<1> QED
  BY <1>1, <1>2, RefundInit, EffectCorrect, PTL DEF Spec
=============================================================================
