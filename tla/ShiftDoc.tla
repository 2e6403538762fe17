------------------------------ MODULE ShiftDoc ------------------------------
(***************************************************************************)
(* One shift document on the server and what writes it: cash movements of  *)
(* the terminals, cash refunds of the return callable, the close, and the  *)
(* mark that the close is synced.  A cash movement stands for its amount:  *)
(* the figures of a close are the movements it folded and the money the    *)
(* cashier counted.                                                        *)
(***************************************************************************)
EXTENDS Naturals, FiniteSets

CONSTANTS Devices,     \* terminals the shift's owner is signed in on
          Cash,        \* cash movements of the shift
          Refunds,     \* those of them that the return callable writes
          CashDevice,  \* the terminal each movement is made on
          Counts,      \* amounts the cashier may count
          None

(* A terminal mints at most two correlation ids for a shift: one for the   *)
(* close it journals offline, one for its online attempt.                  *)
Corrs == Devices \X {"offline", "online"}
Figures == [cash : SUBSET Cash, count : Counts]

ASSUME ShiftAssumption ==
  /\ Refunds \subseteq Cash
  /\ CashDevice \in [Cash -> Devices]
  /\ None \notin Corrs /\ None \notin Figures

VARIABLES
  shift,      \* the document: status, closing correlation and figures, sync state, cash entries
  authored,   \* whether the callable's authority record of the close exists
  sealed,     \* whether the rules that refuse a client's close are deployed
  refund,     \* refund -> where its submission stands
  guard,      \* terminal -> refunds it must not close offline over
  seen,       \* terminal -> cash movements of its mounted shift and cache
  seenClosed, \* terminal -> whether its cache shows the shift closed
  unsent      \* terminal -> queued writes of cash movements

shiftVars == <<shift, authored, sealed, refund, guard, seen, seenClosed, unsent>>
cashVars == <<refund, guard, unsent>>

Closed == shift.status = "closed"

ShiftTypeOK ==
  /\ shift \in [status : {"open", "closed"}, corr : Corrs \cup {None},
                figures : Figures \cup {None}, sync : {"none", "pending", "synced"},
                cash : SUBSET Cash]
  /\ authored \in BOOLEAN /\ sealed \in BOOLEAN
  /\ refund \in [Refunds -> {"unsent", "sent", "committed", "refused"}]
  /\ guard \in [Devices -> SUBSET Refunds]
  /\ seen \in [Devices -> SUBSET Cash] /\ seenClosed \in [Devices -> BOOLEAN]
  /\ unsent \in [Devices -> SUBSET Cash]

ShiftInit ==
  /\ shift = [status |-> "open", corr |-> None, figures |-> None, sync |-> "none", cash |-> {}]
  /\ authored = FALSE /\ sealed = FALSE
  /\ refund = [r \in Refunds |-> "unsent"]
  /\ guard = [d \in Devices |-> {}]
  /\ seen = [d \in Devices |-> {}] /\ seenClosed = [d \in Devices |-> FALSE]
  /\ unsent = [d \in Devices |-> {}]

-----------------------------------------------------------------------------
(* The close write: the only step from open to closed, whoever makes it.   *)
CloseShift(corr, figures) ==
  shift' = [shift EXCEPT !.status = "closed", !.corr = corr, !.figures = figures, !.sync = "pending"]

(* A cash-in or cash-out: on the mounted shift at once, queued for the server. *)
RecordCash(m) ==
  LET d == CashDevice[m] IN
  /\ m \notin Refunds /\ m \notin seen[d] /\ ~seenClosed[d]
  /\ seen' = [seen EXCEPT ![d] = @ \cup {m}]
  /\ unsent' = [unsent EXCEPT ![d] = @ \cup {m}]
  /\ UNCHANGED <<shift, authored, sealed, refund, guard, seenClosed>>

(* The queued movement reaches the server, where the rules accept it on an *)
(* open shift only; refused, it leaves the terminal's cache again.         *)
FlushCash(m) ==
  LET d == CashDevice[m] IN
  /\ m \in unsent[d]
  /\ unsent' = [unsent EXCEPT ![d] = @ \ {m}]
  /\ IF Closed
       THEN seen' = [seen EXCEPT ![d] = @ \ {m}] /\ UNCHANGED shift
       ELSE shift' = [shift EXCEPT !.cash = @ \cup {m}] /\ UNCHANGED seen
  /\ UNCHANGED <<authored, sealed, refund, guard, seenClosed>>

(* A cash refund is sent, its guard stored first.                          *)
SendRefund(r) ==
  LET d == CashDevice[r] IN
  /\ refund[r] = "unsent" /\ ~seenClosed[d]
  /\ guard' = [guard EXCEPT ![d] = @ \cup {r}]
  /\ refund' = [refund EXCEPT ![r] = "sent"]
  /\ UNCHANGED <<shift, authored, sealed, seen, seenClosed, unsent>>

(* The return's transaction reads the shift: open, it appends the pay-out. *)
ShiftTakesRefund == ~Closed
CommitRefund(r) ==
  /\ refund[r] = "sent" /\ ShiftTakesRefund
  /\ shift' = [shift EXCEPT !.cash = @ \cup {r}]
  /\ refund' = [refund EXCEPT ![r] = "committed"]
  /\ UNCHANGED <<authored, sealed, guard, seen, seenClosed, unsent>>

(* A refund that definitely did not commit: its guard is removed.          *)
RefuseRefund(r) ==
  /\ refund[r] = "sent"
  /\ refund' = [refund EXCEPT ![r] = "refused"]
  /\ guard' = [guard EXCEPT ![CashDevice[r]] = @ \ {r}]
  /\ UNCHANGED <<shift, authored, sealed, seen, seenClosed, unsent>>

(* A server read proves the pay-out: it is in the cache from now on, and   *)
(* the guard goes.                                                         *)
ProvedOnShift(r) == r \in shift.cash
SyncRefund(r) ==
  LET d == CashDevice[r] IN
  /\ r \in guard[d] /\ ProvedOnShift(r)
  /\ seen' = [seen EXCEPT ![d] = @ \cup shift.cash]
  /\ guard' = [guard EXCEPT ![d] = @ \ {r}]
  /\ UNCHANGED <<shift, authored, sealed, refund, seenClosed, unsent>>

(* The terminal's cache catches up with the server.                        *)
Refresh(d) ==
  /\ ~(shift.cash \subseteq seen[d]) \/ (Closed /\ ~seenClosed[d])
  /\ seen' = [seen EXCEPT ![d] = @ \cup shift.cash]
  /\ seenClosed' = [seenClosed EXCEPT ![d] = @ \/ Closed]
  /\ UNCHANGED <<shift, authored, sealed, cashVars>>

(* The rules that leave the close to the callable are deployed.            *)
Seal ==
  /\ ~sealed /\ sealed' = TRUE
  /\ UNCHANGED <<shift, authored, cashVars, seen, seenClosed>>

ShiftNext ==
  \/ \E m \in Cash : RecordCash(m) \/ FlushCash(m)
  \/ \E r \in Refunds : SendRefund(r) \/ CommitRefund(r) \/ RefuseRefund(r) \/ SyncRefund(r)
  \/ \E d \in Devices : Refresh(d)
  \/ Seal

(* Variant C of the close write: pending becomes synced, decided inside    *)
(* one transaction on the closed document of this very close.              *)
NormalizationDecision(corr) ==
  IF ~Closed \/ shift.corr # corr THEN "precondition_failed"
  ELSE IF shift.sync = "synced" THEN "already_synced" ELSE "write"
=============================================================================
