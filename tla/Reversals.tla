----------------------------- MODULE Reversals -----------------------------
(***************************************************************************)
(* The reversal of a received or a transferred document: resolveReversal   *)
(* on the server, one transaction, and offlineReversalQueue on a terminal, *)
(* which corrects its own view at once, sends the request until it is      *)
(* answered, and puts a refusal before a manager.  A document has one key, *)
(* the same on every terminal; the reason given is part of the payload, so *)
(* the payload of a terminal is known by the terminal.                     *)
(***************************************************************************)
EXTENDS Receivings, Transfers

CONSTANTS Terminals, MaxAttempts, Nobody
Documents == Receipts \cup Transfers
ReversalAssumption == Receipts \cap Transfers = {} /\ Nobody \notin Terminals /\ MaxAttempts \in Nat

VARIABLES ledger,   \* reversalIntents/{hash of the key}: whose payload was confirmed
          intent,   \* the queue of a terminal
          request   \* the requests of a terminal by attempt, and their answers
reversalVars == <<ledger, intent, request>>

Attempts == 1..MaxAttempts
Unobserved == 0   \* no updatedAt was at hand
NoIntent == [status |-> "none", observed |-> Unobserved, attempt |-> 0]
Statuses == {"none", "queued", "syncing", "retryable_error", "server_accepted",
             "manual_review_required", "manual_review_resolved"}
Answers == {"none", "sent", "confirmed", "conflict", "rejected", "failed", "over"}

ReversalInit ==
  /\ ledger = [x \in Documents |-> Nobody]
  /\ intent = [t \in Terminals |-> [x \in Documents |-> NoIntent]]
  /\ request = [t \in Terminals |-> [x \in Documents |-> [n \in Attempts |-> "none"]]]
ReversalTypeOK ==
  /\ ledger \in [Documents -> Terminals \cup {Nobody}]
  /\ intent \in [Terminals -> [Documents -> [status : Statuses, observed : Nat, attempt : 0..MaxAttempts]]]
  /\ request \in [Terminals -> [Documents -> [Attempts -> Answers]]]

Document(x) == IF x \in Receipts THEN receipt[x] ELSE transfer[x]

-----------------------------------------------------------------------------
(* The terminal.  The local correction is what the status says of it.      *)
SetIntent(t, x, i) == intent' = [intent EXCEPT ![t][x] = i]

CreateOfflineReversal(t, x) ==
  /\ intent[t][x] = NoIntent /\ Document(x).status = "completed"
  /\ \E seen \in {Document(x).updatedAt, Unobserved} :
       SetIntent(t, x, [NoIntent EXCEPT !.status = "queued", !.observed = seen])
  /\ UNCHANGED <<ledger, request, stockVars, receivingVars, transferVars>>

(* A lease may have expired whenever an attempt is out.                    *)
IsClaimable(i) == i.status \in {"queued", "retryable_error", "syncing"}
ClaimForSync(t, x) ==
  /\ IsClaimable(intent[t][x]) /\ intent[t][x].attempt < MaxAttempts
  /\ LET n == intent[t][x].attempt + 1 IN
     /\ SetIntent(t, x, [intent[t][x] EXCEPT !.status = "syncing", !.attempt = n])
     /\ request' = [request EXCEPT ![t][x][n] = "sent"]
  /\ UNCHANGED <<ledger, stockVars, receivingVars, transferVars>>

(* The call fails for the terminal, before the server runs or after.       *)
Lose(t, x, n) ==
  /\ request[t][x][n] \in {"sent", "confirmed", "conflict", "rejected"}
  /\ request' = [request EXCEPT ![t][x][n] = "failed"]
  /\ UNCHANGED <<ledger, intent, stockVars, receivingVars, transferVars>>

ClassifyServerResult(answer) ==
  CASE answer = "confirmed" -> "server_accepted"
    [] answer = "failed"    -> "retryable_error"
    [] OTHER                -> "manual_review_required"   \* no proof of a safe rollback is supplied

MutTokenMatches(i, n) ==  (* mutant: the result is applied whoever holds the claim *)
  TRUE

TokenMatches(i, n) == i.status = "syncing" /\ i.attempt = n

ApplyServerResult(t, x, n) ==
  /\ request[t][x][n] \in {"confirmed", "conflict", "rejected", "failed"}
  /\ IF TokenMatches(intent[t][x], n)
     THEN SetIntent(t, x, [intent[t][x] EXCEPT !.status = ClassifyServerResult(request[t][x][n])])
     ELSE UNCHANGED intent
  /\ request' = [request EXCEPT ![t][x][n] = "over"]
  /\ UNCHANGED <<ledger, stockVars, receivingVars, transferVars>>

ResolveManualReview(t, x) ==
  /\ intent[t][x].status = "manual_review_required"
  /\ SetIntent(t, x, [intent[t][x] EXCEPT !.status = "manual_review_resolved"])
  /\ UNCHANGED <<ledger, request, stockVars, receivingVars, transferVars>>

-----------------------------------------------------------------------------
(* The server.  The ledger is read before anything else.                   *)
Answer(t, x, n, a) == request' = [request EXCEPT ![t][x][n] = a]
Sent(t, x, n) == request[t][x][n] = "sent"

MutRecorded(x) ==  (* mutant: the ledger is not read *)
  FALSE

Recorded(x) == ledger[x] # Nobody

SamePayload(t, x) == ledger[x] = t

AnswerFromLedger(t, x, n) ==
  /\ Sent(t, x, n) /\ Recorded(x)
  /\ Answer(t, x, n, IF SamePayload(t, x) THEN "confirmed" ELSE "conflict")
  /\ UNCHANGED <<ledger, intent, stockVars, receivingVars, transferVars>>

Reversible(x) == Document(x).status = "completed"

IsStale(t, x) ==
  intent[t][x].observed # Unobserved /\ Document(x).updatedAt > intent[t][x].observed

(* Guards of the counter, then of the lots: the document's own lot, or the *)
(* undepleted lots of the destination.                                     *)
LotsCover(x) ==
  IF x \in Receipts THEN receipt[x].lot # NoLot /\ LotQty(receipt[x].lot) >= receipt[x].qty
  ELSE Units(Active(To)) >= transfer[x].qty
StockCovers(x) == counter[IF x \in Receipts THEN Home ELSE To] >= Document(x).qty
Admits(t, x) == Reversible(x) /\ ~IsStale(t, x) /\ StockCovers(x) /\ LotsCover(x)

Reject(t, x, n) ==
  /\ Sent(t, x, n) /\ ~Recorded(x) /\ ~Admits(t, x)
  /\ Answer(t, x, n, "rejected")
  /\ UNCHANGED <<ledger, intent, stockVars, receivingVars, transferVars>>

Record(t, x, n) == ledger' = [ledger EXCEPT ![x] = t] /\ Answer(t, x, n, "confirmed")

ReverseReceiving(t, r, n) ==
  /\ Sent(t, r, n) /\ ~Recorded(r) /\ Admits(t, r)
  /\ lots' = CutLots([l \in {receipt[r].lot} |-> receipt[r].qty])
  /\ counter' = [counter EXCEPT ![Home] = @ - receipt[r].qty]
  /\ receipt' = [receipt EXCEPT ![r] = Cancelled(@)]
  /\ Record(t, r, n)
  /\ UNCHANGED <<intent, desk, clobbered, transferVars>>

ReverseTransfer(t, x, n) ==
  /\ Sent(t, x, n) /\ ~Recorded(x) /\ Admits(t, x)
  /\ lots' = CutLots(FifoTake(Active(To), transfer[x].qty)) \o LotsAt(From, transfer[x].details)
  /\ counter' = Shift(To, From, transfer[x].qty)
  /\ transfer' = [transfer EXCEPT ![x] = Cancelled(@)]
  /\ Record(t, x, n)
  /\ UNCHANGED <<intent, plan, discrepancy, adjusted, receivingVars>>

ReversalNext ==
  \/ \E t \in Terminals, x \in Documents :
       CreateOfflineReversal(t, x) \/ ClaimForSync(t, x) \/ ResolveManualReview(t, x)
  \/ \E t \in Terminals, x \in Documents, n \in Attempts :
       Lose(t, x, n) \/ ApplyServerResult(t, x, n) \/ AnswerFromLedger(t, x, n) \/ Reject(t, x, n)
  \/ \E t \in Terminals, r \in Receipts, n \in Attempts : ReverseReceiving(t, r, n)
  \/ \E t \in Terminals, x \in Transfers, n \in Attempts : ReverseTransfer(t, x, n)
=============================================================================
