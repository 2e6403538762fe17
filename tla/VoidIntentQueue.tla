-------------------------- MODULE VoidIntentQueue --------------------------
(***************************************************************************)
(* The terminal's older queue of void requests (voidIntentStore.ts,        *)
(* voidPendingOrder.ts).  A drain claims an intent under a lease, reads    *)
(* the order from the server, decides, and writes its decision.  The write *)
(* is not fenced by the claim: a drain whose lease has run out still       *)
(* writes.  A flagging write to the order is always refused by the rules,  *)
(* so no drain changes the order.                                          *)
(***************************************************************************)
EXTENDS PrivilegedEvidence

CONSTANTS Drains,     \* drains that may run at once
          MaxAttempts \* the attempt ceiling of an intent

VARIABLE drain

queueVars == <<intent, drain>>

Intent == [status : {"none", "pending", "in_flight", "confirmed", "terminal"},
           leased : BOOLEAN,   \* claimExpiresAtMs is in the future
           attempts : 0..MaxAttempts]
Outcome == {"none", "defer", "confirm", "terminal", "retry"}
Drain == [pc : {"idle", "read", "mark"}, order : Orders, attempts : 0..MaxAttempts,
          outcome : Outcome]

QueueTypeOK == /\ intent \in [Orders -> Intent]
               /\ drain \in [Drains -> Drain]

Idle == [pc |-> "idle", order |-> CHOOSE o \in Orders : TRUE, attempts |-> 0, outcome |-> "none"]

QueueInit ==
  /\ intent = [o \in Orders |-> [status |-> "none", leased |-> FALSE, attempts |-> 0]]
  /\ drain = [d \in Drains |-> Idle]

(* enqueueVoidIntentWithPrivilegedFence: refused while a privileged row is *)
(* open; a decided intent stays, a live one only changes its wording.      *)
Enqueue(o) ==
  /\ ~HasOpenRow(o)
  /\ intent[o].status = "none"
  /\ intent' = [intent EXCEPT ![o].status = "pending"]
  /\ UNCHANGED <<drain, evidenceVars, adjudicationVars>>

ClaimIntent(d, o) ==
  /\ drain[d].pc = "idle"
  /\ \/ intent[o].status = "pending"
     \/ intent[o].status = "in_flight" /\ ~intent[o].leased
  /\ intent' = [intent EXCEPT ![o].status = "in_flight", ![o].leased = TRUE]
  /\ drain' = [drain EXCEPT ![d] = [pc |-> "read", order |-> o,
                                    attempts |-> intent[o].attempts, outcome |-> "none"]]
  /\ UNCHANGED <<evidenceVars, adjudicationVars>>

LeaseExpires(o) ==
  /\ intent[o].leased
  /\ intent' = [intent EXCEPT ![o].leased = FALSE]
  /\ UNCHANGED <<drain, evidenceVars, adjudicationVars>>

(* A failed attempt is retried below the ceiling.                          *)
AfterFailure(d) == IF drain[d].attempts + 1 >= MaxAttempts THEN "terminal" ELSE "retry"

(* evaluateAndApplyVoidDrain up to its decision.  Other outcomes than the  *)
(* order's: another staff member is signed in (terminal), the terminal is  *)
(* offline (defer), the read or the write fails (retry).                   *)
Evaluate(d) ==
  LET o == drain[d].order IN
  /\ drain[d].pc = "read"
  /\ \E outcome \in {"terminal", "defer", AfterFailure(d),
                     CASE sale[o].status = "absent" -> "defer"
                       [] sale[o].status = "voided" -> "confirm"
                       [] OTHER -> "terminal"} :
       drain' = [drain EXCEPT ![d].pc = "mark", ![d].outcome = outcome]
  /\ UNCHANGED <<intent, evidenceVars, adjudicationVars>>

(* markVoidIntentConfirmed, markVoidIntentTerminal, markVoidIntentRetryable *)
(* and deferVoidIntentPending: over whatever the intent has become.        *)
Mark(d) ==
  LET o == drain[d].order
      outcome == drain[d].outcome IN
  /\ drain[d].pc = "mark"
  /\ outcome = "retry" => intent[o].attempts < MaxAttempts
  /\ intent' = [intent EXCEPT ![o] =
       [status |-> CASE outcome = "confirm"  -> "confirmed"
                     [] outcome = "terminal" -> "terminal"
                     [] OTHER                -> "pending",
        leased |-> FALSE,
        attempts |-> IF outcome = "retry" THEN @.attempts + 1 ELSE @.attempts]]
  /\ drain' = [drain EXCEPT ![d] = Idle]
  /\ UNCHANGED <<evidenceVars, adjudicationVars>>

DrainStep(d) == Evaluate(d) \/ Mark(d) \/ \E o \in Orders : ClaimIntent(d, o)
=============================================================================
