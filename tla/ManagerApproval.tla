--------------------------- MODULE ManagerApproval ---------------------------
(***************************************************************************)
(* requestManagerApproval: the counter of failed approvals of one person   *)
(* at one branch, and the lock it leads to.  The PIN is compared outside   *)
(* any transaction, between the read of the counter and the transaction    *)
(* that counts a failure or clears the counter, so calls overlap.          *)
(***************************************************************************)
EXTENDS Naturals

CONSTANTS Asks,       \* calls in flight
          Threshold,  \* LOCKOUT_THRESHOLD
          Window,     \* LOCKOUT_WINDOW_MS
          MaxClock,   \* bound on the time
          MaxFailures \* bound on the counter

ApprovalAssumption ==
  /\ Threshold \in Nat \ {0} /\ Window \in Nat \ {0} /\ MaxClock \in Nat \ {0} /\ MaxFailures \in Nat

VARIABLES clock, counter, ask
approvalVars == <<clock, counter, ask>>

(* Time 0 is no time: the fields the code writes as null.                  *)
Counter == [failures : Nat, first : Nat, locked : Nat]
NoFailures == [failures |-> 0, first |-> 0, locked |-> 0]
NotAsking == [at |-> "idle", now |-> 0, observed |-> NoFailures]

ApprovalTypeOK ==
  /\ clock \in 1..MaxClock /\ counter \in Counter
  /\ ask \in [Asks -> [at : {"idle", "unauthorized", "compared"}, now : 0..MaxClock, observed : Counter]]

ApprovalInit == clock = 1 /\ counter = NoFailures /\ ask = [a \in Asks |-> NotAsking]

Tick == clock < MaxClock /\ clock' = clock + 1 /\ UNCHANGED <<counter, ask>>

(* A request that fails the checks of the caller or of the approver: it is *)
(* counted though the counter was not looked at.                           *)
Unauthorized(a) ==
  /\ ask[a].at = "idle"
  /\ ask' = [ask EXCEPT ![a] = [at |-> "unauthorized", now |-> clock, observed |-> NoFailures]]
  /\ UNCHANGED <<clock, counter>>

(* The counter is read and no lock is in force: the PIN will be compared.  *)
Locked(c, now) == c.locked > now
Observe(a) ==
  /\ ask[a].at = "idle" /\ ~Locked(counter, clock)
  /\ ask' = [ask EXCEPT ![a] = [at |-> "compared", now |-> clock, observed |-> counter]]
  /\ UNCHANGED <<clock, counter>>

NextFailure(c, now) ==
  LET expired == c.first = 0 \/ now > c.first + Window
      failures == IF expired THEN 1 ELSE c.failures + 1
  IN  [failures |-> failures,
       first |-> IF expired THEN now ELSE c.first,
       locked |-> IF failures >= Threshold THEN now + Window ELSE IF expired THEN 0 ELSE c.locked]

CountFailure(a) ==
  /\ ask[a].at # "idle" /\ counter.failures < MaxFailures
  /\ counter' = NextFailure(counter, ask[a].now)
  /\ ask' = [ask EXCEPT ![a] = NotAsking]
  /\ UNCHANGED clock

(* A right PIN clears the counter it observed, not a later one.            *)
MutShouldApplyAttemptReset(observed, latest) ==  (* mutant: locks are not compared *)
  latest.failures <= observed.failures

ShouldApplyAttemptReset(observed, latest) ==
  latest.failures <= observed.failures /\ latest.locked <= observed.locked

Approve(a) ==
  /\ ask[a].at = "compared"
  /\ counter' = IF ShouldApplyAttemptReset(ask[a].observed, counter) THEN NoFailures ELSE counter
  /\ ask' = [ask EXCEPT ![a] = NotAsking]
  /\ UNCHANGED clock

ApprovalNext == Tick \/ \E a \in Asks : Unauthorized(a) \/ Observe(a) \/ CountFailure(a) \/ Approve(a)

ApprovalSpec == ApprovalInit /\ [][ApprovalNext]_approvalVars

-----------------------------------------------------------------------------
(* A right PIN never lifts a lock in force, however long its comparison    *)
(* took and whatever was counted meanwhile.                                *)
SparesLock == counter.failures > 0 /\ counter'.failures = 0 => ~Locked(counter, clock)
ResetSparesLock == [][SparesLock]_approvalVars
=============================================================================
