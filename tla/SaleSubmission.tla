--------------------------- MODULE SaleSubmission ---------------------------
(***************************************************************************)
(* The evidence a terminal keeps of every sale it submits, so that after a *)
(* crash it can tell a sale that may be on its way from one that is not.   *)
(* Checkout begins a generation of the active cart, takes its fence and    *)
(* writes an entry before it submits, and releases the fence afterwards;   *)
(* a sweep, at boot or on reconnect, seals the absence of the entry or     *)
(* proves its presence and releases the fence.  Checkout waits for neither *)
(* longer than a bound, and goes on whatever the answer is.                *)
(***************************************************************************)
EXTENDS Naturals, SequencesExt

CONSTANTS Windows,      \* windows of one terminal
          Branches,     \* branches it sells for
          Orders,       \* sales, each by its asyncOrderId
          OrderWindow,  \* sale -> window it is rung up in
          OrderBranch,  \* sale -> branch
          NoOrder,
          MaxSweeps, MaxCrashes, MaxAborts  \* bounds of the exploration

SubmissionAssumption ==
  /\ OrderWindow \in [Orders -> Windows] /\ OrderBranch \in [Orders -> Branches]
  /\ NoOrder \notin Orders
  /\ MaxSweeps \in Nat /\ MaxCrashes \in Nat /\ MaxAborts \in Nat

VARIABLES
  cart,      \* branch -> the sale of its current generation, and the fence
  entries,   \* sales with an evidence entry
  seals,     \* sales whose absence was sealed
  checkout,  \* sale -> where its checkout is
  answer,    \* sale -> what the begin answered the checkout
  gate,      \* window -> the calls that wait, in order
  job,       \* window -> the call that holds the gate
  cycle,     \* window -> the sale to be completed, and its authorization
  owner,     \* window -> the branch its owner was claimed for
  swept, crashed, aborted

cartVars == <<cart, entries, seals>>
windowVars == <<gate, job, cycle, owner>>
countVars == <<swept, crashed, aborted>>
submissionVars == <<cartVars, checkout, answer, windowVars, countVars>>

MaybeOrder == Orders \cup {NoOrder}
Ops == {"begin", "complete", "sweep"}
Waiting == [op : Ops, order : MaybeOrder, branch : Branches]
Steps == {"start", "begun", "fenced", "refused", "absent", "present", "none"}
Jobs == [op : Ops \cup {"none"}, order : MaybeOrder, branch : Branches \cup {NoOrder},
         at : Steps, auth : MaybeOrder]
NoJob == [op |-> "none", order |-> NoOrder, branch |-> NoOrder, at |-> "none", auth |-> NoOrder]
NoCycle == [order |-> NoOrder, auth |-> NoOrder]

SubmissionTypeOK ==
  /\ cart \in [Branches -> [order : MaybeOrder, fence : {"idle", "held", "released"}]]
  /\ entries \subseteq Orders /\ seals \subseteq Orders
  /\ checkout \in [Orders -> {"new", "beginning", "ready", "completing", "done", "lost"}]
  /\ answer \in [Orders -> {"none", "ok", "failed", "timeout"}]
  /\ gate \in [Windows -> Seq(Waiting)]
  /\ job \in [Windows -> Jobs]
  /\ cycle \in [Windows -> [order : MaybeOrder, auth : MaybeOrder]]
  /\ owner \in [Windows -> Branches \cup {NoOrder}]
  /\ swept \in Nat /\ crashed \in Nat /\ aborted \in Nat

SubmissionInit ==
  /\ cart = [b \in Branches |-> [order |-> NoOrder, fence |-> "idle"]]
  /\ entries = {} /\ seals = {}
  /\ checkout = [o \in Orders |-> "new"]
  /\ answer = [o \in Orders |-> "none"]
  /\ gate = [w \in Windows |-> <<>>]
  /\ job = [w \in Windows |-> NoJob]
  /\ cycle = [w \in Windows |-> NoCycle]
  /\ owner = [w \in Windows |-> NoOrder]
  /\ swept = 0 /\ crashed = 0 /\ aborted = 0

-----------------------------------------------------------------------------
(* Checkout, one sale of a window at a time.                               *)
Wait(w, op, o, b) == gate' = [gate EXCEPT ![w] = Append(@, [op |-> op, order |-> o, branch |-> b])]
Idle(w) == \A o \in Orders : OrderWindow[o] = w => checkout[o] \in {"new", "done", "lost"}

BeginTrustedSaleSubmission(o) ==
  /\ checkout[o] = "new" /\ Idle(OrderWindow[o])
  /\ checkout' = [checkout EXCEPT ![o] = "beginning"]
  /\ Wait(OrderWindow[o], "begin", o, OrderBranch[o])
  /\ UNCHANGED <<cartVars, answer, job, cycle, owner, countVars>>

SubmitAsyncOrder(o) ==
  /\ checkout[o] = "ready"
  /\ checkout' = [checkout EXCEPT ![o] = "completing"]
  /\ Wait(OrderWindow[o], "complete", o, OrderBranch[o])
  /\ UNCHANGED <<cartVars, answer, job, cycle, owner, countVars>>

(* The bound of two seconds; the call goes on without its checkout.        *)
SettleBound(o) ==
  /\ checkout[o] \in {"beginning", "completing"}
  /\ checkout' = [checkout EXCEPT ![o] = IF @ = "beginning" THEN "ready" ELSE "done"]
  /\ answer' = [answer EXCEPT ![o] = IF checkout[o] = "beginning" THEN "timeout" ELSE @]
  /\ UNCHANGED <<cartVars, windowVars, countVars>>

TrustedResumeSweep(w, b) ==
  /\ swept < MaxSweeps /\ swept' = swept + 1
  /\ Wait(w, "sweep", NoOrder, b)
  /\ UNCHANGED <<cartVars, checkout, answer, job, cycle, owner, crashed, aborted>>

-----------------------------------------------------------------------------
(* The gate is passed in order for one branch, and by one call at a time:  *)
(* another branch needs an owner of its own, whose claim drops the cycle.  *)
FirstOfItsBranch(w, i) == \A j \in 1..(i - 1) : gate[w][j].branch # gate[w][i].branch
Enter(w) ==
  /\ job[w] = NoJob
  /\ \E i \in DOMAIN gate[w] :
       LET call == gate[w][i] IN
       /\ FirstOfItsBranch(w, i)
       /\ job' = [job EXCEPT ![w] = [op |-> call.op, order |-> call.order, branch |-> call.branch,
                                     at |-> "start", auth |-> NoOrder]]
       /\ gate' = [gate EXCEPT ![w] = RemoveAt(@, i)]
       /\ owner' = [owner EXCEPT ![w] = call.branch]
       /\ cycle' = [cycle EXCEPT ![w] = IF owner[w] = call.branch THEN @ ELSE NoCycle]
  /\ UNCHANGED <<cartVars, checkout, answer, countVars>>

Proceed(w, at, auth) ==
  /\ job' = [job EXCEPT ![w] = [@ EXCEPT !.at = at, !.auth = auth]]
  /\ UNCHANGED <<checkout, answer>>

(* The call ends; its checkout hears of it, if it still listens.           *)
Leave(w, result) ==
  LET o == job[w].order
      heard == /\ job[w].op # "sweep"
               /\ checkout[o] = (IF job[w].op = "begin" THEN "beginning" ELSE "completing")
  IN /\ job' = [job EXCEPT ![w] = NoJob]
     /\ checkout' = IF heard THEN [checkout EXCEPT ![o] = IF job[w].op = "begin" THEN "ready" ELSE "done"]
                             ELSE checkout
     /\ answer' = IF heard /\ job[w].op = "begin" THEN [answer EXCEPT ![o] = result] ELSE answer

-----------------------------------------------------------------------------
(* The steps of the calls, each a transaction of one of the two stores.    *)
Doing(w, op, at) == job[w].op = op /\ job[w].at = at
MyCart(w) == cart[job[w].branch]
SetCart(w, o, fence) == cart' = [cart EXCEPT ![job[w].branch] = [order |-> o, fence |-> fence]]

(* A generation follows on none, or on one whose fence was released.       *)
Succeeds(c, o) == c.order = NoOrder \/ (c.fence = "released" /\ c.order # o)
BeginActiveCartGeneration(w) ==
  /\ Doing(w, "begin", "start")
  /\ IF Succeeds(MyCart(w), job[w].order)
       THEN SetCart(w, job[w].order, "idle") /\ Proceed(w, "begun", NoOrder)
       ELSE Leave(w, "failed") /\ UNCHANGED cart
  /\ UNCHANGED <<entries, seals, gate, cycle, owner, countVars>>

(* The fence of the current generation, taken or taken up again.           *)
AcquireResumeFence(w) ==
  /\ Doing(w, "begin", "begun") \/ Doing(w, "sweep", "start")
  /\ LET c == MyCart(w) IN
     IF c.order # NoOrder /\ c.fence \in {"idle", "held"}
       THEN SetCart(w, c.order, "held") /\ Proceed(w, "fenced", c.order)
       ELSE Leave(w, "failed") /\ UNCHANGED cart
  /\ UNCHANGED <<entries, seals, gate, cycle, owner, countVars>>

CommitEvidenceEntry(w) ==
  /\ Doing(w, "begin", "fenced")
  /\ entries' = entries \cup {job[w].auth}
  /\ cycle' = [cycle EXCEPT ![w] = [order |-> job[w].order, auth |-> job[w].auth]]
  /\ Leave(w, "ok")
  /\ UNCHANGED <<cart, seals, gate, owner, countVars>>

(* mutant: absence is sealed by the generation's own pointer alone.        *)
MutSealable(o) == TRUE
Sealable(o) == o \notin entries
CommitAbsenceSeal(w) ==
  /\ Doing(w, "sweep", "fenced")
  /\ LET o == job[w].auth IN
     IF Sealable(o) THEN seals' = seals \cup {o} /\ Proceed(w, "absent", o)
                    ELSE Proceed(w, "refused", o) /\ UNCHANGED seals
  /\ UNCHANGED <<cart, entries, gate, cycle, owner, countVars>>

ProveEvidencePresence(w) ==
  /\ Doing(w, "sweep", "refused")
  /\ IF job[w].auth \in entries THEN Proceed(w, "present", job[w].auth) ELSE Leave(w, "failed")
  /\ UNCHANGED <<cartVars, gate, cycle, owner, countVars>>

(* The fence is released once, for the generation that was authorized.     *)
MutReleasable(c, auth) == c.fence = "held"  (* mutant: whatever generation holds it *)
Releasable(c, auth) == c.fence = "held" /\ c.order = auth
Release(w, auth) ==
  IF Releasable(MyCart(w), auth) THEN SetCart(w, MyCart(w).order, "released") ELSE UNCHANGED cart

ReleaseSwept(w) ==
  /\ Doing(w, "sweep", "absent") \/ Doing(w, "sweep", "present")
  /\ Release(w, job[w].auth)
  /\ Leave(w, "failed")
  /\ UNCHANGED <<entries, seals, gate, cycle, owner, countVars>>

CompleteTrustedSaleSubmission(w) ==
  /\ Doing(w, "complete", "start")
  /\ IF cycle[w].order = job[w].order
       THEN /\ Release(w, cycle[w].auth)
            /\ cycle' = IF Releasable(MyCart(w), cycle[w].auth) THEN [cycle EXCEPT ![w] = NoCycle] ELSE cycle
       ELSE UNCHANGED <<cart, cycle>>
  /\ Leave(w, "failed")
  /\ UNCHANGED <<entries, seals, gate, owner, countVars>>

(* A transaction aborts: a seal that failed is not known from one that was *)
(* refused, any other call ends.                                           *)
Abort(w) ==
  /\ job[w] # NoJob /\ aborted < MaxAborts /\ aborted' = aborted + 1
  /\ IF Doing(w, "sweep", "fenced") THEN Proceed(w, "refused", job[w].auth) ELSE Leave(w, "failed")
  /\ UNCHANGED <<cartVars, gate, cycle, owner, swept, crashed>>

(* The window dies, with its calls and with the checkouts it was at.       *)
Crash(w) ==
  /\ crashed < MaxCrashes /\ crashed' = crashed + 1
  /\ gate' = [gate EXCEPT ![w] = <<>>] /\ job' = [job EXCEPT ![w] = NoJob]
  /\ cycle' = [cycle EXCEPT ![w] = NoCycle] /\ owner' = [owner EXCEPT ![w] = NoOrder]
  /\ checkout' = [o \in Orders |->
       CASE OrderWindow[o] # w -> checkout[o]
         [] checkout[o] = "completing" -> "done"
         [] checkout[o] \in {"beginning", "ready"} -> "lost"
         [] OTHER -> checkout[o]]
  /\ UNCHANGED <<cartVars, answer, swept, aborted>>

Work(w) == \/ Enter(w) \/ BeginActiveCartGeneration(w) \/ AcquireResumeFence(w) \/ CommitEvidenceEntry(w)
           \/ CommitAbsenceSeal(w) \/ ProveEvidencePresence(w) \/ ReleaseSwept(w)
           \/ CompleteTrustedSaleSubmission(w) \/ Abort(w)
SubmissionNext ==
  \/ \E o \in Orders : BeginTrustedSaleSubmission(o) \/ SubmitAsyncOrder(o) \/ SettleBound(o)
  \/ \E w \in Windows : Work(w) \/ Crash(w) \/ (\E b \in Branches : TrustedResumeSweep(w, b))

SubmissionSpec == SubmissionInit /\ [][SubmissionNext]_submissionVars

-----------------------------------------------------------------------------
(* With one window: a sale whose begin answered ok has its entry and is    *)
(* never sealed absent, whatever the bound, a crash or the sweep cut short *)
(* afterwards; so a seal means that checkout was told of a failure, or of  *)
(* nothing.                                                                *)
OneWindow == \A w, v \in Windows : w = v
AbsenceIsSound ==
  OneWindow => \A o \in Orders : /\ answer[o] = "ok" => o \in entries
                                 /\ ~(o \in entries /\ o \in seals)

(* A fence is released with proof for its own generation: an entry or a    *)
(* seal of that sale, from whichever window.                               *)
ReleaseIsProven ==
  \A b \in Branches : cart[b].fence = "released" => cart[b].order \in entries \cup seals
=============================================================================
