------------------------ MODULE SaleSubmissionProofs ------------------------
(***************************************************************************)
(* The evidence a terminal keeps of the sales it submits is true, for any  *)
(* number of windows, branches and sales.                                  *)
(***************************************************************************)
EXTENDS SaleSubmission, SequenceTheorems, TLAPS

-----------------------------------------------------------------------------
(* The evidence of the sales a terminal submits.  A call that works has a  *)
(* branch, past the fence it has a sale, and past the seal or its refusal  *)
(* the proof the fence waits for; the cycle to be completed has its entry, *)
(* and a branch with no sale has nothing to release.                       *)
JobSound ==
  \A w \in Windows :
    /\ job[w].op # "none" => job[w].branch \in Branches
    /\ job[w].at \in {"fenced", "refused", "absent", "present"} => job[w].auth \in Orders
    /\ job[w].at = "absent" => job[w].auth \in seals
    /\ job[w].at = "present" => job[w].auth \in entries
CycleProven == \A w \in Windows : cycle[w].auth \in entries \cup {NoOrder}
EmptyIsIdle == \A b \in Branches : cart[b].order = NoOrder => cart[b].fence = "idle"
ReleaseInv == SubmissionTypeOK /\ JobSound /\ CycleProven /\ EmptyIsIdle /\ ReleaseIsProven

(* What is left of a sequence without one of its elements.                 *)
LEMMA WithoutOne ==
  ASSUME NEW S, NEW s \in Seq(S), NEW i \in DOMAIN s
  PROVE  /\ RemoveAt(s, i) \in Seq(S)
         /\ DOMAIN RemoveAt(s, i) = 1..(Len(s) - 1)
         /\ \A j \in 1..(Len(s) - 1) :
              /\ (IF j < i THEN j ELSE j + 1) \in DOMAIN s \ {i}
              /\ RemoveAt(s, i)[j] = s[IF j < i THEN j ELSE j + 1]
<1>1. s \in [1..Len(s) -> S] /\ Len(s) \in Nat /\ i \in 1..Len(s)
  OBVIOUS
<1>2. /\ SubSeq(s, 1, i - 1) \in Seq(S) /\ Len(SubSeq(s, 1, i - 1)) = i - 1
      /\ \A j \in 1..(i - 1) : SubSeq(s, 1, i - 1)[j] = s[j]
  <2>1. \A j \in 1..(i - 1) : s[j] \in S
    BY <1>1
  <2> QED BY <1>1, <2>1, SubSeqProperties
<1>3. /\ SubSeq(s, i + 1, Len(s)) \in Seq(S) /\ Len(SubSeq(s, i + 1, Len(s))) = Len(s) - i
      /\ \A j \in 1..(Len(s) - i) : SubSeq(s, i + 1, Len(s))[j] = s[i + j]
  <2>1. \A j \in (i + 1)..Len(s) : s[j] \in S
    BY <1>1
  <2> QED BY <1>1, <2>1, SubSeqProperties
<1> DEFINE before == SubSeq(s, 1, i - 1)
           after == SubSeq(s, i + 1, Len(s))
<1>4. RemoveAt(s, i) = before \o after
  BY DEF RemoveAt
<1> HIDE DEF before, after
<1>5. /\ before \o after \in Seq(S) /\ Len(before \o after) = Len(before) + Len(after)
      /\ \A j \in 1..(Len(before) + Len(after)) :
           (before \o after)[j] = IF j <= Len(before) THEN before[j] ELSE after[j - Len(before)]
  BY <1>2, <1>3, ConcatProperties DEF before, after
<1>6. Len(before) = i - 1 /\ Len(after) = Len(s) - i
  BY <1>2, <1>3 DEF before, after
<1>7. ASSUME NEW j \in 1..(Len(s) - 1)
      PROVE  /\ (IF j < i THEN j ELSE j + 1) \in DOMAIN s \ {i}
             /\ RemoveAt(s, i)[j] = s[IF j < i THEN j ELSE j + 1]
  <2>1. (IF j < i THEN j ELSE j + 1) \in 1..Len(s) \ {i}
    BY <1>1
  <2>2. RemoveAt(s, i)[j] = IF j <= i - 1 THEN before[j] ELSE after[j - (i - 1)]
    <3>1. j \in 1..(Len(before) + Len(after)) /\ Len(before) = i - 1
      BY <1>1, <1>6
    <3> QED BY <1>4, <1>5, <3>1
  <2>3. CASE j < i
    <3>1. before[j] = s[j]
      BY <1>1, <1>2, <2>3 DEF before
    <3> QED BY <1>1, <2>1, <2>2, <2>3, <3>1
  <2>4. CASE ~(j < i)
    <3>1. j - (i - 1) \in 1..(Len(s) - i) /\ i + (j - (i - 1)) = j + 1
      BY <1>1, <2>4
    <3>2. after[j - (i - 1)] = s[j + 1]
      BY <1>3, <3>1 DEF after
    <3> QED BY <1>1, <2>1, <2>2, <2>4, <3>2
  <2> QED BY <2>3, <2>4
<1>8. DOMAIN RemoveAt(s, i) = 1..(Len(s) - 1)
  <2>1. before \o after \in Seq(S) /\ Len(before \o after) = Len(s) - 1
    BY <1>1, <1>5, <1>6
  <2>2. DOMAIN (before \o after) = 1..Len(before \o after)
    BY <2>1, LenProperties
  <2> QED BY <1>4, <2>1, <2>2
<1> QED BY <1>4, <1>5, <1>7, <1>8

(* A call that ends leaves the window free; its checkout may go on, and    *)
(* hears ok only if its begin says so.                                     *)
LEMMA LeaveEffect ==
  ASSUME SubmissionTypeOK, NEW w \in Windows, NEW result \in {"ok", "failed"}, Leave(w, result)
  PROVE  /\ job' = [job EXCEPT ![w] = NoJob]
         /\ checkout' \in [Orders -> {"new", "beginning", "ready", "completing", "done", "lost"}]
         /\ answer' \in [Orders -> {"none", "ok", "failed", "timeout"}]
         /\ \A o \in Orders : checkout'[o] = "new" <=> checkout[o] = "new"
         /\ \A o \in Orders : answer'[o] = "ok" =>
              answer[o] = "ok" \/ (result = "ok" /\ job[w].op = "begin" /\ job[w].order = o)
  BY DEF Leave, SubmissionTypeOK

LEMMA SubmissionInitInv == ASSUME SubmissionAssumption, SubmissionInit PROVE ReleaseInv
  BY DEF SubmissionAssumption, SubmissionInit, ReleaseInv, SubmissionTypeOK, JobSound, CycleProven,
         EmptyIsIdle, ReleaseIsProven, MaybeOrder, Jobs, Steps, NoJob, NoCycle

(* A free window, and any call that ends, keep the proofs.                 *)
LEMMA FreeWindow ==
  ASSUME SubmissionTypeOK, JobSound, NEW w \in Windows, job' = [job EXCEPT ![w] = NoJob],
         seals \subseteq seals', entries \subseteq entries'
  PROVE  job' \in [Windows -> Jobs] /\ JobSound'
  BY DEF SubmissionTypeOK, JobSound, NoJob, Jobs, MaybeOrder, Steps

LEMMA ReleaseStep ==
  ASSUME SubmissionAssumption, ReleaseInv, [SubmissionNext]_submissionVars PROVE ReleaseInv'
<1> USE DEF ReleaseInv, submissionVars, cartVars, windowVars, countVars
<1>1. CASE UNCHANGED submissionVars
  BY <1>1 DEF SubmissionTypeOK, JobSound, CycleProven, EmptyIsIdle, ReleaseIsProven
<1>2. ASSUME NEW w \in Windows, NEW op \in Ops, NEW o \in MaybeOrder, NEW b \in Branches, Wait(w, op, o, b)
      PROVE  gate' \in [Windows -> Seq(Waiting)]
  <2>1. [op |-> op, order |-> o, branch |-> b] \in Waiting
    BY DEF Waiting
  <2>2. Append(gate[w], [op |-> op, order |-> o, branch |-> b]) \in Seq(Waiting)
    BY <2>1, AppendProperties DEF SubmissionTypeOK
  <2> QED BY <1>2, <2>2 DEF Wait, SubmissionTypeOK
<1>3. ASSUME NEW o \in Orders, BeginTrustedSaleSubmission(o) \/ SubmitAsyncOrder(o) \/ SettleBound(o)
      PROVE  ReleaseInv'
  <2>1. gate' \in [Windows -> Seq(Waiting)]
    <3>1. OrderWindow[o] \in Windows /\ OrderBranch[o] \in Branches /\ o \in MaybeOrder
          /\ {"begin", "complete"} \subseteq Ops
      BY DEF SubmissionAssumption, MaybeOrder, Ops
    <3>2. CASE BeginTrustedSaleSubmission(o)
      BY <1>2, <3>1, <3>2 DEF BeginTrustedSaleSubmission
    <3>3. CASE SubmitAsyncOrder(o)
      BY <1>2, <3>1, <3>3 DEF SubmitAsyncOrder
    <3>4. CASE SettleBound(o)
      BY <3>4 DEF SettleBound, SubmissionTypeOK
    <3> QED BY <1>3, <3>2, <3>3, <3>4
  <2>2. /\ checkout' \in [Orders -> {"new", "beginning", "ready", "completing", "done", "lost"}]
        /\ answer' \in [Orders -> {"none", "ok", "failed", "timeout"}]
        /\ UNCHANGED <<cartVars, job, cycle, owner, countVars>>
    BY <1>3 DEF BeginTrustedSaleSubmission, SubmitAsyncOrder, SettleBound, SubmissionTypeOK
  <2> QED BY <2>1, <2>2 DEF SubmissionTypeOK, JobSound, CycleProven, EmptyIsIdle, ReleaseIsProven
<1>4. ASSUME NEW w \in Windows, NEW b \in Branches, TrustedResumeSweep(w, b) PROVE ReleaseInv'
  <2>1. gate' \in [Windows -> Seq(Waiting)]
    BY <1>2, <1>4 DEF TrustedResumeSweep, Ops, MaybeOrder
  <2> QED BY <1>4, <2>1 DEF TrustedResumeSweep, SubmissionTypeOK, JobSound, CycleProven, EmptyIsIdle, ReleaseIsProven
<1>5. ASSUME NEW w \in Windows, Crash(w) PROVE ReleaseInv'
  <2>1. job' \in [Windows -> Jobs] /\ JobSound'
    BY <1>5, FreeWindow DEF Crash
  <2>2. cycle' \in [Windows -> [order : MaybeOrder, auth : MaybeOrder]] /\ CycleProven'
    BY <1>5 DEF Crash, SubmissionTypeOK, CycleProven, NoCycle, MaybeOrder
  <2>3. /\ gate' \in [Windows -> Seq(Waiting)]
        /\ owner' \in [Windows -> Branches \cup {NoOrder}]
        /\ checkout' \in [Orders -> {"new", "beginning", "ready", "completing", "done", "lost"}]
        /\ crashed' \in Nat
    BY <1>5 DEF Crash, SubmissionTypeOK
  <2> QED BY <1>5, <2>1, <2>2, <2>3 DEF Crash, SubmissionTypeOK, EmptyIsIdle, ReleaseIsProven
<1>6. ASSUME NEW w \in Windows, Enter(w) PROVE ReleaseInv'
  <2>1. PICK i \in DOMAIN gate[w] :
          /\ job' = [job EXCEPT ![w] = [op |-> gate[w][i].op, order |-> gate[w][i].order,
                                        branch |-> gate[w][i].branch, at |-> "start", auth |-> NoOrder]]
          /\ gate' = [gate EXCEPT ![w] = RemoveAt(@, i)]
          /\ owner' = [owner EXCEPT ![w] = gate[w][i].branch]
          /\ cycle' = [cycle EXCEPT ![w] = IF owner[w] = gate[w][i].branch THEN @ ELSE NoCycle]
    BY <1>6 DEF Enter
  <2>2. gate[w] \in Seq(Waiting) /\ gate[w][i] \in Waiting
    BY DEF SubmissionTypeOK
  <2>3. RemoveAt(gate[w], i) \in Seq(Waiting)
    BY <2>2, WithoutOne
  <2>4. gate' \in [Windows -> Seq(Waiting)]
    BY <2>1, <2>3 DEF SubmissionTypeOK
  <2>5. job' \in [Windows -> Jobs] /\ owner' \in [Windows -> Branches \cup {NoOrder}]
    BY <2>1, <2>2 DEF SubmissionTypeOK, Waiting, Jobs, MaybeOrder, Ops, Steps
  <2>6. JobSound'
    BY <1>6, <2>1, <2>2 DEF Enter, SubmissionTypeOK, JobSound, Waiting
  <2>7. cycle' \in [Windows -> [order : MaybeOrder, auth : MaybeOrder]] /\ CycleProven'
    BY <1>6, <2>1 DEF Enter, SubmissionTypeOK, CycleProven, NoCycle, MaybeOrder
  <2> QED BY <1>6, <2>4, <2>5, <2>6, <2>7 DEF Enter, SubmissionTypeOK, EmptyIsIdle, ReleaseIsProven
(* A call that goes on, with what it is authorized for.                    *)
<1>7. ASSUME NEW w \in Windows, NEW at \in Steps, NEW auth \in MaybeOrder, Proceed(w, at, auth),
             at \in {"fenced", "refused", "absent", "present"} => auth \in Orders,
             at = "absent" => auth \in seals', at = "present" => auth \in entries',
             seals \subseteq seals', entries \subseteq entries'
      PROVE  job' \in [Windows -> Jobs] /\ JobSound' /\ UNCHANGED <<checkout, answer>>
  <2>1. job[w] \in Jobs
    BY DEF SubmissionTypeOK
  <2>2. /\ job' = [job EXCEPT ![w] = [job[w] EXCEPT !.at = at, !.auth = auth]]
        /\ UNCHANGED <<checkout, answer>>
    BY <1>7 DEF Proceed
  <2>3. [job[w] EXCEPT !.at = at, !.auth = auth] \in Jobs
    BY <2>1 DEF Jobs
  <2>4. job' \in [Windows -> Jobs]
    BY <2>2, <2>3 DEF SubmissionTypeOK
  <2>5. ASSUME NEW v \in Windows
        PROVE  /\ job'[v].op # "none" => job'[v].branch \in Branches
               /\ job'[v].at \in {"fenced", "refused", "absent", "present"} => job'[v].auth \in Orders
               /\ job'[v].at = "absent" => job'[v].auth \in seals'
               /\ job'[v].at = "present" => job'[v].auth \in entries'
    <3>1. CASE v = w
      <4>1. /\ job'[v].at = at /\ job'[v].auth = auth
            /\ job'[v].op = job[v].op /\ job'[v].branch = job[v].branch
        BY <2>1, <2>2, <3>1 DEF SubmissionTypeOK, Jobs
      <4> QED BY <1>7, <3>1, <4>1 DEF JobSound
    <3>2. CASE v # w
      <4>1. job'[v] = job[v]
        BY <2>2, <3>2 DEF SubmissionTypeOK
      <4> QED BY <1>7, <4>1 DEF JobSound
    <3> QED BY <3>1, <3>2
  <2> QED BY <2>2, <2>4, <2>5 DEF JobSound
<1>8. ASSUME NEW w \in Windows, NEW result \in {"ok", "failed"}, Leave(w, result),
             seals \subseteq seals', entries \subseteq entries'
      PROVE  /\ job' \in [Windows -> Jobs] /\ JobSound'
             /\ checkout' \in [Orders -> {"new", "beginning", "ready", "completing", "done", "lost"}]
             /\ answer' \in [Orders -> {"none", "ok", "failed", "timeout"}]
  BY <1>8, LeaveEffect, FreeWindow
<1>9. ASSUME NEW w \in Windows, job[w].branch \in Branches PROVE MyCart(w) \in [order : MaybeOrder, fence : {"idle", "held", "released"}]
  BY <1>9 DEF MyCart, SubmissionTypeOK
<1>10. ASSUME NEW w \in Windows, BeginActiveCartGeneration(w) PROVE ReleaseInv'
  <2>1. job[w] \in Jobs /\ job[w].branch \in Branches
    BY <1>10 DEF BeginActiveCartGeneration, Doing, JobSound, SubmissionTypeOK
  <2>2. CASE Succeeds(MyCart(w), job[w].order)
    <3>1. job' \in [Windows -> Jobs] /\ JobSound' /\ UNCHANGED <<checkout, answer>>
      BY <1>7, <1>10, <2>2 DEF BeginActiveCartGeneration, Steps, MaybeOrder
    <3>2. cart' = [cart EXCEPT ![job[w].branch] = [order |-> job[w].order, fence |-> "idle"]]
      BY <1>10, <2>2 DEF BeginActiveCartGeneration, SetCart
    <3>3. cart' \in [Branches -> [order : MaybeOrder, fence : {"idle", "held", "released"}]]
          /\ EmptyIsIdle' /\ ReleaseIsProven'
      BY <1>10, <2>1, <3>2 DEF BeginActiveCartGeneration, SubmissionTypeOK, Jobs, EmptyIsIdle, ReleaseIsProven
    <3> QED BY <1>10, <3>1, <3>3 DEF BeginActiveCartGeneration, SubmissionTypeOK, CycleProven
  <2>3. CASE ~Succeeds(MyCart(w), job[w].order)
    BY <1>8, <1>10, <2>3 DEF BeginActiveCartGeneration, SubmissionTypeOK, CycleProven, EmptyIsIdle, ReleaseIsProven
  <2> QED BY <2>2, <2>3
<1>11. ASSUME NEW w \in Windows, AcquireResumeFence(w) PROVE ReleaseInv'
  <2>1. job[w].branch \in Branches
    BY <1>11 DEF AcquireResumeFence, Doing, JobSound
  <2>2. CASE MyCart(w).order # NoOrder /\ MyCart(w).fence \in {"idle", "held"}
    <3>1. MyCart(w).order \in Orders
      BY <1>9, <2>1, <2>2 DEF MaybeOrder
    <3>2. job' \in [Windows -> Jobs] /\ JobSound' /\ UNCHANGED <<checkout, answer>>
      BY <1>7, <1>11, <2>2, <3>1 DEF AcquireResumeFence, Steps, MaybeOrder
    <3>3. cart' = [cart EXCEPT ![job[w].branch] = [order |-> MyCart(w).order, fence |-> "held"]]
      BY <1>11, <2>2 DEF AcquireResumeFence, SetCart
    <3>4. cart' \in [Branches -> [order : MaybeOrder, fence : {"idle", "held", "released"}]]
          /\ EmptyIsIdle' /\ ReleaseIsProven'
      BY <1>11, <2>1, <2>2, <3>1, <3>3 DEF AcquireResumeFence, SubmissionTypeOK, MaybeOrder, EmptyIsIdle, ReleaseIsProven
    <3> QED BY <1>11, <3>2, <3>4 DEF AcquireResumeFence, SubmissionTypeOK, CycleProven
  <2>3. CASE ~(MyCart(w).order # NoOrder /\ MyCart(w).fence \in {"idle", "held"})
    BY <1>8, <1>11, <2>3 DEF AcquireResumeFence, SubmissionTypeOK, CycleProven, EmptyIsIdle, ReleaseIsProven
  <2> QED BY <2>2, <2>3
<1>12. ASSUME NEW w \in Windows, CommitEvidenceEntry(w) PROVE ReleaseInv'
  <2>1. job[w] \in Jobs /\ job[w].auth \in Orders
    BY <1>12 DEF CommitEvidenceEntry, Doing, JobSound, SubmissionTypeOK
  <2>2. entries' = entries \cup {job[w].auth} /\ UNCHANGED <<cart, seals>>
    BY <1>12 DEF CommitEvidenceEntry
  <2>3. /\ job' \in [Windows -> Jobs] /\ JobSound'
        /\ checkout' \in [Orders -> {"new", "beginning", "ready", "completing", "done", "lost"}]
        /\ answer' \in [Orders -> {"none", "ok", "failed", "timeout"}]
    BY <1>8, <1>12, <2>2 DEF CommitEvidenceEntry
  <2>4. cycle' \in [Windows -> [order : MaybeOrder, auth : MaybeOrder]] /\ CycleProven'
    BY <1>12, <2>1 DEF CommitEvidenceEntry, SubmissionTypeOK, CycleProven, Jobs
  <2> QED BY <1>12, <2>1, <2>2, <2>3, <2>4
          DEF CommitEvidenceEntry, SubmissionTypeOK, EmptyIsIdle, ReleaseIsProven
<1>13. ASSUME NEW w \in Windows, CommitAbsenceSeal(w) PROVE ReleaseInv'
  <2>1. job[w].auth \in Orders
    BY <1>13 DEF CommitAbsenceSeal, Doing, JobSound
  <2>2. seals' = (IF Sealable(job[w].auth) THEN seals \cup {job[w].auth} ELSE seals) /\ UNCHANGED <<cart, entries>>
    BY <1>13 DEF CommitAbsenceSeal
  <2>3. job' \in [Windows -> Jobs] /\ JobSound' /\ UNCHANGED <<checkout, answer>>
    BY <1>7, <1>13, <2>1, <2>2 DEF CommitAbsenceSeal, Steps, MaybeOrder
  <2> QED BY <1>13, <2>1, <2>2, <2>3
          DEF CommitAbsenceSeal, SubmissionTypeOK, CycleProven, EmptyIsIdle, ReleaseIsProven
<1>14. ASSUME NEW w \in Windows, ProveEvidencePresence(w) PROVE ReleaseInv'
  <2>1. job[w].auth \in Orders
    BY <1>14 DEF ProveEvidencePresence, Doing, JobSound
  <2>2. /\ job' \in [Windows -> Jobs] /\ JobSound'
        /\ checkout' \in [Orders -> {"new", "beginning", "ready", "completing", "done", "lost"}]
        /\ answer' \in [Orders -> {"none", "ok", "failed", "timeout"}]
    <3>1. CASE job[w].auth \in entries
      BY <1>7, <1>14, <2>1, <3>1 DEF ProveEvidencePresence, Steps, MaybeOrder, SubmissionTypeOK
    <3>2. CASE job[w].auth \notin entries
      BY <1>8, <1>14, <3>2 DEF ProveEvidencePresence
    <3> QED BY <3>1, <3>2
  <2> QED BY <1>14, <2>2 DEF ProveEvidencePresence, SubmissionTypeOK, CycleProven, EmptyIsIdle, ReleaseIsProven
(* The fence released, if it was, is that of a sale that has its proof.    *)
<1>15. ASSUME NEW w \in Windows, NEW auth \in MaybeOrder, job[w].branch \in Branches,
              auth \in entries \cup seals \cup {NoOrder}, Release(w, auth), UNCHANGED <<entries, seals>>
       PROVE  /\ cart' \in [Branches -> [order : MaybeOrder, fence : {"idle", "held", "released"}]]
              /\ EmptyIsIdle' /\ ReleaseIsProven'
  <2>1. CASE Releasable(MyCart(w), auth)
    <3>1. MyCart(w).order = auth /\ auth # NoOrder
      BY <1>15, <2>1 DEF Releasable, MyCart, EmptyIsIdle
    <3>2. cart' = [cart EXCEPT ![job[w].branch] = [order |-> auth, fence |-> "released"]]
      BY <1>15, <2>1, <3>1 DEF Release, SetCart
    <3> QED BY <1>15, <3>1, <3>2 DEF SubmissionTypeOK, EmptyIsIdle, ReleaseIsProven
  <2>2. CASE ~Releasable(MyCart(w), auth)
    BY <1>15, <2>2 DEF Release, SubmissionTypeOK, EmptyIsIdle, ReleaseIsProven
  <2> QED BY <2>1, <2>2
<1>16. ASSUME NEW w \in Windows, ReleaseSwept(w) PROVE ReleaseInv'
  <2>1. job[w].branch \in Branches /\ job[w].auth \in entries \cup seals /\ job[w].auth \in MaybeOrder
    BY <1>16 DEF ReleaseSwept, Doing, JobSound, MaybeOrder
  <2>2. /\ cart' \in [Branches -> [order : MaybeOrder, fence : {"idle", "held", "released"}]]
        /\ EmptyIsIdle' /\ ReleaseIsProven'
    BY <1>15, <1>16, <2>1 DEF ReleaseSwept
  <2>3. /\ job' \in [Windows -> Jobs] /\ JobSound'
        /\ checkout' \in [Orders -> {"new", "beginning", "ready", "completing", "done", "lost"}]
        /\ answer' \in [Orders -> {"none", "ok", "failed", "timeout"}]
    BY <1>8, <1>16 DEF ReleaseSwept
  <2> QED BY <1>16, <2>2, <2>3 DEF ReleaseSwept, SubmissionTypeOK, CycleProven
<1>17. ASSUME NEW w \in Windows, CompleteTrustedSaleSubmission(w) PROVE ReleaseInv'
  <2>1. job[w].branch \in Branches /\ cycle[w].auth \in entries \cup seals \cup {NoOrder}
        /\ cycle[w].auth \in MaybeOrder
    BY <1>17 DEF CompleteTrustedSaleSubmission, Doing, JobSound, CycleProven, SubmissionTypeOK
  <2>2. /\ cart' \in [Branches -> [order : MaybeOrder, fence : {"idle", "held", "released"}]]
        /\ EmptyIsIdle' /\ ReleaseIsProven'
    <3>1. CASE cycle[w].order = job[w].order
      BY <1>15, <1>17, <2>1, <3>1 DEF CompleteTrustedSaleSubmission
    <3>2. CASE cycle[w].order # job[w].order
      BY <1>17, <3>2 DEF CompleteTrustedSaleSubmission, SubmissionTypeOK, EmptyIsIdle, ReleaseIsProven
    <3> QED BY <3>1, <3>2
  <2>3. cycle' \in [Windows -> [order : MaybeOrder, auth : MaybeOrder]] /\ CycleProven'
    <3>1. cycle' = cycle \/ cycle' = [cycle EXCEPT ![w] = NoCycle]
      BY <1>17 DEF CompleteTrustedSaleSubmission
    <3>2. NoCycle \in [order : MaybeOrder, auth : MaybeOrder] /\ NoCycle.auth = NoOrder
      BY DEF NoCycle, MaybeOrder
    <3>3. UNCHANGED entries
      BY <1>17 DEF CompleteTrustedSaleSubmission
    <3>4. CASE UNCHANGED cycle
      BY <3>3, <3>4 DEF SubmissionTypeOK, CycleProven
    <3>5. CASE cycle' = [cycle EXCEPT ![w] = NoCycle]
      BY <3>2, <3>3, <3>5 DEF SubmissionTypeOK, CycleProven
    <3> QED BY <3>1, <3>4, <3>5
  <2>4. /\ job' \in [Windows -> Jobs] /\ JobSound'
        /\ checkout' \in [Orders -> {"new", "beginning", "ready", "completing", "done", "lost"}]
        /\ answer' \in [Orders -> {"none", "ok", "failed", "timeout"}]
    BY <1>8, <1>17 DEF CompleteTrustedSaleSubmission
  <2> QED BY <1>17, <2>2, <2>3, <2>4 DEF CompleteTrustedSaleSubmission, SubmissionTypeOK
<1>18. ASSUME NEW w \in Windows, Abort(w) PROVE ReleaseInv'
  <2>1. /\ job' \in [Windows -> Jobs] /\ JobSound'
        /\ checkout' \in [Orders -> {"new", "beginning", "ready", "completing", "done", "lost"}]
        /\ answer' \in [Orders -> {"none", "ok", "failed", "timeout"}]
    <3>1. CASE Doing(w, "sweep", "fenced")
      <4>1. job[w].auth \in Orders
        BY <3>1 DEF Doing, JobSound
      <4> QED BY <1>7, <1>18, <3>1, <4>1 DEF Abort, Steps, MaybeOrder, SubmissionTypeOK
    <3>2. CASE ~Doing(w, "sweep", "fenced")
      BY <1>8, <1>18, <3>2 DEF Abort
    <3> QED BY <3>1, <3>2
  <2> QED BY <1>18, <2>1 DEF Abort, SubmissionTypeOK, CycleProven, EmptyIsIdle, ReleaseIsProven
<1> QED BY <1>1, <1>3, <1>4, <1>5, <1>6, <1>10, <1>11, <1>12, <1>13, <1>14, <1>16, <1>17, <1>18
        DEF SubmissionNext, Work

(* The carts, calls and records of the windows are of their types.         *)
THEOREM SubmissionTyped == ASSUME SubmissionAssumption PROVE SubmissionSpec => []SubmissionTypeOK
<1>1. SubmissionInit => ReleaseInv
  BY SubmissionInitInv
<1>2. ReleaseInv /\ [SubmissionNext]_submissionVars => ReleaseInv'
  BY ReleaseStep
<1>3. ReleaseInv => SubmissionTypeOK
  BY DEF ReleaseInv
<1> QED BY <1>1, <1>2, <1>3, PTL DEF SubmissionSpec

(* A fence is released with proof for its own sale: whatever calls the     *)
(* windows of a terminal make at once, and whatever is cut short.          *)
THEOREM ReleaseProven == ASSUME SubmissionAssumption PROVE SubmissionSpec => []ReleaseIsProven
<1>1. SubmissionInit => ReleaseInv
  BY SubmissionInitInv
<1>2. ReleaseInv /\ [SubmissionNext]_submissionVars => ReleaseInv'
  BY ReleaseStep
<1>3. ReleaseInv => ReleaseIsProven
  BY DEF ReleaseInv
<1> QED BY <1>1, <1>2, <1>3, PTL DEF SubmissionSpec

-----------------------------------------------------------------------------
(* One window.  The begin of a sale comes once: until its turn nothing was *)
(* sealed, kept, carted or authorized for that sale, and while it is on    *)
(* its way nothing is sealed or kept for it but by itself.                 *)
Unproven(o) == o \notin entries /\ o \notin seals
Untouched(o) ==
  /\ Unproven(o)
  /\ \A b \in Branches : cart[b].order # o
  /\ \A w \in Windows : job[w].auth # o
Begins(call, o) == call.op = "begin" /\ call.order = o
NewIsUntouched == \A o \in Orders : checkout[o] = "new" => Untouched(o)
CallsAreOnce ==
  \A w \in Windows, o \in Orders : \A i \in DOMAIN gate[w] : Begins(gate[w][i], o) =>
    /\ checkout[o] # "new" /\ Untouched(o)
    /\ ~Begins(job[w], o)
    /\ \A j \in DOMAIN gate[w] : Begins(gate[w][j], o) => j = i
BeginIsFirst ==
  \A w \in Windows, o \in Orders : Begins(job[w], o) =>
    /\ checkout[o] # "new" /\ Unproven(o)
    /\ job[w].at \in {"start", "begun", "fenced"}
    /\ job[w].at = "start" => Untouched(o)
    /\ job[w].at = "begun" => cart[job[w].branch].order = o
    /\ job[w].at = "fenced" => job[w].auth = o
BeginHasSale == \A w \in Windows : job[w].op = "begin" => job[w].order \in Orders
CallHasSale == \A w \in Windows : \A i \in DOMAIN gate[w] : gate[w][i].op = "begin" => gate[w][i].order \in Orders
FirstBegins == NewIsUntouched /\ CallsAreOnce /\ BeginIsFirst /\ BeginHasSale /\ CallHasSale /\ AbsenceIsSound

LEMMA FirstInit == ASSUME SubmissionAssumption, SubmissionInit PROVE FirstBegins
  BY DEF SubmissionAssumption, SubmissionInit, FirstBegins, NewIsUntouched, CallsAreOnce, BeginIsFirst,
         BeginHasSale, CallHasSale, AbsenceIsSound, Untouched, Unproven, Begins, NoJob

(* A call that ends without an entry of its own leaves nothing behind.     *)
LEMMA EndsQuietly ==
  ASSUME SubmissionAssumption, ReleaseInv, FirstBegins, OneWindow, NEW w \in Windows, Leave(w, "failed"),
         UNCHANGED <<entries, seals, gate>>, \A b \in Branches : cart'[b].order = cart[b].order
  PROVE  FirstBegins'
<1>1. SubmissionTypeOK /\ \A v \in Windows : v = w
  BY DEF ReleaseInv, OneWindow
<1>2. /\ job' = [job EXCEPT ![w] = NoJob]
      /\ \A o \in Orders : checkout'[o] = "new" <=> checkout[o] = "new"
      /\ \A o \in Orders : answer'[o] = "ok" => answer[o] = "ok"
  BY <1>1, LeaveEffect
<1>3. job'[w].op = "none" /\ job'[w].auth = NoOrder /\ job'[w].order = NoOrder
  BY <1>1, <1>2 DEF SubmissionTypeOK, NoJob
<1>4. \A o \in Orders : Untouched(o) => Untouched(o)'
  BY <1>1, <1>3 DEF SubmissionAssumption, Untouched, Unproven
<1>5. \A o \in Orders : ~Begins(job[w], o)'
  BY <1>3 DEF Begins
<1>6. NewIsUntouched'
  BY <1>2, <1>4 DEF FirstBegins, NewIsUntouched
<1>7. CallsAreOnce'
  BY <1>1, <1>2, <1>4, <1>5 DEF FirstBegins, CallsAreOnce, Begins
<1>8. BeginIsFirst' /\ BeginHasSale' /\ CallHasSale'
  BY <1>1, <1>3 DEF BeginIsFirst, BeginHasSale, FirstBegins, CallHasSale, Begins
<1>9. AbsenceIsSound'
  BY <1>2 DEF FirstBegins, AbsenceIsSound
<1> QED BY <1>6, <1>7, <1>8, <1>9 DEF FirstBegins

(* A sweep that goes on is about a sale whose turn has come, and seals one *)
(* that has no entry.                                                      *)
LEMMA SweepGoesOn ==
  ASSUME SubmissionAssumption, ReleaseInv, FirstBegins, OneWindow, NEW w \in Windows, job[w].op = "sweep",
         NEW at, NEW auth, Proceed(w, at, auth), \A o \in Orders : Untouched(o) => auth # o,
         seals' = seals \/ (seals' = seals \cup {auth} /\ auth \notin entries),
         UNCHANGED <<entries, gate>>, \A b \in Branches : cart'[b].order = cart[b].order
  PROVE  FirstBegins'
<1>1. SubmissionTypeOK /\ \A v \in Windows : v = w
  BY DEF ReleaseInv, OneWindow
<1>2. job[w] \in Jobs
  BY <1>1 DEF SubmissionTypeOK
<1>3. job'[w].op = "sweep" /\ job'[w].auth = auth /\ UNCHANGED <<checkout, answer>>
  BY <1>1, <1>2 DEF Proceed, SubmissionTypeOK, Jobs
<1>4. \A o \in Orders : Untouched(o) => Untouched(o)'
  BY <1>1, <1>3 DEF Untouched, Unproven
<1>5. \A o \in Orders : ~Begins(job[w], o)'
  BY <1>3 DEF Begins
<1>6. NewIsUntouched'
  BY <1>3, <1>4 DEF FirstBegins, NewIsUntouched
<1>7. CallsAreOnce'
  BY <1>1, <1>3, <1>4, <1>5 DEF FirstBegins, CallsAreOnce, Begins
<1>8. BeginIsFirst' /\ BeginHasSale' /\ CallHasSale'
  BY <1>1, <1>3 DEF BeginIsFirst, BeginHasSale, FirstBegins, CallHasSale, Begins
<1>9. AbsenceIsSound'
  BY <1>3 DEF FirstBegins, AbsenceIsSound
<1> QED BY <1>6, <1>7, <1>8, <1>9 DEF FirstBegins

(* The begin of a sale that goes on touches no sale but its own.           *)
LEMMA BeginGoesOn ==
  ASSUME SubmissionAssumption, ReleaseInv, FirstBegins, OneWindow, NEW w \in Windows, job[w].op = "begin",
         NEW auth \in {NoOrder, job[w].order}, NEW at \in {"begun", "fenced"}, Proceed(w, at, auth),
         at = "fenced" => auth = job[w].order, cart'[job[w].branch].order = job[w].order,
         UNCHANGED <<entries, seals, gate>>,
         \A b \in Branches : cart'[b].order \in {cart[b].order, job[w].order}
  PROVE  FirstBegins'
<1>1. SubmissionTypeOK /\ \A v \in Windows : v = w
  BY DEF ReleaseInv, OneWindow
<1>2. job[w] \in Jobs /\ job[w].order \in Orders
  BY <1>1 DEF SubmissionTypeOK, FirstBegins, BeginHasSale
<1>3. /\ job'[w].op = "begin" /\ job'[w].order = job[w].order /\ job'[w].branch = job[w].branch
      /\ job'[w].at = at /\ job'[w].auth = auth /\ UNCHANGED <<checkout, answer>>
  BY <1>1, <1>2 DEF Proceed, SubmissionTypeOK, Jobs
<1>4. \A o \in Orders : o # job[w].order /\ Untouched(o) => Untouched(o)'
  BY <1>1, <1>3 DEF SubmissionAssumption, Untouched, Unproven
<1>5. \A o \in Orders : Begins(job[w], o)' <=> o = job[w].order
  BY <1>3 DEF Begins
<1>6. checkout[job[w].order] # "new" /\ Unproven(job[w].order)
  BY <1>2 DEF FirstBegins, BeginIsFirst, Begins
<1>7. NewIsUntouched'
  BY <1>3, <1>4, <1>6 DEF FirstBegins, NewIsUntouched
<1>8. CallsAreOnce'
  <2> SUFFICES ASSUME NEW o \in Orders, NEW i \in DOMAIN gate[w], Begins(gate[w][i], o)
               PROVE  /\ checkout[o] # "new" /\ Untouched(o)' /\ ~Begins(job[w], o)'
                      /\ \A j \in DOMAIN gate[w] : Begins(gate[w][j], o) => j = i
    BY <1>1, <1>3 DEF CallsAreOnce, Begins
  <2>1. /\ checkout[o] # "new" /\ Untouched(o) /\ ~Begins(job[w], o)
        /\ \A j \in DOMAIN gate[w] : Begins(gate[w][j], o) => j = i
    BY DEF FirstBegins, CallsAreOnce
  <2>2. o # job[w].order
    BY <2>1 DEF Begins
  <2> QED BY <1>4, <1>5, <2>1, <2>2
<1>9. BeginIsFirst'
  <2> SUFFICES ASSUME NEW o \in Orders, o = job[w].order
               PROVE  /\ checkout'[o] # "new" /\ Unproven(o)'
                      /\ job'[w].at \in {"start", "begun", "fenced"}
                      /\ job'[w].at = "start" => Untouched(o)'
                      /\ job'[w].at = "begun" => cart'[job'[w].branch].order = o
                      /\ job'[w].at = "fenced" => job'[w].auth = o
    BY <1>1, <1>5 DEF BeginIsFirst
  <2> QED BY <1>3, <1>6 DEF Unproven
<1>10. BeginHasSale' /\ CallHasSale'
  BY <1>1, <1>2, <1>3 DEF FirstBegins, BeginHasSale, CallHasSale
<1>11. AbsenceIsSound'
  BY <1>3 DEF FirstBegins, AbsenceIsSound
<1> QED BY <1>7, <1>8, <1>9, <1>10, <1>11 DEF FirstBegins

(* The entry of a sale is the first that is heard of it.                   *)
LEMMA EntryIsFirst ==
  ASSUME SubmissionAssumption, ReleaseInv, FirstBegins, OneWindow, NEW w \in Windows, CommitEvidenceEntry(w)
  PROVE  FirstBegins'
<1>1. SubmissionTypeOK /\ \A v \in Windows : v = w
  BY DEF ReleaseInv, OneWindow
<1>2. /\ job[w].op = "begin" /\ job[w].at = "fenced" /\ job[w].order \in Orders
      /\ UNCHANGED <<cart, seals, gate>> /\ Leave(w, "ok") /\ entries' = entries \cup {job[w].auth}
  BY DEF CommitEvidenceEntry, Doing, FirstBegins, BeginHasSale
<1>3. /\ job' = [job EXCEPT ![w] = NoJob]
      /\ \A o \in Orders : checkout'[o] = "new" <=> checkout[o] = "new"
      /\ \A o \in Orders : answer'[o] = "ok" => answer[o] = "ok" \/ job[w].order = o
  BY <1>1, <1>2, LeaveEffect
<1>4. job'[w].op = "none" /\ job'[w].auth = NoOrder /\ job'[w].order = NoOrder
  BY <1>1, <1>3 DEF SubmissionTypeOK, NoJob
<1>5. /\ checkout[job[w].order] # "new" /\ Unproven(job[w].order)
      /\ entries' = entries \cup {job[w].order}
  BY <1>2 DEF FirstBegins, BeginIsFirst, Begins
<1>6. \A o \in Orders : o # job[w].order /\ Untouched(o) => Untouched(o)'
  BY <1>1, <1>2, <1>4, <1>5 DEF SubmissionAssumption, Untouched, Unproven
<1>7. \A o \in Orders : ~Begins(job[w], o)'
  BY <1>4 DEF Begins
<1>8. NewIsUntouched'
  BY <1>3, <1>5, <1>6 DEF FirstBegins, NewIsUntouched
<1>9. CallsAreOnce'
  <2> SUFFICES ASSUME NEW o \in Orders, NEW i \in DOMAIN gate[w], Begins(gate[w][i], o)
               PROVE  /\ checkout'[o] # "new" /\ Untouched(o)'
                      /\ \A j \in DOMAIN gate[w] : Begins(gate[w][j], o) => j = i
    BY <1>1, <1>2, <1>7 DEF CallsAreOnce, Begins
  <2>1. /\ checkout[o] # "new" /\ Untouched(o) /\ ~Begins(job[w], o)
        /\ \A j \in DOMAIN gate[w] : Begins(gate[w][j], o) => j = i
    BY DEF FirstBegins, CallsAreOnce
  <2>2. o # job[w].order
    BY <1>2, <2>1 DEF Begins
  <2> QED BY <1>3, <1>6, <2>1, <2>2
<1>10. BeginIsFirst' /\ BeginHasSale' /\ CallHasSale'
  BY <1>1, <1>2, <1>4 DEF BeginIsFirst, BeginHasSale, FirstBegins, CallHasSale, Begins
<1>11. AbsenceIsSound'
  BY <1>2, <1>3, <1>5 DEF FirstBegins, AbsenceIsSound, Unproven
<1> QED BY <1>8, <1>9, <1>10, <1>11 DEF FirstBegins

(* A call that takes its turn is no longer in the gate.                    *)
LEMMA TurnIsTaken ==
  ASSUME SubmissionAssumption, ReleaseInv, FirstBegins, OneWindow, NEW w \in Windows, Enter(w)
  PROVE  FirstBegins'
<1>1. SubmissionTypeOK /\ \A v \in Windows : v = w
  BY DEF ReleaseInv, OneWindow
<1>2. PICK i \in DOMAIN gate[w] :
        /\ job' = [job EXCEPT ![w] = [op |-> gate[w][i].op, order |-> gate[w][i].order,
                                      branch |-> gate[w][i].branch, at |-> "start", auth |-> NoOrder]]
        /\ gate' = [gate EXCEPT ![w] = RemoveAt(@, i)]
  BY DEF Enter
<1>3. /\ job'[w].op = gate[w][i].op /\ job'[w].order = gate[w][i].order
      /\ job'[w].at = "start" /\ job'[w].auth = NoOrder
      /\ gate'[w] = RemoveAt(gate[w], i)
      /\ UNCHANGED <<cart, entries, seals, checkout, answer>>
  BY <1>1, <1>2 DEF Enter, SubmissionTypeOK, cartVars
<1>4. ASSUME NEW j \in DOMAIN gate'[w]
      PROVE  \E k \in DOMAIN gate[w] \ {i} : k = (IF j < i THEN j ELSE j + 1) /\ gate'[w][j] = gate[w][k]
  <2>1. gate[w] \in Seq(Waiting)
    BY <1>1 DEF SubmissionTypeOK
  <2>2. /\ DOMAIN RemoveAt(gate[w], i) = 1..(Len(gate[w]) - 1)
        /\ \A k \in 1..(Len(gate[w]) - 1) :
             /\ (IF k < i THEN k ELSE k + 1) \in DOMAIN gate[w] \ {i}
             /\ RemoveAt(gate[w], i)[k] = gate[w][IF k < i THEN k ELSE k + 1]
    BY <2>1, WithoutOne
  <2>3. j \in 1..(Len(gate[w]) - 1)
    BY <1>3, <2>2
  <2> QED BY <1>3, <2>2, <2>3
<1>5. \A o \in Orders : Untouched(o) => Untouched(o)'
  BY <1>1, <1>3 DEF SubmissionAssumption, Untouched, Unproven
<1>6. \A o \in Orders : Begins(job[w], o)' <=> Begins(gate[w][i], o)
  BY <1>3 DEF Begins
<1>7. NewIsUntouched'
  BY <1>3, <1>5 DEF FirstBegins, NewIsUntouched
<1>8. CallsAreOnce'
  <2> SUFFICES ASSUME NEW o \in Orders, NEW j \in DOMAIN gate'[w], Begins(gate'[w][j], o)
               PROVE  /\ checkout[o] # "new" /\ Untouched(o)' /\ ~Begins(job[w], o)'
                      /\ \A l \in DOMAIN gate'[w] : Begins(gate'[w][l], o) => l = j
    BY <1>1, <1>3 DEF CallsAreOnce, Begins
  <2>1. PICK k \in DOMAIN gate[w] \ {i} : k = (IF j < i THEN j ELSE j + 1) /\ gate'[w][j] = gate[w][k]
    BY <1>4
  <2>2. /\ checkout[o] # "new" /\ Untouched(o)
        /\ \A l \in DOMAIN gate[w] : Begins(gate[w][l], o) => l = k
    BY <2>1 DEF FirstBegins, CallsAreOnce
  <2>3. ~Begins(gate[w][i], o)
    BY <2>1, <2>2
  <2>4. ASSUME NEW l \in DOMAIN gate'[w], Begins(gate'[w][l], o) PROVE l = j
    <3>1. PICK m \in DOMAIN gate[w] \ {i} : m = (IF l < i THEN l ELSE l + 1) /\ gate'[w][l] = gate[w][m]
      BY <1>4
    <3>2. m = k
      BY <2>2, <2>4, <3>1
    <3>3. l \in Nat /\ j \in Nat /\ i \in Nat
      <4>1. gate[w] \in Seq(Waiting) /\ gate'[w] \in Seq(Waiting)
        BY <1>1, <1>3, WithoutOne DEF SubmissionTypeOK
      <4> QED BY <4>1
    <3> QED BY <2>1, <3>1, <3>2, <3>3
  <2> QED BY <1>5, <1>6, <2>2, <2>3, <2>4
<1>9. BeginIsFirst'
  <2> SUFFICES ASSUME NEW o \in Orders, Begins(job[w], o)' PROVE checkout[o] # "new" /\ Untouched(o)'
    BY <1>1, <1>3 DEF BeginIsFirst, Untouched
  <2> QED BY <1>5, <1>6 DEF FirstBegins, CallsAreOnce
<1>10. BeginHasSale' /\ CallHasSale'
  BY <1>1, <1>3, <1>4 DEF FirstBegins, BeginHasSale, CallHasSale
<1>11. AbsenceIsSound'
  BY <1>3 DEF FirstBegins, AbsenceIsSound
<1> QED BY <1>7, <1>8, <1>9, <1>10, <1>11 DEF FirstBegins

(* A call that joins the gate: the begin of a sale that was new, or none.  *)
LEMMA CallIsMade ==
  ASSUME SubmissionAssumption, ReleaseInv, FirstBegins, OneWindow, NEW w \in Windows, NEW op \in Ops,
         NEW o \in MaybeOrder, NEW b \in Branches, Wait(w, op, o, b), UNCHANGED <<cart, entries, seals, job, answer>>,
         op = "begin" => o \in Orders /\ checkout[o] = "new" /\ checkout'[o] # "new",
         \A p \in Orders : checkout[p] # "new" => checkout'[p] # "new"
  PROVE  FirstBegins'
<1>1. SubmissionTypeOK /\ \A v \in Windows : v = w
  BY DEF ReleaseInv, OneWindow
<1> DEFINE call == [op |-> op, order |-> o, branch |-> b]
<1>2. /\ gate[w] \in Seq(Waiting) /\ gate'[w] = Append(gate[w], call)
  BY <1>1 DEF Wait, SubmissionTypeOK
<1>3. DOMAIN gate'[w] = DOMAIN gate[w] \cup {Len(gate[w]) + 1} /\ Len(gate[w]) + 1 \notin DOMAIN gate[w]
  BY <1>2
<1>4. gate'[w][Len(gate[w]) + 1] = call /\ \A j \in DOMAIN gate[w] : gate'[w][j] = gate[w][j]
  BY <1>2
<1>5. \A p \in Orders : Untouched(p) <=> Untouched(p)'
  BY DEF Untouched, Unproven
<1>6. \A p \in Orders : Begins(call, p) <=> op = "begin" /\ o = p
  BY DEF Begins
<1> HIDE DEF call
<1>7. NewIsUntouched'
  BY <1>5 DEF FirstBegins, NewIsUntouched
<1>8. CallsAreOnce'
  <2> SUFFICES ASSUME NEW p \in Orders, NEW j \in DOMAIN gate'[w], Begins(gate'[w][j], p)
               PROVE  /\ checkout'[p] # "new" /\ Untouched(p) /\ ~Begins(job[w], p)
                      /\ \A l \in DOMAIN gate'[w] : Begins(gate'[w][l], p) => l = j
    BY <1>1, <1>5 DEF CallsAreOnce, Begins
  <2>1. CASE j = Len(gate[w]) + 1
    <3>1. op = "begin" /\ o = p /\ checkout[p] = "new" /\ checkout'[p] # "new"
      BY <1>4, <1>6, <2>1
    <3>2. Untouched(p) /\ ~Begins(job[w], p) /\ \A l \in DOMAIN gate[w] : ~Begins(gate[w][l], p)
      BY <3>1 DEF FirstBegins, NewIsUntouched, CallsAreOnce, BeginIsFirst
    <3> QED BY <1>3, <1>4, <2>1, <3>1, <3>2
  <2>2. CASE j \in DOMAIN gate[w]
    <3>1. /\ checkout[p] # "new" /\ Untouched(p) /\ ~Begins(job[w], p)
          /\ \A l \in DOMAIN gate[w] : Begins(gate[w][l], p) => l = j
      BY <1>4, <2>2 DEF FirstBegins, CallsAreOnce
    <3>2. ~Begins(call, p)
      BY <1>6, <3>1
    <3> QED BY <1>3, <1>4, <3>1, <3>2
  <2> QED BY <1>3, <2>1, <2>2
<1>9. BeginIsFirst' /\ BeginHasSale'
  BY <1>5 DEF FirstBegins, BeginIsFirst, BeginHasSale, Unproven, Begins
<1>10. CallHasSale'
  BY <1>1, <1>3, <1>4 DEF FirstBegins, CallHasSale, call
<1>11. AbsenceIsSound'
  BY DEF FirstBegins, AbsenceIsSound
<1> QED BY <1>7, <1>8, <1>9, <1>10, <1>11 DEF FirstBegins

LEMMA FirstStep ==
  ASSUME SubmissionAssumption, ReleaseInv, FirstBegins, OneWindow, [SubmissionNext]_submissionVars
  PROVE  FirstBegins'
<1> USE DEF submissionVars, cartVars, windowVars, countVars
<1>1. CASE UNCHANGED submissionVars
  BY <1>1 DEF FirstBegins, NewIsUntouched, CallsAreOnce, BeginIsFirst, BeginHasSale, CallHasSale, AbsenceIsSound,
              Untouched, Unproven, Begins
<1>2. ASSUME NEW o \in Orders, BeginTrustedSaleSubmission(o) \/ SubmitAsyncOrder(o) PROVE FirstBegins'
  <2>1. /\ OrderWindow[o] \in Windows /\ OrderBranch[o] \in Branches /\ o \in MaybeOrder
        /\ "begin" \in Ops /\ "complete" \in Ops
    BY DEF SubmissionAssumption, MaybeOrder, Ops
  <2>2. checkout \in [Orders -> {"new", "beginning", "ready", "completing", "done", "lost"}]
    BY DEF ReleaseInv, SubmissionTypeOK
  <2>3. CASE BeginTrustedSaleSubmission(o)
    BY <2>1, <2>2, <2>3, CallIsMade DEF BeginTrustedSaleSubmission
  <2>4. CASE SubmitAsyncOrder(o)
    BY <2>1, <2>2, <2>4, CallIsMade DEF SubmitAsyncOrder
  <2> QED BY <1>2, <2>3, <2>4
<1>3. ASSUME NEW o \in Orders, SettleBound(o) PROVE FirstBegins'
  <2>1. \A p \in Orders : /\ checkout'[p] = "new" <=> checkout[p] = "new"
                          /\ answer'[p] = "ok" => answer[p] = "ok"
    BY <1>3 DEF SettleBound, ReleaseInv, SubmissionTypeOK
  <2>2. UNCHANGED <<cart, entries, seals, gate, job>>
    BY <1>3 DEF SettleBound
  <2> QED BY <2>1, <2>2 DEF FirstBegins, NewIsUntouched, CallsAreOnce, BeginIsFirst, BeginHasSale, CallHasSale,
                            AbsenceIsSound, Untouched, Unproven, Begins
<1>4. ASSUME NEW w \in Windows, NEW b \in Branches, TrustedResumeSweep(w, b) PROVE FirstBegins'
  BY <1>4, CallIsMade DEF TrustedResumeSweep, Ops, MaybeOrder
<1>5. ASSUME NEW w \in Windows, Crash(w) PROVE FirstBegins'
  <2>1. SubmissionTypeOK /\ \A v \in Windows : v = w
    BY DEF ReleaseInv, OneWindow
  <2>2. /\ job'[w].op = "none" /\ job'[w].auth = NoOrder /\ gate'[w] = <<>>
        /\ \A o \in Orders : checkout'[o] = "new" <=> checkout[o] = "new"
        /\ UNCHANGED <<cart, entries, seals, answer>>
    BY <1>5, <2>1 DEF Crash, SubmissionTypeOK, NoJob
  <2> QED BY <2>1, <2>2 DEF SubmissionAssumption, FirstBegins, NewIsUntouched, CallsAreOnce, BeginIsFirst,
                            BeginHasSale, CallHasSale, AbsenceIsSound, Untouched, Unproven, Begins
<1>6. ASSUME NEW w \in Windows, BeginActiveCartGeneration(w) PROVE FirstBegins'
  <2>1. job[w].op = "begin" /\ job[w].branch \in Branches /\ UNCHANGED <<entries, seals, gate>>
    BY <1>6 DEF BeginActiveCartGeneration, Doing, ReleaseInv, JobSound
  <2>2. cart \in [Branches -> [order : MaybeOrder, fence : {"idle", "held", "released"}]]
    BY DEF ReleaseInv, SubmissionTypeOK
  <2>3. CASE Succeeds(MyCart(w), job[w].order)
    <3>1. cart' = [cart EXCEPT ![job[w].branch] = [order |-> job[w].order, fence |-> "idle"]]
          /\ Proceed(w, "begun", NoOrder)
      BY <1>6, <2>3 DEF BeginActiveCartGeneration, SetCart
    <3>2. /\ cart'[job[w].branch].order = job[w].order
          /\ \A b \in Branches : cart'[b].order \in {cart[b].order, job[w].order}
      BY <2>1, <2>2, <3>1
    <3> QED BY <2>1, <3>1, <3>2, BeginGoesOn
  <2>4. CASE ~Succeeds(MyCart(w), job[w].order)
    BY <1>6, <2>1, <2>4, EndsQuietly DEF BeginActiveCartGeneration
  <2> QED BY <2>3, <2>4
<1>7. ASSUME NEW w \in Windows, AcquireResumeFence(w) PROVE FirstBegins'
  <2>1. job[w].branch \in Branches /\ UNCHANGED <<entries, seals, gate>>
    BY <1>7 DEF AcquireResumeFence, Doing, ReleaseInv, JobSound
  <2>2. cart \in [Branches -> [order : MaybeOrder, fence : {"idle", "held", "released"}]]
    BY DEF ReleaseInv, SubmissionTypeOK
  <2>3. CASE MyCart(w).order # NoOrder /\ MyCart(w).fence \in {"idle", "held"}
    <3>1. cart' = [cart EXCEPT ![job[w].branch] = [order |-> MyCart(w).order, fence |-> "held"]]
          /\ Proceed(w, "fenced", MyCart(w).order)
      BY <1>7, <2>3 DEF AcquireResumeFence, SetCart
    <3>2. \A b \in Branches : cart'[b].order = cart[b].order
      BY <2>1, <2>2, <3>1 DEF MyCart
    <3>3. CASE Doing(w, "begin", "begun")
      <4>1. job[w].op = "begin" /\ MyCart(w).order = job[w].order
        BY <3>3 DEF Doing, MyCart, FirstBegins, BeginIsFirst, BeginHasSale, Begins
      <4>2. cart'[job[w].branch].order = job[w].order
        BY <2>1, <3>2, <4>1 DEF MyCart
      <4> QED BY <2>1, <3>1, <3>2, <4>1, <4>2, BeginGoesOn
    <3>4. CASE Doing(w, "sweep", "start")
      <4>1. \A o \in Orders : Untouched(o) => MyCart(w).order # o
        BY <2>1 DEF Untouched, MyCart
      <4> QED BY <2>1, <3>1, <3>2, <3>4, <4>1, SweepGoesOn DEF Doing
    <3> QED BY <1>7, <3>3, <3>4 DEF AcquireResumeFence
  <2>4. CASE ~(MyCart(w).order # NoOrder /\ MyCart(w).fence \in {"idle", "held"})
    BY <1>7, <2>1, <2>4, EndsQuietly DEF AcquireResumeFence
  <2> QED BY <2>3, <2>4
<1>8. ASSUME NEW w \in Windows, CommitAbsenceSeal(w) PROVE FirstBegins'
  <2>1. \A o \in Orders : Untouched(o) => job[w].auth # o
    BY DEF Untouched
  <2>2. CASE job[w].auth \notin entries
    BY <1>8, <2>1, <2>2, SweepGoesOn DEF CommitAbsenceSeal, Sealable, Doing
  <2>3. CASE job[w].auth \in entries
    BY <1>8, <2>1, <2>3, SweepGoesOn DEF CommitAbsenceSeal, Sealable, Doing
  <2> QED BY <2>2, <2>3
<1>10. ASSUME NEW w \in Windows, ProveEvidencePresence(w) PROVE FirstBegins'
  <2>1. \A o \in Orders : Untouched(o) => job[w].auth # o
    BY DEF Untouched
  <2>2. CASE job[w].auth \in entries
    BY <1>10, <2>1, <2>2, SweepGoesOn DEF ProveEvidencePresence, Doing
  <2>3. CASE job[w].auth \notin entries
    BY <1>10, <2>3, EndsQuietly DEF ProveEvidencePresence
  <2> QED BY <2>2, <2>3
<1>11. ASSUME NEW w \in Windows, NEW auth, Release(w, auth) PROVE \A b \in Branches : cart'[b].order = cart[b].order
  BY <1>11 DEF Release, SetCart, MyCart, ReleaseInv, SubmissionTypeOK
<1>12. ASSUME NEW w \in Windows, ReleaseSwept(w) PROVE FirstBegins'
  BY <1>11, <1>12, EndsQuietly DEF ReleaseSwept
<1>13. ASSUME NEW w \in Windows, CompleteTrustedSaleSubmission(w) PROVE FirstBegins'
  <2>1. \A b \in Branches : cart'[b].order = cart[b].order
    BY <1>11, <1>13 DEF CompleteTrustedSaleSubmission
  <2> QED BY <1>13, <2>1, EndsQuietly DEF CompleteTrustedSaleSubmission
<1>14. ASSUME NEW w \in Windows, Abort(w) PROVE FirstBegins'
  <2>1. \A o \in Orders : Untouched(o) => job[w].auth # o
    BY DEF Untouched
  <2>2. CASE Doing(w, "sweep", "fenced")
    BY <1>14, <2>1, <2>2, SweepGoesOn DEF Abort, Doing
  <2>3. CASE ~Doing(w, "sweep", "fenced")
    BY <1>14, <2>3, EndsQuietly DEF Abort
  <2> QED BY <2>2, <2>3
<1> QED BY <1>1, <1>2, <1>3, <1>4, <1>5, <1>6, <1>7, <1>8, <1>10, <1>12, <1>13, <1>14, EntryIsFirst, TurnIsTaken
        DEF SubmissionNext, Work

(* With one window, a sale whose begin answered ok has its entry, and no   *)
(* sale that has one is ever sealed absent: whatever is cut short, for any *)
(* number of sales and branches.                                           *)
THEOREM AbsenceSound == ASSUME SubmissionAssumption PROVE SubmissionSpec => []AbsenceIsSound
<1> DEFINE Inv == ReleaseInv /\ (OneWindow => FirstBegins)
<1>1. SubmissionInit => Inv
  BY SubmissionInitInv, FirstInit
<1>2. Inv /\ [SubmissionNext]_submissionVars => Inv'
  BY ReleaseStep, FirstStep DEF OneWindow
<1>3. Inv => AbsenceIsSound
  BY DEF FirstBegins, AbsenceIsSound
<1> HIDE DEF Inv
<1> QED BY <1>1, <1>2, <1>3, PTL DEF SubmissionSpec
=============================================================================
