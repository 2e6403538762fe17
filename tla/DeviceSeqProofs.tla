-------------------------- MODULE DeviceSeqProofs --------------------------
(***************************************************************************)
(* No sequence number of a terminal is issued twice, for any number of     *)
(* windows, openings and wipes, under the conditions each theorem states.  *)
(***************************************************************************)
EXTENDS DeviceSeq, SequenceTheorems, TLAPS

-----------------------------------------------------------------------------
(* The sequence number of a terminal: the types, and what a transaction    *)
(* that is requested or heard of does to a queue.                          *)
Writing == [op : {"put", "allocate", "late"}, n : 0..MaxSeq]
SeqTyped == SeqTypeOK /\ queue \in [Tabs -> Seq(Writing)] /\ opened \in Nat /\ wiped \in Nat

LEMMA HigherIs == ASSUME NEW m \in Nat, NEW n \in Nat PROVE Higher(m, n) = IF m >= n THEN m ELSE n
<1>1. Max({m, n}) \in {m, n} /\ \A y \in {m, n} : y <= Max({m, n})
  <2>1. \E x \in {m, n} : \A y \in {m, n} : x >= y
    <3>1. CASE m >= n BY <3>1
    <3>2. CASE ~(m >= n) BY <3>2
    <3> QED BY <3>1, <3>2
  <2> QED BY <2>1 DEF Max
<1> QED BY <1>1 DEF Higher

LEMMA RequestIsLast ==
  ASSUME queue \in [Tabs -> Seq(Writing)], NEW t \in Tabs, NEW w \in Writing,
         queue' = [queue EXCEPT ![t] = Append(queue[t], w)]
  PROVE  /\ queue' \in [Tabs -> Seq(Writing)] /\ Len(queue'[t]) = Len(queue[t]) + 1
         /\ \A i \in DOMAIN queue'[t] : \/ i \in DOMAIN queue[t] /\ queue'[t][i] = queue[t][i]
                                        \/ i = Len(queue'[t]) /\ queue'[t][i] = w
         /\ \A u \in Tabs : u # t => queue'[u] = queue[u]
<1>1. queue[t] \in Seq(Writing) /\ queue'[t] = Append(queue[t], w)
  OBVIOUS
<1>2. Append(queue[t], w) \in Seq(Writing) /\ Len(Append(queue[t], w)) = Len(queue[t]) + 1
      /\ DOMAIN queue[t] = 1..Len(queue[t]) /\ DOMAIN Append(queue[t], w) = 1..(Len(queue[t]) + 1)
      /\ \A i \in 1..Len(queue[t]) : Append(queue[t], w)[i] = queue[t][i]
      /\ Append(queue[t], w)[Len(queue[t]) + 1] = w
      /\ Len(queue[t]) \in Nat
  BY <1>1
<1> QED BY <1>1, <1>2

LEMMA HeardIsFirst ==
  ASSUME queue \in [Tabs -> Seq(Writing)], NEW t \in Tabs, queue[t] # <<>>,
         queue' = [queue EXCEPT ![t] = Tail(queue[t])]
  PROVE  /\ queue' \in [Tabs -> Seq(Writing)] /\ Len(queue'[t]) = Len(queue[t]) - 1
         /\ Head(queue[t]) = queue[t][1] /\ 1 \in DOMAIN queue[t] /\ queue[t][1] \in Writing
         /\ \A i \in DOMAIN queue'[t] : i + 1 \in DOMAIN queue[t] /\ queue'[t][i] = queue[t][i + 1]
         /\ \A u \in Tabs : u # t => queue'[u] = queue[u]
<1>1. queue[t] \in Seq(Writing) /\ queue'[t] = Tail(queue[t])
  OBVIOUS
<1>2. /\ Tail(queue[t]) \in Seq(Writing) /\ Len(Tail(queue[t])) = Len(queue[t]) - 1
      /\ \A i \in 1..Len(Tail(queue[t])) : Tail(queue[t])[i] = queue[t][i + 1]
      /\ Head(queue[t]) = queue[t][1] /\ Len(queue[t]) \in Nat \ {0}
      /\ DOMAIN queue[t] = 1..Len(queue[t]) /\ DOMAIN Tail(queue[t]) = 1..(Len(queue[t]) - 1)
  BY <1>1
<1>3. queue[t][1] \in Writing
  BY <1>1, <1>2
<1> QED BY <1>1, <1>2, <1>3

LEMMA SeqTypedInit == ASSUME SeqAssumption, SeqInit PROVE SeqTyped
<1>1. \A t \in Tabs : <<>> \in Seq(Writing)
  OBVIOUS
<1> QED BY <1>1 DEF SeqAssumption, SeqInit, SeqTyped, SeqTypeOK

(* A window goes on, and a number is given out. *)
LEMMA GoesOn ==
  ASSUME SeqTypeOK, NEW t \in Tabs, NEW n \in 0..MaxSeq,
         NEW at \in {"closed", "restoring", "open", "allocating", "allocated"}, Goes(t, at, n)
  PROVE  /\ tab' \in [Tabs -> [at : {"closed", "restoring", "open", "allocating", "allocated"}, n : 0..MaxSeq]]
         /\ tab'[t].at = at /\ tab'[t].n = n /\ \A u \in Tabs : u # t => tab'[u] = tab[u]
BY DEF Goes, SeqTypeOK

LEMMA ForwardGoesOn ==
  ASSUME SeqTypeOK, NEW t \in Tabs, NEW n \in 0..MaxSeq,
         NEW at \in {"none", "asked", "reading", "writing", "done"}, ForwardGoes(t, at, n)
  PROVE  /\ forward' \in [Tabs -> [at : {"none", "asked", "reading", "writing", "done"}, n : 0..MaxSeq]]
         /\ forward'[t].at = at /\ forward'[t].n = n /\ \A u \in Tabs : u # t => forward'[u] = forward[u]
BY DEF ForwardGoes, SeqTypeOK

LEMMA NumberIsIssued ==
  ASSUME SeqTypeOK, NEW n \in 1..MaxSeq, Issue(n)
  PROVE  /\ issued' \in [1..MaxSeq -> Nat] /\ issued'[n] = issued[n] + 1
         /\ \A m \in 1..MaxSeq : m # n => issued'[m] = issued[m]
<1>1. issued \in [1..MaxSeq -> Nat]
  BY DEF SeqTypeOK
<1> QED BY <1>1 DEF Issue

LEMMA AbandonedTyped ==
  ASSUME NEW ws \in Seq(Writing)
  PROVE  /\ Abandoned(ws) \in Seq(Writing) /\ Len(Abandoned(ws)) = Len(ws)
         /\ \A i \in 1..Len(ws) : Abandoned(ws)[i].op # "allocate"
<1>1. DOMAIN ws = 1..Len(ws) /\ Len(ws) \in Nat /\ \A i \in 1..Len(ws) : ws[i] \in Writing
  OBVIOUS
<1>2. \A i \in 1..Len(ws) :
        /\ (IF ws[i].op = "allocate" THEN [ws[i] EXCEPT !.op = "late"] ELSE ws[i]) \in Writing
        /\ (IF ws[i].op = "allocate" THEN [ws[i] EXCEPT !.op = "late"] ELSE ws[i]).op # "allocate"
  BY <1>1 DEF Writing
<1>3. Abandoned(ws) = [i \in 1..Len(ws) |-> IF ws[i].op = "allocate" THEN [ws[i] EXCEPT !.op = "late"] ELSE ws[i]]
  BY <1>1 DEF Abandoned
<1>4. Abandoned(ws) \in [1..Len(ws) -> Writing]
  BY <1>2, <1>3
<1>5. Abandoned(ws) \in Seq(Writing)
  BY <1>1, <1>4
<1>6. DOMAIN Abandoned(ws) = 1..Len(ws)
  BY <1>4
<1>7. Len(Abandoned(ws)) = Len(ws)
  BY <1>1, <1>5, <1>6
<1> QED BY <1>2, <1>3, <1>5, <1>7

LEMMA SeqTypedStep ==
  ASSUME SeqAssumption, SeqTyped, [SeqNext]_seqVars PROVE SeqTyped'
<1> DEFINE Ats == {"closed", "restoring", "open", "allocating", "allocated"}
           Forwards == {"none", "asked", "reading", "writing", "done"}
<1>a. /\ cache \in [named : BOOLEAN, seq : 0..MaxSeq] /\ durable \in 0..MaxSeq /\ lastSeq \in 0..MaxSeq
      /\ issued \in [1..MaxSeq -> Nat] /\ tab \in [Tabs -> [at : Ats, n : 0..MaxSeq]]
      /\ forward \in [Tabs -> [at : Forwards, n : 0..MaxSeq]]
      /\ queue \in [Tabs -> Seq(Writing)] /\ opened \in Nat /\ wiped \in Nat
      /\ SeqTypeOK /\ MaxSeq \in Nat /\ 0 \in 0..MaxSeq
  BY DEF SeqTyped, SeqTypeOK, SeqAssumption
<1>b. \A m, n \in 0..MaxSeq : Higher(m, n) \in 0..MaxSeq
  BY <1>a, HigherIs
<1>c. \A n \in 0..MaxSeq : Put(n) \in Writing /\ Allocate(n) \in Writing
  BY DEF Put, Allocate, Writing
<1>1. CASE UNCHANGED seqVars
  BY <1>1 DEF SeqTyped, SeqTypeOK, seqVars
<1>2. ASSUME NEW t \in Tabs, Open(t) PROVE SeqTyped'
  <2>1. opened' \in Nat /\ UNCHANGED <<forward, issued, lastSeq, wiped>>
    BY <1>2, <1>a DEF Open
  <2>2. CASE RefreshMirror(t)
    BY <2>1, <2>2, <1>a, <1>c, GoesOn, RequestIsLast DEF RefreshMirror, Requests, SeqTyped, SeqTypeOK
  <2>3. CASE RestoreName(t)
    BY <2>1, <2>3, <1>a, GoesOn DEF RestoreName, SeqTyped, SeqTypeOK
  <2>4. CASE MergeNative(t)
    BY <2>1, <2>4, <1>a, <1>b, GoesOn DEF MergeNative, SeqTyped, SeqTypeOK
  <2> QED BY <1>2, <2>2, <2>3, <2>4 DEF Open
<1>3. ASSUME NEW t \in Tabs, RestoreSeq(t) PROVE SeqTyped'
  BY <1>3, <1>a, GoesOn DEF RestoreSeq, SeqTyped, SeqTypeOK
<1>4. ASSUME NEW t \in Tabs, Close(t) PROVE SeqTyped'
  <2>1. queue' \in [Tabs -> Seq(Writing)] /\ forward' \in [Tabs -> [at : Forwards, n : 0..MaxSeq]]
    BY <1>4, <1>a, ForwardGoesOn DEF Close
  <2> QED BY <1>4, <1>a, <2>1, GoesOn DEF Close, SeqTyped, SeqTypeOK
<1>5. ASSUME NEW t \in Tabs, AllocateLocalSeq(t) PROVE SeqTyped'
  BY <1>5, <1>a, <1>c, GoesOn, RequestIsLast DEF AllocateLocalSeq, Requests, SeqTyped, SeqTypeOK
<1>6. ASSUME NEW t \in Tabs, Commit(t) PROVE SeqTyped'
  <2>1. Head(queue[t]) \in Writing /\ queue' \in [Tabs -> Seq(Writing)]
    BY <1>6, <1>a, HeardIsFirst DEF Commit
  <2> DEFINE w == Head(queue[t])
             new == IF w.op = "put" THEN w.n ELSE NextSeq(w.n)
  <2>2. new \in Nat
    <3>1. w.n \in 0..MaxSeq
      BY <2>1 DEF Writing
    <3> HIDE DEF w
    <3>2. Higher(durable, w.n) \in Nat /\ durable \in Nat /\ w.n \in Nat
      <4>1. Higher(durable, w.n) \in 0..MaxSeq
        BY <1>a, <1>b, <3>1
      <4> QED BY <1>a, <3>1, <4>1
    <3>3. NextSeq(w.n) \in Nat
      BY <3>2 DEF NextSeq
    <3> QED BY <3>2, <3>3
  <2>3. /\ new <= MaxSeq /\ durable' = new
        /\ tab' = IF w.op = "allocate" THEN [tab EXCEPT ![t] = [at |-> "allocated", n |-> new]] ELSE tab
        /\ UNCHANGED <<cache, forward, issued, lastSeq, opened, wiped>>
    BY <1>6 DEF Commit
  <2> HIDE DEF new, w
  <2>4. new \in 0..MaxSeq
    BY <2>2, <2>3, <1>a
  <2>5. tab' \in [Tabs -> [at : Ats, n : 0..MaxSeq]]
    BY <2>3, <2>4, <1>a
  <2> QED BY <2>1, <2>3, <2>4, <2>5, <1>a DEF SeqTyped, SeqTypeOK
<1>7. ASSUME NEW t \in Tabs, LoseWrite(t) PROVE SeqTyped'
  BY <1>7, <1>a, HeardIsFirst DEF LoseWrite, SeqTyped, SeqTypeOK
<1>8. ASSUME NEW t \in Tabs, GiveOut(t) PROVE SeqTyped'
  <2>1. issued' \in [1..MaxSeq -> Nat]
    <3>1. tab[t].n \in 0..MaxSeq /\ issued' = [issued EXCEPT ![tab[t].n] = issued[tab[t].n] + 1]
      BY <1>8, <1>a DEF GiveOut, Issue
    <3>2. CASE tab[t].n \in 1..MaxSeq
      BY <3>1, <3>2, <1>a
    <3>3. CASE tab[t].n \notin 1..MaxSeq
      BY <3>1, <3>3, <1>a
    <3> QED BY <3>2, <3>3
  <2>2. cache' \in [named : BOOLEAN, seq : 0..MaxSeq]
    BY <1>8, <1>a DEF GiveOut
  <2> QED BY <1>8, <1>a, <2>1, <2>2, GoesOn DEF GiveOut, SeqTyped, SeqTypeOK
<1>9. ASSUME NEW t \in Tabs, NextLocalSeq(t) PROVE SeqTyped'
  <2>1. cache.seq + 1 \in 1..MaxSeq
    BY <1>9, <1>a DEF NextLocalSeq, Issue
  <2>2. issued' \in [1..MaxSeq -> Nat] /\ cache' \in [named : BOOLEAN, seq : 0..MaxSeq]
    <3>1. Issue(cache.seq + 1) /\ cache' = [cache EXCEPT !.seq = cache.seq + 1]
      BY <1>9 DEF NextLocalSeq
    <3>2. issued' \in [1..MaxSeq -> Nat]
      BY <3>1, <1>a, <2>1, NumberIsIssued
    <3>3. cache.seq + 1 \in 0..MaxSeq
      BY <2>1
    <3> QED BY <3>1, <3>2, <3>3, <1>a
  <2>3. queue' \in [Tabs -> Seq(Writing)]
    <3>1. Put(cache.seq + 1) \in Writing /\ Abandoned(queue[t]) \in Seq(Writing)
      BY <1>a, <1>c, <2>1, AbandonedTyped
    <3>2. Append(Abandoned(queue[t]), Put(cache.seq + 1)) \in Seq(Writing)
      BY <3>1
    <3> QED BY <1>9, <1>a, <3>2 DEF NextLocalSeq
  <2> QED BY <1>9, <1>a, <2>2, <2>3, GoesOn DEF NextLocalSeq, SeqTyped, SeqTypeOK
<1>10. ASSUME NEW t \in Tabs, ReadWatermark(t) \/ FastForward(t) \/ ReadDurable(t) PROVE SeqTyped'
  <2>1. UNCHANGED <<cache, durable, queue, tab, issued, lastSeq, opened, wiped>>
    BY <1>10 DEF ReadWatermark, FastForward, ReadDurable
  <2>2. forward' \in [Tabs -> [at : Forwards, n : 0..MaxSeq]]
    BY <1>10, <1>a, ForwardGoesOn DEF ReadWatermark, FastForward, ReadDurable
  <2> QED BY <1>a, <2>1, <2>2 DEF SeqTyped, SeqTypeOK
<1>11. ASSUME NEW t \in Tabs, ForwardDurable(t) \/ ForwardCache(t) PROVE SeqTyped'
  <2>1. forward[t].n \in 0..MaxSeq /\ UNCHANGED <<tab, issued, lastSeq, opened, wiped>>
    BY <1>11, <1>a DEF ForwardDurable, ForwardCache
  <2>2. forward' \in [Tabs -> [at : Forwards, n : 0..MaxSeq]]
    BY <1>11, <1>a, <2>1, ForwardGoesOn DEF ForwardDurable, ForwardCache
  <2>3. durable' \in 0..MaxSeq
    BY <1>11, <1>a, <2>1 DEF ForwardDurable, ForwardCache
  <2>4. cache' \in [named : BOOLEAN, seq : 0..MaxSeq]
    <3>1. Higher(cache.seq, forward[t].n) \in 0..MaxSeq
      BY <1>a, <1>b, <2>1
    <3> QED BY <1>11, <1>a, <2>1, <3>1 DEF ForwardDurable, ForwardCache
  <2>5. queue' \in [Tabs -> Seq(Writing)]
    BY <1>11, <1>a, <1>c, <2>1, RequestIsLast DEF ForwardDurable, ForwardCache, Requests
  <2> QED BY <2>1, <2>2, <2>3, <2>4, <2>5 DEF SeqTyped, SeqTypeOK
<1>12. ASSUME NEW n \in 1..MaxSeq, Settled(n) PROVE SeqTyped'
  <2>1. n \in 0..MaxSeq
    BY <1>a
  <2>2. Higher(lastSeq, n) \in 0..MaxSeq
    BY <1>a, <1>b, <2>1
  <2>3. lastSeq' = Higher(lastSeq, n) /\ UNCHANGED <<cache, durable, queue, tab, forward, issued, opened, wiped>>
    BY <1>12 DEF Settled, Watermark
  <2> QED BY <1>a, <2>2, <2>3 DEF SeqTyped, SeqTypeOK
<1>13. CASE Wipe
  BY <1>13, <1>a DEF Wipe, SeqTyped, SeqTypeOK
<1> QED BY <1>1, <1>2, <1>3, <1>4, <1>5, <1>6, <1>7, <1>8, <1>9, <1>10, <1>11, <1>12, <1>13 DEF SeqNext

(* The counters, the mirror and its queue, and the windows are of their    *)
(* types.                                                                  *)
THEOREM SeqStaysTyped == ASSUME SeqAssumption PROVE SeqSpec => []SeqTypeOK
<1>1. SeqInit => SeqTyped
  BY SeqTypedInit
<1>2. SeqTyped /\ [SeqNext]_seqVars => SeqTyped'
  BY SeqTypedStep
<1>3. SeqTyped => SeqTypeOK
  BY DEF SeqTyped
<1> QED BY <1>1, <1>2, <1>3, PTL DEF SeqSpec

-----------------------------------------------------------------------------
(* The server's watermark, and what a window holds of it, is the number of *)
(* a sale: so it is under whatever covers the numbers given out.           *)
IssuedUpTo(m) == \A n \in 1..MaxSeq : issued[n] > 0 => n <= m
HeldIsIssued ==
  /\ lastSeq > 0 => issued[lastSeq] > 0
  /\ \A t \in Tabs : forward[t].n > 0 => issued[forward[t].n] > 0

LEMMA HeldInit == ASSUME SeqAssumption, SeqInit PROVE HeldIsIssued
BY DEF SeqInit, SeqAssumption, HeldIsIssued

LEMMA HeldIsCovered ==
  ASSUME SeqTypeOK, HeldIsIssued, NEW m \in Nat, IssuedUpTo(m), NEW t \in Tabs
  PROVE  lastSeq <= m /\ forward[t].n <= m
BY DEF SeqTypeOK, HeldIsIssued, IssuedUpTo

LEMMA IssuedStays ==
  ASSUME SeqAssumption, SeqTyped, [SeqNext]_seqVars, NEW n \in 1..MaxSeq, issued[n] > 0
  PROVE  issued'[n] > 0
<1>1. \A m : Issue(m) => issued'[n] > 0
  BY DEF Issue, SeqTyped, SeqTypeOK
<1>2. issued' = issued \/ \E m : Issue(m)
  BY DEF SeqNext, seqVars, Open, RestoreSeq, Close, AllocateLocalSeq, Commit, LoseWrite, GiveOut, NextLocalSeq,
         ReadWatermark, FastForward, ReadDurable, ForwardDurable, ForwardCache, Settled, Wipe
<1> QED BY <1>1, <1>2

LEMMA HeldStep ==
  ASSUME SeqAssumption, SeqTyped, HeldIsIssued, [SeqNext]_seqVars PROVE HeldIsIssued'
<1>a. /\ SeqTypeOK /\ lastSeq \in 0..MaxSeq /\ MaxSeq \in Nat /\ 0 \in 0..MaxSeq
      /\ \A t \in Tabs : forward[t].n \in 0..MaxSeq
  BY DEF SeqTyped, SeqTypeOK, SeqAssumption
<1>b. \A n \in 1..MaxSeq : issued[n] > 0 => issued'[n] > 0
  BY IssuedStays
<1>1. lastSeq' = lastSeq \/ \E n \in 1..MaxSeq : issued[n] > 0 /\ lastSeq' = n
  <2>1. ASSUME NEW n \in 1..MaxSeq, Settled(n) PROVE lastSeq' = lastSeq \/ (lastSeq' = n /\ issued[n] > 0)
    BY <1>a, <2>1, HigherIs DEF Settled, Watermark
  <2>2. CASE ~\E n \in 1..MaxSeq : Settled(n)
    BY <2>2 DEF SeqNext, seqVars, Open, RestoreSeq, Close, AllocateLocalSeq, Commit, LoseWrite, GiveOut, NextLocalSeq,
                ReadWatermark, FastForward, ReadDurable, ForwardDurable, ForwardCache, Wipe
  <2> QED BY <2>1, <2>2
<1>2. \A u \in Tabs : forward'[u].n \in {forward[u].n, lastSeq, 0}
  <2>1. ASSUME NEW t \in Tabs, Close(t) \/ ReadWatermark(t) \/ FastForward(t) \/ ReadDurable(t) \/ ForwardDurable(t) \/ ForwardCache(t)
        PROVE  \A u \in Tabs : forward'[u].n \in {forward[u].n, lastSeq, 0}
    <3>1. \E at \in {"none", "asked", "reading", "writing", "done"} :
            \E n \in {forward[t].n, lastSeq, 0} : ForwardGoes(t, at, n)
      BY <2>1 DEF Close, ReadWatermark, FastForward, ReadDurable, ForwardDurable, ForwardCache
    <3> QED BY <1>a, <3>1, ForwardGoesOn
  <2>2. CASE ~\E t \in Tabs : Close(t) \/ ReadWatermark(t) \/ FastForward(t) \/ ReadDurable(t) \/ ForwardDurable(t) \/ ForwardCache(t)
    <3>1. forward' = forward
      BY <2>2 DEF SeqNext, seqVars, Open, RestoreSeq, AllocateLocalSeq, Commit, LoseWrite, GiveOut, NextLocalSeq, Settled, Wipe
    <3> QED BY <3>1
  <2> QED BY <2>1, <2>2
<1>3. lastSeq' > 0 => issued'[lastSeq'] > 0
  BY <1>a, <1>b, <1>1 DEF HeldIsIssued
<1>4. ASSUME NEW u \in Tabs, forward'[u].n > 0 PROVE issued'[forward'[u].n] > 0
  BY <1>a, <1>b, <1>2, <1>4 DEF HeldIsIssued
<1> QED BY <1>3, <1>4 DEF HeldIsIssued

(* A window whose localStorage covers the numbers given out finds that the *)
(* watermark is not ahead of it, and writes nothing.                       *)
ForwardsNothing == \A t \in Tabs :
  /\ forward[t].at \in {"none", "asked", "done"}
  /\ forward[t].at # "none" => ~At(t, "closed") /\ ~At(t, "restoring")

LEMMA NothingForwarded ==
  ASSUME SeqAssumption, SeqTyped, HeldIsIssued, ForwardsNothing, [SeqNext]_seqVars,
         \A t \in Tabs : forward[t].at # "none" => IssuedUpTo(cache.seq)
  PROVE  ForwardsNothing'
<1>a. /\ SeqTypeOK /\ lastSeq \in 0..MaxSeq /\ MaxSeq \in Nat /\ 0 \in 0..MaxSeq /\ cache.seq \in Nat
      /\ \A t \in Tabs : forward[t].n \in 0..MaxSeq
      /\ tab \in [Tabs -> [at : {"closed", "restoring", "open", "allocating", "allocated"}, n : 0..MaxSeq]]
  BY DEF SeqTyped, SeqTypeOK, SeqAssumption
<1>1. CASE UNCHANGED <<tab, forward>>
  BY <1>1 DEF ForwardsNothing, At
<1>2. ASSUME NEW t \in Tabs, Open(t) PROVE ForwardsNothing'
  <2>1. At(t, "closed") /\ forward' = forward
    BY <1>2 DEF Open
  <2>2. \A u \in Tabs : u # t => tab'[u] = tab[u]
    BY <1>2, <1>a, GoesOn DEF Open, MergeNative, RefreshMirror, RestoreName
  <2> QED BY <2>1, <2>2 DEF ForwardsNothing, At
<1>3. ASSUME NEW t \in Tabs, RestoreSeq(t) \/ AllocateLocalSeq(t) \/ GiveOut(t) \/ NextLocalSeq(t) PROVE ForwardsNothing'
  <2>1. tab'[t].at \in {"open", "allocating"} /\ forward' = forward /\ \A u \in Tabs : u # t => tab'[u] = tab[u]
    BY <1>3, <1>a, GoesOn DEF RestoreSeq, AllocateLocalSeq, GiveOut, NextLocalSeq
  <2> QED BY <2>1 DEF ForwardsNothing, At
<1>4. ASSUME NEW t \in Tabs, Close(t) PROVE ForwardsNothing'
  BY <1>4, <1>a, GoesOn, ForwardGoesOn DEF Close, ForwardsNothing, At
<1>5. ASSUME NEW t \in Tabs, Commit(t) PROVE ForwardsNothing'
  <2>1. forward' = forward /\ (tab' = tab \/ \E n : tab' = [tab EXCEPT ![t] = [at |-> "allocated", n |-> n]])
    BY <1>5 DEF Commit
  <2>2. \A u \in Tabs : tab'[u].at = tab[u].at \/ tab'[u].at = "allocated"
    BY <1>a, <2>1
  <2> QED BY <2>1, <2>2 DEF ForwardsNothing, At
<1>6. ASSUME NEW t \in Tabs, ReadWatermark(t) PROVE ForwardsNothing'
  <2>1. tab' = tab /\ tab[t].at \in {"open", "allocating", "allocated"} /\ forward'[t].at = "asked"
        /\ \A u \in Tabs : u # t => forward'[u] = forward[u]
    BY <1>6, <1>a, ForwardGoesOn DEF ReadWatermark
  <2> QED BY <2>1 DEF ForwardsNothing, At
<1>7. ASSUME NEW t \in Tabs, FastForward(t) PROVE ForwardsNothing'
  <2>1. tab' = tab /\ forward[t].at = "asked" /\ ~(forward[t].n > cache.seq)
    <3>1. IssuedUpTo(cache.seq)
      BY <1>7 DEF FastForward, Forwarding
    <3> QED BY <1>7, <1>a, <3>1, HeldIsCovered DEF FastForward, Forwarding
  <2>2. forward'[t].at = "done" /\ \A u \in Tabs : u # t => forward'[u] = forward[u]
    BY <1>7, <1>a, <2>1, ForwardGoesOn DEF FastForward
  <2> QED BY <2>1, <2>2 DEF ForwardsNothing, At
<1>8. ASSUME NEW t \in Tabs, ReadDurable(t) \/ ForwardDurable(t) \/ ForwardCache(t) PROVE FALSE
  BY <1>8 DEF ReadDurable, ForwardDurable, ForwardCache, Forwarding, ForwardsNothing
<1>9. ASSUME NEW t \in Tabs, LoseWrite(t) PROVE UNCHANGED <<tab, forward>>
  BY <1>9 DEF LoseWrite
<1>10. ASSUME NEW n \in 1..MaxSeq, Settled(n) PROVE UNCHANGED <<tab, forward>>
  BY <1>10 DEF Settled
<1>11. Wipe => UNCHANGED <<tab, forward>>
  BY DEF Wipe
<1>12. UNCHANGED seqVars => UNCHANGED <<tab, forward>>
  BY DEF seqVars
<1> QED BY <1>1, <1>2, <1>3, <1>4, <1>5, <1>6, <1>7, <1>8, <1>9, <1>10, <1>11, <1>12 DEF SeqNext

-----------------------------------------------------------------------------
(* Windows over the native store, or windows none of which opens while     *)
(* they work: the durable number only grows, and is over every number      *)
(* given out, allocated, or known to the server.                           *)
GrowsOnly == ~Degraded /\ (Native \/ MaxOpenings = 0)
AllocatesOnly == \A t \in Tabs : \A i \in DOMAIN queue[t] : queue[t][i].op = "allocate"
DurableCovers == IssuedUpTo(durable)
WritesNoLower == Native \/ \A t \in Tabs : ~Forwarding(t, "writing")
AllocatedIsFresh ==
  /\ \A t \in Tabs : At(t, "allocated") => tab[t].n \in 1..durable /\ issued[tab[t].n] = 0
  /\ \A t, u \in Tabs : At(t, "allocated") /\ At(u, "allocated") /\ t # u => tab[t].n # tab[u].n
GrowInv == SeqTyped /\ HeldIsIssued /\ WritesNoLower /\ AllocatesOnly /\ DurableCovers /\ AllocatedIsFresh /\ IssuedOnce

LEMMA GrowInit == ASSUME SeqAssumption, SeqInit PROVE GrowInv
  BY SeqTypedInit, HeldInit DEF SeqInit, SeqAssumption, GrowInv, WritesNoLower, Forwarding, AllocatesOnly, DurableCovers, AllocatedIsFresh, IssuedUpTo, IssuedOnce, At

(* A window that gives nothing out and is given nothing.                   *)
LEMMA GrowsQuietly ==
  ASSUME SeqAssumption, GrowInv, SeqTyped', HeldIsIssued', WritesNoLower', AllocatesOnly', UNCHANGED issued,
         durable' >= durable, NEW t \in Tabs, \A u \in Tabs : u # t => tab'[u] = tab[u], tab'[t].at # "allocated"
  PROVE  GrowInv'
<1>1. durable \in Nat /\ durable' \in Nat /\ \A u \in Tabs : tab[u].n \in Nat
  <2>1. /\ MaxSeq \in Nat /\ durable \in 0..MaxSeq /\ durable' \in 0..MaxSeq
        /\ tab \in [Tabs -> [at : {"closed", "restoring", "open", "allocating", "allocated"}, n : 0..MaxSeq]]
    BY DEF GrowInv, SeqTyped, SeqTypeOK, SeqAssumption
  <2> QED BY <2>1
<1>2. DurableCovers'
  <2>1. \A n \in 1..MaxSeq : issued'[n] > 0 => n <= durable'
    BY <1>1 DEF GrowInv, DurableCovers, IssuedUpTo, SeqAssumption
  <2> QED BY <2>1 DEF DurableCovers, IssuedUpTo
<1>3. AllocatedIsFresh'
  BY <1>1 DEF GrowInv, AllocatedIsFresh, At
<1> QED BY <1>2, <1>3 DEF GrowInv, IssuedOnce

LEMMA WritesNoLowerStep ==
  ASSUME SeqAssumption, SeqTyped, HeldIsIssued, ~Degraded, IssuedUpTo(durable), WritesNoLower, [SeqNext]_seqVars
  PROVE  WritesNoLower'
<1>a. /\ SeqTypeOK /\ durable \in Nat /\ lastSeq \in 0..MaxSeq /\ 0 \in 0..MaxSeq
      /\ \A t \in Tabs : forward[t].n \in 0..MaxSeq
  BY DEF SeqTyped, SeqTypeOK, SeqAssumption
<1>1. CASE Native
  BY <1>1 DEF WritesNoLower
<1>2. CASE ~Native /\ UNCHANGED forward
  BY <1>2 DEF WritesNoLower, Forwarding
<1>3. ASSUME ~Native, NEW t \in Tabs,
             Close(t) \/ ReadWatermark(t) \/ FastForward(t) \/ ReadDurable(t) \/ ForwardDurable(t) \/ ForwardCache(t)
      PROVE  WritesNoLower'
  <2>1. ReadDurable(t) => ForwardGoes(t, "done", 0)
    <3>1. ~(forward[t].n > durable)
      BY <1>a, HeldIsCovered
    <3> QED BY <3>1 DEF ReadDurable
  <2>2. \E at \in {"none", "asked", "reading", "done"} : \E n \in 0..MaxSeq : ForwardGoes(t, at, n)
    BY <1>3, <1>a, <2>1 DEF Close, ReadWatermark, FastForward, ForwardDurable, ForwardCache
  <2>3. forward'[t].at # "writing" /\ \A u \in Tabs : u # t => forward'[u] = forward[u]
    BY <1>a, <2>2, ForwardGoesOn
  <2> QED BY <1>3, <2>3 DEF WritesNoLower, Forwarding
<1>4. CASE ~\E t \in Tabs : Close(t) \/ ReadWatermark(t) \/ FastForward(t) \/ ReadDurable(t) \/ ForwardDurable(t) \/ ForwardCache(t)
  <2>1. forward' = forward
    BY <1>4 DEF SeqNext, seqVars, Open, RestoreSeq, AllocateLocalSeq, Commit, LoseWrite, GiveOut, NextLocalSeq, Settled, Wipe
  <2> QED BY <1>1, <1>2, <2>1
<1> QED BY <1>1, <1>3, <1>4

LEMMA GrowStep ==
  ASSUME SeqAssumption, GrowsOnly, GrowInv, [SeqNext]_seqVars PROVE GrowInv'
<1>a. SeqTyped' /\ HeldIsIssued' /\ WritesNoLower'
  BY SeqTypedStep, HeldStep, WritesNoLowerStep DEF GrowInv, GrowsOnly, DurableCovers
<1>b. /\ durable \in Nat /\ cache.seq \in Nat /\ lastSeq \in Nat /\ opened \in Nat /\ SeqTypeOK
      /\ queue \in [Tabs -> Seq(Writing)] /\ \A t \in Tabs : tab[t].n \in 0..MaxSeq
      /\ tab \in [Tabs -> [at : {"closed", "restoring", "open", "allocating", "allocated"}, n : 0..MaxSeq]]
      /\ issued \in [1..MaxSeq -> Nat] /\ MaxSeq \in Nat /\ MaxOpenings \in Nat /\ 0 \in 0..MaxSeq
  BY DEF GrowInv, SeqTyped, SeqTypeOK, SeqAssumption
<1>1. CASE UNCHANGED seqVars
  BY <1>1, <1>a DEF seqVars, GrowInv, AllocatesOnly, DurableCovers, AllocatedIsFresh, IssuedUpTo, IssuedOnce, At
<1>2. ASSUME NEW t \in Tabs, Open(t) PROVE GrowInv'
  <2>1. Native
    BY <1>2, <1>b DEF Open, GrowsOnly
  <2>2. MergeNative(t) /\ UNCHANGED <<issued, lastSeq, queue>>
    BY <1>2, <2>1 DEF Open, MergeNative
  <2>3. durable' >= durable
    BY <1>b, <2>2, HigherIs DEF MergeNative
  <2>4. tab'[t].at = "open" /\ \A u \in Tabs : u # t => tab'[u] = tab[u]
    BY <1>b, <2>2, GoesOn DEF MergeNative
  <2>5. AllocatesOnly'
    BY <2>2 DEF GrowInv, AllocatesOnly
  <2> QED BY <1>a, <2>2, <2>3, <2>4, <2>5, GrowsQuietly
<1>3. ASSUME NEW t \in Tabs, RestoreSeq(t) PROVE GrowInv'
  <2>1. tab'[t].at = "open" /\ \A u \in Tabs : u # t => tab'[u] = tab[u]
    BY <1>3, <1>b, GoesOn DEF RestoreSeq
  <2>2. UNCHANGED <<durable, queue, issued, lastSeq>>
    BY <1>3 DEF RestoreSeq
  <2>3. AllocatesOnly' /\ durable' >= durable
    BY <1>b, <2>2 DEF GrowInv, AllocatesOnly
  <2> QED BY <1>a, <2>1, <2>2, <2>3, GrowsQuietly
<1>4. ASSUME NEW t \in Tabs, Close(t) PROVE GrowInv'
  <2>1. tab'[t].at = "closed" /\ \A u \in Tabs : u # t => tab'[u] = tab[u]
    BY <1>4, <1>b, GoesOn DEF Close
  <2>2. \A u \in Tabs : queue'[u] = IF u = t THEN <<>> ELSE queue[u]
    BY <1>4, <1>b DEF Close
  <2>3. AllocatesOnly'
    BY <2>2 DEF GrowInv, AllocatesOnly
  <2>4. UNCHANGED <<issued, lastSeq>> /\ durable' >= durable
    BY <1>4, <1>b DEF Close, SeqTypeOK
  <2> QED BY <1>a, <2>1, <2>3, <2>4, GrowsQuietly
<1>5. ASSUME NEW t \in Tabs, AllocateLocalSeq(t) PROVE GrowInv'
  <2>1. tab'[t].at = "allocating" /\ \A u \in Tabs : u # t => tab'[u] = tab[u]
    BY <1>5, <1>b, GoesOn DEF AllocateLocalSeq
  <2>2. Allocate(cache.seq) \in Writing /\ Allocate(cache.seq).op = "allocate"
    BY <1>b DEF Allocate, Writing, SeqTypeOK
  <2>3. AllocatesOnly'
    BY <1>5, <1>b, <2>2, RequestIsLast DEF AllocateLocalSeq, Requests, GrowInv, AllocatesOnly
  <2> QED BY <1>5, <1>a, <1>b, <2>1, <2>3, GrowsQuietly DEF AllocateLocalSeq
<1>6. ASSUME NEW t \in Tabs, Commit(t) PROVE GrowInv'
  <2>1. /\ Head(queue[t]) = queue[t][1] /\ queue[t][1] \in Writing /\ queue[t][1].op = "allocate"
        /\ AllocatesOnly'
    BY <1>6, <1>b, HeardIsFirst DEF Commit, GrowInv, AllocatesOnly
  <2> DEFINE n == NextSeq(queue[t][1].n)
  <2>2. /\ durable' = n /\ tab' = [tab EXCEPT ![t] = [at |-> "allocated", n |-> n]]
        /\ UNCHANGED <<cache, issued, lastSeq, opened, wiped>>
    BY <1>6, <2>1 DEF Commit
  <2>3. n \in Nat /\ n > durable
    <3>1. queue[t][1].n \in Nat
      BY <2>1, <1>b DEF Writing
    <3>2. Higher(durable, queue[t][1].n) \in Nat /\ Higher(durable, queue[t][1].n) >= durable
      <4>1. durable \in Nat
        BY <1>b
      <4> QED BY <3>1, <4>1, HigherIs
    <3> QED BY <3>2, <1>b DEF NextSeq
  <2> HIDE DEF n
  <2>4. tab'[t].at = "allocated" /\ tab'[t].n = n /\ \A u \in Tabs : u # t => tab'[u] = tab[u]
    BY <1>b, <2>2
  <2>4a. n \in 1..MaxSeq
    BY <1>a, <1>b, <2>2, <2>3 DEF SeqTyped, SeqTypeOK
  <2>5. DurableCovers'
    <3>1. \A m \in 1..MaxSeq : issued'[m] > 0 => m <= durable'
      BY <1>b, <2>2, <2>3 DEF GrowInv, DurableCovers, IssuedUpTo
    <3> QED BY <3>1 DEF DurableCovers, IssuedUpTo
  <2>6. issued[n] = 0
    BY <1>b, <2>3, <2>4a DEF GrowInv, DurableCovers, IssuedUpTo
  <2>7. AllocatedIsFresh'
    <3>1. \A u \in Tabs : u # t /\ tab'[u].at = "allocated" =>
            tab'[u].n \in 1..durable' /\ issued'[tab'[u].n] = 0 /\ tab'[u].n # n
      BY <1>b, <2>2, <2>3, <2>4 DEF GrowInv, AllocatedIsFresh, At
    <3>2. tab'[t].n \in 1..durable' /\ issued'[tab'[t].n] = 0
      BY <2>2, <2>3, <2>4, <2>4a, <2>6
    <3>3. \A u, v \in Tabs : tab'[u].at = "allocated" /\ tab'[v].at = "allocated" /\ u # v => tab'[u].n # tab'[v].n
      BY <2>4, <3>1 DEF GrowInv, AllocatedIsFresh, At
    <3> QED BY <3>1, <3>2, <3>3 DEF AllocatedIsFresh, At
  <2> QED BY <1>a, <2>1, <2>2, <2>5, <2>7 DEF GrowInv, IssuedOnce
<1>7. ASSUME NEW t \in Tabs, LoseWrite(t) \/ NextLocalSeq(t) PROVE FALSE
  BY <1>7 DEF LoseWrite, NextLocalSeq, GrowsOnly
<1>8. ASSUME NEW t \in Tabs, GiveOut(t) PROVE GrowInv'
  <2>1. /\ At(t, "allocated") /\ tab[t].n \in 1..durable /\ issued[tab[t].n] = 0 /\ Issue(tab[t].n)
        /\ UNCHANGED <<durable, queue, lastSeq>>
    BY <1>8 DEF GiveOut, GrowInv, AllocatedIsFresh
  <2>2. tab'[t].at = "open" /\ \A u \in Tabs : u # t => tab'[u] = tab[u]
    BY <1>8, <1>b, GoesOn DEF GiveOut
  <2>3. tab[t].n \in 1..MaxSeq
    BY <1>b, <2>1
  <2>4. issued'[tab[t].n] = 1 /\ \A m \in 1..MaxSeq : m # tab[t].n => issued'[m] = issued[m]
    BY <1>b, <2>1, <2>3, NumberIsIssued
  <2>5. AllocatesOnly'
    BY <2>1 DEF GrowInv, AllocatesOnly
  <2>6. DurableCovers'
    <3>1. \A m \in 1..MaxSeq : issued'[m] > 0 => m <= durable'
      BY <1>b, <2>1, <2>4 DEF GrowInv, DurableCovers, IssuedUpTo
    <3> QED BY <2>1, <2>2, <3>1 DEF GrowInv, DurableCovers, IssuedUpTo, At
  <2>7. AllocatedIsFresh'
    <3>1. \A u \in Tabs : tab'[u].at = "allocated" => u # t /\ tab'[u] = tab[u] /\ tab[u].n # tab[t].n /\ tab[u].n \in 1..MaxSeq
      BY <1>b, <2>1, <2>2 DEF GrowInv, AllocatedIsFresh, At
    <3> QED BY <2>1, <2>4, <3>1 DEF GrowInv, AllocatedIsFresh, At
  <2>8. IssuedOnce'
    <3>1. \A m \in 1..MaxSeq : issued'[m] = issued[m] \/ issued'[m] = 1
      BY <2>4
    <3> QED BY <3>1 DEF GrowInv, IssuedOnce
  <2> QED BY <1>a, <2>5, <2>6, <2>7, <2>8 DEF GrowInv
<1>9. ASSUME UNCHANGED <<durable, queue, tab, issued>> PROVE GrowInv'
  BY <1>9, <1>a DEF GrowInv, AllocatesOnly, DurableCovers, AllocatedIsFresh, IssuedUpTo, IssuedOnce, At
<1>10. ASSUME NEW t \in Tabs, ReadWatermark(t) \/ FastForward(t) \/ ReadDurable(t) \/ ForwardDurable(t) \/ ForwardCache(t)
       PROVE  UNCHANGED <<durable, queue, tab, issued>>
  <2>1. CASE ForwardDurable(t)
    <3>1. forward[t].n \in Nat /\ forward[t].n <= durable
      BY <1>b, HeldIsCovered DEF GrowInv, DurableCovers, SeqTypeOK
    <3>2. Higher(cache.seq, durable) = IF cache.seq >= durable THEN cache.seq ELSE durable
      BY <1>b, HigherIs
    <3>3. ~(forward[t].n > Higher(cache.seq, durable))
      BY <1>b, <3>1, <3>2
    <3> QED BY <2>1, <3>3 DEF ForwardDurable
  <2>2. CASE ForwardCache(t)
    <3>1. Native
      BY <2>2 DEF ForwardCache, GrowInv, WritesNoLower
    <3> QED BY <2>2, <3>1 DEF ForwardCache
  <2> QED BY <1>10, <2>1, <2>2 DEF ReadWatermark, FastForward, ReadDurable
<1>11. ASSUME NEW n \in 1..MaxSeq, Settled(n) PROVE UNCHANGED <<durable, queue, tab, issued>>
  BY <1>11 DEF Settled
<1>12. CASE Wipe
  BY <1>12, <1>a DEF Wipe, GrowInv, AllocatesOnly, DurableCovers, AllocatedIsFresh, IssuedUpTo, IssuedOnce, At
<1> QED BY <1>1, <1>2, <1>3, <1>4, <1>5, <1>6, <1>7, <1>8, <1>9, <1>10, <1>11, <1>12 DEF SeqNext

(* No number is given to two sales by windows over the native store, nor   *)
(* by windows that stay as they are: any number of them, however their     *)
(* transactions and those of the server interleave.                        *)
THEOREM NumbersOnlyGrow == ASSUME SeqAssumption, GrowsOnly PROVE SeqSpec => []IssuedOnce
<1>1. SeqInit => GrowInv
  BY GrowInit
<1>2. GrowInv /\ [SeqNext]_seqVars => GrowInv'
  BY GrowStep
<1>3. GrowInv => IssuedOnce
  BY DEF GrowInv
<1> QED BY <1>1, <1>2, <1>3, PTL DEF SeqSpec

-----------------------------------------------------------------------------
(* One window, which dies, starts again and is wiped, but restores whole:  *)
(* the mirror and every number on its way there cover the numbers given    *)
(* out, and so does localStorage, unless it is gone.                       *)
Alone == \A t, u \in Tabs : t = u
MirrorCovers ==
  /\ IssuedUpTo(durable)
  /\ \A t \in Tabs : \A i \in DOMAIN queue[t] : queue[t][i].op = "put" => IssuedUpTo(queue[t][i].n)
CacheCovers ==
  \/ cache.named /\ IssuedUpTo(cache.seq)
  \/ cache.named /\ \E t \in Tabs : At(t, "restoring")
  \/ ~cache.named /\ \A t \in Tabs : At(t, "closed")
AllocatesLast == \A t \in Tabs :
  /\ \A i \in DOMAIN queue[t] : queue[t][i].op # "put" =>
       At(t, "allocating") /\ i = Len(queue[t]) /\ queue[t][i].op = "allocate"
  /\ At(t, "allocated") \/ At(t, "closed") \/ At(t, "restoring") => queue[t] = <<>>
AllocatedIsNext == \A t \in Tabs : At(t, "allocated") =>
  tab[t].n \in 1..durable /\ \A n \in 1..MaxSeq : issued[n] > 0 => n < tab[t].n
WholeInv == SeqTyped /\ HeldIsIssued /\ ForwardsNothing /\ MirrorCovers /\ CacheCovers /\ AllocatesLast /\ AllocatedIsNext /\ IssuedOnce

LEMMA WholeInit == ASSUME SeqAssumption, SeqInit PROVE WholeInv
  BY SeqTypedInit, HeldInit DEF SeqInit, SeqAssumption, WholeInv, ForwardsNothing, MirrorCovers, CacheCovers, AllocatesLast, AllocatedIsNext,
                      IssuedUpTo, IssuedOnce, At

(* A window that gives nothing out and hears of nothing.                   *)
LEMMA WholeQuietly ==
  ASSUME SeqAssumption, Alone, WholeInv, SeqTyped', HeldIsIssued', ForwardsNothing', UNCHANGED <<issued, durable>>,
         NEW t \in Tabs, tab'[t].at # "allocated", CacheCovers', AllocatesLast',
         \A i \in DOMAIN queue'[t] : \/ i \in DOMAIN queue[t] /\ queue'[t][i] = queue[t][i]
                                     \/ queue'[t][i].op = "put" => IssuedUpTo(queue'[t][i].n)
  PROVE  WholeInv'
<1>1. \A u \in Tabs : u = t
  BY DEF Alone
<1>2. IssuedUpTo(durable) /\ \A i \in DOMAIN queue[t] : queue[t][i].op = "put" => IssuedUpTo(queue[t][i].n)
  BY DEF WholeInv, MirrorCovers
<1>3. MirrorCovers'
  BY <1>1, <1>2 DEF MirrorCovers, IssuedUpTo
<1>4. AllocatedIsNext'
  BY <1>1 DEF AllocatedIsNext, At
<1> QED BY <1>3, <1>4 DEF WholeInv, IssuedOnce

LEMMA WholeStep ==
  ASSUME SeqAssumption, Alone, ~Native, ~Degraded, WholeInv, [SeqNext /\ RestoreIsWhole]_seqVars PROVE WholeInv'
<1>b. /\ durable \in 0..MaxSeq /\ cache \in [named : BOOLEAN, seq : 0..MaxSeq]
      /\ SeqTypeOK /\ queue \in [Tabs -> Seq(Writing)] /\ MaxSeq \in Nat /\ 0 \in 0..MaxSeq
      /\ tab \in [Tabs -> [at : {"closed", "restoring", "open", "allocating", "allocated"}, n : 0..MaxSeq]]
  BY DEF WholeInv, SeqTyped, SeqTypeOK, SeqAssumption
<1>c. \A t, u \in Tabs : t = u
  BY DEF Alone
<1>d. IssuedUpTo(durable)
  BY DEF WholeInv, MirrorCovers
<1>e. \A t \in Tabs : ~At(t, "closed") /\ ~At(t, "restoring") => cache.named /\ IssuedUpTo(cache.seq)
  BY <1>c DEF WholeInv, CacheCovers, At
<1>a. SeqTyped' /\ HeldIsIssued' /\ ForwardsNothing'
  <2>1. \A t \in Tabs : forward[t].at # "none" => IssuedUpTo(cache.seq)
    BY <1>e DEF WholeInv, ForwardsNothing
  <2> QED BY <2>1, SeqTypedStep, HeldStep, NothingForwarded DEF WholeInv
<1>f. \A t \in Tabs : queue[t] \in Seq(Writing) /\ DOMAIN queue[t] = 1..Len(queue[t]) /\ Len(queue[t]) \in Nat
  BY <1>b
<1>1. CASE UNCHANGED seqVars
  <2>1. CacheCovers' /\ AllocatesLast' /\ AllocatedIsNext' /\ IssuedOnce' /\ MirrorCovers'
    BY <1>1 DEF seqVars, WholeInv, MirrorCovers, CacheCovers, AllocatesLast, AllocatedIsNext, IssuedUpTo, IssuedOnce, At
  <2> QED BY <1>a, <2>1 DEF WholeInv
<1>2. ASSUME NEW t \in Tabs, Open(t) PROVE WholeInv'
  <2>1. UNCHANGED <<issued, durable>> /\ At(t, "closed") /\ queue[t] = <<>>
    BY <1>2 DEF Open, RefreshMirror, RestoreName, WholeInv, AllocatesLast
  <2>2. CASE RefreshMirror(t)
    <3>1. tab'[t].at = "open" /\ cache' = cache /\ cache.named /\ IssuedUpTo(cache.seq)
      BY <1>b, <1>c, <2>1, <2>2, GoesOn DEF RefreshMirror, WholeInv, CacheCovers, At
    <3>2. Put(cache.seq) \in Writing /\ Put(cache.seq).op = "put" /\ Put(cache.seq).n = cache.seq
      BY <1>b DEF Put, Writing
    <3>3. queue' = [queue EXCEPT ![t] = Append(queue[t], Put(cache.seq))]
      BY <2>2 DEF RefreshMirror, Requests
    <3>4. \A i \in DOMAIN queue'[t] : \/ i \in DOMAIN queue[t] /\ queue'[t][i] = queue[t][i]
                                      \/ queue'[t][i] = Put(cache.seq)
      BY <1>b, <3>2, <3>3, RequestIsLast
    <3>5. \A i \in DOMAIN queue'[t] : queue'[t][i] = Put(cache.seq)
      BY <2>1, <3>4
    <3>6. CacheCovers'
      BY <2>1, <3>1 DEF CacheCovers, IssuedUpTo
    <3>7. AllocatesLast'
      BY <1>c, <3>1, <3>2, <3>5 DEF AllocatesLast, At
    <3> QED BY <1>a, <2>1, <3>1, <3>2, <3>5, <3>6, <3>7, WholeQuietly
  <2>3. CASE RestoreName(t)
    <3>1. tab'[t].at = "restoring" /\ cache'.named /\ queue' = queue
      BY <1>b, <2>3, GoesOn DEF RestoreName
    <3>2. CacheCovers' /\ AllocatesLast'
      BY <1>c, <2>1, <3>1 DEF CacheCovers, AllocatesLast, At
    <3> QED BY <1>a, <2>1, <3>1, <3>2, WholeQuietly
  <2> QED BY <1>2, <2>2, <2>3 DEF Open
<1>3. ASSUME NEW t \in Tabs, RestoreSeq(t) PROVE WholeInv'
  <2>1. tab'[t].at = "open" /\ UNCHANGED <<issued, durable, queue>> /\ cache' = [cache EXCEPT !.seq = durable]
        /\ At(t, "restoring")
    BY <1>3, <1>b, GoesOn DEF RestoreSeq
  <2>2. cache'.seq = durable /\ cache'.named = cache.named /\ cache.named
    BY <1>b, <2>1 DEF WholeInv, CacheCovers, At
  <2>3. queue[t] = <<>>
    BY <2>1 DEF WholeInv, AllocatesLast
  <2>4. CacheCovers' /\ AllocatesLast'
    BY <1>c, <1>d, <2>1, <2>2, <2>3 DEF CacheCovers, AllocatesLast, IssuedUpTo, At
  <2> QED BY <1>a, <2>1, <2>4, WholeQuietly
<1>4. ASSUME NEW t \in Tabs, Close(t), RestoreIsWhole PROVE WholeInv'
  <2>1. tab'[t].at = "closed" /\ UNCHANGED <<cache, issued, durable>> /\ queue' = [queue EXCEPT ![t] = <<>>]
        /\ ~At(t, "closed")
    BY <1>4, <1>b, GoesOn DEF Close
  <2>2. ~At(t, "restoring") /\ queue'[t] = <<>>
    BY <1>4, <1>b, <2>1 DEF RestoreIsWhole
  <2>3. cache.named /\ IssuedUpTo(cache.seq)
    BY <1>e, <2>1, <2>2
  <2>4. CacheCovers' /\ AllocatesLast'
    BY <1>c, <2>1, <2>2, <2>3 DEF CacheCovers, AllocatesLast, IssuedUpTo, At
  <2> QED BY <1>a, <2>1, <2>2, <2>4, WholeQuietly
<1>5. ASSUME NEW t \in Tabs, AllocateLocalSeq(t) PROVE WholeInv'
  <2>1. /\ tab'[t].at = "allocating" /\ UNCHANGED <<cache, issued, durable>> /\ At(t, "open")
        /\ queue' = [queue EXCEPT ![t] = Append(queue[t], Allocate(cache.seq))]
    BY <1>5, <1>b, GoesOn DEF AllocateLocalSeq, Requests
  <2>2. Allocate(cache.seq) \in Writing /\ Allocate(cache.seq).op = "allocate"
    BY <1>b DEF Allocate, Writing
  <2>3. \A i \in DOMAIN queue'[t] : \/ i \in DOMAIN queue[t] /\ queue'[t][i] = queue[t][i]
                                    \/ i = Len(queue'[t]) /\ queue'[t][i] = Allocate(cache.seq)
    BY <1>b, <2>1, <2>2, RequestIsLast
  <2>4. \A i \in DOMAIN queue[t] : queue[t][i].op = "put"
    BY <2>1 DEF WholeInv, AllocatesLast, At
  <2>5. AllocatesLast'
    BY <1>c, <2>1, <2>2, <2>3, <2>4 DEF AllocatesLast, At
  <2>6. CacheCovers'
    BY <1>e, <2>1 DEF CacheCovers, IssuedUpTo, At
  <2> QED BY <1>a, <2>1, <2>2, <2>3, <2>5, <2>6, WholeQuietly
<1>6. ASSUME NEW t \in Tabs, Commit(t) PROVE WholeInv'
  <2>1. /\ queue[t] # <<>> /\ queue' = [queue EXCEPT ![t] = Tail(queue[t])] /\ UNCHANGED <<cache, issued, lastSeq>>
        /\ Head(queue[t]) = queue[t][1] /\ 1 \in DOMAIN queue[t] /\ queue[t][1] \in Writing
        /\ Len(queue'[t]) = Len(queue[t]) - 1
        /\ \A i \in DOMAIN queue'[t] : i + 1 \in DOMAIN queue[t] /\ queue'[t][i] = queue[t][i + 1]
    BY <1>6, <1>b, HeardIsFirst DEF Commit
  <2>2. ~At(t, "allocated") /\ ~At(t, "closed") /\ ~At(t, "restoring")
    BY <2>1 DEF WholeInv, AllocatesLast
  <2>3. CASE queue[t][1].op = "put"
    <3>1. durable' = queue[t][1].n /\ tab' = tab
      BY <1>6, <2>1, <2>3 DEF Commit
    <3>2. IssuedUpTo(queue[t][1].n)
      BY <2>1, <2>3 DEF WholeInv, MirrorCovers
    <3>3. MirrorCovers'
      BY <1>c, <2>1, <3>1, <3>2 DEF WholeInv, MirrorCovers, IssuedUpTo
    <3>4. CacheCovers'
      BY <1>e, <2>1, <2>2, <3>1 DEF CacheCovers, IssuedUpTo, At
    <3>5. AllocatesLast'
      <4>1. \A i \in DOMAIN queue'[t] : queue'[t][i].op # "put" =>
               At(t, "allocating") /\ i + 1 = Len(queue[t]) /\ queue'[t][i].op = "allocate"
        BY <2>1 DEF WholeInv, AllocatesLast
      <4>2. queue' \in [Tabs -> Seq(Writing)]
        BY <1>a DEF SeqTyped
      <4>3. \A i \in DOMAIN queue'[t] : i \in Int /\ (i + 1 = Len(queue[t]) => i = Len(queue'[t]))
        BY <1>f, <2>1, <4>2
      <4> QED BY <1>c, <2>2, <3>1, <4>1, <4>3 DEF AllocatesLast, At
    <3>6. AllocatedIsNext'
      BY <1>c, <2>2, <3>1 DEF AllocatedIsNext, At
    <3> QED BY <1>a, <2>1, <3>3, <3>4, <3>5, <3>6 DEF WholeInv, IssuedOnce
  <2>4. CASE queue[t][1].op # "put"
    <3> DEFINE n == NextSeq(queue[t][1].n)
    <3>1. At(t, "allocating") /\ 1 = Len(queue[t]) /\ queue[t][1].op = "allocate"
      BY <2>1, <2>4 DEF WholeInv, AllocatesLast
    <3>2. durable' = n /\ tab' = [tab EXCEPT ![t] = [at |-> "allocated", n |-> n]]
      BY <1>6, <2>1, <3>1 DEF Commit
    <3>3. n \in Nat /\ n > durable
      <4>1. queue[t][1].n \in Nat /\ durable \in Nat
        BY <1>b, <2>1 DEF Writing
      <4>2. Higher(durable, queue[t][1].n) \in Nat /\ Higher(durable, queue[t][1].n) >= durable
        BY <4>1, HigherIs
      <4> QED BY <4>1, <4>2 DEF NextSeq
    <3> HIDE DEF n
    <3>4. tab'[t].at = "allocated" /\ tab'[t].n = n
      BY <1>b, <3>2
    <3>5. queue'[t] = <<>>
      <4>1. queue' \in [Tabs -> Seq(Writing)]
        BY <1>a DEF SeqTyped
      <4> QED BY <2>1, <3>1, <4>1
    <3>6. \A m \in 1..MaxSeq : issued[m] > 0 => m <= durable
      BY <1>d DEF IssuedUpTo
    <3>7. \A m \in 1..MaxSeq : issued[m] > 0 => m < n
      BY <1>b, <3>3, <3>6
    <3>8. MirrorCovers'
      BY <1>c, <2>1, <3>2, <3>3, <3>5, <3>7 DEF MirrorCovers, IssuedUpTo
    <3>9. CacheCovers'
      BY <1>e, <2>1, <2>2 DEF CacheCovers, IssuedUpTo, At
    <3>10. AllocatesLast' /\ AllocatedIsNext'
      BY <1>b, <1>c, <2>1, <3>2, <3>3, <3>4, <3>5, <3>7 DEF AllocatesLast, AllocatedIsNext, At
    <3> QED BY <1>a, <2>1, <3>8, <3>9, <3>10 DEF WholeInv, IssuedOnce
  <2> QED BY <2>3, <2>4
<1>7. ASSUME NEW t \in Tabs, LoseWrite(t) \/ NextLocalSeq(t) PROVE FALSE
  BY <1>7 DEF LoseWrite, NextLocalSeq
<1>8. ASSUME NEW t \in Tabs, GiveOut(t) PROVE WholeInv'
  <2>1. /\ At(t, "allocated") /\ tab[t].n \in 1..durable /\ Issue(tab[t].n) /\ tab'[t].at = "open"
        /\ cache' = [cache EXCEPT !.seq = tab[t].n] /\ UNCHANGED <<durable, queue>> /\ queue[t] = <<>>
        /\ \A n \in 1..MaxSeq : issued[n] > 0 => n < tab[t].n
    BY <1>8, <1>b, GoesOn DEF GiveOut, WholeInv, AllocatedIsNext, AllocatesLast
  <2>2. tab[t].n \in 1..MaxSeq
    BY <1>b, <2>1
  <2>3. issued'[tab[t].n] = issued[tab[t].n] + 1 /\ \A m \in 1..MaxSeq : m # tab[t].n => issued'[m] = issued[m]
    BY <1>b, <2>1, <2>2, NumberIsIssued
  <2>4. issued[tab[t].n] = 0
    <3>1. issued[tab[t].n] \in Nat /\ ~(issued[tab[t].n] > 0)
      BY <1>b, <2>1, <2>2 DEF SeqTypeOK
    <3> QED BY <3>1
  <2>5. \A n \in 1..MaxSeq : issued'[n] > 0 => n <= tab[t].n
    <3> SUFFICES ASSUME NEW n \in 1..MaxSeq, issued'[n] > 0 PROVE n <= tab[t].n
      OBVIOUS
    <3>1. tab[t].n \in Int
      BY <2>2
    <3>2. n # tab[t].n => issued[n] > 0
      BY <2>3
    <3>3. issued[n] > 0 => n < tab[t].n
      BY <2>1
    <3> QED BY <3>1, <3>2, <3>3
  <2>6. MirrorCovers'
    <3>1. \A n \in 1..MaxSeq : issued'[n] > 0 => n <= durable
      BY <1>b, <2>1, <2>2, <2>5
    <3> QED BY <1>c, <2>1, <3>1 DEF MirrorCovers, IssuedUpTo
  <2>7. CacheCovers'
    <3>1. cache'.named /\ cache'.seq = tab[t].n
      BY <1>b, <1>e, <2>1 DEF At
    <3> QED BY <2>5, <3>1 DEF CacheCovers, IssuedUpTo
  <2>8. AllocatesLast' /\ AllocatedIsNext'
    BY <1>c, <2>1 DEF AllocatesLast, AllocatedIsNext, At
  <2>9. IssuedOnce'
    BY <2>3, <2>4 DEF WholeInv, IssuedOnce
  <2> QED BY <1>a, <2>6, <2>7, <2>8, <2>9 DEF WholeInv
<1>9. ASSUME UNCHANGED <<cache, durable, queue, tab, issued>> PROVE WholeInv'
  <2>1. CacheCovers' /\ AllocatesLast' /\ AllocatedIsNext' /\ IssuedOnce' /\ MirrorCovers'
    BY <1>9 DEF WholeInv, MirrorCovers, CacheCovers, AllocatesLast, AllocatedIsNext, IssuedUpTo, IssuedOnce, At
  <2> QED BY <1>a, <2>1 DEF WholeInv
<1>10. ASSUME NEW t \in Tabs, ReadWatermark(t) \/ FastForward(t) \/ ReadDurable(t) \/ ForwardDurable(t) \/ ForwardCache(t)
       PROVE  UNCHANGED <<cache, durable, queue, tab, issued>>
  BY <1>10 DEF ReadWatermark, FastForward, ReadDurable, ForwardDurable, ForwardCache, Forwarding, WholeInv, ForwardsNothing
<1>11. ASSUME NEW n \in 1..MaxSeq, Settled(n) PROVE UNCHANGED <<cache, durable, queue, tab, issued>>
  BY <1>11 DEF Settled
<1>12. CASE Wipe
  <2>1. UNCHANGED <<durable, queue, tab, issued>> /\ ~cache'.named /\ \A t \in Tabs : At(t, "closed")
    BY <1>12 DEF Wipe
  <2>2. CacheCovers' /\ AllocatesLast' /\ AllocatedIsNext' /\ IssuedOnce' /\ MirrorCovers'
    BY <2>1 DEF WholeInv, MirrorCovers, CacheCovers, AllocatesLast, AllocatedIsNext, IssuedUpTo, IssuedOnce, At
  <2> QED BY <1>a, <2>2 DEF WholeInv
<1> QED BY <1>1, <1>2, <1>3, <1>4, <1>5, <1>6, <1>7, <1>8, <1>9, <1>10, <1>11, <1>12 DEF SeqNext

(* No number is given to two sales by one window that restores whole,      *)
(* however often it dies, starts again, and finds localStorage wiped.      *)
THEOREM NumbersAreRestored ==
  ASSUME SeqAssumption, Alone, ~Native, ~Degraded
  PROVE  SeqSpec /\ [][RestoreIsWhole]_seqVars => []IssuedOnce
<1>1. SeqInit => WholeInv
  BY WholeInit
<1>2. WholeInv /\ [SeqNext]_seqVars /\ [RestoreIsWhole]_seqVars => WholeInv'
  BY WholeStep
<1>3. WholeInv => IssuedOnce
  BY DEF WholeInv
<1> QED BY <1>1, <1>2, <1>3, PTL DEF SeqSpec

-----------------------------------------------------------------------------
(* One window whose localStorage is never wiped: it alone covers the       *)
(* numbers given out, whatever the mirror loses or hears late.             *)
KeptInv ==
  /\ SeqTyped /\ HeldIsIssued /\ ForwardsNothing /\ IssuedOnce
  /\ cache.named /\ IssuedUpTo(cache.seq)
  /\ \A t \in Tabs :
       /\ ~At(t, "restoring")
       /\ At(t, "allocated") => tab[t].n > cache.seq
       /\ \A i \in DOMAIN queue[t] : queue[t][i].op = "allocate" =>
            At(t, "allocating") /\ i = Len(queue[t]) /\ queue[t][i].n = cache.seq

LEMMA KeptInit == ASSUME SeqAssumption, SeqInit PROVE KeptInv
<1>1. cache.named /\ IssuedUpTo(cache.seq) /\ IssuedOnce
  BY DEF SeqInit, SeqAssumption, IssuedUpTo, IssuedOnce
<1>2. \A t \in Tabs : queue[t] = <<>> /\ tab[t].at \in {"open", "closed"}
  BY DEF SeqInit
<1>3. ForwardsNothing
  BY DEF SeqInit, ForwardsNothing
<1> QED BY <1>1, <1>2, <1>3, SeqTypedInit, HeldInit DEF KeptInv, At

(* A window that gives nothing out and is allocated nothing.               *)
LEMMA KeptQuietly ==
  ASSUME Alone, KeptInv, SeqTyped', HeldIsIssued', ForwardsNothing', UNCHANGED <<issued, cache>>, NEW t \in Tabs,
         tab'[t].at \notin {"allocated", "restoring"},
         \A i \in DOMAIN queue'[t] : queue'[t][i].op = "allocate" =>
            tab'[t].at = "allocating" /\ i = Len(queue'[t]) /\ queue'[t][i].n = cache.seq
  PROVE  KeptInv'
<1>1. \A u \in Tabs : u = t
  BY DEF Alone
<1>2. cache'.named /\ IssuedUpTo(cache.seq)' /\ IssuedOnce'
  BY DEF KeptInv, IssuedUpTo, IssuedOnce
<1> QED BY <1>1, <1>2 DEF KeptInv, At

LEMMA KeptStep ==
  ASSUME SeqAssumption, Alone, ~Native, MaxWipes = 0, KeptInv, [SeqNext]_seqVars PROVE KeptInv'
<1>a. SeqTyped' /\ HeldIsIssued' /\ ForwardsNothing'
  BY SeqTypedStep, HeldStep, NothingForwarded DEF KeptInv
<1>b. /\ durable \in 0..MaxSeq /\ cache \in [named : BOOLEAN, seq : 0..MaxSeq] /\ wiped \in Nat
      /\ SeqTypeOK /\ queue \in [Tabs -> Seq(Writing)] /\ MaxSeq \in Nat /\ 0 \in 0..MaxSeq
      /\ tab \in [Tabs -> [at : {"closed", "restoring", "open", "allocating", "allocated"}, n : 0..MaxSeq]]
  BY DEF KeptInv, SeqTyped, SeqTypeOK, SeqAssumption
<1>c. \A t, u \in Tabs : t = u
  BY DEF Alone
<1>d. \A t \in Tabs : ~At(t, "allocating") => \A i \in DOMAIN queue[t] : queue[t][i].op # "allocate"
  BY DEF KeptInv
<1>e. \A t \in Tabs : queue[t] \in Seq(Writing) /\ DOMAIN queue[t] = 1..Len(queue[t]) /\ Len(queue[t]) \in Nat
  BY <1>b
<1>f. cache.named /\ \A n \in 1..MaxSeq : issued[n] > 0 => n <= cache.seq
  BY DEF KeptInv, IssuedUpTo
<1>1. CASE UNCHANGED seqVars
  BY <1>1, <1>a DEF seqVars, KeptInv, IssuedUpTo, IssuedOnce, At
<1>2. ASSUME NEW t \in Tabs, Open(t) PROVE KeptInv'
  <2>1. RefreshMirror(t) /\ UNCHANGED <<issued, cache>> /\ At(t, "closed")
    BY <1>2, <1>f DEF Open, RefreshMirror, RestoreName
  <2>2. tab'[t].at = "open" /\ queue' = [queue EXCEPT ![t] = Append(queue[t], Put(cache.seq))]
    BY <1>b, <2>1, GoesOn DEF RefreshMirror, Requests
  <2>3. Put(cache.seq) \in Writing /\ Put(cache.seq).op = "put"
    BY <1>b DEF Put, Writing
  <2>4. \A i \in DOMAIN queue'[t] : queue'[t][i].op # "allocate"
    <3>1. \A i \in DOMAIN queue[t] : queue[t][i].op # "allocate"
      BY <1>d, <2>1 DEF At
    <3> QED BY <1>b, <2>2, <2>3, <3>1, RequestIsLast
  <2> QED BY <1>a, <2>1, <2>2, <2>4, KeptQuietly
<1>3. ASSUME NEW t \in Tabs, RestoreSeq(t) PROVE FALSE
  BY <1>3 DEF RestoreSeq, KeptInv
<1>4. ASSUME NEW t \in Tabs, Close(t) PROVE KeptInv'
  <2>1. tab'[t].at = "closed" /\ UNCHANGED <<issued, cache>> /\ queue'[t] = <<>>
    BY <1>4, <1>b, GoesOn DEF Close
  <2> QED BY <1>a, <2>1, KeptQuietly
<1>5. ASSUME NEW t \in Tabs, AllocateLocalSeq(t) PROVE KeptInv'
  <2>1. /\ tab'[t].at = "allocating" /\ UNCHANGED <<issued, cache>> /\ At(t, "open")
        /\ queue' = [queue EXCEPT ![t] = Append(queue[t], Allocate(cache.seq))]
    BY <1>5, <1>b, GoesOn DEF AllocateLocalSeq, Requests
  <2>2. Allocate(cache.seq) \in Writing /\ Allocate(cache.seq).n = cache.seq
    BY <1>b DEF Allocate, Writing
  <2>3. \A i \in DOMAIN queue'[t] : \/ i \in DOMAIN queue[t] /\ queue'[t][i] = queue[t][i]
                                    \/ i = Len(queue'[t]) /\ queue'[t][i] = Allocate(cache.seq)
    BY <1>b, <2>1, <2>2, RequestIsLast
  <2>4. \A i \in DOMAIN queue[t] : queue[t][i].op # "allocate"
    BY <1>d, <2>1 DEF At
  <2> QED BY <1>a, <2>1, <2>2, <2>3, <2>4, KeptQuietly
<1>6. ASSUME NEW t \in Tabs, Commit(t) PROVE KeptInv'
  <2>1. /\ UNCHANGED <<issued, cache>> /\ queue[t][1] \in Writing /\ 1 \in DOMAIN queue[t]
        /\ Head(queue[t]) = queue[t][1] /\ Len(queue'[t]) = Len(queue[t]) - 1
        /\ \A i \in DOMAIN queue'[t] : i + 1 \in DOMAIN queue[t] /\ queue'[t][i] = queue[t][i + 1]
    BY <1>6, <1>b, HeardIsFirst DEF Commit
  <2>2. \A i \in DOMAIN queue'[t] : i \in Int /\ (i + 1 = Len(queue[t]) => i = Len(queue'[t]))
    <3>1. queue' \in [Tabs -> Seq(Writing)]
      BY <1>a DEF SeqTyped
    <3> QED BY <1>e, <2>1, <3>1
  <2>3. \A i \in DOMAIN queue'[t] : queue'[t][i].op = "allocate" =>
           At(t, "allocating") /\ i = Len(queue'[t]) /\ queue'[t][i].n = cache.seq
    BY <2>1, <2>2 DEF KeptInv
  <2>4. CASE queue[t][1].op # "allocate"
    <3>1. tab' = tab
      BY <1>6, <2>1, <2>4 DEF Commit
    <3> QED BY <1>a, <1>c, <2>1, <2>3, <3>1 DEF KeptInv, IssuedUpTo, IssuedOnce, At
  <2>5. CASE queue[t][1].op = "allocate"
    <3> DEFINE n == NextSeq(queue[t][1].n)
    <3>1. At(t, "allocating") /\ 1 = Len(queue[t]) /\ queue[t][1].n = cache.seq
      BY <2>1, <2>5 DEF KeptInv
    <3>2. tab' = [tab EXCEPT ![t] = [at |-> "allocated", n |-> n]]
      BY <1>6, <2>1, <2>5 DEF Commit
    <3>3. n > cache.seq
      <4>1. cache.seq \in Nat /\ durable \in Nat
        BY <1>b
      <4>2. Higher(durable, cache.seq) \in Nat /\ Higher(durable, cache.seq) >= cache.seq
        BY <4>1, HigherIs
      <4> QED BY <3>1, <4>1, <4>2 DEF NextSeq
    <3> HIDE DEF n
    <3>4. tab'[t].at = "allocated" /\ tab'[t].n = n
      BY <1>b, <3>2
    <3>5. queue' \in [Tabs -> Seq(Writing)] /\ DOMAIN queue'[t] = {}
      <4>1. queue' \in [Tabs -> Seq(Writing)]
        BY <1>a DEF SeqTyped
      <4> QED BY <2>1, <3>1, <4>1
    <3> QED BY <1>a, <1>c, <2>1, <3>3, <3>4, <3>5 DEF KeptInv, IssuedUpTo, IssuedOnce, At
  <2> QED BY <2>4, <2>5
<1>7. ASSUME NEW t \in Tabs, LoseWrite(t) PROVE KeptInv'
  <2>1. /\ UNCHANGED <<issued, cache, tab>> /\ Len(queue'[t]) = Len(queue[t]) - 1 
        /\ \A i \in DOMAIN queue'[t] : i + 1 \in DOMAIN queue[t] /\ queue'[t][i] = queue[t][i + 1]
    BY <1>7, <1>b, HeardIsFirst DEF LoseWrite
  <2>2. \A i \in DOMAIN queue'[t] : i \in Int /\ (i + 1 = Len(queue[t]) => i = Len(queue'[t]))
    <3>1. queue' \in [Tabs -> Seq(Writing)]
      BY <1>a DEF SeqTyped
    <3> QED BY <1>e, <2>1, <3>1
  <2> QED BY <1>a, <1>c, <2>1, <2>2 DEF KeptInv, IssuedUpTo, IssuedOnce, At
<1>8. ASSUME NEW t \in Tabs, GiveOut(t) PROVE KeptInv'
  <2> DEFINE n == tab[t].n
  <2>1. /\ At(t, "allocated") /\ Issue(n) /\ tab'[t].at = "open" /\ cache' = [cache EXCEPT !.seq = n]
        /\ queue' = queue /\ n > cache.seq
    BY <1>8, <1>b, GoesOn DEF GiveOut, KeptInv
  <2>2. n \in 1..MaxSeq
    BY <1>b, <2>1
  <2> HIDE DEF n
  <2>3. /\ issued[n] = 0 /\ issued'[n] = issued[n] + 1 /\ cache'.seq = n /\ cache'.named
        /\ \A m \in 1..MaxSeq : m # n => issued'[m] = issued[m]
    <3>1. issued[n] \in Nat /\ ~(issued[n] > 0)
      BY <1>b, <1>f, <2>1, <2>2 DEF SeqTypeOK
    <3> QED BY <1>b, <1>f, <2>1, <2>2, <3>1, NumberIsIssued
  <2>4. \A m \in 1..MaxSeq : issued'[m] > 0 => m <= cache'.seq
    <3>1. cache.seq \in Int /\ n \in Int
      BY <1>b, <2>2
    <3>2. ASSUME NEW m \in 1..MaxSeq, issued'[m] > 0, m # n PROVE m <= n
      <4>1. m <= cache.seq
        BY <1>f, <2>3, <3>2
      <4> QED BY <2>1, <3>1, <4>1
    <3> QED BY <2>3, <3>1, <3>2
  <2>5. IssuedOnce'
    BY <2>3 DEF KeptInv, IssuedOnce
  <2>6. \A i \in DOMAIN queue'[t] : queue'[t][i].op # "allocate"
    BY <1>d, <2>1 DEF At
  <2> QED BY <1>a, <1>c, <2>1, <2>3, <2>4, <2>5, <2>6 DEF KeptInv, IssuedUpTo, At
<1>9. ASSUME NEW t \in Tabs, NextLocalSeq(t) PROVE KeptInv'
  <2> DEFINE n == cache.seq + 1
  <2>1. /\ Issue(n) /\ cache' = [cache EXCEPT !.seq = n] /\ tab'[t].at = "open"
        /\ queue' = [queue EXCEPT ![t] = Append(Abandoned(queue[t]), Put(n))]
    BY <1>9, <1>b, GoesOn DEF NextLocalSeq
  <2>2. n \in 1..MaxSeq /\ n > cache.seq
    BY <1>b, <2>1 DEF Issue
  <2>3. Put(n) \in Writing /\ Put(n).op = "put"
    BY <2>2 DEF Put, Writing
  <2> HIDE DEF n
  <2>4. /\ issued[n] = 0 /\ issued'[n] = issued[n] + 1 /\ cache'.seq = n /\ cache'.named
        /\ \A m \in 1..MaxSeq : m # n => issued'[m] = issued[m]
    <3>1. issued[n] \in Nat /\ ~(issued[n] > 0)
      BY <1>b, <1>f, <2>2 DEF SeqTypeOK
    <3> QED BY <1>b, <1>f, <2>1, <2>2, <3>1, NumberIsIssued
  <2>5. \A m \in 1..MaxSeq : issued'[m] > 0 => m <= cache'.seq
    <3>1. cache.seq \in Int /\ n \in Int
      BY <1>b, <2>2
    <3>2. ASSUME NEW m \in 1..MaxSeq, issued'[m] > 0, m # n PROVE m <= n
      <4>1. m <= cache.seq
        BY <1>f, <2>4, <3>2
      <4> QED BY <2>2, <3>1, <4>1
    <3> QED BY <2>4, <3>1, <3>2
  <2>6. IssuedOnce'
    BY <2>4 DEF KeptInv, IssuedOnce
  <2>7. \A i \in DOMAIN queue'[t] : queue'[t][i].op # "allocate"
    <3>1. Abandoned(queue[t]) \in Seq(Writing) /\ \A i \in 1..Len(Abandoned(queue[t])) : Abandoned(queue[t])[i].op # "allocate"
      BY <1>e, AbandonedTyped
    <3>2. queue'[t] = Append(Abandoned(queue[t]), Put(n))
      BY <1>b, <2>1
    <3> QED BY <2>3, <3>1, <3>2
  <2> QED BY <1>a, <1>c, <2>1, <2>4, <2>5, <2>6, <2>7 DEF KeptInv, IssuedUpTo, At
<1>10. ASSUME UNCHANGED <<cache, queue, tab, issued>> PROVE KeptInv'
  BY <1>10, <1>a DEF KeptInv, IssuedUpTo, IssuedOnce, At
<1>11. ASSUME NEW t \in Tabs, ReadWatermark(t) \/ FastForward(t) \/ ReadDurable(t) \/ ForwardDurable(t) \/ ForwardCache(t)
       PROVE  UNCHANGED <<cache, queue, tab, issued>>
  BY <1>11 DEF ReadWatermark, FastForward, ReadDurable, ForwardDurable, ForwardCache, Forwarding, KeptInv, ForwardsNothing
<1>12. ASSUME NEW n \in 1..MaxSeq, Settled(n) PROVE UNCHANGED <<cache, queue, tab, issued>>
  BY <1>12 DEF Settled
<1>13. ~Wipe
  BY <1>b DEF Wipe
<1> QED BY <1>1, <1>2, <1>3, <1>4, <1>5, <1>6, <1>7, <1>8, <1>9, <1>10, <1>11, <1>12, <1>13 DEF SeqNext

(* No number is given to two sales by one window whose localStorage stays, *)
(* though IndexedDB times out, commits late or loses what it was given.    *)
THEOREM NumbersAreKept ==
  ASSUME SeqAssumption, Alone, ~Native, MaxWipes = 0 PROVE SeqSpec => []IssuedOnce
<1>1. SeqInit => KeptInv
  BY KeptInit
<1>2. KeptInv /\ [SeqNext]_seqVars => KeptInv'
  BY KeptStep
<1>3. KeptInv => IssuedOnce
  BY DEF KeptInv
<1> QED BY <1>1, <1>2, <1>3, PTL DEF SeqSpec
=============================================================================
