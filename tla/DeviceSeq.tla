----------------------------- MODULE DeviceSeq -----------------------------
(***************************************************************************)
(* The sequence number of a terminal, from which the receipt number and    *)
(* the id of every sale are made.  It lives twice: in localStorage, which  *)
(* tabs read and write at once, and in IndexedDB (or the native store),    *)
(* whose transactions a tab requests now and hears of later.               *)
(***************************************************************************)
EXTENDS Integers, FiniteSetsExt, SequencesExt

CONSTANTS Tabs,         \* windows of one terminal
          OpenAtStart,  \* those that are open and idle at first
          Native,       \* is the durable store the committed native one?
          Degraded,     \* may IndexedDB time out and lose writes?
          MaxOpenings, MaxWipes, MaxSeq  \* bounds of the exploration

SeqAssumption ==
    /\ OpenAtStart \subseteq Tabs /\ Native \in BOOLEAN /\ Degraded \in BOOLEAN
    /\ MaxOpenings \in Nat /\ MaxWipes \in Nat /\ MaxSeq \in Nat

VARIABLES cache,    \* localStorage: is the device named there, and its number
          durable,  \* the number in IndexedDB, or in the native store
          queue,    \* per tab, the transactions it has requested
          tab,      \* per tab, where it is and the number it holds
          forward,  \* per tab, how far it went on with the server's watermark
          issued,   \* how many sales each number was given to
          lastSeq,  \* the server's watermark, posDevices.lastSeq
          opened, wiped

seqVars == <<cache, durable, queue, tab, forward, issued, lastSeq, opened, wiped>>

Higher(m, n) == Max({m, n})
Put(n) == [op |-> "put", n |-> n]
Allocate(base) == [op |-> "allocate", n |-> base]

At(t, at) == tab[t].at = at
Goes(t, at, n) == tab' = [tab EXCEPT ![t] = [at |-> at, n |-> n]]
Requests(t, w) == queue' = [queue EXCEPT ![t] = Append(@, w)]
Issue(n) == n <= MaxSeq /\ issued' = [issued EXCEPT ![n] = @ + 1]

SeqInit ==
    /\ cache = [named |-> TRUE, seq |-> 0]
    /\ durable = 0
    /\ queue = [t \in Tabs |-> <<>>]
    /\ tab = [t \in Tabs |-> [at |-> IF t \in OpenAtStart THEN "open" ELSE "closed", n |-> 0]]
    /\ forward = [t \in Tabs |-> [at |-> "none", n |-> 0]]
    /\ issued = [n \in 1..MaxSeq |-> 0]
    /\ lastSeq = 0 /\ opened = 0 /\ wiped = 0

(***************************************************************************)
(* initDeviceIdentity, once per tab before it renders.  An intact          *)
(* localStorage overwrites the mirror; a wiped one is restored from it,    *)
(* the name before the number.  The native store merges both upwards.      *)
(***************************************************************************)

RefreshMirror(t) ==
    /\ cache.named
    /\ Requests(t, Put(cache.seq))
    /\ Goes(t, "open", 0)
    /\ UNCHANGED <<cache, durable>>

RestoreName(t) ==
    /\ ~cache.named
    /\ cache' = [cache EXCEPT !.named = TRUE]
    /\ Goes(t, "restoring", 0)
    /\ UNCHANGED <<durable, queue>>

MergeNative(t) ==
    /\ cache' = [named |-> TRUE, seq |-> Higher(cache.seq, durable)]
    /\ durable' = Higher(cache.seq, durable)
    /\ Goes(t, "open", 0)
    /\ UNCHANGED queue

Open(t) ==
    /\ At(t, "closed") /\ opened < MaxOpenings
    /\ opened' = opened + 1
    /\ IF Native THEN MergeNative(t) ELSE RefreshMirror(t) \/ RestoreName(t)
    /\ UNCHANGED <<forward, issued, lastSeq, wiped>>

RestoreSeq(t) ==
    /\ At(t, "restoring")
    /\ cache' = [cache EXCEPT !.seq = durable]
    /\ Goes(t, "open", 0)
    /\ UNCHANGED <<durable, queue, forward, issued, lastSeq, opened, wiped>>

(***************************************************************************)
(* allocateLocalSeq: the base from localStorage, one transaction over the  *)
(* durable number, and localStorage only after it committed.  Past the     *)
(* time limit the caller falls back on nextLocalSeq, while the             *)
(* transaction may still commit.                                           *)
(***************************************************************************)
(* mutant: the number in localStorage alone is the base.                   *)
MutNextSeq(base) == (IF Native THEN durable ELSE base) + 1
NextSeq(base) == (IF Native THEN durable ELSE Higher(durable, base)) + 1

AllocateLocalSeq(t) ==
    /\ At(t, "open")
    /\ Goes(t, "allocating", 0)
    /\ Requests(t, Allocate(cache.seq))
    /\ UNCHANGED <<cache, durable, forward, issued, lastSeq, opened, wiped>>

Commit(t) ==
    /\ queue[t] # <<>>
    /\ LET w == Head(queue[t])
           new == IF w.op = "put" THEN w.n ELSE NextSeq(w.n)
       IN /\ new <= MaxSeq
          /\ durable' = new
          /\ tab' = IF w.op = "allocate" THEN [tab EXCEPT ![t] = [at |-> "allocated", n |-> new]] ELSE tab
    /\ queue' = [queue EXCEPT ![t] = Tail(@)]
    /\ UNCHANGED <<cache, forward, issued, lastSeq, opened, wiped>>

LoseWrite(t) ==
    /\ Degraded /\ queue[t] # <<>> /\ Head(queue[t]).op # "allocate"
    /\ queue' = [queue EXCEPT ![t] = Tail(@)]
    /\ UNCHANGED <<cache, durable, tab, forward, issued, lastSeq, opened, wiped>>

GiveOut(t) ==
    /\ At(t, "allocated")
    /\ cache' = [cache EXCEPT !.seq = tab[t].n]
    /\ Issue(tab[t].n)
    /\ Goes(t, "open", 0)
    /\ UNCHANGED <<durable, queue, forward, lastSeq, opened, wiped>>

Abandoned(ws) == [i \in DOMAIN ws |-> IF ws[i].op = "allocate" THEN [ws[i] EXCEPT !.op = "late"] ELSE ws[i]]

NextLocalSeq(t) ==
    /\ Degraded /\ (At(t, "allocating") \/ At(t, "allocated"))
    /\ Issue(cache.seq + 1)
    /\ cache' = [cache EXCEPT !.seq = @ + 1]
    /\ queue' = [queue EXCEPT ![t] = Append(Abandoned(@), Put(cache.seq + 1))]
    /\ Goes(t, "open", 0)
    /\ UNCHANGED <<durable, forward, lastSeq, opened, wiped>>

(***************************************************************************)
(* reconcileLocalSeqWithServer and fastForwardLocalSeqTo, once per tab and *)
(* beside its sales: the server's answer is compared with localStorage;    *)
(* then the durable number is read, or raised in a native transaction; and *)
(* localStorage is written after that, the mirror by a transaction again.  *)
(***************************************************************************)
Watermark(n) == Higher(lastSeq, n)

Settled(n) ==
    /\ issued[n] > 0
    /\ lastSeq' = Watermark(n)
    /\ UNCHANGED <<cache, durable, queue, tab, forward, issued, opened, wiped>>

Forwarding(t, at) == forward[t].at = at
ForwardGoes(t, at, n) == forward' = [forward EXCEPT ![t] = [at |-> at, n |-> n]]

ReadWatermark(t) ==
    /\ tab[t].at \in {"open", "allocating", "allocated"} /\ Forwarding(t, "none")
    /\ ForwardGoes(t, "asked", lastSeq)
    /\ UNCHANGED <<cache, durable, queue, tab, issued, lastSeq, opened, wiped>>

FastForward(t) ==
    /\ Forwarding(t, "asked")
    /\ IF forward[t].n > cache.seq THEN ForwardGoes(t, "reading", forward[t].n) ELSE ForwardGoes(t, "done", 0)
    /\ UNCHANGED <<cache, durable, queue, tab, issued, lastSeq, opened, wiped>>

ReadDurable(t) ==
    /\ ~Native /\ Forwarding(t, "reading")
    /\ \E stored \in IF Degraded THEN {0, durable} ELSE {durable} :
          IF forward[t].n > stored THEN ForwardGoes(t, "writing", forward[t].n) ELSE ForwardGoes(t, "done", 0)
    /\ UNCHANGED <<cache, durable, queue, tab, issued, lastSeq, opened, wiped>>

ForwardDurable(t) ==
    /\ Native /\ Forwarding(t, "reading")
    /\ durable' = IF forward[t].n > Higher(cache.seq, durable) THEN forward[t].n ELSE durable
    /\ ForwardGoes(t, "writing", forward[t].n)
    /\ UNCHANGED <<cache, queue, tab, issued, lastSeq, opened, wiped>>

ForwardCache(t) ==
    /\ Forwarding(t, "writing")
    /\ cache' = [cache EXCEPT !.seq = IF Native THEN Higher(@, forward[t].n) ELSE forward[t].n]
    /\ IF Native THEN UNCHANGED queue ELSE Requests(t, Put(forward[t].n))
    /\ ForwardGoes(t, "done", 0)
    /\ UNCHANGED <<durable, tab, issued, lastSeq, opened, wiped>>

(* A tab is closed or dies, with what it had not committed; the browser    *)
(* clears localStorage while no tab is open.                               *)
Close(t) ==
    /\ ~At(t, "closed")
    /\ Goes(t, "closed", 0)
    /\ queue' = [queue EXCEPT ![t] = <<>>]
    /\ ForwardGoes(t, "none", 0)
    /\ UNCHANGED <<cache, durable, issued, lastSeq, opened, wiped>>

Wipe ==
    /\ \A t \in Tabs : At(t, "closed")
    /\ wiped < MaxWipes
    /\ wiped' = wiped + 1
    /\ cache' = [named |-> FALSE, seq |-> 0]
    /\ UNCHANGED <<durable, queue, tab, forward, issued, lastSeq, opened>>

SeqNext ==
    \/ \E t \in Tabs : \/ Open(t) \/ RestoreSeq(t) \/ Close(t)
                       \/ AllocateLocalSeq(t) \/ Commit(t) \/ LoseWrite(t) \/ GiveOut(t) \/ NextLocalSeq(t)
                       \/ ReadWatermark(t) \/ FastForward(t) \/ ReadDurable(t) \/ ForwardDurable(t) \/ ForwardCache(t)
    \/ \E n \in 1..MaxSeq : Settled(n)
    \/ Wipe

SeqSpec == SeqInit /\ [][SeqNext]_seqVars

SeqTypeOK ==
    /\ cache \in [named : BOOLEAN, seq : 0..MaxSeq]
    /\ durable \in 0..MaxSeq /\ lastSeq \in 0..MaxSeq
    /\ issued \in [1..MaxSeq -> Nat]
    /\ tab \in [Tabs -> [at : {"closed", "restoring", "open", "allocating", "allocated"}, n : 0..MaxSeq]]
    /\ forward \in [Tabs -> [at : {"none", "asked", "reading", "writing", "done"}, n : 0..MaxSeq]]

(***************************************************************************)
(* No number is given to two sales, whichever tabs allocate at once,       *)
(* whatever dies between the transaction and the mirror, and whichever of  *)
(* the two stores a restart finds the number in: makeAsyncOrderId makes    *)
(* the document and the idempotency key of the sale from it.               *)
(***************************************************************************)
IssuedOnce == \A n \in 1..MaxSeq : issued[n] <= 1

(* A step that cuts no restore short.  A window that dies with the name    *)
(* restored and the number not leaves a terminal that seems intact and     *)
(* has the number 0, which its next start writes over the mirror.          *)
RestoreIsWhole == \A t \in Tabs : At(t, "restoring") => tab'[t].at # "closed"
=============================================================================
