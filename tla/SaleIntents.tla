----------------------------- MODULE SaleIntents -----------------------------
(***************************************************************************)
(* The sale intent journal: what a terminal knows of the sales it wrote.   *)
(* The write of a sale is never awaited; an observer follows its promise   *)
(* while the window lives, and sweeps ask the server for the rest.  No     *)
(* step here is a source of truth, and none may claim what is not so.      *)
(***************************************************************************)
EXTENDS Naturals

CONSTANTS Sales,      \* sales, each by its asyncOrderId
          NoSale,
          Lookups,    \* sweeps, which the windows of a terminal may run at once
          MaxReloads  \* bound of the exploration

ASSUME IntentAssumption == NoSale \notin Sales /\ MaxReloads \in Nat

VARIABLES
  write,     \* sale -> the write in the terminal's queue, and its promise
  onServer,  \* sales whose document the server holds
  saleIntent, \* sale -> status of its entry in the journal
  observer,  \* sale -> where the observer of its write is
  lookup,    \* sweep -> the statuses it listed, what it has to ask, what it heard
  reloads

intentVars == <<write, onServer, saleIntent, observer, lookup, reloads>>

IntentStatuses == {"queued", "flushed_to_cache", "server_acknowledged", "rejected_by_rules", "exception_observed"}
Candidates == {"queued", "flushed_to_cache", "exception_observed"}

(* The statuses settled_observed, orphaned, manual_review and superseded   *)
(* are in the matrix, and nothing writes them.                             *)
TransitionAllowed(from, to) ==
  \/ from = "queued" /\ to \in {"flushed_to_cache", "server_acknowledged", "rejected_by_rules"}
  \/ from = "flushed_to_cache" /\ to \in {"server_acknowledged", "rejected_by_rules", "exception_observed"}
  \/ from = "server_acknowledged" /\ to = "exception_observed"
TransitionStatus(o, to) ==
  saleIntent' = IF TransitionAllowed(saleIntent[o], to) THEN [saleIntent EXCEPT ![o] = to] ELSE saleIntent

NoLookup == [at |-> "idle", listed |-> [o \in Sales |-> "none"], todo |-> {}, order |-> NoSale, exists |-> FALSE]

IntentInit ==
  /\ write = [o \in Sales |-> "none"] /\ onServer = {}
  /\ saleIntent = [o \in Sales |-> "none"]
  /\ observer = [o \in Sales |-> "none"]
  /\ lookup = [k \in Lookups |-> NoLookup]
  /\ reloads = 0

-----------------------------------------------------------------------------
QueueSaleWrite(o) ==
  /\ write[o] = "none"
  /\ write' = [write EXCEPT ![o] = "queued"]
  /\ observer' = [observer EXCEPT ![o] = "enqueue"]
  /\ UNCHANGED <<onServer, saleIntent, lookup, reloads>>

(* The server's side of a queued write: it is taken, and the answer comes  *)
(* or not; it is denied; or the promise fails for some other reason.       *)
Taken(o) ==
  /\ write[o] = "queued"
  /\ onServer' = onServer \cup {o}
  /\ write' = [write EXCEPT ![o] = "taken"]
  /\ UNCHANGED <<saleIntent, observer, lookup, reloads>>
Settles(o, outcome) ==
  /\ \/ write[o] = "taken" /\ outcome \in {"resolved", "failed"}
     \/ write[o] = "queued" /\ outcome \in {"denied", "failed"}
  /\ write' = [write EXCEPT ![o] = outcome]
  /\ UNCHANGED <<onServer, saleIntent, observer, lookup, reloads>>

-----------------------------------------------------------------------------
(* The observer enqueues, marks, and only then hears of the promise.  A    *)
(* journal that is out of reach is passed over.                            *)
Observes(o, at, next) ==
  /\ observer[o] = at
  /\ observer' = [observer EXCEPT ![o] = next]
  /\ UNCHANGED <<write, onServer, lookup, reloads>>

EnqueueSaleIntent(o) ==
  /\ Observes(o, "enqueue", "flush")
  /\ saleIntent' = [saleIntent EXCEPT ![o] = "queued"] \/ UNCHANGED saleIntent
MarkFlushedToCache(o) ==
  /\ Observes(o, "flush", "listening")
  /\ TransitionStatus(o, "flushed_to_cache") \/ UNCHANGED saleIntent

StatusOf(outcome) == CASE outcome = "resolved" -> "server_acknowledged"
                       [] outcome = "denied" -> "rejected_by_rules"
                       [] outcome = "failed" -> "exception_observed"
HearOfWrite(o) ==
  /\ Observes(o, "listening", "done")
  /\ write[o] \in {"resolved", "denied", "failed"}
  /\ TransitionStatus(o, StatusOf(write[o])) \/ UNCHANGED saleIntent

-----------------------------------------------------------------------------
(* A sweep lists its candidates, asks the server for each that is stale,   *)
(* and marks what it heard.  Staleness is left open.                       *)
ListSaleIntents(k) ==
  /\ lookup[k].at = "idle"
  /\ \E stale \in SUBSET {o \in Sales : saleIntent[o] \in Candidates} :
       lookup' = [lookup EXCEPT ![k] = [NoLookup EXCEPT !.at = "listed", !.listed = saleIntent, !.todo = stale]]
  /\ UNCHANGED <<write, onServer, saleIntent, observer, reloads>>

(* mutant: the lookup is answered by the terminal's own cache.             *)
MutExists(o) == write[o] # "none"
Exists(o) == o \in onServer
LookupAsyncOrder(k) ==
  /\ lookup[k].at = "listed"
  /\ \E o \in lookup[k].todo :
       lookup' = [lookup EXCEPT ![k] = [at |-> "looked", listed |-> lookup[k].listed,
                                        todo |-> lookup[k].todo \ {o}, order |-> o, exists |-> Exists(o)]]
  /\ UNCHANGED <<write, onServer, saleIntent, observer, reloads>>

(* Missing, or out of reach: nothing is concluded.                         *)
ApplySweepDecision(k) ==
  /\ lookup[k].at = "looked"
  /\ LET o == lookup[k].order IN
       \/ lookup[k].exists /\ lookup[k].listed[o] # "exception_observed" /\ TransitionStatus(o, "server_acknowledged")
       \/ UNCHANGED saleIntent
  /\ lookup' = [lookup EXCEPT ![k] = [@ EXCEPT !.at = "listed", !.order = NoSale]]
  /\ UNCHANGED <<write, onServer, observer, reloads>>

EndLookups(k) ==
  /\ lookup[k].at = "listed" /\ lookup[k].todo = {}
  /\ lookup' = [lookup EXCEPT ![k] = NoLookup]
  /\ UNCHANGED <<write, onServer, saleIntent, observer, reloads>>

(* The window dies: queued writes are sent after the restart, their        *)
(* promises are gone.                                                      *)
Reload ==
  /\ reloads < MaxReloads /\ reloads' = reloads + 1
  /\ observer' = [o \in Sales |-> IF observer[o] = "none" THEN "none" ELSE "done"]
  /\ lookup' = [k \in Lookups |-> NoLookup]
  /\ UNCHANGED <<write, onServer, saleIntent>>

IntentNext ==
  \/ \E o \in Sales : \/ QueueSaleWrite(o) \/ Taken(o)
                      \/ \E outcome \in {"resolved", "denied", "failed"} : Settles(o, outcome)
                      \/ EnqueueSaleIntent(o) \/ MarkFlushedToCache(o) \/ HearOfWrite(o)
  \/ \E k \in Lookups : ListSaleIntents(k) \/ LookupAsyncOrder(k) \/ ApplySweepDecision(k) \/ EndLookups(k)
  \/ Reload

IntentSpec == IntentInit /\ [][IntentNext]_intentVars

IntentTypeOK ==
  /\ write \in [Sales -> {"none", "queued", "taken", "resolved", "denied", "failed"}]
  /\ onServer \subseteq Sales
  /\ saleIntent \in [Sales -> IntentStatuses \cup {"none"}]
  /\ observer \in [Sales -> {"none", "enqueue", "flush", "listening", "done"}]
  /\ lookup \in [Lookups -> [at : {"idle", "listed", "looked"}, listed : [Sales -> IntentStatuses \cup {"none"}],
                             todo : SUBSET Sales, order : Sales \cup {NoSale}, exists : BOOLEAN]]
  /\ reloads \in 0..MaxReloads

(* What the journal says of a sale is so: acknowledged, the server holds   *)
(* its document; rejected, it does not; however the answer of the write,   *)
(* the sweeps and a restart overtake each other.                           *)
JournalIsTrue ==
  \A o \in Sales : /\ saleIntent[o] = "server_acknowledged" => o \in onServer
                   /\ saleIntent[o] = "rejected_by_rules" => o \notin onServer
=============================================================================
