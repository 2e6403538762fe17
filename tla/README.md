# TwinPet POS: a TLA+ verification

TwinPet POS is a local-first point of sale. A terminal finishes a sale without
waiting for the server; everything that money and stock depend on happens later,
in Cloud Functions, in whatever order the platform delivers events, while clients
retry, administrators intervene, and managers approve voids and returns, on line
or off. The terminal keeps journals of what it has sent, so that after a crash it
can tell what may be on its way; the shift it works in is opened and closed by
several terminals that may be off line. This project models those protocols,
checks them with TLC on small instances, and proves the most important invariants
with TLAPS.

1. [The system](#1-the-system)
2. [The modules](#2-the-modules)
3. [The runs](#3-the-runs)
4. [Bounds and fairness](#4-bounds-and-fairness)
5. [The proofs](#5-the-proofs)
6. [Where the code and its comments differ](#6-where-the-code-and-its-comments-differ)
7. [What is abstracted, and what is not modelled](#7-what-is-abstracted-and-what-is-not-modelled)
8. [What could follow](#8-what-could-follow)

Paths below leave out `src/functions/src/` and `src/src/lib/`.

## 1. The system

### The sales core (server)

**Checkout** (`pos/asyncCheckout.ts`) creates `asyncOrders/{id}` with
`reconcileStatus: 'pending_reconcile'` and never waits for what follows.

**Reconcile trigger** (`reconcileOrder.ts`). A background function on every write
of `asyncOrders`. It routes on the payload of the event: a document with
`voidRequested` goes to `handleVoidIntent`, a pending one to `reconcileSale`,
anything else is ignored. `reconcileSale` is one transaction: it cuts the lots
first in first out, tolerates overselling, deducts the stock, writes movements,
charges credit, creates the canonical `orders/{id}` and marks the document
settled. If it throws, the catch merges `exception` and one more attempt into the
document, outside any transaction. The trigger is declared without retry.

**Retry** (`retryReconcile.ts`). An administrator re-arms a document in
`exception`, up to a cap.

**Void** (`voidIntent.ts`, `voidReversal.ts`). One transaction: an unsettled sale
becomes a tombstone; a settled one is reversed (lots, stock, movements, credit,
canonical order); a settled document without a voidable canonical order is marked
as an anomaly.

**Privileged void** (`submitPrivilegedVoid.ts`). A callable that consumes a
manager's one-shot approval, in a transaction that also creates the execution
record, then runs the void, reads the document again, stamps who did it and marks
the execution completed, each in a write of its own. A repeated call resumes.

**Sale return** (`submitSaleReturn.ts`, `saleReturnCore.ts`). Returns part of a
settled sale against a cumulative ledger, restores lots in place or in new lots,
refunds the rounded cumulative share. A client that does not learn the outcome has
the attempt *resolved*: it is answered with the committed return or fenced for
ever.

**Credit payments** (`customers/creditService.ts`). The customer pays the account
that credit sales charge and voids reverse.

**Manager approval** (`requestManagerApproval.ts`). A PIN is compared, slowly,
between the read of a counter of failures and the transaction that counts or
clears; the counter locks the person out.

### Offline voids (terminal and server)

A manager approves a void on a terminal that is off line. The approval becomes a
row of a durable journal (`pos/offline/privilegedEvidenceStore.ts`); sweeps claim
rows under a generation and relay them (`syncPrivilegedEvidence.ts`); the server
adjudicates (`adjudicateOfflinePrivilegedActionCore.ts`) in separate transactions:
look up, check, consume under the authority of the approver, void, confirm, record
a verdict. An older queue of void requests (`voidIntentStore.ts`) shares the
database and the target; each refuses to open a path to a void while the other
has one.

### Shifts (terminals and server)

**The shift document** (`shifts/{id}`) collects cash movements, queued by
terminals, and cash refunds, written by the return callable. **Closing**
(`pos/shiftService.ts`, `shiftCloseIntentStore.ts`, `shiftCloseReconciler.ts`) has
four ways: online in a transaction; offline as a journaled record and a queued
write; by the callable `closeShiftAuthoritative`; and deferred to that callable
when it was made off line. Records are confirmed or rejected by sweeps, attempts
that lost their answer are proved or superseded. **Opening**
(`shiftOpenIntentStore.ts`, `shiftOpenReconciler.ts`) journals an intent, claims
its one create, queues it, and learns later what became of it. **Validation**
(`shiftCloseValidationWorker*.ts`, capture, source events, alerts): each closed
shift is a case; changes to its sales, cash and credit documents are routed to it,
and a worker with a lease takes a snapshot, digests it and selects a run, opens an
alert, or defers; a manager adjudicates alerts.

### Stock (terminals and server)

Every branch keeps the stock of a product twice, a counter and lots. Goods
received (`receiving/`, `receivingHistory/`), transfers, their discrepancies and
adjustments (`inventory/`, `resolveTransferDiscrepancy.ts`) write both. A
document is reversed by a callable (`resolveReversal.ts`) with a ledger of keys;
a terminal that is off line queues the request (`offlineReversalQueue.ts`), claims
it with a token, and puts a refusal before a manager.

### The terminal's own state

**Sequence numbers** (`pos/deviceId.ts`) live in localStorage and in IndexedDB (or
the native store); receipt numbers and the ids of sales are made of them.
**Evidence of submitted sales** (`trustedSaleSubmissionOrchestrator.ts`): before a
checkout submits, it takes a fence on the cart's generation and writes an entry;
after a crash a sweep either finds the entry or seals its absence, and only then
releases the fence. **The sale intent journal** (`saleIntentJournal*.ts`,
`saleIntentObserver.ts`, `saleIntentSweep*.ts`) records what is known of each
sale's write. **The native store** (`src-tauri`) starts through gates over what
the disk holds, writes an epoch floor, and the window chooses between the native
store and the IndexedDB it was migrated from (`platform/durableStore`).

### What they share

| State | Document | Written by |
|---|---|---|
| `order` | `asyncOrders/{id}` | checkout, trigger, retry, void, privileged void |
| `canonical` | `orders/{id}` | settle, void |
| `cut`, `oversold` | `lines[].lotRefs` of the sale | settle |
| `received`, `remaining`, `depleted` / `lots` | `stockLots` | settle, void, return / inventory |
| `stock` / `counter` | `productStocks.totalStockBase` | settle, void, return / inventory |
| `moves` | `stockMovements` | settle, void, return |
| `ledger` (return), `attempt` | `saleReturnLedgers`, `saleReturns`, `saleReturnAttemptResolutions` | return |
| `creditUsed`, `outstandingBalance` | `creditAccounts`, `customers` | settle, void, payment |
| `nonce` | `privilegedActionNonces` | privileged void |
| `sale`, `record` | `asyncOrders`, `privilegedAdjudications` | adjudication and everything else that voids |
| `row`, `generation`, `intent` | the terminal's evidence database | ingest, sweeps, drains |
| `shift`, `authored` | `shifts/{id}`, the authority record | cash, refunds, closes, sync mark |
| `entry`, `attempt`, `queued` | the terminal's close journal | close calls, sweeps |
| `caseDoc`, `alertDoc`, `runs` | `shiftCloseCases`, `-Alerts`, `-ValidationRuns` | capture, router, worker, manager |
| `reversal`, `ledger` (reversal) | the terminal's queue, `reversalIntents` | terminals, callable |
| `published`, `undelivered` | events of the platform | every write of a watched document |

### What makes it hard

* The trigger is delivered at least once, in any order, with the document as it
  was when the write happened, which may be older than what the transaction reads.
  The exception patch is a blind merge after a failed transaction. An invocation
  that dies leaves a pending sale with no event.
* The privileged void, the adjudication and the validation are chains of writes
  with awaits between; clients retry them while they still run, leases expire under
  them, and they may die between any two steps.
* Void and return exclude each other although they lock different documents.
* Refunds round, lots run out and fill up; quoted refunds, listed lots and
  displayed balances may be out of date when they are used.
* A cash refund is in flight while the cashier closes; two terminals close one
  shift; answers are lost; requests are executed late, after newer ones.
* Screens read totals, wait for a person, and write totals.
* Windows of one terminal share IndexedDB and localStorage and do not know of each
  other; each may be killed between any two requests.

### What makes each part correct

Settling, voiding, returning: `StockAccounted`, `LotsSound`, `EffectsOnce`,
`ImplementsSaleEffect`, `CreditAccounted`, `RefundExact`, `ReturnExcludesVoid`.
Trigger and retry: `PendingIsCarried`, `PendingResolved`. Privileged void:
`OwnedVoid`, `WinnerKept`, `DeductedVoidIsMarked`, `StampedVoidLands`. The FIFO cut:
`CutsGreedily`, `SaleIsOneCut`. Approval: `ResetSparesLock`. Offline voids:
`OneAuthority`, `ConsumedUnderAuthority`, `AcceptedIsOwned`, `OneVerdict`,
`RowIsTheVerdict`, `RowIsFinal`. Closing: `DrawerComplete`,
`TerminalTellsTheClose`, `CloseIsFinal`, `CommittedCloseSettles`,
`PendingCloseSettles`. Opening: `OpenVerdictIsTrue`. Validation:
`SourcesAccounted`. Stock: `DocumentedOrClobbered`, `AnswersAreTrue`,
`SettledIsFinal`. Terminal: `IssuedOnce`, `AbsenceIsSound`, `ReleaseIsProven`,
`JournalIsTrue`, `MigrationIsFinal`. Section 3 says what each of them means.

### The rest of the repository

Every component is listed in PROJECT.json. Not modelled, with the reasons in
section 7: the orphan sweeper, the authority fence, accounts and the role sweep,
device enrolment and issuers, staff sessions, the sync orchestrator, the local
ledger, the tool that clears test data, the native lockout and verifier, the
issuance console, and the pages.

## 2. The modules

### The sales core

| Module | Models | State and actions |
|---|---|---|
| `Fifo` | what a FIFO cut is | operators `Greedy`, `FifoPlan` |
| `FifoCut` | phases 2 and 3 of `reconcileSale`, `planFifoCutFromState`, `mergeLotCuts` | the two loops and the lot writes, one action per turn |
| `OrderStore` | the shared documents, and publication of events | variables, `StoreInit`, `Publish` |
| `VoidIntent` | `handleVoidIntent` | `VoidOutcome` (the early returns in the code's order) and `VoidTombstone`, `VoidAnomaly`, `VoidApply` |
| `ReconcileTrigger` | checkout, trigger, exception patch, retry, client void flag, payments | one action per way an invocation can end |
| `PrivilegedVoid` | `performSubmitPrivilegedVoid` | `call[c].pc` walks the code from await to await |
| `SaleReturn` | `getSaleReturnContext`, `performSubmitSaleReturn` | `QuoteReturn`, `CommitReturn`, `ResolveAttempt` |
| `SaleEffect` | abstract: what the server promises of one sale | `Sell`, `Cancel`, `Reverse`, `Return` |
| `SaleSettlement` | the composition, fairness, properties, refinement mapping | `Next` is the disjunction of the three components |
| `ManagerApproval` | `requestManagerApproval` | `Observe` reads the counter, `CountFailure` and `Approve` are the transactions |

`VoidIntent` extends `OrderStore`; `ReconcileTrigger` and `PrivilegedVoid` both
extend `VoidIntent`, because both run `handleVoidIntent`: the trigger with no
execution (`NoExec`), the callable with its own. `SaleReturn` extends
`OrderStore`. `SaleSettlement` extends all three.

### Offline voids

| Module | Models | State and actions |
|---|---|---|
| `OfflineAdjudication` | the server's relay | `relay[r].pc` from `Dispatch` over `Preflight`, `Consume`, `Execute`, `Confirm` to `Settle`; events of the server that change the sale, its day and the authority |
| `PrivilegedEvidence` | the journal and its sweeps | `Ingest`, `Allocate` of a generation, `Claim`, `Hear`, `Apply` under the fence `Holds` |
| `VoidIntentQueue` | the older queue | `Enqueue`, `ClaimIntent` with a lease, `Evaluate`, `Mark` without a token |
| `OfflineVoid` | the composition and restarts | `OfflineVoidNext` |

### Shifts

| Module | Models | State and actions |
|---|---|---|
| `ShiftDoc` | the document, queued cash movements, refunds in flight, the sealed rules | `RecordCash`, `FlushCash`, `SendRefund`, `CommitRefund`, ... |
| `CloseJournal` | the IndexedDB records of a close: entry, online attempt, queued write | one operator per store transaction, with its guard (`Upsertable`, `Finalizable`, ...) |
| `ShiftClose` | `closeShift` and `reconcileShiftClose` | calls and workers that walk from await to await |
| `AuthoritativeClose` | the callable, its client and the replay of deferred closes | `Execute` (a request may be executed late and again), `BindAndCall`, `FinalizeAuthoritative`, `SweepAttempt`, `ReplayDeferred` |
| `Shifts` | the composition, fairness, properties | |
| `ShiftOpens` | opening, its queue, reconciler and sweep | `OpenShift` to `ReconcileShiftOpenIntent`; creates in the queue; `ReissueClaim`, `ReissueShiftOpenWrite` |
| `CloseValidation` | capture, router, worker and adjudication | `Capture`, `Route`, `AcquireLease` (T1), `ReadSnapshot`, `SelectRun` (T2, T3), the failure categories, `RecoverLease` (Q7), `Adjudicate` |

### Stock

| Module | Models | State and actions |
|---|---|---|
| `StockBook` | counter and lots of every branch, the FIFO take of the screens | operators on lots |
| `Receivings` | draft, confirm, update and cancel of goods received | a `desk` reads, then writes a batch; `Outdated` marks a batch over something it had not read |
| `Transfers` | transfers, discrepancies, adjustments | a clerk lists lots, then a transaction reads them again |
| `Reversals` | `resolveReversal` and the terminal's queue | guards in the code's order; attempts with tokens, lost and late answers |
| `Inventory` | the composition with sales, properties | |

### The terminal

| Module | Models | State and actions |
|---|---|---|
| `DeviceSeq` | allocation, mirror, restart, wipe, native merge, fast-forward | one action per request, commit or continuation of a tab |
| `SaleSubmission` | generation, fence, entry, seal, release; the gate and owner of a window | `job[w]` is the call that holds the gate; `SettleBound` is the two-second bound |
| `SaleIntents` | the journal of sales, its observer and sweeps | `TransitionAllowed` is the matrix; a sweep lists, asks, applies |
| `DurableBoot` | the start of the native process and of the window | gates, floor, manifest, `Cutover`, files lost while off |

`MCSaleSettlement`, `MCShifts`, `MCOfflineVoid` and `MCComponents` are the
instances for TLC. The proofs are in `SaleSettlementProofs`, `ShiftsProofs`,
`InventoryProofs`, `SaleSubmissionProofs` and `DeviceSeqProofs`, each about the module
of its name; in `ComponentProofs`, about the components `MCComponents` extends (the cut,
the validation, offline voids, the approval, openings, the sale journal, the start); in
`SumLemmas`, which says what the sums over sales, lots and documents are; and in
`MCComponentsProofs`, which takes the theorems about the components to the composition
that TLC checks.

### How code becomes actions

A Firestore or IndexedDB transaction is one step: the platform serialises them and
retries a body whose reads changed. Everything between two awaits that is not in a
transaction is a step of its own, and what a step has read is kept in the record
of the call (`call`, `relay`, `worker`, `desk`, `plan`, `job`, `lookup`), so that
it can be stale when it is used. A transaction can always fail (`SettleThrows`,
`Fail`, `Abort`, `CreateFails`); a call can always die or never hear its answer
(`CrashCall`, `CrashBeforePatch`, `Lose`, `GiveUp`, `Crash`, `Restart`,
`LeaseLapses`).

Local writes of the Firestore SDK are queued: a `setDoc` shows in the cache at once
and reaches the server later, or is refused (`FlushCash`, `FlushClose`,
`AnswerCreate`, `Settles`). The promise of such a write is lost with the window;
the write is not.

Operators named `Mut...` are plausible bugs of the operator that follows them. No
specification uses them; for each property PROJECT.json names one that breaks it.

**The abstract specification.** `SaleEffect` knows, for each sale, only `none`,
`sold`, `cancelled` or `reversed`, the stock, and what was returned and refunded.
`Effect(o)` reads that off the documents: the canonical order decides, and a voided
document without one is `cancelled`. The refinement says that a cancelled sale
never settles, that a reversed one is never deducted again and a returned one never
reversed, and that every return refunds up to the rounded cumulative share.

## 3. The runs

Counts are distinct states.

| Run | States | Instance |
|---|---|---|
| `Stock` | 1,375,335 | a credit sale and a cash sale of two units each over lots of two and one, documents flagged by their clients, the cash sale returned unit by unit into an edited lot, a restocked one or a new one, a payment of the whole account, duplicate deliveries, invocations that die, retries |
| `Returns` | 1,667,509 | a sale of three units for five satang in lots of one and two, four attempts (three of one unit, of which the second replaces the first if fenced, and one of two), two executions with three invocations that may die, an edited lot |
| `Liveness` | 9,435 | `FairSpec`, two sales, each event delivered once, no invocation of the trigger dies, privileged voids and retries |
| `Shifts` | 805,904 | two terminals, one that closes by itself and one that leaves it to the server, two calls on each, two sweeps, a cash refund in flight |
| `ShiftsSettle` | 48,734 | `FairSpec`, the same terminals with one call each, a queued cash movement, a restart |
| `Components` | 1,860,052 | twenty-one scenarios of components that share nothing with the settlement nor with one another (below) |

What each property says, and what it takes to break it:

**`Stock`.** *`StockAccounted`*: the branch stock is what the movements say and
what the lots hold, less what was sold without a lot. *`LotsSound`*: a lot has room
for every unit that may still come back to it, and only empty lots are marked
depleted. *`EffectsOnce`*: a sale is deducted once and put back once, by a void or
by returns. *`ImplementsSaleEffect`*: the server refines `SaleEffect`. The run covers
settling after a void, voiding while settling, re-arming a document that settled in
the meantime, an oversold sale that is voided after another one sold the
restocked lot, and a return that commits before, between or after the flag of a client
and the invocations it leads to. `TypeOK` also shows that no lot is ever cut below
zero, which the comment at `reconcileOrder.ts:412` allows for. *`CreditAccounted`*: the
balance is the standing credit sales less the payments, and `creditUsed` never understates it. One sale is on credit and one is not,
because a credit sale is not returned (`saleReturnCore.ts:452`).

**`Returns`.** *`RefundExact`*: the refunds of a sale are those of its committed
attempts, each paid once, and add up to the rounded share of what came back.
*`ReturnExcludesVoid`*, *`OwnedVoid`* (an execution recorded as having voided its
sale is the one the order names) and *`WinnerKept`* (it is never replaced).
*`DeductedVoidIsMarked`*: a sale that an execution voided and whose units are still out
had a failed attempt before, and is not marked as reversed. That is as far as a void can
be trusted under deliveries that repeat: without a failure it reverses the sale or finds it
unsettled; with one, see `TombstonedSale` in section 6. Quotes
are stale, an attempt is fenced while its commit is still possible, a void consumes
its approval between quote and commit. Three units for five satang make rounding
bite: each unit alone is worth two satang when rounded, two together three, all of
them five.

**`Liveness`.** *`PendingResolved`*: a pending sale is settled, voided or marked
failed. *`StampedVoidLands`*: a void that consumed its approval on a settled sale is
carried through. *`PendingIsCarried`*: no pending sale is ever waiting on no one.
All three hold only where no invocation dies: with a death a pending sale really is
forgotten.

**`Shifts`.** *`DrawerComplete`*: every refund made on the terminal that closed the
shift is in the figures of the close, and a close made online has the refunds of
every terminal. *`TerminalTellsTheClose`*: what a terminal shows as the Z report, and
what it records as synced, observed or superseded, is the close the server holds, to
the figure. *`CloseIsFinal`*: once closed, a shift keeps its close and its drawer.
The interesting cases are a close whose answer was lost and that is proved by its
correlation; two terminals that close at once, one with another count; a request
executed late, after its terminal gave up; a record deferred to the server.

**`ShiftsSettle`.** *`CommittedCloseSettles`*: a close that committed ends as a synced
record on the terminal that made it. *`PendingCloseSettles`*: no record of a close
stays pending, except where its queued write met the sealed rules and nobody else
closes.

**`Components`.** The state has a `focus`, chosen at first; the other components
rest. The scenarios:

| Focus | States | Scenario and properties |
|---|---|---|
| `cut` | 1,848 | three lots and two lines, every quantity from one to three. *`CutsGreedily`*: oldest lot first, oversold only when every lot is empty. *`SaleIsOneCut`*: the lines are cut as one line of all their units, which is why `ReconcileTrigger` cuts a sale at once |
| `case` | 454k | one closed shift, two changes of which one deletes its document, two hashes whose evidence is captured before, between or after the changes, two invocations, a redelivery, a manager. *`SourcesAccounted`*: every change is in the snapshot of the selected run, or the case is pending, or its event is still to come |
| `approval` | 6k | two overlapping requests, a threshold of two, a clock. *`ResetSparesLock`*: a right PIN never lifts a lock in force |
| `goods` | 171k | a receipt drafted, confirmed, edited, cancelled and reversed at one branch that sells and counts |
| `moves` | 6k | a transfer of a unit in a lot and of one in none between two branches, its cancellation, discrepancy and reversal |
| `counts` | 98k | the same while both branches are counted up and down |
| `retries` | 41k | two terminals that reverse one receipt, two attempts each, late and lost answers. For the four: *`DocumentedOrClobbered`*: the counter of every branch is what its documents say, unless a screen wrote totals over something it had not read; *`AnswersAreTrue`*: a terminal told yes has had its own reversal carried out, and no manager is asked about one that went through; *`SettledIsFinal`*: a late answer undoes nothing |
| `relayed` | 391k | an approval of one sale, two relays, two sweeps with two generations, returns, voids elsewhere, the end of the day, withdrawal of the authority |
| `fence` | 13k | two approvals and the older queue, one drain with a lease that runs out. For the two: *`OneVerdict`*: every relay gives the same final answer, *`AcceptedIsOwned`*: an accepted record names a sale its own execution voided, *`ConsumedUnderAuthority`*: no approval is consumed after its authority was withdrawn, *`RowIsTheVerdict`*: a decided row shows the durable verdict, *`RowIsFinal`*: and stays, *`OneAuthority`*: a target never has two live paths to a void |
| `oneTab`, `lossyTab`, `twoTabs`, `nativeTabs` | 9k, 13k, 22k, 203k | one window restarted and wiped, whose restores are not cut short; one whose IndexedDB loses writes; two that stay open; two over the native store. The answer of the server is compared, read against and written step by step while the windows sell. *`IssuedOnce`*: no number is given to two sales |
| `oneTill`, `twoTills`, `twoBranches` | 67k, 41k, 67k | a window that sells twice for one branch or for two, two windows; sweeps, a crash, an aborted transaction. *`AbsenceIsSound`*: with one window, a checkout that was told ok has its entry, and no sale has both an entry and a seal; *`ReleaseIsProven`*: a fence is released with proof for its own sale |
| `twoSales`, `twoLookups` | 133k, 6k | two sales and a sweep, one sale and two sweeps, a restart. *`JournalIsTrue`*: acknowledged, the server has it; rejected, it has not |
| `oneScreen`, `twoScreens` | 108k, 9k | one window that draws two shifts, two that open one; lost and denied creates, a restart, a deferred close. *`OpenVerdictIsTrue`*: synced, the server has the shift; rejected, it has not |
| `boot` | 175 | four starts from a new, a migrated and a half-migrated disk, files lost while off. *`MigrationIsFinal`*: a terminal that worked on the native store never returns to IndexedDB |

Six more runs (`TombstonedSale`, `CaseAlert`, `ClobberedStock`, `DuplicateSeq`,
`FreshInstall`, `TwoAuthorities`) end in a counterexample on purpose; see section 6.
`OneAuthority` and `IssuedOnce` are properties of both kinds of run: the passing
scenarios show under what circumstances they hold (one drain; one window, or windows
that open before any sale, or windows over the native store), the others what breaks
them. The proofs of section 5 have the same circumstances as their assumptions.

Deadlock is not checked (`CHECK_DEADLOCK FALSE`): when every sale is settled or
voided, every shift closed and every call has answered, nothing obliges anyone to
act.

## 4. Bounds and fairness

| Bound | Where | Why it is enough |
|---|---|---|
| `Orders`, `Sales`, `Shifts` of one or two | all | sales meet only in lots, stock and account; shifts in one window; the proofs do not bound them |
| `Calls`, `Execs` | privileged void | two executions race and one of them has two invocations |
| `NLots`, `MaxLots` | lots and free slots for new ones | as many as returns, cancellations and transfers can open |
| `AttemptBound`, `RetryCap` = 2 | `SettleThrows`, retry | the code's cap is 3; every decision compares only with the cap |
| `EditedLots`, `Attempts` | `Stock`, `Returns` | of the lots a return goes back to, one is edited and one is not |
| `MaxPaid`, `Payments` | `Stock` | enough to pay off the credit sale before it is voided |
| `OneRetry` | `Shifts` (a state constraint) | the cashier tries again on one of the two terminals; which is left open |
| `MaxRestarts` | terminals of `Shifts` | none in the safety run, whose lost answers already leave every record behind; one in `ShiftsSettle` |
| `Threshold`, `Window`, `MaxClock`, `MaxFailures` | approval | the lock is reached, runs out and is reached again |
| `MaxRedelivery`, `MaxRevalidation` | validation | one event twice; the retry limit is reached |
| `MaxSold`, `MaxAdjusted`, `MaxEdits` | `Inventory` | each kind of write can come between any read and write of another |
| `MaxSweeps`, `Ceiling`, `MaxAttempts` | evidence, queues, submission | two generations; a failure ceiling that is reached |
| `MaxSeq`, `MaxOpenings`, `MaxWipes` | `DeviceSeq` | a sale before and after each restart; `oneTab` opens four times and is wiped twice, so that a restored number is wiped and restored again |
| `RestoreIsWhole` | `oneTab` | no window dies between the two steps of a restore (section 6 tells what happens then) |
| `MaxCrashes`, `MaxAborts`, `MaxReloads`, `MaxReopens`, `MaxStarts` | terminal | each step can be the one that is cut short, and what follows is explored |
| `Relaying`, `Fencing`, `Opening`, `Looking` | `MCComponents` | the scenarios of a component divide its actors: each actor, and each pair that shares state, works in one of them |

The constants' assumptions are evaluated by TLC. No symmetry set is declared: sales,
calls and attempts have different parameters. Where two actors are alike (the
invocations of `case`, the relays and sweeps of `relayed`), `Invoking` and `Relaying`
let the first named start first.

**Fairness.** `SaleSettlement!FairSpec` has weak fairness of: taking a settle event
(which may end in settling, in nothing or in a throw), taking a void event, the
exception patch of an invocation that threw, and each next step of a privileged call
that has started. The platform delivers every event, and code that runs goes on.
`Shifts!FairSpec` has weak fairness of sending queued writes (`FlushCash`,
`FlushClose`), of the sweeps (`SweepAttempt`, `Reconcile`, `ReplayDeferred`), which
run at boot, on reconnect and from the sync orchestrator, and strong fairness of a
replayed request being answered: a sweep that is retried for ever on a connection
that is not down for ever gets through once. There is none for clients,
administrators, cashiers or resumes: nobody has to retry, resume, pay or close.
`Liveness` is run without duplicates and deaths, because the repository says itself
that nothing takes up a sale whose invocation died (the TODO at
`reconcileOrder.ts:618`).

## 5. The proofs

All hold for every value of the constants: any number of sales, executions, calls,
attempts, lots, relays, sweeps, windows, shifts, documents and any quantities. The
assumptions on the constants are stated where these are declared, and TLC evaluates
each. They give the constants their types; those that say more are:

* `Orders`, `Attempts`, `Receipts`, `Transfers` and `Discrepancies` are finite, so that
  a sum over them is a sum.
* `Nobody`, `None` and the like are none of the things they stand apart from.
* `InventoryAssumption` has `From # To` when there are transfers: `transferCrud.ts:110`
  refuses a transfer of a branch to itself.
* `ApprovalAssumption` has `MaxClock` positive: the clock starts at one.

| Theorem | Statement | Argument |
|---|---|---|
| **The sale** | | `Spec` of `SaleSettlement` |
| `TypeCorrect` | `Spec => []TypeOK` | one lemma per component; an order is updated field by field, so each update is of type `OrderDoc` |
| `EffectsHappenOnce` | `Spec => []EffectsOnce` | `EffectInv`: movements agree with the canonical order, and the ledger with the movements |
| `WinnerIsKept` | `Spec => WinnerKept` | `DocInv`: an order that names an execution is voided, and no write names another on a voided order |
| `Implements` | `Spec => ImplementsSaleEffect` | `EffectInv` and `DocInv` give the guards; `StepKinds` splits every step into six kinds, four of them steps of `SaleEffect` and two stutters |
| `VoidIsOwned` | `Spec => []OwnedVoid` | `OwnInv` carries the claim through the program counter: a call at `attribute` or `mark` with a winning outcome has a matching order |
| `ReturnsExcludeVoids` | `LegacyVoids = {}` gives `Spec => []ReturnExcludesVoid` | `RetInv`: a sale with a ledger bears no trace of a void, and no execution can put one there past the ledger |
| `PendingStaysCarried` | `HandlerCrash = FALSE` gives `Spec => []PendingIsCarried` | every write that leaves a document pending publishes an event |
| `VoidsReverse` | `Spec => []DeductedVoidIsMarked` | `MarkInv`: a void over a standing canonical order leaves a counted failure and no mark of a reversal; every write keeps it, whichever event or call makes it |
| `StockBalances` | `Spec => []StockAccounted` | `StockInv`: a cut takes what was sold, from lots or from none (`CutWhole`); each step moves one sale's summand and the stock by the same |
| `LotsKeepRoom` | `Spec => []LotsSound` | `LotsInv`: no unit has come back to a lot from a sale that is not settled (`Untouched`); what comes back was out |
| `AccountBalances` | `Spec => []CreditAccounted` | inductive with `TypeOK`: the clamp of `creditUsed` only ever raises it |
| `RefundsAddUp` | `Spec => []RefundExact` | `RefundInv`: an attempt's quote is a difference of two rounded shares, of which the lower one is the ledger's when it commits; a replaced attempt is fenced |
| **The cut** | | `Spec` of `FifoCut` |
| `SaleCutsGreedily` | `Spec => []CutsGreedily` | `CutInv`: before lot `lot`, the walk of the current line has left nothing behind |
| `CutTyped` | `Spec => []TypeOK` | `CutInv` and `AddInv`: what is merged is a number |
| `SaleIsCutOnce` | `Spec => []SaleIsOneCut` | `AddInv`: what is taken adds up by lot, by line and in all; two cuts that take oldest lots first and agree in all agree in each lot |
| **Shifts** | | `Spec` of `Shifts` |
| `ShiftsTyped` | `Spec => []TypeOK` | `TInv`: the shape a call, an entry, an attempt and a worker have at each program counter |
| `CloseStaysFinal` | `Spec => CloseIsFinal` | every write of a close has the open shift for its guard |
| `TerminalsTellTheClose` | `Spec => []TerminalTellsTheClose` | `TellsInv`: a call or a worker on its way to a record carries what the server holds |
| `DrawersAreComplete` | `Spec => []DrawerComplete` | `DrawerInv`: while the shift is open, what a terminal has seen, queued or journaled holds every refund of its own, and a refund that is not there yet is behind the guard |
| **The validation of closes** | | `ValidationSpec` of `CloseValidation` |
| `CaseTyped` | `ValidationSpec => []CaseTypeOK` | `SourceInv` |
| `SourcesStayAccounted` | `ValidationSpec => []SourcesAccounted` | `SourceInv`: an invocation that has read accounts for every change, in its snapshot or by an event not consumed when it read; the watermark never passes a change nobody accounts for |
| **Stock** | | `InvSpec` of `Inventory` |
| `StockIsDocumented` | `InvSpec => []DocumentedOrClobbered` | `BookInv`: what a screen has read, unless it is outdated, is what the branch and the receipt hold (`DesksSound`); what a clerk has listed is of a document that can still be (`PlansSound`) |
| `InventoryTyped` | `InvSpec => []InvTypeOK` | `TypeInv`: a lot is where its number says (`1..n` for some `n`), and what refers to a lot refers to one that is there; the details of a transfer are the cut of its quantity and whatever was in no lot |
| `AcceptedWasReversed` | `InvSpec => []AcceptedIsReversed` | `AnswerInv`: a request is confirmed only when the ledger names its terminal, and the ledger is written once |
| `NoManagerForApplied` | `InvSpec => []ManualIsNotApplied` | `RefusalInv`: a refusal stands (below) |
| `AnswersAreKept` | `InvSpec => []AnswersAreTrue` | the two before |
| `SettledStays` | `InvSpec => [][StaysSettled]_invVars` | `QueueStep`: every write to a queue has an unsettled entry for its guard |
| **Offline voids** | | `OfflineVoidSpec` of `OfflineVoid` |
| `OfflineVoidTyped`, `EveryRelayOneVerdict`, `AcceptanceIsOwned`, `JournalShowsTheVerdict` | `OfflineVoidSpec => []...` | `OfflineVoidInv`: what a relay carries at each program counter agrees with the record, an accepted record with the order, and what a sweep heard with the record; a record is written once |
| `DecidedRowsStay`, `ConsumptionIsAuthorized` | `OfflineVoidSpec => RowIsFinal`, `=> ConsumedUnderAuthority` | the same invariant: a sweep applies only to a row it still holds, and a held row is open |
| `OneAuthorityEach` | one drain gives `OfflineVoidSpec => []OneAuthority` | `FenceInv`: one open row a target, none beside an active intent, and the intent a drain works on is active |
| **The terminal and the approval** | | the specification of each module |
| `ApprovalTyped`, `ResetSparesEveryLock` | `ApprovalSpec => []ApprovalTypeOK`, `ApprovalSpec => ResetSparesLock` | a counter that is reset is the one the call observed, which was not locked; time only goes on |
| `IntentTyped`, `OpensTyped`, `BootTyped`, `SubmissionTyped`, `SeqStaysTyped` | the type invariant of each | a part of the invariant of the theorem below, but `SeqTyped`, which the three theorems about numbers share |
| `JournalSound` | `IntentSpec => []JournalIsTrue` | `IntentInv`: a write that was taken is on the server and one that was denied is not; what a sweep heard stays so while it is on its way to the journal; a rejected entry's write was denied |
| `OpenVerdictSound` | `OpensSpec => []OpenVerdictIsTrue` | `OpensInv`: a shift has one create ever (`OneHolder`): in the hands of the call or the window that claimed it, or in the queue; when it is gone (`Spent`) no second one can follow, so a denial is a denial of the only create |
| `MigrationSound` | `BootSpec => MigrationIsFinal` | `BootInv`: a native process that is up has written its floor and has passed the gates, so the window finds prior state and never reaches the cutover nor IndexedDB |
| `ReleaseProven` | `SubmissionSpec => []ReleaseIsProven` | `ReleaseInv`: what a job carries at each step and what a cycle has found are of the sale whose fence they will release |
| `AbsenceSound` | `SubmissionSpec => []AbsenceIsSound`, whose premise is one window | the gate has one holder, so no entry is on its way while a cycle reads and seals |
| `NumbersOnlyGrow` | `~Degraded`, and the native store or `MaxOpenings = 0`, give `SeqSpec => []IssuedOnce` | `GrowInv`: the durable number only grows, covers all that was issued, and what a window holds is fresh |
| `NumbersAreRestored` | one window on IndexedDB that is not `Degraded`: `SeqSpec /\ [][RestoreIsWhole]_seqVars => []IssuedOnce` | `WholeInv`: the mirror, or a write on its way to it, covers all that was issued; so does localStorage unless it is wiped or being restored |
| `NumbersAreKept` | one window on IndexedDB, `MaxWipes = 0`: `SeqSpec => []IssuedOnce` | `KeptInv`: localStorage covers all that was issued, whatever IndexedDB has lost |

Few of the properties are inductive by themselves. `EffectsOnce` alone does not exclude a
state in which a sale is `completed`, has a ledger and is about to be voided with the
ledger ignored; it needs that movements, ledger and canonical order agree.
`OwnedVoid` speaks of the recorded outcome, but what makes it true happened three
steps earlier in the call, so `OwnInv` states it at every program counter between.
`OpenVerdictIsTrue` is about two statuses of one entry; it fails only when a second
create is sent after the first was taken and the second is denied, so its invariant
is about who holds the one claim, in windows and calls that do not know of each
other. `JournalIsTrue` looks immediate until a restart forgets the observer and a
sweep that asked before it applies afterwards. `DrawerComplete` is about closed shifts
only, and everything that makes it true is about open ones. `DocumentedOrClobbered` says
nothing of a clerk in the middle of a screen, who will write totals computed now.

**Sums.** `StockAccounted`, `LotsSound`, `CreditAccounted`, `RefundExact`,
`SaleIsOneCut` and `DocumentedOrClobbered` are about sums over sales, lots, lines or
documents, `SumFunctionOnSet` of the community modules, a fold. `SumLemmas` proves what a
fold of `+` over a finite set is without an induction rule: `SubsetInduction` takes, among
the subsets for which a claim fails, a minimal one by well-foundedness of inclusion
(`WFMin`), which is not empty and fails without one of its elements either. From that follow
the recursion, and that a sum changes by what one summand changes by (`SumUpdate`), adds up
(`SumAdd`) and depends on what is not zero only (`SumSupport`).

**The conditional theorems** state what the run of the same property assumes. If a
client may flag documents itself, a returned sale can be flagged `voided` on its
document (the reversal still refuses it). If an invocation may die, a pending sale may
be left with nobody. With two drains, or with a window that opens
after another has sold, section 6 shows what goes wrong.

**A refusal stands.** `ManualIsNotApplied` says that a reversal which reached a manager was
not carried out for the same terminal, unless stock has come in or a screen wrote over
what it had not read. A terminal whose answer was lost asks again; the question is whether
the server can refuse it the first time and carry it out the second, from a request that is
still under way. So the invariant is about the future: `RefusalStands` says of every document
that a terminal has been refused that it would be refused again, or that the ledger names
another terminal. A document that is cancelled never comes back (`Firm`); a branch that has
too little has too little until its counter grows, which sets `restocked`; a lot that was
drawn on stays so (`LotsFall`), and an edit of a receipt, which changes lot, counter and
quantity alike, leaves what they lack (`Edits`), unless it was made over something unread,
which sets `clobbered`. When the server does carry a reversal out, it is for a terminal it
admits, so not for one whose refusal stands (`LedgerMoves`). TLC checked `RefusalInv` on the
four inventories of `Components` (315,013 states) before it was proved.

**From the components to the composition.** `MCComponents` extends some components and
instantiates others several times; its properties are conjunctions over the focus. A
behaviour of `ComponentsSpec` keeps its focus (`FocusStays`), and one whose focus is on a
component is a behaviour of that component (`GoodsRuns`, `OneTabRuns`, ...): for `oneTab` one
that also has `RestoreIsWhole`, which is the premise of `NumbersAreRestored`. The instances
are of the proof modules, so that their theorems hold of each instance, given the
assumptions, which `ComponentsAssumption` lists and TLC evaluates.

| Theorem | Statement | From |
|---|---|---|
| `ComponentsStayTyped` | `ComponentsSpec => []ComponentsTypeOK` | the type theorem of every component |
| `StocksDocumented`, `AnswersStayTrue`, `SettledStaysFinal` | `ComponentsSpec => []DocumentedOrClobbered`, `[]AnswersAreTrue`, `SettledIsFinal` | `StockIsDocumented`, `AnswersAreKept`, `SettledStays`, four times each |
| `NumbersIssuedOnce` | `ComponentsSpec => []IssuedOnce` | `NumbersAreRestored`, `NumbersAreKept`, `NumbersOnlyGrow` twice |
| `FencesReleasedWithProof`, `AbsencesSealedSoundly` | `ComponentsSpec => []ReleaseIsProven`, `[]AbsenceIsSound` | `ReleaseProven`, `AbsenceSound` |

In these the constants that `MCComponents` itself fixes are those of its instances; what
holds for any constants are the theorems they come from.

**Model-checked only.** Every invariant and every action property of the passing runs is
proved. What stays with TLC is liveness (`PendingResolved`, `StampedVoidLands`,
`CommittedCloseSettles`, `PendingCloseSettles`) and what its fairness rests on: TLAPS does not
prove `ENABLED`.

## 6. Where the code and its comments differ

Each of these has a run that finds the shortest counterexample.

* `TombstonedSale` (`VoidedMeansReversed`): `retryReconcile.ts:11-12` says an
  `exception` means that nothing was committed. The catch of `reconcileOnWrite` patches
  without reading: an event is delivered twice, one invocation settles the sale, the other
  fails and patches. An administrator re-arms the document. The existing canonical order
  makes every further attempt to settle it fail, so nothing is deducted twice; but a void
  by a manager finds it pending (`voidIntent.ts:219`) and writes a tombstone without
  looking for the canonical order. Stock, movements, account and order stay those of a
  completed sale under a voided document, and no later void reverses it. `types.ts:539-540`
  says that a pending order is cancelled before it settles, and `sweeper.ts:99` that
  tombstones legitimately have no canonical order. `DeductedVoidIsMarked` says what still
  holds.
* `CaseAlert` (`CaseAndAlertAgree`): when the retries of a case are used up,
  `buildCategoryAOutcome` opens the alert and leaves the case's own copy of the alert
  state behind. From then on every validation is deferred and every adjudication is
  refused, because both demand that the two agree.
* `ClobberedStock` (`CounterIsDocumented`): `cancelReceiving` and `updateReceiving`
  read the counter and the lots outside any transaction and commit totals, over
  whatever came between.
* `DuplicateSeq` (`IssuedOnce`): a window that opens copies the mirror in
  localStorage over the number in IndexedDB; another window's allocation, whose mirror
  is not written yet, is lost, and its number is issued again. One window is enough
  when it dies while it restores a wiped localStorage, after the name and before the
  number (`deviceId.ts:516-522`): the next start finds a terminal that seems intact,
  with the number 0, and copies that over the mirror. The attempt to prove `IssuedOnce`
  for one window found it; `RestoreIsWhole` excludes it.
* `FreshInstall` (`FloorNeedsNoManifest`): the native process writes the epoch floor
  before the window asks for the manifest, and the command the window calls takes a
  floor for prior state. A new installation is blocked at its first start.
* `TwoAuthorities` (`OneAuthority`): `markVoidIntentRetryable` writes `pending` over an
  intent that another drain has settled, after a privileged row was taken in for the
  same sale.

Met while modelling, told here only:

* `submitPrivilegedVoid.ts:6-8` says completion requires a matching execution id.
  `finishCanonical` (`:245`) marks the execution completed and answers `ok` also when
  the void did nothing because the document is in `exception`, or is marked as an
  anomaly. `OwnedVoid` says what a completion still guarantees.
* `voidReversal.ts:75` says the clamp defends against inconsistent data. A credit sale,
  a payment and the void of the sale reach it: `outstandingBalance` goes below zero and
  `creditUsed` stays at zero.
* `retryReconcile.ts:68-69` leaves a flagged document in `exception` to the void path,
  which leaves it too.
* `requestManagerApprovalCore.ts:325-328` says that a right PIN wipes no failure committed
  after it read the counter. The comparison is of counts, and a wrong PIN counted after
  the window of the first failure ran out starts again at one: a count no higher than the
  observed one can be new, and is wiped. No lock is lifted that way (`ResetSparesLock`).
* The retry cap can be passed: a duplicate delivery, or the attribution of a void on a
  pending document, is one more event and one more attempt.
* `confirmInventoryAdjustment.ts` takes lots that do not add up to the counter for an
  older drift; a lot that arrives between the listing and the transaction looks the
  same.
* `docs/.../phase-7-preflight-codebase-state-audit.md:33` says cancelling a transfer
  restores stock only if it was completed; the code always does.
* Several reports of a discrepancy of one transfer are resolved independently, and each
  corrects the stock.
* The adjudication calls finishing "a server obligation", but a record that is CONSUMED
  and is not relayed again stays so.
* A begin that timed out after two seconds, or failed before the fence, also leads to a
  sale that is submitted and later sealed absent; the orchestrator's header names only
  one refusal. Two windows can leave both an entry and a seal.
* A shift open whose claim committed and whose window died before `setDoc` has its
  create outstanding for ever, and the shift is never created. A denial whose listener
  died is never recorded. A shift that was closed on the server before its open was
  reconciled leaves the intent pending, and `openShift` would resume it.
* A manifest left without a committed epoch stops the process at its next start,
  although `epochSelector` treats it as recoverable; the lease of a migration has a
  constant owner, so it excludes nobody; and nothing in this code reaches the cutover.

## 7. What is abstracted, and what is not modelled

**The sales core.** One product, one line per sale (`FifoCut` covers several lines;
products do not interact). `status` is `open` or `voided`: `completed` and
`pending_payment` are treated alike. Amounts are integers in satang, quantities in base
units. A source is valid or `Malformed` (in `Liveness`; any attempt may fail). The `voidError` merge after a failed void is the
event it publishes again; its text is left out. Approval, PIN, branch, role and
same-day checks hold of every call modelled. Restoration lots of one return share their
time of receipt. The customer aggregate of a return is read by nothing modelled.

**Offline voids.** Signatures, frames and the 37 refusal codes are two outcomes,
transient and terminal. Digest mismatches, binding conflicts and anomalies of journal
rows need bytes that no code writes. No page calls `requestPendingVoid` any more; intents
that are still in the queue are drained.

**Shifts.** A cash movement stands for its amount; a correlation id for the terminal and
the way it closed. The SDK's queue hands each write over once, in order per terminal. The
claims of the legacy normalisation (`shiftCloseIntentStore.ts:1521-1612`,
`shiftCloseReconciler.ts:560-742`), the quarantine of corrupt rows, previews and the
subscription to the active shift are left out. What the digest of a validation is
computed from is the set of changes it saw, and the watermark also takes the update time of
the evidence. Anomalies of the router are left out, and so is the acknowledgement of an event
whose transaction failed for good (`shiftCloseSourceEvents.ts:131`), which loses that event,
and the pruning of the router's ledger of events.

**Stock.** One product, no costs, documents of one line. Reversals of lots that are no
longer there, the local overlay of reversals, and the adding and removing of lines in
`updateReceiving` are left out.

**The terminal.** Digests, events and the pruning of journals are left out: the statuses
`settled_observed`, `orphaned`, `manual_review` and `superseded` of a sale intent are in
the matrix and written by nobody. `setDeviceIdentity`, claims of a label and the identity
it imports are left out; without them the server's number is above that of an IndexedDB
terminal in no passing scenario (`NothingForwarded` proves it), so that the fast-forward
raises a number in `nativeTabs` only. The sessions of the native store (watchdog, occupancy) and the
enrolment files in the gate of the floor are left out.

**Not modelled.**

* *Orphan sweeper*: repairs a settled sale whose canonical order is missing, which only an
  operator's deletion brings about.
* *Authority fence*: the check a privileged callable makes of its caller; the modules begin
  after it, and `OfflineAdjudication` has its withdrawal.
* *Accounts, roles and the role sweep; enrolment and issuers; staff sessions*:
  administration and signatures, with no state shared with sales, shifts or stock but the
  authority that may be withdrawn.
* *Sync orchestrator*: runs the channels one after another; the sweeps it calls start at
  any time in the modules.
* *Local ledger, suspended bills*: display caches of one terminal.
* *Clear test data*: an administrator's tool that deletes outside any protocol.
* *Native lockout and verifier*: state in the key store of the operating system, written by
  one process.
* *Issuance console, pages*: a separate tool, and presentation.

Most of the repository's lines are pages, components, formatting, printing, signatures and
administration, where there is no protocol to state; the map covers the protocols.

## 8. What could follow

In the order in which it would add most:

1. The sessions and transactions of the native store, and the cutover as a refinement of
   what `epochSelector` promises.
2. The role sweep and the native lockout, as components of their own.
3. The legacy normalisation of closes, with the claim both terminals take.
