# WorkPro: formal models, checks and proofs

TLA+ models of WorkPro, a maintenance-management system: a Node/Express API on
MongoDB (`backend/`) and a React client that works offline (`frontend/`).  The
models cover the places where several callers, retries, crashes or a lost
connection decide whether the data stays right: the inventory ledger, the parts
on work orders and the receipts of purchase orders, the life of a work request
and of a work order with its permits, preventive maintenance with its telemetry,
and the offline queue of the client.

- `*.tla`, `*.cfg`: the modules and the TLC configurations.
- `PROJECT.json`: components, runs, mutants, the map from definitions to source
  lines, findings, hazards and theorems.

To check one run: `tlc -config ledger.cfg MCInventoryLedger`.
To check the proofs: `tlapm M.tla` for each `M` of `FiniteSums`,
`InventoryLedgerProofs`, `WorkOrderPartsProofs`, `PurchasingProofs`,
`MaintenanceProofs`, `OfflineQueueProofs`, `WorkRequestsProofs` and
`WorkOrdersProofs`.

Contents: [1 The system](#1-the-system) ·
[2 The modules](#2-the-modules-and-the-code) ·
[3 The runs](#3-the-runs) · [4 Fairness](#4-fairness) ·
[5 The proofs](#5-the-proofs) · [6 Findings](#6-findings) ·
[7 Not modelled](#7-what-is-not-modelled) · [8 Plan](#8-plan)


## 1. The system

Every pod of the API runs the same `backend/server.ts`; all state that lasts is
in MongoDB, a replica set, so that `session.withTransaction` works.  Requests
interleave at every `await`.  A process can die between any two of them.  The
client talks to the API over HTTP and keeps what it could not send in
`localStorage`.

| component | state it keeps | operations | what makes it hard | what makes it correct |
|---|---|---|---|---|
| **inventory ledger** `backend/src/modules/inventory/service.ts` | `StockItem` per part and location, `Part.quantity`, `StockHistory`, `InventoryTransaction` with an idempotency key | receive, issue, adjust, transfer, stock count, each in `withTransaction` | absolute quantities computed from a snapshot and saved; several documents per operation; the same key sent twice; opposite transfers; crashes | stock = initial + history; part and locations move together; a key counts once and has one answer; every call is answered |
| **parts on work orders** `backend/controllers/WorkOrderPartsController.ts` | `PartStock.onHand/reserved`, `WorkOrderPartLineItem`, `InventoryMovement`, the costs of `WorkOrder` | reserve, unreserve, issue, return, delete a line | one reservation is kept in two documents; find-or-create of a line; a document loaded before the transaction and used in it | no piece made or lost; reserved = what the lines reserve; the log explains the stock; the total is that of the lines |
| **work requests** `backend/src/modules/work-requests/service.ts`, `backend/controllers/requests.ts` | `WorkRequest` with status, link to a work order, deletion mark; `WorkOrder` | submit and route, convert, decide, set status, delete | read, decide, save without a transaction; two documents created in sequence; calls repeated after a crash | links exist and are not undone; a retry finds the work order; one work order for each request |
| **offline queue** `frontend/src/utils/offlineQueue.ts`, `safeLocalStorage.ts` | the queue in `localStorage`, or in a `Map` of the page; `isFlushing` and a loaded copy in memory | add, flush, retry failed | a flush suspended at each request; two callers; page closed; answers lost; a storage that fails | what is not sent is stored; nothing is sent again whose answer was recorded; what was added is kept |
| **PM scheduler** `backend/services/PMScheduler.ts`, `backend/controllers/PMTaskController.ts` | `PMTask` assignments with next due dates, `lastGeneratedAt`, `Meter.lastWOValue` | the cron job on every pod, generation by hand | runs overlap without a lock and save tasks loaded earlier; a run dies between the work order and the save | no date is lost, none stays behind, a recorded one does not come back |
| **telemetry and meters** `backend/services/iotIngestionService.ts`, `backend/controllers/MeterController.ts` | `Meter`, `MeterReading`, `SensorReading` | ingestion over HTTP and MQTT, readings by hand | reads and writes the meters the scheduler uses; late readings; rules | a baseline has its work order; an open work order holds further ones back |
| **purchasing** `backend/src/modules/purchase-orders/service.ts` | `PurchaseOrder` lines and status, `PartStock` | edit, transitions, receipts | the lines of a receipt run in parallel outside a transaction, next to the transactions of parts on work orders; the order is saved last | reservations are not disturbed; the order never says more than the log; nothing is received on an order that has ended |
| **work order lifecycle** `backend/controllers/WorkOrderController.ts`, `backend/src/modules/work-orders/service.ts`, `backend/routes/permitRoutes.ts` | `WorkOrder` status, approvals and steps, checklist, permits; `Permit` status and history | approve, assign, start, complete, cancel, update, checklist, permit edits | checks on loaded copies; saves of single fields over a document others have changed; order and permits in two saves | no work under a permit that was never approved; no completion of a safety order recorded before its approval |
| **mobile sync** `backend/src/modules/mobile/service.ts`, `conflictResolution.ts` | the work order as a device last saw it | apply a batch, reconcile | edits arrive late, with clocks of their own, and write whole documents | a later change is not undone by an earlier edit; a batch changes what it edits |
| **notifications, webhooks** `backend/services/notificationService.ts`, `backend/utils/webhookDispatcher.ts` | delivery logs, timers | deliver, retry | timers lost in a restart | every delivery ends |
| **export jobs** `backend/workers/exportWorker.ts` | `ExportJob` status | claim, run | a worker dies with a claimed job | every job ends |
| analytics, dashboards, reports | none | read-only aggregation | – | – |
| assets, hierarchy, documents, chat, users | one document each | create, read, update, delete | one step of one actor | – |
| second backend scaffold `Backend/`, `Frontend/` | – | never loaded by `backend/server.ts` | – | – |
| user interface | view state | presentation | – | – |

How they meet: the client's queue calls the handlers of work orders, assets and
requests; a conversion creates a work order; parts on work orders and receipts
of purchase orders write the same `PartStock`; the ledger and the older
inventory operations of the same file write the same `StockItem` and `Part`;
telemetry, meter readings and the scheduler write the same meters; the web
client, the mobile client and the permit office write the same work order and
its permits.


## 2. The modules and the code

```
 StockLedger  <== implemented by ==  InventoryLedger <-- MCInventoryLedger
      \________ LedgerOps ________/         ^----------- InventoryLedgerProofs
 WorkOrderParts <-- MCWorkOrderParts, WorkOrderPartsProofs
 WorkOrderParts <-- (INSTANCE) Purchasing <-- MCPurchasing, PurchasingProofs
 WorkOrderPartsProofs <-- (INSTANCE) PurchasingProofs
 WorkRequests   <-- MCWorkRequests, WorkRequestsProofs
 OfflineQueue   <-- MCOfflineQueue, OfflineQueueProofs
 MaintenanceData <-- PMScheduler, Telemetry <-- Maintenance
 Maintenance    <-- MCMaintenance, MaintenanceProofs
 MobileMerge    <-- WorkOrders <-- MCWorkOrders, WorkOrdersProofs
 FiniteSums     <-- InventoryLedgerProofs, WorkOrderPartsProofs, PurchasingProofs
```

An arrow is EXTENDS unless it says INSTANCE.  Definitions marked "Mutant" in the comments are wrong
variants of the definition below them: the properties can tell them apart.

### LedgerOps, StockLedger, InventoryLedger

`LedgerOps` says what each of the five operations does to the quantities it
reads (`Change`, `Effect`, `PartChange`), when it throws (`Refused`), and which
of its saves Mongoose really sends (`SavesSource`, `SavesPart`: a count that
finds no difference modifies no path).

`StockLedger` is the promise: each operation takes effect at one instant, once
for its key.  It has one exception that the code has too (`CountAgrees`): a
stock count that found no difference in its snapshot touches neither stock nor
part, so nothing conflicts with it, and it is recorded even if the stock has
moved on when it commits.

`InventoryLedger` is the code: one API call per member of `Calls`.

| code | model |
|---|---|
| `withTransaction(callback)` starts or starts again | `Begin`: the snapshot of store and keys |
| `withIdempotentTransaction` finds the key | `Replay`: the recorded transaction is the answer |
| `InventoryError` thrown in the callback | `Refuse` |
| `stock.save`, `toStock.save`, `part.save`, `InventoryTransactionModel.create`, in this order | `Save`, one step each: `source`, `dest`, `part`, `record` |
| WriteConflict, or a duplicate key on the unique indexes | `Conflict`: abort, run again while `attempts` allow |
| commit | `Commit`: all saves become visible, others see the documents as `stale` |
| `res.json` | `Answer` |
| process or connection dies | `Crash`, at any step |

`held` are the documents a transaction has written, `stale` those committed by
others since its snapshot.  What a save writes is the value computed from the
snapshot; nothing in the model adds to the committed quantity.

Abstractions: one part (two parts share no document, only the keys, and a key
sent for two requests is in the model); audit entries and dates are left out;
the site of a stock item is left out, and with it a `StockItem` that another
site created at the same location; a crash frees the locks at once, where
MongoDB may take a minute; `attempts` stands for the 120 seconds of
`withTransaction`.

### WorkOrderParts

A call is `Load` (the work order, outside the transaction), `Begin` (the
snapshot), then `Commit`, `Conflict`, `LoseCommit` or `Abandon`.  The saves are
not steps of their own: a conflict is found at the commit, which leaves the
same committed states as finding it at the save, because nothing an open
transaction wrote can be read by another.  `Found`, `Line` and `LineAfter`
follow the find-or-create and the five handlers; `ReservedChange` moves pieces
between stock and line; `Written` is what conflicts.

`loaded` is the total of the work order in the memory of the call.
`refreshWorkOrderTotals` saves the work order only if the total it computes is
another one (`SavesOrder`), and a callback that runs again has the document its
first run left behind: `LoseCommit` is the case where the first save counted
and the commit did not.

No unique line is assumed: the partial index of the line items filters on
`{deletedAt: {$exists: false}}`, an expression MongoDB does not accept in a
partial index.  `OneActiveLine` holds all the same, because a reservation, which
alone creates lines for others to find, always writes its stock.

### WorkRequests

One request and any calls on it.  Nothing runs in a transaction: `Read` takes
the document into memory (`seen`), `CreateOrder` and `Save` are the statements
that follow.  Mongoose sends the paths the handler changed, so `Saved` writes
the status only if it differs from the one that was *read*, the link only in a
conversion, the deletion only in a delete.  `Submit` and `Route` are the two
saves of a public submission; `LeaveNew` is an internal request, or one no rule
applies to, or a process that died in between.  `Crash` is possible between any
two statements.

Request types, forms, attachments and routing rules are configuration and are
left out; so is the approval hook of `backend/models/WorkRequest.ts`, which no
handler reaches.

### OfflineQueue

`disk` is `localStorage`, `memory` the `Map` that `safeLocalStorage` falls back to,
`native` says which of the two the page uses (`cachedStorage`), `Stored` what
`getItem` answers.  `queue`, `index`, `remaining` are the locals of `flushQueue`.
Sending is `Send`, `Apply` (at the server), then `Succeed`, or `LoseAnswer`; `Fail`
is a request that did not arrive or was refused, a 409 included.  `Succeed` saves
`ToPersist`, as the code does after each success and only then; entries that are
put back are in memory until the next success.  `waits` is a `nextAttempt`: an entry
that waits may be skipped, or sent if it is due or the flush ignores the backoff.

A write that fails (`SaveQueue`, second disjunct) reaches the memory, and the page
stays there until it is closed; `localStorage` keeps the queue it had.  A failing
write of another key does the same to an empty memory (`OtherWriteFails`), and a new
page may find `localStorage` unusable from the start (`Probed`).  `Reload` closes and
opens the page: `memory` is gone, `disk` is not.  No error reaches `saveQueue`, so
the branch in which it drops the oldest requests (`offlineQueue.ts:83-117`) is never
taken by this program and is not modelled.

`lost` counts the answers that `localStorage` knows nothing of: those that never
arrived, and those after which the shorter queue went to the memory only.

Abstractions: one tab; a request is its identity; a write may fail at any time
(`StorageMayFail`) except when it clears the queue, which needs no room; retries are
counted up to `MaxRetries`, beyond which nothing depends on them.

### MaintenanceData, PMScheduler, Telemetry, Maintenance

`MaintenanceData` is the part of the database that preventive maintenance uses:
the tasks with their next due dates, one meter, its newest readings, and the
work orders that were generated.  Dates are half days, so that a cron expression
can name an hour and a run can end in another half day than it began in.

`PMScheduler` is a run of the cron job on any pod, or a call of the endpoint that
generates by hand (`byHand`).  `Start` loads all tasks at once; `run[w].copy` is
what Mongoose holds in memory from then on.  `run[w].todo` are the positions of
the tasks that the loop has still to come to; the lowest is the current one
(`First`).  An assignment is followed by its date only if it is `Timed`, that is,
of the kind "time" with an interval; the job gives such an assignment its first
date when it has none.  A call by hand looks at cron expressions and meters only
and leaves the dates alone.

| code | model |
|---|---|
| the loop over the assignments of a task | `NextSlot`, `NextTask`: what the loop passes over is part of the step before |
| a date that has come: `WorkOrder.create`, next date in the copy | `GenerateDue` |
| a meter assignment, then `meter.save` | `GenerateAtReading`, `SaveMeter` |
| a task without assignments: `nextCronOccurrenceWithin`, or the meter of its rule | `GenerateByCron`, `GenerateByMeter` |
| `task.save` after the last assignment | `SaveTask` |
| the `catch` around one task | `Fail`: the save of that task is skipped too |
| `ConditionRule` over the newest sensor reading | `CheckCondition` |
| death of the process | `Crash` |

Intervals are whole days, as `calcNextDue` counts them; 0 stands for an
assignment without an interval.  The text "every 0 days", which its pattern would
take and which leaves a date where it is, is out of scope.

`Telemetry` is `ingestTelemetryBatch`: readings are stored (`Receive`), each is
held against each rule (`LookUp`, `CreateFromRule`), and where the endpoint moves
meters, the meter, the first task that fires, and the baseline are saved one
after the other (`ReadMeter` to `SaveBaseline`).  `EnterReading` and `SaveEntry`
are a reading by hand; `CloseOrders` stands for whoever completes the work orders
of a rule.  `Maintenance` puts the two on one database and states what holds
between them.

### Purchasing

A call loads the order and checks it (`Load`), and saves it (`SaveOrder`).
`Allowed` is `ALLOWED_TRANSITIONS`; `Accepts` says which operations look at it.
A receipt runs its lines side by side in between: `FindStock`, `CreateStock`,
`SaveStock`, `LogMovement`, `SavePart`, each line on its own, and
`Promise.all` is `AllStored`.  A line that fails leaves the others running
(`FailLine`, `Reject`).  Mongoose asks for the loaded version only in saves that
address the items (`AsksForVersion`); the others change the status of whatever
is stored.

The module instantiates `WorkOrderParts`, so the same `PartStock` documents are
moved by its transactions.  `SaveStock` sends the quantity it has computed from
what it read and makes the transactions that had read the stock conflict
(`Touched`).  `overwritten` remembers the stocks where the read was no longer
true; it is history, no action reads it.

### MobileMerge, WorkOrders

`WorkOrders` is one order with its permits.  A call is a request with the copy it
has loaded (`copy`), the permits it has read (`seen`), and the statement it
stands at (`pc`).

| code | model |
|---|---|
| the safety middleware, which loads the order before the handler does | `Begin` for `status` and `reconcile`, then `Load` |
| `findOne` of the handler | `Begin`, or `Load` |
| `ensurePermitReadiness`, then checklist and sign-off | `CheckPermits` |
| `workOrder.save()`: fields that differ from the copy | `Saved`, `Onto`, `Save` |
| the array versions of Mongoose | `AsksForVersion`, `MovesVersion`, `v` |
| the permits saved side by side after the order | `SavePermit`; `Drop` if the process dies in between |
| `findOneAndUpdate` of PUT | `Update` |
| the mobile client's write of the merged document | `Sync` |
| bulk update and checklist route, one write each | `WriteThrough` |
| `PATCH /permits/:id`, `POST /permits/:id/lockout` | `EditPermit`, `Lockout` |

`past` is history: whether the order has been approved, whether it has been a safety
order throughout (`safe`), which steps and permits have been approved, when each
field last changed (`at`).  `since` is what `at` was when a mobile batch or a
reconcile read the order.  No guard depends on either.

A body of PUT or of reconcile may set status, type, approval, description, an empty
checklist and the permits (`PayloadType`, `Patched`).  PUT writes them over whatever
is stored; reconcile over its copy, after a comparison of stamps if the body has one
and after none if it has not (`Reconciles`).  A checklist with items does not pass the
document's validation, because the schema of the body takes out the text it asks
for.  `MobileMerge` holds the conflict resolution as operators: whose stamp wins for
the record, the description and the checklist item, and what is merged from them.

The permits of an order exist from the start, in the state they were issued in:
`POST /permits` takes any status (`issued`), and isolation steps that are done
(`isolated`).  `EditPermit` is the `PATCH` by which a stored one changes.

What the properties do not say, because the code does not: PUT, bulk update and a
mobile batch complete an order without looking at permits or sign-off, and the status
and reconcile routes look at the current approval step only; PUT, reconcile and a
mobile batch may make a completed order a safety order.  They leave no entry in a
permit, which is what `SignedOff` is about.  `past.granted` and `past.approved` only
grow: `WorkedUnderApproval` and `SignedOff` say that there was an approval, not that
it still stands; that it may not is what `work_orders_stale`
shows.  Left out of the bodies is what the schemas take and no client in this
repository sends: approval steps, the current step, `permitApprovals` and
`lockoutTagout`, and the permits in a mobile batch.


## 3. The runs

| run | configuration | states | what it shows |
|---|---|---|---|
| `ledger` | 3 calls, 2 locations, 3 keys, 7 requests | 110,728 | stock, part, history and transactions agree in every interleaving with crashes; equal keys are answered equally; records say what the store holds; `StockLedger` is implemented |
| `ledger_live` | 2 calls, 8 requests | 9,051 | every call is answered, opposite transfers included |
| `wo_parts` | 3 calls, 2 work orders, 2 stocks, 9 requests, failed commits | 37,923 | no piece is lost; reservations agree; the log explains the stock; one active line; deleted lines stay |
| `wo_parts_total` | 2 calls, no failed commits | violation | the parts cost of a work order goes stale |
| `requests` | 3 calls, all requests | 317,351 | links and deletions survive; a retry finds the work order it was told of |
| `requests_twice` | 2 calls | violation | two work orders for one request |
| `offline_queue` | 2 flushes, 3 requests, storage that may fail | 152,057 | no flush takes an unsent request out of the page's storage; nothing is applied twice but for an answer `localStorage` does not know of |
| `offline_queue_added` | 1 flush, storage that works | violation | a request added during a flush is lost |
| `maintenance` | 2 runs, 1 ingestion, readings by hand, 2 tasks, 1 rule, 1 fault | 387,009 | no service is lost or brought back by overlapping runs, failures and deaths; dates keep up; an open work order holds a rule's readings back; the cron scan finds the next date |
| `purchasing` | 2 purchasing calls, 1 call on a work order's parts, 2 orders, 1 fault | 397,481 | receipts leave reservations alone; the order never says more than the log; nothing is received after the end; two named ways, and only these, by which a receipt makes log and stock differ |
| `work_orders` | 3 orders, 2 permits, 2 calls at a time, 17 requests | 2,188,542 | work starts only under a permit that was approved; sign-off is not skipped; a stamped edit sets nothing changed after it |
| `work_orders_stale` | 5 requests, 2 calls at a time, 1 permit edit | violation | work starts, and a permit becomes active again, after the permit was closed |

**Why the bounds are enough.**  Calls of the ledger and of the parts interact
through documents two at a time; the third call lets a conflict, a retry and a
third commit overlap.  Three keys let a call repeat a key, use one key for two
operations and be alone with one.  Two locations give transfers in both
directions and one location without a stock item; two pieces let an issue empty
it.  The requests are listed in the MC modules so that every pair of operations
meets on a document.  `MaxAttempts = 2` lets a callback run, abort, run again
and give up.  In `wo_parts` the first work order starts with a line that has one
reserved and one issued piece, so that all five operations succeed from the
start, and the second competes for the same stock.  Two calls repeat the same
request wherever it makes sense: that is the client that retries.  In
`WorkRequests` all operations and all statuses are possible for each of the three
calls: two conversions and one change between their steps.  In `OfflineQueue`
three requests let one be put back, one be sent and one be added beside them; any
write may be the one that fails, for good, so nothing longer happens to the storage;
`MaxRetries` is 2 for 5, which shortens the way to a failed request and changes
nothing else; `MaxLosses` bounds lost answers and, with them, reloads, which would
otherwise let the server apply a request any number of times.

`maintenance`: two runs and one ingestion, of which two are under way at once
(`MaxInFlight`): every hazard here is between two writers, and three of them at
once only add interleavings.  One may fail or die (`MaxFaults`), except in the
last half day, where no later run could repair it.  `MaxClock = 2` is three half
days: the daily date of the first task comes, is generated, and comes again
(`MaxInterval = 2`, one day, is the longest interval, and bounds the dates).  Two
readings reach both thresholds, and one batch carries both to the rule, so that
the second reading meets the work order of the first.  For the endpoint the first
task is one with a cron expression, so every way to generate is taken.

`purchasing`: two purchasing calls on one order, which is all the order can tell
apart: its saves depend on one version.  The draft order can be edited, sent,
cancelled; the sent one received, closed, cancelled.  One receipt carries the
same part twice (its lines race with each other), the other a part without a
`PartStock` (its creation races with the other call) and more than was ordered.
One work order call reserves on the same stock meanwhile.

`work_orders`: two calls at a time and three in all (`MaxCalls`), with at most two
edits of permits and four steps of both kinds (`MaxMoves`): a permit is approved,
a call reads it, an edit takes the approval away, the call goes on.  One tick
(`MaxClock`) separates early from late edits.  The three orders to begin with are
those the guards tell apart: a safety order under two permits, one with two
approval steps, and one whose lockout is not verified under a permit that was issued
approved.  The requests have a body that completes, makes the order a safety order,
withdraws the approval and changes the permits in one PUT; a stamped reconcile and
one without a stamp; and two mobile edits, of which one has a stamp for the
description only.  `work_orders_stale` has the requests of its overlaps and nothing
else; without `start` among them TLC finds the completion instead.

The calls (and in `offline_queue` the requests of the user) are symmetric; the
liveness run uses no symmetry.  Deadlock is checked in all runs but
`purchasing` and those of `MCWorkOrders`, where calls end and a behaviour stops at its
bounds.  The other models end in an explicit `Done` or `Idle` step, enabled only
if every call has been answered; in `maintenance` a run can always start.

**What the properties mean** is stated above each of them in the modules.  The
ones that carry most:

- `HistoryExplainsStock`, `PartMovesWithStock`, `BookingsExplainHistory`: three
  records of the same pieces, saved in different statements, never drift apart.
  A lost update breaks the first, a transfer counted on the part the second, a
  key executed twice the third.
- `IsStockLedger`: refinement; the concurrent ledger cannot be told from one
  that executes operations one after the other.  The mapping is the identity on
  the committed documents; `Bookings` forgets the quantities `...After`, which
  `RecordsAreTrue` covers.
- `ReservedIsOnLines`, `PiecesAreConserved`: two documents, five handlers, one
  number of pieces.
- `RetryFindsTheOrder`: why repeating a conversion is safe once an answer was
  given, and only then.
- `UnsentIsStored`: what a flush holds is never all there is of a request; the copy
  it works on runs ahead of the stored one only by what the server has applied.
- `AppliedOncePerAnswer`: two callers, pages that die and pages that fall back to
  memory apply a request again only for an answer that was not recorded on disk.
- `MarksHaveOrders`, `DatesKeepUp`: what stops a work order from being generated
  again is written after the work order in every path, and whatever fails in
  between is made up for by a later run.
- `RecordedDateIsFinal`: a save of a copy loaded earlier never brings back a date
  that another run has recorded, although no version is asked for.  Overlapping
  runs do generate one date twice; runs that start later do not.
- `MovementsExplainStock` of `Purchasing`: an account of what a receipt outside a
  transaction may break; in particular no transaction of a work order loses one.
- `NoReceiptAfterEnd`: the version that the save of a receipt asks for is what
  protects an order closed during the delivery.
- `WorkedUnderApproval`, `SignedOff`: what calls check on stale copies is true of
  the history when they write, whatever was relinked, retyped or written beside them.
  They say nothing of an approval that was withdrawn in between (finding 4).
- `LaterChangeStands`: the rules of the merge and of the stamped reconcile against
  the order of the changes, up to the read of the call.  What others change between
  that read and the write is not its subject: a batch takes it back (section 6).  A
  reconcile without a stamp is checked by nothing.
- `CronFindsNext`: the scan over the days, for an hour and a weekday that are one
  number each or `*`.  The parsing before it (`PMScheduler.ts:124-129`) is outside.


## 4. Fairness

Only `EveryCallAnswered` needs fairness: `FairSpec` has weak fairness on `Work(c)` for
each call, that is, on `Replay`, `Refuse`, `Begin`, `Save`, `Conflict`, `Commit`
and `Answer` together.  The Node event loop runs every continuation that is
ready, the driver answers or fails every statement, and `withTransaction` calls
back until it succeeds or its time is over; nothing stronger is assumed, in
particular not that a given call ever wins a conflict.  `Crash` and `Submit` are
not fair: a process need not die, a client need not send.

The property rests on the time limit.  Two transfers in opposite directions can
abort each other again and again; without `OutOfTime` TLC finds the cycle.

`DatesKeepUp` is bounded: it says by when, so it is an invariant.  It rests on
two assumptions about time, both in `Tick`.  The job fires every few minutes, so
that in half a day one run goes through without a failure (`ran`); and a run
takes minutes, so that it ends in the half day it began in or the next
(`RunsAreShort`).  `RecordedDateIsFinal` rests on the second as well: a run that
lasted past the next date of a task it had loaded would save the old one over
it.  The other properties of the run need neither.


## 5. The proofs

TLAPS proves every invariant and action property of section 3 as a theorem of the
specification, for every value of the constants: any number of calls, documents,
requests, tasks and readings.  Only the liveness property is left to TLC.

**The common argument.**  None of these properties is inductive: a call writes what
it computed long before.  Each module therefore has an invariant `IInv` that says why
what a call holds in its memory is still good enough when it writes.  It is proved of
the initial states and kept by every action, one lemma for each; each property then
follows from `IInv`, or from `IInv` and one step.

**Sums.**  Stock, line items, history and receipts are compared as sums
(`MapThenSumSet` and `SumFunction` of the community modules, both recursive
functions on sets).  `FiniteSums` proves what is needed of them: any element may
be taken first (`TotalSplit`), functions that agree have the same sum, one value
changes, one element joins or leaves (`TotalChange`, `TotalAdd`, `TotalWith`), sums
add up (`TotalPlus`).  The induction theorems of the library take the property as
an operator, which the provers cannot instantiate; each induction here looks at a
smallest set that would refute the property instead (`Smallest`, from the
well-foundedness of strict inclusion on finite sets), which is first-order.  The
same device gives `LeastNat` and `GreatestNat` of `MaintenanceProofs`.

### InventoryLedgerProofs

`TypeCorrect` (no quantity is ever negative), `HistoryIsComplete`, `PartAndStock`,
`BookedOnce`, `SameKey`, `RecordsTrue`, and `Implements`: every step of
`InventoryLedger` is a step of `StockLedger` or leaves it alone.  The invariant:

- `SnapshotOK`: a call in a transaction has a request its snapshot did not
  refuse;
- `HeldOK`: which documents it has saved at each step, as functions of its
  request and its snapshot (`SourceDocs`, `DestDocs`, `PartDocs`, `KeyDocs`);
- `LocksOK`: two transactions never hold the same document, and what one holds
  nobody has committed since its snapshot;
- `FreshOK`: a document that is not stale has the value the snapshot shows.

`HeldOK` and `LocksOK` make everything the commit changes fresh, and `FreshOK`
then makes the values it writes those of an operation on the present store
(`CommitFindsFresh`, `CommitAddsEffect`, `CommitKeepsPromise`).  The one case
where the store may have moved on is a count without a difference, which is
`CountAgrees` in the promise.  What a commit adds at the locations adds up to what
it adds to the part (`EffectSum`), and is what its transaction says
(`BookedIsEffect`), under a key that had none; from these follow the two sums.

### WorkOrderPartsProofs

`TypeCorrect`, `StockMatchesLines`, `PiecesConserved`, `LogExplainsStock`,
`OneActiveLineEach`, `DeletedLinesAreFinal`.  The invariant is `Core` (types, the
reserved pieces of each stock as a sum over its active lines, one active line for
a work order and a stock, and `SnapSound` of each open transaction) with what the
pieces and the log of each stock come to.  `SnapSound` is the freshness of the
ledger in the form this model needs: lines are only ever added, a stock or line
that is not stale is as the snapshot shows it.  `CommitEffect` then says that a
commit replaces or adds one line and moves its stock and the log as if it had run
alone; `EffectOnSums` follows the sums.  That a line found missing in the snapshot
is still missing at the commit, which no index guarantees, comes from the stock:
whoever added it wrote the stock, and the commit would have met a conflict.

### PurchasingProofs

`TypeCorrect`, `StockMatchesLines`, `LogExplainsStock`, `OrderNeverAheadOfLog`,
`NoLateReceipt`.  The module takes the proofs about the part calls as they are, by
a second instance, `PP == INSTANCE WorkOrderPartsProofs`; the lemmas `Same...` show
that its `WorkOrderParts` is the one `Purchasing` uses.  Two arguments meet:

- the stock: `PP!Core` survives a write outside of transactions (`OutsideWrite`),
  because the open ones that have read the stock meet it as a conflict; and
  `Explained` accounts for what is on hand by what was there, what is logged, and
  what a line still has to log;
- the order: `CallSound` says that an order with the version a call has loaded is
  that very order, so the quantities a receipt adds to it are added to what they
  were computed from; `Counted` says that the log has what the order has *and* what
  the receipts under way have logged, which is why a receipt that is repeated, fails
  or dies leaves the order behind the log and never ahead.

### MaintenanceProofs

`TypeCorrect`, `RecordedStaysFinal`, `MarksAreBacked`, `OpenOrdersHold`,
`DatesAreKept`, `CronIsExact`.  What is true of a run is stated of a record `r`
beside any dates, work orders and clock (`RunSound`), so that the same formula
serves for the run that steps and for the others that have to bear the step:

- `Placed`, `AtStop`: where it is in its loops, and that it began in this half day
  or the one before;
- `Dated`: a date it has changed is an interval away from its own half day; what it
  has generated, or found recorded when it began, lies behind its copy;
- `Backed`: what it is about to record has its work order;
- for a run without a failure that is still in its half day: `Agrees` (its copy is
  the document's, or the document is ahead), `Passed` and `PassedSlots` (the dates
  it has been through lie ahead).

`CallSound` says the same of a call of the ingestion, `Marked` and `Recorded` of
what is saved, `Ahead` of the dates.  A run has one lemma for each way it goes on
(`EnterIsSound`, `NextTaskIsSound`, `NextSlotIsSound`).  The others bear what it
saves because a date is only ever replaced by one that lies ahead (`Apart`,
`RunBears`, `CallBears`, `DatesBear`); this is also why a save of an old copy
brings no recorded date back.  `CronIsExact` is a statement about an operator: the
scan finds the least date that the definition of the expression admits.  The
expression is what the code has parsed: `parseInt` reads "1,3" as 1 and `*/2` as a
number that no day has, which the theorem does not see.

### OfflineQueueProofs

`TypeCorrect`, `UnsentSurvives`, `AppliedOnce`.  The lemmas turn loading, putting
back and persisting a queue into operations on a set (`Pending`, what a flush has
before it); from there the proofs are about sets.  The invariant says that no
request is twice in a queue and what was put back has been passed
(`FlushesSound`), that `isFlushing` tells of the one flush there is (`OneFlush`),
that nothing is in the memory of a page that uses `localStorage` (`MemoryUnused`),
that what is pending and not applied is in one of the two (`Kept`, `PendingIsStored`),
and that a request that may be sent again, by this page or from what is on disk by the
next, was not applied but for the answers lost, unless its answer is on the way
(`EachAnswered`).

### WorkRequestsProofs

`TypeCorrect`, `LinkedExists`, `RetryIsSafe` and `NothingUndone`.  The invariant
adds `Started` (no call acts before the document exists) and `InFlight` (what a
call has done by the time it stands at a statement: a conversion about to save has
created its work order, one about to answer has linked it).

### WorkOrdersProofs

`TypeCorrect`, `StartsUnderApproval`, `SignOffIsKept` and `EditsUndoNothingLater`.
Calls decide on copies and write later, so the invariant is about the copies:

- `Sound`: a document in the memory of a call was once the stored one, so what it
  shows as approved is in the past; the past only grows, and a sound document
  stays sound whatever others write (`WriteIsSound`);
- `Fit`: what a call writes in place of the stored order is made of sound copies
  (`SavedFits`, `UpdatedFits`, `MergedFits`); in particular an approval step that
  is moved past has either been approved in this very write or before;
- `CallOK`: what a call has established by the time it stands at a statement: a
  start that is about to save its permits has read each of them as approved or
  active, a completion has an approved copy if that copy is a safety order's.  A copy
  is one if the order has been a safety order throughout (`Sound`, `past.safe`);
- `PermitOK`: a permit that allows work was granted.

For the edits of devices `StampInv` adds `Stamped` (no field has changed later than
the stamp of the document: every write that changes what devices edit stamps it,
`WritesTrack`) and `Dated` (what a mobile batch or a stamped reconcile under way has
in `since` is no later than the stamp of its copy, and a reconcile has found its own
stamp good for that copy).  An edit that wins against the stamp of its copy is then no earlier than
the last change of any field as of the read (`WinsIsAfter`); `SyncStands` and
`ReconcileStands` are the two writes.  The stored order may have moved on by then,
which the proof does not need.

### What the proofs assume

All assumptions are named in the modules and evaluated by TLC in each run.

- Requests have passed their schemas: `RequestsAssumption`, `PartsAssumption`,
  `PurchasingAssumption`, `WorkOrdersAssumption`.
- The database to begin with is in order: `InitialAssumption` (no negative stock,
  none where there is no stock item), `PartsAssumption` (one active line for a work
  order and a stock), `PurchasingAssumption` (no pieces of a part that has no
  `PartStock`), `DataAssumption` (each task has a schedule the code can read).
- What is summed up is finite: `FinitenessAssumption` (locations, keys),
  `SharedAssumption` (purchasing calls).  Line items and receipts are sequences and
  need none.
- Distinct things are distinct (`DocumentsAssumption`), marks for "nothing" are no
  values (`TokensAssumption` and the corresponding conjuncts elsewhere), bounds are
  numbers (`QueueAssumption`, `BoundsAssumption`).

`DatesAreKept` and `RecordedStaysFinal` rest, as the model does, on what `Tick` says
of time (section 4).

### Only model-checked

`EveryCallAnswered` is liveness under fairness, which needs ENABLED and is out of
the prover's reach; it stays with TLC, with the bounds of `ledger_live`.  The four
findings are counterexamples and have nothing to prove.


## 6. Findings

Each has a run whose counterexample is the sequence described.

1. **Stale parts cost** (`wo_parts_total`).  All five handlers load the work order
   before the transaction.  Mongoose sends the new total only if it differs from
   the one loaded.  Two calls on one work order both load it; the first commits a
   new total; the second computes a total that equals the one it had loaded, so
   nothing is sent, nothing conflicts, and the total of the first stays although
   the lines say otherwise.  It needs no failed commit.
   `backend/controllers/WorkOrderPartsController.ts:131`; the total is asserted in
   `backend/tests/workOrderPartsRoutes.test.ts:131`.
2. **Two work orders for one request** (`requests_twice`).  `docs/work-requests.md:95`
   says the check for a linked work order prevents duplicates.  The check and the
   save are two statements with `WorkOrder.create` in between: overlapping
   conversions, or one repeated after a crash, create two.
   `backend/src/modules/work-requests/service.ts:483`.
3. **A request added during a flush is lost** (`offline_queue_added`).  After each
   success the flush overwrites `localStorage` with what is left of the queue it
   loaded at its start.  The test "preserves new requests added during a flush"
   (`frontend/src/test/offlineQueue.test.ts:278`) says otherwise.
   `frontend/src/utils/offlineQueue.ts:432`.
4. **An approval that was withdrawn counts** (`work_orders_stale`).  The start call
   reads the permits, saves the order, and then saves the permits it has read.  One
   that was closed in between gets its entry, and is active again if it had been read
   as approved.  The guard's message is "Permit ... is not approved for activation"
   (`backend/controllers/WorkOrderController.ts:438`).  A completion does the same with
   the sign-off: "Approval must be completed before closing this work order type"
   (`:2148`) is said of the loaded copy, and the save asks for no version.
   `backend/controllers/WorkOrderController.ts:2050`, `:2144`.

Differences and oddities met while reading, without a run; the models contain
those of the parts they cover:

- `README.md:115` says requests made while offline are stored in local storage.  The
  first access that fails makes `safeLocalStorage` use a `Map` for the rest of the page
  (`safeLocalStorage.ts:62`), and `localStorage` keeps the old queue.  When the page is
  opened again, what was added since is gone, and what was sent since is sent again.
  The user is not told: the message about a full storage (`offlineQueue.ts:89`) cannot
  appear.
- The requester of a rejected request is told "Rejected and will not be converted"
  (`backend/src/modules/work-requests/service.ts:316`); the conversion does not look at
  the status.
- A mobile batch writes back every field of the document it read, so what others
  changed between its read and its write is undone
  (`backend/src/modules/mobile/service.ts:165`); `docs/mobile-conflict-resolution.md:3`
  promises the last writer's word.  A checklist item that was removed on the server
  comes back with an older edit (`conflictResolution.ts:163`), where the doc accepts new
  items only from a client that wins (`:13`).
- `docs/production-readiness.md:44` says the PM scheduler is protected by
  distributed Mongo locks, and `docs/backlog-gap-analysis.md:40` calls the
  safeguards against duplicates resolved; `runPMScheduler` takes no lock, and
  `Backend/utils/jobLock.ts` is imported by nothing.  Overlapping runs generate
  one date twice.  Tasks with a cron expression and condition rules get a work
  order in every run.
- Two tasks on one meter: the work order of the first moves the baseline, and the
  second never reaches its threshold.  A late reading moves the meter back.
- `ALLOWED_TRANSITIONS` forbids `partially_received` to `canceled` and `sent` to
  `closed`; `cancelPurchaseOrder` and `closePurchaseOrder` allow them, and their
  saves ask for no version, so they also overwrite a status set meanwhile.
  `received` can be asked for without a receipt.
- A receipt refused at its last save has added its pieces: repeated, it adds them
  twice.  Pieces above what was ordered are in the stock and not on the order.
  A part sent twice in one receipt races with itself.  The unique index of
  `PartStock` has no site, so a second site's first receipt at the same location
  always fails.
- The status of a work order has no transition rules: PUT completes an order
  without permits or sign-off, sets the approval itself, and may turn an order that
  was completed as corrective into a safety order; the web form sends the type with
  every PUT.  Bulk update and a mobile batch complete it as freely, the status and
  reconcile routes after a look at the current approval step.
- A reconcile without `clientUpdatedAt`, which its schema leaves optional, is applied
  to whatever is stored: it undoes any later change.  A permit that was
  deleted blocks approval, start, completion and cancellation for good.  POST
  `/permits/:id/approvals` never changes the permit's status.
- A checklist answer of `false` counts as an answer, so an item marked not done
  does not block a completion.
- A description whose own stamp lost is reported as discarded by a mobile batch and
  kept all the same when the record won.  A batch sent again whose create went through
  fails there and never gets to its later actions.
- `nextCronOccurrenceWithin` parses each field with `parseInt`: a list, a range or a
  step counts as its first number ("1,3" is Monday) or as none ("*/2" is never).
- `docs/production-readiness.md:50` says the server enforces idempotency with keys
  in MongoDB; `backend/middleware/idempotency.ts` keeps a map in memory and is used
  by the webhook routes only.
- `docs/OFFLINE_SYNC.md:10` says duplicate keys are not processed again; the second
  backend finds and then creates, with no unique index in between.
- `docs/inventory.md:30` derives what is available as `onHand - reserved`; a
  reservation already lowers `onHand`.
- `frontend/src/test/offlineQueue.test.ts:188` and `:202` are named after requests
  that are dropped on a conflict or after too many retries; the code keeps them.


## 7. What is not modelled

`PROJECT.json` lists every part with its reason.  Read-only analytics and
single-document handlers have no sequence of steps to go wrong; the user
interface is presentation; the second backend is never loaded.  Of the modelled
parts:

- **Inventory ledger**: the older operations of the same file (`adjustStock`,
  `transferStock`, `savePart` with its automatic reorder, the receipts of
  `transitionPurchaseOrder`).  What is shown of the ledger is shown for its five
  transactional operations among themselves; whether it survives the older
  writers, some of which save outside a transaction, is the next question of the
  plan.
- **Preventive maintenance**: dates driven by usage, the cooldown of
  `IoTTriggerConfig`, anomaly alerts, the sensor device records, updating and
  deleting tasks and meters while runs go on, and the day-of-month and month
  fields of cron expressions.
- **Purchasing**: `Part.quantity` and the average cost, prices and totals, more
  than one order at a time.
- **Work orders**: more than one order; required permit types; the parts that a
  completion consumes; downtime and SLA clocks; the `version` and `etag` fields
  (`v` is the version Mongoose keeps); scheduling, dispatch and deletion; the
  back-link of a permit and its chain of approvals; creating and deleting orders
  from a device, and the offline-action endpoints of `MobileController`.  A PUT or
  a mobile batch that sends the approval steps or the current step itself, which
  the schemas accept and no client here does, is left out of `SignedOff`.
- **Offline queue**: a second tab.
- **Notifications, webhooks, export jobs**: one writer and a timer or a claim; the
  hazards are listed, with the plan.


## 8. Plan

In order of what is at stake.

1. **Older inventory writers** beside `InventoryLedger`: what a read and a save
   outside a transaction do to `HistoryExplainsStock`, with the automatic reorder.
   Bounds: two calls of the ledger, one `adjustStock`, one location.
2. **Deliveries and export jobs**: retries and claims against restarts, with
   liveness ("every job ends") under the fairness of the worker loop.
3. **A second tab** of the offline queue: a flag for each, one storage.
4. **Completion with its parts**, as one more caller of the stock.
5. A run for the statement of `docs/production-readiness.md:44`.

Theorems to come: those of the modules above, as they are written; and that
`OfflineQueue` implements a queue in which a request is stored until it is
answered, for as long as nothing is added during a flush (finding 3 is why not
beyond that).
