# Eunoia backend: TLA+ specification

This directory specifies the stateful core of the Eunoia administrative backend (NestJS, TypeORM, PostgreSQL): stock
and the documents that move it, sale orders and their workflows, production, the money of clients and of suppliers,
purchases. Each module is translated from the code; `PROJECT.json` maps each definition to the lines it models. Paths
below are relative to `src/src/modules`, unless they start with `src/`.

## 1. The system

| Part | State it keeps | Operations | What is hard | What makes it correct |
| --- | --- | --- | --- | --- |
| Inventory documents (`product-catalog`) | one balance row per warehouse and stock item, ledger, documents, series | register, draft, process, receive | concurrent transactions, lock order, rollback, numbering | on-hand equals the ledger; never below what is reserved; each document posted once; dense numbers |
| Unlocked stock writers (`product-catalog`) | the same rows | reserve or release materials, set a balance | no transaction and no lock | balances stay valid |
| Sale order stock (`workflow`, `sale-orders`) | reservation mark, history, OUT and IN documents | transition, update, total correction, rollback, delete, restore, retry | long sequences of legal calls by several orders on one row | units conserved, consumed once, reservations match the orders |
| Workflow revisions (`workflow`, `sale-orders`) | revisions, drafts, tests on real orders | draft, edit, test, publish, repair; orders created, assigned, moved, rolled back | publication while orders move | one revision in force, no order left behind by its publication |
| Production orders (`production`) | status, reserved materials, timer | create, edit, start, close, cancel, timer, start-up | calls outside the transaction, timers, restarts | posted once, materials released, what was started ends |
| Income and credits (`income`, `sale-orders`) | payments, allocations, credit, refunds, bank lines | register, edit, confirm, reject, apply, refund, reconcile; order cancellation | what one payment backs is spent in several ways | money conserved and never spent twice |
| Idempotent commands (`income`, `sale-orders`) | idempotency records | any financial command | retries that overlap, fail or lose their answer | once for a key |
| Financial outbox (`income`) | events, attempts | publish, retry, dead-letter | emission before commit, several processes | sent or dead-lettered |
| Evidence uploads (`sale-order-attachments`, `income`) | operation row, files, attachment | upload, recover, isolate, recover from quarantine | crashes between file and row, leases | evidence names the image that was sent |
| Payables and payments (`accounts-payable`, `payments`) | payment documents, allocations, quota, balance | draft, submit, approve, reject, void, post, delete | six queries without a transaction | the balance adds up |
| Purchases (`purchases`, `purchase-receptions`) | status, receptions, stock, timer | review, send, receive, confirm, cancel | unlocked reads, timer against user, restart | statuses tell what came |
| Recurring purchases | template, payable per period, reminders | generate, pay, pause, cancel, edit, daily job | stale copies saved whole | no period skipped |
| Everything else | catalog, clients, suppliers, companies, users, sessions, reports, mail, PDF | CRUD, queries, I/O | little | see section 7 |

How they interact. A use case that writes usually runs in `TypeormUnitOfWork.runInTransaction`
(`src/src/shared/infrastructure/typeorm/typeorm.unit-of-work.ts`), at PostgreSQL's READ COMMITTED: each query sees
what is committed when it starts, and rows that were read without FOR UPDATE may change at any time. Posting a document
locks its series row, its document row and one advisory lock per line. Sale order services lock the order's row, then
the advisory locks of its balance rows in sorted order. Production reserves materials through
`ReserveProductCatalogMaterials` and posts documents outside its own transaction. A reception posts an IN document
inside its own. Payments and delivery dates move orders back through
`SaleOrderPaymentWorkflowReconciliationService`. Financial operations write outbox rows and idempotency records in the
transaction of the change. Timers of production and purchases live in the memory of the process and are set again at
start-up; the daily job, the outbox publisher and the upload recovery worker are scheduled.

## 2. Modules

| Module | What it is | Extends / uses |
| --- | --- | --- |
| `InventoryTx` | documents and balances as concurrent transactions, one step per query | |
| `InventoryLedger` | abstract: a document moves its whole quantity in one step | refined by `InventoryTx` |
| `InventoryTxInvariant`, `InventoryTxProofs` | the inductive invariant and the refinement mapping, the proofs | `InventoryTx` |
| `UnlockedStock` | the writers that take no lock, beside the postings | `InventoryTx` |
| `SaleOrderStock` | stock life of sale orders, one transaction per step | |
| `WorkflowRevision`, `WorkflowRevisionProofs` | revisions, drafts, tests, publication | |
| `ProductionOrder` | production orders between their separate commits | |
| `OrderProofs` | proofs about both | `SaleOrderStock`, `ProductionOrder` |
| `IncomePayments` | the money of one client | |
| `IdempotentCommand` | the idempotency records, one database step at a time | |
| `OnceOnly` | abstract: what an idempotency key promises | refined by `IdempotentCommand` |
| `FinancialOutbox` | rows and publishers | |
| `FinancialProofs` | proofs about both | `IdempotentCommand`, `FinancialOutbox` |
| `EvidenceUpload` | uploads, files, lease, worker | |
| `IncomeProofs` | proofs about incomes and their evidence | `IncomePayments`, `EvidenceUpload` |
| `SupplierPayments`, `SupplierPaymentsProofs` | payments of one payable, query by query | |
| `PurchaseOrder` | one purchase, its timer, its receptions | |
| `RecurringPurchase` | one template, its payables, the daily job | |
| `PurchaseProofs` | proofs about both | `PurchaseOrder`, `RecurringPurchase` |
| `Sums`, `SumTheorems` | sums over finite sets, and what is proved of them | |
| `MC...` | the instances that TLC checks | the module they are named after |

Grain. Where the code locks the rows it decides on before it reads them, an operation is one step (`SaleOrderStock`,
`IncomePayments`); `InventoryTx` and `IdempotentCommand` examine such locks query by query. Where it reads without a
lock or commits several times, each read and each commit is a step of its own (`UnlockedStock`, `ProductionOrder`,
`SupplierPayments`, `PurchaseOrder`, `RecurringPurchase`, `WorkflowRevision`, `EvidenceUpload`), so that everything
that may come between is checked. A refusal or a thrown error of a one-step transaction is no step: it leaves nothing.

Operators marked "Fault" are deliberate errors, each a plausible slip in the code; putting the fault in the place of
the operator it stands beside makes TLC report the property that `PROJECT.json` names under "mutants". No
specification uses them. Variables marked "history" or "ghost" record what happened for a property to
speak about; counters of faults and calls are bounds.

### How state and actions correspond to the code

**InventoryTx.** `row` is table `pc_inventory` as committed; `ledgerNet` and `batches` the ledger as sums and numbers of
batches; `status`, `correlative`, `nextNumber` the documents and series; `tx[c]` the transaction of handler `c`: its
step, what it read, its uncommitted writes, its locks. `Begin` is a request to `register-inventory-movement`,
`transfer-between-warehouses`, `process-inventory-document` or `receive-inventory-transfer`; `TakeNumber` is
`reserveNextNumber`; `LockDocument` is `findByIdForUpdate` and the status checks; `NextLine`, `LockKey`, `ReadBalance`
are the loop over the lines; `SaveSelect` and `SaveUpdate` the two queries of `Repository.save`; `Commit` the ledger
batch, the new status and COMMIT; `DeadlockVictim` and `Rollback` any way a transaction can die. A transaction sees
its own writes and the committed rows of others. Left out: the calendar check of a transfer, switching a series off,
collisions of the advisory lock's hash, creating a missing stock item on the fly.

**UnlockedStock.** `call[m]` is one call of `reserve-materials` or `upsert-inventory-balance`: `CheckLine` the first loop
of the reservation, `ReadForIncrement` the read of `incrementReserved`, `SelectForSave` and `UpdateNow` its save.

**SaleOrderStock.** `order[o]` is the row of `sale_orders`, its history folded into the two values the code derives from
it (`replay`: `hasActiveReservation`; `policy`: `resolveStockStatus`), and its OUT documents not yet reversed (`open`).
`Advance` is a transition, by a user or automatic, `Update` a save of the order with
`SaleOrderStockCorrectionService`, `Correct` a rollback caused by a total, payment or date, `Deactivate`,
`Reactivate`, `SetLoteActive` deletion, restoration and the switch of an import batch, `RetryReservation`
`retryActiveReservation`, `Move` a document of another source. Conditions that choose a branch may come out either
way. Lists of stock actions are restricted to `Plans`. A restored order keeps its state without its stock, as in the
code.

**WorkflowRevision.** `rev` is the rows of one family in `workflows`, `test` the active rows of
`workflow_draft_test_sessions`, `order[o]` an order's revision (0 outside the family) and whether its state is final,
`req[r]` a request with the row it read and the order rows its transaction wrote. `OpenSource`, `ReadFamily`,
`InsertDraft` create a draft; `ReadEdit`, `Save` save an edit over the whole row; `OpenTest`, `StartTest`, `RevertTest`
test a draft on an order; `ReadDraft`, `ListTests`, `RevertOne`, `ListPending`, `Migrate`, `Publish` publish it.
`CreateOrder` is a creation or an assignment and `ChangeWorkflow` an edit that names another workflow: both take any
revision by its id, drafts and archived ones too, without a test, as the use cases do (`Assigns`). `Advance` is a
transition or the rollback after a payment, from a final state too. What states and conditions lead to is data: an order
may get to any state. `direct` remembers the orders put on a draft by its id, `touched` those that others wrote while a
publication was between its list of tests and its commit.

**ProductionOrder.** `Request` is a user's start, update, cancel or close, `AutomaticRun` the closing by the timer,
`Mark`, `Reserve`, `Commit`, `Write`, `Release`, `PostOut`, `PostIn`, `Finish` the steps between their separate commits;
`TimePasses`, `TimerFires`, `ExtraTime` the scheduler; `Crash`, `Restart`, `Listens`, `BootTimer`, `BootRun` the process
and `ProductionOrderExpectedBootstrap`; `Error`, `EditRecipe`, `TakenElsewhere` what goes wrong or changes meanwhile. A
date further away than a `setTimeout` can wait is `"far"`.

**IncomePayments.** One action per operation of `ManageIncomePaymentsUsecase`, of the order's cancellation
(`CancelOrder`, with any resolution of its payments), the correction of its total and the saving of its form.
Append-only tables are kept as the sums that the queries compute. `ApplyRead`, `ApplyCredit` and `ApplyRejected` are
the one operation whose statement may be older than the lock it was granted.

**IdempotentCommand.** `att[a]` is one call, `rec` the committed records, `holder` uncommitted insertions. `Insert` waits
while another call holds the key, then either takes it or reads the record; `FindPrior` is how a cancellation looks
for its record, before or after its order's payments are known. `Throw` and `Lose` are rollback and a broken
connection.

**FinancialOutbox.** `Write` is `writeAuditAndOutbox`, `Start` the query of `runOnce` (due rows in order, SKIP LOCKED,
LIMIT), `Serve` one emission, `CommitBatch` the outcome, `LoseBatch` a transaction that dies after it emitted,
`RetryDeadLetter` a user's retry.

**EvidenceUpload.** `op` is the row of `payment_evidence_upload_operations`, `att` the attachment, `disk` the files. A
call goes through `FindPrior`, `Acquire`, `Stage`, `Save`, `Promote`, `Verify`, `Persist` and their error paths, the worker
through `Claim` ... `WorkerPersist`, the recovery from quarantine through `KeeperSave` and `KeeperPersist`. `exists` and
the read that follows are one step; `lease_until` and `updated_at` grow old together; the lease does not say who holds
it, as in the code.

**SupplierPayments.** `Load` and `Save` are the read and the save of a payment by `edit`, `submit`, `approve`, `reject` or
`void`; `Allocate`, `ReadQuota`, `AddToQuota` what an approval does next; `Sum`, `Select`, `Write` the recalculation of
the payable; `Check`, `Delete`, `Book`, `Commit` the two operations that run in a transaction. The quota starts with
`Opening`, any amount up to the total: creating a purchase stores the paid total that the request names, with no payment
behind it (`purchases/.../create.usecase.ts:349-368`).

**PurchaseOrder.** An operation is its reading (`Send`, `Process`, `Expect`, `Confirm`, `Receive`, `Cancel`, `Review`) and
everything else (`CommitSend` and so on). A reception of which nothing is accepted moves no stock, so no lock of a
series orders it, and is three steps (`ReadTotals`). `Fire`, `AddExtraTime` and `Reboot` are the timer. `Breaks` is a
request, or a run of the timer, that fails at a query: the transaction leaves nothing, but a timer it had set or cancelled
stays so (`TimerAfter`), and the timer of a run that failed is forgotten. `lost` says that the run came too early or
failed and that no timer was set since.

**RecurringPurchase.** `tpl` is the template; `req[r].row` the copy that a request read and will save whole. `Generate`,
`Register` and `Run` (the daily job) come to `Open`, `Commit` and `Pay`; `Remind`, `Notify`, `Record` are the
reminders; `Restart` ends a run. A period is `Len` days, and the last day repeats as the bound of time.

## 3. Runs

All are exhaustive. Distinct states in brackets.

| Run | Instance | What it shows |
| --- | --- | --- |
| `inventory` (16,490) | 2 handlers, 3 documents, 2x2 rows, 2 series | ledger, balances and documents agree; implements `InventoryLedger`; every request is answered |
| `saleorder` (466,872) | 2 orders, 2 warehouses, the seeded ENVIO workflow and a second one, an import batch | stock conserved, consumed once, known to the edit policy, reservations kept |
| `production` (233,807) | 2 orders, 1 worker, 1 fault | materials, postings and timers agree with the status; what is started ends |
| `income` (2,540,800) | 2 orders, 2 payments, 1 refund, 1 bank row, amounts 1 and 2 | money is conserved and never spent twice |
| `command` (152,192) | 3 calls, 2 keys, 2 requests | implements `OnceOnly`; no false refusal; every call answered |
| `outbox` (624,756) | 2 publishers, 3 rows, batches of 2, 2 attempts | sent once unless lost; rounds complete; delivered |
| `evidence` (784,150) | 2 calls, 2 images, a crash, a damaged write | evidence is the image that was sent; a stored file becomes evidence |
| `payments` (1,113,044) | 2 requests, payments of 2 and 1 on a payable of 2, a quota that opens with 1 | the balance adds up; the quota counts only its opening and what is allocated |
| `purchase` (982,034) | 2 requests and the timer, any of which may fail, 2 receptions of a purchase of 2 units | statuses and stock tell what came; what was sent is asked about unless its timer is lost |
| `recurring` (377,732) | 2 requests and the job, 2 days a period, 4 days | no period skipped; no recorded reminder resent; what is due is generated |
| `workflow` (262,497) | 2 requests, 1 order, 3 revisions | one revision in force, one draft, whole publications |
| `unlocked_race` | 4 calls, 2 documents, 3 items | violated: see section 5 |

What the properties say:

- `inventory`: `BalanceMatchesLedger` (the kardex adds up), `BalanceValid` (no oversell, `available` never stale),
  `PostedOnce` (ledger batches are those a document's status stands for), `ImplementsLedger` (each commit is one whole
  posting, numbered densely; nothing else moves stock), `RequestsEnd`.
- `saleorder`: `StockConserved`, `ConsumedOnce`, `PolicyCoversStock`, and `ReservedKept`: a transaction that starts with the
  reserved column equal to what the orders expect ends so, but for the exemptions it names (section 5).
- `production`: `HoldsWhatItNeeds` and `PostedOnceClosed` (start, close and cancel compute what they move each anew and
  must agree), `InProgressIsWatched` (no order in progress without timer, launched run or operation), `StartedEnds`.
- `income`: `PaymentConserved` (a posted payment is applied, credit, or refund, to the last cent), `CreditNotOverspent`,
  `ClosedHoldsNothing`, `ReconciliationSound`, `CancellationSettles`.
- `command`: `KeepsPromise` (refinement), `NoFalseRefusal`, `Answered`.
- `outbox`: `SentOnceUnlessLost`, `RoundsComplete`, `Delivered`.
- `evidence`: `EvidenceKept`, until a live call outlives its lease; `StoredWhatWasSent`; `RecoveredOrGivenUp`.
- `payments`: `PayableBalanced`, `QuotaWithinAllocated` (what the quota counts above its opening is allocated), both under
  every overlap and failure; `PaidIsPosted` for requests that neither overlapped nor failed.
- `purchase`: `ReceptionStatusTrue` (requests may overlap as long as each reception moves stock); `StockAsRecorded`
  (requests one at a time, with restarts); `SentIsAwaited`: a purchase that was sent does not stay so, unless the run of
  its timer failed or came before the commit, and until a timer is set again.
- `recurring`: `NoPeriodSkipped`, until somebody edits the due date; `RecordedNotResent`; `DueIsGenerated`.
- `workflow`, all until an edit is saved over a row that changed since it was read: `OneCurrent`; `OneDraft`;
  `DraftsOnlyInTests`, of the orders that nobody put on a draft by its id; `PublicationComplete`: at the commit of a
  publication every order in flight is on the new revision and in no test of it, except those that somebody else wrote
  while the publication was between its list of tests and its commit.

Bounds. Two actors show every race of a pair, and the hazards listed in `PROJECT.json` are races of pairs. Two items
make locks cross, two warehouses make a transfer, and the third document of `inventory` shares series and stock with
the others. Opening stock covers either of two documents but not both, and orders ask for more than there is, so
checks refuse in some interleavings and accept in others. Amounts of 1 and 2 against totals of 1 and 2 give exact,
partial and excess payments, and two payments on one order or one on two. In `command` a third call makes a waiter
behind a waiter. Three outbox rows and batches of two leave one row behind the others, and `MAX_ATTEMPTS` of 2 has a
first and a last attempt. In `workflow` three revisions allow a draft beside an archived and a current one, and one order
meets every pair of requests; the theorems cover any number. Named bounds of environment events: `MaxFaults`,
`MaxCrashes`, `MaxDamage`, `MaxRetries`, `MaxLosses`, `MaxCorrections`, `MaxCalls`, `MaxRestarts`, `MaxDay`, `MaxPayables`, `MaxOnHand`, `MaxRevision`. One failure is enough to cut an
operation at each of its steps; where the theorems of section 6 apply, no bound matters. Symmetry is used only where
no run of that instance checks liveness.

Fairness and why the code justifies it:

- `inventory`: a handler goes on awaiting its queries (weak). Waits for a lock are strongly fair since PostgreSQL
  grants locks in queue order; the deadlock detector runs after `deadlock_timeout`. No fairness of beginning or dying.
- `production`: the clock moves, queries return, due timers fire; a launched run is a promise in the event loop, which
  requests do not keep waiting for ever (strong); the process manager restarts the process. Extra time for ever would
  postpone the timer: `MaxFaults` bounds it, with the failures.
- `command`: queries of a call return (weak).
- `outbox`: each process has its interval timer, and back-off times pass.
- `evidence`: requests run on, the recovery worker has its schedule, and five minutes pass.
- `purchase`: a request or a run that is under way ends, and a timer that is set goes off: nobody adds extra time for
  ever. Whether a run succeeds is left open: no fairness prefers its commit to its failure.
- `recurring`: the daily job's schedule, and what runs goes on. Failures are finitely many.

## 4. Where a property is conditional

A property that names an exemption does so because the code breaks it there; section 5 says what happens inside the
exemption. Stale saves, overlaps and late processes are steps of the models and are not assumed away: a property is
checked of every state outside its exemption, those after such a step included where the exemption does not name it.

Two theorems about `SaleOrderStock` assume more than the run: `[]RestoresUnreserved`, no order takes a transition with
the action RESTORE while it is reserved. RESTORE on an order that is reserved and has nothing to bring back is skipped
by the code, which keeps the mark and yet records the reversal, so that the edit policy would miss the reservation. The
seeded workflows have no RESTORE; the instance of `saleorder` has one, in a workflow where only consumed orders can
take it, and meets the condition. `OneLocation(home)` is a condition of the theorems about stock of `InventoryTx`
(section 5).

## 5. Disagreements met while modelling

The run `unlocked_race` keeps one as a counterexample: `reserve-materials.usecase.ts:45` writes without the lock that
postings take, and reserved can exceed on-hand, which `validateInventoryBalance` refuses of every balance.

The others were counterexamples of a property as a comment, a message or a test of the repository states it; the
modules still contain the behaviour, and the property kept is the one that holds beside it.

Stock and production
- The key of `pc_inventory` has no location, but `getSnapshot` treats a row of another location as absent
  (`inventory.typeorm.repo.ts:148-164`): a posting at a second location replaces the first one's units. The theorem
  `StockCorrect` therefore assumes `OneLocation`.
- `hasActiveReservation` ignores history entries without a transition: an order that reserved, was rolled back with its
  reservation released, and is then cancelled releases units of another order. A cancelled order whose history passed
  a payment condition is moved back among the live ones by a later payment change, without a reservation. Both are
  exemptions of `ReservedKept`. Switching an import batch off does not look at its stock.
- Start and cancel of a production order read it without locking and write without looking again: a start overwrites
  a cancellation. Two closings at once both post (`close.usecase.ts:30`). The instance therefore has one worker.

Money of clients
- `postBatch` computes the room on an order from the order's own payments (`manage-income-payments.usecase.ts:575`):
  credit of another payment applied to it is not counted. It also counts the excess of its own earlier rows twice
  (line 573). The sum of `applyCustomerCredit` can be older than the lock it waited for (line 673). In all three,
  allocations exceed the total, or credit appears that nobody confirmed; every cent still lands somewhere.
- `cancelOrReverse` negates every positive allocation although a corrected total had released part of it (line 1186):
  allocations of an order can sum to less than zero.
- A save of the form can lower a total without releasing what is allocated; the correction of a total ignores payments
  of other orders; credit applied to an order stays when that order is cancelled; the room for amounts moved by a
  cancellation counts them twice; a pending transfer compares an income's identifier with an order's (line 367).
- A call that outlives its lease after promoting its file deletes the only copy when the worker recorded it first
  (`upload-sale-order-attachment.usecase.ts:300`), and may set a completed operation back. A call reads the income's
  state before the upload only, so evidence can be recorded on an income posted meanwhile.

Suppliers and purchases
- An approval saves a payment as POSTED before the balance is looked at (`approve.usecase.ts:152`), so posted money may
  exceed the total, and stays so. A payment approved in between is deleted although posted (`delete.usecase.ts:51`).
  Overlapping recalculations leave a stale balance. Voiding leaves the quota's paid total, deleting a pending payment
  lowers it, and a stale save can set a status back or insert a deleted row again.
- A quota can count money that nobody paid: creating or editing a purchase stores the paid total of the request
  (`purchases/.../create.usecase.ts:349-368`, `update.usecase.ts:409-413`), with no payment or allocation. The model
  starts from any such amount; the edit, which replaces the quotas, is left out.
- The timer of a purchase is forgotten when its run begins or ends, whatever the run's outcome, and an error is only
  logged (`purchase-order-expected-scheduler.ts:14-28`, `purchase-order-expected-bootstrap.ts:26-28`): after a query that
  failed the purchase stays SENT and is not asked about until a restart, another sending or extra time (`lost`).
- What is pending is checked when a reception is written down and not when it is confirmed; two confirmations of one
  reception both enter stock; a confirmation that moves no stock writes over totals that changed; receptions, sending
  and the timer overwrite a cancellation. Approval and rejection of a purchase at once leave the payments with one
  decision and the purchase with the other.
- Cancelling a purchase looks for payments with status APPROVED while the payments module posts them as POSTED
  (`cancel.usecase.ts:96`). It sets the pending amount of an open payable to 0 with nothing paid, which a CHECK of the
  database refuses, so the cancellation fails. Cancelling a PARTIAL purchase leaves its stock, and cancelling a
  RECEIVED one takes the ordered quantity back rather than the accepted one. A confirmation of the whole purchase
  enters the whole quantity after partial receptions too.
- Two generations at once open one period twice. Saving the whole template writes ACTIVE over a cancellation.
  Generating moves the due date on, so a registered payment never finds the period generated last, and the reminder
  of day 0 finds nothing. A restart between a notification and its record sends it again. An update that moves the due
  date into a generated period stops the daily job's generation for good.

Workflows
- An edit that read a draft before its publication saves it as a draft again (`stale` in the model). An order created
  or moved during a publication may stay on the old revision (`touched`); the repair endpoint is for that.
- "Los borradores deben poder ejecutarse unicamente dentro de una sesion de prueba. La seleccion normal de pedidos sigue
  limitada a revisiones publicadas y vigentes" (`save-full-workflow.usecase.ts:549-550`). Only the client's list
  (`workflow.typeorm.repo.ts:223-234`) is so limited: creation, assignment and edit of an order accept any active
  workflow by its id (`sale-order/create.usecase.ts:156-163`, `assign-sale-order-workflow.usecase.ts:37-41`,
  `sale-order/update.usecase.ts:294-319`), drafts, which are active, and archived revisions included, and an edit moves
  an order out of its test while the test stays active. `direct` exempts such orders from `DraftsOnlyInTests`.
- After a publication an order in flight may again be on an archived revision: a creation or an edit names one, the
  revert of a test restores one, and the rollback after a payment takes an order that had ended, and was therefore not
  migrated, from its final state to an earlier one of its own revision
  (`sale-order-payment-workflow-reconciliation.service.ts:52-174`). No invariant says that orders stay on the revision in
  force; `PublicationComplete` speaks of the moment it comes into force.

## 6. Proofs

Checked by TLAPS, for every value of the constants that the named assumptions allow:

| Module | Theorem | Statement |
| --- | --- | --- |
| `InventoryTxProofs` | `TypeCorrect`, `DocumentCorrect`, `PostingOnce` | types; locks exclusive and statuses stable; `[]PostedOnce` |
| | `StockCorrect`, `BalanceStaysValid` | if `OneLocation(home)`, `[](BalanceMatchesLedger /\ BalanceValid)` |
| | `ImplementsTheLedger` | if `OneLocation(home)`, the refinement of `InventoryLedger` |
| `OrderProofs` | `StockIsConserved`, `ConsumedOnceAlways` | `[]StockConserved`, `[]ConsumedOnce` |
| | `PolicyAlwaysCovers`, `ReservedAlwaysKept` | while `[]RestoresUnreserved`: `[]PolicyCoversStock`, `ReservedKept` |
| | `StartedIsWatched` | `[]InProgressIsWatched` |
| | `ReservedAsNeeded`, `PostedOnce` | while `[]OneAtATime`: `[]HoldsWhatItNeeds`, `[]PostedOnceClosed` |
| `IncomeProofs` | `CreditSafe`, `AccountsAgree`, `ClosedIsEmpty`, `CancellationSettled` | `[]CreditNotOverspent`, `[]LedgerMatchesStatus`, `[]ClosedHoldsNothing`, `CancellationSettles` |
| | `EveryCentKept`, `BankAgrees` | `[]PaymentConserved`, `[]ReconciliationSound` |
| | `EvidenceKeptAlways`, `StoredWhatWasSentAlways` | `[]EvidenceKept`, `[]StoredWhatWasSent` |
| `FinancialProofs` | `OnceForAKey`, `OneResult`, `RetriesWelcome`, `KeptPromise` | `[]AtMostOnce`, `[]AnswersAgree`, `[]NoFalseRefusal`, the refinement of `OnceOnly` |
| | `SentOnce`, `RoundsAreComplete`, `PublishedStays` | `[]SentOnceUnlessLost`, `[]RoundsComplete`, `PublishedForGood` |
| `SupplierPaymentsProofs` | `PayableAlwaysBalanced`, `QuotaHoldsAllocated`, `AlonePaidIsPosted` | `[]PayableBalanced`, `[]QuotaWithinAllocated`, `[]PaidIsPosted` |
| `PurchaseProofs` | `NoPeriodSkippedAlways`, `RecordedNotResentAlways` | `[]NoPeriodSkipped`, `[]RecordedNotResent` |
| | `ReceptionStatusTruthful`, `StockOfPurchases` | `[]ReceptionStatusTrue`, `[]StockAsRecorded` |
| `WorkflowRevisionProofs` | `OneCurrentAlways`, `OneDraftAlways`, `DraftsOnlyInTestsAlways` | `[]OneCurrent`, `[]OneDraft`, `[]DraftsOnlyInTests` |
| | `PublicationCompleteAlways` | `PublicationComplete` |
| `SumTheorems` | `SumUpdate` and its lemmas | changing one element of a function changes its sum over a finite set by the difference |

The arguments:

- `Sums`. The library's induction theorems cannot be used here, so each lemma takes a smallest finite subset that
  refutes it and removes one element: strict inclusion of finite sets has no infinite descent. `SumUpdate` is what
  the other modules cite: an operation that changes one payment, order or line changes a total by that much.
- `InventoryTx` has four layers. `TypeInv` adds to the types which fields of a transaction are set at each step.
  `DocumentInv`: locks are exclusive, and a transaction whose document was accepted still holds the document's row lock,
  so the status it checked is the one it commits over. `StockInv(home)`: what a transaction wrote to a row equals the
  committed balance plus what it will add to the ledger (`Wrote`), what it computed from a read is still right
  (`Computed`), and in both cases it holds the row's advisory lock. `LedgerInv`: what a transaction will add to the
  ledger and the lines it has yet to post make up its document's share of each row (`Counts`), and it writes back
  the reserved units it found (`KeepsReserved`). A commit then is one whole operation of `InventoryLedger`, and every
  other step is invisible there.
- `SaleOrderStock`: each operator takes a world to a world, and for each there is a lemma that says what it leaves.
  `Moves` says that the units of a row on hand or out for the order stay what they were; it chains, so a transaction of
  any length keeps them, and `SumUpdate` turns this into `StockConserved`. `Settled`, kept by every transaction, says
  that the open OUT document is for what the order needs now; `Known` that the policy takes an order with one for
  consumed. `PolicyInv` adds that a marked order is one the policy takes for reserved. For the reserved column each
  operator has a second lemma: it stays `Exactly` what the orders ask, or is so outside the order's rows
  (`Elsewhere`) until the reconciliation that always follows.
- `ProductionOrder`. `WatchInv` speaks of every order in progress and of every start about to commit, since the timer is
  set before the commit: it is in the queue of start-up, has a timer or a launched run, is being closed by the automatic
  run, or that run has failed. It holds of all interleavings. `QueueInv`: an order which start-up has still to visit is
  in progress and only start-up works on it. `SoundInv` says, for each step, what an operation has done to its
  order so far (`InStep`), and that an order at which nothing has been committed since the operation began is
  at rest (`AtRest`); an operation cut short before that leaves it there, one cut short later makes it diverge.
  `SoundInv` needs `OneAtATime`: no two operations work on one order at the same time. The use cases do not ensure that
  (section 5 has what follows), so it is a condition of both theorems; other orders may be worked on at the same
  time, which the run, with its one worker, does not show. With one worker it always holds (`OneAfterAnother`).
- `IncomePayments`: `MoneyInv` joins types, accounts, credit, closed payments and the fact that a refund belongs to a
  payment; credit alone is not inductive, since giving a refund back must find its payment posted. `CentInv` adds to it
  that nothing is applied of a payment before it is posted, without which posting would not add up.
  `ReconciliationSound` is inductive beside `MoneyInv`.
- `IdempotentCommand`: `CommandInv` says that an uncommitted insertion belongs to the one call that executes
  (`HolderInv`), that a visible record describes the one execution (`RecordInv`), and that answers follow from records,
  which never change (`AnswerInv`). Each database step then maps to a step of `OnceOnly` or to a stutter.
- `FinancialOutbox`: `OutboxInv` adds that publishers hold disjoint rows which stay unpublished while held, so what a
  commit writes follows from what the query saw.
- `EvidenceUpload`: `LooseInv` holds whatever the leases do: what the row, the evidence and each process's copy name, and
  that the file saved from quarantine, which no call writes, has the image of its row (`CopyInv`). `SoleInv` holds until a
  lease expires under a process at work (`late`). The lease does not say who holds it, so `SoleInv` says that one process
  at most is past its claim, and that what this one found a file to hold stays so until it has written the evidence.
- `SupplierPayments`. `BalanceInv`: what a request is about to write adds up, and it writes `paid` and `pending` together
  or neither, so no mixture of two saves can disagree. `QuotaInv`: the quota, and every copy of it a request has read,
  is at most its opening and what is allocated, less what an approval has yet to add; `Holders` says that of two
  approvals of one payment one allocates, so no payment is added twice. `AloneInv` follows the one request at work from its save to its write.
- `RecurringPurchase`: the invariant speaks of every copy of the template that may still be written. Each is `Sound`:
  every period before its due date has its payable. Counts of payables never fall, so a stale copy stays sound. The
  theorem holds until the due date is edited, and `[Next]_vars` never takes that edit back. `RemindInv`: what the job is
  about to notify of was not recorded since it looked, because nothing else records and a day has one run at a time.
- `PurchaseOrder`. The totals that a reception reads are sums over the confirmed receptions, so `SumUpdate` says what the
  confirmation of one adds. `ReceptionsInv`: what a request is about to confirm has been written down. `SerialInv`, while
  requests have not overlapped: one request at most is in progress, the reception it confirms is still a draft, and the
  status it computed from the totals is the one they give now.
- `WorkflowRevision`: `OneDraft` rests on revision numbers. A request about to insert a draft knows that all smaller
  numbers are taken and, while its own is free, that nobody else made a draft (`Numbered`); two creators computed one
  number, and the unique index refuses one. `CurrentInv` rests on the index of the revision in force,
  `DraftsOnlyInTests` on `Placed` and on what a publication has written (`Written`). All of it holds until `stale`.
  `PublicationInv` says of each publication at work and each order outside `touched` what is still owed to it
  (`Followed`): its test of the draft is listed or reverted, and once the orders in flight are listed it is listed too, or
  placed, or has ended. Another publication that commits meanwhile is of the same revision and has done what this one
  owes, or is of another and its orders are marked. When the revision comes into force nothing is owed.

Assumptions are the `...Assumption` of each module: types of the constants, sets that are summed over are finite, what
the use cases validate of a request, valid balances at the start, no-value constants that are none of the values, names
that are no calls or orders. `RestoresUnreserved` is a condition of two theorems, explained in section 4, and
`OneAtATime` of two others, explained above.

Every invariant that a passing run checks is one of these theorems. Model-checked only: liveness and ENABLED, which the
prover does not reach (`RequestsEnd`, `StartedEnds`, `Answered`, `Delivered`, `RecoveredOrGivenUp`, `SentIsAwaited`,
`DueIsGenerated`), and `UnlockedStock`, whose one run is a counterexample.

## 7. Not modelled

The map covers a small share of the repository's 140,000 lines, because most of them hold no state that steps of
several actors share: controllers, DTOs, queries, filters and saved searches, spreadsheet import and export, PDF and
mail, entity mappings, and CRUD of single rows with one validation. `PROJECT.json` names each such part and why.

- Sessions: a refresh compares and overwrites one token hash of one row. No statement in the repository goes beyond
  what that update does.
- Realtime reactivity only triggers transitions and retries, which `SaleOrderStock` lets happen at any time.
- Deadlocks between tables (a cancellation locks order then payments, an income edit the payment then the order) make
  PostgreSQL abort one transaction, which leaves nothing, like any other error.
- In modelled parts: version numbers and permissions (refusals without effect), currencies, the workflow move that
  follows a payment, approval requests of production, waste, PATCH of a purchase (it may write any status), payments
  without a payable or quota, the amount of a draft, cancellation of a payable with its purchase, replacement of
  earlier evidence, uploads to a corrected posted income, amounts and texts of templates, the conditions inside
  workflows.
