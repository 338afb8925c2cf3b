# Formal models of the storefront platform

TLA+ models, TLC runs and TLAPS proofs for the parts of this repository whose
correctness depends on the order in which things happen: the life of a merchant's
account, the cart checkout, buy-now orders with their payments and webhooks, the
photos and their quota, backups of a shop that is open, and the dates of a
subscription with their reminders. Paths below are relative
to the repository root; server code is in `src/server`.

## 1. The system

A multi-tenant shop platform: one Next.js web process (dashboard, admin panel,
storefronts), one BullMQ worker process, PostgreSQL with row level security,
Redis (queues and caches) and object storage (R2 or S3).

| Component | State it keeps | Operations | What is hard |
|---|---|---|---|
| Account lifecycle: `billing/`, `export/`, `jobs/suspend-tenant.ts`, `jobs/lifecycle-sweep.ts`, `jobs/purge-tenant.ts` | `tenants.state`, the `subscriptions` row, the archive in object storage, lifecycle jobs | suspend, reactivate, extend, extendRetention, reissueExportLink, export and its announcement, nightly sweep, purge | no lock between read and write; a row, a queue and a blob store changed one after the other; crashes; dead jobs; two suspensions in one day |
| Cart checkout and orders: `orders/checkout.ts`, `catalogue/stock.ts`, `orders/coupons.ts`, `orders/numbering.ts`, `orders/merchant-cart.ts`, `orders/self-service.ts` | products' stock, coupon uses and redemptions, the order number counter, orders | checkout, status change, cancellation by the merchant or the customer, deletion of a coupon | concurrent conditional updates, row locks taken in cart order, a return that commits |
| Transactions: `db/with-tenant-txn.ts` | - | opens a tenant transaction, refuses one being purged | commits whatever is returned |
| Queues: `queues.ts`, `jobs/contract.ts` | jobs by stable id, dead jobs for 7 days | dispatch, retry, forget | adding under the id of a dead job does nothing |
| Buy-now orders and settlement: `orders/index.ts`, the gateway's route | orders, payments | place, change status, settle a gateway notice | repeated, late and reordered notices; an answer that is lost |
| Customers index: `customers/derive.ts` | `customers` totals | increment with the order, rebuild from the orders | a rebuild against increments |
| Webhook outbox: `events/`, `jobs/dispatch-webhooks.ts` | `webhook_deliveries` | emit in the transaction, dispatch, retry, give up | overlapping passes that write by id |
| Media: `media/` | media rows, `storage_bytes_used`, objects | upload, process, delete, sweep | rollback after an enqueue that was given up; overlapping runs; a sweep against runs |
| Backups: `tenant-backup/` | `tenant_backups`, archives, and every table of the tenant | create, build, restore, delete | a dump and a restore against live traffic; a drain of other jobs |
| Reminders and the dates of a subscription: `jobs/lifecycle-sweep.ts`, `jobs/send-reminder.ts`, `jobs/suspend-tenant.ts`, `billing/state-machine.ts`, `billing/index.ts` | `subscriptions` dates, `subscription_reminders`, lifecycle jobs | nightly sweep, send a reminder, suspend, purge, extend, extendRetention, reactivate | jobs act on what last night's sweep read while operators move the dates; lost dispatches |
| Demo accounts: `demo/` | rows of their own | approve, build, expire | stale state |
| Lockout, rate limits, entitlements, delivery quotes, analytics, domains, legal pages, UI | caches, counters, settings | reads and single writes | little that interleaves |

The components meet in the database. A web request or a job opens a
`withTenantTxn`; after the commit it dispatches jobs and touches object storage.
The purge sets `tenants.state` to `purging`, which `withTenantTxn` refuses from
then on: a transaction that was open already is not stopped, and this is where
most of the interesting behaviours of the account come from. `dispatchJob` gives up
after five seconds without knowing whether Redis took the job; uploads and backups
undo their row then, and a job may run all the same.

What makes each component correct:

- account: an archive is offered only for the suspension it was made for; the link
  works; a deleted account leaves nothing in storage; a due purge happens; a
  suspended merchant is told of the archive or somebody is alerted;
- checkout: no oversell; every unit accounted for; a coupon within its budget;
  numbers unique and dense; only legal transitions; every transaction ends;
- settlement: one `Payment` per paid order whoever reports it, announced once, and
  a notice of it acknowledged only when it is accounted for; the customers row is what the
  orders say; a reported payment arrives;
- outbox: a delivery marked delivered was received, one given up was tried as often
  as configured, and every delivery ends;
- media: the counter is the sum of the rows, the plan is not over-admitted, what is
  shown is stored, what was accepted is kept, no tile spins for ever, orphans go;
- backups: a restore puts back a state the shop has been in, with whole orders; an archive
  has its row and a row its archive; rows settle;
- reminders: a merchant is told of a date once, and before being closed or deleted of all that
  was due, what has lapsed is closed and what is paid stays open.

`PROJECT.json` lists the hazards line by line with the properties that cover them,
and says why where none does.

## 2. Modules

| Module | What it is |
|---|---|
| `Account` | the account: one action per statement that can be interleaved |
| `ArchivePromise` | what a suspended merchant is promised, with no mention of how |
| `Checkout` | checkout, status changes, cancellations and coupon deletion as transactions |
| `Shop` | what a shop does for one who sees only what was committed: whole orders, placed and cancelled at one stroke |
| `Sums` | the sum of a function's values, by a fold; `Checkout` and `Media` count with it |
| `Outbox` | the webhook outbox, for one endpoint |
| `Settlement` | buy-now orders, payments, notices and the customers index; extends `Outbox`, whose rows its transactions write |
| `Ledger` | what an order's money promises: recorded once, returned after that, heard of after that |
| `Media` | uploads, the processor, deletes and the sweep, over rows, the counter and storage |
| `Restore` | backups and restores of three tables, with checkouts meanwhile |
| `Renewal` | the nightly sweep, the reminders, and the dates that operators move meanwhile |
| `MC...` | each module for TLC: its instances, explored side by side by one run |
| `...Proofs` | proofs about the module named |

Operators that end in a description of a slip (`StandsAnyRow`, `CoversAlways`, ...)
stand before the definition they would replace and are commented "Mutant of": each
is a plausible bug, and the property named beside it in `PROJECT.json` fails with it.

### Account

State: `state` and `sub` are the Tenant and Subscription rows, `objects` the keys in
storage, `jobs` and `failed` the lifecycle queue and the dead jobs it keeps, `proc`
what each handler (`Requests` in the web process, `Workers` in the worker process)
is doing and what it read. `made`, `told`, `unsaid`, `days`, `shared`, `raced` and `lost` are
history and no action's guard reads them.

- A transaction that loads the row, decides and writes by id is two steps, `BeginX`
  and `CommitX`; `Admits` is tested when it opens, as in `withTenantTxn`. A
  conditional `updateMany` is one step (`Stamp`).
- The export job is `BeginExport`, `ReadPhase`, `Put`, `StampCheck`, `Stamp`,
  `TakeBack`, `AnnounceCheck`, `Announce`; the purge is `BeginPurge`, `Quiesce`,
  `Drain`, `SweepPrefix`, `Delete`. The platform-wide purge lock is not relied on:
  it degrades open by design.
- `gen` numbers suspensions; the storage key is the *day* of the suspension, as in
  `suspensionExportKey`, so two suspensions on one day share it.
- The sweep's two jobs for a missing archive, `retry` and `recheck`, and its `purge` keep one id
  every night, so one that died keeps the next out (`Retained`). A check has one attempt and may
  fail (`VerifyFails`).
- `Crash` kills a handler between any two steps and, for a job, requeues it or
  uses up its last attempt; `BuildFails` is an outage that outlasts every attempt;
  a delete in storage may fail (`lost`); `Forget` is the seven days of `removeOnFail`.
- A dispatch may be lost (`Schedule`, `Sweep`), and that of the jobs in `Undelivered` always
  is: a bound, which keeps the checks and the sweep's `retry` out of `account_safety`, where the
  operator's rebuild is the second export.
- The sweep reads and dispatches in one step (`Sweep`): a stale read is as good as
  a job that waits in the queue, which the model has. `jobs` is a set, because
  every job at issue has an id of its own.

Left out: `activate`, `recordPayment`, demo accounts, hostnames and caches, what a
tombstone contains, sessions and identities.

### Checkout

State: `stock`, `counter`, `uses`, `coupon`, `redeemed` and `orders` as *committed*;
`tx` is the open transaction of each request with its uncommitted writes (`delta`,
`number`, `redeems`). `told` and `leaked` are history (`told` also keeps a customer to
one request).

- One step per statement that can wait for a row. A conditional update whose
  condition fails on what is committed, plus the transaction's own writes, refuses
  without waiting; otherwise it waits for the row's writer (`WaitsFor`) and tests
  the condition again: READ COMMITTED as PostgreSQL does it.
- `RunOut` and `RedeemLost` *commit*: `checkoutCart` returns `{ ok: false }` there and
  `withTenantTxn` commits what is returned. `Expire` (budget, lost connection, a
  throw) and `PersistFails` (the coupon is gone) roll back.
- `Claim` is the conditional `updateMany` of a status. A cancellation gives the units
  back line by line before it commits.
- `Deadlocked` and `Victim` are PostgreSQL's deadlock detection, and `WaitsFor` its
  row locks: external code, modelled from how the updates use it.

Abstractions: a cart names its lines in order and units per product (the code merges
repeated slugs first); one coupon, no per-phone limit (which `coupons.ts:88-94` calls
best effort); prices, addresses, history rows and events are left out, since the
properties do not tell them apart; `Policy` is constant; the customers row, taken after
the counter's, adds no wait that the counter does not; contact edits touch neither
stock nor status; the CHECK constraints of the migrations are left out, so the code
stands on its own.

### Settlement and Outbox

State: `status` and `payments` are the Order and Payment rows, `customer` the one row
of the customers index they concern, `request` what each request (merchant's or
gateway's) has read and still has to do, `sent` and `acked` the gateway's notices and
those it had a 2xx for. `outbox` holds the deliveries, `pass` what each dispatch pass
has read. `overtaken` and `astray` are history, as are `sent` and `heard` of a delivery.

- `changeOrderStatus` is `Press` or `Receive` (the read), then `Commit` (the conditional
  `updateMany`, the `Payment`, the events, in one transaction) or `TooLate`, then the
  rebuild of the customer's totals, `Scan` and `Write`, which runs after the commit in
  statements of its own. `settleOrder` is the same with a notice: it acknowledges once it
  is through, or at once when the notice cannot apply. `Fail` ends a request anywhere.
- A notice may be received again and again, before and after it was answered, and in
  any order once it was sent: this is the lossy, repeating, reordering gateway. It may also
  name one of `Others`, an order of the cart or one that is gone: `changeOrderStatus` looks at
  no channel, finds no legal move, and the gateway is answered 200.
- `dispatchPendingWebhooks` is `BeginPass` (the oldest due rows, read without a lock),
  `Post` and `Record` per row, `GiveUp` for an endpoint that is off, `Die`. `Record`
  writes by id what follows from the attempt count that was *read*.

Abstractions: one customer, one endpoint, each order one unit of money; stock and
numbers of buy-now orders, the flood limit, signatures, the length of the backoff and
pruning are left out; a notice of a failed attempt changes nothing and is left out; so is the
rebuild that refuses because its scan was truncated (`customers/derive.ts`). What is said of
payments is said of buy-now orders: no notice ever moves an order of the cart.

### Media

State: `row`, `used` (`storage_bytes_used`), `objects` in storage, `up` (each upload's
progress), `late` (enqueues given up that Redis may still take), `jobs`, `work` (runs of
the processor), `del` (keys a committed delete has still to remove), `sweep`. `fresh`
and `aged` stand for the two ages the sweep looks at. `skewed`, `released` and `unreached` are
history.

- `ingest` is `Admit`, `Reserve` (locked), `Enqueue`, and on a refusal `Undo` or
  `Rollback` and `RollbackObject`. `processMedia` is `Claim` to `Commit` in one transaction
  that locks the row, with puts outside of it: `Expire` is the transaction that runs out
  (or the job's lock that is lost) while the run goes on writing objects.
- A get that fails is a `Fail`, tried again, in `loadSource` as elsewhere, with one exception:
  once the original is discarded, a get of `full.webp` that fails, for whatever reason, is
  taken for its absence (`LoadUnreachable`). The photo becomes a permanent failure and all its
  objects go; `unreached` remembers which.
- The sweep lists storage and then reads rows (`Judge`), deletes (`Collect`), reads stuck
  rows without a lock and releases them by id (`Release`).
- Storage operations are best effort (`DropMostly`); all outages, crashes, lost answers
  and redeliveries count against `MaxFaults`.

Abstractions: three kinds of object (the original, `full.webp`, the smaller variants as
one); sizes are small numbers; listing, alt texts and products' references are left out.

### Restore

State: `shop` is the committed state of three tables that stand for those of `tables.ts`
in its order (`tenant_counters`, `orders`, `order_items`: the parent that is counted, one
with a unique number, a child with a foreign key); `cart` the checkouts; `row`, `stored`,
`build` a backup's row, archive and job; `click`, `run` a restore's request and run;
`del` a deletion. `past`, `raced`, `abandoned`, `stranded` are history.

- The dump is one step per table (each `SELECT` sees what is committed when it starts),
  `Put`, and `Stamp` at the end. The restore is `Take` (read and verify the archive),
  `Drain`, `Empties` and `Uncounts` (the `DELETE`s, children first), `Reload` with the
  commit, which the constraints may refuse (`Refused`), and `Finish`. `Empties` is the `DELETE`
  of the items and that of the orders in one: an order committed between the two is deleted by
  the second, and the cascade of `OrderItem.order` takes its items.
- A checkout takes its number (and holds the counter's row) and places its order.
- `withPurgeLock` excludes two restores from their transaction on. The code gives the
  lock up after three minutes; that is not modelled.

Left out: the other tables, which only differ in name; the media in an archive,
checksums, and the standalone bundle.

### Renewal

State: `sub` is the Subscription row with its two dates, `rows` the `subscription_reminders`
(for each stage, the date its message named), `jobs` the lifecycle queue and its workers,
`request` what each operator's transaction has read. A date is the n-th that was set and the
nights that are left of it, below 0 once it has passed, down to `-Late`. `told`, `asked`,
`missed`, `brief` and `crossed` are history: of the dates that are set, the messages (a stage
and a date) that were sent, those a sweep found due while the date was to come, those of them
that an outage took or whose job no worker took from one sweep to the next, the dates that
were set so late that no sweep came before they passed, and dates on which two transactions
overlapped.

- `Night` is the passing of a night and the sweep, in one step: the sweep only reads, and
  what it queues waits in `jobs`, so a stale read is a job that waits. A dispatch may be
  lost, and a whole night too (`Fault`). No transaction is open across a night.
- A reminder is `ReadReminder` (the status, and no date, is checked again) and
  `SendReminder`, whose insert into the primary key and message commit together, or
  `SkipReminder` (P2002). A suspension is `ReadSuspend` and `CommitSuspend`, by id. A purge is
  its quiesce, or skipped when the account is active again; `Account` has the rest of it.
- `extend`, `extendRetention` and `reactivate` are a read and a commit, which moves the date
  that was *read* (`Moved`) and frees the stages.
- A reminder that still waits when the account is suspended or deleted ends without a message
  (`ReadReminder`), so a queued job never counts as a warning.

Left out: suspension and purge by hand, `recordPayment` (which extends as `extend` does), demo
accounts, the sweep's batches and its export backstop (`Account` has it), what messages say.
An extension of the retention is by any of `Extensions` and from a date that may have passed, so
it may end in the past (`brief`).

## 3. Runs

| Run | Bounds | Shows |
|---|---|---|
| `account_safety` | 1 request, 2 workers, 2 suspensions, 2 days, no crash; suspend, reactivate, extend, purge, rebuild; the sweep's checks for a missing archive never arrive | two exports of different suspensions, a reactivation and a purge interleave: `ArchiveOnlyWhileSuspended`, `StampedIsStored`, `PurgedLeavesNothing`, `PromiseKept` (refinement of `ArchivePromise`), and `Inductive` |
| `account_live` | 1 request, 1 worker, 2 days, 1 suspension, 1 crash or failed check; suspend, extendRetention, reissue, purge; fair | `DuePurgeHappens`; and `NeverSilent`: the merchant is told or somebody alerted, unless a worker died for good between the stamp and the message (`unsaid`) |
| `checkout` | 3 products (one per policy), 3 carts, 1 coupon use; `rush`: 2 customers and 1 request on their orders; `desk`: 1 customer and 2 requests | `NoOversell`, `StockAccounted`, `CouponBudget`, `NumbersDense`, `ShopKept` (refinement of `Shop`), `Inductive`; and, fair, `TransactionsEnd` |
| `settlement` | `shop`: 2 orders, 2 requests, 1 failure; `cart`: 1 order, 2 requests, and notices of an order that is not among the buy-now orders; `outbox`: 2 passes, 2 attempts, 1 death | `PaidOnce`, `PaymentsAnnounced`, `AckedIsAccounted`, `IndexExact`, `EndedRightly`, `LedgerKept` (refinement of `Ledger`), `Inductive` |
| `settlement_live` | the same with 1 order, fair | `PaymentArrives`, `DeliveriesEnd` |
| `media` | 2 tries; `pair`: 2 photos (one does not decode), room for one, 1 run at a time; `left`: 2 that no run takes, 1 fault, the sweep; `alone`: 1 photo, 2 overlapping runs, 2 faults, the sweep | `QuotaExact`, `QuotaHeld`, `ReadyIsStored`, `AcceptedKept`, `ShownStays`, `Inductive`; and, fair, `TilesSettle`, `OrphansSwept` |
| `restore` | 1 backup, 2 checkouts, 2 restores, deletions, 1 fault; or 2 backups, 1 checkout | `OrdersWhole`, `ArchivesOwned`, `ReadyIsStored`, `PutBack`, `Inductive`; and, fair, `BackupsSettle` |
| `renewal` | periods of 2 nights, retentions of 3, extensions by 1 or 2, dates to 2 nights past; reminders from 2 nights on and again from 1, room for 2 jobs, 2 tries; `fault`: 1 request, 1 fault; `overlap`: 2 requests | `WarnedOnce`, `ClosedAfterWarning`; and, fair, `LapsedCloses` |

Every bound is a constant named in the `.cfg`. Two of a kind are enough to race: two
workers hold archives of two suspensions; two customers want the last shirts, the
last coupon use and the next number; two requests claim one order; two suspensions
and two days give both a shared key and two different ones; two passes hold one
delivery; two uploads want one quota; one fault makes every single step the last. The
carts make stock run out at a first line and at a later one, take rows in opposite
orders (deadlock) and include a line that is not tracked. Two media faults are needed
for a run that lost its transaction to meet a second one that fails too, and for an outage after a
commit that was lost. A retention of three nights holds a night before the first reminder, one for
each stage and the one on which the date passes; a date two nights past, extended by one, stays
past, and by two ends that night; two requests and two jobs overlap in every pair. What the
bounds leave open for safety, the proofs of section 4 cover for the properties listed
there.

Several instances in one run: the full product of, say, notices and dispatch passes is out
of reach and says little, since one writes rows and the other posts them. `world` is chosen
in the initial state and keeps each instance to its part; the fairness of the MC modules
is stated within it.

`CHECK_DEADLOCK FALSE`: a deleted account has nothing left to do and the calendar is
bounded; each customer makes one request and each photo is uploaded once; orders reach
terminal statuses; requests to back up and restore, and to move dates, are bounded.

Fairness:

- `account_live`: weak, on the steps of a started handler, the sweep of each kind of job,
  taking export and purge jobs, the check (which may fail), dropping a job that is refused, forgetting a
  dead one and the passing of the export window: these are what BullMQ's worker and the
  repeatable sweep provide. None on the operator, on the calendar or on the success of a
  build.
- `checkout`: strong on a transaction's next step, because PostgreSQL queues the
  waiters of a row, and weak on the choice of a deadlock's victim. The deadlock is
  reachable, so the run is not vacuous.
- `settlement_live`: weak on the steps of a started request or pass, on the beginning of a
  pass (a repeatable job) and on time passing for the backoff; strong on receiving a notice
  that is not acknowledged, because the gateway repeats it and requests come and go. None
  on the customer, the merchant or the gateway sending a notice in the first place.
- `media`, for the photo that is alone: weak on an upload's next step, Redis taking what it will take, the runs,
  the daily sweep and the passing of an hour and of a day. None on deletes.
- `restore`: weak on a checkout's commit, the build (its job is retried), a started request,
  a run and the second half of a deletion. None on asking for any of them.
- `renewal`: weak on nights coming (the repeatable sweep), on a waiting or started job and on
  the answer to a request that began. None on operators, and none on a dispatch succeeding:
  faults are bounded instead.

### Where the code and its documentation disagree

Each is a run of its own in which TLC finds the sentence violated.

| Run | The sentence | What happens |
|---|---|---|
| `account_reactivated` | `purge-tenant.ts:41-43`, "reactivation is meant to win" | a reactivation that had read the row before the quiesce commits after it; the deletion does not look at the status again |
| `checkout_refused` | `checkout.ts:267-268` and `:340-341`, the whole checkout rolls back | a refusal after stock was spent is returned and therefore committed: earlier lines stay spent, or the order itself stays |
| `restore_numbers` | `numbering.ts:20-24`, no duplicate number, "a 500 on a customer's checkout" | a checkout commits between the dump (or the deletion) of the counter and of the orders; after the restore the counter hands out a number that is taken, the checkout rolls the counter back, and so does every later one |
| `renewal_early` | `state-machine.ts:9-11`, "active --currentPeriodEnd passed--> suspended", "suspended --retentionUntil passed--> PURGED"; and `send-reminder.ts:65-66` on a merchant "who paid this morning" | the suspension that the sweep queued, or a retry of it, asks for the status only and suspends an account that was extended since; a purge asks for no more (`DatesDecide` has a conjunct for each, and each fails by itself) |

The properties of the passing runs are stated around these and their like: they say what
is true in spite of them, with the exceptions named and tracked exactly (`shared`, `raced`,
`unsaid`, `lost`, `leaked`, `astray`, `skewed`, `released`, `unreached`, `abandoned`, `stranded`,
`crossed`, `missed`, `brief`). TLC finds a trace when
`unsaid`, `unreached`, `brief` or the ways out of `AckedIsAccounted` are taken out of their property.

Seen while reading or modelling, with no run of their own:

- account: a worker that dies on its last attempt between the stamp and the announcement leaves
  the merchant untold and nobody alerted (`unsaid`): `verifySuspensionExport` is content with any
  `exportKey` (`suspend-tenant.ts:229`) and the sweep selects rows without one, against
  `lifecycle-sweep.ts:197-199`, where without the backstop "the merchant would receive nothing,
  silently";
- account: an extension granted after the sweep does not defer the purge
  (`billing/index.ts:857`, against `docs/PHASES.md:720`); a stamp between reactivate's read and
  write leaves a stray archive (`billing/index.ts:604`); two suspensions on one day share an
  archive key (`export/index.ts:600`, against its 575-576); a raced purge that dies after its
  quiesce leaves a live account `purging`, which no sweep selects;
- settlement: every refusal of `changeOrderStatus` is answered 200, of which
  `orders/index.ts:650` says "`illegal_transition` here means "already settled"": it is also what
  a paid notice of a cancelled order gets, or of any cart order, since nothing filters the
  channel, and `not_found` what one of a deleted order gets; no `Payment` is recorded and the
  notice is not repeated (the ways out of `AckedIsAccounted`);
- checkout: a coupon redeemed between the count and the delete of `deleteCoupon` loses its
  redemption; saving the product form writes back an old stock;
- media: a commit lost after the original was discarded "is closed on the retry by
  `loadSource()`, which re-encodes from `full.webp` instead of declaring the photo missing"
  (`process-upload.ts:424-427`); but when that retry's get of `full.webp` fails for a moment, the
  failure is swallowed (299), the photo is declared missing and every object of it deleted,
  `full.webp` included (`unreached`);
- media: `rollbackIngest` gives the quota back whether or not it deleted the row
  (`upload.ts:190-193`), and the release of stuck items takes off bytes that a run has
  replaced meanwhile (`cleanup-orphans.ts:252-267`); variants of a failed photo are not swept
  while its row stays;
- backups: "nothing was changed" (`tenant-backup/index.ts:220`) is said though the job may
  still run; a retry after a reported failure ("was left as it was") may restore after all;
  the drain strands other backups `pending` or `restoring`, and a `restoring` row refuses
  every later restore; a backup deleted while it is built leaves an object under a prefix no
  sweep visits; payments lose their order on a restore (`Payment.order` is `SetNull`);
- dates: `extendRetention` adds to the old date (`billing/index.ts:634`), which may have passed, so
  the new one may have passed too and no sweep warns of it (`brief`), though the reminders are
  reset "so R-7 and R-3 fire again against the NEW date" (`billing/index.ts:644`);
- dates: two extensions that overlap read one date and lose a period (`billing/index.ts:228`);
  one that overlaps a suspension moves the period of a suspended row; a stale reminder sent
  after a renewal names the new date and spends its stage early.

## 4. Proofs

All by TLAPS, for every value of the constants under the named assumptions:
`AccountAssumption`, `CheckoutAssumption`, `OutboxAssumption`, `SettlementAssumption`,
`MediaAssumption`, `RestoreAssumption` and `RenewalAssumption`. They say that requests of two
kinds are disjoint and bounds are natural numbers, sizes positive ones; that customers, orders
and photos are finitely many, and so have a sum; that a cart has one line per product
(`checkout.ts:169-171` merges repeated slugs) and buys nothing without a line; that an order of the
cart is no buy-now order; and that the value that stands for no row is no row.

Every safety invariant and every action property that a passing run checks is a theorem.
Where a property is not inductive by itself, which is nearly always, the theorem rests on the
module's `Inductive`, which the runs check as well (`renewal` does not).

`AccountProofs`

- `TypeCorrect`: every variable keeps its type.
- `ArchiveTheorem`, `PurgeTheorem`, `StampedTheorem`: `ArchiveOnlyWhileSuspended`,
  `PurgedLeavesNothing` and `StampedIsStored` always hold.
- `PromiseTheorem`: `Account` implements `ArchivePromise`.

They rest on `Inductive`. "The account's key belongs to the current suspension" is not
inductive by itself: a handler between its read and its write carries a suspension
that may be over, so `RowSound` and `HandlersSound` say what such a handler may still
hold. For the purge, `Quiesced` says every other transaction is refused and
`SweptClean` that, once the prefix was swept, a key in storage belongs to a handler
that will take it back.

That an offered archive is in storage has to know who may take one away. `DatesSound` says
that the day of a suspension names its archive: whoever builds or takes back carries the day
of the suspension it read, two suspensions have two days unless `shared`, and a reactivation
that still has to discard holds no day of a suspension that followed it. `ArchivesKept` then
says that nobody holds the day of the suspension that stands in order to remove it, and that
whoever is about to stamp has put its archive there.

`CheckoutProofs`

- `InductiveHolds`: `Inductive`, of which `TypesTheorem` takes the types.
- `OversellTheorem`, `BudgetTheorem`, `NumbersTheorem`, `StockTheorem`: `NoOversell`,
  `CouponBudget`, `NumbersDense` and `StockAccounted`.
- `ShopTheorem`: `Checkout` implements `Shop`; `TransitionsTheorem`, `OnlyTransitions`, says
  what follows for the status of an order.

No oversell is not inductive by itself: the stock only changes at a commit, long
after its condition was tested. `StockHeld` says that what each open transaction took
still fits, and `Exclusive` that a row has one writer, so a commit cannot take away
what another transaction has tested; `UsesHeld` and `NumbersHeld` do the same for
the coupon and the counter. `OpenOnce` separates checkouts from requests on orders,
and `Claimed` says a claimed order stays as it was read, from which the transitions
follow. `Budget` and `Numbered` add the count of redemptions and the density of the
numbers, by induction over the same steps.

`StockAccounted` is a sum over all orders, and a commit changes one of them: `UnitsMoved` says
that what a transaction has moved is exactly what the lines it is past have, `CartsRead` that
the cart it gives back is the one that was placed, and `SumChange` of `SumsProofs` does the
rest. `LinesSound` adds that nothing else is moved, and that a refused checkout stands at a
line that blocks; with it each commit is one step of `Shop`, and every other step is none:
statements, locks, deadlocks and rollbacks are invisible to one who sees only what was
committed, except for the lines that a refused checkout keeps (`Spill`).

`SumsProofs`

The sum of a fold changes by what one value changes, is a number, and is zero if all are.
Induction over finite sets takes an operator as a parameter, which is out of reach, so the
lemma on which they rest argues by a smallest set that is a counterexample.

`OutboxProofs` and `SettlementProofs`

- `Invariance`: `Inductive`, for any number of orders, requests, notices, passes and rows.
- `PaidOnceHolds`, `PaymentsAnnouncedHolds`, `AckedIsAccountedHolds`, `IndexExactHolds`,
  `EndedRightlyHolds`: the properties of those names.
- `KeepsTheLedger`: `Settlement` implements `Ledger`.

`AckedIsAccounted` has three ways for a paid notice to be acknowledged: the `Payment` is
recorded, the order was cancelled, or it names an order that is not among the buy-now orders,
which the code refuses and answers 200.

That an order is paid once needs to know what a request holds between its read and its
update: `RequestsSound` says that the move it read is legal and that an order read as
anything but pending never is pending again. `EndedRightly` needs `PassesSound`: the attempt
count a pass read is at most the number of posts, so a row is never given up early, whatever
the other pass wrote. `IndexExact` is carried by the requests that have scanned: one that
nothing overtook holds exactly the totals. `OutboxProofs` proves the outbox's part step by
step, and `SettlementProofs` uses it for the steps of the dispatcher.

`RenewalProofs`

- `InductiveHolds`: `Inductive`, for any number of operators and jobs and any lengths.
- `AskedInTimeHolds`: `AskedInTime`, from `Inductive`.
- `WarnedOnceHolds`, `ClosedAfterWarningHolds`: the properties of those names.

Neither is inductive by itself, because a reminder writes a date it has read before.
`HeldSound` says that this date is the row's own or one on which two transactions overlapped;
`RowsSound` and `ToldSound`, that the reminder rows and the messages agree, so a free stage has
not been told; `Numbered`, that a date that is set is not one of them. `ClosedAfterWarning` is
about what has been sent when the account is closed: every message that a sweep found due for
the date that has passed, apart from `missed` and `crossed`. While the date is to come, `AskedSound`
says that such a message was sent or that its job waits; `WarnedInTime`, that it was sent once the
date has passed, for a job that no worker took until then is `missed`. That a message was asked
for at all is `AskedInTime`, an invariant of its own: the sweep of the last night before a date
finds the last stage due, unless the date was set so late that no such night came (`brief`).
Without that exception the property fails, in the model and in the code.

`RestoreProofs`

- `InductiveHolds`: `Inductive`, for any number of checkouts, backups, requests and rows.
- `OrdersWholeHolds`, `ArchivesOwnedHolds`, `ReadyIsStoredHolds`, `PutBackHolds`: the
  properties of those names.

`BackupSound` follows a dump from table to table: what it has read is whole, or its items are
still in the shop, and as long as nothing committed in between it is the shop of one moment in
the past. `ClickSound` says the same of the archive that a run reloads, and that the tables it
has emptied stay empty; `OneRestores` is what the lock gives, and without it two runs would
empty and reload through one another. `ShopSound` closes the circle: what the next dump reads is
one of the past again.

`MediaProofs`

- `InductiveHolds`: `Inductive`, for any number of photos, runs, sizes and plans.
- `QuotaExactHolds`, `QuotaHeldHolds`, `ReadyIsStoredHolds`, `AcceptedKeptHolds`,
  `ShownStaysHolds`: the properties of those names.

`PhotoSound` ties a row to its upload, its enqueue and its jobs; `RunSound` says what a run
holds while its transaction has the row; `SweepSound` what the sweep read may still be used
for. A photo is sound in this sense until a run gives it up because `full.webp` was out of
reach (`unreached`): `ReadyIsStored` and `AcceptedKept` are stated, and proved, with that one
outage as a way out besides the sweep's release. `QuotaExact`
is a sum over all photos, and `QuotaHeld` needs its exceptions by name:
`skewed`, `released`, and a photo that came out larger than its upload.

Only model-checked: liveness, which is out of the prover's reach (`DuePurgeHappens`,
`NeverSilent`, `TransactionsEnd`, `PaymentArrives`, `DeliveriesEnd`, `TilesSettle`,
`OrphansSwept`, `BackupsSettle`, `LapsedCloses`).

## 5. Plan

In this order:

1. Account: demo accounts, the stranded purge, an extension that the due purge ignores, sole
   memberships.
2. Checkout: a policy that changes, the product form, a customer who submits again,
   contact edits.
3. Pure functions against reference definitions: delivery quotes, tax, coupons.
4. Proofs: abstract specifications of `Media` (what a gallery promises) and of `Restore` (a
   shop that goes back to a state it was in), as `Shop`, `Ledger` and `ArchivePromise` are for
   the others.
