# Verification of purelyprofit-server

TLA+ models of the server, TLC runs that check them on small instances, and
TLAPS proofs of the properties that matter most. Paths in this text are
relative to the repository; `purely-club/`, `purely-profit/`, `purely-pulse/` and
`queue/` are directories of its `src/`; `scan-ordering` without a prefix is
`src/purely-club/scan-ordering` (the customer's side) and
`src/purely-profit/operations/scan-ordering` (the merchant's side).

1. [The system](#1-the-system)
2. [Modules](#2-modules)
3. [Runs](#3-runs)
4. [Proofs](#4-proofs)
5. [Where code and comments disagree](#5-where-code-and-comments-disagree)
6. [What is not modelled](#6-what-is-not-modelled)
7. [Plan](#7-plan)

## 1. The system

A NestJS server with three products in one process image: `purely-profit` (the
merchant's back office), `purely-club` (the customer's mini-program) and
`purely-pulse` (the platform operator's view). State is kept in PostgreSQL
through Prisma, under READ COMMITTED except for four Serializable transactions
of the SMS part. Redis holds locks, drafts of orders and caches; BullMQ (on
Redis) holds jobs. Several instances run side by side, so every handler may
interleave with every other, on another machine as well.

Concurrency is controlled in four ways, and most of the hard behaviour is where
two of them meet:

- *optimistic versions*: `updateMany` with `version` (and often `status`) in
  the `where`, `count === 0` means conflict;
- *conditional updates*: a quantity or a status in the `where`;
- *Redis locks* with a time to live and no renewal: per order for payments (30
  seconds), one per job for the timers;
- *unique constraints*: idempotency keys, payment numbers, refund numbers.

### Components

| Component | State | Operations | Hard behaviours | What makes it correct |
|---|---|---|---|---|
| Order life cycle (scan-ordering) | `scan_orders`: status, paymentStatus, version, deadlines | place, pay, cancel, expire, accept, serve, complete, archive, reject, refund | customer, merchant, two timers and the callback change the same row | a path through the stages that nobody leaves or repeats; version discipline; nothing overdue stays |
| Payment (scan-ordering) | payment attempts, balance transactions | WeChat checkout, balance payment, settlement by callback or by the customer's page, late payments | a checkout is five statements without a transaction; notifications repeat, come late, in any order | paid means money moved; a capture is never forgotten; settled once |
| Callback queue (`payments`, `queue`) | BullMQ jobs, dead letters, order lock | enqueue, try, fail, give up | redelivery, lock contention, exhausted tries | a job reported done has recorded its payment; every job ends |
| Refunds (scan-ordering) | refund tasks, sale refunds | reject, time out, retry, confirm by hand | three commits per refund, a remote call in the middle, crashes | money goes back only for an order being refunded; task, order, books and goods agree |
| Stock of menu products | stock, reserved, sales, version; `products.stock` | reserve, deduct, release, restore, edit | many orders share a row; release decides by the row's total; edit is check-then-write | not oversold; goods add up; sales match |
| Sale orders | sale, items, refunds | create on serving, refund | written by other flows at other moments | one sale per served order, refunded exactly with its order |
| Manual entry | orders typed by the merchant | place, round up, settle | own stock rules, same tables | as above |
| Sessions, tables, pickup numbers | sessions, participants, tables, a counter per store and day | enter, leave, clear, archive, assign | archive races new orders | no open order in an archived session; numbers unique |
| Club payment (recharge, vouchers, service orders, cards) | draft in Redis, rows in PostgreSQL, lock, callback job, the order at WeChat | create, call back, verify, settle, reconcile, expire, refund | three stores of state written one after the other; a lock that expires; snapshots read before it; a draft that vanishes | booked once, whatever is retried; no paid order forgotten; the draft never ahead of the books |
| New-customer quota | counters per store | gate, consume, recharge | concurrent first visits | consumed once per customer, not below zero |
| Platform payments, membership | orders, subscriptions | pay, call back, reconcile, apply | callback races reconcile | applied once per payment |
| SMS broadcast | wallet, recharge orders, tasks, a row per recipient | recharge, adjust, charge, send, resume, refund | charged in a transaction, sent outside of it; overlapping dispatches; four ways to refund; an answer that never comes | the wallet adds up and is never overdrawn; a recharge is credited once; every text is sent or refunded, once |
| Withdrawals | requests, balance | request, approve, reject, pay | state machine with money | balance never negative, terminal states final |
| Spaces | reservations, sessions | open, settle, automatic checkout | job races cashier | one open session per space, settled once |
| Locks and caches (`redis`) | lock keys, cached values | acquire, renew, release; load, refresh, invalidate | expiry while working; refresh races invalidation | mutual exclusion within the time to live; no stale value after invalidation settles |

The components interact through the database rows they share (an order's row,
its attempts, its task, a product's row), through the callback queue, and
through events to screens, which carry no state the server reads back.
`PROJECT.json` lists every component with its files and its status, and every
hazard with its line and the properties aimed at it.

### The core: an order and its money

```
            LoadPayable .. MarkCreated             UserPays (WeChat)
 customer ───────────────► attempt ───────────────► captured ──► job ─┐
    │  PayByBalance                                   BeginVerify     │
    ▼                                                     │           ▼
 pending_payment ───────────────────────────────► settlement (lock, read … write by id)
    │ CustomerCancel, ExpireUnpaid, MerchantCancel        │
    ▼                                                     ▼
 cancelled ◄─ late payment: refund task        pending_acceptance ─Accept─► preparing ─Serve─► served ─► completed
                                                     │  RejectMark/Task/Sale   │ TimeoutMark/Task/Call/Finish
                                                     ▼                         ▼
                                                 refunding ──CompleteRefund──► rejected
```

### A club order and its money

```
 draft (Redis) ── WeChat ── row (PostgreSQL)            which of them, and in which order, depends on the kind
      │              │ Pay
      │              ▼
      │           captured ──► callback ──► job ──► Worker ─┐
      │              │                                      ├─ Load ─ WriteBack ─ Ask ─► Load ─► Enter (lock)
      └──────────────┴──► StartVerify (poll, admin, job) ───┤                                      │ Commit / RollBack
                     └──► ScanClose (expired recharges) ────┘                                      ▼
                                                                                     MarkPaid ─► Leave (unlock)
```

### An SMS broadcast and its money

```
 recharge ─► PaidCallback ─┐            Lookup ─► ChargeTask ─► Send ─► PersistRow* ─► Count ─► UpdateTask ─┐
 platform ─► Adjust ───────┼─► wallet ◄───────────┘   ▲                                                      ▼
 refunds ──────────────────┘                          └── LoadTask ─ Resume ◄─ repeated request,      ScanRefunds ─ RefundRecipient*
    ▲ RefundRecipient, ManualRefund                            │                recovery job (stale)        ▲
    └──────────────────────────────────────────────────────────┴── Exhaust (attempts used up) ─────────────┘ daily scan
```

## 2. Modules

| Module | What it is |
|---|---|
| `ScanOrder` | one order: row, attempts, WeChat's side, callback jobs, settlement, merchant, refunds, crashes; properties |
| `ScanOrderPromise` | what an order promises: stages and books, nothing else |
| `ScanOrderInvariants` | the facts that make the safety properties inductive |
| `ScanOrderProofs`, `ScanOrderMoney`, `ScanOrderTheorems` | proofs: types; what each step does to the money; the theorems |
| `ScanOrderBounds` | proofs: how far a late settlement and a stale version reach |
| `ScanStock` | menu products, linked inventory and the orders that share them; properties |
| `ScanStockPromise` | one number of free goods per product |
| `ScanStockTotals` | proofs: sums over orders, and how one order changes them |
| `ScanStockProofs` | proofs about the stock |
| `ClubPayment` | one club order of any of three kinds: creation, WeChat's side, callback job, lock, settlement, expiry; properties |
| `ClubPaymentPromise` | what a payment promises: nothing granted unpaid, granted once |
| `ClubPaymentProofs` | proofs about the payment |
| `SmsWallet` | the wallet: balance, totals, the platform's adjustments |
| `SmsRecharge` | one recharge of the wallet; properties |
| `SmsBroadcast` | one broadcast with its dispatches and refunds; properties |
| `Sms` | the three together on one wallet; properties |
| `SmsRefusals` | `Sms` with a history of what the provider refused in so many words; the property of a finding |
| `SmsPromise` | what the wallet promises: never overdrawn, paid once, what is kept only shrinks |
| `SmsProofs` | proofs about wallet, recharge and broadcast |
| `MCScanOrder`, `MCScanStock`, `MCClubPayment`, `MCSms`, `MCSmsRefusals` | small instances for TLC |

### ScanOrder and the code

One order is enough: every handler is keyed by one `orderId`, and what orders
share is `ScanStock`. The order starts as `createOrder` leaves it:
`pending_payment`, version 0, goods reserved.

*Granularity.* A transaction whose first write compares status and version is
one action. That is sound because the version only grows: if it matches at the
write, it matched at every earlier read of the transaction, so reads and write
could have happened together. Everything else is cut where the code is cut:

| Code | Actions | Cut because |
|---|---|---|
| `createWechatPayment` | `LoadPayable`, `CloseStale`, `AssertNoActive`, `InsertAttempt`, `MarkCreated` / `PrepayFails` | separate statements, no transaction |
| `confirmOrderPaidByCallback` | `BeginQueued` / `BeginVerify`, then `ConfirmPaid`, `AnomalousPayment` or `CallbackFails` | one transaction, but it reads first and updates by id at the end |
| `initiateRefundFlow` (merchant's rejection) | `RejectMark`, `RejectTask`, `RejectSale` | three commits |
| `initiateAutoWechatRefund` | `TimeoutMark`, `TimeoutTask`, `TimeoutCall` / `TimeoutCallFails`, `TimeoutFinish` | commits and a remote call |
| `retryAutoWechatRefund` | `RetryScan`, `RetryPick`, `RetryCall` / `RetryCallFails`, `RetryFinish` | scan, compare-and-set, remote call, completion |

*State.* `status`, `payStatus`, `version` are the row; `deadline` says whether
the current stage is overdue; `attempt` and `channel` are the attempt rows
(ids in the order of `createdAt`); `wx` is what WeChat knows of an attempt's
payment number; `job`, `tries` are its callback job; `callback` is the settlement transaction
that holds the order's lock; `request`, `reject` and `worker` are the places of
the flows that commit several times; `balance`, `settled`, `sale`, `stock` are
the ledgers; `task` is the newest refund task with its trigger, retry count and
a number that tells it from an earlier one. `overrides` is a history
variable: how often a settlement overwrote an order that had moved on.

*Abstractions.* Amounts are not modelled (an attempt is for the whole order and
the settlement compares amounts before it writes); goods of an order move
together; time is one bit per stage; a refund at WeChat is idempotent by its
refund number. Left out of the order's steps because no property reads them:
points of the refund, coupons, notifications, caches, printing, history rows.
The retry delay of the refund job only orders scans that are free here to come
at any time.

*Crashes.* `CrashRequest`, `CrashReject`, `CrashWorker` end a flow between two
commits, `CallbackFails` rolls a settlement back (database error, process death,
disabled customer). `MaxCrashes` bounds the former.

### ScanStock and the code

A product's row (`mode`, `stock`, `reserved`, `version`, `sales`) and the shared
inventory behind a linked product. Placing an order is `Price` (outside the
transaction), `ReadStock` and `Reserve` / `Refuse`, because
`reserveMenuProductStock` reads first and updates by version later.

Accepting (`confirmDeductionInTransaction`), closing an unpaid order (the closure
service) and giving back (the refund services) are transactions. Each takes its order's
row by a compare-and-set, reads the lines with the *modes* of their products, without
locking those (`BeginAccept`, `BeginClose`, `BeginRefund`; `seen` is what was
finite), and then updates the product rows one by one. A merchant may set a stock
in between, and the transaction goes on with the mode it read. Under READ
COMMITTED an update that finds its row keeps its lock until the commit, so the
updates that hit, and the commit, are one action (`Accept`, `Close`, `Refund`). An
update that finds no row locks nothing, and what it did not find may be there
when the transaction commits: `Miss` is the update by `reservedQuantity >=
quantity` that hit nothing, `Skip` the following one by `stockMode = 'finite'`
that hit nothing either. `RollBack` is any error, a deadlock included. The two
halves of a merchant's stock edit (`EditRead`, `EditWrite`) are apart because
the code has no transaction around them.

Accepting and giving back look at the row's *total* reservation
(`reservedQuantity >= quantity`), not at whose it is; `Covered` translates
that. `MerchantCancel` forgets the reservation and `Revive` is the settlement
that overwrites an order which has moved on, both as in `ScanOrder`, of whose
statuses `phase` keeps what stock depends on. The settlement updates by id, so
the order may have been cancelled, but also accepted or refunded; afterwards it
waits for acceptance again, whatever became of its goods. It happens once per
order, which `ScanOrder` proves (`SettledAtMostTwice`), and an order brought back
is paid, so it is no longer closed as unpaid (`MayBeUnpaid`). Specification
options, several lines of the same product in one order and orders typed in by
the merchant are left out.

`base` and `budget` are history variables: what stock and free goods were when
the stock was last set. `raced` holds the products whose edit lost its race
against a reservation, `revived` the orders brought back, and `caught` per product
the orders that were under way, and did not know of a stock (`Unaware`), when it was
last set. `Committed` sums the quantities of the orders that hold goods. A
merchant's cancel keeps the order's reservation, so a `lost` order holds goods
as well; that the code never gives them back is finding 4.

### ClubPayment and the code

One order, since draft, row, lock and job are all keyed by its number. `kind`
says what it has: a recharge a draft and a row, a voucher a row only, a service
order a draft only. The order of a membership card paid through WeChat is
created, claimed and verified like a voucher's (placed, inserted, no lock, a
conditional update inside the transaction), so `voucher` stands for it too. (The
card's claim has a branch of its own that throws for an order in any other state
than unpaid or paid. No commit leaves such an order: `runSettlement` alone
writes the status, `unpaid` to `pending` to `paid` inside one transaction.) `stage` walks through the creation, whose writes come in a
different order for each kind and may stop between any two.

A *session* is whoever runs the settlement code: the queue's worker, a
verification (customer's poll, administrator, reconciliation job) or the
expiration scan. It moves through `pc`; `snap` is the order status it loaded
and `confirmed` whether it holds a confirmed payment. A Redis command, a
transaction and a call to WeChat are one action each:

| Code | Actions |
|---|---|
| `getDraftByOrderId`, `normalizeDraft`, `restoreDraftFromOrderStore` | `Load`, `WriteBack`: reading an expired draft rewrites it, a missing one is rebuilt from the row, both without a condition |
| `verifyAndSettle`, `confirmPaidOnWechat` | `Ask`: an expired recharge is worth asking for, another expired order is not |
| `completePaidDraft` | `AlreadyPaid`, `Enter` / `Refused` (lock), `Commit` / `RollBack` (transaction), `MarkPaid` (draft), `Leave` (finally) |
| `claimPaid`, the voucher's conditional update | `Claims`, evaluated inside `Commit` |
| `handleWechatCallback`, processor, `recordRetryExhausted` | `CallbackArrives`, `StartWorker`, `Failed`, `JobAfterFailure` |
| `expireOneOrder`, `markExpired` | `ScanClose`, `MarkExpired`; a refused close sends the scan to the settlement code |

`LockExpires` takes the lock of a dead session, and of a session in `Slow` at
any moment. `Rebind` changes the store's collection account: a callback for
the old one is then refused, a verification asks the wrong account, and a close
finds no such order and counts as done. `LoseDraft`, `Fault` and `Crash` are
Redis' two hours or its restart, a call that fails, and a process that dies.

`settled` counts bookings. Amounts are compared before anything is written and
left out; so are points, bonus and the arithmetic of a booking.

### SmsWallet, SmsRecharge, SmsBroadcast and the code

The three ways to change the wallet inside somebody else's transaction are
operators of `SmsWallet` (`Credit`, `Consume`, `GiveBack`), used by the actions
of the other two; `Sms` composes the modules on one wallet. Every transaction on
the wallet is Serializable, or compares in its `where`, so it is one action.

`SmsRecharge`: `placing` walks through `createRechargeOrder`; `poll` is the
status request that closes an expired order at WeChat first and then marks the
row, with a callback free to come between; the credit's claim takes any status
but `paid`.

`SmsBroadcast`: a session is a request with the task's idempotency key, the
recovery job or the daily refund scan. A dispatch is `Send`, one `PersistRow`
per recipient, `Count`, `UpdateTask`, `ScanRefunds`, one `RefundRecipient` each,
because each is a statement or transaction of its own; `resumeDispatch` reads
the task (`LoadTask`) before its pending rows (`Resume`). `verdict` and `seen`
are what has been counted and not written yet. Nothing excludes two dispatches
at once: the recovery job takes a task whose row has not changed for a minute
(`stale`) for stuck, whoever is still sending it. The provider may accept,
refuse, or say nothing about each number, or the request may fail, of which nobody
knows whether the provider took it (`Answers`); `Recorded` is what the code makes
of it: a failed request counts as a refusal. `denied` is the history of both.
A refund run takes `MaxRefundPerRun` rows, the lowest ids first (`Batch`): the
run at the end of a dispatch those of its task, the daily scan those of all tasks.
A row of which nothing is left to refund, because the whole charge went back by
hand, is found by every scan again; `older` counts such rows of earlier tasks,
which come before this one's. `AskManualRefund` computes the
administrator's amount before the transaction (`claim`), `ManualRefund` is the
transaction. All recipients have the same price (one text, one number of
segments per recipient). Left out: delivery receipts, `sentSmsCount`, quotes, logs.

## 3. Runs

`scan_order` — one order, one checkout request at a time, one run of the timeout
job, 3 attempts, 2 tries per job, 2 retries, 1 crash: 3.2 million states. Three
attempts are what it takes for the longest story: one paid and given up, a
second paid, a third from the balance. Two tries let a job fail, come again and
die; two retries let one fail with a retry left and one without.

| Property | What it says |
|---|---|
| `PaidIsBacked` | paid or refunding only with a succeeded attempt behind which money moved |
| `CaptureAccounted` | a recorded capture belongs to a paid order, a refund, or a cancelled order with an open task |
| `DoneMeansRecorded` | a callback job that is done has recorded its payment |
| `RefundOnlyWhenRefunding` | WeChat gives money back only for an order being refunded or rejected |
| `BooksMatch` | one sale for a served order, a refunded one for a rejected order, none otherwise |
| `GoodsMatch` | goods are reserved until the order is accepted, deducted then, and go back exactly when it ends unserved |
| `DamageBounded` | a settlement overwrites the order at most once; points and consumption are written once, or twice after that |
| `RefundVersions` | the timeout job's version never matches again, a retry's only while the order is still being refunded |
| `RetryHasOwner` | a task in `refunding` is in the hands of a running job, crashes aside |
| `RefundingHasTask` | an order in `refunding` has its task, or a flow about to insert it, crashes aside |
| `FlowsAgree` | what checkout, settlement, refund and retry may assume of each other at every moment |
| `VersionGuardsStatus` | a step that changes a status raises the version, except the archiving of served orders |
| `KeepsPromise` | the order implements `ScanOrderPromise` |

`CaptureAccounted`, `BooksMatch` and `GoodsMatch` are stated for histories in
which no settlement overwrote a moved order (`overrides = 0`). The exception is
real behaviour of the code (finding 1); without it the properties are false, and
with it they show that nothing *else* breaks them. `KeepsPromise` has no such
exception: `ScanOrderPromise` contains the late settlement as a step of its own
(`EndSettle`) and so says how far the damage goes: the order becomes `paid`, at
most once per settlement begun while it was open, and the books stay.

`scan_order_live` — the same order with 2 attempts and fairness.

| Property | What it says |
|---|---|
| `UnpaidExpires` | an unpaid order does not outlive its deadline |
| `LateOrderLeaves` | a paid order not accepted or served in time leaves its stage |
| `CallbackEnds` | a queued job is done or a dead letter |
| `TimeoutRefundEnds` | a timeout refund ends, or its task fails for good, crashes aside |

*Fairness.* `ExpireUnpaid`, `TimeoutBalance` and the timeout job are started by
interval timers every 60 seconds on every instance
(`setInterval` in the two expiration services), so a step that stays enabled is
taken. BullMQ's workers run queued jobs, and a settlement transaction ends by
commit or rollback (it has a timeout). Customers, merchants, WeChat's
notifications and crashes owe nothing. No step is assumed to *succeed*: the call
to WeChat may fail every time, which is why `TimeoutRefundEnds` has the failed
task as an outcome.

`scan_stock` — two orders of sizes (1,2) and (2,1) on a product of the menu's own
and a linked one with 3 of stock each, one edit, one order brought back (`MaxRevivals`):
3.2 million states.
The sizes make a reservation cover one order's line and not the other's, which is
what the release heuristic turns on; one edit and two orders are what a stale mode,
a missed reservation and a third party's row take. A third order is beyond TLC
with open transactions; the theorems cover any number.

| Property | What it says |
|---|---|
| `NoOversell` | own finite products are never reserved beyond their stock, lost edits aside |
| `GoodsAddUp` | free goods and held goods are as many as when the stock was set, whatever path each release took; only orders brought back add to them, and only orders caught by the setting of the stock put them wrong, each at most by its own quantity |
| `SalesMatchStock` | what left a finite stock is what the sales count says, up to the quantities of the caught orders |
| `KeepsPromise` | the counters implement `ScanStockPromise`, in which an order that is unaware of a stock may get it wrong once |

`GoodsAddUp` and `SalesMatchStock` without the orders of `caught` are false of the
code: an acceptance that read the product as unlimited counts a sale which left no
stock when the merchant sets one before it commits.

`club_payment` — one recharge, voucher order or service order; the worker, the scan and one
verification; 2 tries, 1 mishap (crash or failed call), 1 change of the
account: 1.1 million states. Three sessions are what a stale snapshot, a second
entry and a third party's write-back take. The worker and the verification are
slow enough to lose their lock, the scan is not, so `LockKept` has a session to
speak of. It is the scan that must not be slow: a session without fairness may
stop inside the lock for good, and only the time to live (`Slow`) frees it.

| Property | What it says |
|---|---|
| `SettledMatchesRow` | an order with a row is booked exactly once, when the row becomes paid |
| `DraftNeverAhead` | the draft says paid only after the commit |
| `CapturedStaysOpen` | while the store keeps its account, an expired recharge is closed at WeChat |
| `LockFreedByHolder` | a lock is freed by its holder's last step or by the time to live |
| `LockKept` | a session that settles within its time to live has the lock all along, whatever the slow ones and the crashes do |
| `CapturedSettles` | a paid recharge is booked, or its member is gone, or the account changed |
| `KeepsPromise` | an order with a row implements `ClubPaymentPromise` |

*Fairness.* The clock moves, a lock expires (Redis), and the expiration scan,
an interval timer, runs on every minute and gets through. Callbacks, workers,
customers and administrators owe nothing, so `CapturedSettles` shows what the
scan alone guarantees.

`sms` — a recharge that pays for one broadcast, a reclaim of more than the
wallet holds, two recipients, one request, the two jobs as one session, 2
attempts, 1 crash, 1 row per refund run: 1.1 million states. Two recipients can
disagree, which is what partial failure takes; the request and a job are the two
dispatches that overlap; with a batch of one, two failed rows need two runs and
one row of an earlier task is enough to stop the scan. Two requests and two jobs at once are beyond TLC here and covered by
the theorems.

| Property | What it says |
|---|---|
| `WalletAddsUp` | the balance is the sum of the log, not negative; what is consumed is what the broadcast keeps |
| `CreditedOnce` | the recharge is credited exactly when its row becomes paid |
| `ClosedTakesNoMoney` | a recharge shown as closed is closed at WeChat |
| `RefundedOnce` | at most one refund per recipient, all refunds within the charge |
| `RefundHasGrounds` | who was refunded was refused, or was in a request that failed, or the attempts were used up |
| `KeepsPromise` | the wallet implements `SmsPromise` |
| `PaidIsCredited` | a payment reaches the wallet, whatever the row said |
| `EveryTextSettles` | every number paid for ends in a text or a refund, and the task stops sending, unless rows it can do nothing for fill the scan's batch |

*Fairness.* WeChat repeats a callback until it is acknowledged; the clock moves;
the recovery job (every minute) and the refund scan (daily) are started by
repeatable jobs of two queues (`queue-scheduler.service.ts`) and get through. Their
starts are strongly fair because in this instance one session runs both and is
busy now and then; in the code each has a worker of its own. Requests and
administrators owe nothing. That the daily scan runs does not mean that it gets to a
row: it reads 200 rows by id over all tasks (`sms-refund.service.ts:60-69`) and
never marks one of which nothing is left to refund (`:132-134`). Nothing keeps
such rows away (`OlderRowStuck` owes nothing and is never undone), so
`EveryTextSettles` has a full batch (`ScanIsStuck`) as an outcome. The recovery job takes 20 tasks, the oldest
`updatedAt` first, and every task it handles gets a new `updatedAt` and in the end
a final status; a task is assumed to get its turn, which fails only if the
resumption of 20 others throws every time.

Seven runs show the findings of section 5; each checks one property and TLC
finds it violated. The `scan_order_*` ones use 2 attempts, `scan_order_inflight`
two requests, `club_service_twice` the sessions of `club_payment` without slow
locks and without mishaps, `sms_uncertain` the broadcast of `sms` without crash and
without adjustments.

`CHECK_DEADLOCK FALSE` everywhere: an order, a payment or a broadcast that is
finished, and a store without orders, have nothing left to do.

Larger instances of `ScanOrder` (two requests with three attempts and one try:
8 million states; two overlapping runs of the job: 4.4 million) were checked
for the same invariants while developing; the theorems make them unnecessary.

## 4. Proofs

Assumptions: `BoundsAssumption` (the bounds are natural numbers),
`StockAssumption` (quantities are natural numbers, linked products are
products, orders are finitely many), `ClubAssumption` (the sessions are distinct, at least one try),
`WalletAssumption`, `AmountAssumption` and `BroadcastAssumption` (adjustments are
integers; amount, price, attempts and the refund batch are positive; recipients are
row ids, finitely many and at least one; the jobs are not requests). Nothing is assumed of how many
requests, job runs, attempts, orders, products or verifications there are; only
orders and recipients, which are summed over, are assumed to be finitely many.

*ScanOrder.* `IInv` = `TypeOK` /\ `FlowsAgree` /\ the safety properties. The
properties alone are not inductive; `FlowsAgree` says why each flow may rely on
the others:

- `FreshAttempts`, `InsertedAttempts`, `WechatOnly`, `SucceededIsCaptured`,
  `NotifiedIsCaptured`, `SettlingIsCaptured`: where attempts and captures come
  from. Behind `PaidIsBacked`, since the settlement writes `paid` without
  looking at WeChat;
- `ClosedIsCancelled`, `PendingIsUnpaid`, `CancelledIsUnpaid`: what a settlement
  read is still so when it writes in the closed branch, and what an open or
  closed order never has;
- `RefundFlows`, `SettlingBeforeRefund`: a refund under way keeps the order in
  `refunding` or `rejected`, and a settlement that found the order payable
  excludes a WeChat refund until it ends. Without the second, a late
  settlement could take an order out of `refunding` after WeChat paid back;
- `OneBacker`, `BalanceBacks`: at most one attempt stands behind a paid
  order, so the flow that picks the latest one picks the right one;
- `RetryOwned`: the retry count that tells a task's owner from a stale run.

`ScanOrderProofs` proves the types, `ScanOrderMoney` one lemma per property for
every step of `Next`, `ScanOrderTheorems` puts them together. `ScanOrderBounds`
follows what is read early and used late. A settlement overwrites the order
only if it was the first to find it payable, hence once; a version held across
commits can only match while nothing but the archiving happened to the order
(`VersionKept`), hence a timeout job, whose own mark raised it, never completes
a refund, and a retry completes only what it read:

| Theorem | Establishes |
|---|---|
| `TypeCorrect` | `TypeOK` |
| `Invariance` | `IInv` |
| `FlowsAlwaysAgree`, `PaidBacked`, `CapturesAccounted`, `DoneRecorded`, `RefundsGuarded`, `BooksAlwaysMatch`, `GoodsAlwaysMatch`, `RetriesOwned`, `RefundingTasked` | the invariants of `scan_order` |
| `VersionsGuard` | `VersionGuardsStatus` |
| `Refinement` | `KeepsPromise` |
| `SettledAtMostTwice` | `DamageBounded` |
| `VersionsVouch` | `RefundVersions` |
| `ClosedComesBackOnce` | a closed order leaves `cancelled` only by an override, the first one |
| `TimeoutNeverCloses`, `RetryCloses` | the timeout job's completion never changes anything; a retry whose version still matches ends the order, its sale and its goods together |

*ScanStock.* `IInv` = `TypeOK` /\ `FreshReads` /\ `TxOnOrders` /\ `NoOversell` /\
`UnawareCaught` /\ `LateSales` /\ `LateGoods`. `FreshReads`: while the version an order read is still the
row's, so are the mode and, for products of the menu's own, the free goods;
this is what makes the version in the update protect the check. Shared stock is
outside every version, which is why `NoOversell` speaks of unlinked products
only. `TxOnOrders`: a transaction under way keeps its order where it began, in a
stage that holds goods, and only such a transaction has skipped a line. The modes that transactions read
are under no version: `UnawareCaught` says that whoever does not know of a
stock was under way when it was set, and `LateSales` and `LateGoods` bound the sums
not by all orders caught, but by those caught and through (`Late`): the
deviation of an order appears in the step that ends it, and once. The two
properties follow, and `Refinement` rests on the same facts. Theorems: `Invariance`,
`TypeCorrect` (reservations and shared stock never negative among them),
`NeverOversold`, `SalesAlwaysMatch`, `GoodsAlwaysAddUp`, `Refinement`, and the
consequence `OrdersFitTheStock`: the orders of a product counted by its own row
never hold more than there was when its stock was set, but for what was brought
back and what was caught.
`GoodsAddUp` speaks of sums over the orders, which need an induction over finite
sets. The library's induction theorem takes an operator the provers cannot
instantiate; `ScanStockTotals` uses its form over sets instead (strict subsets
are well-founded, and a set of subsets without a minimal element is empty) to
show that the fold is a sum, and from that what adding or removing one order
does to it.

*ClubPayment.* The strengthening says what a session's place and snapshot are
worth: a confirmed session means the money was taken; past the commit the order
is settled; a session about to mark a row expired found the trade closed, or the
account changed. None of it speaks of the lock: `SettledOnceWithRow` rests on the
claim alone, so the theorem holds with locks that expire under everybody. That is
also why it excludes the service order, which has no claim.
What the lock does promise is proved separately: `LockIsKept` (a session that
is not slow keeps it) and from it `OneSettlesAtATime` (two such sessions are
never inside together).
Theorems: `TypeCorrect`, `SettledOnceWithRow`, `DraftLagsBehind`,
`ExpiredTakesNoMoney`, `LockOwnership`, `LockIsKept`, `OneSettlesAtATime`,
`PaymentKeepsPromise`.

*Sms.* `IInv` = the wallet's types and sum, `RInv` (what each step of a recharge
leaves at WeChat and in the row) and `BInv`. `BInv` says that nothing happens
before the charge (`Untouched`); that everything refunded, and the
administrator's claim, are whole numbers of prices (`Money`), so what is left of
the charge pays the next recipient in full or not at all, which is what makes the
automatic refunds add up to the refunded recipients; and that what a session
is about to write or refund, what a row says and what was refunded all have
grounds (`Grounded`), which are never taken back (`GroundsGrow`), whoever writes
the row next. Theorems:
`TypeCorrect`, `BalanceAddsUp`, `RechargeCreditedOnce`, `ClosedRechargeIsFree`,
`RecipientsRefundedOnce`, `RefundsHaveGrounds`, `WalletKeepsPromise`.

*Only model-checked*: liveness, since fairness and ENABLED are beyond the
prover: `UnpaidExpires`, `LateOrderLeaves`, `CallbackEnds`, `TimeoutRefundEnds`,
`CapturedSettles`, `PaidIsCredited` and `EveryTextSettles`. Every invariant and
every action property of a passing run has its theorem.

## 5. Where code and comments disagree

1. **A late settlement brings back a closed order** (`ClosedStaysClosed`).
   `confirmOrderPaidByCallback` reads the order when its transaction begins and
   updates it by id when it ends. A cancel that commits in between - goods
   released, attempts closed - is overwritten. The comment of
   `handleAnomalousPayment` says that such an order is not brought back. It
   happens at most once per order (`ClosedComesBackOnce`).
2. **Two payments settle one order** (`SettledOnce`). The same window against a
   balance payment: both settle points and consumption. The balance service's
   comment trusts the version, which the callback does not compare.
3. **The timeout refund cannot close its loop** (`TimeoutRefundCloses`). It
   completes with the version from before its own first write, in every
   interleaving (`TimeoutNeverCloses`). Orders leave
   `refunding` through the retry scan (`TimeoutRefundEnds` shows that they do)
   or the merchant's confirmation.
4. **The merchant's cancel keeps the reservation** (`CancelReleases`).
5. **Two attempts in flight** (`OneInFlight`). Check and insert are apart.
6. **A failed request is refunded at once** (`UncertainNotRefunded`). When
   `SendSms` throws, the provider may have taken the texts. `sendChunk` writes
   `REQUEST_FAILED` for its numbers, which is stored as `failed` and refunded by the
   same dispatch; the refund service's comment says that what is not certain is not
   refunded but sent again. What the code does promise is `RefundHasGrounds`.
7. **A service order is booked twice** (`SettledOnce` of `ClubPayment`). The
   draft is loaded before the lock and not again under it, and the settlement of a
   service order has no claim inside its transaction. Two sessions that both
   loaded the pending draft book it one after the other, although each holds the
   lock alone. The comment on the lock says that it prevents this.

*ScanOrder, ScanStock*: behaviour the models show and no comment contradicts: a second captured payment
of a paid order ends as a dead letter without a refund task; a retry that dies
leaves its task in `refunding`, where no scan looks; two anomalous attempts share
one task; a merchant's confirmation between the commits of a rejection leaves a
task open on a closed order; a refund under way at WeChat and the merchant's own
confirmation may both pay; a product set to sold out between pricing and
reservation is reserved if it is linked; a stock set while an order is being
accepted, closed or refunded under another mode is off by that order's quantity
afterwards (a sale counted that left no stock, or goods lost or added).

*ScanStock*, against a comment, without a run: the shared stock of a linked
product is deducted at acceptance in every mode
(`scan-ordering-order-stock.service.ts:67`), but `scan-ordering-unpaid-order-closure.service.ts:173`
says that the one of unlimited and sold-out products is never deducted, and does not
put it back for them.

*ClubPayment*: a service order whose draft is gone, or expired before its payment
was known, cannot be settled any more; a store that changes its account makes a
close of an open order count as done, so an expired recharge may still be paid
(`CapturedStaysOpen` and `CapturedSettles` exclude it); a voucher whose callback
is lost waits for its customer to look.

*Sms*, seen in traces while modelling: a refund by hand does not set the
recipients' `refundedAt`, so a failed recipient is refunded again by the scan, out
of the money of delivered ones, although `pulse-sms.service.ts:329` says that only
the failed ones' money goes back (`RefundedOnce` shows that the charge bounds
it); overlapping dispatches may turn a refunded recipient into a delivered
one, and send a text twice; a count read before another dispatch's rows may leave
a task `sent` with a failed row.

*Sms*, one part of the repository against another: `sms.controller.ts:114`,
`sms-broadcast.service.ts:98-100` and `661-664`, `sms-broadcast-recovery.service.ts`
(its header), `pulse-sms.service.ts:255` and `pulse-sms.controller.ts:102` say that
failed texts are *not* refunded automatically and that an administrator does it
by hand. The code does refund them, at the end of a dispatch
(`sms-broadcast.service.ts:533-539`), when the attempts are used up (`:680-681`)
and by the daily scan, and `sms-refund.service.ts` and the tests
(`sms-broadcast.service.spec.ts:332`) call for it: the former describe an earlier
version. The model follows the code; `EveryTextSettles` and `RefundHasGrounds` are
the newer promise.

*Sms*, the scan's batch: `refundUndeliveredFailures` takes its 200 rows by id and
leaves a row unmarked if nothing is left of its task's charge. Rows that were
refunded by hand stay in front for good; 200 of them keep the scan from every
later row (`ScanIsStuck`). Only the refund at the end of a dispatch, which
looks at its own task, is free of them.

## 6. What is not modelled

See `components` in `PROJECT.json`. In short: queries, screens, printing and
analytics keep no state others rely on; authentication stands before every
action; prices and discounts are data the order's steps do not look at. Of the
club's payments: the manual handling of dead letters, idempotency keys and
quotas of creation, redemption and refund of vouchers and cards, purchases from the
balance, and self-ordering, whose attempts and version compare are those of a
scan order.
Of the SMS part: delivery receipts, quotes, templates, statistics.
Specification options, manual entry, sessions, pickup numbers and the other
payment products are planned.

## 7. Plan

In this order; each module comes with an MC module, hazards, properties and, where
marked *, an abstract specification and proofs.

1. `ScanSession`: sessions, participants, tables, clearing, archiving, pickup
   numbers; composed with the stages of several orders. No open order in an
   archived session; numbers unique per store and day.
2. `ManualEntry`: the merchant's orders on the rows of `ScanStock`, and
   specification options.
3. `NewCustomerQuota`*, `Withdrawals`*: counters and a state machine with
   money; small, to be proved entirely.
4. `SpaceSession`: open, settle, automatic checkout against the cashier.
5. `VoucherRedemption`: redemption and refund of settled vouchers and cards.
6. `PlatformPayment`: callback against reconcile, applied once.
7. `RedisLock`*, `RefreshableCache`: renewal, expiry, refresh against
   invalidation.
8. `CartPricing`: discounts and their allocation to lines as operators, against
   a reference definition.

Runs stay few: one passing run per component and one per finding; bounds as
above, two or three of everything that can meet.

### Running

```
tlc -workers 2 -config MCScanOrder.cfg MCScanOrder
tlapm ScanOrderTheorems.tla
```
