# Verification of ecommerce_nest

TLA+ models of the NestJS shop in `src/src`, checked by TLC on small instances
and, where the prover reaches, proved by TLAPS for every value of the
constants. Paths below are relative to `src/src/` unless they name another
directory.

Contents: [1 Inventory](#1-inventory) · [2 Modules](#2-modules) ·
[3 Runs](#3-runs) · [4 Bounds and fairness](#4-bounds-and-fairness) ·
[5 Proofs](#5-proofs) · [6 What the code does otherwise](#6-what-the-code-does-otherwise) ·
[7 What is not modelled](#7-what-is-not-modelled) · [8 Plan](#8-plan)

## 1 Inventory

The shop is one Node.js process (or several behind a balancer) over MySQL,
reached through Prisma, four Redis servers, used for locks (Redlock) and as
the coupon counter, and Kafka. Handlers interleave at every `await`; the
in-process event bus (EventEmitter2) starts a handler inside `emit()` and
nobody waits for it, so that a chain of events is a set of tasks running beside
the request that started it, and lives in memory only.

| Component | State it keeps | Operations | Talks to |
|---|---|---|---|
| Balance account (`domain/balance`) | `UserBalance`, `BalanceHistory` | charge, deduct | MySQL row and gap locks |
| Payment (`domain/payment`) | `Payment`, and in one transaction `Order.status`, `ProductVariant.stockQuantity`, `UserBalance` | process, cancel | Redis locks on order, payment, product and balance; InnoDB SERIALIZABLE |
| Payment event chains (`orchestration/orchestrators/{payment,balance,product,order}`) | events in flight | initiate, deduct, pay, refund, fail, complete, update stock, use coupon | Balance, Payment, Order through events |
| FCFS coupons (`domain/coupon`) | `FcfsCoupon`, `UserCoupon`; in Redis the set of issued users | issue, by the controller and by an event | Redis lock of 5 s, MySQL |
| Coupon scheduler | a queue in Redis | issue to queued users every 10 s | the same tables, without the lock |
| Order creation (`domain/order`) | `Order`, `OrderItem`, `OutboxEvent` | create (twice for each POST), PATCH the status | Kafka, data platform |
| Outbox (`infrastructure/outbox`) | `OutboxEvent` | publish what is pending (cron) | Kafka |
| Cart (`domain/cart`, cart orchestrator) | `UserCart` | add (starts a checkout), update, remove, checkout | product cache, events |
| Products and cache (`domain/product`, `infrastructure/cache`) | cached answers, 10 and 30 min | read through the cache | MySQL |
| Redis lock (`infrastructure/redis`) | one key for each resource on four servers | acquire, release, retry | all of the above but the balance |
| Connection pool (`infrastructure/database/prisma.service.ts`) | connections of the process | open a transaction, query | every handler |
| Server start (`main.ts`, `infrastructure/database/database.setup.ts`) | the flag file, the seed | create, migrate and seed the database, listen | MySQL, Redis, Kafka |
| Guard, interceptor, filter, logger (`common`, `infrastructure/logging`) | nothing but the log | around every request | the controllers |
| Lists by the page (payments, coupons) | none | two queries for a page | MySQL |
| Data scripts (`src/scripts` beside `src/src`) | the ids they expect their orders to get | generate, rebuild, generate with CSV names | MySQL |
| Payment statistics | counters in memory | update | nothing reads them |

What is hard about it, and the property that would fail if it went wrong, is
the list of hazards in `PROJECT.json`. In short:

- **Two kinds of locks that do not know each other.** A payment polls Redis
  locks while it holds row locks and the other way round; it releases the
  Redis lock of a product before it commits. (`ImplementsCheckout`,
  `ChecksStayTrue`, `CallsEnd`)
- **A request is handled twice.** POST /payments, POST /coupons/fcfs/:id/issue
  and POST /order each start the operation a second time, by an event or by a
  second call, and every addition to a cart starts a checkout of all of it.
  (`PaidOnce`, `AnswersAreTrue`, `ImplementsGiveaway`, `OrderedLeaves`,
  `RemovedIsOrdered`)
- **Compensation by events.** A refund and the cancellation of an order are
  separate tasks that may fail, be lost in a crash or race each other.
  (`NeverEnriched`, `MoneyAccounted`, `EveryOrderSettles`)
- **Two stores.** Coupons are counted in Redis and kept in MySQL; messages go
  to Kafka from inside a MySQL transaction. (`NeverOverIssued`,
  `MarkedHaveCoupon`, `NoPhantomEvent`, `OutboxCoversOrder`)
- **Locks that run out** under a holder that is still at work.
  (`AnswersAreTrue`, `ImplementsGiveaway`, `CallsEnd`)
- **Batches** that take their work off a queue before they do it, and mark it
  done before they commit. (`StockFollowsBatches`, `NobodyForgotten`,
  `ImplementsLine`, `QueueIsServed`)
- **Answers from a cache** that nobody invalidates. (`AddedWasAvailable`)
- **A lock on four servers**, an even number, that may forget it, answer late
  or split their votes, in which case the call for it never returns.
  (`ImplementsMutex`, `LeavesNothing`, `StuckIsTied`, `CallsEnd`,
  `EveryCallFinishes`)
- **Handlers that hold a connection and ask for a second one** from one pool.
  (`StuckIsFull`, `ExpiredFails`, `EveryHandlerEnds`)
- **Writes outside of the transaction they are written in**, with a message
  that no outbox row backs. (`MessagesAreTrue`, `WritesAreTold`)
- **Ids that a program expects instead of reading them**, in the seed and in the
  scripts, with nothing in the database to check them. (`LinksResolve`,
  `ItemsMatch`, `OrdersComplete`)
- **Setting up is not atomic**: a start may die at any point, and two of them
  may run at once. (`SeedIsSound`)
- **A promise nobody awaits** that can take the process down in the middle of other
  requests. (`LogTellsAnswer`)

What makes each component correct: every movement of an account is the work of a
call of its own, which was answered with success or cut off, and its history
explains it (Balance); no piece
is sold twice, nobody pays twice and an order's status tells what became of
its payment (Payment); however the two chains run, an order is paid at most
once and no money is made (chains); one coupon for a user and no more than
there are (FCFS coupons); who asked is served as long as the coupon is available
and new enough for the page the job reads, and the stock follows what was given
out (scheduler); no order without
its event, no event without its order, no discount without a coupon (order
creation); nothing leaves a cart unordered, and nothing is added that was not
there lately (cart and cache); one caller at a time has a lock, and one that
fails leaves no key behind (lock); no handler waits for ever, and none ends well
that was rolled back (pool); no server listens before the seed is complete
(start); the log tells what was answered (requests); a row is shown twice or
missed only if the list has changed or has equal times (lists).

## 2 Modules

| Module | What it is |
|---|---|
| `Ledger` | the abstract account: atomic credit and debit with a history entry |
| `Balance` | the transactions of `BalanceRepositoryPrisma`; implements `Ledger` |
| `Checkout` | the abstract payment: stock, money, order and payment in one step |
| `Payment` | `PaymentRepositoryPrisma.processPayment` and `cancelPayment`; implements `Checkout` |
| `PaymentSaga` | POST /payments and the event chains it starts |
| `Giveaway` | the abstract giving out of FCFS coupons, a coupon in one step and one true reply to each call |
| `CouponIssue` | POST /coupons/fcfs/:id/issue; implements `Giveaway` |
| `WaitingLine` | the abstract line of users, served in batches, a batch in one step |
| `CouponScheduler` | the cron job that issues FCFS coupons to queued users; implements `WaitingLine` |
| `OrderCreation` | POST /order, the outbox, Kafka |
| `ProductCache` | reading products through the cache |
| `Cart` | the cart and its checkouts; extends `ProductCache` |
| `OrderStatus` | PATCH /order/:id/status and its message |
| `Mutex` | the abstract lock: one caller is inside at a time |
| `Redlock` | `RedisRedlock` on several servers; implements `Mutex` |
| `ConnectionPool` | Prisma's pool below the handlers that open transactions |
| `Bootstrap` | `bootstrap()` and `DatabaseSetup` |
| `HttpPipeline` | guard, interceptor, handler, filter, and the unawaited report |
| `Paging` | lists of payments and coupons, read page by page |
| `DataGeneration` | the three scripts that store test data |
| `MCOperations` | runs `Bootstrap`, `DataGeneration`, `OrderStatus`, `HttpPipeline` and `Paging`, one in each behaviour |
| `Sums` | lemmas about sums over finite sets, which the proofs about money and pieces rest on |
| `PaymentProofs`, `PaymentSagaProofs`, `CouponIssueProofs`, `OrderCreationProofs` | the theorems of the module each is named after |
| `UserProofs` | the theorems of `Balance` and `Cart`, what a user has |
| `OperationsProofs` | the theorems of `MCOperations` and the five modules it runs |
| `InfrastructureProofs` | the theorems of `Redlock`, `ConnectionPool` and `CouponScheduler` |
| `MC*` | constants for TLC |

`map` in `PROJECT.json` gives the lines each definition stands for. The
definitions whose names begin with `Bug` are variants of the definition below
them with a plausible mistake. They are part of no specification and show
that the properties notice the mistake.

### Balance and Ledger

A call of `chargeBalance` or `deductBalance` goes through `Begin` (the user is
looked up, by a charge only), `LockRow` or `LockGap` (`SELECT ... FOR UPDATE`:
an X lock on the row, or a gap lock if there is none), `InsertRow` or
`UpdateRow` (an `UPDATE` locks its row too), `Log`, the history entry, which is a
statement of its own with the balance the one before it returned, and `Commit`.
What the statements write is in `seen` and `draft` until then. Gap locks of two transactions are compatible and an
insert waits for every other holder, which is how two first charges of a user
deadlock; `DeadlockVictim` is InnoDB's answer. `Abort` is a transaction that
times out, loses its connection or whose process dies; its request ends as
`"aborted"`, to tell it from one that failed by the code's or the database's
decision. It is rolled back, or else its COMMIT had taken effect and only the
acknowledgement is lost: an aborted call may have moved the account. Amounts may
be negative: `POST /balance/:userId/charge` passes on the raw body, the DTO with
the minimum is not used. A gap lock on a missing key also covers keys of other users in
MySQL; the model keeps it to one user, so that it has fewer waits between
users than MySQL has, and every wait ends in a step or a rollback in both.

`Ledger` is what the rest of the shop relies on. `ImplementsLedger` shows that
each `Publish` of `Balance`, acknowledged or not, is one credit or debit of `Ledger`
and that every other step is none.

### Payment and Checkout

`red` holds the Redis locks and `shared`, `excl` the row locks of a
SERIALIZABLE transaction, in which plain reads through `tx` lock what they
read. `LockTarget` is the lock around the transaction; `ReadOrder` or
`ReadPayment` (the latter through `this.prisma`, without a lock), `ReadItems`,
then for each item `LockVariant` and `ChangeStock`, then `LockBalance`,
`ChangeBalance`, `MarkOrder`, `Commit`, `Unlock` follow the code's order. The
Redis locks of product and balance are released before the commit, as in the
code, and before the rollback if there is too little of either: the error passes
their `finally` first (`"throw"`, `Undo`). A transaction that MySQL or Prisma rolls
back under the call is over before its `finally` runs (`"cut"`, `Finally`).

`TargetBusy`, `GiveUp`, `Fail` and `Crash` are ways to end early: Redlock's
retries are used up, a wait ends in a deadlock or timeout, the transaction
fails, the process dies. After a crash InnoDB rolls back, and the Redis locks
stay until `Expire`. Redlock itself may fail in two more ways (`Fault`, bounded by
`MaxFaults`). `Release` may fail, which the code only logs: the key stays. And both
taking and releasing a lock may never settle, as module `Redlock` shows (`Hang`,
`Release`), with the key set or gone or in between: such a call is stuck. Inside a
transaction Prisma rolls back under it after 5 s (`TimeOut`), but no `finally` is
reached and no answer given (`"hung"`). A COMMIT may take effect and its
acknowledgement be lost. `SetStatus` is PATCH /order/:id/status, for the statuses
in `PatchStatuses`. A price may be negative, since nothing bounds a discount by
the sum (`order.service.ts:86`). The
shared locks on all items are taken in one step. MySQL takes them row by row,
and since they are only shared, a partial set excludes nothing that the
complete one would not also wait for.

`Checkout` is what the saga relies on when it takes a payment for one step:
`Pay` takes all pieces and the money and marks the order, `Cancel` gives all of
it back, `Patch` sets a status. `ImplementsCheckout` shows that each `Commit` of
`Payment` is one of the first two and every other step none, whatever was
locked, rolled back or lost in between. What a transaction has taken so far is
`OrderedUpTo`, a sum over the first items of its order.

### PaymentSaga

The state is the tables and a set of tasks, each a handler at its next step.
`Post` starts two: the controller's own `processPayment` (`Pay`), and the
chain `Initiate`, `Deduct`, `NoteUse`, `Settle`, which ends in `Refund` and
`Cancel` or in `Complete`, `EmitStockUpdates`, `UseCoupon`. Each order item
sets off `ReadStock` and `WriteStock`. A step that talks to the database may
fail before its effect or after it, as often as `MaxFailures` allows; `Crash`
loses every task. A call of the payment or balance repository is one step
here: `Payment` and `Balance` are the modules that show how far it behaves as
one. Two tasks of the same step, request and origin would be one element of
the set; the chains never start such a pair. An order lists a variant once;
`productStockHistory` and the logs are left out.

### CouponIssue and Giveaway

Each `Post` starts two calls of `issueFcfsCoupon` and each call goes through
the code's steps, from `Acquire` to `ReleaseLock`. `Expire` ends a lock after
its 5 s, `Fail` lets any query, commit or Redis command fail with or without
its effect, `Crash` kills the process: the open transactions are rolled back,
locks stay. `LeaveLock` is a release that fails, which is only logged, and `Hang` a
call of Redlock that never settles. A call is over as `"done"`, `"left"` (answered,
with its key left behind), `"dead"` or `"hung"`, the last of which has no answer. `Use` is a payment that uses a coupon up. The period of issue is
left open, so `Read` may refuse at any time. Redis is one store: of the four
servers, the counter and the set are on the first one only, and the lock on
them is module `Redlock`. A Redis error while acquiring counts as busy.

`Giveaway` is what one who asks for a coupon is promised. Its rows are
`userCoupons`, its reply to a call is the answer once the call is done (`told`),
and its faults are failures and expiries together. `Give` is `CommitIssue`, a
reply is whichever step ends a call with an answer, `Spend` is `Use`, and `Fault` is
`Fail`, `Crash` or an `Expire` under a live holder. Redis, its lock and its marks do not appear: that the
commit gives to a user who has none, and to no more of them than there are
while nothing has gone wrong, is what they are for. A reply is true when it is
given: "ok" if the call has its row; a refusal if it has none and, for "duplicate"
and "empty", the reason holds in the tables (the user has that coupon, all are
given out); "broken" only after a fault.

### CouponScheduler and WaitingLine

A run is one execution of `processCouponRequests`: `StartRun` reads the first
`PageSize` (100 in the code) of the available coupons, those that have some left and
whose time it is (`InPeriod`), newest first, and what is left of each. For these,
again newest first, `Pop` takes that many users off the queue, `Lock`s the
coupon, and for each user follow `CreateUserCoupon`, `MarkAsIssued`, `DecreaseStock`
or `Skip`, then `Commit`. `@nestjs/schedule` does not wait for a run to end
before it starts the next one, hence several `Runs`. The rows and decrements of
an open transaction (`inserted`, `taken`) show at `Commit`; `current` is the loop's
coupon and, with no batch in hand, a fixed one that nothing depends on (`NoFcfs`); the mark and the queue
are in Redis and show at once. A user whose `INSERT` fails and
one who has the coupon are both a `Skip`. Two runs that insert the same users in opposite orders
deadlock, and InnoDB rolls one of their transactions back (`Deadlock`). That is an
error inside the loop, which is caught like any other: the loop goes on,
without a transaction (`bare`), so that each statement commits by itself and the
lock on the coupon is taken for each user anew. Errors outside of the inner `try`,
the transaction's 5 s and a crash end the run (`Abort`).

`IssueFcfsCoupon` is `CouponService.issueFcfsCoupon` beside the runs, one step for
each `await` that reads or writes what they share: `FindFcfsCoupon`, `HasIssued`,
`GetIssuedCount`, `InsertDirectly`, `CommitDirectly`, `MarkDirectly`. The lock of 5 s
around it is left out. The job does not take it, and calls that overlap although
they would not under the lock are more than the code allows; what the lock is
for is in `CouponIssue`. `EndCall` is whatever ends a call early. `AtFirst` is who
waits in Redis when the program starts, `Asks` who may come later.

`WaitingLine` is what the queue promises. Its line is `queue`, and whose turn it is
(`turn`) are the users in the hands of a run: those left in `batch` and those
its open transaction has a row for. `AddToRequestQueue` is `Join`; `Pop` is `Call`,
from the front; `Commit` is `Serve`, in which the whole turn gets its rows and the
stock goes down by as many; `Skip` of one who has the coupon is `PassOver`; `Abort`,
`Deadlock` and a failure inside the loop are `Fault`; an insert of a `bare` run is
`ServeOne`, after a fault only; `CommitDirectly` is `GiveDirectly`, which gives to
one who has none and leaves the stock alone. There is no promise that something
is left at that time: the call has compared a count in Redis with a stock it read
before, and the job may take the rest meanwhile. The locks, the marks and what
lies between `Pop` and `Commit` are none of the steps of `WaitingLine`. After a failure the stock
may go down by less than the batch, since an error inside the loop is caught.

### OrderCreation

`Post` is the first call of `createOrder`; `Announce` is what the controller
does when it returns: emit `order.created` and call `createOrder` again. A call
goes through `CheckStock` (all items, which the code reads at once),
`PriceOrder`, `InsertOrder`, `WriteOutbox`, `Emit`, `MarkSent` or `AddAgain`,
`CommitOrder`, `Report`. `InsertOrder` commits at once, since the repository
does not use `tx`. `Fail` ends a transaction at any query, with or without the
effect of an autocommitted one. `Deliver` and `Lose` are Kafka's client, which
reports neither; `ProcessEvents` is the cron job with the `where` it has, so
that it finds nothing: the age of a row and its retry count are therefore left
out. `PayOrder` is the environment, reduced to what an order and its coupon
see of it. The database gives numbers to the rows of `Coupon` and `UserCoupon`
independently of each other; the model keeps the numbers, because the code confuses the two.

### ProductCache and Cart

A reader of the cache goes through `Ask` (a hit is the answer), `Fetch` (the
query is executed) and `Set` (its result arrives and is cached). The cache is
in memory, so that nothing happens between the look-up and the query being
sent. Readers are the POSTs of the cart, which go on with the answer, and
`Browsers`: GET /products, and the stock checks of checkouts and products,
whose answers reach nobody. Stock and time change beside them. `peak`, `since`
and `slowest` are history, for `AddedWasAvailable` only.

`PostItem` and `AddToCart` are POST /cart; what follows is the checkout:
`ReadCart` is `handleCartCheckout` up to ORDER_CREATED, and each item is then
removed by its own `FindItem` and `DeleteItem`, beside the others. When one of
them throws, `Promise.all` rejects and the others go on. `handleOrderCreation`
inserts no order. It asks for the payment of an order without an id, which
`handlePaymentInitiation` cannot look up, and `handlePaymentFailure` cannot
cancel either; this changes no table and is left out. `DeleteByUser` and
`UpdateQuantity` are one step: each reads one row, whose owner never changes,
and changes it if it is still there. `Crash` loses the checkouts and the cache.

### OrderStatus

`FindOrderById`, `Write`, `Emit`, `Commit` are `updateOrderStatus`. The
transaction around them contains neither query, since the repository uses
`this.prisma`: `Write` is there at once and stays when `Fail` ends the call.
`transit` is what Kafka's client has been given and `topic` what has arrived, a
set because messages without a key go to any partition; `lost` is what Kafka never
got, which is history. `Pay` is a payment or
its cancellation in its own transaction, which sends no such message. The catch
that stores an outbox row is left out, since `emit` never rejects: `LostIsKept` in
section 6 is about that.

### Redlock and Mutex

`Attempt` sends a command to every server at once, `Serve` is a server that
executes one and answers, `Acquired`, `Retry`, `GiveUpAcquire`, `Released` and
`GiveUpRelease` what the library decides when a quorum has voted. An attempt
that failed leaves its keys in the way of the next one of the same caller, and
only the last failure removes them (`Cleaned`). `Fault` is a request that fails
with or without its effect, `Lose` a server that restarts empty, `Expire` the
time to live of the keys, `RunOut` the moment a caller's own time is over
while it goes on. The library is modelled from how `redis.redlock.ts` calls it.
`MutualExclusion` and `Mutex` are about callers within their time (`fresh`); what happens
to the code that goes on without the lock is in `CouponIssue` and `Payment`.

`acquireLock` looks for an error named `LockError`, which the installed version
of the library does not have (it is `ExecutionError`): a busy lock is an
internal error for the client and never the conflict that
`payment.controller.ts:29` documents. No property is about that.

### ConnectionPool

A handler is its `Plan`: the transactions it opens and closes and the queries it
makes outside of them. `Open` and `Query` take a free connection or wait for
one; `GiveUp` is Prisma's `maxWait` or `pool_timeout`, `TimeOut` its `timeout`,
after which the handler goes on and finds out at `Close`. How long a query takes
is left out, therefore timeouts strike only a handler that waits: one that could
go on would only make fewer wait.

### Bootstrap

Each instance is a place where the server is started, up to `MaxStarts` times;
two of them share a working directory and thus the flag file. `CreateDatabase`,
`RunMigration`, `RunSeed`, `MarkAsInitialized`, `OnModuleInit`, `Listen` and `Stop` follow the code. A
table is the ids its rows have, with a counter that does not go back when a
statement fails: `refs` names the ids a row of the seed refers to. Each `createMany`
of the seed is two steps, `TakeIds` and `Insert`: an `INSERT IGNORE` gets its ids first, and
its rows may meet the same rows of a second host, in which case those ids are used
up for nothing (`burnt`). Rows with a
unique index are skipped the second time (`skipDuplicates`), the others are
stored again. The seeding process is a child of the server; a crash takes both.

### HttpPipeline

A request passes `CanActivate`, `Intercept`, `Validate`, `Handle` and, on the
way back, `TapNext` or `TapError` and `Catch`, or `CatchOther` if what was thrown
is no `HttpException`. The latter may come from Express before the guard is
asked (`Arrive`: a body that is too large), from the guard or from the handler.
`Handle` may never end, waiting for Redlock, so that no property says that each
request does. `Store` and `SendOrderData` belong to POST /order, whose
reports run beside all requests; `Unhandled` is the query of a report that
fails outside of its `try`, upon which Node ends the process. Messages, stacks and request
ids are left out. `JwtAuthGuard` may throw any error: no module registers the
strategy "jwt", so that passport itself throws. Interceptor and filter share
one logger, whose target the interceptor overwrites, although
`logger.service.ts:13` separates contexts; what is logged under which context
is left out.

### Paging

A page is two queries on two connections, `Find` and `Count`, that other
requests may write between. `Listings` are all the orders that `ORDER BY
createdAt DESC` allows, so that rows with equal times come in any order, in each
query anew. `getPayments` passes page and page size on unchecked
(`payment.controller.ts:61`); the model asks for valid ones.

### DataGeneration

A run is one execution of a script. A draw is an order and its item as they were
made up; `AccumulateBatch` appends a chunk of them with the ids they are
expected to get, `SaveBatch` stores orders and items in one transaction, `SaveRest`
the last chunk of the .ts script. A draw is from the products as `Load` has read them
(`seen`): those that had no variants then make it throw. What was stored before the orders (users,
products, variants) commits one statement at a time. `ShopOrder` is POST /order beside it.

## 3 Runs

Passing runs. Each property has a mutant in `PROJECT.json`: a bug in the
modelled code that breaks this property in this run, if not only this one.

| Run | Instance | Shows |
|---|---|---|
| `balance` | 3 requests, any operation, amount -1 or 2, fair, cut off at any point; a user with a row, one without, an unknown one | `EveryMovementHasItsCall`; `EveryRequestAnswered`; `Balance` implements `Ledger` (`ImplementsLedger`) |
| `payment` | 3 calls of any kind over 3 orders: two list the same variants in opposite orders and compete for one piece, the third shares only the balance with them and lists a variant twice; the second has a negative price, and there is money for the first or the third; Redlock settles | `NothingLost`; `Payment` implements `Checkout` (`ImplementsCheckout`) |
| `payment_live` | 2 calls over the first two orders, PATCH to PAID or CANCELLED at any time, one Redlock call that fails or never settles, fair | `PaidOnce`, `ChecksStayTrue`, `CallsEnd` |
| `saga` | two POSTs, for one order or for two orders of one variant, one failure or crash, fair | `NeverEnriched`, `PaidOnce`, `MoneyAccounted`; `EveryOrderSettles` |
| `coupon` | two POSTs for coupons of one piece: of two users for the same or for two FCFS coupons of one Coupon, or of one user for both; one failure, crash, expiry or Redlock call that fails or never settles; fair | `MarkedHaveCoupon`, `AnswersAreTrue`, `NeverOverIssued`; `EveryCallFinishes`; `CouponIssue` implements `Giveaway` (`ImplementsGiveaway`) |
| `order` | two users with the same Coupon id, two failures | `NoPhantomEvent`, `OutboxCoversOrder` |
| `scheduler` | two overlapping runs, three users, three FCFS coupons of three, two and one pieces for one Coupon, two on a page, of which the newest's time ends; two users wait for two of them in opposite orders, another one may come; one direct call; one failure beside deadlocks; fair | `StockFollowsBatches`, `NobodyForgotten`; `QueueIsServed`; `CouponScheduler` implements `WaitingLine` (`ImplementsLine`) |
| `cart` | two POSTs of one user for a product of one piece or none, one more reader, one change of the stock, one failure or crash | `RemovedIsOrdered`, `OrderedLeaves`, `AddedWasAvailable` |
| `pool` | four handlers, three of which open or query with a transaction open, on two connections, fair | `StuckIsFull`, `ExpiredFails`; `EveryHandlerEnds` |
| `redlock` | two callers, four servers, two attempts each; one server forgets or one request fails | `LeavesNothing`, `StuckIsTied`; `Redlock` implements `Mutex` (`ImplementsMutex`) |
| `operations` | one of five parts: two starts of three servers in two directories; three scripts, two at a time; three PATCHes, two for one order, beside its payments; three requests, one of each kind; a list of up to three rows, two a page, changed twice; PATCHes and Kafka's client are fair | `SeedIsSound`, `LinksResolve`; `ItemsMatch`, `OrdersComplete`; `MessagesAreTrue`, `WritesAreTold`; `LogTellsAnswer`; `PagesExplained` |

The run `operations` is a sum: `MCOperations` draws one of five modules at the
beginning and takes the steps of that one only. Their state is disjoint and none
of them reads the state of another, so that the run says nothing about the parts
together: it is five runs in one.

No run checks the types of a module: all of them are proved. `NothingLost`, `SeedIsSound`,
`OrdersComplete`, `MessagesAreTrue` and `PagesExplained` are conjunctions, each
part of which is a definition with a comment of its own.

Properties that are proved, or follow from one that is checked, have no run:
`HistoryExplainsBalance` follows from `ImplementsLedger`, `NeverOversold` from
`ImplementsCheckout`, `OneCouponPerUser` from `ImplementsGiveaway`,
`MutualExclusion` from `ImplementsMutex`. `OverdrawnByChargeOnly` of `Balance`,
`OverdrawnByRefundOnly` of `Payment` and, where there is no PATCH,
`StatusTellsPayment` of every order are proved too. TLC agrees with
each of them when it is added to the configuration of its module.

The run that ends in a violation is in section 6.

## 4 Bounds and fairness

Bounds, all of them constants: the calls in flight (`Requests`, `Calls`,
`Callers`, `Handlers`, `Runs`; every one is served once), `MaxPosts` (how many of
the requests are sent, in `saga` and `coupon`: TLC takes each choice of two out
of three), `Amounts`, `MaxPayments` (ids a cancellation may name; in
`OrderStatus`, payments beside the PATCHes), `PatchStatuses`, `PatchTo`,
`MaxFailures` (technical failures, lost messages, crashes; `MaxErrors` in
`MCOperations`, for both its modules that have it), `MaxFaults` (in `Payment`
Redlock calls that fail or never settle; in `CouponIssue` these, failures and
locks that run out under a live holder; in `Redlock`
restarts and failing requests, together), `MaxLost` (servers that forget),
`MaxAttempts` (Redlock's `retryCount` and one), `BatchSize`, `PageSize` (100 and 10 in the
code), `AtFirst` and `Asks` (who waits for an FCFS coupon), `MaxStock`,
`MaxChanges` (of the stock in `Cart`), `MaxTime` (the clock of `Cart` and of
`CouponScheduler`), `MaxStarts` (of
servers), `MaxRunning` (scripts at a time), `MaxIncidents` (failures of scripts
and orders of the shop beside them, together), `MaxWrites` (rows of a list that
come or go). No counter of the code is capped otherwise. A user asks for an FCFS
coupon through the queue once.

Three calls are enough for the interleavings that matter in `Balance` and
`Payment`: one that has checked, one that changes what was checked, and one
that waits for both (two inserts deadlock, the third survives). Two orders with
opposite item orders give the cycle of a Redis lock and a row lock. In the
saga each request already runs two payments, so two requests race four of
them; the same holds for coupons, where they race under one lock, or under two
for one key of the unique index. The stock, balances and quantities are such
that the last piece and the last money are contended: there is one piece of the
scarce variant, and Alice cannot pay her first and her third order in `payment`; in the saga
she can be charged twice for hers and Bob cannot. One failure reaches every
error path of a call once; `order` has two, for the catch of an outbox row
followed by a failing commit. The proofs have no such bound.

In `scheduler` two runs take one queue's users in a batch of two or of three, and
those of two queues in opposite orders, which is the deadlock; all coupons are
of one Coupon, so that the unique index is met from three sides. Three coupons
for a page of two leave the oldest out until the time of the newest is over, so
that its queue is served only because it comes to the first page then. In `cart` the time to live is
1 and the clock goes to 2, enough for an entry to outlive the stock it shows
and to be found expired. In `pool` the handlers can fill the two connections with
transactions that wait for one more, which is the deadlock only `maxWait` ends.
In `redlock` two attempts are enough for the second to meet the keys of the
first, and four servers for a vote of two against two; one server that forgets is
the most that quorums of three out of four survive. In `operations` the sizes of
the chunks are such that one script fills several, one ends with a smaller one
and one with a whole one; two starts are a first one and one that runs beside it
or meets what it has left, in the same directory or in another.

Symmetry is used in the runs `payment`, `cart` and `redlock`, in which the
permuted calls, POSTs or servers are alike and only safety is checked.

A lock of 30 s (the default of `acquireLock`) is modelled as one that a live
call never loses: a transaction gets its connection within 2 s (`maxWait`) or
fails, and ends after 5 s (`timeout`). The waits for Redis locks of a payment
are within these 5 s. The lock of 5 s that coupons use is shorter than the 7 s
of its transaction and does run out. Redlock's extension of locks belongs to
`using`, which nothing calls. `Redlock` itself makes no such assumption: a lock
may run out there at any time. What a call leaves behind runs out in `Payment`;
`CouponIssue` does not even assume that, so who meets such a key is told that the
coupon is busy.

Fairness: weak fairness on the steps of a live call, which is Node.js going on
with a handler when a query, a command or a timer returns. For locks that
compete this says only that a call that can go on, or can give up, in the end
does one of them: InnoDB counts its lock wait, and Prisma the 5 s of a transaction
and its `maxWait`. That a call of Redlock settles is not assumed where its lock
is somebody's guarantee: it counts its retries, but an attempt that splits the
four servers never decides (`EveryCallEnds`, refuted in section 6). Therefore
`Hang` and `Release` let it do so in `Payment` and `CouponIssue`, and what `CallsEnd` and
`EveryCallFinishes` claim is what is left: such a call is never answered, but it is
in nobody else's way for ever. No strong fairness is assumed. In `PaymentSaga` and
`CouponIssue` fairness is weaker still: as long as
any task can go on, some task does, whichever it is; since each does a bounded
number of steps, all of them get their turn. The same holds in `operations` for
the PATCHes and Kafka's client (`OrderStatus`); its other parts are not assumed to
go on at all. In `payment_live` there is weak
fairness of `Expire` too: a key's time to live in Redis. In `FairSpec` of
`OrderCreation` and `FairRedlockSpec`, Kafka's client, the cron job and the Redis
servers are fair as well; only refuted properties need it. In `scheduler` the
cron job starts its runs again and again, and the direct call goes on; time need not
pass. Nothing obliges anybody to send a
request, start a server or run a script, and nothing obliges anything to fail.
`PaymentSaga` takes a payment for one step that ends: that it waits for
Redlock is in `Payment`.

`MoneyAccounted`, `EveryOrderSettles`, `NobodyForgotten`, `OrderedLeaves` and the
second half of `StockFollowsBatches` speak of the behaviours in which nothing has
failed yet. `WrittenIsTold` excepts single messages: those that were lost and those
of a call that was cut off. `NeverOverIssued` and `CountIsExact` of `CouponIssue` are about states in
which nothing has failed and no lock has run out (`Calm`); without that they are
false, see section 6. The two abstract specifications of coupons say the same in
their steps: that no more are given than there are, and that the stock goes down
by exactly the batch, is asked while `faults` is 0. Everything else in them holds
whatever fails.

`CHECK_DEADLOCK` is on in every run but `cart`, `redlock` and `operations`. These
may stop: when both POSTs are answered, the stock has changed and the clock has
run out; when every caller is through or waits for votes that will not come,
which `StuckIsTied` is about; when all is started, stored, answered and read. The
other models end in states that an explicit
action keeps (`Idle`, `Quiet`, the cron job), so TLC's deadlock check means
that nobody waits for ever before all is done. In `scheduler` the cron job, which
may start and find nothing, keeps a run moving in any case; that its runs do
not block each other is in `QueueIsServed`.

## 5 Proofs

All theorems but the refinements, `ExpiredNeverDone`, `CartAddedWasAvailable` and two
about PATCH (`PaymentPaidOnce`, `PaymentStatusTells`) are of the form `Spec => []Inv`, for any number of users, orders, requests, servers, failures and
crashes, from the named assumptions on constants only (`...Assumption` in each
module: types, disjointness of the kinds of rows, `NoOne` and `Nobody` not being
callers, finite sets where they are counted; that there is an FCFS coupon, for the scheduler; for `operations`, `OperationsAssumption`,
the assumptions of the five modules together: hosts and rows are finite sets, PENDING, PAID
and CANCELLED are statuses, chunks and pages have at least one row, and no script
has the name that marks the shop's own orders).

| Theorem | Module | Argument |
|---|---|---|
| `BalanceType`, `BalanceLocks`, `BalanceOverdrawnByChargeOnly`, `BalanceHistory` | `UserProofs` | what the locks guarantee (`LocksGuardWrites`) is the inductive core: between its locking read and its end a transaction owns the row or the gap, so the balance it checked is the balance it changes. Only a charge of a negative amount, which nothing refuses, leaves less than zero |
| `BalanceMovementsHaveCalls` | `UserProofs` | each commit, acknowledged or not, adds one entry (`CommitMoves`), and its call to the calls of the entries before it; that call made none of them, since it had not ended |
| `BalanceImplementsLedger` | `UserProofs` | from the same invariant each `Publish` is one `Credit` or `Debit` of `Ledger`, and every other step leaves the committed state alone |
| `PaymentType`, `PaymentChecks`, `PaymentNeverOversold`, `PaymentOverdrawnByRefundOnly` | `PaymentProofs` | `ChecksStayTrue` says for each step which lock keeps the check already made true, whatever Redlock does; the commit then writes no less than zero, unless it takes back a payment of a negative amount |
| `PaymentImplementsCheckout` | `PaymentProofs` | `Advanced`: what a transaction has taken so far is what the items before its current one need, so that a `Commit` is the whole `Pay` or `Cancel`; the checks `Checkout` makes are those that `ChecksStayTrue` kept true |
| `PaymentPaidOnce` | `PaymentProofs` | for any `PatchStatuses`, in the behaviours in which no PATCH takes an order out of PAID or CANCELLED (`Reopens`): there an order with a payment is never payable again (`NoneIfPayable`). That the hypothesis is needed is in section 6 |
| `PaymentNothingLost` | `PaymentProofs` | on `Checkout` too: a payment moves the pieces of its order and its price from the stock and the balance into the sums over the completed payments (`PayKeeps`), a cancellation moves them back (`CancelKeeps`) |
| `PaymentStatusTells` | `PaymentProofs` | proved on the two steps of `Checkout`, and carried over by the refinement: for each order that no PATCH changes, whatever PATCH does to the others |
| `SagaType`, `SagaPaidOnce`, `SagaStockNotNegative`, `SagaCouponOfPaidOrder` | `PaymentSagaProofs` | `PaidIsClosed`: an order with a payment is never payable again, whatever handlers set its status; `FollowsPayment`: a completion step has a payment behind it; `SeenEnough`: a stale stock is at least what is taken from it |
| `SagaNeverEnriched`, `SagaMoneyAccounted` | `PaymentSagaProofs` | `OneChain`: a request has one chain, at one place, so that what it holds of the balance is held once; then each step keeps the sum of balance, payments and what is held (`NoMoneyMade`, `NoMoneyLost`) or, if it fails, lowers it |
| `CouponType`, `CouponOnePerUser`, `CouponMarkedExist` | `CouponIssueProofs` | `RowsFromCalls`, `Inserting` (two open transactions never hold the same key of the unique index), `MarkHasRow` |
| `CouponNeverOverIssued`, `CouponCountIsExact` | `CouponIssueProofs` | while it is `Calm`: `Held` (one call between the lock and the mark), `Counted`, `Unmarked`, `Room` |
| `CouponAnswersAreTrue` | `CouponIssueProofs` | `OpenUnanswered`: an answer is given once, on the way out; `Told`: the step before it knows the row written, the mark found or the count reached; `Countable` and `RowsStay`: none of these is undone later |
| `CouponImplementsGiveaway` | `CouponIssueProofs` | `GInv`, which adds to the two invariants above `Decided`: who only has to unlock and return has an answer, and "broken" is the answer of calls that met a failure. A commit finds no row of its user since the open transactions are apart (`Inserting`), and room while it is calm since it has counted under the lock (`Room`) |
| `OrderType`, `OrderNoPhantomEvent`, `OrderOutboxCovers`, `OrderDiscountIsOwn`, `OrderSecondAfterFirst` | `OrderCreationProofs` | `HasOrder` and `InOrder` tie each step of a call to the rows it must have left, `SecondWaits` the two calls of a request, `PriceIsOwn` the computed price to the order |
| `CartType`, `CartRemovedIsOrdered`, `CartOrderedLeaves`, `CartAddedWasAvailable` | `UserProofs` | `RemovesOrdered`, `OrdersOwn`, `ReadsOnce` and `KnownAreAdded`: a checkout removes only what it has ordered for its own user, orders once, and an item never comes back. For the cache, `EntryOK` and `ReaderOK`: what is cached, or on its way to a caller, is no more than there was at a time not too long ago (`WasSo`), and `PastStays`: the past is not rewritten |
| `PoolTypes`, `NoLeaks`, `StuckFull`, `LargePoolMoves`, `ExpiredNeverDone` | `InfrastructureProofs` | `DepthOK`: what a handler holds is no deeper than its next step says, and nothing before its first and after its last; so a connection that is in use while all wait is in a slot of `WaitSlots`, no two in the same, and a pool with more connections than slots has a free one |
| `RedlockTypes`, `Exclusive`, `Implements` | `InfrastructureProofs` | a server that has voted for a caller within its time has its key or has forgotten it; two quorums share more servers than may forget (`FewForget`, the theorems' hypothesis), and a key is one caller's |
| `NothingLeft` | `InfrastructureProofs` | a caller that gives its keys up has a removal as the last command to every server (`EndsInDel`), and is not through with one that never failed it while its key is there (`RemovalQueued`) |
| `AnsweredIsCounted` | `InfrastructureProofs` | in an attempt every server has voted or has a request of that very attempt under way (`EachAsked`), so that an answered call has all votes |
| `SchedulerTypes`, `StockFollows`, `NobodyIsForgotten` | `InfrastructureProofs` | `BatchInv`, below |
| `SchedulerImplementsLine` | `InfrastructureProofs` | `LineInv`, below |
| `StartsSeedOnce`, `SeedLinksResolve` | `OperationsProofs` | `StartsInOrder`: an instance has the tables before its current one behind it, and one that marks, connects or serves has them all; `SetUpOnce`: a host without its flag file has one instance at work, so that a row is stored once for each host that is past it; `Numbered`: a table is empty with its counter at 1, or empty with one instance about to store the ids from 1 on, or has the ids the seed counts on, which needs that tables fill in order (`StoredInOrder`) |
| `GeneratedItemsMatch`, `GeneratedOrdersComplete` | `OperationsProofs` | `Follows`: what a script has stored are its draws up to some number, what it holds are those from there on, and if its ids are right the next order gets the one its next draw expects. From this an end without rest is an end with all; `StoredOnce` makes it exactly all |
| `PatchMessagesAreTrue` | `OperationsProofs` | `WritesOwn`: what is emitted next is written, and only by a call that has read; `ReadIsMade`: what a call read, and what is there now, is PENDING or was made by another call (`MadeBut`), as long as no payment has changed it |
| `HttpLogTellsAnswer` | `OperationsProofs` | `LogFits`: at each stage of a request the log has what `LogAt` or, with its answer, `LogOf` says |
| `PagingExplained` | `OperationsProofs` | without equal times a row has a rank, the number of rows that are shown no later. `ShownBefore`: what is shown has a rank within the pages read so far, which writes keep unless a row comes in; `RestAfter`: what was there all along and is not shown has a rank behind them, unless a row goes; `CountFits`: the count, if nothing came between, is that of the rows the page is from |
| `OperationsTypes` | `OperationsProofs` | the first conjunct of each of the five invariants |

None of the properties is inductive as it stands: each talks of committed
state, and why it holds lies in what a call that is half way has read, locked
or inserted. That is what the additional conjuncts say. Where they are one
formula it is called `IInv`, and the lemma `IInvAlways` is that it holds in
every reachable state; the listed theorems follow from it.

For `CouponScheduler` this is `BatchInv`. That the stock follows the batches
says nothing of the transactions that are open, and a commit writes `taken`
decrements and `inserted` rows at once: `TakenOK` says that they are as many, but
for the one decrement that a run half way through a user still owes
(`Owed`). A commit adds as many rows as it has inserted only because none of them
is there yet, which `RowsApart` says: an insert waits for the other open
transactions and refuses a key of the unique index that is committed. `CallsApart`
says the same of the row that a direct call is about to commit. A run that has lost
its transaction has nothing open (`BareOK`), and the one decrement that it may be behind
with is outside of any transaction: `FollowsOK` counts these runs (`Behind`).
`NobodyForgotten` then needs no more than what a step does to the queue and to the batch in
the run's hands (`PopSplits`, `TailFacts`): who leaves the queue is in
a batch, who leaves a batch has a row or had one.

The refinement of `WaitingLine` needs more, `LineInv`. The abstract turn is a set,
and the code takes its users one by one from a sequence: taking the first away
takes him out of the set only if he does not stand in it again. `OnceInLine` says
that nobody is twice in a queue, since one who waits has asked, and asks once;
`OnceInTurn` that nobody is twice in a batch, nor has a row in the transaction
while he is still in the batch, but for the user just being served. `TakenOK` then
gives the size of the decrease, `RowsApart` and `CallsApart` that those who are served
or given to have none.

Sums over sets are defined in the community modules by recursion on an element
drawn by CHOOSE, and the induction theorems of the library take a predicate as a
parameter, which no installed prover can supply. `Sums` gets around it
by the well-founded ordering of the subsets of a finite set, for which the
library has a theorem about sets (`WFMin`): the subsets for which a claim
holds are all of them, or there is a smallest one for which it does not
(`Induction`). From there the recursion has a solution (`SumsExist`), only one
(`SumsAgree`), and a sum is that of the set without an element plus its value,
whichever element it is (`SumRemove`). The proofs about payments use
`SumAdd`, `SumChange` and `SumSame` only.

Only model-checked:

- liveness (`EveryRequestAnswered`, `CallsEnd`, `EveryOrderSettles`,
  `EveryCallFinishes`, `QueueIsServed`, `EveryHandlerEnds`, `WritesAreTold`):
  out of the prover's reach;
- `StuckIsTied` of `Redlock`, which speaks of ENABLED; `AnsweredIsCounted` is what
  can be said without it.

Only proved, without a run of their own, besides those that section 3 names:
the types of the proved modules, `LocksGuardWrites`, `StockNotNegative`,
`CouponOfPaidOrder`, `CountIsExact`, `DiscountIsOwn`,
`SecondAfterFirst`, `NothingLeaks`, `SomebodyMoves`. TLC agrees with each when it
is added to `Balance.cfg`, `Saga.cfg`, `Coupon.cfg`, `Order.cfg` and `Pool.cfg`.

## 6 What the code does otherwise

This run ends in a counterexample, a disagreement between the code and what its
documents say; `PROJECT.json` quotes the line.

| Run | Property | What happens |
|---|---|---|
| `order_orphan` | `FailedLeavesNoOrder` | a rollback leaves the order without an outbox row |

Further disagreements. Their properties are defined in the modules, marked
"Refuted" unless they hold in another configuration; TLC finds the
counterexample when the property takes the place of those in the configuration
named here, with the constants changed as said. A property of a module of
`Operations.cfg` needs a definition in `MCOperations` first, such as
`SkipsDuplicates == Boot!SkipsDuplicates`.

| Configuration | Property | What happens |
|---|---|---|
| `Balance.cfg` | `NeverNegative` | a charge of a negative amount overdraws an account: the controller passes the raw body on and the `@Min(0)` of `ChargeBalanceDto` is not used (`balance.controller.ts:38`) |
| `PaymentLive.cfg`, `PatchStatuses = {"SHIPPING"}` | `PaidOnce` | an order PATCHed on to SHIPPING can be paid again (`payment.repository.prisma.ts:28`) |
| `Saga.cfg`, `MaxFailures = 0` | `ChargedOnce` | the chain deducts the amount and then pays, which deducts it again (`payment.orchestrator.ts:53`) |
| `Saga.cfg`, `MaxFailures = 0` | `StockExact` | a payment takes the items from the stock, and PRODUCT_STOCK_UPDATED takes them again (`order.orchestrator.ts:81`) |
| `Saga.cfg` with a third order and three pieces, the second order of two, `MaxPosts = 3`, `MaxFailures = 0` | `SoldWithinStock` | a stock update that has read before another order was paid writes its pieces back, and they are sold again (`product.orchestrator.ts:72`, `:49`), although locks are to prevent that (README.md:301 of the repository) |
| `Saga.cfg`, `MaxFailures = 0` | `FailedIsUnpaid` | the slower of the two payments of a request fails with 'Already paid' and has the paid order cancelled (`payment.orchestrator.ts:72`) |
| `Saga.cfg`, `MaxFailures = 0` | `HistoryAddsUp` | a deduction of the chain has two history entries (`balance.orchestrator.ts:32`) |
| `Saga.cfg` | `FailedIsRefunded` | the deduction commits before its handler fails, and is not refunded (`balance.orchestrator.ts:51`) |
| `Coupon.cfg` | `WithinQuantity` | the lock runs out while its holder commits, or the mark in Redis is lost after the commit, and the last coupon is issued twice (`coupon.service.ts:89`, `:136`) |
| `Coupon.cfg` | `StockTellsIssued` | issuing does not decrement `stockQuantity` (`coupon.service.ts:127`) |
| `Coupon.cfg` | `IssuedIsTold` | the event's call gets the coupon and the user a refusal (`coupon.controller.ts:66`) |
| `OrderOrphan.cfg` | `OneOrderPerRequest` | a POST creates two orders (`order.controller.ts:56`) |
| `OrderOrphan.cfg` | `LinkedCouponIsOwn` | the id of a Coupon is connected as that of a UserCoupon (`order.service.ts:79`) |
| `OrderOrphan.cfg` | `CouponDiscountsOnce` | an unused coupon discounts every order (`order.service.ts:75`), although a coupon is deducted when it is applied (README.md:299 of the repository) |
| `OrderOrphan.cfg`, `Discount <- MCLargeDiscount` | `PaymentTakesMoney` | a large discount makes the amount negative (`order.service.ts:86`) |
| `OrderOrphan.cfg` | `LostIsKept` | a message Kafka loses is SENT in the outbox, although the catch at `order.service.ts:149` stores what could not be published |
| `OrderOrphan.cfg`, `SPECIFICATION FairSpec` | `PendingIsPublished` | no outbox row matches the cron job's query (`outbox.service.ts:20`), although it is to publish what is pending (docs/step17_kafka.md of the repository) |
| `OrderOrphan.cfg` | `ReportedIsPaid` | orders are reported when created, not when paid (`order.service.ts:165`) |
| `Scheduler.cfg` | `StockNotNegative` | two overlapping runs each take as many users as there were coupons (`coupon-issue.scheduler.ts:34`) |
| `Scheduler.cfg` | `NeverOverIssued` | coupons issued directly are counted in Redis only and do not lower the stock the scheduler reads (`coupon.service.ts:127`) |
| `Scheduler.cfg` | `MarkedHaveCoupon` | a batch is rolled back after its users were marked (`coupon-issue.scheduler.ts:69`) |
| `Scheduler.cfg` | `EveryQueueIsServed` (a PROPERTY) | the queue of a coupon behind the first hundred newer ones is not served while these last (`coupon-issue.scheduler.ts:23`) |
| `Cart.cfg` | `OrderedOnce` | the checkout of a second addition orders what the first is still removing (`cart.orchestrator.ts:52`) |
| `Cart.cfg` | `RemovedAsOrdered` | a quantity changed after the checkout has read it is removed unordered (`cart.orchestrator.ts:16`) |
| `Cart.cfg` | `NoCheckoutFails` | two checkouts remove the same item, or find the cart empty (`cart.orchestrator.ts:18`) |
| `Pool.cfg` | `NobodyTimesOut` | handlers that hold all connections wait for one more until `maxWait` (`balance.orchestrator.ts:24`) |
| `Redlock.cfg` with `MaxLost = 2`, `MaxFaults = 2` | `MutualExclusion` | two servers that restart forget their keys, and a second caller gets its majority (`redis.service.ts:12`) |
| `Redlock.cfg` | `HeldIsLocked` | a lock runs out under its caller; `redis.redlock.ts:22` says locks are extended, which the library does for `using` only |
| `Redlock.cfg` without `SYMMETRY`, `SPECIFICATION FairRedlockSpec` | `EveryCallEnds` (a PROPERTY) | four servers split two and two, and neither side ever has a quorum (`redis.service.ts:10`) |
| `Operations.cfg` | `Boot!SkipsDuplicates` | the start after one that was cut off stores coupons, products and images again: `skipDuplicates` skips only what a unique index forbids (`database.setup.ts`) |
| `Operations.cfg` | `Boot!LinksAlwaysResolve` | a rolled-back statement, or two hosts that seed at once, use up ids, and the seed refers to others (`database.setup.ts:231`) |
| `Operations.cfg` | `Data!StartsAfterExisting` | the ids of 2_rebuild-datas.js do not start after the existing ones, as its line 66 says, but after a constant |
| `Operations.cfg` | `Data!ItemsAlwaysMatch` | a script that is run again, or beside the shop, gives its items to other orders (`1_generate-datas.js:103`) |
| `Operations.cfg` | `Data!ProductsGetVariants` | a script that dies after the products leaves them without variants (`1_generate-datas.js:65`) |
| `Operations.cfg` | `Patch!LostIsKept` | there is no outbox row for order.status.updated, although the catch at `order.service.ts:198` stores one when Kafka fails |
| `Operations.cfg` | `Patch!FailedChangesNothing` | the write is not in the transaction that is rolled back (`order.service.ts:183`) |
| `Operations.cfg` | `Patch!PreviousIsReplaced` | the order changes between the read and the write (`order.service.ts:188`) |
| `Operations.cfg` | `Http!EveryRequestLogged` | a request that the guard refuses never reaches the interceptor, which says it logs all of them (`logging.interceptor.ts:13`) |
| `Operations.cfg` | `Http!EveryErrorUniform` | an error that is no `HttpException` is answered by Nest's own filter (`http-exception.filter.ts:44`) |
| `Operations.cfg` | `Lists!QuietWalkSeesAll` | rows with equal times move between pages (`coupon.repository.prisma.ts:49`) |
| `Operations.cfg` | `Lists!TotalFits` | the total and the rows are two queries (`payment.service.ts:52`) |

## 7 What is not modelled

- Payment statistics: its counters are read by nobody and written without an
  `await`.
- The answers to validation events (`handleStockCheck`,
  `handleCouponValidation`, `handleCartValidation`): they have no listener, or one
  that only emits.
- The pessimistic-lock interceptor: no handler is decorated with it, and nothing
  reads the transaction it would leave in the request.
- The TypeORM module, which is commented out.
- `k6` load tests and `count.js`: clients, without a state of their own.
- DTOs, Swagger descriptions, the wording of answers and logs, the user
  endpoints: no state of the shop beyond what the modules have.
- What a query costs in time. Timeouts are choices that may strike whoever waits
  or runs, and no module compares two durations but `Cart`, which has a clock.

## 8 Plan

Done, in this order, since money and stock come first: `Ledger` and `Balance`;
`Payment`; `PaymentSaga`, which composes the two as atomic operations;
`CouponIssue`; `OrderCreation`; the proofs of each; `CouponScheduler`;
`ProductCache` and `Cart`, with its proofs; `Checkout`, so
that the atomic step of `PaymentSaga` rests on a refinement; `ConnectionPool` and
`Redlock` below all of these, with their proofs; the five modules of
`operations`, with theirs; `WaitingLine` and `Giveaway`, with the refinements from
the two ways to a coupon. Every invariant, action property and refinement that a
run checks is a theorem, except `StuckIsTied`.

Next: an abstract specification of what a cache with a time to live promises, and
`ProductCache` shown to implement it. The part of it that callers can notice, that
nothing is added to a cart that was not there lately, is `AddedWasAvailable` and
proved.
