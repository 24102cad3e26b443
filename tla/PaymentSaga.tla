----------------------------- MODULE PaymentSaga -----------------------------
(***************************************************************************)
(* What one POST /payments sets off.  The controller emits                 *)
(* PAYMENT_INITIATED and then calls paymentService.processPayment itself;  *)
(* the event starts the orchestrators' chain: deduct the balance, call     *)
(* processPayment too, on failure refund the deduction and cancel the      *)
(* order, on success mark the order, take the stock and use the coupon.    *)
(*                                                                         *)
(* EventEmitter2 runs a handler up to its first await inside emit(), so an *)
(* emitted event is a task that later runs, interleaved with all others,   *)
(* one step per database transaction.  Tasks are in memory only.  A        *)
(* transaction of the payment and balance repositories is one atomic step  *)
(* here: Payment and Balance show that it may be one.                      *)
(***************************************************************************)
EXTENDS Integers, FiniteSets, Functions

CONSTANTS
    Users, Orders, Variants,
    Owner,          \* Owner[o]: the user who placed o
    Quantity,       \* Quantity[o][v]: pieces of v in o
    Price,          \* Price[o]: its finalAmount
    WithCoupon,     \* the orders a user coupon is connected to
    Stock0, Balance0,
    Requests,       \* the POST /payments, each sent at most once
    ForOrder,       \* ForOrder[r], ByUser[r]: the body of request r
    ByUser,
    MaxPosts,       \* bound on the requests sent
    MaxFailures     \* bound on technical failures and process crashes

ASSUME OrdersAssumption ==
    /\ Owner \in [Orders -> Users]
    /\ Quantity \in [Orders -> [Variants -> Nat]]
    /\ Price \in [Orders -> Nat]
    /\ WithCoupon \subseteq Orders
ASSUME StartAssumption == Stock0 \in [Variants -> Nat] /\ Balance0 \in [Users -> Nat]
ASSUME RequestsAssumption ==
    ForOrder \in [Requests -> Orders] /\ ByUser \in [Requests -> Users]
ASSUME BoundAssumption == MaxPosts \in Nat /\ MaxFailures \in Nat

VARIABLES
    stock, balance, orderStatus,
    payments,       \* the Payment rows
    ledger,         \* ledger[u]: sum of the signed amounts of u's BalanceHistory
    couponUsed,     \* orders whose coupon is USED
    posted,         \* requests received
    tasks,          \* running handlers, each at its next step
    failures        \* technical failures so far

money == <<balance, ledger>>
vars == <<stock, balance, orderStatus, payments, ledger, couponUsed, posted, tasks, failures>>

\* Steps that carry no more than their request, steps of a PAYMENT_COMPLETED
\* handler (by: who completed the payment), steps of a PRODUCT_STOCK_UPDATED
\* handler (variant; seen: the stock it has read).
SimpleStep == {"pay", "initiated", "deduct", "noteUse", "settle", "refund", "noteRefund", "cancel"}
CompletionStep == {"complete", "items", "coupon"}
By == {"http", "saga"}

Task(at, r) == [at |-> at, req |-> r]
Completion(at, r, by) == [at |-> at, req |-> r, by |-> by]
StockTask(at, r, by, v, n) == [at |-> at, req |-> r, by |-> by, variant |-> v, seen |-> n]

PaymentRow == [order : Orders, req : Requests, by : By, status : {"COMPLETED", "CANCELLED"}]

Init ==
    /\ stock = Stock0
    /\ balance = Balance0
    /\ orderStatus = [o \in Orders |-> "PENDING"]
    /\ payments = {}
    /\ ledger = [u \in Users |-> 0]
    /\ couponUsed = {}
    /\ posted = {}
    /\ tasks = {}
    /\ failures = 0
-----------------------------------------------------------------------------
\* Task t goes on as, or is replaced by, the tasks in next.
Becomes(t, next) == tasks' = (tasks \ {t}) \union next

\* Mutant of Failed: whatever failed, the amount is refunded.
BugFailed(t) == {Task("cancel", t.req), Task("refund", t.req)}

\* PAYMENT_FAILED for the request of t.
Failed(t) == {Task("cancel", t.req)}

\* A database or Redis failure, a lock nobody could get, a timeout: before the
\* transaction has committed, or after.
Broken == failures < MaxFailures /\ failures' = failures + 1
Works == UNCHANGED failures

Move(u, n) ==
    /\ balance' = [balance EXCEPT ![u] = @ + n]
    /\ ledger' = [ledger EXCEPT ![u] = @ + n]

Note(u, n) == ledger' = [ledger EXCEPT ![u] = @ + n] /\ UNCHANGED balance

\* PaymentController.processPayment: the event first, then the call.
Post(r) ==
    /\ r \notin posted /\ Cardinality(posted) < MaxPosts
    /\ posted' = posted \union {r}
    /\ tasks' = tasks \union {Task("initiated", r), Task("pay", r)}
    /\ UNCHANGED <<stock, orderStatus, payments, money, couponUsed, failures>>

\* Mutant of Payable: a paid order is not refused.
BugPayable(r) ==
    LET o == ForOrder[r] IN
    /\ Owner[o] = ByUser[r]
    /\ orderStatus[o] # "CANCELLED"
    /\ \A v \in Variants : stock[v] >= Quantity[o][v]
    /\ balance[ByUser[r]] >= Price[o]

\* The checks of PaymentRepositoryPrisma.processPayment.
Payable(r) ==
    LET o == ForOrder[r] IN
    /\ Owner[o] = ByUser[r]
    /\ orderStatus[o] \notin {"PAID", "CANCELLED"}
    /\ \A v \in Variants : stock[v] >= Quantity[o][v]
    /\ balance[ByUser[r]] >= Price[o]

\* paymentService.processPayment succeeds for a task started by `by`.
Paid(r, by) ==
    LET o == ForOrder[r] IN
    /\ Payable(r)
    /\ stock' = [v \in Variants |-> stock[v] - Quantity[o][v]]
    /\ Move(ByUser[r], 0 - Price[o])
    /\ payments' = payments \union {[order |-> o, req |-> r, by |-> by, status |-> "COMPLETED"]}
    /\ orderStatus' = [orderStatus EXCEPT ![o] = "PAID"]

NotPaid == UNCHANGED <<stock, orderStatus, payments, money>>
PaidOrNot(r, by) == Broken /\ (Paid(r, by) \/ NotPaid)

\* The controller's own call; its failure is the response of the request.
Pay(t) ==
    /\ t.at = "pay"
    /\ \/ /\ Paid(t.req, "http") /\ Works
          /\ Becomes(t, {Completion("complete", t.req, "http")})
       \/ /\ (~Payable(t.req) /\ NotPaid /\ Works) \/ PaidOrNot(t.req, "http")
          /\ Becomes(t, {})
    /\ UNCHANGED <<couponUsed, posted>>

\* PaymentOrchestrator.handlePaymentInitiation: the order is only read.
Initiate(t) ==
    /\ t.at = "initiated"
    /\ \/ Works /\ Becomes(t, {Task("deduct", t.req)})
       \/ Broken /\ Becomes(t, Failed(t))
    /\ UNCHANGED <<stock, orderStatus, payments, money, couponUsed, posted>>

\* BalanceOrchestrator.handleBalanceDeduction: balanceService.deductBalance
\* commits a transaction of its own ...
Deduct(t) ==
    LET u == ByUser[t.req]  n == Price[ForOrder[t.req]] IN
    /\ t.at = "deduct"
    /\ \/ /\ balance[u] >= n /\ Move(u, 0 - n) /\ Works
          /\ Becomes(t, {Task("noteUse", t.req)})
       \/ balance[u] < n /\ UNCHANGED money /\ Works /\ Becomes(t, Failed(t))
       \/ balance[u] >= n /\ Move(u, 0 - n) /\ Broken /\ Becomes(t, Failed(t))
       \/ UNCHANGED money /\ Broken /\ Becomes(t, Failed(t))
    /\ UNCHANGED <<stock, orderStatus, payments, couponUsed, posted>>

\* ... and the handler's transaction adds a second history entry.  When that
\* one fails the deduction stays.
NoteUse(t) ==
    /\ t.at = "noteUse"
    /\ \/ /\ Note(ByUser[t.req], 0 - Price[ForOrder[t.req]]) /\ Works
          /\ Becomes(t, {Task("settle", t.req)})
       \/ UNCHANGED money /\ Broken /\ Becomes(t, Failed(t))
    /\ UNCHANGED <<stock, orderStatus, payments, couponUsed, posted>>

\* Mutant of Settle: a failed payment is refunded but not reported.
BugSettle(t) ==
    /\ t.at = "settle"
    /\ \/ Paid(t.req, "saga") /\ Becomes(t, {Completion("complete", t.req, "saga")})
       \/ ~Payable(t.req) /\ NotPaid /\ Becomes(t, {Task("refund", t.req)})
    /\ Works /\ UNCHANGED <<couponUsed, posted>>

\* PaymentOrchestrator.handleBalanceDeductionComplete: pay, or refund and fail.
Settle(t) ==
    /\ t.at = "settle"
    /\ \/ /\ Paid(t.req, "saga") /\ Works
          /\ Becomes(t, {Completion("complete", t.req, "saga")})
       \/ /\ (~Payable(t.req) /\ NotPaid /\ Works) \/ PaidOrNot(t.req, "saga")
          /\ Becomes(t, {Task("refund", t.req)} \union Failed(t))
    /\ UNCHANGED <<couponUsed, posted>>

\* Mutant of Refund: a refund that fails after its commit is repeated.
BugRefund(t) ==
    /\ t.at = "refund"
    /\ Move(ByUser[t.req], Price[ForOrder[t.req]])
    /\ \/ Works /\ Becomes(t, {Task("noteRefund", t.req)})
       \/ Broken /\ Becomes(t, {t})
    /\ UNCHANGED <<stock, orderStatus, payments, couponUsed, posted>>

\* BalanceOrchestrator.handleBalanceCharge: chargeBalance commits; nobody
\* handles BALANCE_CHARGE_FAILED ...
Refund(t) ==
    /\ t.at = "refund"
    /\ \/ /\ Move(ByUser[t.req], Price[ForOrder[t.req]]) /\ Works
          /\ Becomes(t, {Task("noteRefund", t.req)})
       \/ Move(ByUser[t.req], Price[ForOrder[t.req]]) /\ Broken /\ Becomes(t, {})
       \/ UNCHANGED money /\ Broken /\ Becomes(t, {})
    /\ UNCHANGED <<stock, orderStatus, payments, couponUsed, posted>>

\* ... and a second history entry again.
NoteRefund(t) ==
    /\ t.at = "noteRefund"
    /\ \/ Note(ByUser[t.req], Price[ForOrder[t.req]]) /\ Works
       \/ UNCHANGED money /\ Broken
    /\ Becomes(t, {})
    /\ UNCHANGED <<stock, orderStatus, payments, couponUsed, posted>>

\* orderService.updateOrderStatus: no transition is refused.
SetStatus(r, s) == orderStatus' = [orderStatus EXCEPT ![ForOrder[r]] = s]

\* OrderOrchestrator.handlePaymentFailure.  updateOrderStatus may still throw
\* after its autocommitted UPDATE.
Cancel(t) ==
    /\ t.at = "cancel"
    /\ \/ SetStatus(t.req, "CANCELLED") /\ (Works \/ Broken)
       \/ UNCHANGED orderStatus /\ Broken
    /\ Becomes(t, {})
    /\ UNCHANGED <<stock, payments, money, couponUsed, posted>>

\* OrderOrchestrator.handlePaymentCompletion: the status, committed at once ...
Complete(t) ==
    /\ t.at = "complete"
    /\ \/ /\ SetStatus(t.req, "PAID") /\ Works
          /\ Becomes(t, {[t EXCEPT !.at = "items"]})
       \/ SetStatus(t.req, "PAID") /\ Broken /\ Becomes(t, {})
       \/ UNCHANGED orderStatus /\ Broken /\ Becomes(t, {})
    /\ UNCHANGED <<stock, payments, money, couponUsed, posted>>

\* ... one PRODUCT_STOCK_UPDATED for each order item ...
EmitStockUpdates(t) ==
    /\ t.at = "items"
    /\ \/ /\ Works
          /\ Becomes(t, {[t EXCEPT !.at = "coupon"]} \union
                         {StockTask("readStock", t.req, t.by, v, 0) :
                             v \in {w \in Variants : Quantity[ForOrder[t.req]][w] > 0}})
       \/ Broken /\ Becomes(t, {})
    /\ UNCHANGED <<stock, orderStatus, payments, money, couponUsed, posted>>

\* ... and the coupon, rolled back when the handler's transaction fails.
UseCoupon(t) ==
    /\ t.at = "coupon"
    /\ \/ couponUsed' = couponUsed \union ({ForOrder[t.req]} \intersect WithCoupon) /\ Works
       \/ UNCHANGED couponUsed /\ Broken
    /\ Becomes(t, {})
    /\ UNCHANGED <<stock, orderStatus, payments, money, posted>>

\* ProductOrchestrator.handleStockUpdate: a plain read ...
ReadStock(t) ==
    /\ t.at = "readStock"
    /\ \/ /\ stock[t.variant] >= Quantity[ForOrder[t.req]][t.variant] /\ Works
          /\ Becomes(t, {[t EXCEPT !.at = "writeStock", !.seen = stock[t.variant]]})
       \/ /\ (stock[t.variant] < Quantity[ForOrder[t.req]][t.variant] /\ Works) \/ Broken
          /\ Becomes(t, {})
    /\ UNCHANGED <<stock, orderStatus, payments, money, couponUsed, posted>>

\* ... and the difference written as an absolute value.
WriteStock(t) ==
    /\ t.at = "writeStock"
    /\ \/ /\ stock' = [stock EXCEPT
                          ![t.variant] = t.seen - Quantity[ForOrder[t.req]][t.variant]]
          /\ Works
       \/ UNCHANGED stock /\ Broken
    /\ Becomes(t, {})
    /\ UNCHANGED <<orderStatus, payments, money, couponUsed, posted>>

\* POST /payments/:id/cancel; PAYMENT_CANCELLED has no handler.
CancelPayment(p) ==
    /\ p.status = "COMPLETED"
    /\ stock' = [v \in Variants |-> stock[v] + Quantity[p.order][v]]
    /\ Move(Owner[p.order], Price[p.order])
    /\ payments' = (payments \ {p}) \union {[p EXCEPT !.status = "CANCELLED"]}
    /\ orderStatus' = [orderStatus EXCEPT ![p.order] = "CANCELLED"]
    /\ UNCHANGED <<couponUsed, posted, tasks, failures>>

\* The process dies with every event it has not handled.
Crash ==
    /\ tasks # {} /\ Broken
    /\ tasks' = {}
    /\ UNCHANGED <<stock, orderStatus, payments, money, couponUsed, posted>>

Run(t) ==
    \/ Pay(t) \/ Initiate(t) \/ Deduct(t) \/ NoteUse(t) \/ Settle(t) \/ Refund(t)
    \/ NoteRefund(t) \/ Cancel(t) \/ Complete(t) \/ EmitStockUpdates(t)
    \/ UseCoupon(t) \/ ReadStock(t) \/ WriteStock(t)

Quiet == (posted = Requests \/ Cardinality(posted) = MaxPosts) /\ tasks = {}

Next ==
    \/ \E r \in Requests : Post(r)
    \/ \E t \in tasks : Run(t)
    \/ \E p \in payments : CancelPayment(p)
    \/ Crash
    \/ Quiet /\ UNCHANGED vars

Spec == Init /\ [][Next]_vars

\* Node.js goes on with a handler when its query returns.
FairSpec == Spec /\ WF_vars(\E t \in tasks : Run(t))
-----------------------------------------------------------------------------
TaskSet ==
    [at : SimpleStep, req : Requests] \union [at : CompletionStep, req : Requests, by : By]
    \union [at : {"readStock", "writeStock"}, req : Requests, by : By, variant : Variants,
            seen : Nat]

TypeOK ==
    /\ stock \in [Variants -> Int]
    /\ balance \in [Users -> Int]
    /\ orderStatus \in [Orders -> {"PENDING", "PAID", "CANCELLED"}]
    /\ payments \subseteq PaymentRow
    /\ ledger \in [Users -> Int]
    /\ couponUsed \subseteq WithCoupon
    /\ posted \subseteq Requests
    /\ tasks \subseteq TaskSet
    /\ failures \in 0 .. MaxFailures

Completed == {p \in payments : p.status = "COMPLETED"}
SpentBy(u, P) == SumFunction([p \in {q \in P : Owner[q.order] = u} |-> Price[p.order]])
Sold(v) == SumFunction([p \in Completed |-> Quantity[p.order][v]])

\* Stock updates that run at once, on stale values and next to payments, never
\* take more than there is (product.orchestrator.ts:61).
StockNotNegative == \A v \in Variants : stock[v] >= 0

\* Two processPayment calls for every request, and the saga's status changes
\* in between, still pay for an order once.
PaidOnce == \A p, q \in payments : p.order = q.order => p = q

\* However the two chains, refunds, cancellations and failures interleave,
\* nobody is given money: a refund always follows its own deduction.
NeverEnriched == \A u \in Users : balance[u] + SpentBy(u, Completed) <= Balance0[u]

\* A coupon is used up only by an order that was paid.
CouponOfPaidOrder == \A o \in couponUsed : \E p \in payments : p.order = o

\* Deductions that the saga has made and not yet settled.
Held == {t \in tasks : t.at \in {"noteUse", "settle", "refund"}}
HeldFor(u, T) == SumFunction([t \in {s \in T : ByUser[s.req] = u} |-> Price[ForOrder[t.req]]])

\* Where the money is while nothing fails: with the user, in a completed
\* payment, in a deduction under way, or kept by the saga for a payment it
\* made itself.
MoneyAccounted ==
    failures = 0 =>
        \A u \in Users :
            Balance0[u] = balance[u] + SpentBy(u, Completed)
                          + SpentBy(u, {p \in payments : p.by = "saga"})
                          + HeldFor(u, Held)

\* While nothing fails, an order somebody tries to pay does not stay PENDING
\* for ever: each chain ends in PAYMENT_COMPLETED or PAYMENT_FAILED.
EveryOrderSettles ==
    <>[](failures = 0 => \A r \in posted : orderStatus[ForOrder[r]] # "PENDING")

\* Refuted: once everything has run, the user has paid the completed payments
\* and nothing else.
ChargedOnce ==
    Quiet => \A u \in Users : balance[u] + SpentBy(u, Completed) = Balance0[u]

\* Refuted: once everything has run, the stock misses what was sold.
StockExact == Quiet => \A v \in Variants : stock[v] + Sold(v) = Stock0[v]

\* Refuted: no more is sold than there was.
SoldWithinStock == \A v \in Variants : Sold(v) <= Stock0[v]

\* Refuted: a payment is reported failed, and its order cancelled, only when
\* the order has not been paid.
FailedIsUnpaid ==
    \A t \in tasks : t.at = "cancel" => ~\E p \in Completed : p.order = ForOrder[t.req]

\* Refuted: when the payments of all orders have failed, and their orders are
\* cancelled, the users have their money back.
FailedIsRefunded ==
    Quiet /\ payments = {} /\ (\A r \in Requests : orderStatus[ForOrder[r]] = "CANCELLED")
        => balance = Balance0

\* Refuted: the history entries add up to the balance.
HistoryAddsUp == Quiet => \A u \in Users : balance[u] = Balance0[u] + ledger[u]
=============================================================================
