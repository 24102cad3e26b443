------------------------------- MODULE Payment -------------------------------
(***************************************************************************)
(* PaymentRepositoryPrisma.processPayment and cancelPayment.  A call is a  *)
(* SERIALIZABLE InnoDB transaction run under a Redis lock on the order (or *)
(* the payment) that takes further Redis locks on the products and the     *)
(* balance while it runs.  The two kinds of lock know nothing of each      *)
(* other:                                                                  *)
(*   - red[k], a Redlock mutex, polled: an acquisition that is refused too *)
(*     often throws.  A release may fail, which leaves the key for what is *)
(*     left of its 30 s, and either may never settle (Redlock.tla);        *)
(*   - shared[w] and excl[w], row locks kept to the end of the transaction.*)
(*     SERIALIZABLE turns every plain SELECT of the transaction into a     *)
(*     shared lock, so reading the items of an order locks their variants. *)
(* What a transaction writes becomes visible at its COMMIT; until then its *)
(* stock changes are in delta and its other writes follow from its call.   *)
(***************************************************************************)
EXTENDS Integers, Sequences, FiniteSets, Functions

CONSTANTS
    Users, Orders, Variants,
    Placed,         \* the orders that exist
    Owner,          \* Owner[o]: the user who placed o
    Items,          \* Items[o]: its order items, [variant, quantity]
    Price,          \* Price[o]: its finalAmount
    Stock0,         \* stock of each variant at the start
    Balance0,       \* balance of each user at the start
    Calls,          \* the calls in flight; each is served once
    MaxPayments,    \* payment ids a cancellation may name: 1 .. MaxPayments
    PatchStatuses,  \* statuses PATCH /orders/:id/status is used with
    MaxFaults,      \* bound on the Redlock calls that fail or never settle
    NoOne           \* the holder of a free lock

OrderStatus == {"PENDING", "PAID", "SHIPPING", "DELIVERED", "CANCELLED"}
PaymentId == 1 .. MaxPayments

\* Rows with row locks, resources with a Redis lock: order:<id>,
\* product:<id>, balance:<id> and payment:<id>.
Row == Orders \union Variants \union Users
Resource == Row \union PaymentId

ASSUME KindsAssumption ==
    /\ Orders \intersect Variants = {} /\ Orders \intersect Users = {}
    /\ Variants \intersect Users = {} /\ Row \intersect Nat = {}
ASSUME OrdersAssumption ==
    /\ Placed \subseteq Orders
    /\ Owner \in [Orders -> Users]
    /\ Items \in [Orders -> Seq([variant : Variants, quantity : Nat \ {0}])]
    /\ Price \in [Orders -> Int]
ASSUME StartAssumption == Stock0 \in [Variants -> Nat] /\ Balance0 \in [Users -> Nat]
ASSUME BoundsAssumption ==
    MaxPayments \in Nat /\ PatchStatuses \subseteq OrderStatus /\ MaxFaults \in Nat
ASSUME NoOneAssumption == NoOne \notin Calls

VARIABLES
    stock,          \* committed ProductVariant.stockQuantity
    balance,        \* committed UserBalance.balance
    orderStatus,    \* committed Order.status
    payments,       \* committed Payment rows in the order of their ids
    red,            \* red[k]: the call holding the Redis lock on k
    shared,         \* shared[w]: the calls with a shared lock on row w
    excl,           \* excl[w]: the call with the exclusive lock on row w
    pc,             \* pc[c]: the next step of call c
    call,           \* call[c]: its arguments
    item,           \* item[c]: the order item it is at
    delta,          \* delta[c][v]: its uncommitted change of v's stock
    faults          \* Redlock calls that have failed or will not settle

db == <<stock, balance, orderStatus, payments>>
rowLocks == <<shared, excl>>
vars == <<stock, balance, orderStatus, payments, red, shared, excl, pc, call, item, delta, faults>>

PayCall == [op : {"pay"}, user : Users, target : Orders]
CancelCall == [op : {"cancel"}, user : Users, target : PaymentId]
PaymentRow == [order : Orders, user : Users, amount : Int,
               status : {"COMPLETED", "CANCELLED"}]

IsPay(c) == call[c].op = "pay"

\* The order a call is about and its items.
OrderOf(c) == IF IsPay(c) THEN call[c].target ELSE payments[call[c].target].order
ItemsOf(c) == Items[OrderOf(c)]
VariantsOf(o) == {Items[o][i].variant : i \in 1 .. Len(Items[o])}
CurrentItem(c) == ItemsOf(c)[item[c]]

\* What it takes the next Redis lock on inside its transaction, or holds it on.
Inner(c) == IF item[c] <= Len(ItemsOf(c)) THEN CurrentItem(c).variant ELSE call[c].user

\* The steps inside the transaction: before its first read, before the read of
\* the items, before an item's Redis lock, before its stock update, before the
\* balance update, before the order update, before COMMIT; before its ROLLBACK,
\* and waiting for a Redlock call that never settles.
Reading == {"begin", "items"}
Writing == {"item", "stock", "money", "mark", "commit"}
Leaving == {"throw", "hanging"}
InTx == Reading \union Writing \union Leaving

\* The transaction is over: before the Redis lock of an item or the balance is
\* released, before that of the order or payment is.
After == {"cut", "committed", "aborted"}
\* The call is: answered, dead, or never to be answered.
Over == {"done", "failed", "crashed", "hung"}
Step == {"new"} \union InTx \union After \union Over

NoDelta == [v \in Variants |-> 0]

Init ==
    /\ stock = Stock0
    /\ balance = Balance0
    /\ orderStatus = [o \in Orders |-> "PENDING"]
    /\ payments = <<>>
    /\ red = [k \in Resource |-> NoOne]
    /\ shared = [w \in Row |-> {}]
    /\ excl = [w \in Row |-> NoOne]
    /\ pc = [c \in Calls |-> "new"]
    /\ call \in [Calls -> PayCall \union CancelCall]
    /\ item = [c \in Calls |-> 1]
    /\ delta = [c \in Calls |-> NoDelta]
    /\ faults = 0
-----------------------------------------------------------------------------
MayShare(c, w) == excl[w] \in {NoOne, c}
MayOwn(c, w) == excl[w] \in {NoOne, c} /\ shared[w] \subseteq {c}
Share(c, W) == shared' = [w \in Row |-> IF w \in W THEN shared[w] \union {c} ELSE shared[w]]
Own(c, w) == excl' = [excl EXCEPT ![w] = c]
Goto(c, step) == pc' = [pc EXCEPT ![c] = step]

\* The transaction is over, one way or the other: its row locks are released.
EndTx(c) ==
    /\ shared' = [w \in Row |-> shared[w] \ {c}]
    /\ excl' = [w \in Row |-> IF excl[w] = c THEN NoOne ELSE excl[w]]
    /\ delta' = [delta EXCEPT ![c] = NoDelta]

RollBack(c, step) ==
    /\ Goto(c, step)
    /\ EndTx(c)
    /\ UNCHANGED <<db, red, call, item, faults>>

\* One more Redlock call that fails or does not settle.
Fault == faults < MaxFaults /\ faults' = faults + 1

\* releaseLock: the key is gone; or the release fails, which is only logged, and
\* the key stays; or it never settles, and the call is stuck.
Release(c, k, step, stuck) ==
    \/ red' = [red EXCEPT ![k] = NoOne] /\ Goto(c, step) /\ UNCHANGED faults
    \/ red' = [red EXCEPT ![k] = c] /\ Goto(c, step) /\ Fault
    \/ red' \in {[red EXCEPT ![k] = NoOne], [red EXCEPT ![k] = c]} /\ Goto(c, stuck) /\ Fault

\* Mutant of LockTarget: a cancellation runs without its Redis lock.
BugLockTarget(c) ==
    /\ pc[c] = "new"
    /\ red[call[c].target] = NoOne
    /\ red' = IF IsPay(c) THEN [red EXCEPT ![call[c].target] = c] ELSE red
    /\ Goto(c, "begin")
    /\ UNCHANGED <<db, rowLocks, call, item, delta, faults>>

\* acquireLock('order:..') or acquireLock('payment:..'), before the transaction.
LockTarget(c) ==
    /\ pc[c] = "new"
    /\ red[call[c].target] = NoOne
    /\ red' = [red EXCEPT ![call[c].target] = c]
    /\ Goto(c, "begin")
    /\ UNCHANGED <<db, rowLocks, call, item, delta, faults>>

\* Mutant of Payable: a cancelled order is not refused.
BugPayable(c, o) == o \in Placed /\ Owner[o] = call[c].user /\ orderStatus[o] # "PAID"

\* The checks on the order; SHIPPING and DELIVERED are not refused.
Payable(c, o) ==
    /\ o \in Placed
    /\ Owner[o] = call[c].user
    /\ orderStatus[o] \notin {"PAID", "CANCELLED"}

\* Mutant of ReadOrder: the order is read without a shared lock.
BugReadOrderPlain(c) ==
    /\ pc[c] = "begin" /\ IsPay(c)
    /\ Payable(c, OrderOf(c))
    /\ Goto(c, "items")
    /\ UNCHANGED <<db, red, rowLocks, call, item, delta, faults>>

\* tx.order.findUnique and the checks.
ReadOrder(c) ==
    LET o == call[c].target IN
    /\ pc[c] = "begin" /\ IsPay(c)
    /\ MayShare(c, o)
    /\ IF Payable(c, o)
       THEN /\ Share(c, {o})
            /\ Goto(c, "items")
            /\ UNCHANGED <<db, red, excl, call, item, delta, faults>>
       ELSE RollBack(c, "aborted")

\* findPaymentWithOrderById goes through this.prisma: it takes no row lock.
ReadPayment(c) ==
    LET p == call[c].target IN
    /\ pc[c] = "begin" /\ ~IsPay(c)
    /\ IF /\ p \in DOMAIN payments
          /\ payments[p].user = call[c].user
          /\ payments[p].status = "COMPLETED"
       THEN /\ Goto(c, "items")
            /\ UNCHANGED <<db, red, rowLocks, call, item, delta, faults>>
       ELSE RollBack(c, "aborted")

\* Mutant of ReadItems: the default isolation level, reads take no lock.
BugReadItems(c) ==
    /\ pc[c] = "items"
    /\ Goto(c, "item")
    /\ UNCHANGED <<db, red, rowLocks, call, item, delta, faults>>

\* tx.orderItem.findMany with its variants.
ReadItems(c) ==
    /\ pc[c] = "items"
    /\ \A v \in VariantsOf(OrderOf(c)) : MayShare(c, v)
    /\ Share(c, VariantsOf(OrderOf(c)))
    /\ Goto(c, "item")
    /\ UNCHANGED <<db, red, excl, call, item, delta, faults>>

\* acquireLock('product:..') and, for a payment, the stock check: the
\* transaction reads its own earlier decrements.  Too little is thrown through
\* the finally, which releases the product before the transaction is rolled back.
LockVariant(c) ==
    LET v == CurrentItem(c).variant IN
    /\ pc[c] = "item" /\ item[c] <= Len(ItemsOf(c))
    /\ red[v] = NoOne
    /\ IF IsPay(c) /\ stock[v] + delta[c][v] < CurrentItem(c).quantity
       THEN Release(c, v, "throw", "hanging")
       ELSE red' = [red EXCEPT ![v] = c] /\ Goto(c, "stock") /\ UNCHANGED faults
    /\ UNCHANGED <<db, rowLocks, call, item, delta>>

Pieces(c) == IF IsPay(c) THEN 0 - CurrentItem(c).quantity ELSE CurrentItem(c).quantity

\* productVariant.update, then the Redis lock is released: the row lock is not.
ChangeStock(c) ==
    LET v == CurrentItem(c).variant IN
    /\ pc[c] = "stock"
    /\ MayOwn(c, v)
    /\ Own(c, v)
    /\ delta' = [delta EXCEPT ![c][v] = @ + Pieces(c)]
    /\ item' = [item EXCEPT ![c] = @ + 1]
    /\ Release(c, v, "item", "hanging")
    /\ UNCHANGED <<db, shared, call>>

\* acquireLock('balance:..') after the last item.
LockBalance(c) ==
    /\ pc[c] = "item" /\ item[c] > Len(ItemsOf(c))
    /\ red[call[c].user] = NoOne
    /\ red' = [red EXCEPT ![call[c].user] = c]
    /\ Goto(c, "money")
    /\ UNCHANGED <<db, rowLocks, call, item, delta, faults>>

\* deductBalance or chargeBalance in the transaction: SELECT ... FOR UPDATE,
\* the balance check, the update; then the Redis lock is released.
ChangeBalance(c) ==
    LET u == call[c].user IN
    /\ pc[c] = "money"
    /\ MayOwn(c, u)
    /\ Own(c, u)
    /\ Release(c, u, IF IsPay(c) /\ balance[u] < Price[OrderOf(c)] THEN "throw" ELSE "mark",
               "hanging")
    /\ UNCHANGED <<db, shared, call, item, delta>>

\* payment.create or payment.update, and order.update.
MarkOrder(c) ==
    /\ pc[c] = "mark"
    /\ MayOwn(c, OrderOf(c))
    /\ Own(c, OrderOf(c))
    /\ Goto(c, "commit")
    /\ UNCHANGED <<db, red, shared, call, item, delta, faults>>

\* What the COMMIT writes: the money moved, the payment created or cancelled,
\* the order's status.
Money(c) == IF IsPay(c) THEN 0 - Price[OrderOf(c)] ELSE payments[call[c].target].amount

NewPayment(c) == [order |-> OrderOf(c), user |-> call[c].user,
                  amount |-> Price[OrderOf(c)], status |-> "COMPLETED"]

CancelPayment(p) == [payments EXCEPT ![p].status = "CANCELLED"]

NewStatus(c) == IF IsPay(c) THEN "PAID" ELSE "CANCELLED"

\* The connection may be lost before the COMMIT is acknowledged.
Commit(c) ==
    /\ pc[c] = "commit"
    /\ stock' = [v \in Variants |-> stock[v] + delta[c][v]]
    /\ balance' = [balance EXCEPT ![call[c].user] = @ + Money(c)]
    /\ payments' = IF IsPay(c) THEN Append(payments, NewPayment(c))
                              ELSE CancelPayment(call[c].target)
    /\ orderStatus' = [orderStatus EXCEPT ![OrderOf(c)] = NewStatus(c)]
    /\ \E step \in {"committed", "aborted"} : Goto(c, step)
    /\ EndTx(c)
    /\ UNCHANGED <<red, call, item, faults>>

\* What the callback has thrown reaches Prisma, which rolls back.
Undo(c) == pc[c] = "throw" /\ RollBack(c, "aborted")

\* The finally of the item or of the balance, of a transaction that is over.
Finally(c) ==
    /\ pc[c] = "cut"
    /\ Release(c, Inner(c), "aborted", "hung")
    /\ UNCHANGED <<db, rowLocks, call, item, delta>>

\* The outer finally: the call returns the payment or throws.
Unlock(c) ==
    /\ pc[c] \in {"committed", "aborted"}
    /\ Release(c, call[c].target, IF pc[c] = "committed" THEN "done" ELSE "failed", "hung")
    /\ UNCHANGED <<db, rowLocks, call, item, delta>>
-----------------------------------------------------------------------------
\* The call waits for a lock somebody else holds, or a key it has left itself.
WaitsForTarget(c) == pc[c] = "new" /\ red[call[c].target] # NoOne

WaitsInTx(c) ==
    \/ pc[c] = "begin" /\ IsPay(c) /\ ~MayShare(c, OrderOf(c))
    \/ pc[c] = "items" /\ \E v \in VariantsOf(OrderOf(c)) : ~MayShare(c, v)
    \/ pc[c] = "item" /\ red[Inner(c)] # NoOne
    \/ pc[c] = "stock" /\ ~MayOwn(c, CurrentItem(c).variant)
    \/ pc[c] = "money" /\ ~MayOwn(c, call[c].user)
    \/ pc[c] = "mark" /\ ~MayOwn(c, OrderOf(c))

\* Redlock gives the target up after its retries; nothing is held yet.
TargetBusy(c) ==
    /\ WaitsForTarget(c)
    /\ Goto(c, "failed")
    /\ UNCHANGED <<db, red, rowLocks, call, item, delta, faults>>

\* The transaction is rolled back under the call; the error comes with the next
\* answer, and passes the finally of the item or the balance on its way.
BreakOff(c) == RollBack(c, IF pc[c] \in {"stock", "money"} THEN "cut" ELSE "aborted")

\* Mutant of GiveUp: Redlock retries for ever and the transaction has no timeout.
BugGiveUp(c) == pc[c] = "begin" /\ WaitsInTx(c) /\ BreakOff(c)

\* A wait inside the transaction ends in a rollback: Redlock's retries are used
\* up, InnoDB finds a deadlock, or the transaction's 5 s are over.
GiveUp(c) == WaitsInTx(c) /\ BreakOff(c)

\* A call that waits for nobody fails: Redis refuses, timeout, lost connection.
Fail(c) ==
    \/ pc[c] = "new" /\ RollBack(c, "failed")
    \/ pc[c] \in Reading \union Writing /\ ~WaitsInTx(c) /\ BreakOff(c)

\* acquireLock never settles; the key may be set on enough servers to be in the
\* way of everybody.
Hang(c) ==
    /\ Fault
    /\ \E k \in Resource :
        /\ \/ pc[c] = "new" /\ k = call[c].target /\ Goto(c, "hung")
           \/ pc[c] = "item" /\ k = Inner(c) /\ Goto(c, "hanging")
        /\ red' \in {red} \union (IF red[k] = NoOne THEN {[red EXCEPT ![k] = c]} ELSE {})
    /\ UNCHANGED <<db, rowLocks, call, item, delta>>

\* After 5 s Prisma rolls back the transaction of a callback that is stuck, which
\* does not end the callback: neither finally is reached.
TimeOut(c) == pc[c] = "hanging" /\ RollBack(c, "hung")

\* The process dies: InnoDB rolls back, its Redis locks stay.
Crash(c) == pc[c] \in InTx \union After /\ RollBack(c, "crashed")

\* A Redis lock runs out after 30 s.  A live call never holds one that long:
\* it gets its connection within 2 s, its transaction is over after 5 s.
Expire(k) ==
    /\ red[k] # NoOne
    /\ pc[red[k]] \in Over
    /\ red' = [red EXCEPT ![k] = NoOne]
    /\ UNCHANGED <<db, rowLocks, pc, call, item, delta, faults>>

\* PATCH /orders/:id/status: one autocommitted UPDATE, any status.
SetStatus(o, s) ==
    /\ o \in Placed
    /\ excl[o] = NoOne /\ shared[o] = {}
    /\ orderStatus[o] # s
    /\ orderStatus' = [orderStatus EXCEPT ![o] = s]
    /\ UNCHANGED <<stock, balance, payments, red, rowLocks, pc, call, item, delta, faults>>

Idle ==
    /\ \A c \in Calls : pc[c] \in Over
    /\ UNCHANGED vars

Work(c) ==
    \/ LockTarget(c) \/ ReadOrder(c) \/ ReadPayment(c) \/ ReadItems(c)
    \/ LockVariant(c) \/ ChangeStock(c) \/ LockBalance(c) \/ ChangeBalance(c)
    \/ MarkOrder(c) \/ Commit(c) \/ Undo(c) \/ Finally(c) \/ Unlock(c)
    \/ TargetBusy(c) \/ GiveUp(c) \/ TimeOut(c)

Next ==
    \/ \E c \in Calls : Work(c) \/ Fail(c) \/ Hang(c) \/ Crash(c)
    \/ \E k \in Resource : Expire(k)
    \/ \E o \in Orders, s \in PatchStatuses : SetStatus(o, s)
    \/ Idle

Spec == Init /\ [][Next]_vars

\* A live process takes its next step, Prisma and the Redis servers keep their
\* timers.  Redlock need not settle: Hang and Release.
FairSpec ==
    /\ Spec
    /\ \A c \in Calls : WF_vars(Work(c))
    /\ \A k \in Resource : WF_vars(Expire(k))
-----------------------------------------------------------------------------
TypeOK ==
    /\ stock \in [Variants -> Int]
    /\ balance \in [Users -> Int]
    /\ orderStatus \in [Orders -> OrderStatus]
    /\ payments \in Seq(PaymentRow)
    /\ red \in [Resource -> Calls \union {NoOne}]
    /\ shared \in [Row -> SUBSET Calls]
    /\ excl \in [Row -> Calls \union {NoOne}]
    /\ pc \in [Calls -> Step]
    /\ call \in [Calls -> PayCall \union CancelCall]
    /\ item \in [Calls -> Nat \ {0}]
    /\ delta \in [Calls -> [Variants -> Int]]
    /\ faults \in 0 .. MaxFaults

\* Concurrent payments never sell a variant that is not there: the stock check
\* of lines 40-45 holds until the decrement is committed, although the Redis
\* lock it is made under is released before (line 52).
NeverOversold == \A v \in Variants : stock[v] >= 0

PaymentsOf(o) == {p \in DOMAIN payments : payments[p].order = o}
Completed == {p \in DOMAIN payments : payments[p].status = "COMPLETED"}

\* Concurrent payments never overdraw a balance (lines 56-66): only taking back a
\* payment of a negative amount does, which order.service.ts:86 lets through.
OverdrawnByRefundOnly ==
    \A u \in Users : balance[u] < 0 =>
        \E p \in DOMAIN payments \ Completed : payments[p].user = u /\ payments[p].amount < 0

\* However often an order is paid for, and whatever was cancelled meanwhile,
\* it is charged once ('Already paid', line 28, and the integration test of
\* concurrent payments).
PaidOnce ==
    \A p, q \in DOMAIN payments : payments[p].order = payments[q].order => p = q

\* Row locks exclude each other and are held by running transactions only.
LockTable ==
    \A w \in Row :
        /\ excl[w] # NoOne => pc[excl[w]] \in Writing \union Leaving /\ shared[w] \subseteq {excl[w]}
        /\ \A c \in shared[w] : pc[c] \in InTx

\* What call c may rely on while its transaction runs: what it has checked
\* stays true, because it holds the lock that protects it.
StaysTrue(c) ==
    LET o == OrderOf(c)
        u == call[c].user
    IN
    /\ pc[c] \in InTx \union After => red[call[c].target] = c
    /\ \A v \in Variants : delta[c][v] # 0 => excl[v] = c
    /\ pc[c] \in Writing => \A v \in VariantsOf(o) : c \in shared[v]
    /\ pc[c] = "stock" => item[c] <= Len(Items[o])
    /\ pc[c] \in {"mark", "commit"} => excl[u] = c
    /\ pc[c] = "commit" => excl[o] = c
    /\ IF IsPay(c)
       THEN /\ pc[c] \in {"items"} \union Writing =>
                 c \in shared[o] /\ orderStatus[o] \notin {"PAID", "CANCELLED"}
            /\ \A v \in Variants : stock[v] + delta[c][v] >= 0
            /\ pc[c] = "stock" => LET v == CurrentItem(c).variant
                                  IN stock[v] + delta[c][v] >= CurrentItem(c).quantity
            /\ pc[c] \in {"mark", "commit"} => balance[u] >= Price[o]
       ELSE /\ \A v \in Variants : delta[c][v] >= 0
            /\ pc[c] \in {"items", "cut"} \union Writing =>
                 /\ call[c].target \in DOMAIN payments
                 /\ payments[call[c].target].user = u
                 /\ payments[call[c].target].status = "COMPLETED"

\* No check made in a transaction is stale when it is acted upon.
ChecksStayTrue == LockTable /\ \A c \in Calls : StaysTrue(c)

\* Of every user's money exactly what the completed payments took is gone: a
\* failed call took nothing and a cancellation gave back what was paid, once.
MoneyConserved ==
    \A u \in Users :
        balance[u] + SumFunction([p \in {q \in Completed : payments[q].user = u} |->
                                     payments[p].amount])
          = Balance0[u]

\* Pieces of variant v in the first n items of order o, and in all of them.
OrderedUpTo(o, n, v) ==
    SumFunction([i \in {j \in 1 .. n : Items[o][j].variant = v} |-> Items[o][i].quantity])
Ordered(o, v) == OrderedUpTo(o, Len(Items[o]), v)

\* Every piece missing from the stock belongs to a completed payment: stock
\* taken by a call that failed half way, or was cancelled, is back.
StockConserved ==
    \A v \in Variants :
        stock[v] + SumFunction([p \in Completed |-> Ordered(payments[p].order, v)]) = Stock0[v]

\* Whatever fails or crashes on the way, neither pieces nor money get lost.
NothingLost == StockConserved /\ MoneyConserved

\* The status of an order tells what became of its payment, as long as PATCH
\* leaves it alone: PAID means it has a completed one, CANCELLED that the payment
\* was given back.
StatusTellsPayment(o) ==
    /\ orderStatus[o] = "PAID" <=> PaymentsOf(o) \intersect Completed # {}
    /\ orderStatus[o] = "CANCELLED" <=> PaymentsOf(o) \ Completed # {}

Need == [o \in Orders |-> [v \in Variants |-> Ordered(o, v)]]
Atomic == INSTANCE Checkout

\* Item by item and lock by lock, beside others that do the same, crash or give
\* up, a payment or a cancellation is one step of Checkout or nothing at all.
ImplementsCheckout == Atomic!CheckoutSpec

\* Every call comes to an end: a payment waiting for a row lock under a Redis lock
\* that another one polls for, holding that row, is a deadlock neither Redis nor
\* InnoDB sees, and only the timers end it.  Calls that are never answered are
\* those of a process that died and those whose own Redlock call never settles,
\* and they are in nobody else's way for ever: their row locks go with the timeout
\* of the transaction, and every Redis key that is left behind, by a dead process,
\* a stuck call or a failed release, runs out.
CallsEnd == <>[](/\ \A c \in Calls : pc[c] \in Over
                 /\ \A k \in Resource : red[k] = NoOne
                 /\ \A w \in Row : shared[w] = {} /\ excl[w] = NoOne)
=============================================================================
