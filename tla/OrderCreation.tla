---------------------------- MODULE OrderCreation ----------------------------
(***************************************************************************)
(* POST /order/:userId.  The controller calls orderService.createOrder,    *)
(* emits order.created to Kafka and calls createOrder again.  createOrder  *)
(* opens a transaction for the outbox row; the order itself is inserted    *)
(* by the repository outside of it, and committed at once.  The message    *)
(* is handed to the Kafka client before the transaction commits, and the   *)
(* client says nothing of messages it loses.  A cron job is to publish     *)
(* what the outbox still has.                                              *)
(***************************************************************************)
EXTENDS Integers, FiniteSets

CONSTANTS
    Users, Variants, Requests,
    ByUser,         \* ByUser[r]: who orders
    Wants,          \* Wants[r][v]: pieces of v in the order
    Total,          \* Total[r]: totalAmount
    Coupons,        \* ids of Coupon rows, positive numbers
    CouponId,       \* CouponId[r]: couponId of the body, 0 if there is none
    MinOrder,       \* MinOrder[k], Discount[k]: minOrderAmount and amount
    Discount,
    UserCouponIds,  \* ids of UserCoupon rows, numbers of another sequence
    Owner, Gives,   \* Owner[i], Gives[i]: userId and couponId of row i
    Stock0,
    MaxFailures     \* bound on failing queries and lost messages

ASSUME RequestsAssumption ==
    /\ ByUser \in [Requests -> Users] /\ Total \in [Requests -> Nat]
    /\ Wants \in [Requests -> [Variants -> Nat]]
    /\ CouponId \in [Requests -> Coupons \union {0}]
ASSUME CouponsAssumption ==
    /\ Coupons \subseteq Nat \ {0} /\ UserCouponIds \subseteq Nat \ {0}
    /\ MinOrder \in [Coupons -> Nat] /\ Discount \in [Coupons -> Nat]
    /\ Owner \in [UserCouponIds -> Users] /\ Gives \in [UserCouponIds -> Coupons]
ASSUME StartAssumption == Stock0 \in [Variants -> Nat] /\ MaxFailures \in Nat

Calls == Requests \X {1, 2}
UserOf(c) == ByUser[c[1]]

VARIABLES
    stock,          \* ProductVariant.stockQuantity
    used,           \* UserCoupon ids that are USED
    orders,         \* Order rows
    outbox,         \* committed OutboxEvent rows
    row,            \* row[c]: rows of c's open transaction
    at, price,      \* at[c]: next step; price[c]: finalAmount computed
    link,           \* link[c]: UserCoupon id to connect, 0 for none
    message,        \* message[m]: state of the Kafka message m
    reported,       \* orders sent to the data platform
    failures

local == <<row, at, price, link>>
vars == <<stock, used, orders, outbox, local, message, reported, failures>>

Order == [call : Calls, finalAmount : Int, coupon : Coupons \union {0},
          status : {"PENDING", "PAID"}]
OutboxRow == [call : Calls, copy : {1, 2}, status : {"PENDING", "SENT", "PUBLISHED", "FAILED"}]
Step == {"none", "stock", "coupon", "insert", "outbox", "emit", "sent", "again", "commit",
         "report", "announce", "done", "failed"}

\* createOrder and the controller each emit order.created for an order.
Messages == Calls \X {"service", "controller"}

Init ==
    /\ stock = Stock0
    /\ used = {} /\ orders = {} /\ outbox = {} /\ reported = {}
    /\ row = [c \in Calls |-> {}]
    /\ at = [c \in Calls |-> "none"]
    /\ price = [c \in Calls |-> 0]
    /\ link = [c \in Calls |-> 0]
    /\ message = [m \in Messages |-> "none"]
    /\ failures = 0
-----------------------------------------------------------------------------
Goes(c, from, to) == at[c] = from /\ at' = [at EXCEPT ![c] = to]
Breaks == failures < MaxFailures /\ failures' = failures + 1

\* OrderController.createOrder: the first call.
Post(r) ==
    /\ Goes(<<r, 1>>, "none", "stock")
    /\ UNCHANGED <<stock, used, orders, outbox, row, price, link, message, reported, failures>>

\* The stock is compared and not reserved.
CheckStock(c) ==
    /\ IF \A v \in Variants : stock[v] >= Wants[c[1]][v]
          THEN Goes(c, "stock", "coupon") ELSE Goes(c, "stock", "failed")
    /\ UNCHANGED <<stock, used, orders, outbox, row, price, link, message, reported, failures>>

\* findExistingUserCoupon: AVAILABLE rows of the user for the Coupon.
OwnCoupons(c) ==
    {i \in UserCouponIds \ used : Owner[i] = UserOf(c) /\ Gives[i] = CouponId[c[1]]}

\* The Coupon the order of c gets a discount from.
Applies(c) ==
    /\ CouponId[c[1]] # 0 /\ OwnCoupons(c) # {}
    /\ MinOrder[CouponId[c[1]]] <= Total[c[1]]

\* An order without a valid coupon, or whose coupon could not be read, costs
\* the full amount.  The id to connect is that of the Coupon.
PriceOrder(c) ==
    /\ Goes(c, "coupon", "insert")
    /\ \/ /\ Applies(c) /\ UNCHANGED failures
          /\ price' = [price EXCEPT ![c] = Total[c[1]] - Discount[CouponId[c[1]]]]
          /\ link' = [link EXCEPT ![c] = CouponId[c[1]]]
       \/ /\ (~Applies(c) /\ UNCHANGED failures) \/ (CouponId[c[1]] # 0 /\ Breaks)
          /\ price' = [price EXCEPT ![c] = Total[c[1]]]
          /\ link' = [link EXCEPT ![c] = 0]
    /\ UNCHANGED <<stock, used, orders, outbox, row, message, reported>>

NewOrder(c) == [call |-> c, finalAmount |-> price[c], coupon |-> link[c], status |-> "PENDING"]
Connects(c) == link[c] = 0 \/ link[c] \in UserCouponIds

\* orderRepository.createOrder, on this.prisma and not on tx.
InsertOrder(c) ==
    /\ \/ Connects(c) /\ Goes(c, "insert", "outbox") /\ orders' = orders \union {NewOrder(c)}
       \/ ~Connects(c) /\ Goes(c, "insert", "failed") /\ UNCHANGED orders
    /\ UNCHANGED <<stock, used, outbox, row, price, link, message, reported, failures>>

AddRow(c, n) == row' = [row EXCEPT ![c] = @ \union {[call |-> c, copy |-> n, status |-> "PENDING"]}]

WriteOutbox(c) ==
    /\ Goes(c, "outbox", "emit") /\ AddRow(c, 1)
    /\ UNCHANGED <<stock, used, orders, outbox, price, link, message, reported, failures>>

\* Mutant of Emit: the emit may fail and nobody notices.
BugEmit(c) ==
    /\ Goes(c, "emit", "sent")
    /\ message' \in {message, [message EXCEPT ![<<c, "service">>] = "handed"]}
    /\ UNCHANGED <<stock, used, orders, outbox, row, price, link, reported, failures>>

\* kafkaService.emit hands the message over and resolves at once.
Emit(c) ==
    /\ Goes(c, "emit", "sent")
    /\ message' = [message EXCEPT ![<<c, "service">>] = "handed"]
    /\ UNCHANGED <<stock, used, orders, outbox, row, price, link, reported, failures>>

\* The row becomes SENT; when the UPDATE fails the catch takes over ...
MarkSent(c) ==
    /\ \/ /\ Goes(c, "sent", "commit") /\ UNCHANGED failures
          /\ row' = [row EXCEPT ![c] = {[o EXCEPT !.status = "SENT"] : o \in row[c]}]
       \/ Goes(c, "sent", "again") /\ Breaks /\ UNCHANGED row
    /\ UNCHANGED <<stock, used, orders, outbox, price, link, message, reported>>

\* ... and adds a second row.
AddAgain(c) ==
    /\ Goes(c, "again", "commit") /\ AddRow(c, 2)
    /\ UNCHANGED <<stock, used, orders, outbox, price, link, message, reported, failures>>

CommitOrder(c) ==
    /\ Goes(c, "commit", "report")
    /\ outbox' = outbox \union row[c]
    /\ UNCHANGED <<stock, used, orders, row, price, link, message, reported, failures>>

\* sendOrderData, not awaited, returns false when it fails.
Report(c) ==
    /\ Goes(c, "report", IF c[2] = 1 THEN "announce" ELSE "done")
    /\ \/ reported' = reported \union {c} /\ UNCHANGED failures
       \/ UNCHANGED reported /\ Breaks
    /\ UNCHANGED <<stock, used, orders, outbox, row, price, link, message>>

\* The controller's own order.created, and its second call of createOrder.
Announce(c) ==
    /\ at[c] = "announce"
    /\ at' = [at EXCEPT ![c] = "done", ![<<c[1], 2>>] = "stock"]
    /\ message' = [message EXCEPT ![<<c, "controller">>] = "handed"]
    /\ UNCHANGED <<stock, used, orders, outbox, row, price, link, reported, failures>>

InTransaction == {"stock", "coupon", "insert", "outbox", "sent", "again", "commit"}

\* Mutant of Fail: the order is inserted in the transaction.
BugFail(c) ==
    /\ \E from \in InTransaction : Goes(c, from, "failed")
    /\ Breaks
    /\ orders' = {o \in orders : o.call # c}
    /\ UNCHANGED <<stock, used, outbox, row, price, link, message, reported>>

\* A query or the commit fails or the transaction times out, with or without
\* its effect: the outbox rows are rolled back, the order and the message stay.
Fail(c) ==
    /\ Breaks
    /\ \E from \in InTransaction :
        /\ Goes(c, from, "failed")
        /\ orders' \in {orders} \union (IF from = "insert" /\ Connects(c)
                                          THEN {orders \union {NewOrder(c)}} ELSE {})
        /\ outbox' \in {outbox} \union (IF from = "commit"
                                          THEN {outbox \union row[c]} ELSE {})
    /\ UNCHANGED <<stock, used, row, price, link, message, reported>>

CreateOrder(c) ==
    \/ CheckStock(c) \/ PriceOrder(c) \/ InsertOrder(c) \/ WriteOutbox(c) \/ Emit(c)
    \/ MarkSent(c) \/ AddAgain(c) \/ CommitOrder(c) \/ Report(c) \/ Announce(c)

\* The Kafka client delivers a message, or loses it and only logs the error.
Deliver(m) ==
    /\ message[m] = "handed" /\ message' = [message EXCEPT ![m] = "delivered"]
    /\ UNCHANGED <<stock, used, orders, outbox, local, reported, failures>>

Lose(m) ==
    /\ message[m] = "handed" /\ message' = [message EXCEPT ![m] = "lost"] /\ Breaks
    /\ UNCHANGED <<stock, used, orders, outbox, local, reported>>

\* The where of OutboxService.processEvents (all rows are old enough, and no
\* row is retried thrice here).
Pending(o) == o.status = "INIT" /\ o.status \in {"PENDING", "FAILED"}

\* OutboxService.processEvents: every row it finds is emitted and updated.
ProcessEvents ==
    LET found == {o \in outbox : Pending(o)} IN
    /\ outbox' = (outbox \ found) \union {[o EXCEPT !.status = "PUBLISHED"] : o \in found}
    /\ message' = [m \in Messages |->
                     IF \E o \in found : m = <<o.call, "service">> THEN "handed" ELSE message[m]]
    /\ UNCHANGED <<stock, used, orders, local, reported, failures>>

\* A payment of the order, with what PAYMENT_COMPLETED does to its coupon.
PayOrder(o) ==
    LET w == Wants[o.call[1]] IN
    /\ o.status = "PENDING" /\ \A v \in Variants : stock[v] >= w[v]
    /\ stock' = [v \in Variants |-> stock[v] - w[v]]
    /\ orders' = (orders \ {o}) \union {[o EXCEPT !.status = "PAID"]}
    /\ used' = used \union ({o.coupon} \intersect UserCouponIds)
    /\ UNCHANGED <<outbox, local, message, reported, failures>>

Next ==
    \/ \E r \in Requests : Post(r)
    \/ \E c \in Calls : CreateOrder(c) \/ Fail(c)
    \/ \E m \in Messages : Deliver(m) \/ Lose(m)
    \/ ProcessEvents
    \/ \E o \in orders : PayOrder(o)

Spec == Init /\ [][Next]_vars

\* Node.js goes on with calls and messages, cron with the outbox.
FairSpec ==
    /\ Spec
    /\ \A c \in Calls : WF_vars(CreateOrder(c))
    /\ WF_vars(\E m \in Messages : Deliver(m))
    /\ WF_vars(ProcessEvents)
-----------------------------------------------------------------------------
TypeOK ==
    /\ stock \in [Variants -> Nat]
    /\ used \subseteq UserCouponIds
    /\ orders \subseteq Order /\ outbox \subseteq OutboxRow
    /\ row \in [Calls -> SUBSET OutboxRow]
    /\ at \in [Calls -> Step] /\ price \in [Calls -> Int]
    /\ link \in [Calls -> Coupons \union {0}]
    /\ message \in [Messages -> {"none", "handed", "delivered", "lost"}]
    /\ reported \subseteq Calls
    /\ failures \in 0 .. MaxFailures

OrderOf(c) == {o \in orders : o.call = c}
RowsOf(c) == {o \in outbox : o.call = c}
Created(c) == at[c] \in {"report", "announce", "done"}

\* Nobody is told of an order that does not exist: whatever is rolled back,
\* each message, outbox row and report is about an order in the table.
NoPhantomEvent ==
    \A c \in Calls :
        \/ OrderOf(c) # {}
        \/ /\ RowsOf(c) = {} /\ c \notin reported
           /\ \A s \in {"service", "controller"} : message[<<c, s>>] = "none"

\* The outbox forgets no order whose creation succeeded: its message has been
\* handed to Kafka, or a row still waits to be published.
OutboxCoversOrder ==
    \A c \in Calls : Created(c) =>
        \E o \in RowsOf(c) : o.status = "PENDING" \/ message[<<c, "service">>] # "none"

\* A discount is given only for a coupon that the user was issued.
DiscountIsOwn ==
    \A o \in orders : o.finalAmount # Total[o.call[1]] =>
        \E i \in UserCouponIds : /\ Owner[i] = UserOf(o.call)
                                 /\ Gives[i] = CouponId[o.call[1]]

\* The second order of a request, if there has to be one, is made only after
\* the first has been committed and announced.
SecondAfterFirst ==
    \A r \in Requests : OrderOf(<<r, 2>>) # {} =>
        RowsOf(<<r, 1>>) # {} /\ message[<<<<r, 1>>, "controller">>] # "none"

\* Refuted: a POST creates one order.
OneOrderPerRequest ==
    \A r \in Requests : OrderOf(<<r, 1>>) = {} \/ OrderOf(<<r, 2>>) = {}

\* The order and its outbox row are stored or rolled back together: an order
\* whose creation failed is not there. It is inserted outside the transaction.
FailedLeavesNoOrder == \A c \in Calls : at[c] = "failed" => OrderOf(c) = {}

\* Refuted: the coupon connected to an order is the one that was checked.
LinkedCouponIsOwn ==
    \A o \in orders : o.coupon # 0 =>
        Owner[o.coupon] = UserOf(o.call) /\ Gives[o.coupon] = CouponId[o.call[1]]

\* Refuted: a coupon applied to an order is deducted, so that an issued coupon
\* lowers the price of one order. createOrder leaves it AVAILABLE.
CouponDiscountsOnce ==
    \A i \in UserCouponIds :
        Cardinality({o \in orders : /\ o.finalAmount # Total[o.call[1]]
                                    /\ UserOf(o.call) = Owner[i]
                                    /\ CouponId[o.call[1]] = Gives[i]}) <= 1

\* Refuted: paying an order takes money from the user, it does not give any.
PaymentTakesMoney == \A o \in orders : o.status = "PAID" => o.finalAmount >= 0

\* Refuted: the catch of createOrder keeps in the outbox a message that could not
\* be published; one that Kafka loses is not kept, for emit resolves before.
LostIsKept ==
    \A c \in Calls : Created(c) /\ message[<<c, "service">>] = "lost" =>
        \E o \in RowsOf(c) : o.status = "PENDING"

\* Refuted: what is pending in the outbox is published in the end. The query of
\* processEvents asks for two statuses at once and finds nothing.
PendingIsPublished ==
    \A c \in Calls :
        (\E o \in RowsOf(c) : o.status = "PENDING")
            ~> (\E o \in RowsOf(c) : o.status = "PUBLISHED")

\* Refuted: the data platform gets the orders that are paid.
ReportedIsPaid == \A c \in reported : \E o \in OrderOf(c) : o.status = "PAID"
=============================================================================
