-------------------------- MODULE PaymentSagaProofs --------------------------
(***************************************************************************)
(* PaymentSaga.tla proved for any orders, requests and number of failures. *)
(***************************************************************************)
EXTENDS PaymentSaga, Sums, TLAPS

\* A task is of one of the three kinds, which its step tells.
SimpleTask == [at : SimpleStep, req : Requests]
CompletionTask == [at : CompletionStep, req : Requests, by : By]
VariantTask == [at : {"readStock", "writeStock"}, req : Requests, by : By,
                variant : Variants, seen : Nat]

LEMMA TaskKinds ==
    ASSUME TypeOK, NEW t \in tasks
    PROVE  /\ t.req \in Requests
           /\ t.at \in SimpleStep => t \in SimpleTask
           /\ t.at \in CompletionStep => t \in CompletionTask
           /\ t.at \in {"readStock", "writeStock"} => t \in VariantTask
BY DEF TypeOK, TaskSet, SimpleTask, CompletionTask, VariantTask, SimpleStep, CompletionStep

\* What a request names.
LEMMA RequestTypes ==
    ASSUME NEW r \in Requests
    PROVE  /\ ForOrder[r] \in Orders /\ ByUser[r] \in Users
           /\ Price[ForOrder[r]] \in Nat
           /\ \A v \in Variants : Quantity[ForOrder[r]][v] \in Nat
BY OrdersAssumption, RequestsAssumption

LEMMA FailureTypes ==
    ASSUME TypeOK, Works \/ Broken
    PROVE  failures' \in 0 .. MaxFailures
BY BoundAssumption DEF TypeOK, Works, Broken

\* Moving money and paying keep the types of what they change.
LEMMA MoneyTypes ==
    ASSUME TypeOK, NEW u \in Users, NEW n \in Int,
           Move(u, n) \/ Note(u, n) \/ UNCHANGED money
    PROVE  balance' \in [Users -> Int] /\ ledger' \in [Users -> Int]
BY DEF TypeOK, Move, Note, money

LEMMA PaidTypes ==
    ASSUME TypeOK, NEW r \in Requests, NEW by \in By, Paid(r, by) \/ NotPaid
    PROVE  /\ stock' \in [Variants -> Int]
           /\ balance' \in [Users -> Int] /\ ledger' \in [Users -> Int]
           /\ payments' \subseteq PaymentRow
           /\ orderStatus' \in [Orders -> {"PENDING", "PAID", "CANCELLED"}]
<1>1. CASE NotPaid
  BY <1>1 DEF NotPaid, TypeOK, money
<1>2. CASE Paid(r, by)
  <2>1. /\ stock' = [v \in Variants |-> stock[v] - Quantity[ForOrder[r]][v]]
        /\ Move(ByUser[r], 0 - Price[ForOrder[r]])
        /\ orderStatus' = [orderStatus EXCEPT ![ForOrder[r]] = "PAID"]
        /\ payments' = payments \union {[order |-> ForOrder[r], req |-> r, by |-> by,
                                         status |-> "COMPLETED"]}
    BY <1>2 DEF Paid
  <2>2. stock' \in [Variants -> Int]
    BY <2>1, RequestTypes DEF TypeOK
  <2>3. balance' \in [Users -> Int] /\ ledger' \in [Users -> Int]
    BY <2>1, RequestTypes, MoneyTypes
  <2>4. payments' \subseteq PaymentRow
    BY <2>1, RequestTypes DEF TypeOK, PaymentRow
  <2>5. QED
    BY <2>1, <2>2, <2>3, <2>4 DEF TypeOK
<1>3. QED
  BY <1>1, <1>2

\* The tasks a step leaves are tasks.
LEMMA TaskTypes ==
    ASSUME TypeOK, NEW t \in tasks, Run(t)
    PROVE  tasks' \subseteq TaskSet
<1>1. ASSUME NEW next \in SUBSET TaskSet, Becomes(t, next) PROVE tasks' \subseteq TaskSet
  BY <1>1 DEF Becomes, TypeOK
<1>2. t.req \in Requests
  BY TaskKinds
<1>3. \A at \in SimpleStep : Task(at, t.req) \in TaskSet
  BY <1>2 DEF Task, TaskSet
<1>4. \A at \in CompletionStep, by \in By : Completion(at, t.req, by) \in TaskSet
  BY <1>2 DEF Completion, TaskSet
<1>5. Failed(t) \in SUBSET TaskSet /\ {} \in SUBSET TaskSet
  BY <1>3 DEF Failed, SimpleStep
<1>6. CASE Pay(t)
  BY <1>1, <1>4, <1>5, <1>6 DEF Pay, CompletionStep, By
<1>7. CASE Initiate(t) \/ Deduct(t) \/ NoteUse(t)
  BY <1>1, <1>3, <1>5, <1>7 DEF Initiate, Deduct, NoteUse, SimpleStep
<1>8. CASE Settle(t)
  <2>1. {Task("refund", t.req)} \union Failed(t) \in SUBSET TaskSet
    BY <1>3, <1>5 DEF SimpleStep
  <2>2. {Completion("complete", t.req, "saga")} \in SUBSET TaskSet
    BY <1>4 DEF CompletionStep, By
  <2>3. QED
    BY <1>1, <1>8, <2>1, <2>2 DEF Settle
<1>9. CASE Refund(t) \/ NoteRefund(t) \/ Cancel(t) \/ UseCoupon(t) \/ WriteStock(t)
  BY <1>1, <1>3, <1>5, <1>9 DEF Refund, NoteRefund, Cancel, UseCoupon, WriteStock, SimpleStep
<1>10. CASE Complete(t)
  <2>1. [t EXCEPT !.at = "items"] \in TaskSet
    BY <1>10, TaskKinds DEF Complete, CompletionTask, CompletionStep, TaskSet
  <2>2. QED
    BY <1>1, <1>5, <1>10, <2>1 DEF Complete
<1>11. CASE EmitStockUpdates(t)
  <2>1. t \in CompletionTask
    BY <1>11, TaskKinds DEF EmitStockUpdates, CompletionStep
  <2>2. [t EXCEPT !.at = "coupon"] \in TaskSet
    BY <2>1 DEF CompletionTask, CompletionStep, TaskSet
  <2>3. \A v \in Variants : StockTask("readStock", t.req, t.by, v, 0) \in TaskSet
    BY <2>1 DEF CompletionTask, StockTask, TaskSet
  <2>4. QED
    BY <1>5, <1>11, <2>2, <2>3 DEF EmitStockUpdates, Becomes, TypeOK
<1>12. CASE ReadStock(t)
  <2>1. t \in VariantTask
    BY <1>12, TaskKinds DEF ReadStock
  <2>2. stock[t.variant] >= Quantity[ForOrder[t.req]][t.variant] => stock[t.variant] \in Nat
    BY <2>1, RequestTypes DEF VariantTask, TypeOK
  <2>3. stock[t.variant] \in Nat =>
          [t EXCEPT !.at = "writeStock", !.seen = stock[t.variant]] \in TaskSet
    BY <2>1 DEF VariantTask, TaskSet
  <2>4. QED
    BY <1>1, <1>5, <1>12, <2>2, <2>3 DEF ReadStock
<1>13. QED
  BY <1>6, <1>7, <1>8, <1>9, <1>10, <1>11, <1>12 DEF Run

LEMMA TypeStep == TypeOK /\ [Next]_vars => TypeOK'
<1> SUFFICES ASSUME TypeOK, [Next]_vars PROVE TypeOK'
  OBVIOUS
<1>1. ASSUME NEW t \in tasks, Run(t) PROVE TypeOK'
  <2>1. tasks' \subseteq TaskSet /\ t.req \in Requests
    BY <1>1, TaskTypes, TaskKinds
  <2>2. posted' = posted
    BY <1>1 DEF Run, Pay, Initiate, Deduct, NoteUse, Settle, Refund, NoteRefund, Cancel,
       Complete, EmitStockUpdates, UseCoupon, ReadStock, WriteStock
  <2>3. Works \/ Broken
    BY <1>1 DEF Run, Pay, Initiate, Deduct, NoteUse, Settle, Refund, NoteRefund, Cancel,
       Complete, EmitStockUpdates, UseCoupon, ReadStock, WriteStock, PaidOrNot
  <2>4. failures' \in 0 .. MaxFailures
    BY <2>3, FailureTypes
  <2>5. CASE Pay(t) \/ Settle(t)
    <3>1. /\ couponUsed' = couponUsed
          /\ \E by \in By : Paid(t.req, by) \/ NotPaid
      BY <2>5 DEF Pay, Settle, PaidOrNot, By
    <3>2. QED
      BY <2>1, <2>2, <2>4, <3>1, PaidTypes DEF TypeOK
  <2>6. CASE Initiate(t) \/ Deduct(t) \/ NoteUse(t) \/ Refund(t) \/ NoteRefund(t)
    <3>1. PICK n \in Int : \/ Move(ByUser[t.req], n) \/ Note(ByUser[t.req], n)
                           \/ UNCHANGED money
      <4>1. Price[ForOrder[t.req]] \in Int /\ 0 - Price[ForOrder[t.req]] \in Int
        BY <2>1, RequestTypes
      <4>2. QED
        BY <2>6, <4>1 DEF Initiate, Deduct, NoteUse, Refund, NoteRefund
    <3>2. balance' \in [Users -> Int] /\ ledger' \in [Users -> Int]
      BY <2>1, <3>1, MoneyTypes, RequestTypes
    <3>3. UNCHANGED <<stock, orderStatus, payments, couponUsed>>
      BY <2>6 DEF Initiate, Deduct, NoteUse, Refund, NoteRefund
    <3>4. QED
      BY <2>1, <2>2, <2>4, <3>2, <3>3 DEF TypeOK
  <2>7. CASE Cancel(t) \/ Complete(t)
    <3>1. \/ orderStatus' = [orderStatus EXCEPT ![ForOrder[t.req]] = "CANCELLED"]
          \/ orderStatus' = [orderStatus EXCEPT ![ForOrder[t.req]] = "PAID"]
          \/ orderStatus' = orderStatus
      BY <2>7 DEF Cancel, Complete, SetStatus
    <3>2. orderStatus' \in [Orders -> {"PENDING", "PAID", "CANCELLED"}]
      BY <3>1 DEF TypeOK
    <3>3. UNCHANGED <<stock, payments, money, couponUsed>>
      BY <2>7 DEF Cancel, Complete
    <3>4. QED
      BY <2>1, <2>2, <2>4, <3>2, <3>3 DEF TypeOK, money
  <2>8. CASE EmitStockUpdates(t) \/ ReadStock(t)
    <3>1. UNCHANGED <<stock, orderStatus, payments, money, couponUsed>>
      BY <2>8 DEF EmitStockUpdates, ReadStock
    <3>2. QED
      BY <2>1, <2>2, <2>4, <3>1 DEF TypeOK, money
  <2>9. CASE UseCoupon(t)
    <3>1. UNCHANGED <<stock, orderStatus, payments, money>> /\ couponUsed' \subseteq WithCoupon
      BY <2>9 DEF UseCoupon, TypeOK
    <3>2. QED
      BY <2>1, <2>2, <2>4, <3>1 DEF TypeOK, money
  <2>10. CASE WriteStock(t)
    <3>1. t \in VariantTask
      BY <2>10, TaskKinds DEF WriteStock
    <3>2. t.seen - Quantity[ForOrder[t.req]][t.variant] \in Int
      BY <3>1, RequestTypes DEF VariantTask
    <3>3. stock' \in [Variants -> Int]
      BY <2>10, <3>2 DEF WriteStock, TypeOK
    <3>4. UNCHANGED <<orderStatus, payments, money, couponUsed>>
      BY <2>10 DEF WriteStock
    <3>5. QED
      BY <2>1, <2>2, <2>4, <3>3, <3>4 DEF TypeOK, money
  <2>11. QED
    BY <1>1, <2>5, <2>6, <2>7, <2>8, <2>9, <2>10 DEF Run
<1>2. ASSUME NEW r \in Requests, Post(r) PROVE TypeOK'
  <2>1. /\ posted' = posted \union {r}
        /\ tasks' = tasks \union {Task("initiated", r), Task("pay", r)}
        /\ UNCHANGED <<stock, orderStatus, payments, money, couponUsed, failures>>
    BY <1>2 DEF Post
  <2>2. Task("initiated", r) \in TaskSet /\ Task("pay", r) \in TaskSet
    BY DEF Task, TaskSet, SimpleStep
  <2>3. QED
    BY <2>1, <2>2 DEF TypeOK, money
<1>3. ASSUME NEW p \in payments, CancelPayment(p) PROVE TypeOK'
  <2>1. p \in PaymentRow
    BY DEF TypeOK
  <2>2. [p EXCEPT !.status = "CANCELLED"] \in PaymentRow
    BY <2>1 DEF PaymentRow
  <2>3. p.order \in Orders /\ Owner[p.order] \in Users /\ Price[p.order] \in Int
        /\ \A v \in Variants : Quantity[p.order][v] \in Int
    BY <2>1, OrdersAssumption DEF PaymentRow
  <2>4. balance' \in [Users -> Int] /\ ledger' \in [Users -> Int]
    BY <1>3, <2>3, MoneyTypes DEF CancelPayment
  <2>5. stock' \in [Variants -> Int]
    <3>1. stock' = [v \in Variants |-> stock[v] + Quantity[p.order][v]]
      BY <1>3 DEF CancelPayment
    <3>2. QED
      BY <2>3, <3>1 DEF TypeOK
  <2>6. QED
    BY <1>3, <2>2, <2>3, <2>4, <2>5 DEF CancelPayment, TypeOK
<1>4. CASE Crash
  <2>1. failures' \in 0 .. MaxFailures
    BY <1>4, FailureTypes DEF Crash
  <2>2. QED
    BY <1>4, <2>1 DEF Crash, TypeOK, money
<1>5. CASE UNCHANGED vars
  BY <1>5 DEF TypeOK, vars
<1>6. QED
  BY <1>1, <1>2, <1>3, <1>4, <1>5 DEF Next

-----------------------------------------------------------------------------
(***************************************************************************)
(* What the safety properties rest on: an order with a payment is closed,  *)
(* what follows a payment has one, and a stock about to be written was     *)
(* enough when it was read.                                                *)
(***************************************************************************)
PaidIsClosed == \A p \in payments : orderStatus[p.order] \in {"PAID", "CANCELLED"}

AfterPayment == CompletionStep \union {"readStock", "writeStock"}
FollowsPayment ==
    \A t \in tasks : t.at \in AfterPayment => \E p \in payments : p.order = ForOrder[t.req]

SeenEnough ==
    \A t \in tasks : t.at = "writeStock" => t.seen >= Quantity[ForOrder[t.req]][t.variant]

IInv == /\ TypeOK /\ PaidOnce /\ PaidIsClosed /\ FollowsPayment /\ SeenEnough
        /\ StockNotNegative /\ CouponOfPaidOrder

\* Payments are made for open orders only and never change their order.
LEMMA PaidStep ==
    ASSUME TypeOK, PaidOnce, PaidIsClosed, NEW r \in Requests, NEW by \in By,
           Paid(r, by) \/ NotPaid
    PROVE  /\ PaidOnce' /\ PaidIsClosed'
           /\ \A p \in payments : p \in payments'
           /\ Paid(r, by) => \E p \in payments' : p.order = ForOrder[r]
<1>1. CASE NotPaid
  <2>1. payments' = payments /\ orderStatus' = orderStatus
    BY <1>1 DEF NotPaid
  <2>2. Paid(r, by) => \E p \in payments' : p.order = ForOrder[r]
    <3>1. ASSUME Paid(r, by) PROVE \E p \in payments' : p.order = ForOrder[r]
      <4>1. PICK n : n.order = ForOrder[r] /\ payments' = payments \union {n}
        BY <3>1 DEF Paid
      <4>2. QED
        BY <4>1
    <3>2. QED
      BY <3>1
  <2>3. QED
    BY <2>1, <2>2 DEF PaidOnce, PaidIsClosed
<1>2. CASE Paid(r, by)
  <2>1. PICK n : n.order = ForOrder[r] /\ payments' = payments \union {n}
    BY <1>2 DEF Paid
  <2>2. /\ orderStatus' = [orderStatus EXCEPT ![ForOrder[r]] = "PAID"]
        /\ orderStatus[ForOrder[r]] \notin {"PAID", "CANCELLED"}
    BY <1>2 DEF Paid, Payable
  <2>3. \A p \in payments : p.order # ForOrder[r] /\ p.order \in Orders
    BY <2>2 DEF PaidIsClosed, TypeOK, PaymentRow
  <2>4. PaidIsClosed'
    BY <2>1, <2>2, <2>3, RequestTypes DEF PaidIsClosed, TypeOK
  <2>5. PaidOnce'
    BY <2>1, <2>3 DEF PaidOnce
  <2>6. QED
    BY <2>1, <2>4, <2>5
<1>3. QED
  BY <1>1, <1>2

\* The payments and the status of orders under a handler's step.
LEMMA PaymentsStep ==
    ASSUME TypeOK, PaidOnce, PaidIsClosed, NEW t \in tasks, Run(t)
    PROVE  /\ PaidOnce' /\ PaidIsClosed'
           /\ \A p \in payments : p \in payments'
<1>1. t.req \in Requests
  BY TaskKinds
<1>2. CASE Pay(t) \/ Settle(t)
  <2>1. PICK by \in By : Paid(t.req, by) \/ NotPaid
    BY <1>2 DEF Pay, Settle, PaidOrNot, By
  <2>2. QED
    BY <1>1, <2>1, PaidStep
<1>3. CASE ~(Pay(t) \/ Settle(t))
  <2>1. /\ payments' = payments
        /\ \/ orderStatus' = orderStatus
           \/ \E s \in {"PAID", "CANCELLED"} :
                orderStatus' = [orderStatus EXCEPT ![ForOrder[t.req]] = s]
    BY <1>3 DEF Run, Initiate, Deduct, NoteUse, Refund, NoteRefund, Cancel, Complete,
       EmitStockUpdates, UseCoupon, ReadStock, WriteStock, SetStatus
  <2>2. \A p \in payments : p.order \in Orders
    BY DEF TypeOK, PaymentRow
  <2>3. PaidIsClosed'
    BY <2>1, <2>2 DEF PaidIsClosed, TypeOK
  <2>4. QED
    BY <2>1, <2>3 DEF PaidOnce
<1>4. QED
  BY <1>2, <1>3

\* What a handler's step adds to the tasks follows a payment, if it has to.
LEMMA FollowsStep ==
    ASSUME TypeOK, PaidOnce, PaidIsClosed, FollowsPayment, NEW t \in tasks, Run(t)
    PROVE  FollowsPayment'
<1> DEFINE Backed(x) == x.at \in AfterPayment =>
                          \E p \in payments' : p.order = ForOrder[x.req]
<1>1. \A p \in payments : p \in payments'
  BY PaymentsStep
<1>2. \A x \in tasks : Backed(x)
  BY <1>1 DEF FollowsPayment
<1>3. SUFFICES ASSUME NEW x \in tasks', x \notin tasks PROVE Backed(x)
  BY <1>2 DEF FollowsPayment
<1>4. t.req \in Requests
  BY TaskKinds
<1>5. \A at, r : Task(at, r).at = at /\ Task(at, r).req = r
  BY DEF Task
<1>6. \A at, r, by : Completion(at, r, by).req = r
  BY DEF Completion
<1>7. CASE Pay(t) \/ Settle(t)
  <2>1. PICK by \in By : \/ Paid(t.req, by) /\ x.req = t.req
                         \/ x.at \notin AfterPayment
    BY <1>3, <1>5, <1>6, <1>7
       DEF Pay, Settle, Becomes, Failed, By, AfterPayment, CompletionStep
  <2>2. QED
    BY <1>4, <2>1, PaidStep
<1>8. CASE Initiate(t) \/ Deduct(t) \/ NoteUse(t) \/ Refund(t) \/ NoteRefund(t) \/ Cancel(t)
           \/ UseCoupon(t) \/ WriteStock(t)
  <2>1. x.at \notin AfterPayment
    BY <1>3, <1>5, <1>8
       DEF Initiate, Deduct, NoteUse, Refund, NoteRefund, Cancel, UseCoupon, WriteStock,
           Becomes, Failed, AfterPayment, CompletionStep
  <2>2. QED
    BY <2>1
<1>9. CASE Complete(t) \/ EmitStockUpdates(t) \/ ReadStock(t)
  <2>1. t.at \in AfterPayment
    BY <1>9 DEF Complete, EmitStockUpdates, ReadStock, AfterPayment, CompletionStep
  <2>2. x.req = t.req
    <3>1. t \in CompletionTask \union VariantTask
      BY <1>9, TaskKinds DEF Complete, EmitStockUpdates, ReadStock, CompletionStep
    <3>2. CASE Complete(t)
      BY <1>3, <3>1, <3>2 DEF Complete, Becomes, CompletionTask, VariantTask
    <3>3. CASE EmitStockUpdates(t)
      BY <1>3, <3>1, <3>3
         DEF EmitStockUpdates, Becomes, StockTask, CompletionTask, VariantTask
    <3>4. CASE ReadStock(t)
      BY <1>3, <3>1, <3>4 DEF ReadStock, Becomes, CompletionTask, VariantTask
    <3>5. QED
      BY <1>9, <3>2, <3>3, <3>4
  <2>3. QED
    BY <1>2, <2>1, <2>2
<1>10. QED
  BY <1>7, <1>8, <1>9 DEF Run

\* Stock is written only from a value that was enough.
LEMMA StockStep ==
    ASSUME TypeOK, SeenEnough, StockNotNegative, NEW t \in tasks, Run(t)
    PROVE  SeenEnough' /\ StockNotNegative'
<1>1. t.req \in Requests
  BY TaskKinds
<1>2. CASE Pay(t) \/ Settle(t)
  <2>1. \/ stock' = stock
        \/ \E by \in By : Paid(t.req, by)
    BY <1>2 DEF Pay, Settle, PaidOrNot, NotPaid, By
  <2>2. StockNotNegative'
    <3>1. ASSUME NEW by \in By, Paid(t.req, by) PROVE StockNotNegative'
      <4>1. /\ \A v \in Variants : stock'[v] = stock[v] - Quantity[ForOrder[t.req]][v]
            /\ \A v \in Variants : stock[v] >= Quantity[ForOrder[t.req]][v]
        BY <3>1 DEF Paid, Payable
      <4>2. \A v \in Variants : stock[v] \in Int /\ Quantity[ForOrder[t.req]][v] \in Int
        BY <1>1, RequestTypes DEF TypeOK
      <4>3. QED
        BY <4>1, <4>2 DEF StockNotNegative
    <3>2. QED
      BY <2>1, <3>1 DEF StockNotNegative
  <2>3. \A x \in tasks' : x \in tasks \/ x.at # "writeStock"
    BY <1>2 DEF Pay, Settle, Becomes, Failed, Task, Completion
  <2>4. QED
    BY <2>2, <2>3 DEF SeenEnough
<1>3. CASE ReadStock(t)
  <2>1. stock' = stock /\ t \in VariantTask
    BY <1>3, TaskKinds DEF ReadStock
  <2>2. ASSUME NEW x \in tasks', x \notin tasks
        PROVE  x.seen >= Quantity[ForOrder[x.req]][x.variant]
    <3>1. /\ x = [t EXCEPT !.at = "writeStock", !.seen = stock[t.variant]]
          /\ stock[t.variant] >= Quantity[ForOrder[t.req]][t.variant]
      BY <1>3, <2>2 DEF ReadStock, Becomes
    <3>2. x.seen = stock[t.variant] /\ x.req = t.req /\ x.variant = t.variant
      BY <2>1, <3>1 DEF VariantTask
    <3>3. QED
      BY <3>1, <3>2
  <2>3. QED
    BY <2>1, <2>2 DEF SeenEnough, StockNotNegative
<1>4. CASE WriteStock(t)
  <2>1. t \in VariantTask /\ t.seen >= Quantity[ForOrder[t.req]][t.variant]
    BY <1>4, TaskKinds DEF WriteStock, SeenEnough
  <2>2. PICK n \in Nat : n = t.seen - Quantity[ForOrder[t.req]][t.variant]
    BY <1>1, <2>1, RequestTypes DEF VariantTask
  <2>3. stock' = stock \/ stock' = [stock EXCEPT ![t.variant] = n]
    BY <1>4, <2>2 DEF WriteStock
  <2>4. StockNotNegative'
    BY <2>3 DEF StockNotNegative, TypeOK
  <2>5. tasks' \subseteq tasks
    BY <1>4 DEF WriteStock, Becomes
  <2>6. QED
    BY <2>4, <2>5 DEF SeenEnough
<1>5. CASE Complete(t) \/ EmitStockUpdates(t)
  <2>1. stock' = stock
    BY <1>5 DEF Complete, EmitStockUpdates
  <2>2. t \in CompletionTask
    BY <1>5, TaskKinds DEF Complete, EmitStockUpdates, CompletionStep
  <2>3. \A x \in tasks' : x \in tasks \/ x.at # "writeStock"
    BY <1>5, <2>2 DEF Complete, EmitStockUpdates, Becomes, StockTask, CompletionTask
  <2>4. QED
    BY <2>1, <2>3 DEF SeenEnough, StockNotNegative
<1>6. CASE Initiate(t) \/ Deduct(t) \/ NoteUse(t) \/ Refund(t) \/ NoteRefund(t) \/ Cancel(t)
           \/ UseCoupon(t)
  <2>1. stock' = stock
    BY <1>6 DEF Initiate, Deduct, NoteUse, Refund, NoteRefund, Cancel, UseCoupon
  <2>2. \A x \in tasks' : x \in tasks \/ x.at # "writeStock"
    BY <1>6 DEF Initiate, Deduct, NoteUse, Refund, NoteRefund, Cancel, UseCoupon,
       Becomes, Failed, Task
  <2>3. QED
    BY <2>1, <2>2 DEF SeenEnough, StockNotNegative
<1>7. QED
  BY <1>2, <1>3, <1>4, <1>5, <1>6 DEF Run

\* A coupon is used by a task that follows a payment.
LEMMA CouponStep ==
    ASSUME TypeOK, PaidOnce, PaidIsClosed, FollowsPayment, CouponOfPaidOrder,
           NEW t \in tasks, Run(t)
    PROVE  CouponOfPaidOrder'
<1>1. \A p \in payments : p \in payments'
  BY PaymentsStep
<1>2. CASE UseCoupon(t)
  <2>1. couponUsed' \subseteq couponUsed \union {ForOrder[t.req]}
    BY <1>2 DEF UseCoupon
  <2>2. \E p \in payments : p.order = ForOrder[t.req]
    BY <1>2 DEF UseCoupon, FollowsPayment, AfterPayment, CompletionStep
  <2>3. QED
    BY <1>1, <2>1, <2>2 DEF CouponOfPaidOrder
<1>3. CASE ~UseCoupon(t)
  <2>1. couponUsed' = couponUsed
    BY <1>3 DEF Run, Pay, Initiate, Deduct, NoteUse, Settle, Refund, NoteRefund, Cancel,
       Complete, EmitStockUpdates, ReadStock, WriteStock
  <2>2. QED
    BY <1>1, <2>1 DEF CouponOfPaidOrder
<1>4. QED
  BY <1>2, <1>3

LEMMA IInvInit == Init => IInv
BY StartAssumption, BoundAssumption, OrdersAssumption
   DEF Init, IInv, TypeOK, PaidOnce, PaidIsClosed, FollowsPayment, SeenEnough,
       StockNotNegative, CouponOfPaidOrder

\* Cancelling replaces a payment by one of the same order, which stays closed,
\* and gives stock back.
LEMMA CancelStep ==
    ASSUME IInv, NEW p \in payments, CancelPayment(p)
    PROVE  /\ PaidOnce' /\ PaidIsClosed' /\ FollowsPayment' /\ SeenEnough'
           /\ StockNotNegative' /\ CouponOfPaidOrder'
<1>1. PICK c : c = [p EXCEPT !.status = "CANCELLED"]
  OBVIOUS
<1>2. /\ p \in PaymentRow /\ c.order = p.order
      /\ \A q \in payments : q.order \in Orders
  BY <1>1 DEF IInv, TypeOK, PaymentRow
<1>3. /\ payments' = (payments \ {p}) \union {c}
      /\ stock' = [v \in Variants |-> stock[v] + Quantity[p.order][v]]
      /\ orderStatus' = [orderStatus EXCEPT ![p.order] = "CANCELLED"]
      /\ UNCHANGED <<couponUsed, tasks>>
  BY <1>1 DEF CancelPayment
<1>4. \A o : (\E q \in payments : q.order = o) => \E q \in payments' : q.order = o
  BY <1>2, <1>3
<1>5. PaidOnce'
  BY <1>2, <1>3 DEF IInv, PaidOnce
<1>6. PaidIsClosed'
  BY <1>2, <1>3 DEF IInv, PaidIsClosed, TypeOK
<1>7. StockNotNegative'
  <2>1. \A v \in Variants : stock[v] \in Int /\ Quantity[p.order][v] \in Nat
    BY <1>2, OrdersAssumption DEF IInv, TypeOK
  <2>2. QED
    BY <1>3, <2>1 DEF IInv, StockNotNegative
<1>8. FollowsPayment' /\ CouponOfPaidOrder'
  BY <1>3, <1>4 DEF IInv, FollowsPayment, CouponOfPaidOrder
<1>9. SeenEnough'
  BY <1>3 DEF IInv, SeenEnough
<1>10. QED
  BY <1>5, <1>6, <1>7, <1>8, <1>9

LEMMA IInvNext == IInv /\ [Next]_vars => IInv'
<1> SUFFICES ASSUME IInv, [Next]_vars PROVE IInv'
  OBVIOUS
<1>1. TypeOK'
  BY TypeStep DEF IInv
<1>2. ASSUME NEW t \in tasks, Run(t) PROVE IInv'
  BY <1>1, <1>2, PaymentsStep, FollowsStep, StockStep, CouponStep DEF IInv
<1>3. ASSUME NEW r \in Requests, Post(r) PROVE IInv'
  <2>1. /\ tasks' = tasks \union {Task("initiated", r), Task("pay", r)}
        /\ UNCHANGED <<stock, orderStatus, payments, couponUsed>>
    BY <1>3 DEF Post
  <2>2. FollowsPayment' /\ SeenEnough'
    BY <2>1 DEF IInv, FollowsPayment, SeenEnough, Task, AfterPayment, CompletionStep
  <2>3. QED
    BY <1>1, <2>1, <2>2 DEF IInv, PaidOnce, PaidIsClosed, StockNotNegative, CouponOfPaidOrder
<1>4. ASSUME NEW p \in payments, CancelPayment(p) PROVE IInv'
  BY <1>1, <1>4, CancelStep DEF IInv
<1>5. CASE Crash
  BY <1>1, <1>5
     DEF Crash, IInv, PaidOnce, PaidIsClosed, FollowsPayment, SeenEnough, StockNotNegative,
         CouponOfPaidOrder
<1>6. CASE UNCHANGED vars
  BY <1>1, <1>6
     DEF vars, IInv, PaidOnce, PaidIsClosed, FollowsPayment, SeenEnough, StockNotNegative,
         CouponOfPaidOrder
<1>7. QED
  BY <1>2, <1>3, <1>4, <1>5, <1>6 DEF Next

LEMMA IInvAlways == Spec => []IInv
<1>1. QED
  BY IInvInit, IInvNext, PTL DEF Spec

\* Every state of the saga is of its type: no handler leaves a task it does
\* not know, a stock that is no number or a status that does not exist.
THEOREM SagaType == Spec => []TypeOK
<1>1. IInv => TypeOK
  BY DEF IInv
<1>2. QED
  BY IInvAlways, <1>1, PTL

\* Two processPayment calls for each request and the saga's status updates
\* never pay an order twice, for any number of requests and failures: only an
\* order that is not closed is paid, and no handler opens a closed one.
THEOREM SagaPaidOnce == Spec => []PaidOnce
<1>1. IInv => PaidOnce
  BY DEF IInv
<1>2. QED
  BY IInvAlways, <1>1, PTL

\* The unlocked read and the absolute write of handleStockUpdate may lose an
\* update, but never take the stock below zero: SeenEnough is what is left.
THEOREM SagaStockNotNegative == Spec => []StockNotNegative
<1>1. IInv => StockNotNegative
  BY DEF IInv
<1>2. QED
  BY IInvAlways, <1>1, PTL

\* PAYMENT_COMPLETED is emitted only after a payment, so that a coupon is used
\* only by an order that was paid, even if it has been cancelled since.
THEOREM SagaCouponOfPaidOrder == Spec => []CouponOfPaidOrder
<1>1. IInv => CouponOfPaidOrder
  BY DEF IInv
<1>2. QED
  BY IInvAlways, <1>1, PTL
-----------------------------------------------------------------------------
(***************************************************************************)
(* Where the money is.  Each step moves an amount between the balance of   *)
(* one user, the payments and what the saga holds; what a failure or a     *)
(* crash takes away is held by nobody.  A request has one task of the      *)
(* saga's chain at most, so that what it holds counts once.                *)
(***************************************************************************)
\* Where a task has what it took from the balance.
HeldAt == {"noteUse", "settle", "refund"}
Chain == {"initiated", "deduct"} \union HeldAt

OneChain ==
    /\ \A t \in tasks : t.req \in posted
    /\ \A s, t \in tasks : s.at \in Chain /\ t.at \in Chain /\ s.req = t.req => s = t

Finite == IsFiniteSet(payments) /\ IsFiniteSet(Held)

BySaga == {p \in payments : p.by = "saga"}

\* What a payment and a request take from the money of u.
Cost(u, p) == IF Owner[p.order] = u THEN Price[p.order] ELSE 0
Due(u, r) == IF ByUser[r] = u THEN Price[ForOrder[r]] ELSE 0

\* What the money of u adds up to, and with what it has paid to the saga.
Known(u) == balance[u] + SpentBy(u, Completed) + HeldFor(u, Held)
Charged(u) == Known(u) + SpentBy(u, BySaga)

\* NeverEnriched and MoneyAccounted, for one sum each.
NoMoneyMade == \A u \in Users : Known(u) <= Balance0[u]
NoMoneyLost == failures = 0 => \A u \in Users : Charged(u) = Balance0[u]

MInv == IInv /\ OneChain /\ Finite /\ NoMoneyMade /\ NoMoneyLost

\* One payment more.
LEMMA SpentAdd ==
    ASSUME NEW u \in Users, NEW P \in SUBSET PaymentRow, IsFiniteSet(P), NEW p \in PaymentRow, p \notin P
    PROVE  /\ SpentBy(u, P) \in Nat
           /\ SpentBy(u, P \union {p}) = SpentBy(u, P) + Cost(u, p)
<1> DEFINE Of(Q) == {q \in Q : Owner[q.order] = u}
           F(Q) == [q \in Of(Q) |-> Price[q.order]]
<1>1. \A q \in PaymentRow : Price[q.order] \in Nat
  BY OrdersAssumption DEF PaymentRow
<1>2. \A Q : SpentBy(u, Q) = SumFunction(F(Q))
  BY DEF SpentBy
<1>3. IsFiniteSet(Of(P))
  BY FS_Subset
<1>4. SpentBy(u, P) \in Nat
  <2>1. \A q \in Of(P) : F(P)[q] \in Nat
    BY <1>1
  <2>2. DOMAIN F(P) = Of(P)
    OBVIOUS
  <2> HIDE DEF Of, F
  <2> QED BY <1>2, <1>3, <2>1, <2>2, TotalType
<1>5. CASE Owner[p.order] = u
  <2>1. Of(P \union {p}) = Of(P) \union {p} /\ p \notin Of(P)
    BY <1>5
  <2>2. /\ \A q \in Of(P) : F(P)[q] \in Int /\ F(P \union {p})[q] = F(P)[q]
        /\ F(P \union {p})[p] = Price[p.order] /\ Price[p.order] \in Int
    BY <1>1, <1>5
  <2>3. SpentBy(u, P \union {p}) = SpentBy(u, P) + Price[p.order]
    <3>1. DOMAIN F(P) = Of(P) /\ DOMAIN F(P \union {p}) = Of(P) \union {p}
      BY <2>1
    <3>2. PICK f, g : f = F(P) /\ g = F(P \union {p})
      OBVIOUS
    <3> HIDE DEF Of, F
    <3>3. /\ IsFiniteSet(DOMAIN f) /\ p \notin DOMAIN f /\ DOMAIN g = DOMAIN f \union {p}
          /\ \A y \in DOMAIN f : f[y] \in Int /\ g[y] = f[y]
          /\ g[p] \in Int
      BY <1>3, <2>1, <2>2, <3>1, <3>2
    <3>4. SumFunction(g) = SumFunction(f) + g[p]
      BY <3>3, TotalAdd
    <3> QED BY <1>2, <2>2, <3>2, <3>4
  <2> QED BY <1>4, <1>5, <2>3 DEF Cost
<1>6. CASE Owner[p.order] # u
  <2>1. Of(P \union {p}) = Of(P)
    BY <1>6
  <2>2. SpentBy(u, P \union {p}) = SpentBy(u, P)
    BY <2>1 DEF SpentBy
  <2> QED BY <1>4, <1>6, <2>2 DEF Cost
<1> QED BY <1>4, <1>5, <1>6

LEMMA HeldAdd ==
    ASSUME NEW u \in Users, NEW T, IsFiniteSet(T), NEW t, t \notin T, t.req \in Requests,
           \A s \in T : s.req \in Requests
    PROVE  /\ HeldFor(u, T) \in Nat
           /\ HeldFor(u, T \union {t}) = HeldFor(u, T) + Due(u, t.req)
<1> DEFINE Of(S) == {s \in S : ByUser[s.req] = u}
           F(S) == [s \in Of(S) |-> Price[ForOrder[s.req]]]
<1>1. \A r \in Requests : Price[ForOrder[r]] \in Nat
  BY RequestTypes
<1>2. \A S : HeldFor(u, S) = SumFunction(F(S))
  BY DEF HeldFor
<1>3. IsFiniteSet(Of(T))
  BY FS_Subset
<1>4. HeldFor(u, T) \in Nat
  <2>1. \A s \in Of(T) : F(T)[s] \in Nat
    BY <1>1
  <2>2. DOMAIN F(T) = Of(T)
    OBVIOUS
  <2> HIDE DEF Of, F
  <2> QED BY <1>2, <1>3, <2>1, <2>2, TotalType
<1>5. CASE ByUser[t.req] = u
  <2>1. Of(T \union {t}) = Of(T) \union {t} /\ t \notin Of(T)
    BY <1>5
  <2>2. /\ \A s \in Of(T) : F(T)[s] \in Int /\ F(T \union {t})[s] = F(T)[s]
        /\ F(T \union {t})[t] = Price[ForOrder[t.req]] /\ Price[ForOrder[t.req]] \in Int
    BY <1>1, <1>5
  <2>3. HeldFor(u, T \union {t}) = HeldFor(u, T) + Price[ForOrder[t.req]]
    <3>1. DOMAIN F(T) = Of(T) /\ DOMAIN F(T \union {t}) = Of(T) \union {t}
      BY <2>1
    <3>2. PICK f, g : f = F(T) /\ g = F(T \union {t})
      OBVIOUS
    <3> HIDE DEF Of, F
    <3>3. /\ IsFiniteSet(DOMAIN f) /\ t \notin DOMAIN f /\ DOMAIN g = DOMAIN f \union {t}
          /\ \A y \in DOMAIN f : f[y] \in Int /\ g[y] = f[y]
          /\ g[t] \in Int
      BY <1>3, <2>1, <2>2, <3>1, <3>2
    <3>4. SumFunction(g) = SumFunction(f) + g[t]
      BY <3>3, TotalAdd
    <3> QED BY <1>2, <2>2, <3>2, <3>4
  <2> QED BY <1>4, <1>5, <2>3 DEF Due
<1>6. CASE ByUser[t.req] # u
  <2>1. Of(T \union {t}) = Of(T)
    BY <1>6
  <2>2. HeldFor(u, T \union {t}) = HeldFor(u, T)
    BY <2>1 DEF HeldFor
  <2> QED BY <1>4, <1>6, <2>2 DEF Due
<1> QED BY <1>4, <1>5, <1>6

\* What the saga holds after a step of t that leaves it nothing to hold, and
\* after one that leaves it h.
InHand(u, t) == IF t.at \in HeldAt THEN Due(u, t.req) ELSE 0

\* The saga holds what its tasks between deduction and settlement hold.
LEMMA HeldIs ==
    Held = {t \in tasks : t.at \in HeldAt}
BY DEF Held, HeldAt

\* What is held without one of the tasks.
LEMMA HeldLess ==
    ASSUME TypeOK, Finite, NEW t \in tasks, NEW u \in Users
    PROVE  /\ IsFiniteSet(Held \ {t})
           /\ HeldFor(u, Held \ {t}) \in Nat /\ HeldFor(u, Held) \in Nat
           /\ HeldFor(u, Held \ {t}) = HeldFor(u, Held) - InHand(u, t)
<1>1. \A s \in Held : s.req \in Requests
  BY TaskKinds, HeldIs
<1>2. IsFiniteSet(Held \ {t}) /\ t.req \in Requests
  BY FS_Subset, TaskKinds DEF Finite
<1>3. CASE t \in Held
  <2> DEFINE T == Held \ {t}
  <2>1. t \notin T /\ T \union {t} = Held /\ \A s \in T : s.req \in Requests
    BY <1>1, <1>3
  <2>2. IsFiniteSet(T) /\ T = Held \ {t}
    BY <1>2
  <2> HIDE DEF T
  <2>3. HeldFor(u, T) \in Nat /\ HeldFor(u, T \union {t}) = HeldFor(u, T) + Due(u, t.req)
    BY <1>2, <2>1, <2>2, HeldAdd
  <2>4. InHand(u, t) = Due(u, t.req) /\ Due(u, t.req) \in Nat
    BY <1>2, <1>3, HeldIs, RequestTypes DEF InHand, Due
  <2>5. HeldFor(u, Held) = HeldFor(u, T) + Due(u, t.req)
    BY <2>1, <2>3
  <2>6. HeldFor(u, Held) \in Nat /\ HeldFor(u, T) = HeldFor(u, Held) - InHand(u, t)
    BY <2>3, <2>4, <2>5
  <2> QED BY <1>2, <2>3, <2>6 DEF T
<1>4. CASE t \notin Held
  <2>1. HeldFor(u, Held) \in Nat
    BY <1>1, <1>2, <1>4, HeldAdd DEF Finite
  <2>2. Held \ {t} = Held /\ InHand(u, t) = 0
    BY <1>4, HeldIs DEF InHand
  <2>3. HeldFor(u, Held \ {t}) = HeldFor(u, Held)
    BY <2>2
  <2> QED BY <1>2, <2>1, <2>2, <2>3
<1> QED BY <1>3, <1>4

\* A task goes on, or ends, without what it held.
LEMMA LetsGo ==
    ASSUME TypeOK, Finite, NEW t \in tasks, NEW next, Becomes(t, next),
           \A s \in next : s.at \notin HeldAt
    PROVE  /\ IsFiniteSet(Held')
           /\ \A u \in Users : HeldFor(u, Held') = HeldFor(u, Held) - InHand(u, t)
<1>1. Held' = Held \ {t}
  BY HeldIs DEF Becomes, Held, HeldAt
<1>2. IsFiniteSet(Held \ {t})
  BY FS_Subset DEF Finite
<1>3. \A u \in Users : HeldFor(u, Held \ {t}) = HeldFor(u, Held) - InHand(u, t)
  BY HeldLess
<1> QED BY <1>1, <1>2, <1>3

\* A task of the chain goes on and holds what its request is about.
LEMMA HoldsOn ==
    ASSUME TypeOK, Finite, OneChain, NEW t \in tasks, t.at \in Chain,
           NEW h, h.at \in HeldAt, h.at # t.at, h.req = t.req,
           NEW next, Becomes(t, {h} \union next), \A s \in next : s.at \notin HeldAt
    PROVE  /\ IsFiniteSet(Held')
           /\ \A u \in Users :
                 HeldFor(u, Held') = HeldFor(u, Held) - InHand(u, t) + Due(u, t.req)
<1> DEFINE T == Held \ {t}
<1>1. Held' = T \union {h}
  BY HeldIs DEF Becomes, Held, HeldAt
<1>2. h \notin T /\ t.req \in Requests /\ \A s \in T : s.req \in Requests
  <2>1. h \notin tasks
    BY DEF OneChain, Chain
  <2> QED BY <2>1, TaskKinds, HeldIs
<1>3. IsFiniteSet(T)
  BY FS_Subset DEF Finite
<1>4. IsFiniteSet(Held')
  BY <1>1, <1>3, FS_AddElement
<1>5. ASSUME NEW u \in Users
      PROVE  HeldFor(u, Held') = HeldFor(u, Held) - InHand(u, t) + Due(u, t.req)
  <2>1. HeldFor(u, T) = HeldFor(u, Held) - InHand(u, t)
    BY HeldLess
  <2> HIDE DEF T
  <2>2. HeldFor(u, T \union {h}) = HeldFor(u, T) + Due(u, h.req)
    BY <1>2, <1>3, HeldAdd
  <2> QED BY <1>1, <2>1, <2>2
<1> QED BY <1>4, <1>5

\* A payment takes from the balance of its user what it adds to the completed
\* payments.
LEMMA PaidMoney ==
    ASSUME IInv, Finite, NEW r \in Requests, NEW by \in By, Paid(r, by)
    PROVE  /\ IsFiniteSet(payments')
           /\ \A u \in Users :
                /\ balance'[u] = balance[u] - Due(u, r)
                /\ SpentBy(u, Completed') = SpentBy(u, Completed) + Due(u, r)
                /\ SpentBy(u, BySaga') = SpentBy(u, BySaga)
                                         + (IF by = "saga" THEN Due(u, r) ELSE 0)
<1>1. PICK p \in PaymentRow : /\ p.order = ForOrder[r] /\ p.by = by /\ p.status = "COMPLETED"
                              /\ payments' = payments \union {p}
  BY RequestTypes DEF Paid, PaymentRow
<1>2. p \notin payments
  BY <1>1 DEF Paid, Payable, IInv, PaidIsClosed
<1>3. IsFiniteSet(payments')
  BY <1>1, FS_AddElement DEF Finite
<1>4. IsFiniteSet(Completed) /\ IsFiniteSet(BySaga)
  BY FS_Subset DEF Finite, Completed, BySaga
<1>5. Completed \in SUBSET PaymentRow /\ BySaga \in SUBSET PaymentRow
  BY DEF IInv, TypeOK, Completed, BySaga
<1>6. Completed' = Completed \union {p} /\ p \notin Completed /\ p \notin BySaga
  BY <1>1, <1>2 DEF Completed, BySaga
<1>7. BySaga' = IF by = "saga" THEN BySaga \union {p} ELSE BySaga
  BY <1>1 DEF BySaga
<1>8. ASSUME NEW u \in Users
      PROVE  /\ balance'[u] = balance[u] - Due(u, r)
             /\ SpentBy(u, Completed') = SpentBy(u, Completed) + Due(u, r)
             /\ SpentBy(u, BySaga') = SpentBy(u, BySaga)
                                      + (IF by = "saga" THEN Due(u, r) ELSE 0)
  <2>1. Cost(u, p) = Due(u, r)
    BY <1>1 DEF Cost, Due, Paid, Payable
  <2>2. balance'[u] = balance[u] - Due(u, r)
    <3>1. balance' = [balance EXCEPT ![ByUser[r]] = @ + (0 - Price[ForOrder[r]])]
      BY DEF Paid, Move
    <3> QED BY <3>1, RequestTypes DEF IInv, TypeOK, Due
  <2>3. SpentBy(u, Completed') = SpentBy(u, Completed) + Due(u, r)
    BY <1>4, <1>5, <1>6, <2>1, SpentAdd
  <2>4. /\ SpentBy(u, BySaga) \in Nat
        /\ SpentBy(u, BySaga \union {p}) = SpentBy(u, BySaga) + Due(u, r)
    BY <1>4, <1>5, <1>6, <2>1, SpentAdd
  <2> QED BY <1>7, <2>2, <2>3, <2>4
<1> QED BY <1>3, <1>8

\* Cancelling a payment gives back what the payment took.
LEMMA CancelMoney ==
    ASSUME IInv, Finite, NEW p \in payments, CancelPayment(p)
    PROVE  /\ IsFiniteSet(payments')
           /\ \A u \in Users :
                /\ balance'[u] = balance[u] + Cost(u, p)
                /\ SpentBy(u, Completed') = SpentBy(u, Completed) - Cost(u, p)
                /\ SpentBy(u, BySaga') = SpentBy(u, BySaga)
<1>1. p \in PaymentRow /\ p.order \in Orders
  BY DEF IInv, TypeOK, PaymentRow
<1>2. PICK c \in PaymentRow : /\ c.order = p.order /\ c.by = p.by /\ c.status = "CANCELLED"
                              /\ payments' = (payments \ {p}) \union {c}
  BY <1>1 DEF CancelPayment, PaymentRow
<1>3. p.status = "COMPLETED" /\ c \notin payments
  BY <1>2 DEF CancelPayment, IInv, PaidOnce
<1>4. IsFiniteSet(payments \ {p}) /\ IsFiniteSet(payments')
  BY <1>2, FS_Subset, FS_AddElement DEF Finite
<1>5. IsFiniteSet(Completed \ {p}) /\ IsFiniteSet(BySaga \ {p})
  BY FS_Subset DEF Finite, Completed, BySaga
<1>6. Completed \ {p} \in SUBSET PaymentRow /\ BySaga \ {p} \in SUBSET PaymentRow
  BY DEF IInv, TypeOK, Completed, BySaga
<1>7. Completed' = Completed \ {p} /\ p \in Completed
  BY <1>2, <1>3 DEF Completed
<1>8. /\ p \in BySaga => BySaga' = (BySaga \ {p}) \union {c}
      /\ p \notin BySaga => BySaga' = BySaga
      /\ c \notin BySaga \ {p}
  BY <1>2, <1>3 DEF BySaga
<1>9. ASSUME NEW u \in Users
      PROVE  /\ balance'[u] = balance[u] + Cost(u, p)
             /\ SpentBy(u, Completed') = SpentBy(u, Completed) - Cost(u, p)
             /\ SpentBy(u, BySaga') = SpentBy(u, BySaga)
  <2>1. Cost(u, c) = Cost(u, p) /\ Cost(u, p) \in Nat
    BY <1>1, <1>2, OrdersAssumption DEF Cost
  <2>2. balance'[u] = balance[u] + Cost(u, p)
    <3>1. balance' = [balance EXCEPT ![Owner[p.order]] = @ + Price[p.order]]
      BY DEF CancelPayment, Move
    <3> QED BY <1>1, <3>1, OrdersAssumption DEF IInv, TypeOK, Cost
  <2>3. ASSUME NEW P \in SUBSET PaymentRow, IsFiniteSet(P \ {p}), p \in P
        PROVE  SpentBy(u, P \ {p}) \in Nat /\ SpentBy(u, P) = SpentBy(u, P \ {p}) + Cost(u, p)
    <3> DEFINE Q == P \ {p}
    <3>1. Q \in SUBSET PaymentRow /\ IsFiniteSet(Q) /\ p \notin Q /\ P = Q \union {p}
      BY <2>3
    <3> HIDE DEF Q
    <3>2. SpentBy(u, Q) \in Nat /\ SpentBy(u, P) = SpentBy(u, Q) + Cost(u, p)
      BY <1>1, <3>1, SpentAdd
    <3> QED BY <3>2 DEF Q
  <2>4. SpentBy(u, Completed') = SpentBy(u, Completed) - Cost(u, p)
    <3>1. Completed \in SUBSET PaymentRow
      BY DEF IInv, TypeOK, Completed
    <3>2. /\ SpentBy(u, Completed \ {p}) \in Nat
          /\ SpentBy(u, Completed) = SpentBy(u, Completed \ {p}) + Cost(u, p)
      BY <1>5, <1>7, <2>3, <3>1
    <3> QED BY <1>7, <2>1, <3>2
  <2>5. SpentBy(u, BySaga') = SpentBy(u, BySaga)
    <3>1. CASE p \in BySaga
      <4>1. BySaga \in SUBSET PaymentRow
        BY DEF IInv, TypeOK, BySaga
      <4>2. SpentBy(u, BySaga) = SpentBy(u, BySaga \ {p}) + Cost(u, p)
        BY <1>5, <2>3, <3>1, <4>1
      <4>3. SpentBy(u, (BySaga \ {p}) \union {c}) = SpentBy(u, BySaga \ {p}) + Cost(u, c)
        BY <1>2, <1>5, <1>6, <1>8, SpentAdd
      <4> QED BY <1>8, <2>1, <3>1, <4>2, <4>3
    <3>2. CASE p \notin BySaga
      BY <1>8, <3>2
    <3> QED BY <3>1, <3>2
  <2> QED BY <2>2, <2>4, <2>5
<1> QED BY <1>4, <1>9

\* A step of the chain leaves one task of the chain at most, and no other step
\* leaves one.
LEMMA ChainBecomes ==
    ASSUME OneChain, NEW t \in tasks, NEW next, Becomes(t, next), posted' = posted,
           \A s \in next : s.req = t.req,
           \A s \in next : s.at \in Chain => t.at \in Chain,
           \A s, q \in next : s.at \in Chain /\ q.at \in Chain => s = q
    PROVE  OneChain'
BY DEF OneChain, Becomes

\* No step gives a request a second task of the chain.
LEMMA ChainStep ==
    ASSUME TypeOK, OneChain, [Next]_vars
    PROVE  OneChain'
<1>1. ASSUME NEW t \in tasks, Run(t) PROVE OneChain'
  <2> USE DEF Chain, HeldAt, Task, Completion, Failed
  <2>1. posted' = posted
    BY <1>1 DEF Run, Pay, Initiate, Deduct, NoteUse, Settle, Refund, NoteRefund, Cancel,
       Complete, EmitStockUpdates, UseCoupon, ReadStock, WriteStock
  <2>2. CASE Pay(t)
    BY <2>1, <2>2, ChainBecomes DEF Pay
  <2>3. CASE Initiate(t) \/ Deduct(t) \/ NoteUse(t)
    <3>1. PICK at \in {"deduct", "noteUse", "settle", "cancel"} : Becomes(t, {Task(at, t.req)})
      BY <2>3 DEF Initiate, Deduct, NoteUse
    <3>2. t.at \in Chain
      BY <2>3 DEF Initiate, Deduct, NoteUse
    <3> QED BY <2>1, <3>1, <3>2, ChainBecomes
  <2>4. CASE Settle(t)
    BY <2>1, <2>4, ChainBecomes DEF Settle
  <2>5. CASE Refund(t) \/ NoteRefund(t) \/ Cancel(t) \/ UseCoupon(t) \/ WriteStock(t)
    BY <2>1, <2>5, ChainBecomes DEF Refund, NoteRefund, Cancel, UseCoupon, WriteStock
  <2>6. CASE Complete(t)
    <3>1. t \in CompletionTask
      BY <2>6, TaskKinds DEF Complete, CompletionStep
    <3>2. PICK n : n = [t EXCEPT !.at = "items"]
      OBVIOUS
    <3>3. n.req = t.req /\ n.at = "items"
      BY <3>1, <3>2 DEF CompletionTask
    <3>4. PICK next : Becomes(t, next) /\ \A s \in next : s = n
      BY <2>6, <3>2 DEF Complete
    <3> QED BY <2>1, <3>3, <3>4, ChainBecomes
  <2>7. CASE EmitStockUpdates(t)
    <3>1. t \in CompletionTask
      BY <2>7, TaskKinds DEF EmitStockUpdates, CompletionStep
    <3>2. PICK n : n = [t EXCEPT !.at = "coupon"]
      OBVIOUS
    <3>3. n.req = t.req /\ n.at = "coupon"
      BY <3>1, <3>2 DEF CompletionTask
    <3>4. PICK next : /\ Becomes(t, next)
                      /\ \A s \in next : s = n \/ (s.req = t.req /\ s.at = "readStock")
      BY <2>7, <3>2 DEF EmitStockUpdates, StockTask
    <3> QED BY <2>1, <3>3, <3>4, ChainBecomes
  <2>8. CASE ReadStock(t)
    <3>1. t \in VariantTask
      BY <2>8, TaskKinds DEF ReadStock
    <3>2. PICK n : n = [t EXCEPT !.at = "writeStock", !.seen = stock[t.variant]]
      OBVIOUS
    <3>3. n.req = t.req /\ n.at = "writeStock"
      BY <3>1, <3>2 DEF VariantTask
    <3>4. PICK next : Becomes(t, next) /\ \A s \in next : s = n
      BY <2>8, <3>2 DEF ReadStock
    <3> QED BY <2>1, <3>3, <3>4, ChainBecomes
  <2> QED BY <1>1, <2>2, <2>3, <2>4, <2>5, <2>6, <2>7, <2>8 DEF Run
<1>2. ASSUME NEW r \in Requests, Post(r) PROVE OneChain'
  BY <1>2 DEF Post, OneChain, Task, Chain, HeldAt
<1>3. ASSUME NEW p \in payments, CancelPayment(p) PROVE OneChain'
  BY <1>3 DEF CancelPayment, OneChain
<1>4. CASE Crash \/ UNCHANGED vars
  BY <1>4 DEF Crash, vars, OneChain
<1> QED BY <1>1, <1>2, <1>3, <1>4 DEF Next

\* What a step does to the sums of a user: nothing is made, and without a
\* failure nothing is lost.
Conserves == /\ IsFiniteSet(payments') /\ IsFiniteSet(Held')
             /\ \A u \in Users :
                  /\ Known(u)' <= Known(u)
                  /\ failures' = 0 => failures = 0 /\ Charged(u)' = Charged(u)

\* The types of the sums.
LEMMA SumsAreNumbers ==
    ASSUME TypeOK, Finite, NEW u \in Users
    PROVE  /\ balance[u] \in Int /\ SpentBy(u, Completed) \in Nat /\ SpentBy(u, BySaga) \in Nat
           /\ HeldFor(u, Held) \in Nat
           /\ \A r \in Requests : Due(u, r) \in Nat
<1>1. /\ IsFiniteSet(Completed) /\ Completed \in SUBSET PaymentRow
      /\ IsFiniteSet(BySaga) /\ BySaga \in SUBSET PaymentRow
  BY FS_Subset DEF Finite, Completed, BySaga, TypeOK
<1>2. \A P \in SUBSET PaymentRow : IsFiniteSet(P) => SpentBy(u, P) \in Nat
  <2> SUFFICES ASSUME NEW P \in SUBSET PaymentRow, IsFiniteSet(P) PROVE SpentBy(u, P) \in Nat
    OBVIOUS
  <2>1. PICK f : f = [p \in {q \in P : Owner[q.order] = u} |-> Price[p.order]]
    OBVIOUS
  <2>2. IsFiniteSet(DOMAIN f) /\ \A p \in DOMAIN f : f[p] \in Nat
    BY <2>1, FS_Subset, OrdersAssumption DEF PaymentRow
  <2>3. SumFunction(f) \in Nat
    BY <2>2, TotalType
  <2> QED BY <2>1, <2>3 DEF SpentBy
<1>3. HeldFor(u, Held) \in Nat
  <2>1. PICK f : f = [t \in {s \in Held : ByUser[s.req] = u} |-> Price[ForOrder[t.req]]]
    OBVIOUS
  <2>2. IsFiniteSet(DOMAIN f)
    BY <2>1, FS_Subset DEF Finite
  <2>3. \A t \in DOMAIN f : f[t] \in Nat
    BY <2>1, TaskKinds, HeldIs, RequestTypes
  <2>4. SumFunction(f) \in Nat
    BY <2>2, <2>3, TotalType
  <2> QED BY <2>1, <2>4 DEF HeldFor
<1> QED BY <1>1, <1>2, <1>3, RequestTypes DEF Due, TypeOK

KnownType == \A u \in Users : Known(u) \in Int

LEMMA KnownIsNumber == TypeOK /\ Finite => KnownType
BY SumsAreNumbers DEF KnownType, Known

\* The accounts of a step that changes no payment.
LEMMA Balanced ==
    ASSUME TypeOK, Finite, payments' = payments, IsFiniteSet(Held'), NEW r \in Requests,
           failures' = 0 => failures = 0,
           NEW h \in {0, 1, 0 - 1}, NEW b \in {0, 1, 0 - 1},
           \A u \in Users : /\ balance'[u] = balance[u] + b * Due(u, r)
                            /\ HeldFor(u, Held') = HeldFor(u, Held) + h * Due(u, r),
           b + h <= 0, failures' = 0 => b + h = 0
    PROVE  Conserves
<1>1. Completed' = Completed /\ BySaga' = BySaga
  BY DEF Completed, BySaga
<1>2. ASSUME NEW u \in Users
      PROVE  /\ Known(u)' <= Known(u)
             /\ failures' = 0 => failures = 0 /\ Charged(u)' = Charged(u)
  <2>1. /\ Known(u)' = balance'[u] + SpentBy(u, Completed) + HeldFor(u, Held')
        /\ Charged(u)' = Known(u)' + SpentBy(u, BySaga)
    BY <1>1 DEF Known, Charged, SpentBy, HeldFor
  <2>2. PICK d \in Nat : d = Due(u, r)
    BY SumsAreNumbers
  <2>3. balance'[u] = balance[u] + b * d /\ HeldFor(u, Held') = HeldFor(u, Held) + h * d
    BY <2>2
  <2>4. b * d + h * d <= 0 /\ (b + h = 0 => b * d + h * d = 0)
    BY <2>2
  <2>5. b * d \in Int /\ h * d \in Int
    OBVIOUS
  <2> QED BY <2>1, <2>3, <2>4, <2>5, SumsAreNumbers DEF Known, Charged
<1> QED BY <1>2 DEF Conserves, Finite

\* The accounts of a step that pays.
LEMMA BalancedPaid ==
    ASSUME IInv, Finite, NEW r \in Requests, NEW by \in By, Paid(r, by), IsFiniteSet(Held'),
           failures' = 0 => failures = 0,
           NEW h \in {0, 0 - 1},
           \A u \in Users : HeldFor(u, Held') = HeldFor(u, Held) + h * Due(u, r),
           failures' = 0 => h = (IF by = "saga" THEN 0 - 1 ELSE 0)
    PROVE  Conserves
<1>1. ASSUME NEW u \in Users
      PROVE  /\ Known(u)' <= Known(u)
             /\ failures' = 0 => failures = 0 /\ Charged(u)' = Charged(u)
  <2>1. /\ Known(u)' = balance'[u] + SpentBy(u, Completed') + HeldFor(u, Held')
        /\ Charged(u)' = Known(u)' + SpentBy(u, BySaga')
    BY DEF Known, Charged, SpentBy, HeldFor
  <2>2. PICK d \in Nat : d = Due(u, r)
    BY SumsAreNumbers DEF IInv
  <2>3. /\ balance'[u] = balance[u] - d
        /\ SpentBy(u, Completed') = SpentBy(u, Completed) + d
        /\ SpentBy(u, BySaga') = SpentBy(u, BySaga) + (IF by = "saga" THEN d ELSE 0)
    BY <2>2, PaidMoney
  <2>4. HeldFor(u, Held') = HeldFor(u, Held) + h * d
    BY <2>2
  <2>5. h * d = IF h = 0 THEN 0 ELSE 0 - d
    BY <2>2
  <2>6. /\ balance[u] \in Int /\ SpentBy(u, Completed) \in Nat /\ SpentBy(u, BySaga) \in Nat
        /\ HeldFor(u, Held) \in Nat
    BY SumsAreNumbers DEF IInv
  <2> QED BY <2>1, <2>3, <2>4, <2>5, <2>6 DEF Known, Charged
<1> QED BY <1>1, PaidMoney DEF Conserves

\* What works fails nothing, and what breaks is counted.
LEMMA FailureCount ==
    ASSUME TypeOK
    PROVE  /\ Works => (failures' = 0 => failures = 0)
           /\ Broken => failures' # 0
BY DEF TypeOK, Works, Broken

\* A move of money, or none.
LEMMA Moves ==
    ASSUME TypeOK, NEW r \in Requests
    PROVE  /\ Move(ByUser[r], Price[ForOrder[r]]) =>
                \A u \in Users : balance'[u] = balance[u] + 1 * Due(u, r)
           /\ Move(ByUser[r], 0 - Price[ForOrder[r]]) =>
                \A u \in Users : balance'[u] = balance[u] + (0 - 1) * Due(u, r)
           /\ balance' = balance => \A u \in Users : balance'[u] = balance[u] + 0 * Due(u, r)
<1>1. \A u \in Users : Due(u, r) \in Nat /\ balance[u] \in Int
  BY RequestTypes DEF Due, TypeOK
<1>2. Price[ForOrder[r]] \in Nat /\ ByUser[r] \in Users
  BY RequestTypes
<1>3. ASSUME NEW n \in Int, Move(ByUser[r], n)
      PROVE  \A u \in Users : balance'[u] = balance[u] + (IF u = ByUser[r] THEN n ELSE 0)
  BY <1>1, <1>2, <1>3 DEF Move, TypeOK
<1>4. \A u \in Users : /\ 1 * Due(u, r) = (IF u = ByUser[r] THEN Price[ForOrder[r]] ELSE 0)
                       /\ (0 - 1) * Due(u, r)
                            = (IF u = ByUser[r] THEN 0 - Price[ForOrder[r]] ELSE 0)
                       /\ balance[u] + 0 * Due(u, r) = balance[u]
  BY <1>1, <1>2 DEF Due
<1>5. 0 - Price[ForOrder[r]] \in Int /\ Price[ForOrder[r]] \in Int
  BY <1>2
<1> HIDE DEF Due
<1> QED BY <1>3, <1>4, <1>5

\* What is held after a step of t, by what t becomes.
LEMMA HoldsNothing ==
    ASSUME TypeOK, Finite, NEW t \in tasks, NEW next, Becomes(t, next),
           \A s \in next : s.at \notin HeldAt
    PROVE  /\ IsFiniteSet(Held')
           /\ t.at \notin HeldAt =>
                \A u \in Users : HeldFor(u, Held') = HeldFor(u, Held) + 0 * Due(u, t.req)
           /\ t.at \in HeldAt =>
                \A u \in Users : HeldFor(u, Held') = HeldFor(u, Held) + (0 - 1) * Due(u, t.req)
<1>1. \A u \in Users : Due(u, t.req) \in Nat /\ HeldFor(u, Held) \in Nat
  BY SumsAreNumbers, TaskKinds
<1>2. \A u \in Users : InHand(u, t) = IF t.at \in HeldAt THEN Due(u, t.req) ELSE 0
  BY DEF InHand
<1>3. /\ IsFiniteSet(Held')
      /\ \A u \in Users : HeldFor(u, Held') = HeldFor(u, Held) - InHand(u, t)
  BY LetsGo
<1> QED BY <1>1, <1>2, <1>3

\* The same, counted in times of the amount.
LEMMA HoldsOne ==
    ASSUME TypeOK, Finite, OneChain, NEW t \in tasks, t.at \in Chain,
           NEW h, h.at \in HeldAt, h.at # t.at, h.req = t.req,
           NEW next, Becomes(t, {h} \union next), \A s \in next : s.at \notin HeldAt
    PROVE  /\ IsFiniteSet(Held')
           /\ t.at \notin HeldAt =>
                \A u \in Users : HeldFor(u, Held') = HeldFor(u, Held) + 1 * Due(u, t.req)
           /\ t.at \in HeldAt =>
                \A u \in Users : HeldFor(u, Held') = HeldFor(u, Held) + 0 * Due(u, t.req)
<1>1. \A u \in Users : Due(u, t.req) \in Nat /\ HeldFor(u, Held) \in Nat
  BY SumsAreNumbers, TaskKinds
<1>2. \A u \in Users : InHand(u, t) = IF t.at \in HeldAt THEN Due(u, t.req) ELSE 0
  BY DEF InHand
<1>3. /\ IsFiniteSet(Held')
      /\ \A u \in Users : HeldFor(u, Held') = HeldFor(u, Held) - InHand(u, t) + Due(u, t.req)
  BY HoldsOn
<1> QED BY <1>1, <1>2, <1>3

\* The steps that leave the payments alone, one by one.
LEMMA QuietMoney ==
    ASSUME IInv, OneChain, Finite, NEW t \in tasks, payments' = payments,
           \/ (Pay(t) /\ NotPaid) \/ Initiate(t) \/ Cancel(t) \/ Complete(t)
           \/ EmitStockUpdates(t) \/ UseCoupon(t) \/ ReadStock(t) \/ WriteStock(t)
           \/ NoteRefund(t)
    PROVE  Conserves
<1> USE DEF HeldAt
<1>1. TypeOK /\ t.req \in Requests
  BY TaskKinds DEF IInv
<1>2. /\ t.at \notin HeldAt /\ balance' = balance /\ (Works \/ Broken)
  BY DEF Pay, NotPaid, PaidOrNot, Initiate, Cancel, Complete, EmitStockUpdates, UseCoupon,
     ReadStock, WriteStock, NoteRefund, Note, money
<1>3. PICK next : Becomes(t, next) /\ \A s \in next : s.at \notin HeldAt
  <2>1. CASE Pay(t) \/ Initiate(t) \/ Cancel(t) \/ UseCoupon(t) \/ WriteStock(t) \/ NoteRefund(t)
    BY <2>1 DEF Pay, Initiate, Cancel, UseCoupon, WriteStock, NoteRefund, Task, Completion, Failed
  <2>2. CASE Complete(t)
    <3>1. t \in CompletionTask
      BY <1>1, <2>2, TaskKinds DEF Complete, CompletionStep
    <3>2. PICK n : n = [t EXCEPT !.at = "items"]
      OBVIOUS
    <3>3. n.at = "items"
      BY <3>1, <3>2 DEF CompletionTask
    <3>4. PICK next : Becomes(t, next) /\ \A s \in next : s = n
      BY <2>2, <3>2 DEF Complete
    <3> QED BY <3>3, <3>4
  <2>3. CASE EmitStockUpdates(t)
    <3>1. t \in CompletionTask
      BY <1>1, <2>3, TaskKinds DEF EmitStockUpdates, CompletionStep
    <3>2. PICK n : n = [t EXCEPT !.at = "coupon"]
      OBVIOUS
    <3>3. n.at = "coupon"
      BY <3>1, <3>2 DEF CompletionTask
    <3>4. PICK next : Becomes(t, next) /\ \A s \in next : s = n \/ s.at = "readStock"
      BY <2>3, <3>2 DEF EmitStockUpdates, StockTask
    <3> QED BY <3>3, <3>4
  <2>4. CASE ReadStock(t)
    <3>1. t \in VariantTask
      BY <1>1, <2>4, TaskKinds DEF ReadStock
    <3>2. PICK n : n = [t EXCEPT !.at = "writeStock", !.seen = stock[t.variant]]
      OBVIOUS
    <3>3. n.at = "writeStock"
      BY <3>1, <3>2 DEF VariantTask
    <3>4. PICK next : Becomes(t, next) /\ \A s \in next : s = n
      BY <2>4, <3>2 DEF ReadStock
    <3> QED BY <3>3, <3>4
  <2> QED BY <2>1, <2>2, <2>3, <2>4
<1>4. /\ IsFiniteSet(Held')
      /\ \A u \in Users : HeldFor(u, Held') = HeldFor(u, Held) + 0 * Due(u, t.req)
  BY <1>1, <1>2, <1>3, HoldsNothing
<1>5. \A u \in Users : balance'[u] = balance[u] + 0 * Due(u, t.req)
  BY <1>1, <1>2, Moves
<1>6. failures' = 0 => failures = 0
  BY <1>1, <1>2, FailureCount
<1> QED BY <1>1, <1>4, <1>5, <1>6, Balanced

\* What a step of the saga's own chain does to money.
LEMMA ChainMoney ==
    ASSUME IInv, OneChain, Finite, NEW t \in tasks,
           Deduct(t) \/ NoteUse(t) \/ (Settle(t) /\ NotPaid) \/ Refund(t)
    PROVE  Conserves
<1> USE DEF HeldAt, Chain
<1>1. TypeOK /\ t.req \in Requests
  BY TaskKinds DEF IInv
<1>2. payments' = payments /\ (Works \/ Broken) /\ (failures' = 0 => failures = 0)
  BY <1>1, FailureCount DEF Deduct, NoteUse, Settle, NotPaid, PaidOrNot, Refund
<1>3. \A s \in Failed(t) : s.at \notin HeldAt
  BY DEF Failed, Task
<1> DEFINE Takes == Move(ByUser[t.req], 0 - Price[ForOrder[t.req]])
           Gives == Move(ByUser[t.req], Price[ForOrder[t.req]])
<1>4. ASSUME NEW at \in HeldAt, at # t.at, t.at \in Chain, NEW next \in {{}, Failed(t)},
             Becomes(t, {Task(at, t.req)} \union next)
      PROVE  /\ IsFiniteSet(Held')
             /\ t.at \notin HeldAt =>
                  \A u \in Users : HeldFor(u, Held') = HeldFor(u, Held) + 1 * Due(u, t.req)
             /\ t.at \in HeldAt =>
                  \A u \in Users : HeldFor(u, Held') = HeldFor(u, Held) + 0 * Due(u, t.req)
  <2>1. PICK h : h = Task(at, t.req)
    OBVIOUS
  <2>3. h.at = at /\ h.req = t.req
    BY <2>1 DEF Task
  <2>2. h.at \in HeldAt /\ h.at # t.at /\ Becomes(t, {h} \union next)
        /\ \A s \in next : s.at \notin HeldAt
    BY <1>3, <1>4, <2>1, <2>3
  <2> HIDE DEF HeldAt, Chain
  <2> QED BY <1>1, <1>4, <2>2, <2>3, HoldsOne
<1>5. CASE Deduct(t)
  <2>1. CASE Takes /\ Works /\ Becomes(t, {Task("noteUse", t.req)})
    <3>1. /\ IsFiniteSet(Held')
          /\ \A u \in Users : HeldFor(u, Held') = HeldFor(u, Held) + 1 * Due(u, t.req)
      BY <1>4, <1>5, <2>1 DEF Deduct
    <3>2. \A u \in Users : balance'[u] = balance[u] + (0 - 1) * Due(u, t.req)
      BY <1>1, <2>1, Moves
    <3> QED BY <1>1, <1>2, <3>1, <3>2, Balanced
  <2>2. CASE Becomes(t, Failed(t)) /\ (balance' = balance \/ (Takes /\ Broken))
    <3>1. /\ IsFiniteSet(Held')
          /\ \A u \in Users : HeldFor(u, Held') = HeldFor(u, Held) + 0 * Due(u, t.req)
      BY <1>1, <1>3, <1>5, <2>2, HoldsNothing DEF Deduct
    <3>2. CASE balance' = balance
      <4>1. \A u \in Users : balance'[u] = balance[u] + 0 * Due(u, t.req)
        BY <1>1, <3>2, Moves
      <4> QED BY <1>1, <1>2, <3>1, <4>1, Balanced
    <3>3. CASE Takes /\ Broken
      <4>1. \A u \in Users : balance'[u] = balance[u] + (0 - 1) * Due(u, t.req)
        BY <1>1, <3>3, Moves
      <4>2. failures' # 0
        BY <1>1, <3>3, FailureCount
      <4> QED BY <1>1, <1>2, <3>1, <4>1, <4>2, Balanced
    <3> QED BY <2>2, <3>2, <3>3
  <2> QED BY <1>5, <2>1, <2>2 DEF Deduct, money
<1>6. CASE NoteUse(t)
  <2>1. balance' = balance /\ t.at = "noteUse"
    BY <1>6 DEF NoteUse, Note, money
  <2>2. \A u \in Users : balance'[u] = balance[u] + 0 * Due(u, t.req)
    BY <1>1, <2>1, Moves
  <2>3. CASE Becomes(t, {Task("settle", t.req)})
    <3>1. /\ IsFiniteSet(Held')
          /\ \A u \in Users : HeldFor(u, Held') = HeldFor(u, Held) + 0 * Due(u, t.req)
      BY <1>4, <2>1, <2>3
    <3> QED BY <1>1, <1>2, <2>2, <3>1, Balanced
  <2>4. CASE Broken /\ Becomes(t, Failed(t))
    <3>1. /\ IsFiniteSet(Held')
          /\ \A u \in Users : HeldFor(u, Held') = HeldFor(u, Held) + (0 - 1) * Due(u, t.req)
      BY <1>1, <1>3, <2>1, <2>4, HoldsNothing
    <3>2. failures' # 0
      BY <1>1, <2>4, FailureCount
    <3> QED BY <1>1, <1>2, <2>2, <3>1, <3>2, Balanced
  <2> QED BY <1>6, <2>3, <2>4 DEF NoteUse
<1>7. CASE Settle(t) /\ NotPaid
  <2>1. balance' = balance /\ t.at = "settle"
    BY <1>7 DEF Settle, NotPaid, money
  <2>2. \A u \in Users : balance'[u] = balance[u] + 0 * Due(u, t.req)
    BY <1>1, <2>1, Moves
  <2>3. CASE Becomes(t, {Task("refund", t.req)} \union Failed(t))
    <3>1. /\ IsFiniteSet(Held')
          /\ \A u \in Users : HeldFor(u, Held') = HeldFor(u, Held) + 0 * Due(u, t.req)
      BY <1>4, <2>1, <2>3
    <3> QED BY <1>1, <1>2, <2>2, <3>1, Balanced
  <2>4. ~Paid(t.req, "saga")
    <3>1. ASSUME Paid(t.req, "saga") PROVE FALSE
      <4>1. PICK p : /\ p.order = ForOrder[t.req]
                     /\ payments' = payments \union {p}
        BY <3>1 DEF Paid
      <4>2. p \notin payments
        BY <3>1, <4>1 DEF Paid, Payable, IInv, PaidIsClosed
      <4> QED BY <1>2, <4>1, <4>2
    <3> QED BY <3>1
  <2> QED BY <1>7, <2>3, <2>4 DEF Settle
<1>8. CASE Refund(t)
  <2>1. t.at = "refund" /\ (Gives \/ (balance' = balance /\ Broken))
    BY <1>8 DEF Refund, money
  <2>2. /\ IsFiniteSet(Held')
        /\ \A u \in Users : HeldFor(u, Held') = HeldFor(u, Held) + (0 - 1) * Due(u, t.req)
    <3>1. PICK next : Becomes(t, next) /\ \A s \in next : s.at = "noteRefund"
      BY <1>8 DEF Refund, Task
    <3> QED BY <1>1, <2>1, <3>1, HoldsNothing
  <2>3. CASE Gives
    <3>1. \A u \in Users : balance'[u] = balance[u] + 1 * Due(u, t.req)
      BY <1>1, <2>3, Moves
    <3> QED BY <1>1, <1>2, <2>2, <3>1, Balanced
  <2>4. CASE balance' = balance /\ Broken
    <3>1. \A u \in Users : balance'[u] = balance[u] + 0 * Due(u, t.req)
      BY <1>1, <2>4, Moves
    <3>2. failures' # 0
      BY <1>1, <2>4, FailureCount
    <3> QED BY <1>1, <1>2, <2>2, <3>1, <3>2, Balanced
  <2> QED BY <2>1, <2>3, <2>4
<1> QED BY <1>5, <1>6, <1>7, <1>8

\* What a step that pays does to it.
LEMMA PayMoney ==
    ASSUME IInv, OneChain, Finite, NEW t \in tasks,
           \/ Pay(t) /\ Paid(t.req, "http")
           \/ Settle(t) /\ Paid(t.req, "saga")
    PROVE  Conserves
<1> USE DEF HeldAt, Chain
<1>1. TypeOK /\ t.req \in Requests
  BY TaskKinds DEF IInv
<1>2. (Works \/ Broken) /\ (failures' = 0 => failures = 0)
  BY <1>1, FailureCount DEF Pay, Settle, PaidOrNot
<1>3. CASE Pay(t) /\ Paid(t.req, "http")
  <2>1. PICK next : Becomes(t, next) /\ \A s \in next : s.at = "complete"
    BY <1>3 DEF Pay, Completion
  <2>2. /\ IsFiniteSet(Held')
        /\ \A u \in Users : HeldFor(u, Held') = HeldFor(u, Held) + 0 * Due(u, t.req)
    BY <1>1, <1>3, <2>1, HoldsNothing DEF Pay
  <2> QED BY <1>1, <1>2, <1>3, <2>2, BalancedPaid DEF By
<1>4. CASE Settle(t) /\ Paid(t.req, "saga")
  <2>1. t.at = "settle"
    BY <1>4 DEF Settle
  <2>2. CASE Works /\ Becomes(t, {Completion("complete", t.req, "saga")})
    <3>1. \A s \in {Completion("complete", t.req, "saga")} : s.at \notin HeldAt
      BY DEF Completion
    <3>2. /\ IsFiniteSet(Held')
          /\ \A u \in Users : HeldFor(u, Held') = HeldFor(u, Held) + (0 - 1) * Due(u, t.req)
      BY <1>1, <2>1, <2>2, <3>1, HoldsNothing
    <3> QED BY <1>1, <1>2, <1>4, <3>2, BalancedPaid DEF By
  <2>3. CASE Broken /\ Becomes(t, {Task("refund", t.req)} \union Failed(t))
    <3>1. PICK h : h = Task("refund", t.req)
      OBVIOUS
    <3>5. h.at = "refund" /\ h.req = t.req /\ t.at = "settle"
      BY <2>1, <3>1 DEF Task
    <3>2. \A s \in Failed(t) : s.at \notin HeldAt
      BY DEF Failed, Task
    <3>3. /\ IsFiniteSet(Held')
          /\ \A u \in Users : HeldFor(u, Held') = HeldFor(u, Held) + 0 * Due(u, t.req)
      <4>1. t.at \in Chain /\ t.at \in HeldAt /\ h.at \in HeldAt /\ h.at # t.at
        BY <3>5
      <4>2. Becomes(t, {h} \union Failed(t))
        BY <2>3, <3>1
      <4> HIDE DEF HeldAt, Chain
      <4> QED BY <1>1, <3>2, <3>5, <4>1, <4>2, HoldsOne
    <3>4. failures' # 0
      BY <1>1, <2>3, FailureCount
    <3> QED BY <1>1, <1>2, <1>4, <3>3, <3>4, BalancedPaid DEF By
  <2> QED BY <1>4, <2>2, <2>3 DEF Settle, Paid, PaidOrNot
<1> QED BY <1>3, <1>4

\* No step makes money, and one that fails nothing loses none.
LEMMA MoneyStep ==
    ASSUME IInv, OneChain, Finite, [Next]_vars
    PROVE  Conserves
<1>1. TypeOK
  BY DEF IInv
<1>2. ASSUME NEW t \in tasks, Run(t) PROVE Conserves
  <2>1. CASE Pay(t) \/ Settle(t)
    <3>1. \/ NotPaid
          \/ Pay(t) /\ Paid(t.req, "http")
          \/ Settle(t) /\ Paid(t.req, "saga")
      BY <2>1 DEF Pay, Settle, PaidOrNot
    <3>2. NotPaid => payments' = payments
      BY DEF NotPaid
    <3> QED BY <2>1, <3>1, <3>2, QuietMoney, ChainMoney, PayMoney
  <2>2. CASE Deduct(t) \/ NoteUse(t) \/ Refund(t)
    BY <2>2, ChainMoney
  <2>3. CASE \/ Initiate(t) \/ Cancel(t) \/ Complete(t) \/ EmitStockUpdates(t) \/ UseCoupon(t)
             \/ ReadStock(t) \/ WriteStock(t) \/ NoteRefund(t)
    <3>1. payments' = payments
      BY <2>3 DEF Initiate, Cancel, Complete, EmitStockUpdates, UseCoupon, ReadStock,
         WriteStock, NoteRefund
    <3> QED BY <2>3, <3>1, QuietMoney
  <2> QED BY <1>2, <2>1, <2>2, <2>3 DEF Run
<1>3. ASSUME payments' = payments, balance' = balance, Held' = Held, failures' = failures
      PROVE  Conserves
  <2>1. ASSUME NEW u \in Users
        PROVE  Known(u)' = Known(u) /\ Charged(u)' = Charged(u) /\ Known(u) \in Int
    <3>1. Completed' = Completed /\ BySaga' = BySaga
      BY <1>3 DEF Completed, BySaga
    <3>2. /\ Known(u)' = balance'[u] + SpentBy(u, Completed') + HeldFor(u, Held')
          /\ Charged(u)' = Known(u)' + SpentBy(u, BySaga')
      BY DEF Known, Charged, SpentBy, HeldFor
    <3>3. Known(u) \in Int
      BY <1>1, KnownIsNumber DEF KnownType
    <3> QED BY <1>3, <3>1, <3>2, <3>3 DEF Known, Charged
  <2> QED BY <1>3, <2>1 DEF Conserves, Finite
<1>4. ASSUME NEW r \in Requests, Post(r) PROVE Conserves
  <2>1. Held' = Held
    BY <1>4 DEF Post, Held, Task
  <2> QED BY <1>3, <1>4, <2>1 DEF Post, money
<1>5. ASSUME NEW p \in payments, CancelPayment(p) PROVE Conserves
  <2>1. Held' = Held /\ failures' = failures
    BY <1>5 DEF CancelPayment, Held
  <2>2. ASSUME NEW u \in Users
        PROVE  Known(u)' = Known(u) /\ Charged(u)' = Charged(u) /\ Known(u) \in Int
    <3>1. /\ Known(u)' = balance'[u] + SpentBy(u, Completed') + HeldFor(u, Held')
          /\ Charged(u)' = Known(u)' + SpentBy(u, BySaga')
      BY DEF Known, Charged, SpentBy, HeldFor
    <3>2. PICK d \in Nat : d = Cost(u, p)
      BY <1>1, OrdersAssumption DEF Cost, TypeOK, PaymentRow
    <3>3. /\ balance'[u] = balance[u] + d
          /\ SpentBy(u, Completed') = SpentBy(u, Completed) - d
          /\ SpentBy(u, BySaga') = SpentBy(u, BySaga)
      BY <1>5, <3>2, CancelMoney
    <3>4. HeldFor(u, Held') = HeldFor(u, Held)
      BY <2>1
    <3>5. /\ balance[u] \in Int /\ SpentBy(u, Completed) \in Nat /\ SpentBy(u, BySaga) \in Nat
          /\ HeldFor(u, Held) \in Nat
      BY <1>1, SumsAreNumbers
    <3> QED BY <3>1, <3>3, <3>4, <3>5 DEF Known, Charged
  <2>3. IsFiniteSet(payments')
    BY <1>5, CancelMoney
  <2> QED BY <2>1, <2>2, <2>3 DEF Conserves, Finite
<1>6. CASE Crash
  <2>1. Held' = {} /\ payments' = payments /\ balance' = balance /\ failures' # 0
    BY <1>1, <1>6, FailureCount DEF Crash, Held, money
  <2>2. ASSUME NEW u \in Users PROVE Known(u)' <= Known(u)
    <3>1. HeldFor(u, {}) = 0
      <4>1. PICK f : f = [t \in {s \in {} : ByUser[s.req] = u} |-> Price[ForOrder[t.req]]]
        OBVIOUS
      <4>2. DOMAIN f = {}
        BY <4>1
      <4>3. SumFunction(f) = 0
        BY <4>2, SumEmpty DEF SumFunction
      <4> QED BY <4>1, <4>3 DEF HeldFor
    <3>2. Known(u)' = balance[u] + SpentBy(u, Completed) + HeldFor(u, {})
      BY <2>1 DEF Known, SpentBy, HeldFor, Completed
    <3> QED BY <1>1, <3>1, <3>2, SumsAreNumbers DEF Known
  <2>3. IsFiniteSet(Held')
    BY <2>1, FS_EmptySet
  <2> QED BY <2>1, <2>2, <2>3 DEF Conserves, Finite
<1>7. CASE UNCHANGED vars
  BY <1>3, <1>7 DEF vars, Held
<1> QED BY <1>2, <1>4, <1>5, <1>6, <1>7 DEF Next

LEMMA MInvInit == Init => MInv
<1> SUFFICES ASSUME Init PROVE MInv
  OBVIOUS
<1>1. IInv
  BY IInvInit
<1>2. OneChain /\ payments = {} /\ Held = {} /\ Completed = {} /\ BySaga = {}
  BY DEF Init, OneChain, Held, Completed, BySaga
<1>3. Finite
  BY <1>2, FS_EmptySet DEF Finite
<1>4. ASSUME NEW u \in Users PROVE Known(u) = Balance0[u] /\ Charged(u) = Balance0[u]
  <2>1. SpentBy(u, {}) = 0
    <3>1. PICK f : f = [p \in {q \in {} : Owner[q.order] = u} |-> Price[p.order]]
      OBVIOUS
    <3>2. DOMAIN f = {}
      BY <3>1
    <3>3. SumFunction(f) = 0
      BY <3>2, SumEmpty DEF SumFunction
    <3> QED BY <3>1, <3>3 DEF SpentBy
  <2>2. HeldFor(u, {}) = 0
    <3>1. PICK f : f = [t \in {s \in {} : ByUser[s.req] = u} |-> Price[ForOrder[t.req]]]
      OBVIOUS
    <3>2. DOMAIN f = {}
      BY <3>1
    <3>3. SumFunction(f) = 0
      BY <3>2, SumEmpty DEF SumFunction
    <3> QED BY <3>1, <3>3 DEF HeldFor
  <2>3. balance[u] = Balance0[u] /\ Balance0[u] \in Nat
    BY StartAssumption DEF Init
  <2> QED BY <1>2, <2>1, <2>2, <2>3 DEF Known, Charged
<1>5. \A u \in Users : Balance0[u] \in Nat
  BY StartAssumption
<1> QED BY <1>1, <1>2, <1>3, <1>4, <1>5 DEF MInv, NoMoneyMade, NoMoneyLost

LEMMA MInvNext == MInv /\ [Next]_vars => MInv'
<1> SUFFICES ASSUME MInv, [Next]_vars PROVE MInv'
  OBVIOUS
<1>1. IInv' /\ OneChain' /\ Conserves
  BY IInvNext, ChainStep, MoneyStep DEF MInv, IInv
<1>2. Finite'
  BY <1>1 DEF Conserves, Finite
<1>3. NoMoneyMade'
  <2>1. ASSUME NEW u \in Users PROVE Known(u)' <= Balance0[u]
    <3>1. Known(u)' <= Known(u) /\ Known(u) <= Balance0[u] /\ Balance0[u] \in Nat
      BY <1>1, StartAssumption DEF Conserves, MInv, NoMoneyMade
    <3>2. TypeOK /\ TypeOK' /\ Finite /\ Finite'
      BY <1>1, <1>2 DEF MInv, IInv
    <3>3. Known(u) \in Int
      BY <3>2, KnownIsNumber DEF KnownType
    <3>5. KnownType'
      BY <3>2, KnownIsNumber, PTL
    <3>4. Known(u)' \in Int
      BY <3>5 DEF KnownType
    <3> QED BY <3>1, <3>3, <3>4
  <2> QED BY <2>1 DEF NoMoneyMade
<1>4. NoMoneyLost'
  BY <1>1 DEF Conserves, MInv, NoMoneyLost
<1> QED BY <1>1, <1>2, <1>3, <1>4 DEF MInv

LEMMA MInvAlways == Spec => []MInv
<1>1. QED
  BY MInvInit, MInvNext, PTL DEF Spec

\* However the two chains, refunds, cancellations, failures and crashes
\* interleave, nobody is given money: every refund takes from what the saga
\* holds of the same request, and each cancellation from a completed payment.
THEOREM SagaNeverEnriched == Spec => []NeverEnriched
<1>1. MInv => NeverEnriched
  <2> SUFFICES ASSUME MInv, NEW u \in Users
               PROVE  balance[u] + SpentBy(u, Completed) <= Balance0[u]
    BY DEF NeverEnriched
  <2>1. /\ balance[u] \in Int /\ SpentBy(u, Completed) \in Nat /\ HeldFor(u, Held) \in Nat
        /\ Balance0[u] \in Nat
    BY SumsAreNumbers, StartAssumption DEF MInv, IInv
  <2> QED BY <2>1 DEF MInv, NoMoneyMade, Known
<1> QED BY MInvAlways, <1>1, PTL

\* While nothing fails, the start balance of a user is the balance, the
\* completed payments, the payments the saga made (it has charged them twice)
\* and the deductions under way: the double charge is all that goes wrong.
THEOREM SagaMoneyAccounted == Spec => []MoneyAccounted
<1>1. MInv => MoneyAccounted
  <2> SUFFICES ASSUME MInv, failures = 0, NEW u \in Users
               PROVE  Balance0[u] = balance[u] + SpentBy(u, Completed) + SpentBy(u, BySaga)
                                    + HeldFor(u, Held)
    BY DEF MoneyAccounted, BySaga
  <2>1. /\ balance[u] \in Int /\ SpentBy(u, Completed) \in Nat /\ SpentBy(u, BySaga) \in Nat
        /\ HeldFor(u, Held) \in Nat
    BY SumsAreNumbers DEF MInv, IInv
  <2> QED BY <2>1 DEF MInv, NoMoneyLost, Charged, Known
<1> QED BY MInvAlways, <1>1, PTL
=============================================================================
