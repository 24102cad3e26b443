------------------------- MODULE OrderCreationProofs -------------------------
(***************************************************************************)
(* OrderCreation.tla proved for any requests, coupons and failures.        *)
(***************************************************************************)
EXTENDS OrderCreation, TLAPS

LEMMA CallTypes ==
    ASSUME NEW c \in Calls
    PROVE  /\ c[1] \in Requests /\ UserOf(c) \in Users /\ Total[c[1]] \in Nat
           /\ CouponId[c[1]] \in Coupons \union {0}
           /\ \A v \in Variants : Wants[c[1]][v] \in Nat
BY RequestsAssumption DEF Calls, UserOf

LEMMA GoesType ==
    ASSUME TypeOK, NEW c \in Calls, NEW from, NEW to \in Step, Goes(c, from, to)
    PROVE  at' \in [Calls -> Step]
BY DEF TypeOK, Goes

LEMMA BreaksType == TypeOK /\ (Breaks \/ UNCHANGED failures) => failures' \in 0 .. MaxFailures
BY StartAssumption DEF TypeOK, Breaks

LEMMA NewOrderType == TypeOK => \A c \in Calls : NewOrder(c) \in Order
BY DEF TypeOK, NewOrder, Order

LEMMA NothingPending == \A o \in outbox : ~Pending(o)
BY DEF Pending

LEMMA TypeStep == TypeOK /\ [Next]_vars => TypeOK'
<1> SUFFICES ASSUME TypeOK, [Next]_vars PROVE TypeOK'
  OBVIOUS
<1> USE DEF local
<1>1. ASSUME NEW r \in Requests, Post(r) PROVE TypeOK'
  BY <1>1, GoesType DEF Post, TypeOK, Step, Calls
<1>2. ASSUME NEW c \in Calls, CheckStock(c) \/ CommitOrder(c) \/ Emit(c) PROVE TypeOK'
  <2>1. at' \in [Calls -> Step]
    BY <1>2, GoesType DEF CheckStock, CommitOrder, Emit, Step
  <2>2. QED
    BY <1>2, <2>1 DEF CheckStock, CommitOrder, Emit, TypeOK, Messages
<1>3. ASSUME NEW c \in Calls, PriceOrder(c) PROVE TypeOK'
  <2>1. at' \in [Calls -> Step] /\ failures' \in 0 .. MaxFailures
    BY <1>3, GoesType, BreaksType DEF PriceOrder, Step
  <2>2. Applies(c) => CouponId[c[1]] \in Coupons /\ Discount[CouponId[c[1]]] \in Nat
    BY CallTypes, CouponsAssumption DEF Applies
  <2>3. price' \in [Calls -> Int] /\ link' \in [Calls -> Coupons \union {0}]
    <3>1. CASE Applies(c) /\ price' = [price EXCEPT ![c] = Total[c[1]] - Discount[CouponId[c[1]]]]
               /\ link' = [link EXCEPT ![c] = CouponId[c[1]]]
      <4>1. PICK p \in Int : p = Total[c[1]] - Discount[CouponId[c[1]]]
        BY <2>2, <3>1, CallTypes
      <4>2. QED
        BY <2>2, <3>1, <4>1 DEF TypeOK
    <3>2. CASE price' = [price EXCEPT ![c] = Total[c[1]]] /\ link' = [link EXCEPT ![c] = 0]
      BY <3>2, CallTypes DEF TypeOK
    <3>3. QED
      BY <1>3, <3>1, <3>2 DEF PriceOrder
  <2>4. QED
    BY <1>3, <2>1, <2>3 DEF PriceOrder, TypeOK
<1>4. ASSUME NEW c \in Calls, InsertOrder(c) PROVE TypeOK'
  BY <1>4, GoesType, NewOrderType DEF InsertOrder, TypeOK, Step
<1>5. ASSUME NEW c \in Calls, WriteOutbox(c) \/ AddAgain(c) PROVE TypeOK'
  <2>1. at' \in [Calls -> Step]
    BY <1>5, GoesType DEF WriteOutbox, AddAgain, Step
  <2>2. \A n \in {1, 2} : [call |-> c, copy |-> n, status |-> "PENDING"] \in OutboxRow
    BY DEF OutboxRow
  <2>3. row' \in [Calls -> SUBSET OutboxRow]
    BY <1>5, <2>2 DEF WriteOutbox, AddAgain, AddRow, TypeOK
  <2>4. QED
    BY <1>5, <2>1, <2>3 DEF WriteOutbox, AddAgain, TypeOK
<1>6. ASSUME NEW c \in Calls, MarkSent(c) PROVE TypeOK'
  <2>1. at' \in [Calls -> Step] /\ failures' \in 0 .. MaxFailures
    BY <1>6, GoesType, BreaksType DEF MarkSent, Step
  <2>2. {[o EXCEPT !.status = "SENT"] : o \in row[c]} \in SUBSET OutboxRow
    BY DEF TypeOK, OutboxRow
  <2>3. row' \in [Calls -> SUBSET OutboxRow]
    BY <1>6, <2>2 DEF MarkSent, TypeOK
  <2>4. QED
    BY <1>6, <2>1, <2>3 DEF MarkSent, TypeOK
<1>7. ASSUME NEW c \in Calls, Report(c) PROVE TypeOK'
  <2>1. at' \in [Calls -> Step] /\ failures' \in 0 .. MaxFailures
    BY <1>7, GoesType, BreaksType DEF Report, Step
  <2>2. QED
    BY <1>7, <2>1 DEF Report, TypeOK
<1>8. ASSUME NEW c \in Calls, Announce(c) PROVE TypeOK'
  BY <1>8 DEF Announce, TypeOK, Step, Calls, Messages
<1>9. ASSUME NEW c \in Calls, Fail(c) PROVE TypeOK'
  <2>1. at' \in [Calls -> Step] /\ failures' \in 0 .. MaxFailures
    BY <1>9, GoesType, BreaksType DEF Fail, Step
  <2>2. orders' \subseteq Order /\ outbox' \subseteq OutboxRow
    BY <1>9, NewOrderType DEF Fail, TypeOK
  <2>3. QED
    BY <1>9, <2>1, <2>2 DEF Fail, TypeOK
<1>10. ASSUME NEW m \in Messages, Deliver(m) \/ Lose(m) PROVE TypeOK'
  <2>1. failures' \in 0 .. MaxFailures
    BY <1>10, BreaksType DEF Deliver, Lose
  <2>2. QED
    BY <1>10, <2>1 DEF Deliver, Lose, TypeOK
<1>11. CASE ProcessEvents
  BY <1>11, NothingPending DEF ProcessEvents, TypeOK
<1>12. ASSUME NEW o \in orders, PayOrder(o) PROVE TypeOK'
  <2>1. o \in Order /\ o.call \in Calls /\ [o EXCEPT !.status = "PAID"] \in Order
    BY DEF TypeOK, Order
  <2>2. stock' \in [Variants -> Nat]
    BY <1>12, <2>1, CallTypes DEF PayOrder, TypeOK
  <2>3. QED
    BY <1>12, <2>1, <2>2 DEF PayOrder, TypeOK
<1>13. CASE UNCHANGED vars
  BY <1>13 DEF vars, TypeOK
<1>14. QED
  BY <1>1, <1>2, <1>3, <1>4, <1>5, <1>6, <1>7, <1>8, <1>9, <1>10, <1>11, <1>12, <1>13
     DEF Next, CreateOrder

-----------------------------------------------------------------------------
(***************************************************************************)
(* What the events rest on: from its INSERT on a call has its order, from  *)
(* its emit on its message is out, and what it has in its transaction is   *)
(* what it will commit.                                                    *)
(***************************************************************************)
Inserted == {"outbox", "emit", "sent", "again", "commit", "report", "announce", "done"}
Emitted == {"sent", "again", "commit", "report", "announce", "done"}
Written == {"emit", "sent", "again", "commit"}
Committed == {"report", "announce", "done"}
HandedOver(m) == message[m] # "none"

\* A call that has inserted its order has an order.
HasOrder == \A c \in Calls : at[c] \in Inserted => OrderOf(c) # {}

\* Only such a call has a row, a message or a report.
OnlyWithOrder ==
    \A c \in Calls :
        \/ OrderOf(c) # {}
        \/ /\ RowsOf(c) = {} /\ c \notin reported
           /\ \A s \in {"service", "controller"} : ~HandedOver(<<c, s>>)

RowsAreOwn == \A c \in Calls : \A o \in row[c] : o.call = c

\* The row is written before the message, the message sent before the commit.
InOrder ==
    \A c \in Calls :
        /\ at[c] \in Written => row[c] # {}
        /\ at[c] \in Emitted => HandedOver(<<c, "service">>)
        /\ at[c] \in Committed => RowsOf(c) # {}
        /\ at[c] = "done" /\ c[2] = 1 => HandedOver(<<c, "controller">>)

\* The second call starts when the first is done, and announces nothing.
SecondWaits ==
    \A r \in Requests :
        /\ at[<<r, 2>>] # "announce"
        /\ at[<<r, 2>>] # "none" => at[<<r, 1>>] = "done"
        /\ at[<<r, 2>>] = "none" => OrderOf(<<r, 2>>) = {}

\* A reduced price was computed for a coupon of the user's.
HasCoupon(c) == \E i \in UserCouponIds : Owner[i] = UserOf(c) /\ Gives[i] = CouponId[c[1]]
PriceIsOwn == \A c \in Calls : at[c] = "insert" /\ price[c] # Total[c[1]] => HasCoupon(c)

IInv == /\ TypeOK /\ HasOrder /\ OnlyWithOrder /\ RowsAreOwn /\ InOrder /\ SecondWaits
        /\ PriceIsOwn /\ DiscountIsOwn

\* What a step does to the tables, apart from creating: nothing is taken back.
LEMMA Grows ==
    ASSUME TypeOK, [Next]_vars
    PROVE  /\ \A c \in Calls : OrderOf(c) # {} => OrderOf(c)' # {}
           /\ \A c \in Calls : RowsOf(c) # {} => RowsOf(c)' # {}
           /\ \A m \in Messages : HandedOver(m) => HandedOver(m)'
<1>1. \A c \in Calls : OrderOf(c) # {} => OrderOf(c)' # {}
  <2>1. ASSUME NEW o \in orders, PayOrder(o), NEW c \in Calls, OrderOf(c) # {}
        PROVE  OrderOf(c)' # {}
    <3>1. PICK n : n = [o EXCEPT !.status = "PAID"]
      OBVIOUS
    <3>2. n.call = o.call
      BY <3>1 DEF TypeOK, Order
    <3>3. orders' = (orders \ {o}) \union {n}
      BY <2>1, <3>1 DEF PayOrder
    <3>4. QED
      BY <2>1, <3>2, <3>3 DEF OrderOf
  <2>2. CASE ~\E o \in orders : PayOrder(o)
    <3>1. orders \subseteq orders'
      BY <2>2 DEF Next, Post, CreateOrder, CheckStock, PriceOrder, InsertOrder, WriteOutbox, Emit,
         MarkSent, AddAgain, CommitOrder, Report, Announce, Fail, Deliver, Lose, ProcessEvents, vars
    <3>2. QED
      BY <3>1 DEF OrderOf
  <2>3. QED
    BY <2>1, <2>2
<1>2. \A c \in Calls : RowsOf(c) # {} => RowsOf(c)' # {}
  <2>1. outbox \subseteq outbox'
    BY NothingPending DEF Next, Post, CreateOrder, CheckStock, PriceOrder, InsertOrder, WriteOutbox,
       Emit, MarkSent, AddAgain, CommitOrder, Report, Announce, Fail, Deliver, Lose, ProcessEvents,
       PayOrder, vars
  <2>2. QED
    BY <2>1 DEF RowsOf
<1>3. \A m \in Messages : HandedOver(m) => HandedOver(m)'
  <2> SUFFICES ASSUME NEW m \in Messages, message[m] # "none" PROVE message'[m] # "none"
    BY DEF HandedOver
  <2>1. CASE ProcessEvents
    BY <2>1, NothingPending DEF ProcessEvents
  <2>2. CASE \E c \in Calls : Emit(c) \/ Announce(c)
    BY <2>2 DEF Emit, Announce, TypeOK
  <2>3. CASE \E n \in Messages : Deliver(n) \/ Lose(n)
    BY <2>3 DEF Deliver, Lose, TypeOK
  <2>4. QED
    BY <2>1, <2>2, <2>3
       DEF Next, Post, CreateOrder, CheckStock, PriceOrder, InsertOrder, WriteOutbox,
       MarkSent, AddAgain, CommitOrder, Report, Fail, PayOrder, vars, local
<1>4. QED
  BY <1>1, <1>2, <1>3

-----------------------------------------------------------------------------
\* A call moves by a step of its own, or is started by the controller.
LEMMA Moves ==
    ASSUME TypeOK, [Next]_vars, NEW c \in Calls
    PROVE  \/ at'[c] = at[c]
           \/ CreateOrder(c) /\ ~Announce(c)
           \/ Fail(c) /\ at'[c] = "failed"
           \/ at[c] = "none" /\ at'[c] = "stock"
           \/ Announce(c) /\ (at'[c] = "done" \/ c[2] = 2)
           \/ c[2] = 2 /\ at'[c] = "stock" /\ Announce(<<c[1], 1>>)
<1>1. ASSUME NEW r \in Requests, Post(r) PROVE at'[c] = at[c] \/ (at[c] = "none" /\ at'[c] = "stock")
  BY <1>1 DEF Post, Goes, TypeOK, Calls
<1>2. ASSUME NEW d \in Calls, CreateOrder(d), ~Announce(d), d # c PROVE at'[c] = at[c]
  BY <1>2 DEF CreateOrder, CheckStock, PriceOrder, InsertOrder, WriteOutbox, Emit, MarkSent, AddAgain,
     CommitOrder, Report, Goes, TypeOK
<1>3. ASSUME NEW d \in Calls, Announce(d), d # c
      PROVE  at'[c] = at[c] \/ (c[2] = 2 /\ at'[c] = "stock" /\ d = <<c[1], 1>>)
  BY <1>3 DEF Announce, TypeOK, Calls
<1>4. ASSUME Announce(c) PROVE at'[c] = "done" \/ c[2] = 2
  BY <1>4 DEF Announce, TypeOK, Calls
<1>5. ASSUME NEW d \in Calls, Fail(d) PROVE at'[c] = at[c] \/ (Fail(c) /\ at'[c] = "failed")
  BY <1>5 DEF Fail, Goes, TypeOK
<1>6. CASE \E m \in Messages : Deliver(m) \/ Lose(m)
  BY <1>6 DEF Deliver, Lose, local
<1>7. CASE ProcessEvents \/ (\E o \in orders : PayOrder(o)) \/ UNCHANGED vars
  BY <1>7 DEF ProcessEvents, PayOrder, vars, local
<1>8. QED
  BY <1>1, <1>2, <1>3, <1>4, <1>5, <1>6, <1>7 DEF Next

LEMMA HasOrderStep == IInv /\ [Next]_vars => HasOrder'
<1> SUFFICES ASSUME IInv, [Next]_vars, NEW c \in Calls, at'[c] \in Inserted PROVE OrderOf(c)' # {}
  BY DEF HasOrder
<1>1. CASE at[c] \in Inserted
  BY <1>1, Grows DEF IInv, HasOrder
<1>2. CASE at[c] \notin Inserted
  <2>1. InsertOrder(c) /\ Connects(c)
    BY <1>2, Moves DEF IInv, Inserted, CreateOrder, CheckStock, PriceOrder, InsertOrder, WriteOutbox,
       Emit, MarkSent, AddAgain, CommitOrder, Report, Goes, Announce, TypeOK
  <2>2. NewOrder(c) \in orders'
    BY <2>1 DEF InsertOrder, Goes
  <2>3. NewOrder(c).call = c
    BY DEF NewOrder
  <2>4. QED
    BY <2>2, <2>3 DEF OrderOf
<1>3. QED
  BY <1>1, <1>2

LEMMA RowsAreOwnStep == IInv /\ [Next]_vars => RowsAreOwn'
<1> SUFFICES ASSUME IInv, [Next]_vars, NEW c \in Calls, NEW o \in row'[c] PROVE o.call = c
  BY DEF RowsAreOwn
<1>1. CASE \E n \in {1, 2}, d \in Calls : AddRow(d, n)
  BY <1>1 DEF AddRow, IInv, TypeOK, RowsAreOwn
<1>2. ASSUME NEW d \in Calls, row' = [row EXCEPT ![d] = {[p EXCEPT !.status = "SENT"] : p \in row[d]}]
      PROVE  o.call = c
  <2>1. \A p \in row[c] : p \in OutboxRow /\ p.call = c
    BY DEF IInv, TypeOK, RowsAreOwn
  <2>2. \A p \in row[c] : [p EXCEPT !.status = "SENT"].call = c
    BY <2>1 DEF OutboxRow
  <2>3. QED
    BY <1>2, <2>1, <2>2 DEF IInv, TypeOK
<1>3. CASE row' = row
  BY <1>3 DEF IInv, RowsAreOwn
<1>4. QED
  BY <1>1, <1>2, <1>3
     DEF Next, Post, CreateOrder, CheckStock, PriceOrder, InsertOrder, WriteOutbox, Emit, MarkSent,
     AddAgain, CommitOrder, Report, Announce, Fail, Deliver, Lose, ProcessEvents, PayOrder, vars, local

LEMMA OnlyWithOrderStep == IInv /\ [Next]_vars => OnlyWithOrder'
<1> SUFFICES ASSUME IInv, [Next]_vars, NEW c \in Calls, OrderOf(c)' = {}
             PROVE  /\ RowsOf(c)' = {} /\ c \notin reported'
                    /\ \A s \in {"service", "controller"} : message'[<<c, s>>] = "none"
  BY DEF OnlyWithOrder, HandedOver
<1>1. OrderOf(c) = {} /\ at[c] \notin Inserted
  BY Grows DEF IInv, HasOrder
<1>2. /\ RowsOf(c) = {} /\ c \notin reported
      /\ \A s \in {"service", "controller"} : message[<<c, s>>] = "none"
  BY <1>1 DEF IInv, OnlyWithOrder, HandedOver
<1>3. RowsOf(c)' = {}
  <2>1. ASSUME NEW d \in Calls, at[d] = "commit", outbox' = outbox \union row[d] PROVE RowsOf(c)' = {}
    BY <1>1, <1>2, <2>1 DEF RowsOf, IInv, RowsAreOwn, Inserted
  <2>2. CASE outbox' = outbox
    BY <1>2, <2>2 DEF RowsOf
  <2>3. QED
    BY <2>1, <2>2, NothingPending
       DEF Next, Post, CreateOrder, CheckStock, PriceOrder, InsertOrder, WriteOutbox, Emit, MarkSent,
       AddAgain, CommitOrder, Report, Announce, Fail, Deliver, Lose, ProcessEvents, PayOrder, vars, Goes
<1>4. c \notin reported'
  BY <1>1, <1>2
     DEF Next, Post, CreateOrder, CheckStock, PriceOrder, InsertOrder, WriteOutbox, Emit, MarkSent, Goes,
     AddAgain, CommitOrder, Report, Announce, Fail, Deliver, Lose, ProcessEvents, PayOrder, vars, Inserted
<1>5. ASSUME NEW s \in {"service", "controller"} PROVE message'[<<c, s>>] = "none"
  <2>1. CASE \E d \in Calls : Emit(d) \/ Announce(d)
    BY <1>1, <1>2, <2>1 DEF Emit, Announce, Goes, IInv, TypeOK, Inserted, Messages
  <2>2. CASE \E m \in Messages : Deliver(m) \/ Lose(m)
    BY <1>2, <2>2 DEF Deliver, Lose, IInv, TypeOK, Messages
  <2>3. CASE ProcessEvents
    BY <1>2, <2>3, NothingPending DEF ProcessEvents, Messages
  <2>4. CASE message' = message
    BY <1>2, <2>4
  <2>5. QED
    BY <2>1, <2>2, <2>3, <2>4
       DEF Next, Post, CreateOrder, CheckStock, PriceOrder, InsertOrder, WriteOutbox, MarkSent,
       AddAgain, CommitOrder, Report, Fail, PayOrder, vars, local
<1>6. QED
  BY <1>3, <1>4, <1>5

LEMMA InOrderStep == IInv /\ [Next]_vars => InOrder'
<1> SUFFICES ASSUME IInv, [Next]_vars, NEW c \in Calls
             PROVE  /\ at'[c] \in Written => row'[c] # {}
                    /\ at'[c] \in Emitted => HandedOver(<<c, "service">>)'
                    /\ at'[c] \in Committed => RowsOf(c)' # {}
                    /\ at'[c] = "done" /\ c[2] = 1 => HandedOver(<<c, "controller">>)'
  BY DEF InOrder
<1> USE DEF IInv, TypeOK
<1>1. ASSUME at'[c] \in Written PROVE row'[c] # {}
  <2>1. row[c] # {} => row'[c] # {}
    <3>1. ASSUME NEW n \in {1, 2}, NEW d \in Calls, AddRow(d, n) PROVE row[c] # {} => row'[c] # {}
      BY <3>1 DEF AddRow
    <3>2. ASSUME NEW d \in Calls, row' = [row EXCEPT ![d] = {[p EXCEPT !.status = "SENT"] : p \in row[d]}]
          PROVE  row[c] # {} => row'[c] # {}
      <4>1. CASE c = d
        <5>1. row'[c] = {[p EXCEPT !.status = "SENT"] : p \in row[c]}
          BY <3>2, <4>1
        <5>2. \A p \in row[c] : [p EXCEPT !.status = "SENT"] \in row'[c]
          BY <5>1
        <5>3. QED
          BY <5>2
      <4>2. CASE c # d
        BY <3>2, <4>2
      <4>3. QED
        BY <4>1, <4>2
    <3>3. QED
      BY <3>1, <3>2
         DEF Next, Post, CreateOrder, CheckStock, PriceOrder, InsertOrder, WriteOutbox, Emit, MarkSent,
         AddAgain, CommitOrder, Report, Announce, Fail, Deliver, Lose, ProcessEvents, PayOrder, vars, local
  <2>2. at[c] \in Written \/ WriteOutbox(c)
    BY <1>1, Moves DEF CreateOrder, CheckStock, PriceOrder, InsertOrder, Emit, MarkSent, AddAgain,
       CommitOrder, Report, Announce, Goes, Written
  <2>3. WriteOutbox(c) => row'[c] # {}
    BY DEF WriteOutbox, AddRow
  <2>4. QED
    BY <2>1, <2>2, <2>3 DEF InOrder
<1>2. ASSUME at'[c] \in Emitted PROVE HandedOver(<<c, "service">>)'
  <2>1. at[c] \in Emitted \/ Emit(c)
    BY <1>2, Moves DEF CreateOrder, CheckStock, PriceOrder, InsertOrder, WriteOutbox, MarkSent,
       AddAgain, CommitOrder, Report, Announce, Goes, Emitted
  <2>2. Emit(c) => HandedOver(<<c, "service">>)'
    BY DEF Emit, HandedOver, Messages
  <2>3. QED
    BY <2>1, <2>2, Grows DEF InOrder, Messages
<1>3. ASSUME at'[c] \in Committed PROVE RowsOf(c)' # {}
  <2>1. at[c] \in Committed \/ CommitOrder(c)
    BY <1>3, Moves DEF CreateOrder, CheckStock, PriceOrder, InsertOrder, WriteOutbox, Emit, MarkSent,
       AddAgain, Report, Announce, Goes, Committed
  <2>2. CommitOrder(c) => RowsOf(c)' # {}
    BY DEF CommitOrder, Goes, InOrder, Written, RowsAreOwn, RowsOf
  <2>3. QED
    BY <2>1, <2>2, Grows DEF InOrder
<1>4. ASSUME at'[c] = "done", c[2] = 1 PROVE HandedOver(<<c, "controller">>)'
  <2>1. at[c] = "done" \/ Announce(c)
    BY <1>4, Moves DEF CreateOrder, CheckStock, PriceOrder, InsertOrder, WriteOutbox, Emit, MarkSent,
       AddAgain, CommitOrder, Report, Goes
  <2>2. Announce(c) => HandedOver(<<c, "controller">>)'
    BY DEF Announce, HandedOver, Messages
  <2>3. QED
    BY <1>4, <2>1, <2>2, Grows DEF InOrder, Messages
<1>5. QED
  BY <1>1, <1>2, <1>3, <1>4

LEMMA Stages ==
    ASSUME IInv, [Next]_vars, NEW c \in Calls
    PROVE  /\ c[2] = 2 => at'[c] # "announce"
           /\ c[2] = 1 /\ at[c] = "done" => at'[c] = "done"
           /\ c[2] = 2 /\ at[c] = "none" => at'[c] = "none" \/ Announce(<<c[1], 1>>)
<1> USE DEF IInv, TypeOK
<1>1. c[2] \in {1, 2} /\ (c[2] = 2 => at[c] # "announce")
  <2>1. PICK r \in Requests, n \in {1, 2} : c = <<r, n>>
    BY DEF Calls
  <2>2. QED
    BY <2>1 DEF SecondWaits
<1>2. CASE CreateOrder(c) /\ ~Announce(c)
  BY <1>1, <1>2 DEF CreateOrder, CheckStock, PriceOrder, InsertOrder, WriteOutbox, Emit, MarkSent,
     AddAgain, CommitOrder, Report, Goes
<1>3. CASE Fail(c) /\ at'[c] = "failed"
  BY <1>1, <1>3 DEF Fail, InTransaction, Goes
<1>4. CASE Announce(c)
  BY <1>1, <1>4 DEF Announce
<1>5. CASE at'[c] = at[c]
  BY <1>1, <1>5
<1>6. CASE at[c] = "none" /\ at'[c] = "stock"
  <2>1. ASSUME c[2] = 2 PROVE Announce(<<c[1], 1>>)
    <3>1. ASSUME NEW r \in Requests, Post(r) PROVE FALSE
      BY <1>6, <2>1, <3>1 DEF Post, Goes
    <3>2. PICK d \in Calls : CreateOrder(d) \/ Fail(d)
      <4>1. at' # at
        BY <1>6
      <4>2. QED
        BY <3>1, <4>1 DEF Next, Deliver, Lose, ProcessEvents, PayOrder, vars, local
    <3>3. CASE d = c
      BY <1>6, <3>2, <3>3 DEF CreateOrder, CheckStock, PriceOrder, InsertOrder, WriteOutbox, Emit,
         MarkSent, AddAgain, CommitOrder, Report, Announce, Fail, InTransaction, Goes
    <3>4. CASE d # c
      <4>1. Announce(d)
        BY <1>6, <3>2, <3>4 DEF CreateOrder, CheckStock, PriceOrder, InsertOrder, WriteOutbox, Emit,
           MarkSent, AddAgain, CommitOrder, Report, Fail, Goes
      <4>2. d = <<c[1], 1>>
        BY <1>6, <2>1, <3>4, <4>1 DEF Announce, Calls
      <4>3. QED
        BY <4>1, <4>2
    <3>5. QED
      BY <3>3, <3>4
  <2>2. QED
    BY <1>6, <2>1
<1>7. CASE c[2] = 2 /\ at'[c] = "stock" /\ Announce(<<c[1], 1>>)
  BY <1>7
<1>8. QED
  BY <1>2, <1>3, <1>4, <1>5, <1>6, <1>7, Moves

LEMMA SecondWaitsStep == IInv /\ [Next]_vars => SecondWaits'
<1> SUFFICES ASSUME IInv, [Next]_vars, NEW r \in Requests
             PROVE  /\ at'[<<r, 2>>] # "announce"
                    /\ at'[<<r, 2>>] # "none" => at'[<<r, 1>>] = "done"
                    /\ at'[<<r, 2>>] = "none" => OrderOf(<<r, 2>>)' = {}
  BY DEF SecondWaits
<1>1. <<r, 1>> \in Calls /\ <<r, 2>> \in Calls
  BY DEF Calls
<1>2. /\ at[<<r, 2>>] # "none" => at[<<r, 1>>] = "done"
      /\ at[<<r, 2>>] = "none" => OrderOf(<<r, 2>>) = {}
  BY DEF IInv, SecondWaits
<1>3. at'[<<r, 2>>] # "announce"
  BY <1>1, Stages
<1>4. ASSUME at'[<<r, 2>>] # "none" PROVE at'[<<r, 1>>] = "done"
  <2>1. CASE at[<<r, 2>>] # "none"
    BY <1>1, <1>2, <2>1, Stages
  <2>2. CASE Announce(<<r, 1>>)
    BY <1>1, <2>2 DEF Announce, IInv, TypeOK
  <2>3. QED
    BY <1>1, <1>4, <2>1, <2>2, Stages
<1>5. ASSUME at'[<<r, 2>>] = "none" PROVE OrderOf(<<r, 2>>)' = {}
  <2>1. at[<<r, 2>>] = "none"
    BY <1>1, <1>5, Moves DEF IInv, TypeOK, CreateOrder, CheckStock, PriceOrder, InsertOrder,
       WriteOutbox, Emit, MarkSent, AddAgain, CommitOrder, Report, Announce, Goes
  <2>2. \A o \in orders' : o.call = <<r, 2>> => \E p \in orders : p.call = <<r, 2>>
    <3>1. ASSUME NEW p \in orders, PayOrder(p) PROVE \A o \in orders' : \E q \in orders : q.call = o.call
      BY <3>1 DEF PayOrder, IInv, TypeOK, Order
    <3>2. ASSUME NEW d \in Calls, at[d] = "insert", orders' = orders \union {NewOrder(d)}
          PROVE  \A o \in orders' : o.call = <<r, 2>> => o \in orders
      BY <2>1, <3>2 DEF NewOrder
    <3>3. QED
      BY <3>1, <3>2
         DEF Next, Post, CreateOrder, CheckStock, PriceOrder, InsertOrder, WriteOutbox, Emit, MarkSent,
         AddAgain, CommitOrder, Report, Announce, Fail, Deliver, Lose, ProcessEvents, vars, Goes
  <2>3. QED
    BY <1>2, <2>1, <2>2 DEF OrderOf
<1>6. QED
  BY <1>3, <1>4, <1>5

LEMMA PriceIsOwnStep == IInv /\ [Next]_vars => PriceIsOwn'
<1> SUFFICES ASSUME IInv, [Next]_vars, NEW c \in Calls, at'[c] = "insert", price'[c] # Total[c[1]]
             PROVE  HasCoupon(c)
  BY DEF PriceIsOwn, HasCoupon
<1> USE DEF IInv, TypeOK
<1>1. CASE PriceOrder(c)
  BY <1>1 DEF PriceOrder, Applies, OwnCoupons, HasCoupon
<1>2. CASE ~PriceOrder(c)
  <2>1. at[c] = "insert"
    BY <1>2, Moves DEF CreateOrder, CheckStock, InsertOrder, WriteOutbox, Emit, MarkSent, AddAgain,
       CommitOrder, Report, Announce, Goes
  <2>2. price'[c] = price[c]
    BY <1>2 DEF Next, Post, CreateOrder, CheckStock, PriceOrder, InsertOrder, WriteOutbox, Emit, MarkSent,
       AddAgain, CommitOrder, Report, Announce, Fail, Deliver, Lose, ProcessEvents, PayOrder, vars, local
  <2>3. QED
    BY <2>1, <2>2 DEF PriceIsOwn
<1>3. QED
  BY <1>1, <1>2

LEMMA DiscountIsOwnStep == IInv /\ [Next]_vars => DiscountIsOwn'
<1> SUFFICES ASSUME IInv, [Next]_vars, NEW o \in orders', o.finalAmount # Total[o.call[1]]
             PROVE  HasCoupon(o.call)
  BY DEF DiscountIsOwn, HasCoupon
<1>1. \A p \in orders : p.finalAmount # Total[p.call[1]] => HasCoupon(p.call)
  BY DEF IInv, DiscountIsOwn, HasCoupon
<1>2. ASSUME NEW p \in orders, PayOrder(p) PROVE HasCoupon(o.call)
  <2>1. PICK n : n = [p EXCEPT !.status = "PAID"]
    OBVIOUS
  <2>2. n.call = p.call /\ n.finalAmount = p.finalAmount
    BY <2>1 DEF IInv, TypeOK, Order
  <2>3. orders' = (orders \ {p}) \union {n}
    BY <1>2, <2>1 DEF PayOrder
  <2>4. QED
    BY <1>1, <2>2, <2>3
<1>3. ASSUME NEW c \in Calls, at[c] = "insert", orders' = orders \union {NewOrder(c)}
      PROVE  HasCoupon(o.call)
  BY <1>1, <1>3 DEF NewOrder, IInv, PriceIsOwn
<1>4. CASE orders' = orders
  BY <1>1, <1>4
<1>5. QED
  BY <1>2, <1>3, <1>4
     DEF Next, Post, CreateOrder, CheckStock, PriceOrder, InsertOrder, WriteOutbox, Emit, MarkSent,
     AddAgain, CommitOrder, Report, Announce, Fail, Deliver, Lose, ProcessEvents, vars, Goes

LEMMA IInvInit == Init => IInv
<1> SUFFICES ASSUME Init PROVE IInv
  OBVIOUS
<1>1. TypeOK
  BY StartAssumption DEF Init, TypeOK, Step
<1>2. \A c \in Calls : at[c] = "none" /\ row[c] = {} /\ OrderOf(c) = {} /\ RowsOf(c) = {}
  BY DEF Init, OrderOf, RowsOf
<1>3. \A r \in Requests : <<r, 1>> \in Calls /\ <<r, 2>> \in Calls
  BY DEF Calls
<1>4. HasOrder /\ RowsAreOwn /\ InOrder /\ SecondWaits /\ PriceIsOwn
  BY <1>2, <1>3 DEF HasOrder, RowsAreOwn, InOrder, SecondWaits, PriceIsOwn, Inserted, Written,
     Emitted, Committed
<1>5. OnlyWithOrder
  BY <1>2 DEF Init, OnlyWithOrder, HandedOver, Messages
<1>6. DiscountIsOwn
  BY DEF Init, DiscountIsOwn
<1>7. QED
  BY <1>1, <1>4, <1>5, <1>6 DEF IInv

\* IInv holds in every reachable state of createOrder and the outbox, whatever
\* fails: the properties below are parts of it.
LEMMA IInvAlways == Spec => []IInv
<1>1. IInv /\ [Next]_vars => IInv'
  <2> SUFFICES ASSUME IInv, [Next]_vars PROVE IInv'
    OBVIOUS
  <2>1. TypeOK'
    BY TypeStep DEF IInv
  <2>2. QED
    BY <2>1, HasOrderStep, OnlyWithOrderStep, RowsAreOwnStep, InOrderStep, SecondWaitsStep,
       PriceIsOwnStep, DiscountIsOwnStep DEF IInv
<1>2. QED
  BY IInvInit, <1>1, PTL DEF Spec

-----------------------------------------------------------------------------
\* The tables keep their types, whatever is rolled back: a call that failed
\* leaves only rows that a call may leave (order.repository, OutboxService).
THEOREM OrderType == Spec => []TypeOK
<1>1. IInv => TypeOK
  BY DEF IInv
<1>2. QED
  BY IInvAlways, <1>1, PTL

\* No message, outbox row or report is about an order that is not in the
\* table (OrderService.createOrder inserts before it emits).
THEOREM OrderNoPhantomEvent == Spec => []NoPhantomEvent
<1>1. IInv => NoPhantomEvent
  BY DEF IInv, OnlyWithOrder, NoPhantomEvent, HandedOver
<1>2. QED
  BY IInvAlways, <1>1, PTL

\* An order whose creation succeeded has an outbox row, pending or with its
\* message handed to Kafka (OrderService.createOrder).
THEOREM OrderOutboxCovers == Spec => []OutboxCoversOrder
<1>1. IInv => OutboxCoversOrder
  BY DEF IInv, InOrder, OutboxCoversOrder, Created, Committed, Emitted, RowsOf, HandedOver
<1>2. QED
  BY IInvAlways, <1>1, PTL

\* Only a coupon issued to the user lowers the price (findExistingUserCoupon).
THEOREM OrderDiscountIsOwn == Spec => []DiscountIsOwn
<1>1. IInv => DiscountIsOwn
  BY DEF IInv
<1>2. QED
  BY IInvAlways, <1>1, PTL

\* The second order of a POST comes after the first is committed and
\* announced (OrderController.createOrder awaits the first call).
THEOREM OrderSecondAfterFirst == Spec => []SecondAfterFirst
<1>1. IInv => SecondAfterFirst
  <2> SUFFICES ASSUME IInv, NEW r \in Requests, OrderOf(<<r, 2>>) # {}
               PROVE  RowsOf(<<r, 1>>) # {} /\ message[<<<<r, 1>>, "controller">>] # "none"
    BY DEF SecondAfterFirst
  <2>1. <<r, 1>> \in Calls /\ at[<<r, 1>>] = "done"
    BY DEF IInv, SecondWaits, Calls
  <2>2. QED
    BY <2>1 DEF IInv, InOrder, Committed, HandedOver
<1>2. QED
  BY IInvAlways, <1>1, PTL
=============================================================================
