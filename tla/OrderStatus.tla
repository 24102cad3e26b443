----------------------------- MODULE OrderStatus -----------------------------
(***************************************************************************)
(* PATCH /order/:orderId/status and its message order.status.updated.      *)
(* OrderService.updateOrderStatus opens a transaction, but reads and       *)
(* writes the order through the repository, on another connection: the     *)
(* write is there at once and stays when the transaction fails.  Events    *)
(* that cancel or complete an order call the same operation; a payment     *)
(* writes the status by itself and sends no message.                       *)
(* Kafka's client returns from emit() before anything is sent; messages    *)
(* have no key, so that the three partitions keep no order between them.   *)
(***************************************************************************)
EXTENDS Integers, FiniteSets

CONSTANTS
    Orders,         \* ids that callers name
    Stored,         \* those of them that exist
    Status,         \* OrderStatus
    Calls,          \* calls of updateOrderStatus, each served once
    OrderOf, To,    \* the order and the status call c asks for
    MaxPayments,    \* bound: payments and cancellations of the orders
    MaxFailures     \* bound: failing queries and commits, lost messages, crashes

OrdersAssumption == Stored \subseteq Orders /\ {"PENDING", "PAID", "CANCELLED"} \subseteq Status
CallsAssumption == OrderOf \in [Calls -> Orders] /\ To \in [Calls -> Status]
BoundsAssumption == MaxPayments \in Nat /\ MaxFailures \in Nat

VARIABLES
    status,     \* Order.status
    pc,         \* where call c is
    read,       \* what call c has read
    transit,    \* the messages of these calls that Kafka's client has not sent
    topic,      \* the messages in order.status.updated, in no order
    lost,       \* history: the messages that will never be in the topic
    wrote,      \* history: what the calls have written and it replaced
    failures, payments

client == <<transit, topic, lost>>
vars == <<status, pc, read, transit, topic, lost, wrote, failures, payments>>

Message(c) == [call |-> c, status |-> To[c], previous |-> read[c]]

Init ==
    /\ status = [o \in Stored |-> "PENDING"]
    /\ pc = [c \in Calls |-> "idle"]
    /\ read = [c \in Calls |-> "PENDING"]
    /\ transit = {} /\ topic = {} /\ lost = {} /\ wrote = {}
    /\ failures = 0 /\ payments = 0
-----------------------------------------------------------------------------
Goes(c, to) == pc' = [pc EXCEPT ![c] = to]

Call(c) ==
    /\ pc[c] = "idle"
    /\ Goes(c, "find")
    /\ UNCHANGED <<status, read, client, wrote, failures, payments>>

FindOrderById(c) ==
    /\ pc[c] = "find"
    /\ IF OrderOf[c] \in Stored
       THEN Goes(c, "update") /\ read' = [read EXCEPT ![c] = status[OrderOf[c]]]
       ELSE Goes(c, "failed") /\ UNCHANGED read
    /\ UNCHANGED <<status, client, wrote, failures, payments>>

Write(c) ==
    /\ status' = [status EXCEPT ![OrderOf[c]] = To[c]]
    /\ wrote' = wrote \union {[message |-> Message(c), replaced |-> status[OrderOf[c]]]}

UpdateOrderStatus(c) ==
    /\ pc[c] = "update"
    /\ Write(c)
    /\ Goes(c, "emit")
    /\ UNCHANGED <<read, client, failures, payments>>

\* Mutant of Ready: the message goes out before the order is written.
BugReady(c) == pc[c] \in {"update", "emit"}

Ready(c) == pc[c] = "emit"

\* Mutant of Send: a message replaces those of the same order still to be sent.
BugSend(c) ==
    transit' = {m \in transit : OrderOf[m.call] # OrderOf[c]} \union {Message(c)}

Send(c) == transit' = transit \union {Message(c)}

\* The catch around it is never reached, since emit() does not reject.
Emit(c) ==
    /\ Ready(c)
    /\ Send(c)
    /\ Goes(c, "commit")
    /\ UNCHANGED <<status, read, topic, lost, wrote, failures, payments>>

\* The commit of a transaction in which nothing was done; then the answer, and
\* ORDER_STATUS_UPDATED on the event bus, which has no listener.
Commit(c) ==
    /\ pc[c] = "commit"
    /\ Goes(c, "done")
    /\ UNCHANGED <<status, read, client, wrote, failures, payments>>

Live(c) == pc[c] \in {"find", "update", "emit", "commit"}

\* A query or the transaction fails, which a write may survive.
Fail(c) ==
    /\ Live(c)
    /\ failures < MaxFailures
    /\ failures' = failures + 1
    /\ \/ UNCHANGED <<status, wrote>>
       \/ pc[c] = "update" /\ Write(c)
    /\ Goes(c, "failed")
    /\ UNCHANGED <<read, client, payments>>

Crash ==
    /\ failures < MaxFailures
    /\ failures' = failures + 1
    /\ pc' = [c \in Calls |-> IF Live(c) THEN "failed" ELSE pc[c]]
    /\ transit' = {} /\ lost' = lost \union transit
    /\ UNCHANGED <<status, read, topic, wrote, payments>>

\* Kafka's client sends its messages by themselves, and nobody hears of one that
\* it gives up.
Deliver(m) ==
    /\ transit' = transit \ {m}
    /\ topic' = topic \union {m}
    /\ UNCHANGED <<status, pc, read, lost, wrote, failures, payments>>

Lose(m) ==
    /\ failures < MaxFailures
    /\ failures' = failures + 1
    /\ transit' = transit \ {m} /\ lost' = lost \union {m}
    /\ UNCHANGED <<status, pc, read, topic, wrote, payments>>

\* processPayment and cancelPayment (module Payment).
Pay(o) ==
    /\ payments < MaxPayments
    /\ payments' = payments + 1
    /\ \/ status[o] = "PENDING" /\ status' = [status EXCEPT ![o] = "PAID"]
       \/ status[o] = "PAID" /\ status' = [status EXCEPT ![o] = "CANCELLED"]
    /\ UNCHANGED <<pc, read, client, wrote, failures>>

Go(c) == FindOrderById(c) \/ UpdateOrderStatus(c) \/ Emit(c) \/ Commit(c)

Next ==
    \/ \E c \in Calls : Call(c) \/ Go(c) \/ Fail(c)
    \/ \E m \in transit : Deliver(m) \/ Lose(m)
    \/ \E o \in Stored : Pay(o)
    \/ Crash

Spec == Init /\ [][Next]_vars

\* Queries return, and Kafka's client goes on sending.
Progress == (\E c \in Calls : Go(c)) \/ \E m \in transit : Deliver(m)
FairSpec == Spec /\ WF_vars(Progress)
-----------------------------------------------------------------------------
Messages == transit \union topic
Written == {w.message : w \in wrote}

TypeOK ==
    /\ status \in [Stored -> Status]
    /\ pc \in [Calls -> {"idle", "find", "update", "emit", "commit", "done", "failed"}]
    /\ read \in [Calls -> Status]
    /\ Messages \union lost \union Written \subseteq [call : Calls, status : Status, previous : Status]
    /\ \A m \in Messages : OrderOf[m.call] \in Stored
    /\ \A w \in wrote : w.replaced \in Status
    /\ failures \in 0 .. MaxFailures /\ payments \in 0 .. MaxPayments

\* Whatever fails, nobody hears of a status that was not written by that call: it
\* is emitted after the write, which the transaction around it does not undo.
ToldIsWritten == Messages \subseteq Written

\* Each write is announced in the end, even one that a later write has replaced
\* (updateOrderStatus emits after each update), whatever other calls run, fail or
\* crash: but one whose own call was cut off, or whose own message was lost.
WrittenIsTold == <>[](\A m \in Written : m \in topic \union lost \/ pc[m.call] = "failed")

\* What a message says was there before is what the order was created with or
\* somebody else has made it (previousStatus is what was read, not what the
\* update returned), in whatever order calls run and fail.
PreviousWasThere == payments = 0 =>
    \A m \in Messages : m.previous \in {"PENDING"} \union
        {w.status : w \in {v \in Written : v.call # m.call /\ OrderOf[v.call] = OrderOf[m.call]}}

\* Refuted: a message that Kafka has not taken is kept (the comment in the
\* catch: stored in the outbox when Kafka fails); there is no row for it.
LostIsKept == \A w \in Written : pc[w.call] = "done" => w \in Messages

\* Refuted: a failed call may have changed the order, and told so.
FailedChangesNothing == \A w \in Written : pc[w.call] # "failed"

\* Refuted: the order may have changed between the read and the write.
PreviousIsReplaced == \A w \in wrote : w.message.previous = w.replaced
=============================================================================
