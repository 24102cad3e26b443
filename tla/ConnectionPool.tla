--------------------------- MODULE ConnectionPool ---------------------------
(***************************************************************************)
(* The pool of database connections of PrismaService below the handlers.   *)
(* A handler that has opened a transaction holds a connection until it     *)
(* closes it; meanwhile several handlers ask for another one, for a query  *)
(* that does not go through tx or for a transaction of a service they      *)
(* call.  What each asks for, and in which order, is its plan.             *)
(*                                                                         *)
(* Prisma waits 2 s for the connection of a transaction and 10 s for that  *)
(* of a query, then throws.  A transaction is rolled back after 5 s, while *)
(* the handler goes on and finds out when it uses or closes it: here, when *)
(* it closes it.  All of these happen only to handlers that wait; how long *)
(* a query takes is the matter of other modules.                           *)
(***************************************************************************)
EXTENDS Integers, Sequences, FiniteSets

CONSTANTS
    Conns,      \* connections of the pool
    Handlers,   \* executions of a handler
    KindOf      \* KindOf[h]: which one it is

\* A step of a plan: what it does and how many transactions are open before it.
Step(op, at) == [op |-> op, at |-> at]

\* PATCH /order/:id/status: findOrderById and updateOrderStatus are not in tx.
UpdateOrderStatus ==
    <<Step("open", 0), Step("query", 1), Step("query", 1), Step("close", 1)>>

\* POST /order: neither are the products and the new order; the report asks for
\* its user when the transaction is over.
CreateOrder ==
    <<Step("open", 0), Step("query", 1), Step("query", 1), Step("close", 1), Step("query", 0)>>

\* handlePaymentCompletion: updateOrderStatus in a transaction of its own, and
\* an order read outside of both.
PaymentCompletion ==
    <<Step("open", 0), Step("open", 1), Step("query", 2), Step("query", 2),
      Step("close", 2), Step("query", 1), Step("close", 1)>>

\* handleBalanceDeduction and handleBalanceCharge: BalanceService opens its own
\* transaction inside of theirs.
BalanceEvent == <<Step("open", 0), Step("open", 1), Step("close", 2), Step("close", 1)>>

\* cancelPayment reads the payment outside of tx.
CancelPayment == <<Step("open", 0), Step("query", 1), Step("close", 1)>>

\* processPayment, issueFcfsCoupon, the scheduler and the stock update.
ProcessPayment == <<Step("open", 0), Step("close", 1)>>

Plans == [
    updateOrderStatus |-> UpdateOrderStatus, createOrder |-> CreateOrder,
    paymentCompletion |-> PaymentCompletion, balanceEvent |-> BalanceEvent,
    cancelPayment |-> CancelPayment, processPayment |-> ProcessPayment]

\* What a plan has open after n of its steps.
After(step) == CASE step.op = "open" -> step.at + 1
                 [] step.op = "close" -> step.at - 1
                 [] step.op = "query" -> step.at

\* Plans begin and end with nothing open, and say truly what is open.
ASSUME PlansAssumption == \A k \in DOMAIN Plans :
    /\ Plans[k] \in Seq([op : {"open", "query", "close"}, at : 0 .. 2]) /\ Plans[k] # <<>>
    /\ Plans[k][1].at = 0 /\ After(Plans[k][Len(Plans[k])]) = 0
    /\ \A n \in 1 .. Len(Plans[k]) - 1 : Plans[k][n + 1].at = After(Plans[k][n])
    /\ \A n \in 1 .. Len(Plans[k]) : Plans[k][n].op = "open" => Plans[k][n].at < 2

ASSUME HandlersAssumption == \A h \in Handlers : KindOf[h] \in DOMAIN Plans
ASSUME FiniteAssumption == IsFiniteSet(Conns) /\ IsFiniteSet(Handlers)

\* Transactions of a handler that may be open at once, as pairs of the handler
\* and their level.
Slots == Handlers \X {1, 2}
Free == <<>>

VARIABLES
    owner,      \* owner[c]: the transaction that has connection c, or Free
    pos,        \* pos[h]: how many steps of its plan handler h has done
    stage,      \* stage[h]: "idle", "runs", "done", "failed"
    expired     \* handlers with a transaction that was rolled back under them

poolVars == <<owner, pos, stage, expired>>

PoolInit ==
    /\ owner = [c \in Conns |-> Free]
    /\ pos = [h \in Handlers |-> 0]
    /\ stage = [h \in Handlers |-> "idle"]
    /\ expired = {}
-----------------------------------------------------------------------------
Plan(h) == Plans[KindOf[h]]
More(h) == stage[h] = "runs" /\ pos[h] < Len(Plan(h))
Ahead(h) == Plan(h)[pos[h] + 1]
NextOp(h) == Ahead(h).op
At(h) == Ahead(h).at
FreeConns == {c \in Conns : owner[c] = Free}
Held(h) == {c \in Conns : owner[c] \in {h} \X {1, 2}}

Proceed(h) == pos' = [pos EXCEPT ![h] = @ + 1]

Start(h) ==
    /\ stage[h] = "idle"
    /\ stage' = [stage EXCEPT ![h] = "runs"]
    /\ UNCHANGED <<owner, pos, expired>>

Open(h) ==
    /\ More(h) /\ NextOp(h) = "open"
    /\ \E c \in FreeConns : owner' = [owner EXCEPT ![c] = <<h, At(h) + 1>>]
    /\ Proceed(h)
    /\ UNCHANGED <<stage, expired>>

\* A query takes a connection only while the database answers it.
Query(h) ==
    /\ More(h) /\ NextOp(h) = "query"
    /\ FreeConns # {}
    /\ Proceed(h)
    /\ UNCHANGED <<owner, stage, expired>>

\* The error of a handler rolls back what it has open.
Returned(h) == [c \in Conns |-> IF c \in Held(h) THEN Free ELSE owner[c]]

Throw(h) ==
    /\ stage' = [stage EXCEPT ![h] = "failed"]
    /\ owner' = Returned(h)
    /\ expired' = expired \ {h}
    /\ UNCHANGED pos

\* Mutant of Close: a transaction that is gone counts as committed.
BugClose(h) ==
    /\ More(h) /\ NextOp(h) = "close"
    /\ owner' = [c \in Conns |-> IF owner[c] = <<h, At(h)>> THEN Free ELSE owner[c]]
    /\ Proceed(h)
    /\ UNCHANGED <<stage, expired>>

\* Mutant of Close: a commit does not give its connection back.
BugKeep(h) ==
    /\ More(h) /\ NextOp(h) = "close"
    /\ Proceed(h)
    /\ UNCHANGED <<owner, stage, expired>>

\* The innermost transaction is committed, unless one has been rolled back.
Close(h) ==
    /\ More(h) /\ NextOp(h) = "close"
    /\ IF h \in expired
       THEN Throw(h)
       ELSE /\ owner' = [c \in Conns |-> IF owner[c] = <<h, At(h)>> THEN Free ELSE owner[c]]
            /\ Proceed(h)
            /\ UNCHANGED <<stage, expired>>

Finish(h) ==
    /\ stage[h] = "runs" /\ ~More(h)
    /\ stage' = [stage EXCEPT ![h] = "done"]
    /\ UNCHANGED <<owner, pos, expired>>

Waits(h) == More(h) /\ NextOp(h) \in {"open", "query"} /\ FreeConns = {}

\* Mutant of GiveUp: a handler waits as long as it takes.
BugGiveUp(h) == FALSE /\ Waits(h) /\ Throw(h)

\* The wait for a connection runs out: maxWait of a transaction, or the pool's
\* timeout for a query.
GiveUp(h) == Waits(h) /\ Throw(h)

\* The time of its transactions runs out, which it does not notice yet.
TimeOut(h) ==
    /\ Waits(h) /\ Held(h) # {}
    /\ owner' = Returned(h)
    /\ expired' = expired \union {h}
    /\ UNCHANGED <<pos, stage>>

Go(h) == Open(h) \/ Query(h) \/ Close(h) \/ Finish(h)

Quiet == (\A h \in Handlers : stage[h] \in {"done", "failed"}) /\ UNCHANGED poolVars

PoolNext == Quiet \/ \E h \in Handlers : Start(h) \/ Go(h) \/ GiveUp(h) \/ TimeOut(h)

PoolSpec == PoolInit /\ [][PoolNext]_poolVars

\* Queries return and waits run out.
FairPoolSpec == PoolSpec /\ \A h \in Handlers : WF_poolVars(Go(h) \/ GiveUp(h))
-----------------------------------------------------------------------------
PoolTypeOK ==
    /\ owner \in [Conns -> Slots \union {Free}]
    /\ pos \in [Handlers -> Nat]
    /\ stage \in [Handlers -> {"idle", "runs", "done", "failed"}]
    /\ expired \subseteq Handlers

\* However a handler ends, and whatever ran out before, it leaves no connection
\* behind, and a transaction never has two.
NothingLeaks ==
    /\ \A h \in Handlers : stage[h] # "runs" => Held(h) = {}
    /\ \A c, d \in Conns : owner[c] = owner[d] /\ owner[c] # Free => c = d

\* The transactions that handlers may hold while they wait for a connection.
WaitSlots == {s \in Slots : \E n \in DOMAIN Plan(s[1]) :
                 Plan(s[1])[n].op # "close" /\ s[2] <= Plan(s[1])[n].at}

AllWait == (\E h \in Handlers : stage[h] = "runs")
           /\ \A h \in Handlers : stage[h] = "runs" => Waits(h)

\* Only a timeout helps when every connection is in an open transaction of a
\* handler that waits for one more: no handler that has ended, and no query that
\* has returned, is ever what the others wait for.
StuckIsFull ==
    AllWait => \A c \in Conns : owner[c] \in WaitSlots /\ stage[owner[c][1]] = "runs"

\* A pool with more connections than that never has everybody wait for everybody
\* else: of the handlers at work, one can go on without any timeout.
SomebodyMoves == Cardinality(Conns) > Cardinality(WaitSlots) => ~AllWait

\* A handler whose transaction has run out never ends as if it had not, however
\* deep that transaction was (the commit of an expired transaction throws).
ExpiredFails == [][\A h \in expired : stage'[h] # "done"]_poolVars

\* With a pool of any size, a handler comes to an end.
EveryHandlerEnds == \A h \in Handlers : stage[h] = "runs" ~> stage[h] \in {"done", "failed"}

\* Refuted in a smaller pool: some handlers time out, with the others waiting.
NobodyTimesOut == \A h \in Handlers : stage[h] # "failed"
=============================================================================
