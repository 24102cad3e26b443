----------------------------- MODULE WaitingLine -----------------------------
(***************************************************************************)
(* What the queue of FCFS coupons promises: users are called from its      *)
(* front, a batch at a time, and a batch is served in one indivisible step *)
(* in which all of its users get the coupon and the stock goes down by as  *)
(* many.  Who has the coupon is passed over, nobody gets it twice, and     *)
(* nobody leaves the line or a batch in any other way, as long as nothing  *)
(* fails.                                                                  *)
(*                                                                         *)
(* After one, a batch may be served one by one, or not to its end.         *)
(*                                                                         *)
(* CouponScheduler.tla, the cron job with its locks, open transactions,    *)
(* deadlocks and overlapping runs, and the calls beside it, is shown to    *)
(* implement this module.                                                  *)
(***************************************************************************)
EXTENDS Integers, Sequences, FiniteSets

CONSTANTS
    Users, Coupons, Fcfs,
    CouponOf,   \* CouponOf[f]: the Coupon f gives out
    Quantity,   \* Quantity[f]: how many there are at first
    AtFirst,    \* AtFirst[f]: who waits at first, in order
    Runs,       \* those who serve
    BatchSize   \* how many are called at most

VARIABLES
    line,       \* line[f]: who waits for f, in order
    joined,     \* joined[f]: who has ever waited for f
    turn,       \* turn[r]: who has been called by r: users, and what for
    rows,       \* coupons given out
    left,       \* left[f]: the stock
    faults      \* how often something has failed

lineVars == <<line, joined, turn, rows, left, faults>>

LineInit ==
    /\ line = AtFirst
    /\ joined = [f \in Fcfs |-> {AtFirst[f][i] : i \in DOMAIN AtFirst[f]}]
    /\ turn = [r \in Runs |-> {}]
    /\ rows = {} /\ left = Quantity
    /\ faults = 0

\* Those who wait for f in q, when they are called.
Called(f, q) == {[fcfs |-> f, user |-> q[i]] : i \in 1 .. Len(q)}

\* What user u has of the Coupon that f gives out.
Has(u, f) == {c \in rows : c.user = u /\ CouponOf[c.fcfs] = CouponOf[f]}

Join(f, u) ==
    /\ u \notin joined[f]
    /\ joined' = [joined EXCEPT ![f] = @ \union {u}]
    /\ line' = [line EXCEPT ![f] = Append(@, u)]
    /\ UNCHANGED <<turn, rows, left, faults>>

\* The first n of those who wait.
Call(r, f, n) ==
    /\ n <= Len(line[f])
    /\ line' = [line EXCEPT ![f] = SubSeq(@, n + 1, Len(@))]
    /\ turn[r] = {} /\ turn' = [turn EXCEPT ![r] = Called(f, SubSeq(line[f], 1, n))]
    /\ UNCHANGED <<joined, rows, left, faults>>

\* After a failure it may be one who was served just before, and whom the stock
\* still has to follow.
PassOver(r) ==
    /\ UNCHANGED <<line, joined, rows, faults>>
    /\ \E t \in turn[r] :
          /\ Has(t.user, t.fcfs) # {}
          /\ turn' = [turn EXCEPT ![r] = @ \ {t}]
          /\ UNCHANGED left \/ (faults > 0 /\ left' = [left EXCEPT ![t.fcfs] = @ - 1])

\* After a failure the stock may go down by less.
Serve(r, f) ==
    /\ turn[r] # {}
    /\ \A t \in turn[r] : t.fcfs = f /\ Has(t.user, f) = {}
    /\ rows' = rows \union {[user |-> t.user, fcfs |-> f, by |-> "cron"] : t \in turn[r]}
    /\ \E n \in 0 .. Cardinality(turn[r]) :
          /\ faults = 0 => n = Cardinality(turn[r])
          /\ left' = [left EXCEPT ![f] = @ - n]
    /\ turn' = [turn EXCEPT ![r] = {}]
    /\ UNCHANGED <<line, joined, faults>>

\* After a failure, one of those who have been called.
ServeOne(r) ==
    /\ faults > 0
    /\ \E t \in turn[r] :
          /\ Has(t.user, t.fcfs) = {}
          /\ rows' = rows \union {[user |-> t.user, fcfs |-> t.fcfs, by |-> "cron"]}
    /\ UNCHANGED <<line, joined, turn, left, faults>>

\* Some or all of those who have been called lose their turn.
Fault ==
    /\ faults' = faults + 1
    /\ \E lost \in [Runs -> SUBSET UNION {turn[r] : r \in Runs}] :
          turn' = [r \in Runs |-> turn[r] \ lost[r]]
    /\ UNCHANGED <<line, joined, rows, left>>

\* Beside the line, to one who has none.
GiveDirectly(f, u) ==
    /\ Has(u, f) = {}
    /\ rows' = rows \union {[user |-> u, fcfs |-> f, by |-> "http"]}
    /\ UNCHANGED <<line, joined, turn, left, faults>>

\* Nothing but giving adds rows, and those who get one had none.
LineNext ==
    \/ Fault
    \/ \E r \in Runs : PassOver(r)
    \/ \E f \in Fcfs, u \in Users : Join(f, u)
    \/ \E r \in Runs, f \in Fcfs : \E n \in 1 .. BatchSize : Call(r, f, n)
    \/ /\ rows' # rows
       /\ \/ \E f \in Fcfs, u \in Users : GiveDirectly(f, u)
          \/ \E r \in Runs, f \in Fcfs : Serve(r, f)
          \/ \E r \in Runs : ServeOne(r)

LineSpec == LineInit /\ [][LineNext]_lineVars
=============================================================================
