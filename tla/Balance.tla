------------------------------- MODULE Balance -------------------------------
(***************************************************************************)
(* The balance account: the charge and deduct transactions of              *)
(* BalanceRepositoryPrisma as they run on InnoDB, one action per SQL step. *)
(* A request is one call of BalanceService.chargeBalance or deductBalance. *)
(* The balance and the history entry are written by two statements and     *)
(* become visible together when the transaction commits; what it holds     *)
(* until then are the locks SELECT ... FOR UPDATE gave it:                 *)
(*   - an X lock on the UserBalance row when the row exists;               *)
(*   - a gap lock on the missing key when it does not.  Gap locks of two   *)
(*     transactions are compatible, the INSERT of a row waits for every    *)
(*     other holder of the gap.                                            *)
(***************************************************************************)
EXTENDS Integers, Sequences, FiniteSets

CONSTANTS
    Users,      \* user ids a request may name
    Accounts,   \* users with a UserAccount row
    HasRow,     \* users with a UserBalance row at the start
    Opening,    \* their opening balance
    Amounts,    \* amounts of a request; nothing keeps them from being negative
    Requests,   \* the calls in flight; each is served once
    NoOne       \* the holder of a free row lock

ASSUME UsersAssumption == HasRow \subseteq Accounts /\ Accounts \subseteq Users
ASSUME OpeningAssumption == Opening \in [Users -> Nat]
ASSUME AmountsAssumption == Amounts \subseteq Int
ASSUME NoOneAssumption == NoOne \notin Requests
ASSUME RequestsAssumption == IsFiniteSet(Requests)

VARIABLES
    rows,       \* users whose UserBalance row is committed
    balance,    \* balance[u]: committed balance, 0 without a row
    history,    \* history[u]: committed BalanceHistory rows, oldest first
    rowLock,    \* rowLock[u]: the request holding the X lock on u's row
    gap,        \* gap[u]: the requests holding a gap lock on u's missing key
    pc,         \* pc[r]: the next step of request r
    call,       \* call[r]: the arguments of request r
    seen,       \* seen[r]: the balance the last statement of r returned
    draft       \* draft[r]: the BalanceHistory rows r has inserted, uncommitted

db == <<rows, balance, history>>
locks == <<rowLock, gap>>
balanceVars == <<rows, balance, history, rowLock, gap, pc, call, seen, draft>>

Call == [op: {"charge", "deduct"}, user: Users, amount: Amounts]

\* How far a request is: "new" not yet received; "lock" before its SELECT ...
\* FOR UPDATE; "insert" or "update" before its write of the balance; "log"
\* before its history entry; "commit" before COMMIT; "done" answered with the
\* balance; "failed" rolled back and answered with an error; "aborted" cut off,
\* with an error or, if the process died, no answer at all.
Answered == {"done", "failed", "aborted"}
Step == {"new", "lock", "insert", "update", "log", "commit"} \union Answered

U(r) == call[r].user

OpeningBalance == [u \in Users |-> IF u \in HasRow THEN Opening[u] ELSE 0]

Account == INSTANCE Ledger WITH Opening <- OpeningBalance

BalanceInit ==
    /\ rows = HasRow
    /\ balance = OpeningBalance
    /\ history = [u \in Users |-> <<>>]
    /\ rowLock = [u \in Users |-> NoOne]
    /\ gap = [u \in Users |-> {}]
    /\ pc = [r \in Requests |-> "new"]
    /\ call \in [Requests -> Call]
    /\ seen = [r \in Requests |-> 0]
    /\ draft = [r \in Requests |-> <<>>]
-----------------------------------------------------------------------------
\* The transaction starts.  Only a charge looks the user up first.
Begin(r) ==
    /\ pc[r] = "new"
    /\ pc' = [pc EXCEPT ![r] =
                IF call[r].op = "charge" /\ U(r) \notin Accounts
                THEN "failed" ELSE "lock"]
    /\ UNCHANGED <<db, locks, call, seen, draft>>

\* A transaction ends: every lock it holds is released, what it knew is gone.
Release(r) ==
    /\ rowLock' = [u \in Users |-> IF rowLock[u] = r THEN NoOne ELSE rowLock[u]]
    /\ gap' = [u \in Users |-> gap[u] \ {r}]
    /\ seen' = [seen EXCEPT ![r] = 0]
    /\ draft' = [draft EXCEPT ![r] = <<>>]

\* Mutant of RollBack: what a failed transaction has locked stays locked.
BugRollBack(r, answer) ==
    /\ pc' = [pc EXCEPT ![r] = answer]
    /\ UNCHANGED <<locks, db, call, seen, draft>>

\* The transaction throws, or is rolled back by MySQL, and the call answers
\* with an error.
RollBack(r, answer) ==
    /\ pc' = [pc EXCEPT ![r] = answer]
    /\ Release(r)
    /\ UNCHANGED <<db, call>>

\* Mutant of LockRow: SELECT without FOR UPDATE.
BugLockRow(r) ==
    /\ pc[r] = "lock" /\ U(r) \in rows
    /\ seen' = [seen EXCEPT ![r] = balance[U(r)]]
    /\ pc' = [pc EXCEPT ![r] = "update"]
    /\ UNCHANGED <<db, locks, call, draft>>

\* SELECT ... FOR UPDATE on an existing row: waits for the X lock.
LockRow(r) ==
    /\ pc[r] = "lock"
    /\ U(r) \in rows
    /\ rowLock[U(r)] = NoOne
    /\ rowLock' = [rowLock EXCEPT ![U(r)] = r]
    /\ seen' = [seen EXCEPT ![r] = balance[U(r)]]
    /\ pc' = [pc EXCEPT ![r] = "update"]
    /\ UNCHANGED <<db, gap, call, draft>>

\* SELECT ... FOR UPDATE finds no row: a charge goes on to insert one and keeps
\* the gap, a deduct throws 'Balance not found'.  A row somebody has inserted
\* and not committed is X-locked, so the statement waits for it.
LockGap(r) ==
    /\ pc[r] = "lock"
    /\ U(r) \notin rows
    /\ rowLock[U(r)] = NoOne
    /\ IF call[r].op = "charge"
       THEN /\ gap' = [gap EXCEPT ![U(r)] = @ \union {r}]
            /\ pc' = [pc EXCEPT ![r] = "insert"]
            /\ UNCHANGED <<db, rowLock, call, seen, draft>>
       ELSE RollBack(r, "failed")

\* userBalance.create: waits for every other gap holder.
InsertRow(r) ==
    /\ pc[r] = "insert"
    /\ gap[U(r)] = {r}
    /\ rowLock[U(r)] = NoOne
    /\ rowLock' = [rowLock EXCEPT ![U(r)] = r]
    /\ seen' = [seen EXCEPT ![r] = call[r].amount]
    /\ pc' = [pc EXCEPT ![r] = "log"]
    /\ UNCHANGED <<db, gap, call, draft>>

\* !userBalance.balance.lessThan(amount), asked of a deduction only.
Covered(r) == call[r].op = "deduct" => seen[r] >= call[r].amount

\* The balance { increment: amount } or { decrement: amount } leaves.
After(r) == IF call[r].op = "charge" THEN balance[U(r)] + call[r].amount
                                     ELSE balance[U(r)] - call[r].amount

\* userBalance.update: the statement X-locks the row, if FOR UPDATE has not.
UpdateRow(r) ==
    /\ pc[r] = "update"
    /\ Covered(r)
    /\ rowLock[U(r)] \in {NoOne, r}
    /\ rowLock' = [rowLock EXCEPT ![U(r)] = r]
    /\ seen' = [seen EXCEPT ![r] = After(r)]
    /\ pc' = [pc EXCEPT ![r] = "log"]
    /\ UNCHANGED <<db, gap, call, draft>>

\* 'Insufficient balance': the transaction callback throws.
Insufficient(r) ==
    /\ pc[r] = "update"
    /\ ~Covered(r)
    /\ RollBack(r, "failed")

\* The type createBalanceHistory is given.
Movement(r) == IF call[r].op = "charge" THEN "REFUND" ELSE "USE"

\* createBalanceHistory, through the client of the transaction: the entry holds
\* the balance the write before it returned.
Log(r) ==
    /\ pc[r] = "log"
    /\ draft' = [draft EXCEPT ![r] = <<[type |-> Movement(r), amount |-> call[r].amount,
                                       after |-> seen[r]]>>]
    /\ pc' = [pc EXCEPT ![r] = "commit"]
    /\ UNCHANGED <<db, locks, call, seen>>

\* COMMIT takes effect: the row, its balance and the history entry become
\* visible.
Publish(r) ==
    /\ pc[r] = "commit"
    /\ rows' = rows \union {U(r)}
    /\ balance' = [balance EXCEPT ![U(r)] = seen[r]]
    /\ history' = [history EXCEPT ![U(r)] = @ \o draft[r]]
    /\ Release(r)
    /\ UNCHANGED call

\* The call is answered with the balance.
Commit(r) == Publish(r) /\ pc' = [pc EXCEPT ![r] = "done"]

\* InnoDB rolls one of two transactions back whose inserts wait for each
\* other's gap lock.
DeadlockVictim(r) ==
    /\ pc[r] = "insert"
    /\ \E s \in gap[U(r)] \ {r} : pc[s] = "insert"
    /\ RollBack(r, "failed")

\* Mutant of Abort: a call whose COMMIT was not acknowledged is tried again.
BugAbort(r) ==
    \/ /\ pc[r] \in {"lock", "insert", "update", "log", "commit"}
       /\ RollBack(r, "aborted")
    \/ Publish(r) /\ pc' = [pc EXCEPT ![r] = "lock"]

\* The interactive transaction times out (5 s), its connection is lost or the
\* process dies: MySQL rolls it back, unless COMMIT had taken effect and only
\* its acknowledgement is lost.
Abort(r) ==
    \/ /\ pc[r] \in {"lock", "insert", "update", "log", "commit"}
       /\ RollBack(r, "aborted")
    \/ Publish(r) /\ pc' = [pc EXCEPT ![r] = "aborted"]

\* Every request is answered: nothing is left to do.
Idle == (\A r \in Requests : pc[r] \in Answered) /\ UNCHANGED balanceVars

\* The steps the database and the event loop take on their own.
BalanceProgress(r) ==
    \/ Begin(r) \/ LockRow(r) \/ LockGap(r) \/ InsertRow(r) \/ UpdateRow(r)
    \/ Insufficient(r) \/ Log(r) \/ Commit(r) \/ DeadlockVictim(r)

BalanceNext == (\E r \in Requests : BalanceProgress(r) \/ Abort(r)) \/ Idle

BalanceSpec == BalanceInit /\ [][BalanceNext]_balanceVars

BalanceFairSpec == BalanceSpec /\ \A r \in Requests : WF_balanceVars(BalanceProgress(r))
-----------------------------------------------------------------------------
BalanceTypeOK ==
    /\ rows \subseteq Users
    /\ balance \in [Users -> Int]
    /\ history \in [Users -> Seq(Account!Entry)]
    /\ rowLock \in [Users -> Requests \union {NoOne}]
    /\ gap \in [Users -> SUBSET Requests]
    /\ pc \in [Requests -> Step]
    /\ call \in [Requests -> Call]
    /\ seen \in [Requests -> Int]
    /\ draft \in [Requests -> Seq(Account!Entry)]

\* A charge of a negative amount that took effect, or may have.
ChargedBelow(u) ==
    \E r \in Requests : /\ U(r) = u /\ pc[r] \in {"done", "aborted"}
                        /\ call[r].op = "charge" /\ call[r].amount < 0

\* The balance check of deductBalance is made on a value that cannot change
\* before the decrement: deductions, however many run at once, never overdraw an
\* account (balance.repository.prisma.ts:77-106 and its integration test).  Only
\* a charge does, of a negative amount, which nothing refuses: the controller
\* passes on the raw body and the @Min(0) of ChargeBalanceDto is not used.
OverdrawnByChargeOnly == \A u \in Users : balance[u] < 0 => ChargedBelow(u)

\* Refuted: no account is below zero (the @Min(0) of charge-balance.dto.ts).
NeverNegative == \A u \in Users : balance[u] >= 0

\* The balance the account had before its i-th movement.
Before(u, i) == IF i = 1 THEN OpeningBalance[u] ELSE history[u][i - 1].after

\* The history accounts for the balance: every entry continues from the one
\* before it and the last one is the balance, although each entry's
\* afterBalance is computed by its own transaction (lines 52-63, 92-103).
HistoryExplainsBalance ==
    \A u \in Users :
        /\ balance[u] = Before(u, Len(history[u]) + 1)
        /\ \A i \in 1 .. Len(history[u]) :
              history[u][i].after = Before(u, i) + Account!Signed(history[u][i])

\* by[i] is the call that made the i-th movement of u.
MadeBy(u, by) ==
    /\ \A i \in DOMAIN by :
          LET r == by[i] IN
          /\ U(r) = u /\ pc[r] \in {"done", "aborted"}
          /\ history[u][i].type = Movement(r) /\ history[u][i].amount = call[r].amount
    /\ \A i, j \in DOMAIN by : by[i] = by[j] => i = j
    /\ \A r \in Requests : pc[r] = "done" /\ U(r) = u => \E i \in DOMAIN by : by[i] = r

\* Every movement of an account is the work of a call of its own: of one that
\* was answered with success, which has its movement, or of one that was cut
\* off.  Whatever interleaves, deadlocks or is cut off, even between a COMMIT
\* and its acknowledgement, nothing answered is lost, nothing is applied twice
\* and a call that was refused moved nothing.
EveryMovementHasItsCall ==
    \A u \in Users : \E by \in [1 .. Len(history[u]) -> Requests] : MadeBy(u, by)

\* What request r may rely on between its locking read and its end.
HoldsItsLocks(r) ==
    /\ pc[r] \in {"update", "log", "commit"} => rowLock[U(r)] = r
    /\ pc[r] = "update" => U(r) \in rows /\ seen[r] = balance[U(r)]
    /\ pc[r] \in {"log", "commit"} =>
          /\ seen[r] = After(r)
          /\ call[r].op = "deduct" => U(r) \in rows /\ balance[U(r)] >= call[r].amount
          /\ U(r) \notin rows => gap[U(r)] = {r}
    /\ pc[r] = "commit" =>
          draft[r] = <<[type |-> Movement(r), amount |-> call[r].amount, after |-> seen[r]]>>
    /\ pc[r] = "insert" =>
          call[r].op = "charge" /\ U(r) \notin rows /\ r \in gap[U(r)]

\* Nobody holds a lock on u but a transaction between its read and its end, and
\* a user without a row has no balance.
HeldByWriters(u) ==
    /\ rowLock[u] # NoOne =>
          U(rowLock[u]) = u /\ pc[rowLock[u]] \in {"update", "log", "commit"}
    /\ \A r \in gap[u] : U(r) = u /\ pc[r] \in {"insert", "log", "commit"}
    /\ u \notin rows => balance[u] = 0

\* What the locks of FOR UPDATE are for.  Between its locking read and its end
\* a transaction is alone with its row, the balance it read is still the
\* balance, and what it has written is what it may write; two first charges of one
\* user never both insert the row, because the gap lock keeps the key missing until
\* the insert (lines 30-36), so the unique index on userId is never violated.
LocksGuardWrites ==
    /\ \A r \in Requests : HoldsItsLocks(r)
    /\ \A u \in Users : HeldByWriters(u)

\* Every request is answered: row locks are released on every path and two
\* first charges deadlocked on the gap do not stay so.
EveryRequestAnswered ==
    \A r \in Requests : pc[r] = "new" ~> pc[r] \in Answered

\* The row-locking transactions implement the atomic account.
ImplementsLedger == Account!LedgerSpec
=============================================================================
