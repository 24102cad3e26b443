--------------------------- MODULE CouponScheduler ---------------------------
(***************************************************************************)
(* CouponIssueScheduler.processCouponRequests.  Every ten seconds a cron   *)
(* job reads the available FCFS coupons, takes for each as many users off  *)
(* its queue in Redis as it had coupons left, and issues to all of them in *)
(* one MySQL transaction, marking each in Redis as it goes.  A run may     *)
(* start before the previous one has ended, and each process of the shop   *)
(* has its own.  Beside them calls of CouponService.issueFcfsCoupon give   *)
(* coupons directly, under a lock that the job does not take.              *)
(***************************************************************************)
EXTENDS Integers, SequencesExt

CONSTANTS
    Users, Coupons, Fcfs,
    CouponOf,       \* CouponOf[f]: the Coupon f gives out
    Quantity,       \* Quantity[f]: its stockQuantity at the start
    StartDate, EndDate, CreatedAt,  \* of each f
    Runs,           \* the cron jobs that may be at work at one time
    BatchSize,      \* BATCH_SIZE
    PageSize,       \* the limit of the page of coupons a run reads
    Calls,          \* calls of issueFcfsCoupon
    CallUser, CallFcfs, \* who makes call p, and for what
    AtFirst,        \* AtFirst[f]: who waits for f, in Redis, when the program starts
    Asks,           \* <<f, u>>: user u may come to wait for f
    MaxTime,        \* bound on the time that passes
    MaxFailures     \* bound on failing queries and commands, and crashes

ASSUME FcfsAssumption ==
    /\ Fcfs # {} /\ IsFiniteSet(Fcfs)
    /\ CouponOf \in [Fcfs -> Coupons] /\ Quantity \in [Fcfs -> Nat]
    /\ StartDate \in [Fcfs -> Nat] /\ EndDate \in [Fcfs -> Nat] /\ CreatedAt \in [Fcfs -> Nat]
ASSUME RequestsAssumption ==
    /\ CallUser \in [Calls -> Users] /\ CallFcfs \in [Calls -> Fcfs]
    /\ AtFirst \in [Fcfs -> Seq(Users)] /\ \A f \in Fcfs : IsInjective(AtFirst[f])
    /\ Asks \subseteq Fcfs \X Users /\ IsFiniteSet(Runs)
ASSUME BoundsAssumption ==
    /\ BatchSize \in Nat \ {0} /\ PageSize \in Nat \ {0}
    /\ MaxTime \in Nat /\ MaxFailures \in Nat

VARIABLES
    stock,      \* FcfsCoupon.stockQuantity
    userCoupons,\* committed UserCoupon rows
    queue,      \* queue[f]: the sorted set of users who wait for f
    asked,      \* asked[f]: users who were ever in it
    issued,     \* issued[f]: the Redis set of users marked for f
    at,         \* at[r]: the next step of run r
    seen,       \* seen[r]: stockQuantity, as read, of the coupons r has left to do
    current,    \* current[r]: the FCFS coupon its batch is for
    batch,      \* batch[r]: the users it still has to serve
    inserted,   \* inserted[r]: users its open transaction has inserted a row for
    taken,      \* taken[r]: decrements of its open transaction
    bare,       \* bare[r]: its transaction is rolled back, and its loop goes on
    call,       \* call[p]: the next step of call p
    noted,      \* noted[p]: stockQuantity, as call p has read it and not yet used
    now,
    failures

mysql == <<stock, userCoupons>>
redis == <<queue, asked, issued>>
run == <<at, seen, current, batch, inserted, taken, bare>>
direct == <<call, noted>>
schedulerVars == <<mysql, redis, run, direct, now, failures>>

UserCoupon == [user : Users, fcfs : Fcfs, by : {"cron", "http"}]
\* Without a batch a run is at no coupon, and this one stands there.
NoFcfs == CHOOSE f \in Fcfs : TRUE

InTransaction == {"lock", "issue", "mark", "decrease", "commit"}

SchedulerInit ==
    /\ stock = Quantity
    /\ userCoupons = {}
    /\ queue = AtFirst /\ asked = [f \in Fcfs |-> Range(AtFirst[f])]
    /\ issued = [f \in Fcfs |-> {}]
    /\ at = [r \in Runs |-> "idle"]
    /\ seen = [r \in Runs |-> <<>>]
    /\ current = [r \in Runs |-> NoFcfs]
    /\ batch = [r \in Runs |-> <<>>]
    /\ inserted = [r \in Runs |-> {}] /\ taken = [r \in Runs |-> 0]
    /\ bare = [r \in Runs |-> FALSE]
    /\ call = [p \in Calls |-> "new"] /\ noted = [p \in Calls |-> 0]
    /\ now = 0 /\ failures = 0
-----------------------------------------------------------------------------
Works == UNCHANGED failures
Breaks == failures < MaxFailures /\ failures' = failures + 1
Goes(r, from, to) == at[r] = from /\ at' = [at EXCEPT ![r] = to]

F(r) == current[r]
U(r) == Head(batch[r])

\* addToRequestQueue (ZADD).  Nothing in the program calls it; a user asks once.
AddToRequestQueue(f, u) ==
    /\ u \notin asked[f]
    /\ asked' = [asked EXCEPT ![f] = @ \union {u}]
    /\ queue' = [queue EXCEPT ![f] = Append(@, u)]
    /\ UNCHANGED <<mysql, issued, run, direct, now, failures>>

Tick ==
    /\ now < MaxTime /\ now' = now + 1
    /\ UNCHANGED <<mysql, redis, run, direct, failures>>

\* The rows of the Coupon of f that u has, and who has an uncommitted one in its
\* transaction: which runs, which calls.
RowsOf(u, f) ==
    {c \in userCoupons : c.user = u /\ CouponOf[c.fcfs] = CouponOf[f]}
InsertedBy(u, f) ==
    {r \in Runs : CouponOf[F(r)] = CouponOf[f] /\ u \in inserted[r]}
CalledBy(u, f) ==
    {p \in Calls : /\ call[p] = "commit" /\ CallUser[p] = u
                   /\ CouponOf[CallFcfs[p]] = CouponOf[f]}

\* The unique key of u and the Coupon of f is taken by nobody, committed or not.
KeyFree(u, f) == RowsOf(u, f) = {} /\ InsertedBy(u, f) = {} /\ CalledBy(u, f) = {}

InPeriod(f) == StartDate[f] <= now /\ now <= EndDate[f]
-----------------------------------------------------------------------------
(* CouponService.issueFcfsCoupon                                            *)

CallGoes(p, from, to) == call[p] = from /\ call' = [call EXCEPT ![p] = to]
AsideFromCall == UNCHANGED <<stock, queue, asked, run, now>>

\* findFcfsCouponById.  The lock taken before keeps out no run, and other calls for
\* the same f for 5 s at most: here they may always overlap (CouponIssue has it).
FindFcfsCoupon(p) ==
    /\ CallGoes(p, "new", IF InPeriod(CallFcfs[p]) THEN "hasIssued" ELSE "over")
    /\ noted' = [noted EXCEPT ![p] = stock[CallFcfs[p]]]
    /\ Works /\ AsideFromCall /\ UNCHANGED <<userCoupons, issued>>

HasIssued(p) ==
    /\ CallGoes(p, "hasIssued", IF CallUser[p] \in issued[CallFcfs[p]] THEN "over" ELSE "count")
    /\ Works /\ AsideFromCall /\ UNCHANGED <<userCoupons, issued, noted>>

\* The count is compared with the stock that was read before.
GetIssuedCount(p) ==
    /\ CallGoes(p, "count",
                IF Cardinality(issued[CallFcfs[p]]) >= noted[p] THEN "over" ELSE "insert")
    /\ noted' = [noted EXCEPT ![p] = 0]
    /\ Works /\ AsideFromCall /\ UNCHANGED <<userCoupons, issued>>

\* findExistingUserCoupon and createUserCoupon: waits for an uncommitted row of the
\* same key, and is refused by a committed one.
InsertDirectly(p) ==
    LET u == CallUser[p]  f == CallFcfs[p] IN
    /\ \/ RowsOf(u, f) # {} /\ CallGoes(p, "insert", "over")
       \/ KeyFree(u, f) /\ CallGoes(p, "insert", "commit")
    /\ Works /\ AsideFromCall /\ UNCHANGED <<userCoupons, issued, noted>>

CommitDirectly(p) ==
    /\ CallGoes(p, "commit", "mark")
    /\ userCoupons' = userCoupons \union
                        {[user |-> CallUser[p], fcfs |-> CallFcfs[p], by |-> "http"]}
    /\ Works /\ AsideFromCall /\ UNCHANGED <<issued, noted>>

MarkDirectly(p) ==
    /\ CallGoes(p, "mark", "over")
    /\ issued' = [issued EXCEPT ![CallFcfs[p]] = @ \union {CallUser[p]}]
    /\ Works /\ AsideFromCall /\ UNCHANGED <<userCoupons, noted>>

\* Something throws or the process dies: what is not committed is rolled back.  (A
\* commit whose answer is lost is this step at "mark".)
EndCall(p) ==
    /\ call[p] # "over" /\ Breaks
    /\ call' = [call EXCEPT ![p] = "over"] /\ noted' = [noted EXCEPT ![p] = 0]
    /\ AsideFromCall /\ UNCHANGED <<userCoupons, issued>>

IssueFcfsCoupon(p) ==
    \/ FindFcfsCoupon(p) \/ HasIssued(p) \/ GetIssuedCount(p) \/ InsertDirectly(p)
    \/ CommitDirectly(p) \/ MarkDirectly(p) \/ EndCall(p)
-----------------------------------------------------------------------------
(* CouponIssueScheduler.processCouponRequests                               *)

\* What findAvailableFcfsCoupons selects: coupons left, of which the time has come.
Available == {f \in Fcfs : stock[f] > 0 /\ InPeriod(f)}

\* A part of them that is the first page, newest first: no newer one is left out.
IsFirstPage(page) ==
    /\ Cardinality(page) = Min({PageSize, Cardinality(Available)})
    /\ \A f \in page, g \in Available \ page : CreatedAt[f] >= CreatedAt[g]

\* findAvailableFcfsCoupons: what is left of each, as of now.
StartRun(r) ==
    /\ Goes(r, "idle", "pop")
    /\ \E page \in SUBSET Available :
          /\ IsFirstPage(page)
          /\ seen' = [seen EXCEPT ![r] = [f \in page |-> stock[f]]]
    /\ UNCHANGED <<mysql, redis, current, batch, inserted, taken, bare, direct, now, failures>>

\* Mutant of HowMany: off by one.
BugHowMany(n) == IF n <= BatchSize THEN n - 1 ELSE BatchSize

\* How many users are taken off the queue when n coupons were left.
HowMany(n) == IF n < BatchSize THEN n ELSE BatchSize

\* Mutant of Left: ZRANGE where the code has ZPOPMIN.
BugLeft(q, n) == q

\* ZPOPMIN: the members that are taken, and what is left.
Popped(q, n) == SubSeq(q, 1, Min({n, Len(q)}))
Left(q, n) == SubSeq(q, Min({n, Len(q)}) + 1, Len(q))

\* getRequestUsers for the newest coupon to do: an empty batch is skipped.
Pop(r) ==
    \E f \in DOMAIN seen[r] :
        LET n == HowMany(seen[r][f])  users == Popped(queue[f], n) IN
        /\ \A g \in DOMAIN seen[r] : CreatedAt[f] >= CreatedAt[g]
        /\ Goes(r, "pop", IF users = <<>> THEN "pop" ELSE "lock")
        /\ seen' = [seen EXCEPT ![r] = [g \in DOMAIN @ \ {f} |-> @[g]]]
        /\ current' = [current EXCEPT ![r] = IF users = <<>> THEN @ ELSE f]
        /\ batch' = [batch EXCEPT ![r] = users]
        /\ queue' = [queue EXCEPT ![f] = Left(@, n)]
        /\ UNCHANGED <<mysql, asked, issued, inserted, taken, bare, direct, now, failures>>

\* The loop over the coupons is through.
FinishRun(r) ==
    /\ DOMAIN seen[r] = {} /\ Goes(r, "pop", "idle")
    /\ UNCHANGED <<mysql, redis, seen, current, batch, inserted, taken, bare, direct, now, failures>>

\* The row of f is locked by the open transaction of no other run.
RowFree(r) ==
    \A s \in Runs \ {r} : at[s] \in InTransaction \ {"lock"} /\ ~bare[s] => F(s) # F(r)

\* findFcfsCouponWithLock: the row stays locked until the transaction ends.
Lock(r) ==
    /\ Goes(r, "lock", "issue") /\ RowFree(r)
    /\ UNCHANGED <<mysql, redis, seen, current, batch, inserted, taken, bare, direct, now, failures>>

\* What no step inside of the loop changes.
Aside == UNCHANGED <<queue, asked, seen, current, direct, now>>

\* The for loop goes on with the next user, or the transaction to its commit.
\* Without a transaction the lock is not held from one user to the next.
NextUser(r, rolledBack) ==
    /\ at' = [at EXCEPT ![r] = IF Len(batch[r]) = 1 THEN "commit"
                               ELSE IF rolledBack THEN "lock" ELSE "issue"]
    /\ batch' = [batch EXCEPT ![r] = Tail(@)]

\* Mutant of Skip: break where the loop has continue.
BugSkip(r) ==
    /\ at[r] = "issue" /\ RowsOf(U(r), F(r)) # {} /\ Works
    /\ at' = [at EXCEPT ![r] = "commit"] /\ batch' = [batch EXCEPT ![r] = <<>>]
    /\ Aside /\ UNCHANGED <<mysql, issued, inserted, taken, bare>>

\* A user who has the coupon is passed over: found AVAILABLE, or refused by
\* the unique index, whose error the loop catches.  So is one whose query fails.
Skip(r) ==
    /\ at[r] = "issue"
    /\ (RowsOf(U(r), F(r)) # {} /\ Works) \/ Breaks
    /\ NextUser(r, bare[r])
    /\ Aside /\ UNCHANGED <<mysql, issued, inserted, taken, bare>>

CronRow(u, f) == [user |-> u, fcfs |-> f, by |-> "cron"]

\* createUserCoupon: waits for an uncommitted row of the same key.
CreateUserCoupon(r) ==
    /\ Goes(r, "issue", "mark") /\ KeyFree(U(r), F(r))
    /\ IF bare[r] THEN /\ userCoupons' = userCoupons \union {CronRow(U(r), F(r))}
                       /\ UNCHANGED inserted
                  ELSE /\ inserted' = [inserted EXCEPT ![r] = @ \union {U(r)}]
                       /\ UNCHANGED userCoupons
    /\ Works /\ Aside /\ UNCHANGED <<stock, issued, batch, taken, bare>>

\* Run x waits for a row that y has inserted.
WaitsFor(x, y) == at[x] = "issue" /\ y \in InsertedBy(U(x), F(x))

\* InnoDB rolls back the transaction of one of the runs that wait for each other.
\* The loop catches the error and goes on, each statement now on its own.
Deadlock(r) ==
    /\ at[r] = "issue" /\ InsertedBy(U(r), F(r)) # {}
    /\ \E circle \in SUBSET Runs :
          /\ r \in circle
          /\ \A x \in circle : \E y, z \in circle : WaitsFor(x, y) /\ WaitsFor(z, x)
    /\ inserted' = [inserted EXCEPT ![r] = {}] /\ taken' = [taken EXCEPT ![r] = 0]
    /\ bare' = [bare EXCEPT ![r] = TRUE] /\ failures' = failures + 1
    /\ NextUser(r, TRUE)
    /\ Aside /\ UNCHANGED <<mysql, issued>>

\* markAsIssued (SADD), before the commit.  An error leaves the row in place.
MarkAsIssued(r) ==
    /\ at[r] = "mark"
    /\ \/ /\ Goes(r, "mark", "decrease") /\ UNCHANGED batch /\ Works
          /\ issued' = [issued EXCEPT ![F(r)] = @ \union {U(r)}]
       \/ NextUser(r, bare[r]) /\ UNCHANGED issued /\ Breaks
    /\ Aside /\ UNCHANGED <<mysql, inserted, taken, bare>>

\* Mutant of DecreaseStock: the decrement is not part of the transaction.
BugDecreaseStock(r) ==
    /\ at[r] = "decrease" /\ NextUser(r, bare[r]) /\ Works
    /\ stock' = [stock EXCEPT ![F(r)] = @ - 1]
    /\ Aside /\ UNCHANGED <<userCoupons, issued, inserted, taken, bare>>

\* decreaseFcfsCouponStock.
DecreaseStock(r) ==
    /\ at[r] = "decrease" /\ NextUser(r, bare[r])
    /\ \/ ~bare[r] /\ taken' = [taken EXCEPT ![r] = @ + 1] /\ UNCHANGED stock /\ Works
       \/ /\ bare[r] /\ RowFree(r) /\ stock' = [stock EXCEPT ![F(r)] = @ - 1]
          /\ UNCHANGED taken /\ Works
       \/ UNCHANGED <<taken, stock>> /\ Breaks
    /\ Aside /\ UNCHANGED <<userCoupons, issued, inserted, bare>>

\* The transaction is over, and with it what it holds.
EndTransaction(r) ==
    /\ inserted' = [inserted EXCEPT ![r] = {}]
    /\ taken' = [taken EXCEPT ![r] = 0] /\ bare' = [bare EXCEPT ![r] = FALSE]
    /\ current' = [current EXCEPT ![r] = NoFcfs]

\* Of a transaction that was rolled back there is nothing left to commit.
Commit(r) ==
    /\ Goes(r, "commit", "pop")
    /\ userCoupons' = userCoupons \union {CronRow(u, F(r)) : u \in inserted[r]}
    /\ stock' = [stock EXCEPT ![F(r)] = @ - taken[r]]
    /\ EndTransaction(r)
    /\ UNCHANGED <<redis, seen, batch, direct, now, failures>>

\* The transaction runs into its timeout of 5 s, after which every statement of the
\* loop and the commit fail, a query outside of the loop's try fails, or the process
\* dies: the run is over, the queue and the marks stay as they are.  (A ZPOPMIN or
\* a commit whose answer is lost is this step right after it.)
Abort(r) ==
    /\ at[r] # "idle" /\ Breaks
    /\ at' = [at EXCEPT ![r] = "idle"]
    /\ seen' = [seen EXCEPT ![r] = <<>>] /\ batch' = [batch EXCEPT ![r] = <<>>]
    /\ EndTransaction(r)
    /\ UNCHANGED <<mysql, redis, direct, now>>

ProcessCouponRequests(r) ==
    \/ StartRun(r) \/ Pop(r) \/ FinishRun(r) \/ Lock(r) \/ Skip(r) \/ CreateUserCoupon(r)
    \/ Deadlock(r) \/ MarkAsIssued(r) \/ DecreaseStock(r) \/ Commit(r)

SchedulerNext ==
    \/ \E ask \in Asks : AddToRequestQueue(ask[1], ask[2])
    \/ \E p \in Calls : IssueFcfsCoupon(p)
    \/ \E r \in Runs : ProcessCouponRequests(r) \/ Abort(r)
    \/ Tick

SchedulerSpec == SchedulerInit /\ [][SchedulerNext]_schedulerVars

\* Cron starts the job again and again; Node.js goes on with it and with the calls.
FairSchedulerSpec ==
    /\ SchedulerSpec
    /\ \A r \in Runs : WF_schedulerVars(ProcessCouponRequests(r))
    /\ \A p \in Calls : WF_schedulerVars(IssueFcfsCoupon(p))
-----------------------------------------------------------------------------
SchedulerTypeOK ==
    /\ stock \in [Fcfs -> Int]
    /\ userCoupons \subseteq UserCoupon
    /\ queue \in [Fcfs -> Seq(Users)]
    /\ asked \in [Fcfs -> SUBSET Users] /\ issued \in [Fcfs -> SUBSET Users]
    /\ at \in [Runs -> InTransaction \union {"idle", "pop"}]
    /\ \A r \in Runs : DOMAIN seen[r] \subseteq Fcfs
    /\ current \in [Runs -> Fcfs]
    /\ batch \in [Runs -> Seq(Users)] /\ inserted \in [Runs -> SUBSET Users]
    /\ taken \in [Runs -> Nat] /\ bare \in [Runs -> BOOLEAN]
    /\ call \in [Calls -> {"new", "hasIssued", "count", "insert", "commit", "mark", "over"}]
    /\ noted \in [Calls -> Int]
    /\ now \in 0 .. MaxTime /\ failures \in Nat

Cron(f) == {c \in userCoupons : c.fcfs = f /\ c.by = "cron"}

\* The stock goes down by one for each coupon a batch issues: never by more,
\* whatever is rolled back, overlaps or fails; never by less while nothing
\* fails.
StockFollowsBatches ==
    \A f \in Fcfs :
        LET down == Quantity[f] - stock[f] IN
        /\ down <= Cardinality(Cron(f))
        /\ failures = 0 => down = Cardinality(Cron(f))

\* Where a user who asked may be while nothing fails: in the queue, in the hands
\* of a run, or in possession of the coupon.
NobodyForgotten ==
    failures = 0 =>
        \A f \in Fcfs : \A u \in asked[f] :
            \/ Contains(queue[f], u)
            \/ RowsOf(u, f) # {}
            \/ \E r \in Runs : F(r) = f /\ (Contains(batch[r], u) \/ u \in inserted[r])

\* There are fewer than a page of other coupons that may come before f.
OnFirstPage(f) ==
    Cardinality({g \in Available \ {f} : CreatedAt[g] >= CreatedAt[f]}) < PageSize

\* Whatever fails, nobody waits for ever in front of a coupon that is available and
\* new enough for the first page: its queue is emptied or it ceases to be so.
QueueIsServed == \A f \in Fcfs : []<>(queue[f] = <<>> \/ f \notin Available \/ ~OnFirstPage(f))

\* Refuted: ... whatever page it would be on.
EveryQueueIsServed == \A f \in Fcfs : []<>(queue[f] = <<>> \/ f \notin Available)

\* Whom run r has taken off a queue: those it still has to serve and those its
\* open transaction has a row for.
InTurn(r) == {u \in Users : Contains(batch[r], u) \/ u \in inserted[r]}

turn == [r \in Runs |-> {[fcfs |-> F(r), user |-> u] : u \in InTurn(r)}]

Line == INSTANCE WaitingLine WITH
    line <- queue, joined <- asked, rows <- userCoupons, left <- stock, faults <- failures

\* The locks, transactions, runs and calls that overlap are together as good as a
\* line from whose front whole batches are served at once: nobody is passed over,
\* called out of turn, given the coupon twice or forgotten, and the stock goes down
\* by the size of the batch.  What failures may change of this WaitingLine says.
ImplementsLine == Line!LineSpec

\* Refuted: two runs that overlap do not issue more than there is.
StockNotNegative == \A f \in Fcfs : stock[f] >= 0

\* Refuted: coupons issued directly and by the cron job are together no more
\* than there were.
NeverOverIssued ==
    \A f \in Fcfs : Cardinality({c \in userCoupons : c.fcfs = f}) <= Quantity[f]

\* Refuted: a user marked in Redis, and turned away for ever, has the coupon.
MarkedHaveCoupon ==
    (\A r \in Runs : at[r] = "idle") =>
        \A f \in Fcfs : \A u \in issued[f] : RowsOf(u, f) # {}
=============================================================================
