----------------------------- MODULE CouponIssue -----------------------------
(***************************************************************************)
(* First-come-first-served coupons.  POST /coupons/fcfs/:id/issue emits    *)
(* COUPON_ISSUE_REQUESTED, whose handler calls issueFcfsCoupon, and calls  *)
(* issueFcfsCoupon itself: two calls for each request.  A call takes the   *)
(* Redis lock of the coupon, asks Redis who has one and how many are gone, *)
(* creates the UserCoupon in a MySQL transaction and then tells Redis.     *)
(* Redis and MySQL are two stores: the count is in one, the coupons are in *)
(* the other, and the lock has a time to live.  Taking it or releasing it   *)
(* may never settle (Redlock.tla).                                         *)
(***************************************************************************)
EXTENDS Naturals, FiniteSets

CONSTANTS
    Users, Coupons,
    Fcfs,           \* the FcfsCoupon rows
    CouponOf,       \* CouponOf[f]: the Coupon f gives out
    Quantity,       \* Quantity[f]: its stockQuantity at the start
    Requests,       \* the POSTs, each sent at most once
    ByUser, ForFcfs,
    MaxPosts,       \* bound on the requests sent
    MaxFaults       \* bound on database and Redis failures, crashes, locks that
                    \* run out under their holder, and of faults of Redlock

ASSUME FcfsAssumption ==
    CouponOf \in [Fcfs -> Coupons] /\ Quantity \in [Fcfs -> Nat]
ASSUME RequestsAssumption ==
    ByUser \in [Requests -> Users] /\ ForFcfs \in [Requests -> Fcfs]
ASSUME BoundsAssumption == MaxPosts \in Nat /\ MaxFaults \in Nat

Calls == Requests \X {"http", "event"}
UserOf(c) == ByUser[c[1]]
FcfsOf(c) == ForFcfs[c[1]]

VARIABLES
    stock,          \* FcfsCoupon.stockQuantity
    userCoupons,    \* committed UserCoupon rows
    issued,         \* issued[f]: the Redis set of users marked for f
    holds,          \* calls whose Redis lock is valid
    at,             \* at[c]: the next step of call c
    answer,         \* answer[c]: what it has been decided to return
    failures, expiries,
    slips           \* Redlock calls that were lost or will not settle

db == <<stock, userCoupons>>
redis == <<issued, holds>>
bounds == <<failures, expiries, slips>>
vars == <<db, redis, at, answer, bounds>>

\* A row and, for the properties, the FCFS coupon and the call it is from.
UserCoupon == [user : Users, coupon : Coupons, status : {"AVAILABLE", "USED"},
               fcfs : Fcfs, call : Calls]

Inside == {"read", "hasIssued", "count", "find", "insert", "commit", "mark", "release"}
\* The call is over: answered; answered, but the key of its lock is left behind;
\* cut off by the death of its process; never to be answered.
Ended == {"done", "left", "dead", "hung"}
Step == Inside \union Ended \union {"none", "acquire"}
Refused == {"unavailable", "duplicate", "empty", "busy"}

Init ==
    /\ stock = Quantity
    /\ userCoupons = {}
    /\ issued = [f \in Fcfs |-> {}]
    /\ holds = {}
    /\ at = [c \in Calls |-> "none"]
    /\ answer = [c \in Calls |-> "none"]
    /\ failures = 0
    /\ expiries = 0
    /\ slips = 0
-----------------------------------------------------------------------------
MayFail == failures + expiries + slips < MaxFaults

Goes(c, from, to) == at[c] = from /\ at' = [at EXCEPT ![c] = to]

\* Mutant of Throws: the lock is released on success only.
BugThrows(c, from, why) ==
    /\ Goes(c, from, "done")
    /\ answer' = [answer EXCEPT ![c] = why]

\* What is thrown inside the try reaches the finally, which releases the lock.
Throws(c, from, why) ==
    /\ Goes(c, from, "release")
    /\ answer' = [answer EXCEPT ![c] = why]

\* CouponController.issueCoupon: the event's call and its own.
Post(r) ==
    /\ \A c \in {r} \X {"http", "event"} : at[c] = "none"
    /\ Cardinality({q \in Requests : at[<<q, "http">>] # "none"}) < MaxPosts
    /\ at' = [c \in Calls |-> IF c[1] = r THEN "acquire" ELSE at[c]]
    /\ UNCHANGED <<db, redis, answer, bounds>>

Free(f) == \A d \in holds : FcfsOf(d) # f

\* RedisRedlock.acquireLock, with a time to live of 5 s.
Acquire(c) ==
    /\ Goes(c, "acquire", "read")
    /\ Free(FcfsOf(c))
    /\ holds' = holds \union {c}
    /\ UNCHANGED <<db, issued, answer, bounds>>

\* Ten retries, of 300 ms at most, were not enough.
GiveUp(c) ==
    /\ Goes(c, "acquire", "done")
    /\ ~Free(FcfsOf(c))
    /\ answer' = [answer EXCEPT ![c] = "busy"]
    /\ UNCHANGED <<db, redis, bounds>>

\* findFcfsCouponById and the period of issue; time is left open.
Read(c) ==
    /\ \/ Goes(c, "read", "hasIssued") /\ UNCHANGED answer
       \/ Throws(c, "read", "unavailable")
    /\ UNCHANGED <<db, redis, bounds>>

HasIssued(c) ==
    /\ \/ Throws(c, "hasIssued", "duplicate") /\ UserOf(c) \in issued[FcfsOf(c)]
       \/ Goes(c, "hasIssued", "count") /\ UserOf(c) \notin issued[FcfsOf(c)] /\ UNCHANGED answer
    /\ UNCHANGED <<db, redis, bounds>>

\* Mutant of SoldOut: off by one.
BugSoldOutLate(f) == Cardinality(issued[f]) > stock[f]

SoldOut(f) == Cardinality(issued[f]) >= stock[f]

Count(c) ==
    /\ \/ Throws(c, "count", "empty") /\ SoldOut(FcfsOf(c))
       \/ Goes(c, "count", "find") /\ ~SoldOut(FcfsOf(c)) /\ UNCHANGED answer
    /\ UNCHANGED <<db, redis, bounds>>

\* The user's rows of the Coupon that c is to issue.
RowsFor(c) == {r \in userCoupons : r.user = UserOf(c) /\ r.coupon = CouponOf[FcfsOf(c)]}

\* findExistingUserCoupon, in the transaction: AVAILABLE rows only.
FindExisting(c) ==
    /\ \/ /\ Throws(c, "find", "duplicate")
          /\ \E r \in RowsFor(c) : r.status = "AVAILABLE"
       \/ /\ Goes(c, "find", "insert") /\ UNCHANGED answer
          /\ \A r \in RowsFor(c) : r.status # "AVAILABLE"
    /\ UNCHANGED <<db, redis, bounds>>

\* Mutant of InsertedBy: a unique index on user and FCFS coupon.
BugInsertedBy(c) ==
    {d \in Calls : at[d] = "commit" /\ UserOf(d) = UserOf(c) /\ FcfsOf(d) = FcfsOf(c)}

\* An open transaction that has inserted the same key of the unique index.
InsertedBy(c) ==
    {d \in Calls : at[d] = "commit" /\ UserOf(d) = UserOf(c)
                   /\ CouponOf[FcfsOf(d)] = CouponOf[FcfsOf(c)]}

BugCreateUserCouponUpsert(c) ==
    /\ InsertedBy(c) = {}
    /\ Goes(c, "insert", IF RowsFor(c) = {} THEN "commit" ELSE "mark")
    /\ UNCHANGED <<db, redis, answer, bounds>>

\* createUserCoupon: @@unique([userId, couponId]) waits for an uncommitted
\* row of the same key and refuses a committed one, USED or not.
CreateUserCoupon(c) ==
    /\ \/ Goes(c, "insert", "commit") /\ RowsFor(c) = {} /\ UNCHANGED answer
       \/ Throws(c, "insert", "duplicate") /\ RowsFor(c) # {}
    /\ InsertedBy(c) = {}
    /\ UNCHANGED <<db, redis, bounds>>

NewRow(c) == [user |-> UserOf(c), coupon |-> CouponOf[FcfsOf(c)], status |-> "AVAILABLE",
              fcfs |-> FcfsOf(c), call |-> c]

\* Mutant of CommitIssue: Redis is told before the commit, which may fail.
BugCommitIssue(c) ==
    /\ issued' = [issued EXCEPT ![FcfsOf(c)] = @ \union {UserOf(c)}]
    /\ \/ Goes(c, "commit", "mark") /\ userCoupons' = userCoupons \union {NewRow(c)}
          /\ UNCHANGED <<answer, failures>>
       \/ Throws(c, "commit", "broken") /\ UNCHANGED userCoupons
          /\ MayFail /\ failures' = failures + 1
    /\ UNCHANGED <<stock, holds, expiries, slips>>

CommitIssue(c) ==
    /\ Goes(c, "commit", "mark")
    /\ userCoupons' = userCoupons \union {NewRow(c)}
    /\ UNCHANGED <<stock, redis, answer, bounds>>

\* markAsIssued (SADD).
MarkAsIssued(c) ==
    /\ Goes(c, "mark", "release")
    /\ issued' = [issued EXCEPT ![FcfsOf(c)] = @ \union {UserOf(c)}]
    /\ answer' = [answer EXCEPT ![c] = "ok"]
    /\ UNCHANGED <<db, holds, bounds>>

\* releaseLock: releasing a lock that has run out is an error it swallows.
ReleaseLock(c) ==
    /\ Goes(c, "release", "done")
    /\ holds' = holds \ {c}
    /\ UNCHANGED <<db, issued, answer, bounds>>

\* releaseLock fails, which is only logged: the key stays.
LeaveLock(c) ==
    /\ Goes(c, "release", "left")
    /\ MayFail /\ slips' = slips + 1
    /\ UNCHANGED <<db, redis, answer, failures, expiries>>

\* acquireLock or releaseLock never settles.  The key may be set on enough
\* servers to be in the way of everybody, or may be gone from enough not to be.
Hang(c) ==
    /\ MayFail /\ slips' = slips + 1
    /\ \/ Goes(c, "acquire", "hung") /\ UNCHANGED holds
       \/ Goes(c, "acquire", "hung") /\ Free(FcfsOf(c)) /\ holds' = holds \union {c}
       \/ Goes(c, "release", "hung") /\ holds' \in {holds, holds \ {c}}
    /\ UNCHANGED <<db, issued, answer, failures, expiries>>

\* A query, a commit or a Redis command fails, or the transaction times out;
\* a commit may have been done, and SADD too.
Fail(c) ==
    /\ MayFail /\ failures' = failures + 1
    /\ \E from \in Inside \ {"release"} :
        /\ Throws(c, from, "broken")
        /\ IF from = "commit" THEN userCoupons' \in {userCoupons, userCoupons \union {NewRow(c)}}
                              ELSE UNCHANGED userCoupons
        /\ IF from = "mark"
              THEN issued' \in {issued, [issued EXCEPT ![FcfsOf(c)] = @ \union {UserOf(c)}]}
              ELSE UNCHANGED issued
    /\ UNCHANGED <<stock, holds, expiries, slips>>

\* The process dies: open transactions are rolled back, locks stay.
Crash ==
    /\ MayFail /\ failures' = failures + 1
    /\ \E c \in Calls : at[c] \notin {"none"} \union Ended
    /\ at' = [c \in Calls |-> IF at[c] \in {"none"} \union Ended THEN at[c] ELSE "dead"]
    /\ answer' = [c \in Calls |-> IF at[c] \in {"none"} \union Ended THEN answer[c] ELSE "broken"]
    /\ UNCHANGED <<db, redis, expiries, slips>>

\* The 5 s are over.  maxWait and timeout of the transaction alone allow 7 s.
Expire(c) ==
    /\ c \in holds
    /\ holds' = holds \ {c}
    /\ IF at[c] \in Ended THEN UNCHANGED expiries
                          ELSE MayFail /\ expiries' = expiries + 1
    /\ UNCHANGED <<db, issued, at, answer, failures, slips>>

\* OrderOrchestrator.handlePaymentCompletion uses the coupon of an order.
Use(r) ==
    /\ r.status = "AVAILABLE"
    /\ userCoupons' = (userCoupons \ {r}) \union {[r EXCEPT !.status = "USED"]}
    /\ UNCHANGED <<stock, redis, at, answer, bounds>>

IssueFcfsCoupon(c) ==
    \/ Acquire(c) \/ GiveUp(c) \/ Read(c) \/ HasIssued(c) \/ Count(c) \/ FindExisting(c)
    \/ CreateUserCoupon(c) \/ CommitIssue(c) \/ MarkAsIssued(c) \/ ReleaseLock(c)

Quiet == \A c \in Calls : at[c] \in {"none"} \union Ended

Next ==
    \/ \E r \in Requests : Post(r)
    \/ \E c \in Calls : IssueFcfsCoupon(c) \/ Fail(c) \/ LeaveLock(c) \/ Hang(c) \/ Expire(c)
    \/ \E r \in userCoupons : Use(r)
    \/ Crash
    \/ Quiet /\ UNCHANGED vars

Spec == Init /\ [][Next]_vars

\* Node.js goes on with a call when its query, command or retry timer returns.
\* Redlock need not settle: Hang.  No key is assumed to run out.
FairSpec == Spec /\ WF_vars(\E c \in Calls : IssueFcfsCoupon(c))
-----------------------------------------------------------------------------
TypeOK ==
    /\ stock \in [Fcfs -> Nat]
    /\ userCoupons \subseteq UserCoupon
    /\ issued \in [Fcfs -> SUBSET Users]
    /\ holds \subseteq Calls
    /\ at \in [Calls -> Step]
    /\ answer \in [Calls -> Refused \union {"none", "ok", "broken"}]
    /\ failures \in 0 .. MaxFaults /\ expiries \in 0 .. MaxFaults /\ slips \in 0 .. MaxFaults

IssuedTo(f) == {r.user : r \in {q \in userCoupons : q.fcfs = f}}

\* The two calls of a request, the requests of a user for two FCFS coupons of
\* one Coupon, used coupons and locks that run out: still one row per user.
OneCouponPerUser ==
    \A r, s \in userCoupons : r.user = s.user /\ r.coupon = s.coupon => r = s

\* Redis never counts a coupon the database does not have, whatever fails.
MarkedHaveCoupon == \A f \in Fcfs : issued[f] \subseteq IssuedTo(f)

\* What a call returns is so: ok means that this call created a row, a refusal
\* that it did not; duplicate that the user has the coupon, empty that all of
\* them are gone.
AnswersAreTrue ==
    \A c \in Calls :
        LET mine == {r \in userCoupons : r.call = c} IN
        /\ answer[c] = "ok" => mine # {}
        /\ answer[c] \in Refused => mine = {}
        /\ answer[c] = "duplicate" => RowsFor(c) # {}
        /\ answer[c] = "empty" => Cardinality(IssuedTo(FcfsOf(c))) >= Quantity[FcfsOf(c)]

\* Nothing has failed and no lock has run out under its holder.
Calm == failures = 0 /\ expiries = 0

\* No more coupons are given out than there are.  Refuted: it needs Calm.
WithinQuantity == \A f \in Fcfs : Cardinality(IssuedTo(f)) <= Quantity[f]

\* As long as nothing fails and no lock runs out, no more coupons are given out
\* than there are, however the two calls of every request interleave: the count
\* in Redis and the row in MySQL are written apart, under one lock.
NeverOverIssued == Calm => WithinQuantity

\* ... because no more is ever left unmarked than the coupon being issued, so
\* that Redis's count can be relied on.
CountIsExact ==
    Calm => \A f \in Fcfs :
                (\A c \in holds : FcfsOf(c) # f) => issued[f] = IssuedTo(f)

\* What the caller of c has been told.
told == [c \in Calls |-> IF at[c] \in Ended \ {"hung"} THEN answer[c] ELSE "none"]

Promise == INSTANCE Giveaway WITH
    By <- [c \in Calls |-> UserOf(c)], For <- [c \in Calls |-> FcfsOf(c)],
    rows <- userCoupons, reply <- told, faults <- failures + expiries

\* The lock, the marks and the count in Redis and the transaction in MySQL are
\* together as good as giving out the coupon in one step: one to a user, no more
\* than there are while nothing goes wrong, one reply to a call, which is true when
\* it is given, and nothing that was given disappears.
ImplementsGiveaway == Promise!GiveawaySpec

\* Whatever is thrown at whichever await, every call comes to an end and its lock
\* is released.  What stays is the key of a call whose process died, whose release
\* failed or whose own Redlock call never settles: only those wait for the time to
\* live, and only the last are never answered.  Who runs into such a key is told
\* that the coupon is busy.
EveryCallFinishes ==
    <>[](\A c \in Calls : /\ at[c] \in {"none"} \union Ended
                         /\ c \in holds => at[c] # "done")

\* Refuted: once everything has run, stockQuantity misses the coupons issued.
StockTellsIssued ==
    Quiet => \A f \in Fcfs : stock[f] + Cardinality(IssuedTo(f)) = Quantity[f]

\* Refuted: a user who asks once, for a coupon that is available, and finds
\* the lock free, is told that the coupon was issued.
IssuedIsTold ==
    \A r \in Requests :
        answer[<<r, "http">>] = "duplicate"
            => \E c \in Calls : /\ c[1] # r /\ UserOf(c) = ByUser[r]
                                /\ CouponOf[FcfsOf(c)] = CouponOf[ForFcfs[r]]
=============================================================================
