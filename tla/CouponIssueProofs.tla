-------------------------- MODULE CouponIssueProofs --------------------------
(***************************************************************************)
(* CouponIssue.tla proved for any users, coupons and requests, and that it *)
(* implements Giveaway.                                                    *)
(***************************************************************************)
EXTENDS CouponIssue, FiniteSetTheorems, TLAPS

LEMMA CallTypes ==
    ASSUME NEW c \in Calls
    PROVE  UserOf(c) \in Users /\ FcfsOf(c) \in Fcfs /\ CouponOf[FcfsOf(c)] \in Coupons
BY FcfsAssumption, RequestsAssumption DEF Calls, UserOf, FcfsOf

LEMMA NewRowType ==
    ASSUME NEW c \in Calls
    PROVE  /\ NewRow(c) \in UserCoupon
           /\ NewRow(c).user = UserOf(c) /\ NewRow(c).coupon = CouponOf[FcfsOf(c)]
           /\ NewRow(c).fcfs = FcfsOf(c) /\ NewRow(c).call = c
BY CallTypes DEF NewRow, UserCoupon

\* What one step of the control of a call does to the steps and the answers.
LEMMA GoesType ==
    ASSUME TypeOK, NEW c \in Calls, NEW from, NEW to \in Step,
           Goes(c, from, to)
    PROVE  at' \in [Calls -> Step]
BY DEF TypeOK, Goes

LEMMA ThrowsType ==
    ASSUME TypeOK, NEW c \in Calls, NEW from, NEW why \in Refused \union {"broken"},
           Throws(c, from, why)
    PROVE  /\ at' \in [Calls -> Step]
           /\ answer' \in [Calls -> Refused \union {"none", "ok", "broken"}]
<1>1. at' \in [Calls -> Step]
  BY GoesType DEF Throws, Step, Inside
<1>2. QED
  BY <1>1 DEF Throws, TypeOK

\* Redlock fails, or does not settle: nothing but the lock and the control of the
\* call is touched, which is over.
Slips(c) == LeaveLock(c) \/ Hang(c)

LEMMA SlipStep ==
    ASSUME TypeOK, NEW c \in Calls, Slips(c)
    PROVE  /\ UNCHANGED <<stock, userCoupons, issued, answer, failures, expiries>>
           /\ holds' \subseteq holds \union {c}
           /\ holds' = holds \/ (holds' = holds \union {c} /\ Free(FcfsOf(c))) \/ holds' = holds \ {c}
           /\ \/ at[c] = "acquire" /\ at'[c] = "hung"
              \/ at[c] = "release" /\ at'[c] \in {"left", "hung"}
           /\ \A d \in Calls \ {c} : at'[d] = at[d]
           /\ at' \in [Calls -> Step]
<1>1. /\ UNCHANGED <<stock, userCoupons, issued, answer, failures, expiries>>
      /\ holds' = holds \/ (holds' = holds \union {c} /\ Free(FcfsOf(c))) \/ holds' = holds \ {c}
  BY DEF Slips, LeaveLock, Hang, db, redis
<1>2. \/ at[c] = "acquire" /\ at' = [at EXCEPT ![c] = "hung"]
      \/ at[c] = "release" /\ \E to \in {"left", "hung"} : at' = [at EXCEPT ![c] = to]
  BY DEF Slips, LeaveLock, Hang, Goes
<1>3. QED
  BY <1>1, <1>2 DEF TypeOK, Step, Ended

LEMMA TypeStep == TypeOK /\ [Next]_vars => TypeOK'
<1> SUFFICES ASSUME TypeOK, [Next]_vars PROVE TypeOK'
  OBVIOUS
<1> USE DEF db, redis, bounds
<1>1. ASSUME NEW r \in Requests, Post(r) PROVE TypeOK'
  BY <1>1 DEF Post, TypeOK, Step
<1>2. ASSUME NEW c \in Calls, Acquire(c) PROVE TypeOK'
  BY <1>2, GoesType DEF Acquire, TypeOK, Step, Inside
<1>3. ASSUME NEW c \in Calls, GiveUp(c) PROVE TypeOK'
  BY <1>3, GoesType DEF GiveUp, TypeOK, Step, Ended, Refused
<1>4. ASSUME NEW c \in Calls, Read(c) \/ HasIssued(c) \/ Count(c) \/ FindExisting(c)
                             \/ CreateUserCoupon(c)
      PROVE  TypeOK'
  <2>1. /\ UNCHANGED <<db, redis, bounds>>
        /\ \/ /\ UNCHANGED answer
              /\ \E from, to \in Inside : Goes(c, from, to)
           \/ \E from \in Inside, why \in Refused : Throws(c, from, why)
    BY <1>4 DEF Read, HasIssued, Count, FindExisting, CreateUserCoupon, Inside, Refused
  <2>2. QED
    BY <2>1, GoesType, ThrowsType DEF TypeOK, Step
<1>5. ASSUME NEW c \in Calls, CommitIssue(c) PROVE TypeOK'
  BY <1>5, GoesType, NewRowType DEF CommitIssue, TypeOK, Step, Inside
<1>6. ASSUME NEW c \in Calls, MarkAsIssued(c) PROVE TypeOK'
  BY <1>6, GoesType, CallTypes DEF MarkAsIssued, TypeOK, Step, Inside
<1>7. ASSUME NEW c \in Calls, ReleaseLock(c) PROVE TypeOK'
  BY <1>7, GoesType DEF ReleaseLock, TypeOK, Step, Ended
<1>s. ASSUME NEW c \in Calls, Slips(c) PROVE TypeOK'
  <2>1. slips' \in 0 .. MaxFaults
    BY <1>s, BoundsAssumption DEF Slips, LeaveLock, Hang, MayFail, TypeOK
  <2>2. QED
    BY <1>s, <2>1, SlipStep DEF TypeOK
<1>8. ASSUME NEW c \in Calls, Fail(c) PROVE TypeOK'
  <2>1. PICK from \in Inside : Throws(c, from, "broken")
    BY <1>8 DEF Fail
  <2>2. /\ at' \in [Calls -> Step]
        /\ answer' \in [Calls -> Refused \union {"none", "ok", "broken"}]
    BY <2>1, ThrowsType
  <2>3. userCoupons' \subseteq userCoupons \union {NewRow(c)}
    BY <1>8 DEF Fail
  <2>4. issued' \in [Fcfs -> SUBSET Users]
    BY <1>8, CallTypes DEF Fail, TypeOK
  <2>5. failures' \in 0 .. MaxFaults
    BY <1>8, BoundsAssumption DEF Fail, MayFail, TypeOK
  <2>6. QED
    BY <1>8, <2>2, <2>3, <2>4, <2>5, NewRowType DEF Fail, TypeOK
<1>9. ASSUME NEW c \in Calls, Expire(c) PROVE TypeOK'
  BY <1>9, BoundsAssumption DEF Expire, MayFail, TypeOK
<1>10. ASSUME NEW r \in userCoupons, Use(r) PROVE TypeOK'
  <2>1. r \in UserCoupon /\ [r EXCEPT !.status = "USED"] \in UserCoupon
    BY DEF TypeOK, UserCoupon
  <2>2. QED
    BY <1>10, <2>1 DEF Use, TypeOK
<1>11. CASE Crash
  <2>1. at' \in [Calls -> Step]
    BY <1>11 DEF Crash, TypeOK, Step, Ended
  <2>2. QED
    BY <1>11, <2>1, BoundsAssumption DEF Crash, MayFail, TypeOK
<1>12. CASE UNCHANGED vars
  BY <1>12 DEF vars, TypeOK
<1>13. QED
  BY <1>1, <1>2, <1>3, <1>4, <1>5, <1>6, <1>7, <1>8, <1>9, <1>10, <1>11, <1>12, <1>s
     DEF Next, IssueFcfsCoupon, Slips

-----------------------------------------------------------------------------
(***************************************************************************)
(* What a step does to the rows and to the control of the calls: every     *)
(* invariant below follows from these two lemmas.                          *)
(***************************************************************************)
Commits(c) ==
    /\ at[c] = "commit" /\ userCoupons' = userCoupons \union {NewRow(c)}
    /\ \E to \in {"mark", "release"} : at' = [at EXCEPT ![c] = to]

Over == {"mark", "release"} \union Ended

LEMMA RowsStep ==
    ASSUME TypeOK, [Next]_vars
    PROVE  \/ userCoupons' = userCoupons
           \/ \E c \in Calls : Commits(c)
           \/ \E r \in userCoupons : Use(r)
<1> USE DEF db
<1>1. ASSUME NEW c \in Calls, CommitIssue(c) PROVE Commits(c)
  BY <1>1 DEF CommitIssue, Goes, Commits
<1>2. ASSUME NEW c \in Calls, Fail(c) PROVE userCoupons' = userCoupons \/ Commits(c)
  BY <1>2 DEF Fail, Throws, Goes, Commits
<1>3. CASE \E c \in Calls : IssueFcfsCoupon(c) /\ ~CommitIssue(c)
  BY <1>3 DEF IssueFcfsCoupon, Acquire, GiveUp, Read, HasIssued, Count, FindExisting,
     CreateUserCoupon, MarkAsIssued, ReleaseLock
<1>4. CASE (\E r \in Requests : Post(r)) \/ (\E c \in Calls : Expire(c)) \/ Crash
           \/ UNCHANGED vars
  BY <1>4 DEF Post, Expire, Crash, vars
<1>5. ASSUME NEW c \in Calls, Slips(c) PROVE userCoupons' = userCoupons
  BY <1>5, SlipStep
<1>6. QED
  BY <1>1, <1>2, <1>3, <1>4, <1>5 DEF Next, Slips

LEMMA ControlStep ==
    ASSUME TypeOK, [Next]_vars, NEW c \in Calls
    PROVE  /\ at[c] \in Over => at'[c] \in Over
           /\ at'[c] = "mark" => at[c] = "mark" \/ Commits(c)
           /\ at'[c] = "commit" =>
                \/ at[c] = "commit"
                \/ /\ RowsFor(c) = {} /\ InsertedBy(c) = {} /\ userCoupons' = userCoupons
                   /\ at' = [at EXCEPT ![c] = "commit"]
<1> USE DEF TypeOK, Over, Ended
<1>s. ASSUME NEW d \in Calls, Slips(d)
      PROVE  at'[c] = at[c] \/ (at[c] \notin {"commit", "mark"} /\ at'[c] \in {"left", "hung"})
  BY <1>s, SlipStep
<1>1. ASSUME NEW r \in Requests, Post(r) PROVE at'[c] = at[c] \/ (at[c] = "none" /\ at'[c] = "acquire")
  BY <1>1 DEF Post, Calls
<1>2. ASSUME NEW d \in Calls, IssueFcfsCoupon(d) \/ Fail(d), d # c PROVE at'[c] = at[c]
  BY <1>2 DEF IssueFcfsCoupon, Acquire, GiveUp, Read, HasIssued, Count, FindExisting,
     CreateUserCoupon, CommitIssue, MarkAsIssued, ReleaseLock, Fail, Throws, Goes
<1>3. CASE Acquire(c) \/ GiveUp(c) \/ Read(c) \/ HasIssued(c) \/ Count(c) \/ FindExisting(c)
           \/ MarkAsIssued(c) \/ ReleaseLock(c)
  <2>1. \E from, to : /\ at[c] = from /\ at'[c] = to /\ to \notin {"commit", "mark"}
                      /\ from \in Over => to \in Over
    BY <1>3 DEF Acquire, GiveUp, Read, HasIssued, Count, FindExisting, MarkAsIssued,
       ReleaseLock, Throws, Goes
  <2>2. QED
    BY <2>1
<1>4. CASE CreateUserCoupon(c)
  BY <1>4 DEF CreateUserCoupon, Throws, Goes, db
<1>5. CASE CommitIssue(c)
  BY <1>5 DEF CommitIssue, Goes, Commits, db
<1>6. CASE Fail(c)
  BY <1>6 DEF Fail, Throws, Goes
<1>7. CASE Crash
  BY <1>7 DEF Crash
<1>8. CASE (\E d \in Calls : Expire(d)) \/ (\E r \in userCoupons : Use(r)) \/ UNCHANGED vars
  BY <1>8 DEF Expire, Use, vars
<1>9. QED
  BY <1>1, <1>2, <1>3, <1>4, <1>5, <1>6, <1>7, <1>8, <1>s DEF Next, IssueFcfsCoupon, Slips

\* Using a coupon changes nothing but its status.
Same(r, s) == r.user = s.user /\ r.coupon = s.coupon /\ r.fcfs = s.fcfs /\ r.call = s.call

LEMMA UseStep ==
    ASSUME TypeOK, NEW r \in userCoupons, Use(r)
    PROVE  /\ \A p \in userCoupons : \E s \in userCoupons' : Same(p, s)
           /\ \A s \in userCoupons' : s \in userCoupons \ {r} \/ Same(r, s)
           /\ \A s, q \in userCoupons' : s \notin userCoupons \ {r} /\ q \notin userCoupons \ {r}
                                           => s = q
           /\ at' = at /\ issued' = issued /\ answer' = answer
<1>1. PICK u : u = [r EXCEPT !.status = "USED"]
  OBVIOUS
<1>2. r \in UserCoupon /\ Same(r, u)
  BY <1>1 DEF TypeOK, UserCoupon, Same
<1>3. userCoupons' = (userCoupons \ {r}) \union {u} /\ at' = at /\ issued' = issued
      /\ answer' = answer
  BY <1>1 DEF Use, redis
<1>4. \A p : Same(p, p)
  BY DEF Same
<1>5. QED
  BY <1>2, <1>3, <1>4

-----------------------------------------------------------------------------
(***************************************************************************)
(* OneCouponPerUser needs what the unique index keeps for rows that are    *)
(* not committed yet; MarkedHaveCoupon needs that a call marks what it has *)
(* committed.                                                              *)
(***************************************************************************)
RowsFromCalls ==
    \A r \in userCoupons :
        /\ r.user = UserOf(r.call) /\ r.fcfs = FcfsOf(r.call) /\ r.coupon = CouponOf[r.fcfs]
        /\ at[r.call] \in Over

\* Two calls insert the same key of the unique index.
SameKey(c, d) == UserOf(d) = UserOf(c) /\ CouponOf[FcfsOf(d)] = CouponOf[FcfsOf(c)]

Inserting ==
    \A c \in Calls : at[c] = "commit" =>
        /\ RowsFor(c) = {}
        /\ \A d \in Calls : at[d] = "commit" /\ SameKey(c, d) => d = c

MarkHasRow == \A c \in Calls : at[c] = "mark" => \E r \in userCoupons : r.call = c

IInv == /\ TypeOK /\ RowsFromCalls /\ Inserting /\ OneCouponPerUser
        /\ MarkHasRow /\ MarkedHaveCoupon

LEMMA RowsFromCallsStep == IInv /\ [Next]_vars => RowsFromCalls'
<1> SUFFICES ASSUME IInv, [Next]_vars PROVE RowsFromCalls'
  OBVIOUS
<1>1. \A r \in userCoupons : r.call \in Calls
  BY DEF IInv, TypeOK, UserCoupon
<1>2. \A r \in userCoupons : at'[r.call] \in Over
  BY <1>1, ControlStep DEF IInv, RowsFromCalls
<1>3. CASE userCoupons' = userCoupons
  BY <1>2, <1>3 DEF IInv, RowsFromCalls
<1>4. ASSUME NEW c \in Calls, Commits(c) PROVE RowsFromCalls'
  <2>1. at'[c] \in Over
    BY <1>4 DEF Commits, Over, IInv, TypeOK
  <2>2. QED
    BY <1>2, <1>4, <2>1, NewRowType DEF Commits, IInv, RowsFromCalls
<1>5. ASSUME NEW r \in userCoupons, Use(r) PROVE RowsFromCalls'
  BY <1>5, UseStep DEF IInv, RowsFromCalls, Same
<1>6. QED
  BY <1>3, <1>4, <1>5, RowsStep DEF IInv

LEMMA OneCouponStep == IInv /\ [Next]_vars => OneCouponPerUser'
<1> SUFFICES ASSUME IInv, [Next]_vars PROVE OneCouponPerUser'
  OBVIOUS
<1>1. ASSUME NEW c \in Calls, Commits(c) PROVE OneCouponPerUser'
  <2>1. \A r \in userCoupons : ~(r.user = UserOf(c) /\ r.coupon = CouponOf[FcfsOf(c)])
    BY <1>1 DEF Commits, IInv, Inserting, RowsFor
  <2>2. QED
    BY <1>1, <2>1, NewRowType DEF Commits, IInv, OneCouponPerUser
<1>2. ASSUME NEW r \in userCoupons, Use(r) PROVE OneCouponPerUser'
  BY <1>2, UseStep DEF IInv, OneCouponPerUser, Same
<1>3. CASE userCoupons' = userCoupons
  BY <1>3 DEF IInv, OneCouponPerUser
<1>4. QED
  BY <1>1, <1>2, <1>3, RowsStep DEF IInv

LEMMA InsertingStep == IInv /\ [Next]_vars => Inserting'
<1> SUFFICES ASSUME IInv, [Next]_vars, NEW c \in Calls, at'[c] = "commit"
             PROVE  /\ RowsFor(c)' = {}
                    /\ \A d \in Calls : at'[d] = "commit" /\ SameKey(c, d) => d = c
  BY DEF Inserting, SameKey
<1> DEFINE New(d) == /\ RowsFor(d) = {} /\ InsertedBy(d) = {} /\ userCoupons' = userCoupons
                     /\ at' = [at EXCEPT ![d] = "commit"]
<1>1. \A d \in Calls : at'[d] = "commit" => at[d] = "commit" \/ New(d)
  BY ControlStep DEF IInv
<1>2. \A d \in Calls : at[d] = "commit" => RowsFor(d) = {}
  BY DEF IInv, Inserting
<1>3. RowsFor(c) = {}
  BY <1>1, <1>2
<1>4. RowsFor(c)' = {}
  <2>1. CASE userCoupons' = userCoupons
    BY <1>3, <2>1 DEF RowsFor
  <2>2. ASSUME NEW d \in Calls, Commits(d) PROVE RowsFor(c)' = {}
    <3>1. at[c] = "commit" /\ d # c
      BY <1>1, <2>2 DEF Commits, IInv, TypeOK
    <3>2. ~SameKey(c, d)
      BY <2>2, <3>1 DEF Commits, IInv, Inserting
    <3>3. QED
      BY <1>3, <2>2, <3>2, NewRowType DEF Commits, RowsFor, SameKey
  <2>3. ASSUME NEW r \in userCoupons, Use(r) PROVE RowsFor(c)' = {}
    BY <1>3, <2>3, UseStep DEF IInv, RowsFor, Same
  <2>4. QED
    BY <2>1, <2>2, <2>3, RowsStep DEF IInv
<1>5. ASSUME NEW d \in Calls, at'[d] = "commit", SameKey(c, d) PROVE d = c
  <2> SUFFICES ASSUME d # c PROVE FALSE
    OBVIOUS
  <2>1. at[c] = "commit" \/ at[d] = "commit"
    BY <1>1, <1>5 DEF IInv, TypeOK
  <2>2. ASSUME NEW x \in Calls, NEW y \in Calls, New(x), at[y] = "commit", SameKey(x, y)
        PROVE  FALSE
    BY <2>2 DEF InsertedBy, SameKey
  <2>3. SameKey(d, c)
    BY <1>5 DEF SameKey
  <2>4. QED
    BY <1>1, <1>5, <2>1, <2>2, <2>3 DEF IInv, Inserting
<1>6. QED
  BY <1>4, <1>5

LEMMA MarkHasRowStep == IInv /\ [Next]_vars => MarkHasRow'
<1> SUFFICES ASSUME IInv, [Next]_vars, NEW c \in Calls, at'[c] = "mark"
             PROVE  \E r \in userCoupons' : r.call = c
  BY DEF MarkHasRow
<1>1. \A p \in userCoupons : \E s \in userCoupons' : Same(p, s)
  <2>1. \A p : Same(p, p)
    BY DEF Same
  <2>2. QED
    BY <2>1, RowsStep, UseStep DEF IInv, Commits
<1>2. CASE at[c] = "mark"
  BY <1>1, <1>2 DEF IInv, MarkHasRow, Same
<1>3. CASE Commits(c)
  BY <1>3, NewRowType DEF Commits
<1>4. QED
  BY <1>2, <1>3, ControlStep DEF IInv

\* What Redis is told: the user of a call that is marking.
LEMMA IssuedStep ==
    ASSUME TypeOK, [Next]_vars
    PROVE  \/ issued' = issued
           \/ \E c \in Calls :
                /\ at[c] = "mark" /\ userCoupons' = userCoupons
                /\ issued' = [issued EXCEPT ![FcfsOf(c)] = @ \union {UserOf(c)}]
<1> USE DEF redis, db
<1>1. ASSUME NEW c \in Calls, MarkAsIssued(c) \/ Fail(c), issued' # issued
      PROVE  /\ at[c] = "mark" /\ userCoupons' = userCoupons
             /\ issued' = [issued EXCEPT ![FcfsOf(c)] = @ \union {UserOf(c)}]
  BY <1>1 DEF MarkAsIssued, Fail, Throws, Goes
<1>2. CASE \E c \in Calls : IssueFcfsCoupon(c) /\ ~MarkAsIssued(c)
  BY <1>2 DEF IssueFcfsCoupon, Acquire, GiveUp, Read, HasIssued, Count, FindExisting,
     CreateUserCoupon, CommitIssue, ReleaseLock
<1>3. CASE (\E r \in Requests : Post(r)) \/ (\E c \in Calls : Expire(c)) \/ Crash
           \/ UNCHANGED vars \/ (\E r \in userCoupons : Use(r))
  BY <1>3 DEF Post, Expire, Crash, Use, vars
<1>4. ASSUME NEW c \in Calls, Slips(c) PROVE issued' = issued
  BY <1>4, SlipStep
<1>5. QED
  BY <1>1, <1>2, <1>3, <1>4 DEF Next, Slips

\* Coupons given out are not taken back.
LEMMA IssuedToGrows ==
    ASSUME TypeOK, [Next]_vars, NEW f \in Fcfs
    PROVE  IssuedTo(f) \subseteq IssuedTo(f)'
<1>1. CASE userCoupons' = userCoupons \/ \E c \in Calls : Commits(c)
  BY <1>1 DEF IssuedTo, Commits
<1>2. ASSUME NEW r \in userCoupons, Use(r) PROVE IssuedTo(f) \subseteq IssuedTo(f)'
  BY <1>2, UseStep DEF IssuedTo, Same
<1>3. QED
  BY <1>1, <1>2, RowsStep

LEMMA MarkedStep == IInv /\ [Next]_vars => MarkedHaveCoupon'
<1> SUFFICES ASSUME IInv, [Next]_vars, NEW f \in Fcfs PROVE issued'[f] \subseteq IssuedTo(f)'
  BY DEF MarkedHaveCoupon
<1>1. issued[f] \subseteq IssuedTo(f)' /\ IssuedTo(f) \subseteq IssuedTo(f)'
  BY IssuedToGrows DEF IInv, MarkedHaveCoupon
<1>2. ASSUME NEW c \in Calls, at[c] = "mark",
             issued' = [issued EXCEPT ![FcfsOf(c)] = @ \union {UserOf(c)}]
      PROVE  issued'[f] \subseteq IssuedTo(f)'
  <2>1. UserOf(c) \in IssuedTo(FcfsOf(c))
    BY <1>2 DEF IInv, MarkHasRow, RowsFromCalls, IssuedTo
  <2>2. QED
    BY <1>1, <1>2, <2>1 DEF IInv, TypeOK
<1>3. QED
  BY <1>1, <1>2, IssuedStep DEF IInv

LEMMA IInvInit == Init => IInv
BY FcfsAssumption, BoundsAssumption
   DEF Init, Step, IInv, TypeOK, RowsFromCalls, Inserting, OneCouponPerUser, MarkHasRow,
       MarkedHaveCoupon, Inside

LEMMA IInvNext == IInv /\ [Next]_vars => IInv'
BY TypeStep, RowsFromCallsStep, InsertingStep, OneCouponStep, MarkHasRowStep, MarkedStep
   DEF IInv

\* Every state is of its type: a row names the Coupon of its FcfsCoupon, and
\* only users are marked.
THEOREM CouponType == Spec => []TypeOK
<1>1. IInv => TypeOK
  BY DEF IInv
<1>2. QED
  BY IInvInit, IInvNext, <1>1, PTL DEF Spec

\* The unique index of UserCoupon gives a user one row of a Coupon, for any
\* number of requests, of FCFS coupons of that Coupon, of failures, and of
\* locks that run out.
THEOREM CouponOnePerUser == Spec => []OneCouponPerUser
<1>1. IInv => OneCouponPerUser
  BY DEF IInv
<1>2. QED
  BY IInvInit, IInvNext, <1>1, PTL DEF Spec

\* Redis marks a user only after the commit, so that it never counts a coupon
\* that does not exist.
THEOREM CouponMarkedExist == Spec => []MarkedHaveCoupon
<1>1. IInv => MarkedHaveCoupon
  BY DEF IInv
<1>2. QED
  BY IInvInit, IInvNext, <1>1, PTL DEF Spec

-----------------------------------------------------------------------------
(***************************************************************************)
(* The quantity.  It is kept as long as nothing fails and no lock runs     *)
(* out: the lock is then held all the way from the count to the mark, so   *)
(* that the coupon Redis has not counted yet is the holder's own.          *)
(***************************************************************************)
Held == /\ \A c \in Calls : at[c] \in Inside => c \in holds
        /\ \A c, d \in holds : FcfsOf(c) = FcfsOf(d) => c = d

Marking(f) == {c \in Calls : at[c] = "mark" /\ FcfsOf(c) = f}
Unmarked == \A f \in Fcfs : IssuedTo(f) \subseteq issued[f] \union {UserOf(c) : c \in Marking(f)}

Room == \A c \in Calls : at[c] \in {"find", "insert", "commit"} =>
            Cardinality(issued[FcfsOf(c)]) < Quantity[FcfsOf(c)]

Counted == stock = Quantity /\ \A f \in Fcfs : IsFiniteSet(issued[f])

Kept == Held /\ Counted /\ Unmarked /\ Room /\ WithinQuantity
CInv == IInv /\ (Calm => Kept)

\* A step after which all is calm is no failure, and no lock ran out in it.
LEMMA CalmStep ==
    ASSUME TypeOK, [Next]_vars, Calm'
    PROVE  /\ Calm /\ ~Crash /\ \A c \in Calls : ~Fail(c)
           /\ \A c \in Calls : Expire(c) => at[c] \in Ended
<1> USE DEF TypeOK, Calm
<1>1. ~Crash /\ \A c \in Calls : ~Fail(c)
  BY DEF Crash, Fail
<1>2. \A c \in Calls : Expire(c) => at[c] \in Ended /\ UNCHANGED <<failures, expiries>>
  BY DEF Expire
<1>3. UNCHANGED <<failures, expiries>>
  BY <1>1, <1>2, SlipStep DEF bounds, Slips, Next, Post, IssueFcfsCoupon, Acquire, GiveUp, Read, HasIssued, Count,
     FindExisting, CreateUserCoupon, CommitIssue, MarkAsIssued, ReleaseLock, Use, vars
<1>4. QED
  BY <1>1, <1>2, <1>3

\* Without failures the rows change by CommitIssue and Use, Redis's set by
\* MarkAsIssued, and a call leaves "mark" only so.
Plain == /\ UNCHANGED <<stock, userCoupons, issued>>
         /\ \A c \in Calls : at[c] = "mark" <=> at'[c] = "mark"

LEMMA CalmSteps ==
    ASSUME Calm', TypeOK, [Next]_vars
    PROVE  \/ Plain
           \/ \E c \in Calls : CommitIssue(c) \/ MarkAsIssued(c)
           \/ \E r \in userCoupons : Use(r)
<1> USE DEF redis, db
<1>1. ~Crash /\ \A c \in Calls : ~Fail(c)
  BY CalmStep
<1>2. ASSUME NEW r \in Requests, Post(r) PROVE Plain
  <2>1. \A c \in Calls : c[1] = r => at[c] = "none"
    BY <1>2 DEF Post, Calls
  <2>2. QED
    BY <1>2, <2>1 DEF Post, Plain, TypeOK
<1>3. ASSUME NEW c \in Calls, IssueFcfsCoupon(c), ~CommitIssue(c), ~MarkAsIssued(c)
      PROVE  Plain
  BY <1>3 DEF IssueFcfsCoupon, Acquire, GiveUp, Read, HasIssued, Count, FindExisting,
     CreateUserCoupon, ReleaseLock, Throws, Goes, Plain, TypeOK
<1>4. CASE (\E c \in Calls : Expire(c)) \/ UNCHANGED vars
  BY <1>4 DEF Expire, vars, Plain
<1>5. ASSUME NEW c \in Calls, Slips(c) PROVE Plain
  BY <1>5, SlipStep DEF Plain
<1>6. QED
  BY <1>1, <1>2, <1>3, <1>4, <1>5 DEF Next, Slips

LEMMA HeldStep == Calm' /\ TypeOK /\ Held /\ [Next]_vars => Held'
<1> SUFFICES ASSUME Calm', TypeOK, Held, [Next]_vars PROVE Held'
  OBVIOUS
<1> USE DEF redis, TypeOK
<1>1. ~Crash /\ \A c \in Calls : ~Fail(c)
  BY CalmStep
<1>2. ASSUME NEW r \in Requests, Post(r) PROVE Held'
  BY <1>2 DEF Post, Held, Inside
<1>3. ASSUME NEW c \in Calls, Acquire(c) PROVE Held'
  BY <1>3 DEF Acquire, Free, Goes, Held
<1>4. ASSUME NEW c \in Calls, GiveUp(c) PROVE Held'
  BY <1>4 DEF GiveUp, Goes, Held, Inside
<1>5. ASSUME NEW c \in Calls, ReleaseLock(c) PROVE Held'
  BY <1>5 DEF ReleaseLock, Goes, Held, Inside
<1>6. ASSUME NEW c \in Calls, \/ Read(c) \/ HasIssued(c) \/ Count(c) \/ FindExisting(c)
                              \/ CreateUserCoupon(c) \/ CommitIssue(c) \/ MarkAsIssued(c)
      PROVE  Held'
  <2>1. holds' = holds /\ at[c] \in Inside /\ \E to : at' = [at EXCEPT ![c] = to]
    BY <1>6 DEF Read, HasIssued, Count, FindExisting, CreateUserCoupon, CommitIssue,
       MarkAsIssued, Throws, Goes, Inside
  <2>2. QED
    BY <2>1 DEF Held
<1>7. ASSUME NEW c \in Calls, Expire(c) PROVE Held'
  <2>1. at[c] \in Ended
    BY <1>7, CalmStep
  <2>2. QED
    BY <1>7, <2>1 DEF Expire, Held, Inside, Ended
<1>s. ASSUME NEW c \in Calls, Slips(c) PROVE Held'
  <2>1. \A d \in Calls : at'[d] \in Inside => d # c /\ at[d] \in Inside
    BY <1>s, SlipStep DEF Inside
  <2>2. \A d \in Calls \ {c} : d \in holds <=> d \in holds'
    BY <1>s, SlipStep
  <2>3. c \in holds' => c \in holds \/ Free(FcfsOf(c))
    BY <1>s, SlipStep
  <2>4. ASSUME NEW d \in Calls, at'[d] \in Inside PROVE d \in holds'
    BY <2>1, <2>2, <2>4 DEF Held
  <2>5. ASSUME NEW d \in holds', NEW e \in holds', FcfsOf(d) = FcfsOf(e) PROVE d = e
    <3>1. holds \subseteq Calls /\ holds' \subseteq Calls
      BY <1>s, SlipStep
    <3>2. CASE d \in holds /\ e \in holds
      BY <2>5, <3>2 DEF Held
    <3>3. CASE d \notin holds
      BY <2>2, <2>3, <2>5, <3>1, <3>3 DEF Free
    <3>4. CASE e \notin holds
      BY <2>2, <2>3, <2>5, <3>1, <3>4 DEF Free
    <3>5. QED
      BY <3>2, <3>3, <3>4
  <2>6. QED
    BY <2>4, <2>5 DEF Held
<1>8. CASE (\E r \in userCoupons : Use(r)) \/ UNCHANGED vars
  BY <1>8 DEF Use, vars, Held
<1>9. QED
  BY <1>1, <1>2, <1>3, <1>4, <1>5, <1>6, <1>7, <1>8, <1>s DEF Next, IssueFcfsCoupon, Slips

\* A call that is about to commit or to mark is alone with its coupon.
LEMMA Alone ==
    ASSUME TypeOK, Held, NEW c \in Calls, NEW d \in Calls,
           at[c] \in Inside, at[d] \in Inside, FcfsOf(c) = FcfsOf(d)
    PROVE  c = d
BY DEF Held

LEMMA CountedStep == Calm' /\ TypeOK /\ Counted /\ [Next]_vars => Counted'
<1> SUFFICES ASSUME Calm', TypeOK, Counted, [Next]_vars PROVE Counted'
  OBVIOUS
<1>1. CASE Plain \/ (\E c \in Calls : CommitIssue(c)) \/ \E r \in userCoupons : Use(r)
  BY <1>1 DEF Plain, CommitIssue, Use, redis, Counted
<1>2. ASSUME NEW c \in Calls, MarkAsIssued(c) PROVE Counted'
  <2>1. \A f \in Fcfs : issued'[f] = issued[f] \/ issued'[f] = issued[f] \union {UserOf(c)}
    BY <1>2 DEF MarkAsIssued, TypeOK
  <2>2. \A f \in Fcfs : IsFiniteSet(issued[f] \union {UserOf(c)})
    BY FS_AddElement DEF Counted
  <2>3. QED
    BY <1>2, <2>1, <2>2 DEF MarkAsIssued, Counted, db
<1>3. QED
  BY <1>1, <1>2, CalmSteps

LEMMA UnmarkedStep == Calm' /\ TypeOK /\ Unmarked /\ [Next]_vars => Unmarked'
<1> SUFFICES ASSUME Calm', TypeOK, Unmarked, [Next]_vars, NEW f \in Fcfs, NEW u \in IssuedTo(f)'
             PROVE  u \in issued'[f] \/ \E c \in Calls : /\ at'[c] = "mark" /\ FcfsOf(c) = f
                                                        /\ u = UserOf(c)
  BY DEF Unmarked, Marking
<1>1. ASSUME u \in IssuedTo(f)
      PROVE u \in issued[f] \/ \E c \in Calls : /\ at[c] = "mark" /\ FcfsOf(c) = f
                                                /\ u = UserOf(c)
  BY <1>1 DEF Unmarked, Marking
<1>2. CASE Plain
  BY <1>1, <1>2 DEF Plain, IssuedTo
<1>3. ASSUME NEW c \in Calls, CommitIssue(c)
      PROVE  u \in issued'[f] \/ \E d \in Calls : /\ at'[d] = "mark" /\ FcfsOf(d) = f
                                                  /\ u = UserOf(d)
  <2>1. u \in IssuedTo(f) \/ (u = UserOf(c) /\ FcfsOf(c) = f)
    BY <1>3, NewRowType DEF CommitIssue, IssuedTo
  <2>2. at'[c] = "mark" /\ issued' = issued /\ \A d \in Calls : at[d] = "mark" => at'[d] = "mark"
    BY <1>3 DEF CommitIssue, Goes, TypeOK, redis
  <2>3. QED
    BY <1>1, <2>1, <2>2
<1>4. ASSUME NEW c \in Calls, MarkAsIssued(c)
      PROVE  u \in issued'[f] \/ \E d \in Calls : /\ at'[d] = "mark" /\ FcfsOf(d) = f
                                                  /\ u = UserOf(d)
  <2>1. /\ u \in IssuedTo(f)
        /\ issued[f] \subseteq issued'[f] /\ (FcfsOf(c) = f => UserOf(c) \in issued'[f])
        /\ \A d \in Calls : at[d] = "mark" => d = c \/ at'[d] = "mark"
    BY <1>4 DEF MarkAsIssued, IssuedTo, Goes, TypeOK, db
  <2>2. QED
    BY <1>1, <2>1
<1>5. ASSUME NEW r \in userCoupons, Use(r) PROVE u \in IssuedTo(f)
  BY <1>5, UseStep DEF IssuedTo, Same
<1>6. ASSUME NEW r \in userCoupons, Use(r) PROVE at' = at /\ issued' = issued
  BY <1>6, UseStep
<1>7. QED
  BY <1>1, <1>2, <1>3, <1>4, <1>5, <1>6, CalmSteps

LEMMA RoomStep == Calm' /\ TypeOK /\ Held /\ Counted /\ Room /\ [Next]_vars => Room'
<1> SUFFICES ASSUME Calm', TypeOK, Held, Counted, Room, [Next]_vars, NEW c \in Calls,
                    at'[c] \in {"find", "insert", "commit"}
             PROVE  Cardinality(issued'[FcfsOf(c)]) < Quantity[FcfsOf(c)]
  BY DEF Room
<1>1. FcfsOf(c) \in Fcfs
  BY CallTypes
<1>2. /\ at[c] \in Inside \ {"mark"}
      /\ Cardinality(issued[FcfsOf(c)]) < Quantity[FcfsOf(c)]
  <2>1. CASE at[c] \in {"find", "insert", "commit"}
    BY <2>1 DEF Room, Inside
  <2>2. CASE at[c] \notin {"find", "insert", "commit"}
    <3>1. at'[c] # at[c]
      BY <2>2
    <3>2. Count(c)
      <4>1. ASSUME NEW r \in Requests, Post(r) PROVE FALSE
        BY <3>1, <4>1 DEF Post, TypeOK
      <4>2. ASSUME NEW d \in Calls, IssueFcfsCoupon(d) \/ Fail(d), d # c PROVE FALSE
        BY <3>1, <4>2 DEF IssueFcfsCoupon, Acquire, GiveUp, Read, HasIssued, Count, FindExisting,
           CreateUserCoupon, CommitIssue, MarkAsIssued, ReleaseLock, Fail, Throws, Goes, TypeOK
      <4>3. ASSUME IssueFcfsCoupon(c) \/ Fail(c), ~Count(c) PROVE FALSE
        BY <2>2, <4>3 DEF IssueFcfsCoupon, Acquire, GiveUp, Read, HasIssued, FindExisting,
           CreateUserCoupon, CommitIssue, MarkAsIssued, ReleaseLock, Fail, Throws, Goes, TypeOK
      <4>4. CASE Crash \/ (\E d \in Calls : Expire(d)) \/ (\E r \in userCoupons : Use(r))
                 \/ UNCHANGED vars
        BY <3>1, <4>4 DEF Crash, Expire, Use, vars, TypeOK
      <4>5. ASSUME NEW d \in Calls, Slips(d) PROVE FALSE
        BY <3>1, <4>5, SlipStep
      <4>6. QED
        BY <4>1, <4>2, <4>3, <4>4, <4>5 DEF Next, Slips
    <3>3. at[c] = "count" /\ ~(Cardinality(issued[FcfsOf(c)]) >= stock[FcfsOf(c)])
      BY <3>2 DEF Count, Throws, Goes, TypeOK, SoldOut
    <3>4. Cardinality(issued[FcfsOf(c)]) \in Nat /\ Quantity[FcfsOf(c)] \in Nat
      BY <1>1, FS_CardinalityType, FcfsAssumption DEF Counted
    <3>5. QED
      BY <3>3, <3>4 DEF Counted, Inside
  <2>3. QED
    BY <2>1, <2>2
<1>3. issued'[FcfsOf(c)] = issued[FcfsOf(c)]
  <2>1. ASSUME NEW d \in Calls, at[d] = "mark",
               issued' = [issued EXCEPT ![FcfsOf(d)] = @ \union {UserOf(d)}]
        PROVE  issued'[FcfsOf(c)] = issued[FcfsOf(c)]
    <3>1. FcfsOf(d) # FcfsOf(c)
      BY <1>2, <2>1, Alone DEF Inside
    <3>2. QED
      BY <1>1, <2>1, <3>1 DEF TypeOK
  <2>2. QED
    BY <2>1, IssuedStep
<1>4. QED
  BY <1>2, <1>3

LEMMA WithinStep == Calm' /\ IInv /\ Kept /\ [Next]_vars => WithinQuantity'
<1> SUFFICES ASSUME Calm', IInv, Kept, [Next]_vars, NEW f \in Fcfs
             PROVE  Cardinality(IssuedTo(f)') <= Quantity[f]
  BY DEF WithinQuantity
<1> USE DEF IInv, Kept
<1>1. CASE IssuedTo(f)' = IssuedTo(f)
  BY <1>1 DEF WithinQuantity
<1>2. CASE Plain \/ \E c \in Calls : MarkAsIssued(c)
  BY <1>1, <1>2 DEF Plain, MarkAsIssued, IssuedTo, db
<1>3. ASSUME NEW r \in userCoupons, Use(r) PROVE IssuedTo(f)' = IssuedTo(f)
  <2>1. IssuedTo(f)' \subseteq IssuedTo(f)
    BY <1>3, UseStep DEF IssuedTo, Same
  <2>2. QED
    BY <2>1, IssuedToGrows
<1>4. ASSUME NEW c \in Calls, CommitIssue(c), FcfsOf(c) # f PROVE IssuedTo(f)' = IssuedTo(f)
  BY <1>4, NewRowType DEF CommitIssue, IssuedTo
<1>5. ASSUME NEW c \in Calls, CommitIssue(c), FcfsOf(c) = f
      PROVE  Cardinality(IssuedTo(f)') <= Quantity[f]
  <2>1. at[c] = "commit" /\ Cardinality(issued[f]) < Quantity[f]
    BY <1>5 DEF CommitIssue, Goes, Room
  <2>2. Marking(f) = {}
    BY <1>5, <2>1, Alone DEF Marking, Inside
  <2>3. IssuedTo(f)' \subseteq issued[f] \union {UserOf(c)}
    BY <1>5, <2>2, NewRowType DEF CommitIssue, IssuedTo, Unmarked
  <2>4. /\ IsFiniteSet(issued[f] \union {UserOf(c)})
        /\ Cardinality(issued[f] \union {UserOf(c)}) <= Cardinality(issued[f]) + 1
    <3>1. IsFiniteSet(issued[f])
      BY DEF Counted
    <3>2. IsFiniteSet(issued[f] \union {UserOf(c)})
      BY <3>1, FS_AddElement
    <3>3. \/ Cardinality(issued[f] \union {UserOf(c)}) = Cardinality(issued[f])
          \/ Cardinality(issued[f] \union {UserOf(c)}) = Cardinality(issued[f]) + 1
      BY <3>1, FS_AddElement
    <3>4. Cardinality(issued[f]) \in Nat
      BY <3>1, FS_CardinalityType
    <3>5. QED
      BY <3>2, <3>3, <3>4
  <2>5. Cardinality(IssuedTo(f)') <= Cardinality(issued[f] \union {UserOf(c)})
    BY <2>3, <2>4, FS_Subset
  <2>6. /\ Cardinality(issued[f]) \in Nat /\ Quantity[f] \in Nat
        /\ Cardinality(IssuedTo(f)') \in Nat
        /\ Cardinality(issued[f] \union {UserOf(c)}) \in Nat
    BY <2>3, <2>4, FS_CardinalityType, FS_Subset, FcfsAssumption DEF Counted
  <2>7. QED
    BY <2>1, <2>4, <2>5, <2>6
<1>6. QED
  BY <1>1, <1>2, <1>3, <1>4, <1>5, CalmSteps

LEMMA CInvInit == Init => CInv
<1> SUFFICES ASSUME Init PROVE CInv
  OBVIOUS
<1>1. IsFiniteSet({}) /\ Cardinality({}) = 0
  BY FS_EmptySet
<1>2. \A f \in Fcfs : IssuedTo(f) = {} /\ issued[f] = {} /\ Quantity[f] \in Nat
  BY FcfsAssumption DEF Init, IssuedTo
<1>3. WithinQuantity /\ Counted /\ Unmarked
  <2>1. WithinQuantity
    BY <1>1, <1>2 DEF WithinQuantity
  <2>2. Counted
    BY <1>1, <1>2 DEF Counted, Init
  <2>3. QED
    BY <1>2, <2>1, <2>2 DEF Unmarked
<1>4. Held /\ Room
  BY DEF Init, Held, Room, Inside, Ended
<1>5. QED
  BY <1>3, <1>4, IInvInit DEF CInv, Kept

LEMMA CInvNext == CInv /\ [Next]_vars => CInv'
<1> SUFFICES ASSUME CInv, [Next]_vars PROVE CInv'
  OBVIOUS
<1>1. IInv /\ IInv' /\ TypeOK
  BY IInvNext DEF CInv, IInv
<1>2. ASSUME Calm' PROVE Kept'
  <2>1. Kept
    BY <1>1, <1>2, CalmStep DEF CInv
  <2>2. QED
    BY <1>1, <1>2, <2>1, HeldStep, CountedStep, UnmarkedStep, RoomStep, WithinStep DEF Kept
<1>3. QED
  BY <1>1, <1>2 DEF CInv

\* No more coupons are given out than there are, for any number of users and
\* requests and whatever the interleaving, as long as nothing fails between
\* the commit and the mark and the lock outlives its holder.
THEOREM CouponNeverOverIssued == Spec => []NeverOverIssued
<1>1. CInv => NeverOverIssued
  BY DEF CInv, Kept, NeverOverIssued
<1>2. QED
  BY CInvInit, CInvNext, <1>1, PTL DEF Spec

\* ... and whenever nobody holds the lock, Redis has counted every coupon.
THEOREM CouponCountIsExact == Spec => []CountIsExact
<1>1. CInv => CountIsExact
  <2> SUFFICES ASSUME CInv, Calm, NEW f \in Fcfs, \A c \in holds : FcfsOf(c) # f
               PROVE  issued[f] = IssuedTo(f)
    BY DEF CountIsExact
  <2>1. Marking(f) = {}
    BY DEF CInv, Kept, Held, Marking, Inside
  <2>2. IssuedTo(f) \subseteq issued[f]
    BY <2>1 DEF CInv, Kept, Unmarked
  <2>3. issued[f] \subseteq IssuedTo(f)
    BY DEF CInv, IInv, MarkedHaveCoupon
  <2>4. QED
    BY <2>2, <2>3
<1>2. QED
  BY CInvInit, CInvNext, <1>1, PTL DEF Spec

-----------------------------------------------------------------------------
(***************************************************************************)
(* What a call is told.  An answer is decided once, when the call leaves   *)
(* the try or gives up; what made it true is not undone.                   *)
(***************************************************************************)
Closed == {"release"} \union Ended
HasRow(c) == \E r \in userCoupons : r.call = c

\* An open call has no answer; each answer says what happened.
OpenUnanswered == \A c \in Calls : at[c] \notin Closed => answer[c] = "none"

Told ==
    \A c \in Calls :
        /\ answer[c] = "ok" => HasRow(c)
        /\ answer[c] \in Refused => ~HasRow(c)
        /\ answer[c] = "duplicate" => RowsFor(c) # {}
        /\ answer[c] = "empty" => Cardinality(IssuedTo(FcfsOf(c))) >= Quantity[FcfsOf(c)]

Countable == stock = Quantity /\ \A f \in Fcfs : IsFiniteSet(IssuedTo(f))

AInv == IInv /\ OpenUnanswered /\ Told /\ Countable

\* How a step decides the answer of call c.
Decides(c) ==
    /\ UNCHANGED db
    /\ \/ at[c] = "mark" /\ answer'[c] = "ok"
       \/ /\ at[c] \notin Over
          /\ \/ answer'[c] \in {"busy", "unavailable"}
             \/ answer'[c] = "duplicate" /\ (UserOf(c) \in issued[FcfsOf(c)] \/ RowsFor(c) # {})
             \/ answer'[c] = "empty" /\ SoldOut(FcfsOf(c))

LEMMA AnswerStep ==
    ASSUME TypeOK, [Next]_vars, NEW c \in Calls
    PROVE  /\ at'[c] \notin Closed => at[c] \notin Closed /\ answer'[c] = answer[c]
           /\ answer'[c] = answer[c] \/ answer'[c] = "broken" \/ Decides(c)
           /\ stock' = stock
<1> USE DEF TypeOK, Closed, Ended, db, redis
<1>s. ASSUME NEW d \in Calls, Slips(d)
      PROVE  /\ at'[c] = at[c] \/ at'[c] \in Ended
             /\ answer' = answer /\ stock' = stock
  BY <1>s, SlipStep
<1>1. ASSUME NEW r \in Requests, Post(r)
      PROVE  /\ at'[c] = at[c] \/ at[c] = "none"
             /\ answer' = answer /\ stock' = stock
  BY <1>1 DEF Post, Calls
<1>2. ASSUME NEW d \in Calls, IssueFcfsCoupon(d) \/ Fail(d), d # c
      PROVE  at'[c] = at[c] /\ answer'[c] = answer[c] /\ stock' = stock
  BY <1>2 DEF IssueFcfsCoupon, Acquire, GiveUp, Read, HasIssued, Count, FindExisting,
     CreateUserCoupon, CommitIssue, MarkAsIssued, ReleaseLock, Fail, Throws, Goes
<1>3. CASE Acquire(c) \/ CommitIssue(c) \/ ReleaseLock(c)
  BY <1>3 DEF Acquire, CommitIssue, ReleaseLock, Goes
<1>4. CASE GiveUp(c) \/ MarkAsIssued(c)
  BY <1>4 DEF GiveUp, MarkAsIssued, Goes, Decides, Over
<1>5. CASE Read(c)
  BY <1>5 DEF Read, Throws, Goes, Decides, Over
<1>6. CASE HasIssued(c)
  BY <1>6 DEF HasIssued, Throws, Goes, Decides, Over
<1>7. CASE Count(c)
  BY <1>7 DEF Count, Throws, Goes, Decides, Over
<1>8. CASE FindExisting(c) \/ CreateUserCoupon(c)
  <2>1. UNCHANGED db /\ stock' = stock /\ at[c] \in {"find", "insert"}
    BY <1>8 DEF FindExisting, CreateUserCoupon, Throws, Goes
  <2>2. \/ answer' = answer
        \/ at'[c] = "release" /\ answer'[c] = "duplicate" /\ RowsFor(c) # {}
    BY <1>8 DEF FindExisting, CreateUserCoupon, Throws, Goes
  <2>3. QED
    BY <2>1, <2>2 DEF Decides, Over
<1>9. CASE Fail(c)
  BY <1>9 DEF Fail, Throws, Goes
<1>10. CASE Crash
  BY <1>10 DEF Crash
<1>11. CASE (\E d \in Calls : Expire(d)) \/ (\E r \in userCoupons : Use(r)) \/ UNCHANGED vars
  BY <1>11 DEF Expire, Use, vars
<1>12. QED
  BY <1>1, <1>2, <1>3, <1>4, <1>5, <1>6, <1>7, <1>8, <1>9, <1>10, <1>11, <1>s
     DEF Next, IssueFcfsCoupon, Slips

\* Rows stay, but for their status; a new one is that of a call which commits.
LEMMA RowsStay ==
    ASSUME TypeOK, [Next]_vars, NEW c \in Calls
    PROVE  /\ HasRow(c) => HasRow(c)'
           /\ HasRow(c)' => HasRow(c) \/ Commits(c)
           /\ RowsFor(c) # {} => RowsFor(c)' # {}
<1>1. CASE userCoupons' = userCoupons
  BY <1>1 DEF HasRow, RowsFor
<1>2. ASSUME NEW d \in Calls, Commits(d)
      PROVE  /\ HasRow(c) => HasRow(c)'
             /\ HasRow(c)' => HasRow(c) \/ d = c
             /\ RowsFor(c) # {} => RowsFor(c)' # {}
  BY <1>2, NewRowType DEF Commits, HasRow, RowsFor
<1>3. ASSUME NEW r \in userCoupons, Use(r)
      PROVE  /\ HasRow(c) => HasRow(c)'
             /\ HasRow(c)' => HasRow(c)
             /\ RowsFor(c) # {} => RowsFor(c)' # {}
  BY <1>3, UseStep DEF HasRow, RowsFor, Same
<1>4. QED
  BY <1>1, <1>2, <1>3, RowsStep

LEMMA CountableStep == TypeOK /\ Countable /\ [Next]_vars => Countable'
<1> SUFFICES ASSUME TypeOK, Countable, [Next]_vars PROVE Countable'
  OBVIOUS
<1>1. stock' = stock
  BY AnswerStep, CallTypes DEF Next, Post, Crash, Use, vars, db
<1> SUFFICES ASSUME NEW f \in Fcfs PROVE IsFiniteSet(IssuedTo(f)')
  BY <1>1 DEF Countable
<1>2. CASE IssuedTo(f)' \subseteq IssuedTo(f)
  BY <1>2, FS_Subset DEF Countable
<1>3. ASSUME NEW c \in Calls, Commits(c) PROVE IsFiniteSet(IssuedTo(f)')
  <2>1. IssuedTo(f)' \subseteq IssuedTo(f) \union {UserOf(c)}
    BY <1>3, NewRowType DEF Commits, IssuedTo
  <2>2. IsFiniteSet(IssuedTo(f) \union {UserOf(c)})
    BY FS_AddElement DEF Countable
  <2>3. QED
    BY <2>1, <2>2, FS_Subset
<1>4. ASSUME NEW r \in userCoupons, Use(r) PROVE IssuedTo(f)' \subseteq IssuedTo(f)
  BY <1>4, UseStep DEF IssuedTo, Same
<1>5. CASE userCoupons' = userCoupons
  BY <1>2, <1>5 DEF IssuedTo
<1>6. QED
  BY <1>2, <1>3, <1>4, <1>5, RowsStep

\* As many as there are: what counts more than they are is no less.
LEMMA StillGone ==
    ASSUME TypeOK, [Next]_vars, Countable, NEW f \in Fcfs,
           Cardinality(IssuedTo(f)) >= Quantity[f]
    PROVE  Cardinality(IssuedTo(f)') >= Quantity[f]
<1>1. IsFiniteSet(IssuedTo(f)')
  BY CountableStep DEF Countable
<1>2. IssuedTo(f) \subseteq IssuedTo(f)'
  BY IssuedToGrows
<1>3. /\ Cardinality(IssuedTo(f)) <= Cardinality(IssuedTo(f)')
      /\ Cardinality(IssuedTo(f)) \in Nat /\ Cardinality(IssuedTo(f)') \in Nat
  BY <1>1, <1>2, FS_Subset, FS_CardinalityType DEF Countable
<1>4. Quantity[f] \in Nat
  BY FcfsAssumption
<1>5. QED
  BY <1>3, <1>4

LEMMA ToldStep == AInv /\ [Next]_vars => Told'
<1> SUFFICES ASSUME AInv, [Next]_vars, NEW c \in Calls
             PROVE  /\ answer'[c] = "ok" => HasRow(c)'
                    /\ answer'[c] \in Refused => ~HasRow(c)'
                    /\ answer'[c] = "duplicate" => RowsFor(c)' # {}
                    /\ answer'[c] = "empty" => Cardinality(IssuedTo(FcfsOf(c))') >= Quantity[FcfsOf(c)]
  BY DEF Told
<1> USE DEF AInv, IInv
<1>1. FcfsOf(c) \in Fcfs /\ UserOf(c) \in Users
  BY CallTypes
<1>2. CASE answer'[c] = answer[c]
  <2>1. answer[c] \in Refused => ~Commits(c)
    BY DEF Commits, OpenUnanswered, Closed, Ended, Refused
  <2>2. QED
    BY <1>1, <1>2, <2>1, RowsStay, StillGone DEF Told
<1>3. CASE answer'[c] = "broken"
  BY <1>3 DEF Refused
<1>4. CASE Decides(c)
  <2>1. userCoupons' = userCoupons /\ HasRow(c)' = HasRow(c) /\ RowsFor(c)' = RowsFor(c)
        /\ IssuedTo(FcfsOf(c))' = IssuedTo(FcfsOf(c))
    BY <1>4 DEF Decides, db, HasRow, RowsFor, IssuedTo
  <2>2. CASE at[c] = "mark" /\ answer'[c] = "ok"
    BY <2>1, <2>2 DEF MarkHasRow, HasRow, Refused
  <2>3. CASE at[c] \notin Over
    <3>1. ~HasRow(c)
      BY <2>3 DEF HasRow, RowsFromCalls
    <3>2. answer'[c] # "ok"
      BY <1>4, <2>3 DEF Decides, Over
    <3>3. ASSUME answer'[c] = "duplicate" PROVE RowsFor(c) # {}
      <4>1. CASE UserOf(c) \in issued[FcfsOf(c)]
        <5>1. PICK r \in userCoupons : r.fcfs = FcfsOf(c) /\ r.user = UserOf(c)
          BY <1>1, <4>1 DEF MarkedHaveCoupon, IssuedTo
        <5>2. r.coupon = CouponOf[FcfsOf(c)]
          BY <5>1 DEF RowsFromCalls
        <5>3. QED
          BY <5>1, <5>2 DEF RowsFor
      <4>2. QED
        BY <1>4, <2>3, <3>3, <4>1 DEF Decides, Over
    <3>4. ASSUME answer'[c] = "empty"
          PROVE  Cardinality(IssuedTo(FcfsOf(c))) >= Quantity[FcfsOf(c)]
      <4>1. Cardinality(issued[FcfsOf(c)]) >= Quantity[FcfsOf(c)]
        BY <1>4, <2>3, <3>4 DEF Decides, Over, SoldOut, Countable
      <4>2. IsFiniteSet(IssuedTo(FcfsOf(c))) /\ issued[FcfsOf(c)] \subseteq IssuedTo(FcfsOf(c))
        BY <1>1 DEF Countable, MarkedHaveCoupon
      <4>3. /\ Cardinality(issued[FcfsOf(c)]) <= Cardinality(IssuedTo(FcfsOf(c)))
            /\ Cardinality(issued[FcfsOf(c)]) \in Nat
            /\ Cardinality(IssuedTo(FcfsOf(c))) \in Nat
        BY <4>2, FS_Subset, FS_CardinalityType
      <4>4. Quantity[FcfsOf(c)] \in Nat
        BY <1>1, FcfsAssumption
      <4>5. QED
        BY <4>1, <4>3, <4>4
    <3>5. QED
      BY <2>1, <3>1, <3>2, <3>3, <3>4
  <2>4. QED
    BY <1>4, <2>2, <2>3 DEF Decides
<1>5. QED
  BY <1>2, <1>3, <1>4, AnswerStep

LEMMA AInvInit == Init => AInv
<1> SUFFICES ASSUME Init PROVE AInv
  OBVIOUS
<1>1. IsFiniteSet({}) /\ \A f \in Fcfs : IssuedTo(f) = {}
  BY FS_EmptySet DEF Init, IssuedTo
<1>2. OpenUnanswered /\ Told /\ Countable
  BY <1>1 DEF Init, OpenUnanswered, Told, Refused, Countable
<1>3. QED
  BY <1>2, IInvInit DEF AInv

LEMMA AInvNext == AInv /\ [Next]_vars => AInv'
<1> SUFFICES ASSUME AInv, [Next]_vars PROVE AInv'
  OBVIOUS
<1>1. IInv'
  BY IInvNext DEF AInv
<1>2. OpenUnanswered'
  BY AnswerStep DEF AInv, IInv, OpenUnanswered
<1>3. Countable'
  BY CountableStep DEF AInv, IInv
<1>4. QED
  BY <1>1, <1>2, <1>3, ToldStep DEF AInv

\* Whatever fails, expires or runs beside it, a call of issueFcfsCoupon that
\* returns a coupon has created it, one that refuses has not, and the reason it
\* gives is so.
THEOREM CouponAnswersAreTrue == Spec => []AnswersAreTrue
<1>1. AInv => AnswersAreTrue
  BY DEF AInv, Told, HasRow, AnswersAreTrue
<1>2. QED
  BY AInvInit, AInvNext, <1>1, PTL DEF Spec

-----------------------------------------------------------------------------
(***************************************************************************)
(* The refinement.  The step that gives is the commit, whose user has no   *)
(* row (Inserting) and for whom, when all is calm, there is one left: the  *)
(* lock is the caller's, so that nobody else is between commit and mark    *)
(* and Redis's count is exact.  The reply is given when the call is over,  *)
(* after its reason was found; Told says that it has stayed true.          *)
(***************************************************************************)
\* A call that is over has an answer, broken only after a failure.
Decided ==
    /\ \A c \in Calls : at[c] \in Closed \ {"hung"} => answer[c] # "none"
    /\ \A c \in Calls : answer[c] = "broken" => failures > 0

GInv == CInv /\ AInv /\ Decided

LEMMA DecidedStep == TypeOK /\ Decided /\ [Next]_vars => Decided'
<1> SUFFICES ASSUME TypeOK, Decided, [Next]_vars PROVE Decided'
  OBVIOUS
<1> USE DEF TypeOK, Closed, Ended
<1>s. ASSUME NEW c \in Calls, Slips(c) PROVE Decided'
  BY <1>s, SlipStep DEF Decided
<1>0. failures \in Nat /\ at \in [Calls -> Step]
  BY BoundsAssumption
<1>1. ASSUME NEW r \in Requests, Post(r) PROVE Decided'
  <2>1. \A c \in Calls : at'[c] \in Closed => at'[c] = at[c]
    BY <1>1 DEF Post
  <2> QED BY <1>1, <2>1 DEF Post, Decided, bounds
<1>2. ASSUME NEW c \in Calls, Acquire(c) \/ CommitIssue(c) \/ ReleaseLock(c) \/ Expire(c)
      PROVE  Decided'
  <2>1. /\ answer' = answer /\ failures' = failures
        /\ \A d \in Calls : at'[d] \in Closed \ {"hung"} => at[d] \in Closed \ {"hung"}
    BY <1>2 DEF Acquire, CommitIssue, ReleaseLock, Expire, Goes, bounds
  <2> QED BY <2>1 DEF Decided
<1>3. ASSUME NEW c \in Calls, GiveUp(c) \/ MarkAsIssued(c) \/ Read(c) \/ HasIssued(c) \/ Count(c)
                             \/ FindExisting(c) \/ CreateUserCoupon(c)
      PROVE  Decided'
  <2>1. \/ /\ answer' = answer /\ \E to \in Inside \ {"release"} : at' = [at EXCEPT ![c] = to]
        \/ \E why \in Refused \union {"ok"} : answer' = [answer EXCEPT ![c] = why]
                                              /\ \A d \in Calls \ {c} : at'[d] = at[d]
    BY <1>3 DEF GiveUp, MarkAsIssued, Read, HasIssued, Count, FindExisting, CreateUserCoupon,
       Throws, Goes, Refused, Inside
  <2>2. failures' = failures
    BY <1>3 DEF GiveUp, MarkAsIssued, Read, HasIssued, Count, FindExisting, CreateUserCoupon, bounds
  <2>3. CASE /\ answer' = answer /\ \E to \in Inside \ {"release"} : at' = [at EXCEPT ![c] = to]
    BY <2>2, <2>3 DEF Decided, Inside
  <2>4. ASSUME NEW why \in Refused \union {"ok"}, answer' = [answer EXCEPT ![c] = why],
               \A d \in Calls \ {c} : at'[d] = at[d]
        PROVE  Decided'
    BY <2>2, <2>4 DEF Decided, Refused
  <2> QED BY <2>1, <2>3, <2>4
<1>4. ASSUME NEW c \in Calls, Fail(c) PROVE Decided'
  <2>1. failures' > 0 /\ \A d \in Calls \ {c} : at'[d] = at[d] /\ answer'[d] = answer[d]
    BY <1>0, <1>4 DEF Fail, Throws, Goes
  <2>2. answer'[c] = "broken"
    BY <1>4 DEF Fail, Throws
  <2> QED BY <2>1, <2>2 DEF Decided
<1>5. CASE Crash
  <2>1. failures' > 0
    BY <1>0, <1>5 DEF Crash
  <2>2. ASSUME NEW c \in Calls, at'[c] \in Closed \ {"hung"} PROVE answer'[c] # "none"
    BY <1>5, <2>2 DEF Crash, Decided
  <2> QED BY <2>1, <2>2 DEF Decided
<1>6. CASE (\E r \in userCoupons : Use(r)) \/ UNCHANGED vars
  BY <1>6 DEF Use, vars, bounds, Decided
<1> QED BY <1>1, <1>2, <1>3, <1>4, <1>5, <1>6, <1>s DEF Next, IssueFcfsCoupon, Slips

LEMMA GInvAlways == Spec => []GInv
<1>1. Init => Decided
  BY DEF Init, Decided, Closed, Ended
<1>2. GInv /\ [Next]_vars => Decided'
  BY DecidedStep DEF GInv, CInv, IInv
<1> QED BY <1>1, <1>2, CInvInit, CInvNext, AInvInit, AInvNext, PTL DEF Spec, GInv
-----------------------------------------------------------------------------
\* FiniteSets as Giveaway sees it.
LEMMA PromiseCardinality ==
    ASSUME NEW S
    PROVE  Promise!Cardinality(S) = Cardinality(S)
BY DEF Promise!Cardinality, Cardinality, Promise!IsFiniteSet, IsFiniteSet

\* The rows as Giveaway sees them.
LEMMA SameRows ==
    ASSUME NEW c \in Calls
    PROVE  /\ Promise!Of(c) = RowsFor(c) /\ Promise!Row(c) = NewRow(c)
           /\ Promise!From(c) = {} <=> ~HasRow(c)
           /\ Promise!Given(FcfsOf(c)) = IssuedTo(FcfsOf(c))
BY DEF Promise!Of, RowsFor, Promise!Row, NewRow, Promise!From, HasRow, Promise!Given, IssuedTo

Answered == Ended \ {"hung"}

\* A step of one call, for what it is told.
LEMMA ToldOne ==
    ASSUME TypeOK, NEW c \in Calls, \A d \in Calls \ {c} : at'[d] = at[d] /\ answer'[d] = answer[d]
    PROVE  /\ at[c] \notin Answered /\ at'[c] \in Answered => told' = [told EXCEPT ![c] = answer'[c]]
           /\ at[c] \notin Answered => told[c] = "none"
           /\ at[c] \notin Answered /\ at'[c] \notin Answered => told' = told
BY DEF told, Answered

\* No failure, and there was room: the coupon is one that is left.
LEMMA Spare ==
    ASSUME CInv, NEW c \in Calls, at[c] = "commit", Calm
    PROVE  Cardinality(IssuedTo(FcfsOf(c))) < Quantity[FcfsOf(c)]
<1>1. FcfsOf(c) \in Fcfs
  BY CallTypes
<1>2. Marking(FcfsOf(c)) = {}
  <2> SUFFICES ASSUME NEW d \in Calls, at[d] = "mark", FcfsOf(d) = FcfsOf(c) PROVE FALSE
    BY DEF Marking
  <2>1. c \in holds /\ d \in holds
    BY DEF CInv, Kept, Held, Inside
  <2> QED BY <2>1 DEF CInv, Kept, Held
<1>3. IssuedTo(FcfsOf(c)) = issued[FcfsOf(c)]
  BY <1>1, <1>2 DEF CInv, Kept, Unmarked, IInv, MarkedHaveCoupon
<1> QED BY <1>3 DEF CInv, Kept, Room

LEMMA GiveSimulates ==
    ASSUME GInv, NEW c \in Calls, at[c] = "commit", userCoupons' = userCoupons \union {NewRow(c)}
    PROVE  Promise!Give(c)
<1>1. told[c] = "none"
  BY DEF told, Ended
<1>2. Promise!Of(c) = {}
  BY SameRows DEF GInv, CInv, IInv, Inserting
<1>3. failures + expiries = 0 => Calm
  BY DEF GInv, CInv, IInv, TypeOK, Calm
<1>4. failures + expiries = 0 =>
          Promise!Cardinality(Promise!Given([d \in Calls |-> FcfsOf(d)][c])) < Quantity[[d \in Calls |-> FcfsOf(d)][c]]
  BY <1>3, Spare, SameRows, PromiseCardinality DEF GInv
<1>5. userCoupons' = userCoupons \union {Promise!Row(c)}
  BY SameRows
<1> QED BY <1>1, <1>2, <1>4, <1>5, Zenon DEF Promise!Give

\* The moment of the reply: what has been decided is so.
LEMMA ReplySimulates ==
    ASSUME GInv, NEW c \in Calls, ReleaseLock(c) \/ LeaveLock(c)
    PROVE  \E a \in Promise!Refusals \union {"ok", "broken"} : Promise!Reply(c, a)
<1>1. /\ at[c] = "release" /\ answer' = answer
      /\ \E to \in {"done", "left"} : at' = [at EXCEPT ![c] = to]
      /\ UNCHANGED <<userCoupons, failures, expiries>>
  BY DEF ReleaseLock, LeaveLock, Goes, db, bounds
<1>2. TypeOK /\ Told /\ Decided
  BY DEF GInv, AInv, IInv
<1>3. answer[c] \in Refused \union {"ok", "broken"} /\ answer[c] # "none"
  BY <1>1, <1>2 DEF TypeOK, Decided, Closed
<1>4. told[c] = "none" /\ told' = [told EXCEPT ![c] = answer[c]]
  <2>1. /\ at[c] \notin Answered /\ at'[c] \in Answered
        /\ \A d \in Calls \ {c} : at'[d] = at[d] /\ answer'[d] = answer[d]
    BY <1>1, <1>2 DEF TypeOK, Answered, Ended
  <2> QED BY <1>1, <1>2, <2>1, ToldOne
<1>5. Promise!IsSo(c, answer[c])
  <2>1. CASE answer[c] = "ok"
    BY <1>2, <2>1, SameRows DEF Told, Promise!IsSo, Promise!Refusals
  <2>2. CASE answer[c] = "broken"
    <3>1. failures + expiries > 0
      BY <1>2, <2>2, BoundsAssumption DEF Decided, TypeOK
    <3> QED BY <2>2, <3>1 DEF Promise!IsSo, Promise!Refusals
  <2>3. CASE answer[c] \in Refused
    <3>1. Promise!From(c) = {} /\ (answer[c] = "duplicate" => Promise!Of(c) # {})
      BY <1>2, <2>3, SameRows DEF Told
    <3>2. answer[c] = "empty" =>
              Promise!Cardinality(Promise!Given([d \in Calls |-> FcfsOf(d)][c]))
                  >= Quantity[[d \in Calls |-> FcfsOf(d)][c]]
      BY <1>2, SameRows, PromiseCardinality DEF Told
    <3> QED BY <2>3, <3>1, <3>2 DEF Promise!IsSo, Promise!Refusals, Refused
  <2> QED BY <1>3, <2>1, <2>2, <2>3
<1>6. UNCHANGED <<userCoupons, failures + expiries>>
  BY <1>1
<1> QED BY <1>3, <1>4, <1>5, <1>6 DEF Promise!Reply, Promise!Refusals, Refused

LEMMA BusySimulates ==
    ASSUME GInv, NEW c \in Calls, GiveUp(c)
    PROVE  Promise!Reply(c, "busy")
<1>1. /\ at[c] = "acquire" /\ at' = [at EXCEPT ![c] = "done"]
      /\ answer' = [answer EXCEPT ![c] = "busy"] /\ UNCHANGED <<userCoupons, failures, expiries>>
  BY DEF GiveUp, Goes, db, bounds
<1>2. TypeOK /\ RowsFromCalls
  BY DEF GInv, AInv, IInv
<1>3. told[c] = "none" /\ told' = [told EXCEPT ![c] = "busy"]
  <2>1. /\ at[c] \notin Answered /\ at'[c] \in Answered /\ answer'[c] = "busy"
        /\ \A d \in Calls \ {c} : at'[d] = at[d] /\ answer'[d] = answer[d]
    BY <1>1, <1>2 DEF TypeOK, Answered, Ended
  <2> QED BY <1>1, <1>2, <2>1, ToldOne
<1>4. ~HasRow(c)
  BY <1>1, <1>2 DEF HasRow, RowsFromCalls, Over, Ended
<1>5. Promise!IsSo(c, "busy")
  BY <1>4, SameRows DEF Promise!IsSo, Promise!Refusals
<1> QED BY <1>1, <1>3, <1>5 DEF Promise!Reply

LEMMA FailSimulates ==
    ASSUME GInv, NEW c \in Calls, Fail(c)
    PROVE  Promise!Fault
<1>0. TypeOK
  BY DEF GInv, AInv, IInv
<1>1. /\ failures' = failures + 1 /\ expiries' = expiries
      /\ \E from \in Inside \ {"release"} :
            /\ at[c] = from /\ at' = [at EXCEPT ![c] = "release"]
            /\ answer' = [answer EXCEPT ![c] = "broken"]
            /\ userCoupons' = userCoupons
                  \/ (from = "commit" /\ userCoupons' = userCoupons \union {NewRow(c)})
  BY DEF Fail, Throws, Goes
<1>2. told' = told
  <2>1. at[c] \notin Answered /\ at'[c] \notin Answered
        /\ \A d \in Calls \ {c} : at'[d] = at[d] /\ answer'[d] = answer[d]
    BY <1>0, <1>1 DEF TypeOK, Inside, Answered, Ended
  <2> QED BY <1>0, <2>1, ToldOne
<1>3. (failures + expiries)' = (failures + expiries) + 1
  BY <1>0, <1>1, BoundsAssumption DEF TypeOK
<1>4. CASE userCoupons' = userCoupons
  <2>1. told' = [d \in Calls |-> IF d \in {} THEN "broken" ELSE told[d]]
    BY <1>2 DEF told
  <2>2. {} \in SUBSET {d \in Calls : told[d] = "none"}
    OBVIOUS
  <2> QED BY <1>3, <1>4, <2>1, <2>2 DEF Promise!Fault
<1>5. CASE at[c] = "commit" /\ userCoupons' = userCoupons \union {NewRow(c)}
  BY <1>2, <1>3, <1>5, GiveSimulates DEF Promise!Fault
<1> QED BY <1>1, <1>4, <1>5

LEMMA CrashSimulates ==
    ASSUME GInv, Crash \/ \E c \in Calls : Expire(c) /\ at[c] \notin Ended
    PROVE  Promise!Fault
<1>0. TypeOK /\ failures \in Nat /\ expiries \in Nat
  BY BoundsAssumption DEF GInv, AInv, IInv, TypeOK
<1>1. UNCHANGED userCoupons /\ (failures + expiries)' = (failures + expiries) + 1
  BY <1>0 DEF Crash, Expire, db
<1> SUFFICES \E broken \in SUBSET {c \in Calls : told[c] = "none"} :
                 told' = [c \in Calls |-> IF c \in broken THEN "broken" ELSE told[c]]
  BY <1>1 DEF Promise!Fault
<1>2. CASE Crash
  <2> DEFINE broken == {c \in Calls : at[c] \notin {"none"} \union Ended}
  <2>1. broken \in SUBSET {c \in Calls : told[c] = "none"}
    BY DEF told
  <2>2. ASSUME NEW c \in Calls
        PROVE  told'[c] = IF c \in broken THEN "broken" ELSE told[c]
    BY <1>2 DEF Crash, told, Ended
  <2>3. told' = [c \in Calls |-> IF c \in broken THEN "broken" ELSE told[c]]
    <3>1. told' = [c \in Calls |-> told'[c]]
      BY DEF told
    <3> HIDE DEF broken
    <3> QED BY <2>2, <3>1
  <2> QED BY <2>1, <2>3
<1>3. CASE \E c \in Calls : Expire(c)
  <2>1. told' = [c \in Calls |-> IF c \in {} THEN "broken" ELSE told[c]]
    BY <1>3 DEF Expire, told
  <2>2. {} \in SUBSET {c \in Calls : told[c] = "none"}
    OBVIOUS
  <2> QED BY <2>1, <2>2
<1> QED BY <1>2, <1>3

LEMMA QuietSimulates ==
    ASSUME GInv, NEW c \in Calls,
           \/ Acquire(c) \/ Read(c) \/ HasIssued(c) \/ Count(c) \/ FindExisting(c)
           \/ CreateUserCoupon(c) \/ MarkAsIssued(c)
    PROVE  UNCHANGED Promise!giveawayVars
<1>0. TypeOK
  BY DEF GInv, AInv, IInv
<1>1. /\ UNCHANGED <<userCoupons, failures, expiries>>
      /\ at[c] \notin Answered /\ at'[c] \notin Answered
      /\ \A d \in Calls \ {c} : at'[d] = at[d] /\ answer'[d] = answer[d]
  BY <1>0 DEF TypeOK, Acquire, Read, HasIssued, Count, FindExisting, CreateUserCoupon, MarkAsIssued,
     Throws, Goes, db, bounds, Answered, Ended
<1> QED BY <1>0, <1>1, ToldOne DEF Promise!giveawayVars

LEMMA HangSimulates ==
    ASSUME GInv, NEW c \in Calls, Hang(c)
    PROVE  UNCHANGED Promise!giveawayVars
<1>0. TypeOK /\ Slips(c)
  BY DEF GInv, AInv, IInv, Slips
<1>1. /\ UNCHANGED <<userCoupons, failures, expiries>>
      /\ at[c] \notin Answered /\ at'[c] \notin Answered
      /\ \A d \in Calls \ {c} : at'[d] = at[d] /\ answer'[d] = answer[d]
  <2>1. at'[c] = "hung"
    BY <1>0 DEF Hang, Goes, TypeOK
  <2> QED BY <1>0, <2>1, SlipStep DEF Answered, Ended
<1> QED BY <1>0, <1>1, ToldOne DEF Promise!giveawayVars

LEMMA CommitSimulates ==
    ASSUME GInv, NEW c \in Calls, CommitIssue(c)
    PROVE  Promise!Give(c) /\ UNCHANGED <<told, failures + expiries>>
<1>0. TypeOK
  BY DEF GInv, AInv, IInv
<1>1. /\ at[c] = "commit" /\ userCoupons' = userCoupons \union {NewRow(c)}
      /\ UNCHANGED <<failures, expiries>> /\ at[c] \notin Answered /\ at'[c] \notin Answered
      /\ \A d \in Calls \ {c} : at'[d] = at[d] /\ answer'[d] = answer[d]
  BY <1>0 DEF TypeOK, CommitIssue, Goes, bounds, Answered, Ended
<1> QED BY <1>0, <1>1, GiveSimulates, ToldOne

LEMMA GiveawayStep == GInv /\ [Next]_vars => [Promise!GiveawayNext]_(Promise!giveawayVars)
<1> SUFFICES ASSUME GInv, [Next]_vars
             PROVE  Promise!GiveawayNext \/ UNCHANGED Promise!giveawayVars
  OBVIOUS
<1>1. ASSUME NEW c \in Calls, CommitIssue(c) PROVE Promise!GiveawayNext
  BY <1>1, CommitSimulates DEF Promise!GiveawayNext
<1>2. ASSUME NEW c \in Calls, GiveUp(c) \/ ReleaseLock(c) \/ LeaveLock(c)
      PROVE  Promise!GiveawayNext
  <2>1. "busy" \in Promise!Refusals
    BY DEF Promise!Refusals
  <2>2. PICK a \in Promise!Refusals \union {"ok", "broken"} : Promise!Reply(c, a)
    BY <1>2, <2>1, BusySimulates, ReplySimulates
  <2>3. told' # told
    <3>1. told[c] = "none" /\ told' = [told EXCEPT ![c] = a] /\ c \in DOMAIN told
      BY <2>2 DEF Promise!Reply, told
    <3>2. told'[c] = a /\ a # "none"
      BY <3>1 DEF Promise!Refusals
    <3> QED BY <3>1, <3>2
  <2> QED BY <2>2, <2>3 DEF Promise!GiveawayNext
<1>3. ASSUME NEW c \in Calls, Fail(c) \/ (Expire(c) /\ at[c] \notin Ended)
      PROVE  Promise!GiveawayNext
  BY <1>3, FailSimulates, CrashSimulates DEF Promise!GiveawayNext
<1>4. ASSUME NEW c \in Calls, Expire(c), at[c] \in Ended PROVE UNCHANGED Promise!giveawayVars
  BY <1>4 DEF Expire, Promise!giveawayVars, db, told
<1>5. ASSUME NEW r \in Requests, Post(r) PROVE UNCHANGED Promise!giveawayVars
  <2>1. told' = told
    <3>1. \A c \in Calls : answer'[c] = answer[c] /\ (at'[c] \in Answered <=> at[c] \in Answered)
      BY <1>5 DEF Post, Calls, Answered, Ended
    <3> QED BY <3>1 DEF told, Answered
  <2> QED BY <1>5, <2>1 DEF Post, Promise!giveawayVars, db, bounds
<1>6. ASSUME NEW r \in userCoupons, Use(r) PROVE Promise!GiveawayNext
  <2>1. Promise!Spend(r)
    BY <1>6 DEF Use, Promise!Spend, bounds, told
  <2> QED BY <2>1 DEF Promise!GiveawayNext
<1>7. CASE Crash
  BY <1>7, CrashSimulates DEF Promise!GiveawayNext
<1>8. CASE UNCHANGED vars
  BY <1>8 DEF vars, db, bounds, told, Promise!giveawayVars
<1> QED BY <1>1, <1>2, <1>3, <1>4, <1>5, <1>6, <1>7, <1>8, QuietSimulates, HangSimulates
       DEF Next, IssueFcfsCoupon

\* ImplementsGiveaway: issueFcfsCoupon, called twice for each request, with its lock,
\* Redis and MySQL failing apart, gives out coupons as if in one step, for any users,
\* coupons, requests, failures and locks that run out.
THEOREM CouponImplementsGiveaway == Spec => ImplementsGiveaway
<1>1. Init => Promise!GiveawayInit
  BY DEF Init, told, Promise!GiveawayInit
<1> QED BY <1>1, GInvAlways, GiveawayStep, PTL DEF Spec, ImplementsGiveaway, Promise!GiveawaySpec
=============================================================================
