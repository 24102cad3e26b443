-------------------------- MODULE MCCouponScheduler --------------------------
(***************************************************************************)
(* Two runs, three users, three FCFS coupons of one Coupon.  For two of    *)
(* them the same users wait in opposite order.  Two coupons make a page:   *)
(* until its time is over the third, and newest, keeps the oldest from it. *)
(* A call for the oldest is made beside the runs.                          *)
(***************************************************************************)
EXTENDS CouponScheduler

CONSTANTS alice, bob, carol, k1, f1, f2, f3, a, b, p

MCUsers == {alice, bob, carol}
MCFcfs == {f1, f2, f3}
MCCouponOf == [f \in MCFcfs |-> k1]
MCQuantity == f1 :> 3 @@ f2 :> 2 @@ f3 :> 1
MCStartDate == [f \in MCFcfs |-> 0]
MCEndDate == f1 :> 1 @@ f2 :> 1 @@ f3 :> 0
MCCreatedAt == f1 :> 0 @@ f2 :> 1 @@ f3 :> 2
MCRuns == {a, b}
MCCalls == {p}
MCCallUser == p :> alice
MCCallFcfs == p :> f1
MCAtFirst == f1 :> <<alice, bob, carol>> @@ f2 :> <<bob, alice>> @@ f3 :> <<>>
MCAsks == {<<f2, carol>>}
=============================================================================
