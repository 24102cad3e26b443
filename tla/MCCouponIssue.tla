---------------------------- MODULE MCCouponIssue ----------------------------
(***************************************************************************)
(* Two FCFS coupons of one Coupon, one piece each.  Two requests are sent: *)
(* Alice and Bob ask for the first, or Alice for both, or Alice for the    *)
(* second and Bob for the first.                                           *)
(***************************************************************************)
EXTENDS CouponIssue, TLC

CONSTANTS alice, bob, k1, f1, f2, r1, r2, r3

MCUsers == {alice, bob}
MCFcfs == {f1, f2}
MCCouponOf == f1 :> k1 @@ f2 :> k1
MCQuantity == f1 :> 1 @@ f2 :> 1
MCRequests == {r1, r2, r3}
MCByUser == r1 :> alice @@ r2 :> bob @@ r3 :> alice
MCForFcfs == r1 :> f1 @@ r2 :> f1 @@ r3 :> f2
=============================================================================
