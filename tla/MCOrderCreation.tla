--------------------------- MODULE MCOrderCreation ---------------------------
(***************************************************************************)
(* UserCoupon 1 is Bob's, of Coupon 2; UserCoupon 2 is Alice's, of Coupon  *)
(* 1.  Alice orders with Coupon 1, Bob tries to.                           *)
(***************************************************************************)
EXTENDS OrderCreation, TLC

CONSTANTS alice, bob, v1, r1, r2

MCUsers == {alice, bob}
MCVariants == {v1}
MCStock == v1 :> 2
MCCoupons == {1, 2}
MCMinOrder == 1 :> 2 @@ 2 :> 0
MCDiscount == 1 :> 1 @@ 2 :> 1
MCLargeDiscount == 1 :> 5 @@ 2 :> 1
MCUserCouponIds == {1, 2}
MCOwner == 1 :> bob @@ 2 :> alice
MCGives == 1 :> 2 @@ 2 :> 1

OneRequest == {r1}
ByAlice == r1 :> alice
WantsOne == r1 :> (v1 :> 1)
TotalOne == r1 :> 2
WithCoupon == r1 :> 1

TwoRequests == {r1, r2}
WantsTwo == r1 :> (v1 :> 1) @@ r2 :> (v1 :> 2)
TotalTwo == r1 :> 2 @@ r2 :> 4
ByAliceAndBob == r1 :> alice @@ r2 :> bob
BothCouponOne == r1 :> 1 @@ r2 :> 1
=============================================================================
