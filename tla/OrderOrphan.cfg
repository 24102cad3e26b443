SPECIFICATION Spec
CONSTANTS
    alice = alice
    bob = bob
    v1 = v1
    r1 = r1
    r2 = r2
    Users <- MCUsers
    Variants <- MCVariants
    Requests <- OneRequest
    ByUser <- ByAlice
    Wants <- WantsOne
    Total <- TotalOne
    Coupons <- MCCoupons
    CouponId <- WithCoupon
    MinOrder <- MCMinOrder
    Discount <- MCDiscount
    UserCouponIds <- MCUserCouponIds
    Owner <- MCOwner
    Gives <- MCGives
    Stock0 <- MCStock
    MaxFailures = 1
INVARIANT FailedLeavesNoOrder
