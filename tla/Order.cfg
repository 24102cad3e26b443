SPECIFICATION Spec
CONSTANTS
    alice = alice
    bob = bob
    v1 = v1
    r1 = r1
    r2 = r2
    Users <- MCUsers
    Variants <- MCVariants
    Requests <- TwoRequests
    ByUser <- ByAliceAndBob
    Wants <- WantsTwo
    Total <- TotalTwo
    Coupons <- MCCoupons
    CouponId <- BothCouponOne
    MinOrder <- MCMinOrder
    Discount <- MCDiscount
    UserCouponIds <- MCUserCouponIds
    Owner <- MCOwner
    Gives <- MCGives
    Stock0 <- MCStock
    MaxFailures = 2
INVARIANTS NoPhantomEvent OutboxCoversOrder
