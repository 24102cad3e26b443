SPECIFICATION FairSpec
CONSTANTS
    alice = alice
    bob = bob
    k1 = k1
    f1 = f1
    f2 = f2
    r1 = r1
    r2 = r2
    r3 = r3
    Users <- MCUsers
    Coupons = {k1}
    Fcfs <- MCFcfs
    CouponOf <- MCCouponOf
    Quantity <- MCQuantity
    Requests <- MCRequests
    ByUser <- MCByUser
    ForFcfs <- MCForFcfs
    MaxPosts = 2
    MaxFaults = 1
INVARIANTS MarkedHaveCoupon AnswersAreTrue NeverOverIssued
PROPERTIES EveryCallFinishes ImplementsGiveaway
