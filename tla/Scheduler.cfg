SPECIFICATION FairSchedulerSpec
CONSTANTS
    alice = alice
    bob = bob
    carol = carol
    k1 = k1
    f1 = f1
    f2 = f2
    f3 = f3
    a = a
    b = b
    p = p
    Users <- MCUsers
    Coupons = {k1}
    Fcfs <- MCFcfs
    CouponOf <- MCCouponOf
    Quantity <- MCQuantity
    StartDate <- MCStartDate
    EndDate <- MCEndDate
    CreatedAt <- MCCreatedAt
    Runs <- MCRuns
    BatchSize = 3
    PageSize = 2
    Calls <- MCCalls
    CallUser <- MCCallUser
    CallFcfs <- MCCallFcfs
    AtFirst <- MCAtFirst
    Asks <- MCAsks
    MaxTime = 1
    MaxFailures = 1
INVARIANTS StockFollowsBatches NobodyForgotten
PROPERTIES QueueIsServed ImplementsLine
