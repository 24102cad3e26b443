SPECIFICATION FairSpec
CONSTANTS
    alice = alice
    bob = bob
    o1 = o1
    o2 = o2
    v1 = v1
    r1 = r1
    r2 = r2
    r3 = r3
    Users <- MCUsers
    Orders <- MCOrders
    Variants <- MCVariants
    Owner <- MCOwner
    Quantity <- MCQuantity
    Price <- MCPrice
    WithCoupon = {o1}
    Stock0 <- MCStock
    Balance0 <- MCBalance
    Requests <- AllRequests
    ForOrder <- Mixed
    ByUser <- ByMixed
    MaxPosts = 2
    MaxFailures = 1
INVARIANTS NeverEnriched PaidOnce MoneyAccounted
PROPERTY EveryOrderSettles
