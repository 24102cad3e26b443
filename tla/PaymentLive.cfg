SPECIFICATION FairSpec
CONSTANTS
    alice = alice
    bob = bob
    o1 = o1
    o2 = o2
    o3 = o3
    v1 = v1
    v2 = v2
    v3 = v3
    Users <- MCOneUser
    MaxPayments = 2
    MaxFaults = 1
    NoOne = NoOne
    Balance0 <- MCOneBalance
    Orders <- MCTwoOrders
    Variants <- MCTwoVariants
    Placed <- MCTwoOrders
    Owner <- MCTwoOwner
    Items <- MCTwoItems
    Price <- MCTwoPrice
    Stock0 <- MCTwoStock
    Calls = {c1, c2}
    PatchStatuses = {"PAID", "CANCELLED"}
INVARIANTS PaidOnce ChecksStayTrue
PROPERTY CallsEnd
