SPECIFICATION Spec
CONSTANTS
    alice = alice
    bob = bob
    o1 = o1
    o2 = o2
    o3 = o3
    v1 = v1
    v2 = v2
    v3 = v3
    Users <- MCUsers
    MaxPayments = 2
    MaxFaults = 0
    NoOne = NoOne
    Balance0 <- MCBalance
    Orders <- MCOrders
    Variants <- MCVariants
    Placed <- MCOrders
    Owner <- MCOwner
    Items <- MCItems
    Price <- MCPrice
    Stock0 <- MCStock
    Calls = {c1, c2, c3}
    PatchStatuses = {}
SYMMETRY CallSymmetry
INVARIANT NothingLost
PROPERTY ImplementsCheckout
