SPECIFICATION Spec
CONSTANTS
    alice = alice
    p1 = p1
    a1 = a1
    a2 = a2
    b1 = b1
    detail = detail
    NoEntry = NoEntry
    Products = {p1}
    Stock0 <- MCStock
    Keys = {detail}
    Shows <- MCShows
    Ttl <- MCTtl
    Readers <- MCReaders
    MaxStock = 1
    MaxChanges = 1
    MaxTime = 2
    Shoppers <- MCUsers
    Adds <- MCAdds
    By <- MCBy
    Product <- MCProduct
    Quantity <- MCQuantity
    DetailKey <- MCDetail
    Browsers = {b1}
    PatchTo = {2}
    MaxFailures = 1
SYMMETRY MCSymmetry
INVARIANTS RemovedIsOrdered OrderedLeaves
PROPERTY AddedWasAvailable
CHECK_DEADLOCK FALSE
