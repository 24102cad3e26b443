SPECIFICATION FairSpec
CONSTANTS
    h1 = h1
    h2 = h2
    i1 = i1
    i2 = i2
    i3 = i3
    Hosts <- MCHosts
    Instances <- MCInstances
    HostOf <- MCHostOf
    Hooks <- MCHooks
    MaxStarts = 2
    ScriptRuns = {"r1", "r2", "r3"}
    ScriptOf <- MCScriptOf
    Chunk <- MCChunk
    Total <- MCTotal
    Offset = 4
    MaxRunning = 2
    MaxIncidents = 1
    Orders = {1, 9}
    Stored = {1}
    Status = {"PENDING", "PAID", "SHIPPING", "CANCELLED"}
    Calls = {"c1", "c2", "c3"}
    OrderOf <- MCOrderOf
    To <- MCTo
    MaxPayments = 2
    Requests = {"r1", "r2", "r3"}
    Route <- MCRoute
    Ids = {1, 2, 3}
    Times = {1, 2, 3}
    PageSize = 2
    MaxWrites = 2
    MaxErrors = 1
\* Each part comes to its end: all is started, stored, answered or read.
CHECK_DEADLOCK FALSE
INVARIANTS SeedIsSound LinksResolve ItemsMatch OrdersComplete MessagesAreTrue LogTellsAnswer PagesExplained
PROPERTY WritesAreTold
