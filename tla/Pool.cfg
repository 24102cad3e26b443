SPECIFICATION FairPoolSpec
CONSTANTS
    Conns = {1, 2}
    Handlers = {"h1", "h3", "h4", "h5"}
    KindOf <- MCKindOf
INVARIANT StuckIsFull
PROPERTIES ExpiredFails EveryHandlerEnds
