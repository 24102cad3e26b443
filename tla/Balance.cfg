SPECIFICATION BalanceFairSpec
CONSTANTS
    Users <- MCUsers
    Accounts <- MCAccounts
    HasRow <- MCHasRow
    Opening <- MCOpening
    Amounts <- MCAmounts
    Requests = {r1, r2, r3}
    NoOne = NoOne
INVARIANT EveryMovementHasItsCall
PROPERTIES EveryRequestAnswered ImplementsLedger
