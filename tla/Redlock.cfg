SPECIFICATION RedlockSpec
CONSTANTS
    s1 = s1
    s2 = s2
    s3 = s3
    s4 = s4
    c1 = c1
    c2 = c2
    Servers = {s1, s2, s3, s4}
    Callers = {c1, c2}
    MaxAttempts = 2
    MaxLost = 1
    MaxFaults = 1
SYMMETRY Perms
INVARIANTS LeavesNothing StuckIsTied
PROPERTY ImplementsMutex
CHECK_DEADLOCK FALSE
