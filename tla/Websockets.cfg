SPECIFICATION Spec
CONSTANTS
    Servers = {w1, w2}
    MaxChanges = 3
    JoinTimesOut = FALSE
    PoolSizes <- TightAndSpare
INVARIANTS
    TypeOK
    EachToOneClient
PROPERTIES
    Served
CHECK_DEADLOCK FALSE
