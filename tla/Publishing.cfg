SPECIFICATION Spec
CONSTANTS
    Websockets <- TwoWebsockets
    Servers <- TwoServers
    Nobody = Nobody
    NoServer = NoServer
    MaxChanges = 3
    JoinTimesOut = TRUE
INVARIANTS
    TypeOK
    InOrder
    CompleteUntilDisconnect
    StopsBalance
PROPERTIES
    LoopServesUnlessLost
    SignalsDrain
CHECK_DEADLOCK FALSE
