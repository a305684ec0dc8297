SPECIFICATION Spec
CONSTANTS
    Websockets <- TwoWebsockets
    Servers <- TwoServers
    Nobody = Nobody
    NoServer = NoServer
    MaxChanges = 2
    JoinTimesOut = FALSE
PROPERTIES
    LoopServes
CHECK_DEADLOCK FALSE
