SPECIFICATION Spec
CONSTANTS
    t1 = t1
    t2 = t2
    Threads = {t1, t2}
    NoThread = NoThread
    Orphan = Orphan
    Servers <- TwoServers
    CommandSet <- OneCommand
    BadDelays = TRUE
    Outlasts = TRUE
    MaxPending = 1
    MaxFaults = 1
INVARIANTS
    TypeOK
    SettledIsShown
    IntactUnlessBroken
PROPERTIES
    AtomicUnlessBroken
    CallsReturn
