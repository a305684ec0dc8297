SPECIFICATION Spec
CONSTANTS
    t1 = t1
    t2 = t2
    Threads = {t1, t2}
    NoThread = NoThread
    CommandSet <- FewOperations
    BadDelays = TRUE
    MaxFaults = 1
INVARIANTS
    TypeOK
    ReadableUnlessCut
    BegunCanRead
    IntactUnlessMidway
    CoherentUnlessSilent
PROPERTIES
    AtomicUnlessHarmed
    CallsReturn
