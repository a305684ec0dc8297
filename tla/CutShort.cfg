SPECIFICATION Spec
CONSTANTS
    t1 = t1
    Threads = {t1}
    NoThread = NoThread
    CommandSet <- FewOperations
    BadDelays = FALSE
    MaxFaults = 1
INVARIANT StatePersists
