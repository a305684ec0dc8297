SPECIFICATION Spec
CONSTANTS
    t1 = t1
    Threads = {t1}
    NoThread = NoThread
    CommandSet <- AllOperations
    BadDelays = TRUE
INVARIANTS
    NeverWedged
PROPERTIES
    OneCallerLifecycle
