SPECIFICATION Spec
CONSTANTS
    t1 = t1
    t2 = t2
    Threads = {t1, t2}
    NoThread = NoThread
    CommandSet <- AllOperations
    BadDelays = FALSE
SYMMETRY Symmetry
INVARIANTS
    TypeOK
    TransientHasOwner
    SignalledWhenFree
PROPERTIES
    LockGuardsStore
    UpdatesAreAtomic
