SPECIFICATION Spec
CONSTANTS
    r1 = r1
    r2 = r2
    Threads = {r1, r2}
    NoThread = NoThread
    CommandSet <- FewCommands
    BadDelays = FALSE
SYMMETRY Symmetry
INVARIANTS
    TypeOK
    AloneIsAnsweredRight
    AcceptedAloneIsCarriedOut
