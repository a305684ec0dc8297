SPECIFICATION Spec
CONSTANTS
    MaxSubscribers = 2
    CommandSet <- FewCommands
    Resting <- On
    MaxChanges = 4
INVARIANTS
    TypeOK
    
    NoRepeats
PROPERTIES
    StopReturns
CHECK_DEADLOCK FALSE
