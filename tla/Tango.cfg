SPECIFICATION Spec
CONSTANTS
    Device = device
    Background = {b1, b2}
    NoThread = nobody
    BadDelays = TRUE
    MaxCommands = 3
    MaxBacklog = 1
INVARIANTS
    TypeOK
    ClientCurrent
PROPERTIES
    AnsweredIsDone
    DeviceIsFreed
CHECK_DEADLOCK FALSE
