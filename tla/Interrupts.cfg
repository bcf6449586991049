\* A classic MCU and two with CPUINT.
SPECIFICATION Spec
CONSTANTS
    Part <- Parts
    Vector = {1, 2, 3}
    Capacity = 3
    StackSize = 3
    CcpWindow = 2
INVARIANTS
    TypeOK
    PendingIsQueued
    ArmedForService
    LevelsNest
PROPERTIES
    OnlyResetStrands
    AcknowledgedComesLast
\* A core that sleeps with I clear is done.
CHECK_DEADLOCK FALSE
