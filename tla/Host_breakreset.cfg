\* A reset between resume and the first instruction.
SPECIFICATION Spec
CONSTANTS
    Sim = sim
    None = none
    Client = {c1}
    Address = {0, 2}
    ResetVector = 0
    HandlerEntry = 2
    Counts = {2}
    SleepCycles = {1}
    Elapsed = {}
    HistoryBound = 3
    Calls = {"start", "resume", "pause", "reset", "breakpoint"}
    MaySleep = FALSE
PROPERTY BreaksHit
