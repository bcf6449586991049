\* Breakpoints and moved PCs; the CPU does not sleep.
SPECIFICATION Spec
CONSTANTS
    Sim = sim
    None = none
    Client = {c1, c2}
    Address = {0, 2}
    ResetVector = 0
    HandlerEntry = 2
    Counts = {2}
    SleepCycles = {1}
    Elapsed = {1}
    HistoryBound = 2
    Calls = {"start", "resume", "pause", "load", "set_cpu", "breakpoint"}
    MaySleep = FALSE
SYMMETRY ClientSymmetry
PROPERTY BreaksHit
