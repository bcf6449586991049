\* Two clients control a threaded or a manual instance.
SPECIFICATION Spec
CONSTANTS
    Sim = sim
    None = none
    Client = {c1, c2}
    Address = {0}
    ResetVector = 0
    HandlerEntry = 0
    Counts = {2}
    SleepCycles = {1}
    Elapsed = {}
    HistoryBound = 3
    Calls = {"start", "free", "resume", "pause", "step", "run_cycles", "reset", "load", "watchpoint", "access", "wait_stopped"}
    MaySleep = TRUE
SYMMETRY ClientSymmetry
INVARIANTS TypeOK EventBeforeReturn LimitsEndWithRun StopIsPosted RunCounts
CHECK_DEADLOCK FALSE
