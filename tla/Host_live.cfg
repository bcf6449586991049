\* Pause, wait and free.
SPECIFICATION FairSpec
CONSTANTS
    Sim = sim
    None = none
    Client = {c1, c2}
    Address = {0}
    ResetVector = 0
    HandlerEntry = 0
    Counts = {2}
    SleepCycles = {1}
    Elapsed = {}
    HistoryBound = 1
    Calls = {"start", "free", "resume", "pause", "access", "wait_stopped"}
    MaySleep = TRUE
PROPERTIES PauseStops WaitersReturn RunProgresses
CHECK_DEADLOCK FALSE
