\* A periodic timer that returns while the pool is used up.
SPECIFICATION Spec
CONSTANTS
    s1 = s1
    s2 = s2
    s3 = s3
    ta = ta
    tb = tb
    tc = tc
    NoTimer = NoTimer
    NoSlot = NoSlot
    Slot <- Slots2
    Timer <- Timers2
    Delays = {0, 1, 2}
    Periods = {0, 1, 3}
    Costs = {1, 2}
    Halts = {0}
    MaxHalt = 0
    RunLimit = 1
    DefaultSleep = 3
    ResetTimer = ta
    ResetDelay = 2
    MayDuplicate = FALSE
    Slack = 2
    MaxCycle = 5
PROPERTY PeriodicStaysPending
