\* Bursts of up to two cycles on a pool of two slots for three timers, one of
\* which a reset handler arms; callbacks arm other timers ahead of the clock.
SPECIFICATION FairSpec
CONSTANTS
    s1 = s1
    s2 = s2
    s3 = s3
    ta = ta
    tb = tb
    tc = tc
    NoTimer = NoTimer
    NoSlot = NoSlot
    Slot <- Slots2
    Timer <- Timers3
    Delays = {1, 3}
    Periods = {0, 1, 3}
    Costs = {1, 2}
    Halts = {0, 1}
    MaxHalt = 1
    RunLimit = 2
    DefaultSleep = 4
    ResetTimer = ta
    ResetDelay = 2
    MayDuplicate = FALSE
    Slack = 3
    MaxCycle = 8
INVARIANTS
    TypeOK
    SlotsConserved
    Prompt
PROPERTIES
    ImplementsDeadlineQueue
    ProcessReturns
