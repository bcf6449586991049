\* Every kind of part: two watchdogs, three clock controllers, four memory controllers,
\* the timers A and B.
SPECIFICATION Spec
CONSTANTS
    Parts <- AllParts
    Count <- CountOf
    Window = 3
    Elapsed = {0, 1}
    Far = 4
    CcpWindow = 2
    Clocks <- ClocksOf
    Frequencies = {1, 2}
    StartFrequency = 1
    Outside = {"EXTRF"}
    Late = 4
    OscRates <- RatesOf
    SlowRate = 2
    Divisors <- DivisorsOf
    ResetDivisor = 1
    ResetFrqsel = 1
    Prescalings = {0, 1, 2, 3}
    Slowest = 2
    Fused = 1
    Given = {3, 4}
    ChangeCycles = 3
    LongTime = 5
    ShortTime = 3
    Retry = 2
    Pages = {0, 1}
    Words = {0}
    FlashPages = {0, 1, 2, 3}
    Offsets = {0}
    Values = {0}
    OpTime = 2
    SectionOf <- Sections
    MaxCount = 2
    Tops = {0, 2}
    Scaled = {2}
    Divs = {1, 2}
    Base = 2
    Lateness = 1
INVARIANTS TypeOK  ReadyRequested HungIsReset ResetIsArmed CcpIsExact ClockFollowsRegisters
PROPERTY ChangesFollowSequence
