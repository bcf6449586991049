\* An AVR DD on an external clock whose rate nobody has set.
SPECIFICATION Spec
CONSTANTS
    Parts <- ExternalParts
    Count <- CountOf
    Window = 3
    Elapsed = {0, 1}
    Far = 4
    CcpWindow = 2
    Clocks <- ClocksOf
    Frequencies = {1, 2}
    StartFrequency = 1
    Outside = {"EXTRF"}
    Late = 4
    OscRates <- RatesOf
    SlowRate = 2
    Divisors <- DivisorsOf
    ResetDivisor = 1
    ResetFrqsel = 1
    Prescalings = {0}
    Slowest = 0
    Fused = 0
    Given = {1}
    ChangeCycles = 1
    LongTime = 5
    ShortTime = 3
    Retry = 2
    Pages = {0, 1}
    Words = {0}
    FlashPages = {0, 1, 2, 3}
    Offsets = {0}
    Values = {0}
    OpTime = 2
    SectionOf <- Sections
    MaxCount = 2
    Tops = {0, 2}
    Scaled = {2}
    Divs = {1, 2}
    Base = 2
    Lateness = 1
PROPERTY MainClockKept
