\* The IRQ network and the peripherals that wait on cycle timers or drive pins.
SPECIFICATION Spec
CONSTANTS
    Parts <- AllParts
    Irqs = {"a", "b"}
    Notifies = {"m"}
    None = "none"
    MaxDepth = 5
    MaxHooks = 2
    Room = 2
    TxCounts = 4
    Samples = {1, 2}
    MaxPolls = 3
    Rates = {1, 2}
    Counts = {0, 1, 2}
    Overshoot = 2
    Functions = {1, 2, 3}
    Fields = {0, 1, 2}
    PinOf <- PinsOf
    NoPin = "none"
    FifoSize = 2
    TxqSize = 2
    Divs = {1, 2}
    MaxCount = 2
    Lateness = 1
    Longest = 9
    Bytes = {1, 2}
    Enables <- EnablesOf
    Lengths = {1, 2}
    Channels = {1, 2}
    Users = {1, 2}
    Generators = {1}
    Signals = {1, 2}
    LogRoom = 4
    Scale = 2
    Width = 64
    MaxNow = 1
    MaxChanges = 5
    Files <- AllFiles
    NoStamp = 9
    PlayRoom = 4
    Enough = 3
    Low = 3
    MaxCycle = 2
    Address = {0, 1}
    Burst = 1
INVARIANTS TypeOK PartiesAreTold DataIsWhole WorkIsTimed PinsFollowFunctions
PROPERTIES RaiseReturns CountsEveryCycle
