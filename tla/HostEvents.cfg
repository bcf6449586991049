\* A plain and a coalesced subscription of one pin; a queue of two events,
\* read one at a time or at once.
SPECIFICATION Spec
CONSTANTS
    Sub <- Subs
    Pin <- Pins
    PinOf <- PinOfSub
    Window <- WindowOf
    QueueSize = 2
    PollSizes = {1, 3}
    PipeSize = 1
    Modulus = 2
    CycleModulus = 16
    MaxCycle = 2
    MaxDropped = 0
VIEW Live
INVARIANTS
    TypeOK
    ReadableIffPollable
    LastValueWins
    StopShowsPins
PROPERTY
    ImplementsLossyQueue
