\* Flags polled and cleared with I clear leave stale entries.
SPECIFICATION Spec
CONSTANTS
    Part <- Polled
    Vector = {1, 2, 3}
    Capacity = 3
    StackSize = 3
    CcpWindow = 0
INVARIANT PendingMeansScheduled
