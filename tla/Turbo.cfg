\* Every kind of network, two hosts; the counter wraps after three frames, and
\* the offset of the fourth fragment wraps.
SPECIFICATION Spec
CONSTANTS
    NFrags <- FrameSizes
    MaxInNet = 2
    MaxCopies = 1
    CounterMod = 3
    Chunk = 2
    OffsetMod = 5
    MaxPending = 1
INVARIANTS WholeFrames OneFrameBodies FragmentsUsedOnce AllForwarded
PROPERTY NeverBack
CHECK_DEADLOCK FALSE
