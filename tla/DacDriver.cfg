\* Three frames, a buffer of five points, batches of at most two, two failures.
SPECIFICATION FairSpec
CONSTANTS
    Cap = 5
    MaxBatch = 2
    MaxFrame = 3
    FrameLen <- MCFrameLen
    MaxFaults = 2
INVARIANTS NeverOverfull CyclicOrder StaleBounded
PROPERTIES KeepsPlaying LatestShown
CHECK_DEADLOCK FALSE
