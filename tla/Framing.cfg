\* Four messages and two bytes between them, read at most seven bytes at a time.
SPECIFICATION Spec
CONSTANTS
    Sizes <- MCSizes
    HeaderLen = 3
    MaxStray = 2
    MaxRead = 7
INVARIANT NothingLost
PROPERTY IsPipe
CHECK_DEADLOCK FALSE
