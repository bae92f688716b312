\* Both transports, two failures, two frames after the blank one.
SPECIFICATION Spec
CONSTANTS
    ConfigMsgs = 2
    MaxFrame = 2
    MaxFaults = 2
PROPERTIES OwnDeathOnly DeadNoticed StreamsLatest ReadersEnd
