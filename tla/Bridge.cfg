\* One host streaming two frames to a DAC with room for two points.
SPECIFICATION Spec
CONSTANTS
    Conn = {c1}
    Nonce = {a1}
    MaxSeq = 2
    MaxInFlight = 1
    None = None
    NoFrame = NoFrame
    Garbage = Garbage
    Respond <- MCRespond
    SessionKeybase <- MCSessionKeybase
    Cap = 2
    MaxBatch = 2
    MaxFrame = 2
    FrameLen <- MCFrameLen
    MaxFaults = 1
PROPERTY IsRelay
CHECK_DEADLOCK FALSE
