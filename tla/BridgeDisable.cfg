\* One host sends a frame and then disables the output.
SPECIFICATION Spec
CONSTANTS
    Conn = {c1}
    Nonce = {a1}
    MaxSeq = 1
    MaxInFlight = 1
    None = None
    NoFrame = NoFrame
    Garbage = Garbage
    Respond <- MCRespond
    SessionKeybase <- MCSessionKeybase
    Cap = 3
    MaxBatch = 1
    MaxFrame = 1
    FrameLen <- MCFrameLen
    MaxFaults = 0
PROPERTY DisableDarkens
CHECK_DEADLOCK FALSE
