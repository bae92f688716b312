\* Two hosts, or one host and its reconnection: the threads interleave.
SPECIFICATION FairSpec
CONSTANTS
    Conn = {c1, c2}
    Nonce = {a1}
    MaxSeq = 1
    MaxInFlight = 1
    None = None
    NoFrame = NoFrame
    Garbage = Garbage
    Respond <- MCRespond
    SessionKeybase <- MCSessionKeybase
PROPERTY LatestConnection
CHECK_DEADLOCK FALSE
