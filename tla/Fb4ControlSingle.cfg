\* One connection with a longer queue: order, the output flag, liveness.
SPECIFICATION FairSpec
CONSTANTS
    Conn = {c1}
    Nonce = {a1, a2}
    MaxSeq = 3
    MaxInFlight = 3
    None = None
    NoFrame = NoFrame
    Garbage = Garbage
    Respond <- MCRespond
    SessionKeybase <- MCSessionKeybase
INVARIANTS NoGarbage KeyAgreement OutputAgrees
PROPERTIES FramesInOrder FrameDelivered AckNotStarved ThreadEnds
CHECK_DEADLOCK FALSE
