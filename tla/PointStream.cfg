\* All frames of up to three points over the corners and the centre; the
\* count of the longer ones wraps.
SPECIFICATION PointSpec
CONSTANTS
    Center = 2
    Coord <- MCCoord
    Color = {0, 255}
    MaxPoints = 3
    CountMod = 8
INVARIANTS RoundTrip BodyRecovered DacInRange
CHECK_DEADLOCK FALSE
