\* Stamps in units of two ticks, slots in units of three: frames of two ticks
\* lose one, frames of four gain one.
SPECIFICATION TimelineSpec
CONSTANTS
    StampUnit = 2
    SleepUnit = 3
    Lead = 2
    Gap = 2
    Spans = {2, 4}
    Skews <- ClockSkews
    MaxDelay = 1
    MaxUptime = 2
    MaxTime = 11
INVARIANTS NeverFarAhead NeverBehind
CHECK_DEADLOCK FALSE
