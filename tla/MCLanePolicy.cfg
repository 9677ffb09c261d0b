\* An unthrottled lane, one with a rate and one whose interval is above the
\* maximum.  The clock may stop at its bound.
SPECIFICATION Spec
CONSTANTS
    Intervals = {0, 2, 5}
    ErrorBackoffs = {0, 3}
    RetryAfters = {1, 4}
    Floor = 1
    Maximum = 4
    Start = 7
    MaxTime = 20
INVARIANTS
    RateHonoured
PROPERTIES
    NoClaimInPause
    PauseNotCompounded
CHECK_DEADLOCK FALSE
