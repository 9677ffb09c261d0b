SPECIFICATION ReactorFairSpec
CONSTANTS
    Requesters = {r1, r2}
    Poller = poller
    Workers = {w1, w2}
PROPERTY EveryRequestPumped
CHECK_DEADLOCK FALSE
