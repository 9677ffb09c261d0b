SPECIFICATION RuntimeFairSpec
CONSTANTS
    Jobs = {j1, j2, j3}
INVARIANTS FrameOutlivesJob
PROPERTIES EveryJobRuns ShutdownEnds
CHECK_DEADLOCK FALSE
