SPECIFICATION JobHubFairSpec
CONSTANTS
    JobIds = {j1, j2}
    MaxData = 2
INVARIANTS CompletedIsFinal
PROPERTIES ReportsNeverGoBack EveryChangePublished
CHECK_DEADLOCK FALSE
