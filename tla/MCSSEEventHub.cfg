SPECIFICATION FairSpec
CONSTANTS
    e1 = e1
    e2 = e2
    all = all
    some = some
    Entities = {e1, e2}
    Subscribers = {all, some}
    Follows <- MCFollows
    Listed = {e1}
    MaxSequence = 3
INVARIANTS NothingMissed QueueWellFormed
PROPERTIES NeverGoesBack EveryEventRead
CHECK_DEADLOCK FALSE
