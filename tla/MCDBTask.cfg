SPECIFICATION FairSpec
CONSTANTS
    Consumers = {c1, c2}
    None = None
INVARIANTS ResumedOnce
PROPERTIES ImplementsFuture SuspendedResumes
CHECK_DEADLOCK FALSE
