SPECIFICATION FairSpec
CONSTANTS
    Ops = {o1, o2}
    Abandonable = {o1, o2}
    Roles = {"normal", "management"}
    Budget = 4
    MayBreak = TRUE
INVARIANTS LedgerMirrorsLibpq CreditedToOwner BatonTellsTruth
PROPERTIES OperationsEnd
CHECK_DEADLOCK FALSE
