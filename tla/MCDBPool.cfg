SPECIFICATION FairSpec
CONSTANTS
    Connections = {c1}
    Transactions = {t1, t2, t3}
    None = None
INVARIANTS LeaseConserved LeaseReturnedClean
PROPERTIES WaiterServed
CHECK_DEADLOCK FALSE
