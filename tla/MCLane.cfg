SPECIFICATION FairSpec
CONSTANTS
    Exchanges = {x1, x2}
    Cancellable = {x1}
    MaxLanes = 2
    Ceiling = 1
    Deadlines = {1, 2}
    MaxHops = 1
INVARIANTS AnsweredOnce SlotsCounted CancelReaches
PROPERTIES EveryExchangeAnswered
CHECK_DEADLOCK FALSE
