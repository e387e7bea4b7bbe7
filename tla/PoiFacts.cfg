CONSTANTS
    Clients = {c1, c2}
    Workers = {w1, w2}
    Null = null
    MaxOpens = 3
    MaxPolls = 2
    MaxAsks = 3
    MaxCrashes = 1
SPECIFICATION Spec
INVARIANTS PendingIsExplained
PROPERTIES SettledStays FactsAreResolved
CHECK_DEADLOCK FALSE
