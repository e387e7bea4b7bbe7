CONSTANTS
    Guests = {g1}
    Trips = {1, 2}
    Runs = {1, 2, 3}
    Reqs = {p1, p2}
    Account = account
    None = none
    FullLimit = 1
    PartialLimit = 1
    MaxCrashes = 1
SPECIFICATION Spec
INVARIANTS OverrunIsBounded
PROPERTIES ClaimedStays CleanupSparesLive GuestsAreRemoved
CHECK_DEADLOCK FALSE
