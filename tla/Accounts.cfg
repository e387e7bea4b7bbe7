CONSTANTS
    Requests = {r1, r2}
    Buckets = {"free", "full"}
    Limit <- MCLimit
    LastSlot = 1
    Subs = {1, 2}
    LlmKeys = {1}
    MaxRequests = 3
SPECIFICATION Spec
INVARIANTS QuotaIsExact ByokHasKey
PROPERTIES EndedStaysEnded
SYMMETRY Symmetry
CHECK_DEADLOCK FALSE
