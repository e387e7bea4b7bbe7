CONSTANTS
    a1 = a1
    a2 = a2
    n1 = n1
    n2 = n2
    p1 = p1
    p2 = p2
    Routes = {a1, n1, n2}
    Pois = {p1, p2}
    StopsOf <- MCStopsOf
    CaseId <- MCCaseId
    First <- MCFirst
    Letters <- MCLetters
    NewLetters <- MCNewLetters
    Builders = {w1, w2}
    Reqs = {q1, q2}
    MaxPins = 1
    MaxLikes = 1
    MaxVersions = 3
    MaxVotes = 2
SPECIFICATION Spec
PROPERTIES RebuildKeepsPins BansOutliveRebuilds VersionsAreALog
SYMMETRY Symmetry
CHECK_DEADLOCK FALSE
