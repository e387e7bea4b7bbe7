----------------------------- MODULE MCTripData -----------------------------
EXTENDS TripData, TLC
CONSTANTS a1, a2, n1, n2, p1, p2
MCStopsOf == [r \in Routes |-> CASE r = a1 -> <<p1>> [] r = n1 -> <<p2, p1>> [] OTHER -> <<p2>>]
MCCaseId == [r \in Routes |-> IF r \in {a1, a2} THEN "A" ELSE "N-A"]
MCFirst == <<a1>>
MCLetters == <<"A">>
MCNewLetters == <<"N-A">>
Symmetry == Permutations(Reqs) \union Permutations(Builders)
=============================================================================
