---------------------------- MODULE MCOsrmPrepare ----------------------------
EXTENDS OsrmPrepare, TLC

\* The requests, users and cities are interchangeable.
Symmetry == Permutations(Request) \cup Permutations(User) \cup Permutations(City)
=============================================================================
