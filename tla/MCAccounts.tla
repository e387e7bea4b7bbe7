----------------------------- MODULE MCAccounts -----------------------------
EXTENDS Accounts, TLC
MCLimit == [b \in Buckets |-> 1]
Symmetry == Permutations(Requests)
=============================================================================
