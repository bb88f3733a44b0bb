--------------------------- MODULE MCCreditLedger ---------------------------
\* A small CreditLedger for TLC: two users, three transactions at once, a debit
\* larger than the starter credits and a column that overflows at 3.
EXTENDS CreditLedger, TLC

MCAmounts == {-2, -1, 2}

Symmetry == Permutations(Users) \cup Permutations(Txns)
=============================================================================
