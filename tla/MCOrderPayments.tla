--------------------------- MODULE MCOrderPayments ---------------------------
EXTENDS OrderPaymentsProps, TLC

Symmetry ==
    Permutations(Workers) \cup Permutations(Signed) \cup Permutations(Checkouts \ Signed)
=============================================================================
