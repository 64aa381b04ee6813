---------------------------- MODULE MCWalletService ----------------------------
EXTENDS WalletServiceProps, TLC

Symmetry == Permutations(TxnIds) \cup Permutations(Workers) \cup Permutations(ActiveUsers)
=============================================================================
