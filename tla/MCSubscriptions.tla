---------------------------- MODULE MCSubscriptions ----------------------------
EXTENDS SubscriptionsProps, TLC

Symmetry == Permutations(Workers) \cup Permutations(Processes)
=============================================================================
