------------------------------ MODULE MCCampaigns ------------------------------
EXTENDS Campaigns, TLC

Symmetry == Permutations(Workers) \cup Permutations(Customers)
=============================================================================
