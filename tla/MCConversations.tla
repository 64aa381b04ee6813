---------------------------- MODULE MCConversations ----------------------------
EXTENDS ConversationsProps, TLC

Symmetry == Permutations(Workers) \cup Permutations(Processes)
=============================================================================
