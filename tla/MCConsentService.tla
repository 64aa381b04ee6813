--------------------------- MODULE MCConsentService ---------------------------
EXTENDS ConsentService, TLC

(* promotional_messages is FALSE at first, reminder_messages TRUE.         *)
MCTypes == {"reminder_messages", "promotional_messages"}
MCDefault == [t \in MCTypes |-> t = "reminder_messages"]

Symmetry == Permutations(Workers)
=============================================================================
