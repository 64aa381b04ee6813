\* Not a run: TLC stops at the first of these properties the code violates; take its name
\* out of the list to see the next.
SPECIFICATION FairSpec
CONSTANTS
    Workers = {w1, w2}
    Checkouts = {c1, c2}
    Signed = {c2}
    Operations = {"generate_checkout_link", "update_order", "change_tier"}
    None = None
    MaxDeliveries = 2
    MaxUpdates = 1
    MaxCrashes = 1
\* Every bound may be reached: nothing more happens.
CHECK_DEADLOCK FALSE
INVARIANTS CreditedOnce ConfirmedOnce PaidOrderIsCredited DeathLosesNoConfirmation
PROPERTIES TerminalIsFinal PaidIsNotUndone PaymentIsCredited
