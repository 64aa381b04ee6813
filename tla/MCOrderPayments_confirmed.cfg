\* Staff updates, deliveries and checkouts race; one session's events are refused;
\* nothing dies.
SPECIFICATION Spec
CONSTANTS
    Workers = {w1, w2}
    Checkouts = {c1, c2}
    Signed = {c2}
    Operations = {"generate_checkout_link", "redeliver", "process_failed_payment", "update_order", "change_tier"}
    None = None
    MaxDeliveries = 2
    MaxUpdates = 2
    MaxCrashes = 0
SYMMETRY Symmetry
\* The customer may not pay and the provider gives up: nothing more happens.
CHECK_DEADLOCK FALSE
INVARIANTS PaidOrderIsConfirmed
