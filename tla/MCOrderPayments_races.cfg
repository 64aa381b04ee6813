\* Two sessions of one order, repeated and failing events, and one delivery that
\* dies anywhere; no staff.
SPECIFICATION FairSpec
CONSTANTS
    Workers = {w1, w2}
    Checkouts = {c1, c2}
    Signed = {}
    Operations = {"generate_checkout_link", "redeliver", "process_failed_payment"}
    None = None
    MaxDeliveries = 2
    MaxUpdates = 0
    MaxCrashes = 1
\* The customer may not pay and the provider gives up: nothing more happens.
CHECK_DEADLOCK FALSE
INVARIANTS TypeOK PaidOrderIsCredited
PROPERTIES PaymentIsCredited PaymentMarksPaid
