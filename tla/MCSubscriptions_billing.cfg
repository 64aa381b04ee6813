\* Two processes bill one subscription that changes, and one death.
SPECIFICATION Spec
CONSTANTS
    Workers = {w1}
    Processes = {p1, p2}
    UsageLimit = 1
    Cycle = 1
    MaxRequests = 2
    MaxRuns = 4
    MaxCrashes = 1
    Horizon = 2
SYMMETRY Symmetry
\* Every bound may be reached: nothing more happens.
CHECK_DEADLOCK FALSE
INVARIANTS TypeOK ChargesAreBounded ChargesAreRecorded DiscountIsBounded TenantFollowsSubscription PassedDatesWereMissed
