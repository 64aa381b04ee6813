\* Not a run: TLC stops at the first of these properties the code violates; take its name
\* out of the list to see the next.
SPECIFICATION Spec
CONSTANTS
    Workers = {w1, w2}
    Processes = {p1, p2}
    UsageLimit = 1
    Cycle = 1
    MaxRequests = 3
    MaxRuns = 2
    MaxCrashes = 0
    Horizon = 2
\* Every bound may be reached: nothing more happens.
CHECK_DEADLOCK FALSE
INVARIANTS UpgradeMakesWallet TiersAgree DiscountIsLimited
PROPERTIES DowngradeFindsNoMoney ActiveHasNextBilling
