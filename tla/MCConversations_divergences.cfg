\* Not a run: TLC stops at the first of these properties the code violates; take its name
\* out of the list to see the next.
SPECIFICATION FairSpec
CONSTANTS
    Workers = {w1}
    Processes = {p1}
    Messages = {m1, m2}
    None = None
    MaxDeliveries = 2
    MaxHandoffs = 1
    MaxCrashes = 1
\* Every bound may be reached: nothing more happens.
CHECK_DEADLOCK FALSE
INVARIANTS EscalatedIsHandedOff CustomersAreUnique
PROPERTIES HandoffIsKept QueuedIsFinished
