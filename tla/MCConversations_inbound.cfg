\* A message delivered twice, the second time while the first is at work or after its answer was
\* lost, two processes, a handoff of each conversation and a death.
SPECIFICATION FairSpec
CONSTANTS
    Workers = {w1, w2}
    Processes = {p1, p2}
    Messages = {m1}
    None = None
    MaxDeliveries = 2
    MaxHandoffs = 1
    MaxCrashes = 1
\* Everything may be said.
CHECK_DEADLOCK FALSE
INVARIANTS TypeOK RepliesAreBounded TakenOverIsQuiet
PROPERTIES QueuedIsDealtWith
