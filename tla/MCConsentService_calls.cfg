\* Two calls at a time, three updates, a failed invalidation and a death.
SPECIFICATION FairSpec
CONSTANTS
    Workers = {w1, w2}
    Types <- MCTypes
    Default <- MCDefault
    None = None
    MaxUpdates = 3
    MaxErrors = 1
    MaxCrashes = 1
INVARIANTS TypeOK ConsentWasGiven SerialConsentIsKept
PROPERTIES StaleEnds
