\* Not a run: TLC stops at the first of these properties the code violates; take its name
\* out of the list to see the next.
SPECIFICATION Spec
CONSTANTS
    Workers = {w1, w2}
    Types <- MCTypes
    Default <- MCDefault
    None = None
    MaxUpdates = 2
    MaxErrors = 0
    MaxCrashes = 0
INVARIANTS ConsentIsKept ChangesAreLogged
PROPERTIES ConsentIsHeeded
