\* Two requests at a time execute one campaign; one statement raises and one request dies.
SPECIFICATION Spec
CONSTANTS
    Workers = {w1, w2}
    Customers = {k1, k2}
    IsAbTest = TRUE
    MaxErrors = 1
    MaxCrashes = 1
SYMMETRY Symmetry
INVARIANTS TypeOK SendsAreBounded DeliveriesAreCounted
