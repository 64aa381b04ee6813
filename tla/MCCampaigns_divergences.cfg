\* Not a run: TLC stops at the first of these properties the code violates; take its name
\* out of the list to see the next.
SPECIFICATION Spec
CONSTANTS
    Workers = {w1, w2}
    Customers = {k1, k2}
    IsAbTest = TRUE
    MaxErrors = 0
    MaxCrashes = 0
INVARIANTS CountsCustomers VariantsAreListed
