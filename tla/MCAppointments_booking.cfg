\* Four bookings of a slot for one, two requests at a time, one revived by staff.
SPECIFICATION Spec
CONSTANTS
    Workers = {w1, w2}
    Processes = {p1}
    Appointments = {a1, a2, a3, a4}
    Kinds = {}
    Capacity = 1
    Operations = {"cancel_appointment"}
    None = None
    Horizon = 0
    MaxUpdates = 1
    MaxCrashes = 1
SYMMETRY Symmetry
\* The slot may be full and everything said: nothing more happens.
CHECK_DEADLOCK FALSE
INVARIANTS OverbookingIsBounded
