\* Not a run: TLC stops at the first of these properties the code violates; take its name
\* out of the list to see the next.
SPECIFICATION Spec
CONSTANTS
    Workers = {w1, w2}
    Processes = {p1}
    Appointments = {a1}
    Kinds = {"2h_before"}
    Capacity = 1
    Operations = {"cancel_appointment", "send_reminders"}
    None = None
    Horizon = 7
    MaxUpdates = 1
    MaxCrashes = 0
\* Every bound may be reached: nothing more happens.
CHECK_DEADLOCK FALSE
INVARIANTS ConfirmedIsTold CanceledIsQuiet RemindedOnce
