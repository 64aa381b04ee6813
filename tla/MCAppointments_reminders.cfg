\* Two runs of the beat task, a booking that changes, and one death.
SPECIFICATION FairSpec
CONSTANTS
    Workers = {w1}
    Processes = {p1, p2}
    Appointments = {a1}
    Kinds = {"24h_before"}
    Capacity = 1
    Operations = {"cancel_appointment", "send_reminders", "refuse"}
    None = None
    Horizon = 2
    MaxUpdates = 1
    MaxCrashes = 1
\* Everything may be sent, canceled or over: nothing more happens.
CHECK_DEADLOCK FALSE
INVARIANTS TypeOK DeliveriesAreBounded SentWasDelivered CanceledIsQuiet
PROPERTIES DueRemindersEnd
