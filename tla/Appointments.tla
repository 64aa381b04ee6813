----------------------------- MODULE Appointments -----------------------------
(***************************************************************************)
(* The bookings of one service slot and the messages they cause:           *)
(* apps/services/services/booking_service.py, the views and signals of     *)
(* apps/services, and the celery tasks of apps/messaging/tasks.py.         *)
(*                                                                         *)
(* Every appointment here asks for the same slot, which lies inside an     *)
(* availability window.  Creating and canceling are database transactions  *)
(* (READ COMMITTED, no row is locked by a read), the PUT, PATCH and DELETE *)
(* that AppointmentViewSet inherits are not.  Celery runs a beat task in   *)
(* any free process, also while an earlier run of it is still going.       *)
(***************************************************************************)
EXTENDS Integers, FiniteSets

CONSTANTS
    Workers,        \* web workers, each serving one request
    Processes,      \* celery processes, each running one task
    Appointments,   \* the rows that requests may create
    Kinds,          \* which reminders are looked at: "24h_before", "2h_before"
    Capacity,       \* AvailabilityWindow.capacity, or the default 1
    Operations,     \* what happens besides booking and dispatching
    None,
    Horizon,        \* bound on the clock, see below
    MaxUpdates,     \* bound on the staff's PUT, PATCH and DELETE requests
    MaxCrashes      \* bound on workers and processes that die

ASSUME AppointmentsAssumption ==
    /\ IsFiniteSet(Workers) /\ IsFiniteSet(Processes) /\ IsFiniteSet(Appointments)
    /\ Workers # {}
    /\ Kinds \subseteq {"24h_before", "2h_before"}
    /\ Capacity \in Nat \ {0}
    /\ None \notin Appointments
    /\ Horizon \in 0 .. 7
    /\ MaxUpdates \in Nat /\ MaxCrashes \in Nat

(* A ScheduledMessage: its appointment, its reminder_type and the how      *)
(* manieth of these it is.  An appointment gets one per kind whenever it   *)
(* becomes confirmed.                                                      *)
Rows == Appointments \X Kinds \X (1 .. MaxUpdates + 1)

VARIABLES
    clock,          \* how near the slot is, see Due and Window
    appointment,    \* Appointment.status, "none" while there is no row
    scheduled,      \* ScheduledMessage.status, "none" while there is no row
    queue,          \* appointments with a send_booking_confirmation task waiting
    confirmed,      \* appointments whose customer got a booking confirmation
    delivered,      \* how often each scheduled reminder went out
    reminded,       \* how often the batch tasks sent each reminder
    batches,        \* runs of the two batch tasks in this interval
    ctx,            \* each worker's request
    task,           \* each process's task
    updates, crashes

tables == <<appointment, scheduled>>
sent == <<confirmed, delivered, reminded>>
bounds == <<updates, crashes>>
vars == <<clock, tables, queue, sent, batches, ctx, task, bounds>>

Statuses == {"pending", "confirmed", "done", "canceled", "no_show"}
MessageStatuses == {"pending", "sent", "failed", "canceled"}

(* 0 more than 25 h ahead, 1 25 to 24 h, 2 24 to 23 h, 3 23 to 2.5 h,      *)
(* 4 2.5 to 2 h, 5 2 to 1.5 h, 6 less, 7 the slot has begun.               *)
Clock == 0 .. 7

(* ScheduledMessage.objects.due_for_sending, of reminders scheduled for    *)
(* exactly 24 and 2 hours before the slot.                                 *)
Due(kind) == IF kind = "24h_before" THEN clock >= 2 ELSE clock >= 5

(* The intervals in which the two batch tasks look for appointments.       *)
Window(kind) == IF kind = "24h_before" THEN clock \in {1, 2} ELSE clock \in {4, 5}

(* can_cancel looks at is_upcoming too.                                    *)
Upcoming == clock < 7

Active == {a \in Appointments : appointment[a] \in {"pending", "confirmed"}}

(* A request: what it does, how far it is, its appointment, the status its *)
(* object will save and the one pre_save read.                             *)
NoRequest == [op |-> "none", at |-> "idle", of |-> None, status |-> "pending",
              previous |-> "pending"]

Request == [op : {"create", "cancel", "update"},
            at : {"create", "commit", "save", "update", "post_save", "schedule"},
            of : Appointments, status : Statuses, previous : Statuses \cup {"none"}] \cup {NoRequest}

(* A task: what it does, the reminders or appointments still to do, and    *)
(* the reminder whose transaction is open.                                 *)
Task == [op : {"dispatch", "24h_before", "2h_before", "idle"},
         rows : SUBSET Rows, batch : SUBSET Appointments,
         at : {"next", "sent", "failed"}, row : Rows \cup {None}]

NoTask == [op |-> "idle", rows |-> {}, batch |-> {}, at |-> "next", row |-> None]

Init ==
    /\ clock = 0
    /\ appointment = [a \in Appointments |-> "none"]
    /\ scheduled = [r \in Rows |-> "none"]
    /\ queue = {}
    /\ confirmed = {}
    /\ delivered = [r \in Rows |-> 0]
    /\ reminded = [x \in Appointments \X Kinds |-> 0]
    /\ batches = [k \in Kinds |-> 0]
    /\ ctx = [w \in Workers |-> NoRequest]
    /\ task = [p \in Processes |-> NoTask]
    /\ updates = 0 /\ crashes = 0

Begin(w, op, at, a, status) ==
    ctx' = [ctx EXCEPT ![w] = [NoRequest EXCEPT !.op = op, !.at = at, !.of = a,
                                                !.status = status]]

End(w) == ctx' = [ctx EXCEPT ![w] = NoRequest]

-----------------------------------------------------------------------------
(* BookingService                                                          *)

(* check_capacity: max(0, capacity - count)                                *)
check_capacity == IF Cardinality(Active) < Capacity THEN Capacity - Cardinality(Active) ELSE 0

(* Mutant of create_appointment: what is left is not looked at.            *)
create_appointment_unchecked(w) ==
    /\ ctx[w].at = "idle"
    /\ Upcoming
    /\ \E a \in Appointments, status \in {"pending", "confirmed"} :
        /\ appointment[a] = "none"
        /\ \A v \in Workers : ctx[v].of # a
        /\ Begin(w, "create", "create", a, status)
    /\ UNCHANGED <<clock, tables, queue, sent, batches, task, bounds>>

(* The slot is checked, then the row inserted.  A start in the past is not *)
(* refused, but no reminder is scheduled for one.                          *)
create_appointment(w) ==
    /\ ctx[w].at = "idle"
    /\ check_capacity > 0
    /\ \E a \in Appointments, status \in {"pending", "confirmed"} :
        /\ appointment[a] = "none"
        /\ \A v \in Workers : ctx[v].of # a
        /\ Begin(w, "create", "create", a, status)
    /\ UNCHANGED <<clock, tables, queue, sent, batches, task, bounds>>

(* cancel: the appointment is read and can_cancel asked.                   *)
cancel_appointment(w) ==
    /\ "cancel_appointment" \in Operations
    /\ ctx[w].at = "idle"
    /\ Upcoming
    /\ \E a \in Active : Begin(w, "cancel", "save", a, "canceled")
    /\ UNCHANGED <<clock, tables, queue, sent, batches, task, bounds>>

(* PUT and PATCH: AppointmentDetailSerializer takes any status, or leaves  *)
(* the one that was read.  DELETE only stamps the row, which every query   *)
(* still finds, by saving all of it with the status that was read.         *)
update(w) ==
    /\ ctx[w].at = "idle"
    /\ updates < MaxUpdates
    /\ updates' = updates + 1
    /\ \E a \in Appointments, status \in Statuses :
        /\ appointment[a] # "none"
        /\ Begin(w, "update", "save", a, status)
    /\ UNCHANGED <<clock, tables, queue, sent, batches, task, crashes>>

-----------------------------------------------------------------------------
(* Appointment.save()                                                      *)

(* track_appointment_status_change                                         *)
pre_save(w) ==
    /\ ctx[w].at = "save"
    /\ ctx' = [ctx EXCEPT ![w].at = "update", ![w].previous = appointment[ctx[w].of]]
    /\ UNCHANGED <<clock, tables, queue, sent, batches, task, bounds>>

(* The UPDATE of a PUT, PATCH or DELETE, visible at once; every field is   *)
(* written.                                                                *)
save(w) ==
    /\ ctx[w].at = "update"
    /\ ctx[w].op = "update"
    /\ appointment' = [appointment EXCEPT ![ctx[w].of] = ctx[w].status]
    /\ ctx' = [ctx EXCEPT ![w].at = "post_save"]
    /\ UNCHANGED <<clock, scheduled, queue, sent, batches, task, bounds>>

(* schedule_appointment_reminders: one row per kind that is not due yet.   *)
NextRow(a, kind) ==
    <<a, kind, 1 + Cardinality({n \in 1 .. MaxUpdates + 1 : scheduled[<<a, kind, n>>] # "none"})>>

schedule_appointment_reminders(a) ==
    LET new == {NextRow(a, kind) : kind \in {k \in Kinds : ~ Due(k)}}
    IN  scheduled' = [r \in Rows |-> IF r \in new THEN "pending" ELSE scheduled[r]]

(* The UPDATE of the appointment's pending reminders.                      *)
CancelReminders(a) ==
    scheduled' = [r \in Rows |-> IF r[1] = a /\ scheduled[r] = "pending"
                                 THEN "canceled" ELSE scheduled[r]]

(* send_appointment_messages of a new row: inside the transaction of       *)
(* create_appointment a confirmation is queued, which a process may take   *)
(* before the commit.                                                      *)
queue_confirmation(w) ==
    /\ ctx[w].at = "create"
    /\ queue' = IF ctx[w].status = "confirmed" THEN queue \cup {ctx[w].of} ELSE queue
    /\ ctx' = [ctx EXCEPT ![w].at = "commit"]
    /\ UNCHANGED <<clock, tables, sent, batches, task, bounds>>

(* The commit of create_appointment: the row and its reminders.            *)
commit(w) ==
    /\ ctx[w].at = "commit"
    /\ appointment' = [appointment EXCEPT ![ctx[w].of] = ctx[w].status]
    /\ IF ctx[w].status = "confirmed" THEN schedule_appointment_reminders(ctx[w].of)
       ELSE UNCHANGED scheduled
    /\ End(w)
    /\ UNCHANGED <<clock, queue, sent, batches, task, bounds>>

(* Mutant of commit_cancel: the reminders stay.                            *)
commit_cancel_only(w) ==
    /\ ctx[w].at = "update"
    /\ ctx[w].op = "cancel"
    /\ appointment' = [appointment EXCEPT ![ctx[w].of] = "canceled"]
    /\ UNCHANGED scheduled
    /\ End(w)
    /\ UNCHANGED <<clock, queue, sent, batches, task, bounds>>

(* cancel_appointment's UPDATE, its post_save and its commit: nothing else *)
(* sees what is between them.                                              *)
commit_cancel(w) ==
    /\ ctx[w].at = "update"
    /\ ctx[w].op = "cancel"
    /\ appointment' = [appointment EXCEPT ![ctx[w].of] = "canceled"]
    /\ IF ctx[w].previous # "canceled" THEN CancelReminders(ctx[w].of) ELSE UNCHANGED scheduled
    /\ End(w)
    /\ UNCHANGED <<clock, queue, sent, batches, task, bounds>>

(* send_appointment_messages after a PUT, PATCH or DELETE, a statement     *)
(* later than the UPDATE.                                                  *)
send_appointment_messages(w) ==
    /\ ctx[w].at = "post_save"
    /\ \/ /\ ctx[w].status = "confirmed" /\ ctx[w].previous # "confirmed"
          /\ queue' = queue \cup {ctx[w].of}
          /\ ctx' = [ctx EXCEPT ![w].at = "schedule"]
          /\ UNCHANGED scheduled
       \/ /\ ctx[w].status = "canceled" /\ ctx[w].previous # "canceled"
          /\ CancelReminders(ctx[w].of)
          /\ End(w)
          /\ UNCHANGED queue
       \/ /\ ctx[w].status \notin {"confirmed", "canceled"} \/ ctx[w].status = ctx[w].previous
          /\ End(w)
          /\ UNCHANGED <<queue, scheduled>>
    /\ UNCHANGED <<clock, appointment, sent, batches, task, bounds>>

schedule_reminders(w) ==
    /\ ctx[w].at = "schedule"
    /\ schedule_appointment_reminders(ctx[w].of)
    /\ End(w)
    /\ UNCHANGED <<clock, appointment, queue, sent, batches, task, bounds>>

-----------------------------------------------------------------------------
(* apps/messaging/tasks.py                                                 *)

Idle(p) == task[p].op = "idle"

(* A task that has nothing left to do ends.                                *)
Continue(p, rest) ==
    task' = [task EXCEPT ![p] = IF rest.rows = {} /\ rest.batch = {} THEN NoTask ELSE rest]

DueRows == {r \in Rows : scheduled[r] = "pending" /\ Due(r[2])}

(* Mutant of process_scheduled_messages: what failed is tried again.       *)
process_scheduled_messages_retrying(p) ==
    /\ Idle(p)
    /\ LET rows == {r \in Rows : scheduled[r] \in {"pending", "failed"} /\ Due(r[2])}
       IN  /\ rows # {}
           /\ task' = [task EXCEPT ![p].op = "dispatch", ![p].rows = rows]
    /\ UNCHANGED <<clock, tables, queue, sent, batches, ctx, bounds>>

(* The rows that are due are read once; nothing claims them.               *)
process_scheduled_messages(p) ==
    /\ Idle(p)
    /\ DueRows # {}
    /\ task' = [task EXCEPT ![p].op = "dispatch", ![p].rows = DueRows]
    /\ UNCHANGED <<clock, tables, queue, sent, batches, ctx, bounds>>

(* A transaction begins and the message goes to the provider, which        *)
(* accepts it; or send_message raises, for want of consent, for the rate   *)
(* limit or for the provider's refusal, or after the provider accepted.    *)
send_message(p) ==
    /\ task[p].op = "dispatch"
    /\ task[p].at = "next"
    /\ \E r \in task[p].rows, raises \in BOOLEAN :
        /\ task' = [task EXCEPT ![p].row = r, ![p].rows = @ \ {r},
                                ![p].at = IF raises THEN "failed" ELSE "sent"]
        /\ \/ delivered' = [delivered EXCEPT ![r] = @ + 1]
           \/ raises /\ UNCHANGED delivered
    /\ UNCHANGED <<clock, tables, queue, confirmed, reminded, batches, ctx, bounds>>

(* Mutants of mark_sent: a status of Message; also for one that raised.    *)
mark_sent_delivered(p) ==
    /\ task[p].at = "sent"
    /\ scheduled' = [scheduled EXCEPT ![task[p].row] = "delivered"]
    /\ Continue(p, [task[p] EXCEPT !.at = "next", !.row = None])
    /\ UNCHANGED <<clock, appointment, queue, sent, batches, ctx, bounds>>

mark_sent_anyway(p) ==
    /\ task[p].at \in {"sent", "failed"}
    /\ scheduled' = [scheduled EXCEPT ![task[p].row] = "sent"]
    /\ Continue(p, [task[p] EXCEPT !.at = "next", !.row = None])
    /\ UNCHANGED <<clock, appointment, queue, sent, batches, ctx, bounds>>

(* mark_sent and the commit.  The row is not looked at again: a row that   *)
(* was canceled in the meantime says sent afterwards.                      *)
mark_sent(p) ==
    /\ task[p].at = "sent"
    /\ scheduled' = [scheduled EXCEPT ![task[p].row] = "sent"]
    /\ Continue(p, [task[p] EXCEPT !.at = "next", !.row = None])
    /\ UNCHANGED <<clock, appointment, queue, sent, batches, ctx, bounds>>

(* Mutant of mark_failed: the row is left as it was.                       *)
mark_failed_not(p) ==
    /\ task[p].at = "failed"
    /\ Continue(p, [task[p] EXCEPT !.at = "next", !.row = None])
    /\ UNCHANGED <<clock, tables, queue, sent, batches, ctx, bounds>>

(* The rollback, and mark_failed after it.                                 *)
mark_failed(p) ==
    /\ task[p].at = "failed"
    /\ scheduled' = [scheduled EXCEPT ![task[p].row] = "failed"]
    /\ Continue(p, [task[p] EXCEPT !.at = "next", !.row = None])
    /\ UNCHANGED <<clock, appointment, queue, sent, batches, ctx, bounds>>

(* send_24h_appointment_reminders runs once an hour, which is how long     *)
(* each of its two intervals lasts; send_2h_appointment_reminders runs     *)
(* every 15 minutes, twice in each of its half hours.                      *)
RunsPerInterval(kind) == IF kind = "24h_before" THEN 1 ELSE 2

send_reminders(p, kind) ==
    /\ Idle(p)
    /\ Window(kind)
    /\ batches[kind] < RunsPerInterval(kind)
    /\ batches' = [batches EXCEPT ![kind] = @ + 1]
    /\ LET rest == {a \in Appointments : appointment[a] = "confirmed"}
       IN  Continue(p, [NoTask EXCEPT !.op = kind, !.batch = rest])
    /\ UNCHANGED <<clock, tables, queue, sent, ctx, bounds>>

send_appointment_reminders(p) ==
    /\ "send_reminders" \in Operations
    /\ \E kind \in Kinds : send_reminders(p, kind)

(* One appointment of a batch, as it was when the batch began: a reminder, *)
(* or none for want of consent or because send_message raised.             *)
send_reminder(p) ==
    /\ \E a \in task[p].batch :
        /\ \/ reminded' = [reminded EXCEPT ![<<a, task[p].op>>] = @ + 1]
           \/ UNCHANGED reminded
        /\ Continue(p, [task[p] EXCEPT !.batch = @ \ {a}])
    /\ UNCHANGED <<clock, tables, queue, confirmed, delivered, batches, ctx, bounds>>

(* An appointment that is not there (yet) is an error and no reason to     *)
(* retry.  A send that raises is retried three times; then the task ends.  *)
send_booking_confirmation(p) ==
    /\ Idle(p)
    /\ \E a \in queue :
        /\ queue' = queue \ {a}
        /\ \/ appointment[a] # "none" /\ confirmed' = confirmed \cup {a}
           \/ (appointment[a] = "none" \/ "refuse" \in Operations) /\ UNCHANGED confirmed
    /\ UNCHANGED <<clock, tables, delivered, reminded, batches, ctx, task, bounds>>

-----------------------------------------------------------------------------
(* A worker or a process dies; an open transaction is rolled back.         *)
crash(w) ==
    /\ ctx[w].at # "idle"
    /\ crashes < MaxCrashes
    /\ crashes' = crashes + 1
    /\ End(w)
    /\ UNCHANGED <<clock, tables, queue, sent, batches, task, updates>>

crash_task(p) ==
    /\ ~ Idle(p)
    /\ crashes < MaxCrashes
    /\ crashes' = crashes + 1
    /\ task' = [task EXCEPT ![p] = NoTask]
    /\ UNCHANGED <<clock, tables, queue, sent, batches, ctx, updates>>

tick ==
    /\ clock < Horizon
    /\ clock' = clock + 1
    /\ batches' = [k \in Kinds |-> 0]
    /\ UNCHANGED <<tables, queue, sent, ctx, task, bounds>>

Proceed(w) ==
    \/ queue_confirmation(w) \/ commit(w)
    \/ pre_save(w) \/ commit_cancel(w)
    \/ save(w) \/ send_appointment_messages(w) \/ schedule_reminders(w)

Work(p) == send_message(p) \/ mark_sent(p) \/ mark_failed(p) \/ send_reminder(p)

Next ==
    \/ \E w \in Workers :
        \/ create_appointment(w) \/ cancel_appointment(w) \/ update(w)
        \/ Proceed(w) \/ crash(w)
    \/ \E p \in Processes :
        \/ process_scheduled_messages(p)
        \/ send_appointment_reminders(p) \/ send_booking_confirmation(p)
        \/ Work(p) \/ crash_task(p)
    \/ tick

Spec == Init /\ [][Next]_vars

(* Requests and tasks run to their ends, and beat starts                   *)
(* process_scheduled_messages every minute.                                *)
Fairness ==
    /\ \A w \in Workers : WF_vars(Proceed(w))
    /\ \A p \in Processes : WF_vars(Work(p))
    /\ WF_vars(\E p \in Processes : process_scheduled_messages(p))

FairSpec == Spec /\ Fairness
=============================================================================
