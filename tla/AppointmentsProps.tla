--------------------------- MODULE AppointmentsProps ---------------------------
EXTENDS Appointments

(* The rows, requests and tasks keep their types (services/models.py,      *)
(* messaging/models.py); a row is never "none" again.                      *)
TypeOK ==
    /\ clock \in Clock
    /\ appointment \in [Appointments -> Statuses \cup {"none"}]
    /\ scheduled \in [Rows -> MessageStatuses \cup {"none"}]
    /\ queue \subseteq Appointments /\ confirmed \subseteq Appointments
    /\ delivered \in [Rows -> Nat] /\ reminded \in [Appointments \X Kinds -> Nat]
    /\ batches \in [Kinds -> Nat]
    /\ ctx \in [Workers -> Request]
    /\ task \in [Processes -> Task]
    /\ updates \in 0 .. MaxUpdates /\ crashes \in 0 .. MaxCrashes

(* The check of the capacity and the insert are not one: with n workers    *)
(* the slot may be overbooked by n - 1.  Nothing else overbooks it but a   *)
(* staff update that revives an appointment, one per update, since that    *)
(* asks for no capacity (create_appointment, AppointmentViewSet.update).   *)
OverbookingIsBounded ==
    Cardinality(Active) <= Capacity + Cardinality(Workers) - 1 + updates

(* Nothing claims a reminder before it is sent and a process may die       *)
(* after sending it: it goes out at most once per process that runs the    *)
(* task, and once more per death (process_scheduled_messages).             *)
DeliveriesAreBounded ==
    \A r \in Rows : delivered[r] <= Cardinality(Processes) + crashes

(* A reminder that says it was sent went to the provider, whichever runs   *)
(* of process_scheduled_messages were at it and whatever canceled it.      *)
SentWasDelivered ==
    \A r \in Rows : scheduled[r] = "sent" => delivered[r] > 0

(* A reminder that is due does not stay pending: it is sent, it fails or   *)
(* it is canceled, whatever dies on the way (process_scheduled_messages).  *)
DueRemindersEnd ==
    \A r \in Rows : (r \in DueRows) ~> scheduled[r] # "pending"

AtRest == (\A w \in Workers : ctx[w] = NoRequest) /\ \A p \in Processes : Idle(p)

(* requirements.md:578, "WHEN an Appointment is canceled before a          *)
(* scheduled reminder, THE Tulia System SHALL cancel the pending reminder  *)
(* message", where nothing dies between the two UPDATEs                    *)
(* (send_appointment_messages).  It holds for one request at a time.  With *)
(* two, an update that confirms the appointment schedules its reminders    *)
(* after a cancellation that came in between.                              *)
CanceledIsQuiet ==
    AtRest /\ crashes = 0 =>
        \A r \in Rows : appointment[r[1]] = "canceled" => scheduled[r] # "pending"

-----------------------------------------------------------------------------
(* What the documents say and the code does not do.                        *)

(* tasks.py:406, "Send booking confirmation when appointment is            *)
(* created/confirmed", where the provider refuses nothing.  The task is    *)
(* queued inside the transaction of create_appointment and gives up when   *)
(* it does not find the row yet.                                           *)
ConfirmedIsTold ==
    AtRest /\ crashes = 0 =>
        \A a \in Appointments : appointment[a] = "confirmed" => a \in confirmed \cup queue

(* requirements.md:575, "WHEN an Appointment start_dt is 2 hours away, THE *)
(* Tulia System SHALL send a second reminder message".  The scheduled row  *)
(* and two to four runs of the batch task each send it.                    *)
RemindedOnce ==
    \A a \in Appointments, k \in Kinds :
        updates = 0 /\ crashes = 0 => reminded[<<a, k>>] + delivered[<<a, k, 1>>] <= 1
=============================================================================
