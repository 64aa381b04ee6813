-------------------------- MODULE Appointments_proofs --------------------------
(***************************************************************************)
(* What holds of the bookings of a slot and of their reminders for any     *)
(* number of workers and processes and any capacity.                       *)
(***************************************************************************)
EXTENDS AppointmentsProps, FiniteSetTheorems, TLAPS

-----------------------------------------------------------------------------
(* The rows, requests and tasks keep their types.                          *)

LEMMA Nothing ==
  /\ NoRequest \in Request /\ NoRequest.at = "idle" /\ NoRequest.op = "none"
  /\ NoTask \in Task /\ NoTask.op = "idle" /\ NoTask.at = "next" /\ NoTask.row = None
  /\ NoTask.rows = {} /\ NoTask.batch = {}
BY DEF NoRequest, Request, Statuses, NoTask, Task

LEMMA BeginType ==
  ASSUME ctx \in [Workers -> Request], NEW w \in Workers,
         NEW op \in {"create", "cancel", "update"}, NEW at \in {"create", "save"},
         NEW a \in Appointments, NEW status \in Statuses, Begin(w, op, at, a, status)
  PROVE  /\ ctx' \in [Workers -> Request]
         /\ ctx'[w].op = op /\ ctx'[w].at = at /\ ctx'[w].of = a
         /\ \A v \in Workers : v # w => ctx'[v] = ctx[v]
<1> DEFINE r == [NoRequest EXCEPT !.op = op, !.at = at, !.of = a, !.status = status]
<1>1. r \in Request /\ r.op = op /\ r.at = at /\ r.of = a
  BY DEF NoRequest, Request, Statuses
<1>2. ctx' = [ctx EXCEPT ![w] = r]
  BY DEF Begin
<1> HIDE DEF r
<1>3. ctx' \in [Workers -> Request] /\ ctx'[w] = r /\ \A v \in Workers : v # w => ctx'[v] = ctx[v]
  BY <1>1, <1>2
<1> QED BY <1>1, <1>3

LEMMA EndType ==
  ASSUME ctx \in [Workers -> Request], NEW w \in Workers, End(w)
  PROVE  /\ ctx' \in [Workers -> Request] /\ ctx'[w] = NoRequest
         /\ \A v \in Workers : v # w => ctx'[v] = ctx[v]
BY Nothing DEF End

LEMMA MoveType ==
  ASSUME ctx \in [Workers -> Request], NEW w \in Workers,
         NEW at \in {"commit", "post_save", "schedule"}, ctx' = [ctx EXCEPT ![w].at = at],
         ctx[w].at # "idle"
  PROVE  /\ ctx' \in [Workers -> Request] /\ ctx'[w].at = at /\ ctx'[w].op = ctx[w].op
         /\ \A v \in Workers : v # w => ctx'[v] = ctx[v]
<1>1. [ctx[w] EXCEPT !.at = at] \in Request
  BY Nothing DEF Request
<1>2. ctx' = [ctx EXCEPT ![w] = [ctx[w] EXCEPT !.at = at]]
  OBVIOUS
<1>3. ctx[w] \in Request
  OBVIOUS
<1> QED BY <1>1, <1>2, <1>3, Nothing DEF Request, NoRequest

(* A request under way has an appointment.                                 *)
LEMMA RequestOf ==
  ASSUME ctx \in [Workers -> Request], NEW w \in Workers, ctx[w].at # "idle"
  PROVE  /\ ctx[w].of \in Appointments /\ ctx[w].status \in Statuses
         /\ ctx[w].op \in {"create", "cancel", "update"}
BY Nothing DEF Request

(* The rest of a task is a task, which ends when nothing is left.          *)
LEMMA ContinueType ==
  ASSUME task \in [Processes -> Task], NEW p \in Processes, NEW rest \in Task, Continue(p, rest)
  PROVE  /\ task' \in [Processes -> Task]
         /\ task'[p] = IF rest.rows = {} /\ rest.batch = {} THEN NoTask ELSE rest
         /\ \A q \in Processes : q # p => task'[q] = task[q]
BY Nothing DEF Continue

(* The rows that schedule_appointment_reminders and CancelReminders write. *)
LEMMA ScheduledType ==
  ASSUME scheduled \in [Rows -> MessageStatuses \cup {"none"}], NEW a \in Appointments,
         schedule_appointment_reminders(a) \/ CancelReminders(a)
  PROVE  scheduled' \in [Rows -> MessageStatuses \cup {"none"}]
<1>1. CASE schedule_appointment_reminders(a)
  <2> DEFINE new == {NextRow(a, kind) : kind \in {k \in Kinds : ~ Due(k)}}
  <2>1. scheduled' = [r \in Rows |-> IF r \in new THEN "pending" ELSE scheduled[r]]
    BY <1>1 DEF schedule_appointment_reminders
  <2> HIDE DEF new
  <2> QED BY <2>1 DEF MessageStatuses
<1>2. CASE CancelReminders(a)
  BY <1>2 DEF CancelReminders, MessageStatuses
<1> QED BY <1>1, <1>2

(* The requests of a worker, before and after its first step.              *)
Called(w) == create_appointment(w) \/ cancel_appointment(w) \/ update(w)

LEMMA CalledType ==
  ASSUME TypeOK, NEW w \in Workers, Called(w)
  PROVE  /\ \E op \in {"create", "cancel", "update"}, at \in {"create", "save"},
               a \in Appointments, status \in Statuses :
              /\ Begin(w, op, at, a, status) /\ ctx[w].at = "idle"
              /\ IF op = "create" THEN check_capacity > 0 /\ at = "create" ELSE at = "save"
              /\ IF op = "update" THEN updates' = updates + 1 /\ updates < MaxUpdates
                 ELSE UNCHANGED updates
         /\ UNCHANGED <<clock, tables, queue, sent, batches, task, crashes>>
<1>1. CASE create_appointment(w)
  BY <1>1 DEF create_appointment, Statuses, bounds
<1>2. CASE cancel_appointment(w)
  BY <1>2 DEF cancel_appointment, Active, Statuses, bounds
<1>3. CASE update(w)
  BY <1>3 DEF update
<1> QED BY <1>1, <1>2, <1>3 DEF Called

(* TypeOK holds in every reachable state (services/models.py,              *)
(* messaging/models.py).                                                   *)
THEOREM TypeCorrect == Spec => []TypeOK
<1>1. Init => TypeOK
  <2> SUFFICES ASSUME Init PROVE TypeOK
    OBVIOUS
  <2> USE DEF Init
  <2>1. clock \in Clock /\ batches \in [Kinds -> Nat]
    BY DEF Clock
  <2>2. ctx \in [Workers -> Request] /\ task \in [Processes -> Task]
    BY Nothing
  <2>3. updates \in 0 .. MaxUpdates /\ crashes \in 0 .. MaxCrashes
    BY AppointmentsAssumption
  <2> QED BY <2>1, <2>2, <2>3 DEF TypeOK
<1>2. TypeOK /\ [Next]_vars => TypeOK'
  <2> SUFFICES ASSUME TypeOK, [Next]_vars PROVE TypeOK'
    OBVIOUS
  <2> USE DEF tables, sent, bounds
  <2>0. /\ ctx \in [Workers -> Request] /\ task \in [Processes -> Task]
        /\ appointment \in [Appointments -> Statuses \cup {"none"}]
        /\ scheduled \in [Rows -> MessageStatuses \cup {"none"}]
    BY DEF TypeOK
  <2>1. ASSUME NEW w \in Workers, Called(w) PROVE TypeOK'
    <3>1. /\ ctx' \in [Workers -> Request] /\ updates' \in 0 .. MaxUpdates
          /\ UNCHANGED <<clock, tables, queue, sent, batches, task, crashes>>
      BY <2>0, <2>1, CalledType, BeginType, AppointmentsAssumption DEF TypeOK
    <3> QED BY <3>1 DEF TypeOK
  <2>2. ASSUME NEW w \in Workers, queue_confirmation(w) PROVE TypeOK'
    <3>1. ctx' \in [Workers -> Request]
      BY <2>0, <2>2, MoveType DEF queue_confirmation
    <3>2. queue' \subseteq Appointments
      <4>1. ctx[w].of \in Appointments
        BY <2>0, <2>2, RequestOf DEF queue_confirmation
      <4> QED BY <2>2, <4>1 DEF queue_confirmation, TypeOK
    <3> QED BY <2>2, <3>1, <3>2 DEF queue_confirmation, TypeOK
  <2>3. ASSUME NEW w \in Workers, commit(w) \/ commit_cancel(w) PROVE TypeOK'
    <3>1. ctx' \in [Workers -> Request]
      BY <2>0, <2>3, EndType DEF commit, commit_cancel
    <3>2. ctx[w].of \in Appointments /\ ctx[w].status \in Statuses
      BY <2>0, <2>3, RequestOf DEF commit, commit_cancel
    <3>3. scheduled' \in [Rows -> MessageStatuses \cup {"none"}]
      BY <2>0, <2>3, <3>2, ScheduledType DEF commit, commit_cancel
    <3>4. appointment' \in [Appointments -> Statuses \cup {"none"}]
      BY <2>0, <2>3, <3>2 DEF commit, commit_cancel, Statuses
    <3> QED BY <2>3, <3>1, <3>3, <3>4 DEF commit, commit_cancel, TypeOK
  <2>4. ASSUME NEW w \in Workers, pre_save(w) PROVE TypeOK'
    <3>1. ctx[w] \in Request /\ ctx[w] # NoRequest /\ ctx[w].of \in Appointments
      BY <2>0, <2>4, RequestOf DEF pre_save, NoRequest
    <3>2. appointment[ctx[w].of] \in Statuses \cup {"none"}
      BY <2>0, <3>1
    <3>3. [ctx[w] EXCEPT !.at = "update", !.previous = appointment[ctx[w].of]] \in Request
      BY <3>1, <3>2 DEF Request
    <3>4. ctx' = [ctx EXCEPT ![w] = [ctx[w] EXCEPT !.at = "update",
                                                   !.previous = appointment[ctx[w].of]]]
      BY <2>0, <2>4 DEF pre_save
    <3>5. ctx' \in [Workers -> Request]
      BY <2>0, <3>3, <3>4
    <3> QED BY <2>4, <3>5 DEF pre_save, TypeOK
  <2>5. ASSUME NEW w \in Workers, save(w) PROVE TypeOK'
    <3>1. ctx' \in [Workers -> Request]
      BY <2>0, <2>5, MoveType DEF save
    <3>2. ctx[w].of \in Appointments /\ ctx[w].status \in Statuses
      BY <2>0, <2>5, RequestOf DEF save
    <3>3. appointment' \in [Appointments -> Statuses \cup {"none"}]
      BY <2>0, <2>5, <3>2 DEF save
    <3> QED BY <2>5, <3>1, <3>3 DEF save, TypeOK
  <2>6. ASSUME NEW w \in Workers, send_appointment_messages(w) PROVE TypeOK'
    <3>0. ctx[w].of \in Appointments /\ ctx[w].at = "post_save"
      BY <2>0, <2>6, RequestOf DEF send_appointment_messages
    <3>1. ctx' \in [Workers -> Request]
      <4>1. End(w) \/ ctx' = [ctx EXCEPT ![w].at = "schedule"]
        BY <2>6 DEF send_appointment_messages
      <4> QED BY <2>0, <3>0, <4>1, MoveType, EndType
    <3>2. scheduled' \in [Rows -> MessageStatuses \cup {"none"}]
      BY <2>0, <2>6, <3>0, ScheduledType DEF send_appointment_messages
    <3>3. queue' \subseteq Appointments
      BY <2>6, <3>0 DEF send_appointment_messages, TypeOK
    <3> QED BY <2>6, <3>1, <3>2, <3>3 DEF send_appointment_messages, TypeOK
  <2>7. ASSUME NEW w \in Workers, schedule_reminders(w) PROVE TypeOK'
    <3>1. ctx' \in [Workers -> Request]
      BY <2>0, <2>7, EndType DEF schedule_reminders
    <3>2. scheduled' \in [Rows -> MessageStatuses \cup {"none"}]
      BY <2>0, <2>7, RequestOf, ScheduledType DEF schedule_reminders
    <3> QED BY <2>7, <3>1, <3>2 DEF schedule_reminders, TypeOK
  <2>8. ASSUME NEW p \in Processes, process_scheduled_messages(p) PROVE TypeOK'
    <3>1. DueRows \in SUBSET Rows /\ task[p] \in Task
      BY <2>0 DEF DueRows
    <3>2. [task[p] EXCEPT !.op = "dispatch", !.rows = DueRows] \in Task
      BY <3>1 DEF Task
    <3>3. task' = [task EXCEPT ![p] = [task[p] EXCEPT !.op = "dispatch", !.rows = DueRows]]
      BY <2>0, <2>8 DEF process_scheduled_messages
    <3>4. task' \in [Processes -> Task]
      BY <2>0, <3>2, <3>3
    <3> QED BY <2>8, <3>4 DEF process_scheduled_messages, TypeOK
  <2>9. ASSUME NEW p \in Processes, send_message(p) PROVE TypeOK'
    BY <2>9 DEF send_message, TypeOK, Task
  <2>10. ASSUME NEW p \in Processes, mark_sent(p) \/ mark_failed(p) PROVE TypeOK'
    <3>1. [task[p] EXCEPT !.at = "next", !.row = None] \in Task
      BY <2>0 DEF Task
    <3>2. task' \in [Processes -> Task]
      BY <2>0, <2>10, <3>1, ContinueType DEF mark_sent, mark_failed
    <3>3. scheduled' \in [Rows -> MessageStatuses \cup {"none"}]
      BY <2>0, <2>10 DEF mark_sent, mark_failed, MessageStatuses
    <3> QED BY <2>10, <3>2, <3>3 DEF mark_sent, mark_failed, TypeOK
  <2>11. ASSUME NEW p \in Processes, send_appointment_reminders(p) PROVE TypeOK'
    <3>1. PICK kind \in Kinds : send_reminders(p, kind)
      BY <2>11 DEF send_appointment_reminders
    <3> DEFINE rest == {a \in Appointments : appointment[a] = "confirmed"}
    <3>2. [NoTask EXCEPT !.op = kind, !.batch = rest] \in Task
      BY AppointmentsAssumption DEF NoTask, Task
    <3>3. task' \in [Processes -> Task]
      BY <2>0, <3>1, <3>2, ContinueType DEF send_reminders
    <3> QED BY <3>1, <3>3 DEF send_reminders, TypeOK
  <2>12. ASSUME NEW p \in Processes, send_reminder(p) PROVE TypeOK'
    <3>1. PICK a \in task[p].batch : /\ \/ reminded' = [reminded EXCEPT ![<<a, task[p].op>>] = @ + 1]
                                        \/ UNCHANGED reminded
                                     /\ Continue(p, [task[p] EXCEPT !.batch = @ \ {a}])
      BY <2>12 DEF send_reminder
    <3>2. [task[p] EXCEPT !.batch = @ \ {a}] \in Task
      BY <2>0 DEF Task
    <3>3. task' \in [Processes -> Task]
      BY <2>0, <3>1, <3>2, ContinueType
    <3>4. reminded' \in [Appointments \X Kinds -> Nat]
      BY <3>1 DEF TypeOK
    <3> QED BY <2>12, <3>3, <3>4 DEF send_reminder, TypeOK
  <2>13. ASSUME NEW p \in Processes, send_booking_confirmation(p) PROVE TypeOK'
    BY <2>13 DEF send_booking_confirmation, TypeOK
  <2>14. ASSUME NEW w \in Workers, crash(w) PROVE TypeOK'
    BY <2>0, <2>14, EndType, AppointmentsAssumption DEF crash, TypeOK
  <2>15. ASSUME NEW p \in Processes, crash_task(p) PROVE TypeOK'
    BY <2>15, Nothing, AppointmentsAssumption DEF crash_task, TypeOK
  <2>16. CASE tick
    BY <2>16, AppointmentsAssumption DEF tick, TypeOK, Clock
  <2>17. CASE UNCHANGED vars
    BY <2>17 DEF vars, TypeOK
  <2> QED
    BY <2>1, <2>2, <2>3, <2>4, <2>5, <2>6, <2>7, <2>8, <2>9, <2>10, <2>11, <2>12, <2>13, <2>14,
       <2>15, <2>16, <2>17 DEF Next, Proceed, Work, Called
<1> QED BY <1>1, <1>2, PTL DEF Spec

-----------------------------------------------------------------------------
(* How far a slot may be overbooked.                                       *)

(* The requests that are about to take the slot: a booking that found it   *)
(* free, an update that may revive an appointment.                         *)
Taking == {w \in Workers : \/ ctx[w].at \in {"create", "commit"}
                           \/ ctx[w].op = "update" /\ ctx[w].at \in {"save", "update"}}

BookingInv ==
    Cardinality(Active) + Cardinality(Taking) <= Capacity + Cardinality(Workers) - 1 + updates

LEMMA Sets ==
  /\ IsFiniteSet(Active) /\ Cardinality(Active) \in Nat
  /\ IsFiniteSet(Taking) /\ Cardinality(Taking) \in Nat
<1>1. Active \in SUBSET Appointments /\ Taking \in SUBSET Workers
  BY DEF Active, Taking
<1> QED BY <1>1, AppointmentsAssumption, FS_Subset, FS_CardinalityType

LEMMA SetsNext ==
  /\ IsFiniteSet(Active') /\ Cardinality(Active') \in Nat
  /\ IsFiniteSet(Taking') /\ Cardinality(Taking') \in Nat /\ Taking' \in SUBSET Workers
<1>1. Active' \in SUBSET Appointments /\ Taking' \in SUBSET Workers
  BY DEF Active, Taking
<1> QED BY <1>1, AppointmentsAssumption, FS_Subset, FS_CardinalityType

(* A part of a set with at most one more, and a set with one less.         *)
LEMMA AtMostOneMore ==
  ASSUME NEW S, IsFiniteSet(S), NEW x, NEW T \in SUBSET (S \cup {x})
  PROVE  Cardinality(T) <= Cardinality(S) + 1
<1>1. IsFiniteSet(S \cup {x}) /\ Cardinality(S \cup {x}) <= Cardinality(S) + 1
  <2>1. Cardinality(S) \in Nat
    BY FS_CardinalityType
  <2> QED BY <2>1, FS_AddElement
<1>2. Cardinality(T) <= Cardinality(S \cup {x})
  BY <1>1, FS_Subset
<1>3. Cardinality(T) \in Nat /\ Cardinality(S \cup {x}) \in Nat /\ Cardinality(S) \in Nat
  BY <1>1, FS_Subset, FS_CardinalityType
<1> QED BY <1>1, <1>2, <1>3

LEMMA OneLess ==
  ASSUME NEW S, IsFiniteSet(S), NEW x \in S, NEW T \in SUBSET (S \ {x})
  PROVE  Cardinality(T) <= Cardinality(S) - 1
<1>1. IsFiniteSet(S \ {x}) /\ Cardinality(S \ {x}) = Cardinality(S) - 1
  BY FS_RemoveElement
<1> QED BY <1>1, FS_Subset

LEMMA Fewer ==
  ASSUME NEW S, IsFiniteSet(S), NEW T \in SUBSET S
  PROVE  Cardinality(T) <= Cardinality(S)
BY FS_Subset

LEMMA BookingInit == Init => BookingInv
<1> SUFFICES ASSUME Init PROVE BookingInv
  OBVIOUS
<1>1. Active = {} /\ Taking = {}
  BY Nothing DEF Init, Active, Taking
<1>2. Cardinality(Workers) \in Nat /\ Capacity \in Nat \ {0} /\ updates = 0
  BY AppointmentsAssumption, FS_CardinalityType DEF Init
<1> QED BY <1>1, <1>2, FS_EmptySet DEF BookingInv

LEMMA BookingNext == TypeOK /\ TypeOK' /\ BookingInv /\ [Next]_vars => BookingInv'
<1> SUFFICES ASSUME TypeOK, TypeOK', BookingInv, [Next]_vars PROVE BookingInv'
  OBVIOUS
<1> USE Sets, SetsNext DEF BookingInv
<1>0. /\ ctx \in [Workers -> Request] /\ appointment \in [Appointments -> Statuses \cup {"none"}]
      /\ updates \in Nat /\ Capacity \in Nat /\ Cardinality(Workers) \in Nat
  BY AppointmentsAssumption, FS_CardinalityType DEF TypeOK
<1>1. ASSUME NEW w \in Workers, Called(w) PROVE BookingInv'
  <2>1. PICK op \in {"create", "cancel", "update"}, at \in {"create", "save"},
             a \in Appointments, status \in Statuses :
              /\ Begin(w, op, at, a, status) /\ ctx[w].at = "idle"
              /\ IF op = "create" THEN check_capacity > 0 /\ at = "create" ELSE at = "save"
              /\ IF op = "update" THEN updates' = updates + 1 /\ updates < MaxUpdates
                 ELSE UNCHANGED updates
    BY <1>1, CalledType
  <2>2. Active' = Active
    BY <1>1, CalledType DEF Active, tables
  <2>3. /\ ctx'[w].op = op /\ ctx'[w].at = at
        /\ \A v \in Workers : v # w => ctx'[v] = ctx[v]
    BY <1>0, <2>1, BeginType
  <2>4. CASE op = "create"
    <3>1. Cardinality(Active) < Capacity
      BY <1>0, <2>1, <2>4 DEF check_capacity
    <3>2. Cardinality(Taking') <= Cardinality(Workers)
      BY AppointmentsAssumption, Fewer
    <3> QED BY <1>0, <2>1, <2>2, <2>4, <3>1, <3>2
  <2>5. CASE op = "cancel"
    <3>1. Taking' \in SUBSET Taking
      BY <2>1, <2>3, <2>5 DEF Taking
    <3>2. Cardinality(Taking') <= Cardinality(Taking)
      BY <3>1, Fewer
    <3> QED BY <1>0, <2>1, <2>2, <2>5, <3>2
  <2>6. CASE op = "update"
    <3>1. Taking' \in SUBSET (Taking \cup {w})
      BY <2>3 DEF Taking
    <3>2. Cardinality(Taking') <= Cardinality(Taking) + 1
      BY <3>1, AtMostOneMore
    <3> QED BY <1>0, <2>1, <2>2, <2>6, <3>2
  <2> QED BY <2>4, <2>5, <2>6
<1>2. ASSUME NEW w \in Workers, queue_confirmation(w) \/ pre_save(w) PROVE BookingInv'
  <2>1. UNCHANGED <<appointment, updates>>
    BY <1>2 DEF queue_confirmation, pre_save, tables, bounds
  <2>2. /\ \A v \in Workers : v # w => ctx'[v] = ctx[v]
        /\ ctx'[w].op = ctx[w].op
        /\ \/ ctx[w].at = "create" /\ ctx'[w].at = "commit"
           \/ ctx[w].at = "save" /\ ctx'[w].at = "update"
    <3>1. CASE queue_confirmation(w)
      BY <1>0, <3>1, MoveType DEF queue_confirmation
    <3>2. CASE pre_save(w)
      <4>1. ctx[w] \in Request /\ ctx[w] # NoRequest /\ ctx[w].at = "save"
        BY <1>0, <3>2 DEF pre_save, NoRequest
      <4>2. ctx' = [ctx EXCEPT ![w] = [ctx[w] EXCEPT !.at = "update",
                                                     !.previous = appointment[ctx[w].of]]]
        BY <1>0, <3>2 DEF pre_save
      <4> QED BY <1>0, <4>1, <4>2 DEF Request
    <3> QED BY <1>2, <3>1, <3>2
  <2>3. Taking' = Taking /\ Active' = Active
    BY <2>1, <2>2 DEF Taking, Active
  <2> QED BY <2>1, <2>3
<1>3. ASSUME NEW w \in Workers, commit(w) \/ save(w) PROVE BookingInv'
  <2>1. /\ \A v \in Workers : v # w => ctx'[v] = ctx[v]
        /\ w \in Taking /\ w \notin Taking' /\ UNCHANGED updates
    BY <1>0, <1>3, EndType, MoveType, Nothing DEF commit, save, Taking, bounds
  <2>2. Cardinality(Taking') <= Cardinality(Taking) - 1
    <3>1. Taking' \in SUBSET (Taking \ {w})
      BY <2>1 DEF Taking
    <3> QED BY <2>1, <3>1, OneLess
  <2>3. Cardinality(Active') <= Cardinality(Active) + 1
    <3>1. Active' \in SUBSET (Active \cup {ctx[w].of})
      BY <1>0, <1>3 DEF commit, save, Active
    <3> QED BY <3>1, AtMostOneMore
  <2> QED BY <1>0, <2>1, <2>2, <2>3
<1>4. ASSUME NEW w \in Workers, commit_cancel(w) \/ send_appointment_messages(w)
                                \/ schedule_reminders(w) \/ crash(w)
      PROVE  BookingInv'
  <2>1. UNCHANGED updates
    BY <1>4 DEF commit_cancel, send_appointment_messages, schedule_reminders, crash, bounds
  <2>2. Taking' \in SUBSET Taking
    <3>1. \/ End(w)
          \/ ctx' = [ctx EXCEPT ![w].at = "schedule"] /\ ctx[w].at = "post_save"
      BY <1>4 DEF commit_cancel, send_appointment_messages, schedule_reminders, crash
    <3> QED BY <1>0, <3>1, EndType, MoveType, Nothing DEF Taking
  <2>3. Active' \in SUBSET Active
    BY <1>0, <1>4 DEF commit_cancel, send_appointment_messages, schedule_reminders, crash,
                      tables, Active
  <2> QED BY <1>0, <2>1, <2>2, <2>3, Fewer
<1>5. ASSUME \/ \E p \in Processes :
                  \/ process_scheduled_messages(p) \/ send_appointment_reminders(p)
                  \/ send_booking_confirmation(p) \/ Work(p) \/ crash_task(p)
             \/ tick \/ UNCHANGED vars
      PROVE  BookingInv'
  <2>1. UNCHANGED <<appointment, ctx, updates>>
    BY <1>5 DEF process_scheduled_messages, send_appointment_reminders, send_reminders,
                send_booking_confirmation, Work, send_message, mark_sent, mark_failed,
                send_reminder, crash_task, tick, vars, tables, bounds
  <2> QED BY <2>1 DEF Active, Taking
<1> QED BY <1>1, <1>2, <1>3, <1>4, <1>5 DEF Next, Proceed, Called

(* With n workers a slot is overbooked by at most n - 1, and by one more   *)
(* per staff update (create_appointment, AppointmentViewSet.update).       *)
THEOREM SlotStaysBounded == Spec => []OverbookingIsBounded
<1>1. TypeOK /\ BookingInv => OverbookingIsBounded
  <2> SUFFICES ASSUME TypeOK, BookingInv PROVE OverbookingIsBounded
    OBVIOUS
  <2>1. Capacity \in Nat /\ Cardinality(Workers) \in Nat /\ updates \in Nat
    BY AppointmentsAssumption, FS_CardinalityType DEF TypeOK
  <2> QED BY <2>1, Sets DEF BookingInv, OverbookingIsBounded
<1> QED BY <1>1, BookingInit, BookingNext, TypeCorrect, PTL DEF Spec

-----------------------------------------------------------------------------
(* How often a reminder goes out.                                          *)

(* What a task may hold: a run of process_scheduled_messages has rows, and *)
(* one of them out while its transaction is open; a batch has appointments.*)
TaskInv ==
    \A p \in Processes :
        /\ task[p].op \in {"dispatch", "idle"} => task[p].batch = {}
        /\ task[p].op # "dispatch" => task[p].rows = {} /\ task[p].at = "next"
        /\ \A r \in task[p].rows : scheduled[r] # "none"
        /\ task[p].at # "next" =>
             /\ task[p].row \in Rows /\ task[p].row \notin task[p].rows
             /\ scheduled[task[p].row] # "none"
        /\ task[p].at = "sent" => delivered[task[p].row] > 0

(* The rows of an appointment and kind are used one after the other.       *)
InOrder ==
    \A a \in Appointments, k \in Kinds :
        \E m \in 0 .. MaxUpdates + 1 :
            \A n \in 1 .. MaxUpdates + 1 : scheduled[<<a, k, n>>] # "none" <=> n <= m

Holding(r) == {p \in Processes : r \in task[p].rows}
Open(r) == {p \in Processes : task[p].at # "next" /\ task[p].row = r}

(* A row that is still pending went out only where a death took back its   *)
(* transaction or the transaction is still open; and every process that    *)
(* read it as pending sends it once.                                       *)
DeliveryInv ==
    \A r \in Rows :
        /\ scheduled[r] \in {"none", "pending"} =>
             delivered[r] <= crashes + Cardinality(Open(r))
        /\ delivered[r] + Cardinality(Holding(r)) <= Cardinality(Processes) + crashes

SentInv == TaskInv /\ SentWasDelivered

LEMMA InOrderSchedule ==
  ASSUME TypeOK, InOrder, NEW a \in Appointments, schedule_appointment_reminders(a)
  PROVE  /\ InOrder'
         /\ \A r \in Rows : scheduled'[r] = scheduled[r]
                            \/ (scheduled[r] = "none" /\ scheduled'[r] = "pending")
<1> DEFINE K == MaxUpdates + 1
           new == {NextRow(a, kind) : kind \in {k \in Kinds : ~ Due(k)}}
<1>0. MaxUpdates \in Nat
  BY AppointmentsAssumption
<1>1. ASSUME NEW k \in Kinds
      PROVE  \E m \in 0 .. K :
               /\ NextRow(a, k) = <<a, k, m + 1>>
               /\ \A n \in 1 .. K : scheduled[<<a, k, n>>] # "none" <=> n <= m
  <2>1. PICK m \in 0 .. K : \A n \in 1 .. K : scheduled[<<a, k, n>>] # "none" <=> n <= m
    BY DEF InOrder
  <2>2. {n \in 1 .. MaxUpdates + 1 : scheduled[<<a, k, n>>] # "none"} = 1 .. m
    BY <1>0, <2>1
  <2>3. Cardinality(1 .. m) = m
    BY <1>0, FS_Interval
  <2>4. NextRow(a, k) = <<a, k, m + 1>>
    <3>1. Cardinality({n \in 1 .. MaxUpdates + 1 : scheduled[<<a, k, n>>] # "none"}) = m
      BY <2>2, <2>3
    <3>2. 1 + m = m + 1
      BY <1>0
    <3> QED BY <3>1, <3>2 DEF NextRow
  <2> QED BY <2>1, <2>4
<1>2. scheduled' = [r \in Rows |-> IF r \in new THEN "pending" ELSE scheduled[r]]
  BY DEF schedule_appointment_reminders
<1>3. ASSUME NEW b \in Appointments, NEW k \in Kinds, NEW n \in 1 .. K, <<b, k, n>> \in new
      PROVE  b = a /\ <<b, k, n>> = NextRow(a, k) /\ ~ Due(k)
  <2>1. PICK j \in Kinds : ~ Due(j) /\ <<b, k, n>> = NextRow(a, j)
    BY <1>3
  <2>2. \E m \in 0 .. K : NextRow(a, j) = <<a, j, m + 1>>
    BY <1>1
  <2> QED BY <2>1, <2>2
<1>4. ASSUME NEW k \in Kinds, ~ Due(k) PROVE NextRow(a, k) \in new
  BY <1>4
<1> HIDE DEF new
<1>5. InOrder'
  <2> SUFFICES ASSUME NEW b \in Appointments, NEW k \in Kinds
               PROVE  \E m \in 0 .. K : \A n \in 1 .. K : scheduled'[<<b, k, n>>] # "none" <=> n <= m
    BY DEF InOrder
  <2>1. \A n \in 1 .. K : <<b, k, n>> \in Rows
    BY DEF Rows
  <2>2. CASE b = a /\ ~ Due(k)
    <3>1. PICK m \in 0 .. K : /\ NextRow(a, k) = <<a, k, m + 1>>
                              /\ \A n \in 1 .. K : scheduled[<<a, k, n>>] # "none" <=> n <= m
      BY <1>1
    <3>2. \A n \in 1 .. K : <<a, k, n>> \in new <=> n = m + 1
      BY <1>0, <1>3, <1>4, <2>2, <3>1
    <3>3. \A n \in 1 .. K : scheduled'[<<a, k, n>>] # "none" <=> n <= m + 1
      BY <1>0, <1>2, <2>1, <2>2, <3>1, <3>2
    <3>4. CASE m < K
      BY <1>0, <2>2, <3>3, <3>4
    <3>5. CASE m = K
      BY <1>0, <2>2, <3>3, <3>5
    <3> QED BY <1>0, <3>4, <3>5
  <2>3. CASE ~ (b = a /\ ~ Due(k))
    <3>1. \A n \in 1 .. K : scheduled'[<<b, k, n>>] = scheduled[<<b, k, n>>]
      BY <1>2, <1>3, <2>1, <2>3
    <3> QED BY <3>1 DEF InOrder
  <2> QED BY <2>2, <2>3
<1>6. ASSUME NEW r \in Rows
      PROVE  scheduled'[r] = scheduled[r]
             \/ (scheduled[r] = "none" /\ scheduled'[r] = "pending")
  <2>1. CASE r \notin new
    BY <1>2, <2>1
  <2>2. CASE r \in new
    <3>1. PICK b \in Appointments, k \in Kinds, n \in 1 .. K : r = <<b, k, n>>
      BY DEF Rows
    <3>2. b = a /\ r = NextRow(a, k)
      BY <1>3, <2>2, <3>1
    <3>3. PICK m \in 0 .. K : /\ NextRow(a, k) = <<a, k, m + 1>>
                              /\ \A i \in 1 .. K : scheduled[<<a, k, i>>] # "none" <=> i <= m
      BY <1>1
    <3>4. n = m + 1
      BY <3>1, <3>2, <3>3
    <3>5. scheduled[r] = "none"
      BY <1>0, <3>1, <3>2, <3>3, <3>4
    <3> QED BY <1>2, <2>2, <3>5
  <2> QED BY <2>1, <2>2
<1> QED BY <1>5, <1>6

LEMMA DeliverySets ==
  ASSUME NEW r
  PROVE  /\ IsFiniteSet(Holding(r)) /\ Cardinality(Holding(r)) \in Nat
         /\ IsFiniteSet(Open(r)) /\ Cardinality(Open(r)) \in Nat
<1>1. Holding(r) \in SUBSET Processes /\ Open(r) \in SUBSET Processes
  BY DEF Holding, Open
<1> QED BY <1>1, AppointmentsAssumption, FS_Subset, FS_CardinalityType

LEMMA DeliverySetsNext ==
  ASSUME NEW CONSTANT r
  PROVE  /\ IsFiniteSet(Holding(r)') /\ Cardinality(Holding(r)') \in Nat
         /\ IsFiniteSet(Open(r)') /\ Cardinality(Open(r)') \in Nat
         /\ Holding(r)' \in SUBSET Processes
<1>1. Holding(r)' \in SUBSET Processes /\ Open(r)' \in SUBSET Processes
  BY DEF Holding, Open
<1> QED BY <1>1, AppointmentsAssumption, FS_Subset, FS_CardinalityType

LEMMA DeliveryInit == Init => SentInv /\ InOrder /\ DeliveryInv
<1> SUFFICES ASSUME Init PROVE SentInv /\ InOrder /\ DeliveryInv
  OBVIOUS
<1>1. SentInv
  BY Nothing DEF Init, SentInv, TaskInv, SentWasDelivered
<1>2. InOrder
  <2>1. \A a \in Appointments, k \in Kinds, n \in 1 .. MaxUpdates + 1 : <<a, k, n>> \in Rows
    BY DEF Rows
  <2>2. 0 \in 0 .. MaxUpdates + 1
    BY AppointmentsAssumption
  <2> QED BY <2>1, <2>2 DEF Init, InOrder
<1>3. \A r \in Rows : Holding(r) = {} /\ Open(r) = {} /\ delivered[r] = 0
  BY Nothing DEF Init, Holding, Open
<1>4. crashes = 0 /\ Cardinality(Processes) \in Nat
  BY AppointmentsAssumption, FS_CardinalityType DEF Init
<1> QED BY <1>1, <1>2, <1>3, <1>4, FS_EmptySet DEF DeliveryInv

(* What the steps of requests and of time do to the reminders: pending     *)
(* rows are canceled, and new ones made.                                   *)
Requests ==
    \/ \E w \in Workers : Called(w) \/ Proceed(w) \/ crash(w)
    \/ \E p \in Processes : send_booking_confirmation(p)
    \/ tick \/ UNCHANGED vars

LEMMA RequestsDeliverNothing ==
  ASSUME TypeOK, InOrder, Requests
  PROVE  /\ UNCHANGED <<task, delivered>> /\ crashes' >= crashes
         /\ InOrder'
         /\ \A r \in Rows : \/ scheduled'[r] = scheduled[r]
                            \/ scheduled[r] = "none" /\ scheduled'[r] = "pending"
                            \/ scheduled[r] = "pending" /\ scheduled'[r] = "canceled"
<1>0. crashes \in Int /\ ctx \in [Workers -> Request]
  BY DEF TypeOK
<1> USE DEF tables, sent, bounds
<1>1. UNCHANGED <<task, delivered>> /\ crashes' >= crashes
  <2>1. ASSUME NEW w \in Workers, Called(w) PROVE UNCHANGED <<task, delivered, crashes>>
    BY <2>1, CalledType
  <2>2. ASSUME NEW w \in Workers, Proceed(w) PROVE UNCHANGED <<task, delivered, crashes>>
    BY <2>2 DEF Proceed, queue_confirmation, commit, pre_save, commit_cancel, save,
                send_appointment_messages, schedule_reminders
  <2>3. ASSUME NEW w \in Workers, crash(w)
        PROVE  UNCHANGED <<task, delivered>> /\ crashes' = crashes + 1
    BY <2>3 DEF crash
  <2>4. ASSUME (\E p \in Processes : send_booking_confirmation(p)) \/ tick \/ UNCHANGED vars
        PROVE  UNCHANGED <<task, delivered, crashes>>
    BY <2>4 DEF send_booking_confirmation, tick, vars
  <2> QED BY <1>0, <2>1, <2>2, <2>3, <2>4 DEF Requests
<1>2. ASSUME NEW a \in Appointments, CancelReminders(a)
      PROVE  /\ InOrder'
             /\ \A r \in Rows : \/ scheduled'[r] = scheduled[r]
                                \/ scheduled[r] = "pending" /\ scheduled'[r] = "canceled"
  <2>1. \A r \in Rows : \/ scheduled'[r] = scheduled[r]
                        \/ scheduled[r] = "pending" /\ scheduled'[r] = "canceled"
    BY <1>2 DEF CancelReminders
  <2>2. \A b \in Appointments, k \in Kinds, n \in 1 .. MaxUpdates + 1 : <<b, k, n>> \in Rows
    BY DEF Rows
  <2>3. \A b \in Appointments, k \in Kinds, n \in 1 .. MaxUpdates + 1 :
          scheduled'[<<b, k, n>>] # "none" <=> scheduled[<<b, k, n>>] # "none"
    BY <2>1, <2>2
  <2>4. InOrder'
    BY <2>3 DEF InOrder
  <2> QED BY <2>1, <2>4
<1>3. ASSUME NEW w \in Workers, Proceed(w)
      PROVE  \/ UNCHANGED scheduled
             \/ \E a \in Appointments : schedule_appointment_reminders(a) \/ CancelReminders(a)
  <2>1. ctx[w].at # "idle"
    BY <1>3 DEF Proceed, queue_confirmation, commit, pre_save, commit_cancel, save,
                send_appointment_messages, schedule_reminders
  <2>2. ctx[w].of \in Appointments
    BY <1>0, <2>1, RequestOf
  <2> QED BY <1>3, <2>2 DEF Proceed, queue_confirmation, commit, pre_save, commit_cancel, save,
                            send_appointment_messages, schedule_reminders
<1>4. ASSUME UNCHANGED scheduled PROVE InOrder' /\ \A r \in Rows : scheduled'[r] = scheduled[r]
  BY <1>4 DEF InOrder
<1>5. ASSUME ~ \E w \in Workers : Proceed(w) PROVE UNCHANGED scheduled
  BY <1>5, CalledType DEF Requests, crash, send_booking_confirmation, tick, vars
<1> QED BY <1>1, <1>2, <1>3, <1>4, <1>5, InOrderSchedule

DeliverGoal == SentInv' /\ InOrder' /\ DeliveryInv'

(* A step of a task that holds no row of p's that it did not hold, and     *)
(* opens none.                                                             *)
LEMMA BatchDelivers ==
  ASSUME TypeOK, SentInv, InOrder, DeliveryInv, NEW p \in Processes,
         send_appointment_reminders(p) \/ send_reminder(p)
  PROVE  DeliverGoal
<1> USE DEF SentInv, TaskInv
<1>0. /\ task \in [Processes -> Task] /\ task[p] \in Task
      /\ UNCHANGED <<scheduled, delivered, crashes>>
  BY DEF TypeOK, send_appointment_reminders, send_reminders, send_reminder, tables, sent, bounds
<1>1. task[p].op # "dispatch" /\ (send_reminder(p) => task[p].op # "idle")
  BY DEF send_appointment_reminders, send_reminders, send_reminder, Idle
<1>2. PICK rest \in Task : /\ Continue(p, rest)
                           /\ rest.op \notin {"dispatch", "idle"}
                           /\ rest.rows = {} /\ rest.at = "next"
  <2>1. CASE send_appointment_reminders(p)
    <3>1. PICK kind \in Kinds : send_reminders(p, kind)
      BY <2>1 DEF send_appointment_reminders
    <3> DEFINE batch == {a \in Appointments : appointment[a] = "confirmed"}
               new == [NoTask EXCEPT !.op = kind, !.batch = batch]
    <3>2. /\ new \in Task /\ new.op \notin {"dispatch", "idle"}
          /\ new.rows = {} /\ new.at = "next"
      BY AppointmentsAssumption DEF NoTask, Task
    <3>3. Continue(p, new)
      BY <3>1 DEF send_reminders
    <3> QED BY <3>2, <3>3
  <2>2. CASE send_reminder(p)
    <3>1. PICK a \in task[p].batch : Continue(p, [task[p] EXCEPT !.batch = @ \ {a}])
      BY <2>2 DEF send_reminder
    <3> DEFINE new == [task[p] EXCEPT !.batch = @ \ {a}]
    <3>2. new \in Task /\ new.op = task[p].op /\ new.rows = task[p].rows /\ new.at = task[p].at
      BY <1>0 DEF Task
    <3> QED BY <1>1, <2>2, <3>1, <3>2
  <2> QED BY <2>1, <2>2
<1>3. /\ task'[p].op # "dispatch" /\ task'[p].rows = {} /\ task'[p].at = "next"
      /\ task'[p].op = "idle" => task'[p].batch = {}
      /\ \A q \in Processes : q # p => task'[q] = task[q]
  BY <1>0, <1>2, ContinueType, Nothing
<1>4. \A r \in Rows : Holding(r)' = Holding(r) /\ Open(r)' = Open(r)
  BY <1>1, <1>3 DEF Holding, Open
<1>5. SentInv'
  BY <1>0, <1>3 DEF SentWasDelivered
<1> QED BY <1>0, <1>4, <1>5 DEF DeliverGoal, InOrder, DeliveryInv

LEMMA ReadDelivers ==
  ASSUME TypeOK, SentInv, InOrder, DeliveryInv, NEW p \in Processes,
         process_scheduled_messages(p)
  PROVE  DeliverGoal
<1> USE DEF SentInv, TaskInv
<1>0. /\ task \in [Processes -> Task] /\ task[p] \in Task
      /\ UNCHANGED <<scheduled, delivered, crashes>>
      /\ crashes \in Nat /\ delivered \in [Rows -> Nat]
      /\ IsFiniteSet(Processes) /\ Cardinality(Processes) \in Nat
  BY AppointmentsAssumption, FS_CardinalityType
     DEF TypeOK, process_scheduled_messages, tables, sent, bounds
<1>1. task[p].op = "idle" /\ task[p].rows = {} /\ task[p].batch = {} /\ task[p].at = "next"
  BY DEF process_scheduled_messages, Idle
<1>2. task' = [task EXCEPT ![p] = [task[p] EXCEPT !.op = "dispatch", !.rows = DueRows]]
  BY <1>0 DEF process_scheduled_messages
<1>3. /\ task'[p].op = "dispatch" /\ task'[p].rows = DueRows /\ task'[p].at = "next"
      /\ task'[p].batch = {}
      /\ \A q \in Processes : q # p => task'[q] = task[q]
  BY <1>0, <1>1, <1>2 DEF Task
<1>4. \A r \in Rows : Open(r)' = Open(r)
  BY <1>1, <1>3 DEF Open
<1>5. ASSUME NEW r \in Rows
      PROVE  delivered[r] + Cardinality(Holding(r)') <= Cardinality(Processes) + crashes
  <2>1. CASE r \in DueRows
    <3>1. delivered[r] <= crashes + Cardinality(Open(r))
      BY <2>1 DEF DueRows, DeliveryInv
    <3>2. Holding(r)' \cap Open(r) = {}
      BY <1>1, <1>3 DEF Holding, Open
    <3>3. Holding(r)' \cup Open(r) \in SUBSET Processes
      BY DEF Holding, Open
    <3>4. Cardinality(Holding(r)' \cup Open(r)) = Cardinality(Holding(r)') + Cardinality(Open(r))
      <4>1. Cardinality(Holding(r)' \cap Open(r)) = 0
        BY <3>2, FS_EmptySet
      <4>2. Cardinality(Holding(r)' \cup Open(r))
            = Cardinality(Holding(r)') + Cardinality(Open(r)) - Cardinality(Holding(r)' \cap Open(r))
        BY DeliverySets, DeliverySetsNext, FS_Union
      <4> QED BY <4>1, <4>2, DeliverySets, DeliverySetsNext
    <3>5. Cardinality(Holding(r)' \cup Open(r)) <= Cardinality(Processes)
      BY <1>0, <3>3, Fewer
    <3> QED BY <1>0, <3>1, <3>4, <3>5, DeliverySets, DeliverySetsNext
  <2>2. CASE r \notin DueRows
    <3>1. Holding(r)' = Holding(r)
      BY <1>1, <1>3, <2>2 DEF Holding
    <3> QED BY <3>1 DEF DeliveryInv
  <2> QED BY <2>1, <2>2
<1>6. SentInv'
  <2>1. \A r \in DueRows : scheduled[r] # "none"
    BY DEF DueRows
  <2> QED BY <1>0, <1>3, <2>1 DEF SentWasDelivered
<1> QED BY <1>0, <1>4, <1>5, <1>6 DEF DeliverGoal, InOrder, DeliveryInv

LEMMA SendDelivers ==
  ASSUME TypeOK, SentInv, InOrder, DeliveryInv, NEW p \in Processes, send_message(p)
  PROVE  DeliverGoal
<1> USE DEF SentInv, TaskInv
<1>1. PICK r \in task[p].rows, raises \in BOOLEAN :
        /\ task' = [task EXCEPT ![p].row = r, ![p].rows = @ \ {r},
                                ![p].at = IF raises THEN "failed" ELSE "sent"]
        /\ \/ delivered' = [delivered EXCEPT ![r] = @ + 1]
           \/ raises /\ UNCHANGED delivered
  BY DEF send_message
<1>0. /\ task \in [Processes -> Task] /\ task[p] \in Task /\ r \in Rows
      /\ UNCHANGED <<scheduled, crashes>>
      /\ crashes \in Nat /\ delivered \in [Rows -> Nat]
      /\ task[p].op = "dispatch" /\ task[p].at = "next"
  BY DEF TypeOK, Task, send_message, tables, bounds
<1>2. /\ task'[p].op = "dispatch" /\ task'[p].row = r /\ task'[p].rows = task[p].rows \ {r}
      /\ task'[p].at = IF raises THEN "failed" ELSE "sent"
      /\ task'[p].batch = task[p].batch
      /\ \A q \in Processes : q # p => task'[q] = task[q]
  <2> DEFINE at == IF raises THEN "failed" ELSE "sent"
             new == [task[p] EXCEPT !.row = r, !.rows = @ \ {r}, !.at = at]
  <2>1. task' = [task EXCEPT ![p] = new]
    BY <1>0, <1>1
  <2>2. /\ new.op = task[p].op /\ new.row = r /\ new.rows = task[p].rows \ {r} /\ new.at = at
        /\ new.batch = task[p].batch
    BY <1>0 DEF Task
  <2> QED BY <1>0, <2>1, <2>2
<1>3. /\ \A s \in Rows : s # r => delivered'[s] = delivered[s]
      /\ delivered'[r] \in {delivered[r], delivered[r] + 1}
      /\ ~ raises => delivered'[r] = delivered[r] + 1
  BY <1>0, <1>1
<1>4. ASSUME NEW s \in Rows, s # r PROVE Holding(s)' = Holding(s) /\ Open(s)' = Open(s)
  BY <1>0, <1>2, <1>4 DEF Holding, Open
<1>5. /\ Cardinality(Holding(r)') <= Cardinality(Holding(r)) - 1
      /\ Cardinality(Open(r)') = Cardinality(Open(r)) + 1
  <2>1. p \in Holding(r) /\ Holding(r)' \in SUBSET (Holding(r) \ {p})
    BY <1>2 DEF Holding
  <2>2. p \notin Open(r) /\ Open(r)' = Open(r) \cup {p}
    BY <1>0, <1>2 DEF Open
  <2>3. Cardinality(Holding(r)') <= Cardinality(Holding(r)) - 1
    BY <2>1, DeliverySets, OneLess
  <2>4. Cardinality(Open(r)') = Cardinality(Open(r)) + 1
    BY <2>2, DeliverySets, FS_AddElement
  <2> QED BY <2>3, <2>4
<1>6. SentInv'
  <2>1. TaskInv'
    BY <1>0, <1>2, <1>3
  <2>2. SentWasDelivered'
    BY <1>0, <1>3 DEF SentWasDelivered
  <2> QED BY <2>1, <2>2
<1>7. DeliveryInv'
  <2>1. ASSUME NEW s \in Rows, s # r
        PROVE  /\ scheduled'[s] \in {"none", "pending"} =>
                    delivered'[s] <= crashes' + Cardinality(Open(s)')
               /\ delivered'[s] + Cardinality(Holding(s)') <= Cardinality(Processes) + crashes'
    BY <1>0, <1>3, <1>4, <2>1 DEF DeliveryInv
  <2>2. Cardinality(Processes) \in Nat
    BY AppointmentsAssumption, FS_CardinalityType
  <2>3. /\ scheduled'[r] \in {"none", "pending"} =>
             delivered'[r] <= crashes' + Cardinality(Open(r)')
        /\ delivered'[r] + Cardinality(Holding(r)') <= Cardinality(Processes) + crashes'
    BY <1>0, <1>3, <1>5, <2>2, DeliverySets, DeliverySetsNext DEF DeliveryInv
  <2> QED BY <2>1, <2>3 DEF DeliveryInv
<1> QED BY <1>0, <1>6, <1>7 DEF DeliverGoal, InOrder

LEMMA MarkDelivers ==
  ASSUME TypeOK, SentInv, InOrder, DeliveryInv, NEW p \in Processes, mark_sent(p) \/ mark_failed(p)
  PROVE  DeliverGoal
<1> USE DEF SentInv, TaskInv
<1> DEFINE r == task[p].row
           new == [task[p] EXCEPT !.at = "next", !.row = None]
<1>0. /\ task \in [Processes -> Task] /\ task[p] \in Task /\ task[p].at \in {"sent", "failed"}
      /\ UNCHANGED <<delivered, crashes>> /\ scheduled \in [Rows -> MessageStatuses \cup {"none"}]
  BY DEF TypeOK, mark_sent, mark_failed, sent, bounds
<1>1. r \in Rows /\ task[p].op = "dispatch" /\ r \notin task[p].rows
  BY <1>0
<1>2. /\ scheduled'[r] \in {"sent", "failed"} /\ (scheduled'[r] = "sent" => task[p].at = "sent")
      /\ \A s \in Rows : s # r => scheduled'[s] = scheduled[s]
  BY <1>0, <1>1 DEF mark_sent, mark_failed
<1>3. /\ new \in Task /\ new.op = "dispatch" /\ new.at = "next" /\ new.rows = task[p].rows
      /\ new.batch = task[p].batch
  BY <1>0, <1>1 DEF Task
<1>4. Continue(p, new)
  BY DEF mark_sent, mark_failed
<1> HIDE DEF new
<1>5. /\ task'[p].at = "next" /\ task'[p].rows = task[p].rows
      /\ task'[p].batch = {} /\ task'[p].op \in {"dispatch", "idle"}
      /\ (task'[p].op = "idle" => task'[p].rows = {})
      /\ \A q \in Processes : q # p => task'[q] = task[q]
  <2>1. /\ task'[p] = IF new.rows = {} /\ new.batch = {} THEN NoTask ELSE new
        /\ \A q \in Processes : q # p => task'[q] = task[q]
    BY <1>0, <1>3, <1>4, ContinueType
  <2> QED BY <1>0, <1>1, <1>3, <2>1, Nothing
<1>6. \A s \in Rows : Holding(s)' = Holding(s) /\ (s # r => Open(s)' = Open(s))
  BY <1>5 DEF Holding, Open
<1>7. SentInv'
  <2>1. \A s \in Rows : scheduled[s] # "none" => scheduled'[s] # "none"
    BY <1>2
  <2>0. \A q \in Processes : task[q].rows \in SUBSET Rows
    BY <1>0 DEF Task
  <2>3. ASSUME NEW q \in Processes, q # p PROVE TaskInv!(q)'
    BY <1>0, <1>5, <2>0, <2>1, <2>3
  <2>4. TaskInv!(p)'
    BY <1>0, <1>5, <2>0, <2>1
  <2>5. TaskInv'
    BY <2>3, <2>4
  <2>2. SentWasDelivered'
    BY <1>0, <1>1, <1>2 DEF SentWasDelivered
  <2> QED BY <2>2, <2>5
<1>8. InOrder'
  <2>1. \A s \in Rows : scheduled'[s] # "none" <=> scheduled[s] # "none" \/ s = r
    BY <1>2
  <2>2. scheduled[r] # "none"
    BY <1>0
  <2> QED BY <2>1, <2>2 DEF InOrder, Rows
<1>9. DeliveryInv'
  BY <1>0, <1>2, <1>6 DEF DeliveryInv
<1> QED BY <1>7, <1>8, <1>9 DEF DeliverGoal

LEMMA DeathDelivers ==
  ASSUME TypeOK, SentInv, InOrder, DeliveryInv, NEW p \in Processes, crash_task(p)
  PROVE  DeliverGoal
<1> USE DEF SentInv, TaskInv
<1>0. /\ task \in [Processes -> Task] /\ crashes' = crashes + 1
      /\ UNCHANGED <<delivered, scheduled>>
      /\ crashes \in Nat /\ delivered \in [Rows -> Nat] /\ Cardinality(Processes) \in Nat
  BY AppointmentsAssumption, FS_CardinalityType DEF TypeOK, crash_task, tables, sent
<1>1. task'[p] = NoTask /\ \A q \in Processes : q # p => task'[q] = task[q]
  BY <1>0 DEF crash_task
<1>2. ASSUME NEW r \in Rows
      PROVE  /\ Cardinality(Holding(r)') <= Cardinality(Holding(r))
             /\ Cardinality(Open(r)) <= Cardinality(Open(r)') + 1
  <2>1. Holding(r)' \in SUBSET Holding(r) /\ Open(r) \in SUBSET (Open(r)' \cup {p})
    BY <1>1, Nothing DEF Holding, Open
  <2>2. IsFiniteSet(Holding(r)) /\ IsFiniteSet(Open(r)')
    BY DeliverySets, DeliverySetsNext
  <2>3. Cardinality(Holding(r)') <= Cardinality(Holding(r))
    BY <2>1, <2>2, Fewer
  <2>4. Cardinality(Open(r)) <= Cardinality(Open(r)') + 1
    BY <2>1, <2>2, AtMostOneMore
  <2> QED BY <2>3, <2>4
<1>3. DeliveryInv'
  BY <1>0, <1>2, DeliverySets, DeliverySetsNext DEF DeliveryInv
<1>4. SentInv'
  BY <1>0, <1>1, Nothing DEF SentWasDelivered
<1> QED BY <1>0, <1>3, <1>4 DEF DeliverGoal, InOrder

LEMMA DeliveryNext ==
  TypeOK /\ TypeOK' /\ SentInv /\ InOrder /\ DeliveryInv /\ [Next]_vars => DeliverGoal
<1> SUFFICES ASSUME TypeOK, TypeOK', SentInv, InOrder, DeliveryInv, [Next]_vars PROVE DeliverGoal
  OBVIOUS
<1>1. CASE Requests
  <2>0. /\ crashes \in Nat /\ crashes' \in Nat /\ delivered \in [Rows -> Nat]
        /\ Cardinality(Processes) \in Nat
    BY AppointmentsAssumption, FS_CardinalityType DEF TypeOK
  <2>1. /\ UNCHANGED <<task, delivered>> /\ crashes' >= crashes /\ InOrder'
        /\ \A r \in Rows : \/ scheduled'[r] = scheduled[r]
                           \/ scheduled[r] = "none" /\ scheduled'[r] = "pending"
                           \/ scheduled[r] = "pending" /\ scheduled'[r] = "canceled"
    BY <1>1, RequestsDeliverNothing
  <2>2. SentInv'
    <3>1. \A q \in Processes : task[q].rows \in SUBSET Rows
      BY DEF TypeOK, Task
    <3>2. TaskInv'
      BY <2>1, <3>1 DEF SentInv, TaskInv
    <3>3. SentWasDelivered'
      BY <2>1 DEF SentInv, SentWasDelivered
    <3> QED BY <3>2, <3>3 DEF SentInv
  <2>3. \A r \in Rows : Holding(r)' = Holding(r) /\ Open(r)' = Open(r)
    BY <2>1 DEF Holding, Open
  <2>4. DeliveryInv'
    BY <2>0, <2>1, <2>3, DeliverySets DEF DeliveryInv
  <2> QED BY <2>1, <2>2, <2>4 DEF DeliverGoal
<1>2. ASSUME NEW p \in Processes, send_appointment_reminders(p) \/ send_reminder(p)
      PROVE  DeliverGoal
  BY <1>2, BatchDelivers
<1>3. ASSUME NEW p \in Processes, process_scheduled_messages(p) PROVE DeliverGoal
  BY <1>3, ReadDelivers
<1>4. ASSUME NEW p \in Processes, send_message(p) PROVE DeliverGoal
  BY <1>4, SendDelivers
<1>5. ASSUME NEW p \in Processes, mark_sent(p) \/ mark_failed(p) PROVE DeliverGoal
  BY <1>5, MarkDelivers
<1>6. ASSUME NEW p \in Processes, crash_task(p) PROVE DeliverGoal
  BY <1>6, DeathDelivers
<1> QED BY <1>1, <1>2, <1>3, <1>4, <1>5, <1>6 DEF Next, Requests, Called, Work

(* A scheduled reminder goes out at most once per process that runs the    *)
(* beat task and once more per death (process_scheduled_messages).         *)
THEOREM DeliveredPerProcess == Spec => []DeliveriesAreBounded
<1>1. TypeOK /\ DeliveryInv => DeliveriesAreBounded
  <2> SUFFICES ASSUME TypeOK, DeliveryInv, NEW r \in Rows
               PROVE  delivered[r] <= Cardinality(Processes) + crashes
    BY DEF DeliveriesAreBounded
  <2>1. crashes \in Nat /\ delivered[r] \in Nat /\ Cardinality(Processes) \in Nat
    BY AppointmentsAssumption, FS_CardinalityType DEF TypeOK
  <2> QED BY <2>1, DeliverySets DEF DeliveryInv
<1> QED BY <1>1, DeliveryInit, DeliveryNext, TypeCorrect, PTL DEF Spec, DeliverGoal

(* A reminder that says sent went to the provider (mark_sent).             *)
THEOREM SentIsDelivered == Spec => []SentWasDelivered
<1>1. SentInv => SentWasDelivered
  BY DEF SentInv
<1> QED BY <1>1, DeliveryInit, DeliveryNext, TypeCorrect, PTL DEF Spec, DeliverGoal

-----------------------------------------------------------------------------
(* The reminders of a canceled appointment, one request at a time.         *)

OneWorker == \A v, w \in Workers : v = w

(* A request that has canceled the appointment and is about to cancel its  *)
(* reminders.                                                              *)
Canceling(w, a) ==
    /\ ctx[w].at = "post_save" /\ ctx[w].of = a
    /\ ctx[w].status = "canceled" /\ ctx[w].previous # "canceled"

(* What pre_save read is still so at the UPDATE, and what the UPDATE wrote *)
(* is still so when the reminders are scheduled.                           *)
FreshRequest(w) ==
    /\ ctx[w].at = "commit" => ctx[w].status # "canceled"
    /\ ctx[w].at = "create" => ctx[w].status # "canceled"
    /\ ctx[w].at = "update" => ctx[w].previous = appointment[ctx[w].of]
    /\ ctx[w].at = "post_save" => ctx[w].status = appointment[ctx[w].of]
    /\ ctx[w].at = "schedule" => appointment[ctx[w].of] = "confirmed"

CanceledInv ==
    crashes = 0 =>
        /\ \A w \in Workers : FreshRequest(w)
        /\ \A r \in Rows : appointment[r[1]] = "canceled" /\ scheduled[r] = "pending" =>
             \E w \in Workers : Canceling(w, r[1])

LEMMA CanceledInit == Init => CanceledInv
BY Nothing DEF Init, CanceledInv, FreshRequest

LEMMA RowOf == \A r \in Rows : r[1] \in Appointments
BY DEF Rows

(* Only reminders of the appointment are scheduled.                        *)
LEMMA SchedulesOwn ==
  ASSUME NEW a \in Appointments, schedule_appointment_reminders(a), NEW r \in Rows,
         scheduled'[r] = "pending"
  PROVE  r[1] = a \/ scheduled[r] = "pending"
<1> DEFINE new == {NextRow(a, kind) : kind \in {k \in Kinds : ~ Due(k)}}
<1>1. scheduled' = [q \in Rows |-> IF q \in new THEN "pending" ELSE scheduled[q]]
  BY DEF schedule_appointment_reminders
<1>2. ASSUME r \in new PROVE r[1] = a
  <2>1. PICK kind : r = NextRow(a, kind)
    BY <1>2
  <2>2. NextRow(a, kind)[1] = a
    BY DEF NextRow
  <2> QED BY <2>1, <2>2
<1> HIDE DEF new
<1> QED BY <1>1, <1>2

LEMMA CancelsOwn ==
  ASSUME NEW a \in Appointments, CancelReminders(a), NEW r \in Rows, scheduled'[r] = "pending"
  PROVE  r[1] # a /\ scheduled[r] = "pending"
BY DEF CancelReminders

(* A step of the only request: where nobody died it leaves a request that  *)
(* knows what is so, and no reminder of a canceled appointment but those   *)
(* that this request is about to cancel.                                   *)
LEMMA CanceledStep ==
  ASSUME OneWorker, CanceledInv, NEW w \in Workers, UNCHANGED crashes,
         crashes = 0 => FreshRequest(w)',
         crashes = 0 => \A r \in Rows :
            appointment'[r[1]] = "canceled" /\ scheduled'[r] = "pending" => Canceling(w, r[1])'
  PROVE  CanceledInv'
<1>1. \A v \in Workers : v = w
  BY DEF OneWorker
<1> QED BY <1>1 DEF CanceledInv

LEMMA CanceledProceed ==
  ASSUME OneWorker, TypeOK, CanceledInv, NEW w \in Workers, Proceed(w)
  PROVE  CanceledInv'
<1> USE DEF tables, bounds
<1>0. /\ ctx \in [Workers -> Request] /\ ctx[w] \in Request
      /\ appointment \in [Appointments -> Statuses \cup {"none"}]
      /\ scheduled \in [Rows -> MessageStatuses \cup {"none"}]
      /\ UNCHANGED crashes /\ ctx[w].at # "idle"
  BY DEF TypeOK, Proceed, queue_confirmation, commit, pre_save, commit_cancel, save,
         send_appointment_messages, schedule_reminders
<1>1. ctx[w].of \in Appointments /\ ctx[w].status \in Statuses
  BY <1>0, RequestOf
<1> DEFINE a == ctx[w].of
<1> SUFFICES ASSUME crashes = 0
             PROVE  /\ FreshRequest(w)'
                    /\ \A r \in Rows : appointment'[r[1]] = "canceled" /\ scheduled'[r] = "pending"
                         => Canceling(w, r[1])'
  BY <1>0, CanceledStep
<1>2. /\ FreshRequest(w)
      /\ \A r \in Rows : appointment[r[1]] = "canceled" /\ scheduled[r] = "pending" =>
           Canceling(w, r[1])
  BY DEF CanceledInv, OneWorker
<1>3. \A r \in Rows : r[1] \in Appointments
  BY RowOf
<1>4. End(w) => ctx'[w] = NoRequest /\ FreshRequest(w)'
  BY <1>0, EndType, Nothing DEF FreshRequest
<1>5. CASE queue_confirmation(w)
  <2>1. ctx' = [ctx EXCEPT ![w].at = "commit"] /\ ctx[w].at = "create" /\ UNCHANGED tables
    BY <1>5 DEF queue_confirmation
  <2>2. ctx'[w].at = "commit" /\ ctx'[w].status = ctx[w].status
    BY <1>0, <2>1 DEF Request, NoRequest
  <2> QED BY <1>2, <2>1, <2>2 DEF FreshRequest, Canceling
<1>6. CASE pre_save(w)
  <2>1. ctx' = [ctx EXCEPT ![w].at = "update", ![w].previous = appointment[a]]
        /\ ctx[w].at = "save" /\ UNCHANGED tables
    BY <1>6 DEF pre_save
  <2>2. ctx'[w].at = "update" /\ ctx'[w].of = a /\ ctx'[w].previous = appointment[a]
    BY <1>0, <2>1 DEF Request, NoRequest
  <2> QED BY <1>2, <2>1, <2>2 DEF FreshRequest, Canceling
<1>7. CASE save(w)
  <2>1. /\ ctx[w].at = "update" /\ appointment' = [appointment EXCEPT ![a] = ctx[w].status]
        /\ ctx' = [ctx EXCEPT ![w].at = "post_save"] /\ UNCHANGED scheduled
    BY <1>7 DEF save
  <2>2. /\ ctx'[w].at = "post_save" /\ ctx'[w].of = a /\ ctx'[w].status = ctx[w].status
        /\ ctx'[w].previous = appointment[a]
    BY <1>0, <1>2, <2>1 DEF Request, NoRequest, FreshRequest
  <2>3. appointment'[a] = ctx[w].status
        /\ \A b \in Appointments : b # a => appointment'[b] = appointment[b]
    BY <1>0, <1>1, <2>1
  <2>4. FreshRequest(w)'
    BY <2>2, <2>3 DEF FreshRequest
  <2>5. ASSUME NEW r \in Rows, appointment'[r[1]] = "canceled", scheduled'[r] = "pending"
        PROVE  Canceling(w, r[1])'
    <3>1. appointment[r[1]] # "canceled"
      BY <1>2, <2>1, <2>5 DEF Canceling
    <3>2. r[1] = a
      BY <1>3, <2>3, <2>5, <3>1
    <3> QED BY <2>2, <2>3, <2>5, <3>1, <3>2 DEF Canceling
  <2> QED BY <2>4, <2>5
<1>8. CASE commit(w)
  <2>1. /\ ctx[w].at = "commit" /\ End(w)
        /\ appointment' = [appointment EXCEPT ![a] = ctx[w].status]
        /\ UNCHANGED scheduled \/ schedule_appointment_reminders(a)
    BY <1>8 DEF commit
  <2>2. /\ appointment'[a] # "canceled"
        /\ \A b \in Appointments : b # a => appointment'[b] = appointment[b]
    BY <1>0, <1>1, <1>2, <2>1 DEF FreshRequest
  <2>3. ASSUME NEW r \in Rows, appointment'[r[1]] = "canceled", scheduled'[r] = "pending"
        PROVE  FALSE
    <3>1. r[1] # a /\ appointment[r[1]] = "canceled"
      BY <1>3, <2>2, <2>3
    <3>2. scheduled[r] = "pending"
      BY <1>1, <2>1, <2>3, <3>1, SchedulesOwn
    <3> QED BY <1>2, <2>1, <3>1, <3>2 DEF Canceling
  <2> QED BY <1>4, <2>1, <2>3
<1>9. CASE commit_cancel(w)
  <2>1. /\ ctx[w].at = "update" /\ End(w)
        /\ appointment' = [appointment EXCEPT ![a] = "canceled"]
        /\ IF ctx[w].previous # "canceled" THEN CancelReminders(a) ELSE UNCHANGED scheduled
    BY <1>9 DEF commit_cancel
  <2>2. ctx[w].previous = appointment[a]
    BY <1>2, <2>1 DEF FreshRequest
  <2>3. ASSUME NEW r \in Rows, appointment'[r[1]] = "canceled", scheduled'[r] = "pending"
        PROVE  FALSE
    <3>1. scheduled[r] = "pending" /\ appointment[r[1]] = "canceled"
      <4>1. CASE r[1] = a
        BY <1>1, <2>1, <2>2, <2>3, <4>1, CancelsOwn
      <4>2. CASE r[1] # a
        BY <1>0, <1>1, <1>3, <2>1, <2>3, <4>2, CancelsOwn
      <4> QED BY <4>1, <4>2
    <3> QED BY <1>2, <2>1, <3>1 DEF Canceling
  <2> QED BY <1>4, <2>1, <2>3
<1>10. CASE send_appointment_messages(w)
  <2>1. ctx[w].at = "post_save" /\ UNCHANGED appointment /\ ctx[w].status = appointment[a]
    BY <1>2, <1>10 DEF send_appointment_messages, FreshRequest
  <2>2. CASE /\ ctx[w].status = "confirmed" /\ UNCHANGED scheduled
             /\ ctx' = [ctx EXCEPT ![w].at = "schedule"]
    <3>1. ctx'[w].at = "schedule" /\ ctx'[w].of = a
      BY <1>0, <2>2 DEF Request, NoRequest
    <3> QED BY <1>2, <2>1, <2>2, <3>1 DEF FreshRequest, Canceling
  <2>3. CASE ctx[w].status = "canceled" /\ CancelReminders(a) /\ End(w)
    <3>1. ASSUME NEW r \in Rows, appointment'[r[1]] = "canceled", scheduled'[r] = "pending"
          PROVE  FALSE
      <4>1. r[1] # a /\ scheduled[r] = "pending"
        BY <1>1, <2>3, <3>1, CancelsOwn
      <4> QED BY <1>2, <2>1, <3>1, <4>1 DEF Canceling
    <3> QED BY <1>4, <2>3, <3>1
  <2>4. CASE /\ ctx[w].status # "canceled" \/ ctx[w].status = ctx[w].previous
             /\ End(w) /\ UNCHANGED scheduled
    BY <1>2, <1>4, <2>1, <2>4 DEF Canceling
  <2> QED BY <1>10, <2>2, <2>3, <2>4 DEF send_appointment_messages
<1>11. CASE schedule_reminders(w)
  <2>1. /\ ctx[w].at = "schedule" /\ UNCHANGED appointment /\ End(w)
        /\ schedule_appointment_reminders(a) /\ appointment[a] = "confirmed"
    BY <1>2, <1>11 DEF schedule_reminders, FreshRequest
  <2>2. ASSUME NEW r \in Rows, appointment'[r[1]] = "canceled", scheduled'[r] = "pending"
        PROVE  FALSE
    <3>1. scheduled[r] = "pending"
      BY <1>1, <2>1, <2>2, SchedulesOwn
    <3> QED BY <1>2, <2>1, <2>2, <3>1 DEF Canceling
  <2> QED BY <1>4, <2>1, <2>2
<1> QED BY <1>5, <1>6, <1>7, <1>8, <1>9, <1>10, <1>11 DEF Proceed

LEMMA CanceledCall ==
  ASSUME OneWorker, TypeOK, CanceledInv, NEW w \in Workers, Called(w)
  PROVE  CanceledInv'
<1>1. PICK op \in {"create", "cancel", "update"}, at \in {"create", "save"}, a \in Appointments,
           status \in Statuses :
        /\ Begin(w, op, at, a, status) /\ ctx[w].at = "idle"
        /\ at = "create" => status # "canceled"
        /\ UNCHANGED <<tables, crashes>>
  <2>1. CASE create_appointment(w)
    BY <2>1 DEF create_appointment, Statuses, bounds
  <2>2. CASE cancel_appointment(w)
    BY <2>2 DEF cancel_appointment, Active, Statuses, bounds
  <2>3. CASE update(w)
    BY <2>3 DEF update
  <2> QED BY <2>1, <2>2, <2>3 DEF Called
<1> DEFINE new == [NoRequest EXCEPT !.op = op, !.at = at, !.of = a, !.status = status]
<1>2. new.at = at /\ new.status = status
  BY DEF NoRequest
<1>3. ctx' = [ctx EXCEPT ![w] = new] /\ ctx \in [Workers -> Request]
  BY <1>1 DEF Begin, TypeOK
<1> HIDE DEF new
<1>4. ctx'[w].at = at /\ ctx'[w].status = status
  BY <1>2, <1>3
<1>5. FreshRequest(w)'
  BY <1>1, <1>4 DEF FreshRequest
<1>6. crashes = 0 => \A r \in Rows :
        ~ (appointment'[r[1]] = "canceled" /\ scheduled'[r] = "pending")
  BY <1>1 DEF CanceledInv, Canceling, OneWorker, tables
<1> QED BY <1>1, <1>5, <1>6, CanceledStep

LEMMA CanceledNext ==
  ASSUME OneWorker
  PROVE  TypeOK /\ CanceledInv /\ [Next]_vars => CanceledInv'
<1> SUFFICES ASSUME TypeOK, CanceledInv, [Next]_vars PROVE CanceledInv'
  OBVIOUS
<1>1. ASSUME UNCHANGED <<ctx, appointment, crashes>>,
             \A r \in Rows : scheduled'[r] = "pending" => scheduled[r] = "pending"
      PROVE  CanceledInv'
  BY <1>1 DEF CanceledInv, FreshRequest, Canceling
<1>2. ASSUME (\E w \in Workers : crash(w)) \/ (\E p \in Processes : crash_task(p))
      PROVE  CanceledInv'
  <2>1. crashes \in Nat /\ crashes' = crashes + 1
    BY <1>2, AppointmentsAssumption DEF crash, crash_task, TypeOK
  <2> QED BY <2>1 DEF CanceledInv
<1>3. ASSUME NEW p \in Processes, mark_sent(p) \/ mark_failed(p) PROVE CanceledInv'
  <2>1. UNCHANGED <<ctx, appointment, crashes>>
    BY <1>3 DEF mark_sent, mark_failed, bounds
  <2>2. \A r \in Rows : scheduled'[r] = "pending" => scheduled[r] = "pending"
    BY <1>3 DEF mark_sent, mark_failed, TypeOK
  <2> QED BY <1>1, <2>1, <2>2
<1>4. ASSUME NEW p \in Processes,
             \/ process_scheduled_messages(p) \/ send_appointment_reminders(p)
             \/ send_booking_confirmation(p) \/ send_message(p) \/ send_reminder(p)
      PROVE  CanceledInv'
  BY <1>1, <1>4 DEF process_scheduled_messages, send_appointment_reminders, send_reminders,
     send_booking_confirmation, send_message, send_reminder, tables, bounds
<1>5. CASE tick \/ UNCHANGED vars
  BY <1>1, <1>5 DEF tick, vars, tables, bounds
<1> QED BY <1>2, <1>3, <1>4, <1>5, CanceledCall, CanceledProceed DEF Next, Work, Called

(* With one request at a time, and nobody dying between the two UPDATEs, a *)
(* canceled appointment has no reminder waiting between requests, whatever *)
(* confirmed, revived and canceled it before and whichever tasks are       *)
(* sending its reminders (send_appointment_messages).                      *)
THEOREM CanceledStaysQuiet == ASSUME OneWorker PROVE Spec => []CanceledIsQuiet
<1>1. CanceledInv => CanceledIsQuiet
  BY Nothing DEF CanceledInv, CanceledIsQuiet, AtRest, Canceling
<1>2. TypeOK /\ CanceledInv /\ [Next]_vars => CanceledInv'
  BY CanceledNext
<1> QED BY <1>1, <1>2, TypeCorrect, CanceledInit, PTL DEF Spec
=============================================================================
