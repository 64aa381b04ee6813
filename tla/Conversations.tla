----------------------------- MODULE Conversations -----------------------------
(***************************************************************************)
(* What one phone number writes to one tenant and how the bot answers:     *)
(* twilio_webhook of apps/integrations/views.py, process_inbound_message   *)
(* of apps/bot/tasks.py, and ConversationHandoffView, with which staff     *)
(* take a conversation over.                                               *)
(*                                                                         *)
(* The number is kept encrypted under a nonce drawn for every value that   *)
(* is written or looked up (EncryptedCharField.get_prep_value): a lookup   *)
(* finds a row only when it happens to draw that row's nonce, and so does  *)
(* the unique constraint.  The nonce has 96 bits; here either happens.     *)
(*                                                                         *)
(* Twilio sends a message again until it gets a 200, and does not wait     *)
(* for ever for one: then it sends the message while the first webhook of  *)
(* it is still at work, or has answered too late.  Celery acknowledges a   *)
(* task when it ends (CELERY_ACKS_LATE): when a whole worker is lost the   *)
(* task is done again, when only its process is, the message is lost.      *)
(***************************************************************************)
EXTENDS Integers, FiniteSets

CONSTANTS
    Workers,        \* web workers, each serving one webhook
    Processes,      \* celery processes, each running one task
    Messages,       \* the MessageSids of what the customer writes
    None,
    MaxDeliveries,  \* bound on how often Twilio sends one message
    MaxHandoffs,    \* bound on the staff's requests for a handoff
    MaxCrashes      \* bound on the workers and processes that die

ASSUME ConversationsAssumption ==
    /\ IsFiniteSet(Workers) /\ IsFiniteSet(Processes)
    /\ None \notin Messages \X (1 .. MaxDeliveries)
    /\ MaxDeliveries \in Nat \ {0} /\ MaxHandoffs \in Nat /\ MaxCrashes \in Nat

(* An inbound Message row: nothing looks for an earlier one of the same    *)
(* MessageSid.                                                             *)
Deliveries == Messages \X (1 .. MaxDeliveries)

(* A Customer or Conversation row is named for the delivery that made it.  *)
Customers == Deliveries
Conversations == Deliveries

VARIABLES
    customers,      \* the Customer rows, all of one phone_e164
    owner,          \* Conversation.customer
    status,         \* Conversation.status, "none" while there is no row
    stored,         \* Message.conversation, None while there is no row
    queue,          \* messages whose process_inbound_message waits
    finished,       \* messages whose task has returned
    lost,           \* messages whose task was dropped with its process
    escalated,      \* escalation_required of its ConversationSession
    deliveries,     \* how often Twilio sent each message
    timeouts,       \* how often it stopped waiting for the answer
    answered,       \* the messages of which a 200 reached it
    notices,        \* how often each was told that the business is unavailable
    replies,        \* how often each row was replied to
    late,           \* replies sent in a conversation after its first handoff
    handoffs,       \* requests for a handoff of each conversation
    undone,         \* conversations that a stale save took out of handoff
    ctx,            \* each worker's webhook
    task,           \* each process's task
    crashes

rows == <<customers, owner, status, stored, escalated>>
twilio == <<deliveries, timeouts, answered, notices>>
ended == <<finished, lost>>
counts == <<replies, late, handoffs, undone>>
vars == <<rows, queue, ended, twilio, counts, ctx, task, crashes>>

(* The webhook makes conversations under the bot, and no step from there   *)
(* leads to "open", which only the service of outbound messages makes for  *)
(* a customer without a conversation, to "dormant", which only an open one *)
(* becomes, or to "closed".                                                *)
Statuses == {"bot", "handoff"}

(* A webhook: its message, the customer and conversation it found, and     *)
(* whether Twilio still waits for its answer.                              *)
NoWebhook == [at |-> "idle", row |-> None, customer |-> None, conversation |-> None,
              awaited |-> FALSE]

Webhook == [at : {"find", "commit", "enqueue", "answer"}, row : Deliveries,
            customer : Customers \cup {None}, conversation : Conversations \cup {None},
            awaited : BOOLEAN]
           \cup {NoWebhook}

(* A task: its message and conversation, the conversation's status as it   *)
(* was read, and the session's escalation_required.                        *)
NoTask == [at |-> "idle", row |-> None, conversation |-> None,
           status |-> "bot", escalated |-> FALSE]

Task == [at : {"session", "process", "send", "save", "escalate"},
         row : Deliveries, conversation : Conversations,
         status : Statuses, escalated : BOOLEAN] \cup {NoTask}

Init ==
    /\ customers = {}
    /\ owner = [c \in Conversations |-> None]
    /\ status = [c \in Conversations |-> "none"]
    /\ stored = [d \in Deliveries |-> None]
    /\ queue = {} /\ finished = {} /\ lost = {}
    /\ escalated = [c \in Conversations |-> FALSE]
    /\ deliveries = [m \in Messages |-> 0]
    /\ timeouts = [m \in Messages |-> 0]
    /\ answered = {}
    /\ notices = [m \in Messages |-> 0]
    /\ replies = [d \in Deliveries |-> 0]
    /\ late = [c \in Conversations |-> 0]
    /\ handoffs = [c \in Conversations |-> 0]
    /\ undone = {}
    /\ ctx = [w \in Workers |-> NoWebhook]
    /\ task = [p \in Processes |-> NoTask]
    /\ crashes = 0

(* The conversations of a customer that the bot leads.                     *)
Live(k) == {c \in Conversations : owner[c] = k /\ status[c] = "bot"}

-----------------------------------------------------------------------------
(* twilio_webhook                                                          *)

(* Twilio sends a message that it got no 200 for and waits for none of.    *)
(* One whose tenant, credentials or signature are not in order is answered *)
(* with an error, which Twilio takes for a failure; so is one to a tenant  *)
(* without an active subscription, after a notice to the customer, which   *)
(* Twilio may refuse.                                                      *)
twilio_webhook(w) ==
    /\ ctx[w].at = "idle"
    /\ \E m \in Messages \ answered :
        /\ deliveries[m] < MaxDeliveries
        /\ \A v \in Workers : ctx[v].awaited => ctx[v].row[1] # m
        /\ deliveries' = [deliveries EXCEPT ![m] = @ + 1]
        /\ \/ /\ ctx' = [ctx EXCEPT ![w] = [NoWebhook EXCEPT !.at = "find", !.awaited = TRUE,
                                                !.row = <<m, deliveries[m] + 1>>]]
              /\ UNCHANGED notices
           \/ UNCHANGED <<ctx, notices>>
           \/ notices' = [notices EXCEPT ![m] = @ + 1] /\ UNCHANGED ctx
    /\ UNCHANGED <<rows, queue, ended, timeouts, answered, counts, task, crashes>>

(* Twilio stops waiting: the answer comes too late, is lost, or is a 500   *)
(* because the error cannot be written to the log either.  The webhook     *)
(* does not notice.                                                        *)
time_out(w) ==
    /\ ctx[w].awaited
    /\ timeouts' = [timeouts EXCEPT ![ctx[w].row[1]] = @ + 1]
    /\ ctx' = [ctx EXCEPT ![w].awaited = FALSE]
    /\ UNCHANGED <<rows, queue, ended, deliveries, answered, notices, counts, task, crashes>>

(* The customer whose ciphertext the lookup's equals, if any.              *)
by_phone == customers \cup {None}

(* The transaction looks for the customer and for a conversation of its    *)
(* that is open or with the bot.                                           *)
get_or_create_conversation(w) ==
    /\ ctx[w].at = "find"
    /\ \E k \in by_phone :
        \E c \in IF Live(k) = {} THEN {None} ELSE Live(k) :
            ctx' = [ctx EXCEPT ![w].at = "commit", ![w].customer = k, ![w].conversation = c]
    /\ UNCHANGED <<rows, queue, ended, twilio, counts, task, crashes>>

(* What was not found is created, with the message, and committed.  Only   *)
(* an equal ciphertext violates the uniqueness of the number; like every   *)
(* exception this is answered with 200.                                    *)
commit(w) ==
    /\ ctx[w].at = "commit"
    /\ \/ LET d == ctx[w].row
              k == IF ctx[w].customer = None THEN d ELSE ctx[w].customer
              c == IF ctx[w].conversation = None THEN d ELSE ctx[w].conversation
          IN  /\ customers' = customers \cup {k}
              /\ IF ctx[w].conversation = None
                 THEN /\ status' = [status EXCEPT ![c] = "bot"]
                      /\ owner' = [owner EXCEPT ![c] = k]
                 ELSE UNCHANGED <<status, owner>>
              /\ stored' = [stored EXCEPT ![d] = c]
              /\ ctx' = [ctx EXCEPT ![w].at = "enqueue"]
       \/ /\ ctx[w].customer = None /\ customers # {}
          /\ ctx' = [ctx EXCEPT ![w].at = "answer"]
          /\ UNCHANGED <<customers, status, owner, stored>>
    /\ UNCHANGED <<queue, ended, escalated, twilio, counts, task, crashes>>

(* process_inbound_message.delay, which raises when the broker is not      *)
(* there.                                                                  *)
enqueue(w) ==
    /\ ctx[w].at = "enqueue"
    /\ \/ queue' = queue \cup {ctx[w].row}
       \/ UNCHANGED queue
    /\ ctx' = [ctx EXCEPT ![w].at = "answer"]
    /\ UNCHANGED <<rows, ended, twilio, counts, task, crashes>>

(* Mutant of answer: an error after the message was queued is not 200.     *)
answer_error(w) ==
    /\ ctx[w].at = "answer"
    /\ ctx' = [ctx EXCEPT ![w] = NoWebhook]
    /\ UNCHANGED <<rows, queue, ended, twilio, counts, task, crashes>>

answer(w) ==
    /\ ctx[w].at = "answer"
    /\ answered' = IF ctx[w].awaited THEN answered \cup {ctx[w].row[1]} ELSE answered
    /\ ctx' = [ctx EXCEPT ![w] = NoWebhook]
    /\ UNCHANGED <<rows, queue, ended, deliveries, timeouts, notices, counts, task, crashes>>

-----------------------------------------------------------------------------
(* process_inbound_message                                                 *)

Idle(p) == task[p].at = "idle"

Finish(p) ==
    /\ finished' = finished \cup {task[p].row}
    /\ task' = [task EXCEPT ![p] = NoTask]
    /\ UNCHANGED lost

(* Mutant of process_inbound_message: handoff is not looked at.            *)
process_inbound_message_always(p) ==
    /\ Idle(p)
    /\ \E d \in queue :
        /\ queue' = queue \ {d}
        /\ task' = [task EXCEPT ![p] = [NoTask EXCEPT
                        !.at = "session", !.row = d, !.conversation = stored[d],
                        !.status = status[stored[d]]]]
    /\ UNCHANGED <<rows, ended, twilio, counts, ctx, crashes>>

(* The message and its conversation are read; a conversation in handoff is *)
(* left to the staff.                                                      *)
process_inbound_message(p) ==
    /\ Idle(p)
    /\ \E d \in queue :
        LET c == stored[d]
        IN  /\ queue' = queue \ {d}
            /\ \/ /\ status[c] = "handoff"
                  /\ finished' = finished \cup {d}
                  /\ UNCHANGED <<lost, task>>
               \/ /\ status[c] # "handoff"
                  /\ task' = [task EXCEPT ![p] = [NoTask EXCEPT !.at = "session", !.row = d,
                                    !.conversation = c, !.status = status[c]]]
                  /\ UNCHANGED ended
    /\ UNCHANGED <<rows, twilio, counts, ctx, crashes>>

(* ConversationSession.objects.get_or_create                               *)
get_session(p) ==
    /\ task[p].at = "session"
    /\ task' = [task EXCEPT ![p].at = "process", ![p].escalated = escalated[task[p].conversation]]
    /\ UNCHANGED <<rows, queue, ended, twilio, counts, ctx, crashes>>

(* Mutant of fail: an exception puts the task back.                        *)
fail_retry(p) ==
    /\ task[p].at \in {"process", "send"}
    /\ queue' = queue \cup {task[p].row}
    /\ task' = [task EXCEPT ![p] = NoTask]
    /\ UNCHANGED <<rows, ended, twilio, counts, ctx, crashes>>

(* Any exception ends the task: of the graph, or of Twilio, which has not  *)
(* taken the reply.  Nothing is retried.                                   *)
fail(p) ==
    /\ task[p].at \in {"process", "send"}
    /\ Finish(p)
    /\ UNCHANGED <<rows, queue, twilio, counts, ctx, crashes>>

(* orchestrator.process_message, which takes the time of several calls of  *)
(* a language model.  The graph sets escalation_required and never clears  *)
(* it.  Without a text nothing is sent.                                    *)
process_message(p) ==
    /\ task[p].at = "process"
    /\ \E escalates, responds \in BOOLEAN :
        task' = [task EXCEPT ![p].at = IF responds THEN "send" ELSE "save",
                             ![p].escalated = @ \/ escalates]
    /\ UNCHANGED <<rows, queue, ended, twilio, counts, ctx, crashes>>

(* Twilio takes the reply; its answer may still be lost.                   *)
send_whatsapp(p) ==
    /\ task[p].at = "send"
    /\ LET c == task[p].conversation
       IN  /\ replies' = [replies EXCEPT ![task[p].row] = @ + 1]
           /\ late' = IF handoffs[c] > 0 THEN [late EXCEPT ![c] = @ + 1] ELSE late
    /\ \/ task' = [task EXCEPT ![p].at = "save"] /\ UNCHANGED ended
       \/ Finish(p)
    /\ UNCHANGED <<rows, queue, twilio, handoffs, undone, ctx, crashes>>

(* session.save() writes the state this task began with and went on from.  *)
save_session(p) ==
    /\ task[p].at = "save"
    /\ escalated' = [escalated EXCEPT ![task[p].conversation] = task[p].escalated]
    /\ IF task[p].escalated
       THEN task' = [task EXCEPT ![p].at = "escalate"] /\ UNCHANGED ended
       ELSE Finish(p)
    /\ UNCHANGED <<customers, owner, status, stored, queue, twilio, counts, ctx, crashes>>

(* Mutant of escalate: a status that is none of STATUS_CHOICES.            *)
escalate_status(p) ==
    /\ task[p].at = "escalate"
    /\ status' = [status EXCEPT ![task[p].conversation] = "escalated"]
    /\ Finish(p)
    /\ UNCHANGED <<customers, owner, stored, escalated, queue, twilio, counts, ctx, crashes>>

(* conversation.save() writes every field as it was read, the status too;  *)
(* handoff_active and handoff_reason are no fields of it.                  *)
escalate(p) ==
    /\ task[p].at = "escalate"
    /\ LET c == task[p].conversation
       IN  /\ status' = [status EXCEPT ![c] = task[p].status]
           /\ undone' = IF status[c] = "handoff" THEN undone \cup {c} ELSE undone
    /\ Finish(p)
    /\ UNCHANGED <<customers, owner, stored, escalated, queue, twilio, replies, late,
                   handoffs, ctx, crashes>>

-----------------------------------------------------------------------------
(* ConversationHandoffView.post                                            *)
mark_handoff(c) ==
    /\ status[c] # "none"
    /\ handoffs[c] < MaxHandoffs
    /\ handoffs' = [handoffs EXCEPT ![c] = @ + 1]
    /\ status' = [status EXCEPT ![c] = "handoff"]
    /\ UNCHANGED <<customers, owner, stored, escalated, queue, ended, twilio,
                   replies, late, undone, ctx, task, crashes>>

(* A web worker dies and Twilio gets no answer; an open transaction is     *)
(* rolled back.                                                            *)
crash(w) ==
    /\ ctx[w].at # "idle"
    /\ crashes < MaxCrashes
    /\ crashes' = crashes + 1
    /\ ctx' = [ctx EXCEPT ![w] = NoWebhook]
    /\ UNCHANGED <<rows, queue, ended, twilio, counts, task>>

(* A celery worker is lost with the process and the message is queued      *)
(* again, or the process alone and the message with it.                    *)
crash_task(p) ==
    /\ ~ Idle(p)
    /\ crashes < MaxCrashes
    /\ crashes' = crashes + 1
    /\ task' = [task EXCEPT ![p] = NoTask]
    /\ \/ queue' = queue \cup {task[p].row} /\ UNCHANGED lost
       \/ lost' = lost \cup {task[p].row} /\ UNCHANGED queue
    /\ UNCHANGED <<rows, finished, twilio, counts, ctx>>

Work(p) ==
    \/ get_session(p) \/ process_message(p) \/ send_whatsapp(p) \/ fail(p)
    \/ save_session(p) \/ escalate(p)

Next ==
    \/ \E w \in Workers :
        \/ twilio_webhook(w) \/ time_out(w) \/ get_or_create_conversation(w) \/ commit(w)
        \/ enqueue(w) \/ answer(w) \/ crash(w)
    \/ \E p \in Processes : process_inbound_message(p) \/ Work(p) \/ crash_task(p)
    \/ \E c \in Conversations : mark_handoff(c)

Spec == Init /\ [][Next]_vars

(* A running task goes on, its time limit ends it at the latest, and a     *)
(* free process takes a task that waits.                                   *)
Fairness ==
    /\ \A p \in Processes : WF_vars(Work(p))
    /\ WF_vars(\E p \in Processes : process_inbound_message(p))

FairSpec == Spec /\ Fairness
=============================================================================
