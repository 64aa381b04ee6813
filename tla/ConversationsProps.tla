-------------------------- MODULE ConversationsProps --------------------------
EXTENDS Conversations

(* The rows, webhooks and tasks keep their types, a stored message belongs *)
(* to a conversation that is there (messaging/models.py, tenants/models.py)*)
(* and only stored messages wait or are worked at.                         *)
TypeOK ==
    /\ customers \subseteq Customers
    /\ owner \in [Conversations -> Customers \cup {None}]
    /\ status \in [Conversations -> Statuses \cup {"none"}]
    /\ stored \in [Deliveries -> Conversations \cup {None}]
    /\ queue \subseteq Deliveries /\ finished \subseteq Deliveries /\ lost \subseteq Deliveries
    /\ escalated \in [Conversations -> BOOLEAN]
    /\ deliveries \in [Messages -> 0 .. MaxDeliveries]
    /\ timeouts \in [Messages -> Nat] /\ notices \in [Messages -> Nat]
    /\ answered \subseteq Messages
    /\ replies \in [Deliveries -> Nat]
    /\ late \in [Conversations -> Nat]
    /\ handoffs \in [Conversations -> 0 .. MaxHandoffs]
    /\ undone \subseteq Conversations
    /\ ctx \in [Workers -> Webhook] /\ task \in [Processes -> Task]
    /\ crashes \in 0 .. MaxCrashes

(* What the customer wrote is replied to once, and once more for every     *)
(* answer that Twilio did not wait for and every worker or process that    *)
(* dies: one death costs Twilio the answer or the broker the               *)
(* acknowledgment, never both.  A delivery ends in a reply or in the       *)
(* notice that the business is unavailable, which each redelivery repeats, *)
(* not in both (twilio_webhook, which looks for no earlier message of the  *)
(* same MessageSid, and CELERY_ACKS_LATE).                                 *)
Replies(m) == UNION {{d} \X (1 .. replies[d]) : d \in {m} \X (1 .. MaxDeliveries)}

RepliesAreBounded ==
    \A m \in Messages :
        /\ Cardinality(Replies(m)) <= 1 + timeouts[m] + crashes
        /\ Cardinality(Replies(m)) + notices[m] <= deliveries[m] + crashes

(* Once staff have taken a conversation over the bot says in it what it    *)
(* was about to say, one reply per process, and no more, unless a save of  *)
(* an earlier copy gives the conversation back to the bot                  *)
(* (process_inbound_message, ConversationHandoffView.post).                *)
TakenOverIsQuiet ==
    \A c \in Conversations \ undone : late[c] <= Cardinality(Processes) * handoffs[c]

(* A message that waits for the bot is dealt with, whatever raises, or is  *)
(* lost with the process that worked at it (process_inbound_message).      *)
QueuedIsDealtWith ==
    \A d \in Deliveries : (d \in queue) ~> (d \in finished \/ d \in lost)

-----------------------------------------------------------------------------
(* What the documents say and the code does not do.                        *)

(* tenants/models.py:770, "Customers are unique by (tenant_id, phone_e164)"*)
(* Every ciphertext is new, so that no lookup finds the customer and every *)
(* message makes another one, with a conversation of its own.              *)
CustomersAreUnique == Cardinality(customers) <= 1

(* requirements.md:242, "WHEN a Conversation is in "handoff" status, THE   *)
(* Tulia System SHALL NOT process further messages with the                *)
(* IntentService", and tasks.md:339.  It stays in it until staff release   *)
(* it, which no code does.  A task that escalates saves the conversation   *)
(* as it read it, with the status "bot".                                   *)
HandoffIsKept ==
    [][\A c \in Conversations : status[c] = "handoff" => status'[c] = "handoff"]_vars

(* settings.py:605, "Optional reliability / performance tuning": the late  *)
(* acknowledgment saves the message of a worker that is lost, and not that *)
(* of a process that is killed in a worker that lives on.                  *)
QueuedIsFinished == \A d \in Deliveries : (d \in queue) ~> (d \in finished)

(* requirements.md:239, "WHEN the HUMAN_HANDOFF intent is detected, THE    *)
(* Tulia System SHALL update the Conversation status to "handoff"".        *)
(* Escalating leaves the status alone.                                     *)
EscalatedIsHandedOff ==
    \A c \in Conversations :
        escalated[c] /\ (\A p \in Processes : task[p].conversation # c) /\ crashes = 0
            => status[c] = "handoff"
=============================================================================
