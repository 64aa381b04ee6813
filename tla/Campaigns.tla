------------------------------- MODULE Campaigns -------------------------------
(***************************************************************************)
(* The execution of one campaign:                                          *)
(* apps/messaging/services/campaign_service.py, called by the request of   *)
(* CampaignExecuteView (apps/messaging/views.py), with the counters of     *)
(* MessageCampaign (apps/messaging/models.py).                             *)
(*                                                                         *)
(* Nothing here is a transaction: each statement commits by itself.        *)
(* Nobody executes a scheduled campaign at its time, and nothing calls     *)
(* MessageCampaign.cancel.                                                 *)
(***************************************************************************)
EXTENDS Integers, FiniteSets

CONSTANTS
    Workers,        \* requests that execute the campaign
    Customers,      \* the tenant's customers
    IsAbTest,       \* MessageCampaign.is_ab_test
    MaxErrors,      \* bound on the statements after a send that raise
    MaxCrashes      \* bound on the executions that end before their end

ASSUME CampaignsAssumption ==
    /\ IsFiniteSet(Workers) /\ IsFiniteSet(Customers)
    /\ IsAbTest \in BOOLEAN
    /\ MaxErrors \in Nat /\ MaxCrashes \in Nat

VARIABLES
    status,         \* MessageCampaign.status
    targeted,       \* delivery_count, delivered_count and failed_count
    delivered,
    failed,
    listed,         \* metadata.variant_customers: who is listed under a variant
    conversations,  \* how many conversations each customer has
    sent,           \* how many messages of the campaign went to each customer
    ctx,            \* each request's execution
    errors, crashes

counts == <<targeted, delivered, failed>>
bounds == <<errors, crashes>>
vars == <<status, counts, listed, conversations, sent, ctx, bounds>>

Statuses == {"draft", "scheduled", "sending", "completed", "canceled"}

(* An execution: how far it is, the status and the metadata of the object  *)
(* it read, the customers it has still to come to and the one it is at.    *)
Execution == [at : {"idle", "read", "select", "each", "consent", "conversation", "create",
                    "send", "sent", "track", "failed"},
              status : Statuses, listed : SUBSET Customers,
              left : SUBSET Customers, customer : SUBSET Customers]

NoExecution == [at |-> "idle", status |-> "draft", listed |-> {}, left |-> {}, customer |-> {}]

(* An earlier campaign may have left a customer with two conversations.    *)
Init ==
    /\ status \in {"draft", "scheduled"}
    /\ targeted = 0 /\ delivered = 0 /\ failed = 0
    /\ listed = {}
    /\ conversations \in [Customers -> 0 .. 2]
    /\ sent = [k \in Customers |-> 0]
    /\ ctx = [w \in Workers |-> NoExecution]
    /\ errors = 0 /\ crashes = 0

Advance(w, at) == ctx' = [ctx EXCEPT ![w].at = at]

-----------------------------------------------------------------------------
(* The view reads the campaign.                                            *)
post(w) ==
    /\ ctx[w].at = "idle"
    /\ ctx' = [ctx EXCEPT ![w] = [NoExecution EXCEPT !.at = "read", !.status = status,
                                                     !.listed = listed]]
    /\ UNCHANGED <<status, counts, listed, conversations, sent, bounds>>

(* Mutant of execute_campaign: a campaign that is being sent is resumed.   *)
execute_campaign_resuming(w) ==
    /\ ctx[w].at = "read"
    /\ IF ctx[w].status \in {"draft", "scheduled", "sending"}
       THEN status' = "sending" /\ Advance(w, "select")
       ELSE UNCHANGED status /\ ctx' = [ctx EXCEPT ![w] = NoExecution]
    /\ UNCHANGED <<counts, listed, conversations, sent, bounds>>

(* The status of the object decides; mark_sending writes whatever the      *)
(* status of the row is by then.                                           *)
execute_campaign(w) ==
    /\ ctx[w].at = "read"
    /\ IF ctx[w].status \in {"draft", "scheduled"}
       THEN status' = "sending" /\ Advance(w, "select")
       ELSE UNCHANGED status /\ ctx' = [ctx EXCEPT ![w] = NoExecution]
    /\ UNCHANGED <<counts, listed, conversations, sent, bounds>>

(* The customers that match target_criteria, whatever these are, read once.*)
apply_target_criteria(w) ==
    /\ ctx[w].at = "select"
    /\ \E matching \in SUBSET Customers :
        ctx' = [ctx EXCEPT ![w].at = "each", ![w].left = matching]
    /\ UNCHANGED <<status, counts, listed, conversations, sent, bounds>>

increment_delivery(w) ==
    /\ ctx[w].at = "each"
    /\ \E k \in ctx[w].left :
        ctx' = [ctx EXCEPT ![w].at = "consent", ![w].left = @ \ {k}, ![w].customer = {k}]
    /\ targeted' = targeted + 1
    /\ UNCHANGED <<status, delivered, failed, listed, conversations, sent, bounds>>

(* What ConsentService says, which may be out of date.                     *)
get_preferences(w) ==
    /\ ctx[w].at = "consent"
    /\ \E promotional \in BOOLEAN :
        Advance(w, IF promotional THEN "conversation" ELSE "each")
    /\ UNCHANGED <<status, counts, listed, conversations, sent, bounds>>

(* Conversation.objects.get_or_create: a query and, if it finds none, an   *)
(* insert, which no constraint keeps from being the second.  More than one *)
(* raises MultipleObjectsReturned.                                         *)
get_conversation(w) ==
    /\ ctx[w].at = "conversation"
    /\ \E k \in ctx[w].customer :
        \/ conversations[k] = 0 /\ Advance(w, "create")
        \/ conversations[k] = 1 /\ Advance(w, "send")
        \/ conversations[k] > 1 /\ Advance(w, "failed")
    /\ UNCHANGED <<status, counts, listed, conversations, sent, bounds>>

create_conversation(w) ==
    /\ ctx[w].at = "create"
    /\ \E k \in ctx[w].customer : conversations' = [conversations EXCEPT ![k] = @ + 1]
    /\ Advance(w, "send")
    /\ UNCHANGED <<status, counts, listed, sent, bounds>>

(* MessagingService.send_message asks for the consent once more.  It sends *)
(* the message and returns, it sends it and raises when it cannot say so   *)
(* in the row of the message, or it raises without having sent it.         *)
send_message(w) ==
    /\ ctx[w].at = "send"
    /\ \/ /\ \E k \in ctx[w].customer : sent' = [sent EXCEPT ![k] = @ + 1]
          /\ \/ Advance(w, "sent") /\ UNCHANGED errors
             \/ errors < MaxErrors /\ errors' = errors + 1 /\ Advance(w, "failed")
       \/ Advance(w, "failed") /\ UNCHANGED <<sent, errors>>
    /\ UNCHANGED <<status, counts, listed, conversations, crashes>>

(* One UPDATE with F('delivered_count') + 1.                               *)
increment_delivered(w) ==
    /\ ctx[w].at = "sent"
    /\ delivered' = delivered + 1
    /\ Advance(w, IF IsAbTest THEN "track" ELSE "each")
    /\ UNCHANGED <<status, targeted, failed, listed, conversations, sent, bounds>>

(* metadata is written as this request knows it.                           *)
track_variant(w) ==
    /\ ctx[w].at = "track"
    /\ listed' = ctx[w].listed \cup ctx[w].customer
    /\ ctx' = [ctx EXCEPT ![w].at = "each", ![w].listed = listed']
    /\ UNCHANGED <<status, counts, conversations, sent, bounds>>

(* One of the statements after the send raises.                            *)
error(w) ==
    /\ ctx[w].at \in {"sent", "track"}
    /\ errors < MaxErrors
    /\ errors' = errors + 1
    /\ Advance(w, "failed")
    /\ UNCHANGED <<status, counts, listed, conversations, sent, crashes>>

(* Mutant of increment_failed: only what the provider refused is counted.  *)
increment_failed_unless_sent(w) ==
    /\ ctx[w].at = "failed"
    /\ failed' = IF \E k \in ctx[w].customer : sent[k] > 0 THEN failed ELSE failed + 1
    /\ Advance(w, "each")
    /\ UNCHANGED <<status, targeted, delivered, listed, conversations, sent, bounds>>

(* Whatever was raised, the message counts as failed.                      *)
increment_failed(w) ==
    /\ ctx[w].at = "failed"
    /\ failed' = failed + 1
    /\ Advance(w, "each")
    /\ UNCHANGED <<status, targeted, delivered, listed, conversations, sent, bounds>>

(* Mutant of mark_completed: a status the choices do not have.             *)
mark_completed_sent(w) ==
    /\ ctx[w].at = "each" /\ ctx[w].left = {}
    /\ status' = "sent"
    /\ ctx' = [ctx EXCEPT ![w] = NoExecution]
    /\ UNCHANGED <<counts, listed, conversations, sent, bounds>>

mark_completed(w) ==
    /\ ctx[w].at = "each" /\ ctx[w].left = {}
    /\ status' = "completed"
    /\ ctx' = [ctx EXCEPT ![w] = NoExecution]
    /\ UNCHANGED <<counts, listed, conversations, sent, bounds>>

(* The request dies, or a statement outside the try of the loop raises and *)
(* it is answered with 500.  The campaign stays as it is.                  *)
crash(w) ==
    /\ ctx[w].at # "idle"
    /\ crashes < MaxCrashes
    /\ crashes' = crashes + 1
    /\ ctx' = [ctx EXCEPT ![w] = NoExecution]
    /\ UNCHANGED <<status, counts, listed, conversations, sent, errors>>

Proceed(w) ==
    \/ execute_campaign(w) \/ apply_target_criteria(w) \/ increment_delivery(w)
    \/ get_preferences(w) \/ get_conversation(w) \/ create_conversation(w)
    \/ send_message(w) \/ increment_delivered(w) \/ track_variant(w) \/ error(w)
    \/ increment_failed(w) \/ mark_completed(w)

Next == \E w \in Workers : post(w) \/ Proceed(w) \/ crash(w)

Spec == Init /\ [][Next]_vars

-----------------------------------------------------------------------------
(* What must hold.                                                         *)

(* The campaign and its executions keep their types (messaging/models.py). *)
TypeOK ==
    /\ status \in Statuses
    /\ targeted \in Nat /\ delivered \in Nat /\ failed \in Nat
    /\ listed \subseteq Customers
    /\ conversations \in [Customers -> Nat]
    /\ sent \in [Customers -> Nat]
    /\ ctx \in [Workers -> Execution]
    /\ \A w \in Workers : Cardinality(ctx[w].customer) <= 1
    /\ errors \in 0 .. MaxErrors /\ crashes \in 0 .. MaxCrashes

(* The status is looked at in an object read earlier, so that requests     *)
(* made at the same time all execute the campaign; but none that came after*)
(* the first has begun does, whoever dies: with n at a time a customer     *)
(* gets the campaign at most n times (CampaignExecuteView,                 *)
(* execute_campaign).                                                      *)
SendsAreBounded == \A k \in Customers : sent[k] <= Cardinality(Workers)

(* The messages of the campaign that the provider took.                    *)
Sends == UNION {{k} \X (1 .. sent[k]) : k \in Customers}

(* Those that sent, or failed to, and have not counted it yet.             *)
Uncounted == {w \in Workers : ctx[w].at \in {"sent", "failed"}}

(* The counters keep up with the provider, however executions overlap,     *)
(* whatever raises after a send and whoever dies: what was delivered was   *)
(* sent, what was sent is counted as delivered or as failed, but for what  *)
(* is on its way to be counted and what a death left uncounted, and nobody *)
(* is counted twice as delivered and failed but by an error                *)
(* (execute_campaign, increment_delivered, increment_failed).              *)
DeliveriesAreCounted ==
    /\ delivered <= Cardinality(Sends)
    /\ Cardinality(Sends) <= delivered + failed + Cardinality(Uncounted) + crashes
    /\ delivered + failed <= targeted + errors

-----------------------------------------------------------------------------
(* What the documents say and the code does not do.                        *)

(* messaging/models.py:1030, "Total customers targeted": two executions    *)
(* count every customer twice.                                             *)
CountsCustomers == targeted <= Cardinality(Customers)

(* requirements.md:724, "WHEN an A/B test campaign completes, THE Tulia    *)
(* System SHALL calculate engagement_rate for each variant", which counts  *)
(* by the customers listed: whoever the provider took a message for is     *)
(* listed in the end.  An execution overwrites what another listed.        *)
VariantsAreListed ==
    IsAbTest /\ errors = 0 /\ crashes = 0 /\ (\A w \in Workers : ctx[w].at = "idle")
        => \A k \in Customers : sent[k] > 0 => k \in listed
=============================================================================
