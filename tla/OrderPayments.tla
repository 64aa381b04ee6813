----------------------------- MODULE OrderPayments -----------------------------
(***************************************************************************)
(* One order that is paid through a card provider:                         *)
(* apps/integrations/services/payment_service.py and the webhook views     *)
(* that call it, Order.mark_paid and the signals of apps/orders, and the   *)
(* staff's PUT /v1/orders/{id}.                                            *)
(*                                                                         *)
(* No handler here runs in one database transaction: the wallet credit     *)
(* commits (WalletService.process_customer_payment, one step here), and    *)
(* each save() of the order is a read by pre_save, an UPDATE and a         *)
(* post_save that queues the confirmation, with other requests in between. *)
(***************************************************************************)
EXTENDS Integers

CONSTANTS
    Workers,        \* web workers, each serving one request
    Checkouts,      \* sessions that may be opened at the provider
    Signed,         \* those whose events the configured secret makes the handler verify
    Operations,     \* what happens to the order
    None,
    MaxDeliveries,  \* how often the provider delivers one event before it gives up
    MaxUpdates,     \* bound on the staff's updates
    MaxCrashes      \* bound on requests that die

ASSUME OrderAssumption ==
    /\ None \notin Checkouts
    /\ Signed \subseteq Checkouts
    /\ MaxDeliveries \in Nat /\ MaxUpdates \in Nat /\ MaxCrashes \in Nat

VARIABLES
    status,         \* Order.status
    facilitation,   \* the tenant's SubscriptionTier.payment_facilitation
    checkouts,      \* what the customer can do at the provider: each session's state
    due,            \* sessions whose payment event the provider is about to deliver
    deliveries,     \* how often it has delivered each
    credits,        \* how often each session's payment was credited to the wallet
    confirmations,  \* send_payment_confirmation tasks queued
    ctx,            \* each worker's request
    updates, crashes

tables == <<status, credits>>
provider == <<checkouts, due, deliveries>>
bounds == <<updates, crashes>>
vars == <<status, facilitation, checkouts, due, deliveries, credits, confirmations, ctx, bounds>>

Statuses == {"draft", "placed", "paid", "fulfilled", "canceled"}

(* OrderUpdateSerializer.validate_status                                   *)
valid_transitions ==
    [draft |-> {"placed", "canceled"}, placed |-> {"paid", "canceled"},
     paid |-> {"fulfilled", "canceled"}, fulfilled |-> {}, canceled |-> {}]

(* A request: what it does, how far it is, its session, the status in its  *)
(* order object and the status pre_save read.                              *)
Request == [op : {"checkout", "webhook", "failure", "update", "update_stamped", "stamp", "none"},
            at : {"idle", "found", "save", "update", "post_save", "answer"},
            checkout : Checkouts \cup {None}, status : Statuses, previous : Statuses]

NoRequest == [op |-> "none", at |-> "idle", checkout |-> None, status |-> "draft",
              previous |-> "draft"]

Init ==
    /\ status \in {"draft", "placed"}
    /\ facilitation = TRUE
    /\ checkouts = [c \in Checkouts |-> "none"]
    /\ due = {}
    /\ deliveries = [c \in Checkouts |-> 0]
    /\ credits = [c \in Checkouts |-> 0]
    /\ confirmations = 0
    /\ ctx = [w \in Workers |-> NoRequest]
    /\ updates = 0 /\ crashes = 0

Idle(w) == ctx[w].at = "idle"

Begin(w, op, at, c, new) ==
    ctx' = [ctx EXCEPT ![w] = [NoRequest EXCEPT !.op = op, !.at = at, !.checkout = c,
                                                !.status = new]]

-----------------------------------------------------------------------------
(* The order is read, the provider opens a session, and its reference is   *)
(* saved before the customer gets the link.  The status is not looked at.  *)
generate_checkout_link(w) ==
    /\ "generate_checkout_link" \in Operations
    /\ Idle(w)
    /\ facilitation
    /\ \E c \in Checkouts :
        /\ checkouts[c] = "none"
        /\ \A v \in Workers : ctx[v].checkout # c
        /\ Begin(w, "checkout", "save", c, status)
    /\ UNCHANGED <<tables, facilitation, provider, confirmations, bounds>>

(* PUT: the order is read and the new status validated against what was    *)
(* read; a PUT of the tracking number keeps it.  The view saves a second   *)
(* time, the timestamp, when the order becomes paid or fulfilled.          *)
update_order(w) ==
    /\ "update_order" \in Operations
    /\ Idle(w)
    /\ updates < MaxUpdates
    /\ updates' = updates + 1
    /\ \/ \E new \in {status} \cup (valid_transitions[status] \ {"paid", "fulfilled"}) :
            Begin(w, "update", "save", None, new)
       \/ \E new \in valid_transitions[status] \cap {"paid", "fulfilled"} :
            Begin(w, "update_stamped", "save", None, new)
    /\ UNCHANGED <<tables, facilitation, provider, confirmations, crashes>>

(* The provider posts the event; the handler finds the order by the id in  *)
(* the session's metadata.                                                 *)
process_payment_webhook(w) ==
    /\ Idle(w)
    /\ \E c \in due \ Signed :
        /\ deliveries[c] < MaxDeliveries
        /\ deliveries' = [deliveries EXCEPT ![c] = @ + 1]
        /\ due' = due \ {c}
        /\ Begin(w, "webhook", "found", c, status)
    /\ UNCHANGED <<tables, facilitation, checkouts, confirmations, bounds>>

(* With a secret configured the handler verifies the signature not over    *)
(* the body but over json.dumps of the parsed body, whose separators are   *)
(* ", " and ": ".  Stripe's bodies are indented and Paystack's are         *)
(* compact, so the signature never fits and the answer is 400.             *)
refuse_signature(w) ==
    /\ Idle(w)
    /\ \E c \in due \cap Signed :
        /\ deliveries[c] < MaxDeliveries
        /\ deliveries' = [deliveries EXCEPT ![c] = @ + 1]
    /\ UNCHANGED <<tables, facilitation, checkouts, due, confirmations, ctx, bounds>>

(* The event of a payment that failed: the reason is saved in metadata,    *)
(* which nothing reads; the save still passes the signals.                 *)
process_failed_payment(w) ==
    /\ "process_failed_payment" \in Operations
    /\ Idle(w)
    /\ \E c \in Checkouts \ Signed :
        /\ checkouts[c] # "none"
        /\ Begin(w, "failure", "save", c, status)
    /\ UNCHANGED <<tables, facilitation, provider, confirmations, bounds>>

(* Mutants of process_successful_payment: an order that is paid is not     *)
(* credited; a session that was credited is not processed; the order is    *)
(* marked as paid first.                                                   *)
process_successful_payment_if_unpaid(w) ==
    /\ ctx[w].at = "found"
    /\ credits' = [credits EXCEPT ![ctx[w].checkout] = IF status = "paid" THEN @ ELSE @ + 1]
    /\ ctx' = [ctx EXCEPT ![w].at = "save", ![w].status = "paid"]
    /\ UNCHANGED <<status, facilitation, provider, confirmations, bounds>>

process_successful_payment_once(w) ==
    /\ ctx[w].at = "found"
    /\ credits' = [credits EXCEPT ![ctx[w].checkout] = 1]
    /\ ctx' = [ctx EXCEPT ![w].at = IF credits[ctx[w].checkout] = 0 THEN "save" ELSE "answer",
                          ![w].status = "paid"]
    /\ UNCHANGED <<status, facilitation, provider, confirmations, bounds>>

process_successful_payment_marks_first(w) ==
    /\ ctx[w].at = "found"
    /\ status' = "paid"
    /\ ctx' = [ctx EXCEPT ![w].at = "save", ![w].status = "paid"]
    /\ UNCHANGED <<credits, facilitation, provider, confirmations, bounds>>

(* The wallet is credited if the tier has payment facilitation, in a       *)
(* database transaction of its own; then order.mark_paid begins.           *)
process_successful_payment(w) ==
    /\ ctx[w].at = "found"
    /\ credits' = IF facilitation THEN [credits EXCEPT ![ctx[w].checkout] = @ + 1] ELSE credits
    /\ ctx' = [ctx EXCEPT ![w].at = "save", ![w].status = "paid"]
    /\ UNCHANGED <<status, facilitation, provider, confirmations, bounds>>

-----------------------------------------------------------------------------
(* order.save()                                                            *)

(* track_order_status_change                                               *)
pre_save(w) ==
    /\ ctx[w].at = "save"
    /\ ctx' = [ctx EXCEPT ![w].at = "update", ![w].previous = status]
    /\ UNCHANGED <<tables, facilitation, provider, confirmations, bounds>>

(* The UPDATE: mark_paid and the serializer write the status; a checkout,  *)
(* a failure and the save of a timestamp do not.                           *)
WritesStatus(w) == ctx[w].op \in {"webhook", "update", "update_stamped"}

(* Mutant of save: a status that is none of STATUS_CHOICES.                *)
save_unlisted(w) ==
    /\ ctx[w].at = "update"
    /\ status' = IF ctx[w].op = "webhook" THEN "completed" ELSE status
    /\ ctx' = [ctx EXCEPT ![w].at = "post_save"]
    /\ UNCHANGED <<credits, facilitation, provider, confirmations, bounds>>

save(w) ==
    /\ ctx[w].at = "update"
    /\ status' = IF WritesStatus(w) THEN ctx[w].status ELSE status
    /\ ctx' = [ctx EXCEPT ![w].at = "post_save"]
    /\ UNCHANGED <<credits, facilitation, provider, confirmations, bounds>>

(* What follows the save: the answer to the provider, the save of the      *)
(* timestamp, the checkout's link going to the customer, or nothing.       *)
AfterSave(w) ==
    \/ /\ ctx[w].op = "webhook"
       /\ ctx' = [ctx EXCEPT ![w].at = "answer"]
       /\ UNCHANGED checkouts
    \/ /\ ctx[w].op = "update_stamped"
       /\ ctx' = [ctx EXCEPT ![w].op = "stamp", ![w].at = "save"]
       /\ UNCHANGED checkouts
    \/ /\ ctx[w].op = "checkout"
       /\ ctx' = [ctx EXCEPT ![w] = NoRequest]
       /\ checkouts' = [checkouts EXCEPT ![ctx[w].checkout] = "open"]
    \/ /\ ctx[w].op \in {"failure", "update", "stamp"}
       /\ ctx' = [ctx EXCEPT ![w] = NoRequest]
       /\ UNCHANGED checkouts

(* Mutant of send_order_transactional_messages: only for an order that     *)
(* was placed.                                                             *)
send_order_transactional_messages_placed(w) ==
    /\ ctx[w].at = "post_save"
    /\ confirmations' = IF ctx[w].status = "paid" /\ ctx[w].previous = "placed"
                        THEN confirmations + 1 ELSE confirmations
    /\ AfterSave(w)
    /\ UNCHANGED <<tables, facilitation, due, deliveries, bounds>>

(* A confirmation is queued when the object is paid and pre_save saw       *)
(* another status.                                                         *)
send_order_transactional_messages(w) ==
    /\ ctx[w].at = "post_save"
    /\ confirmations' = IF ctx[w].status = "paid" /\ ctx[w].previous # "paid"
                        THEN confirmations + 1 ELSE confirmations
    /\ AfterSave(w)
    /\ UNCHANGED <<tables, facilitation, due, deliveries, bounds>>

-----------------------------------------------------------------------------
(* The provider takes an answer that is not 200 as a failed delivery.      *)
(* After a payment was processed the view saves webhook_log with           *)
(* update_fields=['status', 'response']; WebhookLog has no field response, *)
(* save raises ValueError and the answer is 500.                           *)
answer(w) ==
    /\ ctx[w].at = "answer"
    /\ due' = due \cup {ctx[w].checkout}
    /\ ctx' = [ctx EXCEPT ![w] = NoRequest]
    /\ UNCHANGED <<tables, facilitation, checkouts, deliveries, confirmations, bounds>>

(* A request dies, or a call in it raises: what it wrote stays, the        *)
(* provider gets no 200.                                                   *)
crash(w) ==
    /\ ~ Idle(w)
    /\ crashes < MaxCrashes
    /\ crashes' = crashes + 1
    /\ due' = IF ctx[w].op = "webhook" THEN due \cup {ctx[w].checkout} ELSE due
    /\ ctx' = [ctx EXCEPT ![w] = NoRequest]
    /\ UNCHANGED <<tables, facilitation, checkouts, deliveries, confirmations, updates>>

(* The customer pays a session.                                            *)
pay(c) ==
    /\ checkouts[c] = "open"
    /\ checkouts' = [checkouts EXCEPT ![c] = "paid"]
    /\ due' = due \cup {c}
    /\ UNCHANGED <<tables, facilitation, deliveries, confirmations, ctx, bounds>>

(* The answer is late or lost on its way: the provider delivers again.     *)
redeliver(c) ==
    /\ "redeliver" \in Operations
    /\ checkouts[c] = "paid"
    /\ c \notin due
    /\ due' = due \cup {c}
    /\ UNCHANGED <<tables, facilitation, checkouts, deliveries, confirmations, ctx, bounds>>

(* The tenant moves to a tier with or without payment facilitation.  The   *)
(* downgrade asks for an empty wallet, which withdrawals, not modelled     *)
(* here, may have made it.                                                 *)
change_tier ==
    /\ "change_tier" \in Operations
    /\ facilitation' = ~ facilitation
    /\ UNCHANGED <<tables, provider, confirmations, ctx, bounds>>

Proceed(w) ==
    \/ process_successful_payment(w)
    \/ pre_save(w) \/ save(w) \/ send_order_transactional_messages(w)
    \/ answer(w)

Next ==
    \/ \E w \in Workers :
        \/ generate_checkout_link(w) \/ update_order(w)
        \/ process_payment_webhook(w) \/ refuse_signature(w) \/ process_failed_payment(w)
        \/ Proceed(w) \/ crash(w)
    \/ \E c \in Checkouts : pay(c) \/ redeliver(c)
    \/ change_tier

Spec == Init /\ [][Next]_vars

(* A request that runs is scheduled to its end.  The provider delivers an  *)
(* event that is due while it has deliveries left, and the delivery waits  *)
(* in the server's queue until one of the workers takes it.                *)
Fairness ==
    /\ \A w \in Workers : WF_vars(Proceed(w))
    /\ \A c \in Checkouts :
         SF_vars(/\ \E w \in Workers : process_payment_webhook(w) \/ refuse_signature(w)
                 /\ deliveries'[c] # deliveries[c])

FairSpec == Spec /\ Fairness
=============================================================================
