----------------------------- MODULE Subscriptions -----------------------------
(***************************************************************************)
(* The subscription of one tenant and its billing:                         *)
(* apps/tenants/services/subscription_service.py,                          *)
(* payment_facilitation_service.py and the celery tasks of                 *)
(* apps/tenants/tasks.py.                                                  *)
(*                                                                         *)
(* Nothing in the repository calls the operations of SubscriptionService   *)
(* that change a subscription, nor is process_due_subscriptions in the     *)
(* beat schedule: who calls them, and how often, is left open.  None of    *)
(* the operations is a transaction, so that each of their statements is    *)
(* seen by the others at once.                                             *)
(***************************************************************************)
EXTENDS Integers, FiniteSets

CONSTANTS
    Workers,        \* callers of SubscriptionService
    Processes,      \* celery processes, each running one process_billing
    UsageLimit,     \* SubscriptionDiscount.usage_limit of the tenant's discount
    Cycle,          \* days of a billing cycle
    MaxRequests,    \* bound on the calls of SubscriptionService
    MaxRuns,        \* bound on the runs of process_due_subscriptions
    MaxCrashes,     \* bound on callers and processes that die
    Horizon         \* bound on the days

ASSUME SubscriptionsAssumption ==
    /\ IsFiniteSet(Workers) /\ IsFiniteSet(Processes)
    /\ Processes # {}
    /\ UsageLimit \in Nat
    /\ Cycle \in Nat \ {0}
    /\ MaxRequests \in Nat /\ MaxRuns \in Nat /\ MaxCrashes \in Nat /\ Horizon \in Nat

VARIABLES
    today,
    subscription,   \* Subscription: status, tier and next_billing_date
    tenant,         \* Tenant: status and subscription_tier
    wallet,         \* TenantWallet: whether there is one and whether it holds money
    usage,          \* SubscriptionDiscount.usage_count
    events,         \* how many SubscriptionEvents there are of each event_type
    ctx,            \* each caller's operation
    queue,          \* process_billing tasks that wait
    task,           \* each process's task
    ran,            \* whether process_due_subscriptions ran today while it was active
    missed,         \* the days that ended without that, or before its task had ended,
                    \* and those on which a task was lost
    charged,        \* how often the payment method was charged
    granted,        \* how many of these charges had the discount
    requests, runs, crashes

rows == <<subscription, tenant, wallet, usage, events>>
charges == <<charged, granted>>
bounds == <<requests, runs, crashes>>
days == <<ran, missed>>
vars == <<today, rows, ctx, queue, task, days, charges, bounds>>

Tiers == {"Starter", "Growth"}
Statuses == {"active", "suspended", "canceled"}

(* SubscriptionTier.payment_facilitation                                   *)
payment_facilitation(tier) == tier = "Growth"

Operations == {"created", "tier_changed", "canceled", "suspended", "reactivated"}
EventTypes == Operations \cup {"payment_succeeded"}

(* An operation: the event it ends with, how far it is, the tier it was    *)
(* asked for and the subscription_tier that the tenant had.                *)
NoRequest == [op |-> "none", at |-> "idle", new |-> "Starter", held |-> "Starter"]

Request == [op : Operations, at : {"validate", "subscription", "tenant", "upgrade", "event"},
            new : Tiers, held : Tiers] \cup {NoRequest}

(* A billing: how far it is and whether the price is discounted.           *)
Task == [at : {"idle", "discounts", "charge", "record"}, discounted : BOOLEAN]

NoTask == [at |-> "idle", discounted |-> FALSE]

Init ==
    /\ today = 0
    /\ subscription = [status |-> "none", tier |-> "Starter", next |-> 0]
    /\ tenant = [status |-> "trial", tier |-> "Starter"]
    /\ wallet = [exists |-> FALSE, funded |-> FALSE]
    /\ usage = 0
    /\ events = [e \in EventTypes |-> 0]
    /\ ctx = [w \in Workers |-> NoRequest]
    /\ queue = 0
    /\ task = [p \in Processes |-> NoTask]
    /\ ran = FALSE /\ missed = {}
    /\ charged = 0 /\ granted = 0
    /\ requests = 0 /\ runs = 0 /\ crashes = 0

-----------------------------------------------------------------------------
(* SubscriptionService                                                     *)

(* A caller reads the tenant and its subscription and calls an operation.  *)
Begin(w, op, at, new) ==
    /\ ctx[w].at = "idle"
    /\ requests < MaxRequests
    /\ requests' = requests + 1
    /\ ctx' = [ctx EXCEPT ![w] = [op |-> op, at |-> at, new |-> new, held |-> tenant.tier]]
    /\ UNCHANGED <<today, rows, queue, task, days, charges, runs, crashes>>

Advance(w, at) == ctx' = [ctx EXCEPT ![w].at = at]

create_subscription(w) ==
    /\ subscription.status = "none"
    /\ \E tier \in Tiers : Begin(w, "created", "subscription", tier)

change_tier(w) ==
    /\ subscription.status # "none"
    /\ \E tier \in Tiers : Begin(w, "tier_changed", "validate", tier)

(* cancel_subscription, suspend_subscription and reactivate_subscription:  *)
(* none of them looks at the status.                                       *)
change_status(w) ==
    /\ subscription.status # "none"
    /\ \E op \in {"canceled", "suspended", "reactivated"} :
        Begin(w, op, "subscription", subscription.tier)

(* Raises WalletBalanceNotZero where the tenant would lose its wallet's    *)
(* money.                                                                  *)
validate_tier_downgrade(w) ==
    /\ ctx[w].at = "validate"
    /\ IF payment_facilitation(ctx[w].held) /\ ~ payment_facilitation(ctx[w].new) /\ wallet.funded
       THEN ctx' = [ctx EXCEPT ![w] = NoRequest]
       ELSE Advance(w, "subscription")
    /\ UNCHANGED <<today, rows, queue, task, days, charges, bounds>>

(* The status an operation gives to the subscription and to the tenant.    *)
StatusOf(op) == IF op \in {"created", "reactivated"} THEN "active" ELSE op

(* The statement on the subscription, with the fields it names.  A second  *)
(* subscription of the tenant is refused.                                  *)
save_subscription(w) ==
    /\ ctx[w].at = "subscription"
    /\ \/ /\ ctx[w].op = "created" /\ subscription.status = "none"
          /\ subscription' = [status |-> "active", tier |-> ctx[w].new, next |-> today + Cycle]
          /\ Advance(w, "tenant")
       \/ /\ ctx[w].op = "created" /\ subscription.status # "none"
          /\ ctx' = [ctx EXCEPT ![w] = NoRequest]
          /\ UNCHANGED subscription
       \/ /\ ctx[w].op = "tier_changed"
          /\ subscription' = [subscription EXCEPT !.tier = ctx[w].new]
          /\ Advance(w, "tenant")
       \/ /\ ctx[w].op \in {"canceled", "suspended", "reactivated"}
          /\ subscription' = [subscription EXCEPT !.status = StatusOf(ctx[w].op)]
          /\ Advance(w, "tenant")
    /\ UNCHANGED <<today, tenant, wallet, usage, events, queue, task, days, charges, bounds>>

(* Mutant of save_tenant: a change of the tier does not reach the tenant.  *)
save_tenant_status(w) ==
    /\ ctx[w].at = "tenant"
    /\ tenant' = IF ctx[w].op = "tier_changed" THEN tenant
                 ELSE [tenant EXCEPT !.status = StatusOf(ctx[w].op)]
    /\ Advance(w, "event")
    /\ UNCHANGED <<today, subscription, wallet, usage, events, queue, task, days, charges, bounds>>

(* The statement on the tenant.                                            *)
save_tenant(w) ==
    /\ ctx[w].at = "tenant"
    /\ LET tier   == IF ctx[w].op \in {"created", "tier_changed"} THEN ctx[w].new ELSE tenant.tier
           status == IF ctx[w].op = "tier_changed" THEN tenant.status ELSE StatusOf(ctx[w].op)
       IN  tenant' = [status |-> status, tier |-> tier]
    /\ Advance(w, IF ctx[w].op = "tier_changed" THEN "upgrade" ELSE "event")
    /\ UNCHANGED <<today, subscription, wallet, usage, events, queue, task, days, charges, bounds>>

(* A wallet for a tenant whose tier had no payment facilitation so far.    *)
(* That tier is taken from the object to which change_tier has already     *)
(* assigned the new one.                                                   *)
handle_tier_upgrade(w) ==
    LET old_tier == ctx[w].new
        enabled  == payment_facilitation(ctx[w].new) /\ ~ payment_facilitation(old_tier)
    IN  /\ ctx[w].at = "upgrade"
        /\ wallet' = [wallet EXCEPT !.exists = @ \/ enabled]
        /\ Advance(w, "event")
        /\ UNCHANGED <<today, subscription, tenant, usage, events, queue, task, days, charges, bounds>>

log_event(w) ==
    /\ ctx[w].at = "event"
    /\ events' = [events EXCEPT ![ctx[w].op] = @ + 1]
    /\ ctx' = [ctx EXCEPT ![w] = NoRequest]
    /\ UNCHANGED <<today, subscription, tenant, wallet, usage, queue, task, days, charges, bounds>>

(* WalletService: a customer's payment asks for no tier and makes the      *)
(* wallet if need be; a withdrawal empties it.                             *)
process_customer_payment ==
    /\ ~ wallet.funded
    /\ wallet' = [exists |-> TRUE, funded |-> TRUE]
    /\ UNCHANGED <<today, subscription, tenant, usage, events, ctx, queue, task, days, charges, bounds>>

request_withdrawal ==
    /\ wallet.funded
    /\ wallet' = [wallet EXCEPT !.funded = FALSE]
    /\ UNCHANGED <<today, subscription, tenant, usage, events, ctx, queue, task, days, charges, bounds>>

-----------------------------------------------------------------------------
(* apps/tenants/tasks.py                                                   *)

Due == subscription.status = "active" /\ subscription.next = today

(* Mutant of process_due_subscriptions: the date is not looked at.         *)
process_due_subscriptions_early ==
    /\ runs < MaxRuns
    /\ runs' = runs + 1
    /\ ran' = (ran \/ subscription.status = "active")
    /\ queue' = IF subscription.status = "active" /\ subscription.next = today + 1
                THEN queue + 1 ELSE queue
    /\ UNCHANGED <<today, rows, ctx, task, missed, charges, requests, crashes>>

process_due_subscriptions ==
    /\ runs < MaxRuns
    /\ runs' = runs + 1
    /\ ran' = (ran \/ subscription.status = "active")
    /\ queue' = IF Due THEN queue + 1 ELSE queue
    /\ UNCHANGED <<today, rows, ctx, task, missed, charges, requests, crashes>>

(* The subscription is read; neither its status nor its date is looked at. *)
process_billing(p) ==
    /\ task[p].at = "idle"
    /\ queue > 0
    /\ queue' = queue - 1
    /\ task' = [task EXCEPT ![p].at = "discounts"]
    /\ UNCHANGED <<today, rows, ctx, days, charges, bounds>>

(* SubscriptionDiscount.is_valid: a limit of zero is no limit.             *)
is_valid == UsageLimit = 0 \/ usage < UsageLimit

(* Mutant of apply_discounts: a use too many.                              *)
apply_discounts_once_more(p) ==
    /\ task[p].at = "discounts"
    /\ task' = [task EXCEPT ![p] = [at |-> "charge", discounted |-> usage <= UsageLimit]]
    /\ UNCHANGED <<today, rows, ctx, queue, days, charges, bounds>>

apply_discounts(p) ==
    /\ task[p].at = "discounts"
    /\ task' = [task EXCEPT ![p] = [at |-> "charge", discounted |-> is_valid]]
    /\ UNCHANGED <<today, rows, ctx, queue, days, charges, bounds>>

(* Mutant of charge_payment_method: once it failed, once more.            *)
charge_payment_method_again(p) ==
    /\ task[p].at = "charge"
    /\ charged' = charged + 1
    /\ granted' = IF task[p].discounted THEN granted + 1 ELSE granted
    /\ \/ task' = [task EXCEPT ![p].at = "record"]
       \/ UNCHANGED task
    /\ UNCHANGED <<today, rows, ctx, queue, days, bounds>>

(* A stub that always succeeds, so that the task is never retried and      *)
(* nothing is suspended.                                                   *)
charge_payment_method(p) ==
    /\ task[p].at = "charge"
    /\ charged' = charged + 1
    /\ granted' = IF task[p].discounted THEN granted + 1 ELSE granted
    /\ task' = [task EXCEPT ![p].at = "record"]
    /\ UNCHANGED <<today, rows, ctx, queue, days, bounds>>

(* Mutants of record_payment: no event; a type the choices do not have.    *)
record_payment_unlogged(p) ==
    /\ task[p].at = "record"
    /\ subscription' = [subscription EXCEPT !.next = today + Cycle]
    /\ usage' = IF task[p].discounted THEN usage + 1 ELSE usage
    /\ task' = [task EXCEPT ![p] = NoTask]
    /\ UNCHANGED <<today, tenant, wallet, events, ctx, queue, days, charges, bounds>>

record_payment_expired(p) ==
    /\ task[p].at = "record"
    /\ subscription' = [subscription EXCEPT !.next = today + Cycle, !.status = "expired"]
    /\ task' = [task EXCEPT ![p] = NoTask]
    /\ UNCHANGED <<today, tenant, wallet, usage, events, ctx, queue, days, charges, bounds>>

(* The transaction after a charge: the next date, counted from today, the  *)
(* event and the use of the discount.  Its first statement locks the       *)
(* subscription, so that of two such transactions the second reads the     *)
(* usage_count that the first has written.                                 *)
record_payment(p) ==
    /\ task[p].at = "record"
    /\ subscription' = [subscription EXCEPT !.next = today + Cycle]
    /\ events' = [events EXCEPT !["payment_succeeded"] = @ + 1]
    /\ usage' = IF task[p].discounted THEN usage + 1 ELSE usage
    /\ task' = [task EXCEPT ![p] = NoTask]
    /\ UNCHANGED <<today, tenant, wallet, ctx, queue, days, charges, bounds>>

-----------------------------------------------------------------------------
(* A caller dies between two statements.                                   *)
crash(w) ==
    /\ ctx[w].at # "idle"
    /\ crashes < MaxCrashes
    /\ crashes' = crashes + 1
    /\ ctx' = [ctx EXCEPT ![w] = NoRequest]
    /\ UNCHANGED <<today, rows, queue, task, days, charges, requests, runs>>

(* A celery worker dies.  Its task is delivered again, since it is         *)
(* acknowledged late, unless only the child that ran it was lost.          *)
crash_task(p) ==
    /\ task[p].at # "idle"
    /\ crashes < MaxCrashes
    /\ crashes' = crashes + 1
    /\ task' = [task EXCEPT ![p] = NoTask]
    /\ \/ queue' = queue + 1 /\ UNCHANGED missed
       \/ missed' = missed \cup {today} /\ UNCHANGED queue
    /\ UNCHANGED <<today, rows, ctx, ran, charges, requests, runs>>

Billed == ran /\ queue = 0 /\ \A p \in Processes : task[p].at = "idle"

tick ==
    /\ today < Horizon
    /\ today' = today + 1
    /\ ran' = FALSE
    /\ missed' = IF Billed THEN missed ELSE missed \cup {today}
    /\ UNCHANGED <<rows, ctx, queue, task, charges, bounds>>

Proceed(w) ==
    \/ validate_tier_downgrade(w) \/ save_subscription(w) \/ save_tenant(w)
    \/ handle_tier_upgrade(w) \/ log_event(w)

Bill(p) == apply_discounts(p) \/ charge_payment_method(p) \/ record_payment(p)

Next ==
    \/ \E w \in Workers :
        \/ create_subscription(w) \/ change_tier(w) \/ change_status(w)
        \/ Proceed(w) \/ crash(w)
    \/ process_customer_payment \/ request_withdrawal
    \/ process_due_subscriptions
    \/ \E p \in Processes : process_billing(p) \/ Bill(p) \/ crash_task(p)
    \/ tick

Spec == Init /\ [][Next]_vars
=============================================================================
