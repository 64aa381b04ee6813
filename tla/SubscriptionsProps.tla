-------------------------- MODULE SubscriptionsProps --------------------------
EXTENDS Subscriptions

(* The rows, operations and tasks keep their types (tenants/models.py).    *)
TypeOK ==
    /\ today \in Nat
    /\ subscription \in [status : Statuses \cup {"none"}, tier : Tiers, next : Nat]
    /\ tenant \in [status : Statuses \cup {"trial"}, tier : Tiers]
    /\ wallet \in [exists : BOOLEAN, funded : BOOLEAN]
    /\ usage \in Nat
    /\ events \in [EventTypes -> Nat]
    /\ ctx \in [Workers -> Request]
    /\ queue \in Nat
    /\ task \in [Processes -> Task]
    /\ ran \in BOOLEAN /\ missed \subseteq Nat
    /\ charged \in Nat /\ granted \in Nat
    /\ requests \in 0 .. MaxRequests /\ runs \in 0 .. MaxRuns /\ crashes \in 0 .. MaxCrashes

AtRest == \A w \in Workers : ctx[w] = NoRequest

(* Charging and recording are not one: a charge that a death left          *)
(* unrecorded is made again.  The payment method is charged at most once   *)
(* per run of process_due_subscriptions and once more per death, however   *)
(* tasks overlap and whatever changes the subscription (process_billing).  *)
ChargesAreBounded == charged <= runs + crashes

Recording == {p \in Processes : task[p].at = "record"}

(* A charge is on record, but for those in the making and one per death;   *)
(* and nothing is on record that was not charged (process_billing).        *)
ChargesAreRecorded ==
    /\ events["payment_succeeded"] <= charged
    /\ charged <= events["payment_succeeded"] + Cardinality(Recording) + crashes

(* The discount is looked at before the charge and counted after it.  With *)
(* n processes its limit is exceeded by at most n - 1, and by one more per *)
(* death (apply_discounts, process_billing).                               *)
DiscountIsBounded ==
    UsageLimit > 0 => granted <= UsageLimit + Cardinality(Processes) - 1 + crashes

(* The subscription and the tenant's own copy of its status and tier agree *)
(* when no operation is under way, where one is called at a time and none  *)
(* dies between its statements (SubscriptionService).                      *)
TenantFollowsSubscription ==
    Cardinality(Workers) = 1 /\ AtRest /\ crashes = 0 /\ subscription.status # "none"
    => tenant = [status |-> subscription.status, tier |-> subscription.tier]

(* process_due_subscriptions takes the exact date, so that a date that has *)
(* passed stays.  One passes only on a day on which no run found the       *)
(* subscription active, whose billing had not ended by midnight, or on     *)
(* which a task was lost, however the runs, tasks and changes of the       *)
(* subscription overlap and whoever dies.                                  *)
PassedDatesWereMissed ==
    subscription.status # "none" => subscription.next >= today \/ subscription.next \in missed

-----------------------------------------------------------------------------
(* What the documents say and the code does not do.                        *)

(* requirements.md:402, "WHEN the next_billing_date arrives, THE Tulia     *)
(* System SHALL generate an invoice and attempt to charge the Tenant's     *)
(* payment method".  No run takes a subscription whose date has arrived    *)
(* and passed: one that was suspended on it, or whose day had no run, is   *)
(* active later on and never billed again.                                 *)
ActiveHasNextBilling ==
    [][process_due_subscriptions /\ subscription.status = "active" /\ subscription.next <= today
       => queue' = queue + 1]_vars

(* requirements.md:417, "WHEN a SubscriptionDiscount expires or reaches    *)
(* usage_limit, THE Tulia System SHALL exclude it from future billing      *)
(* calculations".                                                          *)
DiscountIsLimited == UsageLimit > 0 /\ crashes = 0 => granted <= UsageLimit

(* requirements.md:514, "WHEN a Tenant upgrades to a tier with             *)
(* payment_facilitation, THE Tulia System SHALL automatically create a     *)
(* TenantWallet if one does not exist".                                    *)
UpgradeMakesWallet ==
    \A w \in Workers :
        (ctx[w].op = "tier_changed" /\ ctx[w].at = "event"
         /\ payment_facilitation(ctx[w].new) /\ ~ payment_facilitation(ctx[w].held))
        => wallet.exists

(* requirements.md:515, "WHEN a Tenant downgrades to a tier without        *)
(* payment_facilitation, THE Tulia System SHALL require the TenantWallet   *)
(* balance to be zero before allowing the change".                         *)
DowngradeFindsNoMoney ==
    [][payment_facilitation(tenant.tier) /\ ~ payment_facilitation(tenant'.tier)
       => ~ wallet.funded]_vars

(* The same, without asking how many operations there are at a time.       *)
TiersAgree ==
    AtRest /\ crashes = 0 /\ subscription.status # "none" => tenant.tier = subscription.tier
=============================================================================
