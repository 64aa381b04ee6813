------------------------- MODULE Subscriptions_proofs -------------------------
(***************************************************************************)
(* What holds of a subscription and its billing for any number of callers  *)
(* and celery processes, any limit of a discount and any cycle.            *)
(***************************************************************************)
EXTENDS SubscriptionsProps, FiniteSetTheorems, TLAPS

-----------------------------------------------------------------------------
(* The rows, operations and tasks keep their types.                        *)

LEMMA Nothing == /\ NoRequest \in Request /\ NoRequest.at = "idle" /\ NoRequest.op = "none"
                 /\ NoTask \in Task /\ NoTask.at = "idle" /\ NoTask.discounted = FALSE
BY DEF NoRequest, Request, Tiers, NoTask, Task

(* A request or a task that moves on is one still, and the others wait.    *)
LEMMA AdvanceType ==
  ASSUME ctx \in [Workers -> Request], NEW w \in Workers,
         NEW at \in {"subscription", "tenant", "upgrade", "event"}, Advance(w, at),
         ctx[w].at # "idle"
  PROVE  /\ ctx' \in [Workers -> Request]
         /\ ctx'[w].at = at /\ ctx'[w].op = ctx[w].op /\ ctx'[w].new = ctx[w].new
         /\ \A v \in Workers : v # w => ctx'[v] = ctx[v]
<1>1. ctx[w] \in Request /\ ctx[w] # NoRequest
  BY DEF NoRequest
<1>2. [ctx[w] EXCEPT !.at = at] \in Request
  BY <1>1 DEF Request
<1>3. ctx' = [ctx EXCEPT ![w] = [ctx[w] EXCEPT !.at = at]]
  BY DEF Advance
<1>4. ctx' \in [Workers -> Request]
  BY <1>2, <1>3
<1>5. ctx'[w].at = at /\ ctx'[w].op = ctx[w].op /\ ctx'[w].new = ctx[w].new
  BY <1>1, <1>3 DEF Request
<1> QED BY <1>3, <1>4, <1>5

LEMMA BeginType ==
  ASSUME TypeOK, NEW w \in Workers, NEW op \in Operations, NEW new \in Tiers,
         NEW at \in {"validate", "subscription"}, Begin(w, op, at, new)
  PROVE  /\ ctx' \in [Workers -> Request]
         /\ ctx'[w] = [op |-> op, at |-> at, new |-> new, held |-> tenant.tier]
         /\ \A v \in Workers : v # w => ctx'[v] = ctx[v]
<1> DEFINE r == [op |-> op, at |-> at, new |-> new, held |-> tenant.tier]
<1>1. r \in Request
  BY DEF TypeOK, Request
<1>2. ctx' = [ctx EXCEPT ![w] = r] /\ ctx \in [Workers -> Request]
  BY DEF Begin, TypeOK
<1> HIDE DEF r
<1>3. ctx' \in [Workers -> Request] /\ ctx'[w] = r /\ \A v \in Workers : v # w => ctx'[v] = ctx[v]
  BY <1>1, <1>2
<1> QED BY <1>3 DEF r

(* The operations of SubscriptionService that a worker may call.           *)
Called(w) == create_subscription(w) \/ change_tier(w) \/ change_status(w)

LEMMA CalledType ==
  ASSUME TypeOK, NEW w \in Workers, Called(w)
  PROVE  \E op \in Operations, at \in {"validate", "subscription"}, new \in Tiers :
           /\ Begin(w, op, at, new)
           /\ at = "validate" => op = "tier_changed"
           /\ at = "subscription" => op # "tier_changed"
           /\ op = "created" => subscription.status = "none"
           /\ op # "created" => subscription.status # "none"
<1>1. subscription.tier \in Tiers
  BY DEF TypeOK
<1> QED BY <1>1 DEF Called, create_subscription, change_tier, change_status, Operations

(* TypeOK holds in every reachable state (tenants/models.py).              *)
THEOREM TypeCorrect == Spec => []TypeOK
<1>1. Init => TypeOK
  <2> SUFFICES ASSUME Init PROVE TypeOK
    OBVIOUS
  <2> USE DEF Init
  <2>1. /\ subscription \in [status : Statuses \cup {"none"}, tier : Tiers, next : Nat]
        /\ tenant \in [status : Statuses \cup {"trial"}, tier : Tiers]
        /\ wallet \in [exists : BOOLEAN, funded : BOOLEAN]
    BY DEF Statuses, Tiers
  <2>2. ctx \in [Workers -> Request] /\ task \in [Processes -> Task]
    BY Nothing
  <2>3. requests \in 0 .. MaxRequests /\ runs \in 0 .. MaxRuns /\ crashes \in 0 .. MaxCrashes
    BY SubscriptionsAssumption
  <2> QED BY <2>1, <2>2, <2>3 DEF TypeOK
<1>2. TypeOK /\ [Next]_vars => TypeOK'
  <2> SUFFICES ASSUME TypeOK, [Next]_vars PROVE TypeOK'
    OBVIOUS
  <2> USE Nothing, SubscriptionsAssumption DEF days
  <2>1. ASSUME NEW w \in Workers, Called(w) PROVE TypeOK'
    <3>1. PICK op \in Operations, at \in {"validate", "subscription"}, new \in Tiers :
              Begin(w, op, at, new)
      BY <2>1, CalledType
    <3>2. ctx' \in [Workers -> Request]
      BY <3>1, BeginType
    <3> QED BY <3>1, <3>2 DEF Begin, TypeOK, rows, charges
  <2>2. ASSUME NEW w \in Workers, validate_tier_downgrade(w) PROVE TypeOK'
    <3>1. ctx[w].at = "validate"
          /\ (ctx' = [ctx EXCEPT ![w] = NoRequest] \/ Advance(w, "subscription"))
      BY <2>2 DEF validate_tier_downgrade
    <3>2. ctx' \in [Workers -> Request]
      BY <3>1, AdvanceType DEF TypeOK
    <3> QED BY <2>2, <3>2 DEF validate_tier_downgrade, TypeOK, rows, charges, bounds
  <2>3. ASSUME NEW w \in Workers, save_subscription(w) PROVE TypeOK'
    <3>0. ctx[w] \in Request
      BY DEF TypeOK
    <3>1. ctx' \in [Workers -> Request]
      <4>1. ctx[w].at = "subscription"
            /\ (ctx' = [ctx EXCEPT ![w] = NoRequest] \/ Advance(w, "tenant"))
        BY <2>3 DEF save_subscription
      <4> QED BY <4>1, AdvanceType DEF TypeOK
    <3>2. subscription' \in [status : Statuses \cup {"none"}, tier : Tiers, next : Nat]
      <4>1. ctx[w].new \in Tiers
        BY <3>0 DEF Request, NoRequest, Tiers
      <4>2. ctx[w].op \in {"canceled", "suspended", "reactivated"}
            => StatusOf(ctx[w].op) \in Statuses
        BY DEF StatusOf, Statuses
      <4> QED BY <2>3, <4>1, <4>2 DEF save_subscription, TypeOK, Statuses
    <3> QED BY <2>3, <3>1, <3>2 DEF save_subscription, TypeOK, charges, bounds
  <2>4. ASSUME NEW w \in Workers, save_tenant(w) PROVE TypeOK'
    <3>0. ctx[w] \in Request
      BY DEF TypeOK
    <3>1. ctx' \in [Workers -> Request]
      BY <2>4, AdvanceType DEF save_tenant, TypeOK
    <3>2. tenant' \in [status : Statuses \cup {"trial"}, tier : Tiers]
      <4>1. ctx[w].op = "tier_changed" \/ StatusOf(ctx[w].op) \in Statuses \cup {"trial"}
        <5>1. ctx[w].op \in Operations
          BY <2>4, <3>0 DEF save_tenant, Request, NoRequest
        <5> QED BY <5>1 DEF StatusOf, Statuses, Operations
      <4>2. ctx[w].new \in Tiers
        BY <3>0 DEF Request, NoRequest, Tiers
      <4> QED BY <2>4, <4>1, <4>2 DEF save_tenant, TypeOK
    <3> QED BY <2>4, <3>1, <3>2 DEF save_tenant, TypeOK, charges, bounds
  <2>5. ASSUME NEW w \in Workers, handle_tier_upgrade(w) PROVE TypeOK'
    <3>1. ctx' \in [Workers -> Request]
      BY <2>5, AdvanceType DEF handle_tier_upgrade, TypeOK
    <3>2. wallet' \in [exists : BOOLEAN, funded : BOOLEAN]
      BY <2>5 DEF handle_tier_upgrade, TypeOK
    <3> QED BY <2>5, <3>1, <3>2 DEF handle_tier_upgrade, TypeOK, charges, bounds
  <2>6. ASSUME NEW w \in Workers, log_event(w) PROVE TypeOK'
    <3>1. events' \in [EventTypes -> Nat]
      <4>1. ctx[w] \in Request /\ ctx[w].at = "event"
        BY <2>6 DEF log_event, TypeOK
      <4>2. ctx[w].op \in EventTypes
        BY <4>1 DEF Request, NoRequest, EventTypes
      <4> QED BY <2>6, <4>2 DEF log_event, TypeOK
    <3>2. ctx' \in [Workers -> Request]
      BY <2>6 DEF log_event, TypeOK
    <3> QED BY <2>6, <3>1, <3>2 DEF log_event, TypeOK, charges, bounds
  <2>7. CASE process_customer_payment \/ request_withdrawal
    <3>1. wallet' \in [exists : BOOLEAN, funded : BOOLEAN]
      <4>1. CASE process_customer_payment
        BY <4>1 DEF process_customer_payment
      <4>2. CASE request_withdrawal
        BY <4>2 DEF request_withdrawal, TypeOK
      <4> QED BY <2>7, <4>1, <4>2
    <3> QED BY <2>7, <3>1
            DEF process_customer_payment, request_withdrawal, TypeOK, charges, bounds
  <2>8. CASE process_due_subscriptions
    BY <2>8 DEF process_due_subscriptions, TypeOK, rows, charges
  <2>9. ASSUME NEW p \in Processes, process_billing(p) PROVE TypeOK'
    BY <2>9 DEF process_billing, TypeOK, Task, rows, charges, bounds
  <2>10. ASSUME NEW p \in Processes, apply_discounts(p) PROVE TypeOK'
    BY <2>10 DEF apply_discounts, is_valid, TypeOK, Task, rows, charges, bounds
  <2>11. ASSUME NEW p \in Processes, charge_payment_method(p) PROVE TypeOK'
    BY <2>11 DEF charge_payment_method, TypeOK, Task, rows, bounds
  <2>12. ASSUME NEW p \in Processes, record_payment(p) PROVE TypeOK'
    <3>1. subscription' \in [status : Statuses \cup {"none"}, tier : Tiers, next : Nat]
      BY <2>12, SubscriptionsAssumption DEF record_payment, TypeOK
    <3>2. events' \in [EventTypes -> Nat] /\ usage' \in Nat
      BY <2>12 DEF record_payment, TypeOK, EventTypes
    <3>3. task' \in [Processes -> Task]
      BY <2>12 DEF record_payment, TypeOK
    <3> QED BY <2>12, <3>1, <3>2, <3>3 DEF record_payment, TypeOK, charges, bounds
  <2>13. ASSUME NEW w \in Workers, crash(w) PROVE TypeOK'
    BY <2>13 DEF crash, TypeOK, rows, charges
  <2>14. ASSUME NEW p \in Processes, crash_task(p) PROVE TypeOK'
    <3>1. missed' \subseteq Nat /\ queue' \in Nat
      <4>1. /\ queue' = queue \/ queue' = queue + 1
            /\ missed' = missed \/ missed' = missed \cup {today}
        BY <2>14 DEF crash_task
      <4>2. queue \in Nat /\ missed \subseteq Nat /\ today \in Nat
        BY DEF TypeOK
      <4>3. queue' \in Nat
        BY <4>1, <4>2
      <4>4. missed' \subseteq Nat
        BY <4>1, <4>2
      <4> QED BY <4>3, <4>4
    <3>2. crashes' \in 0 .. MaxCrashes /\ task' \in [Processes -> Task]
      BY <2>14 DEF crash_task, TypeOK
    <3>3. UNCHANGED <<today, rows, ctx, ran, charges, requests, runs>>
      BY <2>14 DEF crash_task
    <3> QED BY <3>1, <3>2, <3>3 DEF TypeOK, rows, charges
  <2>15. CASE tick
    <3>1. /\ today' = today + 1 /\ ran' = FALSE /\ missed' \subseteq missed \cup {today}
          /\ UNCHANGED <<rows, ctx, queue, task, charges, bounds>>
      BY <2>15 DEF tick
    <3>2. today' \in Nat
      <4>1. today' = today + 1 /\ today \in Nat
        BY <3>1 DEF TypeOK
      <4> QED BY <4>1
    <3>3. ran' \in BOOLEAN /\ missed' \subseteq Nat
      BY <3>1 DEF TypeOK
    <3> QED BY <3>1, <3>2, <3>3 DEF TypeOK, rows, charges, bounds
  <2>16. CASE UNCHANGED vars
    BY <2>16 DEF vars, rows, charges, bounds, TypeOK
  <2> QED
    BY <2>1, <2>2, <2>3, <2>4, <2>5, <2>6, <2>7, <2>8, <2>9, <2>10, <2>11, <2>12, <2>13, <2>14,
       <2>15, <2>16 DEF Next, Proceed, Bill, Called
<1> QED BY <1>1, <1>2, PTL DEF Spec

-----------------------------------------------------------------------------
(* Tasks and what they charge.                                             *)

Uncharged == {p \in Processes : task[p].at \in {"discounts", "charge"}}
Granting == {p \in Processes : task[p].at \in {"charge", "record"} /\ task[p].discounted}
Granted == {p \in Processes : task[p].at = "record" /\ task[p].discounted}

LEMMA SetsOfTasks ==
  /\ IsFiniteSet(Uncharged) /\ Cardinality(Uncharged) \in Nat
  /\ IsFiniteSet(Recording) /\ Cardinality(Recording) \in Nat
  /\ IsFiniteSet(Granting) /\ Cardinality(Granting) \in Nat
  /\ IsFiniteSet(Granted) /\ Cardinality(Granted) \in Nat
<1>1. /\ Uncharged \in SUBSET Processes /\ Recording \in SUBSET Processes
      /\ Granting \in SUBSET Processes /\ Granted \in SUBSET Processes
  BY DEF Uncharged, Recording, Granting, Granted
<1>2. IsFiniteSet(Processes)
  BY SubscriptionsAssumption
<1>3. \A S \in SUBSET Processes : IsFiniteSet(S) /\ Cardinality(S) \in Nat
  BY <1>2, FS_Subset, FS_CardinalityType
<1> QED BY <1>1, <1>3

LEMMA SetsOfTasksNext ==
  /\ IsFiniteSet(Uncharged') /\ Cardinality(Uncharged') \in Nat
  /\ IsFiniteSet(Recording') /\ Cardinality(Recording') \in Nat
  /\ IsFiniteSet(Granting') /\ Cardinality(Granting') \in Nat
  /\ IsFiniteSet(Granted') /\ Cardinality(Granted') \in Nat
<1>1. /\ Uncharged' \in SUBSET Processes /\ Recording' \in SUBSET Processes
      /\ Granting' \in SUBSET Processes /\ Granted' \in SUBSET Processes
  BY DEF Uncharged, Recording, Granting, Granted
<1>2. IsFiniteSet(Processes)
  BY SubscriptionsAssumption
<1>3. \A S \in SUBSET Processes : IsFiniteSet(S) /\ Cardinality(S) \in Nat
  BY <1>2, FS_Subset, FS_CardinalityType
<1> QED BY <1>1, <1>3

(* A set of processes that loses or wins one of them, or none.             *)
LEMMA Loses ==
  ASSUME NEW S, IsFiniteSet(S), NEW p
  PROVE  /\ p \in S => Cardinality(S \ {p}) = Cardinality(S) - 1
         /\ Cardinality(S \ {p}) <= Cardinality(S)
         /\ Cardinality(S) <= Cardinality(S \ {p}) + 1
<1>1. Cardinality(S) \in Nat
  BY FS_CardinalityType
<1>2. Cardinality(S \ {p}) = IF p \in S THEN Cardinality(S) - 1 ELSE Cardinality(S)
  BY FS_RemoveElement
<1> QED BY <1>1, <1>2

LEMMA Wins ==
  ASSUME NEW S, IsFiniteSet(S), NEW p, p \notin S
  PROVE  Cardinality(S \cup {p}) = Cardinality(S) + 1
BY FS_AddElement

(* How each step of a task moves it between these sets.                    *)
LEMMA TaskMoves ==
  ASSUME TypeOK, NEW p \in Processes
  PROVE  /\ process_billing(p) =>
              /\ p \notin Uncharged /\ Uncharged' = Uncharged \cup {p}
              /\ Recording' = Recording /\ Granting' = Granting /\ Granted' = Granted
         /\ apply_discounts(p) =>
              /\ Uncharged' = Uncharged /\ Recording' = Recording /\ Granted' = Granted
              /\ p \notin Granting
              /\ IF is_valid THEN Granting' = Granting \cup {p} ELSE Granting' = Granting
         /\ charge_payment_method(p) =>
              /\ p \in Uncharged /\ Uncharged' = Uncharged \ {p}
              /\ p \notin Recording /\ Recording' = Recording \cup {p}
              /\ Granting' = Granting
              /\ p \notin Granted
              /\ IF task[p].discounted THEN Granted' = Granted \cup {p} ELSE Granted' = Granted
         /\ record_payment(p) =>
              /\ Uncharged' = Uncharged
              /\ p \in Recording /\ Recording' = Recording \ {p}
              /\ Granting' = Granting \ {p} /\ Granted' = Granted \ {p}
              /\ task[p].discounted => p \in Granting /\ p \in Granted
         /\ crash_task(p) =>
              /\ Uncharged' = Uncharged \ {p} /\ Recording' = Recording \ {p}
              /\ Granting' = Granting \ {p} /\ Granted' = Granted \ {p}
<1> USE DEF Uncharged, Recording, Granting, Granted
<1>0. task \in [Processes -> Task] /\ task[p] \in Task
  BY DEF TypeOK
<1>1. ASSUME process_billing(p)
      PROVE  /\ p \notin Uncharged /\ Uncharged' = Uncharged \cup {p}
             /\ Recording' = Recording /\ Granting' = Granting /\ Granted' = Granted
  <2>1. /\ task[p].at = "idle" /\ task'[p].at = "discounts"
        /\ \A q \in Processes : q # p => task'[q] = task[q]
    BY <1>0, <1>1 DEF process_billing, Task
  <2> QED BY <2>1
<1>2. ASSUME apply_discounts(p)
      PROVE  /\ Uncharged' = Uncharged /\ Recording' = Recording /\ Granted' = Granted
             /\ p \notin Granting
             /\ IF is_valid THEN Granting' = Granting \cup {p} ELSE Granting' = Granting
  <2>1. /\ task[p].at = "discounts" /\ task'[p].at = "charge" /\ task'[p].discounted = is_valid
        /\ \A q \in Processes : q # p => task'[q] = task[q]
    BY <1>0, <1>2 DEF apply_discounts, Task
  <2> QED BY <2>1
<1>3. ASSUME charge_payment_method(p)
      PROVE  /\ p \in Uncharged /\ Uncharged' = Uncharged \ {p}
             /\ p \notin Recording /\ Recording' = Recording \cup {p}
             /\ Granting' = Granting
             /\ p \notin Granted
             /\ IF task[p].discounted THEN Granted' = Granted \cup {p} ELSE Granted' = Granted
  <2>1. /\ task[p].at = "charge" /\ task'[p].at = "record"
        /\ task'[p].discounted = task[p].discounted
        /\ \A q \in Processes : q # p => task'[q] = task[q]
    BY <1>0, <1>3 DEF charge_payment_method, Task
  <2> QED BY <2>1
<1>4. ASSUME record_payment(p) \/ crash_task(p)
      PROVE  /\ Uncharged' = Uncharged \ {p} /\ Recording' = Recording \ {p}
             /\ Granting' = Granting \ {p} /\ Granted' = Granted \ {p}
  <2>1. task'[p] = NoTask /\ \A q \in Processes : q # p => task'[q] = task[q]
    BY <1>0, <1>4 DEF record_payment, crash_task
  <2> QED BY <2>1, Nothing
<1>5. ASSUME record_payment(p)
      PROVE  p \notin Uncharged /\ p \in Recording
             /\ (task[p].discounted => p \in Granting /\ p \in Granted)
  BY <1>5 DEF record_payment
<1> QED BY <1>1, <1>2, <1>3, <1>4, <1>5

(* What is charged, runs and dies changes in no other step.                *)
Others ==
    \/ \E w \in Workers : Called(w) \/ Proceed(w) \/ crash(w)
    \/ process_customer_payment \/ request_withdrawal \/ tick \/ UNCHANGED vars

LEMMA OthersChargeNothing ==
  ASSUME TypeOK, Others
  PROVE  /\ UNCHANGED <<charged, granted, usage, queue, runs, task>>
         /\ events'["payment_succeeded"] = events["payment_succeeded"]
         /\ crashes' >= crashes
         /\ Uncharged' = Uncharged /\ Recording' = Recording
         /\ Granting' = Granting /\ Granted' = Granted
<1>1. ASSUME NEW w \in Workers, Called(w)
      PROVE  UNCHANGED <<charged, granted, usage, queue, runs, task, events, crashes>>
  BY <1>1 DEF Called, create_subscription, change_tier, change_status, Begin, rows, charges
<1>2. ASSUME NEW w \in Workers, Proceed(w)
      PROVE  /\ UNCHANGED <<charged, granted, usage, queue, runs, task, crashes>>
             /\ events'["payment_succeeded"] = events["payment_succeeded"]
  <2>1. CASE log_event(w)
    <3>1. ctx[w].op \in Operations
      BY <2>1 DEF log_event, TypeOK, Request, NoRequest
    <3>2. ctx[w].op # "payment_succeeded"
      BY <3>1 DEF Operations
    <3> QED BY <2>1, <3>2 DEF log_event, charges, bounds, TypeOK, EventTypes
  <2> QED BY <1>2, <2>1 DEF Proceed, validate_tier_downgrade, save_subscription, save_tenant,
                            handle_tier_upgrade, rows, charges, bounds
<1>3. ASSUME NEW w \in Workers, crash(w)
      PROVE  /\ UNCHANGED <<charged, granted, usage, queue, runs, task, events>>
             /\ crashes' = crashes + 1
  BY <1>3 DEF crash, rows, charges
<1>4. ASSUME process_customer_payment \/ request_withdrawal \/ tick \/ UNCHANGED vars
      PROVE  UNCHANGED <<charged, granted, usage, queue, runs, task, events, crashes>>
  BY <1>4 DEF process_customer_payment, request_withdrawal, tick, vars, rows, charges, bounds
<1>5. crashes \in Int
  BY DEF TypeOK
<1>6. /\ UNCHANGED <<charged, granted, usage, queue, runs, task>>
      /\ events'["payment_succeeded"] = events["payment_succeeded"]
      /\ crashes' >= crashes
  BY <1>1, <1>2, <1>3, <1>4, <1>5 DEF Others
<1> QED BY <1>6 DEF Uncharged, Recording, Granting, Granted

LEMMA Steps ==
  [Next]_vars =>
    \/ process_due_subscriptions
    \/ \E p \in Processes : \/ process_billing(p) \/ apply_discounts(p)
                            \/ charge_payment_method(p) \/ record_payment(p) \/ crash_task(p)
    \/ Others
BY DEF Next, Others, Called, Bill

-----------------------------------------------------------------------------
(* A charge comes from a run, or from a task delivered again after a death. *)
ChargeInv == charged + queue + Cardinality(Uncharged) <= runs + crashes

LEMMA ChargeInit == Init => ChargeInv
<1> SUFFICES ASSUME Init PROVE ChargeInv
  OBVIOUS
<1>1. Uncharged = {}
  BY Nothing DEF Init, Uncharged
<1> QED BY <1>1, FS_EmptySet DEF Init, ChargeInv

LEMMA ChargeNext == TypeOK /\ TypeOK' /\ ChargeInv /\ [Next]_vars => ChargeInv'
<1> SUFFICES ASSUME TypeOK, TypeOK', ChargeInv, [Next]_vars PROVE ChargeInv'
  OBVIOUS
<1> USE SetsOfTasks, SetsOfTasksNext DEF ChargeInv
<1>0. charged \in Nat /\ queue \in Nat /\ runs \in Nat /\ crashes \in Nat /\ crashes' \in Nat
  BY SubscriptionsAssumption DEF TypeOK
<1>1. CASE process_due_subscriptions
  <2>1. Uncharged' = Uncharged
    BY <1>1 DEF process_due_subscriptions, Uncharged
  <2>2. /\ runs' = runs + 1 /\ crashes' = crashes /\ charged' = charged
        /\ queue' = queue \/ queue' = queue + 1
    BY <1>1 DEF process_due_subscriptions, charges
  <2> QED BY <1>0, <2>1, <2>2
<1>2. ASSUME NEW p \in Processes, process_billing(p) PROVE ChargeInv'
  <2>1. Cardinality(Uncharged') = Cardinality(Uncharged) + 1
    BY <1>2, TaskMoves, Wins
  <2> QED BY <1>0, <1>2, <2>1 DEF process_billing, charges, bounds
<1>3. ASSUME NEW p \in Processes, apply_discounts(p) PROVE ChargeInv'
  <2>1. Uncharged' = Uncharged
    BY <1>3, TaskMoves
  <2> QED BY <1>3, <2>1 DEF apply_discounts, charges, bounds
<1>4. ASSUME NEW p \in Processes, charge_payment_method(p) PROVE ChargeInv'
  <2>1. Cardinality(Uncharged') = Cardinality(Uncharged) - 1
    BY <1>4, TaskMoves, Loses
  <2> QED BY <1>0, <1>4, <2>1 DEF charge_payment_method, bounds
<1>5. ASSUME NEW p \in Processes, record_payment(p) PROVE ChargeInv'
  <2>1. Uncharged' = Uncharged
    BY <1>5, TaskMoves
  <2> QED BY <1>5, <2>1 DEF record_payment, charges, bounds
<1>6. ASSUME NEW p \in Processes, crash_task(p) PROVE ChargeInv'
  <2>1. Cardinality(Uncharged') <= Cardinality(Uncharged)
    BY <1>6, TaskMoves, Loses
  <2>2. /\ crashes' = crashes + 1 /\ charged' = charged /\ runs' = runs
        /\ queue' = queue \/ queue' = queue + 1
    BY <1>6 DEF crash_task, charges
  <2> QED BY <1>0, <2>1, <2>2
<1>7. CASE Others
  BY <1>0, <1>7, OthersChargeNothing
<1> QED BY <1>1, <1>2, <1>3, <1>4, <1>5, <1>6, <1>7, Steps

(* The payment method is charged at most once per run of                   *)
(* process_due_subscriptions and once more per death (process_billing).    *)
THEOREM ChargedPerRun == Spec => []ChargesAreBounded
<1>1. TypeOK /\ ChargeInv => ChargesAreBounded
  BY SetsOfTasks, SubscriptionsAssumption DEF TypeOK, ChargeInv, ChargesAreBounded
<1> QED BY <1>1, ChargeInit, ChargeNext, TypeCorrect, PTL DEF Spec

-----------------------------------------------------------------------------
(* A charge is on record, in the making, or was left behind by a death.    *)
RecordInv ==
    /\ events["payment_succeeded"] + Cardinality(Recording) <= charged
    /\ charged <= events["payment_succeeded"] + Cardinality(Recording) + crashes

(* The uses that are counted and those in the making stay within the       *)
(* limit, but for the processes that looked at it while another was at it. *)
DiscountInv ==
    UsageLimit > 0 =>
        /\ usage + Cardinality(Granting) <= UsageLimit + Cardinality(Processes) - 1
        /\ granted <= usage + Cardinality(Granted) + crashes

LEMMA RecordInit == Init => RecordInv /\ DiscountInv
<1> SUFFICES ASSUME Init PROVE RecordInv /\ DiscountInv
  OBVIOUS
<1>1. Recording = {} /\ Granting = {} /\ Granted = {}
  BY Nothing DEF Init, Recording, Granting, Granted
<1>2. Cardinality(Processes) \in Nat /\ UsageLimit \in Nat
  BY SubscriptionsAssumption, FS_CardinalityType
<1>3. /\ events["payment_succeeded"] = 0 /\ charged = 0 /\ granted = 0 /\ usage = 0
      /\ crashes = 0
  BY DEF Init, EventTypes
<1> QED BY <1>1, <1>2, <1>3, FS_EmptySet DEF RecordInv, DiscountInv

LEMMA RecordNext ==
  TypeOK /\ TypeOK' /\ RecordInv /\ DiscountInv /\ [Next]_vars => RecordInv' /\ DiscountInv'
<1> SUFFICES ASSUME TypeOK, TypeOK', RecordInv, DiscountInv, [Next]_vars
             PROVE  RecordInv' /\ DiscountInv'
  OBVIOUS
<1> DEFINE recorded == events["payment_succeeded"]
<1> USE SetsOfTasks, SetsOfTasksNext DEF RecordInv, DiscountInv
<1>0. /\ charged \in Nat /\ granted \in Nat /\ usage \in Nat /\ crashes \in Nat
      /\ crashes' \in Nat /\ recorded \in Nat
      /\ UsageLimit \in Nat /\ Cardinality(Processes) \in Nat
  BY SubscriptionsAssumption, FS_CardinalityType DEF TypeOK, EventTypes
<1>1. CASE process_due_subscriptions
  <2>1. /\ Recording' = Recording /\ Granting' = Granting /\ Granted' = Granted
        /\ UNCHANGED <<charged, granted, usage, events, crashes>>
    BY <1>1 DEF process_due_subscriptions, Recording, Granting, Granted, rows, charges
  <2> QED BY <2>1
<1>2. ASSUME NEW p \in Processes, process_billing(p) PROVE RecordInv' /\ DiscountInv'
  <2>1. /\ Recording' = Recording /\ Granting' = Granting /\ Granted' = Granted
        /\ UNCHANGED <<charged, granted, usage, events, crashes>>
    BY <1>2, TaskMoves DEF process_billing, rows, charges, bounds
  <2> QED BY <2>1
<1>3. ASSUME NEW p \in Processes, apply_discounts(p) PROVE RecordInv' /\ DiscountInv'
  <2>1. /\ Recording' = Recording /\ Granted' = Granted
        /\ UNCHANGED <<charged, granted, usage, events, crashes>>
    BY <1>3, TaskMoves DEF apply_discounts, rows, charges, bounds
  <2>2. CASE is_valid
    <3>1. Granting' \in SUBSET Processes
      BY DEF Granting
    <3>2. Cardinality(Granting') <= Cardinality(Processes)
      BY <3>1, FS_Subset, SubscriptionsAssumption
    <3>3. UsageLimit > 0 => usage <= UsageLimit - 1
      BY <1>0, <2>2 DEF is_valid
    <3> QED BY <1>0, <2>1, <3>2, <3>3
  <2>3. CASE ~ is_valid
    <3>1. Granting' = Granting
      BY <1>3, <2>3, TaskMoves
    <3> QED BY <2>1, <3>1
  <2> QED BY <2>2, <2>3
<1>4. ASSUME NEW p \in Processes, charge_payment_method(p) PROVE RecordInv' /\ DiscountInv'
  <2>1. /\ Cardinality(Recording') = Cardinality(Recording) + 1 /\ Granting' = Granting
        /\ charged' = charged + 1 /\ UNCHANGED <<usage, events, crashes>>
    BY <1>4, TaskMoves, Wins DEF charge_payment_method, rows, bounds
  <2>2. granted' + Cardinality(Granted) = granted + Cardinality(Granted')
    <3>1. ASSUME task[p].discounted
          PROVE  granted' = granted + 1 /\ Cardinality(Granted') = Cardinality(Granted) + 1
      BY <1>4, <3>1, TaskMoves, Wins DEF charge_payment_method
    <3>2. ASSUME ~ task[p].discounted PROVE granted' = granted /\ Granted' = Granted
      BY <1>4, <3>2, TaskMoves DEF charge_payment_method
    <3> QED BY <1>0, <3>1, <3>2
  <2>3. granted' \in Nat
    BY DEF TypeOK
  <2> QED BY <1>0, <2>1, <2>2, <2>3
<1>5. ASSUME NEW p \in Processes, record_payment(p) PROVE RecordInv' /\ DiscountInv'
  <2>1. /\ Cardinality(Recording') = Cardinality(Recording) - 1
        /\ recorded' = recorded + 1 /\ UNCHANGED <<charged, granted, crashes>>
    BY <1>5, TaskMoves, Loses DEF record_payment, charges, bounds, TypeOK, EventTypes
  <2>2. CASE task[p].discounted
    <3>1. /\ Cardinality(Granting') = Cardinality(Granting) - 1
          /\ Cardinality(Granted') = Cardinality(Granted) - 1
          /\ usage' = usage + 1
      BY <1>5, <2>2, TaskMoves, Loses DEF record_payment
    <3> QED BY <1>0, <2>1, <3>1
  <2>3. CASE ~ task[p].discounted
    <3>1. Granting' = Granting /\ Granted' = Granted /\ usage' = usage
      BY <1>5, <2>3, TaskMoves DEF record_payment, Granting, Granted
    <3> QED BY <1>0, <2>1, <3>1
  <2> QED BY <2>2, <2>3
<1>6. ASSUME NEW p \in Processes, crash_task(p) PROVE RecordInv' /\ DiscountInv'
  <2>1. /\ Cardinality(Recording') <= Cardinality(Recording)
        /\ Cardinality(Recording) <= Cardinality(Recording') + 1
        /\ Cardinality(Granting') <= Cardinality(Granting)
        /\ Cardinality(Granted) <= Cardinality(Granted') + 1
    BY <1>6, TaskMoves, Loses
  <2>2. crashes' = crashes + 1 /\ UNCHANGED <<charged, granted, usage, events>>
    BY <1>6 DEF crash_task, rows, charges
  <2> QED BY <1>0, <2>1, <2>2
<1>7. CASE Others
  BY <1>0, <1>7, OthersChargeNothing
<1> QED BY <1>1, <1>2, <1>3, <1>4, <1>5, <1>6, <1>7, Steps

(* A charge is on record, but for those in the making and one per death,   *)
(* and nothing is on record that was not charged (process_billing).        *)
THEOREM ChargedIsRecorded == Spec => []ChargesAreRecorded
<1>1. TypeOK /\ RecordInv => ChargesAreRecorded
  <2> SUFFICES ASSUME TypeOK, RecordInv PROVE ChargesAreRecorded
    OBVIOUS
  <2>1. events["payment_succeeded"] \in Nat /\ charged \in Nat
    BY DEF TypeOK, EventTypes
  <2> QED BY <2>1, SetsOfTasks DEF RecordInv, ChargesAreRecorded
<1> QED BY <1>1, RecordInit, RecordNext, TypeCorrect, PTL DEF Spec

(* With n processes the limit of a discount is exceeded by at most n - 1,  *)
(* and by one more per death (apply_discounts, process_billing).           *)
THEOREM DiscountStaysBounded == Spec => []DiscountIsBounded
<1>1. TypeOK /\ DiscountInv => DiscountIsBounded
  <2> SUFFICES ASSUME TypeOK, DiscountInv, UsageLimit > 0
               PROVE  granted <= UsageLimit + Cardinality(Processes) - 1 + crashes
    BY DEF DiscountIsBounded
  <2>1. Granted \in SUBSET Granting
    BY DEF Granted, Granting
  <2>2. Cardinality(Granted) <= Cardinality(Granting)
    BY <2>1, SetsOfTasks, FS_Subset
  <2>3. /\ granted \in Nat /\ usage \in Nat /\ crashes \in Nat
        /\ UsageLimit \in Nat /\ Cardinality(Processes) \in Nat
    BY SubscriptionsAssumption, FS_CardinalityType DEF TypeOK
  <2> QED BY <2>2, <2>3, SetsOfTasks DEF DiscountInv
<1> QED BY <1>1, RecordInit, RecordNext, TypeCorrect, PTL DEF Spec

-----------------------------------------------------------------------------
(* One caller keeps the tenant's copies.                                   *)

(* How far the tenant is behind the subscription, by the place where the   *)
(* only caller is.                                                         *)
FollowInv ==
    (\A v, w \in Workers : v = w) /\ crashes = 0 =>
        /\ (\A w \in Workers : ctx[w].at \in {"idle", "validate", "subscription"})
           /\ subscription.status # "none"
           => tenant.status = subscription.status /\ tenant.tier = subscription.tier
        /\ \A w \in Workers :
            /\ ctx[w].at # "idle" /\ subscription.status = "none"
               => ctx[w].op = "created" /\ ctx[w].at = "subscription"
            /\ ctx[w].at \in {"validate", "upgrade"} => ctx[w].op = "tier_changed"
            /\ ctx[w].at = "subscription" => ctx[w].op # "none"
            /\ ctx[w].at = "tenant" =>
                 /\ IF ctx[w].op \in {"created", "tier_changed"}
                    THEN subscription.tier = ctx[w].new
                    ELSE subscription.tier = tenant.tier
                 /\ IF ctx[w].op = "tier_changed"
                    THEN subscription.status = tenant.status
                    ELSE subscription.status = StatusOf(ctx[w].op)
            /\ ctx[w].at \in {"upgrade", "event"} =>
                 tenant.status = subscription.status /\ tenant.tier = subscription.tier

LEMMA FollowInit == Init => FollowInv
BY Nothing DEF Init, FollowInv

(* No step of the billing touches the status or the tier.                  *)
LEMMA BillingKeepsTier ==
  ASSUME TypeOK, [Next]_vars,
         \A w \in Workers : ~ (Called(w) \/ Proceed(w) \/ crash(w))
  PROVE  /\ UNCHANGED <<tenant, ctx>> /\ crashes' >= crashes
         /\ subscription'.status = subscription.status /\ subscription'.tier = subscription.tier
<1>1. ASSUME NEW p \in Processes, record_payment(p)
      PROVE  /\ UNCHANGED <<tenant, ctx, crashes>>
             /\ subscription'.status = subscription.status
             /\ subscription'.tier = subscription.tier
  BY <1>1 DEF record_payment, TypeOK, bounds
<1>2. ASSUME NEW p \in Processes,
             process_billing(p) \/ apply_discounts(p) \/ charge_payment_method(p) \/ crash_task(p)
      PROVE  UNCHANGED <<tenant, ctx, subscription>> /\ crashes' >= crashes
  BY <1>2 DEF TypeOK, process_billing, apply_discounts, charge_payment_method, crash_task, rows,
              bounds
<1>3. ASSUME \/ process_due_subscriptions \/ process_customer_payment \/ request_withdrawal
             \/ tick \/ UNCHANGED vars
      PROVE  UNCHANGED <<tenant, ctx, subscription, crashes>>
  BY <1>3 DEF process_due_subscriptions, process_customer_payment, request_withdrawal, tick, vars,
              rows, bounds
<1>4. crashes \in Int
  BY DEF TypeOK
<1> QED BY <1>1, <1>2, <1>3, <1>4 DEF Next, Bill, Called

LEMMA FollowNext == TypeOK /\ TypeOK' /\ FollowInv /\ [Next]_vars => FollowInv'
<1> SUFFICES ASSUME TypeOK, TypeOK', FollowInv, [Next]_vars,
                    \A v, w \in Workers : v = w, crashes' = 0
             PROVE  FollowInv'
  BY DEF FollowInv
<1>0. crashes \in Nat /\ \A w \in Workers : ctx[w] \in Request
  BY DEF TypeOK
<1>1. ASSUME NEW w \in Workers, Called(w) PROVE FollowInv'
  <2>1. PICK op \in Operations, at \in {"validate", "subscription"}, new \in Tiers :
           /\ Begin(w, op, at, new)
           /\ at = "validate" => op = "tier_changed"
           /\ at = "subscription" => op # "tier_changed"
           /\ op = "created" => subscription.status = "none"
           /\ op # "created" => subscription.status # "none"
    BY <1>1, CalledType
  <2>2. ctx'[w].at = at /\ ctx'[w].op = op /\ op # "none"
    <3>1. ctx'[w] = [op |-> op, at |-> at, new |-> new, held |-> tenant.tier]
      BY <2>1, BeginType
    <3> QED BY <3>1 DEF Operations
  <2>3. UNCHANGED <<subscription, tenant, crashes>> /\ ctx[w].at = "idle"
    BY <2>1 DEF Begin, rows
  <2> QED BY <2>1, <2>2, <2>3 DEF FollowInv
<1>2. ASSUME NEW w \in Workers, Proceed(w) PROVE FollowInv'
  <2>1. crashes = 0
    BY <1>2 DEF Proceed, validate_tier_downgrade, save_subscription, save_tenant,
                handle_tier_upgrade, log_event, bounds
  <2>2. ctx \in [Workers -> Request]
    BY DEF TypeOK
  <2>3. CASE validate_tier_downgrade(w)
    <3>1. UNCHANGED <<subscription, tenant>> /\ ctx[w].at = "validate"
      BY <2>3 DEF validate_tier_downgrade, rows
    <3>2. ctx'[w] = NoRequest \/ (ctx'[w].at = "subscription" /\ ctx'[w].op = ctx[w].op)
      <4>1. ctx' = [ctx EXCEPT ![w] = NoRequest] \/ Advance(w, "subscription")
        BY <2>3 DEF validate_tier_downgrade
      <4> QED BY <2>2, <3>1, <4>1, AdvanceType
    <3> QED BY <2>1, <3>1, <3>2, Nothing DEF FollowInv
  <2>4. CASE save_subscription(w)
    <3>1. ctx[w].at = "subscription" /\ UNCHANGED tenant /\ ctx[w].op # "none"
      BY <2>1, <2>4 DEF save_subscription, FollowInv
    <3>2. \/ ctx' = [ctx EXCEPT ![w] = NoRequest] /\ UNCHANGED subscription
          \/ /\ ctx[w].op = "created" /\ subscription'.status = "active"
             /\ subscription'.tier = ctx[w].new /\ Advance(w, "tenant")
          \/ /\ ctx[w].op = "tier_changed" /\ subscription'.status = subscription.status
             /\ subscription'.tier = ctx[w].new /\ Advance(w, "tenant")
          \/ /\ ctx[w].op \in {"canceled", "suspended", "reactivated"}
             /\ subscription'.status = StatusOf(ctx[w].op)
             /\ subscription'.tier = subscription.tier /\ Advance(w, "tenant")
      BY <2>4 DEF save_subscription, TypeOK
    <3>3. CASE ctx' = [ctx EXCEPT ![w] = NoRequest] /\ UNCHANGED subscription
      BY <2>1, <2>2, <3>1, <3>3, Nothing DEF FollowInv
    <3>4. ASSUME Advance(w, "tenant")
          PROVE  ctx'[w].at = "tenant" /\ ctx'[w].op = ctx[w].op /\ ctx'[w].new = ctx[w].new
      BY <2>2, <3>1, <3>4, AdvanceType
    <3>5. CASE /\ ctx[w].op = "created" /\ subscription'.status = "active"
               /\ subscription'.tier = ctx[w].new /\ Advance(w, "tenant")
      BY <2>1, <3>1, <3>4, <3>5 DEF FollowInv, StatusOf
    <3>6. CASE /\ ctx[w].op = "tier_changed" /\ subscription'.status = subscription.status
               /\ subscription'.tier = ctx[w].new /\ Advance(w, "tenant")
      BY <2>1, <3>1, <3>4, <3>6 DEF FollowInv
    <3>7. CASE /\ ctx[w].op \in {"canceled", "suspended", "reactivated"}
               /\ subscription'.status = StatusOf(ctx[w].op)
               /\ subscription'.tier = subscription.tier /\ Advance(w, "tenant")
      <4>1. StatusOf(ctx[w].op) # "none"
        BY <3>7 DEF StatusOf
      <4> QED BY <2>1, <3>1, <3>4, <3>7, <4>1 DEF FollowInv
    <3> QED BY <3>2, <3>3, <3>5, <3>6, <3>7
  <2>5. CASE save_tenant(w)
    <3>1. ctx[w].at = "tenant" /\ UNCHANGED subscription
      BY <2>5 DEF save_tenant
    <3>2. ctx'[w].op = ctx[w].op /\ ctx'[w].at = IF ctx[w].op = "tier_changed" THEN "upgrade" ELSE "event"
      BY <2>2, <2>5, AdvanceType DEF save_tenant
    <3>3. /\ tenant'.tier = IF ctx[w].op \in {"created", "tier_changed"}
                            THEN ctx[w].new ELSE tenant.tier
          /\ tenant'.status = IF ctx[w].op = "tier_changed"
                              THEN tenant.status ELSE StatusOf(ctx[w].op)
      BY <2>5 DEF save_tenant
    <3> QED BY <2>1, <3>1, <3>2, <3>3 DEF FollowInv
  <2>6. CASE handle_tier_upgrade(w)
    <3>1. /\ ctx[w].at = "upgrade" /\ UNCHANGED <<subscription, tenant>>
          /\ ctx'[w].at = "event" /\ ctx'[w].op = ctx[w].op
      BY <2>2, <2>6, AdvanceType DEF handle_tier_upgrade
    <3> QED BY <2>1, <3>1 DEF FollowInv
  <2>7. CASE log_event(w)
    <3>1. ctx[w].at = "event" /\ UNCHANGED <<subscription, tenant>> /\ ctx'[w] = NoRequest
      BY <2>2, <2>7 DEF log_event
    <3> QED BY <2>1, <3>1, Nothing DEF FollowInv
  <2> QED BY <1>2, <2>3, <2>4, <2>5, <2>6, <2>7 DEF Proceed
<1>3. ASSUME NEW w \in Workers, crash(w) PROVE FALSE
  BY <1>0, <1>3 DEF crash
<1>4. ASSUME \A w \in Workers : ~ (Called(w) \/ Proceed(w) \/ crash(w)) PROVE FollowInv'
  BY <1>0, <1>4, BillingKeepsTier DEF FollowInv
<1> QED BY <1>1, <1>2, <1>3, <1>4

(* The tenant has the status and the tier of its subscription whenever no  *)
(* operation is under way, where one is called at a time and none dies     *)
(* (SubscriptionService).                                                  *)
THEOREM TenantIsKept == Spec => []TenantFollowsSubscription
<1>1. TypeOK /\ FollowInv => TenantFollowsSubscription
  <2> SUFFICES ASSUME TypeOK, FollowInv, Cardinality(Workers) = 1, AtRest, crashes = 0,
                      subscription.status # "none"
               PROVE  tenant = [status |-> subscription.status, tier |-> subscription.tier]
    BY DEF TenantFollowsSubscription
  <2>1. \A v, w \in Workers : v = w
    BY SubscriptionsAssumption, FS_Singleton
  <2>2. \A w \in Workers : ctx[w].at = "idle"
    BY Nothing DEF AtRest
  <2>3. tenant.status = subscription.status /\ tenant.tier = subscription.tier
    BY <2>1, <2>2 DEF FollowInv
  <2> QED BY <2>3 DEF TypeOK
<1> QED BY <1>1, FollowInit, FollowNext, TypeCorrect, PTL DEF Spec

-----------------------------------------------------------------------------
(* A date passes only where its day was missed.                            *)

(* On its date the subscription is waited for: by a run that is to come,   *)
(* by a task that waits or is at work, or by nobody on a day that is       *)
(* already missed.                                                         *)
BilledInv ==
    subscription.status # "none" =>
        /\ subscription.next >= today \/ subscription.next \in missed
        /\ subscription.next = today /\ ran =>
             \/ today \in missed
             \/ queue > 0
             \/ \E p \in Processes : task[p].at # "idle"

(* Only create_subscription is called where there is no subscription.      *)
CalledInv ==
    \A w \in Workers : ctx[w].op \in Operations \ {"created"} => subscription.status # "none"

LEMMA CalledInit == Init => CalledInv
BY Nothing DEF Init, CalledInv, Operations

LEMMA CalledNext == TypeOK /\ CalledInv /\ [Next]_vars => CalledInv'
<1> SUFFICES ASSUME TypeOK, CalledInv, [Next]_vars PROVE CalledInv'
  OBVIOUS
<1> USE DEF rows
<1>0. ctx \in [Workers -> Request]
  BY DEF TypeOK
<1>1. subscription.status # "none" => subscription'.status # "none"
  <2>1. CASE \E w \in Workers : save_subscription(w)
    <3>1. \A op : op \in Operations => StatusOf(op) # "none"
      BY DEF StatusOf, Operations
    <3> QED BY <2>1, <3>1 DEF save_subscription, TypeOK, Operations
  <2>2. CASE \E p \in Processes : record_payment(p)
    BY <2>2 DEF record_payment, TypeOK
  <2>3. CASE /\ ~ \E w \in Workers : save_subscription(w)
             /\ ~ \E p \in Processes : record_payment(p)
    <3>1. UNCHANGED subscription
      BY <2>3 DEF Next, Proceed, Bill, create_subscription, change_tier, change_status, Begin,
                  validate_tier_downgrade, save_tenant, handle_tier_upgrade, log_event, crash,
                  process_customer_payment, request_withdrawal, process_due_subscriptions,
                  process_billing, apply_discounts, charge_payment_method, crash_task, tick, vars
    <3> QED BY <3>1
  <2> QED BY <2>1, <2>2, <2>3
<1>2. ASSUME NEW w \in Workers, Called(w) PROVE CalledInv'
  <2>1. PICK op \in Operations, at \in {"validate", "subscription"}, new \in Tiers :
          Begin(w, op, at, new) /\ (op # "created" => subscription.status # "none")
    BY <1>2, CalledType
  <2>2. ctx'[w].op = op /\ \A v \in Workers : v # w => ctx'[v] = ctx[v]
    <3>1. /\ ctx'[w] = [op |-> op, at |-> at, new |-> new, held |-> tenant.tier]
          /\ \A v \in Workers : v # w => ctx'[v] = ctx[v]
      BY <2>1, BeginType
    <3> QED BY <3>1
  <2> QED BY <1>1, <2>1, <2>2 DEF CalledInv
<1>3. ASSUME NEW w \in Workers, Proceed(w) \/ crash(w) PROVE CalledInv'
  <2>1. /\ \A v \in Workers : v # w => ctx'[v] = ctx[v]
        /\ ctx'[w].op = ctx[w].op \/ ctx'[w] = NoRequest
    <3>1. CASE ctx' = [ctx EXCEPT ![w] = NoRequest]
      BY <1>0, <3>1
    <3>2. CASE ctx' # [ctx EXCEPT ![w] = NoRequest]
      <4>1. PICK at \in {"subscription", "tenant", "upgrade", "event"} :
              Advance(w, at) /\ ctx[w].at # "idle"
        BY <1>3, <3>2 DEF Proceed, validate_tier_downgrade, save_subscription, save_tenant,
                          handle_tier_upgrade, log_event, crash
      <4> QED BY <1>0, <4>1, AdvanceType
    <3> QED BY <3>1, <3>2
  <2> QED BY <1>1, <2>1, Nothing DEF CalledInv, Operations
<1>4. ASSUME UNCHANGED ctx PROVE CalledInv'
  BY <1>1, <1>4 DEF CalledInv
<1>5. CASE /\ ~ \E w \in Workers : Called(w) \/ Proceed(w) \/ crash(w)
  <2>1. UNCHANGED ctx
    BY <1>5 DEF Next, Called, Bill, record_payment, process_customer_payment, request_withdrawal,
                process_due_subscriptions, process_billing, apply_discounts,
                charge_payment_method, crash_task, tick, vars
  <2> QED BY <1>4, <2>1
<1> QED BY <1>2, <1>3, <1>5

LEMMA BilledInit == Init => BilledInv
BY DEF Init, BilledInv

LEMMA BilledNext == TypeOK /\ CalledInv /\ BilledInv /\ [Next]_vars => BilledInv'
<1> SUFFICES ASSUME TypeOK, CalledInv, BilledInv, [Next]_vars, subscription'.status # "none"
             PROVE  /\ subscription'.next >= today' \/ subscription'.next \in missed'
                    /\ subscription'.next = today' /\ ran' =>
                         \/ today' \in missed'
                         \/ queue' > 0
                         \/ \E p \in Processes : task'[p].at # "idle"
  BY DEF BilledInv
<1> DEFINE Goal == /\ subscription'.next >= today' \/ subscription'.next \in missed'
                   /\ subscription'.next = today' /\ ran' =>
                        \/ today' \in missed'
                        \/ queue' > 0
                        \/ \E p \in Processes : task'[p].at # "idle"
<1>0. /\ today \in Nat /\ subscription.next \in Nat /\ queue \in Nat
      /\ task \in [Processes -> Task] /\ Cycle \in Nat /\ Cycle > 0
  BY SubscriptionsAssumption DEF TypeOK
<1>1. ASSUME UNCHANGED <<today, subscription, days, queue, task>> PROVE Goal
  BY <1>1 DEF BilledInv, days
<1>2. ASSUME NEW w \in Workers, Called(w) PROVE Goal
  <2>1. PICK op \in Operations, at \in {"validate", "subscription"}, new \in Tiers :
            Begin(w, op, at, new)
    BY <1>2, CalledType
  <2> QED BY <1>1, <2>1 DEF Begin, rows
<1>3. ASSUME NEW w \in Workers, Proceed(w) PROVE Goal
  <2>1. CASE save_subscription(w)
    <3>1. UNCHANGED <<today, days, queue, task>>
      BY <2>1 DEF save_subscription
    <3>2. \/ subscription' = [status |-> "active", tier |-> ctx[w].new, next |-> today + Cycle]
          \/ subscription.status # "none" /\ UNCHANGED subscription
          \/ /\ subscription' = [subscription EXCEPT !.tier = ctx[w].new]
             /\ ctx[w].op = "tier_changed"
          \/ /\ \E s : subscription' = [subscription EXCEPT !.status = s]
             /\ ctx[w].op \in {"canceled", "suspended", "reactivated"}
      BY <2>1 DEF save_subscription
    <3>3. CASE subscription' = [status |-> "active", tier |-> ctx[w].new, next |-> today + Cycle]
      <4>1. subscription'.next = today + Cycle
        BY <3>3
      <4> QED BY <1>0, <3>1, <4>1
    <3>4. CASE subscription.status # "none" /\ UNCHANGED subscription
      BY <1>1, <3>1, <3>4
    <3>5. CASE /\ \/ subscription' = [subscription EXCEPT !.tier = ctx[w].new]
                  \/ \E s : subscription' = [subscription EXCEPT !.status = s]
               /\ ctx[w].op \in {"tier_changed", "canceled", "suspended", "reactivated"}
      <4>1. subscription'.next = subscription.next
        BY <3>5 DEF TypeOK
      <4>2. subscription.status # "none"
        BY <3>5 DEF CalledInv, Operations
      <4> QED BY <3>1, <4>1, <4>2 DEF BilledInv, days
    <3> QED BY <3>2, <3>3, <3>4, <3>5
  <2>2. CASE ~ save_subscription(w)
    BY <1>1, <1>3, <2>2
       DEF Proceed, validate_tier_downgrade, save_tenant, handle_tier_upgrade, log_event, rows
  <2> QED BY <2>1, <2>2
<1>4. CASE process_due_subscriptions
  <2>1. UNCHANGED <<today, subscription, task, missed>>
    BY <1>4 DEF process_due_subscriptions, rows
  <2>2. CASE Due
    <3>1. queue' = queue + 1
      BY <1>4, <2>2 DEF process_due_subscriptions
    <3> QED BY <1>0, <2>1, <3>1 DEF BilledInv
  <2>3. CASE ~ Due
    <3>1. queue' = queue /\ (ran' <=> ran \/ subscription.status = "active")
      BY <1>4, <2>3 DEF process_due_subscriptions
    <3> QED BY <2>1, <2>3, <3>1 DEF BilledInv, Due
  <2> QED BY <2>2, <2>3
<1>5. ASSUME NEW p \in Processes,
             process_billing(p) \/ apply_discounts(p) \/ charge_payment_method(p)
      PROVE  Goal
  <2>1. UNCHANGED <<today, subscription, days>>
    BY <1>5 DEF process_billing, apply_discounts, charge_payment_method, rows
  <2>2. task'[p].at # "idle"
    BY <1>0, <1>5 DEF process_billing, apply_discounts, charge_payment_method, Task
  <2> QED BY <2>1, <2>2 DEF BilledInv, days
<1>6. ASSUME NEW p \in Processes, record_payment(p) PROVE Goal
  <2>1. subscription'.next = today + Cycle /\ UNCHANGED today
    BY <1>6 DEF record_payment, TypeOK
  <2> QED BY <1>0, <2>1
<1>7. ASSUME NEW p \in Processes, crash_task(p) PROVE Goal
  <2>1. /\ UNCHANGED <<today, subscription, ran>> /\ missed \subseteq missed'
        /\ queue' = queue + 1 \/ today \in missed'
    BY <1>7 DEF crash_task, rows
  <2>2. queue' > 0 \/ today \in missed'
    BY <1>0, <2>1
  <2> QED BY <2>1, <2>2 DEF BilledInv
<1>8. CASE tick
  <2>1. /\ UNCHANGED <<subscription, queue, task>> /\ today' = today + 1 /\ ran' = FALSE
        /\ missed \subseteq missed' /\ (~ Billed => today \in missed')
    BY <1>8 DEF tick, rows
  <2>2. subscription.next >= today \/ subscription.next \in missed
    BY <2>1 DEF BilledInv
  <2>3. subscription.next = today => today \in missed'
    <3>1. CASE Billed
      BY <1>0, <2>1, <3>1 DEF BilledInv, Billed
    <3>2. CASE ~ Billed
      BY <2>1, <3>2
    <3> QED BY <3>1, <3>2
  <2>4. subscription.next > today => subscription.next >= today'
    BY <1>0, <2>1
  <2> QED BY <1>0, <2>1, <2>2, <2>3, <2>4
<1>9. ASSUME NEW w \in Workers, crash(w) PROVE Goal
  BY <1>1, <1>9 DEF crash, rows
<1>10. CASE process_customer_payment \/ request_withdrawal \/ UNCHANGED vars
  BY <1>1, <1>10 DEF process_customer_payment, request_withdrawal, vars, rows
<1> QED BY <1>2, <1>3, <1>4, <1>5, <1>6, <1>7, <1>8, <1>9, <1>10 DEF Next, Called, Bill

(* A billing date has passed only where no run found the subscription      *)
(* active on it, its billing had not ended by midnight or a task was lost, *)
(* for any schedule of process_due_subscriptions, which nothing in the     *)
(* code fixes, any number of processes and any deaths.                     *)
THEOREM OnlyMissedDatesPass == Spec => []PassedDatesWereMissed
<1>1. BilledInv => PassedDatesWereMissed
  BY DEF BilledInv, PassedDatesWereMissed
<1>2. Spec => [](TypeOK /\ CalledInv)
  BY TypeCorrect, CalledInit, CalledNext, PTL DEF Spec
<1> QED BY <1>1, <1>2, BilledInit, BilledNext, PTL DEF Spec
=============================================================================
