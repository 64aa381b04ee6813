# Verification of Tulia's money, access, booking and messaging protocols

TLA+ models of the Tulia API (Django, Celery, Redis, PostgreSQL), the TLC configurations
that check them and the TLAPS proofs of what holds for every value of their constants.

1. [The system](#1-the-system)
2. [What makes it hard](#2-what-makes-it-hard)
3. [The modules](#3-the-modules)
4. [How the modules correspond to the code](#4-how-the-modules-correspond-to-the-code)
5. [The runs](#5-the-runs)
6. [Bounds, symmetry and fairness](#6-bounds-symmetry-and-fairness)
7. [The proofs](#7-the-proofs)
8. [What the code does differently from what it says](#8-what-the-code-does-differently-from-what-it-says)
9. [What is not modelled](#9-what-is-not-modelled)
10. [What is left](#10-what-is-left)

To run: `tlc -config MCWalletService_races.cfg MCWalletService.tla` and
`tlapm Wallet_proofs.tla`; every `MC<module>_<run>.cfg` belongs to `MC<module>.tla`.

## 1. The system

A multi-tenant WhatsApp commerce platform. Tenants sell and book through a bot; their
customers pay through a provider; the platform keeps the money in a wallet per tenant until
the tenant withdraws it. Requests are served by several web workers and Celery workers over one
PostgreSQL database (READ COMMITTED, no `ATOMIC_REQUESTS`) and one Redis.

| component | state it keeps | operations | correct when | modelled |
|---|---|---|---|---|
| **Wallet** `tenants/services/wallet_service.py` | TenantWallet.balance, Transaction rows, WalletAudit rows | credit, debit, customer payment, request / approve / complete / fail a withdrawal, fail a payment | never below zero; audit trail names every change; a withdrawal is settled once and credited back iff `fail_withdrawal` failed it | yes |
| **Payouts** `tenants/services/withdrawal_service.py` | the same rows; transfers at the provider | initiate, approve (pays), cancel; provider bounce | paid at most once, by somebody else than its initiator, and the row says so | yes |
| **Scope cache** `rbac/services.py` | RolePermission, TenantUserRole, UserPermission; scopes and their version in Redis | resolve scopes; grant, deny, assign, remove, edit a role; invalidate | an answer is never older than the last invalidation | yes |
| **Orders and payments** `integrations/services/payment_service.py`, `orders/` | Order.status, sessions at the provider, WebhookLog | checkout link, provider webhooks, staff update, pre_save / post_save signals | paid iff paid for, credited once, customer told once, terminal states stay | partly |
| **Appointments and reminders** `services/services/booking_service.py`, `services/signals.py`, `messaging/tasks.py` | Appointment, ScheduledMessage, Celery's queue | book, cancel, staff PUT / PATCH / DELETE, confirmation, scheduled and batch reminders | never over capacity; a reminder goes out once and not after a cancellation | partly |
| **Conversations** `integrations/views.py`, `bot/tasks.py`, `messaging/views.py` | Customer, Conversation, Message, Celery's queue | inbound webhook, bot task, escalation, handoff | one conversation per customer, one reply per message, no message lost, no bot during a handoff | partly |
| **Subscriptions** `tenants/services/subscription_service.py`, `payment_facilitation_service.py`, `tenants/tasks.py` | Subscription, Tenant, SubscriptionDiscount, SubscriptionEvent | create, upgrade, downgrade, suspend, reactivate, cancel, due run, billing | charged once a cycle, the charge on record, the discount within its limit, tenant and subscription agree | partly |
| **Consent** `messaging/services/consent_service.py` | CustomerPreferences, ConsentEvent, cached preferences | opt in / out, read, send | nothing is sent without consent | partly |
| **Campaigns** `messaging/services/campaign_service.py` | MessageCampaign, its counters and A/B metadata | execute | sent once per customer, counters true | partly |
| Messaging outbox `messaging_service.py` | Message, rate limit set in Redis | send | within the daily limit | in the tasks that send |
| Tenants, authentication, settings, catalog sync, analytics, bot language pipeline, provider clients | rows of their own | CRUD, HTTP | | no, section 9 |

How they interact:

    customer --pays--> provider --webhook--> PaymentService --credits--> WalletService
                                                  |                          |
                                                  +--mark_paid--> Order      +-- Transaction, WalletAudit
                                                                    |                      ^
                                     post_save signal --> Celery: payment confirmation     |
    operator --approve/complete/fail--> WalletService, WithdrawalService --transfer--> provider
    every request --resolve_scopes--> Redis / RBAC rows <--change + invalidate-- administrators

    customer --writes--> Twilio --webhook--> Customer, Conversation, Message --> Celery: bot task --> reply
                                                       ^                                    |
    staff --handoff------------------------------------+<--session, escalation--------------+
    staff, bot --book/cancel--> Appointment --signal--> ScheduledMessage <--beat-- Celery --> Twilio
    staff --execute--> campaign --per customer--> consent (cached) --> Twilio
    beat --due run--> Celery: process_billing --> Subscription, Tenant, SubscriptionEvent

## 2. What makes it hard

* **Read, compute, write back.** `transaction.atomic()` under READ COMMITTED does not make a read
  and a later absolute write atomic. Only the methods that say `select_for_update` are safe, and
  they lock the Transaction row and not the wallet. A database transaction is therefore at least two
  steps in the models, a read and a commit, and requests interleave in between.
* **Whole rows written back.** `save()` without `update_fields` writes every field of an object read
  long before: the staff's order, a customer's preferences, a conversation a bot task read.
* **Effects outside the database.** A payout, a charge, a message is made before the commit
  that records it; a crash, a lost answer or an exception in between separates the two.
* **Tasks queued and caches cleared before the commit** they are about: a scope cache's version, a copy of a
  customer's preferences and a confirmation all run ahead of the rows.
* **Everyone repeats.** Providers and Twilio deliver again what was not answered, Celery does again what
  was not acknowledged, beat tasks overlap with their own next run; webhooks come late, twice, or
  after the order changed.
* **A cache whose version is itself a cached value**, incremented by a read and a write, with a
  time to live of its own.
* **Signals** that compare with a status they read in a query of their own.
* **Several rows that must agree**, saved one after the other with no transaction around them.

PROJECT.json lists each place ("hazards") with the properties that would catch it going wrong.

## 3. The modules

| module | contents |
|---|---|
| `WalletStore` | the tables (balance, Transaction rows, audit rows), row locks, requests; what every service shares: read the wallet, ask for and get a row lock, save a balance with its audit, save a status, roll back |
| `WalletService` | one action per method of the class, as its read step and its commit step; `Spec`, `FairSpec` |
| `Ledger` | the abstract account book a tenant relies on: deposit, withdraw, settle, return, write off |
| `WithdrawalService` | extends `WalletService`: the second service on the same rows, the views in front of it, the provider and its faults |
| `ScopeCache` | one member's scopes, their cache and its version |
| `OrderPayments` | one order, its sessions, the webhooks, the signals, the staff |
| `Appointments` | the bookings of one slot, their reminders, the tasks that send them |
| `Conversations` | what one phone number writes to one tenant, the bot's task, the handoff |
| `Subscriptions` | one tenant's subscription, its wallet, its discount and its billing |
| `ConsentService` | one customer's preferences, their cached copy, the sends that ask for consent |
| `Campaigns` | the executions of one campaign |
| `<module>Props` | the properties of a module and, for `WalletService`, the refinement mapping to `Ledger`; those of `ConsentService` and `Campaigns` are the last section of the module |
| `MC<module>` | symmetry sets and the constant functions of the configurations |
| `<module>_proofs` | the theorems; `Wallet_proofs` holds those of both services of the wallet |

`WithdrawalService` composes with `WalletService` by extending it: both act on the variables of
`WalletStore`, as both services act on the same two tables, so the races between
`WalletService.complete_withdrawal` and `WithdrawalService.approve_withdrawal` are there.
`OrderPayments` calls `WalletService.process_customer_payment` as one step: what can happen inside
that step is the subject of `WalletService`, what matters here is that its commit is separate from
the commit that marks the order as paid. In the same way the tasks of `Appointments` and
`Conversations` and the executions of `Campaigns` contain `send_message` as one step, and `Campaigns`
takes the answer of `ConsentService` as a choice, since that service promises no more than
`ConsentWasGiven`.

A definition whose name ends in a word that says what is wrong with it (`..._unlocked`,
`..._once`, `..._placed`) and whose comment begins with "Mutant of" is not part of the model: it is
the definition before it with a plausible bug, against which a property is shown to bite.

## 4. How the modules correspond to the code

PROJECT.json maps each definition to its lines. The conventions:

* **A request** is a worker's record `ctx[w]`: the operation, how far it is (`at`) and what it holds
  in local variables: the balance it saw, the locked row, the order object it read. A guard on
  `ctx` is a guard on possibly stale data, as in the code; a guard on a table variable is a query.
  A Celery task is a process's record `task[p]`, a task that waits is in `queue`.
* **A method that raises** ends its request without a write: the transaction rolls back
  (`Rollback`), or the request is simply never enabled when the guard precedes every effect.
* **`select_for_update`** is `AskForRow` (the request waits) and `LockRow` (it gets the lock and
  reads the row); the lock is freed by the commit or the rollback, `EndRequest`.
* **Code outside a transaction** commits statement by statement: one step per statement that writes or
  whose result is used later.
* **External calls** are nondeterministic: the provider accepts, refuses, does not answer, bounces
  later (`Faults` says which of these a run includes).
* **A death** ends a request or a task anywhere and leaves what it committed; what the broker does about
  a lost task is `CELERY_ACKS_LATE`: a whole worker that is lost has its task done again, a lost
  child process has its task dropped.
* **Identity is abstract**: rows, users, sessions are model values; amounts are small integers of
  cents; uuid, text, JSON metadata and messages are left out unless a guard reads them.
* **History** (what was delivered, charged, wished for, held) is kept in variables no guard reads;
  each is named as such where it is declared.

`WalletStore` / `WalletService`. One wallet in one currency: wallets of different tenants share
nothing. A Transaction's id is chosen at the read step, which only names it: the row appears at
the commit. The `platform_fee` row beside a payment repeats the fee and is never read, so it is
folded into the payment row, whose `net` is the amount after the fee; the rounding of
`Decimal.quantize` (half to even) is modelled. `FeePercent` is the tier's percentage in hundredths, 350 for the
seeded 3.50; the field is a decimal of five digits without validators, so it may be negative or above 100 %. `Unused`
rows are the bound on how many Transactions there may be. `credit_wallet`, `debit_wallet` and
`fail_payment_transaction` have no caller outside the tests; they are public methods and may be called on whatever
there is. `fail_payment_transaction` looks neither at the kind nor at the status of its row, so it also fails a withdrawal that is
pending or completed, and gives nothing back; the history field `written_off` marks such a row.

`WithdrawalService`. `approve_withdrawal` is split where its effects are: the view's unlocked read
(`ApproveWithdrawalView`), the checks, the provider call (which changes `payouts`, the transfers the
provider accepted), the UPDATE that takes the row lock, the commit, and the error path, whose save
is undone by the exception that leaves the `@transaction.atomic` method. The routed endpoints reach
`WalletService.request_withdrawal` and `ApproveWithdrawalView`; `WithdrawalService.initiate_withdrawal`
has no route, and the approve route of `WalletService` is shadowed by one included before it in
`config/urls.py`. Runs say through `Operations` which of these they include.

`ScopeCache`. One member. Each query and each cache command is a step: `get_version`,
`set_first_version`, `get_cached_scopes`, three queries, `cache_scopes`. A change (`Change`) is its rows, `read_version`
and `increment_version`, and where it has a transaction (`Transactions`) the `commit` of the rows comes last: every routed
view is `@transaction.atomic`, so the version moves before the rows do, and a reader in between caches the old
scopes under the new version. Without one, as from a management command, the rows are there first. The caller may
fail or die at any step (`abandon`): a transaction takes its rows back, an autocommitted change stays without its
invalidation. A request makes one change; the views that change several in a loop repeat it. Cached entries are
keyed by version, as the Redis keys are; a key's expiry is an action that may happen at any moment. `held` and
`kept` are history: the permissions the member had at some moment, and at every moment, since the last
increment of the version; `lapsed` says whether the version key ever expired. Of the views only
`RolePermissionsAddView` reaches the service unharmed; the others hand it a `request=` that its methods do not take and end
in a `TypeError`. The methods are modelled as they are.

`OrderPayments`. One order with several sessions. `order.save()` is three steps: `pre_save` (reads the
previous status), the UPDATE (writes the fields it lists; the serializer's save writes them all),
`post_save` (queues the confirmation). `update_stamped` is the staff update that is followed by a
second save of `paid_at` or `fulfilled_at`. After a processed payment the view raises while it
writes its log, so `answer` always makes the event due again; a `crash` may end any request at any
step, and leaves what it wrote. `Signed` sessions are those of a provider whose signature is
verified (a secret is configured): the handler verifies the re-serialised body, which never fits.
Stripe (without a secret), Paystack (without a secret) and Pesapal share this protocol.
`generate_checkout_link` has one caller, the bot's payment orchestration, which itself has none yet;
it is modelled as the public entry it is. `Order.cancel` and `Order.mark_fulfilled` have no callers;
staff cancel and fulfil with PUT. The status `pending_payment`, which no code sets or asks for, is left out.

`Appointments`. Every appointment asks for the same slot; slots share nothing but the window. `clock`
is how near the slot is, in the eight zones the code tells apart (more than 25 hours, the hour
of the 24-hour batch, and so on, until it has begun). Creating and canceling are transactions: the check and the
commit are steps of their own. The inherited PUT, PATCH and DELETE are not: the `pre_save` signal reads the status,
the UPDATE writes every field, the `post_save` signal schedules or cancels reminders. A
ScheduledMessage row is an appointment, a kind and a number, since an appointment that becomes
confirmed again gets its rows again. `process_scheduled_messages` reads the due rows once and sends each in
a transaction that only then marks it; the hourly 24-hour batch and the 15-minute 2-hour batch
send to the appointments in their window and mark nothing. `delivered` and `reminded` count what the provider got from the
one and from the others.

`Conversations`. `twilio_webhook` looks the customer up by an encrypted number; `EncryptedCharField`
draws a nonce for every value it writes or looks up, so a lookup finds a row only if it happens to
draw that row's nonce. The code draws 96 bits; the model takes either outcome (`by_phone`), so that a run is a
superset of what happens. A tenant without an active subscription has its customer told so and Twilio
answered with 503, which makes it send the message again (`notices`). Else the transaction stores customer, conversation and
message, then the task is queued, then Twilio is answered with 200, whatever raised. Twilio may stop waiting at any moment
(`time_out`): it then sends the message again while the first webhook is still at work, or
after an answer that came too late. `process_inbound_message` reads message and conversation, makes a session, runs the
graph (one step: answers, is silent, escalates or raises), sends, saves the session; escalating saves
the whole conversation as it was read. `ConversationHandoffView` may do its save at any moment. A task that dies with its
worker is queued again; one whose child process alone dies is dropped, and its message is `lost`, which is not `finished`.
`late` counts every reply sent after the conversation's first handoff, whatever its status says by then; `undone` holds the
conversations that the escalation's stale save took out of handoff.

`Subscriptions`. Each operation of `SubscriptionService` is its statements in order: the check of the
wallet, the subscription, the tenant, the tier's consequences, the event. The repository calls none of
them and does not schedule the due run; so who calls them, and how often, is left open. `process_billing` reads the
subscription, looks at the discount, charges through the stub that always succeeds and
records the payment, the discount's use and the next date in one transaction. `missed` is history: the days on
which no due run found the subscription active, on which its billing had not ended by midnight, or on which a task was lost.

`ConsentService`. `get_preferences` is a miss, a read and a set of the cache; `update_consent` is a
transaction: the row saved whole from the object that was read, the cached copy deleted before the commit, the
event. A PUT is one such call per type. `wish`, `given`, `sent` and `overlapped` are history: what the last
successful update of each type asked for, what was ever consented to, what was sent, whether calls ever
overlapped.

`Campaigns`. An execution is one request of `CampaignExecuteView`: the status is checked on the object the
view read, then `mark_sending`, the number targeted, and for each customer the consent, `get_or_create` of
the conversation (which raises when there are two), the send and the counter; the A/B metadata is
read once, at the start, and saved whole after each send.

## 5. The runs

| run | instance | shows |
|---|---|---|
| `wallet_races` | 2 workers, 3 rows | all methods in every order: withdrawals settle or fail once, are credited back iff `fail_withdrawal` failed them (`CreditBackIffFailed`, `SettledIsFinal`), and are at worst written off by `fail_payment_transaction`; the balance is never negative and is the one the newest audit row names |
| `wallet_serial` | 1 worker, 3 rows, fees at a tie | one request at a time, `WalletService` implements `Ledger` and the audit trail has no gap; includes a user whose membership is not active |
| `payout_races` | 2 workers, 3 rows | with refusals, lost answers, bounces and crashes: no transfer on its initiator's own word (`FourEyesOnPayouts`); a recorded approver did pay (`ApprovedIsPaid`) |
| `scope_coherent` | 2 resolutions, 1 administrator with and without a transaction, 2 changes, failures | a resolution that begins after an increment of the version answers from then on, until the version key expires, though its three queries, the other resolution's late write and the commit interleave (`OldScopesAreNotServed`); and whatever expires, stale scopes die out once changes stop (`StalenessEnds`) |
| `order_races` | 2 workers, 2 sessions, 2 deliveries each, 1 death | an order never says paid before a credit; every payment is credited and the order becomes paid, wherever the delivery dies |
| `order_confirmed` | 2 workers, 2 sessions, 2 staff updates, a change of tier | whoever makes the order paid, a confirmation is queued; one session's events are refused for their signature |
| `booking` | 2 workers, 4 bookings of a slot for 1, 1 staff update, 1 death | the slot is overbooked by no more than the requests in flight and the updates explain |
| `reminders` | 1 worker, 2 processes, 1 appointment, 24h reminder, 1 update, 1 death | overlapping runs of the beat task deliver a reminder at most once per process and death, one that says sent was delivered, a canceled appointment's is not pending once all rests, and every due reminder ends |
| `inbound` | 2 web workers, 2 processes, 1 message sent twice, 1 handoff, 1 death | each answer that Twilio did not wait for and each death costs at most one reply too many, also where the deliveries overlap or get the notice of an inactive subscription; a conversation taken over falls silent unless a stale save gives it back; what is queued is dealt with or lost with its process |
| `billing` | 1 caller, 2 processes, a discount for 1 use, 3 days, 4 due runs, 1 death | charges, records and discounts stay within what runs, processes and deaths explain; the tenant follows its subscription; a billing date passes only on a day that was missed, however irregular the runs |
| `consent` | 2 calls at a time, 2 types, 3 updates, 1 failed invalidation, 1 death | nothing is sent for which there never was consent; calls one at a time keep what was asked for; stale copies end |
| `campaigns` | 2 requests, 2 customers, A/B, 1 error, 1 death | a customer gets the campaign at most once per request, and the counters keep up with the provider |

Each property of a run has a mutant in PROJECT.json under which that run fails.

Two further configurations hold: `MCWalletService_requests_end.cfg` (`RequestsEnd`, no
request waits for ever for a row lock) and `MCWithdrawalService_serial.cfg` (one request at a time,
paid = completed = debited: `PaidExactlyWhenCompleted`, which is also proved, and `WalletPaysTheCompleted`). The
`MC<module>_divergences.cfg` violate the properties they list, section 8.

## 6. Bounds, symmetry and fairness

* **Two actors.** Every hazard found is between two requests or two tasks; a third adds repetitions of the
  same race. Serial runs have one worker on purpose: they state what holds when requests do not
  overlap, and their violations under two workers are the races.
* **`TxnIds`: two to four rows.** A withdrawal needs a payment before it and the races need a second
  withdrawal. When all rows are used only requests on existing rows start.
* **Amounts**, in cents. A payment of 100 at the seeded fee of 3.50 % loses 3.5, a tie that rounds to 4. What is left, 96,
  covers two withdrawals of 48, or one of 72 and not a second, so a race can be short. `wallet_serial` adds a payment of
  300, whose fee of 10.5 is a tie that rounds down, with withdrawals of 96, the whole of the first payment, and 145, half of the second.
* **`MaxPayouts`** bounds accepted transfers: 2 is a withdrawal paid twice.
* **`MaxChanges`** bounds changes of scopes: 2 is a change and its reversal; versions are
  bounded by it. `Transactions` has both: the increment before the commit, and after.
* **`MaxDeliveries`, `MaxUpdates`, `MaxCrashes`, `MaxErrors`** bound the providers' and Twilio's patience, the
  staff, the deaths and the calls that raise. `order_races` has one death and two deliveries: with as many deaths
  as deliveries the provider gives up and nothing can be promised.
* **`inbound`** has one message sent twice, which is a redelivery beside its first: the second makes a conversation of its own
  or finds the first one's, with two processes at work in it and a handoff of each.
* **`booking`** has four appointments for one seat: two may pass the check together, a third may be revived,
  and the fourth is one that the code must refuse. Its clock stands still (`Horizon` 0), as no guard of booking reads
  it; `reminders` runs it to 2, past the moment the 24-hour reminder is due and into the batch's window.
* **`Horizon`, `Cycle`, `MaxRuns`, `MaxRequests`** of `billing`: three days with a cycle of one make two billing
  dates after the first, four due runs let two of them overlap on a day, two calls are a suspension and a reactivation.
* **Deadlock** is checked except where a cfg says otherwise and why: a run whose rows, deliveries
  or sessions are used up may stop. In `wallet_races` it is checked: no request hangs on a lock.
  The wallet's own row is only locked by the UPDATE at the end of a transaction that holds at
  most one Transaction row, always in that order, so these locks cannot form a cycle.
* **Symmetry** permutes workers, processes, rows, active users, customers or sessions, and is used only with
  invariants and `[][A]_v` properties, never in a liveness run.

Fairness is what the deployment gives and nothing more:

* `WalletService`: a running request is scheduled (`WF(Proceed)`) and PostgreSQL queues the waiters of
  a row, so one that is offered the lock again and again gets it (`SF(LockRow)`).
* `ScopeCache`: a running resolution goes on and a running change invalidates and commits, unless it fails; cached scopes, which have
  a time to live, expire. The version key need not.
* `OrderPayments`: a running request goes on (`WF(Proceed)`); the provider delivers each due event while
  it has deliveries left, and the delivery waits in the server's queue although other requests keep
  the workers busy (`SF`).
* `Appointments`: running requests and tasks go on, and beat starts `process_scheduled_messages` in some
  free process again and again.
* `Conversations`: a running task goes on or hits its time limit, and some free process takes a waiting task.
* `ConsentService`: a running call goes on, and the cached copy, which has a time to live, expires.

Nobody is ever forced to pay, call, update, write or take a conversation over, and deaths are not fair.
`Subscriptions` and `Campaigns` promise nothing that must happen: nothing in the code repeats a due run or
an execution that died.

## 7. The proofs

Each theorem is `Spec => []Inv` or `Spec => Property`, from an inductive invariant whose parts are named, one
step per action. The assumptions are the modules' own, which say that constants have their
sorts (`SortsAssumption`, `OrderAssumption`, `ScopeAssumption`, `PayoutAssumption`, `AppointmentsAssumption`,
`ConversationsAssumption`, `SubscriptionsAssumption`, `ConsentAssumption`: finite sets of actors, bounds in `Nat`, `None` outside
the sets it is added to) and, for money, `AmountsAssumption` (amounts and the minimum are natural
numbers, `FeePercent` is what a decimal of five digits holds, from -999.99 % to 999.99 %). Every one of these modules but
`WithdrawalService` has its `TypeCorrect`; there it is `PayoutTypeCorrect`. `Campaigns` has `CampaignsAssumption`
likewise. `OneWorker`, where a theorem assumes it, says that there is one worker: what is proved then is what holds
when requests do not overlap, and section 8 has what overlapping ones do.

`Wallet_proofs`, about `WalletService`, for any set of workers, users, rows and amounts:

* `TypeCorrect`. `TypeInv` adds `NamesItsRow`, a request that runs names a row. Without it the commit step
  could write a row that does not exist.
* `NeverOverdrawn`, with `FeeIsNoMoreThanPaid` (at most 100 %, which nothing in the code ensures, and above which a
  payment is a debit nobody compared with the balance): `NonNegativeBalance`. Inductive invariant `MoneyInv`: no row has a negative
  amount, and a request that will subtract has seen a balance that covers it (`Solvent`). The
  write is absolute, so what it leaves is the balance *seen* less the amount, whatever the others did meanwhile: this is
  why the balance stays non-negative although withdrawals race, and why `NoDoubleSpending` does not hold.
* `LastAuditIsBalance`: `BalanceIsLastAudit`, because balance and audit row commit together.
* `SettledStaysSettled`: `SettledIsFinal`, for every method, `fail_payment_transaction` among them: it alone may end a settled
  withdrawal, and only as written off. `RowInv`: a request in its locked
  phase holds the row's lock and has the row's present contents, and no two requests hold one.
* `CreditedBackIffFailed`: `CreditBackIffFailed`: one debit on record, and a later credit iff `fail_withdrawal` failed the row, whatever
  `fail_payment_transaction` wrote off before or meanwhile. `TrailInv` adds that a row that is absent has no audit
  record. That a withdrawal is not credited back twice is `RowInv` again: the
  second `fail_withdrawal` gets the lock after the first has committed, and sees the status it left.
* `SerialTrailIsUnbroken`, with `OneWorker`: `AuditTrailIsUnbroken`. `FreshInv`: a request that will write
  the balance has seen the present one. With two workers it has not, and the trail has gaps.
* `OneAtATimeIsAnAccount`, with `OneWorker`: `ImplementsLedger`, the refinement of the account book. `Book` maps a row to its
  entry; `IntentInv` (`Intends`) says what a request past its checks is about to do and that the book permits it (the amount was asked
  for and is covered, the entry it settles or returns is open, the entry it writes off was not returned); `LedgerStep` shows that each commit is one step of
  `Ledger` in full and every other step a stutter. It is a step simulation, so no sum over the rows is needed.
* `FeeWithinPayment` (a lemma), with the one on rounding half to even: 0 <= fee <= payment for every percentage from
  0 to 100, its two decimals included. Percentages outside are storable, and there it does not hold.

`Wallet_proofs`, about `WithdrawalService`, for every fault of the provider, any amounts and any bounds:

* `PayoutsTakeFourEyes`: `FourEyesOnPayouts`. The view relies on what it read without a lock: that is
  safe because a row's kind, initiator and net amount never change after the insert. `RequestInv` says so: a request that inserts
  names a row that is absent and that nobody else names, so no insert overwrites a row a view has read;
  every other request names a row that exists; a request past the provider's answer has its transfer in `payouts`.
* `ApprovalsPay`: `ApprovedIsPaid`, where `WalletService.approve_withdrawal`, which records an approver without paying and
  which no route reaches, is not among the operations.
* `PaidWhenCompleted`, with `OneWorker`: `PaidExactlyWhenCompleted`, where the provider answers and nothing dies
  (`ProviderAnswers`) and only the provider's acceptance completes a withdrawal (`ProviderPays`: `debit_wallet`, `approve_withdrawal` and
  `complete_withdrawal` are not called). `OnceInv`: a request's row is still as it read it (`Fresh`), and a
  row that was not written off has exactly one transfer if it is completed or its request is between the transfer and the commit, else none (`OnePayout`).
  Each hypothesis is needed: a timeout or a death there leaves a withdrawal paid and pending, and two overlapping approvals pay
  twice (section 8).

`OrderPayments_proofs`:

* `TypeCorrect`. `TypeInv` adds `SessionInv`: a request that settles a session settles one that was paid, a
  session being opened belongs to one request. `TypeOK` itself says that only events of paid
  sessions are due, which is not inductive without it.
* `PaidIsCredited`: under `WebhooksOnly` (no staff update, no change of tier), for any
  `Signed` sessions, `PaidOrderIsCredited`.
  `CreditInv`: a webhook past its first step was preceded by a credit. The
  hypothesis is needed: a tier that changes or staff that set the status break the property.
* `PaidIsConfirmed`: `PaidOrderIsConfirmed`, whoever makes the order paid and however the saves overlap. `ConfirmInv`:
  while nothing has been confirmed and nobody has died, whoever knows the order as paid (the row, or a request whose
  `pre_save` read it) knows of a request that made it paid, read another status before, and is on its
  way to its `post_save`.
* `PaidStaysPaid`, with `OneWorker`: `PaidIsNotUndone`. `SerialInv`: what the one request holds of the order is what the
  order says, and what it is about to write may follow that.
* `ConfirmedAtMostOnce`, with `OneWorker` and no staff updates: `ConfirmedOnce`. `OnceInv`: what was confirmed is paid, and
  a request that is to confirm found it unpaid. Staff may cancel a paid order, and a payment makes it paid, and confirmed,
  again.

`ScopeCache_proofs`:

* `OldScopesStayHidden`: `OldScopesAreNotServed`, with one administrator at a time and a version key that is there at
  first, whether the rows are committed before the increment or after it. `VersionInv` counts: no version exceeds the first
  one plus the changes that are past their increment. `FreshInv`, until the key lapses: no version a resolution runs under is
  above the present one, and an increment will not set it back (`VersionsInv`); resolutions under one version may answer from
  the same moments (`MomentsInv`); what is cached under a version lies between what was held at some of these moments and at
  all of them (`EntriesInv`), and so does what the queries of a resolution have collected, but for the overrides still to be
  read (`QueriesInv`). The parts are needed together: an entry is right because the resolution that wrote it was, and the
  other way round. The moments are counted from the increment and not from the commit: with a transaction the scopes from
  before the change may be served after it, which is `InvalidationIsSeen` of section 8.

`Appointments_proofs`:

* `SlotStaysBounded`: `OverbookingIsBounded`. `BookingInv` counts active appointments together with the
  requests that have passed the capacity check and not yet committed: those are at most one per worker, and the last
  one to check saw all the others' commits.
* `DeliveredPerProcess`: `DeliveriesAreBounded`. `DeliveryInv`: a reminder that is still pending went out only where a
  death took its transaction back or the transaction is open, and its deliveries together with the tasks that
  have it still to send are at most the processes plus the deaths. `InOrder`, that the rows of an appointment and
  kind are used one after the other, says that a reminder scheduled anew is a row nobody has.
* `SentIsDelivered`: `SentWasDelivered`; a task about to mark a row as sent has sent it (`TaskInv`).
* `CanceledStaysQuiet`, with `OneWorker`: `CanceledIsQuiet`. `CanceledInv`: while nobody has died, a canceled
  appointment has a pending reminder only if the one request there is has canceled it and has its second UPDATE still to make;
  `FreshRequest` says that what a request holds of the row is what the row says. Tasks that send at the same time do no harm:
  they only take reminders out of `pending`.

`Conversations_proofs`:

* `HandoffIsQuiet`: `TakenOverIsQuiet`. `RowsInv`: every delivery has a row of its own, and a conversation named for it is
  not there before its webhook commits. `QuietInv`: a conversation taken over and never given back by a stale save says
  handoff, and its late replies together with the tasks that still believe it is the bot's are at most the processes times
  the handoffs. Conversations in `undone` are excepted because of `HandoffIsKept`, section 8.
* `RepliesStayBounded`: `RepliesAreBounded`. `Budget` counts, per message, what has been replied, the deliveries
  that wait in the queue, the webhooks and tasks that owe a reply, and the delivery Twilio may still make: together at most one more
  than the time-outs and the deaths, and with the notices at most the deliveries and the deaths. A death lets Twilio or the
  broker repeat, and costs the budget the one it adds; while Twilio waits for one webhook of a message it sends no other, so
  that only a time-out or a death allows a second.

`Subscriptions_proofs`:

* `ChargedPerRun`, `ChargedIsRecorded`, `DiscountStaysBounded`: each counts the tasks between the effect and its
  record. `ChargeInv`: charges, waiting tasks and tasks before their charge are at most the due runs plus
  the deaths; `RecordInv` and `DiscountInv` likewise.
* `TenantIsKept`: `TenantFollowsSubscription`; `FollowInv` says how far tenant and subscription are apart at
  each statement of each operation.
* `OnlyMissedDatesPass`: `PassedDatesWereMissed`, for any schedule of the due run. `CalledInv`: only a creation is under way where
  there is no subscription. `BilledInv`: on its date a subscription is waited for by a run that is to come, by a task that waits or is
  at work, or by nobody on a day already missed.

`ConsentService_proofs`:

* `SentWasGiven`: `ConsentWasGiven`; the cached copy and every copy a call holds were committed once
  (`CopiesWereGiven`), however stale.
* `SerialCallsAreKept`: `SerialConsentIsKept`; `SerialInv` says what row, event, cache and the call hold while
  calls have not overlapped.

`Campaigns_proofs`, for any number of customers, conversations and requests:

* `TypeCorrect`. `CustomerInv`: an execution is at one customer at most, and at none it has done with.
* `SendsStayBounded`: `SendsAreBounded`. `ComingInv`: once the campaign has left the status it may be executed in, only those
  that read it before still come; the sends of a customer and the workers that may still send to it are at most the workers.
* `DeliveriesStayCounted`: `DeliveriesAreCounted`. The sum over the customers is the cardinality of the set of sends, so that one
  send adds one element and no induction is needed; `CountInv` counts besides who is between a send and its counter.
* `CustomersCountedOnce`, with `OneWorker`: `CountsCustomers`. `TargetInv`: nobody is counted while the campaign may be
  executed, and afterwards those counted and those left are together at most all.
* `EveryRecipientIsListed`, with `OneWorker`: `VariantsAreListed`. `ListInv`: the one request's copy of the list is the
  list, and who was sent to is in it or at the request.

The last theorems of `WithdrawalService`, `OrderPayments` and `Campaigns` are about properties that do not hold in general
(section 8): they say under which conditions they do, above all that requests do not overlap.

Every safety property of the runs, and the refinement, is stated by a theorem. Only model-checked are the liveness properties
(`StalenessEnds`, `PaymentIsCredited`, `PaymentMarksPaid`, `DueRemindersEnd`, `QueuedIsDealtWith`, `StaleEnds`, `RequestsEnd`), which
rest on fairness and are out of the prover's reach, and `WalletPaysTheCompleted`, which compares the balance with a sum over
the rows of a recursive definition.

## 8. What the code does differently from what it says

Each line is a behaviour TLC finds, violating a property that a document, comment or test
states; the quoted statement stands over the property. The configuration is `MC<module>_divergences.cfg`; TLC
stops at the first property it violates, so take its name out to see the next.

| module | property | what happens |
|---|---|---|
| `WalletService` | `NoDoubleSpending` | two overlapping withdrawals are granted against one balance |
| | `OnlyPaymentsAreWrittenOff` | `fail_payment_transaction` fails a withdrawal, pending or settled, and gives nothing back |
| `WithdrawalService` | `PaidAtMostOnce` | two overlapping approvals pay one withdrawal twice |
| | `FailureIsRecorded` | the status failed is rolled back by the exception that reports it |
| | `BouncedIsFailed` | a transfer that fails later is only logged and stays completed |
| | `ChangesAreAudited` | the debit of `WithdrawalService.approve_withdrawal` has no audit row |
| | `DebitedWhenCreated` | `initiate_withdrawal` takes nothing from the wallet |
| | `ApprovalsSucceed` | the reachable approval cannot pay what the reachable request creates |
| `ScopeCache` | `RemovedRoleGivesNothing` | a removed (soft deleted) role still gives its scopes |
| | `InvalidationIsSeen` | the version is incremented before the commit, so a reader in between caches the old scopes under the new version, and they are served after the commit |
| | `OldScopesAreNeverServed` | overlapping increments set the version back to one whose scopes are cached; so does its expiry |
| `OrderPayments` | `CreditedOnce` | a processed payment is answered 500, delivered again, credited again |
| | `ConfirmedOnce` | overlapping deliveries both read the old status and both confirm |
| | `DeathLosesNoConfirmation` | a death after the UPDATE loses the confirmation for good |
| | `TerminalIsFinal`, `PaidIsNotUndone` | a late payment makes a canceled order paid; a stale staff update overwrites paid |
| | `PaymentIsCredited` | a signature is verified over the re-serialised body and never fits |
| | `PaidOrderIsCredited` | a payment after a downgrade is recorded nowhere |
| `Appointments` | `ConfirmedIsTold` | the confirmation is queued before the commit, does not find the row and gives up |
| | `RemindedOnce` | the scheduled reminder and two to four runs of the batch each send it |
| | `CanceledIsQuiet` | an overlapping update schedules reminders after the cancellation cleared them |
| `Conversations` | `CustomersAreUnique` | every ciphertext is new, so every message makes another customer and conversation |
| | `EscalatedIsHandedOff` | escalating sets attributes that are no fields and leaves the status bot |
| | `HandoffIsKept` | a task that escalates writes the status it read back over the handoff, and the bot goes on |
| | `QueuedIsFinished` | a message is lost with the child process that worked at it |
| `Subscriptions` | `UpgradeMakesWallet` | `handle_tier_upgrade` never makes a wallet |
| | `DowngradeFindsNoMoney` | nothing holds the balance at zero between its check and the change |
| | `TiersAgree` | overlapping operations leave tenant and subscription different |
| | `DiscountIsLimited` | two bills are granted the last use of a discount |
| | `ActiveHasNextBilling` | a subscription whose date passed, suspended on it or on a day without a run, is never billed again |
| `ConsentService` | `ConsentIsKept`, `ChangesAreLogged` | a whole row saved from a stale object takes an opt-out back, with no event |
| | `ConsentIsHeeded` | the copy is deleted before the commit, so a reader caches what is about to change |
| `Campaigns` | `CountsCustomers` | two executions count and send everything twice |
| | `VariantsAreListed` | the later of two saves of the metadata drops the other's |

`NonNegativeBalance` holds *because* of the lost update that `NoDoubleSpending` refutes, and
`ConfirmedOnce`, `PaidIsNotUndone`, `CountsCustomers`, `VariantsAreListed` and, where the provider answers,
`PaidExactlyWhenCompleted` hold for one request at a time: section 7 has the theorems.

From a cold cache (`FirstVersion = 0`) a resolution that found no key may set it to 1 over a version an
invalidation has just written; `scope_coherent` starts from a key that is there, and lets it expire.

Met on the way, and not properties: the outbox's daily limit is never enforced, for the count reads
`cache._cache`, which django_redis does not have, and the `AttributeError` is swallowed; a discount's
`usage_limit` of 0 means no limit; subscriptions that are waived are billed (`requirements.md:425` says they are not);
`process_due_subscriptions` is not in the beat schedule; nothing releases a handoff; `max_campaign_sends` is
not enforced; a campaign whose execution dies is `sending` for ever.

## 9. What is not modelled

* **M-Pesa checkouts.** `settings` has no `CALLBACK_URL`, so `payment_service.py:389` raises and the
  customer gets a stub link; the callback view has no route. The lookup by `payment_ref` is
  therefore not reached. `process_successful_payment` does not compare the amount paid with
  the order's total. The shipment notification repeats the confirmation's protocol.
* **Finding free slots**, services, variants and windows, a PUT that moves an appointment to another slot (two slots,
  each of which behaves as the one modelled), and quiet hours, which only move a reminder's time.
* **Feedback buttons and status callbacks** of messages, and the paths of a conversation that is open, closed or
  dormant, into which nothing leads.
* **A charge that fails**: the stub that charges cannot. Free trials, billing reminders and feature limits only read.
* **The creation of a preferences row**, `opt_out_all` and `opt_in_all`, which nothing calls; `create_campaign` and
  `calculate_reach`, which check and count; reports, clicks, reads and conversions.
* **The outbox**: `send_message` is a check of consent, a call of Twilio and an insert, and is part of the tasks that send.
* **Authentication, registration, onboarding, settings**: one row at a time, about secrets and forms.
* **Catalog synchronisation, analytics, the bot's language pipeline, the provider clients**: the state
  that matters is outside the repository, or there is no protocol to check. The bot's journeys call the database inside
  `asyncio.run`, where Django raises `SynchronousOnlyOperation`, which each node takes for a tool that failed.

The map covers a small share of the repository's lines because most of them are
serializers, CRUD views, forms for settings, prompts and language-model nodes, HTTP clients, reports and management
commands: they hold no state that two actors change, and a model of them would
restate them line by line. Where two actors do meet, on money, access, orders, bookings, conversations,
subscriptions, consent and campaigns, the modules contain the operations that change the state, apart from
those listed above.

## 10. What is left

* Conservation of money over both withdrawal services at once: `cancel_withdrawal` of a row of
  `request_withdrawal` and `fail_withdrawal` of a row of `initiate_withdrawal` are actions, but it is
  stated only for one request at a time (`MCWithdrawalService_serial.cfg`).
* `NoDoubleSpending` and `WalletPaysTheCompleted` one request at a time, as theorems: both are about sums over rows.
* The serial forms of the other properties of section 8.
* The outbox's daily limit, once the code enforces one.
