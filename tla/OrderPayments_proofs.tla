-------------------------- MODULE OrderPayments_proofs --------------------------
(***************************************************************************)
(* What holds of an order for any number of workers, sessions, deliveries  *)
(* and deaths.                                                             *)
(***************************************************************************)
EXTENDS OrderPaymentsProps, TLAPS

(* A request knows its session.  A session that is being opened belongs to *)
(* one request and is not yet known to the customer; one that is being     *)
(* settled has been paid, so what the provider delivers again was paid.    *)
SessionInv ==
    /\ \A w \in Workers :
        /\ ctx[w].at \in {"found", "answer"} => ctx[w].op = "webhook"
        /\ ctx[w].op = "checkout" =>
             ctx[w].checkout \in Checkouts /\ checkouts[ctx[w].checkout] = "none"
        /\ ctx[w].op = "webhook" =>
             ctx[w].checkout \in Checkouts /\ checkouts[ctx[w].checkout] = "paid"
    /\ \A w, v \in Workers :
        ctx[w].op = "checkout" /\ ctx[v].op = "checkout" /\ ctx[v].checkout = ctx[w].checkout
          => v = w

TypeInv == TypeOK /\ SessionInv

LEMMA NoRequestType == NoRequest \in Request /\ NoRequest.op = "none" /\ NoRequest.at = "idle"
BY DEF NoRequest, Request, Statuses

LEMMA TypeInit == Init => TypeInv
<1> SUFFICES ASSUME Init PROVE TypeInv
  OBVIOUS
<1> USE DEF Init
<1>1. TypeOK
  BY NoRequestType, OrderAssumption DEF TypeOK, Statuses
<1>2. SessionInv
  BY NoRequestType DEF SessionInv, NoRequest
<1> QED BY <1>1, <1>2 DEF TypeInv

(* How the sessions stay known: what changes in the request of one worker, *)
(* in the states of the sessions and in what is due.                       *)
LEMMA BeginType ==
    ASSUME TypeInv, NEW w \in Workers, Idle(w), UNCHANGED checkouts,
           NEW op \in {"checkout", "webhook", "failure"}, NEW at \in {"found", "save"},
           NEW c \in Checkouts, NEW new \in Statuses, Begin(w, op, at, c, new),
           at = "found" => op = "webhook",
           op = "webhook" => checkouts[c] = "paid",
           op = "checkout" => checkouts[c] = "none" /\ \A v \in Workers : ctx[v].checkout # c
    PROVE  ctx' \in [Workers -> Request] /\ SessionInv'
<1> USE DEF TypeInv, TypeOK
<1> DEFINE r == [NoRequest EXCEPT !.op = op, !.at = at, !.checkout = c, !.status = new]
<1>1. r \in Request /\ r.op = op /\ r.at = at /\ r.checkout = c
  BY DEF NoRequest, Request, Statuses
<1>2. ctx' = [ctx EXCEPT ![w] = r]
  BY DEF Begin
<1> HIDE DEF r
<1>3. ctx' \in [Workers -> Request]
  BY <1>1, <1>2
<1>4. \A v \in Workers : v # w => ctx'[v] = ctx[v]
  BY <1>2
<1>5. ctx'[w] = r
  BY <1>2
<1>6. SessionInv'
  BY <1>1, <1>4, <1>5 DEF SessionInv
<1> QED BY <1>3, <1>6

LEMMA AdvanceType ==
    ASSUME TypeInv, NEW w \in Workers, UNCHANGED checkouts, NEW r \in Request,
           ctx' = [ctx EXCEPT ![w] = r],
           r.op \in {"update", "update_stamped", "stamp", "none"} \/ (r.op = ctx[w].op /\ r.checkout = ctx[w].checkout),
           r.at \in {"found", "answer"} => r.op = "webhook"
    PROVE  ctx' \in [Workers -> Request] /\ SessionInv'
<1> USE DEF TypeInv, TypeOK
<1>1. ctx' \in [Workers -> Request]
  OBVIOUS
<1>2. \A v \in Workers : v # w => ctx'[v] = ctx[v]
  OBVIOUS
<1>3. ctx'[w] = r
  OBVIOUS
<1>4. SessionInv'
  BY <1>2, <1>3 DEF SessionInv
<1> QED BY <1>1, <1>4

LEMMA CallType ==
    ASSUME TypeInv, NEW w \in Workers,
           generate_checkout_link(w) \/ update_order(w) \/ process_payment_webhook(w)
             \/ process_failed_payment(w) \/ refuse_signature(w)
    PROVE  TypeInv'
<1> USE DEF TypeInv, TypeOK
<1>1. CASE generate_checkout_link(w)
  <2>1. PICK c \in Checkouts : /\ checkouts[c] = "none"
                              /\ \A v \in Workers : ctx[v].checkout # c
                              /\ Begin(w, "checkout", "save", c, status)
    BY <1>1 DEF generate_checkout_link
  <2>2. ctx' \in [Workers -> Request] /\ SessionInv'
    BY <1>1, <2>1, BeginType DEF generate_checkout_link, provider, tables
  <2> QED BY <1>1, <2>2 DEF generate_checkout_link, tables, provider, bounds
<1>2. CASE update_order(w)
  <2>1. PICK new \in {status} \cup valid_transitions[status], op \in {"update", "update_stamped"} :
          Begin(w, op, "save", None, new)
    BY <1>2 DEF update_order
  <2>2. new \in Statuses
    BY DEF Statuses, valid_transitions
  <2> DEFINE r == [NoRequest EXCEPT !.op = op, !.at = "save", !.checkout = None, !.status = new]
  <2>3. r \in Request /\ r.op \in {"update", "update_stamped"} /\ r.at = "save"
    BY <2>2 DEF NoRequest, Request, Statuses
  <2>4. ctx' = [ctx EXCEPT ![w] = r]
    BY <2>1 DEF Begin
  <2> HIDE DEF r
  <2>5. ctx' \in [Workers -> Request] /\ SessionInv'
    BY <1>2, <2>3, <2>4, AdvanceType DEF update_order, provider
  <2>6. updates' \in 0..MaxUpdates
    BY <1>2, OrderAssumption DEF update_order
  <2> QED BY <1>2, <2>5, <2>6 DEF update_order, tables, provider
<1>3. CASE process_payment_webhook(w)
  <2>1. PICK c \in due \ Signed : /\ deliveries[c] < MaxDeliveries
                         /\ deliveries' = [deliveries EXCEPT ![c] = @ + 1]
                         /\ due' = due \ {c}
                         /\ Begin(w, "webhook", "found", c, status)
    BY <1>3 DEF process_payment_webhook
  <2>2. c \in Checkouts /\ checkouts[c] = "paid"
    OBVIOUS
  <2>3. ctx' \in [Workers -> Request] /\ SessionInv'
    BY <1>3, <2>1, <2>2, BeginType DEF process_payment_webhook, provider, tables
  <2>4. deliveries' \in [Checkouts -> 0..MaxDeliveries]
    BY <2>1, <2>2, OrderAssumption
  <2> QED BY <1>3, <2>1, <2>3, <2>4 DEF process_payment_webhook, tables, bounds
<1>4. CASE process_failed_payment(w)
  <2>1. PICK c \in Checkouts : Begin(w, "failure", "save", c, status)
    BY <1>4 DEF process_failed_payment
  <2>2. ctx' \in [Workers -> Request] /\ SessionInv'
    BY <1>4, <2>1, BeginType DEF process_failed_payment, provider, tables
  <2> QED BY <1>4, <2>2 DEF process_failed_payment, tables, provider, bounds
<1>5. CASE refuse_signature(w)
  <2>1. deliveries' \in [Checkouts -> 0..MaxDeliveries]
    BY <1>5, OrderAssumption DEF refuse_signature
  <2>2. SessionInv'
    BY <1>5 DEF refuse_signature, SessionInv
  <2> QED BY <1>5, <2>1, <2>2 DEF refuse_signature, tables, bounds
<1> QED BY <1>1, <1>2, <1>3, <1>4, <1>5

LEMMA ProceedType == ASSUME TypeInv, NEW w \in Workers, Proceed(w) PROVE TypeInv'
<1> USE DEF TypeInv, TypeOK
<1>1. CASE process_successful_payment(w)
  <2> DEFINE r == [ctx[w] EXCEPT !.at = "save", !.status = "paid"]
  <2>1. r \in Request /\ r.op = ctx[w].op /\ r.checkout = ctx[w].checkout /\ r.at = "save"
    BY DEF Request, Statuses
  <2>2. ctx' = [ctx EXCEPT ![w] = r]
    BY <1>1 DEF process_successful_payment
  <2> HIDE DEF r
  <2>3. ctx' \in [Workers -> Request] /\ SessionInv'
    BY <1>1, <2>1, <2>2, AdvanceType DEF process_successful_payment, provider
  <2>4. credits' = [credits EXCEPT ![ctx[w].checkout] = @ + 1] \/ credits' = credits
    BY <1>1, Zenon DEF process_successful_payment
  <2>5. credits' \in [Checkouts -> Nat]
    BY <2>4
  <2>6. UNCHANGED <<status, facilitation, provider, confirmations, bounds>>
    BY <1>1, Zenon DEF process_successful_payment
  <2> QED BY <2>3, <2>5, <2>6 DEF provider, bounds
<1>2. CASE pre_save(w)
  <2> DEFINE r == [ctx[w] EXCEPT !.at = "update", !.previous = status]
  <2>1. r \in Request /\ r.op = ctx[w].op /\ r.checkout = ctx[w].checkout /\ r.at = "update"
    BY DEF Request
  <2>2. ctx' = [ctx EXCEPT ![w] = r]
    BY <1>2 DEF pre_save
  <2> HIDE DEF r
  <2>3. ctx' \in [Workers -> Request] /\ SessionInv'
    BY <1>2, <2>1, <2>2, AdvanceType DEF pre_save, provider
  <2> QED BY <1>2, <2>3 DEF pre_save, tables, provider, bounds
<1>3. CASE save(w)
  <2> DEFINE r == [ctx[w] EXCEPT !.at = "post_save"]
  <2>1. r \in Request /\ r.op = ctx[w].op /\ r.checkout = ctx[w].checkout /\ r.at = "post_save"
    BY DEF Request
  <2>2. ctx' = [ctx EXCEPT ![w] = r]
    BY <1>3 DEF save
  <2> HIDE DEF r
  <2>3. ctx' \in [Workers -> Request] /\ SessionInv'
    BY <1>3, <2>1, <2>2, AdvanceType DEF save, provider
  <2>4. status' \in Statuses
    BY <1>3 DEF save, Request
  <2> QED BY <1>3, <2>3, <2>4 DEF save, provider, bounds
<1>4. CASE send_order_transactional_messages(w)
  <2>1. confirmations' \in Nat
    BY <1>4 DEF send_order_transactional_messages
  <2>2. UNCHANGED <<tables, facilitation, due, deliveries, bounds>> /\ AfterSave(w)
    BY <1>4 DEF send_order_transactional_messages
  <2>3. CASE ctx[w].op = "webhook"
    <3> DEFINE r == [ctx[w] EXCEPT !.at = "answer"]
    <3>1. r \in Request /\ r.op = "webhook" /\ r.checkout = ctx[w].checkout
      BY <2>3 DEF Request
    <3>2. ctx' = [ctx EXCEPT ![w] = r] /\ UNCHANGED checkouts
      BY <2>2, <2>3 DEF AfterSave
    <3> HIDE DEF r
    <3>3. ctx' \in [Workers -> Request] /\ SessionInv'
      BY <2>3, <3>1, <3>2, AdvanceType
    <3> QED BY <2>1, <2>2, <3>2, <3>3 DEF tables, bounds
  <2>4. CASE ctx[w].op = "update_stamped"
    <3> DEFINE r == [ctx[w] EXCEPT !.op = "stamp", !.at = "save"]
    <3>1. r \in Request /\ r.op = "stamp" /\ r.at = "save"
      BY <2>4 DEF Request
    <3>2. ctx' = [ctx EXCEPT ![w] = r] /\ UNCHANGED checkouts
      BY <2>2, <2>4 DEF AfterSave
    <3> HIDE DEF r
    <3>3. ctx' \in [Workers -> Request] /\ SessionInv'
      BY <3>1, <3>2, AdvanceType
    <3> QED BY <2>1, <2>2, <3>2, <3>3 DEF tables, bounds
  <2>5. CASE ctx[w].op \in {"failure", "update", "stamp"}
    <3>1. ctx' = [ctx EXCEPT ![w] = NoRequest] /\ UNCHANGED checkouts
      BY <2>2, <2>5 DEF AfterSave
    <3>2. ctx' \in [Workers -> Request] /\ SessionInv'
      BY <3>1, NoRequestType, AdvanceType
    <3> QED BY <2>1, <2>2, <3>1, <3>2 DEF tables, bounds
  <2>6. CASE ctx[w].op = "checkout"
    <3> DEFINE c == ctx[w].checkout
    <3>1. c \in Checkouts /\ checkouts[c] = "none"
      BY <2>6 DEF SessionInv
    <3>2. ctx' = [ctx EXCEPT ![w] = NoRequest] /\ checkouts' = [checkouts EXCEPT ![c] = "open"]
      BY <2>2, <2>6 DEF AfterSave
    <3>3. \A v \in Workers : v # w /\ ctx[v].op = "checkout" => ctx[v].checkout # c
      BY <2>6 DEF SessionInv
    <3>4. ctx' \in [Workers -> Request] /\ ctx'[w] = NoRequest
          /\ \A v \in Workers : v # w => ctx'[v] = ctx[v]
      BY <3>2, NoRequestType
    <3>5. SessionInv'
      BY <3>1, <3>2, <3>3, <3>4, NoRequestType DEF SessionInv
    <3>6. due' \subseteq {d \in Checkouts : checkouts'[d] = "paid"}
      BY <2>2, <3>1, <3>2
    <3>7. checkouts' \in [Checkouts -> {"none", "open", "paid"}]
      BY <3>1, <3>2
    <3> QED BY <2>1, <2>2, <3>4, <3>5, <3>6, <3>7 DEF tables, bounds
  <2> QED BY <2>2, <2>3, <2>4, <2>5, <2>6 DEF AfterSave
<1>5. CASE answer(w)
  <2>1. ctx[w].checkout \in Checkouts /\ checkouts[ctx[w].checkout] = "paid"
    BY <1>5 DEF answer, SessionInv
  <2>2. ctx' \in [Workers -> Request] /\ SessionInv'
    BY <1>5, NoRequestType, AdvanceType DEF answer
  <2> QED BY <1>5, <2>1, <2>2 DEF answer, tables, bounds
<1> QED BY <1>1, <1>2, <1>3, <1>4, <1>5 DEF Proceed

LEMMA CrashType == ASSUME TypeInv, NEW w \in Workers, crash(w) PROVE TypeInv'
<1> USE DEF TypeInv, TypeOK
<1>1. ctx[w].op = "webhook" =>
        ctx[w].checkout \in Checkouts /\ checkouts[ctx[w].checkout] = "paid"
  BY DEF SessionInv
<1>2. due' \subseteq {d \in Checkouts : checkouts'[d] = "paid"}
  BY <1>1 DEF crash
<1>3. ctx' \in [Workers -> Request] /\ SessionInv'
  BY NoRequestType, AdvanceType DEF crash
<1>4. crashes' \in 0..MaxCrashes
  BY OrderAssumption DEF crash
<1> QED BY <1>2, <1>3, <1>4 DEF crash, tables

LEMMA ProviderType ==
    ASSUME TypeInv, NEW c \in Checkouts, pay(c) \/ redeliver(c) PROVE TypeInv'
<1> USE DEF TypeInv, TypeOK
<1>1. CASE pay(c)
  <2>1. SessionInv'
    BY <1>1 DEF pay, SessionInv
  <2> QED BY <1>1, <2>1 DEF pay, tables, bounds
<1>2. CASE redeliver(c)
  <2>1. SessionInv'
    BY <1>2 DEF redeliver, SessionInv
  <2> QED BY <1>2, <2>1 DEF redeliver, tables, bounds
<1> QED BY <1>1, <1>2

LEMMA TypeNext == TypeInv /\ [Next]_vars => TypeInv'
<1> SUFFICES ASSUME TypeInv, [Next]_vars PROVE TypeInv'
  OBVIOUS
<1>1. ASSUME NEW w \in Workers,
             generate_checkout_link(w) \/ update_order(w) \/ process_payment_webhook(w)
               \/ process_failed_payment(w) \/ refuse_signature(w)
      PROVE  TypeInv'
  BY <1>1, CallType
<1>2. ASSUME NEW w \in Workers, Proceed(w) PROVE TypeInv'
  BY <1>2, ProceedType
<1>3. ASSUME NEW w \in Workers, crash(w) PROVE TypeInv'
  BY <1>3, CrashType
<1>4. ASSUME NEW c \in Checkouts, pay(c) \/ redeliver(c) PROVE TypeInv'
  BY <1>4, ProviderType
<1>5. CASE change_tier
  BY <1>5 DEF change_tier, TypeInv, TypeOK, SessionInv, tables, provider, bounds
<1>6. CASE UNCHANGED vars
  BY <1>6 DEF vars, TypeInv, TypeOK, SessionInv, bounds
<1> QED BY <1>1, <1>2, <1>3, <1>4, <1>5, <1>6 DEF Next

(* An order, its sessions, its credits and the requests about it keep      *)
(* their types, and the provider only ever delivers events of sessions     *)
(* that were paid.                                                         *)
THEOREM TypeCorrect == Spec => []TypeOK
<1>1. TypeInv => TypeOK
  BY DEF TypeInv
<1> QED BY <1>1, TypeInit, TypeNext, PTL DEF Spec

-----------------------------------------------------------------------------
(* Only webhooks change the order, and the tenant keeps its tier.          *)
WebhooksOnly == Operations \cap {"update_order", "change_tier"} = {}

Credited == \E c \in Checkouts : credits[c] > 0

(* The credit comes before the save that says paid, so a request that is   *)
(* past it has been preceded by a credit wherever the others stand.        *)
CreditInv ==
    /\ facilitation = TRUE
    /\ \A w \in Workers :
        /\ ctx[w].op \notin {"update", "update_stamped"}
        /\ ctx[w].op = "webhook" /\ ctx[w].at \in {"save", "update"} => Credited
    /\ PaidOrderIsCredited

LEMMA CreditInit == Init => CreditInv
<1> SUFFICES ASSUME Init PROVE CreditInv
  OBVIOUS
<1>1. \A w \in Workers : ctx[w] = NoRequest
  BY DEF Init
<1> QED BY <1>1, NoRequestType DEF Init, CreditInv, PaidOrderIsCredited

(* A step that credits nothing, leaves the status alone and moves one      *)
(* request that is not about to write paid.                                *)
LEMMA CreditKept ==
    ASSUME TypeInv, CreditInv, NEW w \in Workers,
           UNCHANGED <<status, facilitation, credits>>,
           \A v \in Workers : v # w => ctx'[v] = ctx[v],
           ctx'[w].op \notin {"update", "update_stamped"},
           ctx'[w].op = "webhook" /\ ctx'[w].at \in {"save", "update"} => Credited
    PROVE  CreditInv'
<1>1. Credited' <=> Credited
  BY DEF Credited
<1>2. PaidOrderIsCredited'
  BY DEF CreditInv, PaidOrderIsCredited
<1> QED BY <1>1, <1>2 DEF CreditInv

LEMMA CallCredit ==
    ASSUME WebhooksOnly, TypeInv, CreditInv, NEW w \in Workers,
           generate_checkout_link(w) \/ update_order(w) \/ process_payment_webhook(w)
             \/ process_failed_payment(w) \/ refuse_signature(w)
    PROVE  CreditInv'
<1> USE DEF TypeInv, TypeOK
<1>1. ASSUME NEW op \in {"checkout", "webhook", "failure"}, NEW at \in {"found", "save"},
             NEW c \in Checkouts, Begin(w, op, at, c, status),
             UNCHANGED <<status, facilitation, credits>>,
             op = "webhook" => at = "found"
      PROVE  CreditInv'
  <2>1. ctx'[w].op = op /\ ctx'[w].at = at /\ \A v \in Workers : v # w => ctx'[v] = ctx[v]
    BY <1>1 DEF Begin, NoRequest
  <2> QED BY <1>1, <2>1, CreditKept
<1>2. CASE generate_checkout_link(w)
  <2>1. PICK c \in Checkouts : Begin(w, "checkout", "save", c, status)
    BY <1>2 DEF generate_checkout_link
  <2>2. UNCHANGED <<status, facilitation, credits>>
    BY <1>2 DEF generate_checkout_link, tables
  <2> QED BY <1>1, <2>1, <2>2
<1>3. CASE process_payment_webhook(w)
  <2>1. PICK c \in Checkouts : Begin(w, "webhook", "found", c, status)
    BY <1>3 DEF process_payment_webhook
  <2>2. UNCHANGED <<status, facilitation, credits>>
    BY <1>3 DEF process_payment_webhook, tables
  <2> QED BY <1>1, <2>1, <2>2
<1>4. CASE process_failed_payment(w)
  <2>1. PICK c \in Checkouts : Begin(w, "failure", "save", c, status)
    BY <1>4 DEF process_failed_payment
  <2>2. UNCHANGED <<status, facilitation, credits>>
    BY <1>4 DEF process_failed_payment, tables
  <2> QED BY <1>1, <2>1, <2>2
<1>5. CASE refuse_signature(w)
  BY <1>5 DEF refuse_signature, tables, CreditInv, Credited, PaidOrderIsCredited
<1> QED BY <1>2, <1>3, <1>4, <1>5 DEF update_order, WebhooksOnly

LEMMA ProceedCredit ==
    ASSUME TypeInv, CreditInv, NEW w \in Workers, Proceed(w) PROVE CreditInv'
<1> USE DEF TypeInv, TypeOK
<1>1. CASE process_successful_payment(w)
  <2>1. ctx[w].op = "webhook" /\ ctx[w].checkout \in Checkouts
    BY <1>1 DEF process_successful_payment, SessionInv
  <2>2. credits' = [credits EXCEPT ![ctx[w].checkout] = @ + 1]
    BY <1>1 DEF process_successful_payment, CreditInv
  <2>3. credits'[ctx[w].checkout] > 0
    BY <2>1, <2>2
  <2>4. Credited' /\ PaidOrderIsCredited'
    BY <2>1, <2>3 DEF Credited, PaidOrderIsCredited
  <2>5. \A v \in Workers : ctx'[v].op = ctx[v].op
    BY <1>1 DEF process_successful_payment, Request
  <2>6. UNCHANGED facilitation
    BY <1>1 DEF process_successful_payment
  <2> QED BY <2>4, <2>5, <2>6 DEF CreditInv
<1>2. CASE pre_save(w)
  <2>1. /\ ctx'[w].op = ctx[w].op
        /\ \A v \in Workers : v # w => ctx'[v] = ctx[v]
    BY <1>2 DEF pre_save, Request
  <2>2. ctx[w].at = "save" /\ UNCHANGED <<status, facilitation, credits>>
    BY <1>2 DEF pre_save, tables
  <2> QED BY <2>1, <2>2, CreditKept DEF CreditInv
<1>3. CASE save(w)
  <2>1. /\ ctx'[w].op = ctx[w].op /\ ctx'[w].at = "post_save"
        /\ \A v \in Workers : v # w => ctx'[v] = ctx[v]
    BY <1>3 DEF save, Request
  <2>2. UNCHANGED <<facilitation, credits>> /\ ctx[w].at = "update"
    BY <1>3 DEF save
  <2>3. ctx[w].op = "webhook" => Credited
    BY <2>2 DEF CreditInv
  <2>4. ctx[w].op # "webhook" => UNCHANGED status
    BY <1>3 DEF save, WritesStatus, CreditInv
  <2>5. PaidOrderIsCredited' /\ (Credited' <=> Credited)
    BY <2>2, <2>3, <2>4 DEF CreditInv, Credited, PaidOrderIsCredited
  <2> QED BY <2>1, <2>2, <2>5 DEF CreditInv
<1>4. CASE send_order_transactional_messages(w)
  <2>1. UNCHANGED <<status, facilitation, credits>> /\ AfterSave(w)
    BY <1>4 DEF send_order_transactional_messages, tables
  <2>2. \A v \in Workers : v # w => ctx'[v] = ctx[v]
    BY <2>1 DEF AfterSave
  <2>3. /\ ctx'[w].op \in {"webhook", "stamp", "none"}
        /\ ctx'[w].op = "webhook" => ctx'[w].at = "answer"
    <3>1. CASE ctx[w].op = "webhook" /\ ctx' = [ctx EXCEPT ![w].at = "answer"]
      BY <3>1 DEF Request
    <3>2. CASE ctx' = [ctx EXCEPT ![w].op = "stamp", ![w].at = "save"]
      BY <3>2 DEF Request
    <3>3. CASE ctx' = [ctx EXCEPT ![w] = NoRequest]
      BY <3>3, NoRequestType
    <3> QED BY <2>1, <3>1, <3>2, <3>3 DEF AfterSave
  <2> QED BY <2>1, <2>2, <2>3, CreditKept
<1>5. CASE answer(w)
  <2>1. ctx'[w] = NoRequest /\ \A v \in Workers : v # w => ctx'[v] = ctx[v]
    BY <1>5 DEF answer
  <2> QED BY <1>5, <2>1, NoRequestType, CreditKept DEF answer, tables
<1> QED BY <1>1, <1>2, <1>3, <1>4, <1>5 DEF Proceed

LEMMA CreditNext ==
    ASSUME WebhooksOnly
    PROVE  TypeInv /\ CreditInv /\ [Next]_vars => CreditInv'
<1> SUFFICES ASSUME TypeInv, CreditInv, [Next]_vars PROVE CreditInv'
  OBVIOUS
<1>1. ASSUME NEW w \in Workers,
             generate_checkout_link(w) \/ update_order(w) \/ process_payment_webhook(w)
               \/ process_failed_payment(w) \/ refuse_signature(w)
      PROVE  CreditInv'
  BY <1>1, CallCredit
<1>2. ASSUME NEW w \in Workers, Proceed(w) PROVE CreditInv'
  BY <1>2, ProceedCredit
<1>3. ASSUME NEW w \in Workers, crash(w) PROVE CreditInv'
  <2>1. ctx'[w] = NoRequest /\ \A v \in Workers : v # w => ctx'[v] = ctx[v]
    BY <1>3 DEF crash, TypeInv, TypeOK
  <2>2. UNCHANGED <<status, facilitation, credits>>
    BY <1>3 DEF crash, tables
  <2> QED BY <2>1, <2>2, NoRequestType, CreditKept
<1>4. CASE UNCHANGED <<status, facilitation, credits, ctx>>
  BY <1>4 DEF CreditInv, Credited, PaidOrderIsCredited
<1>5. ASSUME NEW c \in Checkouts, pay(c) \/ redeliver(c) PROVE CreditInv'
  BY <1>4, <1>5 DEF pay, redeliver, tables
<1>6. CASE change_tier
  BY <1>6 DEF change_tier, WebhooksOnly
<1>7. CASE UNCHANGED vars
  BY <1>4, <1>7 DEF vars
<1> QED BY <1>1, <1>2, <1>3, <1>5, <1>6, <1>7 DEF Next

(* Where only webhooks change an order, it says paid only after one of its *)
(* payments was credited, whatever is delivered twice or dies.             *)
THEOREM PaidIsCredited == ASSUME WebhooksOnly PROVE Spec => []PaidOrderIsCredited
<1>1. TypeInv /\ CreditInv /\ [Next]_vars => (TypeInv /\ CreditInv)'
  BY TypeNext, CreditNext
<1>2. Init => TypeInv /\ CreditInv
  BY TypeInit, CreditInit
<1>3. CreditInv => PaidOrderIsCredited
  BY DEF CreditInv
<1> QED BY <1>1, <1>2, <1>3, PTL DEF Spec

-----------------------------------------------------------------------------
(* The confirmation of a paid order.                                       *)

(* A request that has made the order paid and is about to confirm it.      *)
Confirming(w) ==
    ctx[w].at = "post_save" /\ ctx[w].status = "paid" /\ ctx[w].previous # "paid"

(* Whoever reads that the order is paid reads it after the save of one     *)
(* that did not, and that one confirms it: while nothing is confirmed and  *)
(* nobody died, it is still about to.                                      *)
ConfirmInv ==
    crashes = 0 /\ confirmations = 0 =>
        \/ status # "paid" /\ \A w \in Workers : ctx[w].previous # "paid"
        \/ \E w \in Workers : Confirming(w)

LEMMA ConfirmInit == Init => ConfirmInv
BY DEF Init, ConfirmInv, NoRequest

(* A step that counts neither up keeps the request that confirms, or there *)
(* is none and it makes nothing paid, or the request that makes it paid is *)
(* the one that confirms.                                                  *)
LEMMA ConfirmKept ==
    ASSUME ConfirmInv, UNCHANGED <<crashes, confirmations>>, NEW w \in Workers,
           \A v \in Workers : v # w => ctx'[v] = ctx[v],
           ~ Confirming(w),
           \/ Confirming(w)'
           \/ /\ status' = "paid" => status = "paid" \/ ctx[w].previous = "paid"
              /\ ctx'[w].previous = "paid" => status = "paid" \/ ctx[w].previous = "paid"
    PROVE  ConfirmInv'
BY DEF ConfirmInv, Confirming

LEMMA CallConfirm ==
    ASSUME TypeInv, ConfirmInv, NEW w \in Workers,
           \/ generate_checkout_link(w) \/ update_order(w) \/ process_payment_webhook(w)
           \/ process_failed_payment(w)
    PROVE  ConfirmInv'
<1>1. /\ ctx \in [Workers -> Request] /\ ctx[w].at = "idle"
      /\ UNCHANGED <<status, crashes, confirmations>>
  BY DEF TypeInv, TypeOK, generate_checkout_link, update_order, process_payment_webhook,
         process_failed_payment, tables, bounds, Idle
<1>2. PICK op, at, c, new : Begin(w, op, at, c, new)
  BY DEF generate_checkout_link, update_order, process_payment_webhook, process_failed_payment
<1> DEFINE r == [NoRequest EXCEPT !.op = op, !.at = at, !.checkout = c, !.status = new]
<1>3. r.previous = "draft" /\ ctx' = [ctx EXCEPT ![w] = r]
  BY <1>2 DEF NoRequest, Begin
<1> HIDE DEF r
<1>4. ctx'[w].previous = "draft" /\ \A v \in Workers : v # w => ctx'[v] = ctx[v]
  BY <1>1, <1>3
<1> QED BY <1>1, <1>4, ConfirmKept DEF Confirming

LEMMA ProceedConfirm ==
    ASSUME TypeInv, ConfirmInv, NEW w \in Workers, Proceed(w)
    PROVE  ConfirmInv'
<1> USE DEF tables, bounds
<1>0. ctx \in [Workers -> Request] /\ ctx[w] \in Request /\ confirmations \in Nat
  BY DEF TypeInv, TypeOK
<1>1. CASE process_successful_payment(w)
  <2>1. /\ ctx[w].at = "found" /\ UNCHANGED <<status, crashes, confirmations>>
        /\ ctx'[w].previous = ctx[w].previous
        /\ \A v \in Workers : v # w => ctx'[v] = ctx[v]
    BY <1>0, <1>1 DEF process_successful_payment, Request
  <2> QED BY <2>1, ConfirmKept DEF Confirming
<1>2. CASE pre_save(w)
  <2>1. /\ ctx[w].at = "save" /\ UNCHANGED <<status, crashes, confirmations>>
        /\ ctx'[w].previous = status
        /\ \A v \in Workers : v # w => ctx'[v] = ctx[v]
    BY <1>0, <1>2 DEF pre_save, Request
  <2> QED BY <2>1, ConfirmKept DEF Confirming
<1>3. CASE save(w)
  <2>1. /\ ctx[w].at = "update" /\ UNCHANGED <<crashes, confirmations>>
        /\ status' = status \/ status' = ctx[w].status
        /\ ctx'[w].at = "post_save" /\ ctx'[w].status = ctx[w].status
        /\ ctx'[w].previous = ctx[w].previous
        /\ \A v \in Workers : v # w => ctx'[v] = ctx[v]
    BY <1>0, <1>3 DEF save, Request
  <2> QED BY <2>1, ConfirmKept DEF Confirming
<1>4. CASE send_order_transactional_messages(w)
  <2>1. /\ ctx[w].at = "post_save" /\ UNCHANGED <<status, crashes>>
        /\ confirmations' = IF Confirming(w) THEN confirmations + 1 ELSE confirmations
    BY <1>4 DEF send_order_transactional_messages, Confirming
  <2>2. CASE Confirming(w)
    BY <1>0, <2>1, <2>2 DEF ConfirmInv
  <2>3. CASE ~ Confirming(w)
    <3>1. ctx'[w].previous \in {ctx[w].previous, "draft"}
      <4>1. CASE ctx' = [ctx EXCEPT ![w] = NoRequest]
        BY <1>0, <4>1 DEF NoRequest
      <4>2. CASE ctx' = [ctx EXCEPT ![w].at = "answer"]
        BY <1>0, <4>2 DEF Request
      <4>3. CASE ctx' = [ctx EXCEPT ![w].op = "stamp", ![w].at = "save"]
        BY <1>0, <4>3 DEF Request
      <4> QED BY <1>4, <4>1, <4>2, <4>3 DEF send_order_transactional_messages, AfterSave
    <3>2. \A v \in Workers : v # w => ctx'[v] = ctx[v]
      BY <1>0, <1>4 DEF send_order_transactional_messages, AfterSave
    <3> QED BY <2>1, <2>3, <3>1, <3>2, ConfirmKept
  <2> QED BY <2>2, <2>3
<1>5. CASE answer(w)
  <2>1. /\ ctx[w].at = "answer" /\ UNCHANGED <<status, crashes, confirmations>>
        /\ ctx'[w].previous = "draft"
        /\ \A v \in Workers : v # w => ctx'[v] = ctx[v]
    BY <1>0, <1>5 DEF answer, NoRequest
  <2> QED BY <2>1, ConfirmKept DEF Confirming
<1> QED BY <1>1, <1>2, <1>3, <1>4, <1>5 DEF Proceed

LEMMA ConfirmNext == TypeInv /\ ConfirmInv /\ [Next]_vars => ConfirmInv'
<1> SUFFICES ASSUME TypeInv, ConfirmInv, [Next]_vars PROVE ConfirmInv'
  OBVIOUS
<1>1. ASSUME NEW w \in Workers, crash(w) PROVE ConfirmInv'
  <2>1. crashes \in Nat /\ crashes' = crashes + 1
    BY <1>1, OrderAssumption DEF crash, TypeInv, TypeOK
  <2> QED BY <2>1 DEF ConfirmInv
<1>2. CASE UNCHANGED <<status, ctx, confirmations, crashes>>
  BY <1>2 DEF ConfirmInv, Confirming
<1>3. ASSUME NEW w \in Workers, refuse_signature(w) PROVE ConfirmInv'
  BY <1>2, <1>3 DEF refuse_signature, tables, bounds
<1>4. ASSUME NEW c \in Checkouts, pay(c) \/ redeliver(c) PROVE ConfirmInv'
  BY <1>2, <1>4 DEF pay, redeliver, tables, bounds
<1>5. CASE change_tier \/ UNCHANGED vars
  BY <1>2, <1>5 DEF change_tier, vars, tables, bounds
<1> QED BY <1>1, <1>3, <1>4, <1>5, CallConfirm, ProceedConfirm DEF Next

(* Where nobody dies an order that says paid has been confirmed to the     *)
(* customer between requests, whoever made it paid, from whatever status,  *)
(* and however the reads and writes of the saves are interleaved           *)
(* (track_order_status_change, send_order_transactional_messages).         *)
THEOREM PaidIsConfirmed == Spec => []PaidOrderIsConfirmed
<1>1. TypeInv /\ ConfirmInv => PaidOrderIsConfirmed
  <2> SUFFICES ASSUME TypeInv, ConfirmInv, crashes = 0, AllIdle, status = "paid"
               PROVE  confirmations > 0
    BY DEF PaidOrderIsConfirmed
  <2>1. \A w \in Workers : ~ Confirming(w)
    BY DEF AllIdle, Idle, Confirming
  <2> QED BY <2>1 DEF ConfirmInv, TypeInv, TypeOK
<1> QED BY <1>1, TypeInit, TypeNext, ConfirmInit, ConfirmNext, PTL DEF Spec

-----------------------------------------------------------------------------
(* One request at a time.                                                  *)
OneWorker == \A v, w \in Workers : v = w

(* What the one request holds of the order is what the order says, until   *)
(* its UPDATE; a webhook is about to write paid, the staff a status that   *)
(* may follow the one there is.                                            *)
Legal(w) ==
    /\ ctx[w].op = "webhook" /\ ctx[w].at \in {"save", "update", "post_save"}
         => ctx[w].status = "paid"
    /\ ctx[w].op \in {"update", "update_stamped"} /\ ctx[w].at \in {"save", "update"}
         => ctx[w].status = status \/ ctx[w].status \in valid_transitions[status]
    /\ ~ WritesStatus(w) /\ ctx[w].at \in {"save", "update"} => ctx[w].status = status
    /\ ctx[w].at = "update" => ctx[w].previous = status
    /\ ctx[w].at = "post_save" => ctx[w].status = status

SerialInv == \A w \in Workers : Legal(w)

(* What was confirmed is paid, and is confirmed by the request that found  *)
(* it unpaid.                                                              *)
OnceInv ==
    /\ confirmations <= 1
    /\ confirmations > 0 => status = "paid"
    /\ \A w \in Workers : Confirming(w) => confirmations = 0

LEMMA SerialInit == Init => SerialInv /\ OnceInv
BY DEF Init, SerialInv, Legal, NoRequest, OnceInv, Confirming

LEMMA OnlyWorker ==
    ASSUME OneWorker, NEW w \in Workers, Legal(w)'
    PROVE  SerialInv'
BY DEF OneWorker, SerialInv

LEMMA CallSerial ==
    ASSUME OneWorker, TypeInv, NEW w \in Workers,
           \/ generate_checkout_link(w) \/ update_order(w) \/ process_payment_webhook(w)
           \/ process_failed_payment(w)
    PROVE  SerialInv' /\ ~ Confirming(w)'
<1>1. /\ ctx \in [Workers -> Request] /\ UNCHANGED status
  BY DEF TypeInv, TypeOK, generate_checkout_link, update_order, process_payment_webhook,
         process_failed_payment, tables
<1>2. PICK op, at, c, new :
        /\ Begin(w, op, at, c, new)
        /\ \/ op \in {"checkout", "failure"} /\ at = "save" /\ new = status
           \/ op = "webhook" /\ at = "found"
           \/ /\ op \in {"update", "update_stamped"} /\ at = "save"
              /\ new = status \/ new \in valid_transitions[status]
  BY DEF generate_checkout_link, update_order, process_payment_webhook, process_failed_payment
<1> DEFINE r == [NoRequest EXCEPT !.op = op, !.at = at, !.checkout = c, !.status = new]
<1>3. r.op = op /\ r.at = at /\ r.status = new /\ ctx' = [ctx EXCEPT ![w] = r]
  BY <1>2 DEF NoRequest, Begin
<1> HIDE DEF r
<1>4. ctx'[w].op = op /\ ctx'[w].at = at /\ ctx'[w].status = new
  BY <1>1, <1>3
<1>5. Legal(w)'
  BY <1>1, <1>2, <1>4 DEF Legal, WritesStatus
<1> QED BY <1>2, <1>4, <1>5, OnlyWorker DEF Confirming

LEMMA ProceedSerial ==
    ASSUME OneWorker, TypeInv, SerialInv, NEW w \in Workers, Proceed(w)
    PROVE  SerialInv'
<1> USE DEF tables
<1>0. /\ ctx \in [Workers -> Request] /\ ctx[w] \in Request
      /\ Legal(w)
      /\ ctx[w].at = "found" => ctx[w].op = "webhook"
  BY DEF TypeInv, TypeOK, SerialInv, SessionInv
<1> SUFFICES Legal(w)'
  BY OnlyWorker
<1>1. CASE process_successful_payment(w)
  <2>1. /\ ctx'[w].op = "webhook" /\ ctx'[w].at = "save" /\ ctx'[w].status = "paid"
    BY <1>0, <1>1 DEF process_successful_payment, Request
  <2> QED BY <2>1 DEF Legal, WritesStatus
<1>2. CASE pre_save(w)
  <2>1. /\ ctx[w].at = "save" /\ status' = status
        /\ ctx'[w].op = ctx[w].op /\ ctx'[w].status = ctx[w].status
        /\ ctx'[w].at = "update" /\ ctx'[w].previous = status
    BY <1>0, <1>2 DEF pre_save, Request
  <2> QED BY <1>0, <2>1 DEF Legal, WritesStatus
<1>3. CASE save(w)
  <2>1. /\ ctx[w].at = "update"
        /\ status' = IF WritesStatus(w) THEN ctx[w].status ELSE status
        /\ ctx'[w].op = ctx[w].op /\ ctx'[w].status = ctx[w].status
        /\ ctx'[w].at = "post_save"
    BY <1>0, <1>3 DEF save, Request
  <2> QED BY <1>0, <2>1 DEF Legal, WritesStatus
<1>4. CASE send_order_transactional_messages(w)
  <2>1. /\ ctx[w].at = "post_save" /\ status' = status
    BY <1>4 DEF send_order_transactional_messages
  <2>2. CASE ctx' = [ctx EXCEPT ![w] = NoRequest]
    BY <1>0, <2>2 DEF Legal, NoRequest
  <2>3. CASE ctx' = [ctx EXCEPT ![w].at = "answer"]
    <3>1. ctx'[w].at = "answer"
      BY <1>0, <2>3 DEF Request
    <3> QED BY <3>1 DEF Legal
  <2>4. CASE ctx' = [ctx EXCEPT ![w].op = "stamp", ![w].at = "save"]
    <3>1. /\ ctx'[w].op = "stamp" /\ ctx'[w].at = "save" /\ ctx'[w].status = ctx[w].status
      BY <1>0, <2>4 DEF Request
    <3> QED BY <1>0, <2>1, <3>1 DEF Legal
  <2> QED BY <1>4, <2>2, <2>3, <2>4 DEF send_order_transactional_messages, AfterSave
<1>5. CASE answer(w)
  BY <1>0, <1>5 DEF answer, Legal, NoRequest
<1> QED BY <1>1, <1>2, <1>3, <1>4, <1>5 DEF Proceed

LEMMA SerialNext == OneWorker /\ TypeInv /\ SerialInv /\ [Next]_vars => SerialInv'
<1> SUFFICES ASSUME OneWorker, TypeInv, SerialInv, [Next]_vars PROVE SerialInv'
  OBVIOUS
<1>1. ASSUME NEW w \in Workers, crash(w) PROVE SerialInv'
  <2>1. ctx'[w] = NoRequest
    BY <1>1 DEF crash, TypeInv, TypeOK
  <2> QED BY <2>1, OnlyWorker DEF Legal, NoRequest
<1>2. CASE UNCHANGED <<status, ctx>>
  BY <1>2 DEF SerialInv, Legal, WritesStatus
<1>3. ASSUME NEW w \in Workers, refuse_signature(w) PROVE SerialInv'
  BY <1>2, <1>3 DEF refuse_signature, tables
<1>4. ASSUME NEW c \in Checkouts, pay(c) \/ redeliver(c) PROVE SerialInv'
  BY <1>2, <1>4 DEF pay, redeliver, tables
<1>5. CASE change_tier \/ UNCHANGED vars
  BY <1>2, <1>5 DEF change_tier, vars, tables
<1> QED BY <1>1, <1>3, <1>4, <1>5, CallSerial, ProceedSerial DEF Next

(* Only a save writes the status.                                          *)
LEMMA OnlySaves ==
    ASSUME Next, \A w \in Workers : ~ save(w)
    PROVE  UNCHANGED status
BY DEF Next, Proceed, generate_checkout_link, update_order, process_payment_webhook,
       refuse_signature, process_failed_payment, process_successful_payment, pre_save,
       send_order_transactional_messages, answer, crash, pay, redeliver, change_tier, tables

(* With one request at a time no order that is paid becomes unpaid again:  *)
(* it is the stale object of an overlapping update that undoes a payment   *)
(* (OrderDetailView.put, mark_paid).                                       *)
THEOREM PaidStaysPaid == ASSUME OneWorker PROVE Spec => PaidIsNotUndone
<1>1. SerialInv /\ [Next]_vars => [status = "paid" => status' \notin {"draft", "placed"}]_vars
  <2> SUFFICES ASSUME SerialInv, Next, status = "paid" PROVE status' \notin {"draft", "placed"}
    OBVIOUS
  <2>1. ASSUME NEW w \in Workers, save(w) PROVE status' \notin {"draft", "placed"}
    BY <2>1 DEF save, SerialInv, Legal, WritesStatus, valid_transitions
  <2>2. CASE \A w \in Workers : ~ save(w)
    BY <2>2, OnlySaves
  <2> QED BY <2>1, <2>2
<1> QED BY <1>1, TypeInit, TypeNext, SerialInit, SerialNext, PTL DEF Spec, PaidIsNotUndone

(* Where nobody calls update_order no request is an update.                *)
NoUpdates == \A w \in Workers : ctx[w].op \notin {"update", "update_stamped"}

LEMMA NoUpdatesNext ==
    "update_order" \notin Operations /\ TypeInv /\ NoUpdates /\ [Next]_vars => NoUpdates'
<1> SUFFICES ASSUME "update_order" \notin Operations, TypeInv, NoUpdates, [Next]_vars
             PROVE  NoUpdates'
  OBVIOUS
<1>0. ctx \in [Workers -> Request] /\ \A w \in Workers : ctx[w] \in Request
  BY DEF TypeInv, TypeOK
<1>1. ASSUME NEW w \in Workers, \A v \in Workers : v # w => ctx'[v] = ctx[v],
             ctx'[w].op \in {ctx[w].op, "none", "checkout", "webhook", "failure", "stamp"}
      PROVE  NoUpdates'
  BY <1>1 DEF NoUpdates
<1>2. ASSUME NEW w \in Workers,
             \/ generate_checkout_link(w) \/ process_payment_webhook(w)
             \/ process_failed_payment(w)
      PROVE  NoUpdates'
  <2>1. PICK op, at, c, new :
          op \in {"checkout", "webhook", "failure"} /\ Begin(w, op, at, c, new)
    BY <1>2 DEF generate_checkout_link, process_payment_webhook, process_failed_payment
  <2> DEFINE r == [NoRequest EXCEPT !.op = op, !.at = at, !.checkout = c, !.status = new]
  <2>2. r.op = op /\ ctx' = [ctx EXCEPT ![w] = r]
    BY <2>1 DEF NoRequest, Begin
  <2> HIDE DEF r
  <2>3. ctx'[w].op = op /\ \A v \in Workers : v # w => ctx'[v] = ctx[v]
    BY <1>0, <2>2
  <2> QED BY <1>1, <2>1, <2>3
<1>3. ASSUME NEW w \in Workers, Proceed(w) \/ crash(w) PROVE NoUpdates'
  <2>1. PICK r \in Request :
          ctx' = [ctx EXCEPT ![w] = r] /\ r.op \in {ctx[w].op, "none", "stamp"}
    BY <1>0, <1>3, NoRequestType
    DEF Proceed, process_successful_payment, pre_save, save, send_order_transactional_messages,
        AfterSave, answer, crash, Request, Statuses
  <2>2. ctx'[w] = r /\ \A v \in Workers : v # w => ctx'[v] = ctx[v]
    BY <1>0, <2>1
  <2> QED BY <1>1, <2>1, <2>2
<1>4. CASE UNCHANGED ctx
  BY <1>4 DEF NoUpdates
<1>5. ASSUME NEW w \in Workers, refuse_signature(w) PROVE NoUpdates'
  BY <1>4, <1>5 DEF refuse_signature
<1>6. ASSUME NEW c \in Checkouts, pay(c) \/ redeliver(c) PROVE NoUpdates'
  BY <1>4, <1>6 DEF pay, redeliver
<1>7. CASE change_tier \/ UNCHANGED vars
  BY <1>4, <1>7 DEF change_tier, vars
<1> QED BY <1>2, <1>3, <1>5, <1>6, <1>7 DEF Next, update_order

LEMMA OnceNext ==
    ASSUME OneWorker, "update_order" \notin Operations,
           TypeInv, SerialInv, NoUpdates, OnceInv, [Next]_vars
    PROVE  OnceInv'
<1>0. /\ confirmations \in Nat /\ ctx \in [Workers -> Request]
      /\ \A w \in Workers : ctx[w] \in Request
  BY DEF TypeInv, TypeOK
<1>1. ASSUME NEW w \in Workers, UNCHANGED <<status, confirmations>>, ~ Confirming(w)'
      PROVE  OnceInv'
  BY <1>1 DEF OneWorker, OnceInv
<1>2. ASSUME NEW w \in Workers, save(w) PROVE OnceInv'
  <2>1. /\ ctx[w].at = "update" /\ UNCHANGED confirmations
        /\ status' = IF WritesStatus(w) THEN ctx[w].status ELSE status
        /\ ctx'[w].at = "post_save" /\ ctx'[w].status = ctx[w].status
        /\ ctx'[w].previous = ctx[w].previous
    BY <1>0, <1>2 DEF save, Request
  <2>2. /\ status' = "paid" \/ status' = status
        /\ ctx'[w].previous = status /\ Legal(w)
    BY <2>1 DEF SerialInv, NoUpdates, Legal, WritesStatus
  <2>3. confirmations > 0 => ~ Confirming(w)'
    BY <2>2 DEF OnceInv, Confirming
  <2> QED BY <1>0, <2>1, <2>2, <2>3 DEF OneWorker, OnceInv
<1>3. ASSUME NEW w \in Workers, send_order_transactional_messages(w) PROVE OnceInv'
  <2>1. /\ ctx[w].at = "post_save" /\ ctx[w].status = status /\ status' = status
        /\ confirmations' = IF Confirming(w) THEN confirmations + 1 ELSE confirmations
    BY <1>3 DEF send_order_transactional_messages, Confirming, SerialInv, Legal, tables
  <2>2. ctx'[w].at # "post_save"
    <3>1. CASE ctx' = [ctx EXCEPT ![w] = NoRequest]
      BY <1>0, <3>1 DEF NoRequest
    <3>2. CASE ctx' = [ctx EXCEPT ![w].at = "answer"]
      BY <1>0, <3>2 DEF Request
    <3>3. CASE ctx' = [ctx EXCEPT ![w].op = "stamp", ![w].at = "save"]
      BY <1>0, <3>3 DEF Request
    <3> QED BY <1>3, <3>1, <3>2, <3>3 DEF send_order_transactional_messages, AfterSave
  <2>3. Confirming(w) => confirmations = 0 /\ status = "paid"
    BY <2>1 DEF OnceInv, Confirming
  <2> QED BY <1>0, <2>1, <2>2, <2>3 DEF OneWorker, OnceInv, Confirming
<1>4. ASSUME NEW w \in Workers,
             process_successful_payment(w) \/ pre_save(w) \/ answer(w) \/ crash(w)
      PROVE  OnceInv'
  <2>1. UNCHANGED <<status, confirmations>> /\ ctx'[w].at # "post_save"
    BY <1>0, <1>4, NoRequestType
    DEF process_successful_payment, pre_save, answer, crash, tables, Request
  <2> QED BY <1>1, <2>1 DEF Confirming
<1>5. ASSUME NEW w \in Workers,
             \/ generate_checkout_link(w) \/ process_payment_webhook(w)
             \/ process_failed_payment(w)
      PROVE  OnceInv'
  <2>1. UNCHANGED <<status, confirmations>>
    BY <1>5 DEF generate_checkout_link, process_payment_webhook, process_failed_payment, tables
  <2>2. ~ Confirming(w)'
    BY <1>5, CallSerial
  <2> QED BY <1>1, <2>1, <2>2
<1>6. CASE UNCHANGED <<status, ctx, confirmations>>
  BY <1>6 DEF OnceInv, Confirming
<1>7. ASSUME NEW w \in Workers, refuse_signature(w) PROVE OnceInv'
  BY <1>6, <1>7 DEF refuse_signature, tables
<1>8. ASSUME NEW c \in Checkouts, pay(c) \/ redeliver(c) PROVE OnceInv'
  BY <1>6, <1>8 DEF pay, redeliver, tables
<1>9. CASE change_tier \/ UNCHANGED vars
  BY <1>6, <1>9 DEF change_tier, vars, tables
<1> QED BY <1>2, <1>3, <1>4, <1>5, <1>7, <1>8, <1>9 DEF Next, Proceed, update_order

(* With one request at a time, and no staff update that cancels a paid     *)
(* order, its customer is told once: a second delivery finds the order     *)
(* paid before it saves it.  Whatever dies (track_order_status_change,     *)
(* send_order_transactional_messages).                                     *)
THEOREM ConfirmedAtMostOnce ==
    ASSUME OneWorker, "update_order" \notin Operations
    PROVE  Spec => []ConfirmedOnce
<1>1. Init => NoUpdates
  BY NoRequestType DEF Init, NoUpdates
<1>2. /\ TypeInv /\ SerialInv /\ NoUpdates /\ OnceInv /\ [Next]_vars
        => TypeInv' /\ SerialInv' /\ NoUpdates' /\ OnceInv'
  <2> SUFFICES ASSUME TypeInv, SerialInv, NoUpdates, OnceInv, [Next]_vars
               PROVE  TypeInv' /\ SerialInv' /\ NoUpdates' /\ OnceInv'
    OBVIOUS
  <2>1. OnceInv'
    BY OnceNext
  <2> QED BY <2>1, TypeNext, SerialNext, NoUpdatesNext
<1>3. OnceInv => ConfirmedOnce
  BY DEF OnceInv, ConfirmedOnce
<1> QED BY <1>1, <1>2, <1>3, TypeInit, SerialInit, PTL DEF Spec
=============================================================================
