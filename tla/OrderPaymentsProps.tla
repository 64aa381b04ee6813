-------------------------- MODULE OrderPaymentsProps --------------------------
(***************************************************************************)
(* What a paid order, its credits and its confirmation owe one another.    *)
(***************************************************************************)
EXTENDS OrderPayments

(* The order, the provider and the requests have the shapes the code and   *)
(* the provider's interface give them.                                     *)
TypeOK ==
    /\ status \in Statuses
    /\ facilitation \in BOOLEAN
    /\ checkouts \in [Checkouts -> {"none", "open", "paid"}]
    /\ due \subseteq {c \in Checkouts : checkouts[c] = "paid"}
    /\ deliveries \in [Checkouts -> 0..MaxDeliveries]
    /\ credits \in [Checkouts -> Nat]
    /\ confirmations \in Nat
    /\ ctx \in [Workers -> Request]
    /\ updates \in 0..MaxUpdates /\ crashes \in 0..MaxCrashes

(* With webhooks alone an order says paid only when the money of one of    *)
(* its payments is in the wallet, wherever a delivery dies.                *)
PaidOrderIsCredited == status = "paid" => \E c \in Checkouts : credits[c] > 0

(* Every payment of a customer reaches the wallet, though deliveries die   *)
(* before, between and after its two commits, and though another session   *)
(* of the same order has been paid as well.                                *)
PaymentIsCredited == \A c \in Checkouts : checkouts[c] = "paid" ~> credits[c] > 0

(* An order that a customer paid comes to be paid: a delivery that died    *)
(* after the wallet's commit is made good by the next one.                 *)
PaymentMarksPaid == \A c \in Checkouts : checkouts[c] = "paid" ~> status = "paid"

AllIdle == \A w \in Workers : Idle(w)

(* "WHEN an Order status changes to paid, THE Tulia System SHALL           *)
(* automatically send a payment confirmation": where no delivery dies, a   *)
(* paid order has been confirmed between requests, though the signals read *)
(* the previous status in a query of their own and writers race.           *)
PaidOrderIsConfirmed == crashes = 0 /\ AllIdle /\ status = "paid" => confirmations > 0

-----------------------------------------------------------------------------
(* The same whatever dies: a delivery that dies after the UPDATE and before*)
(* its signal takes the confirmation with it.                              *)
DeathLosesNoConfirmation == AllIdle /\ status = "paid" => confirmations > 0

(* Deliveries of one event or of two payments of one order confirm it to   *)
(* the customer once; this holds for one request at a time, unless staff   *)
(* cancel an order that was paid.                                          *)
ConfirmedOnce == confirmations <= 1

(* "Reject duplicate webhook deliveries": one payment is credited once.    *)
CreditedOnce == \A c \in Checkouts : credits[c] <= 1

(* "Terminal state": an order that was canceled or fulfilled stays so.     *)
TerminalIsFinal ==
    [][(status \in {"fulfilled", "canceled"}) => status' = status]_vars

(* "Define valid status transitions": an order that is paid is fulfilled   *)
(* or canceled next; it does not become unpaid again.                      *)
PaidIsNotUndone == [][status = "paid" => status' \notin {"draft", "placed"}]_vars
=============================================================================
