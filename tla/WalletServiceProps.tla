--------------------------- MODULE WalletServiceProps --------------------------
(***************************************************************************)
(* What WalletService must guarantee however its requests interleave, and  *)
(* what it guarantees only when they come one at a time.                   *)
(***************************************************************************)
EXTENDS WalletService, FiniteSetsExt

(* The balance, the rows, the audit trail, the locks and the requests have *)
(* the shapes the models and the services give them.                       *)
TypeOK == StoreTypeOK

(* A withdrawal that has been settled or failed keeps that status: an      *)
(* approval, an operator's completion and an operator's failure of the     *)
(* same withdrawal that race each other do not overwrite one another.      *)
(* Only fail_payment_transaction, which asks for neither the kind nor the  *)
(* status of its row, fails one that was completed: it is then written off.*)
SettledIsFinal ==
    [][\A t \in TxnIds :
         txns[t].type = "withdrawal" /\ txns[t].status \in {"completed", "failed"}
           => \/ txns'[t].status = txns[t].status
              \/ txns'[t].status = "failed" /\ txns'[t].written_off]_storeVars

AuditsOf(t) == {i \in DOMAIN audits : audits[i].txn = t}

(* A withdrawal failed by fail_withdrawal, not written off.                *)
Returned(row) == row.status = "failed" /\ ~ row.written_off

(* One record took the amount and, if the row was returned, a later one    *)
(* gave it back; there is no other.                                        *)
Balanced(t) ==
    \E debit \in AuditsOf(t) :
      /\ audits[debit].amount = - txns[t].amount
      /\ ~ Returned(txns[t]) => AuditsOf(t) = {debit}
      /\ Returned(txns[t]) =>
           \E credit \in AuditsOf(t) :
             /\ debit < credit /\ AuditsOf(t) = {debit, credit}
             /\ audits[credit].amount = txns[t].amount

(* A withdrawal takes its amount from the wallet once, and the amount goes *)
(* back, later and once, if fail_withdrawal failed it and never otherwise: *)
(* the audit trail of request_withdrawal, debit_wallet and fail_withdrawal *)
(* agrees with the row.  One that fail_payment_transaction failed while it *)
(* was pending or completed gets nothing back, then or later.              *)
CreditBackIffFailed ==
    \A t \in TxnIds :
      txns[t].type = "withdrawal" /\ txns[t].status # "absent" => Balanced(t)

(* No interleaving of the checks of request_withdrawal and debit_wallet    *)
(* with the absolute writes of the others leaves the wallet below zero.    *)
NonNegativeBalance == balance >= 0

(* The newest audit record names the present balance, also after a lost    *)
(* update.                                                                 *)
BalanceIsLastAudit ==
    balance = IF audits = <<>> THEN 0 ELSE audits[Len(audits)].new

(* Every request that a worker took ends, waiting for a row lock included: *)
(* no request keeps a row locked and no two wait for one another.          *)
RequestsEnd == \A w \in Workers : ~ Idle(w) ~> Idle(w)

-----------------------------------------------------------------------------
(* One request at a time.                                                  *)

(* Each audit record starts from the balance the one before it ended with: *)
(* no change of the balance is missing from the trail.                     *)
AuditTrailIsUnbroken ==
    \A i \in DOMAIN audits :
        audits[i].previous = IF i = 1 THEN 0 ELSE audits[i - 1].new

(* Taken one request at a time the service is the account book a tenant    *)
(* relies on: each request is one change of the account or none.  When     *)
(* fail_payment_transaction fails a row the balance stays: a payment is    *)
(* still the deposit it was, a withdrawal is written off.                  *)
EntryOf(row) ==
    CASE row.status = "absent" -> [kind |-> "none", amount |-> 0]
      [] row.status # "absent" /\ row.type = "customer_payment" ->
            [kind |-> "deposit", amount |-> row.net]
      [] row.status = "pending" /\ row.type = "withdrawal" ->
            [kind |-> "open", amount |-> row.amount]
      [] row.status = "completed" /\ row.type = "withdrawal" ->
            [kind |-> "settled", amount |-> row.amount]
      [] Returned(row) /\ row.type = "withdrawal" ->
            [kind |-> "returned", amount |-> row.amount]
      [] OTHER -> [kind |-> "written_off", amount |-> row.amount]

Book == [t \in TxnIds |-> EntryOf(txns[t])]

Deposits == PaymentAmounts
            \cup {n - calculate_transaction_fee(n) : n \in PaymentAmounts}

AccountBook == INSTANCE Ledger WITH
    Entries <- TxnIds, DepositAmounts <- Deposits, WithdrawAmounts <- WithdrawalAmounts,
    account <- balance, entry <- Book

ImplementsLedger == AccountBook!LedgerSpec

(* What a row did to the balance.                                         *)
Effect(row) ==
    CASE row.type = "customer_payment" /\ row.status # "absent" -> row.net
      [] row.type = "withdrawal" /\ row.status \in {"pending", "completed"} -> - row.amount
      [] OTHER -> 0

(* What has been debited and not given back never exceeds what has been    *)
(* credited: "Immediately debit from wallet (prevents double-spending)".   *)
NoDoubleSpending == MapThenSumSet(LAMBDA t : Effect(txns[t]), TxnIds) >= 0

(* "Fail a payment transaction and optionally notify customer." (docstring *)
(* of fail_payment_transaction): what it fails is a payment.               *)
OnlyPaymentsAreWrittenOff ==
    \A t \in TxnIds : txns[t].written_off => txns[t].type = "customer_payment"
=============================================================================
