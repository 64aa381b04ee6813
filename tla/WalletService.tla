----------------------------- MODULE WalletService -----------------------------
(***************************************************************************)
(* apps/tenants/services/wallet_service.py: credits, debits, customer      *)
(* payments and the life of a withdrawal that is debited when it is        *)
(* requested.  Every method is one database transaction; it is modelled as *)
(* the read of the wallet or of the locked Transaction row, and the commit *)
(* of everything the method writes.  A method that raises ends with its    *)
(* database transaction rolled back.                                       *)
(***************************************************************************)
EXTENDS WalletStore

(* Decimal.quantize(Decimal('0.01')) rounds half to even.                  *)
RoundHalfEven(n, d) ==
    LET q == n \div d
        r == n % d
    IN  IF 2 * r > d \/ (2 * r = d /\ q % 2 = 1) THEN q + 1 ELSE q

calculate_transaction_fee(payment_amount) ==
    IF Facilitation THEN RoundHalfEven(payment_amount * FeePercent, 10000) ELSE 0

-----------------------------------------------------------------------------
(* credit_wallet, debit_wallet, process_customer_payment,                  *)
(* request_withdrawal: read the wallet, then insert the row, write the     *)
(* balance and audit it.  A guard that fails raises before any write.      *)

credit_wallet(w) ==
    \E t \in Unused, amount \in PaymentAmounts :
        ReadWallet(w, "credit_wallet", t, amount, amount, None, None)

credit_wallet_commit(w) ==
    /\ At(w, "credit_wallet", "read")
    /\ txns' = [txns EXCEPT ![ctx[w].txn] =
         NewRow("customer_payment", "completed", ctx[w].amount, ctx[w].net, None, None)]
    /\ SaveBalance(w, ctx[w].amount)
    /\ EndRequest(w)

debit_wallet(w) ==
    \E t \in Unused, amount \in WithdrawalAmounts :
        /\ balance >= amount
        /\ ReadWallet(w, "debit_wallet", t, amount, amount, None, None)

(* Mutant of debit_wallet_commit: the WalletAudit row is forgotten.        *)
debit_wallet_commit_unaudited(w) ==
    /\ At(w, "debit_wallet", "read")
    /\ txns' = [txns EXCEPT ![ctx[w].txn] =
         NewRow("withdrawal", "completed", ctx[w].amount, ctx[w].net, None, None)]
    /\ balance' = ctx[w].seen - ctx[w].amount
    /\ EndRequest(w)
    /\ UNCHANGED audits

debit_wallet_commit(w) ==
    /\ At(w, "debit_wallet", "read")
    /\ txns' = [txns EXCEPT ![ctx[w].txn] =
         NewRow("withdrawal", "completed", ctx[w].amount, ctx[w].net, None, None)]
    /\ SaveBalance(w, - ctx[w].amount)
    /\ EndRequest(w)

process_customer_payment(w) ==
    \E t \in Unused, payment_amount \in PaymentAmounts :
        ReadWallet(w, "process_customer_payment", t, payment_amount,
                   payment_amount - calculate_transaction_fee(payment_amount), None, None)

(* Mutant of process_customer_payment_commit: the fee is not deducted.     *)
process_customer_payment_commit_gross(w) ==
    /\ At(w, "process_customer_payment", "read")
    /\ txns' = [txns EXCEPT ![ctx[w].txn] =
         NewRow("customer_payment", "completed", ctx[w].amount, ctx[w].net, None, None)]
    /\ SaveBalance(w, ctx[w].amount)
    /\ EndRequest(w)

(* The platform_fee row inserted beside the payment only repeats the       *)
(* payment row's fee, amount - net: nothing reads it, and only             *)
(* fail_payment_transaction could write it.  It is not a row here.         *)
process_customer_payment_commit(w) ==
    /\ At(w, "process_customer_payment", "read")
    /\ txns' = [txns EXCEPT ![ctx[w].txn] =
         NewRow("customer_payment", "completed", ctx[w].amount, ctx[w].net, None, None)]
    /\ SaveBalance(w, ctx[w].net)
    /\ EndRequest(w)

(* Mutant of request_withdrawal: the balance is not checked.               *)
request_withdrawal_unchecked(w) ==
    \E t \in Unused, amount \in WithdrawalAmounts, initiated_by \in Users \cup {None} :
        /\ amount >= MinimumWithdrawal
        /\ ReadWallet(w, "request_withdrawal", t, amount, amount, initiated_by, None)

request_withdrawal(w) ==
    \E t \in Unused, amount \in WithdrawalAmounts, initiated_by \in Users \cup {None} :
        /\ amount >= MinimumWithdrawal
        /\ balance >= amount
        /\ ReadWallet(w, "request_withdrawal", t, amount, amount, initiated_by, None)

request_withdrawal_commit(w) ==
    /\ At(w, "request_withdrawal", "read")
    /\ txns' = [txns EXCEPT ![ctx[w].txn] =
         NewRow("withdrawal", "pending", ctx[w].amount, ctx[w].net, ctx[w].user, None)]
    /\ SaveBalance(w, - ctx[w].amount)
    /\ EndRequest(w)

-----------------------------------------------------------------------------
(* approve_withdrawal, complete_withdrawal, fail_withdrawal and            *)
(* fail_payment_transaction work on a row they lock first.                 *)

LocksItsRow == {"approve_withdrawal", "complete_withdrawal", "fail_withdrawal",
                "fail_payment_transaction"}

approve_withdrawal(w) ==
    \E t \in TxnIds, approved_by \in Users : AskForRow(w, "approve_withdrawal", t, approved_by)

complete_withdrawal(w) == \E t \in TxnIds : AskForRow(w, "complete_withdrawal", t, None)

fail_withdrawal(w) == \E t \in TxnIds : AskForRow(w, "fail_withdrawal", t, None)

(* Any row, whatever its kind and status.                                  *)
fail_payment_transaction(w) ==
    \E t \in TxnIds : AskForRow(w, "fail_payment_transaction", t, None)

(* Mutant of PendingWithdrawal: the status is not checked.                 *)
PendingWithdrawal_any(row) == row.type = "withdrawal"

PendingWithdrawal(row) == row.type = "withdrawal" /\ row.status = "pending"

(* RBACService.validate_four_eyes                                          *)
validate_four_eyes(initiator, approver) ==
    /\ initiator # approver
    /\ initiator \in ActiveUsers
    /\ approver \in ActiveUsers

(* What the locked row must satisfy for the method not to raise.           *)
Accepts(w) ==
    LET row == ctx[w].row
    IN  CASE ctx[w].op = "fail_payment_transaction" -> TRUE
          [] ctx[w].op = "approve_withdrawal" ->
                /\ PendingWithdrawal(row)
                /\ row.initiated_by # None => validate_four_eyes(row.initiated_by, ctx[w].user)
          [] OTHER -> PendingWithdrawal(row)

refuse_locked_row(w) ==
    /\ ctx[w].op \in LocksItsRow
    /\ ctx[w].at = "locked"
    /\ ~ Accepts(w)
    /\ EndRequest(w)
    /\ UNCHANGED tables

approve_withdrawal_commit(w) ==
    /\ At(w, "approve_withdrawal", "locked")
    /\ Accepts(w)
    /\ txns' = [txns EXCEPT ![ctx[w].txn].status = "completed",
                            ![ctx[w].txn].approved_by = ctx[w].user]
    /\ EndRequest(w)
    /\ UNCHANGED <<balance, audits>>

complete_withdrawal_commit(w) ==
    /\ At(w, "complete_withdrawal", "locked")
    /\ Accepts(w)
    /\ SaveStatus(w, "completed")
    /\ EndRequest(w)
    /\ UNCHANGED <<balance, audits>>

(* wallet = txn.wallet: the wallet is read after the row is locked.        *)
fail_withdrawal_read(w) ==
    /\ At(w, "fail_withdrawal", "locked")
    /\ Accepts(w)
    /\ ctx' = [ctx EXCEPT ![w].at = "read", ![w].seen = balance]
    /\ UNCHANGED <<balance, txns, audits, rowLock>>

fail_withdrawal_commit(w) ==
    /\ At(w, "fail_withdrawal", "read")
    /\ SaveBalance(w, ctx[w].row.amount)
    /\ SaveStatus(w, "failed")
    /\ EndRequest(w)

fail_payment_transaction_commit(w) ==
    /\ At(w, "fail_payment_transaction", "locked")
    /\ txns' = [txns EXCEPT ![ctx[w].txn].status = "failed",
                            ![ctx[w].txn].written_off = @ \/ ctx[w].row.status # "failed"]
    /\ EndRequest(w)
    /\ UNCHANGED <<balance, audits>>

-----------------------------------------------------------------------------
Call(w) ==
    \/ credit_wallet(w) \/ debit_wallet(w)
    \/ process_customer_payment(w) \/ request_withdrawal(w)
    \/ approve_withdrawal(w) \/ complete_withdrawal(w)
    \/ fail_withdrawal(w) \/ fail_payment_transaction(w)

Proceed(w) ==
    \/ credit_wallet_commit(w) \/ debit_wallet_commit(w)
    \/ process_customer_payment_commit(w) \/ request_withdrawal_commit(w)
    \/ refuse_locked_row(w)
    \/ approve_withdrawal_commit(w) \/ complete_withdrawal_commit(w)
    \/ fail_withdrawal_read(w) \/ fail_withdrawal_commit(w)
    \/ fail_payment_transaction_commit(w)

Next == \E w \in Workers : Call(w) \/ LockRow(w) \/ Proceed(w) \/ Rollback(w)

Spec == StoreInit /\ [][Next]_storeVars

(* A running request is scheduled until it ends, and PostgreSQL grants a   *)
(* row lock in the order it was asked for; nothing makes anybody call the  *)
(* service, and no request has to fail.                                    *)
Fairness == \A w \in Workers : WF_storeVars(Proceed(w)) /\ SF_storeVars(LockRow(w))

FairSpec == Spec /\ Fairness
=============================================================================
