--------------------------- MODULE WithdrawalService ---------------------------
(***************************************************************************)
(* apps/tenants/services/withdrawal_service.py and the views that call it: *)
(* withdrawals that are paid out through a provider when they are          *)
(* approved, on the same wallet and rows as WalletService.                 *)
(*                                                                         *)
(* The views read the Transaction row before the service's database        *)
(* transaction begins, without a lock, and the service checks that object. *)
(* The provider is called in the middle: what it did stays done when the   *)
(* database transaction rolls back.                                        *)
(***************************************************************************)
EXTENDS WalletService

CONSTANTS
    MINIMUM_WITHDRAWALS,  \* least amount, by method
    WITHDRAWAL_FEES,      \* flat fee, by method
    Faults,               \* what may go wrong: "refuse", "timeout", "bounce", "crash"
    MaxPayouts            \* bound on the payouts the provider accepts

ASSUME PayoutAssumption ==
    /\ MINIMUM_WITHDRAWALS \in [Methods -> Nat]
    /\ WITHDRAWAL_FEES \in [Methods -> Nat]
    /\ Faults \subseteq {"refuse", "timeout", "bounce", "crash"}
    /\ MaxPayouts \in Nat

VARIABLE payouts   \* the transfers the provider accepted, in order

vars == <<balance, txns, audits, rowLock, ctx, payouts>>

PayoutRow == [txn : TxnIds, by : Users, amount : Int, state : {"accepted", "bounced"}]

Init == StoreInit /\ payouts = <<>>

-----------------------------------------------------------------------------
(* initiate_withdrawal: checks the balance, creates the pending row, takes *)
(* nothing from the wallet.                                                *)
initiate_withdrawal(w) ==
    \E t \in Unused, amount \in WithdrawalAmounts, method \in Methods, user \in Users :
        LET net_amount == amount - WITHDRAWAL_FEES[method]
        IN  /\ amount >= MINIMUM_WITHDRAWALS[method]
            /\ net_amount > 0
            /\ balance >= amount
            /\ ReadWallet(w, "initiate_withdrawal", t, amount, net_amount, user, method)

initiate_withdrawal_commit(w) ==
    /\ At(w, "initiate_withdrawal", "read")
    /\ txns' = [txns EXCEPT ![ctx[w].txn] =
         NewRow("withdrawal", "pending", ctx[w].amount, ctx[w].net,
                ctx[w].user, ctx[w].method)]
    /\ EndRequest(w)
    /\ UNCHANGED <<balance, audits>>

-----------------------------------------------------------------------------
(* get_object_or_404(Transaction, ..., transaction_type='withdrawal') in   *)
(* the view, then the service's checks of that object.                     *)
ReadPendingWithdrawal(w, op, t, user) ==
    /\ op \in Operations
    /\ Idle(w)
    /\ t \in Existing
    /\ PendingWithdrawal(txns[t])
    /\ ctx' = [ctx EXCEPT ![w] = [NoRequest EXCEPT !.op = op, !.at = "checked", !.txn = t,
                                                   !.user = user, !.row = txns[t]]]
    /\ UNCHANGED <<balance, txns, audits, rowLock>>

(* Mutant of ApproveWithdrawalView: the initiator may approve.             *)
ApproveWithdrawalView_alone(w) ==
    \E t \in TxnIds, user \in Users : ReadPendingWithdrawal(w, "ApproveWithdrawalView", t, user)

ApproveWithdrawalView(w) ==
    \E t \in TxnIds, user \in Users :
        /\ txns[t].initiated_by # user
        /\ ReadPendingWithdrawal(w, "ApproveWithdrawalView", t, user)

CancelWithdrawalView(w) ==
    \E t \in TxnIds, user \in Users : ReadPendingWithdrawal(w, "CancelWithdrawalView", t, user)

(* _process_withdrawal: the provider takes the order for the net amount.  *)
ProviderAccepts(w) ==
    /\ At(w, "ApproveWithdrawalView", "checked")
    /\ ctx[w].row.method \in Methods
    /\ Len(payouts) < MaxPayouts
    /\ payouts' = Append(payouts, [txn |-> ctx[w].txn, by |-> ctx[w].user,
                                   amount |-> ctx[w].row.net, state |-> "accepted"])

process_withdrawal(w) ==
    /\ ProviderAccepts(w)
    /\ ctx' = [ctx EXCEPT ![w].at = "paid"]
    /\ UNCHANGED <<tables, rowLock>>

(* A statement that writes the row waits while another holds it.           *)
HoldRow(w) ==
    /\ rowLock[ctx[w].txn] = None
    /\ rowLock' = [rowLock EXCEPT ![ctx[w].txn] = w]

(* except Exception: the object becomes 'failed' and is saved, still       *)
(* inside the database transaction.  The provider refused, the method is   *)
(* unsupported (a row of request_withdrawal has none), or the answer to an *)
(* accepted order was lost.                                                *)
EnterExcept(w) ==
    /\ HoldRow(w)
    /\ ctx' = [ctx EXCEPT ![w].at = "error", ![w].row.status = "failed"]
    /\ UNCHANGED tables

(* Mutant of process_withdrawal_refused: the refusal is only logged.       *)
process_withdrawal_refused_logged(w) ==
    /\ At(w, "ApproveWithdrawalView", "checked")
    /\ ctx[w].row.method \notin Methods \/ "refuse" \in Faults
    /\ ctx' = [ctx EXCEPT ![w].at = "paid"]
    /\ UNCHANGED <<tables, rowLock, payouts>>

process_withdrawal_refused(w) ==
    /\ At(w, "ApproveWithdrawalView", "checked")
    /\ ctx[w].row.method \notin Methods \/ "refuse" \in Faults
    /\ EnterExcept(w)
    /\ UNCHANGED payouts

process_withdrawal_unanswered(w) ==
    /\ "timeout" \in Faults
    /\ ProviderAccepts(w)
    /\ EnterExcept(w)

(* raise WithdrawalError(...) from e: leaves the atomic block, so the      *)
(* 'failed' saved a moment ago is rolled back.                             *)
raise_WithdrawalError(w) ==
    /\ ctx[w].at = "error"
    /\ EndRequest(w)
    /\ UNCHANGED <<tables, payouts>>

(* transaction_obj.save(...), then wallet = transaction_obj.wallet.        *)
approve_withdrawal_save(w) ==
    /\ ctx[w].at = "paid"
    /\ HoldRow(w)
    /\ ctx' = [ctx EXCEPT ![w].at = "saved", ![w].seen = balance]
    /\ UNCHANGED <<tables, payouts>>

pay_withdrawal_commit(w) ==
    /\ ctx[w].at = "saved"
    /\ txns' = [txns EXCEPT ![ctx[w].txn].status = "completed",
                            ![ctx[w].txn].approved_by = ctx[w].user]
    /\ balance' = ctx[w].seen - ctx[w].row.amount
    /\ EndRequest(w)
    /\ UNCHANGED <<audits, payouts>>

cancel_withdrawal(w) ==
    /\ At(w, "CancelWithdrawalView", "checked")
    /\ rowLock[ctx[w].txn] = None
    /\ SaveStatus(w, "canceled")
    /\ EndRequest(w)
    /\ UNCHANGED <<balance, audits, payouts>>

(* The provider cannot deliver an accepted transfer and says so: Paystack  *)
(* by the transfer.failed webhook, which is logged and changes nothing.    *)
transfer_failed(i) ==
    /\ "bounce" \in Faults
    /\ payouts[i].state = "accepted"
    /\ payouts' = [payouts EXCEPT ![i].state = "bounced"]
    /\ UNCHANGED storeVars

-----------------------------------------------------------------------------
WithdrawalCall(w) ==
    \/ initiate_withdrawal(w) /\ UNCHANGED payouts
    \/ ApproveWithdrawalView(w) /\ UNCHANGED payouts
    \/ CancelWithdrawalView(w) /\ UNCHANGED payouts

WithdrawalProceed(w) ==
    \/ initiate_withdrawal_commit(w) /\ UNCHANGED payouts
    \/ process_withdrawal(w)
    \/ process_withdrawal_refused(w)
    \/ process_withdrawal_unanswered(w)
    \/ raise_WithdrawalError(w)
    \/ approve_withdrawal_save(w)
    \/ pay_withdrawal_commit(w)
    \/ cancel_withdrawal(w)

WalletStep(w) == (Call(w) \/ LockRow(w) \/ Proceed(w)) /\ UNCHANGED payouts

Crash(w) == "crash" \in Faults /\ Rollback(w) /\ UNCHANGED payouts

WithdrawalNext ==
    \/ \E w \in Workers : WalletStep(w) \/ WithdrawalCall(w) \/ WithdrawalProceed(w) \/ Crash(w)
    \/ \E i \in DOMAIN payouts : transfer_failed(i)

WithdrawalSpec == Init /\ [][WithdrawalNext]_vars
=============================================================================
