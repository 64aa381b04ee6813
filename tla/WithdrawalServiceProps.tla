------------------------- MODULE WithdrawalServiceProps -------------------------
(***************************************************************************)
(* What paying withdrawals out through a provider must guarantee, and what *)
(* the documents and tests of the repository say of it.                    *)
(***************************************************************************)
EXTENDS WithdrawalService, FiniteSetsExt

(* The tables, the requests and the accepted transfers are well formed.    *)
PayoutTypeOK == StoreTypeOK /\ payouts \in Seq(PayoutRow)

PayoutsOf(t) == {i \in DOMAIN payouts : payouts[i].txn = t}

(* Whatever races, times out or crashes, no transfer leaves the platform   *)
(* on the word of the user who asked for it, and it is for the net amount  *)
(* of a withdrawal that exists.                                            *)
FourEyesOnPayouts ==
    \A i \in DOMAIN payouts :
        LET row == txns[payouts[i].txn]
        IN  /\ row.type = "withdrawal" /\ row.status # "absent"
            /\ payouts[i].by # row.initiated_by
            /\ payouts[i].amount = row.net

(* A withdrawal that carries an approver was accepted by the provider on   *)
(* that approver's request, whatever became of the other requests for it.  *)
ApprovedIsPaid ==
    \A t \in TxnIds :
        txns[t].approved_by # None =>
            \E i \in PayoutsOf(t) : payouts[i].by = txns[t].approved_by

AllIdle == \A w \in Workers : Idle(w)

(* One request at a time, with a provider that answers: between requests a *)
(* withdrawal has been paid exactly when its row says completed, once.  Of *)
(* one that fail_payment_transaction wrote off the row does not say it:    *)
(* it was paid once at most.                                               *)
PaidExactlyWhenCompleted ==
    AllIdle => \A t \in TxnIds :
        IF txns[t].written_off
          THEN Cardinality(PayoutsOf(t)) <= 1
          ELSE Cardinality(PayoutsOf(t)) =
                 IF txns[t].type = "withdrawal" /\ txns[t].status = "completed" THEN 1 ELSE 0

(* One request at a time: the wallet holds the payments received less the  *)
(* gross amounts of the withdrawals that were paid; one that is pending,   *)
(* refused or canceled has cost nothing.                                   *)
PaidEffect(row) ==
    CASE row.type = "customer_payment" /\ row.status = "completed" -> row.net
      [] row.type = "withdrawal" /\ row.status = "completed" -> - row.amount
      [] OTHER -> 0

WalletPaysTheCompleted ==
    balance = MapThenSumSet(LAMBDA t : PaidEffect(txns[t]), TxnIds)

-----------------------------------------------------------------------------
(* "Check transaction marked as failed" after a provider failure           *)
(* (test_withdrawal_service.py), "# Mark transaction as failed"            *)
(* (approve_withdrawal): when the error path ends, the row is failed.      *)
FailureIsRecorded ==
    [][\A w \in Workers : ctx[w].at = "error" /\ ctx'[w].at = "idle"
         => txns'[ctx[w].txn].status = "failed"]_vars

(* "Maintains audit trail of all balance changes" (TenantWallet): a change *)
(* of the balance, approve_withdrawal's included, adds an audit record.    *)
ChangesAreAudited == [][balance' # balance => Len(audits') = Len(audits) + 1]_vars

(* "WHEN the approver is different from the initiator, THE Tulia System    *)
(* SHALL update the Transaction status to completed and execute the        *)
(* payout": with a provider that never fails, no approval takes the error  *)
(* path.                                                                   *)
ApprovalsSucceed == \A w \in Workers : ctx[w].at # "error"

(* A withdrawal that is not pending cannot be approved again: one          *)
(* withdrawal is paid at most once.                                        *)
PaidAtMostOnce == \A t \in TxnIds : Cardinality(PayoutsOf(t)) <= 1

(* "WHEN a withdrawal fails, THE Tulia System SHALL update the Transaction *)
(* status to failed": once the provider has reported a transfer as failed, *)
(* its withdrawal is not completed.                                        *)
BouncedIsFailed ==
    AllIdle => \A i \in DOMAIN payouts :
        payouts[i].state = "bounced" => txns[payouts[i].txn].status # "completed"

(* "WHEN a withdrawal Transaction is created, THE Tulia System SHALL       *)
(* deduct the amount from the TenantWallet balance immediately": creating  *)
(* a pending withdrawal lowers the balance by its amount.                  *)
DebitedWhenCreated ==
    [][\A t \in TxnIds :
         txns[t].status = "absent" /\ txns'[t].status = "pending"
           => balance' = balance - txns'[t].amount]_vars
=============================================================================
