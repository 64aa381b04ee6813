------------------------------ MODULE WalletStore ------------------------------
(***************************************************************************)
(* The three tables of one tenant's wallet (TenantWallet, Transaction and  *)
(* WalletAudit) as PostgreSQL shows them to the requests that use them,    *)
(* and the steps every wallet service is built from.                       *)
(*                                                                         *)
(* A request runs in a worker.  It reads committed rows into Python        *)
(* objects, computes, and writes the rows back when its database           *)
(* transaction commits: between the two another worker may commit.  Only   *)
(* select_for_update() and an UPDATE hold a row; the wallet row is read    *)
(* without a lock everywhere.  What a transaction wrote before its commit  *)
(* is invisible to others, so its writes are one step, the commit.         *)
(***************************************************************************)
EXTENDS Integers, Sequences

CONSTANTS
    Workers,            \* web or Celery workers, each serving one request
    TxnIds,             \* primary keys of Transaction: the bound on its rows
    Users,              \* rbac.User
    ActiveUsers,        \* those with is_active
    Methods,            \* payout methods WithdrawalService knows
    None,               \* Python's None
    PaymentAmounts,     \* gross amounts of customer payments, in cents
    WithdrawalAmounts,  \* gross amounts of withdrawals and debits, in cents
    MinimumWithdrawal,  \* TenantWallet.minimum_withdrawal
    Facilitation,       \* SubscriptionTier.payment_facilitation
    FeePercent,         \* SubscriptionTier.transaction_fee_percentage, times 100
    Operations          \* the service methods the deployment calls

ASSUME SortsAssumption ==
    /\ None \notin Workers \cup TxnIds \cup Users \cup Methods
    /\ ActiveUsers \subseteq Users

(* The percentage is a decimal of five digits, two after the point, with no *)
(* validator: 350 is the 3.50 of a seeded tier, and negative ones and ones  *)
(* above 100 percent can be stored.                                         *)
ASSUME AmountsAssumption ==
    /\ PaymentAmounts \subseteq Nat
    /\ WithdrawalAmounts \subseteq Nat
    /\ MinimumWithdrawal \in Nat
    /\ Facilitation \in BOOLEAN
    /\ FeePercent \in Int /\ -99999 <= FeePercent /\ FeePercent <= 99999

VARIABLES
    balance,   \* TenantWallet.balance
    txns,      \* the Transaction rows, by id
    audits,    \* the WalletAudit rows, in order of creation
    rowLock,   \* the worker that holds the lock of a Transaction row
    ctx        \* what each worker's request has read so far

tables == <<balance, txns, audits>>
storeVars == <<balance, txns, audits, rowLock, ctx>>

Statuses == {"pending", "completed", "failed", "canceled"}

(* written_off is history: fail_payment_transaction failed the row while it *)
(* stood, with nothing given back.                                          *)
Row == [type         : {"customer_payment", "withdrawal"},
        status       : Statuses \cup {"absent"},
        amount       : Int,
        net          : Int,
        initiated_by : Users \cup {None},
        approved_by  : Users \cup {None},
        method       : Methods \cup {None},
        written_off  : BOOLEAN]

NewRow(type, status, amount, net, initiator, method) ==
    [type |-> type, status |-> status, amount |-> amount, net |-> net,
     initiated_by |-> initiator, approved_by |-> None, method |-> method,
     written_off |-> FALSE]

NoRow == NewRow("customer_payment", "absent", 0, 0, None, None)

AuditRow == [txn : TxnIds, previous : Int, amount : Int, new : Int]

Phases == {"idle", "wait", "locked", "read", "checked", "paid", "saved", "error"}

(* A request: the method it runs, how far it is, its arguments (the       *)
(* transaction, the amount, the user and the method), the balance it read *)
(* into its wallet object and the row it read into its transaction object.*)
Request == [op : Operations \cup {None}, at : Phases, txn : TxnIds \cup {None},
            amount : Int, net : Int, user : Users \cup {None},
            method : Methods \cup {None}, seen : Int, row : Row]

NoRequest == [op |-> None, at |-> "idle", txn |-> None, amount |-> 0, net |-> 0,
              user |-> None, method |-> None, seen |-> 0, row |-> NoRow]

StoreTypeOK ==
    /\ balance \in Int
    /\ txns \in [TxnIds -> Row]
    /\ audits \in Seq(AuditRow)
    /\ rowLock \in [TxnIds -> Workers \cup {None}]
    /\ ctx \in [Workers -> Request]

(* get_or_create_wallet: the wallet starts empty, with no rows.           *)
StoreInit ==
    /\ balance = 0
    /\ txns = [t \in TxnIds |-> NoRow]
    /\ audits = <<>>
    /\ rowLock = [t \in TxnIds |-> None]
    /\ ctx = [w \in Workers |-> NoRequest]

-----------------------------------------------------------------------------
Existing == {t \in TxnIds : txns[t].status # "absent"}

(* Ids no row has and no request in flight is about to insert.            *)
Unused == {t \in TxnIds : txns[t].status = "absent"
                          /\ \A w \in Workers : ctx[w].txn # t}

Idle(w) == ctx[w].at = "idle"
At(w, op, phase) == ctx[w].op = op /\ ctx[w].at = phase

(* A request starts by reading the wallet, without a lock; the row it will *)
(* insert is named here.                                                   *)
ReadWallet(w, op, t, amount, net, user, method) ==
    /\ op \in Operations
    /\ Idle(w)
    /\ ctx' = [ctx EXCEPT ![w] =
                 [op |-> op, at |-> "read", txn |-> t, amount |-> amount,
                  net |-> net, user |-> user, method |-> method,
                  seen |-> balance, row |-> NoRow]]
    /\ UNCHANGED <<balance, txns, audits, rowLock>>

(* A request about an existing row that will lock it queues for the lock. *)
AskForRow(w, op, t, user) ==
    /\ op \in Operations
    /\ Idle(w)
    /\ t \in Existing
    /\ ctx' = [ctx EXCEPT ![w] =
                 [NoRequest EXCEPT !.op = op, !.at = "wait", !.txn = t, !.user = user]]
    /\ UNCHANGED <<balance, txns, audits, rowLock>>

(* Mutant of LockRow: get(id) without select_for_update().                *)
LockRow_unlocked(w) ==
    /\ ctx[w].at = "wait"
    /\ ctx' = [ctx EXCEPT ![w].at = "locked", ![w].row = txns[ctx[w].txn]]
    /\ UNCHANGED <<tables, rowLock>>

(* Transaction.objects.select_for_update().get(id): takes the lock and    *)
(* returns the row as it is committed at that moment.                      *)
LockRow(w) ==
    /\ ctx[w].at = "wait"
    /\ rowLock[ctx[w].txn] = None
    /\ rowLock' = [rowLock EXCEPT ![ctx[w].txn] = w]
    /\ ctx' = [ctx EXCEPT ![w].at = "locked", ![w].row = txns[ctx[w].txn]]
    /\ UNCHANGED tables

(* The database transaction ends: locks are released, the worker is free. *)
EndRequest(w) ==
    /\ rowLock' = [t \in TxnIds |-> IF rowLock[t] = w THEN None ELSE rowLock[t]]
    /\ ctx' = [ctx EXCEPT ![w] = NoRequest]

(* Mutant of SaveBalance: the audit record is computed from a balance that *)
(* is read again, the wallet from the one read first.                      *)
SaveBalance_reread(w, delta) ==
    /\ balance' = ctx[w].seen + delta
    /\ audits' = Append(audits, [txn |-> ctx[w].txn, previous |-> balance,
                                 amount |-> delta, new |-> balance + delta])

(* wallet.save(update_fields=['balance', ...]) writes the value computed   *)
(* from the balance the request read, with the WalletAudit row beside it.  *)
SaveBalance(w, delta) ==
    /\ balance' = ctx[w].seen + delta
    /\ audits' = Append(audits, [txn |-> ctx[w].txn, previous |-> ctx[w].seen,
                                 amount |-> delta, new |-> ctx[w].seen + delta])

(* Mutant of SaveStatus: a status that is none of STATUS_CHOICES.          *)
SaveStatus_unlisted(w, status) ==
    txns' = [txns EXCEPT ![ctx[w].txn].status = IF status = "failed" THEN "error" ELSE status]

SaveStatus(w, status) == txns' = [txns EXCEPT ![ctx[w].txn].status = status]

(* An exception leaves the atomic block, or the worker or its connection  *)
(* dies: the database rolls back and nothing of the request remains.      *)
Rollback(w) ==
    /\ ~ Idle(w)
    /\ EndRequest(w)
    /\ UNCHANGED tables

=============================================================================
