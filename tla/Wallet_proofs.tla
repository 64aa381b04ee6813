------------------------------ MODULE Wallet_proofs -----------------------------
(***************************************************************************)
(* What the wallet guarantees for any number of workers, users and         *)
(* transactions, any amounts and any minimum: first WalletService, then    *)
(* WithdrawalService on the same tables.  A fee may be anything its field  *)
(* stores; where a theorem needs it within the payment, it says so.        *)
(***************************************************************************)
EXTENDS WalletServiceProps, WithdrawalServiceProps, SequenceTheorems, FiniteSetTheorems, TLAPS

(* A request knows its transaction from its first step on.                 *)
NamesItsRow == \A w \in Workers : ~ Idle(w) => ctx[w].txn \in TxnIds

TypeInv == TypeOK /\ NamesItsRow

-----------------------------------------------------------------------------
(* Rounding: what is at most a is rounded to at most a, and what is not    *)
(* negative to what is not.                                                *)

LEMMA RoundHalfEvenBounds ==
    ASSUME NEW n \in Int, NEW a \in Nat
    PROVE  /\ RoundHalfEven(n, 10000) \in Int
           /\ n >= 0 => RoundHalfEven(n, 10000) >= 0
           /\ n <= 10000 * a => RoundHalfEven(n, 10000) <= a
<1> DEFINE q == n \div 10000
           r == n % 10000
<1>1. /\ q \in Int
      /\ r \in 0..9999
      /\ n = 10000 * q + r
  OBVIOUS
<1>2. (n >= 0 => q >= 0) /\ (n <= 10000 * a => (r = 0 => q <= a) /\ (r > 0 => q + 1 <= a))
  <2> HIDE DEF q, r
  <2> QED BY <1>1
<1>3. RoundHalfEven(n, 10000) =
        IF 2 * r > 10000 \/ (2 * r = 10000 /\ q % 2 = 1) THEN q + 1 ELSE q
  BY DEF RoundHalfEven
<1> HIDE DEF q, r
<1>4. 2 * r > 10000 \/ (2 * r = 10000 /\ q % 2 = 1) => r > 0
  BY <1>1
<1>5. n <= 10000 * a => (r = 0 => q <= a) /\ (r > 0 => q + 1 <= a)
  BY <1>2
<1>6. r \in Int /\ r >= 0
  BY <1>1
<1> QED BY <1>1, <1>2, <1>3, <1>4, <1>5, <1>6

(* The percentage is not above 100; and it is not negative either.         *)
FeeIsNoMoreThanPaid == FeePercent <= 10000
FeeIsAShare == 0 <= FeePercent /\ FeePercent <= 10000

LEMMA ScaledWithin ==
    ASSUME NEW a \in Nat, NEW p \in Int
    PROVE  /\ a * p \in Int
           /\ p <= 10000 => a * p <= 10000 * a
           /\ p >= 0 => a * p >= 0
<1>1. \A m, n \in Nat : m * n >= 0
  OBVIOUS
<1>2. a * p \in Int /\ a * (10000 - p) = 10000 * a - a * p
  OBVIOUS
<1>3. p >= 0 => a * p >= 0
  BY <1>1
<1>4. p <= 10000 => a * (10000 - p) >= 0
  <2>1. p <= 10000 => 10000 - p \in Nat
    OBVIOUS
  <2> QED BY <1>1, <2>1
<1> DEFINE u == a * p
           v == a * (10000 - p)
           w == 10000 * a
<1>5. u \in Int /\ v \in Int /\ w \in Int /\ v = w - u
  BY <1>2
<1>6. v >= 0 => u <= w
  <2> HIDE DEF u, v, w
  <2> QED BY <1>5
<1> QED BY <1>2, <1>3, <1>4, <1>6

LEMMA FeeIsAmount ==
    ASSUME NEW payment_amount \in Nat
    PROVE  /\ calculate_transaction_fee(payment_amount) \in Int
           /\ FeeIsNoMoreThanPaid => calculate_transaction_fee(payment_amount) <= payment_amount
           /\ FeeIsAShare => calculate_transaction_fee(payment_amount) >= 0
<1>1. FeePercent \in Int
  BY AmountsAssumption
<1>2. /\ payment_amount * FeePercent \in Int
      /\ FeePercent <= 10000 => payment_amount * FeePercent <= 10000 * payment_amount
      /\ FeePercent >= 0 => payment_amount * FeePercent >= 0
  BY <1>1, ScaledWithin
<1> DEFINE n == payment_amount * FeePercent
<1> HIDE DEF n
<1>3. /\ RoundHalfEven(n, 10000) \in Int
      /\ FeePercent <= 10000 => RoundHalfEven(n, 10000) <= payment_amount
      /\ FeePercent >= 0 => RoundHalfEven(n, 10000) >= 0
  BY <1>2, RoundHalfEvenBounds DEF n
<1>4. /\ FeeIsNoMoreThanPaid => FeePercent <= 10000
      /\ FeeIsAShare => FeePercent >= 0
  BY <1>1 DEF FeeIsNoMoreThanPaid, FeeIsAShare
<1>5. calculate_transaction_fee(payment_amount) = IF Facilitation THEN RoundHalfEven(n, 10000) ELSE 0
  BY DEF calculate_transaction_fee, n
<1> QED BY <1>3, <1>4, <1>5

(* A percentage from 0 to 100, its two decimals included, charges a fee    *)
(* that is never negative and never more than the payment, rounded half to *)
(* even to the cent.  Nothing in the code keeps a tier to that range.      *)
LEMMA FeeWithinPayment ==
    ASSUME FeeIsAShare, NEW payment_amount \in Nat
    PROVE  /\ calculate_transaction_fee(payment_amount) \in Nat
           /\ calculate_transaction_fee(payment_amount) <= payment_amount
<1>1. FeeIsNoMoreThanPaid
  BY DEF FeeIsAShare, FeeIsNoMoreThanPaid
<1> QED BY <1>1, FeeIsAmount

-----------------------------------------------------------------------------
(* Type correctness.  A commit writes the transaction its request named,   *)
(* so the type invariant needs NamesItsRow to be inductive.                *)

LEMMA NewRowType ==
    ASSUME NEW type \in {"customer_payment", "withdrawal"}, NEW status \in Statuses,
           NEW amount \in Int, NEW net \in Int, NEW initiator \in Users \cup {None},
           NEW method \in Methods \cup {None}
    PROVE  NewRow(type, status, amount, net, initiator, method) \in Row
BY DEF NewRow, Row

LEMMA ChangedRowType ==
    ASSUME NEW row \in Row, NEW status \in Statuses, NEW approver \in Users \cup {None}
    PROVE  /\ [row EXCEPT !.status = status] \in Row
           /\ [row EXCEPT !.status = status, !.approved_by = approver] \in Row
BY DEF Row

(* What fail_payment_transaction makes of the row it locked.               *)
LEMMA WritesOff ==
    ASSUME txns \in [TxnIds -> Row], NEW w \in Workers, ctx[w].txn \in TxnIds,
           fail_payment_transaction_commit(w)
    PROVE  \E row \in Row :
              /\ txns' = [txns EXCEPT ![ctx[w].txn] = row]
              /\ row.status = "failed" /\ row.type = txns[ctx[w].txn].type
              /\ row.amount = txns[ctx[w].txn].amount /\ row.net = txns[ctx[w].txn].net
              /\ row.initiated_by = txns[ctx[w].txn].initiated_by
              /\ row.approved_by = txns[ctx[w].txn].approved_by
              /\ row.written_off <=> txns[ctx[w].txn].written_off \/ ctx[w].row.status # "failed"
<1> DEFINE old == txns[ctx[w].txn]
           off == old.written_off \/ ctx[w].row.status # "failed"
           row == [old EXCEPT !.status = "failed", !.written_off = off]
<1>1. old \in Row /\ off \in BOOLEAN
  BY DEF Row
<1>2. txns' = [txns EXCEPT ![ctx[w].txn] = row]
  BY DEF fail_payment_transaction_commit
<1> HIDE DEF old, off
<1>3. row \in Row
  BY <1>1 DEF Row, Statuses
<1>4. /\ row.status = "failed" /\ row.type = old.type /\ row.amount = old.amount /\ row.net = old.net
      /\ row.initiated_by = old.initiated_by /\ row.approved_by = old.approved_by
      /\ row.written_off = off
  BY <1>1 DEF Row
<1> HIDE DEF row
<1> QED BY <1>2, <1>3, <1>4 DEF old, off

LEMMA NoRowType == NoRow \in Row
BY DEF NoRow, NewRow, Row

LEMMA NoRequestType == NoRequest \in Request
BY NoRowType DEF NoRequest, Request, Phases

LEMMA TypeInit == StoreInit => TypeInv
<1> SUFFICES ASSUME StoreInit PROVE TypeInv
  OBVIOUS
<1>1. audits \in Seq(AuditRow)
  BY EmptySeq DEF StoreInit
<1>2. txns \in [TxnIds -> Row]
  BY NoRowType DEF StoreInit
<1>3. ctx \in [Workers -> Request]
  BY NoRequestType DEF StoreInit
<1>4. NamesItsRow
  BY DEF StoreInit, NamesItsRow, Idle, NoRequest
<1> QED BY <1>1, <1>2, <1>3, <1>4 DEF StoreInit, TypeInv, TypeOK, StoreTypeOK

(* The end of a request, and the balance it saves, keep the types.         *)
LEMMA EndRequestType ==
    ASSUME TypeInv, NEW w \in Workers, EndRequest(w)
    PROVE  /\ ctx' \in [Workers -> Request]
           /\ rowLock' \in [TxnIds -> Workers \cup {None}]
           /\ NamesItsRow'
<1>1. ctx' \in [Workers -> Request]
  BY NoRequestType DEF TypeInv, TypeOK, StoreTypeOK, EndRequest
<1>2. rowLock' \in [TxnIds -> Workers \cup {None}]
  BY DEF TypeInv, TypeOK, StoreTypeOK, EndRequest
<1>3. NamesItsRow'
  BY DEF TypeInv, TypeOK, StoreTypeOK, EndRequest, NamesItsRow, Idle, NoRequest
<1> QED BY <1>1, <1>2, <1>3

LEMMA SaveBalanceType ==
    ASSUME TypeInv, NEW w \in Workers, ~ Idle(w), NEW delta \in Int, SaveBalance(w, delta)
    PROVE  balance' \in Int /\ audits' \in Seq(AuditRow)
<1>1. ctx[w].seen \in Int /\ ctx[w].txn \in TxnIds
  BY DEF TypeInv, TypeOK, StoreTypeOK, Request, NamesItsRow
<1>2. [txn |-> ctx[w].txn, previous |-> ctx[w].seen, amount |-> delta,
       new |-> ctx[w].seen + delta] \in AuditRow
  BY <1>1 DEF AuditRow
<1>3. audits' \in Seq(AuditRow)
  BY <1>2, AppendProperties DEF SaveBalance, TypeInv, TypeOK, StoreTypeOK
<1> QED BY <1>1, <1>3 DEF SaveBalance

(* The first steps of the requests.                                        *)
LEMMA ReadWalletType ==
    ASSUME TypeInv, NEW w \in Workers, NEW op, NEW t \in TxnIds, NEW amount \in Int,
           NEW net \in Int, NEW user \in Users \cup {None}, NEW method \in Methods \cup {None},
           ReadWallet(w, op, t, amount, net, user, method)
    PROVE  TypeInv'
<1> DEFINE request == [op |-> op, at |-> "read", txn |-> t, amount |-> amount,
                       net |-> net, user |-> user, method |-> method,
                       seen |-> balance, row |-> NoRow]
<1>1. request \in Request
  BY NoRowType DEF ReadWallet, Request, Phases, TypeInv, TypeOK, StoreTypeOK
<1>2. ctx' = [ctx EXCEPT ![w] = request] /\ UNCHANGED <<balance, txns, audits, rowLock>>
  BY DEF ReadWallet
<1>3. request.txn \in TxnIds
  OBVIOUS
<1> HIDE DEF request
<1>4. StoreTypeOK'
  BY <1>1, <1>2 DEF TypeInv, TypeOK, StoreTypeOK
<1>5. NamesItsRow'
  BY <1>2, <1>3 DEF TypeInv, TypeOK, StoreTypeOK, NamesItsRow, Idle
<1> QED BY <1>4, <1>5 DEF TypeInv, TypeOK

LEMMA AskForRowType ==
    ASSUME TypeInv, NEW w \in Workers, NEW op, NEW t \in TxnIds,
           NEW user \in Users \cup {None}, AskForRow(w, op, t, user)
    PROVE  TypeInv'
<1> DEFINE request == [NoRequest EXCEPT !.op = op, !.at = "wait", !.txn = t, !.user = user]
<1>1. request \in Request /\ request.txn \in TxnIds
  BY NoRequestType, NoRowType DEF AskForRow, NoRequest, Request, Phases
<1>2. ctx' = [ctx EXCEPT ![w] = request] /\ UNCHANGED <<balance, txns, audits, rowLock>>
  BY DEF AskForRow
<1> HIDE DEF request
<1>3. StoreTypeOK'
  BY <1>1, <1>2 DEF TypeInv, TypeOK, StoreTypeOK
<1>4. NamesItsRow'
  BY <1>1, <1>2 DEF TypeInv, TypeOK, StoreTypeOK, NamesItsRow, Idle
<1> QED BY <1>3, <1>4 DEF TypeInv, TypeOK

(* Every step of a worker keeps the type invariant.                        *)
LEMMA CallType == ASSUME TypeInv, NEW w \in Workers, Call(w) PROVE TypeInv'
<1>1. \A n \in PaymentAmounts \cup WithdrawalAmounts : n \in Int
  BY AmountsAssumption
<1>2. \A n \in PaymentAmounts : n - calculate_transaction_fee(n) \in Int
  BY AmountsAssumption, FeeIsAmount
<1>3. \A t \in Unused : t \in TxnIds
  BY DEF Unused
<1>4. CASE credit_wallet(w)
  BY <1>1, <1>3, <1>4, ReadWalletType DEF credit_wallet
<1>5. CASE debit_wallet(w)
  BY <1>1, <1>3, <1>5, ReadWalletType DEF debit_wallet
<1>6. CASE process_customer_payment(w)
  BY <1>1, <1>2, <1>3, <1>6, ReadWalletType DEF process_customer_payment
<1>7. CASE request_withdrawal(w)
  BY <1>1, <1>3, <1>7, ReadWalletType DEF request_withdrawal
<1>8. CASE approve_withdrawal(w)
  BY <1>8, AskForRowType DEF approve_withdrawal
<1>9. CASE complete_withdrawal(w)
  BY <1>9, AskForRowType DEF complete_withdrawal
<1>10. CASE fail_withdrawal(w)
  BY <1>10, AskForRowType DEF fail_withdrawal
<1>11. CASE fail_payment_transaction(w)
  BY <1>11, AskForRowType DEF fail_payment_transaction
<1> QED BY <1>4, <1>5, <1>6, <1>7, <1>8, <1>9, <1>10, <1>11 DEF Call

LEMMA LockRowType == ASSUME TypeInv, NEW w \in Workers, LockRow(w) PROVE TypeInv'
<1>1. ctx[w] \in Request /\ ctx[w].txn \in TxnIds
  BY DEF LockRow, TypeInv, TypeOK, StoreTypeOK, NamesItsRow, Idle
<1>2. txns[ctx[w].txn] \in Row
  BY <1>1 DEF TypeInv, TypeOK, StoreTypeOK
<1>3. [ctx[w] EXCEPT !.at = "locked", !.row = txns[ctx[w].txn]] \in Request
  BY <1>1, <1>2 DEF Request, Phases
<1>4. ctx' = [ctx EXCEPT ![w] = [ctx[w] EXCEPT !.at = "locked", !.row = txns[ctx[w].txn]]]
  BY DEF LockRow, TypeInv, TypeOK, StoreTypeOK
<1>5. ctx' \in [Workers -> Request]
  BY <1>3, <1>4 DEF TypeInv, TypeOK, StoreTypeOK
<1>6. rowLock' \in [TxnIds -> Workers \cup {None}]
  BY <1>1 DEF LockRow, TypeInv, TypeOK, StoreTypeOK
<1>7. NamesItsRow'
  BY <1>1 DEF LockRow, TypeInv, TypeOK, StoreTypeOK, NamesItsRow, Idle, Request
<1> QED BY <1>5, <1>6, <1>7 DEF LockRow, tables, TypeInv, TypeOK, StoreTypeOK

LEMMA ProceedType == ASSUME TypeInv, NEW w \in Workers, Proceed(w) PROVE TypeInv'
<1> USE DEF TypeInv, TypeOK, StoreTypeOK
<1>1. /\ ctx[w] \in Request
      /\ ctx[w].amount \in Int /\ - ctx[w].amount \in Int /\ ctx[w].net \in Int /\ ctx[w].user \in Users \cup {None}
      /\ ctx[w].row \in Row /\ ctx[w].row.amount \in Int
  BY DEF Request, Row
<1>2. ~ Idle(w) /\ ctx[w].txn \in TxnIds
  BY DEF Proceed, credit_wallet_commit, debit_wallet_commit, process_customer_payment_commit,
         request_withdrawal_commit, refuse_locked_row, approve_withdrawal_commit,
         complete_withdrawal_commit, fail_withdrawal_read, fail_withdrawal_commit,
         fail_payment_transaction_commit, At, Idle, NamesItsRow
(* The methods that insert a row.                                          *)
<1>3. ASSUME NEW type \in {"customer_payment", "withdrawal"}, NEW status \in Statuses,
             NEW user \in Users \cup {None}, NEW delta \in Int,
             txns' = [txns EXCEPT ![ctx[w].txn] =
                        NewRow(type, status, ctx[w].amount, ctx[w].net, user, None)],
             SaveBalance(w, delta), EndRequest(w)
      PROVE  TypeInv'
  <2>1. NewRow(type, status, ctx[w].amount, ctx[w].net, user, None) \in Row
    BY <1>1, NewRowType
  <2>2. txns' \in [TxnIds -> Row]
    BY <2>1, <1>3
  <2> QED BY <2>2, <1>2, <1>3, EndRequestType, SaveBalanceType
(* The methods that change the status of one.                              *)
<1>4. ASSUME NEW status \in Statuses, SaveStatus(w, status)
      PROVE  txns' \in [TxnIds -> Row]
  <2>1. txns' = [txns EXCEPT ![ctx[w].txn] = [txns[ctx[w].txn] EXCEPT !.status = status]]
    BY <1>2, <1>4 DEF SaveStatus
  <2> QED BY <1>2, <2>1, ChangedRowType
<1>5. CASE credit_wallet_commit(w)
  BY <1>1, <1>3, <1>5 DEF credit_wallet_commit, Statuses
<1>6. CASE debit_wallet_commit(w)
  BY <1>1, <1>3, <1>6 DEF debit_wallet_commit, Statuses
<1>7. CASE process_customer_payment_commit(w)
  BY <1>1, <1>3, <1>7 DEF process_customer_payment_commit, Statuses
<1>8. CASE request_withdrawal_commit(w)
  BY <1>1, <1>3, <1>8 DEF request_withdrawal_commit, Statuses
<1>9. CASE refuse_locked_row(w)
  BY <1>9, EndRequestType DEF refuse_locked_row, tables
<1>10. CASE approve_withdrawal_commit(w)
  <2>1. txns' \in [TxnIds -> Row]
    <3>1. txns' = [txns EXCEPT ![ctx[w].txn] =
                     [txns[ctx[w].txn] EXCEPT !.status = "completed", !.approved_by = ctx[w].user]]
      BY <1>2, <1>10 DEF approve_withdrawal_commit
    <3> QED BY <1>1, <1>2, <3>1, ChangedRowType DEF Statuses
  <2> QED BY <2>1, <1>10, EndRequestType DEF approve_withdrawal_commit
<1>11. CASE complete_withdrawal_commit(w)
  BY <1>4, <1>11, EndRequestType DEF complete_withdrawal_commit, Statuses
<1>12. CASE fail_withdrawal_read(w)
  <2>1. [ctx[w] EXCEPT !.at = "read", !.seen = balance] \in Request
    BY <1>1 DEF Request, Phases
  <2>2. ctx' \in [Workers -> Request]
    BY <2>1, <1>12 DEF fail_withdrawal_read
  <2>3. NamesItsRow'
    BY <1>1, <1>2, <1>12 DEF fail_withdrawal_read, NamesItsRow, Idle, Request
  <2> QED BY <2>2, <2>3, <1>12 DEF fail_withdrawal_read
<1>13. CASE fail_withdrawal_commit(w)
  BY <1>1, <1>2, <1>4, <1>13, EndRequestType, SaveBalanceType DEF fail_withdrawal_commit, Statuses
<1>14. CASE fail_payment_transaction_commit(w)
  <2>1. txns' \in [TxnIds -> Row]
    BY <1>2, <1>14, WritesOff
  <2> QED BY <2>1, <1>14, EndRequestType DEF fail_payment_transaction_commit
<1> QED BY <1>5, <1>6, <1>7, <1>8, <1>9, <1>10, <1>11, <1>12, <1>13, <1>14 DEF Proceed

LEMMA TypeNext == TypeInv /\ [Next]_storeVars => TypeInv'
<1> SUFFICES ASSUME TypeInv, [Next]_storeVars PROVE TypeInv'
  OBVIOUS
<1>1. CASE UNCHANGED storeVars
  BY <1>1 DEF storeVars, TypeInv, TypeOK, StoreTypeOK, NamesItsRow, Idle
<1>2. ASSUME NEW w \in Workers, Rollback(w) PROVE TypeInv'
  BY <1>2, EndRequestType DEF Rollback, tables, TypeInv, TypeOK, StoreTypeOK
<1> QED BY <1>1, <1>2, CallType, LockRowType, ProceedType DEF Next

(* The balance, the rows, the audit trail, the locks and the requests of   *)
(* WalletService always have the shapes the models give them.              *)
THEOREM TypeCorrect == Spec => []TypeOK
<1>1. TypeInv => TypeOK
  BY DEF TypeInv
<1> QED BY <1>1, TypeInit, TypeNext, PTL DEF Spec

-----------------------------------------------------------------------------
(* The balance never goes below zero.  A debit subtracts from the balance  *)
(* its request read, which it has compared with the amount: what another   *)
(* worker did to the balance since is overwritten, not added up.           *)

Solvent(w) ==
    /\ ctx[w].seen >= 0 /\ ctx[w].amount >= 0 /\ ctx[w].net >= 0 /\ ctx[w].row.amount >= 0
    /\ ctx[w].op \in {"debit_wallet", "request_withdrawal"} /\ ctx[w].at = "read"
         => ctx[w].amount <= ctx[w].seen

MoneyInv ==
    /\ balance >= 0
    /\ \A t \in TxnIds : txns[t].amount >= 0
    /\ \A w \in Workers : Solvent(w)

LEMMA MoneyInit == StoreInit => MoneyInv
BY DEF StoreInit, MoneyInv, Solvent, NoRequest, NoRow, NewRow

LEMMA RequestEnds ==
    ASSUME TypeInv, MoneyInv, NEW w \in Workers, EndRequest(w)
    PROVE  \A v \in Workers : Solvent(v)'
<1>1. ctx' = [ctx EXCEPT ![w] = NoRequest] /\ ctx \in [Workers -> Request]
  BY DEF EndRequest, TypeInv, TypeOK, StoreTypeOK
<1>2. ASSUME NEW v \in Workers, v # w PROVE Solvent(v)'
  BY <1>1, <1>2 DEF MoneyInv, Solvent
<1>3. Solvent(w)'
  BY <1>1 DEF Solvent, NoRequest, NoRow, NewRow
<1> QED BY <1>2, <1>3

LEMMA RequestReads ==
    ASSUME TypeInv, MoneyInv, NEW w \in Workers, NEW op, NEW t, NEW amount \in Nat,
           NEW net \in Nat, NEW user, NEW method,
           ReadWallet(w, op, t, amount, net, user, method),
           op \in {"debit_wallet", "request_withdrawal"} => balance >= amount
    PROVE  MoneyInv'
<1>1. ctx' = [ctx EXCEPT ![w] = [op |-> op, at |-> "read", txn |-> t, amount |-> amount,
                       net |-> net, user |-> user, method |-> method,
                       seen |-> balance, row |-> NoRow]]
      /\ UNCHANGED <<balance, txns>> /\ ctx \in [Workers -> Request]
  BY DEF ReadWallet, TypeInv, TypeOK, StoreTypeOK
<1>2. ASSUME NEW v \in Workers, v # w PROVE Solvent(v)'
  BY <1>1, <1>2 DEF MoneyInv, Solvent
<1>3. balance \in Int /\ balance >= 0
  BY DEF MoneyInv, TypeInv, TypeOK, StoreTypeOK
<1>4. Solvent(w)'
  BY <1>1, <1>3 DEF Solvent, NoRow, NewRow
<1> QED BY <1>1, <1>2, <1>4 DEF MoneyInv

LEMMA RequestAsks ==
    ASSUME TypeInv, MoneyInv, NEW w \in Workers, NEW op, NEW t, NEW user, AskForRow(w, op, t, user)
    PROVE  MoneyInv'
<1>1. ctx' = [ctx EXCEPT ![w] =
                [NoRequest EXCEPT !.op = op, !.at = "wait", !.txn = t, !.user = user]]
      /\ UNCHANGED <<balance, txns>> /\ ctx \in [Workers -> Request]
  BY DEF AskForRow, TypeInv, TypeOK, StoreTypeOK
<1>2. ASSUME NEW v \in Workers, v # w PROVE Solvent(v)'
  BY <1>1, <1>2 DEF MoneyInv, Solvent
<1>3. Solvent(w)'
  BY <1>1 DEF Solvent, NoRequest, NoRow, NewRow
<1> QED BY <1>1, <1>2, <1>3 DEF MoneyInv

LEMMA CallMoney ==
    ASSUME FeeIsNoMoreThanPaid, TypeInv, MoneyInv, NEW w \in Workers, Call(w)
    PROVE  MoneyInv'
<1>1. PaymentAmounts \subseteq Nat /\ WithdrawalAmounts \subseteq Nat
  BY AmountsAssumption
<1>2. \A n \in PaymentAmounts : n - calculate_transaction_fee(n) \in Nat
  <2>1. \A n \in PaymentAmounts : /\ calculate_transaction_fee(n) \in Int
                                  /\ calculate_transaction_fee(n) <= n /\ n \in Nat
    BY <1>1, FeeIsAmount
  <2>2. \A n \in Nat, fee \in Int : fee <= n => n - fee \in Nat
    OBVIOUS
  <2> QED BY <2>1, <2>2
<1>3. CASE credit_wallet(w)
  BY <1>1, <1>3, RequestReads DEF credit_wallet
<1>4. CASE debit_wallet(w)
  BY <1>1, <1>4, RequestReads DEF debit_wallet
<1>5. CASE process_customer_payment(w)
  BY <1>1, <1>2, <1>5, RequestReads DEF process_customer_payment
<1>6. CASE request_withdrawal(w)
  BY <1>1, <1>6, RequestReads DEF request_withdrawal
<1>7. CASE approve_withdrawal(w) \/ complete_withdrawal(w) \/ fail_withdrawal(w)
           \/ fail_payment_transaction(w)
  BY <1>7, RequestAsks DEF approve_withdrawal, complete_withdrawal, fail_withdrawal,
                           fail_payment_transaction
<1> QED BY <1>3, <1>4, <1>5, <1>6, <1>7 DEF Call

LEMMA LockRowMoney == ASSUME TypeInv, MoneyInv, NEW w \in Workers, LockRow(w) PROVE MoneyInv'
<1>1. ctx[w].txn \in TxnIds /\ ctx \in [Workers -> Request]
  BY DEF LockRow, TypeInv, TypeOK, StoreTypeOK, NamesItsRow, Idle
<1>2. UNCHANGED <<balance, txns>>
  BY DEF LockRow, tables
<1>3. ASSUME NEW v \in Workers, v # w PROVE Solvent(v)'
  BY <1>1, <1>3 DEF LockRow, MoneyInv, Solvent
<1>4. Solvent(w)'
  BY <1>1 DEF LockRow, MoneyInv, Solvent, Request
<1> QED BY <1>2, <1>3, <1>4 DEF MoneyInv

LEMMA ProceedMoney == ASSUME TypeInv, MoneyInv, NEW w \in Workers, Proceed(w) PROVE MoneyInv'
<1>1. /\ balance \in Int /\ balance >= 0
      /\ ctx[w].seen \in Int /\ ctx[w].amount \in Int /\ ctx[w].net \in Int
      /\ ctx[w].row.amount \in Int /\ ctx[w].user \in Users \cup {None}
      /\ Solvent(w)
  BY DEF TypeInv, TypeOK, StoreTypeOK, Request, Row, MoneyInv
<1>2. ASSUME NEW type \in {"customer_payment", "withdrawal"}, NEW status \in Statuses,
             NEW user \in Users \cup {None}, NEW delta \in Int, ctx[w].seen + delta >= 0,
             txns' = [txns EXCEPT ![ctx[w].txn] =
                        NewRow(type, status, ctx[w].amount, ctx[w].net, user, None)],
             SaveBalance(w, delta), EndRequest(w)
      PROVE  MoneyInv'
  <2>1. \A t \in TxnIds : txns'[t].amount >= 0
    BY <1>1, <1>2 DEF TypeInv, TypeOK, StoreTypeOK, MoneyInv, Solvent, NewRow
  <2>2. balance' >= 0
    BY <1>2 DEF SaveBalance
  <2> QED BY <2>1, <2>2, <1>2, RequestEnds DEF MoneyInv
<1>3. ASSUME NEW status, SaveStatus(w, status)
      PROVE  \A t \in TxnIds : txns'[t].amount >= 0
  BY <1>3 DEF TypeInv, TypeOK, StoreTypeOK, MoneyInv, SaveStatus, Row
<1>4. CASE credit_wallet_commit(w)
  <2>1. ctx[w].amount \in Int /\ ctx[w].seen + (ctx[w].amount) >= 0
    BY <1>1, <1>4 DEF Solvent, At, credit_wallet_commit
  <2> QED BY <1>1, <1>2, <1>4, <2>1 DEF credit_wallet_commit, Statuses
<1>5. CASE debit_wallet_commit(w)
  <2>1. - ctx[w].amount \in Int /\ ctx[w].seen + (- ctx[w].amount) >= 0
    BY <1>1, <1>5 DEF Solvent, At, debit_wallet_commit
  <2> QED BY <1>1, <1>2, <1>5, <2>1 DEF debit_wallet_commit, Statuses
<1>6. CASE process_customer_payment_commit(w)
  <2>1. ctx[w].net \in Int /\ ctx[w].seen + (ctx[w].net) >= 0
    BY <1>1, <1>6 DEF Solvent, At, process_customer_payment_commit
  <2> QED BY <1>1, <1>2, <1>6, <2>1 DEF process_customer_payment_commit, Statuses
<1>7. CASE request_withdrawal_commit(w)
  <2>1. - ctx[w].amount \in Int /\ ctx[w].seen + (- ctx[w].amount) >= 0
    BY <1>1, <1>7 DEF Solvent, At, request_withdrawal_commit
  <2> QED BY <1>1, <1>2, <1>7, <2>1 DEF request_withdrawal_commit, Statuses
<1>8. CASE refuse_locked_row(w)
  BY <1>8, RequestEnds DEF refuse_locked_row, tables, MoneyInv
<1>9. CASE approve_withdrawal_commit(w)
  <2>1. \A t \in TxnIds : txns'[t].amount >= 0
    BY <1>9 DEF approve_withdrawal_commit, TypeInv, TypeOK, StoreTypeOK, MoneyInv, Row
  <2> QED BY <1>9, <2>1, RequestEnds DEF approve_withdrawal_commit, MoneyInv
<1>10. CASE complete_withdrawal_commit(w)
  BY <1>3, <1>10, RequestEnds DEF complete_withdrawal_commit, MoneyInv
<1>11. CASE fail_withdrawal_read(w)
  <2>1. ASSUME NEW v \in Workers, v # w PROVE Solvent(v)'
    BY <1>11, <2>1 DEF fail_withdrawal_read, TypeInv, TypeOK, StoreTypeOK, MoneyInv, Solvent
  <2>2. Solvent(w)'
    BY <1>1, <1>11 DEF fail_withdrawal_read, At, TypeInv, TypeOK, StoreTypeOK, Request, Solvent
  <2> QED BY <1>11, <2>1, <2>2 DEF fail_withdrawal_read, MoneyInv
<1>12. CASE fail_withdrawal_commit(w)
  BY <1>1, <1>3, <1>12, RequestEnds DEF fail_withdrawal_commit, SaveBalance, MoneyInv, Solvent
<1>13. CASE fail_payment_transaction_commit(w)
  <2>1. txns \in [TxnIds -> Row] /\ ctx[w].txn \in TxnIds
    BY <1>13 DEF TypeInv, TypeOK, StoreTypeOK, NamesItsRow, Idle, fail_payment_transaction_commit, At
  <2>2. \A t \in TxnIds : txns'[t].amount = txns[t].amount
    BY <1>13, <2>1, WritesOff
  <2> QED BY <2>2, <1>13, RequestEnds DEF fail_payment_transaction_commit, MoneyInv
<1> QED BY <1>4, <1>5, <1>6, <1>7, <1>8, <1>9, <1>10, <1>11, <1>12, <1>13 DEF Proceed

LEMMA MoneyNext ==
    ASSUME FeeIsNoMoreThanPaid, TypeInv, MoneyInv, [Next]_storeVars
    PROVE  MoneyInv'
<1>1. CASE UNCHANGED storeVars
  BY <1>1 DEF storeVars, MoneyInv, Solvent
<1>2. ASSUME NEW w \in Workers, Rollback(w) PROVE MoneyInv'
  BY <1>2, RequestEnds DEF Rollback, tables, MoneyInv
<1> QED BY <1>1, <1>2, CallMoney, LockRowMoney, ProceedMoney DEF Next

(* However the requests of any number of workers interleave, WalletService *)
(* never leaves the wallet below zero, provided the tier takes at most 100 *)
(* percent: nothing in the code says so, and a payment with a larger fee   *)
(* is a debit nobody compared with the balance.                            *)
THEOREM NeverOverdrawn ==
    ASSUME FeeIsNoMoreThanPaid
    PROVE  Spec => []NonNegativeBalance
<1>1. MoneyInv => NonNegativeBalance
  BY DEF MoneyInv, NonNegativeBalance
<1>2. TypeInv /\ MoneyInv /\ [Next]_storeVars => MoneyInv'
  BY MoneyNext
<1> QED BY <1>1, <1>2, TypeInit, TypeNext, MoneyInit, PTL DEF Spec

-----------------------------------------------------------------------------
(* The newest audit record names the present balance.  Only SaveBalance    *)
(* changes either, and it writes the same value to both.                   *)

LEMMA SaveBalanceAudits ==
    ASSUME TypeInv, NEW w \in Workers, ~ Idle(w), NEW delta \in Int, SaveBalance(w, delta)
    PROVE  BalanceIsLastAudit'
<1> DEFINE record == [txn |-> ctx[w].txn, previous |-> ctx[w].seen,
                      amount |-> delta, new |-> ctx[w].seen + delta]
<1>1. record \in AuditRow /\ audits \in Seq(AuditRow)
  BY DEF TypeInv, TypeOK, StoreTypeOK, NamesItsRow, Request, AuditRow
<1>2. audits' = Append(audits, record) /\ balance' = record.new
  BY DEF SaveBalance
<1> HIDE DEF record
<1>3. audits' # <<>> /\ audits'[Len(audits')] = record
  BY <1>1, <1>2, AppendProperties
<1> QED BY <1>2, <1>3 DEF BalanceIsLastAudit

LEMMA LastAuditNext == TypeInv /\ BalanceIsLastAudit /\ [Next]_storeVars => BalanceIsLastAudit'
<1> SUFFICES ASSUME TypeInv, BalanceIsLastAudit, [Next]_storeVars PROVE BalanceIsLastAudit'
  OBVIOUS
<1>1. ASSUME UNCHANGED <<balance, audits>> PROVE BalanceIsLastAudit'
  BY <1>1 DEF BalanceIsLastAudit
<1>2. CASE UNCHANGED storeVars
  BY <1>1, <1>2 DEF storeVars
<1>3. ASSUME NEW w \in Workers, Call(w) PROVE UNCHANGED <<balance, audits>>
  BY <1>3 DEF Call, credit_wallet, debit_wallet, process_customer_payment, request_withdrawal,
              approve_withdrawal, complete_withdrawal, fail_withdrawal,
              fail_payment_transaction, ReadWallet, AskForRow
<1>4. ASSUME NEW w \in Workers, LockRow(w) \/ Rollback(w) PROVE UNCHANGED <<balance, audits>>
  BY <1>4 DEF LockRow, Rollback, tables
<1>5. ASSUME NEW w \in Workers, Proceed(w) PROVE BalanceIsLastAudit'
  <2>1. ctx[w].amount \in Int /\ - ctx[w].amount \in Int /\ ctx[w].net \in Int
        /\ ctx[w].row.amount \in Int
    BY DEF TypeInv, TypeOK, StoreTypeOK, Request, Row
  <2>2. CASE credit_wallet_commit(w)
    BY <2>1, <2>2, SaveBalanceAudits DEF credit_wallet_commit, At, Idle
  <2>3. CASE debit_wallet_commit(w)
    BY <2>1, <2>3, SaveBalanceAudits DEF debit_wallet_commit, At, Idle
  <2>4. CASE process_customer_payment_commit(w)
    BY <2>1, <2>4, SaveBalanceAudits DEF process_customer_payment_commit, At, Idle
  <2>5. CASE request_withdrawal_commit(w)
    BY <2>1, <2>5, SaveBalanceAudits DEF request_withdrawal_commit, At, Idle
  <2>6. CASE fail_withdrawal_commit(w)
    BY <2>1, <2>6, SaveBalanceAudits DEF fail_withdrawal_commit, At, Idle
  <2>7. CASE refuse_locked_row(w) \/ approve_withdrawal_commit(w)
             \/ complete_withdrawal_commit(w) \/ fail_withdrawal_read(w)
             \/ fail_payment_transaction_commit(w)
    BY <1>1, <2>7 DEF refuse_locked_row, approve_withdrawal_commit, complete_withdrawal_commit,
                      fail_withdrawal_read, fail_payment_transaction_commit, tables
  <2> QED BY <1>5, <2>2, <2>3, <2>4, <2>5, <2>6, <2>7 DEF Proceed
<1> QED BY <1>1, <1>2, <1>3, <1>4, <1>5 DEF Next

(* Also when updates are lost, the newest audit record of WalletService    *)
(* names the balance the wallet has.                                       *)
THEOREM LastAuditIsBalance == Spec => []BalanceIsLastAudit
<1>1. StoreInit => BalanceIsLastAudit
  BY DEF StoreInit, BalanceIsLastAudit
<1> QED BY <1>1, TypeInit, TypeNext, LastAuditNext, PTL DEF Spec

-----------------------------------------------------------------------------
(* A settled or failed withdrawal keeps its status.  A row is written by   *)
(* the request that inserts it, which nobody else can name yet, or by the  *)
(* one that holds its lock, whose copy of the row is therefore the row.    *)

InsertOps == {"credit_wallet", "debit_wallet", "process_customer_payment", "request_withdrawal"}

(* The phases a request goes through.                                      *)
PhaseInv ==
    \A w \in Workers :
        \/ Idle(w)
        \/ ctx[w].op \in InsertOps /\ ctx[w].at = "read"
        \/ ctx[w].op \in LocksItsRow /\ ctx[w].at \in {"wait", "locked"}
        \/ At(w, "fail_withdrawal", "read")

(* The row a request is about to insert is not there and is its own.       *)
InsertInv ==
    \A w \in Workers :
        ~ Idle(w) /\ ctx[w].op \in InsertOps =>
            /\ txns[ctx[w].txn].status = "absent"
            /\ \A v \in Workers : ctx[v].txn = ctx[w].txn => v = w

(* The row a request locks exists.                                         *)
ExistsInv ==
    \A w \in Workers :
        ~ Idle(w) /\ ctx[w].op \in LocksItsRow =>
            txns[ctx[w].txn].status # "absent"

(* While it is locked, the copy is the row.                                *)
CopyInv ==
    \A w \in Workers :
        ctx[w].op \in LocksItsRow /\ ctx[w].at \in {"locked", "read"} =>
            /\ rowLock[ctx[w].txn] = w
            /\ ctx[w].row = txns[ctx[w].txn]
            /\ ctx[w].at = "read" => PendingWithdrawal(ctx[w].row)

(* What was written off failed, and no request of WalletService makes a    *)
(* failed row anything else.                                               *)
WrittenOffInv == \A t \in TxnIds : txns[t].written_off => txns[t].status = "failed"

RowInv == PhaseInv /\ InsertInv /\ ExistsInv /\ CopyInv /\ WrittenOffInv

LEMMA RowInit == StoreInit => RowInv
BY DEF StoreInit, RowInv, PhaseInv, InsertInv, ExistsInv, CopyInv, WrittenOffInv, Idle, NoRequest,
       NoRow, NewRow

(* A request that starts.                                                  *)
LEMMA InsertStarts ==
    ASSUME TypeInv, RowInv, NEW w \in Workers, NEW op \in InsertOps, NEW t \in Unused,
           NEW amount, NEW net, NEW user, NEW method,
           ReadWallet(w, op, t, amount, net, user, method)
    PROVE  RowInv'
<1> DEFINE request == [op |-> op, at |-> "read", txn |-> t, amount |-> amount,
                       net |-> net, user |-> user, method |-> method,
                       seen |-> balance, row |-> NoRow]
<1>1. /\ ctx' = [ctx EXCEPT ![w] = request]
      /\ UNCHANGED <<txns, rowLock>>
      /\ ctx \in [Workers -> Request]
  BY DEF ReadWallet, TypeInv, TypeOK, StoreTypeOK
<1>2. request.op = op /\ request.at = "read" /\ request.txn = t
  OBVIOUS
<1>3. op \notin LocksItsRow
  BY DEF InsertOps, LocksItsRow
<1>4. txns[t].status = "absent" /\ \A v \in Workers : ctx[v].txn # t
  BY DEF Unused
<1> HIDE DEF request
<1>5. PhaseInv'
  BY <1>1, <1>2 DEF RowInv, PhaseInv, Idle, At
<1>6. InsertInv'
  BY <1>1, <1>2, <1>4 DEF RowInv, InsertInv, Idle
<1>7. ExistsInv'
  BY <1>1, <1>2, <1>3 DEF RowInv, ExistsInv, Idle
<1>8. CopyInv'
  BY <1>1, <1>2, <1>3 DEF RowInv, CopyInv
<1>9. WrittenOffInv'
  BY <1>1 DEF RowInv, WrittenOffInv
<1> QED BY <1>5, <1>6, <1>7, <1>8, <1>9 DEF RowInv

LEMMA LockingStarts ==
    ASSUME TypeInv, RowInv, NEW w \in Workers, NEW op \in LocksItsRow, NEW t \in TxnIds,
           NEW user, AskForRow(w, op, t, user)
    PROVE  RowInv'
<1> DEFINE request == [NoRequest EXCEPT !.op = op, !.at = "wait", !.txn = t, !.user = user]
<1>1. /\ ctx' = [ctx EXCEPT ![w] = request]
      /\ UNCHANGED <<txns, rowLock>>
      /\ ctx \in [Workers -> Request]
      /\ txns[t].status # "absent"
  BY DEF AskForRow, Existing, TypeInv, TypeOK, StoreTypeOK
<1>2. request.op = op /\ request.at = "wait" /\ request.txn = t
  BY DEF NoRequest
<1>3. op \notin InsertOps
  BY DEF InsertOps, LocksItsRow
<1> HIDE DEF request
<1>4. PhaseInv'
  BY <1>1, <1>2 DEF RowInv, PhaseInv, Idle, At
<1>5. InsertInv'
  BY <1>1, <1>2, <1>3 DEF RowInv, InsertInv, Idle
<1>6. ExistsInv'
  BY <1>1, <1>2 DEF RowInv, ExistsInv, Idle
<1>7. CopyInv'
  BY <1>1, <1>2 DEF RowInv, CopyInv
<1>8. WrittenOffInv'
  BY <1>1 DEF RowInv, WrittenOffInv
<1> QED BY <1>4, <1>5, <1>6, <1>7, <1>8 DEF RowInv

LEMMA CallRow == ASSUME TypeInv, RowInv, NEW w \in Workers, Call(w) PROVE RowInv'
<1>1. CASE credit_wallet(w)
  BY <1>1, InsertStarts DEF credit_wallet, InsertOps
<1>2. CASE debit_wallet(w)
  BY <1>2, InsertStarts DEF debit_wallet, InsertOps
<1>3. CASE process_customer_payment(w)
  BY <1>3, InsertStarts DEF process_customer_payment, InsertOps
<1>4. CASE request_withdrawal(w)
  BY <1>4, InsertStarts DEF request_withdrawal, InsertOps
<1>5. CASE approve_withdrawal(w)
  BY <1>5, LockingStarts DEF approve_withdrawal, LocksItsRow
<1>6. CASE complete_withdrawal(w)
  BY <1>6, LockingStarts DEF complete_withdrawal, LocksItsRow
<1>7. CASE fail_withdrawal(w)
  BY <1>7, LockingStarts DEF fail_withdrawal, LocksItsRow
<1>8. CASE fail_payment_transaction(w)
  BY <1>8, LockingStarts DEF fail_payment_transaction, LocksItsRow
<1> QED BY <1>1, <1>2, <1>3, <1>4, <1>5, <1>6, <1>7, <1>8 DEF Call

LEMMA LockRowRow == ASSUME TypeInv, RowInv, NEW w \in Workers, LockRow(w) PROVE RowInv'
<1>1. /\ ctx \in [Workers -> Request] /\ ctx[w].txn \in TxnIds
      /\ rowLock \in [TxnIds -> Workers \cup {None}]
      /\ txns' = txns
      /\ \A v \in Workers : v # None
  BY SortsAssumption DEF LockRow, tables, TypeInv, TypeOK, StoreTypeOK, NamesItsRow, Idle
<1>2. ctx[w].op \in LocksItsRow
  BY DEF LockRow, RowInv, PhaseInv, Idle, At
<1>3. /\ ctx'[w].op = ctx[w].op /\ ctx'[w].at = "locked" /\ ctx'[w].txn = ctx[w].txn
      /\ ctx'[w].row = txns[ctx[w].txn]
      /\ \A v \in Workers : v # w => ctx'[v] = ctx[v]
      /\ rowLock'[ctx[w].txn] = w
      /\ \A t \in TxnIds : t # ctx[w].txn => rowLock'[t] = rowLock[t]
  BY <1>1 DEF LockRow, Request
<1>4. \A v \in Workers : ctx'[v].op = ctx[v].op /\ ctx'[v].txn = ctx[v].txn
                         /\ (ctx'[v].at = "idle" <=> ctx[v].at = "idle")
  BY <1>1, <1>3 DEF LockRow
<1>5. PhaseInv'
  BY <1>2, <1>3 DEF RowInv, PhaseInv, Idle, At
<1>6. InsertInv'
  BY <1>1, <1>4 DEF RowInv, InsertInv, Idle
<1>7. ExistsInv'
  BY <1>1, <1>4 DEF RowInv, ExistsInv, Idle
<1>8. CopyInv'
  <2>1. ASSUME NEW v \in Workers, v # w, ctx[v].op \in LocksItsRow, ctx[v].at \in {"locked", "read"}
        PROVE  rowLock'[ctx[v].txn] = v
    BY <1>1, <1>3, <2>1 DEF LockRow, RowInv, CopyInv, TypeInv, NamesItsRow, Idle
  <2> QED BY <1>1, <1>3, <2>1 DEF RowInv, CopyInv
<1>9. WrittenOffInv'
  BY <1>1 DEF RowInv, WrittenOffInv
<1> QED BY <1>5, <1>6, <1>7, <1>8, <1>9 DEF RowInv

(* A request that ends, writing no row, or the one row it may write.       *)
LEMMA EndsRow ==
    ASSUME TypeInv, RowInv, NEW w \in Workers, EndRequest(w), UNCHANGED txns
    PROVE  RowInv'
<1>1. /\ ctx' = [ctx EXCEPT ![w] = NoRequest] /\ ctx \in [Workers -> Request]
      /\ \A t \in TxnIds : rowLock[t] # w => rowLock'[t] = rowLock[t]
      /\ NoRequest.at = "idle" /\ NoRequest.txn = None
  BY DEF EndRequest, TypeInv, TypeOK, StoreTypeOK, NoRequest
<1>2. \A v \in Workers : ~ Idle(v) => ctx[v].txn \in TxnIds /\ ctx[v].txn # None
  BY SortsAssumption DEF TypeInv, NamesItsRow
<1>3. PhaseInv'
  BY <1>1 DEF RowInv, PhaseInv, Idle, At
<1>4. InsertInv'
  BY <1>1, <1>2 DEF RowInv, InsertInv, Idle
<1>5. ExistsInv'
  BY <1>1 DEF RowInv, ExistsInv, Idle
<1>6. CopyInv'
  BY <1>1, <1>2 DEF RowInv, CopyInv, Idle
<1>7. WrittenOffInv'
  BY DEF RowInv, WrittenOffInv
<1> QED BY <1>3, <1>4, <1>5, <1>6, <1>7 DEF RowInv

LEMMA CommitsRow ==
    ASSUME TypeInv, RowInv, NEW w \in Workers, ~ Idle(w), EndRequest(w),
           NEW row, txns' = [txns EXCEPT ![ctx[w].txn] = row], row.status # "absent",
           row.written_off => row.status = "failed",
           \/ ctx[w].op \in InsertOps
           \/ ctx[w].op \in LocksItsRow /\ ctx[w].at \in {"locked", "read"}
    PROVE  RowInv'
<1>1. /\ ctx' = [ctx EXCEPT ![w] = NoRequest] /\ ctx \in [Workers -> Request]
      /\ \A t \in TxnIds : rowLock[t] # w => rowLock'[t] = rowLock[t]
      /\ NoRequest.at = "idle" /\ NoRequest.txn = None
      /\ txns \in [TxnIds -> Row]
  BY DEF EndRequest, TypeInv, TypeOK, StoreTypeOK, NoRequest
<1>2. \A v \in Workers : ~ Idle(v) => ctx[v].txn \in TxnIds /\ ctx[v].txn # None
  BY SortsAssumption DEF TypeInv, NamesItsRow
<1>3. InsertOps \cap LocksItsRow = {}
  BY DEF InsertOps, LocksItsRow
(* Another request that inserts a row, or holds one, does so elsewhere.    *)
<1>4. ASSUME NEW v \in Workers, v # w, ~ Idle(v),
             ctx[v].op \in InsertOps \/ ctx[v].at \in {"locked", "read"}
      PROVE  ctx[v].txn # ctx[w].txn
  BY <1>1, <1>2, <1>4 DEF RowInv, InsertInv, ExistsInv, CopyInv, PhaseInv, At, LocksItsRow, Idle
<1>5. PhaseInv'
  BY <1>1 DEF RowInv, PhaseInv, Idle, At
<1>6. InsertInv'
  BY <1>1, <1>2, <1>4 DEF RowInv, InsertInv, Idle
<1>7. ExistsInv'
  BY <1>1, <1>2, <1>3 DEF RowInv, InsertInv, ExistsInv, Idle
<1>8. CopyInv'
  BY <1>1, <1>2, <1>4 DEF RowInv, CopyInv, Idle
<1>9. WrittenOffInv'
  BY <1>1 DEF RowInv, WrittenOffInv
<1> QED BY <1>5, <1>6, <1>7, <1>8, <1>9 DEF RowInv

KeepsSettled ==
    \A t \in TxnIds :
         txns[t].type = "withdrawal" /\ txns[t].status \in {"completed", "failed"}
           => \/ txns'[t].status = txns[t].status
              \/ txns'[t].status = "failed" /\ txns'[t].written_off

(* What Proceed(w) does to the rows.                                       *)
LEMMA ProceedRow ==
    ASSUME TypeInv, RowInv, NEW w \in Workers, Proceed(w)
    PROVE  RowInv' /\ KeepsSettled
<1>1. /\ ~ Idle(w) /\ ctx[w].txn \in TxnIds /\ txns \in [TxnIds -> Row]
      /\ ctx \in [Workers -> Request] /\ ctx[w].user \in Users \cup {None}
  BY DEF Request, Proceed, credit_wallet_commit, debit_wallet_commit, process_customer_payment_commit,
         request_withdrawal_commit, refuse_locked_row, approve_withdrawal_commit,
         complete_withdrawal_commit, fail_withdrawal_read, fail_withdrawal_commit,
         fail_payment_transaction_commit, At, Idle, NamesItsRow, TypeInv, TypeOK, StoreTypeOK
<1>2. ASSUME NEW type \in {"customer_payment", "withdrawal"}, NEW status \in Statuses,
             NEW user \in Users \cup {None},
             txns' = [txns EXCEPT ![ctx[w].txn] =
                        NewRow(type, status, ctx[w].amount, ctx[w].net, user, None)],
             ctx[w].op \in InsertOps, EndRequest(w)
      PROVE  RowInv' /\ KeepsSettled
  <2> DEFINE row == NewRow(type, status, ctx[w].amount, ctx[w].net, user, None)
  <2>0. row.status # "absent" /\ ~ row.written_off
    BY DEF NewRow, Statuses
  <2> HIDE DEF row
  <2>1. txns[ctx[w].txn].status = "absent"
    BY <1>1, <1>2 DEF RowInv, InsertInv
  <2>2. KeepsSettled
    BY <1>1, <1>2, <2>1 DEF KeepsSettled
  <2> QED BY <1>1, <1>2, <2>0, <2>2, CommitsRow DEF row
<1>3. ASSUME NEW row \in Row, txns' = [txns EXCEPT ![ctx[w].txn] = row], row.status # "absent",
             EndRequest(w), ctx[w].op \in LocksItsRow, ctx[w].at \in {"locked", "read"},
             row.written_off => row.status = "failed",
             \/ txns[ctx[w].txn].status = "pending"
             \/ row.status = "failed" /\ (txns[ctx[w].txn].status # "failed" => row.written_off)
      PROVE  RowInv' /\ KeepsSettled
  <2>1. KeepsSettled
    BY <1>1, <1>3 DEF KeepsSettled
  <2> QED BY <1>1, <1>3, <2>1, CommitsRow
<1>4. ASSUME UNCHANGED txns PROVE KeepsSettled
  BY <1>4 DEF KeepsSettled
<1>5. ASSUME NEW status \in Statuses, SaveStatus(w, status)
      PROVE  \E row \in Row : /\ txns' = [txns EXCEPT ![ctx[w].txn] = row]
                      /\ row.status # "absent" /\ row.written_off = txns[ctx[w].txn].written_off
  <2> DEFINE row == [txns[ctx[w].txn] EXCEPT !.status = status]
  <2>1. txns' = [txns EXCEPT ![ctx[w].txn] = row]
    BY <1>1, <1>5 DEF SaveStatus
  <2>2. row \in Row
    BY <1>1, ChangedRowType
  <2>3. row.status # "absent" /\ row.written_off = txns[ctx[w].txn].written_off
    BY <1>1 DEF Row, Statuses
  <2> HIDE DEF row
  <2> QED BY <2>1, <2>2, <2>3
<1>6. ctx[w].op \in LocksItsRow /\ ctx[w].at \in {"locked", "read"} => ctx[w].row = txns[ctx[w].txn]
  BY DEF RowInv, CopyInv
<1>0. txns[ctx[w].txn].status = "pending" => ~ txns[ctx[w].txn].written_off
  BY <1>1 DEF RowInv, WrittenOffInv
<1>7. CASE credit_wallet_commit(w)
  BY <1>1, <1>2, <1>7 DEF credit_wallet_commit, At, InsertOps, Statuses
<1>8. CASE debit_wallet_commit(w)
  BY <1>1, <1>2, <1>8 DEF debit_wallet_commit, At, InsertOps, Statuses
<1>9. CASE process_customer_payment_commit(w)
  BY <1>1, <1>2, <1>9 DEF process_customer_payment_commit, At, InsertOps, Statuses
<1>10. CASE request_withdrawal_commit(w)
  BY <1>1, <1>2, <1>10 DEF request_withdrawal_commit, At, InsertOps, Statuses
<1>11. CASE refuse_locked_row(w)
  BY <1>4, <1>11, EndsRow DEF refuse_locked_row, tables
<1>12. CASE approve_withdrawal_commit(w)
  <2> DEFINE row == [txns[ctx[w].txn] EXCEPT !.status = "completed", !.approved_by = ctx[w].user]
  <2>1. txns' = [txns EXCEPT ![ctx[w].txn] = row] /\ EndRequest(w)
    BY <1>1, <1>12 DEF approve_withdrawal_commit
  <2>2. row \in Row /\ row.status # "absent" /\ row.written_off = txns[ctx[w].txn].written_off
    <3>1. row \in Row
      BY <1>1, ChangedRowType DEF Statuses
    <3>2. row.status = "completed" /\ row.written_off = txns[ctx[w].txn].written_off
      BY <1>1 DEF Row
    <3> QED BY <3>1, <3>2
  <2>3. ctx[w].op \in LocksItsRow /\ ctx[w].at = "locked" /\ txns[ctx[w].txn].status = "pending"
    BY <1>6, <1>12 DEF approve_withdrawal_commit, At, LocksItsRow, Accepts, PendingWithdrawal
  <2> HIDE DEF row
  <2> QED BY <1>0, <1>3, <2>1, <2>2, <2>3
<1>13. CASE complete_withdrawal_commit(w)
  <2>1. ctx[w].op \in LocksItsRow /\ ctx[w].at = "locked" /\ txns[ctx[w].txn].status = "pending"
    BY <1>6, <1>13 DEF complete_withdrawal_commit, At, LocksItsRow, Accepts, PendingWithdrawal
  <2>2. SaveStatus(w, "completed") /\ EndRequest(w) /\ "completed" \in Statuses
    BY <1>13 DEF complete_withdrawal_commit, Statuses
  <2> QED BY <1>0, <1>3, <1>5, <2>1, <2>2
<1>14. CASE fail_withdrawal_read(w)
  <2>1. /\ ctx' = [ctx EXCEPT ![w].at = "read", ![w].seen = balance]
        /\ UNCHANGED <<txns, rowLock>>
        /\ At(w, "fail_withdrawal", "locked") /\ PendingWithdrawal(ctx[w].row)
    BY <1>14 DEF fail_withdrawal_read, Accepts, At
  <2>2. /\ \A v \in Workers : v # w => ctx'[v] = ctx[v]
        /\ ctx'[w].op = ctx[w].op /\ ctx'[w].at = "read" /\ ctx'[w].txn = ctx[w].txn
        /\ ctx'[w].row = ctx[w].row
    BY <1>1, <2>1 DEF Request
  <2>3. "fail_withdrawal" \in LocksItsRow /\ "fail_withdrawal" \notin InsertOps
    BY DEF LocksItsRow, InsertOps
  <2>4. PhaseInv'
    BY <2>1, <2>2 DEF RowInv, PhaseInv, Idle, At
  <2>5. InsertInv'
    <3>1. \A v \in Workers : ctx'[v].txn = ctx[v].txn /\ ctx'[v].op = ctx[v].op
      BY <2>2
    <3>2. ASSUME NEW v \in Workers, ~ Idle(v)', ctx'[v].op \in InsertOps
          PROVE  ~ Idle(v) /\ ctx[v].op \in InsertOps
      BY <1>1, <2>2, <3>1, <3>2 DEF Idle
    <3>3. ASSUME NEW v \in Workers, ~ Idle(v)', ctx'[v].op \in InsertOps
          PROVE  /\ txns'[ctx'[v].txn].status = "absent"
                 /\ \A u \in Workers : ctx'[u].txn = ctx'[v].txn => u = v
      <4>1. ~ Idle(v) /\ ctx[v].op \in InsertOps
        BY <3>2, <3>3
      <4>2. /\ txns[ctx[v].txn].status = "absent"
            /\ \A u \in Workers : ctx[u].txn = ctx[v].txn => u = v
        BY <4>1 DEF RowInv, InsertInv
      <4>3. txns' = txns
        BY <2>1
      <4> QED BY <3>1, <4>2, <4>3
    <3> QED BY <3>3 DEF InsertInv
  <2>6. ExistsInv'
    BY <1>1, <2>1, <2>2 DEF RowInv, ExistsInv, Idle, At
  <2>7. CopyInv'
    <3>1. \A v \in Workers : ctx'[v].txn = ctx[v].txn /\ ctx'[v].row = ctx[v].row
                             /\ ctx'[v].op = ctx[v].op
      BY <2>2
    <3>2. rowLock'[ctx'[w].txn] = w /\ ctx'[w].row = txns'[ctx'[w].txn]
          /\ PendingWithdrawal(ctx'[w].row)
      BY <2>1, <2>2, <2>3 DEF RowInv, CopyInv, At
    <3>3. ASSUME NEW v \in Workers, v # w, ctx'[v].op \in LocksItsRow,
                 ctx'[v].at \in {"locked", "read"}
          PROVE  /\ rowLock'[ctx'[v].txn] = v
                 /\ ctx'[v].row = txns'[ctx'[v].txn]
                 /\ ctx'[v].at = "read" => PendingWithdrawal(ctx'[v].row)
      BY <2>1, <2>2, <3>1, <3>3 DEF RowInv, CopyInv
    <3> QED BY <3>2, <3>3 DEF CopyInv, PendingWithdrawal
  <2>8. WrittenOffInv'
    BY <2>1 DEF RowInv, WrittenOffInv
  <2> QED BY <1>4, <2>1, <2>4, <2>5, <2>6, <2>7, <2>8 DEF RowInv
<1>15. CASE fail_withdrawal_commit(w)
  <2>1. ctx[w].op \in LocksItsRow /\ ctx[w].at = "read" /\ txns[ctx[w].txn].status = "pending"
    BY <1>6, <1>15 DEF fail_withdrawal_commit, At, LocksItsRow, PendingWithdrawal, RowInv, CopyInv
  <2>2. SaveStatus(w, "failed") /\ EndRequest(w) /\ "failed" \in Statuses
    BY <1>15 DEF fail_withdrawal_commit, Statuses
  <2> QED BY <1>0, <1>3, <1>5, <2>1, <2>2
<1>16. CASE fail_payment_transaction_commit(w)
  <2>1. ctx[w].op \in LocksItsRow /\ ctx[w].at = "locked" /\ EndRequest(w)
    BY <1>16 DEF fail_payment_transaction_commit, At, LocksItsRow
  <2>2. PICK row \in Row :
           /\ txns' = [txns EXCEPT ![ctx[w].txn] = row] /\ row.status = "failed"
           /\ row.written_off <=> txns[ctx[w].txn].written_off \/ ctx[w].row.status # "failed"
    BY <1>1, <1>16, WritesOff
  <2>3. txns[ctx[w].txn].status # "failed" => row.written_off
    BY <1>6, <2>1, <2>2
  <2> QED BY <1>3, <2>1, <2>2, <2>3
<1> QED BY <1>7, <1>8, <1>9, <1>10, <1>11, <1>12, <1>13, <1>14, <1>15, <1>16 DEF Proceed

LEMMA RowNext == TypeInv /\ RowInv /\ [Next]_storeVars => RowInv'
<1> SUFFICES ASSUME TypeInv, RowInv, [Next]_storeVars PROVE RowInv'
  OBVIOUS
<1>1. CASE UNCHANGED storeVars
  BY <1>1 DEF storeVars, RowInv, PhaseInv, InsertInv, ExistsInv, CopyInv, WrittenOffInv, Idle, At
<1>2. ASSUME NEW w \in Workers, Rollback(w) PROVE RowInv'
  BY <1>2, EndsRow DEF Rollback, tables
<1> QED BY <1>1, <1>2, CallRow, LockRowRow, ProceedRow DEF Next

(* However approvals, completions and failures of a withdrawal race, once  *)
(* it is settled or failed no step of WalletService changes its status,    *)
(* save fail_payment_transaction, which may write a settled one off.       *)
THEOREM SettledStaysSettled == Spec => SettledIsFinal
<1>1. TypeInv /\ RowInv /\ [Next]_storeVars => [KeepsSettled]_storeVars
  <2> SUFFICES ASSUME TypeInv, RowInv, Next PROVE KeepsSettled
    OBVIOUS
  <2>1. ASSUME NEW w \in Workers, Call(w) \/ LockRow(w) \/ Rollback(w) PROVE UNCHANGED txns
    BY <2>1 DEF Call, credit_wallet, debit_wallet, process_customer_payment, request_withdrawal,
                approve_withdrawal, complete_withdrawal, fail_withdrawal,
                fail_payment_transaction, ReadWallet, AskForRow, LockRow, Rollback, tables
  <2>2. UNCHANGED txns => KeepsSettled
    BY DEF KeepsSettled
  <2> QED BY <2>1, <2>2, ProceedRow DEF Next
<1>2. Spec => [][KeepsSettled]_storeVars
  BY <1>1, TypeInit, TypeNext, RowInit, RowNext, PTL DEF Spec
<1> QED BY <1>2 DEF SettledIsFinal, KeepsSettled

-----------------------------------------------------------------------------
(* The audit trail of a row agrees with its status.  Only the request that *)
(* inserts a row, and the one that holds its lock and fails it, add to it. *)

TrailInv ==
    /\ \A t \in TxnIds : txns[t].status = "absent" => AuditsOf(t) = {}
    /\ CreditBackIffFailed

LEMMA AuditAppended ==
    ASSUME TypeInv, NEW record \in AuditRow, NEW t, record.txn = t, audits' = Append(audits, record)
    PROVE  /\ Len(audits) \in Nat /\ DOMAIN audits = 1 .. Len(audits)
           /\ DOMAIN audits' = 1 .. Len(audits) + 1
           /\ audits'[Len(audits) + 1] = record
           /\ \A i \in DOMAIN audits : audits'[i] = audits[i]
           /\ AuditsOf(t)' = AuditsOf(t) \cup {Len(audits) + 1}
           /\ \A u : u # t => AuditsOf(u)' = AuditsOf(u)
<1>1. audits \in Seq(AuditRow)
  BY DEF TypeInv, TypeOK, StoreTypeOK
<1>2. /\ Len(audits) \in Nat /\ DOMAIN audits = 1 .. Len(audits)
      /\ DOMAIN audits' = 1 .. Len(audits) + 1
      /\ audits'[Len(audits) + 1] = record
      /\ \A i \in DOMAIN audits : audits'[i] = audits[i]
  BY <1>1, AppendProperties, LenProperties
<1> QED BY <1>2 DEF AuditsOf

(* The record SaveBalance adds.                                            *)
LEMMA SavedRecord ==
    ASSUME TypeInv, NEW w \in Workers, NEW t \in TxnIds, t = ctx[w].txn,
           NEW delta \in Int, SaveBalance(w, delta)
    PROVE  \E record \in AuditRow :
              /\ audits' = Append(audits, record)
              /\ record.txn = t /\ record.previous = ctx[w].seen /\ record.amount = delta
<1> DEFINE record == [txn |-> t, previous |-> ctx[w].seen, amount |-> delta,
                      new |-> ctx[w].seen + delta]
<1>1. record \in AuditRow
  BY DEF TypeInv, TypeOK, StoreTypeOK, Request, AuditRow
<1>2. audits' = Append(audits, record)
  BY DEF SaveBalance
<1>3. record.txn = t /\ record.previous = ctx[w].seen /\ record.amount = delta
  OBVIOUS
<1> HIDE DEF record
<1> QED BY <1>1, <1>2, <1>3

(* What a step does not touch keeps its trail.                             *)
LEMMA TrailKept ==
    ASSUME NEW t \in TxnIds, Balanced(t), AuditsOf(t)' = AuditsOf(t),
           \A i \in DOMAIN audits : audits'[i] = audits[i],
           txns'[t].amount = txns[t].amount,
           Returned(txns'[t]) <=> Returned(txns[t])
    PROVE  Balanced(t)'
<1>1. \A i \in AuditsOf(t) : audits'[i] = audits[i]
  BY DEF AuditsOf
<1> QED BY <1>1 DEF Balanced

LEMMA InsertTrail ==
    ASSUME TypeInv, RowInv, TrailInv, NEW w \in Workers, ~ Idle(w), ctx[w].op \in InsertOps,
           NEW t \in TxnIds, t = ctx[w].txn,
           NEW row, txns' = [txns EXCEPT ![t] = row],
           NEW delta \in Int, SaveBalance(w, delta),
           row.status # "absent",
           row.type = "withdrawal" => row.status # "failed" /\ delta = - row.amount
    PROVE  TrailInv'
<1> DEFINE n == Len(audits) + 1
<1>1. PICK record \in AuditRow : audits' = Append(audits, record) /\ record.txn = t
                                 /\ record.amount = delta
  BY SavedRecord
<1>2. txns \in [TxnIds -> Row]
  BY DEF TypeInv, TypeOK, StoreTypeOK
<1>3. /\ audits'[n] = record
      /\ \A i \in DOMAIN audits : audits'[i] = audits[i]
      /\ AuditsOf(t)' = AuditsOf(t) \cup {n}
      /\ \A u : u # t => AuditsOf(u)' = AuditsOf(u)
  BY <1>1, AuditAppended
<1>4. AuditsOf(t)' = {n}
  BY <1>3 DEF TrailInv, RowInv, InsertInv
<1> HIDE DEF n
<1>5. txns'[t] = row /\ \A u \in TxnIds : u # t => txns'[u] = txns[u]
  BY <1>2
<1>6. row.type = "withdrawal" => Balanced(t)'
  BY <1>1, <1>3, <1>4, <1>5 DEF Balanced, Returned
<1>7. ASSUME NEW u \in TxnIds, u # t, Balanced(u) PROVE Balanced(u)'
  BY <1>3, <1>5, <1>7, TrailKept
<1> QED BY <1>3, <1>5, <1>6, <1>7 DEF TrailInv, CreditBackIffFailed

(* A locked row is settled, or written off, without an audit record.       *)
LEMMA SettleTrail ==
    ASSUME TypeInv, TrailInv, NEW t \in TxnIds, UNCHANGED audits,
           NEW row, txns' = [txns EXCEPT ![t] = row], row.status # "absent",
           row.type = txns[t].type, row.amount = txns[t].amount, txns[t].status # "absent",
           Returned(row) <=> Returned(txns[t])
    PROVE  TrailInv'
<1>1. txns \in [TxnIds -> Row]
  BY DEF TypeInv, TypeOK, StoreTypeOK
<1>2. \A u \in TxnIds : AuditsOf(u)' = AuditsOf(u)
  BY DEF AuditsOf
<1>3. txns'[t] = row /\ \A u \in TxnIds : u # t => txns'[u] = txns[u]
  BY <1>1
<1>4. ASSUME NEW u \in TxnIds, Balanced(u), txns'[u].type = "withdrawal" PROVE Balanced(u)'
  BY <1>2, <1>3, <1>4, TrailKept
<1> QED BY <1>2, <1>3, <1>4 DEF TrailInv, CreditBackIffFailed

(* A pending withdrawal fails and gives its amount back.                   *)
LEMMA FailTrail ==
    ASSUME TypeInv, TrailInv, NEW w \in Workers, NEW t \in TxnIds, t = ctx[w].txn,
           txns[t].type = "withdrawal", txns[t].status = "pending", ~ txns[t].written_off,
           SaveStatus(w, "failed"), SaveBalance(w, txns[t].amount)
    PROVE  TrailInv'
<1> DEFINE n == Len(audits) + 1
<1>1. txns \in [TxnIds -> Row] /\ ctx[w] \in Request
  BY DEF TypeInv, TypeOK, StoreTypeOK
<1>2. PICK record \in AuditRow : audits' = Append(audits, record) /\ record.txn = t
                                 /\ record.amount = txns[t].amount
  <2>1. txns[t].amount \in Int
    BY <1>1 DEF Row
  <2> QED BY <2>1, SavedRecord
<1>3. /\ audits'[n] = record
      /\ DOMAIN audits = 1 .. Len(audits) /\ Len(audits) \in Nat
      /\ \A i \in DOMAIN audits : audits'[i] = audits[i]
      /\ AuditsOf(t)' = AuditsOf(t) \cup {n}
      /\ \A u : u # t => AuditsOf(u)' = AuditsOf(u)
  BY <1>2, AuditAppended
<1>4. /\ txns'[t].type = "withdrawal" /\ txns'[t].status = "failed"
      /\ txns'[t].amount = txns[t].amount /\ txns'[t].written_off = txns[t].written_off
      /\ \A u \in TxnIds : u # t => txns'[u] = txns[u]
  BY <1>1 DEF SaveStatus, Row
<1>5. PICK debit \in AuditsOf(t) : audits[debit].amount = - txns[t].amount
                                   /\ AuditsOf(t) = {debit}
  BY DEF TrailInv, CreditBackIffFailed, Balanced, Returned
<1>6. debit \in DOMAIN audits /\ debit < n
  BY <1>3, <1>5 DEF AuditsOf
<1>7. AuditsOf(t)' = {debit, n}
  BY <1>3, <1>5
<1> HIDE DEF n
<1>8. Balanced(t)'
  <2>1. debit \in AuditsOf(t)' /\ n \in AuditsOf(t)' /\ Returned(txns'[t])
    BY <1>4, <1>7 DEF Returned
  <2>2. audits'[debit].amount = - txns'[t].amount
    BY <1>3, <1>4, <1>5, <1>6
  <2>3. audits'[n].amount = txns'[t].amount
    BY <1>2, <1>3, <1>4
  <2> QED BY <1>6, <1>7, <2>1, <2>2, <2>3 DEF Balanced
<1>9. ASSUME NEW u \in TxnIds, u # t, Balanced(u) PROVE Balanced(u)'
  BY <1>3, <1>4, <1>9, TrailKept
<1> QED BY <1>3, <1>4, <1>8, <1>9 DEF TrailInv, CreditBackIffFailed

LEMMA ProceedTrail ==
    ASSUME TypeInv, RowInv, TrailInv, NEW w \in Workers, Proceed(w)
    PROVE  TrailInv'
<1>1. /\ ~ Idle(w) /\ ctx[w].txn \in TxnIds /\ txns \in [TxnIds -> Row]
      /\ ctx[w].amount \in Int /\ - ctx[w].amount \in Int /\ ctx[w].net \in Int
  BY DEF Request, Proceed, credit_wallet_commit, debit_wallet_commit, process_customer_payment_commit,
         request_withdrawal_commit, refuse_locked_row, approve_withdrawal_commit,
         complete_withdrawal_commit, fail_withdrawal_read, fail_withdrawal_commit,
         fail_payment_transaction_commit, At, Idle, NamesItsRow, TypeInv, TypeOK, StoreTypeOK
<1>2. ASSUME NEW type \in {"customer_payment", "withdrawal"}, NEW status \in Statuses,
             NEW user, NEW delta \in Int,
             txns' = [txns EXCEPT ![ctx[w].txn] =
                        NewRow(type, status, ctx[w].amount, ctx[w].net, user, None)],
             SaveBalance(w, delta), ctx[w].op \in InsertOps,
             type = "withdrawal" => status # "failed" /\ delta = - ctx[w].amount
      PROVE  TrailInv'
  <2> DEFINE row == NewRow(type, status, ctx[w].amount, ctx[w].net, user, None)
  <2>1. row.type = type /\ row.status = status /\ row.amount = ctx[w].amount /\ status # "absent"
    BY DEF NewRow, Statuses
  <2> HIDE DEF row
  <2> QED BY <1>1, <1>2, <2>1, InsertTrail DEF row
<1>3. ASSUME ctx[w].op \in LocksItsRow, ctx[w].at \in {"locked", "read"}
      PROVE  txns[ctx[w].txn].status # "absent" /\ ctx[w].row = txns[ctx[w].txn]
  BY <1>1, <1>3 DEF RowInv, ExistsInv, CopyInv
<1>4. ASSUME SaveStatus(w, "completed"), UNCHANGED audits,
             ctx[w].op \in LocksItsRow, ctx[w].at = "locked",
             txns[ctx[w].txn].status = "pending"
      PROVE  TrailInv'
  <2> DEFINE row == [txns[ctx[w].txn] EXCEPT !.status = "completed"]
  <2>1. txns' = [txns EXCEPT ![ctx[w].txn] = row]
    BY <1>1, <1>4 DEF SaveStatus
  <2>2. row.type = txns[ctx[w].txn].type /\ row.status = "completed"
        /\ row.amount = txns[ctx[w].txn].amount
    BY <1>1 DEF Row
  <2> HIDE DEF row
  <2>3. Returned(row) <=> Returned(txns[ctx[w].txn])
    BY <1>4, <2>2 DEF Returned
  <2> QED BY <1>1, <1>3, <1>4, <2>1, <2>2, <2>3, SettleTrail
<1>5. CASE credit_wallet_commit(w)
  BY <1>1, <1>2, <1>5 DEF credit_wallet_commit, At, InsertOps, Statuses
<1>6. CASE debit_wallet_commit(w)
  BY <1>1, <1>2, <1>6 DEF debit_wallet_commit, At, InsertOps, Statuses
<1>7. CASE process_customer_payment_commit(w)
  BY <1>1, <1>2, <1>7 DEF process_customer_payment_commit, At, InsertOps, Statuses
<1>8. CASE request_withdrawal_commit(w)
  BY <1>1, <1>2, <1>8 DEF request_withdrawal_commit, At, InsertOps, Statuses
<1>9. CASE refuse_locked_row(w) \/ fail_withdrawal_read(w)
  BY <1>9 DEF refuse_locked_row, fail_withdrawal_read, tables, TrailInv, CreditBackIffFailed,
              Balanced, Returned, AuditsOf
<1>10. CASE approve_withdrawal_commit(w)
  <2> DEFINE row == [txns[ctx[w].txn] EXCEPT !.status = "completed", !.approved_by = ctx[w].user]
  <2>1. txns' = [txns EXCEPT ![ctx[w].txn] = row] /\ UNCHANGED audits
    BY <1>1, <1>10 DEF approve_withdrawal_commit
  <2>2. /\ row.type = txns[ctx[w].txn].type /\ row.status = "completed"
        /\ row.amount = txns[ctx[w].txn].amount
    BY <1>1 DEF Row
  <2>3. txns[ctx[w].txn].status = "pending"
    BY <1>3, <1>10 DEF approve_withdrawal_commit, At, LocksItsRow, Accepts, PendingWithdrawal
  <2> HIDE DEF row
  <2>4. Returned(row) <=> Returned(txns[ctx[w].txn])
    BY <2>2, <2>3 DEF Returned
  <2> QED BY <1>1, <2>1, <2>2, <2>3, <2>4, SettleTrail
<1>11. CASE complete_withdrawal_commit(w)
  BY <1>3, <1>4, <1>11 DEF complete_withdrawal_commit, At, LocksItsRow, Accepts, PendingWithdrawal
<1>12. CASE fail_withdrawal_commit(w)
  BY <1>1, <1>3, <1>12, FailTrail
  DEF fail_withdrawal_commit, At, LocksItsRow, RowInv, CopyInv, WrittenOffInv, PendingWithdrawal
<1>13. CASE fail_payment_transaction_commit(w)
  <2>1. PICK row \in Row :
           /\ txns' = [txns EXCEPT ![ctx[w].txn] = row] /\ row.status = "failed"
           /\ row.type = txns[ctx[w].txn].type /\ row.amount = txns[ctx[w].txn].amount
           /\ row.written_off <=> txns[ctx[w].txn].written_off \/ ctx[w].row.status # "failed"
    BY <1>1, <1>13, WritesOff
  <2>2. txns[ctx[w].txn].status # "absent" /\ ctx[w].row = txns[ctx[w].txn] /\ UNCHANGED audits
    BY <1>3, <1>13 DEF fail_payment_transaction_commit, At, LocksItsRow
  <2>3. Returned(row) <=> Returned(txns[ctx[w].txn])
    BY <2>1, <2>2 DEF Returned
  <2> QED BY <1>1, <2>1, <2>2, <2>3, SettleTrail
<1> QED BY <1>5, <1>6, <1>7, <1>8, <1>9, <1>10, <1>11, <1>12, <1>13 DEF Proceed

LEMMA TrailNext == TypeInv /\ RowInv /\ TrailInv /\ [Next]_storeVars => TrailInv'
<1> SUFFICES ASSUME TypeInv, RowInv, TrailInv, [Next]_storeVars PROVE TrailInv'
  OBVIOUS
<1>1. ASSUME UNCHANGED <<txns, audits>> PROVE TrailInv'
  BY <1>1 DEF TrailInv, CreditBackIffFailed, Balanced, Returned, AuditsOf
<1>2. ASSUME NEW w \in Workers, Call(w) \/ LockRow(w) \/ Rollback(w)
      PROVE  UNCHANGED <<txns, audits>>
  BY <1>2 DEF Call, credit_wallet, debit_wallet, process_customer_payment, request_withdrawal,
              approve_withdrawal, complete_withdrawal, fail_withdrawal,
              fail_payment_transaction, ReadWallet, AskForRow, LockRow, Rollback, tables
<1> QED BY <1>1, <1>2, ProceedTrail DEF Next, storeVars

(* However requests interleave and whatever amounts they carry, a          *)
(* withdrawal of WalletService took its amount from the wallet once and    *)
(* got it back, once and later, exactly if fail_withdrawal failed it; one  *)
(* that fail_payment_transaction wrote off gets nothing back.              *)
THEOREM CreditedBackIffFailed == Spec => []CreditBackIffFailed
<1>1. StoreInit => TrailInv
  BY DEF StoreInit, TrailInv, CreditBackIffFailed, AuditsOf, NoRow, NewRow
<1>2. TrailInv => CreditBackIffFailed
  BY DEF TrailInv
<1> QED BY <1>1, <1>2, TypeInit, TypeNext, RowInit, RowNext, TrailNext, PTL DEF Spec

-----------------------------------------------------------------------------
(* One request at a time: what a request knows of the balance is true.     *)

OneWorker == \A v, w \in Workers : v = w

FreshInv == \A w \in Workers : ctx[w].at = "read" => ctx[w].seen = balance

(* The new records of the trail, and what a request that ends leaves.      *)
LEMMA EndsFresh ==
    ASSUME OneWorker, TypeInv, NEW w \in Workers, EndRequest(w)
    PROVE  FreshInv'
<1>1. ctx'[w].at = "idle"
  BY DEF EndRequest, NoRequest, TypeInv, TypeOK, StoreTypeOK
<1> QED BY <1>1 DEF OneWorker, FreshInv

LEMMA SameFresh ==
    ASSUME OneWorker, TypeInv, NEW w \in Workers, UNCHANGED balance,
           ctx'[w].at = "read" => ctx'[w].seen = balance
    PROVE  FreshInv'
BY DEF OneWorker, FreshInv

LEMMA FreshNext ==
    ASSUME OneWorker, TypeInv, FreshInv, [Next]_storeVars
    PROVE  FreshInv'
<1>1. CASE UNCHANGED storeVars
  BY <1>1 DEF storeVars, FreshInv
<1>2. ctx \in [Workers -> Request]
  BY DEF TypeInv, TypeOK, StoreTypeOK
<1>3. ASSUME NEW w \in Workers, Call(w) PROVE FreshInv'
  <2>1. ASSUME NEW op, NEW t, NEW amount, NEW net, NEW user, NEW method,
               ReadWallet(w, op, t, amount, net, user, method)
        PROVE  FreshInv'
    BY <1>2, <2>1, SameFresh DEF ReadWallet
  <2>2. ASSUME NEW op, NEW t, NEW user, AskForRow(w, op, t, user)
        PROVE  FreshInv'
    BY <1>2, <2>2, SameFresh DEF AskForRow, NoRequest
  <2> QED BY <1>3, <2>1, <2>2
          DEF Call, credit_wallet, debit_wallet, process_customer_payment, request_withdrawal,
              approve_withdrawal, complete_withdrawal, fail_withdrawal, fail_payment_transaction
<1>4. ASSUME NEW w \in Workers, LockRow(w) PROVE FreshInv'
  <2>1. ctx'[w].at = "locked" /\ UNCHANGED balance
    BY <1>2, <1>4 DEF LockRow, tables, Request
  <2> QED BY <2>1, SameFresh
<1>5. ASSUME NEW w \in Workers, Proceed(w) PROVE FreshInv'
  <2>1. CASE fail_withdrawal_read(w)
    <3>1. ctx'[w].seen = balance /\ UNCHANGED balance
      BY <1>2, <2>1 DEF fail_withdrawal_read, Request
    <3> QED BY <3>1, SameFresh
  <2>2. CASE EndRequest(w)
    BY <2>2, EndsFresh
  <2> QED BY <1>5, <2>1, <2>2
          DEF Proceed, credit_wallet_commit, debit_wallet_commit, process_customer_payment_commit,
              request_withdrawal_commit, refuse_locked_row, approve_withdrawal_commit,
              complete_withdrawal_commit, fail_withdrawal_commit, fail_payment_transaction_commit
<1> QED BY <1>1, <1>3, <1>4, <1>5, EndsFresh DEF Next, Rollback

(* What the steps of WalletService do to the balance and its trail: either *)
(* nothing, or SaveBalance of a request that has read the wallet.          *)
LEMMA SavesOrNot ==
    ASSUME TypeInv, RowInv, [Next]_storeVars
    PROVE  \/ UNCHANGED <<balance, audits>>
           \/ \E w \in Workers, delta \in Int : ctx[w].at = "read" /\ SaveBalance(w, delta)
<1>1. CASE UNCHANGED storeVars
  BY <1>1 DEF storeVars
<1>2. ASSUME NEW w \in Workers, Call(w) \/ LockRow(w) \/ Rollback(w)
      PROVE  UNCHANGED <<balance, audits>>
  BY <1>2 DEF Call, credit_wallet, debit_wallet, process_customer_payment, request_withdrawal,
              approve_withdrawal, complete_withdrawal, fail_withdrawal,
              fail_payment_transaction, ReadWallet, AskForRow, LockRow, Rollback, tables
<1>3. ASSUME NEW w \in Workers, Proceed(w)
      PROVE  \/ UNCHANGED <<balance, audits>>
             \/ \E delta \in Int : ctx[w].at = "read" /\ SaveBalance(w, delta)
  <2>1. ctx[w].amount \in Int /\ - ctx[w].amount \in Int /\ ctx[w].net \in Int
        /\ ctx[w].row.amount \in Int
    BY DEF TypeInv, TypeOK, StoreTypeOK, Request, Row
  <2> QED BY <1>3, <2>1
          DEF Proceed, credit_wallet_commit, debit_wallet_commit, process_customer_payment_commit,
              request_withdrawal_commit, refuse_locked_row, approve_withdrawal_commit,
              complete_withdrawal_commit, fail_withdrawal_read, fail_withdrawal_commit,
              fail_payment_transaction_commit, tables, At
<1> QED BY <1>1, <1>2, <1>3 DEF Next

LEMMA UnbrokenNext ==
    ASSUME TypeInv, RowInv, FreshInv, BalanceIsLastAudit, AuditTrailIsUnbroken, [Next]_storeVars
    PROVE  AuditTrailIsUnbroken'
<1>1. CASE UNCHANGED <<balance, audits>>
  BY <1>1 DEF AuditTrailIsUnbroken
<1>2. ASSUME NEW w \in Workers, NEW delta \in Int, ctx[w].at = "read", SaveBalance(w, delta)
      PROVE  AuditTrailIsUnbroken'
  <2> DEFINE n == Len(audits) + 1
  <2>1. ctx[w].seen = balance /\ ctx[w].txn \in TxnIds
    BY <1>2 DEF FreshInv, TypeInv, NamesItsRow, Idle
  <2>2. PICK record \in AuditRow : audits' = Append(audits, record) /\ record.previous = balance
    BY <1>2, <2>1, SavedRecord
  <2>3. /\ Len(audits) \in Nat /\ DOMAIN audits = 1 .. Len(audits)
        /\ DOMAIN audits' = 1 .. n
        /\ audits'[n] = record
        /\ \A i \in DOMAIN audits : audits'[i] = audits[i]
    BY <2>2, AuditAppended
  <2>4. audits'[n].previous = IF n = 1 THEN 0 ELSE audits'[n - 1].new
    <3>1. audits = <<>> <=> Len(audits) = 0
      BY LenProperties, EmptySeq DEF TypeInv, TypeOK, StoreTypeOK
    <3>2. n = 1 => balance = 0
      BY <2>3, <3>1 DEF BalanceIsLastAudit
    <3>3. n # 1 => Len(audits) \in DOMAIN audits /\ balance = audits[Len(audits)].new
      BY <2>3, <3>1 DEF BalanceIsLastAudit
    <3>4. n - 1 = Len(audits)
      BY <2>3
    <3> HIDE DEF n
    <3> QED BY <2>2, <2>3, <3>2, <3>3, <3>4
  <2>5. ASSUME NEW i \in DOMAIN audits
        PROVE  audits'[i].previous = IF i = 1 THEN 0 ELSE audits'[i - 1].new
    <3>1. i # 1 => i - 1 \in DOMAIN audits
      BY <2>3
    <3> QED BY <2>3, <3>1 DEF AuditTrailIsUnbroken
  <2> QED BY <2>3, <2>4, <2>5 DEF AuditTrailIsUnbroken
<1> QED BY <1>1, <1>2, SavesOrNot

(* One request at a time, each audit record of WalletService starts from   *)
(* the balance the one before it ended with.                               *)
THEOREM SerialTrailIsUnbroken ==
    ASSUME OneWorker
    PROVE  Spec => []AuditTrailIsUnbroken
<1>1. StoreInit => BalanceIsLastAudit /\ FreshInv /\ AuditTrailIsUnbroken
  BY DEF StoreInit, BalanceIsLastAudit, FreshInv, AuditTrailIsUnbroken, NoRequest
<1>2. TypeInv /\ FreshInv /\ [Next]_storeVars => FreshInv'
  BY FreshNext
<1>3. TypeInv /\ RowInv /\ FreshInv /\ BalanceIsLastAudit /\ AuditTrailIsUnbroken
        /\ [Next]_storeVars => AuditTrailIsUnbroken'
  BY UnbrokenNext
<1> QED BY <1>1, <1>2, <1>3, TypeInit, TypeNext, RowInit, RowNext, LastAuditNext, PTL DEF Spec

-----------------------------------------------------------------------------
(* The account book.  What a request is about to write is a change the     *)
(* book allows, and no withdrawal of WalletService is ever canceled.       *)

Intends(w) ==
    ctx[w].at = "read" =>
      /\ ctx[w].op = "credit_wallet" => ctx[w].net = ctx[w].amount /\ ctx[w].net \in Deposits
      /\ ctx[w].op = "process_customer_payment" => ctx[w].net \in Deposits
      /\ ctx[w].op \in {"debit_wallet", "request_withdrawal"} =>
            ctx[w].amount \in WithdrawalAmounts /\ ctx[w].amount <= ctx[w].seen

IntentInv ==
    /\ \A w \in Workers : Intends(w)
    /\ \A t \in TxnIds : txns[t].type = "withdrawal" => txns[t].status # "canceled"

LEMMA IntentKept ==
    ASSUME IntentInv, NEW w \in Workers, UNCHANGED txns, Intends(w)',
           \A v \in Workers : v # w => ctx'[v] = ctx[v]
    PROVE  IntentInv'
BY DEF IntentInv, Intends

LEMMA EndIntends ==
    ASSUME TypeInv, NEW w \in Workers, EndRequest(w)
    PROVE  Intends(w)' /\ \A v \in Workers : v # w => ctx'[v] = ctx[v]
BY DEF TypeInv, TypeOK, StoreTypeOK, EndRequest, NoRequest, Intends

LEMMA CallIntent ==
    ASSUME TypeInv, IntentInv, NEW w \in Workers, Call(w)
    PROVE  IntentInv'
<1>1. ctx \in [Workers -> Request]
  BY DEF TypeInv, TypeOK, StoreTypeOK
<1>2. ASSUME NEW op, NEW t, NEW amount, NEW net, NEW user, NEW method,
             ReadWallet(w, op, t, amount, net, user, method),
             op = "credit_wallet" => net = amount /\ net \in Deposits,
             op = "process_customer_payment" => net \in Deposits,
             op \in {"debit_wallet", "request_withdrawal"} =>
                amount \in WithdrawalAmounts /\ amount <= balance
      PROVE  IntentInv'
  <2>1. ctx' = [ctx EXCEPT ![w] = [op |-> op, at |-> "read", txn |-> t, amount |-> amount,
                  net |-> net, user |-> user, method |-> method, seen |-> balance, row |-> NoRow]]
        /\ UNCHANGED txns
    BY <1>2 DEF ReadWallet
  <2>2. /\ ctx'[w].op = op /\ ctx'[w].amount = amount /\ ctx'[w].net = net
        /\ ctx'[w].seen = balance
        /\ \A v \in Workers : v # w => ctx'[v] = ctx[v]
    BY <1>1, <2>1
  <2>3. Intends(w)'
    BY <1>2, <2>2 DEF Intends
  <2> QED BY <2>1, <2>2, <2>3, IntentKept
<1>3. ASSUME NEW op, NEW t, NEW user, AskForRow(w, op, t, user)
      PROVE  IntentInv'
  <2>1. Intends(w)' /\ UNCHANGED txns /\ \A v \in Workers : v # w => ctx'[v] = ctx[v]
    BY <1>1, <1>3 DEF AskForRow, NoRequest, Intends
  <2> QED BY <2>1, IntentKept
<1>4. CASE credit_wallet(w)
  BY <1>2, <1>4 DEF credit_wallet, Deposits
<1>5. CASE debit_wallet(w)
  <2>1. \A n \in WithdrawalAmounts : balance >= n => n <= balance
    BY AmountsAssumption DEF TypeInv, TypeOK, StoreTypeOK
  <2> QED BY <1>2, <1>5, <2>1 DEF debit_wallet
<1>6. CASE process_customer_payment(w)
  BY <1>2, <1>6 DEF process_customer_payment, Deposits
<1>7. CASE request_withdrawal(w)
  <2>1. \A n \in WithdrawalAmounts : balance >= n => n <= balance
    BY AmountsAssumption DEF TypeInv, TypeOK, StoreTypeOK
  <2> QED BY <1>2, <1>7, <2>1 DEF request_withdrawal
<1>8. CASE approve_withdrawal(w) \/ complete_withdrawal(w) \/ fail_withdrawal(w)
           \/ fail_payment_transaction(w)
  BY <1>3, <1>8 DEF approve_withdrawal, complete_withdrawal, fail_withdrawal,
                    fail_payment_transaction
<1> QED BY <1>4, <1>5, <1>6, <1>7, <1>8 DEF Call

LEMMA ProceedIntent ==
    ASSUME TypeInv, IntentInv, NEW w \in Workers, Proceed(w)
    PROVE  IntentInv'
<1>1. txns \in [TxnIds -> Row] /\ ctx \in [Workers -> Request]
  BY DEF TypeInv, TypeOK, StoreTypeOK
<1>2. CASE fail_withdrawal_read(w)
  <2>1. Intends(w)' /\ UNCHANGED txns /\ \A v \in Workers : v # w => ctx'[v] = ctx[v]
    BY <1>1, <1>2 DEF fail_withdrawal_read, At, Intends, Request
  <2> QED BY <2>1, IntentKept
<1>3. ASSUME EndRequest(w), UNCHANGED txns PROVE IntentInv'
  BY <1>3, EndIntends, IntentKept
<1>4. ASSUME EndRequest(w), NEW row, txns' = [txns EXCEPT ![ctx[w].txn] = row],
             row.status # "canceled"
      PROVE  IntentInv'
  <2>1. \A t \in TxnIds : txns'[t] = txns[t] \/ txns'[t] = row
    BY <1>1, <1>4
  <2> QED BY <1>4, <2>1, EndIntends DEF IntentInv, Intends
<1>5. ASSUME EndRequest(w), NEW status \in {"completed", "failed"}, SaveStatus(w, status)
      PROVE  IntentInv'
  <2>1. \A t \in TxnIds : txns'[t] = txns[t] \/ txns'[t].status = status
    BY <1>1, <1>5 DEF SaveStatus, Row
  <2> QED BY <1>5, <2>1, EndIntends DEF IntentInv, Intends
<1>6. ASSUME NEW type, NEW status \in {"pending", "completed"}, NEW user, EndRequest(w),
             txns' = [txns EXCEPT ![ctx[w].txn] =
                        NewRow(type, status, ctx[w].amount, ctx[w].net, user, None)]
      PROVE  IntentInv'
  <2> DEFINE row == NewRow(type, status, ctx[w].amount, ctx[w].net, user, None)
  <2>1. row.status # "canceled"
    BY DEF NewRow
  <2> HIDE DEF row
  <2> QED BY <1>4, <1>6, <2>1 DEF row
<1>7. CASE credit_wallet_commit(w) \/ process_customer_payment_commit(w)
  BY <1>6, <1>7 DEF credit_wallet_commit, process_customer_payment_commit
<1>8. CASE debit_wallet_commit(w)
  BY <1>6, <1>8 DEF debit_wallet_commit
<1>9. CASE request_withdrawal_commit(w)
  BY <1>6, <1>9 DEF request_withdrawal_commit
<1>10. CASE refuse_locked_row(w)
  BY <1>3, <1>10 DEF refuse_locked_row, tables
<1>11. CASE approve_withdrawal_commit(w)
  <2>1. \A t \in TxnIds : txns'[t] = txns[t] \/ txns'[t].status = "completed"
    BY <1>1, <1>11 DEF approve_withdrawal_commit, Row
  <2> QED BY <1>11, <2>1, EndIntends DEF approve_withdrawal_commit, IntentInv, Intends
<1>12. CASE complete_withdrawal_commit(w)
  BY <1>5, <1>12 DEF complete_withdrawal_commit
<1>13. CASE fail_withdrawal_commit(w)
  BY <1>5, <1>13 DEF fail_withdrawal_commit
<1>14. CASE fail_payment_transaction_commit(w)
  <2>1. ctx[w].txn \in TxnIds /\ EndRequest(w)
    BY <1>14 DEF fail_payment_transaction_commit, TypeInv, NamesItsRow, At, Idle
  <2> QED BY <1>1, <1>4, <1>14, <2>1, WritesOff
<1> QED BY <1>2, <1>7, <1>8, <1>9, <1>10, <1>11, <1>12, <1>13, <1>14 DEF Proceed

LEMMA IntentNext == TypeInv /\ IntentInv /\ [Next]_storeVars => IntentInv'
<1> SUFFICES ASSUME TypeInv, IntentInv, [Next]_storeVars PROVE IntentInv'
  OBVIOUS
<1>1. CASE UNCHANGED storeVars
  BY <1>1 DEF storeVars, IntentInv, Intends
<1>2. ASSUME NEW w \in Workers, LockRow(w) PROVE IntentInv'
  <2>1. Intends(w)' /\ UNCHANGED txns /\ \A v \in Workers : v # w => ctx'[v] = ctx[v]
    BY <1>2 DEF LockRow, tables, Intends, Request, TypeInv, TypeOK, StoreTypeOK
  <2> QED BY <2>1, IntentKept
<1>3. ASSUME NEW w \in Workers, Rollback(w) PROVE IntentInv'
  BY <1>3, EndIntends, IntentKept DEF Rollback, tables
<1> QED BY <1>1, <1>2, <1>3, CallIntent, ProceedIntent DEF Next

-----------------------------------------------------------------------------
(* Each commit is one change of the account, each other step none.         *)

LedgerStep == [AccountBook!LedgerNext]_<<balance, Book>>

LEMMA EntriesOfRows ==
    ASSUME NEW row \in Row
    PROVE  /\ row.status = "absent" => EntryOf(row) = AccountBook!NoEntry
           /\ row.status # "absent" /\ row.type = "customer_payment" =>
                EntryOf(row) = AccountBook!Entry("deposit", row.net)
           /\ row.type = "withdrawal" =>
                /\ row.status = "pending" => EntryOf(row) = AccountBook!Entry("open", row.amount)
                /\ row.status = "completed" => EntryOf(row) = AccountBook!Entry("settled", row.amount)
                /\ row.status = "failed" =>
                     EntryOf(row) = AccountBook!Entry(IF row.written_off THEN "written_off"
                                                      ELSE "returned", row.amount)
BY DEF Row, EntryOf, Returned, AccountBook!NoEntry, AccountBook!Entry, Statuses

LEMMA KindChanges ==
    \A kind, other, amount :
        [AccountBook!Entry(kind, amount) EXCEPT !.kind = other] = AccountBook!Entry(other, amount)
BY DEF AccountBook!Entry

LEMMA BookChanges ==
    ASSUME TypeInv, NEW t \in TxnIds, NEW row, txns' = [txns EXCEPT ![t] = row]
    PROVE  /\ Book' = [Book EXCEPT ![t] = EntryOf(row)]
           /\ Book[t] = EntryOf(txns[t]) /\ txns[t] \in Row
<1>1. txns \in [TxnIds -> Row]
  BY DEF TypeInv, TypeOK, StoreTypeOK
<1> QED BY <1>1 DEF Book

(* A row that is inserted is a deposit or a withdrawal.                    *)
LEMMA InsertsEntry ==
    ASSUME TypeInv, NEW t \in TxnIds, txns[t].status = "absent",
           NEW row \in Row, txns' = [txns EXCEPT ![t] = row],
           \/ /\ row.type = "customer_payment" /\ row.status # "absent"
              /\ row.net \in Deposits /\ balance' = balance + row.net
           \/ /\ row.type = "withdrawal" /\ row.status \in {"pending", "completed"}
              /\ row.amount \in WithdrawalAmounts /\ row.amount <= balance
              /\ balance' = balance - row.amount
    PROVE  LedgerStep
<1>1. Book' = [Book EXCEPT ![t] = EntryOf(row)] /\ Book[t] = AccountBook!NoEntry
  BY BookChanges, EntriesOfRows
<1>2. CASE row.type = "customer_payment"
  <2>1. AccountBook!Deposit(t, row.net) /\ row.net \in Deposits
    BY <1>1, <1>2, EntriesOfRows DEF AccountBook!Deposit
  <2> QED BY <2>1 DEF LedgerStep, AccountBook!LedgerNext
<1>3. CASE row.type = "withdrawal"
  <2>1. PICK kind \in {"open", "settled"} : EntryOf(row) = AccountBook!Entry(kind, row.amount)
    BY <1>3, EntriesOfRows
  <2>2. AccountBook!Withdraw(t, row.amount, kind) /\ row.amount \in WithdrawalAmounts
    BY <1>1, <1>3, <2>1 DEF AccountBook!Withdraw
  <2> QED BY <2>2 DEF LedgerStep, AccountBook!LedgerNext
<1> QED BY <1>2, <1>3 DEF Row

(* A pending withdrawal is settled, or failed and given back.              *)
LEMMA EndsEntry ==
    ASSUME TypeInv, NEW t \in TxnIds, PendingWithdrawal(txns[t]),
           NEW row \in Row, txns' = [txns EXCEPT ![t] = row],
           row.type = "withdrawal", row.amount = txns[t].amount, ~ row.written_off,
           \/ row.status = "completed" /\ balance' = balance
           \/ row.status = "failed" /\ balance' = balance + row.amount
    PROVE  LedgerStep
<1>1. /\ Book' = [Book EXCEPT ![t] = EntryOf(row)]
      /\ Book[t] = AccountBook!Entry("open", row.amount)
  BY BookChanges, EntriesOfRows DEF PendingWithdrawal
<1>2. CASE row.status = "completed"
  <2>1. EntryOf(row) = [Book[t] EXCEPT !.kind = "settled"]
    <3>1. EntryOf(row) = AccountBook!Entry("settled", row.amount)
      BY <1>2, EntriesOfRows
    <3> QED BY <1>1, <3>1, KindChanges
  <2>2. AccountBook!Settle(t)
    BY <1>1, <1>2, <2>1 DEF AccountBook!Settle, AccountBook!Entry
  <2> QED BY <2>2 DEF LedgerStep, AccountBook!LedgerNext
<1>3. CASE row.status = "failed"
  <2>1. EntryOf(row) = [Book[t] EXCEPT !.kind = "returned"]
    <3>1. EntryOf(row) = AccountBook!Entry("returned", row.amount)
      BY <1>3, EntriesOfRows
    <3> QED BY <1>1, <3>1, KindChanges
  <2>2. AccountBook!Return(t)
    BY <1>1, <1>3, <2>1 DEF AccountBook!Return, AccountBook!Entry
  <2> QED BY <2>2 DEF LedgerStep, AccountBook!LedgerNext
<1> QED BY <1>2, <1>3

(* A row is failed as a payment: a deposit stays one, a withdrawal that    *)
(* was not returned is written off.                                        *)
LEMMA WriteOffEntry ==
    ASSUME TypeInv, NEW t \in TxnIds, txns[t].status # "absent",
           txns[t].type = "withdrawal" => txns[t].status # "canceled",
           NEW row \in Row, txns' = [txns EXCEPT ![t] = row], balance' = balance,
           row.status = "failed", row.type = txns[t].type, row.amount = txns[t].amount,
           row.net = txns[t].net,
           row.written_off <=> txns[t].written_off \/ txns[t].status # "failed"
    PROVE  LedgerStep
<1>1. /\ Book' = [Book EXCEPT ![t] = EntryOf(row)]
      /\ Book[t] = EntryOf(txns[t]) /\ txns[t] \in Row
  BY BookChanges
<1>2. CASE EntryOf(row) = EntryOf(txns[t])
  <2>1. Book' = Book
    BY <1>1, <1>2 DEF Book
  <2> QED BY <2>1 DEF LedgerStep
<1>3. CASE row.type = "withdrawal" /\ txns[t].status # "failed"
  <2>1. EntryOf(row) = AccountBook!Entry("written_off", row.amount)
    BY <1>3, EntriesOfRows
  <2>2. PICK kind \in {"open", "settled"} : Book[t] = AccountBook!Entry(kind, row.amount)
    BY <1>1, <1>3, EntriesOfRows DEF Row, Statuses
  <2>3. /\ Book[t].kind \in {"open", "settled"}
        /\ EntryOf(row) = [Book[t] EXCEPT !.kind = "written_off"]
    BY <2>1, <2>2 DEF AccountBook!Entry
  <2>4. AccountBook!WriteOff(t)
    BY <1>1, <2>3 DEF AccountBook!WriteOff
  <2> QED BY <2>4 DEF LedgerStep, AccountBook!LedgerNext
<1>4. row.type = "customer_payment" => EntryOf(row) = EntryOf(txns[t])
  BY <1>1, EntriesOfRows
<1>5. row.type = "withdrawal" /\ txns[t].status = "failed" => EntryOf(row) = EntryOf(txns[t])
  BY <1>1, EntriesOfRows
<1> QED BY <1>2, <1>3, <1>4, <1>5 DEF Row

LEMMA ProceedLedger ==
    ASSUME TypeInv, RowInv, FreshInv, IntentInv, NEW w \in Workers, Proceed(w)
    PROVE  LedgerStep
<1>1. PICK t \in TxnIds : t = ctx[w].txn
  BY DEF Proceed, credit_wallet_commit, debit_wallet_commit, process_customer_payment_commit,
         request_withdrawal_commit, refuse_locked_row, approve_withdrawal_commit,
         complete_withdrawal_commit, fail_withdrawal_read, fail_withdrawal_commit,
         fail_payment_transaction_commit, At, Idle, NamesItsRow, TypeInv
<1>2. /\ txns \in [TxnIds -> Row] /\ ctx[w] \in Request /\ balance \in Int
      /\ ctx[w].amount \in Int /\ ctx[w].net \in Int /\ ctx[w].user \in Users \cup {None}
  BY DEF TypeInv, TypeOK, StoreTypeOK, Request
<1>3. ASSUME ~ Idle(w), ctx[w].op \in InsertOps PROVE txns[t].status = "absent"
  BY <1>1, <1>3 DEF RowInv, InsertInv
<1>4. ASSUME ctx[w].op \in LocksItsRow, ctx[w].at \in {"locked", "read"}
      PROVE  ctx[w].row = txns[t]
  BY <1>1, <1>4 DEF RowInv, CopyInv
<1>5. ctx[w].at = "read" => ctx[w].seen = balance
  BY DEF FreshInv
<1>6. ASSUME UNCHANGED <<balance, txns>> PROVE LedgerStep
  BY <1>6 DEF LedgerStep, Book
(* The methods that insert a row.                                          *)
<1>7. ASSUME ctx[w].op \in {"credit_wallet", "process_customer_payment"}, ctx[w].at = "read",
             txns' = [txns EXCEPT ![ctx[w].txn] =
                NewRow("customer_payment", "completed", ctx[w].amount, ctx[w].net, None, None)],
             balance' = ctx[w].seen + ctx[w].net
      PROVE  LedgerStep
  <2> DEFINE row == NewRow("customer_payment", "completed", ctx[w].amount, ctx[w].net, None, None)
  <2>1. row \in Row
    BY <1>2, NewRowType DEF Statuses
  <2>2. row.type = "customer_payment" /\ row.status = "completed" /\ row.net = ctx[w].net
    BY DEF NewRow
  <2>3. ctx[w].net \in Deposits /\ txns[t].status = "absent"
    BY <1>3, <1>7 DEF IntentInv, Intends, InsertOps, Idle
  <2> HIDE DEF row
  <2> QED BY <1>1, <1>5, <1>7, <2>1, <2>2, <2>3, InsertsEntry DEF row
<1>8. ASSUME ctx[w].op \in {"debit_wallet", "request_withdrawal"}, ctx[w].at = "read",
             NEW status \in {"pending", "completed"}, NEW user \in Users \cup {None},
             txns' = [txns EXCEPT ![ctx[w].txn] =
                NewRow("withdrawal", status, ctx[w].amount, ctx[w].net, user, None)],
             balance' = ctx[w].seen + (- ctx[w].amount)
      PROVE  LedgerStep
  <2> DEFINE row == NewRow("withdrawal", status, ctx[w].amount, ctx[w].net, user, None)
  <2>1. row \in Row
    BY <1>2, NewRowType DEF Statuses
  <2>2. row.type = "withdrawal" /\ row.status = status /\ row.amount = ctx[w].amount
    BY DEF NewRow
  <2>3. /\ ctx[w].amount \in WithdrawalAmounts /\ ctx[w].amount <= balance
        /\ txns[t].status = "absent"
    BY <1>3, <1>5, <1>8 DEF IntentInv, Intends, InsertOps, Idle
  <2>4. balance' = balance - ctx[w].amount
    BY <1>2, <1>5, <1>8
  <2> HIDE DEF row
  <2> QED BY <1>1, <1>8, <2>1, <2>2, <2>3, <2>4, InsertsEntry DEF row
(* The methods that end a pending withdrawal.                              *)
<1>9. ASSUME NEW row, txns' = [txns EXCEPT ![ctx[w].txn] = row], row \in Row,
             row.type = txns[t].type, row.amount = txns[t].amount,
             row.written_off = txns[t].written_off,
             ctx[w].op \in LocksItsRow, ctx[w].at \in {"locked", "read"},
             PendingWithdrawal(ctx[w].row),
             \/ row.status = "completed" /\ balance' = balance
             \/ row.status = "failed" /\ balance' = balance + row.amount
      PROVE  LedgerStep
  <2>1. PendingWithdrawal(txns[t]) /\ ~ row.written_off /\ row.type = "withdrawal"
    BY <1>4, <1>9 DEF PendingWithdrawal, RowInv, WrittenOffInv
  <2> QED BY <1>1, <1>9, <2>1, EndsEntry
<1>10. ASSUME NEW status \in Statuses, SaveStatus(w, status)
       PROVE  \E row \in Row : /\ txns' = [txns EXCEPT ![ctx[w].txn] = row]
                       /\ row.type = txns[t].type /\ row.amount = txns[t].amount
                       /\ row.written_off = txns[t].written_off /\ row.status = status
  <2> DEFINE row == [txns[t] EXCEPT !.status = status]
  <2>1. txns' = [txns EXCEPT ![ctx[w].txn] = row]
    BY <1>1, <1>2, <1>10 DEF SaveStatus
  <2>2. row \in Row
    BY <1>2, ChangedRowType
  <2>3. /\ row.type = txns[t].type /\ row.amount = txns[t].amount
        /\ row.written_off = txns[t].written_off /\ row.status = status
    BY <1>2 DEF Row
  <2> HIDE DEF row
  <2> QED BY <2>1, <2>2, <2>3
<1>11. CASE credit_wallet_commit(w)
  <2>1. ctx[w].op = "credit_wallet" /\ ctx[w].at = "read"
    BY <1>11 DEF credit_wallet_commit, At
  <2>2. ctx[w].net = ctx[w].amount
    BY <2>1 DEF IntentInv, Intends
  <2> QED BY <1>7, <1>11, <2>1, <2>2 DEF credit_wallet_commit, SaveBalance
<1>12. CASE debit_wallet_commit(w)
  BY <1>8, <1>12 DEF debit_wallet_commit, At, SaveBalance
<1>13. CASE process_customer_payment_commit(w)
  BY <1>7, <1>13 DEF process_customer_payment_commit, At, SaveBalance
<1>14. CASE request_withdrawal_commit(w)
  BY <1>2, <1>8, <1>14 DEF request_withdrawal_commit, At, SaveBalance
<1>15. CASE refuse_locked_row(w) \/ fail_withdrawal_read(w)
  BY <1>6, <1>15 DEF refuse_locked_row, fail_withdrawal_read, tables
<1>16. CASE approve_withdrawal_commit(w)
  <2> DEFINE row == [txns[t] EXCEPT !.status = "completed", !.approved_by = ctx[w].user]
  <2>1. txns' = [txns EXCEPT ![ctx[w].txn] = row] /\ balance' = balance
    BY <1>1, <1>2, <1>16 DEF approve_withdrawal_commit
  <2>2. row \in Row
    BY <1>2, ChangedRowType DEF Statuses
  <2>3. /\ row.type = txns[t].type /\ row.amount = txns[t].amount /\ row.status = "completed"
        /\ row.written_off = txns[t].written_off
    BY <1>2 DEF Row
  <2>4. ctx[w].op \in LocksItsRow /\ ctx[w].at = "locked" /\ PendingWithdrawal(ctx[w].row)
    BY <1>16 DEF approve_withdrawal_commit, At, LocksItsRow, Accepts
  <2> HIDE DEF row
  <2> QED BY <1>9, <2>1, <2>2, <2>3, <2>4
<1>17. CASE complete_withdrawal_commit(w)
  <2>1. ctx[w].op \in LocksItsRow /\ ctx[w].at = "locked" /\ PendingWithdrawal(ctx[w].row)
        /\ SaveStatus(w, "completed") /\ balance' = balance /\ "completed" \in Statuses
    BY <1>17 DEF complete_withdrawal_commit, At, LocksItsRow, Accepts, Statuses
  <2> QED BY <1>9, <1>10, <2>1
<1>18. CASE fail_withdrawal_commit(w)
  <2>1. ctx[w].op \in LocksItsRow /\ ctx[w].at = "read" /\ SaveStatus(w, "failed")
        /\ balance' = ctx[w].seen + ctx[w].row.amount /\ "failed" \in Statuses
    BY <1>18 DEF fail_withdrawal_commit, At, LocksItsRow, SaveBalance, Statuses
  <2>2. PendingWithdrawal(ctx[w].row) /\ balance' = balance + txns[t].amount
    BY <1>4, <1>5, <2>1 DEF RowInv, CopyInv
  <2> QED BY <1>9, <1>10, <2>1, <2>2
<1>19. CASE fail_payment_transaction_commit(w)
  <2>1. ctx[w].op \in LocksItsRow /\ ctx[w].at = "locked" /\ balance' = balance
    BY <1>19 DEF fail_payment_transaction_commit, At, LocksItsRow
  <2>2. txns[t].status # "absent"
    BY <1>1, <2>1 DEF RowInv, ExistsInv, Idle
  <2>3. txns[t].type = "withdrawal" => txns[t].status # "canceled"
    BY DEF IntentInv
  <2>4. PICK row \in Row :
           /\ txns' = [txns EXCEPT ![t] = row]
           /\ row.status = "failed" /\ row.type = txns[t].type
           /\ row.amount = txns[t].amount /\ row.net = txns[t].net
           /\ row.written_off <=> txns[t].written_off \/ ctx[w].row.status # "failed"
    BY <1>1, <1>2, <1>19, WritesOff
  <2>5. row.written_off <=> txns[t].written_off \/ txns[t].status # "failed"
    BY <1>4, <2>1, <2>4
  <2> QED BY <1>2, <2>1, <2>2, <2>3, <2>4, <2>5, WriteOffEntry DEF Row
<1> QED BY <1>11, <1>12, <1>13, <1>14, <1>15, <1>16, <1>17, <1>18, <1>19 DEF Proceed

LEMMA NextLedger ==
    ASSUME TypeInv, RowInv, FreshInv, IntentInv, [Next]_storeVars
    PROVE  LedgerStep
<1>1. ASSUME UNCHANGED <<balance, txns>> PROVE LedgerStep
  BY <1>1 DEF LedgerStep, Book
<1>2. ASSUME NEW w \in Workers, Call(w) \/ LockRow(w) \/ Rollback(w)
      PROVE  UNCHANGED <<balance, txns>>
  BY <1>2 DEF Call, credit_wallet, debit_wallet, process_customer_payment, request_withdrawal,
              approve_withdrawal, complete_withdrawal, fail_withdrawal,
              fail_payment_transaction, ReadWallet, AskForRow, LockRow, Rollback, tables
<1> QED BY <1>1, <1>2, ProceedLedger DEF Next, storeVars

(* One request at a time, WalletService is an account: every request is    *)
(* one deposit, withdrawal, settlement, return in full or write-off, or    *)
(* nothing,                                                                *)
(* whatever the amounts, the fee and the methods the deployment calls.     *)
THEOREM OneAtATimeIsAnAccount ==
    ASSUME OneWorker
    PROVE  Spec => ImplementsLedger
<1>1. StoreInit => AccountBook!LedgerInit
  BY DEF StoreInit, AccountBook!LedgerInit, AccountBook!NoEntry, Book, EntryOf, NoRow, NewRow
<1>2. StoreInit => FreshInv /\ IntentInv
  BY DEF StoreInit, FreshInv, IntentInv, Intends, NoRequest, NoRow, NewRow
<1>3. TypeInv /\ FreshInv /\ [Next]_storeVars => FreshInv'
  BY FreshNext
<1>4. TypeInv /\ RowInv /\ FreshInv /\ IntentInv /\ [Next]_storeVars => LedgerStep
  BY NextLedger
<1>5. Spec => AccountBook!LedgerInit /\ [][LedgerStep]_<<balance, Book>>
  BY <1>1, <1>2, <1>3, <1>4, TypeInit, TypeNext, RowInit, RowNext, IntentNext, PTL DEF Spec
<1> QED BY <1>5, PTL DEF ImplementsLedger, AccountBook!LedgerSpec, LedgerStep

-----------------------------------------------------------------------------
(* WithdrawalService.                                                      *)
(* Four eyes on every payout, for any number of workers, users, rows and   *)
(* payouts, any amounts and fees, and every fault of the provider.  Which  *)
(* steps interleave matters little: what a view read without a lock and    *)
(* relies on later, the kind, the initiator and the net amount of the row, *)
(* is what no request ever changes.                                        *)

Inserts == InsertOps \cup {"initiate_withdrawal"}
Views == {"ApproveWithdrawalView", "CancelWithdrawalView"}
AfterPayout == {"paid", "saved"}
InView == {"checked", "error"} \cup AfterPayout

-----------------------------------------------------------------------------
(* The shapes of a worker's steps, as far as rows and requests go.         *)

Elsewhere(w) == \A v \in Workers : v # w => ctx'[v] = ctx[v]

SameRow(row, old) ==
    /\ row.status # "absent"
    /\ row.type = old.type /\ row.initiated_by = old.initiated_by /\ row.net = old.net

Starts(w) ==
    /\ Idle(w) /\ Elsewhere(w) /\ UNCHANGED txns
    /\ ctx'[w].at \in {"read", "wait"} /\ ctx'[w].op \in Operations
    /\ \/ ctx'[w].op \in Inserts /\ ctx'[w].txn \in Unused
       \/ ctx'[w].op \in LocksItsRow /\ ctx'[w].txn \in Existing

Goes(w) ==
    /\ ~ Idle(w) /\ Elsewhere(w) /\ UNCHANGED txns
    /\ ctx'[w].op = ctx[w].op /\ ctx'[w].txn = ctx[w].txn /\ ctx'[w].user = ctx[w].user
    /\ IF ctx[w].at \in InView
         THEN /\ ctx'[w].at \in InView /\ ctx'[w].row.net = ctx[w].row.net
              /\ ctx[w].op = "ApproveWithdrawalView"
         ELSE ctx'[w].at \in {"locked", "read"}

Ends(w) ==
    /\ ~ Idle(w) /\ Elsewhere(w) /\ UNCHANGED txns
    /\ ctx'[w].at = "idle" /\ ctx'[w].txn = None

Writes(w, row) ==
    /\ ~ Idle(w) /\ Elsewhere(w)
    /\ ctx'[w].at = "idle" /\ ctx'[w].txn = None
    /\ txns' = [txns EXCEPT ![ctx[w].txn] = row]
    /\ row.status # "absent"
    /\ \/ ctx[w].op \in Inserts
       \/ ctx[w].op \notin Inserts /\ SameRow(row, txns[ctx[w].txn])

(* Who may stand as the approver of the row a step writes.                 *)
Approver(w, row) ==
    \/ row.approved_by = None
    \/ ctx[w].op \notin Inserts /\ row.approved_by = txns[ctx[w].txn].approved_by
    \/ ctx[w].op = "approve_withdrawal"
    \/ ctx[w].at = "saved" /\ row.approved_by = ctx[w].user

WalletShape(w) ==
    Starts(w) \/ Goes(w) \/ Ends(w) \/ \E row \in Row : Writes(w, row) /\ Approver(w, row)

LEMMA Idles ==
    ASSUME TypeInv, NEW w \in Workers, EndRequest(w)
    PROVE  Elsewhere(w) /\ ctx'[w].at = "idle" /\ ctx'[w].txn = None
BY DEF EndRequest, Elsewhere, NoRequest, TypeInv, TypeOK, StoreTypeOK

LEMMA CallShape == ASSUME TypeInv, NEW w \in Workers, Call(w) PROVE Starts(w)
<1>1. ctx \in [Workers -> Request]
  BY DEF TypeInv, TypeOK, StoreTypeOK
<1>2. ASSUME NEW op \in InsertOps, NEW t \in Unused, NEW amount, NEW net, NEW user, NEW method,
             ReadWallet(w, op, t, amount, net, user, method)
      PROVE  Starts(w)
  BY <1>1, <1>2 DEF ReadWallet, Starts, Elsewhere, Inserts
<1>3. ASSUME NEW op \in LocksItsRow, NEW t, NEW user, AskForRow(w, op, t, user)
      PROVE  Starts(w)
  BY <1>1, <1>3 DEF AskForRow, Starts, Elsewhere, NoRequest
<1>4. CASE credit_wallet(w)
  BY <1>2, <1>4 DEF credit_wallet, InsertOps
<1>5. CASE debit_wallet(w)
  BY <1>2, <1>5 DEF debit_wallet, InsertOps
<1>6. CASE process_customer_payment(w)
  BY <1>2, <1>6 DEF process_customer_payment, InsertOps
<1>7. CASE request_withdrawal(w)
  BY <1>2, <1>7 DEF request_withdrawal, InsertOps
<1>8. CASE approve_withdrawal(w)
  BY <1>3, <1>8 DEF approve_withdrawal, LocksItsRow
<1>9. CASE complete_withdrawal(w)
  BY <1>3, <1>9 DEF complete_withdrawal, LocksItsRow
<1>10. CASE fail_withdrawal(w)
  BY <1>3, <1>10 DEF fail_withdrawal, LocksItsRow
<1>11. CASE fail_payment_transaction(w)
  BY <1>3, <1>11 DEF fail_payment_transaction, LocksItsRow
<1> QED BY <1>4, <1>5, <1>6, <1>7, <1>8, <1>9, <1>10, <1>11 DEF Call

LEMMA LockShape == ASSUME TypeInv, NEW w \in Workers, LockRow(w) PROVE Goes(w)
<1>1. ctx[w] \in Request /\ ctx \in [Workers -> Request]
  BY DEF TypeInv, TypeOK, StoreTypeOK
<1> QED BY <1>1 DEF LockRow, Goes, Elsewhere, tables, Idle, InView, AfterPayout, Request

(* A row that is inserted, and one whose status changes.                   *)
LEMMA InsertShape ==
    ASSUME TypeInv, NEW w \in Workers, ~ Idle(w), ctx[w].op \in Inserts, EndRequest(w),
           NEW type \in {"customer_payment", "withdrawal"}, NEW status \in Statuses,
           NEW user \in Users \cup {None}, NEW method \in Methods \cup {None},
           txns' = [txns EXCEPT ![ctx[w].txn] =
                      NewRow(type, status, ctx[w].amount, ctx[w].net, user, method)]
    PROVE  WalletShape(w)
<1> DEFINE row == NewRow(type, status, ctx[w].amount, ctx[w].net, user, method)
<1>1. row \in Row
  BY NewRowType DEF TypeInv, TypeOK, StoreTypeOK, Request
<1>2. row.status # "absent" /\ row.approved_by = None
  BY DEF NewRow, Statuses
<1>3. txns' = [txns EXCEPT ![ctx[w].txn] = row]
  OBVIOUS
<1> HIDE DEF row
<1>4. Writes(w, row) /\ Approver(w, row)
  BY <1>2, <1>3, Idles DEF Writes, Approver
<1> QED BY <1>1, <1>4 DEF WalletShape

LEMMA StatusShape ==
    ASSUME TypeInv, NEW w \in Workers, ~ Idle(w), ctx[w].op \notin Inserts, EndRequest(w),
           NEW status \in Statuses, SaveStatus(w, status)
    PROVE  WalletShape(w)
<1> DEFINE row == [txns[ctx[w].txn] EXCEPT !.status = status]
<1>1. ctx[w].txn \in TxnIds /\ txns \in [TxnIds -> Row]
  BY DEF TypeInv, TypeOK, StoreTypeOK, NamesItsRow
<1>2. row \in Row /\ SameRow(row, txns[ctx[w].txn]) /\ row.approved_by = txns[ctx[w].txn].approved_by
  <2>1. row \in Row
    BY <1>1, ChangedRowType
  <2>2. SameRow(row, txns[ctx[w].txn]) /\ row.approved_by = txns[ctx[w].txn].approved_by
    BY <1>1 DEF SameRow, Row, Statuses
  <2> QED BY <2>1, <2>2
<1>3. txns' = [txns EXCEPT ![ctx[w].txn] = row]
  BY <1>1 DEF SaveStatus
<1> HIDE DEF row
<1>4. Writes(w, row) /\ Approver(w, row)
  BY <1>2, <1>3, Idles DEF Writes, Approver, SameRow
<1> QED BY <1>2, <1>4 DEF WalletShape

LEMMA ApprovedShape ==
    ASSUME TypeInv, NEW w \in Workers, ~ Idle(w), ctx[w].op \notin Inserts, EndRequest(w),
           ctx[w].op = "approve_withdrawal" \/ ctx[w].at = "saved",
           txns' = [txns EXCEPT ![ctx[w].txn].status = "completed",
                                ![ctx[w].txn].approved_by = ctx[w].user]
    PROVE  WalletShape(w)
<1> DEFINE row == [txns[ctx[w].txn] EXCEPT !.status = "completed", !.approved_by = ctx[w].user]
<1>1. /\ ctx[w].txn \in TxnIds /\ txns \in [TxnIds -> Row]
      /\ ctx[w].user \in Users \cup {None}
  BY DEF TypeInv, TypeOK, StoreTypeOK, NamesItsRow, Request
<1>2. row \in Row
  BY <1>1, ChangedRowType DEF Statuses
<1>3. SameRow(row, txns[ctx[w].txn]) /\ row.approved_by = ctx[w].user
  BY <1>1 DEF SameRow, Row
<1>4. txns' = [txns EXCEPT ![ctx[w].txn] = row]
  BY <1>1
<1> HIDE DEF row
<1>5. Writes(w, row) /\ Approver(w, row)
  BY <1>3, <1>4, Idles DEF Writes, Approver, SameRow
<1> QED BY <1>2, <1>5 DEF WalletShape

LEMMA ProceedShape == ASSUME TypeInv, NEW w \in Workers, Proceed(w) PROVE WalletShape(w)
<1>1. ctx[w] \in Request /\ ctx \in [Workers -> Request] /\ ctx[w].user \in Users \cup {None}
  BY DEF TypeInv, TypeOK, StoreTypeOK, Request
<1>2. CASE credit_wallet_commit(w)
  BY <1>2, InsertShape DEF credit_wallet_commit, At, Idle, Inserts, InsertOps, Statuses
<1>3. CASE debit_wallet_commit(w)
  BY <1>3, InsertShape DEF debit_wallet_commit, At, Idle, Inserts, InsertOps, Statuses
<1>4. CASE process_customer_payment_commit(w)
  BY <1>4, InsertShape DEF process_customer_payment_commit, At, Idle, Inserts, InsertOps, Statuses
<1>5. CASE request_withdrawal_commit(w)
  BY <1>1, <1>5, InsertShape DEF request_withdrawal_commit, At, Idle, Inserts, InsertOps, Statuses
<1>6. CASE refuse_locked_row(w)
  BY <1>6, Idles DEF refuse_locked_row, tables, WalletShape, Ends, Idle
<1>7. CASE approve_withdrawal_commit(w)
  BY <1>7, ApprovedShape DEF approve_withdrawal_commit, At, Idle, Inserts, InsertOps
<1>8. CASE complete_withdrawal_commit(w)
  BY <1>8, StatusShape DEF complete_withdrawal_commit, At, Idle, Inserts, InsertOps, Statuses
<1>9. CASE fail_withdrawal_read(w)
  BY <1>1, <1>9 DEF fail_withdrawal_read, At, Idle, WalletShape, Goes, Elsewhere, InView,
                    AfterPayout, Request
<1>10. CASE fail_withdrawal_commit(w)
  BY <1>10, StatusShape DEF fail_withdrawal_commit, At, Idle, Inserts, InsertOps, Statuses
<1>11. CASE fail_payment_transaction_commit(w)
  <2>1. ~ Idle(w) /\ EndRequest(w) /\ ctx[w].op \notin Inserts
    BY <1>11 DEF fail_payment_transaction_commit, At, Idle, Inserts, InsertOps
  <2>2. ctx[w].txn \in TxnIds /\ txns \in [TxnIds -> Row]
    BY <2>1 DEF TypeInv, TypeOK, StoreTypeOK, NamesItsRow
  <2>3. PICK row \in Row :
           /\ txns' = [txns EXCEPT ![ctx[w].txn] = row]
           /\ row.status = "failed" /\ row.type = txns[ctx[w].txn].type
           /\ row.net = txns[ctx[w].txn].net
           /\ row.initiated_by = txns[ctx[w].txn].initiated_by
           /\ row.approved_by = txns[ctx[w].txn].approved_by
    BY <1>11, <2>2, WritesOff
  <2>4. Writes(w, row) /\ Approver(w, row)
    BY <2>1, <2>3, Idles DEF Writes, Approver, SameRow
  <2> QED BY <2>4 DEF WalletShape
<1> QED BY <1>2, <1>3, <1>4, <1>5, <1>6, <1>7, <1>8, <1>9, <1>10, <1>11 DEF Proceed

-----------------------------------------------------------------------------
(* Type correctness, with the requests of the views.  A transfer's "by" is *)
(* a user: the view that ordered it has one.                               *)

ApproverInv ==
    \A w \in Workers : ~ Idle(w) /\ ctx[w].op = "ApproveWithdrawalView" => ctx[w].user \in Users

PayoutTypeInv == TypeInv /\ ApproverInv /\ payouts \in Seq(PayoutRow)

LEMMA PayoutTypeInit == Init => PayoutTypeInv
<1> SUFFICES ASSUME Init PROVE PayoutTypeInv
  OBVIOUS
<1>1. TypeInv
  BY TypeInit DEF Init
<1>2. ApproverInv
  BY DEF Init, StoreInit, ApproverInv, Idle, NoRequest
<1>3. payouts \in Seq(PayoutRow)
  BY EmptySeq DEF Init
<1> QED BY <1>1, <1>2, <1>3 DEF PayoutTypeInv

(* Steps whose request, if any is left, keeps its method and its user, or  *)
(* is of another method than the view that approves.                       *)
LEMMA ApproverKept ==
    ASSUME PayoutTypeInv, NEW w \in Workers, Elsewhere(w),
           \/ ctx'[w].at = "idle"
           \/ ctx'[w].op # "ApproveWithdrawalView"
           \/ ctx'[w].user \in Users
           \/ ~ Idle(w) /\ ctx'[w].op = ctx[w].op /\ ctx'[w].user = ctx[w].user
    PROVE  ApproverInv'
BY DEF PayoutTypeInv, ApproverInv, Elsewhere, Idle

LEMMA WalletStepType ==
    ASSUME PayoutTypeInv, NEW w \in Workers, WalletStep(w) \/ Crash(w)
    PROVE  PayoutTypeInv'
<1>1. payouts' \in Seq(PayoutRow)
  BY DEF WalletStep, Crash, PayoutTypeInv
<1>2. CASE Call(w)
  BY <1>1, <1>2, CallType, CallShape, ApproverKept
     DEF PayoutTypeInv, Starts, Inserts, InsertOps, LocksItsRow
<1>3. CASE LockRow(w)
  BY <1>1, <1>3, LockRowType, LockShape, ApproverKept DEF PayoutTypeInv, Goes
<1>4. CASE Proceed(w)
  BY <1>1, <1>4, ProceedType, ProceedShape, ApproverKept
     DEF PayoutTypeInv, WalletShape, Starts, Goes, Ends, Writes, Inserts, InsertOps, LocksItsRow
<1>5. CASE Rollback(w)
  <2>1. TypeInv'
    BY <1>5, EndRequestType DEF Rollback, tables, PayoutTypeInv, TypeInv, TypeOK, StoreTypeOK
  <2>2. ApproverInv'
    BY <1>5, Idles, ApproverKept DEF Rollback, PayoutTypeInv
  <2> QED BY <1>1, <2>1, <2>2 DEF PayoutTypeInv
<1> QED BY <1>2, <1>3, <1>4, <1>5 DEF WalletStep, Crash

-----------------------------------------------------------------------------
(* What a request may rely on.  One that inserts names a row that is not   *)
(* there and that no other request names; every other names a row that is. *)
(* A view works on a withdrawal whose net amount is the one it read, and   *)
(* one that approves is not its initiator; past the provider, there is a   *)
(* transfer on its order.                                                  *)

Paid(t, user) == \E i \in DOMAIN payouts : payouts[i].txn = t /\ payouts[i].by = user

Sound(w) ==
    LET row == txns[ctx[w].txn]
    IN  ~ Idle(w) =>
          /\ ctx[w].op \in Inserts <=> row.status = "absent"
          /\ ctx[w].op \in Views <=> ctx[w].at \in InView
          /\ ctx[w].at \in InView /\ ctx[w].at # "checked" => ctx[w].op = "ApproveWithdrawalView"
          /\ ctx[w].op \in Views => row.type = "withdrawal" /\ ctx[w].row.net = row.net
          /\ ctx[w].op = "ApproveWithdrawalView" => row.initiated_by # ctx[w].user
          /\ ctx[w].at \in AfterPayout => Paid(ctx[w].txn, ctx[w].user)

AloneInv ==
    \A w, v \in Workers :
        ~ Idle(w) /\ ctx[w].op \in Inserts /\ ctx[v].txn = ctx[w].txn => v = w

RequestInv == AloneInv /\ \A w \in Workers : Sound(w)

PayoutsKept ==
    \A i \in DOMAIN payouts :
        /\ i \in DOMAIN payouts'
        /\ payouts'[i].txn = payouts[i].txn
        /\ payouts'[i].by = payouts[i].by
        /\ payouts'[i].amount = payouts[i].amount

RowsKept ==
    \A t \in TxnIds : txns[t].status # "absent" => SameRow(txns'[t], txns[t])

(* A view starts on the pending withdrawal it has read.                    *)
ViewStarts(w) ==
    /\ Idle(w) /\ Elsewhere(w) /\ UNCHANGED txns
    /\ ctx'[w].at = "checked" /\ ctx'[w].op \in Views
    /\ ctx'[w].txn \in Existing /\ ctx'[w].user \in Users
    /\ ctx'[w].row = txns[ctx'[w].txn] /\ ctx'[w].row.type = "withdrawal"
    /\ ctx'[w].op = "ApproveWithdrawalView" => ctx'[w].row.initiated_by # ctx'[w].user

LEMMA PaidKept ==
    ASSUME PayoutsKept, NEW t, NEW user, Paid(t, user)
    PROVE  Paid(t, user)'
BY DEF PayoutsKept, Paid

LEMMA OpsApart ==
    /\ Inserts \cap LocksItsRow = {} /\ Inserts \cap Views = {} /\ LocksItsRow \cap Views = {}
    /\ {"read", "wait", "locked", "idle"} \cap InView = {}
    /\ AfterPayout \subseteq InView /\ "checked" \notin AfterPayout
BY DEF Inserts, InsertOps, LocksItsRow, Views, InView, AfterPayout

(* A worker that does not move keeps what it relies on as long as the rows *)
(* do.                                                                     *)
LEMMA OthersSound ==
    ASSUME PayoutTypeInv, RequestInv, NEW w \in Workers, Elsewhere(w), PayoutsKept,
           NEW v \in Workers, v # w,
           \/ UNCHANGED txns
           \/ \E row \in Row : Writes(w, row)
    PROVE  Sound(v)'
<1>1. CASE UNCHANGED txns
  BY <1>1, PaidKept DEF RequestInv, Sound, Elsewhere, Idle
<1>2. ASSUME NEW row \in Row, Writes(w, row), ~ Idle(v) PROVE Sound(v)'
  <2>1. /\ ctx[v].txn \in TxnIds /\ ctx[w].txn \in TxnIds /\ ~ Idle(w)
        /\ txns \in [TxnIds -> Row] /\ ctx'[v] = ctx[v]
    BY <1>2 DEF PayoutTypeInv, TypeInv, TypeOK, StoreTypeOK, NamesItsRow, Writes, Elsewhere
  <2>2. CASE ctx[v].txn # ctx[w].txn
    <3>1. txns'[ctx[v].txn] = txns[ctx[v].txn]
      BY <1>2, <2>1, <2>2 DEF Writes
    <3> QED BY <2>1, <3>1, PaidKept DEF RequestInv, Sound, Idle
  <2>3. CASE ctx[v].txn = ctx[w].txn
    <3>1. ctx[w].op \notin Inserts /\ ctx[v].op \notin Inserts
      BY <2>1, <2>3, <1>2 DEF RequestInv, AloneInv
    <3>2. SameRow(txns'[ctx[v].txn], txns[ctx[v].txn])
      BY <1>2, <2>1, <2>3, <3>1 DEF Writes
    <3> QED BY <1>2, <2>1, <3>1, <3>2, PaidKept DEF RequestInv, Sound, SameRow, Idle
  <2> QED BY <2>2, <2>3
<1>3. Idle(v) => Sound(v)'
  BY DEF Elsewhere, Sound, Idle
<1> QED BY <1>1, <1>2, <1>3

LEMMA StartsSound ==
    ASSUME PayoutTypeInv, RequestInv, NEW w \in Workers, PayoutsKept, Starts(w) \/ ViewStarts(w)
    PROVE  RequestInv' /\ RowsKept
<1>1. Elsewhere(w) /\ UNCHANGED txns
  BY DEF Starts, ViewStarts
<1>2. \A v \in Workers : v # w => Sound(v)'
  BY <1>1, OthersSound
<1>3. RowsKept
  BY <1>1 DEF RowsKept, SameRow
<1>4. CASE Starts(w)
  <2>1. Sound(w)'
    BY <1>4, OpsApart DEF Starts, Sound, Unused, Existing, Views
  <2>2. AloneInv'
    <3>1. CASE ctx'[w].op \in Inserts
      BY <1>4, <3>1, OpsApart DEF Starts, Unused, AloneInv, RequestInv, Elsewhere, Idle
    <3>2. CASE ctx'[w].op \in LocksItsRow /\ ctx'[w].txn \in Existing
      BY <1>4, <3>2, OpsApart DEF Starts, Existing, AloneInv, RequestInv, Sound, Elsewhere, Idle
    <3> QED BY <1>4, <3>1, <3>2 DEF Starts
  <2> QED BY <1>2, <1>3, <2>1, <2>2 DEF RequestInv
<1>5. CASE ViewStarts(w)
  <2>1. Sound(w)'
    BY <1>5, OpsApart DEF ViewStarts, Sound, Existing, InView
  <2>2. AloneInv'
    BY <1>5, OpsApart DEF ViewStarts, Existing, AloneInv, RequestInv, Sound, Elsewhere, Idle
  <2> QED BY <1>2, <1>3, <2>1, <2>2 DEF RequestInv
<1> QED BY <1>4, <1>5

LEMMA GoesSound ==
    ASSUME PayoutTypeInv, RequestInv, NEW w \in Workers, PayoutsKept, Goes(w),
           ctx'[w].at \in AfterPayout => Paid(ctx[w].txn, ctx[w].user)'
    PROVE  RequestInv' /\ RowsKept
<1>1. Elsewhere(w) /\ UNCHANGED txns /\ ~ Idle(w)
  BY DEF Goes
<1>2. \A v \in Workers : v # w => Sound(v)'
  BY <1>1, OthersSound
<1>3. Sound(w)'
  BY <1>1, OpsApart DEF Goes, Sound, RequestInv, Views
<1>4. AloneInv'
  BY <1>1 DEF Goes, AloneInv, RequestInv, Elsewhere, Idle
<1>5. RowsKept
  BY <1>1 DEF RowsKept, SameRow
<1> QED BY <1>2, <1>3, <1>4, <1>5 DEF RequestInv

LEMMA EndsSound ==
    ASSUME PayoutTypeInv, RequestInv, NEW w \in Workers, PayoutsKept,
           Ends(w) \/ \E row \in Row : Writes(w, row)
    PROVE  RequestInv' /\ RowsKept
<1>1. Elsewhere(w) /\ ctx'[w].at = "idle" /\ ctx'[w].txn = None /\ ~ Idle(w)
  BY DEF Ends, Writes
<1>2. \A v \in Workers : v # w => Sound(v)'
  BY <1>1, OthersSound DEF Ends
<1>3. Sound(w)'
  BY <1>1 DEF Sound, Idle
<1>4. AloneInv'
  <2>1. \A v \in Workers : ~ Idle(v) => ctx[v].txn # None
    BY SortsAssumption DEF PayoutTypeInv, TypeInv, NamesItsRow
  <2> QED BY <1>1, <2>1 DEF AloneInv, RequestInv, Elsewhere, Idle
<1>5. RowsKept
  <2>1. CASE UNCHANGED txns
    BY <2>1 DEF RowsKept, SameRow
  <2>2. ASSUME NEW row \in Row, Writes(w, row) PROVE RowsKept
    <3>1. ctx[w].txn \in TxnIds /\ txns \in [TxnIds -> Row]
      BY <1>1 DEF PayoutTypeInv, TypeInv, TypeOK, StoreTypeOK, NamesItsRow
    <3>2. txns[ctx[w].txn].status # "absent" => SameRow(row, txns[ctx[w].txn])
      BY <1>1, <2>2 DEF Writes, RequestInv, Sound
    <3> QED BY <2>2, <3>1, <3>2 DEF RowsKept, SameRow, Writes
  <2> QED BY <2>1, <2>2 DEF Ends
<1> QED BY <1>2, <1>3, <1>4, <1>5 DEF RequestInv

-----------------------------------------------------------------------------
(* The transfers.  A step of a request keeps them, or orders one for the   *)
(* row it has checked.                                                     *)

PayoutOf(w) == [txn |-> ctx[w].txn, by |-> ctx[w].user,
                amount |-> ctx[w].row.net, state |-> "accepted"]

Orders(w) ==
    /\ At(w, "ApproveWithdrawalView", "checked")
    /\ payouts' = Append(payouts, PayoutOf(w))

LEMMA OrderKeeps ==
    ASSUME PayoutTypeInv, NEW w \in Workers, Orders(w)
    PROVE  /\ payouts' \in Seq(PayoutRow)
           /\ PayoutsKept
           /\ \E i \in DOMAIN payouts' : payouts'[i] = PayoutOf(w)
           /\ \A i \in DOMAIN payouts' :
                payouts'[i] = PayoutOf(w) \/ (i \in DOMAIN payouts /\ payouts'[i] = payouts[i])
<1>1. payouts \in Seq(PayoutRow) /\ PayoutOf(w) \in PayoutRow
  BY DEF PayoutTypeInv, TypeInv, TypeOK, StoreTypeOK, NamesItsRow, ApproverInv, Orders, At,
         Idle, PayoutRow, PayoutOf, Request, Row
<1>2. /\ payouts' \in Seq(PayoutRow)
      /\ Len(payouts') = Len(payouts) + 1
      /\ \A i \in 1..Len(payouts) : payouts'[i] = payouts[i]
      /\ payouts'[Len(payouts) + 1] = PayoutOf(w)
  BY <1>1, AppendProperties DEF Orders
<1>3. DOMAIN payouts' = 1..Len(payouts) + 1 /\ DOMAIN payouts = 1..Len(payouts)
      /\ Len(payouts) \in Nat
  BY <1>1, <1>2
<1>4. PayoutsKept
  BY <1>2, <1>3 DEF PayoutsKept
<1> QED BY <1>2, <1>3, <1>4

(* A step of a worker keeps the types and what requests rely on; the rows  *)
(* stay and keep their kind, initiator and net amount; an approver is one  *)
(* who paid; the transfers stay and a new one is ordered by a request that *)
(* has checked its row.                                                    *)
ApproversPaid(w) ==
    \/ UNCHANGED txns
    \/ \E row \in Row : Writes(w, row) /\ Approver(w, row)

NewAreOrdered(w) ==
    \A i \in DOMAIN payouts' :
        \/ i \in DOMAIN payouts /\ payouts'[i] = payouts[i]
        \/ At(w, "ApproveWithdrawalView", "checked") /\ payouts'[i] = PayoutOf(w)

Preserved(w) ==
    /\ PayoutTypeInv' /\ RequestInv'
    /\ RowsKept /\ PayoutsKept /\ ApproversPaid(w) /\ NewAreOrdered(w)

LEMMA SamePayouts ==
    ASSUME NEW w, UNCHANGED payouts
    PROVE  PayoutsKept /\ NewAreOrdered(w)
BY DEF PayoutsKept, NewAreOrdered

LEMMA ShapePreserved ==
    ASSUME PayoutTypeInv, RequestInv, NEW w \in Workers, WalletShape(w), UNCHANGED payouts,
           PayoutTypeInv', ctx'[w].at \notin InView
    PROVE  Preserved(w)
<1>1. PayoutsKept /\ NewAreOrdered(w)
  BY SamePayouts
<1>2. ApproversPaid(w)
  BY DEF WalletShape, ApproversPaid, Starts, Goes, Ends
<1>3. RequestInv' /\ RowsKept
  BY <1>1, StartsSound, GoesSound, EndsSound, OpsApart DEF WalletShape
<1> QED BY <1>1, <1>2, <1>3 DEF Preserved

LEMMA WalletPreserved ==
    ASSUME PayoutTypeInv, RequestInv, NEW w \in Workers, WalletStep(w) \/ Crash(w)
    PROVE  Preserved(w)
<1>1. PayoutTypeInv' /\ UNCHANGED payouts
  BY WalletStepType DEF WalletStep, Crash
<1>2. CASE Call(w)
  BY <1>1, <1>2, CallShape, ShapePreserved, OpsApart DEF PayoutTypeInv, WalletShape, Starts
<1>3. CASE LockRow(w)
  <2>1. ctx'[w].at = "locked"
    BY <1>3 DEF LockRow, PayoutTypeInv, TypeInv, TypeOK, StoreTypeOK, Request
  <2> QED BY <1>1, <1>3, <2>1, LockShape, ShapePreserved, OpsApart DEF PayoutTypeInv, WalletShape
<1>4. CASE Proceed(w)
  <2>1. ctx'[w].at \in {"idle", "read"}
    BY <1>4 DEF Proceed, credit_wallet_commit, debit_wallet_commit,
         process_customer_payment_commit, request_withdrawal_commit, refuse_locked_row,
         approve_withdrawal_commit, complete_withdrawal_commit, fail_withdrawal_read,
         fail_withdrawal_commit, fail_payment_transaction_commit, EndRequest, NoRequest,
         PayoutTypeInv, TypeInv, TypeOK, StoreTypeOK, Request
  <2> QED BY <1>1, <1>4, <2>1, ProceedShape, ShapePreserved, OpsApart DEF PayoutTypeInv
<1>5. CASE Rollback(w)
  <2>1. Ends(w) /\ ctx'[w].at = "idle"
    BY <1>5, Idles DEF Rollback, tables, Ends, PayoutTypeInv
  <2> QED BY <1>1, <2>1, ShapePreserved, OpsApart DEF WalletShape
<1> QED BY <1>2, <1>3, <1>4, <1>5 DEF WalletStep, Crash

LEMMA CallPreserved ==
    ASSUME PayoutTypeInv, RequestInv, NEW w \in Workers, WithdrawalCall(w)
    PROVE  Preserved(w)
<1>1. UNCHANGED payouts /\ PayoutsKept /\ NewAreOrdered(w)
  BY SamePayouts DEF WithdrawalCall
<1>2. ctx \in [Workers -> Request] /\ TypeInv
  BY DEF PayoutTypeInv, TypeInv, TypeOK, StoreTypeOK
<1>3. CASE initiate_withdrawal(w)
  <2>1. PICK t \in Unused, amount \in WithdrawalAmounts, method \in Methods, user \in Users :
          ReadWallet(w, "initiate_withdrawal", t, amount, amount - WITHDRAWAL_FEES[method],
                     user, method)
    BY <1>3 DEF initiate_withdrawal
  <2>2. amount \in Int /\ amount - WITHDRAWAL_FEES[method] \in Int /\ t \in TxnIds
    BY AmountsAssumption, PayoutAssumption DEF Unused
  <2>3. TypeInv'
    BY <1>2, <2>1, <2>2, ReadWalletType
  <2>4. Starts(w) /\ ctx'[w].op = "initiate_withdrawal" /\ ctx'[w].at = "read"
    BY <1>2, <2>1 DEF ReadWallet, Starts, Elsewhere, Inserts
  <2>5. PayoutTypeInv'
    BY <1>1, <2>3, <2>4, ApproverKept DEF PayoutTypeInv, Starts
  <2> QED BY <1>1, <2>4, <2>5, ShapePreserved, OpsApart DEF WalletShape
<1>4. ASSUME NEW op \in Views, NEW t \in TxnIds, NEW user \in Users,
             ReadPendingWithdrawal(w, op, t, user),
             op = "ApproveWithdrawalView" => txns[t].initiated_by # user
      PROVE  Preserved(w)
  <2> DEFINE request == [NoRequest EXCEPT !.op = op, !.at = "checked", !.txn = t,
                                          !.user = user, !.row = txns[t]]
  <2>1. ctx' = [ctx EXCEPT ![w] = request] /\ UNCHANGED <<balance, txns, audits, rowLock>>
    BY <1>4 DEF ReadPendingWithdrawal
  <2>2. /\ request.op = op /\ request.at = "checked" /\ request.txn = t
        /\ request.user = user /\ request.row = txns[t]
    BY DEF NoRequest
  <2>3. request \in Request
    BY <1>2, <1>4, NoRequestType
       DEF ReadPendingWithdrawal, NoRequest, Request, Phases, TypeInv, TypeOK, StoreTypeOK
  <2> HIDE DEF request
  <2>4. StoreTypeOK'
    BY <1>2, <2>1, <2>3 DEF TypeInv, TypeOK, StoreTypeOK
  <2>5. NamesItsRow'
    BY <1>2, <2>1, <2>2 DEF TypeInv, NamesItsRow, Idle
  <2>6. ViewStarts(w)
    BY <1>2, <1>4, <2>1, <2>2
       DEF ReadPendingWithdrawal, PendingWithdrawal, ViewStarts, Elsewhere
  <2>7. PayoutTypeInv'
    BY <1>1, <2>4, <2>5, <2>6, ApproverKept DEF PayoutTypeInv, TypeInv, TypeOK, ViewStarts
  <2>8. RequestInv' /\ RowsKept
    BY <1>1, <2>6, StartsSound
  <2> QED BY <1>1, <2>6, <2>7, <2>8 DEF Preserved, ApproversPaid, ViewStarts
<1>5. CASE ApproveWithdrawalView(w)
  BY <1>4, <1>5 DEF ApproveWithdrawalView, Views
<1>6. CASE CancelWithdrawalView(w)
  BY <1>4, <1>6 DEF CancelWithdrawalView, Views
<1> QED BY <1>3, <1>5, <1>6 DEF WithdrawalCall

(* A step that moves a request on between the view's check and its end.    *)
LEMMA MovePreserved ==
    ASSUME PayoutTypeInv, RequestInv, NEW w \in Workers,
           ~ Idle(w), ctx[w].op = "ApproveWithdrawalView", ctx[w].at \in InView,
           NEW request \in Request, ctx' = [ctx EXCEPT ![w] = request],
           request.op = ctx[w].op, request.txn = ctx[w].txn, request.user = ctx[w].user,
           request.row.net = ctx[w].row.net, request.at \in InView,
           UNCHANGED tables, rowLock' \in [TxnIds -> Workers \cup {None}],
           UNCHANGED payouts \/ Orders(w),
           request.at \in AfterPayout => ctx[w].at \in AfterPayout \/ Orders(w)
    PROVE  Preserved(w)
<1>1. ctx \in [Workers -> Request] /\ txns' = txns
  BY DEF PayoutTypeInv, TypeInv, TypeOK, StoreTypeOK, tables
<1>2. Elsewhere(w) /\ ctx'[w] = request
  BY <1>1 DEF Elsewhere
<1>3. Goes(w)
  BY <1>1, <1>2 DEF Goes
<1>4. PayoutsKept /\ NewAreOrdered(w) /\ payouts' \in Seq(PayoutRow)
  BY SamePayouts, OrderKeeps DEF NewAreOrdered, Orders, PayoutTypeInv
<1>5. StoreTypeOK'
  BY <1>1 DEF tables, PayoutTypeInv, TypeInv, TypeOK, StoreTypeOK
<1>6. NamesItsRow' /\ ApproverInv'
  <2>1. ctx[w].txn \in TxnIds /\ ctx[w].user \in Users
    BY DEF PayoutTypeInv, TypeInv, NamesItsRow, ApproverInv
  <2> QED BY <1>2, <2>1 DEF PayoutTypeInv, TypeInv, NamesItsRow, ApproverInv, Elsewhere, Idle
<1>7. ctx'[w].at \in AfterPayout => Paid(ctx[w].txn, ctx[w].user)'
  <2>1. CASE ctx[w].at \in AfterPayout
    BY <1>2, <1>4, <2>1, PaidKept DEF RequestInv, Sound
  <2>2. CASE Orders(w)
    BY <1>2, <2>2, OrderKeeps DEF Paid, PayoutOf
  <2> QED BY <1>2, <2>1, <2>2
<1>8. RequestInv' /\ RowsKept
  BY <1>3, <1>4, <1>7, GoesSound
<1> QED BY <1>1, <1>4, <1>5, <1>6, <1>8
        DEF Preserved, PayoutTypeInv, TypeInv, TypeOK, ApproversPaid

LEMMA WithdrawalPreserved ==
    ASSUME PayoutTypeInv, RequestInv, NEW w \in Workers, WithdrawalProceed(w)
    PROVE  Preserved(w)
<1>1. /\ ctx \in [Workers -> Request] /\ ctx[w] \in Request /\ ctx[w].row \in Row
      /\ ctx[w].seen \in Int /\ balance \in Int /\ TypeInv
      /\ rowLock \in [TxnIds -> Workers \cup {None}]
      /\ ctx[w].row.status \in Statuses \cup {"absent"} /\ ctx[w].user \in Users \cup {None}
      /\ ctx[w].method \in Methods \cup {None}
  BY DEF PayoutTypeInv, TypeInv, TypeOK, StoreTypeOK, Request, Row
<1>2. ctx[w].at \in {"paid", "saved", "error"} => ~ Idle(w) /\ ctx[w].op = "ApproveWithdrawalView"
  BY DEF RequestInv, Sound, Idle, InView, AfterPayout
<1>3. ASSUME HoldRow(w), ~ Idle(w) PROVE rowLock' \in [TxnIds -> Workers \cup {None}]
  BY <1>1, <1>3 DEF HoldRow
<1>4. ASSUME At(w, "ApproveWithdrawalView", "checked"), EnterExcept(w),
             UNCHANGED payouts \/ Orders(w)
      PROVE  Preserved(w)
  <2> DEFINE failed == [ctx[w].row EXCEPT !.status = "failed"]
             request == [ctx[w] EXCEPT !.at = "error", !.row = failed]
  <2>1. ctx' = [ctx EXCEPT ![w] = request]
    BY <1>1, <1>4 DEF EnterExcept, Request
  <2>2. ~ Idle(w) /\ ctx[w].at \in InView /\ "error" \in InView /\ "error" \notin AfterPayout
    BY <1>4 DEF At, Idle, InView, AfterPayout
  <2>3. UNCHANGED tables /\ rowLock' \in [TxnIds -> Workers \cup {None}]
    BY <1>3, <1>4, <2>2 DEF EnterExcept
  <2>4. failed \in Row /\ failed.net = ctx[w].row.net
    BY <1>1 DEF Row, Statuses
  <2>5. /\ request \in Request /\ request.op = ctx[w].op /\ request.txn = ctx[w].txn
        /\ request.user = ctx[w].user /\ request.row = failed /\ request.at = "error"
    <3> HIDE DEF failed
    <3> QED BY <1>1, <2>4 DEF Request, Phases
  <2> HIDE DEF request
  <2> QED BY <1>4, <2>1, <2>2, <2>3, <2>4, <2>5, MovePreserved DEF At
<1>5. ProviderAccepts(w) => Orders(w)
  BY DEF ProviderAccepts, Orders, PayoutOf
<1>6. CASE initiate_withdrawal_commit(w) /\ UNCHANGED payouts
  <2>1. /\ ctx[w].op = "initiate_withdrawal" /\ ~ Idle(w) /\ EndRequest(w)
        /\ UNCHANGED <<balance, audits>>
        /\ txns' = [txns EXCEPT ![ctx[w].txn] = NewRow("withdrawal", "pending", ctx[w].amount,
                                                       ctx[w].net, ctx[w].user, ctx[w].method)]
    BY <1>6 DEF initiate_withdrawal_commit, At, Idle
  <2>2. WalletShape(w)
    BY <1>1, <2>1, InsertShape DEF Inserts, Statuses
  <2>3. txns' \in [TxnIds -> Row]
    <3>1. NewRow("withdrawal", "pending", ctx[w].amount, ctx[w].net, ctx[w].user,
                 ctx[w].method) \in Row
      BY <1>1, NewRowType DEF Request, Statuses
    <3> QED BY <1>1, <2>1, <3>1 DEF TypeInv, TypeOK, StoreTypeOK
  <2>4. TypeInv'
    BY <1>1, <2>1, <2>3, EndRequestType DEF TypeInv, TypeOK, StoreTypeOK
  <2>5. PayoutTypeInv' /\ ctx'[w].at = "idle"
    BY <1>1, <1>6, <2>1, <2>4, Idles, ApproverKept DEF PayoutTypeInv
  <2> QED BY <1>6, <2>2, <2>5, ShapePreserved, OpsApart
<1>7. CASE process_withdrawal(w)
  <2> DEFINE request == [ctx[w] EXCEPT !.at = "paid"]
  <2>1. ctx' = [ctx EXCEPT ![w] = request] /\ UNCHANGED <<tables, rowLock>> /\ Orders(w)
    BY <1>1, <1>5, <1>7 DEF process_withdrawal
  <2>2. ~ Idle(w) /\ ctx[w].at \in InView /\ "paid" \in InView /\ ctx[w].op = "ApproveWithdrawalView"
    BY <2>1 DEF Orders, At, Idle, InView, AfterPayout
  <2>3. /\ request \in Request /\ request.op = ctx[w].op /\ request.txn = ctx[w].txn
        /\ request.user = ctx[w].user /\ request.row = ctx[w].row /\ request.at = "paid"
    BY <1>1 DEF Request, Phases
  <2> HIDE DEF request
  <2> QED BY <1>1, <2>1, <2>2, <2>3, MovePreserved
<1>8. CASE process_withdrawal_refused(w)
  BY <1>4, <1>8 DEF process_withdrawal_refused
<1>9. CASE process_withdrawal_unanswered(w)
  BY <1>4, <1>5, <1>9 DEF process_withdrawal_unanswered, ProviderAccepts
<1>10. CASE raise_WithdrawalError(w)
  <2>1. ~ Idle(w) /\ EndRequest(w) /\ UNCHANGED tables /\ UNCHANGED payouts
    BY <1>10 DEF raise_WithdrawalError, Idle
  <2>2. Ends(w) /\ ctx'[w].at = "idle"
    BY <1>1, <2>1, Idles DEF Ends, tables
  <2>3. TypeInv'
    BY <1>1, <2>1, EndRequestType DEF tables, TypeInv, TypeOK, StoreTypeOK
  <2>4. PayoutTypeInv'
    BY <2>1, <2>2, <2>3, ApproverKept DEF PayoutTypeInv, Ends
  <2> QED BY <2>1, <2>2, <2>4, ShapePreserved, OpsApart DEF WalletShape
<1>11. CASE approve_withdrawal_save(w)
  <2> DEFINE request == [ctx[w] EXCEPT !.at = "saved", !.seen = balance]
  <2>1. /\ ctx[w].at = "paid" /\ HoldRow(w) /\ UNCHANGED tables /\ UNCHANGED payouts
        /\ ctx' = [ctx EXCEPT ![w] = request]
    BY <1>1, <1>11 DEF approve_withdrawal_save, Request
  <2>2. "paid" \in InView \cap AfterPayout /\ "saved" \in InView
    BY DEF InView, AfterPayout
  <2>3. /\ request \in Request /\ request.op = ctx[w].op /\ request.txn = ctx[w].txn
        /\ request.user = ctx[w].user /\ request.row = ctx[w].row /\ request.at = "saved"
    BY <1>1 DEF Request, Phases
  <2> HIDE DEF request
  <2> QED BY <1>2, <1>3, <2>1, <2>2, <2>3, MovePreserved
<1>12. CASE pay_withdrawal_commit(w)
  <2>1. /\ ~ Idle(w) /\ ctx[w].op = "ApproveWithdrawalView" /\ ctx[w].at = "saved"
        /\ EndRequest(w) /\ UNCHANGED <<audits, payouts>> /\ ctx[w].txn \in TxnIds
        /\ balance' = ctx[w].seen - ctx[w].row.amount
        /\ txns' = [txns EXCEPT ![ctx[w].txn].status = "completed",
                                ![ctx[w].txn].approved_by = ctx[w].user]
    BY <1>1, <1>2, <1>12 DEF pay_withdrawal_commit, TypeInv, NamesItsRow
  <2>2. WalletShape(w)
    BY <1>1, <2>1, ApprovedShape DEF Inserts, InsertOps
  <2>3. balance' \in Int
    BY <1>1, <2>1 DEF Row
  <2>4. txns' \in [TxnIds -> Row]
    <3>1. txns \in [TxnIds -> Row]
      BY <1>1 DEF TypeInv, TypeOK, StoreTypeOK
    <3> DEFINE row == [txns[ctx[w].txn] EXCEPT !.status = "completed", !.approved_by = ctx[w].user]
    <3>2. txns' = [txns EXCEPT ![ctx[w].txn] = row]
      BY <2>1, <3>1
    <3>3. row \in Row
      BY <1>1, <2>1, <3>1, ChangedRowType DEF Statuses
    <3> HIDE DEF row
    <3> QED BY <3>1, <3>2, <3>3
  <2>5. TypeInv'
    BY <1>1, <2>1, <2>3, <2>4, EndRequestType DEF TypeInv, TypeOK, StoreTypeOK
  <2>6. PayoutTypeInv' /\ ctx'[w].at = "idle"
    BY <1>1, <2>1, <2>5, Idles, ApproverKept DEF PayoutTypeInv
  <2> QED BY <2>1, <2>2, <2>6, ShapePreserved, OpsApart
<1>13. CASE cancel_withdrawal(w) /\ UNCHANGED payouts
  <2>1. /\ ~ Idle(w) /\ ctx[w].op = "CancelWithdrawalView" /\ ctx[w].txn \in TxnIds
        /\ EndRequest(w) /\ SaveStatus(w, "canceled") /\ UNCHANGED <<balance, audits>>
    BY <1>1, <1>13 DEF cancel_withdrawal, At, Idle, TypeInv, NamesItsRow
  <2>2. WalletShape(w)
    BY <1>1, <2>1, StatusShape DEF Inserts, InsertOps, Statuses
  <2>3. txns' \in [TxnIds -> Row]
    <3>1. txns \in [TxnIds -> Row]
      BY <1>1 DEF TypeInv, TypeOK, StoreTypeOK
    <3>2. txns' = [txns EXCEPT ![ctx[w].txn] = [txns[ctx[w].txn] EXCEPT !.status = "canceled"]]
      BY <2>1, <3>1 DEF SaveStatus
    <3> QED BY <2>1, <3>1, <3>2, ChangedRowType DEF Statuses
  <2>4. TypeInv'
    BY <1>1, <2>1, <2>3, EndRequestType DEF TypeInv, TypeOK, StoreTypeOK
  <2>5. PayoutTypeInv' /\ ctx'[w].at = "idle"
    BY <1>1, <1>13, <2>1, <2>4, Idles, ApproverKept DEF PayoutTypeInv
  <2> QED BY <1>13, <2>2, <2>5, ShapePreserved, OpsApart
<1> QED BY <1>6, <1>7, <1>8, <1>9, <1>10, <1>11, <1>12, <1>13
        DEF WithdrawalProceed, cancel_withdrawal

LEMMA PayoutIsRow ==
    ASSUME PayoutTypeInv, NEW i \in DOMAIN payouts
    PROVE  /\ payouts[i] \in PayoutRow /\ payouts[i].txn \in TxnIds
           /\ i \in 1..Len(payouts)
<1>1. payouts \in Seq(PayoutRow) /\ i \in 1..Len(payouts)
  BY DEF PayoutTypeInv
<1>2. payouts[i] \in PayoutRow
  BY <1>1, ElementOfSeq
<1> QED BY <1>1, <1>2 DEF PayoutRow

(* A transfer the provider reports as failed keeps what the theorems are   *)
(* about.                                                                  *)
LEMMA BouncePreserved ==
    ASSUME PayoutTypeInv, RequestInv, NEW i \in DOMAIN payouts, transfer_failed(i)
    PROVE  /\ PayoutTypeInv' /\ RequestInv' /\ RowsKept /\ PayoutsKept /\ UNCHANGED txns
           /\ DOMAIN payouts' = DOMAIN payouts
<1>1. UNCHANGED storeVars /\ payouts \in Seq(PayoutRow)
      /\ payouts' = [payouts EXCEPT ![i] = [payouts[i] EXCEPT !.state = "bounced"]]
  BY DEF transfer_failed, PayoutTypeInv
<1>2. payouts[i] \in PayoutRow /\ [payouts[i] EXCEPT !.state = "bounced"] \in PayoutRow
  BY PayoutIsRow DEF PayoutRow
<1>3. payouts' \in Seq(PayoutRow)
  BY <1>1, <1>2, PayoutIsRow, ExceptSeq
<1>4. DOMAIN payouts' = DOMAIN payouts
  BY <1>1
<1>5. PayoutsKept
  BY <1>1, <1>2, <1>4 DEF PayoutsKept, PayoutRow
<1>6. TypeInv' /\ ApproverInv'
  BY <1>1 DEF storeVars, PayoutTypeInv, TypeInv, TypeOK, StoreTypeOK, NamesItsRow, ApproverInv, Idle
<1>7. \A w \in Workers : Sound(w)'
  BY <1>1, <1>5, PaidKept DEF storeVars, RequestInv, Sound, Idle
<1>8. AloneInv' /\ RowsKept
  BY <1>1 DEF storeVars, RequestInv, AloneInv, RowsKept, SameRow, Idle
<1> QED BY <1>1, <1>3, <1>4, <1>5, <1>6, <1>7, <1>8 DEF PayoutTypeInv, RequestInv, storeVars

PayoutInv == PayoutTypeInv /\ RequestInv

LEMMA PayoutInit == Init => PayoutInv
<1> SUFFICES ASSUME Init PROVE PayoutInv
  OBVIOUS
<1>1. \A w \in Workers : Idle(w)
  BY DEF Init, StoreInit, Idle, NoRequest
<1> QED BY <1>1, PayoutTypeInit DEF PayoutInv, RequestInv, AloneInv, Sound

LEMMA WorkerPreserved ==
    ASSUME PayoutInv, NEW w \in Workers,
           WalletStep(w) \/ WithdrawalCall(w) \/ WithdrawalProceed(w) \/ Crash(w)
    PROVE  Preserved(w)
BY WalletPreserved, CallPreserved, WithdrawalPreserved DEF PayoutInv

LEMMA PayoutNext == PayoutInv /\ [WithdrawalNext]_vars => PayoutInv'
<1> SUFFICES ASSUME PayoutInv, [WithdrawalNext]_vars PROVE PayoutInv'
  OBVIOUS
<1>1. CASE UNCHANGED vars
  BY <1>1 DEF vars, PayoutInv, PayoutTypeInv, RequestInv, AloneInv, Sound, Paid, Idle, TypeInv,
              TypeOK, StoreTypeOK, NamesItsRow, ApproverInv
<1> QED BY <1>1, WorkerPreserved, BouncePreserved DEF WithdrawalNext, Preserved, PayoutInv

(* The tables, the requests and the accepted transfers are well formed,    *)
(* for any number of workers, rows and payouts.                            *)
THEOREM PayoutTypeCorrect == WithdrawalSpec => []PayoutTypeOK
<1>1. PayoutInv => PayoutTypeOK
  BY DEF PayoutInv, PayoutTypeInv, TypeInv, TypeOK, PayoutTypeOK
<1> QED BY <1>1, PayoutInit, PayoutNext, PTL DEF WithdrawalSpec

LEMMA FourEyesNext ==
    PayoutInv /\ FourEyesOnPayouts /\ [WithdrawalNext]_vars => FourEyesOnPayouts'
<1> SUFFICES ASSUME PayoutInv, FourEyesOnPayouts, [WithdrawalNext]_vars PROVE FourEyesOnPayouts'
  OBVIOUS
<1>1. CASE UNCHANGED vars
  BY <1>1 DEF vars, FourEyesOnPayouts
(* The row of a transfer that was there is what it was.                    *)
<1>2. ASSUME RowsKept, NEW i \in DOMAIN payouts, NEW p, p.txn = payouts[i].txn,
             p.by = payouts[i].by, p.amount = payouts[i].amount
      PROVE  /\ txns'[p.txn].type = "withdrawal" /\ txns'[p.txn].status # "absent"
             /\ p.by # txns'[p.txn].initiated_by /\ p.amount = txns'[p.txn].net
  <2>1. payouts[i].txn \in TxnIds
    BY PayoutIsRow DEF PayoutInv
  <2> QED BY <1>2, <2>1 DEF FourEyesOnPayouts, RowsKept, SameRow
<1>3. ASSUME NEW i \in DOMAIN payouts, transfer_failed(i) PROVE FourEyesOnPayouts'
  <2>1. RowsKept /\ PayoutsKept /\ DOMAIN payouts' = DOMAIN payouts
    BY <1>3, BouncePreserved DEF PayoutInv
  <2> QED BY <1>2, <2>1 DEF FourEyesOnPayouts, PayoutsKept
<1>4. ASSUME NEW w \in Workers, Preserved(w) PROVE FourEyesOnPayouts'
  <2>1. ASSUME NEW i \in DOMAIN payouts'
        PROVE  LET row == txns'[payouts'[i].txn]
               IN  /\ row.type = "withdrawal" /\ row.status # "absent"
                   /\ payouts'[i].by # row.initiated_by
                   /\ payouts'[i].amount = row.net
    <3>1. CASE i \in DOMAIN payouts /\ payouts'[i] = payouts[i]
      BY <1>2, <1>4, <3>1 DEF Preserved
    <3>2. CASE At(w, "ApproveWithdrawalView", "checked") /\ payouts'[i] = PayoutOf(w)
      <4>1. /\ ctx[w].txn \in TxnIds /\ txns[ctx[w].txn].status # "absent"
            /\ txns[ctx[w].txn].type = "withdrawal" /\ ctx[w].row.net = txns[ctx[w].txn].net
            /\ txns[ctx[w].txn].initiated_by # ctx[w].user
        BY <3>2, OpsApart DEF At, Idle, Views, PayoutInv, PayoutTypeInv, TypeInv, NamesItsRow,
                              RequestInv, Sound
      <4>2. SameRow(txns'[ctx[w].txn], txns[ctx[w].txn])
        BY <1>4, <4>1 DEF Preserved, RowsKept
      <4> QED BY <3>2, <4>1, <4>2 DEF PayoutOf, SameRow
    <3> QED BY <1>4, <2>1, <3>1, <3>2 DEF Preserved, NewAreOrdered
  <2> QED BY <2>1 DEF FourEyesOnPayouts
<1> QED BY <1>1, <1>3, <1>4, WorkerPreserved DEF WithdrawalNext

(* Whatever races, times out, bounces or crashes, a transfer is for the    *)
(* net amount of a withdrawal that exists and was ordered by another user  *)
(* than the one who asked for it.                                          *)
THEOREM PayoutsTakeFourEyes == WithdrawalSpec => []FourEyesOnPayouts
<1>1. Init => FourEyesOnPayouts
  BY DEF Init, FourEyesOnPayouts
<1> QED BY <1>1, PayoutInit, PayoutNext, FourEyesNext, PTL DEF WithdrawalSpec

-----------------------------------------------------------------------------
(* The approver of a row is one who paid it, where the approval of         *)
(* WalletService, which pays nobody, is not called.                        *)

OnlyPaidApprovals == \A w \in Workers : ~ Idle(w) => ctx[w].op # "approve_withdrawal"

ApprovedInv ==
    /\ OnlyPaidApprovals
    /\ \A t \in TxnIds : txns[t].approved_by # None => Paid(t, txns[t].approved_by)

LEMMA ApprovedInvImplies == ApprovedInv => ApprovedIsPaid
BY DEF ApprovedInv, ApprovedIsPaid, Paid, PayoutsOf

(* The method of a request that is new is one the deployment calls.        *)
LEMMA OpsKept ==
    ASSUME PayoutInv, ApprovedInv, "approve_withdrawal" \notin Operations, NEW w \in Workers,
           WalletStep(w) \/ WithdrawalCall(w) \/ WithdrawalProceed(w) \/ Crash(w)
    PROVE  OnlyPaidApprovals'
<1>1. Elsewhere(w) /\ (\/ ctx'[w].at = "idle" \/ ctx'[w].op \in Operations
                       \/ ~ Idle(w) /\ ctx'[w].op = ctx[w].op)
  <2>1. TypeInv /\ ctx \in [Workers -> Request] /\ ctx[w] \in Request
    BY DEF PayoutInv, PayoutTypeInv, TypeInv, TypeOK, StoreTypeOK
  <2>2. CASE Call(w) \/ LockRow(w) \/ Proceed(w)
    BY <2>1, <2>2, CallShape, LockShape, ProceedShape DEF WalletShape, Starts, Goes, Ends, Writes
  <2>3. CASE EndRequest(w)
    BY <2>1, <2>3, Idles
  <2>4. CASE WithdrawalCall(w)
    <3>1. ASSUME NEW op, NEW t, NEW amount, NEW net, NEW user, NEW method,
                 ReadWallet(w, op, t, amount, net, user, method)
          PROVE  Elsewhere(w) /\ ctx'[w].op \in Operations
      BY <2>1, <3>1 DEF ReadWallet, Elsewhere
    <3>2. ASSUME NEW op, NEW t, NEW user, ReadPendingWithdrawal(w, op, t, user)
          PROVE  Elsewhere(w) /\ ctx'[w].op \in Operations
      BY <2>1, <3>2 DEF ReadPendingWithdrawal, Elsewhere, NoRequest
    <3> QED BY <2>4, <3>1, <3>2 DEF WithdrawalCall, initiate_withdrawal, ApproveWithdrawalView,
                                    CancelWithdrawalView
  <2>5. CASE process_withdrawal(w)
    BY <2>1, <2>5 DEF process_withdrawal, ProviderAccepts, At, Idle, Elsewhere, Request
  <2>6. ASSUME EnterExcept(w), At(w, "ApproveWithdrawalView", "checked")
        PROVE  Elsewhere(w) /\ ~ Idle(w) /\ ctx'[w].op = ctx[w].op
    BY <2>1, <2>6 DEF EnterExcept, At, Idle, Elsewhere, Request
  <2>7. CASE approve_withdrawal_save(w)
    BY <2>1, <2>7 DEF approve_withdrawal_save, Idle, Elsewhere, Request
  <2> QED BY <2>2, <2>3, <2>4, <2>5, <2>6, <2>7
          DEF WalletStep, Crash, Rollback, WithdrawalProceed, initiate_withdrawal_commit,
              process_withdrawal_refused, process_withdrawal_unanswered, ProviderAccepts,
              raise_WithdrawalError, pay_withdrawal_commit, cancel_withdrawal
<1> QED BY <1>1 DEF ApprovedInv, OnlyPaidApprovals, Elsewhere, Idle

LEMMA ApprovedNext ==
    ASSUME PayoutInv, ApprovedInv, "approve_withdrawal" \notin Operations,
           [WithdrawalNext]_vars
    PROVE  ApprovedInv'
<1>1. CASE UNCHANGED vars
  BY <1>1 DEF vars, ApprovedInv, OnlyPaidApprovals, Paid, Idle
<1>2. ASSUME NEW i \in DOMAIN payouts, transfer_failed(i) PROVE ApprovedInv'
  <2>1. PayoutsKept /\ UNCHANGED txns
    BY <1>2, BouncePreserved DEF PayoutInv
  <2>2. UNCHANGED ctx
    BY <1>2 DEF transfer_failed, storeVars
  <2> QED BY <2>1, <2>2, PaidKept DEF ApprovedInv, OnlyPaidApprovals, Idle
<1>3. ASSUME NEW w \in Workers, OnlyPaidApprovals', Preserved(w) PROVE ApprovedInv'
  <2>1. ASSUME NEW t \in TxnIds, txns'[t] = txns[t], txns[t].approved_by # None
        PROVE  \E i \in DOMAIN payouts' :
                 payouts'[i].txn = t /\ payouts'[i].by = txns[t].approved_by
    BY <1>3, <2>1 DEF ApprovedInv, Paid, Preserved, PayoutsKept
  <2>2. ASSUME NEW row \in Row, Writes(w, row), Approver(w, row), row.approved_by # None
        PROVE  \E i \in DOMAIN payouts' :
                 payouts'[i].txn = ctx[w].txn /\ payouts'[i].by = row.approved_by
    <3>1. ctx[w].txn \in TxnIds /\ ~ Idle(w)
      BY <2>2 DEF Writes, PayoutInv, PayoutTypeInv, TypeInv, NamesItsRow
    <3>2. Paid(ctx[w].txn, row.approved_by)
      BY <2>2, <3>1 DEF Approver, ApprovedInv, OnlyPaidApprovals, PayoutInv, RequestInv, Sound,
                        AfterPayout
    <3> QED BY <1>3, <3>2 DEF Paid, Preserved, PayoutsKept
  <2>3. ASSUME NEW t \in TxnIds, txns'[t].approved_by # None
        PROVE  \E i \in DOMAIN payouts' :
                 payouts'[i].txn = t /\ payouts'[i].by = txns'[t].approved_by
    <3>1. CASE txns'[t] = txns[t]
      BY <2>1, <2>3, <3>1
    <3>2. ASSUME NEW row \in Row, Writes(w, row), Approver(w, row), txns'[t] # txns[t]
          PROVE  \E i \in DOMAIN payouts' :
                   payouts'[i].txn = t /\ payouts'[i].by = txns'[t].approved_by
      <4>1. txns \in [TxnIds -> Row]
        BY DEF PayoutInv, PayoutTypeInv, TypeInv, TypeOK, StoreTypeOK
      <4>2. t = ctx[w].txn /\ txns'[t] = row
        BY <3>2, <4>1 DEF Writes
      <4> QED BY <2>2, <2>3, <3>2, <4>2
    <3> QED BY <1>3, <3>1, <3>2 DEF Preserved, ApproversPaid
  <2> QED BY <1>3, <2>3 DEF ApprovedInv, Paid
<1> QED BY <1>1, <1>2, <1>3, WorkerPreserved, OpsKept DEF WithdrawalNext

(* Where approvals go through the provider, a withdrawal that carries an   *)
(* approver was accepted on that approver's request, whatever became of    *)
(* the other requests for it.                                              *)
THEOREM ApprovalsPay ==
    ASSUME "approve_withdrawal" \notin Operations
    PROVE  WithdrawalSpec => []ApprovedIsPaid
<1>1. Init => ApprovedInv
  BY DEF Init, StoreInit, ApprovedInv, OnlyPaidApprovals, Idle, NoRequest, NoRow, NewRow
<1>2. PayoutInv /\ ApprovedInv /\ [WithdrawalNext]_vars => ApprovedInv'
  BY ApprovedNext
<1> QED BY <1>1, <1>2, ApprovedInvImplies, PayoutInit, PayoutNext, PTL DEF WithdrawalSpec

-----------------------------------------------------------------------------
(* One payout for each completed withdrawal, one request at a time.  What  *)
(* completes a withdrawal is then the provider's acceptance: the methods   *)
(* of WalletService that complete without one are not called, and no       *)
(* request is left between the payout and its commit.                      *)

CompletesUnpaid == {"debit_wallet", "approve_withdrawal", "complete_withdrawal"}

ProviderPays == Operations \cap CompletesUnpaid = {}
ProviderAnswers == Faults \cap {"timeout", "crash"} = {}

Settled(row) == row.type = "withdrawal" /\ row.status = "completed"

(* What a request holds of its row is still true of it.                    *)
Fresh(w) ==
    LET row == txns[ctx[w].txn]
    IN  ~ Idle(w) =>
          /\ ctx[w].op \notin CompletesUnpaid
          /\ ctx[w].at \in {"checked", "paid", "saved"} => PendingWithdrawal(row)
          /\ ctx[w].at = "locked" => ctx[w].row = row
          /\ At(w, "fail_withdrawal", "read") => PendingWithdrawal(row)

(* A row has its one transfer if it is completed or is about to be.        *)
Owed(t) == Settled(txns[t]) \/ \E w \in Workers : ctx[w].at \in AfterPayout /\ ctx[w].txn = t

(* Of a row that was written off it is not known whether it had one.       *)
OnePayout(t) ==
    /\ Owed(t) => \E i \in DOMAIN payouts : PayoutsOf(t) = {i}
    /\ ~ Owed(t) /\ ~ txns[t].written_off => PayoutsOf(t) = {}
    /\ PayoutsOf(t) = {} \/ \E i \in DOMAIN payouts : PayoutsOf(t) = {i}

OnceInv ==
    /\ \A w \in Workers : Fresh(w)
    /\ \A t \in TxnIds : OnePayout(t)
    /\ \A t \in TxnIds : txns[t].written_off => txns[t].status = "failed"

LEMMA OnceInit == Init => OnceInv
<1> SUFFICES ASSUME Init PROVE OnceInv
  OBVIOUS
<1>1. \A w \in Workers : Fresh(w) /\ ctx[w].at = "idle"
  BY DEF Init, StoreInit, NoRequest, Fresh, Idle
<1>2. \A t \in TxnIds : ~ Settled(txns[t]) /\ ~ txns[t].written_off
  BY DEF Init, StoreInit, Settled, NoRow, NewRow
<1>3. \A t \in TxnIds : PayoutsOf(t) = {}
  BY DEF Init, PayoutsOf
<1> QED BY <1>1, <1>2, <1>3 DEF OnceInv, OnePayout, Owed, AfterPayout

(* With one worker, what it does decides for all.                          *)
LEMMA SameOwed ==
    ASSUME OneWorker, OnceInv, NEW w \in Workers, Fresh(w)',
           \A t \in TxnIds :
              /\ Owed(t)' => Owed(t)
              /\ Owed(t) \/ txns[t].written_off => Owed(t)' \/ txns'[t].written_off
              /\ txns'[t].written_off => txns'[t].status = "failed",
           \A t \in TxnIds : PayoutsOf(t)' = PayoutsOf(t), DOMAIN payouts' = DOMAIN payouts
    PROVE  OnceInv'
BY DEF OneWorker, OnceInv, OnePayout

(* A request that ends, and writes no row, or one that does not become a   *)
(* completed withdrawal, nor was one that is not written off.              *)
LEMMA EndsOnce ==
    ASSUME OneWorker, PayoutInv, OnceInv, NEW w \in Workers, EndRequest(w),
           ctx[w].at \notin AfterPayout, UNCHANGED payouts,
           \/ UNCHANGED txns
           \/ \E row \in Row : /\ txns' = [txns EXCEPT ![ctx[w].txn] = row]
                               /\ ~ Settled(row)
                               /\ row.written_off => row.status = "failed"
                               /\ \/ row.written_off
                                  \/ /\ ~ Settled(txns[ctx[w].txn])
                                     /\ txns[ctx[w].txn].status # "failed"
    PROVE  OnceInv'
<1>1. txns \in [TxnIds -> Row] /\ ctx \in [Workers -> Request]
  BY DEF PayoutInv, PayoutTypeInv, TypeInv, TypeOK, StoreTypeOK
<1>2. ctx'[w] = NoRequest
  BY <1>1 DEF EndRequest
<1>3. Fresh(w)' /\ ctx'[w].at \notin AfterPayout
  BY <1>2 DEF NoRequest, Fresh, Idle, AfterPayout
<1>4. \A t \in TxnIds :
         /\ Settled(txns'[t]) => Settled(txns[t])
         /\ Settled(txns[t]) \/ txns[t].written_off => Settled(txns'[t]) \/ txns'[t].written_off
         /\ txns'[t].written_off => txns'[t].status = "failed"
  BY <1>1 DEF OnceInv
<1>5. \A t \in TxnIds : (Owed(t) <=> Settled(txns[t])) /\ (Owed(t)' <=> Settled(txns'[t]))
  BY <1>3 DEF OneWorker, Owed
<1> QED BY <1>3, <1>4, <1>5, SameOwed DEF PayoutsOf

(* A request that goes on, and leaves rows and transfers as they are.      *)
LEMMA GoesOnce ==
    ASSUME OneWorker, OnceInv, NEW w \in Workers, UNCHANGED <<txns, payouts>>, Fresh(w)',
           \/ ctx[w].at \notin AfterPayout /\ ctx'[w].at \notin AfterPayout
           \/ /\ ctx[w].at \in AfterPayout /\ ctx'[w].at \in AfterPayout
              /\ ctx'[w].txn = ctx[w].txn
    PROVE  OnceInv'
<1>1. \A t \in TxnIds : Owed(t)' <=> Owed(t)
  BY DEF OneWorker, Owed
<1> QED BY <1>1, SameOwed DEF PayoutsOf, OnceInv

LEMMA CallOnce ==
    ASSUME OneWorker, ProviderPays, PayoutInv, OnceInv, NEW w \in Workers,
           (Call(w) /\ UNCHANGED payouts) \/ WithdrawalCall(w)
    PROVE  OnceInv'
<1>1. ctx \in [Workers -> Request] /\ UNCHANGED payouts
  BY DEF PayoutInv, PayoutTypeInv, TypeInv, TypeOK, StoreTypeOK, WithdrawalCall
<1>2. ASSUME NEW op \in Inserts, NEW t, NEW amount, NEW net, NEW user, NEW method,
             ReadWallet(w, op, t, amount, net, user, method)
      PROVE  OnceInv'
  <2>1. /\ ctx'[w].op = op /\ ctx'[w].at = "read" /\ op \in Operations
        /\ ctx[w].at = "idle" /\ UNCHANGED txns
    BY <1>1, <1>2 DEF ReadWallet, Idle
  <2>2. Fresh(w)'
    BY <2>1 DEF Fresh, Idle, At, ProviderPays, Inserts, InsertOps
  <2> QED BY <1>1, <2>1, <2>2, GoesOnce DEF AfterPayout
<1>3. ASSUME NEW op \in LocksItsRow, NEW t, NEW user, AskForRow(w, op, t, user)
      PROVE  OnceInv'
  <2>1. /\ ctx'[w].op = op /\ ctx'[w].at = "wait" /\ ctx'[w].txn = t /\ op \in Operations
        /\ ctx[w].at = "idle" /\ UNCHANGED txns
    BY <1>1, <1>3 DEF AskForRow, Idle, NoRequest
  <2>2. Fresh(w)'
    BY <1>3, <2>1 DEF Fresh, Idle, At, ProviderPays
  <2> QED BY <1>1, <2>1, <2>2, GoesOnce DEF AfterPayout
<1>4. ASSUME NEW op \in Views, NEW t, NEW user, ReadPendingWithdrawal(w, op, t, user)
      PROVE  OnceInv'
  <2>1. /\ ctx'[w].op = op /\ ctx'[w].at = "checked" /\ ctx'[w].txn = t /\ op \in Operations
        /\ ctx[w].at = "idle" /\ UNCHANGED txns /\ PendingWithdrawal(txns[t])
    BY <1>1, <1>4 DEF ReadPendingWithdrawal, Idle, NoRequest
  <2>2. Fresh(w)'
    BY <2>1 DEF Fresh, Idle, At, ProviderPays, Views, PendingWithdrawal
  <2> QED BY <1>1, <2>1, <2>2, GoesOnce DEF AfterPayout
<1>5. CASE credit_wallet(w) \/ debit_wallet(w) \/ process_customer_payment(w)
             \/ request_withdrawal(w) \/ initiate_withdrawal(w)
  BY <1>2, <1>5 DEF credit_wallet, debit_wallet, process_customer_payment, request_withdrawal,
                    initiate_withdrawal, Inserts, InsertOps
<1>6. CASE approve_withdrawal(w) \/ complete_withdrawal(w) \/ fail_withdrawal(w)
             \/ fail_payment_transaction(w)
  BY <1>3, <1>6 DEF approve_withdrawal, complete_withdrawal, fail_withdrawal,
                    fail_payment_transaction, LocksItsRow
<1>7. CASE ApproveWithdrawalView(w) \/ CancelWithdrawalView(w)
  BY <1>4, <1>7 DEF ApproveWithdrawalView, CancelWithdrawalView, Views
<1> QED BY <1>5, <1>6, <1>7 DEF Call, WithdrawalCall

LEMMA WalletOnce ==
    ASSUME OneWorker, ProviderPays, PayoutInv, OnceInv, NEW w \in Workers,
           LockRow(w) \/ Proceed(w), UNCHANGED payouts
    PROVE  OnceInv'
<1>1. /\ ctx \in [Workers -> Request] /\ ctx[w] \in Request /\ txns \in [TxnIds -> Row]
      /\ Fresh(w) /\ Sound(w) /\ (~ Idle(w) => ctx[w].txn \in TxnIds)
  BY DEF PayoutInv, PayoutTypeInv, RequestInv, TypeInv, TypeOK, StoreTypeOK, NamesItsRow, OnceInv
<1>2. CASE LockRow(w)
  <2>1. /\ ctx[w].at = "wait" /\ ctx'[w].at = "locked" /\ ctx'[w].op = ctx[w].op
        /\ ctx'[w].txn = ctx[w].txn /\ ctx'[w].row = txns[ctx[w].txn] /\ UNCHANGED txns
    BY <1>1, <1>2 DEF LockRow, tables, Request
  <2>2. Fresh(w)'
    BY <1>1, <2>1 DEF Fresh, Idle, At
  <2> QED BY <2>1, <2>2, GoesOnce DEF AfterPayout
<1>3. CASE fail_withdrawal_read(w)
  <2>1. /\ At(w, "fail_withdrawal", "locked") /\ PendingWithdrawal(ctx[w].row)
        /\ ctx'[w].at = "read" /\ ctx'[w].op = ctx[w].op /\ ctx'[w].txn = ctx[w].txn
        /\ UNCHANGED txns
    BY <1>1, <1>3 DEF fail_withdrawal_read, Accepts, At, Request
  <2>2. Fresh(w)'
    BY <1>1, <2>1 DEF Fresh, Idle, At
  <2> QED BY <2>1, <2>2, GoesOnce DEF AfterPayout, At
<1>4. ASSUME ctx[w].op \in Inserts, ctx[w].at = "read", EndRequest(w),
             NEW row \in Row, txns' = [txns EXCEPT ![ctx[w].txn] = row], ~ Settled(row),
             ~ row.written_off
      PROVE  OnceInv'
  <2>1. ~ Settled(txns[ctx[w].txn]) /\ txns[ctx[w].txn].status # "failed"
    BY <1>1, <1>4 DEF Sound, Idle, Settled
  <2> QED BY <1>4, <2>1, EndsOnce DEF AfterPayout
<1>5. ASSUME NEW type \in {"customer_payment", "withdrawal"}, NEW status \in {"pending", "completed"},
             type = "customer_payment" \/ status = "pending",
             NEW user \in Users \cup {None}, ctx[w].op \in Inserts, ctx[w].at = "read", EndRequest(w),
             txns' = [txns EXCEPT ![ctx[w].txn] =
                        NewRow(type, status, ctx[w].amount, ctx[w].net, user, None)]
      PROVE  OnceInv'
  <2> DEFINE row == NewRow(type, status, ctx[w].amount, ctx[w].net, user, None)
  <2>1. row \in Row
    BY <1>1, NewRowType DEF Request, Statuses
  <2>2. ~ Settled(row) /\ ~ row.written_off
    BY <1>5 DEF NewRow, Settled
  <2> HIDE DEF row
  <2> QED BY <1>4, <1>5, <2>1, <2>2 DEF row
<1>6. CASE credit_wallet_commit(w) \/ process_customer_payment_commit(w)
  BY <1>5, <1>6 DEF credit_wallet_commit, process_customer_payment_commit, At, Inserts, InsertOps
<1>7. CASE request_withdrawal_commit(w)
  <2>1. ctx[w].user \in Users \cup {None}
    BY <1>1 DEF Request
  <2> QED BY <1>5, <1>7, <2>1 DEF request_withdrawal_commit, At, Inserts, InsertOps
<1>8. CASE refuse_locked_row(w)
  BY <1>8, EndsOnce DEF refuse_locked_row, tables, AfterPayout
<1>9. ASSUME NEW row \in Row, txns' = [txns EXCEPT ![ctx[w].txn] = row], EndRequest(w),
             ctx[w].at \notin AfterPayout, row.status = "failed",
             row.written_off \/ txns[ctx[w].txn].status = "pending"
      PROVE  OnceInv'
  BY <1>9, EndsOnce DEF Settled
<1>10. CASE fail_withdrawal_commit(w)
  <2> DEFINE row == [txns[ctx[w].txn] EXCEPT !.status = "failed"]
  <2>1. At(w, "fail_withdrawal", "read") /\ SaveStatus(w, "failed") /\ EndRequest(w)
    BY <1>10 DEF fail_withdrawal_commit
  <2>2. ctx[w].txn \in TxnIds /\ txns[ctx[w].txn].status = "pending"
    BY <1>1, <2>1 DEF At, Idle, Fresh, PendingWithdrawal
  <2>3. row \in Row
    BY <1>1, <2>2, ChangedRowType DEF Statuses
  <2>4. row.status = "failed" /\ txns' = [txns EXCEPT ![ctx[w].txn] = row]
    BY <1>1, <2>1, <2>2 DEF Row, SaveStatus
  <2> HIDE DEF row
  <2> QED BY <1>9, <2>1, <2>2, <2>3, <2>4 DEF At, AfterPayout
<1>11. CASE fail_payment_transaction_commit(w)
  <2>1. At(w, "fail_payment_transaction", "locked") /\ EndRequest(w) /\ ctx[w].txn \in TxnIds
    BY <1>1, <1>11 DEF fail_payment_transaction_commit, At, Idle
  <2>2. PICK row \in Row :
           /\ txns' = [txns EXCEPT ![ctx[w].txn] = row] /\ row.status = "failed"
           /\ row.written_off <=> txns[ctx[w].txn].written_off \/ ctx[w].row.status # "failed"
    BY <1>1, <1>11, <2>1, WritesOff
  <2>3. ctx[w].row = txns[ctx[w].txn] /\ ctx[w].at \notin AfterPayout
    BY <1>1, <2>1 DEF Fresh, At, Idle, AfterPayout
  <2>4. CASE row.written_off
    BY <1>9, <2>1, <2>2, <2>3, <2>4
  <2>5. CASE ~ row.written_off
    <3>1. txns[ctx[w].txn].status = "failed" /\ ~ txns[ctx[w].txn].written_off
      BY <2>2, <2>3, <2>5
    <3>2. ~ Settled(row) /\ ~ Settled(txns[ctx[w].txn]) /\ ctx'[w] = NoRequest
      BY <1>1, <2>1, <2>2, <3>1 DEF Settled, EndRequest
    <3>3. \A t \in TxnIds : /\ Owed(t)' <=> Owed(t)
                            /\ txns'[t].written_off <=> txns[t].written_off
                            /\ txns'[t].written_off => txns'[t].status = "failed"
      BY <1>1, <2>1, <2>2, <2>3, <2>5, <3>1, <3>2
      DEF OneWorker, Owed, NoRequest, AfterPayout, OnceInv
    <3>4. Fresh(w)'
      BY <3>2 DEF Fresh, Idle, NoRequest
    <3> QED BY <3>3, <3>4, SameOwed DEF PayoutsOf
  <2> QED BY <2>4, <2>5
<1>12. CASE debit_wallet_commit(w) \/ approve_withdrawal_commit(w) \/ complete_withdrawal_commit(w)
  BY <1>1, <1>12 DEF debit_wallet_commit, approve_withdrawal_commit, complete_withdrawal_commit,
                     At, Idle, Fresh, CompletesUnpaid
<1> QED BY <1>2, <1>3, <1>6, <1>7, <1>8, <1>10, <1>11, <1>12 DEF Proceed

(* The provider takes the order of a request that has just checked its     *)
(* row: the row gets its first transfer and the others get none.           *)
LEMMA OrderOnce ==
    ASSUME OneWorker, PayoutInv, OnceInv, NEW w \in Workers, process_withdrawal(w)
    PROVE  OnceInv'
<1>1. /\ ctx \in [Workers -> Request] /\ ctx[w] \in Request /\ ~ Idle(w)
      /\ payouts \in Seq(PayoutRow) /\ ctx[w].at = "checked" /\ UNCHANGED txns
      /\ payouts' = Append(payouts, PayoutOf(w)) /\ Fresh(w)
  BY DEF PayoutInv, PayoutTypeInv, TypeInv, TypeOK, StoreTypeOK, OnceInv, process_withdrawal,
         ProviderAccepts, PayoutOf, At, Idle, tables
<1>2. ctx'[w].at = "paid" /\ ctx'[w].op = ctx[w].op /\ ctx'[w].txn = ctx[w].txn
  BY <1>1 DEF process_withdrawal, Request
<1>3. Fresh(w)'
  BY <1>1, <1>2 DEF Fresh, Idle, At
<1> DEFINE n == Len(payouts) + 1
<1>4. /\ n \in DOMAIN payouts' /\ n \notin DOMAIN payouts /\ payouts'[n].txn = ctx[w].txn
      /\ DOMAIN payouts' = DOMAIN payouts \cup {n}
      /\ \A i \in DOMAIN payouts : payouts'[i] = payouts[i]
  <2>1. /\ Len(payouts') = n /\ payouts'[n] = PayoutOf(w)
        /\ payouts' \in Seq(PayoutRow \cup {PayoutOf(w)})
        /\ \A i \in 1 .. Len(payouts) : payouts'[i] = payouts[i]
    BY <1>1, AppendProperties
  <2>2. PayoutOf(w).txn = ctx[w].txn
    BY DEF PayoutOf
  <2>3. DOMAIN payouts = 1 .. Len(payouts) /\ DOMAIN payouts' = 1 .. n /\ Len(payouts) \in Nat
    BY <1>1, <2>1, LenProperties
  <2> QED BY <2>1, <2>2, <2>3
<1> HIDE DEF n
<1>5. PICK paid \in TxnIds : paid = ctx[w].txn
  BY <1>1 DEF PayoutInv, PayoutTypeInv, TypeInv, NamesItsRow
<1>6. ~ Owed(paid) /\ ~ txns[paid].written_off /\ PayoutsOf(paid) = {}
  BY <1>1, <1>5 DEF OneWorker, OnceInv, OnePayout, Owed, Settled, Fresh, PendingWithdrawal,
                    AfterPayout
<1>7. \A t \in TxnIds : PayoutsOf(t)' = IF t = paid THEN PayoutsOf(t) \cup {n} ELSE PayoutsOf(t)
  BY <1>4, <1>5 DEF PayoutsOf
<1>8. Owed(paid)' /\ \A t \in TxnIds : t # paid => (Owed(t)' <=> Owed(t))
  BY <1>1, <1>2, <1>5 DEF OneWorker, Owed, AfterPayout
<1>9. ASSUME NEW t \in TxnIds PROVE OnePayout(t)'
  <2>1. CASE t = paid
    BY <1>4, <1>6, <1>7, <1>8, <2>1 DEF OnePayout
  <2>2. CASE t # paid
    BY <1>1, <1>4, <1>7, <1>8, <2>2 DEF OnceInv, OnePayout
  <2> QED BY <2>1, <2>2
<1> QED BY <1>1, <1>3, <1>9 DEF OneWorker, OnceInv

(* The row of a request that was paid becomes completed.                   *)
LEMMA CompleteOnce ==
    ASSUME OneWorker, PayoutInv, OnceInv, NEW w \in Workers, pay_withdrawal_commit(w)
    PROVE  OnceInv'
<1>1. /\ ctx \in [Workers -> Request] /\ txns \in [TxnIds -> Row] /\ ~ Idle(w)
      /\ ctx[w].txn \in TxnIds /\ ctx[w].at = "saved" /\ UNCHANGED payouts
      /\ txns[ctx[w].txn] \in Row /\ PendingWithdrawal(txns[ctx[w].txn])
  BY DEF PayoutInv, PayoutTypeInv, TypeInv, TypeOK, StoreTypeOK, NamesItsRow, Idle, OnceInv, Fresh,
         pay_withdrawal_commit
<1>2. ctx'[w].at = "idle" /\ Fresh(w)'
  BY <1>1 DEF pay_withdrawal_commit, EndRequest, NoRequest, Fresh, Idle
<1>3. /\ txns'[ctx[w].txn].status = "completed" /\ txns'[ctx[w].txn].type = "withdrawal"
      /\ txns'[ctx[w].txn].written_off = txns[ctx[w].txn].written_off
      /\ \A t \in TxnIds : t # ctx[w].txn => txns'[t] = txns[t]
  BY <1>1 DEF pay_withdrawal_commit, PendingWithdrawal, Row
<1>4. ASSUME NEW t \in TxnIds PROVE Owed(t)' <=> Owed(t)
  <2>1. CASE t = ctx[w].txn
    BY <1>1, <1>3, <2>1 DEF Owed, Settled, AfterPayout
  <2>2. CASE t # ctx[w].txn
    BY <1>2, <1>3, <2>2 DEF OneWorker, Owed, AfterPayout
  <2> QED BY <2>1, <2>2
<1>5. ~ txns[ctx[w].txn].written_off
  BY <1>1 DEF OnceInv, PendingWithdrawal
<1>6. \A t \in TxnIds : /\ txns'[t].written_off <=> txns[t].written_off
                        /\ txns'[t].written_off => txns'[t].status = "failed"
  BY <1>3, <1>5 DEF OnceInv
<1> QED BY <1>1, <1>2, <1>4, <1>6, SameOwed DEF PayoutsOf

LEMMA WithdrawalOnce ==
    ASSUME OneWorker, ProviderAnswers, PayoutInv, OnceInv, NEW w \in Workers,
           WithdrawalProceed(w)
    PROVE  OnceInv'
<1>1. /\ ctx \in [Workers -> Request] /\ ctx[w] \in Request /\ txns \in [TxnIds -> Row]
      /\ Fresh(w) /\ Sound(w) /\ (~ Idle(w) => ctx[w].txn \in TxnIds)
  BY DEF PayoutInv, PayoutTypeInv, RequestInv, TypeInv, TypeOK, StoreTypeOK, NamesItsRow, OnceInv
<1>2. CASE initiate_withdrawal_commit(w) /\ UNCHANGED payouts
  <2> DEFINE row == NewRow("withdrawal", "pending", ctx[w].amount, ctx[w].net, ctx[w].user,
                           ctx[w].method)
  <2>1. row \in Row
    BY <1>1, NewRowType DEF Request, Statuses
  <2>2. ~ Settled(row) /\ ~ row.written_off
    BY DEF NewRow, Settled
  <2>3. txns' = [txns EXCEPT ![ctx[w].txn] = row] /\ At(w, "initiate_withdrawal", "read")
        /\ EndRequest(w)
    BY <1>2 DEF initiate_withdrawal_commit
  <2> HIDE DEF row
  <2>4. ~ Settled(txns[ctx[w].txn]) /\ txns[ctx[w].txn].status # "failed"
    BY <1>1, <2>3 DEF Sound, At, Idle, Inserts, Settled
  <2> QED BY <1>2, <2>1, <2>2, <2>3, <2>4, EndsOnce DEF At, AfterPayout
<1>3. CASE process_withdrawal_refused(w)
  <2>1. /\ ctx[w].at = "checked" /\ ctx'[w].at = "error" /\ ctx'[w].op = ctx[w].op
        /\ UNCHANGED <<txns, payouts>>
    BY <1>1, <1>3 DEF process_withdrawal_refused, EnterExcept, At, tables, Request
  <2>2. Fresh(w)'
    BY <1>1, <2>1 DEF Fresh, Idle, At, Sound, Views, InView
  <2> QED BY <2>1, <2>2, GoesOnce DEF AfterPayout
<1>4. CASE approve_withdrawal_save(w)
  <2>1. /\ ctx[w].at = "paid" /\ ctx'[w].at = "saved" /\ ctx'[w].op = ctx[w].op
        /\ ctx'[w].txn = ctx[w].txn /\ UNCHANGED <<txns, payouts>>
    BY <1>1, <1>4 DEF approve_withdrawal_save, tables, Request
  <2>2. Fresh(w)'
    BY <1>1, <2>1 DEF Fresh, Idle, At
  <2> QED BY <2>1, <2>2, GoesOnce DEF AfterPayout
<1>5. CASE raise_WithdrawalError(w)
  BY <1>5, EndsOnce DEF raise_WithdrawalError, tables, AfterPayout
<1>6. CASE cancel_withdrawal(w)
  <2> DEFINE row == [txns[ctx[w].txn] EXCEPT !.status = "canceled"]
  <2>1. At(w, "CancelWithdrawalView", "checked") /\ SaveStatus(w, "canceled") /\ EndRequest(w)
        /\ UNCHANGED payouts
    BY <1>6 DEF cancel_withdrawal
  <2>2. row \in Row
    BY <1>1, <2>1, ChangedRowType DEF At, Idle, Statuses
  <2>3. row.status = "canceled" /\ row.written_off = txns[ctx[w].txn].written_off
    BY <1>1, <2>1 DEF At, Idle, Row
  <2>4. txns' = [txns EXCEPT ![ctx[w].txn] = row]
    BY <1>1, <2>1 DEF At, Idle, SaveStatus
  <2> HIDE DEF row
  <2>5. /\ ~ Settled(row) /\ ~ Settled(txns[ctx[w].txn])
        /\ txns[ctx[w].txn].status = "pending" /\ ~ row.written_off
    BY <1>1, <2>1, <2>3 DEF Settled, Fresh, At, Idle, PendingWithdrawal, OnceInv
  <2> QED BY <2>1, <2>2, <2>4, <2>5, EndsOnce DEF At, AfterPayout
<1>7. ~ process_withdrawal_unanswered(w)
  BY DEF process_withdrawal_unanswered, ProviderAnswers
<1> QED BY <1>2, <1>3, <1>4, <1>5, <1>6, <1>7, OrderOnce, CompleteOnce DEF WithdrawalProceed

LEMMA OnceNext ==
    ASSUME OneWorker, ProviderPays, ProviderAnswers, PayoutInv, OnceInv, [WithdrawalNext]_vars
    PROVE  OnceInv'
<1>1. CASE UNCHANGED vars
  BY <1>1 DEF vars, OnceInv, Fresh, OnePayout, Owed, PayoutsOf, Idle, At
<1>2. ASSUME NEW i \in DOMAIN payouts, transfer_failed(i) PROVE OnceInv'
  <2>1. PayoutsKept /\ DOMAIN payouts' = DOMAIN payouts /\ UNCHANGED storeVars
    BY <1>2, BouncePreserved DEF PayoutInv, transfer_failed
  <2>2. \A t \in TxnIds : PayoutsOf(t)' = PayoutsOf(t)
    BY <2>1 DEF PayoutsKept, PayoutsOf
  <2>3. \A t \in TxnIds : OnePayout(t)'
    BY <2>1, <2>2 DEF storeVars, OnceInv, OnePayout, Owed
  <2>4. \A w \in Workers : Fresh(w)'
    BY <2>1 DEF storeVars, OnceInv, Fresh, Idle, At
  <2> QED BY <2>1, <2>3, <2>4 DEF OnceInv, storeVars
<1>3. ASSUME NEW w \in Workers, Crash(w) PROVE OnceInv'
  BY <1>3 DEF Crash, ProviderAnswers
<1> QED BY <1>1, <1>2, <1>3, CallOnce, WalletOnce, WithdrawalOnce DEF WithdrawalNext, WalletStep

(* One request at a time, with a provider that answers, a withdrawal has   *)
(* between requests been paid exactly when its row says completed, and     *)
(* once; whoever asked, approved and canceled, and whatever the provider   *)
(* refused or sent back.  One that fail_payment_transaction wrote off was  *)
(* paid once at most.                                                      *)
THEOREM PaidWhenCompleted ==
    ASSUME OneWorker, ProviderPays, ProviderAnswers
    PROVE  WithdrawalSpec => []PaidExactlyWhenCompleted
<1>1. OnceInv => PaidExactlyWhenCompleted
  <2> SUFFICES ASSUME OnceInv, AllIdle, NEW t \in TxnIds
               PROVE  IF txns[t].written_off
                        THEN Cardinality(PayoutsOf(t)) <= 1
                        ELSE Cardinality(PayoutsOf(t)) = IF Settled(txns[t]) THEN 1 ELSE 0
    BY DEF PaidExactlyWhenCompleted, Settled
  <2>1. Owed(t) <=> Settled(txns[t])
    BY DEF AllIdle, Idle, Owed, AfterPayout
  <2>2. \/ PayoutsOf(t) = {} /\ Cardinality(PayoutsOf(t)) = 0
        \/ \E i : PayoutsOf(t) = {i} /\ Cardinality(PayoutsOf(t)) = 1
    BY FS_EmptySet, FS_Singleton DEF OnceInv, OnePayout
  <2> QED BY <2>1, <2>2 DEF OnceInv, OnePayout
<1>2. PayoutInv /\ OnceInv /\ [WithdrawalNext]_vars => OnceInv'
  BY OnceNext
<1> QED BY <1>1, <1>2, OnceInit, PayoutInit, PayoutNext, PTL DEF WithdrawalSpec
=============================================================================
