\* Not a run: two withdrawals requested at the same time, and one failed as a payment.
\* TLC stops at the first of these properties the code violates; take its name out of the
\* list to see the next.
SPECIFICATION Spec
CONSTANTS
    Workers = {w1, w2}
    TxnIds = {t1, t2, t3}
    Users = {ann, bob}
    ActiveUsers = {ann, bob}
    Methods = {}
    None = None
    PaymentAmounts = {100}
    WithdrawalAmounts = {50}
    MinimumWithdrawal = 48
    Facilitation = TRUE
    FeePercent = 350
    Operations = {"process_customer_payment", "request_withdrawal", "fail_payment_transaction"}
INVARIANTS OnlyPaymentsAreWrittenOff NoDoubleSpending
