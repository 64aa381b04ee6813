\* One request at a time, three rows.
SPECIFICATION Spec
CONSTANTS
    Workers = {w1}
    TxnIds = {t1, t2, t3}
    Users = {ann, bob, eve}
    ActiveUsers = {ann, bob}
    Methods = {}
    None = None
    PaymentAmounts = {100, 300}
    WithdrawalAmounts = {96, 145}
    MinimumWithdrawal = 96
    Facilitation = TRUE
    FeePercent = 350
    Operations = {"credit_wallet", "debit_wallet", "process_customer_payment", "request_withdrawal", "approve_withdrawal", "complete_withdrawal", "fail_withdrawal", "fail_payment_transaction"}
SYMMETRY Symmetry
INVARIANT AuditTrailIsUnbroken
PROPERTY ImplementsLedger
