\* Two workers, three rows: every race of two requests on one row and one wallet.
SPECIFICATION Spec
CONSTANTS
    Workers = {w1, w2}
    TxnIds = {t1, t2, t3}
    Users = {ann, bob}
    ActiveUsers = {ann, bob}
    Methods = {}
    None = None
    PaymentAmounts = {100}
    WithdrawalAmounts = {48}
    MinimumWithdrawal = 48
    Facilitation = TRUE
    FeePercent = 350
    Operations = {"credit_wallet", "debit_wallet", "process_customer_payment", "request_withdrawal", "approve_withdrawal", "complete_withdrawal", "fail_withdrawal", "fail_payment_transaction"}
SYMMETRY Symmetry
INVARIANTS TypeOK CreditBackIffFailed NonNegativeBalance BalanceIsLastAudit
PROPERTIES SettledIsFinal
