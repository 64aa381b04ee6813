\* One request at a time; the provider accepts or refuses, and answers.
SPECIFICATION WithdrawalSpec
CONSTANTS
    Workers = {w1}
    TxnIds = {t1, t2, t3, t4}
    Users = {ann, bob}
    ActiveUsers = {ann, bob}
    Methods = {mpesa}
    None = None
    PaymentAmounts = {100, 300}
    WithdrawalAmounts = {33, 72, 96}
    MinimumWithdrawal = 48
    Facilitation = TRUE
    FeePercent = 350
    Operations = {"process_customer_payment", "initiate_withdrawal", "ApproveWithdrawalView", "CancelWithdrawalView"}
    MINIMUM_WITHDRAWALS <- Minimums
    WITHDRAWAL_FEES <- Fees
    Faults = {"refuse"}
    MaxPayouts = 3
SYMMETRY Symmetry
\* The rows are a bound: once all are used and settled no request can start.
CHECK_DEADLOCK FALSE
INVARIANTS PaidExactlyWhenCompleted WalletPaysTheCompleted
