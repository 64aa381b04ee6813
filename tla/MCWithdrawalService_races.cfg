\* Payouts with every fault and two workers.
\* As many rows as the races need: a payment and two withdrawals.
SPECIFICATION WithdrawalSpec
CONSTANTS
    Workers = {w1, w2}
    TxnIds = {t1, t2, t3}
    Users = {ann, bob}
    ActiveUsers = {ann, bob}
    Methods = {mpesa}
    None = None
    PaymentAmounts = {100}
    WithdrawalAmounts = {72}
    MinimumWithdrawal = 48
    Facilitation = TRUE
    FeePercent = 350
    Operations = {"process_customer_payment", "initiate_withdrawal", "ApproveWithdrawalView", "CancelWithdrawalView", "complete_withdrawal", "fail_withdrawal"}
    MINIMUM_WITHDRAWALS <- Minimums
    WITHDRAWAL_FEES <- Fees
    Faults = {"refuse", "timeout", "bounce", "crash"}
    MaxPayouts = 2
SYMMETRY Symmetry
INVARIANTS FourEyesOnPayouts ApprovedIsPaid
