\* Not a run: TLC stops at the first of these properties the code violates; take its name
\* out of the list to see the next.
SPECIFICATION WithdrawalSpec
CONSTANTS
    Workers = {w1, w2}
    TxnIds = {t1, t2}
    Users = {ann, bob, eve}
    ActiveUsers = {ann, bob, eve}
    Methods = {mpesa}
    None = None
    PaymentAmounts = {100}
    WithdrawalAmounts = {72}
    MinimumWithdrawal = 48
    Facilitation = TRUE
    FeePercent = 350
    Operations = {"process_customer_payment", "initiate_withdrawal", "request_withdrawal", "ApproveWithdrawalView", "CancelWithdrawalView"}
    MINIMUM_WITHDRAWALS <- Minimums
    WITHDRAWAL_FEES <- Fees
    Faults = {"refuse", "bounce"}
    MaxPayouts = 2
\* Every bound may be reached: nothing more happens.
CHECK_DEADLOCK FALSE
INVARIANTS ApprovalsSucceed PaidAtMostOnce BouncedIsFailed
PROPERTIES DebitedWhenCreated FailureIsRecorded ChangesAreAudited
