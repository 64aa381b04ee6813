--------------------------------- MODULE Ledger ---------------------------------
(***************************************************************************)
(* What a tenant may rely on: an account that deposits and withdrawals     *)
(* change one at a time.  A withdrawal leaves the account when it is       *)
(* requested; it is then settled, or returned in full, once.  An operator  *)
(* may write off one that was not returned: the money stays out.           *)
(***************************************************************************)
EXTENDS Integers

CONSTANTS Entries, DepositAmounts, WithdrawAmounts

VARIABLES account, entry

NoEntry == [kind |-> "none", amount |-> 0]
Entry(kind, amount) == [kind |-> kind, amount |-> amount]

LedgerInit ==
    /\ account = 0
    /\ entry = [e \in Entries |-> NoEntry]

Deposit(e, n) ==
    /\ entry[e] = NoEntry
    /\ entry' = [entry EXCEPT ![e] = Entry("deposit", n)]
    /\ account' = account + n

Withdraw(e, n, kind) ==
    /\ entry[e] = NoEntry
    /\ n <= account
    /\ entry' = [entry EXCEPT ![e] = Entry(kind, n)]
    /\ account' = account - n

Settle(e) ==
    /\ entry[e].kind = "open"
    /\ entry' = [entry EXCEPT ![e].kind = "settled"]
    /\ UNCHANGED account

Return(e) ==
    /\ entry[e].kind = "open"
    /\ entry' = [entry EXCEPT ![e].kind = "returned"]
    /\ account' = account + entry[e].amount

WriteOff(e) ==
    /\ entry[e].kind \in {"open", "settled"}
    /\ entry' = [entry EXCEPT ![e].kind = "written_off"]
    /\ UNCHANGED account

LedgerNext ==
    \E e \in Entries :
        \/ \E n \in DepositAmounts : Deposit(e, n)
        \/ \E n \in WithdrawAmounts, kind \in {"open", "settled"} : Withdraw(e, n, kind)
        \/ Settle(e)
        \/ Return(e)
        \/ WriteOff(e)

LedgerSpec == LedgerInit /\ [][LedgerNext]_<<account, entry>>
=============================================================================
