-------------------------- MODULE MCWithdrawalService --------------------------
EXTENDS WithdrawalServiceProps, TLC

(* One method whose fee exceeds its minimum, as for M-Pesa (10 and 33): the *)
(* check that the net amount is positive then rejects what the minimum      *)
(* accepts.                                                                 *)
Minimums == [m \in Methods |-> 10]
Fees == [m \in Methods |-> 33]

Symmetry == Permutations(TxnIds) \cup Permutations(Workers) \cup Permutations(ActiveUsers)
=============================================================================
