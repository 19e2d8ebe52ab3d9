-------------------------- MODULE MCTransactions --------------------------
(* Instances of Transactions for TLC. *)
EXTENDS Transactions

TwoPartitions == {"p", "q"}
OneAndTwo == <<"q", "p", "p">>
===========================================================================
