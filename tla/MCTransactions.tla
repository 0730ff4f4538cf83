---------------------------- MODULE MCTransactions -----------------------------
(* A small instance of Transactions.                                            *)
EXTENDS Transactions

CONSTANTS a, b

TwoTxs == {a, b}
==============================================================================
