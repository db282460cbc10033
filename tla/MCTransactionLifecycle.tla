----------------------- MODULE MCTransactionLifecycle -----------------------
(* Instances of TransactionLifecycle for TLC.                              *)
EXTENDS TransactionLifecycle, TLC

CONSTANTS o1, o2

\* Node 1 has one way on, node 2 none: a skip of it goes by sequence_number.
OneEdge == { <<1, 2>> }
Threads == Permutations({o1, o2})

=============================================================================
