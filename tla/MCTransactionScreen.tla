------------------------ MODULE MCTransactionScreen ------------------------
\* Two transactions, of which each may be free, and a workflow of two nodes.
\* The sittings: decisions on two transactions, a decision and changes made by
\* others, an initiation, bulk runs.
EXTENDS TransactionScreen

CONSTANTS t1, t2

Of(f) == [w \in Bounded |-> IF w \in DOMAIN f THEN f[w] ELSE 0]

Sittings == {
  Of([clicks |-> 7, reject |-> 2]),
  Of([clicks |-> 4, approve |-> 1, reverse |-> 1, breaks |-> 1]),
  Of([clicks |-> 3, repair |-> 1, retry |-> 1, skip |-> 1, cancel |-> 1, moves |-> 1]),
  Of([clicks |-> 2, approve |-> 1, moves |-> 1, breaks |-> 1]),
  Of([clicks |-> 4, approve |-> 1, execute |-> 1]),
  Of([clicks |-> 5, bulks |-> 2])}

BulkSitting == {Of([clicks |-> 4, bulks |-> 1])}

=============================================================================
