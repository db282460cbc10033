------------------------------ MODULE MCOutbox ------------------------------
(* Instances of Outbox for TLC.                                            *)
EXTENDS Outbox

CONSTANTS e1, e2, d1

\* e2 comes from a chain of events deeper than the bus accepts.
MixedDepth == [e \in AnyEvent |-> IF e = e2 THEN 11 ELSE 1]
FlatDepth == [e \in AnyEvent |-> 1]

=============================================================================
