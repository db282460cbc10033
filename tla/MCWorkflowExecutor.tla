-------------------------- MODULE MCWorkflowExecutor --------------------------
(* Instances of WorkflowExecutor for TLC.                                   *)
EXTENDS WorkflowExecutor, TLC

CONSTANTS a, b, c, d

Chain == { <<a, b>>, <<b, c>>, <<c, d>> }
Diamond == { <<a, b>>, <<a, c>>, <<b, d>>, <<c, d>> }
Loop == { <<a, b>>, <<b, c>>, <<c, b>>, <<c, d>> }

Circle == { <<a, a>> }

\* The shapes a payment workflow takes: in sequence, forked and joined, with a
\* rework loop; and a cycle nothing leads out of.
Shapes == { Chain, Diamond, Loop, Circle }
OnlyChain == { Chain }

\* The edges that leave the node a loop ends at are conditional.
LoopExit == { <<c, d>>, <<c, b>> }

\* The order of sequence_number.
InOrder == a :> {b} @@ b :> {c} @@ c :> {d} @@ d :> {}

=============================================================================
