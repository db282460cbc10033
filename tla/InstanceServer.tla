--------------------------- MODULE InstanceServer ---------------------------
(***************************************************************************)
(* The transactions as the browser meets them: the instance rows behind    *)
(* GET /workflows/instances and the decisions of POST                      *)
(* /workflows/{id}/resume/{instance}, each taken in one step.  What        *)
(* happens when two such requests overlap in the server is the subject of  *)
(* TransactionLifecycle; here the server is the environment of the screens.*)
(***************************************************************************)
EXTENDS Integers, FiniteSets, Sequences

CONSTANTS
  Inst,          \* names of transactions, in use or free
  NNodes,        \* nodes of the workflow, by sequence_number
  Gate,          \* nodes at which a run pauses
  Skippable,     \* nodes an operator may skip
  Irreversible   \* nodes with reversibility IRREVERSIBLE

Node == 1 .. NNodes

ASSUME ServerAssumption ==
  /\ NNodes \in Nat \ {0}
  /\ Gate \subseteq Node /\ Skippable \subseteq Node /\ Irreversible \subseteq Node

VARIABLE rows   \* the row of each transaction

Terminal == {"COMPLETED", "REJECTED", "CANCELLED", "REVERSED"}
Status == Terminal \cup {"PAUSED", "AWAITING_REPAIR", "FAILED", "ABSENT"}
Kind == {"approve", "reject", "cancel", "repair", "reverse", "skip", "retry"}

\* ver counts the commits of the row.
Row == [status : Status, node : Node, ver : Nat]

Exists(i) == rows[i].status # "ABSENT"

Fresh(st, n) == [status |-> st, node |-> n, ver |-> 0]
Unread == Fresh("ABSENT", 1)
ServerInit == rows \in [Inst -> {Fresh("PAUSED", n) : n \in Gate} \cup {Unread}]

(***************************************************************************)
(* resume_workflow_run                                                     *)
(***************************************************************************)
\* The checks before a decision is taken; n is the node a reversal names.
Legal(r, k, n) ==
  \/ k \in {"approve", "reject"} /\ r.status = "PAUSED"
  \/ k \in {"cancel", "repair"} /\ r.status \notin Terminal
  \/ k = "reverse" /\ n \notin Irreversible /\ r.status \notin {"REJECTED", "CANCELLED"}
  \/ k = "skip" /\ r.status \notin Terminal /\ r.node \in Skippable
  \/ k = "retry" /\ r.status = "AWAITING_REPAIR"

Written(r, st, n) == [status |-> st, node |-> n, ver |-> r.ver + 1]

\* The decisions that only set the status.
Settles == [reject |-> "REJECTED", cancel |-> "CANCELLED",
            repair |-> "AWAITING_REPAIR", reverse |-> "REVERSED"]
Settle(i, k) ==
  /\ k \in DOMAIN Settles
  /\ rows' = IF rows[i].status = "REVERSED" /\ k = "reverse" THEN rows
             ELSE [rows EXCEPT ![i] = Written(@, Settles[k], @.node)]

\* Where a run can stop.
Stops == {<<"PAUSED", n>> : n \in Gate} \cup ({"REJECTED", "CANCELLED"} \X Node)

\* The decisions that run the workflow on.  A run completes the row at its last
\* node, or it
\* stops again: then the stop gets a row of its own and this row only takes over
\* its status; a failed run has no row.
RunOn(i, k) ==
  /\ k \in {"approve", "skip", "retry"}
  /\ \/ rows' = [rows EXCEPT ![i] = Written(@, "COMPLETED", NNodes)]
     \/ rows' = [rows EXCEPT ![i] = Written(@, "FAILED", @.node)]
     \/ \E j \in Inst, s \in Stops :
          /\ ~Exists(j)
          /\ rows' = [rows EXCEPT ![i] = Written(@, s[1], @.node), ![j] = Written(@, s[1], s[2])]

Take(i, k, n) == Exists(i) /\ Legal(rows[i], k, n) /\ (Settle(i, k) \/ RunOn(i, k))

\* An HTTP error: the row does not exist, a check fails, or the run raises.
Refuse(i, k, n) ==
  /\ ~Exists(i) \/ ~Legal(rows[i], k, n) \/ k \in {"approve", "skip", "retry"}
  /\ UNCHANGED rows

\* POST /workflows/{id}/execute: a new transaction.
Execute(j) ==
  /\ ~Exists(j)
  /\ \E s \in Stops \cup {<<"COMPLETED", NNodes>>} : rows' = [rows EXCEPT ![j] = Written(@, s[1], s[2])]

=============================================================================
