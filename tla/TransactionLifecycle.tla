------------------------ MODULE TransactionLifecycle ------------------------
(***************************************************************************)
(* The life of a transaction's WorkflowExecutionInstance row under the     *)
(* operators' decisions: POST /{workflow_id}/resume/{instance_id} of       *)
(* routers/workflows.py, which rejects, cancels, repairs, reverses, skips, *)
(* retries and approves.                                                   *)
(*                                                                         *)
(* Requests run in threads of one or more processes, each with a session   *)
(* of its own.  A request loads the row once, decides on what it loaded,   *)
(* and writes at its commit; nothing locks the row and no version column   *)
(* is compared.  The session writes the columns whose value it changed and *)
(* leaves the others to whoever wrote them last.                           *)
(*                                                                         *)
(* The run of the executor is one step with the outcomes WorkflowExecutor  *)
(* gives it, for workflows without sub-workflows (whose rows may be        *)
(* overwritten by a child: see CompletedRowIsOwn there).                   *)
(***************************************************************************)
EXTENDS Integers, FiniteSets, Sequences

CONSTANTS
  Operator,      \* the threads that serve requests
  NNodes,        \* nodes of the workflow, named by their sequence_number
  Edges,         \* its edges
  Skippable,     \* nodes an operator may skip
  Irreversible,  \* nodes with reversibility IRREVERSIBLE
  MaxRows,       \* bound: rows
  MaxRequests,   \* bound: requests
  MaxCrashes     \* bound: requests that die with their process

Node == 1 .. NNodes

ASSUME LifecycleAssumption ==
  /\ NNodes \in Nat \ {0} /\ Edges \subseteq Node \X Node
  /\ Skippable \subseteq Node /\ Irreversible \subseteq Node
  /\ MaxRows \in Nat /\ MaxRequests \in Nat /\ MaxCrashes \in Nat

VARIABLES
  rows,     \* the instance rows
  req,      \* per thread: the request it serves
  sent,     \* requests so far; a request's number is its key and its trace line
  acked,    \* <<row, request>>: decisions the operator was told were taken
  shared,   \* rows on which two requests have overlapped
  crashes   \* crashes so far

vars == <<rows, req, sent, acked, shared, crashes>>

Terminal == {"COMPLETED", "REJECTED", "CANCELLED", "REVERSED"}
Stopped == {"PAUSED", "REJECTED", "CANCELLED"}
Status == Terminal \cup {"PAUSED", "AWAITING_REPAIR", "FAILED"}
Action == {"reject", "cancel", "repair", "reverse", "skip", "retry", "approve", "resume"}

\* key: reversal_request_id, 0 when there is none; trace: the requests whose
\* decision execution_trace records.
Row == [status : Status, node : Node, key : Nat, trace : SUBSET Nat]

\* seen: the row as loaded; dirty: the row as the session has changed it.
Request == [pc : {"idle", "loaded", "running", "stopped"}, id : Nat, row : Nat,
            act : Action, node : Node, seen : Row, dirty : Row,
            result : Stopped \cup {"FAILED"}]

TypeOK ==
  /\ rows \in Seq(Row)
  /\ req \in [Operator -> Request]
  /\ \A o \in Operator : req[o].pc # "idle" =>
       req[o].row \in DOMAIN rows /\ req[o].id \in 1 .. sent
  /\ sent \in 0 .. MaxRequests
  /\ acked \subseteq (DOMAIN rows) \X (1 .. sent)
  /\ shared \subseteq DOMAIN rows
  /\ crashes \in 0 .. MaxCrashes

NewRow(st, n, trace) == [status |-> st, node |-> n, key |-> 0, trace |-> trace]

NoRequest ==
  [pc |-> "idle", id |-> 0, row |-> 0, act |-> "resume", node |-> 1,
   seen |-> NewRow("PAUSED", 1, {}), dirty |-> NewRow("PAUSED", 1, {}),
   result |-> "FAILED"]

Init ==
  /\ rows = <<>>
  /\ req = [o \in Operator |-> NoRequest]
  /\ sent = 0 /\ acked = {} /\ shared = {} /\ crashes = 0

\* A new transaction was executed until it paused, was stopped or completed.
Create ==
  /\ Len(rows) < MaxRows
  /\ \E st \in Stopped \cup {"COMPLETED"}, n \in Node : rows' = Append(rows, NewRow(st, n, {}))
  /\ UNCHANGED <<req, sent, acked, shared, crashes>>

(***************************************************************************)
(* The session                                                             *)
(***************************************************************************)
\* What a commit makes of a row: the columns in which the object differs from
\* what was loaded.
Saved(now, seen, dirty) ==
  [f \in DOMAIN now |-> IF dirty[f] # seen[f] THEN dirty[f] ELSE now[f]]

Commit(r, dirty) == rows' = [rows EXCEPT ![r.row] = Saved(@, r.seen, dirty)]

\* Faulty variant: appends to the list in place, which the session does not see.
TracedInPlace(r) ==
  IF r.act = "reverse" THEN [r.seen EXCEPT !.trace = @ \cup {r.id}] ELSE r.seen

\* _trace: the list is assigned again with the new line.
Traced(r) == [r.seen EXCEPT !.trace = @ \cup {r.id}]

Done(o) == req' = [req EXCEPT ![o] = NoRequest]
Acknowledge(r) == acked' = acked \cup {<<r.row, r.id>>}

(***************************************************************************)
(* The requests                                                            *)
(***************************************************************************)
\* The request is parsed and its row loaded.  A reversal may name a node, the
\* other actions are about the node the row stands at.
Load(o, i, act, n) ==
  /\ req[o].pc = "idle" /\ sent < MaxRequests
  /\ act # "reverse" => n = rows[i].node
  /\ sent' = sent + 1
  /\ req' = [req EXCEPT ![o] =
               [pc |-> "loaded", id |-> sent + 1, row |-> i, act |-> act, node |-> n,
                seen |-> rows[i], dirty |-> rows[i], result |-> "FAILED"]]
  /\ shared' = IF \E p \in Operator : req[p].pc # "idle" /\ req[p].row = i
               THEN shared \cup {i} ELSE shared
  /\ UNCHANGED <<rows, acked, crashes>>

\* Faulty variant: cancelling is exempt from the terminal check, as reversing is.
LegalCancelAnywhere(r) ==
  LET st == r.seen.status IN
  \/ r.act = "reject" /\ st = "PAUSED"
  \/ r.act = "cancel"
  \/ r.act = "repair" /\ st \notin Terminal
  \/ r.act = "reverse" /\ r.node \notin Irreversible /\ st \notin {"REJECTED", "CANCELLED"}
  \/ r.act = "skip" /\ st \notin Terminal /\ r.seen.node \in Skippable
  \/ r.act = "retry" /\ st = "AWAITING_REPAIR"
  \/ r.act \in {"approve", "resume"} /\ st = "PAUSED"

\* The statuses an action is accepted from, and the node's own permission.
Legal(r) ==
  LET st == r.seen.status IN
  \/ r.act = "reject" /\ st = "PAUSED"
  \/ r.act \in {"cancel", "repair"} /\ st \notin Terminal
  \/ r.act = "reverse" /\ r.node \notin Irreversible /\ st \notin {"REJECTED", "CANCELLED"}
  \/ r.act = "skip" /\ st \notin Terminal /\ r.seen.node \in Skippable
  \/ r.act = "retry" /\ st = "AWAITING_REPAIR"
  \/ r.act \in {"approve", "resume"} /\ st = "PAUSED"

\* Faulty variant: every reversal is carried out.
NeverReversed(r) == FALSE

AlreadyReversed(r) == r.act = "reverse" /\ r.seen.status = "REVERSED" /\ r.seen.key # 0

\* HTTP 400; or the existing reversal is returned.
Refuse(o) ==
  /\ req[o].pc = "loaded"
  /\ AlreadyReversed(req[o]) \/ ~Legal(req[o])
  /\ Done(o)
  /\ UNCHANGED <<rows, sent, acked, shared, crashes>>

Verdict == [reject |-> "REJECTED", cancel |-> "CANCELLED", repair |-> "AWAITING_REPAIR"]

\* Reject, cancel and send to repair.
Decide(o) ==
  LET r == req[o] IN
  /\ r.pc = "loaded" /\ r.act \in DOMAIN Verdict /\ Legal(r)
  /\ Commit(r, [Traced(r) EXCEPT !.status = Verdict[r.act]])
  /\ Acknowledge(r) /\ Done(o)
  /\ UNCHANGED <<sent, shared, crashes>>

\* Faulty variant: the key of the reversal is not stored.
ReverseUnkeyed(o) ==
  LET r == req[o] IN
  /\ r.pc = "loaded" /\ r.act = "reverse" /\ Legal(r) /\ ~AlreadyReversed(r)
  /\ Commit(r, [Traced(r) EXCEPT !.status = "REVERSED"])
  /\ Acknowledge(r) /\ Done(o)
  /\ UNCHANGED <<sent, shared, crashes>>

\* A new reversal, under a key of its own.
Reverse(o) ==
  LET r == req[o] IN
  /\ r.pc = "loaded" /\ r.act = "reverse" /\ Legal(r) /\ ~AlreadyReversed(r)
  /\ Commit(r, [Traced(r) EXCEPT !.status = "REVERSED", !.key = r.id])
  /\ Acknowledge(r) /\ Done(o)
  /\ UNCHANGED <<sent, shared, crashes>>

\* Where a skip goes on: along the only edge, else by sequence_number; 0 at the
\* end.
SkipTarget(n) ==
  LET out == { e \in Edges : e[1] = n } IN
  IF Cardinality(out) = 1 THEN (CHOOSE e \in out : TRUE)[2]
  ELSE IF n < NNodes THEN n + 1 ELSE 0

\* Skipping the last step completes the transaction without a run.
SkipToEnd(o) ==
  LET r == req[o] IN
  /\ r.pc = "loaded" /\ r.act = "skip" /\ Legal(r)
  /\ SkipTarget(r.seen.node) = 0
  /\ Commit(r, [Traced(r) EXCEPT !.status = "COMPLETED"])
  /\ Acknowledge(r) /\ Done(o)
  /\ UNCHANGED <<sent, shared, crashes>>

\* Skip, retry, approve and the bare resume call the executor with the changes
\* of the session not yet written.
StartRun(o) ==
  LET r == req[o] IN
  /\ r.pc = "loaded" /\ r.act \in {"skip", "retry", "approve", "resume"} /\ Legal(r)
  /\ \/ /\ r.act = "skip" /\ SkipTarget(r.seen.node) # 0
        /\ req' = [req EXCEPT ![o].pc = "running",
                     ![o].dirty = [Traced(r) EXCEPT !.node = SkipTarget(r.seen.node)]]
     \/ /\ r.act = "approve"
        /\ req' = [req EXCEPT ![o].pc = "running", ![o].dirty = Traced(r)]
     \/ /\ r.act \in {"retry", "resume"}
        /\ req' = [req EXCEPT ![o].pc = "running"]
  /\ UNCHANGED <<rows, sent, acked, shared, crashes>>

\* A retry and a bare resume leave no line of their own.
AcknowledgeRun(r) ==
  IF r.act \in {"skip", "approve"} THEN Acknowledge(r) ELSE acked' = acked

\* The executor commits its result into the row and the request returns.
RunCompletes(o) ==
  LET r == req[o] IN
  /\ r.pc = "running"
  /\ \E n \in Node : Commit(r, [r.dirty EXCEPT !.status = "COMPLETED", !.node = n])
  /\ AcknowledgeRun(r) /\ Done(o)
  /\ UNCHANGED <<sent, shared, crashes>>

\* The executor commits a new row for the pause or the halt, and with it the
\* changes of the old one that wait in the session.
RunStops(o) ==
  LET r == req[o] IN
  /\ r.pc = "running" /\ Len(rows) < MaxRows
  /\ \E st \in Stopped, n \in Node :
       /\ rows' = Append([rows EXCEPT ![r.row] = Saved(@, r.seen, r.dirty)],
                         NewRow(st, n, r.dirty.trace))
       /\ req' = [req EXCEPT ![o].pc = "stopped", ![o].result = st]
  /\ UNCHANGED <<sent, acked, shared, crashes>>

\* The step limit, or a node that no longer exists: nothing is committed.
RunFails(o) ==
  /\ req[o].pc = "running"
  /\ req' = [req EXCEPT ![o].pc = "stopped", ![o].result = "FAILED"]
  /\ UNCHANGED <<rows, sent, acked, shared, crashes>>

\* Any exception: HTTP 400 or 500, the session is closed.
RunRaises(o) ==
  /\ req[o].pc = "running"
  /\ Done(o)
  /\ UNCHANGED <<rows, sent, acked, shared, crashes>>

\* The endpoint copies a result other than COMPLETED onto the row it was given.
\* After the executor's commit the object is expired: the status is written
\* whatever it was.
Sync(o) ==
  LET r == req[o] IN
  /\ r.pc = "stopped"
  /\ IF r.result = "FAILED" THEN Commit(r, [r.dirty EXCEPT !.status = "FAILED"])
                            ELSE rows' = [rows EXCEPT ![r.row].status = r.result]
  /\ AcknowledgeRun(r) /\ Done(o)
  /\ UNCHANGED <<sent, shared, crashes>>

\* The process that serves the request dies; its open session is rolled back.
Crash(o) ==
  /\ req[o].pc # "idle" /\ crashes < MaxCrashes
  /\ Done(o) /\ crashes' = crashes + 1
  /\ UNCHANGED <<rows, sent, acked, shared>>

Step(o) ==
  \/ \E i \in DOMAIN rows, act \in Action, n \in Node : Load(o, i, act, n)
  \/ Refuse(o) \/ Decide(o) \/ Reverse(o) \/ SkipToEnd(o) \/ StartRun(o)
  \/ RunCompletes(o) \/ RunStops(o) \/ RunFails(o) \/ RunRaises(o) \/ Sync(o)
  \/ Crash(o)

Next == Create \/ \E o \in Operator : Step(o)

Spec == Init /\ [][Next]_vars

(***************************************************************************)
(* Properties                                                              *)
(***************************************************************************)
\* A row on which no two requests ever overlapped.
Alone(i) == i \in DOMAIN rows /\ i \notin shared'

\* A finished transaction stays finished: a later request changes it only from
\* COMPLETED to REVERSED (TERMINAL_STATUSES of the resume endpoint), crashes and
\* half-synced runs included, as long as requests on it do not overlap.
TerminalIsFinal ==
  [][\A i \in DOMAIN rows : Alone(i) /\ rows[i].status \in Terminal =>
       \/ rows'[i].status = rows[i].status
       \/ rows[i].status = "COMPLETED" /\ rows'[i].status = "REVERSED"]_vars

\* A reversal carries one key for ever, and only a reversed row carries one.
ReversedOnce ==
  [][\A i \in DOMAIN rows : Alone(i) /\ rows[i].key # 0 => rows'[i].key = rows[i].key]_vars
KeyMeansReversed ==
  \A i \in DOMAIN rows \ shared : rows[i].key # 0 <=> rows[i].status = "REVERSED"

\* Every decision the operator was told was taken is in the row's trace, the
\* audit record, whatever the executor, later requests and crashes did.
AuditIsKept ==
  \A a \in acked : a[1] \notin shared => a[2] \in rows[a[1]].trace

\* "A retried request never double-reverses": the key of a reversal is never
\* replaced by another, also when requests overlap.
NeverDoubleReversed ==
  [][\A i \in DOMAIN rows : rows[i].key # 0 => rows'[i].key = rows[i].key]_vars

(***************************************************************************)
(* The inductive invariant                                                 *)
(***************************************************************************)
\* While no commit was made in r's session, it knows the row as it is.
Fresh(r) == r.pc \in {"loaded", "running"} \/ (r.pc = "stopped" /\ r.result = "FAILED")

\* The decisions that leave a line before a run.
Lined(r) == r.act \in {"skip", "approve"}

\* A request that is alone on its row: what it loaded is still true, a run was
\* started only on a row that was not finished, and the session holds or has
\* saved the line of the decision.
RequestInv ==
  \A o \in Operator :
    LET r == req[o] IN
    r.pc # "idle" /\ r.row \notin shared =>
      /\ \A p \in Operator : p # o /\ req[p].pc # "idle" => req[p].row # r.row
      /\ Fresh(r) =>
           /\ r.seen = rows[r.row]
           /\ r.dirty.status = r.seen.status /\ r.dirty.key = r.seen.key
           /\ r.seen.trace \subseteq r.dirty.trace
      /\ r.pc # "loaded" => rows[r.row].status \notin Terminal
      /\ r.pc # "loaded" /\ Fresh(r) /\ Lined(r) => r.id \in r.dirty.trace
      /\ ~Fresh(r) /\ Lined(r) => r.id \in rows[r.row].trace

LifecycleInv == TypeOK /\ RequestInv /\ KeyMeansReversed /\ AuditIsKept

=============================================================================
