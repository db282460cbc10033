-------------------------- MODULE WorkflowExecutor --------------------------
(***************************************************************************)
(* services/workflow_executor.py: one workflow, walked breadth first by    *)
(* execute(), with the three callers that start it: the execute endpoint,  *)
(* the resume endpoint (routers/workflows.py) and the ingestion worker     *)
(* (tasks.py), which starts a run for each record of a file or continues   *)
(* the transactions an upload names.                                       *)
(*                                                                         *)
(* Runs follow one another.  A run keeps the nodes of the current step     *)
(* (todo) and of the next one (next, a set in the code too); the edges     *)
(* come from the database in no order, so the nodes of a step are taken in *)
(* any order.  A run that pauses or halts returns at once and forgets the  *)
(* rest of both sets.  What the steps of a node compute is abstracted to   *)
(* what the traversal tells apart: the flags _blocked and _cancelled that  *)
(* rules leave in the context (in place, so they survive an exception),    *)
(* the events the node stages, a ValueError, any other exception, and the  *)
(* result of a sub-workflow.  A nested run is one step of its parent.      *)
(*                                                                         *)
(* Broadcast writes into the caller's session, and so does the resume      *)
(* endpoint before it calls execute(): staged events and the change of the *)
(* resumed row are kept by the next commit of that session and vanish with *)
(* its rollback.                                                           *)
(***************************************************************************)
EXTENDS Integers, FiniteSets, Sequences

CONSTANTS
  Node,        \* the nodes of the workflow
  First,       \* the node with the smallest sequence_number
  Last,        \* the node the database lists last
  Following,   \* of each node, the next one by sequence_number, if any
  Graphs,      \* the edge relations to consider
  Guarded,     \* edges that carry a condition
  RuleEdge,    \* edges whose condition is a rule set, which may run actions
  Gate,        \* HUMAN_APPROVAL nodes
  NeedsDocs,   \* nodes with mandatory required_documents
  Skippable,   \* nodes an operator may skip
  Ruled,       \* nodes whose rules may block the payment or cancel it
  Emits,       \* nodes with an EVENT_BROADCAST step
  MayFail,     \* nodes whose own steps or checks may raise a ValueError
  Sub,         \* nodes with a SUB_WORKFLOW step
  Isolated,    \* those whose child declares input and output schemas
  Unhandled,   \* nodes with a step that may raise more than a ValueError
  ChildNode,   \* stands for a node id of some child workflow
  MaxRuns,     \* bound: runs of execute()
  MaxCrashes   \* bound: process crashes

ASSUME ExecutorAssumption ==
  /\ IsFiniteSet(Node) /\ {"COMPLETED", "FAILED"} \cap Node = {}
  /\ First \in Node /\ Last \in Node
  /\ Graphs \subseteq SUBSET (Node \X Node)
  /\ RuleEdge \subseteq Guarded
  /\ Isolated \subseteq Sub
  /\ ChildNode \notin Node
  /\ Following \in [Node -> SUBSET Node] /\ Skippable \subseteq Node \cup {ChildNode}
  /\ NeedsDocs \subseteq Node /\ Gate \subseteq Node
  /\ MaxRuns \in Nat /\ MaxCrashes \in Nat

VARIABLES
  edges,      \* the edges of the workflow
  status,     \* "idle", "running", or the status execute() returned
  caller,     \* who called execute()
  run,        \* number of the current or last run
  target,     \* row the resume endpoint is working on, 0 for the others
  before,     \* that row as the table has it, while the session has changed it
  ctx,        \* the context: current_context
  resumeAt,   \* {resume_from_node_id} during the first step of a resume
  todo,       \* nodes of the current step not yet visited
  next,       \* next_step_node_ids
  steps,      \* step_count
  rows,       \* the WorkflowExecutionInstance rows of this workflow
  staged,     \* events in the session, not committed
  outbox,     \* events in the outbox table
  approvals,  \* per gate: approve decisions given by operators
  waived,     \* per gate: requests and uploads that continued there without one
  passed,     \* per gate: times its actions were executed
  crashes     \* crashes so far

vars == <<edges, status, caller, run, target, before, ctx, resumeAt, todo, next,
          steps, rows, staged, outbox, approvals, waived, passed, crashes>>

traversal == <<edges, caller, run, target, resumeAt, todo, next, steps>>
decisions == <<approvals, waived>>

Stopped == {"PAUSED", "REJECTED", "CANCELLED"}
Result == Stopped \cup {"COMPLETED", "FAILED", "RAISED"}
Caller == {"execute", "resume", "ingest"}

\* The statuses no request of an operator leaves (a reversal aside).
Terminal == {"COMPLETED", "REJECTED", "CANCELLED"}

\* docs: nodes whose documents are in the context; child: __sub_workflow_paused__;
\* row: __resume_instance_id__.
Context == [docs : SUBSET Node, blocked : BOOLEAN, cancelled : BOOLEAN,
            child : BOOLEAN, row : Nat]
Row == [status : Result \cup {"AWAITING_REPAIR"}, node : Node \cup {ChildNode},
        ctx : Context, run : Nat, own : BOOLEAN]
EventOf == (1 .. MaxRuns) \X (Node \cup {"COMPLETED", "FAILED"})

TypeOK ==
  /\ edges \in Graphs
  /\ status \in Result \cup {"idle", "running"}
  /\ caller \in Caller
  /\ run \in 0 .. MaxRuns
  /\ ctx \in Context
  /\ rows \in Seq(Row)
  /\ target \in 0 .. Len(rows) /\ before \subseteq Row
  /\ ctx.row \in 0 .. Len(rows)
  /\ \A i \in 1 .. Len(rows) : rows[i].ctx.row \in 0 .. Len(rows)
  /\ resumeAt \subseteq Node /\ todo \subseteq Node /\ next \subseteq Node
  /\ steps \in Nat
  /\ staged \subseteq EventOf /\ outbox \subseteq EventOf
  /\ approvals \in [Node -> Nat] /\ waived \in [Node -> Nat] /\ passed \in [Node -> Nat]
  /\ status # "idle" => run \in 1 .. MaxRuns
  /\ crashes \in 0 .. MaxCrashes

NewContext(d) == [docs |-> d, blocked |-> FALSE, cancelled |-> FALSE, child |-> FALSE,
                  row |-> 0]

Init ==
  /\ edges \in Graphs
  /\ status = "idle" /\ caller = "execute" /\ run = 0
  /\ target = 0 /\ before = {}
  /\ ctx = NewContext({})
  /\ resumeAt = {} /\ todo = {} /\ next = {} /\ steps = 0
  /\ rows = <<>> /\ staged = {} /\ outbox = {}
  /\ approvals = [n \in Node |-> 0] /\ waived = [n \in Node |-> 0]
  /\ passed = [n \in Node |-> 0]
  /\ crashes = 0

(***************************************************************************)
(* The callers                                                             *)
(***************************************************************************)
Begin(c, row, context, nodes, resumed) ==
  /\ status = "idle" /\ run < MaxRuns
  /\ status' = "running" /\ caller' = c /\ run' = run + 1 /\ target' = row
  /\ ctx' = context
  /\ todo' = nodes /\ next' = {} /\ resumeAt' = resumed /\ steps' = 1
  /\ UNCHANGED <<edges, staged, outbox, passed, crashes>>

\* A row that a child run has overwritten names a node of the child: execute()
\* answers "Resumed node not found".
NotFound(c, row, context) ==
  /\ status = "idle" /\ run < MaxRuns
  /\ status' = "FAILED" /\ caller' = c /\ run' = run + 1 /\ target' = row
  /\ ctx' = context
  /\ todo' = {} /\ next' = {} /\ resumeAt' = {} /\ steps' = 0
  /\ UNCHANGED <<edges, staged, outbox, passed, crashes>>

BeginAt(c, row, context, n) ==
  \/ n \in Node /\ Begin(c, row, context, {n}, {n})
  \/ n = ChildNode /\ NotFound(c, row, context)

\* POST /{workflow_id}/execute, or one record of an uploaded file.
StartRun(c) ==
  /\ \E d \in SUBSET NeedsDocs : Begin(c, 0, NewContext(d), {First}, {})
  /\ UNCHANGED <<rows, before, decisions>>

\* One more request at n, where the count is kept for gates only.
Counted(count, n) == IF n \in Gate THEN [count EXCEPT ![n] = @ + 1] ELSE count

\* Faulty variant: the executor is not told which row it resumes.
ResumeAsNew(i, n, approving) ==
  /\ \E d \in SUBSET NeedsDocs :
       LET context == [rows[i].ctx EXCEPT !.row = 0, !.docs = @ \cup d]
       IN /\ BeginAt("resume", i, context, n)
          /\ rows' = [rows EXCEPT ![i] = [@ EXCEPT !.node = n,
                                                   !.ctx = IF d = {} THEN rows[i].ctx ELSE context]]
  /\ before' = {rows[i]}
  /\ approvals' = IF approving THEN Counted(approvals, n) ELSE approvals
  /\ waived' = IF approving THEN waived ELSE Counted(waived, n)

\* The resume endpoint goes on with row i at n.  What additional_context brings
\* (documents, here) is merged into the context and, if it brings any, kept in
\* the row; the row's node is moved when a step is skipped.
Resume(i, n, approving) ==
  /\ \E d \in SUBSET NeedsDocs :
       LET context == [rows[i].ctx EXCEPT !.row = i, !.docs = @ \cup d]
       IN /\ BeginAt("resume", i, context, n)
          /\ rows' = [rows EXCEPT ![i] = [@ EXCEPT !.node = n,
                                                   !.ctx = IF d = {} THEN rows[i].ctx ELSE context]]
  /\ before' = {rows[i]}
  /\ approvals' = IF approving THEN Counted(approvals, n) ELSE approvals
  /\ waived' = IF approving THEN waived ELSE Counted(waived, n)

\* A request that names neither rejection nor an action: it approves if its
\* decision is "approve"; without a decision, or with one the endpoint does not
\* know, it resumes the row all the same.
ResumeRun(i) ==
  /\ rows[i].status = "PAUSED"
  /\ \E approving \in BOOLEAN : Resume(i, rows[i].node, approving)

RetryRun(i) ==
  /\ rows[i].status = "AWAITING_REPAIR"
  /\ Resume(i, rows[i].node, FALSE)

\* Where a skipped step leads: along its only edge, or else to the next node by
\* sequence_number.
NextAfter(n) ==
  LET out == { m \in Node : <<n, m>> \in edges }
  IN IF n \notin Node THEN {}
     ELSE IF \E m \in Node : out = {m} THEN out ELSE Following[n]

MaySkip(i) == rows[i].status \notin Terminal /\ rows[i].node \in Skippable

SkipStep(i) ==
  /\ MaySkip(i)
  /\ \E n \in NextAfter(rows[i].node) : Resume(i, n, FALSE)

\* Nothing follows the skipped step: the endpoint completes the row itself, and
\* no event is broadcast.
SkipLast(i) ==
  /\ status = "idle" /\ MaySkip(i) /\ NextAfter(rows[i].node) = {}
  /\ rows' = [rows EXCEPT ![i] = [@ EXCEPT !.status = "COMPLETED", !.own = FALSE]]
  /\ UNCHANGED <<traversal, before, status, ctx, staged, outbox, decisions, passed, crashes>>

\* Reject, cancel, send to repair.
Decide(i) ==
  /\ status = "idle"
  /\ \E s \in {"REJECTED", "CANCELLED", "AWAITING_REPAIR"} :
       /\ rows[i].status \notin Terminal
       /\ s = "REJECTED" => rows[i].status = "PAUSED"
       /\ rows' = [rows EXCEPT ![i] = [@ EXCEPT !.status = s]]
  /\ UNCHANGED <<traversal, before, status, ctx, staged, outbox, decisions, passed, crashes>>

\* The worker takes the documents of an upload to a transaction of any status;
\* the row is not changed, and the context names the row it has named before.
Upload(i) ==
  /\ \E d \in SUBSET NeedsDocs :
       BeginAt("ingest", 0, [rows[i].ctx EXCEPT !.docs = @ \cup d], rows[i].node)
  /\ waived' = Counted(waived, rows[i].node)
  /\ UNCHANGED <<rows, before, approvals>>

\* The session ends without a commit.
RollBack ==
  rows' \in IF before = {} THEN {rows} ELSE { [rows EXCEPT ![target] = b] : b \in before }

\* The request or the task ends.  The execute endpoint closes its session; the
\* resume endpoint copies any result but COMPLETED onto its row and commits; the
\* worker commits its job, also after an exception.
Return ==
  /\ status \in Result
  /\ status' = "idle"
  /\ staged' = {} /\ before' = {}
  /\ outbox' = IF caller = "ingest" \/ (caller = "resume" /\ status # "RAISED")
               THEN outbox \cup staged ELSE outbox
  /\ IF caller = "resume" /\ status \notin {"COMPLETED", "RAISED"}
     THEN rows' = [rows EXCEPT ![target] = [@ EXCEPT !.status = status]]
     ELSE RollBack
  /\ UNCHANGED <<traversal, ctx, decisions, passed, crashes>>

\* The process dies: the session is rolled back by the database.
Crash ==
  /\ status # "idle" /\ crashes < MaxCrashes
  /\ status' = "idle" /\ staged' = {} /\ before' = {} /\ crashes' = crashes + 1
  /\ RollBack
  /\ UNCHANGED <<traversal, ctx, outbox, decisions, passed>>

(***************************************************************************)
(* Visiting a node                                                         *)
(***************************************************************************)
NewRow(st, n, context) ==
  [status |-> st, node |-> n, ctx |-> context, run |-> run, own |-> TRUE]

\* execute() inserts a row, commits, and returns: what was still due in this
\* run is forgotten.
StopRun(st, n, context, rs, events) ==
  /\ ctx' = context /\ rows' = Append(rs, NewRow(st, n, context))
  /\ status' = st
  /\ outbox' = outbox \cup events /\ staged' = {} /\ before' = {}
  /\ UNCHANGED <<traversal, decisions, crashes>>

HasDocuments(n) == n \in NeedsDocs => n \in ctx.docs

\* is_resume_iteration and node_id = resume_from_node_id
GateOpen(n) == n \in Gate => n \in resumeAt

PauseForDocuments(n) ==
  /\ status = "running" /\ n \in todo
  /\ ~HasDocuments(n)
  /\ StopRun("PAUSED", n, ctx, rows, staged)
  /\ UNCHANGED passed

PauseForApproval(n) ==
  /\ status = "running" /\ n \in todo
  /\ HasDocuments(n) /\ ~GateOpen(n)
  /\ StopRun("PAUSED", n, ctx, rows, staged)
  /\ UNCHANGED passed

\* The contexts a rule set that is run (or not) can leave: the flags are set
\* in place and never cleared.
AfterRules(context, ran) ==
  IF ran THEN { [context EXCEPT !.blocked = b, !.cancelled = c] :
                  b \in {TRUE, context.blocked}, c \in {TRUE, context.cancelled} }
         ELSE {context}

\* _execute_node_actions starts on node n.
Enter(n) ==
  /\ status = "running" /\ n \in todo
  /\ HasDocuments(n) /\ GateOpen(n)
  /\ passed' = Counted(passed, n)

Contexts(n) == AfterRules(ctx, n \in Ruled)
Events(n) == staged \cup (IF n \in Emits THEN {<<run, n>>} ELSE {})

\* The child run of a SUB_WORKFLOW step has ended with result r.  Without an
\* input schema the child inherits __resume_instance_id__, and its own
\* completion updates the row of the parent.
ChildRows(n, r, context) ==
  IF r = "COMPLETED" /\ n \notin Isolated /\ ctx.row # 0
  THEN [rows EXCEPT ![ctx.row] =
          [status |-> "COMPLETED", node |-> ChildNode, ctx |-> context,
           run |-> @.run, own |-> @.own /\ @.status = "COMPLETED"]]
  ELSE rows

\* A pause of the child is noted in the context; any other result brings the
\* flags of a child without an output schema back.
ChildContexts(n, r, context) ==
  { d \in AfterRules([context EXCEPT !.child = @ \/ r = "PAUSED"],
                     n \notin Isolated /\ r # "PAUSED") :
      n \notin Isolated => /\ r = "REJECTED" => d.blocked
                           /\ r = "CANCELLED" => d.cancelled }

\* What the steps of n can leave; an invocation rule may skip the sub-workflow.
Outcomes(n) ==
  { [child |-> "none", rows |-> rows, ctx |-> c] : c \in Contexts(n) }
  \cup
  UNION { { [child |-> r, rows |-> ChildRows(n, r, c), ctx |-> d] :
              d \in ChildContexts(n, r, c) } :
          r \in IF n \in Sub THEN Stopped \cup {"COMPLETED"} ELSE {},
          c \in Contexts(n) }

\* A child run commits the session it shares with its parent; what the parent
\* broadcasts after it is staged.
Flush(committed, events) ==
  IF committed
  THEN /\ \E later \in {{}, events \ staged} :
            outbox' = outbox \cup (events \ later) /\ staged' = later
       /\ before' = {}
  ELSE outbox' = outbox /\ staged' = events /\ before' = before

Halted(o) == o.ctx.blocked \/ o.ctx.cancelled

\* BLOCK_PAYMENT, REJECT_STEP and CANCEL_TRANSACTION; a block goes first.
NodeHalts(n) ==
  /\ Enter(n)
  /\ \E o \in Outcomes(n) :
       /\ Halted(o)
       /\ StopRun(IF o.ctx.blocked THEN "REJECTED" ELSE "CANCELLED", n,
                  o.ctx, o.rows, Events(n))

\* Also when the child paused at an earlier node, which then failed.
PauseForChild(n) ==
  /\ Enter(n)
  /\ \E o \in Outcomes(n) :
       /\ ~Halted(o) /\ o.ctx.child
       /\ StopRun("PAUSED", n, [o.ctx EXCEPT !.child = FALSE], o.rows, Events(n))

\* The edges whose condition holds queue their targets for the next step.
NodeContinues(n) ==
  /\ Enter(n)
  /\ \E o \in Outcomes(n) :
       /\ ~Halted(o) /\ ~o.ctx.child
       /\ rows' = o.rows
       /\ ctx' \in AfterRules(o.ctx, \E m \in Node : <<n, m>> \in edges \cap RuleEdge)
       /\ Flush(o.child # "none", Events(n))
  /\ \E T \in SUBSET { m \in Node : <<n, m>> \in edges } :
       /\ \A m \in Node : <<n, m>> \in edges \ Guarded => m \in T
       /\ next' = next \cup T
  /\ todo' = todo \ {n}
  /\ UNCHANGED <<edges, status, caller, run, target, resumeAt, steps,
                 decisions, crashes>>

\* A ValueError, in any step that may raise one or because a sub-workflow
\* failed: the path is dead, the loop goes on with the next node, and whatever
\* the steps before it did stays.
NodeFails(n) ==
  /\ Enter(n)
  /\ \E o \in Outcomes(n), committed \in BOOLEAN, events \in {staged, Events(n)} :
       /\ n \in MayFail \/ (n \in Sub /\ o.child = "none")
       /\ o.child # "none" => committed
       /\ committed => n \in Sub
       /\ rows' = o.rows /\ ctx' = o.ctx
       /\ Flush(committed, events)
  /\ todo' = todo \ {n}
  /\ UNCHANGED <<edges, status, caller, run, target, resumeAt, next, steps,
                 decisions, crashes>>

\* Any other exception leaves execute().
NodeRaises(n) ==
  /\ Enter(n)
  /\ n \in Unhandled
  /\ \E o \in Outcomes(n), events \in {staged, Events(n)} :
       /\ rows' = o.rows /\ ctx' = o.ctx
       /\ Flush(o.child # "none", events)
  /\ status' = "RAISED"
  /\ UNCHANGED <<traversal, decisions, crashes>>

(***************************************************************************)
(* The end of a step and of the run                                        *)
(***************************************************************************)
\* Faulty variant: one step for each edge of the longest chain.
TightMaxSteps == Cardinality(Node) - 1

MaxSteps == 2 * Cardinality(Node) + 5

\* Faulty variant: is_resume_iteration is not reset.
NextStepStillResuming ==
  /\ status = "running" /\ todo = {}
  /\ next # {} /\ steps < MaxSteps
  /\ todo' = next /\ next' = {} /\ resumeAt' = resumeAt /\ steps' = steps + 1
  /\ UNCHANGED <<edges, status, caller, run, target, before, ctx, rows, staged,
                 outbox, decisions, passed, crashes>>

\* Faulty variant: step_count is not incremented.
NextStepUncounted ==
  /\ status = "running" /\ todo = {}
  /\ next # {} /\ steps < MaxSteps
  /\ todo' = next /\ next' = {} /\ resumeAt' = {} /\ steps' = steps
  /\ UNCHANGED <<edges, status, caller, run, target, before, ctx, rows, staged,
                 outbox, decisions, passed, crashes>>

NextStep ==
  /\ status = "running" /\ todo = {}
  /\ next # {} /\ steps < MaxSteps
  /\ todo' = next /\ next' = {} /\ resumeAt' = {} /\ steps' = steps + 1
  /\ UNCHANGED <<edges, status, caller, run, target, before, ctx, rows, staged,
                 outbox, decisions, passed, crashes>>

\* Faulty variant: the event is broadcast after the commit.
CompleteRunThenAnnounce ==
  /\ status = "running" /\ todo = {}
  /\ next = {} /\ steps < MaxSteps
  /\ LET done == NewRow("COMPLETED", Last, ctx)
     IN rows' = IF ctx.row # 0 THEN [rows EXCEPT ![ctx.row] = done]
                               ELSE Append(rows, done)
  /\ outbox' = outbox \cup staged /\ staged' = {<<run, "COMPLETED">>}
  /\ before' = {} /\ status' = "COMPLETED"
  /\ UNCHANGED <<traversal, ctx, decisions, passed, crashes>>

\* The row is inserted, or the row named by __resume_instance_id__ updated,
\* in the commit that publishes WORKFLOW_COMPLETED.
CompleteRun ==
  /\ status = "running" /\ todo = {}
  /\ next = {} /\ steps < MaxSteps
  /\ LET done == NewRow("COMPLETED", Last, ctx)
     IN rows' = IF ctx.row # 0 THEN [rows EXCEPT ![ctx.row] = done]
                               ELSE Append(rows, done)
  /\ outbox' = outbox \cup staged \cup {<<run, "COMPLETED">>} /\ staged' = {}
  /\ before' = {} /\ status' = "COMPLETED"
  /\ UNCHANGED <<traversal, ctx, decisions, passed, crashes>>

StepLimit ==
  /\ status = "running" /\ todo = {} /\ steps >= MaxSteps
  /\ staged' = staged \cup {<<run, "FAILED">>}
  /\ status' = "FAILED"
  /\ UNCHANGED <<traversal, before, ctx, rows, outbox, decisions, passed, crashes>>

Visit(n) ==
  PauseForDocuments(n) \/ PauseForApproval(n) \/ NodeHalts(n) \/ PauseForChild(n)
  \/ NodeContinues(n) \/ NodeFails(n) \/ NodeRaises(n)

Step == (\E n \in Node : Visit(n)) \/ NextStep \/ CompleteRun \/ StepLimit \/ Return

Request(i) ==
  ResumeRun(i) \/ RetryRun(i) \/ SkipStep(i) \/ SkipLast(i) \/ Decide(i) \/ Upload(i)

Next ==
  \/ \E c \in Caller \ {"resume"} : StartRun(c)
  \/ \E i \in DOMAIN rows : Request(i)
  \/ Step
  \/ Crash

Spec == Init /\ [][Next]_vars

\* execute() is a loop of the process that runs it: it goes on unless the
\* process dies.
FairSpec == Spec /\ WF_vars(Step)

(***************************************************************************)
(* Properties                                                              *)
(***************************************************************************)
\* The executor opens no gate by itself: an approval gate is executed at most
\* as often as somebody asked to go on at that very gate, over all runs, cycles
\* and crashes (the HUMAN_APPROVAL test of execute).  The request need not be
\* an approval: a bare resume, a retry, a skip to the gate and an upload go on
\* there as well.
GateOpensOnRequest == \A n \in Gate : passed[n] <= approvals[n] + waived[n]

\* A row that its own run completed has its WORKFLOW_COMPLETED in the outbox,
\* and an event announces a completion that the table shows, if not of that run
\* then of a later one that completed the row again after an upload (lines
\* 1160-1209: one commit for both).
CompletionAnnounced ==
  /\ \A i \in DOMAIN rows :
       rows[i].status = "COMPLETED" /\ rows[i].own =>
         <<rows[i].run, "COMPLETED">> \in outbox
  /\ \A r \in 1 .. MaxRuns :
       <<r, "COMPLETED">> \in outbox =>
         \E i \in DOMAIN rows :
           rows[i].status = "COMPLETED" /\ rows[i].own /\ rows[i].run >= r

\* A run writes at most one row, and a run that returned a status other than
\* FAILED or an exception has written it.
RunRecordedOnce ==
  /\ \A i, j \in DOMAIN rows : rows[i].run = rows[j].run => i = j
  /\ status \in Stopped \cup {"COMPLETED"} =>
       \E i \in DOMAIN rows : rows[i].run = run /\ rows[i].status = status

\* A resumed run that completes settles the row the operator acted on: no
\* PAUSED row of it is left behind to be resumed again.
ResumedRowCloses ==
  status = "COMPLETED" /\ caller = "resume" =>
    rows[target].status = "COMPLETED" /\ rows[target].own

\* A payment that some rule blocked does not end COMPLETED ("Honor it now:
\* terminate the workflow with status=REJECTED", lines 991-992).
BlockIsObeyed == status = "COMPLETED" => ~ctx.blocked

\* The step limit stops cycles only: a workflow whose graph has no cycle never
\* ends FAILED, however its branches fork and meet.
Acyclic ==
  \E rank \in [Node -> 1 .. Cardinality(Node)] :
    \A e \in edges : rank[e[1]] < rank[e[2]]
AcyclicRunsFinish == status = "FAILED" /\ steps > 0 => ~Acyclic

\* Every run ends, also on a graph with cycles.
RunsEnd == status = "running" ~> status # "running"

\* A row says COMPLETED only when the run of its own workflow completed.
CompletedRowIsOwn ==
  \A i \in DOMAIN rows : rows[i].status = "COMPLETED" => rows[i].own

(***************************************************************************)
(* The inductive invariant                                                 *)
(***************************************************************************)
\* Between a request and the end of its first step the gate it named is open.
Opened(n) == status = "running" /\ n \in todo /\ n \in resumeAt

\* An open gate has a request left that no execution has used.
GateInv ==
  \A n \in Gate : IF Opened(n) THEN passed[n] < approvals[n] + waived[n]
                               ELSE passed[n] <= approvals[n] + waived[n]

\* Rows belong to different runs; a run that has not stopped has none yet; the
\* row a resume works on is not the completed row of some run, until it is its
\* own; __resume_instance_id__ names that row; what a rollback restores is the
\* same row but for its node and context.
RowInv ==
  /\ \A i \in DOMAIN rows : rows[i].run \in 1 .. run
  /\ \A i, j \in DOMAIN rows : rows[i].run = rows[j].run => i = j
  /\ status \in {"running", "FAILED", "RAISED"} =>
       \A i \in DOMAIN rows : rows[i].run # run
  /\ status # "idle" /\ caller = "resume" => target # 0 /\ ctx.row = target
  /\ status \notin {"idle", "COMPLETED"} /\ caller = "resume" =>
       ~(rows[target].status = "COMPLETED" /\ rows[target].own)
  /\ \A r \in 1 .. MaxRuns : <<r, "COMPLETED">> \notin staged

BeforeInv ==
  /\ status = "idle" => before = {}
  /\ before # {} =>
       /\ target # 0
       /\ \A b \in before :
            /\ b.run = rows[target].run /\ b.status = rows[target].status
            /\ b.own = rows[target].own /\ b.ctx.row \in 0 .. Len(rows)

ExecutorInv ==
  /\ TypeOK
  /\ RowInv
  /\ BeforeInv
  /\ CompletionAnnounced
  /\ RunRecordedOnce
  /\ ResumedRowCloses

=============================================================================
