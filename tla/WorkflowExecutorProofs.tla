----------------------- MODULE WorkflowExecutorProofs -----------------------
(***************************************************************************)
(* Proofs about WorkflowExecutor for any workflow graph, any assignment of *)
(* step types to nodes and any number of runs and crashes.                 *)
(***************************************************************************)
EXTENDS WorkflowExecutor, FiniteSetTheorems, TLAPS

\* What a set of rules leaves is a context of the same payment, about the same row.
LEMMA RulesEffect ==
  ASSUME NEW context \in Context, NEW ran \in BOOLEAN,
         NEW c \in AfterRules(context, ran)
  PROVE  c \in Context /\ c.row = context.row
<1>1. CASE ran
  <2>1. PICK b \in {TRUE, context.blocked}, k \in {TRUE, context.cancelled} :
          c = [context EXCEPT !.blocked = b, !.cancelled = k]
    BY <1>1 DEF AfterRules
  <2>2. b \in BOOLEAN /\ k \in BOOLEAN
    BY DEF Context
  <2>. QED BY <1>1, <2>1, <2>2 DEF Context
<1>2. CASE ~ran
  BY <1>2 DEF AfterRules
<1>. QED BY <1>1, <1>2

\* So is what the child run of a sub-workflow leaves.
LEMMA ChildEffect ==
  ASSUME NEW n, NEW r, NEW context \in Context, NEW d \in ChildContexts(n, r, context)
  PROVE  d \in Context /\ d.row = context.row
<1> DEFINE noted == [context EXCEPT !.child = @ \/ r = "PAUSED"]
           ran == n \notin Isolated /\ r # "PAUSED"
<1>1. noted \in Context /\ noted.row = context.row
  BY DEF Context
<1>2. d \in AfterRules(noted, ran) /\ ran \in BOOLEAN
  BY DEF ChildContexts
<1> HIDE DEF noted, ran
<1>. QED BY <1>1, <1>2, RulesEffect

Own(row) == row.status = "COMPLETED" /\ row.own

\* rs is rows with the same runs: what may differ is not whose completion a row shows.
SameRuns(rs) ==
  /\ rs \in Seq(Row) /\ Len(rs) = Len(rows)
  /\ \A i \in 1 .. Len(rows) :
       /\ rs[i].run = rows[i].run
       /\ rs[i].ctx.row \in 0 .. Len(rows)
       /\ Own(rs[i]) <=> Own(rows[i])

LEMMA RowsSameRuns == TypeOK => SameRuns(rows)
BY DEF SameRuns, TypeOK

\* One row may be replaced by another of the same run.
LEMMA ReplacedSameRuns ==
  ASSUME TypeOK, NEW i \in DOMAIN rows, NEW row \in Row,
         row.run = rows[i].run, row.ctx.row \in 0 .. Len(rows), Own(row) <=> Own(rows[i])
  PROVE  SameRuns([rows EXCEPT ![i] = row])
<1>1. rows \in Seq(Row) /\ DOMAIN rows = 1 .. Len(rows)
  BY DEF TypeOK
<1> DEFINE rs == [rows EXCEPT ![i] = row]
<1>2. /\ rs \in Seq(Row) /\ Len(rs) = Len(rows)
      /\ \A j \in 1 .. Len(rows) : rs[j] = IF j = i THEN row ELSE rows[j]
  BY <1>1
<1> HIDE DEF rs
<1>3. SameRuns(rs)
  BY <1>2 DEF SameRuns, TypeOK
<1>. QED BY <1>3 DEF rs

LEMMA ChildRowsSameRuns ==
  ASSUME TypeOK, NEW n \in Node, NEW r, NEW c \in Context, c.row = ctx.row
  PROVE  SameRuns(ChildRows(n, r, c))
<1>1. CASE ctx.row = 0
  BY <1>1, RowsSameRuns DEF ChildRows
<1>2. CASE ctx.row # 0
  <2>1. ctx.row \in DOMAIN rows /\ rows[ctx.row] \in Row
    BY <1>2 DEF TypeOK
  <2> DEFINE row == [status |-> "COMPLETED", node |-> ChildNode, ctx |-> c,
                     run |-> rows[ctx.row].run, own |-> Own(rows[ctx.row])]
  <2>2. row \in Row /\ row.run = rows[ctx.row].run /\ row.ctx.row \in 0 .. Len(rows)
    BY <2>1 DEF Row, Result, Own, TypeOK
  <2>3. Own(row) <=> Own(rows[ctx.row])
    BY <2>1 DEF Own, Row
  <2>4. ChildRows(n, r, c) = rows \/ ChildRows(n, r, c) = [rows EXCEPT ![ctx.row] = row]
    <3>1. (rows[ctx.row].own /\ rows[ctx.row].status = "COMPLETED") = Own(rows[ctx.row])
      BY <2>1 DEF Own, Row
    <3>. QED BY <3>1 DEF ChildRows
  <2> HIDE DEF row
  <2>. QED BY <2>1, <2>2, <2>3, <2>4, RowsSameRuns, ReplacedSameRuns
<1>. QED BY <1>1, <1>2

\* The steps of a node change neither which row is being resumed nor whose
\* completions the rows show; without a child run they change no row.
LEMMA OutcomeEffect ==
  ASSUME TypeOK, NEW n \in Node, NEW o \in Outcomes(n)
  PROVE  /\ o.ctx \in Context /\ o.ctx.row = ctx.row
         /\ SameRuns(o.rows)
         /\ o.child = "none" => o.rows = rows
<1>1. \A c \in Contexts(n) : c \in Context /\ c.row = ctx.row
  <2>1. (n \in Ruled) \in BOOLEAN /\ ctx \in Context
    BY DEF TypeOK
  <2>. QED BY <2>1, RulesEffect DEF Contexts
<1>2. CASE \E c \in Contexts(n) : o = [child |-> "none", rows |-> rows, ctx |-> c]
  BY <1>1, <1>2, RowsSameRuns
<1>3. ASSUME NEW r \in Stopped \cup {"COMPLETED"}, NEW c \in Contexts(n),
             NEW d \in ChildContexts(n, r, c),
             o = [child |-> r, rows |-> ChildRows(n, r, c), ctx |-> d]
      PROVE  o.ctx \in Context /\ o.ctx.row = ctx.row /\ SameRuns(o.rows) /\ o.child # "none"
  <2>1. c \in Context /\ c.row = ctx.row
    BY <1>1
  <2>2. d \in Context /\ d.row = ctx.row
    BY <2>1, ChildEffect
  <2>3. SameRuns(ChildRows(n, r, c))
    BY <2>1, ChildRowsSameRuns
  <2>. QED BY <1>3, <2>2, <2>3 DEF Stopped
<1>4. \/ \E c \in Contexts(n) : o = [child |-> "none", rows |-> rows, ctx |-> c]
      \/ \E r \in Stopped \cup {"COMPLETED"}, c \in Contexts(n) : \E d \in ChildContexts(n, r, c) :
           o = [child |-> r, rows |-> ChildRows(n, r, c), ctx |-> d]
  <2>1. CASE o \in { [child |-> "none", rows |-> rows, ctx |-> c] : c \in Contexts(n) }
    BY <2>1
  <2>2. CASE o \notin { [child |-> "none", rows |-> rows, ctx |-> c] : c \in Contexts(n) }
    <3> DEFINE Left(r, c) == { [child |-> r, rows |-> ChildRows(n, r, c), ctx |-> d] :
                                 d \in ChildContexts(n, r, c) }
               R == IF n \in Sub THEN Stopped \cup {"COMPLETED"} ELSE {}
    <3>1. o \in UNION { Left(r, c) : r \in R, c \in Contexts(n) }
      BY <2>2 DEF Outcomes
    <3> HIDE DEF Left, R
    <3>2. PICK r \in R, c \in Contexts(n) : o \in Left(r, c)
      BY <3>1
    <3>. QED BY <3>2 DEF Left, R
  <2>. QED BY <2>1, <2>2
<1>. QED BY <1>2, <1>3, <1>4

\* A node stages events of its own run, never WORKFLOW_COMPLETED.
LEMMA EventsType ==
  ASSUME TypeOK, RowInv, status = "running", NEW n \in Node
  PROVE  /\ Events(n) \subseteq EventOf
         /\ \A r \in 1 .. MaxRuns : <<r, "COMPLETED">> \notin Events(n)
<1>1. n # "COMPLETED" /\ run \in 1 .. MaxRuns
  BY ExecutorAssumption DEF TypeOK
<1>. QED BY <1>1 DEF Events, EventOf, TypeOK, RowInv

\* The rows after a run has inserted its own.
LEMMA AppendRow ==
  ASSUME NEW rs, NEW row \in Row, rs \in Seq(Row)
  PROVE  /\ Append(rs, row) \in Seq(Row)
         /\ Len(Append(rs, row)) = Len(rs) + 1
         /\ Append(rs, row)[Len(rs) + 1] = row
         /\ \A i \in 1 .. Len(rs) : Append(rs, row)[i] = rs[i]
OBVIOUS

\* Rows and events agree on completions as long as neither changes in that.
LEMMA AnnouncedKept ==
  ASSUME CompletionAnnounced, DOMAIN rows \subseteq DOMAIN rows',
         \A i \in DOMAIN rows : /\ rows'[i].run = rows[i].run
                                /\ Own(rows'[i]) <=> Own(rows[i])
                                /\ rows[i].run \in 1 .. MaxRuns,
         \A i \in DOMAIN rows' \ DOMAIN rows : ~Own(rows'[i]),
         \A r \in 1 .. MaxRuns : <<r, "COMPLETED">> \in outbox' <=> <<r, "COMPLETED">> \in outbox
  PROVE  CompletionAnnounced'
<1>1. ASSUME NEW i \in DOMAIN rows', Own(rows'[i])
      PROVE  <<rows'[i].run, "COMPLETED">> \in outbox'
  <2>1. i \in DOMAIN rows /\ Own(rows[i]) /\ rows'[i].run = rows[i].run
    BY <1>1
  <2>. QED BY <2>1 DEF CompletionAnnounced, Own
<1>2. ASSUME NEW r \in 1 .. MaxRuns, <<r, "COMPLETED">> \in outbox'
      PROVE  \E i \in DOMAIN rows' : Own(rows'[i]) /\ rows'[i].run >= r
  <2>1. PICK i \in DOMAIN rows : Own(rows[i]) /\ rows[i].run >= r
    BY <1>2 DEF CompletionAnnounced, Own
  <2>. QED BY <2>1
<1>. QED BY <1>1, <1>2 DEF CompletionAnnounced, Own

\* The runs of the rows are runs there have been.
LEMMA RunsOfRows ==
  ASSUME TypeOK, RowInv
  PROVE  /\ rows \in Seq(Row) /\ Len(rows) \in Nat /\ DOMAIN rows = 1 .. Len(rows)
         /\ MaxRuns \in Nat
         /\ \A i \in DOMAIN rows : rows[i] \in Row /\ rows[i].run \in 1 .. MaxRuns
BY ExecutorAssumption DEF TypeOK, RowInv

\* A run that pauses or halts keeps the invariant.
LEMMA StopRunInv ==
  ASSUME ExecutorInv, status = "running", NEW st \in Stopped, NEW n \in Node,
         NEW context \in Context, context.row = ctx.row,
         NEW rs, SameRuns(rs), NEW events, events \subseteq EventOf,
         \A r \in 1 .. MaxRuns : <<r, "COMPLETED">> \notin events,
         passed' \in [Node -> Nat],
         StopRun(st, n, context, rs, events)
  PROVE  ExecutorInv'
<1> DEFINE row == NewRow(st, n, context)
<1>a. TypeOK /\ RowInv /\ CompletionAnnounced
  BY DEF ExecutorInv
<1>b. run \in 1 .. MaxRuns /\ MaxRuns \in Nat
  BY <1>a, ExecutorAssumption DEF TypeOK
<1>1. row \in Row /\ row.status = st /\ row.run = run /\ row.ctx = context
  BY <1>b DEF NewRow, Row, Result, Stopped
<1> HIDE DEF row
<1>2. rows' = Append(rs, row) /\ rs \in Seq(Row) /\ Len(rs) = Len(rows)
  BY DEF StopRun, SameRuns, row
<1>3. /\ rows' \in Seq(Row) /\ Len(rows') = Len(rows) + 1
      /\ rows'[Len(rows) + 1] = row
      /\ \A i \in 1 .. Len(rows) : rows'[i] = rs[i]
  BY <1>1, <1>2, AppendRow
<1>4. /\ ctx' = context /\ status' = st /\ outbox' = outbox \cup events /\ staged' = {}
      /\ before' = {} /\ UNCHANGED <<traversal, decisions, crashes>>
  BY DEF StopRun
<1>5. Len(rows) \in Nat
  BY <1>a DEF TypeOK
<1>6. TypeOK'
  <2>1. ctx' \in Context /\ ctx'.row \in 0 .. Len(rows') /\ target' \in 0 .. Len(rows')
    BY <1>a, <1>3, <1>4, <1>5 DEF TypeOK, traversal
  <2>2. ASSUME NEW i \in 1 .. Len(rows')
        PROVE  rows'[i].ctx.row \in 0 .. Len(rows')
    <3>1. CASE i = Len(rows) + 1
      BY <1>1, <1>3, <1>4, <1>5, <2>1, <3>1
    <3>2. CASE i \in 1 .. Len(rows)
      BY <1>3, <1>5, <3>2 DEF SameRuns
    <3>. QED BY <1>3, <1>5, <3>1, <3>2
  <2>3. /\ status' \in Result \cup {"idle", "running"} /\ run' = run
        /\ edges' \in Graphs /\ caller' \in Caller /\ run' \in 0 .. MaxRuns
        /\ resumeAt' \subseteq Node /\ todo' \subseteq Node /\ next' \subseteq Node
        /\ steps' \in Nat
    BY <1>a, <1>4 DEF TypeOK, traversal, Stopped, Result
  <2>4. /\ staged' \subseteq EventOf /\ outbox' \subseteq EventOf /\ before' \subseteq Row
        /\ approvals' \in [Node -> Nat] /\ waived' \in [Node -> Nat]
        /\ crashes' \in 0 .. MaxCrashes
    BY <1>a, <1>4 DEF TypeOK, decisions
  <2>. QED
    BY <1>b, <1>3, <2>1, <2>2, <2>3, <2>4 DEF TypeOK
<1>7. \A i \in 1 .. Len(rows') :
        \/ i = Len(rows) + 1 /\ rows'[i].run = run /\ ~Own(rows'[i])
        \/ /\ i \in 1 .. Len(rows) /\ rows'[i].run = rows[i].run
           /\ rows[i].run \in 1 .. run /\ rows[i].run # run
           /\ Own(rows'[i]) <=> Own(rows[i])
  <2> TAKE i \in 1 .. Len(rows')
  <2>1. CASE i = Len(rows) + 1
    BY <1>1, <1>3, <2>1 DEF Own, Stopped
  <2>2. CASE i \in 1 .. Len(rows)
    <3>1. rows'[i] = rs[i]
      BY <1>3, <2>2
    <3>2. rows[i].run \in 1 .. run /\ rows[i].run # run
      BY <1>a, <2>2 DEF RowInv, TypeOK
    <3>3. rs[i].run = rows[i].run /\ (Own(rs[i]) <=> Own(rows[i]))
      BY <2>2 DEF SameRuns
    <3>. QED BY <2>2, <3>1, <3>2, <3>3
  <2>. QED BY <1>3, <1>5, <2>1, <2>2
<1>8. RowInv' /\ BeforeInv'
  <2>1. \A i, j \in DOMAIN rows' : rows'[i].run = rows'[j].run => i = j
    BY <1>a, <1>3, <1>5, <1>7 DEF RowInv
  <2>2. \A i \in DOMAIN rows' : rows'[i].run \in 1 .. run'
    BY <1>b, <1>3, <1>4, <1>5, <1>7 DEF traversal
  <2>3. caller' = "resume" => target' # 0 /\ ctx'.row = target' /\ ~Own(rows'[target'])
    <3>1. target \in 0 .. Len(rows)
      BY <1>a DEF TypeOK
    <3>2. caller = "resume" => target # 0 /\ ctx.row = target /\ ~Own(rows[target])
      BY <1>a DEF RowInv, Own
    <3>. QED BY <3>1, <3>2, <1>3, <1>4, <1>5, <1>7 DEF traversal
  <2>. QED
    BY <1>a, <1>4, <2>1, <2>2, <2>3 DEF RowInv, BeforeInv, Own, traversal, Stopped
<1>9. CompletionAnnounced'
  <2>1. \A r \in 1 .. MaxRuns : <<r, "COMPLETED">> \in outbox' <=> <<r, "COMPLETED">> \in outbox
    BY <1>4
  <2>2. /\ DOMAIN rows = 1 .. Len(rows) /\ DOMAIN rows' = 1 .. Len(rows')
        /\ \A i \in DOMAIN rows : rows[i].run \in 1 .. MaxRuns
    BY <1>a, <1>3, RunsOfRows
  <2>. QED BY <1>a, <1>3, <1>5, <1>7, <2>1, <2>2, AnnouncedKept
<1>10. RunRecordedOnce'
  <2>1. \E i \in DOMAIN rows' : rows'[i].run = run' /\ rows'[i].status = status'
    BY <1>1, <1>3, <1>4, <1>5 DEF traversal
  <2>. QED BY <1>8, <2>1 DEF RowInv, RunRecordedOnce
<1>11. ResumedRowCloses'
  BY <1>4 DEF ResumedRowCloses, Stopped
<1>. QED BY <1>6, <1>8, <1>9, <1>10, <1>11 DEF ExecutorInv

LEMMA InitInv == Init => ExecutorInv
<1> SUFFICES ASSUME Init PROVE ExecutorInv
  OBVIOUS
<1>1. ctx \in Context /\ ctx.row = 0
  BY DEF Init, NewContext, Context
<1>2. rows \in Seq(Row) /\ Len(rows) = 0 /\ DOMAIN rows = {}
  BY DEF Init
<1>3. TypeOK
  BY <1>1, <1>2, ExecutorAssumption DEF Init, TypeOK, Caller
<1>. QED
  BY <1>2, <1>3 DEF Init, ExecutorInv, RowInv, BeforeInv, CompletionAnnounced,
     RunRecordedOnce, ResumedRowCloses, Stopped

\* A run begins or is refused: a new one, one resumed from a row that does not
\* show a completion, or one that an upload continues.
LEMMA BeginInv ==
  ASSUME ExecutorInv, NEW c \in Caller, NEW row \in 0 .. Len(rows),
         NEW context \in Context, context.row \in 0 .. Len(rows),
         c = "resume" => row # 0 /\ context.row = row /\ ~Own(rows[row]),
         NEW nodes \in SUBSET Node, NEW resumed \in SUBSET Node,
         Begin(c, row, context, nodes, resumed) \/ NotFound(c, row, context),
         NEW rs, SameRuns(rs), rows' = rs,
         \/ before' = {}
         \/ /\ row # 0 /\ before' = {rows[row]}
            /\ rs[row].status = rows[row].status /\ rs[row].own = rows[row].own,
         approvals' \in [Node -> Nat], waived' \in [Node -> Nat]
  PROVE  ExecutorInv'
<1>1. TypeOK /\ RowInv /\ CompletionAnnounced /\ RunRecordedOnce
  BY DEF ExecutorInv
<1>2. /\ MaxRuns \in Nat /\ run' \in 1 .. MaxRuns /\ run' = run + 1 /\ run \in Nat
      /\ status' \in {"running", "FAILED"} /\ caller' = c /\ target' = row /\ ctx' = context
      /\ resumeAt' \subseteq Node /\ todo' \subseteq Node /\ next' \subseteq Node
      /\ steps' \in Nat
      /\ UNCHANGED <<edges, staged, outbox, passed, crashes>>
  <2>1. MaxRuns \in Nat /\ run \in 0 .. MaxRuns
    BY <1>1, ExecutorAssumption DEF TypeOK
  <2>2. CASE Begin(c, row, context, nodes, resumed)
    BY <2>1, <2>2 DEF Begin
  <2>3. CASE NotFound(c, row, context)
    BY <2>1, <2>3 DEF NotFound
  <2>. QED BY <2>2, <2>3
<1>3. /\ Len(rows') = Len(rows) /\ Len(rows) \in Nat
      /\ DOMAIN rows' = DOMAIN rows /\ DOMAIN rows = 1 .. Len(rows)
      /\ \A i \in DOMAIN rows : /\ rows'[i].run = rows[i].run /\ rows[i].run \in 1 .. run
                                /\ rows'[i].ctx.row \in 0 .. Len(rows)
                                /\ rows[i] \in Row /\ rows[i].ctx.row \in 0 .. Len(rows)
                                /\ Own(rows'[i]) <=> Own(rows[i])
  BY <1>1 DEF SameRuns, TypeOK, RowInv
<1>4. TypeOK'
  <2>1. before' \subseteq Row /\ rows' \in Seq(Row)
    BY <1>3 DEF SameRuns
  <2>2. /\ target' \in 0 .. Len(rows') /\ ctx' \in Context /\ ctx'.row \in 0 .. Len(rows')
        /\ \A i \in 1 .. Len(rows') : rows'[i].ctx.row \in 0 .. Len(rows')
    BY <1>2, <1>3
  <2>3. status' \in Result \cup {"idle", "running"} /\ caller' \in Caller /\ run' \in 0 .. MaxRuns
    BY <1>2 DEF Result
  <2>4. /\ edges' \in Graphs /\ staged' \subseteq EventOf /\ outbox' \subseteq EventOf
        /\ passed' \in [Node -> Nat] /\ crashes' \in 0 .. MaxCrashes
    BY <1>1, <1>2 DEF TypeOK
  <2>. QED BY <1>2, <2>1, <2>2, <2>3, <2>4 DEF TypeOK
<1>5. RowInv' /\ BeforeInv'
  <2>1. \A i \in DOMAIN rows' : rows'[i].run \in 1 .. run' /\ rows'[i].run # run'
    BY <1>2, <1>3
  <2>2. \A i, j \in DOMAIN rows' : rows'[i].run = rows'[j].run => i = j
    BY <1>1, <1>3 DEF RowInv
  <2>3. c = "resume" => row # 0 /\ context.row = row /\ ~Own(rows'[row])
    BY <1>3
  <2>4. RowInv'
    BY <1>1, <1>2, <2>1, <2>2, <2>3 DEF RowInv, Own
  <2>5. BeforeInv'
    BY <1>2, <1>3 DEF BeforeInv
  <2>. QED BY <2>4, <2>5
<1>6. CompletionAnnounced'
  BY <1>1, <1>2, <1>3, AnnouncedKept
<1>7. ResumedRowCloses' /\ RunRecordedOnce'
  BY <1>1, <1>2, <1>5 DEF ResumedRowCloses, RunRecordedOnce, RowInv, Stopped
<1>. QED BY <1>4, <1>5, <1>6, <1>7 DEF ExecutorInv

\* One request or continuation more is counted, for a gate.
LEMMA CountedEffect ==
  ASSUME NEW count \in [Node -> Nat], NEW n \in Node \cup {ChildNode}
  PROVE  /\ Counted(count, n) \in [Node -> Nat]
         /\ \A m \in Gate : Counted(count, n)[m] = count[m] + (IF m = n THEN 1 ELSE 0)
<1>1. Gate \subseteq Node /\ ChildNode \notin Node
  BY ExecutorAssumption
<1>2. CASE n \in Gate
  BY <1>1, <1>2 DEF Counted
<1>3. CASE n \notin Gate
  BY <1>1, <1>3 DEF Counted
<1>. QED BY <1>2, <1>3

LEMMA StartRunInv ==
  ASSUME ExecutorInv, NEW c \in Caller \ {"resume"}, StartRun(c)
  PROVE  ExecutorInv'
<1>1. PICK d \in SUBSET NeedsDocs : Begin(c, 0, NewContext(d), {First}, {})
  BY DEF StartRun
<1>2. NewContext(d) \in Context /\ NewContext(d).row = 0
  BY ExecutorAssumption DEF NewContext, Context
<1>3. /\ TypeOK /\ status = "idle" /\ rows' = rows /\ before' = {}
      /\ approvals' \in [Node -> Nat] /\ waived' \in [Node -> Nat]
  BY <1>1 DEF StartRun, ExecutorInv, TypeOK, BeforeInv, Begin, decisions
<1>4. 0 \in 0 .. Len(rows)
  BY <1>3 DEF TypeOK
<1>5. {First} \in SUBSET Node /\ {} \in SUBSET Node
  BY ExecutorAssumption
<1>. QED BY <1>1, <1>2, <1>3, <1>4, <1>5, RowsSameRuns, BeginInv

\* Beginning at a node that a row names is a beginning, or is refused.
LEMMA BeginAtEffect ==
  ASSUME NEW c, NEW row, NEW context, NEW n, BeginAt(c, row, context, n)
  PROVE  /\ status = "idle"
         /\ \E nodes \in SUBSET Node :
              Begin(c, row, context, nodes, nodes) \/ NotFound(c, row, context)
<1>1. CASE n \in Node /\ Begin(c, row, context, {n}, {n})
  BY <1>1 DEF Begin
<1>2. CASE NotFound(c, row, context)
  BY <1>2 DEF NotFound
<1>. QED BY <1>1, <1>2 DEF BeginAt

\* Every request that goes on with a row which shows no completion.
LEMMA ResumeInv ==
  ASSUME ExecutorInv, NEW i \in DOMAIN rows, ~Own(rows[i]),
         NEW n \in Node \cup {ChildNode}, NEW approving \in BOOLEAN,
         Resume(i, n, approving)
  PROVE  ExecutorInv'
<1>1. TypeOK /\ RowInv
  BY DEF ExecutorInv
<1>2. PICK d \in SUBSET NeedsDocs :
        /\ BeginAt("resume", i, [rows[i].ctx EXCEPT !.row = i, !.docs = @ \cup d], n)
        /\ rows' = [rows EXCEPT ![i] =
             [@ EXCEPT !.node = n,
                       !.ctx = IF d = {} THEN rows[i].ctx
                               ELSE [rows[i].ctx EXCEPT !.row = i, !.docs = @ \cup d]]]
  BY DEF Resume
<1> DEFINE context == [rows[i].ctx EXCEPT !.row = i, !.docs = @ \cup d]
           saved == IF d = {} THEN rows[i].ctx ELSE context
           row == [rows[i] EXCEPT !.node = n, !.ctx = saved]
<1>3. /\ i \in 1 .. Len(rows) /\ i # 0 /\ i \in Nat /\ Len(rows) \in Nat
      /\ rows[i] \in Row /\ rows[i].ctx.row \in 0 .. Len(rows)
  BY <1>1 DEF TypeOK
<1>4. context \in Context /\ context.row = i
  <2>1. rows[i].ctx \in Context
    BY <1>3 DEF Row
  <2>2. rows[i].ctx.docs \cup d \in SUBSET Node
    BY <2>1, ExecutorAssumption DEF Context
  <2>. QED BY <1>3, <2>1, <2>2 DEF Context
<1>5. /\ row \in Row /\ row.run = rows[i].run /\ row.ctx.row \in 0 .. Len(rows)
      /\ row.status = rows[i].status /\ row.own = rows[i].own
  <2>1. saved \in Context /\ saved.row \in 0 .. Len(rows)
    BY <1>3, <1>4 DEF Row
  <2> HIDE DEF context, saved
  <2>. QED BY <1>3, <2>1 DEF Row
<1>6. rows' = [rows EXCEPT ![i] = row] /\ BeginAt("resume", i, context, n)
  BY <1>2
<1> HIDE DEF context, saved, row
<1>7. SameRuns(rows')
  BY <1>1, <1>5, <1>6, ReplacedSameRuns DEF Own
<1>8. rows'[i] = row
  BY <1>1, <1>3, <1>6 DEF TypeOK
<1>9. /\ approvals' \in [Node -> Nat] /\ waived' \in [Node -> Nat] /\ before' = {rows[i]}
  BY <1>1, CountedEffect DEF Resume, TypeOK
<1>10. PICK nodes \in SUBSET Node :
         Begin("resume", i, context, nodes, nodes) \/ NotFound("resume", i, context)
  BY <1>6, BeginAtEffect
<1>11. /\ "resume" \in Caller /\ i \in 0 .. Len(rows) /\ context.row \in 0 .. Len(rows)
       /\ rows'[i].status = rows[i].status /\ rows'[i].own = rows[i].own
  BY <1>3, <1>4, <1>5, <1>8 DEF Caller
<1>. QED BY <1>3, <1>4, <1>7, <1>9, <1>10, <1>11, BeginInv

\* What may be done between two runs, or ends one: rows keep their runs.
LEMMA SettledInv ==
  ASSUME ExecutorInv, status' = "idle", before' = {}, staged' \subseteq staged,
         outbox' = outbox \/ outbox' = outbox \cup staged,
         SameRuns(rows'), crashes' \in 0 .. MaxCrashes,
         UNCHANGED <<traversal, ctx, decisions, passed>>
  PROVE  ExecutorInv'
<1>1. TypeOK /\ RowInv /\ CompletionAnnounced
  BY DEF ExecutorInv
<1>2. UNCHANGED <<edges, caller, run, target, resumeAt, todo, next, steps, approvals, waived>>
  BY DEF traversal, decisions
<1>3. /\ Len(rows') = Len(rows) /\ Len(rows) \in Nat /\ rows' \in Seq(Row)
      /\ DOMAIN rows' = DOMAIN rows /\ DOMAIN rows = 1 .. Len(rows)
      /\ \A i \in DOMAIN rows : /\ rows'[i].run = rows[i].run
                                /\ rows'[i].ctx.row \in 0 .. Len(rows)
                                /\ Own(rows'[i]) <=> Own(rows[i])
  BY <1>1 DEF SameRuns, TypeOK
<1>4. TypeOK'
  BY <1>1, <1>2, <1>3 DEF TypeOK
<1>5. RowInv' /\ BeforeInv'
  <2>1. \A i \in DOMAIN rows' : rows'[i].run \in 1 .. run'
    BY <1>1, <1>2, <1>3 DEF RowInv
  <2>2. \A i, j \in DOMAIN rows' : rows'[i].run = rows'[j].run => i = j
    BY <1>1, <1>3 DEF RowInv
  <2>3. \A r \in 1 .. MaxRuns : <<r, "COMPLETED">> \notin staged'
    BY <1>1 DEF RowInv
  <2>. QED BY <2>1, <2>2, <2>3 DEF RowInv, BeforeInv
<1>6. CompletionAnnounced'
  <2>1. \A r \in 1 .. MaxRuns : <<r, "COMPLETED">> \in outbox' <=> <<r, "COMPLETED">> \in outbox
    BY <1>1 DEF RowInv
  <2>. QED BY <1>1, <1>3, <2>1, RunsOfRows, AnnouncedKept
<1>7. RunRecordedOnce' /\ ResumedRowCloses'
  BY <1>5 DEF RunRecordedOnce, ResumedRowCloses, RowInv, Stopped
<1>. QED BY <1>4, <1>5, <1>6, <1>7 DEF ExecutorInv

\* A status that an operator gives a row is not that of a completed run.
LEMMA StatusSameRuns ==
  ASSUME TypeOK, NEW i \in DOMAIN rows, ~Own(rows[i]), NEW row \in Row,
         row.run = rows[i].run, row.ctx = rows[i].ctx, ~Own(row)
  PROVE  SameRuns([rows EXCEPT ![i] = row])
<1>1. rows[i].ctx.row \in 0 .. Len(rows)
  BY DEF TypeOK
<1>. QED BY <1>1, ReplacedSameRuns

LEMMA SkipLastInv ==
  ASSUME ExecutorInv, NEW i \in DOMAIN rows, SkipLast(i)
  PROVE  ExecutorInv'
<1> DEFINE row == [rows[i] EXCEPT !.status = "COMPLETED", !.own = FALSE]
<1>1. TypeOK /\ BeforeInv /\ status = "idle" /\ before = {}
  BY DEF ExecutorInv, BeforeInv, SkipLast
<1>2. rows[i] \in Row /\ ~Own(rows[i])
  BY <1>1 DEF TypeOK, SkipLast, MaySkip, Own, Terminal
<1>3. row \in Row /\ row.run = rows[i].run /\ row.ctx = rows[i].ctx /\ ~Own(row)
  BY <1>2 DEF Row, Own, Result
<1>4. rows' = [rows EXCEPT ![i] = row]
  BY DEF SkipLast
<1> HIDE DEF row
<1>5. SameRuns(rows')
  BY <1>1, <1>2, <1>3, <1>4, StatusSameRuns
<1>. QED BY <1>1, <1>5, SettledInv DEF SkipLast, TypeOK

LEMMA DecideInv ==
  ASSUME ExecutorInv, NEW i \in DOMAIN rows, Decide(i)
  PROVE  ExecutorInv'
<1>1. TypeOK /\ BeforeInv /\ status = "idle" /\ before = {}
  BY DEF ExecutorInv, BeforeInv, Decide
<1>2. PICK s \in {"REJECTED", "CANCELLED", "AWAITING_REPAIR"} :
        /\ rows[i].status \notin Terminal
        /\ rows' = [rows EXCEPT ![i] = [@ EXCEPT !.status = s]]
  BY DEF Decide
<1> DEFINE row == [rows[i] EXCEPT !.status = s]
<1>3. rows[i] \in Row /\ ~Own(rows[i])
  BY <1>1, <1>2 DEF TypeOK, Own, Terminal
<1>4. row \in Row /\ row.run = rows[i].run /\ row.ctx = rows[i].ctx /\ ~Own(row)
  BY <1>3 DEF Row, Own, Result, Stopped
<1>5. rows' = [rows EXCEPT ![i] = row]
  BY <1>2
<1> HIDE DEF row
<1>6. SameRuns(rows')
  BY <1>1, <1>3, <1>4, <1>5, StatusSameRuns
<1>. QED BY <1>1, <1>6, SettledInv DEF Decide, TypeOK

LEMMA UploadInv ==
  ASSUME ExecutorInv, NEW i \in DOMAIN rows, Upload(i)
  PROVE  ExecutorInv'
<1>1. TypeOK
  BY DEF ExecutorInv
<1>2. PICK d \in SUBSET NeedsDocs :
        BeginAt("ingest", 0, [rows[i].ctx EXCEPT !.docs = @ \cup d], rows[i].node)
  BY DEF Upload
<1> DEFINE context == [rows[i].ctx EXCEPT !.docs = @ \cup d]
<1>a. rows[i] \in Row /\ rows[i].ctx.row \in 0 .. Len(rows)
  BY <1>1 DEF TypeOK
<1>3. /\ rows[i] \in Row /\ rows[i].ctx.row \in 0 .. Len(rows)
      /\ rows[i].node \in Node \cup {ChildNode}
  BY <1>a DEF Row
<1>4. context \in Context /\ context.row \in 0 .. Len(rows)
  <2>1. rows[i].ctx \in Context
    BY <1>3 DEF Row
  <2>2. rows[i].ctx.docs \cup d \in SUBSET Node
    BY <2>1, ExecutorAssumption DEF Context
  <2>. QED BY <1>3, <2>1, <2>2 DEF Context
<1> HIDE DEF context
<1>5. status = "idle" /\ \E nodes \in SUBSET Node :
        Begin("ingest", 0, context, nodes, nodes) \/ NotFound("ingest", 0, context)
  BY <1>2, BeginAtEffect DEF context
<1>6. rows' = rows /\ before' = {} /\ approvals' \in [Node -> Nat]
  BY <1>1, <1>5 DEF Upload, ExecutorInv, BeforeInv, TypeOK
<1>7. waived' \in [Node -> Nat]
  BY <1>1, <1>3, CountedEffect DEF Upload, TypeOK
<1>8. 0 \in 0 .. Len(rows) /\ "ingest" \in Caller
  BY <1>1 DEF TypeOK, Caller
<1>. QED BY <1>1, <1>4, <1>5, <1>6, <1>7, <1>8, RowsSameRuns, BeginInv

LEMMA RequestInv ==
  ASSUME ExecutorInv, NEW i \in DOMAIN rows, Request(i)
  PROVE  ExecutorInv'
<1>1. /\ i \in DOMAIN rows /\ rows[i] \in Row /\ rows[i].node \in Node \cup {ChildNode}
  <2>1. i \in DOMAIN rows /\ rows[i] \in Row
    BY DEF ExecutorInv, TypeOK
  <2>. QED BY <2>1 DEF Row
<1>2. CASE ResumeRun(i)
  BY <1>1, <1>2, ResumeInv DEF ResumeRun, Own
<1>3. CASE RetryRun(i)
  BY <1>1, <1>3, ResumeInv DEF RetryRun, Own
<1>4. CASE SkipStep(i)
  <2>1. PICK n \in NextAfter(rows[i].node) : Resume(i, n, FALSE)
    BY <1>4 DEF SkipStep
  <2>2. n \in Node
    BY ExecutorAssumption DEF NextAfter
  <2>3. ~Own(rows[i])
    BY <1>4 DEF SkipStep, MaySkip, Own, Terminal
  <2>. QED BY <2>1, <2>2, <2>3, ResumeInv
<1>. QED BY <1>2, <1>3, <1>4, SkipLastInv, DecideInv, UploadInv DEF Request

\* A rollback restores a row of the same run.
LEMMA RollBackSameRuns ==
  ASSUME ExecutorInv, RollBack PROVE SameRuns(rows')
<1>1. TypeOK /\ BeforeInv
  BY DEF ExecutorInv
<1>2. CASE before = {}
  BY <1>1, <1>2, RowsSameRuns DEF RollBack
<1>3. CASE before # {}
  <2>1. PICK b \in before : rows' = [rows EXCEPT ![target] = b]
    BY <1>3 DEF RollBack
  <2>2. target \in DOMAIN rows /\ b \in Row
    BY <1>1 DEF TypeOK, BeforeInv
  <2>3. b.run = rows[target].run /\ b.ctx.row \in 0 .. Len(rows) /\ (Own(b) <=> Own(rows[target]))
    BY <1>1 DEF BeforeInv, Own
  <2>. QED BY <1>1, <2>1, <2>2, <2>3, ReplacedSameRuns
<1>. QED BY <1>2, <1>3

LEMMA CrashInv ==
  ASSUME ExecutorInv, Crash PROVE ExecutorInv'
<1>1. SameRuns(rows')
  BY RollBackSameRuns DEF Crash
<1>2. crashes' \in 0 .. MaxCrashes
  BY ExecutorAssumption DEF ExecutorInv, TypeOK, Crash
<1>. QED BY <1>1, <1>2, SettledInv DEF Crash

\* The resume endpoint copies a result other than COMPLETED onto its row.
LEMMA ReturnInv ==
  ASSUME ExecutorInv, Return PROVE ExecutorInv'
<1>1. TypeOK /\ RowInv /\ status \in Result
  BY DEF ExecutorInv, Return
<1>2. SameRuns(rows')
  <2>1. CASE caller = "resume" /\ status \notin {"COMPLETED", "RAISED"}
    <3> DEFINE row == [rows[target] EXCEPT !.status = status]
    <3>1. target \in DOMAIN rows /\ ~Own(rows[target])
      BY <1>1, <2>1 DEF RowInv, TypeOK, Own, Result, Stopped
    <3>2. rows[target] \in Row
      BY <1>1, <3>1 DEF TypeOK
    <3>3. row \in Row /\ row.run = rows[target].run /\ row.ctx = rows[target].ctx /\ ~Own(row)
      BY <1>1, <2>1, <3>2 DEF Row, Own
    <3>4. rows' = [rows EXCEPT ![target] = row]
      BY <2>1 DEF Return
    <3> HIDE DEF row
    <3>. QED BY <1>1, <3>1, <3>3, <3>4, StatusSameRuns
  <2>2. CASE ~(caller = "resume" /\ status \notin {"COMPLETED", "RAISED"})
    BY <2>2, RollBackSameRuns DEF Return
  <2>. QED BY <2>1, <2>2
<1>3. crashes' \in 0 .. MaxCrashes
  BY <1>1 DEF TypeOK, Return
<1>4. outbox' = outbox \/ outbox' = outbox \cup staged
  BY DEF Return
<1>. QED BY <1>2, <1>3, <1>4, SettledInv DEF Return

\* A step of a run that neither records a result nor begins one.
LEMMA WorkInv ==
  ASSUME ExecutorInv, status = "running",
         status' \in {"running", "RAISED", "FAILED"},
         NEW rs, SameRuns(rs), rows' = rs,
         before' = {} \/ (before' = before /\ rs = rows),
         ctx' \in Context, ctx'.row = ctx.row,
         UNCHANGED <<edges, caller, run, target, approvals, waived, crashes>>,
         resumeAt' \subseteq Node, todo' \subseteq Node, next' \subseteq Node,
         steps' \in Nat, passed' \in [Node -> Nat],
         NEW events, events \subseteq EventOf,
         \A r \in 1 .. MaxRuns : <<r, "COMPLETED">> \notin events,
         staged' \subseteq events, outbox \subseteq outbox', outbox' \subseteq outbox \cup events
  PROVE  ExecutorInv'
<1>1. TypeOK /\ RowInv /\ CompletionAnnounced /\ BeforeInv
  BY DEF ExecutorInv
<1>2. /\ Len(rows') = Len(rows) /\ Len(rows) \in Nat
      /\ DOMAIN rows' = DOMAIN rows /\ DOMAIN rows = 1 .. Len(rows)
      /\ \A i \in DOMAIN rows : /\ rows'[i].run = rows[i].run
                                /\ rows'[i].ctx.row \in 0 .. Len(rows)
                                /\ Own(rows'[i]) <=> Own(rows[i])
  BY <1>1 DEF SameRuns, TypeOK
<1>3. TypeOK'
  <2>1. rows' \in Seq(Row) /\ status' \in Result \cup {"idle", "running"} /\ before' \subseteq Row
    BY <1>1 DEF SameRuns, Result, TypeOK
  <2>. QED BY <1>1, <1>2, <2>1 DEF TypeOK
<1>4. RowInv'
  <2>1. target \in 0 .. Len(rows) /\ (caller = "resume" => target # 0 /\ ~Own(rows[target]))
    BY <1>1 DEF TypeOK, RowInv, Own
  <2>2. caller' = "resume" => ~Own(rows'[target'])
    BY <1>2, <2>1
  <2>3. \A i \in DOMAIN rows' : rows'[i].run \in 1 .. run' /\ rows'[i].run # run'
    BY <1>1, <1>2 DEF RowInv
  <2>4. \A i, j \in DOMAIN rows' : rows'[i].run = rows'[j].run => i = j
    BY <1>1, <1>2 DEF RowInv
  <2>5. \A r \in 1 .. MaxRuns : <<r, "COMPLETED">> \notin staged'
    OBVIOUS
  <2>6. caller' = "resume" => target' # 0 /\ ctx'.row = target'
    BY <1>1 DEF RowInv
  <2>7. caller' = "resume" =>
          ~(rows'[target'].status = "COMPLETED" /\ rows'[target'].own)
    BY <2>2 DEF Own
  <2>. QED BY <2>3, <2>4, <2>5, <2>6, <2>7 DEF RowInv
<1>5. BeforeInv'
  BY <1>1 DEF BeforeInv
<1>6. CompletionAnnounced'
  <2>1. \A r \in 1 .. MaxRuns : <<r, "COMPLETED">> \in outbox' <=> <<r, "COMPLETED">> \in outbox
    OBVIOUS
  <2>. QED BY <1>1, <1>2, <2>1, RunsOfRows, AnnouncedKept
<1>7. RunRecordedOnce' /\ ResumedRowCloses'
  BY <1>4 DEF RunRecordedOnce, ResumedRowCloses, RowInv, Stopped
<1>. QED BY <1>3, <1>4, <1>5, <1>6, <1>7 DEF ExecutorInv

\* What Enter establishes, whatever the node then does.
LEMMA EnterEffect ==
  ASSUME ExecutorInv, NEW n \in Node, Enter(n)
  PROVE  /\ status = "running" /\ TypeOK /\ RowInv
         /\ passed' \in [Node -> Nat]
         /\ Events(n) \subseteq EventOf /\ staged \subseteq Events(n)
         /\ \A r \in 1 .. MaxRuns : <<r, "COMPLETED">> \notin Events(n)
<1>1. TypeOK /\ RowInv /\ status = "running"
  BY DEF ExecutorInv, Enter
<1>2. passed' \in [Node -> Nat]
  BY <1>1, CountedEffect DEF TypeOK, Enter
<1>. QED BY <1>1, <1>2, EventsType DEF Events

\* What a node and its child run commit are events that were due, and the
\* change of a row is committed with them.
LEMMA FlushEffect ==
  ASSUME NEW committed \in BOOLEAN, NEW events, Flush(committed, events)
  PROVE  /\ staged' \subseteq events /\ outbox \subseteq outbox'
         /\ outbox' \subseteq outbox \cup events
         /\ committed => before' = {}
         /\ ~committed => before' = before
<1>1. CASE committed
  BY <1>1 DEF Flush
<1>2. CASE ~committed
  BY <1>2 DEF Flush
<1>. QED BY <1>1, <1>2

LEMMA NodeContinuesInv ==
  ASSUME ExecutorInv, NEW n \in Node, NodeContinues(n)
  PROVE  ExecutorInv'
<1>1. Enter(n)
  BY DEF NodeContinues
<1>2. PICK o \in Outcomes(n) :
        /\ rows' = o.rows
        /\ ctx' \in AfterRules(o.ctx, \E m \in Node : <<n, m>> \in edges \cap RuleEdge)
        /\ Flush(o.child # "none", Events(n))
  BY DEF NodeContinues
<1>3. /\ o.ctx \in Context /\ o.ctx.row = ctx.row /\ SameRuns(o.rows)
      /\ o.child = "none" => o.rows = rows
  BY <1>1, EnterEffect, OutcomeEffect
<1>4. ctx' \in Context /\ ctx'.row = ctx.row
  <2>1. (\E m \in Node : <<n, m>> \in edges \cap RuleEdge) \in BOOLEAN
    OBVIOUS
  <2>. QED BY <1>2, <1>3, <2>1, RulesEffect
<1>5. next' \subseteq Node /\ todo' \subseteq Node /\ resumeAt' \subseteq Node /\ steps' \in Nat
  BY <1>1, EnterEffect DEF NodeContinues, TypeOK
<1>6. /\ staged' \subseteq Events(n) /\ outbox \subseteq outbox'
      /\ outbox' \subseteq outbox \cup Events(n)
      /\ before' = {} \/ (before' = before /\ o.rows = rows)
  BY <1>2, <1>3, FlushEffect
<1>7. UNCHANGED <<edges, status, caller, run, target, approvals, waived, crashes>>
  BY DEF NodeContinues, decisions
<1>. QED BY <1>1, <1>2, <1>3, <1>4, <1>5, <1>6, <1>7, EnterEffect, WorkInv

LEMMA NodeFailsInv ==
  ASSUME ExecutorInv, NEW n \in Node, NodeFails(n)
  PROVE  ExecutorInv'
<1>1. Enter(n)
  BY DEF NodeFails
<1>2. PICK o \in Outcomes(n), committed \in BOOLEAN, events \in {staged, Events(n)} :
        /\ o.child # "none" => committed
        /\ rows' = o.rows /\ ctx' = o.ctx
        /\ Flush(committed, events)
  BY DEF NodeFails
<1>3. /\ o.ctx \in Context /\ o.ctx.row = ctx.row /\ SameRuns(o.rows)
      /\ o.child = "none" => o.rows = rows
  BY <1>1, EnterEffect, OutcomeEffect
<1>4. next' \subseteq Node /\ todo' \subseteq Node /\ resumeAt' \subseteq Node /\ steps' \in Nat
  BY <1>1, EnterEffect DEF NodeFails, TypeOK
<1>5. /\ staged' \subseteq Events(n) /\ outbox \subseteq outbox'
      /\ outbox' \subseteq outbox \cup Events(n)
      /\ before' = {} \/ (before' = before /\ o.rows = rows)
  <2>1. events \subseteq Events(n)
    BY DEF Events
  <2>. QED BY <1>2, <1>3, <2>1, FlushEffect
<1>6. UNCHANGED <<edges, status, caller, run, target, approvals, waived, crashes>>
  BY DEF NodeFails, decisions
<1>. QED BY <1>1, <1>2, <1>3, <1>4, <1>5, <1>6, EnterEffect, WorkInv

LEMMA NodeRaisesInv ==
  ASSUME ExecutorInv, NEW n \in Node, NodeRaises(n)
  PROVE  ExecutorInv'
<1>1. Enter(n)
  BY DEF NodeRaises
<1>2. PICK o \in Outcomes(n), events \in {staged, Events(n)} :
        rows' = o.rows /\ ctx' = o.ctx /\ Flush(o.child # "none", events)
  BY DEF NodeRaises
<1>3. /\ o.ctx \in Context /\ o.ctx.row = ctx.row /\ SameRuns(o.rows)
      /\ o.child = "none" => o.rows = rows
  BY <1>1, EnterEffect, OutcomeEffect
<1>4. next' \subseteq Node /\ todo' \subseteq Node /\ resumeAt' \subseteq Node /\ steps' \in Nat
  BY <1>1, EnterEffect DEF NodeRaises, TypeOK, traversal
<1>5. /\ staged' \subseteq Events(n) /\ outbox \subseteq outbox'
      /\ outbox' \subseteq outbox \cup Events(n)
      /\ before' = {} \/ (before' = before /\ o.rows = rows)
  <2>1. events \subseteq Events(n)
    BY DEF Events
  <2>. QED BY <1>2, <1>3, <2>1, FlushEffect
<1>6. status' = "RAISED" /\ UNCHANGED <<edges, caller, run, target, approvals, waived, crashes>>
  BY DEF NodeRaises, traversal, decisions
<1>. QED BY <1>1, <1>2, <1>3, <1>4, <1>5, <1>6, EnterEffect, WorkInv

LEMMA NextStepInv ==
  ASSUME ExecutorInv, NextStep PROVE ExecutorInv'
<1>1. TypeOK /\ RowInv /\ status = "running"
  BY DEF ExecutorInv, NextStep
<1>2. staged \subseteq EventOf /\ \A r \in 1 .. MaxRuns : <<r, "COMPLETED">> \notin staged
  BY <1>1 DEF TypeOK, RowInv
<1>3. /\ steps' \in Nat /\ todo' \subseteq Node /\ next' \subseteq Node /\ resumeAt' \subseteq Node
      /\ status' = "running" /\ rows' = rows /\ before' = before
      /\ ctx' \in Context /\ ctx'.row = ctx.row /\ passed' \in [Node -> Nat]
      /\ staged' = staged /\ outbox' = outbox
      /\ UNCHANGED <<edges, caller, run, target, approvals, waived, crashes>>
  BY <1>1 DEF NextStep, TypeOK, decisions
<1>. QED BY <1>1, <1>2, <1>3, RowsSameRuns, WorkInv

LEMMA StepLimitInv ==
  ASSUME ExecutorInv, StepLimit PROVE ExecutorInv'
<1>1. TypeOK /\ RowInv /\ status = "running"
  BY DEF ExecutorInv, StepLimit
<1>2. /\ staged \cup {<<run, "FAILED">>} \subseteq EventOf
      /\ \A r \in 1 .. MaxRuns : <<r, "COMPLETED">> \notin staged \cup {<<run, "FAILED">>}
  BY <1>1 DEF TypeOK, RowInv, EventOf
<1>3. /\ steps' \in Nat /\ todo' \subseteq Node /\ next' \subseteq Node /\ resumeAt' \subseteq Node
      /\ status' = "FAILED" /\ rows' = rows /\ before' = before
      /\ ctx' \in Context /\ ctx'.row = ctx.row /\ passed' \in [Node -> Nat]
      /\ staged' = staged \cup {<<run, "FAILED">>} /\ outbox' = outbox
      /\ UNCHANGED <<edges, caller, run, target, approvals, waived, crashes>>
  BY <1>1 DEF StepLimit, TypeOK, traversal, decisions
<1>. QED BY <1>1, <1>2, <1>3, RowsSameRuns, WorkInv

\* The four ways a run stops at a node.
LEMMA PauseInv ==
  ASSUME ExecutorInv, NEW n \in Node, PauseForDocuments(n) \/ PauseForApproval(n)
  PROVE  ExecutorInv'
<1>1. TypeOK /\ RowInv /\ status = "running" /\ passed' = passed
  BY DEF ExecutorInv, PauseForDocuments, PauseForApproval
<1>2. StopRun("PAUSED", n, ctx, rows, staged)
  BY DEF PauseForDocuments, PauseForApproval
<1>3. /\ staged \subseteq EventOf /\ ctx \in Context /\ passed' \in [Node -> Nat]
      /\ \A r \in 1 .. MaxRuns : <<r, "COMPLETED">> \notin staged
  BY <1>1 DEF TypeOK, RowInv
<1>4. "PAUSED" \in Stopped /\ SameRuns(rows)
  BY <1>1, RowsSameRuns DEF Stopped
<1>. QED BY <1>1, <1>2, <1>3, <1>4, StopRunInv

LEMMA HaltInv ==
  ASSUME ExecutorInv, NEW n \in Node, NodeHalts(n) \/ PauseForChild(n)
  PROVE  ExecutorInv'
<1>1. Enter(n)
  BY DEF NodeHalts, PauseForChild
<1>2. PICK o \in Outcomes(n), st \in Stopped :
        \E context \in {o.ctx, [o.ctx EXCEPT !.child = FALSE]} :
          StopRun(st, n, context, o.rows, Events(n))
  BY DEF NodeHalts, PauseForChild, Stopped
<1>3. o.ctx \in Context /\ o.ctx.row = ctx.row /\ SameRuns(o.rows)
  BY <1>1, EnterEffect, OutcomeEffect
<1>4. PICK context \in {o.ctx, [o.ctx EXCEPT !.child = FALSE]} :
        StopRun(st, n, context, o.rows, Events(n))
  BY <1>2
<1>5. context \in Context /\ context.row = ctx.row
  BY <1>3 DEF Context
<1>. QED BY <1>1, <1>3, <1>4, <1>5, EnterEffect, StopRunInv

\* The row and the event of a completed run appear together: the row is new, or
\* the one the context names.
LEMMA CompleteRunInv ==
  ASSUME ExecutorInv, CompleteRun PROVE ExecutorInv'
<1> DEFINE done == NewRow("COMPLETED", Last, ctx)
<1>1. TypeOK /\ RowInv /\ CompletionAnnounced /\ status = "running"
  BY DEF ExecutorInv, CompleteRun
<1>2. /\ run \in 1 .. MaxRuns /\ MaxRuns \in Nat /\ ctx \in Context
      /\ Len(rows) \in Nat /\ DOMAIN rows = 1 .. Len(rows) /\ rows \in Seq(Row)
  BY <1>1, ExecutorAssumption DEF TypeOK
<1>3. done \in Row /\ done.run = run /\ Own(done) /\ done.ctx = ctx /\ done.status = "COMPLETED"
  BY <1>2, ExecutorAssumption DEF NewRow, Row, Result, Own
<1>4. /\ status' = "COMPLETED" /\ staged' = {} /\ before' = {}
      /\ outbox' = outbox \cup staged \cup {<<run, "COMPLETED">>}
      /\ rows' = IF ctx.row # 0 THEN [rows EXCEPT ![ctx.row] = done] ELSE Append(rows, done)
      /\ UNCHANGED <<edges, caller, run, target, resumeAt, todo, next, steps, ctx,
                     approvals, waived, passed, crashes>>
  BY DEF CompleteRun, traversal, decisions
<1> HIDE DEF done
<1>5. /\ ctx.row \in 0 .. Len(rows) /\ target \in 0 .. Len(rows)
      /\ caller = "resume" => target # 0 /\ ctx.row = target
  BY <1>1 DEF RowInv, TypeOK
\* p is the place of the row.
<1>6. PICK p \in 1 .. Len(rows) + 1 :
        /\ rows' \in Seq(Row) /\ p \in DOMAIN rows' /\ Len(rows) <= Len(rows')
        /\ DOMAIN rows' = DOMAIN rows \cup {p} /\ rows'[p] = done
        /\ \A i \in DOMAIN rows : i # p => rows'[i] = rows[i]
        /\ caller = "resume" => p = target
  <2>1. CASE ctx.row # 0
    <3>1. /\ rows' \in Seq(Row) /\ Len(rows') = Len(rows) /\ DOMAIN rows' = DOMAIN rows
          /\ \A i \in DOMAIN rows : rows'[i] = IF i = ctx.row THEN done ELSE rows[i]
      BY <1>2, <1>3, <1>4, <1>5, <2>1
    <3>. QED BY <1>2, <1>5, <2>1, <3>1
  <2>2. CASE ctx.row = 0
    <3>1. /\ rows' \in Seq(Row) /\ Len(rows') = Len(rows) + 1
          /\ rows'[Len(rows) + 1] = done
          /\ \A i \in 1 .. Len(rows) : rows'[i] = rows[i]
      BY <1>2, <1>3, <1>4, <2>2, AppendRow
    <3>. QED BY <1>2, <1>5, <2>2, <3>1
  <2>. QED BY <2>1, <2>2
<1>7. \A i \in DOMAIN rows : rows[i].run \in 1 .. run /\ rows[i].run # run
  BY <1>1 DEF RowInv
<1>8. TypeOK'
  <2>1. /\ \A i \in 1 .. Len(rows') : rows'[i].ctx.row \in 0 .. Len(rows')
        /\ target' \in 0 .. Len(rows') /\ ctx'.row \in 0 .. Len(rows')
    <3>1. DOMAIN rows' = 1 .. Len(rows') /\ Len(rows') \in Nat
      BY <1>6
    <3>2. \A i \in DOMAIN rows' : rows'[i].ctx.row \in 0 .. Len(rows)
      BY <1>1, <1>2, <1>3, <1>5, <1>6 DEF TypeOK
    <3>. QED BY <1>2, <1>4, <1>5, <1>6, <3>1, <3>2
  <2>2. outbox' \subseteq EventOf
    BY <1>1, <1>2, <1>4 DEF TypeOK, EventOf
  <2>. QED BY <1>1, <1>2, <1>4, <1>6, <2>1, <2>2 DEF TypeOK, Result
<1>9. RowInv' /\ BeforeInv'
  <2>1. \A i \in DOMAIN rows' : rows'[i].run \in 1 .. run'
    BY <1>2, <1>3, <1>4, <1>6, <1>7
  <2>2. \A i, j \in DOMAIN rows' : rows'[i].run = rows'[j].run => i = j
    BY <1>1, <1>3, <1>6, <1>7 DEF RowInv
  <2>. QED BY <1>1, <1>4, <1>5, <2>1, <2>2 DEF RowInv, BeforeInv
<1>10. CompletionAnnounced'
  <2>1. ASSUME NEW i \in DOMAIN rows', Own(rows'[i])
        PROVE  <<rows'[i].run, "COMPLETED">> \in outbox'
    <3>1. CASE i = p
      BY <1>3, <1>4, <1>6, <3>1
    <3>2. CASE i # p
      BY <1>1, <1>4, <1>6, <2>1, <3>2 DEF CompletionAnnounced, Own
    <3>. QED BY <3>1, <3>2
  <2>2. ASSUME NEW r \in 1 .. MaxRuns, <<r, "COMPLETED">> \in outbox'
        PROVE  \E i \in DOMAIN rows' : Own(rows'[i]) /\ rows'[i].run >= r
    <3>1. CASE run >= r
      BY <1>3, <1>6, <3>1
    <3>2. CASE ~(run >= r)
      <4>1. <<r, "COMPLETED">> \in outbox
        BY <1>1, <1>2, <1>4, <2>2, <3>2 DEF RowInv
      <4>2. PICK i \in DOMAIN rows : rows[i].run >= r
        BY <1>1, <4>1 DEF CompletionAnnounced
      <4>. QED BY <1>2, <1>7, <3>2, <4>2
    <3>. QED BY <3>1, <3>2
  <2>. QED BY <2>1, <2>2 DEF CompletionAnnounced, Own
<1>11. RunRecordedOnce' /\ ResumedRowCloses'
  <2>1. RunRecordedOnce'
    BY <1>3, <1>4, <1>6, <1>9 DEF RunRecordedOnce, RowInv
  <2>2. ResumedRowCloses'
    BY <1>3, <1>4, <1>6 DEF ResumedRowCloses, Own
  <2>. QED BY <2>1, <2>2
<1>. QED BY <1>8, <1>9, <1>10, <1>11 DEF ExecutorInv

LEMMA NextInv == ExecutorInv /\ [Next]_vars => ExecutorInv'
<1> SUFFICES ASSUME ExecutorInv, [Next]_vars PROVE ExecutorInv'
  OBVIOUS
<1>1. CASE \E c \in Caller \ {"resume"} : StartRun(c)
  BY <1>1, StartRunInv
<1>2. CASE \E i \in DOMAIN rows : Request(i)
  BY <1>2, RequestInv
<1>3. ASSUME NEW n \in Node, Visit(n) PROVE ExecutorInv'
  BY <1>3, PauseInv, HaltInv, NodeContinuesInv, NodeFailsInv, NodeRaisesInv DEF Visit
<1>4. CASE UNCHANGED vars
  BY <1>4 DEF vars, ExecutorInv, TypeOK, RowInv, BeforeInv, CompletionAnnounced,
     RunRecordedOnce, ResumedRowCloses
<1>. QED
  BY <1>1, <1>2, <1>3, <1>4, NextStepInv, CompleteRunInv, StepLimitInv, ReturnInv, CrashInv
     DEF Next, Step

\* The inductive invariant holds in every reachable state.
THEOREM ExecutorInvariant == Spec => []ExecutorInv
BY InitInv, NextInv, PTL DEF Spec

\* Every reachable state has the declared types.
THEOREM TypeCorrect == Spec => []TypeOK
<1>1. ExecutorInv => TypeOK
  BY DEF ExecutorInv
<1>. QED BY <1>1, ExecutorInvariant, PTL

\* A completed row has its event in the outbox, and an event the completed row
\* of its run or of a later one, whatever the graph, the failures and the crashes.
THEOREM CompletionIsAnnounced == Spec => []CompletionAnnounced
<1>1. ExecutorInv => CompletionAnnounced
  BY DEF ExecutorInv
<1>. QED BY <1>1, ExecutorInvariant, PTL

\* A run leaves at most one row, with the status it returned.
THEOREM RunsAreRecordedOnce == Spec => []RunRecordedOnce
<1>1. ExecutorInv => RunRecordedOnce
  BY DEF ExecutorInv
<1>. QED BY <1>1, ExecutorInvariant, PTL

\* A resumed run that completes closes the row the operator acted on.
THEOREM ResumedRowsClose == Spec => []ResumedRowCloses
<1>1. ExecutorInv => ResumedRowCloses
  BY DEF ExecutorInv
<1>. QED BY <1>1, ExecutorInvariant, PTL

(***************************************************************************)
(* The approval gates                                                      *)
(***************************************************************************)
\* The requests that named gate m.
Asked(m) == approvals[m] + waived[m]

LEMMA CountsAreNumbers ==
  ASSUME TypeOK, NEW m \in Gate
  PROVE  passed[m] \in Nat /\ approvals[m] \in Nat /\ waived[m] \in Nat
BY ExecutorAssumption DEF TypeOK

\* A step that neither opens a gate nor passes one.
LEMMA GatesUntouched ==
  ASSUME GateInv, TypeOK, passed' = passed, approvals' = approvals, waived' = waived,
         \A m \in Gate : Opened(m)' => Opened(m)
  PROVE  GateInv'
BY CountsAreNumbers DEF GateInv

\* A node that is entered uses up the request its gate had.
LEMMA EnterUsesRequest ==
  ASSUME ExecutorInv, GateInv, NEW n \in Node, Enter(n),
         status' # "running" \/ (todo' = todo \ {n} /\ resumeAt' = resumeAt),
         approvals' = approvals, waived' = waived
  PROVE  GateInv'
<1> SUFFICES ASSUME NEW m \in Gate
             PROVE  IF Opened(m)' THEN passed'[m] < Asked(m)' ELSE passed'[m] <= Asked(m)'
  BY DEF GateInv, Asked
<1>1. /\ passed[m] \in Nat /\ Asked(m) \in Nat /\ Asked(m)' = Asked(m)
      /\ passed'[m] = passed[m] + (IF m = n THEN 1 ELSE 0)
  <2>1. TypeOK /\ passed \in [Node -> Nat] /\ passed' = Counted(passed, n)
    BY DEF ExecutorInv, TypeOK, Enter
  <2>2. passed[m] \in Nat /\ approvals[m] \in Nat /\ waived[m] \in Nat
    BY <2>1, CountsAreNumbers
  <2>3. passed'[m] = passed[m] + (IF m = n THEN 1 ELSE 0)
    BY <2>1, CountedEffect
  <2>. QED BY <2>2, <2>3 DEF Asked
<1>2. IF Opened(m) THEN passed[m] < Asked(m) ELSE passed[m] <= Asked(m)
  BY DEF GateInv, Asked
<1>3. CASE m = n
  <2>1. Opened(m) /\ ~Opened(m)'
    BY <1>3 DEF Enter, GateOpen, Opened
  <2>. QED BY <1>1, <1>2, <1>3, <2>1
<1>4. CASE m # n
  <2>1. Opened(m)' => Opened(m)
    BY DEF Enter, Opened
  <2>. QED BY <1>1, <1>2, <1>4, <2>1
<1>. QED BY <1>3, <1>4

\* A request that goes on at n is counted there, and opens no other gate.
LEMMA RequestCounted ==
  ASSUME TypeOK, GateInv, NEW c, NEW row, NEW context, NEW n \in Node \cup {ChildNode},
         BeginAt(c, row, context, n),
         \/ approvals' = Counted(approvals, n) /\ waived' = waived
         \/ approvals' = approvals /\ waived' = Counted(waived, n)
  PROVE  GateInv'
<1> SUFFICES ASSUME NEW m \in Gate
             PROVE  IF Opened(m)' THEN passed'[m] < Asked(m)' ELSE passed'[m] <= Asked(m)'
  BY DEF GateInv, Asked
<1>1. /\ passed' = passed
      /\ Opened(m)' => m = n
  <2>1. CASE n \in Node /\ Begin(c, row, context, {n}, {n})
    BY <2>1 DEF Begin, Opened
  <2>2. CASE NotFound(c, row, context)
    BY <2>2 DEF NotFound, Opened
  <2>. QED BY <2>1, <2>2 DEF BeginAt
<1>2. passed[m] \in Nat /\ approvals[m] \in Nat /\ waived[m] \in Nat
  BY CountsAreNumbers
<1>3. Asked(m)' = Asked(m) + (IF m = n THEN 1 ELSE 0)
  <2>1. approvals \in [Node -> Nat] /\ waived \in [Node -> Nat]
    BY DEF TypeOK
  <2>2. /\ Counted(approvals, n)[m] = approvals[m] + (IF m = n THEN 1 ELSE 0)
        /\ Counted(waived, n)[m] = waived[m] + (IF m = n THEN 1 ELSE 0)
    BY <2>1, CountedEffect
  <2>3. CASE approvals' = Counted(approvals, n) /\ waived' = waived
    BY <1>2, <2>2, <2>3 DEF Asked
  <2>4. CASE approvals' = approvals /\ waived' = Counted(waived, n)
    BY <1>2, <2>2, <2>4 DEF Asked
  <2>. QED BY <2>3, <2>4
<1>4. passed[m] <= Asked(m)
  BY <1>2 DEF GateInv, Asked
<1>. QED BY <1>1, <1>2, <1>3, <1>4 DEF Asked

\* Every step keeps GateInv.
LEMMA NextGateInv ==
  ASSUME ExecutorInv, GateInv, [Next]_vars
  PROVE  GateInv'
<1>1. TypeOK
  BY DEF ExecutorInv
<1>2. ASSUME NEW c, StartRun(c) PROVE GateInv'
  <2>1. /\ passed' = passed /\ approvals' = approvals /\ waived' = waived
        /\ \A m \in Gate : ~Opened(m)'
    BY <1>2 DEF StartRun, Begin, Opened, decisions
  <2>. QED BY <1>1, <2>1, GatesUntouched
<1>3. ASSUME NEW i \in DOMAIN rows, Request(i) PROVE GateInv'
  <2>1. rows[i].node \in Node \cup {ChildNode}
    <3>1. rows[i] \in Row
      BY <1>1 DEF TypeOK
    <3>. QED BY <3>1 DEF Row
  <2>2. ASSUME NEW n \in Node \cup {ChildNode}, NEW approving, Resume(i, n, approving)
        PROVE  GateInv'
    BY <1>1, <2>2, RequestCounted DEF Resume
  <2>3. CASE ResumeRun(i) \/ RetryRun(i)
    BY <2>1, <2>2, <2>3 DEF ResumeRun, RetryRun
  <2>4. CASE SkipStep(i)
    <3>1. PICK n \in NextAfter(rows[i].node) : Resume(i, n, FALSE)
      BY <2>4 DEF SkipStep
    <3>2. n \in Node
      BY ExecutorAssumption DEF NextAfter
    <3>. QED BY <2>2, <3>1, <3>2
  <2>5. CASE SkipLast(i) \/ Decide(i)
    <3>1. UNCHANGED <<passed, approvals, waived, status, todo, resumeAt>>
      BY <2>5 DEF SkipLast, Decide, decisions, traversal
    <3>. QED BY <1>1, <3>1, GatesUntouched DEF Opened
  <2>6. CASE Upload(i)
    BY <1>1, <2>1, <2>6, RequestCounted DEF Upload
  <2>. QED BY <1>3, <2>3, <2>4, <2>5, <2>6 DEF Request
<1>4. ASSUME NEW n \in Node, Visit(n) PROVE GateInv'
  <2>1. CASE PauseForDocuments(n) \/ PauseForApproval(n)
    <3>1. UNCHANGED <<passed, approvals, waived>> /\ status' = "PAUSED"
      BY <2>1 DEF PauseForDocuments, PauseForApproval, StopRun, decisions
    <3>. QED BY <1>1, <3>1, GatesUntouched DEF Opened
  <2>2. CASE NodeHalts(n) \/ PauseForChild(n)
    <3>1. /\ Enter(n) /\ approvals' = approvals /\ waived' = waived
          /\ status' # "running"
      BY <2>2 DEF NodeHalts, PauseForChild, StopRun, decisions
    <3>. QED BY <3>1, EnterUsesRequest
  <2>3. CASE NodeContinues(n) \/ NodeFails(n) \/ NodeRaises(n)
    <3>1. /\ Enter(n) /\ approvals' = approvals /\ waived' = waived
          /\ status' # "running" \/ (todo' = todo \ {n} /\ resumeAt' = resumeAt)
      BY <2>3 DEF NodeContinues, NodeFails, NodeRaises, decisions
    <3>. QED BY <3>1, EnterUsesRequest
  <2>. QED BY <1>4, <2>1, <2>2, <2>3 DEF Visit
<1>5. CASE NextStep
  BY <1>1, <1>5, GatesUntouched DEF NextStep, Opened, decisions
<1>6. CASE CompleteRun \/ StepLimit \/ Return \/ Crash
  <2>1. UNCHANGED <<passed, approvals, waived>> /\ status' # "running"
    BY <1>6 DEF CompleteRun, StepLimit, Return, Crash, decisions
  <2>. QED BY <1>1, <2>1, GatesUntouched DEF Opened
<1>7. CASE UNCHANGED vars
  BY <1>1, <1>7, GatesUntouched DEF vars, Opened
<1>. QED BY <1>2, <1>3, <1>4, <1>5, <1>6, <1>7 DEF Next, Step

\* The executor opens no approval gate by itself: each execution of a gate uses
\* up one request that named it, in every workflow.
THEOREM GatesOpenOnRequest == Spec => []GateOpensOnRequest
<1>1. Init => GateInv
  BY ExecutorAssumption DEF Init, GateInv, Opened
<1>2. ExecutorInv /\ GateInv /\ [Next]_vars => GateInv'
  BY NextGateInv
<1>3. ExecutorInv /\ GateInv => GateOpensOnRequest
  BY CountsAreNumbers DEF GateInv, GateOpensOnRequest, ExecutorInv
<1>. QED BY <1>1, <1>2, <1>3, ExecutorInvariant, PTL DEF Spec

(***************************************************************************)
(* The step limit                                                          *)
(***************************************************************************)
\* Ranks that go up along every edge.
Ranks == {rank \in [Node -> 1 .. Cardinality(Node)] : \A e \in edges : rank[e[1]] < rank[e[2]]}

\* A node is due no earlier than its rank allows, so that the count of steps stays with
\* the ranks, which end at the number of nodes.
RankInv ==
  /\ edges \in Graphs
  /\ status = "running" =>
       /\ todo \subseteq Node /\ next \subseteq Node
       /\ steps \in 1 .. Cardinality(Node) \/ (steps \in Nat /\ Ranks = {})
       /\ \A rank \in Ranks : /\ \A n \in todo : steps <= rank[n]
                              /\ \A n \in next : steps + 1 <= rank[n]
  /\ status = "FAILED" => steps = 0 \/ Ranks = {}

\* There are as many ranks as nodes.
LEMMA NodesCounted == Cardinality(Node) \in Nat /\ Cardinality(Node) >= 1
<1>1. Cardinality(Node) \in Nat /\ Cardinality(Node) # 0
  BY ExecutorAssumption, FS_CardinalityType, FS_EmptySet
<1>. QED BY <1>1

\* A run begins with nodes of its first step, and none for the next.
LEMMA BeginsRanked ==
  ASSUME RankInv, NEW c, NEW row, NEW context, NEW n \in Node, NEW resumed, Begin(c, row, context, {n}, resumed)
  PROVE  RankInv'
<1>1. status' = "running" /\ todo' = {n} /\ next' = {} /\ steps' = 1 /\ edges' = edges
  BY DEF Begin
<1>2. Ranks' = Ranks /\ \A rank \in Ranks : rank[n] \in 1 .. Cardinality(Node)
  BY <1>1 DEF Ranks
<1>3. 1 \in 1 .. Cardinality(Node) /\ \A rank \in Ranks : 1 <= rank[n]
  BY <1>2, NodesCounted
<1>. QED BY <1>1, <1>2, <1>3 DEF RankInv

\* A run that is refused takes no step.
LEMMA RefusalsRanked ==
  ASSUME RankInv, NEW c, NEW row, NEW context, NotFound(c, row, context)
  PROVE  RankInv'
BY DEF NotFound, RankInv

\* The edges of a node lead to higher ranks.
LEMMA ContinuesRanked ==
  ASSUME RankInv, NEW n \in Node, NodeContinues(n)
  PROVE  RankInv'
<1>1. status = "running" /\ n \in todo /\ UNCHANGED <<status, edges, steps>> /\ todo' = todo \ {n}
  BY DEF NodeContinues, Enter
<1>2. PICK T \in SUBSET {m \in Node : <<n, m>> \in edges} : next' = next \cup T
  BY DEF NodeContinues
<1>3. Ranks' = Ranks
  BY <1>1 DEF Ranks
<1>4. ASSUME NEW rank \in Ranks, NEW m \in T PROVE steps + 1 <= rank[m]
  <2>1. m \in Node /\ <<n, m>> \in edges
    BY <1>4
  <2>2. rank[n] < rank[m] /\ rank[n] \in Nat /\ rank[m] \in Nat
    BY <2>1 DEF Ranks
  <2>3. steps <= rank[n] /\ steps \in Nat
    BY <1>1 DEF RankInv
  <2>. QED BY <2>2, <2>3
<1>5. todo' \subseteq Node /\ next' \subseteq Node
  BY <1>1, <1>2 DEF RankInv
<1>. QED BY <1>1, <1>2, <1>3, <1>4, <1>5 DEF RankInv

\* A further step has nodes to visit, so that there are ranks left.
LEMMA NextStepRanked ==
  ASSUME RankInv, NextStep
  PROVE  RankInv'
<1>1. /\ status = "running" /\ next # {} /\ UNCHANGED <<status, edges>>
      /\ todo' = next /\ next' = {} /\ steps' = steps + 1
  BY DEF NextStep
<1>2. Ranks' = Ranks /\ next \subseteq Node /\ steps \in Nat
  BY <1>1 DEF Ranks, RankInv
<1>3. \A rank \in Ranks : \A n \in next : steps + 1 <= rank[n]
  BY <1>1 DEF RankInv
<1>4. ASSUME Ranks # {} PROVE steps + 1 \in 1 .. Cardinality(Node)
  <2>. PICK n \in next, rank \in Ranks : n \in Node
    BY <1>1, <1>2, <1>4
  <2>1. steps + 1 <= rank[n] /\ rank[n] \in 1 .. Cardinality(Node)
    BY <1>3 DEF Ranks
  <2>. QED BY <1>2, <2>1, NodesCounted
<1>. QED BY <1>1, <1>2, <1>3, <1>4 DEF RankInv

\* Every step keeps the count with the ranks.
LEMMA RankInvNext == RankInv /\ [Next]_vars => RankInv'
<1>. SUFFICES ASSUME RankInv, [Next]_vars PROVE RankInv'
  OBVIOUS
<1>1. ASSUME NEW c, StartRun(c) PROVE RankInv'
  BY <1>1, BeginsRanked, ExecutorAssumption DEF StartRun
<1>2. ASSUME NEW i, Request(i) PROVE RankInv'
  <2>1. ASSUME NEW c, NEW row, NEW context, NEW n, BeginAt(c, row, context, n) PROVE RankInv'
    BY <2>1, BeginsRanked, RefusalsRanked DEF BeginAt
  <2>2. ASSUME NEW n, NEW approving, Resume(i, n, approving) PROVE RankInv'
    BY <2>1, <2>2 DEF Resume
  <2>3. CASE SkipLast(i) \/ Decide(i)
    <3>1. UNCHANGED <<edges, status, todo, next, steps>>
      BY <2>3 DEF SkipLast, Decide, traversal
    <3>2. Ranks' = Ranks
      BY <3>1 DEF Ranks
    <3>. QED BY <3>1, <3>2 DEF RankInv
  <2>4. CASE Upload(i)
    BY <2>1, <2>4 DEF Upload
  <2>. QED BY <1>2, <2>2, <2>3, <2>4 DEF Request, ResumeRun, RetryRun, SkipStep
<1>4. ASSUME UNCHANGED <<edges, todo, next, steps>>, status' # "running", status' = "FAILED" => status = "FAILED" \/ StepLimit
      PROVE  RankInv'
  <2>1. Ranks' = Ranks
    BY <1>4 DEF Ranks
  <2>2. StepLimit => Ranks = {}
    BY NodesCounted DEF StepLimit, RankInv, MaxSteps
  <2>. QED BY <1>4, <2>1, <2>2 DEF RankInv
<1>5. ASSUME NEW n \in Node, PauseForDocuments(n) \/ PauseForApproval(n) \/ NodeHalts(n) \/ PauseForChild(n) \/ NodeRaises(n)
      PROVE  RankInv'
  BY <1>4, <1>5 DEF PauseForDocuments, PauseForApproval, NodeHalts, PauseForChild, NodeRaises, StopRun, traversal
<1>6. ASSUME NEW n \in Node, NodeFails(n) PROVE RankInv'
  <2>1. UNCHANGED <<edges, status, next, steps>> /\ todo' = todo \ {n}
    BY <1>6 DEF NodeFails
  <2>2. Ranks' = Ranks
    BY <2>1 DEF Ranks
  <2>. QED BY <2>1, <2>2 DEF RankInv
<1>7. CASE CompleteRun \/ StepLimit \/ Return \/ Crash
  BY <1>4, <1>7 DEF CompleteRun, StepLimit, Return, Crash, traversal
<1>8. CASE UNCHANGED vars
  <2>1. UNCHANGED <<edges, status, todo, next, steps>>
    BY <1>8 DEF vars
  <2>2. Ranks' = Ranks
    BY <2>1 DEF Ranks
  <2>. QED BY <2>1, <2>2 DEF RankInv
<1>. QED BY <1>1, <1>2, <1>5, <1>6, <1>7, <1>8, ContinuesRanked, NextStepRanked DEF Next, Step, Visit

\* Only a workflow with a cycle reaches the step limit, however its branches fork and meet.
THEOREM AcyclicRunsEndWell == Spec => []AcyclicRunsFinish
<1>1. Init => RankInv
  BY DEF Init, RankInv
<1>2. RankInv => AcyclicRunsFinish
  BY DEF RankInv, Ranks, AcyclicRunsFinish, Acyclic
<1>. QED BY <1>1, <1>2, RankInvNext, PTL DEF Spec
=============================================================================
