--------------------- MODULE TransactionLifecycleProofs ---------------------
(***************************************************************************)
(* Proofs about TransactionLifecycle for any workflow and any number of    *)
(* threads, rows, requests and crashes.                                    *)
(***************************************************************************)
EXTENDS TransactionLifecycle, FiniteSetTheorems, TLAPS

Field == {"status", "node", "key", "trace"}

\* A commit leaves a row a row: each column is a written or a stored one.
LEMMA SavedType ==
  ASSUME NEW now \in Row, NEW seen \in Row, NEW dirty \in Row
  PROVE  Saved(now, seen, dirty) \in Row
<1> DEFINE s == Saved(now, seen, dirty)
<1>1. DOMAIN now = Field
  BY DEF Row, Field
<1>2. s = [f \in Field |-> IF dirty[f] # seen[f] THEN dirty[f] ELSE now[f]]
  BY <1>1 DEF Saved
<1>3. s = [status |-> s.status, node |-> s.node, key |-> s.key, trace |-> s.trace]
  BY <1>2 DEF Field
<1>4. /\ s.status \in {dirty.status, now.status} /\ s.node \in {dirty.node, now.node}
      /\ s.key \in {dirty.key, now.key} /\ s.trace \in {dirty.trace, now.trace}
  BY <1>2 DEF Field
<1> HIDE DEF s
<1>5. s \in Row
  BY <1>3, <1>4 DEF Row
<1>. QED BY <1>5 DEF s

\* Where nobody else wrote, a commit stores the session's object.
LEMMA SavedAlone ==
  ASSUME NEW now \in Row, NEW dirty \in Row
  PROVE  Saved(now, now, dirty) = dirty
<1>1. DOMAIN now = Field /\ DOMAIN dirty = Field
  BY DEF Row, Field
<1>2. Saved(now, now, dirty) = [f \in Field |-> dirty[f]]
  BY <1>1 DEF Saved
<1>3. dirty = [f \in Field |-> dirty[f]]
  BY <1>1 DEF Row, Field
<1>. QED BY <1>2, <1>3

\* What a request alone on its row may make of it.
Allowed(old, new) ==
  /\ new.key # 0 <=> new.status = "REVERSED"
  /\ old.trace \subseteq new.trace
  /\ old.status \in Terminal =>
       new.status = old.status \/ (old.status = "COMPLETED" /\ new.status = "REVERSED")
  /\ old.key # 0 => new.key = old.key

\* What the two action properties say of one step.
StepOK ==
  \A i \in DOMAIN rows : i \notin shared' =>
    /\ rows[i].status \in Terminal =>
         \/ rows'[i].status = rows[i].status
         \/ (rows[i].status = "COMPLETED" /\ rows'[i].status = "REVERSED")
    /\ rows[i].key # 0 => rows'[i].key = rows[i].key

LEMMA RequestType ==
  ASSUME TypeOK, NEW o \in Operator, req[o].pc # "idle"
  PROVE  /\ req[o] \in Request /\ req[o].row \in DOMAIN rows /\ rows[req[o].row] \in Row
         /\ req[o].seen \in Row /\ req[o].dirty \in Row /\ req[o].act \in Action
         /\ req[o].node \in Node /\ req[o].id \in 1 .. sent /\ req[o].id \in Nat \ {0}
         /\ req[o].row \in Nat
         /\ DOMAIN rows = 1 .. Len(rows) /\ Len(rows) \in Nat /\ sent \in Nat
<1>1. req[o] \in Request /\ rows \in Seq(Row) /\ sent \in Nat
  BY DEF TypeOK
<1>2. req[o].row \in DOMAIN rows /\ req[o].id \in 1 .. sent
  BY DEF TypeOK
<1>3. rows[req[o].row] \in Row /\ DOMAIN rows = 1 .. Len(rows) /\ Len(rows) \in Nat
  BY <1>1, <1>2
<1>4. /\ req[o].seen \in Row /\ req[o].dirty \in Row /\ req[o].act \in Action
      /\ req[o].node \in Node /\ req[o].row \in Nat
  BY <1>1 DEF Request
<1>. QED BY <1>1, <1>2, <1>3, <1>4

LEMMA NoRequestType == NoRequest \in Request /\ NoRequest.pc = "idle"
BY LifecycleAssumption DEF NoRequest, Request, NewRow, Row, Status, Terminal, Stopped, Action, Node

\* What RequestInv asks of request r, given its row.
Fits(r, row) ==
  /\ Fresh(r) =>
       /\ r.seen = row
       /\ r.dirty.status = r.seen.status /\ r.dirty.key = r.seen.key
       /\ r.seen.trace \subseteq r.dirty.trace
  /\ r.pc # "loaded" => row.status \notin Terminal
  /\ r.pc # "loaded" /\ Fresh(r) /\ Lined(r) => r.id \in r.dirty.trace
  /\ ~Fresh(r) /\ Lined(r) => r.id \in row.trace

LEMMA RequestInvFits ==
  RequestInv <=>
    \A o \in Operator : req[o].pc # "idle" /\ req[o].row \notin shared =>
      /\ \A p \in Operator : p # o /\ req[p].pc # "idle" => req[p].row # req[o].row
      /\ Fits(req[o], rows[req[o].row])
BY DEF RequestInv, Fits

\* A request ends and writes its row: the invariant is kept if what it writes
\* is allowed and holds the line of what it acknowledges.
LEMMA EndKeepsInv ==
  ASSUME LifecycleInv, NEW o \in Operator, req[o].pc # "idle",
         NEW x \in Row, rows' = [rows EXCEPT ![req[o].row] = x],
         req[o].row \notin shared => Allowed(rows[req[o].row], x),
         Done(o),
         \/ acked' = acked
         \/ /\ Acknowledge(req[o])
            /\ req[o].row \notin shared => req[o].id \in x.trace,
         UNCHANGED <<sent, shared>>, crashes' \in 0 .. MaxCrashes
  PROVE  LifecycleInv' /\ StepOK
<1> DEFINE r == req[o]
<1>1. TypeOK /\ RequestInv /\ KeyMeansReversed /\ AuditIsKept
  BY DEF LifecycleInv
<1>2. /\ r.row \in DOMAIN rows /\ r.id \in 1 .. sent /\ rows \in Seq(Row)
      /\ DOMAIN rows' = DOMAIN rows /\ rows' \in Seq(Row)
      /\ \A i \in DOMAIN rows : rows'[i] = IF i = r.row THEN x ELSE rows[i]
  BY <1>1, RequestType DEF TypeOK
<1>3. /\ req' \in [Operator -> Request] /\ req'[o].pc = "idle"
      /\ \A p \in Operator : p # o => req'[p] = req[p]
  BY <1>1, NoRequestType DEF Done, TypeOK
<1>4. TypeOK'
  <2>1. acked' \subseteq (DOMAIN rows) \X (1 .. sent)
    BY <1>1, <1>2 DEF TypeOK, Acknowledge
  <2>. QED BY <1>1, <1>2, <1>3, <2>1 DEF TypeOK
<1>5. KeyMeansReversed'
  BY <1>1, <1>2 DEF KeyMeansReversed, Allowed
<1>6. AuditIsKept'
  BY <1>1, <1>2 DEF AuditIsKept, Allowed, Acknowledge, TypeOK
<1>7. RequestInv'
  <2> SUFFICES ASSUME NEW q \in Operator, req'[q].pc # "idle", req'[q].row \notin shared'
               PROVE  /\ \A p \in Operator : p # q /\ req'[p].pc # "idle" => req'[p].row # req'[q].row
                      /\ Fits(req'[q], rows'[req'[q].row])
    BY DEF RequestInv, Fits, Fresh, Lined
  <2>1. q # o /\ req'[q] = req[q] /\ req[q].row \notin shared
    BY <1>3
  <2>2. req[q].row \in DOMAIN rows
    BY <1>1, <2>1 DEF TypeOK
  <2>3. r.row # req[q].row
    BY <1>1, <2>1 DEF RequestInv
  <2>4. rows'[req[q].row] = rows[req[q].row]
    BY <1>2, <2>2, <2>3
  <2>5. \A p \in Operator : p # q /\ req'[p].pc # "idle" => req[p].pc # "idle" /\ req'[p].row = req[p].row
    BY <1>3
  <2>. QED BY <1>1, <2>1, <2>4, <2>5, RequestInvFits
<1>8. StepOK
  BY <1>1, <1>2 DEF StepOK, Allowed
<1>. QED BY <1>4, <1>5, <1>6, <1>7, <1>8 DEF LifecycleInv

\* A request that ends without a write changes nothing for the others.
LEMMA DropKeepsInv ==
  ASSUME LifecycleInv, NEW o \in Operator, req[o].pc # "idle", Done(o),
         UNCHANGED <<rows, sent, acked, shared>>, crashes' \in 0 .. MaxCrashes
  PROVE  LifecycleInv' /\ StepOK
<1>1. TypeOK /\ RequestInv /\ KeyMeansReversed /\ AuditIsKept
  BY DEF LifecycleInv
<1>2. /\ req' \in [Operator -> Request] /\ req'[o].pc = "idle"
      /\ \A p \in Operator : p # o => req'[p] = req[p]
  BY <1>1, NoRequestType DEF Done, TypeOK
<1>3. TypeOK'
  BY <1>1, <1>2 DEF TypeOK
<1>4. RequestInv'
  BY <1>1, <1>2 DEF RequestInv, Fresh, Lined
<1>5. KeyMeansReversed' /\ AuditIsKept' /\ StepOK
  BY <1>1 DEF KeyMeansReversed, AuditIsKept, StepOK
<1>. QED BY <1>3, <1>4, <1>5 DEF LifecycleInv

LEMMA AppendFacts ==
  ASSUME NEW S, NEW s \in Seq(S), NEW e \in S
  PROVE  /\ Append(s, e) \in Seq(S) /\ Len(Append(s, e)) = Len(s) + 1
         /\ \A i \in 1 .. Len(s) : Append(s, e)[i] = s[i]
         /\ Append(s, e)[Len(s) + 1] = e
OBVIOUS

\* The rows with x in the place of row i, and perhaps a new row after them.
Rewritten(i, x) ==
  \/ rows' = [rows EXCEPT ![i] = x]
  \/ \E new \in Row : /\ rows' = Append([rows EXCEPT ![i] = x], new)
                      /\ new.key = 0 /\ new.status # "REVERSED"

\* A request goes on with its row as it is, or with x in its place and one
\* more row after the others.
LEMMA GoOnKeepsInv ==
  ASSUME LifecycleInv, NEW o \in Operator, req[o].pc # "idle",
         NEW q \in Request, req' = [req EXCEPT ![o] = q],
         q.pc # "idle", q.row = req[o].row, q.id = req[o].id,
         NEW x \in Row,
         Rewritten(req[o].row, x),
         req[o].row \notin shared =>
           Allowed(rows[req[o].row], x) /\ Fits(q, x),
         UNCHANGED <<sent, acked, shared, crashes>>
  PROVE  LifecycleInv' /\ StepOK
<1> DEFINE r == req[o]
<1>1. TypeOK /\ RequestInv /\ KeyMeansReversed /\ AuditIsKept
  BY DEF LifecycleInv
<1>2. /\ r.row \in DOMAIN rows /\ rows \in Seq(Row) /\ DOMAIN rows = 1 .. Len(rows)
      /\ Len(rows) \in Nat
  BY <1>1, RequestType DEF TypeOK
<1> DEFINE mid == [rows EXCEPT ![r.row] = x]
<1>3. /\ mid \in Seq(Row) /\ Len(mid) = Len(rows) /\ DOMAIN mid = DOMAIN rows
      /\ \A i \in DOMAIN rows : mid[i] = IF i = r.row THEN x ELSE rows[i]
  BY <1>2
<1>4. rows' = mid \/ \E new \in Row : rows' = Append(mid, new) /\ new.key = 0 /\ new.status # "REVERSED"
  BY DEF Rewritten
<1> HIDE DEF mid
<1>5. /\ rows' \in Seq(Row) /\ DOMAIN rows \subseteq DOMAIN rows'
      /\ \A i \in DOMAIN rows : rows'[i] = IF i = r.row THEN x ELSE rows[i]
      /\ \A i \in DOMAIN rows' \ DOMAIN rows : rows'[i].key = 0 /\ rows'[i].status # "REVERSED"
  <2>1. CASE rows' = mid
    BY <1>2, <1>3, <2>1
  <2>2. CASE \E new \in Row : rows' = Append(mid, new) /\ new.key = 0 /\ new.status # "REVERSED"
    <3>1. PICK new \in Row : rows' = Append(mid, new) /\ new.key = 0 /\ new.status # "REVERSED"
      BY <2>2
    <3>2. /\ rows' \in Seq(Row) /\ DOMAIN rows' = 1 .. Len(rows) + 1
          /\ \A i \in 1 .. Len(rows) : rows'[i] = mid[i]
          /\ rows'[Len(rows) + 1] = new
      <4>1. /\ rows' \in Seq(Row) /\ Len(rows') = Len(mid) + 1
            /\ \A i \in 1 .. Len(mid) : rows'[i] = mid[i]
            /\ rows'[Len(mid) + 1] = new
        BY <1>3, <3>1, AppendFacts
      <4>. QED BY <1>2, <1>3, <4>1
    <3>3. \A i \in DOMAIN rows' \ DOMAIN rows : rows'[i] = new
      BY <1>2, <3>2
    <3>4. \A i \in DOMAIN rows : rows'[i] = IF i = r.row THEN x ELSE rows[i]
      BY <1>2, <1>3, <3>2
    <3>5. DOMAIN rows \subseteq DOMAIN rows'
      BY <1>2, <3>2
    <3>. QED BY <3>1, <3>2, <3>3, <3>4, <3>5
  <2>. QED BY <1>4, <2>1, <2>2
<1>6. /\ req' \in [Operator -> Request] /\ req'[o] = q
      /\ \A p \in Operator : p # o => req'[p] = req[p]
  BY <1>1 DEF TypeOK
<1>7. TypeOK'
  <2>1. acked' \subseteq (DOMAIN rows') \X (1 .. sent') /\ shared' \subseteq DOMAIN rows'
    BY <1>1, <1>5 DEF TypeOK
  <2>2. \A p \in Operator : req'[p].pc # "idle" =>
          req'[p].row \in DOMAIN rows' /\ req'[p].id \in 1 .. sent'
    BY <1>1, <1>5, <1>6 DEF TypeOK
  <2>. QED BY <1>1, <1>5, <1>6, <2>1, <2>2 DEF TypeOK
<1>8. KeyMeansReversed'
  BY <1>1, <1>5 DEF KeyMeansReversed, Allowed
<1>9. AuditIsKept'
  BY <1>1, <1>5 DEF AuditIsKept, Allowed, TypeOK
<1>10. RequestInv'
  <2>1. \A p \in Operator : /\ req'[p].pc # "idle" <=> req[p].pc # "idle"
                            /\ req'[p].row = req[p].row
    BY <1>6
  <2> SUFFICES ASSUME NEW p \in Operator, req'[p].pc # "idle", req'[p].row \notin shared'
               PROVE  /\ \A k \in Operator : k # p /\ req'[k].pc # "idle" => req'[k].row # req'[p].row
                      /\ Fits(req'[p], rows'[req'[p].row])
    BY DEF RequestInv, Fits, Fresh, Lined
  <2>2. \A k \in Operator : k # p /\ req'[k].pc # "idle" => req'[k].row # req'[p].row
    BY <1>1, <2>1 DEF RequestInv
  <2>3. req[p].row \in DOMAIN rows /\ req[p].row \notin shared
    BY <1>1, <2>1 DEF TypeOK
  <2>4. CASE p = o
    BY <1>2, <1>5, <1>6, <2>2, <2>3, <2>4
  <2>5. CASE p # o
    <3>1. rows'[req[p].row] = rows[req[p].row]
      BY <1>1, <1>5, <2>1, <2>3, <2>5 DEF RequestInv
    <3>2. Fits(req[p], rows[req[p].row])
      BY <1>1, <2>1, <2>3, RequestInvFits
    <3>. QED BY <1>6, <2>2, <2>5, <3>1, <3>2
  <2>. QED BY <2>4, <2>5
<1>11. StepOK
  BY <1>1, <1>5 DEF StepOK, Allowed
<1>. QED BY <1>7, <1>8, <1>9, <1>10, <1>11 DEF LifecycleInv

\* What a request that loaded its row, alone, knows of it.
LEMMA Alone1 ==
  ASSUME LifecycleInv, NEW o \in Operator, req[o].pc # "idle", req[o].row \notin shared
  PROVE  /\ Fits(req[o], rows[req[o].row])
         /\ rows[req[o].row].key # 0 <=> rows[req[o].row].status = "REVERSED"
<1>1. TypeOK /\ RequestInv /\ KeyMeansReversed
  BY DEF LifecycleInv
<1>2. req[o].row \in DOMAIN rows
  BY <1>1 DEF TypeOK
<1>. QED BY <1>1, <1>2, RequestInvFits DEF KeyMeansReversed

LEMMA SeenKey ==
  ASSUME LifecycleInv, NEW o \in Operator, req[o].pc # "idle", req[o].row \notin shared,
         Fresh(req[o])
  PROVE  /\ req[o].seen = rows[req[o].row]
         /\ req[o].seen.key # 0 <=> req[o].seen.status = "REVERSED"
BY Alone1 DEF Fits

LEMMA TracedType ==
  ASSUME NEW r, r.seen \in Row, r.id \in Nat
  PROVE  /\ Traced(r) \in Row /\ Traced(r).status = r.seen.status
         /\ Traced(r).key = r.seen.key /\ Traced(r).node = r.seen.node
         /\ Traced(r).trace = r.seen.trace \cup {r.id}
BY DEF Traced, Row

\* A committed decision d on the row as loaded.
LEMMA CommitKeepsInv ==
  ASSUME LifecycleInv, NEW o \in Operator, req[o].pc # "idle", NEW d \in Row,
         Commit(req[o], d), Done(o),
         Fresh(req[o]),
         req[o].row \notin shared => Allowed(req[o].seen, d),
         \/ acked' = acked
         \/ /\ Acknowledge(req[o])
            /\ req[o].row \notin shared => req[o].id \in d.trace,
         UNCHANGED <<sent, shared>>, crashes' \in 0 .. MaxCrashes
  PROVE  LifecycleInv' /\ StepOK
<1> DEFINE r == req[o]
           now == rows[r.row]
           x == Saved(now, r.seen, d)
<1>1. TypeOK /\ now \in Row /\ r.seen \in Row
  BY RequestType DEF LifecycleInv
<1>2. x \in Row /\ rows' = [rows EXCEPT ![r.row] = x]
  BY <1>1, SavedType DEF Commit
<1>3. ASSUME r.row \notin shared PROVE now = r.seen /\ x = d
  <2>1. r.seen = now
    BY <1>3, Alone1 DEF Fits
  <2>. QED BY <1>1, <2>1, SavedAlone
<1> HIDE DEF x
<1>4. r.row \notin shared => Allowed(now, x)
  BY <1>3
<1>5. r.row \notin shared => (r.id \in d.trace => r.id \in x.trace)
  BY <1>3
<1>. QED BY <1>2, <1>4, <1>5, EndKeepsInv

LEMMA DecideInv ==
  ASSUME LifecycleInv, NEW o \in Operator, Decide(o)
  PROVE  LifecycleInv' /\ StepOK
<1> DEFINE r == req[o]
           d == [Traced(r) EXCEPT !.status = Verdict[r.act]]
<1>1. /\ r.pc = "loaded" /\ r.act \in {"reject", "cancel", "repair"} /\ Legal(r)
      /\ Commit(r, d) /\ Acknowledge(r) /\ Done(o) /\ UNCHANGED <<sent, shared, crashes>>
  BY DEF Decide, Verdict
<1>2. TypeOK /\ r.seen \in Row /\ r.id \in Nat
  BY <1>1, RequestType DEF LifecycleInv
<1>3. Verdict[r.act] \in Status \ {"REVERSED"}
  BY <1>1 DEF Verdict, Status, Terminal
<1>4. /\ d \in Row /\ d.status = Verdict[r.act] /\ d.key = r.seen.key
      /\ d.trace = r.seen.trace \cup {r.id}
  BY <1>2, <1>3, TracedType DEF Row
<1>5. r.seen.status \notin Terminal
  BY <1>1 DEF Legal, Terminal
<1> HIDE DEF d
<1>6. ASSUME r.row \notin shared PROVE Allowed(r.seen, d)
  BY <1>1, <1>3, <1>4, <1>5, <1>6, SeenKey DEF Fresh, Allowed, Terminal
<1>7. Fresh(r) /\ crashes' \in 0 .. MaxCrashes /\ r.id \in d.trace
  BY <1>1, <1>2, <1>4 DEF Fresh, TypeOK
<1>. QED BY <1>1, <1>4, <1>6, <1>7, CommitKeepsInv

LEMMA ReverseInv ==
  ASSUME LifecycleInv, NEW o \in Operator, Reverse(o)
  PROVE  LifecycleInv' /\ StepOK
<1> DEFINE r == req[o]
           d == [Traced(r) EXCEPT !.status = "REVERSED", !.key = r.id]
<1>1. /\ r.pc = "loaded" /\ r.act = "reverse" /\ Legal(r) /\ ~AlreadyReversed(r)
      /\ Commit(r, d) /\ Acknowledge(r) /\ Done(o) /\ UNCHANGED <<sent, shared, crashes>>
  BY DEF Reverse
<1>2. TypeOK /\ r.seen \in Row /\ r.id \in Nat \ {0}
  BY <1>1, RequestType DEF LifecycleInv
<1>3. /\ d \in Row /\ d.status = "REVERSED" /\ d.key = r.id
      /\ d.trace = r.seen.trace \cup {r.id}
  BY <1>2, TracedType DEF Row, Status, Terminal
<1>4. r.seen.status \notin {"REJECTED", "CANCELLED"}
  BY <1>1 DEF Legal
<1> HIDE DEF d
<1>5. ASSUME r.row \notin shared PROVE Allowed(r.seen, d)
  <2>1. r.seen.key # 0 <=> r.seen.status = "REVERSED"
    BY <1>1, <1>5, SeenKey DEF Fresh
  <2>2. r.seen.key = 0 /\ r.seen.status # "REVERSED"
    BY <1>1, <2>1 DEF AlreadyReversed
  <2>. QED BY <1>2, <1>3, <1>4, <2>2 DEF Allowed, Terminal
<1>6. Fresh(r) /\ crashes' \in 0 .. MaxCrashes /\ r.id \in d.trace
  BY <1>1, <1>2, <1>3 DEF Fresh, TypeOK
<1>. QED BY <1>1, <1>3, <1>5, <1>6, CommitKeepsInv

LEMMA SkipToEndInv ==
  ASSUME LifecycleInv, NEW o \in Operator, SkipToEnd(o)
  PROVE  LifecycleInv' /\ StepOK
<1> DEFINE r == req[o]
           d == [Traced(r) EXCEPT !.status = "COMPLETED"]
<1>1. /\ r.pc = "loaded" /\ r.act = "skip" /\ Legal(r)
      /\ Commit(r, d) /\ Acknowledge(r) /\ Done(o) /\ UNCHANGED <<sent, shared, crashes>>
  BY DEF SkipToEnd
<1>2. TypeOK /\ r.seen \in Row /\ r.id \in Nat
  BY <1>1, RequestType DEF LifecycleInv
<1>3. /\ d \in Row /\ d.status = "COMPLETED" /\ d.key = r.seen.key
      /\ d.trace = r.seen.trace \cup {r.id}
  BY <1>2, TracedType DEF Row, Status, Terminal
<1>4. r.seen.status \notin Terminal
  BY <1>1 DEF Legal
<1> HIDE DEF d
<1>5. ASSUME r.row \notin shared PROVE Allowed(r.seen, d)
  <2>1. r.seen.key # 0 <=> r.seen.status = "REVERSED"
    BY <1>1, <1>5, SeenKey DEF Fresh
  <2>. QED BY <1>3, <1>4, <2>1 DEF Allowed, Terminal
<1>6. Fresh(r) /\ crashes' \in 0 .. MaxCrashes /\ r.id \in d.trace
  BY <1>1, <1>2, <1>3 DEF Fresh, TypeOK
<1>. QED BY <1>1, <1>3, <1>5, <1>6, CommitKeepsInv

LEMMA AcknowledgeRunCases ==
  ASSUME NEW r, AcknowledgeRun(r)
  PROVE  acked' = acked \/ (Acknowledge(r) /\ Lined(r))
BY DEF AcknowledgeRun, Lined

LEMMA RunCompletesInv ==
  ASSUME LifecycleInv, NEW o \in Operator, RunCompletes(o)
  PROVE  LifecycleInv' /\ StepOK
<1> DEFINE r == req[o]
<1>1. /\ r.pc = "running" /\ AcknowledgeRun(r) /\ Done(o)
      /\ UNCHANGED <<sent, shared, crashes>>
  BY DEF RunCompletes
<1>2. PICK n \in Node : Commit(r, [r.dirty EXCEPT !.status = "COMPLETED", !.node = n])
  BY DEF RunCompletes
<1> DEFINE d == [r.dirty EXCEPT !.status = "COMPLETED", !.node = n]
<1>3. TypeOK /\ r.seen \in Row /\ r.dirty \in Row /\ r.id \in Nat
  BY <1>1, RequestType DEF LifecycleInv
<1>4. /\ d \in Row /\ d.status = "COMPLETED" /\ d.key = r.dirty.key
      /\ d.trace = r.dirty.trace
  BY <1>3 DEF Row, Status, Terminal
<1> HIDE DEF d
<1>5. Fresh(r) /\ crashes' \in 0 .. MaxCrashes /\ Commit(r, d)
  BY <1>1, <1>2, <1>3 DEF Fresh, TypeOK, d
<1>6. ASSUME r.row \notin shared
      PROVE  Allowed(r.seen, d) /\ (Lined(r) => r.id \in d.trace)
  <2>1. r.seen.key # 0 <=> r.seen.status = "REVERSED"
    BY <1>1, <1>5, <1>6, SeenKey
  <2>2. /\ r.seen.status \notin Terminal
        /\ r.dirty.key = r.seen.key /\ r.seen.trace \subseteq r.dirty.trace
        /\ Lined(r) => r.id \in r.dirty.trace
    BY <1>1, <1>5, <1>6, Alone1 DEF Fits
  <2>. QED BY <1>4, <2>1, <2>2 DEF Allowed, Terminal
<1>7. \/ acked' = acked
      \/ Acknowledge(r) /\ (r.row \notin shared => r.id \in d.trace)
  BY <1>1, <1>6, AcknowledgeRunCases
<1>. QED BY <1>1, <1>4, <1>5, <1>6, <1>7, CommitKeepsInv

\* A skip goes on at a node of the workflow, or at none.
LEMMA SkipTargetType ==
  ASSUME NEW n \in Node
  PROVE  SkipTarget(n) \in Node \cup {0}
<1> DEFINE out == { e \in Edges : e[1] = n }
<1>1. CASE Cardinality(out) = 1
  <2>1. out # {}
    BY <1>1, FS_EmptySet
  <2>2. (CHOOSE e \in out : TRUE) \in Node \X Node
    BY <2>1, LifecycleAssumption
  <2>. QED BY <1>1, <2>2 DEF SkipTarget
<1>2. CASE Cardinality(out) # 1
  BY <1>2, LifecycleAssumption DEF SkipTarget, Node
<1>. QED BY <1>1, <1>2

LEMMA StartRunInv ==
  ASSUME LifecycleInv, NEW o \in Operator, StartRun(o)
  PROVE  LifecycleInv' /\ StepOK
<1> DEFINE r == req[o]
<1>1. /\ r.pc = "loaded" /\ r.act \in {"skip", "retry", "approve", "resume"} /\ Legal(r)
      /\ UNCHANGED <<rows, sent, acked, shared, crashes>>
  BY DEF StartRun
<1>2. /\ TypeOK /\ r \in Request /\ r.seen \in Row /\ r.dirty \in Row /\ r.id \in Nat
      /\ r.row \in DOMAIN rows /\ rows[r.row] \in Row
  BY <1>1, RequestType DEF LifecycleInv
<1>3. PICK d \in Row :
        /\ req' = [req EXCEPT ![o] = [r EXCEPT !.pc = "running", !.dirty = d]]
        /\ r.row \notin shared =>
             /\ d.status = r.seen.status /\ d.key = r.seen.key
             /\ r.seen.trace \subseteq d.trace
        /\ Lined(r) => r.id \in d.trace
  <2>1. CASE r.act = "skip"
    <3> DEFINE d == [Traced(r) EXCEPT !.node = SkipTarget(r.seen.node)]
    <3>1. SkipTarget(r.seen.node) \in Node
      BY <1>2, <2>1, SkipTargetType DEF StartRun, Row
    <3>2. /\ d \in Row /\ d.status = r.seen.status /\ d.key = r.seen.key
          /\ d.trace = r.seen.trace \cup {r.id}
      BY <1>2, <3>1, TracedType DEF Row
    <3>3. req' = [req EXCEPT ![o] = [r EXCEPT !.pc = "running", !.dirty = d]]
      BY <2>1 DEF StartRun
    <3> HIDE DEF d
    <3>. QED BY <3>2, <3>3
  <2>2. CASE r.act = "approve"
    <3>1. req' = [req EXCEPT ![o] = [r EXCEPT !.pc = "running", !.dirty = Traced(r)]]
      BY <2>2 DEF StartRun
    <3>. QED BY <1>2, <3>1, TracedType
  <2>3. CASE r.act \in {"retry", "resume"}
    <3>1. req' = [req EXCEPT ![o] = [r EXCEPT !.pc = "running", !.dirty = r.dirty]]
      BY <1>2, <2>3 DEF StartRun, Request
    <3>2. r.row \notin shared => Fits(r, rows[r.row])
      BY <1>1, Alone1
    <3>. QED BY <1>1, <1>2, <2>3, <3>1, <3>2 DEF Fits, Fresh, Lined
  <2>. QED BY <1>1, <2>1, <2>2, <2>3
<1> DEFINE q == [r EXCEPT !.pc = "running", !.dirty = d]
<1>4. /\ q \in Request /\ q.pc = "running" /\ q.row = r.row /\ q.id = r.id
      /\ q.seen = r.seen /\ q.dirty = d /\ q.act = r.act
  BY <1>2 DEF Request
<1>5. req' = [req EXCEPT ![o] = q]
  BY <1>3
<1> HIDE DEF q
<1>6. ASSUME r.row \notin shared PROVE Allowed(rows[r.row], rows[r.row]) /\ Fits(q, rows[r.row])
  <2>1. /\ r.seen = rows[r.row]
        /\ rows[r.row].key # 0 <=> rows[r.row].status = "REVERSED"
    BY <1>1, <1>6, SeenKey DEF Fresh
  <2>2. r.seen.status \notin Terminal
    BY <1>1 DEF Legal, Terminal
  <2>3. Fresh(q)
    BY <1>4 DEF Fresh
  <2>4. Lined(q) <=> Lined(r)
    BY <1>4 DEF Lined
  <2>. QED BY <1>3, <1>4, <1>6, <2>1, <2>2, <2>3, <2>4 DEF Allowed, Fits
<1>7. Rewritten(r.row, rows[r.row])
  BY <1>1, <1>2 DEF Rewritten, TypeOK
<1>. QED BY <1>1, <1>2, <1>4, <1>5, <1>6, <1>7, GoOnKeepsInv

LEMMA RunStopsInv ==
  ASSUME LifecycleInv, NEW o \in Operator, RunStops(o)
  PROVE  LifecycleInv' /\ StepOK
<1> DEFINE r == req[o]
           now == rows[r.row]
           x == Saved(now, r.seen, r.dirty)
<1>1. r.pc = "running" /\ UNCHANGED <<sent, acked, shared, crashes>>
  BY DEF RunStops
<1>2. PICK st \in Stopped, n \in Node :
        /\ rows' = Append([rows EXCEPT ![r.row] = x], NewRow(st, n, r.dirty.trace))
        /\ req' = [req EXCEPT ![o].pc = "stopped", ![o].result = st]
  BY DEF RunStops
<1>3. /\ TypeOK /\ r \in Request /\ r.seen \in Row /\ r.dirty \in Row /\ now \in Row
  BY <1>1, RequestType DEF LifecycleInv
<1>4. x \in Row
  BY <1>3, SavedType
<1>5. r.row \notin shared => x = r.dirty /\ now = r.seen
  BY <1>1, <1>3, SeenKey, SavedAlone DEF Fresh
<1>6. Rewritten(r.row, x)
  <2> DEFINE new == NewRow(st, n, r.dirty.trace)
  <2>1. new \in Row /\ new.key = 0 /\ new.status # "REVERSED"
    BY <1>3 DEF NewRow, Row, Status, Stopped, Terminal
  <2> HIDE DEF new, x
  <2>2. rows' = Append([rows EXCEPT ![r.row] = x], new)
    BY <1>2 DEF new
  <2>. QED BY <2>1, <2>2 DEF Rewritten
<1> DEFINE q == [r EXCEPT !.pc = "stopped", !.result = st]
<1>7. /\ q \in Request /\ q.pc = "stopped" /\ q.row = r.row /\ q.id = r.id
      /\ q.result = st /\ q.act = r.act
  BY <1>3 DEF Request
<1>8. req' = [req EXCEPT ![o] = q]
  BY <1>2
<1> HIDE DEF q, x
<1>9. ASSUME r.row \notin shared PROVE Allowed(now, x) /\ Fits(q, x)
  <2>1. Fits(r, now) /\ (now.key # 0 <=> now.status = "REVERSED")
    BY <1>1, <1>9, Alone1
  <2>2. ~Fresh(q)
    BY <1>7 DEF Fresh, Stopped
  <2>3. Lined(q) <=> Lined(r)
    BY <1>7 DEF Lined
  <2>4. /\ now.status \notin Terminal /\ x.status = now.status /\ x.key = now.key
        /\ now.trace \subseteq x.trace /\ (Lined(r) => r.id \in x.trace)
    BY <1>1, <1>5, <1>9, <2>1 DEF Fits, Fresh
  <2>. QED BY <1>7, <2>1, <2>2, <2>3, <2>4 DEF Allowed, Fits
<1>. QED BY <1>1, <1>4, <1>6, <1>7, <1>8, <1>9, GoOnKeepsInv

LEMMA RunFailsInv ==
  ASSUME LifecycleInv, NEW o \in Operator, RunFails(o)
  PROVE  LifecycleInv' /\ StepOK
<1> DEFINE r == req[o]
           q == [r EXCEPT !.pc = "stopped", !.result = "FAILED"]
<1>1. /\ r.pc = "running" /\ req' = [req EXCEPT ![o] = q]
      /\ UNCHANGED <<rows, sent, acked, shared, crashes>>
  BY DEF RunFails
<1>2. /\ TypeOK /\ r \in Request /\ r.row \in DOMAIN rows /\ rows[r.row] \in Row
  BY <1>1, RequestType DEF LifecycleInv
<1>3. /\ q \in Request /\ q.pc = "stopped" /\ q.row = r.row /\ q.id = r.id
      /\ q.result = "FAILED" /\ q.act = r.act /\ q.seen = r.seen /\ q.dirty = r.dirty
  BY <1>2 DEF Request
<1> HIDE DEF q
<1>4. ASSUME r.row \notin shared PROVE Allowed(rows[r.row], rows[r.row]) /\ Fits(q, rows[r.row])
  <2>1. Fits(r, rows[r.row]) /\ (rows[r.row].key # 0 <=> rows[r.row].status = "REVERSED")
    BY <1>1, <1>4, Alone1
  <2>2. Fresh(q) /\ Fresh(r) /\ (Lined(q) <=> Lined(r))
    BY <1>1, <1>3 DEF Fresh, Lined
  <2>. QED BY <1>1, <1>3, <2>1, <2>2 DEF Allowed, Fits
<1>5. Rewritten(r.row, rows[r.row])
  BY <1>1, <1>2 DEF Rewritten, TypeOK
<1>. QED BY <1>1, <1>2, <1>3, <1>4, <1>5, GoOnKeepsInv

LEMMA SyncInv ==
  ASSUME LifecycleInv, NEW o \in Operator, Sync(o)
  PROVE  LifecycleInv' /\ StepOK
<1> DEFINE r == req[o]
           now == rows[r.row]
<1>1. /\ r.pc = "stopped" /\ AcknowledgeRun(r) /\ Done(o)
      /\ UNCHANGED <<sent, shared, crashes>>
  BY DEF Sync
<1>2. /\ TypeOK /\ r \in Request /\ r.seen \in Row /\ r.dirty \in Row /\ now \in Row
      /\ r.row \in DOMAIN rows /\ r.result \in Stopped \cup {"FAILED"}
      /\ crashes' \in 0 .. MaxCrashes
  <2>1. TypeOK
    BY DEF LifecycleInv
  <2>2. r \in Request
    BY <1>1, <2>1, RequestType
  <2>. QED BY <1>1, <2>1, <2>2, RequestType DEF Request, TypeOK
<1>3. CASE r.result = "FAILED"
  <2> DEFINE d == [r.dirty EXCEPT !.status = "FAILED"]
  <2>1. Commit(r, d)
    BY <1>3 DEF Sync
  <2>2. /\ d \in Row /\ d.status = "FAILED" /\ d.key = r.dirty.key /\ d.trace = r.dirty.trace
    BY <1>2 DEF Row, Status
  <2> HIDE DEF d
  <2>3. Fresh(r)
    BY <1>1, <1>3 DEF Fresh
  <2>4. ASSUME r.row \notin shared
        PROVE  Allowed(r.seen, d) /\ (Lined(r) => r.id \in d.trace)
    <3>1. Fits(r, now) /\ (r.seen.key # 0 <=> r.seen.status = "REVERSED")
      BY <1>1, <2>3, <2>4, Alone1, SeenKey
    <3>2. r.seen.status \notin Terminal
      BY <1>1, <2>3, <3>1 DEF Fits
    <3>. QED BY <1>1, <2>2, <2>3, <3>1, <3>2 DEF Allowed, Fits, Terminal
  <2>5. \/ acked' = acked
        \/ Acknowledge(r) /\ (r.row \notin shared => r.id \in d.trace)
    BY <1>1, <2>4, AcknowledgeRunCases
  <2>. QED BY <1>1, <1>2, <2>1, <2>2, <2>3, <2>4, <2>5, CommitKeepsInv
<1>4. CASE r.result # "FAILED"
  <2> DEFINE x == [now EXCEPT !.status = r.result]
  <2>1. rows' = [rows EXCEPT ![r.row] = x]
    BY <1>4 DEF Sync
  <2>2. r.result \in Stopped /\ ~Fresh(r)
    BY <1>1, <1>2, <1>4 DEF Fresh
  <2>3. x \in Row /\ x.status = r.result /\ x.key = now.key /\ x.trace = now.trace
    BY <1>2, <2>2 DEF Row, Status, Stopped, Terminal
  <2> HIDE DEF x
  <2>4. ASSUME r.row \notin shared
        PROVE  Allowed(now, x) /\ (Lined(r) => r.id \in x.trace)
    <3>1. Fits(r, now) /\ (now.key # 0 <=> now.status = "REVERSED")
      BY <1>1, <2>4, Alone1
    <3>2. now.status \notin Terminal
      BY <1>1, <3>1 DEF Fits
    <3>. QED BY <2>2, <2>3, <3>1, <3>2 DEF Allowed, Fits, Terminal, Stopped
  <2>5. \/ acked' = acked
        \/ Acknowledge(r) /\ (r.row \notin shared => r.id \in x.trace)
    BY <1>1, <2>4, AcknowledgeRunCases
  <2>. QED BY <1>1, <1>2, <2>1, <2>3, <2>4, <2>5, EndKeepsInv
<1>. QED BY <1>3, <1>4

\* A row that is loaded while another request works on it becomes shared.
LEMMA LoadInv ==
  ASSUME LifecycleInv, NEW o \in Operator, NEW i \in DOMAIN rows, NEW act \in Action,
         NEW n \in Node, Load(o, i, act, n)
  PROVE  LifecycleInv' /\ StepOK
<1> DEFINE q == [pc |-> "loaded", id |-> sent + 1, row |-> i, act |-> act, node |-> n,
                 seen |-> rows[i], dirty |-> rows[i], result |-> "FAILED"]
<1>1. TypeOK /\ RequestInv /\ KeyMeansReversed /\ AuditIsKept
  BY DEF LifecycleInv
<1>2. /\ req[o].pc = "idle" /\ sent < MaxRequests /\ sent' = sent + 1
      /\ req' = [req EXCEPT ![o] = q] /\ UNCHANGED <<rows, acked, crashes>>
      /\ shared' = IF \E p \in Operator : req[p].pc # "idle" /\ req[p].row = i
                   THEN shared \cup {i} ELSE shared
  BY DEF Load
<1>3. /\ rows \in Seq(Row) /\ DOMAIN rows \subseteq Nat /\ rows[i] \in Row
      /\ sent \in Nat /\ MaxRequests \in Nat
  BY <1>1, LifecycleAssumption DEF TypeOK
<1>4. /\ q \in Request /\ q.pc = "loaded" /\ q.row = i /\ q.id = sent + 1
      /\ q.seen = rows[i] /\ q.dirty = rows[i]
  BY <1>3 DEF Request
<1> HIDE DEF q
<1>5. /\ req' \in [Operator -> Request] /\ req'[o] = q
      /\ \A p \in Operator : p # o => req'[p] = req[p]
  BY <1>1, <1>2, <1>4 DEF TypeOK
<1>6. shared \subseteq shared' /\ shared' \subseteq DOMAIN rows
  BY <1>1, <1>2 DEF TypeOK
<1>7. TypeOK'
  <2>1. sent' \in 0 .. MaxRequests /\ 1 .. sent \subseteq 1 .. sent' /\ sent + 1 \in 1 .. sent'
    BY <1>2, <1>3
  <2>2. \A p \in Operator : req'[p].pc # "idle" =>
          req'[p].row \in DOMAIN rows' /\ req'[p].id \in 1 .. sent'
    BY <1>1, <1>2, <1>4, <1>5, <2>1 DEF TypeOK
  <2>. QED BY <1>1, <1>2, <1>5, <1>6, <2>1, <2>2 DEF TypeOK
<1>8. RequestInv'
  <2> SUFFICES ASSUME NEW p \in Operator, req'[p].pc # "idle", req'[p].row \notin shared'
               PROVE  /\ \A k \in Operator : k # p /\ req'[k].pc # "idle" => req'[k].row # req'[p].row
                      /\ Fits(req'[p], rows'[req'[p].row])
    BY DEF RequestInv, Fits, Fresh, Lined
  <2>1. CASE p = o
    <3>1. i \notin shared' /\ ~ \E k \in Operator : req[k].pc # "idle" /\ req[k].row = i
      BY <1>2, <1>4, <1>5, <2>1
    <3>2. Fits(q, rows[i])
      BY <1>4 DEF Fits, Fresh
    <3>. QED BY <1>2, <1>4, <1>5, <2>1, <3>1, <3>2
  <2>2. CASE p # o
    <3>1. req'[p] = req[p] /\ req[p].row \notin shared
      BY <1>5, <1>6, <2>2
    <3>2. req[p].row # i
      BY <1>2, <3>1
    <3>3. /\ \A k \in Operator : k # p /\ req[k].pc # "idle" => req[k].row # req[p].row
          /\ Fits(req[p], rows[req[p].row])
      BY <1>1, <3>1, RequestInvFits
    <3>. QED BY <1>2, <1>4, <1>5, <3>1, <3>2, <3>3
  <2>. QED BY <2>1, <2>2
<1>9. KeyMeansReversed' /\ AuditIsKept' /\ StepOK
  BY <1>1, <1>2, <1>6 DEF KeyMeansReversed, AuditIsKept, StepOK
<1>. QED BY <1>7, <1>8, <1>9 DEF LifecycleInv

LEMMA CreateInv ==
  ASSUME LifecycleInv, Create
  PROVE  LifecycleInv' /\ StepOK
<1>1. TypeOK /\ RequestInv /\ KeyMeansReversed /\ AuditIsKept
  BY DEF LifecycleInv
<1>2. UNCHANGED <<req, sent, acked, shared, crashes>>
  BY DEF Create
<1>3. PICK new \in Row : rows' = Append(rows, new) /\ new.key = 0 /\ new.status # "REVERSED"
  <2>1. PICK st \in Stopped \cup {"COMPLETED"}, n \in Node : rows' = Append(rows, NewRow(st, n, {}))
    BY DEF Create
  <2> DEFINE new == NewRow(st, n, {})
  <2>2. new \in Row /\ new.key = 0 /\ new.status # "REVERSED"
    BY DEF NewRow, Row, Status, Stopped, Terminal
  <2> HIDE DEF new
  <2>3. rows' = Append(rows, new)
    BY <2>1 DEF new
  <2>. QED BY <2>2, <2>3
<1>4. rows \in Seq(Row) /\ DOMAIN rows = 1 .. Len(rows) /\ Len(rows) \in Nat
  BY <1>1 DEF TypeOK
<1>5. /\ rows' \in Seq(Row) /\ Len(rows') = Len(rows) + 1
      /\ \A i \in 1 .. Len(rows) : rows'[i] = rows[i]
      /\ rows'[Len(rows) + 1] = new
  BY <1>3, <1>4, AppendFacts
<1>6. /\ DOMAIN rows \subseteq DOMAIN rows' /\ \A i \in DOMAIN rows : rows'[i] = rows[i]
      /\ \A i \in DOMAIN rows' \ DOMAIN rows : rows'[i] = new
  BY <1>4, <1>5
<1>7. TypeOK'
  BY <1>1, <1>2, <1>5, <1>6 DEF TypeOK
<1>8. RequestInv'
  <2> SUFFICES ASSUME NEW p \in Operator, req[p].pc # "idle", req[p].row \notin shared
               PROVE  /\ \A k \in Operator : k # p /\ req[k].pc # "idle" => req[k].row # req[p].row
                      /\ Fits(req[p], rows'[req[p].row])
    BY <1>2 DEF RequestInv, Fits, Fresh, Lined
  <2>1. rows'[req[p].row] = rows[req[p].row]
    BY <1>1, <1>6 DEF TypeOK
  <2>. QED BY <1>1, <2>1, RequestInvFits
<1>9. KeyMeansReversed'
  BY <1>1, <1>2, <1>3, <1>6 DEF KeyMeansReversed
<1>10. AuditIsKept' /\ StepOK
  BY <1>1, <1>2, <1>6 DEF AuditIsKept, StepOK, TypeOK
<1>. QED BY <1>7, <1>8, <1>9, <1>10 DEF LifecycleInv

LEMMA InitInv == Init => LifecycleInv
<1> SUFFICES ASSUME Init PROVE LifecycleInv
  OBVIOUS
<1>1. TypeOK
  BY NoRequestType, LifecycleAssumption DEF Init, TypeOK
<1>2. RequestInv
  BY NoRequestType DEF Init, RequestInv
<1>. QED BY <1>1, <1>2 DEF Init, LifecycleInv, KeyMeansReversed, AuditIsKept

LEMMA NextInv == LifecycleInv /\ [Next]_vars => LifecycleInv' /\ StepOK
<1> SUFFICES ASSUME LifecycleInv, [Next]_vars PROVE LifecycleInv' /\ StepOK
  OBVIOUS
<1>1. CASE Create
  BY <1>1, CreateInv
<1>2. ASSUME NEW o \in Operator, Step(o) PROVE LifecycleInv' /\ StepOK
  <2>1. CASE \E i \in DOMAIN rows, act \in Action, n \in Node : Load(o, i, act, n)
    BY <2>1, LoadInv
  <2>2. CASE Refuse(o)
    BY <2>2, DropKeepsInv DEF Refuse, LifecycleInv, TypeOK
  <2>3. CASE Decide(o)
    BY <2>3, DecideInv
  <2>4. CASE Reverse(o)
    BY <2>4, ReverseInv
  <2>5. CASE SkipToEnd(o)
    BY <2>5, SkipToEndInv
  <2>6. CASE StartRun(o)
    BY <2>6, StartRunInv
  <2>7. CASE RunCompletes(o)
    BY <2>7, RunCompletesInv
  <2>8. CASE RunStops(o)
    BY <2>8, RunStopsInv
  <2>9. CASE RunFails(o)
    BY <2>9, RunFailsInv
  <2>10. CASE RunRaises(o)
    BY <2>10, DropKeepsInv DEF RunRaises, LifecycleInv, TypeOK
  <2>11. CASE Sync(o)
    BY <2>11, SyncInv
  <2>12. CASE Crash(o)
    <3>1. crashes' \in 0 .. MaxCrashes
      BY <2>12, LifecycleAssumption DEF Crash, LifecycleInv, TypeOK
    <3>. QED BY <2>12, <3>1, DropKeepsInv DEF Crash
  <2>. QED
    BY <1>2, <2>1, <2>2, <2>3, <2>4, <2>5, <2>6, <2>7, <2>8, <2>9, <2>10, <2>11, <2>12 DEF Step
<1>3. CASE UNCHANGED vars
  <2>1. LifecycleInv'
    BY <1>3 DEF vars, LifecycleInv, TypeOK, RequestInv, KeyMeansReversed, AuditIsKept, Fresh, Lined
  <2>. QED BY <1>3, <2>1 DEF vars, StepOK
<1>. QED BY <1>1, <1>2, <1>3 DEF Next

\* The inductive invariant holds in every reachable state.
THEOREM LifecycleInvariant == Spec => []LifecycleInv
BY InitInv, NextInv, PTL DEF Spec

\* Only a reversed row carries the key of a reversal, if requests on it did not
\* overlap.
THEOREM KeysMeanReversed == Spec => []KeyMeansReversed
<1>1. LifecycleInv => KeyMeansReversed
  BY DEF LifecycleInv
<1>. QED BY <1>1, LifecycleInvariant, PTL

\* Every acknowledged decision stays in the audit record of its row, if requests
\* on it did not overlap.
THEOREM AuditsAreKept == Spec => []AuditIsKept
<1>1. LifecycleInv => AuditIsKept
  BY DEF LifecycleInv
<1>. QED BY <1>1, LifecycleInvariant, PTL

\* A finished transaction changes only from COMPLETED to REVERSED, if requests on
\* it did not overlap.
THEOREM FinishedIsFinal == Spec => TerminalIsFinal
<1>1. LifecycleInv /\ [Next]_vars =>
        [\A i \in DOMAIN rows : Alone(i) /\ rows[i].status \in Terminal =>
           \/ rows'[i].status = rows[i].status
           \/ rows[i].status = "COMPLETED" /\ rows'[i].status = "REVERSED"]_vars
  BY NextInv DEF StepOK, Alone
<1>. QED BY <1>1, LifecycleInvariant, PTL DEF Spec, TerminalIsFinal

\* A reversal keeps its key, if requests on the row did not overlap.
THEOREM KeysAreStable == Spec => ReversedOnce
<1>1. LifecycleInv /\ [Next]_vars =>
        [\A i \in DOMAIN rows : Alone(i) /\ rows[i].key # 0 => rows'[i].key = rows[i].key]_vars
  BY NextInv DEF StepOK, Alone
<1>. QED BY <1>1, LifecycleInvariant, PTL DEF Spec, ReversedOnce

=============================================================================
