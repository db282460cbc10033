------------------------ MODULE GovernanceGateProofs ------------------------
(***************************************************************************)
(* Proofs about GovernanceGate for any requests, tasks and records.        *)
(***************************************************************************)
EXTENDS GovernanceGate, FiniteSetTheorems, TLAPS

\* The actions of a decision and what they make of a task.
LEMMA Outcomes ==
  /\ DOMAIN Outcome = {"APPROVE", "REJECT"}
  /\ \A a \in DOMAIN Outcome : Outcome[a] \in Decided
  /\ Outcome["APPROVE"] = "AUTHORIZED" /\ Outcome["REJECT"] = "REJECTED"
BY DEF Outcome, Decided

\* A signed row is a row, decided by the one who signs.
LEMMA Signed ==
  ASSUME TypeOK, NEW r \in Request, NEW t \in Task
  PROVE  /\ Sign(task[t], r) \in TaskRow
         /\ Sign(task[t], r).status = Outcome[req[r].action]
         /\ Sign(task[t], r).status \in Decided
         /\ Sign(task[t], r).checker = r
         /\ Sign(task[t], r).maker = task[t].maker
         /\ Sign(task[t], r).status = "AUTHORIZED" => Sign(task[t], r).signed = r
<1>1. task[t] \in TaskRow /\ req[r].action \in DOMAIN Outcome
  BY DEF TypeOK, RequestState
<1>. QED BY <1>1, Outcomes, GovernanceAssumption DEF Sign, TaskRow, Decided

\* A committed decision keeps the types of rows and history.
LEMMA SettleType ==
  ASSUME TypeOK, NEW r \in Request, Settle(r)
  PROVE  /\ task' \in [Task -> TaskRow]
         /\ deciders' \in [Task -> SUBSET Request]
         /\ rivals' \in [Task -> SUBSET Request]
<1>1. \A t \in Task : Sign(task[t], r) \in TaskRow
  BY Signed
<1>2. \A t \in Task : Holders(t) \in SUBSET Request
  BY DEF Holders
<1>. QED BY <1>1, <1>2 DEF Settle, TypeOK

\* A request that goes on to a place of its program keeps the rest.
LEMMA GotoType ==
  ASSUME TypeOK, NEW r \in Request, Goto(r, "decided") \/ Goto(r, "done")
                                      \/ Goto(r, "collided") \/ Goto(r, "dead")
  PROVE  req' \in [Request -> RequestState]
<1>1. req \in [Request -> RequestState]
  BY DEF TypeOK
<1>. QED BY <1>1 DEF Goto, RequestState

\* Every step of a request keeps the shape of what it has in memory.
LEMMA RequestType ==
  ASSUME TypeOK, NEW r \in Request, Decision(r) \/ Write(r) \/ Queue(r) \/ Die(r)
  PROVE  req' \in [Request -> RequestState]
<1>0. req \in [Request -> RequestState] /\ record \in [Record -> [version : Nat, there : BOOLEAN]]
  BY DEF TypeOK
<1>. PICK s \in RequestState : s = req[r]
  BY <1>0
<1>1. ASSUME NEW t \in Task, NEW action \in DOMAIN Outcome, StartDecision(r, t, action)
      PROVE  req' \in [Request -> RequestState]
  <2> DEFINE new == [s EXCEPT !.pc = "deciding", !.kind = "single",
                    !.action = action, !.asked = {t}, !.picked = {t}]
  <2>1. new \in RequestState
    BY <1>0 DEF RequestState
  <2>2. req' = [req EXCEPT ![r] = new]
    BY <1>1 DEF StartDecision
  <2>. QED BY <1>0, <2>1, <2>2
<1>2. ASSUME NEW ids \in SUBSET Task, NEW action \in DOMAIN Outcome, StartBulk(r, ids, action)
      PROVE  req' \in [Request -> RequestState]
  <2> DEFINE new == [s EXCEPT !.pc = "deciding", !.kind = "bulk",
                    !.action = action, !.asked = ids, !.left = ids]
  <2>1. new \in RequestState
    BY <1>0 DEF RequestState
  <2>2. req' = [req EXCEPT ![r] = new]
    BY <1>2 DEF StartBulk
  <2>. QED BY <1>0, <2>1, <2>2
<1>3. ASSUME NEW t \in Task, ReadTask(r, t)
      PROVE  req' \in [Request -> RequestState]
  <2> DEFINE new == [s EXCEPT !.left = @ \ {t},
                    !.picked = IF task[t].status = "HALTED" THEN @ \cup {t} ELSE @]
  <2>1. new \in RequestState
    BY <1>0 DEF RequestState
  <2>2. req' = [req EXCEPT ![r] = new]
    BY <1>3 DEF ReadTask
  <2>. QED BY <1>0, <2>1, <2>2
<1>4. ASSUME NEW t \in Task, HaltTransaction(r, t)
      PROVE  req' \in [Request -> RequestState]
  <2> DEFINE new == [s EXCEPT !.pc = "queued", !.kind = "halt", !.asked = {t}]
  <2>1. new \in RequestState
    BY <1>0 DEF RequestState
  <2>2. req' = [req EXCEPT ![r] = new]
    BY <1>4 DEF HaltTransaction
  <2>. QED BY <1>0, <2>1, <2>2
<1>5. ASSUME NEW t \in Task, QueueConflict(r, t)
      PROVE  req' \in [Request -> RequestState]
  <2> DEFINE new == [s EXCEPT !.pc = "queued", !.asked = {t}]
  <2>1. new \in RequestState
    BY <1>0 DEF RequestState
  <2>2. req' = [req EXCEPT ![r] = new]
    BY <1>5 DEF QueueConflict
  <2>. QED BY <1>0, <2>1, <2>2
<1>6. ASSUME NEW rec \in Record, CreateRecord(r, rec)
      PROVE  req' \in [Request -> RequestState]
  <2> DEFINE new == [s EXCEPT !.pc = "done", !.kind = "create", !.on = rec]
  <2>1. new \in RequestState
    BY <1>0 DEF RequestState
  <2>2. req' = [req EXCEPT ![r] = new]
    BY <1>6 DEF CreateRecord
  <2>. QED BY <1>0, <2>1, <2>2
<1>7. ASSUME NEW rec \in Record, NEW kind \in {"update", "delete"}, StartWrite(r, rec, kind)
      PROVE  req' \in [Request -> RequestState]
  <2> DEFINE new == [s EXCEPT !.pc = "writing", !.kind = kind, !.on = rec,
                    !.seen = record[rec].version]
  <2>1. new \in RequestState
    BY <1>0 DEF RequestState
  <2>2. req' = [req EXCEPT ![r] = new]
    BY <1>7 DEF StartWrite
  <2>. QED BY <1>0, <2>1, <2>2
<1>8. ASSUME \/ CommitDecision(r) \/ CommitBulk(r) \/ AnnounceDecision(r) \/ AnnounceTask(r)
             \/ SaveUpdate(r) \/ Collide(r) \/ DeleteRecord(r) \/ DeleteRefused(r) \/ Die(r)
      PROVE  req' \in [Request -> RequestState]
  BY <1>8, GotoType DEF CommitDecision, CommitBulk, AnnounceDecision, AnnounceTask, SaveUpdate,
     Collide, DeleteRecord, DeleteRefused, Die
<1>. QED BY <1>1, <1>2, <1>3, <1>4, <1>5, <1>6, <1>7, <1>8 DEF Decision, Write, Queue

\* What is announced is decided.
AnnouncedIsDecided ==
  \A r \in Request : req[r].pc = "decided" => \A t \in req[r].picked : task[t].status \in Decided

\* Every step keeps the types.
LEMMA TypeStep ==
  ASSUME TypeOK, AnnouncedIsDecided, [Next]_vars
  PROVE  TypeOK'
<1> DEFINE Rest ==
      /\ task' \in [Task -> TaskRow] /\ comments' \subseteq Task \X Request
      /\ record' \in [Record -> [version : Nat, there : BOOLEAN]]
      /\ events' \subseteq [task : Task, status : {"HALTED"} \cup Decided, by : Request]
      /\ deciders' \in [Task -> SUBSET Request] /\ rivals' \in [Task -> SUBSET Request]
      /\ saves' \in [Record -> SUBSET Request] /\ erased' \subseteq Task \X Request
<1>0. /\ task \in [Task -> TaskRow] /\ comments \subseteq Task \X Request
      /\ record \in [Record -> [version : Nat, there : BOOLEAN]]
      /\ events \subseteq [task : Task, status : {"HALTED"} \cup Decided, by : Request]
      /\ deciders \in [Task -> SUBSET Request] /\ rivals \in [Task -> SUBSET Request]
      /\ saves \in [Record -> SUBSET Request] /\ erased \subseteq Task \X Request
      /\ req \in [Request -> RequestState]
  BY DEF TypeOK
<1>1. ASSUME NEW r \in Request,
             \/ UNCHANGED <<tables, events, history>>
             \/ CommitDecision(r) \/ CommitBulk(r)
      PROVE  Rest
  <2>1. req[r].asked \subseteq Task
    BY <1>0 DEF RequestState
  <2>. QED BY <1>0, <1>1, <2>1, SettleType DEF CommitDecision, CommitBulk, tables, history
<1>2. ASSUME NEW r \in Request, AnnounceDecision(r) \/ AnnounceTask(r)
      PROVE  Rest
  <2>1. req[r].asked \subseteq Task /\ req[r].picked \subseteq Task
    BY <1>0 DEF RequestState
  <2>2. events' \subseteq [task : Task, status : {"HALTED"} \cup Decided, by : Request]
    BY <1>0, <1>2, <2>1 DEF AnnounceDecision, AnnounceTask, AnnouncedIsDecided
  <2>. QED BY <1>0, <1>2, <2>2 DEF AnnounceDecision, AnnounceTask, tables, history
<1>3. ASSUME NEW r \in Request, NEW t \in Task, HaltTransaction(r, t) \/ QueueConflict(r, t)
      PROVE  Rest
  <2>1. Halted(Nobody) \in TaskRow /\ Halted(r) \in TaskRow
    BY DEF Halted, NoTask, TaskRow
  <2>. QED BY <1>0, <1>3, <2>1 DEF HaltTransaction, QueueConflict, history
<1>4. ASSUME NEW old \in SUBSET Task, CleanUp(old)
      PROVE  Rest
  <2>1. \A t \in Task : [task[t] EXCEPT !.status = "deleted"] \in TaskRow
    BY <1>0 DEF TaskRow
  <2>. QED BY <1>0, <1>4, <2>1 DEF CleanUp
<1>5. ASSUME NEW c \in comments, DeleteComment(c)
      PROVE  Rest
  BY <1>0, <1>5 DEF DeleteComment
<1>6. ASSUME NEW r \in Request, NEW rec \in Record, CreateRecord(r, rec)
      PROVE  Rest
  BY <1>0, <1>6 DEF CreateRecord, history
<1>7. ASSUME NEW r \in Request, SaveUpdate(r) \/ DeleteRecord(r)
      PROVE  Rest
  <2>1. req[r].on \in Record /\ req[r].seen + 1 \in Nat
    BY <1>0 DEF RequestState
  <2>2. record' \in [Record -> [version : Nat, there : BOOLEAN]]
    BY <1>0, <1>7, <2>1 DEF SaveUpdate, DeleteRecord
  <2>3. saves' \in [Record -> SUBSET Request]
    BY <1>0, <1>7, <2>1 DEF SaveUpdate, DeleteRecord, history
  <2>. QED BY <1>0, <1>7, <2>2, <2>3 DEF SaveUpdate, DeleteRecord, history
<1>8. Rest
  <2>1. ASSUME NEW r \in Request, Decision(r)
        PROVE  Rest
    BY <1>1, <1>2, <2>1 DEF Decision, StartDecision, StartBulk, ReadTask
  <2>2. ASSUME NEW r \in Request, Write(r)
        PROVE  Rest
    BY <1>1, <1>6, <1>7, <2>2 DEF Write, StartWrite, Collide, DeleteRefused
  <2>3. ASSUME NEW r \in Request, Queue(r) \/ Die(r)
        PROVE  Rest
    BY <1>1, <1>2, <1>3, <2>3 DEF Queue, Die
  <2>4. CASE UNCHANGED vars
    BY <1>0, <2>4 DEF vars, tables, history
  <2>. QED BY <1>4, <1>5, <2>1, <2>2, <2>3, <2>4 DEF Next
<1>9. req' \in [Request -> RequestState]
  BY <1>0, RequestType DEF Next, CleanUp, DeleteComment, vars
<1>. QED BY <1>8, <1>9 DEF TypeOK

(***************************************************************************)
(* Decisions                                                               *)
(***************************************************************************)
\* What a request has in memory are tasks it was asked for, and those are there.
Memory ==
  \A r \in Request :
    /\ req[r].picked \subseteq req[r].asked /\ req[r].left \subseteq req[r].asked
    /\ req[r].pc \in {"idle", "writing", "collided", "queued"} =>
         req[r].picked = {} /\ req[r].left = {}
    /\ \A t \in req[r].picked :
         /\ req[r].pc \in {"deciding", "decided"} => task[t].status \in {"HALTED"} \cup Decided
         /\ req[r].pc = "decided" => r \in deciders[t]

\* A task that is not decided yet has no history, and one that is has a decider.
Rows ==
  \A t \in Task :
    /\ task[t].status \in {"none", "HALTED"} =>
         deciders[t] = {} /\ task[t].signed = Nobody /\ task[t].checker = Nobody
    /\ task[t].status \in Decided => deciders[t] # {}
    /\ task[t].status = "AUTHORIZED" =>
         task[t].signed = task[t].checker /\ task[t].signed # Nobody

\* Deciders have committed, and their decision stands if no other was made.
Deciders ==
  \A t \in Task : \A r \in deciders[t] :
    /\ req[r].pc \in {"decided", "done", "dead"}
    /\ r \in rivals[t]
    /\ deciders[t] = {r} /\ task[t].status \in Decided => task[t].status = Outcome[req[r].action]
    /\ req[r].kind = "bulk" => <<t, r>> \in comments \cup erased

\* Whoever can still decide a decided task was there at its first decision.
Late == \A t \in Task : deciders[t] # {} => Holders(t) \subseteq rivals[t]

\* An event is a decider's, and alone it tells the decision.
Told ==
  \A e \in events : e.status # "HALTED" =>
    /\ e.by \in deciders[e.task]
    /\ deciders[e.task] = {e.by} => e.status = Outcome[req[e.by].action]

DecisionInv == TypeOK /\ Memory /\ Rows /\ Deciders /\ Late /\ Told

\* Steps that touch no task, comment or decider, and tell of no decision, keep the
\* invariant when the request does not start to decide.
LEMMA WriteKeepsDecisions ==
  ASSUME DecisionInv, NEW r \in Request,
         UNCHANGED <<task, comments, deciders, rivals, erased>>,
         \A e \in events' : e \in events \/ e.status = "HALTED",
         req' \in [Request -> RequestState],
         \A q \in Request \ {r} : req'[q] = req[q],
         req'[r].picked = req[r].picked, req'[r].asked = req[r].asked,
         req'[r].left = req[r].left,
         req'[r].pc \in {"writing", "collided", "done", "dead"},
         req'[r].pc \in {"writing", "collided"} => req[r].pc \in {"idle", "writing"},
         req[r].pc \in {"decided", "done", "dead"} =>
           /\ req'[r].pc \in {"done", "dead"}
           /\ req'[r].kind = req[r].kind /\ req'[r].action = req[r].action
  PROVE  (Memory /\ Rows /\ Deciders /\ Late /\ Told)'
<1>1. req \in [Request -> RequestState]
  BY DEF DecisionInv, TypeOK
<1>2. Memory'
  <2>1. ASSUME NEW q \in Request
        PROVE  /\ req'[q].picked \subseteq req'[q].asked /\ req'[q].left \subseteq req'[q].asked
               /\ req'[q].pc \in {"idle", "writing", "collided", "queued"} =>
                    req'[q].picked = {} /\ req'[q].left = {}
               /\ \A t \in req'[q].picked :
                    /\ req'[q].pc \in {"deciding", "decided"} =>
                         task[t].status \in {"HALTED"} \cup Decided
                    /\ req'[q].pc = "decided" => q \in deciders[t]
    BY DEF DecisionInv, Memory
  <2>. QED BY <2>1 DEF Memory
<1>3. Rows'
  BY DEF DecisionInv, Rows
<1>4. \A q \in Request : req[q].pc \in {"decided", "done", "dead"} =>
        /\ req'[q].pc \in {"decided", "done", "dead"}
        /\ req'[q].kind = req[q].kind /\ req'[q].action = req[q].action
  OBVIOUS
<1>5. deciders \in [Task -> SUBSET Request]
      /\ events \subseteq [task : Task, status : {"HALTED"} \cup Decided, by : Request]
  BY DEF DecisionInv, TypeOK
<1>6. Deciders'
  <2>1. ASSUME NEW t \in Task, NEW q \in deciders[t]
        PROVE  /\ req'[q].pc \in {"decided", "done", "dead"}
               /\ q \in rivals[t]
               /\ deciders[t] = {q} /\ task[t].status \in Decided =>
                    task[t].status = Outcome[req'[q].action]
               /\ req'[q].kind = "bulk" => <<t, q>> \in comments \cup erased
    BY <1>4, <1>5 DEF DecisionInv, Deciders
  <2>. QED BY <2>1 DEF Deciders
<1>7. Late'
  <2>1. \A t \in Task : Holders(t)' \subseteq Holders(t)
    BY DEF Holders
  <2>. QED BY <2>1 DEF DecisionInv, Late
<1>8. Told'
  <2>1. \A e \in events : e.status # "HALTED" =>
          req[e.by].pc \in {"decided", "done", "dead"} /\ e.by \in Request
    BY <1>5 DEF DecisionInv, Told, Deciders
  <2>. QED BY <1>4, <2>1 DEF DecisionInv, Told
<1>. QED BY <1>2, <1>3, <1>6, <1>7, <1>8

\* What Write and Die do to a request.
LEMMA WriteShape ==
  ASSUME TypeOK, NEW r \in Request, Write(r) \/ Die(r) \/ AnnounceTask(r)
  PROVE  /\ UNCHANGED <<task, comments, deciders, rivals, erased>>
         /\ req' \in [Request -> RequestState]
         /\ \A q \in Request \ {r} : req'[q] = req[q]
         /\ req'[r].picked = req[r].picked /\ req'[r].asked = req[r].asked
         /\ req'[r].left = req[r].left /\ req'[r].action = req[r].action
         /\ req'[r].pc \in {"writing", "collided", "done", "dead"}
         /\ req'[r].pc \in {"writing", "collided"} => req[r].pc \in {"idle", "writing"}
         /\ req[r].pc \notin {"done", "dead"}
         /\ req[r].pc # "idle" => req'[r].kind = req[r].kind
         /\ req[r].pc = "decided" => req'[r].pc = "dead"
<1>0. req \in [Request -> RequestState]
  BY DEF TypeOK
<1>1. req' \in [Request -> RequestState]
  BY RequestType DEF Queue
<1>2. ASSUME NEW rec \in Record, CreateRecord(r, rec)
      PROVE  /\ req' = [req EXCEPT ![r] = [req[r] EXCEPT !.pc = "done", !.kind = "create", !.on = rec]]
             /\ req[r].pc = "idle"
             /\ UNCHANGED <<task, comments, deciders, rivals, erased>>
  BY <1>2 DEF CreateRecord, history
<1>3. ASSUME NEW rec \in Record, NEW kind \in {"update", "delete"}, StartWrite(r, rec, kind)
      PROVE  /\ req' = [req EXCEPT ![r] = [req[r] EXCEPT !.pc = "writing", !.kind = kind, !.on = rec,
                          !.seen = record[rec].version]]
             /\ req[r].pc = "idle"
             /\ UNCHANGED <<task, comments, deciders, rivals, erased>>
  BY <1>3 DEF StartWrite, tables, history
<1>4. ASSUME \/ SaveUpdate(r) \/ Collide(r) \/ DeleteRecord(r) \/ DeleteRefused(r)
             \/ Die(r) \/ AnnounceTask(r)
      PROVE  /\ \E pc \in {"collided", "done", "dead"} :
                  /\ req' = [req EXCEPT ![r].pc = pc]
                  /\ req[r].pc = "decided" => pc = "dead"
                  /\ pc = "collided" => req[r].pc = "writing"
             /\ req[r].pc \notin {"idle", "done", "dead"}
             /\ UNCHANGED <<task, comments, deciders, rivals, erased>>
  BY <1>4 DEF SaveUpdate, Collide, DeleteRecord, DeleteRefused, Die, AnnounceTask, Goto,
     tables, history
<1>5. CASE \E rec \in Record : CreateRecord(r, rec)
  <2>1. PICK rec \in Record : CreateRecord(r, rec)
    BY <1>5
  <2> DEFINE new == [req[r] EXCEPT !.pc = "done", !.kind = "create", !.on = rec]
  <2>2. req' = [req EXCEPT ![r] = new] /\ req[r].pc = "idle"
        /\ UNCHANGED <<task, comments, deciders, rivals, erased>>
    BY <1>2, <2>1
  <2>3. /\ new.picked = req[r].picked /\ new.asked = req[r].asked /\ new.left = req[r].left
        /\ new.action = req[r].action /\ new.pc = "done"
    BY <1>0 DEF RequestState
  <2>4. req'[r] = new /\ \A q \in Request \ {r} : req'[q] = req[q]
    BY <1>0, <2>2
  <2> HIDE DEF new
  <2>. QED BY <1>1, <2>2, <2>3, <2>4
<1>6. CASE \E rec \in Record, kind \in {"update", "delete"} : StartWrite(r, rec, kind)
  <2>1. PICK rec \in Record, kind \in {"update", "delete"} : StartWrite(r, rec, kind)
    BY <1>6
  <2> DEFINE new == [req[r] EXCEPT !.pc = "writing", !.kind = kind, !.on = rec,
                       !.seen = record[rec].version]
  <2>2. req' = [req EXCEPT ![r] = new] /\ req[r].pc = "idle"
        /\ UNCHANGED <<task, comments, deciders, rivals, erased>>
    BY <1>3, <2>1
  <2>3. /\ new.picked = req[r].picked /\ new.asked = req[r].asked /\ new.left = req[r].left
        /\ new.action = req[r].action /\ new.pc = "writing"
    BY <1>0 DEF RequestState
  <2>4. req'[r] = new /\ \A q \in Request \ {r} : req'[q] = req[q]
    BY <1>0, <2>2
  <2> HIDE DEF new
  <2>. QED BY <1>1, <2>2, <2>3, <2>4
<1>7. CASE \/ SaveUpdate(r) \/ Collide(r) \/ DeleteRecord(r) \/ DeleteRefused(r)
           \/ Die(r) \/ AnnounceTask(r)
  BY <1>0, <1>1, <1>4, <1>7 DEF RequestState
<1>. QED BY <1>5, <1>6, <1>7 DEF Write

\* A task that is put into the queue has no history and nobody decides it yet.
LEMMA QueueKeepsDecisions ==
  ASSUME DecisionInv, NEW r \in Request, NEW t \in Task,
         HaltTransaction(r, t) \/ QueueConflict(r, t)
  PROVE  (Memory /\ Rows /\ Deciders /\ Late /\ Told)'
<1>0. /\ task \in [Task -> TaskRow] /\ req \in [Request -> RequestState]
      /\ events \subseteq [task : Task, status : {"HALTED"} \cup Decided, by : Request]
      /\ deciders \in [Task -> SUBSET Request]
  BY DEF DecisionInv, TypeOK
<1>1. /\ req[r].pc \in {"idle", "collided"} /\ task[t].status = "none"
      /\ UNCHANGED <<comments, events, deciders, rivals, erased>>
  BY DEF HaltTransaction, QueueConflict, history
<1>2. /\ task'[t].status = "HALTED" /\ task'[t].signed = Nobody /\ task'[t].checker = Nobody
      /\ \A u \in Task \ {t} : task'[u] = task[u]
  BY <1>0 DEF HaltTransaction, QueueConflict, Halted, NoTask
<1>3. /\ \A q \in Request \ {r} : req'[q] = req[q]
      /\ req'[r].pc = "queued" /\ req'[r].picked = req[r].picked /\ req'[r].left = req[r].left
  <2>1. CASE HaltTransaction(r, t)
    <3> DEFINE new == [req[r] EXCEPT !.pc = "queued", !.kind = "halt", !.asked = {t}]
    <3>1. new.pc = "queued" /\ new.picked = req[r].picked /\ new.left = req[r].left
      BY <1>0 DEF RequestState
    <3>2. req' = [req EXCEPT ![r] = new]
      BY <2>1 DEF HaltTransaction
    <3> HIDE DEF new
    <3>. QED BY <1>0, <3>1, <3>2
  <2>2. CASE QueueConflict(r, t)
    <3> DEFINE new == [req[r] EXCEPT !.pc = "queued", !.asked = {t}]
    <3>1. new.pc = "queued" /\ new.picked = req[r].picked /\ new.left = req[r].left
      BY <1>0 DEF RequestState
    <3>2. req' = [req EXCEPT ![r] = new]
      BY <2>2 DEF QueueConflict
    <3> HIDE DEF new
    <3>. QED BY <1>0, <3>1, <3>2
  <2>. QED BY <2>1, <2>2
<1>4. deciders[t] = {} /\ \A q \in Request : req[q].pc \in {"deciding", "decided"} => t \notin req[q].picked
  BY <1>0, <1>1 DEF DecisionInv, Rows, Memory, Decided
<1>5. Memory'
  <2>1. ASSUME NEW q \in Request
        PROVE  /\ req'[q].picked \subseteq req'[q].asked /\ req'[q].left \subseteq req'[q].asked
               /\ req'[q].pc \in {"idle", "writing", "collided", "queued"} =>
                    req'[q].picked = {} /\ req'[q].left = {}
               /\ \A u \in req'[q].picked :
                    /\ req'[q].pc \in {"deciding", "decided"} =>
                         task'[u].status \in {"HALTED"} \cup Decided
                    /\ req'[q].pc = "decided" => q \in deciders'[u]
    <3>1. CASE q = r
      BY <1>1, <1>3, <3>1 DEF DecisionInv, Memory
    <3>2. CASE q # r
      BY <1>0, <1>1, <1>2, <1>3, <1>4, <3>2 DEF DecisionInv, Memory, RequestState
    <3>. QED BY <3>1, <3>2
  <2>. QED BY <2>1 DEF Memory
<1>6. Rows'
  BY <1>1, <1>2, <1>4 DEF DecisionInv, Rows, Decided
<1>7. ASSUME NEW u \in Task, NEW q \in deciders[u]
      PROVE  u # t /\ q # r /\ q \in Request
  BY <1>0, <1>1, <1>4 DEF DecisionInv, Deciders
<1>8. Deciders'
  <2>1. ASSUME NEW u \in Task, NEW q \in deciders[u]
        PROVE  /\ req'[q].pc \in {"decided", "done", "dead"}
               /\ q \in rivals[u]
               /\ deciders[u] = {q} /\ task'[u].status \in Decided =>
                    task'[u].status = Outcome[req'[q].action]
               /\ req'[q].kind = "bulk" => <<u, q>> \in comments \cup erased
    BY <1>2, <1>3, <1>7 DEF DecisionInv, Deciders
  <2>. QED BY <1>1, <2>1 DEF Deciders
<1>9. Late'
  <2>1. \A u \in Task : Holders(u)' \subseteq Holders(u)
    BY <1>3 DEF Holders
  <2>. QED BY <1>1, <2>1 DEF DecisionInv, Late
<1>10. Told'
  BY <1>0, <1>1, <1>3, <1>7 DEF DecisionInv, Told
<1>. QED BY <1>5, <1>6, <1>8, <1>9, <1>10

\* A request that starts to decide, or reads one more task, has loaded each
\* task it picks while the task was waiting, so before its first decision.
LEMMA PickingKeepsDecisions ==
  ASSUME DecisionInv, NEW r \in Request, NEW more \in SUBSET Task,
         UNCHANGED <<tables, events, history>>,
         req[r].pc \in {"idle", "deciding"}, req'[r].pc = "deciding",
         \A q \in Request \ {r} : req'[q] = req[q],
         req'[r].picked \subseteq req[r].picked \cup more,
         \A t \in more : task[t].status = "HALTED",
         req'[r].picked \subseteq req'[r].asked, req'[r].left \subseteq req'[r].asked
  PROVE  (Memory /\ Rows /\ Deciders /\ Late /\ Told)'
<1>0. /\ UNCHANGED <<task, comments, events, deciders, rivals, erased>>
      /\ req \in [Request -> RequestState]
      /\ events \subseteq [task : Task, status : {"HALTED"} \cup Decided, by : Request]
      /\ deciders \in [Task -> SUBSET Request]
  BY DEF tables, history, DecisionInv, TypeOK
<1>1. \A t \in req'[r].picked : task[t].status \in {"HALTED"} \cup Decided
  BY DEF DecisionInv, Memory
<1>2. Memory'
  <2>1. ASSUME NEW q \in Request
        PROVE  /\ req'[q].picked \subseteq req'[q].asked /\ req'[q].left \subseteq req'[q].asked
               /\ req'[q].pc \in {"idle", "writing", "collided", "queued"} =>
                    req'[q].picked = {} /\ req'[q].left = {}
               /\ \A t \in req'[q].picked :
                    /\ req'[q].pc \in {"deciding", "decided"} =>
                         task[t].status \in {"HALTED"} \cup Decided
                    /\ req'[q].pc = "decided" => q \in deciders[t]
    BY <1>1 DEF DecisionInv, Memory
  <2>. QED BY <1>0, <2>1 DEF Memory
<1>3. Rows'
  BY <1>0 DEF DecisionInv, Rows
<1>4. ASSUME NEW t \in Task, NEW q \in deciders[t]
      PROVE  q \in Request \ {r}
  BY <1>0 DEF DecisionInv, Deciders
<1>5. Deciders'
  <2>1. ASSUME NEW t \in Task, NEW q \in deciders[t]
        PROVE  /\ req'[q].pc \in {"decided", "done", "dead"}
               /\ q \in rivals[t]
               /\ deciders[t] = {q} /\ task[t].status \in Decided =>
                    task[t].status = Outcome[req'[q].action]
               /\ req'[q].kind = "bulk" => <<t, q>> \in comments \cup erased
    BY <1>4 DEF DecisionInv, Deciders
  <2>. QED BY <1>0, <2>1 DEF Deciders
<1>6. Late'
  <2>1. ASSUME NEW t \in Task, deciders[t] # {}
        PROVE  Holders(t)' \subseteq Holders(t)
    <3>1. t \notin more
      BY <2>1 DEF DecisionInv, Rows
    <3>2. ASSUME NEW q \in Request, req'[q].pc = "deciding", t \in req'[q].picked
          PROVE  req[q].pc = "deciding" /\ t \in req[q].picked
      BY <3>1, <3>2 DEF DecisionInv, Memory
    <3>. QED BY <3>2 DEF Holders
  <2>. QED BY <1>0, <2>1 DEF DecisionInv, Late
<1>7. Told'
  BY <1>0, <1>4 DEF DecisionInv, Told
<1>. QED BY <1>2, <1>3, <1>5, <1>6, <1>7

\* A committed decision: its task gets it as a decider, and it was a rival.
LEMMA SettleKeepsDecisions ==
  ASSUME DecisionInv, NEW r \in Request, CommitDecision(r) \/ CommitBulk(r)
  PROVE  (Memory /\ Rows /\ Deciders /\ Late /\ Told)'
<1>0. /\ req \in [Request -> RequestState] /\ task \in [Task -> TaskRow]
      /\ events \subseteq [task : Task, status : {"HALTED"} \cup Decided, by : Request]
      /\ deciders \in [Task -> SUBSET Request] /\ rivals \in [Task -> SUBSET Request]
  BY DEF DecisionInv, TypeOK
<1>1. /\ Settle(r) /\ req[r].pc = "deciding" /\ UNCHANGED <<events, erased>>
      /\ comments \subseteq comments'
      /\ req[r].kind = "bulk" => \A t \in req[r].asked : <<t, r>> \in comments'
  BY DEF CommitDecision, CommitBulk
<1>2. PICK pc \in {"decided", "done"} : req' = [req EXCEPT ![r].pc = pc]
  BY DEF CommitDecision, CommitBulk, Goto
<1>3. /\ \A q \in Request \ {r} : req'[q] = req[q]
      /\ req'[r].pc \in {"decided", "done"}
      /\ req'[r].picked = req[r].picked /\ req'[r].left = req[r].left
      /\ req'[r].asked = req[r].asked
      /\ \A q \in Request : req'[q].kind = req[q].kind /\ req'[q].action = req[q].action
  BY <1>0, <1>2 DEF RequestState
<1>4. ASSUME NEW t \in Task
      PROVE  /\ t \in req[r].picked =>
                  task'[t] = Sign(task[t], r) /\ deciders'[t] = deciders[t] \cup {r}
             /\ t \notin req[r].picked =>
                  task'[t] = task[t] /\ deciders'[t] = deciders[t] /\ rivals'[t] = rivals[t]
             /\ t \in req[r].picked /\ deciders[t] = {} => rivals'[t] = Holders(t)
             /\ deciders[t] # {} => rivals'[t] = rivals[t]
  BY <1>1 DEF Settle
<1>5. req[r].picked \subseteq req[r].asked /\ req[r].picked \subseteq Task
  BY <1>0 DEF DecisionInv, Memory, RequestState
<1>6. ASSUME NEW t \in req[r].picked
      PROVE  r \in Holders(t) /\ r \notin deciders[t]
  BY <1>0, <1>1, <1>5 DEF Holders, DecisionInv, Deciders
<1>7. \A t \in Task : Holders(t)' \subseteq Holders(t)
  BY <1>3 DEF Holders
<1>8. Memory'
  <2>1. ASSUME NEW q \in Request
        PROVE  /\ req'[q].picked \subseteq req'[q].asked /\ req'[q].left \subseteq req'[q].asked
               /\ req'[q].pc \in {"idle", "writing", "collided", "queued"} =>
                    req'[q].picked = {} /\ req'[q].left = {}
               /\ \A t \in req'[q].picked :
                    /\ req'[q].pc \in {"deciding", "decided"} =>
                         task'[t].status \in {"HALTED"} \cup Decided
                    /\ req'[q].pc = "decided" => q \in deciders'[t]
    <3>1. req'[q].picked = req[q].picked /\ req'[q].picked \subseteq Task
      BY <1>0, <1>3 DEF RequestState
    <3>2. \A t \in Task : task[t].status \in {"HALTED"} \cup Decided =>
                            task'[t].status \in {"HALTED"} \cup Decided
      BY <1>4, Signed DEF DecisionInv
    <3>3. CASE q = r
      BY <1>1, <1>3, <1>4, <1>5, <3>1, <3>2, <3>3 DEF DecisionInv, Memory
    <3>4. CASE q # r
      BY <1>3, <1>4, <3>1, <3>2, <3>4 DEF DecisionInv, Memory
    <3>. QED BY <3>3, <3>4
  <2>. QED BY <2>1 DEF Memory
<1>9. Rows'
  <2>1. ASSUME NEW t \in Task
        PROVE  /\ task'[t].status \in {"none", "HALTED"} =>
                    deciders'[t] = {} /\ task'[t].signed = Nobody /\ task'[t].checker = Nobody
               /\ task'[t].status \in Decided => deciders'[t] # {}
               /\ task'[t].status = "AUTHORIZED" =>
                    task'[t].signed = task'[t].checker /\ task'[t].signed # Nobody
    <3>1. CASE t \in req[r].picked
      BY <1>4, <3>1, Signed, GovernanceAssumption DEF DecisionInv, Decided
    <3>2. CASE t \notin req[r].picked
      BY <1>4, <3>2 DEF DecisionInv, Rows
    <3>. QED BY <3>1, <3>2
  <2>. QED BY <2>1 DEF Rows
<1>10. Deciders'
  <2>1. ASSUME NEW t \in Task, NEW q \in deciders'[t]
        PROVE  /\ req'[q].pc \in {"decided", "done", "dead"}
               /\ q \in rivals'[t]
               /\ deciders'[t] = {q} /\ task'[t].status \in Decided =>
                    task'[t].status = Outcome[req'[q].action]
               /\ req'[q].kind = "bulk" => <<t, q>> \in comments' \cup erased
    <3>1. CASE q = r /\ t \in req[r].picked
      <4>1. q \in rivals'[t]
        BY <1>4, <1>6, <3>1 DEF DecisionInv, Late
      <4>. QED BY <1>1, <1>3, <1>4, <1>5, <3>1, <4>1, Signed DEF DecisionInv
    <3>2. CASE q \in deciders[t]
      <4>1. q # r /\ q \in Request
        BY <1>0, <1>1, <3>2 DEF DecisionInv, Deciders
      <4>2. t \in req[r].picked => deciders'[t] # {q}
        BY <1>4, <4>1
      <4>. QED BY <1>1, <1>3, <1>4, <3>2, <4>1, <4>2 DEF DecisionInv, Deciders
    <3>. QED BY <1>4, <2>1, <3>1, <3>2
  <2>. QED BY <1>1, <2>1 DEF Deciders
<1>11. Late'
  <2>1. ASSUME NEW t \in Task, deciders'[t] # {}
        PROVE  Holders(t) \subseteq rivals'[t]
    BY <1>4, <2>1 DEF DecisionInv, Late
  <2>. QED BY <1>7, <2>1 DEF Late
<1>12. Told'
  <2>1. ASSUME NEW e \in events, e.status # "HALTED"
        PROVE  /\ e.by \in deciders'[e.task]
               /\ deciders'[e.task] = {e.by} => deciders[e.task] = {e.by}
    <3>1. e.task \in Task /\ e.by \in deciders[e.task] /\ e.by \in Request
      BY <1>0, <2>1 DEF DecisionInv, Told
    <3>2. e.by # r
      BY <1>1, <3>1 DEF DecisionInv, Deciders
    <3>. QED BY <1>4, <3>1, <3>2
  <2>. QED BY <1>0, <1>1, <1>3, <2>1 DEF DecisionInv, Told
<1>. QED BY <1>8, <1>9, <1>10, <1>11, <1>12

\* Announcing: whoever is alone in having decided tells a row that says so.
LEMMA AnnouncingKeepsDecisions ==
  ASSUME DecisionInv, NEW r \in Request, AnnounceDecision(r)
  PROVE  (Memory /\ Rows /\ Deciders /\ Late /\ Told)'
<1>0. /\ req \in [Request -> RequestState]
      /\ events \subseteq [task : Task, status : {"HALTED"} \cup Decided, by : Request]
      /\ deciders \in [Task -> SUBSET Request]
  BY DEF DecisionInv, TypeOK
<1>1. /\ req[r].pc = "decided" /\ req' = [req EXCEPT ![r].pc = "done"]
      /\ UNCHANGED <<task, comments, deciders, rivals, erased>>
  BY DEF AnnounceDecision, Goto, tables, history
<1>2. /\ \A q \in Request \ {r} : req'[q] = req[q]
      /\ req'[r].pc = "done"
      /\ req'[r].picked = req[r].picked /\ req'[r].left = req[r].left
      /\ req'[r].asked = req[r].asked
      /\ \A q \in Request : req'[q].kind = req[q].kind /\ req'[q].action = req[q].action
  BY <1>0, <1>1 DEF RequestState
<1>3. Memory'
  <2>1. ASSUME NEW q \in Request
        PROVE  /\ req'[q].picked \subseteq req'[q].asked /\ req'[q].left \subseteq req'[q].asked
               /\ req'[q].pc \in {"idle", "writing", "collided", "queued"} =>
                    req'[q].picked = {} /\ req'[q].left = {}
               /\ \A t \in req'[q].picked :
                    /\ req'[q].pc \in {"deciding", "decided"} =>
                         task[t].status \in {"HALTED"} \cup Decided
                    /\ req'[q].pc = "decided" => q \in deciders[t]
    BY <1>2 DEF DecisionInv, Memory
  <2>. QED BY <1>1, <2>1 DEF Memory
<1>4. Rows'
  BY <1>1 DEF DecisionInv, Rows
<1>5. Deciders'
  <2>1. ASSUME NEW t \in Task, NEW q \in deciders[t]
        PROVE  /\ req'[q].pc \in {"decided", "done", "dead"}
               /\ q \in rivals[t]
               /\ deciders[t] = {q} /\ task[t].status \in Decided =>
                    task[t].status = Outcome[req'[q].action]
               /\ req'[q].kind = "bulk" => <<t, q>> \in comments \cup erased
    BY <1>0, <1>2 DEF DecisionInv, Deciders
  <2>. QED BY <1>1, <2>1 DEF Deciders
<1>6. Late'
  <2>1. \A t \in Task : Holders(t)' \subseteq Holders(t)
    BY <1>2 DEF Holders
  <2>. QED BY <1>1, <2>1 DEF DecisionInv, Late
<1>7. Told'
  <2>1. ASSUME NEW e \in events', e.status # "HALTED"
        PROVE  /\ e.by \in deciders[e.task]
               /\ deciders[e.task] = {e.by} => e.status = Outcome[req[e.by].action]
               /\ e.by \in Request
    <3>1. CASE e \in events
      BY <1>0, <2>1, <3>1 DEF DecisionInv, Told
    <3>2. CASE e \notin events
      <4>1. PICK t \in req[r].picked : e = [task |-> t, status |-> task[t].status, by |-> r]
        BY <2>1, <3>2 DEF AnnounceDecision
      <4>2. t \in Task /\ task[t].status \in Decided /\ r \in deciders[t]
        BY <1>0, <1>1, <2>1, <4>1 DEF DecisionInv, Memory, RequestState
      <4>. QED BY <4>1, <4>2 DEF DecisionInv, Deciders
    <3>. QED BY <3>1, <3>2
  <2>. QED BY <1>1, <1>2, <2>1 DEF Told
<1>. QED BY <1>3, <1>4, <1>5, <1>6, <1>7

\* Deletions take rows nobody has in memory, and the comments they take are
\* counted as erased.
LEMMA DeletingKeepsDecisions ==
  ASSUME DecisionInv,
         \/ \E old \in SUBSET Task : CleanUp(old)
         \/ \E c \in comments : DeleteComment(c)
  PROVE  (Memory /\ Rows /\ Deciders /\ Late /\ Told)'
<1>0. /\ task \in [Task -> TaskRow] /\ req \in [Request -> RequestState]
  BY DEF DecisionInv, TypeOK
<1>1. /\ UNCHANGED <<req, events, deciders, rivals>>
      /\ comments \cup erased \subseteq comments' \cup erased'
  BY DEF CleanUp, DeleteComment
<1>2. ASSUME NEW t \in Task
      PROVE  \/ task'[t] = task[t]
             \/ /\ task[t].status \in Decided /\ task'[t].status = "deleted"
                /\ \A r \in Request : req[r].pc \in {"deciding", "decided"} => t \notin req[r].asked
  <2>1. CASE \E c \in comments : DeleteComment(c)
    BY <2>1 DEF DeleteComment
  <2>2. ASSUME NEW old \in SUBSET Task, CleanUp(old)
        PROVE  \/ task'[t] = task[t]
               \/ /\ task[t].status \in Decided /\ task'[t].status = "deleted"
                  /\ \A r \in Request :
                       req[r].pc \in {"deciding", "decided"} => t \notin req[r].asked
    BY <1>0, <2>2 DEF CleanUp, TaskRow
  <2>. QED BY <2>1, <2>2
<1>3. Memory'
  <2>1. ASSUME NEW r \in Request, NEW t \in req[r].picked, req[r].pc \in {"deciding", "decided"}
        PROVE  task'[t] = task[t]
    <3>1. t \in Task /\ t \in req[r].asked
      BY <1>0 DEF DecisionInv, Memory, RequestState
    <3>. QED BY <1>2, <2>1, <3>1
  <2>. QED BY <1>1, <2>1 DEF DecisionInv, Memory
<1>4. Rows'
  BY <1>1, <1>2 DEF DecisionInv, Rows, Decided
<1>5. Deciders'
  <2>1. ASSUME NEW t \in Task, NEW r \in deciders[t]
        PROVE  /\ req[r].pc \in {"decided", "done", "dead"}
               /\ r \in rivals[t]
               /\ deciders[t] = {r} /\ task'[t].status \in Decided =>
                    task'[t].status = Outcome[req[r].action]
               /\ req[r].kind = "bulk" => <<t, r>> \in comments' \cup erased'
    <3>1. task'[t].status \in Decided => task'[t] = task[t]
      BY <1>2 DEF Decided
    <3>. QED BY <1>1, <3>1 DEF DecisionInv, Deciders
  <2>. QED BY <1>1, <2>1 DEF Deciders
<1>6. Late' /\ Told'
  BY <1>1 DEF DecisionInv, Late, Told, Holders
<1>. QED BY <1>3, <1>4, <1>5, <1>6

\* Every step keeps the invariant of decisions.
LEMMA DecisionStep ==
  ASSUME DecisionInv, [Next]_vars
  PROVE  DecisionInv'
<1>1. AnnouncedIsDecided
  <2>1. ASSUME NEW r \in Request, req[r].pc = "decided", NEW t \in req[r].picked
        PROVE  task[t].status \in Decided
    <3>1. t \in Task /\ r \in deciders[t] /\ task[t].status \in {"HALTED"} \cup Decided
      BY <2>1 DEF DecisionInv, Memory, TypeOK, RequestState
    <3>. QED BY <3>1 DEF DecisionInv, Rows
  <2>. QED BY <2>1 DEF AnnouncedIsDecided
<1>2. TypeOK'
  BY <1>1, TypeStep DEF DecisionInv
<1>3. ASSUME NEW r \in Request, Write(r) \/ Die(r) \/ AnnounceTask(r)
      PROVE  (Memory /\ Rows /\ Deciders /\ Late /\ Told)'
  <2>1. \A e \in events' : e \in events \/ e.status = "HALTED"
    <3>1. CASE AnnounceTask(r)
      BY <3>1 DEF AnnounceTask
    <3>2. CASE Write(r) \/ Die(r)
      BY <3>2 DEF Write, Die, CreateRecord, StartWrite, SaveUpdate, Collide, DeleteRecord,
         DeleteRefused
    <3>. QED BY <1>3, <3>1, <3>2
  <2>. QED BY <1>3, <2>1, WriteShape, WriteKeepsDecisions DEF DecisionInv
<1>4. ASSUME NEW r \in Request, Decision(r)
      PROVE  (Memory /\ Rows /\ Deciders /\ Late /\ Told)'
  <2>0. req \in [Request -> RequestState]
    BY DEF DecisionInv, TypeOK
  <2>1. ASSUME NEW t \in Task, NEW action \in DOMAIN Outcome, StartDecision(r, t, action)
        PROVE  (Memory /\ Rows /\ Deciders /\ Late /\ Told)'
    <3> DEFINE new == [req[r] EXCEPT !.pc = "deciding", !.kind = "single",
                         !.action = action, !.asked = {t}, !.picked = {t}]
    <3>1. new.pc = "deciding" /\ new.picked = {t} /\ new.asked = {t} /\ new.left = req[r].left
      BY <2>0 DEF RequestState
    <3>2. /\ req' = [req EXCEPT ![r] = new] /\ req[r].pc = "idle" /\ task[t].status = "HALTED"
          /\ UNCHANGED <<tables, events, history>>
      BY <2>1 DEF StartDecision
    <3>3. req'[r] = new /\ \A q \in Request \ {r} : req'[q] = req[q]
      BY <2>0, <3>2
    <3>4. req[r].left = {} /\ req[r].picked = {} /\ {t} \in SUBSET Task
      BY <3>2 DEF DecisionInv, Memory
    <3> HIDE DEF new
    <3>. QED BY <3>1, <3>2, <3>3, <3>4, PickingKeepsDecisions
  <2>2. ASSUME NEW ids \in SUBSET Task, NEW action \in DOMAIN Outcome, StartBulk(r, ids, action)
        PROVE  (Memory /\ Rows /\ Deciders /\ Late /\ Told)'
    <3> DEFINE new == [req[r] EXCEPT !.pc = "deciding", !.kind = "bulk",
                         !.action = action, !.asked = ids, !.left = ids]
    <3>1. new.pc = "deciding" /\ new.picked = req[r].picked /\ new.asked = ids /\ new.left = ids
      BY <2>0 DEF RequestState
    <3>2. /\ req' = [req EXCEPT ![r] = new] /\ req[r].pc = "idle"
          /\ UNCHANGED <<tables, events, history>>
      BY <2>2 DEF StartBulk
    <3>3. req'[r] = new /\ \A q \in Request \ {r} : req'[q] = req[q]
      BY <2>0, <3>2
    <3>4. req[r].picked = {} /\ {} \in SUBSET Task
      BY <3>2 DEF DecisionInv, Memory
    <3> HIDE DEF new
    <3>5. \A t \in {} : task[t].status = "HALTED"
      OBVIOUS
    <3>. QED BY <3>1, <3>2, <3>3, <3>4, <3>5, PickingKeepsDecisions
  <2>3. ASSUME NEW t \in Task, ReadTask(r, t)
        PROVE  (Memory /\ Rows /\ Deciders /\ Late /\ Told)'
    <3> DEFINE more == IF task[t].status = "HALTED" THEN {t} ELSE {}
    <3> DEFINE new == [req[r] EXCEPT !.left = req[r].left \ {t}, !.picked =
                 IF task[t].status = "HALTED" THEN req[r].picked \cup {t} ELSE req[r].picked]
    <3>1. /\ new.pc = req[r].pc /\ new.picked = req[r].picked \cup more
          /\ new.asked = req[r].asked /\ new.left = req[r].left \ {t}
      BY <2>0 DEF RequestState
    <3>2. /\ req' = [req EXCEPT ![r] = new] /\ req[r].pc = "deciding" /\ t \in req[r].left
          /\ UNCHANGED <<tables, events, history>>
      BY <2>3 DEF ReadTask
    <3>3. req'[r] = new /\ \A q \in Request \ {r} : req'[q] = req[q]
      BY <2>0, <3>2
    <3>4. /\ more \in SUBSET Task /\ \A u \in more : u = t /\ task[u].status = "HALTED"
          /\ req[r].picked \subseteq req[r].asked /\ req[r].left \subseteq req[r].asked
      BY DEF DecisionInv, Memory
    <3> HIDE DEF new, more
    <3>. QED BY <3>1, <3>2, <3>3, <3>4, PickingKeepsDecisions
  <2>. QED BY <1>4, <2>1, <2>2, <2>3, SettleKeepsDecisions, AnnouncingKeepsDecisions DEF Decision
<1>5. ASSUME UNCHANGED vars
      PROVE  (Memory /\ Rows /\ Deciders /\ Late /\ Told)'
  <2>1. UNCHANGED <<task, comments, req, events, deciders, rivals, erased>>
    BY <1>5 DEF vars, tables, history
  <2>2. Memory' /\ Rows' /\ Told'
    BY <2>1 DEF DecisionInv, Memory, Rows, Told
  <2>3. Deciders'
    BY <2>1 DEF DecisionInv, Deciders
  <2>4. Late'
    BY <2>1 DEF DecisionInv, Late, Holders
  <2>. QED BY <2>2, <2>3, <2>4
<1>6. (Memory /\ Rows /\ Deciders /\ Late /\ Told)'
  <2>1. ASSUME NEW r \in Request, Queue(r)
        PROVE  (Memory /\ Rows /\ Deciders /\ Late /\ Told)'
    <3>1. CASE AnnounceTask(r)
      BY <1>3, <3>1
    <3>2. CASE \E t \in Task : HaltTransaction(r, t) \/ QueueConflict(r, t)
      BY <3>2, QueueKeepsDecisions
    <3>. QED BY <2>1, <3>1, <3>2 DEF Queue
  <2>2. CASE \E r \in Request : Decision(r) \/ Write(r) \/ Queue(r) \/ Die(r)
    BY <1>3, <1>4, <2>1, <2>2
  <2>3. CASE \/ \E old \in SUBSET Task : CleanUp(old)
             \/ \E c \in comments : DeleteComment(c)
    BY <2>3, DeletingKeepsDecisions
  <2>. QED BY <1>5, <2>2, <2>3 DEF Next
<1>. QED BY <1>2, <1>6 DEF DecisionInv

\* The invariant of decisions holds in every state of every execution.
THEOREM DecisionInvariant == Spec => []DecisionInv
<1>1. Init => DecisionInv
  <2> SUFFICES ASSUME Init PROVE DecisionInv
    OBVIOUS
  <2>1. NoTask \in TaskRow /\ Halted(Nobody) \in TaskRow
    BY DEF NoTask, Halted, TaskRow
  <2>2. \A t \in Task : /\ task[t].status \in {"none", "HALTED"}
                        /\ task[t].signed = Nobody /\ task[t].checker = Nobody
    <3>1. \A t \in Task : task[t] \in {NoTask, Halted(Nobody)}
      BY DEF Init
    <3>2. NoTask.status = "none" /\ NoTask.signed = Nobody /\ NoTask.checker = Nobody
      BY DEF NoTask
    <3>3. /\ Halted(Nobody).status = "HALTED"
          /\ Halted(Nobody).signed = Nobody /\ Halted(Nobody).checker = Nobody
      BY DEF Halted, NoTask
    <3>. QED BY <3>1, <3>2, <3>3
  <2>3. PICK rec \in Record :
          req = [r \in Request |->
                  [pc |-> "idle", kind |-> "none", action |-> "REJECT", asked |-> {},
                   left |-> {}, picked |-> {}, on |-> rec, seen |-> 0]]
    BY DEF Init
  <2>4. req \in [Request -> RequestState]
    BY <2>3, Outcomes DEF RequestState
  <2>5. TypeOK
    <3>1. task \in [Task -> TaskRow]
      BY <2>1 DEF Init
    <3>2. record \in [Record -> [version : Nat, there : BOOLEAN]]
      <4>1. {[version |-> 0, there |-> FALSE], [version |-> 1, there |-> TRUE]}
              \subseteq [version : Nat, there : BOOLEAN]
        OBVIOUS
      <4>. QED BY <4>1 DEF Init
    <3>. QED BY <2>4, <3>1, <3>2 DEF Init, TypeOK
  <2>6. Memory
    BY <2>3 DEF Memory
  <2>7. Rows
    BY <2>2 DEF Init, Rows, Decided
  <2>8. Deciders /\ Late /\ Told
    BY DEF Init, Deciders, Late, Told
  <2>. QED BY <2>5, <2>6, <2>7, <2>8 DEF DecisionInv
<1>2. DecisionInv /\ [Next]_vars => DecisionInv'
  BY DecisionStep
<1>. QED BY <1>1, <1>2, PTL DEF Spec

\* Rows, comments, requests and events keep their types.
THEOREM TypeCorrect == Spec => []TypeOK
<1>1. DecisionInv => TypeOK
  BY DEF DecisionInv
<1>. QED BY <1>1, DecisionInvariant, PTL

\* An approved task is signed by its checker, whoever raced to decide it.
THEOREM ApprovalsAreSigned == Spec => []ApprovedIsSigned
<1>1. DecisionInv => ApprovedIsSigned
  BY DEF DecisionInv, Rows, ApprovedIsSigned
<1>. QED BY <1>1, DecisionInvariant, PTL

\* Only requests that had loaded a task before its first decision decide it again.
THEOREM LatecomersAreRefused == Spec => []OnlyRivalsOverturn
<1>1. DecisionInv => OnlyRivalsOverturn
  BY DEF DecisionInv, Deciders, OnlyRivalsOverturn
<1>. QED BY <1>1, DecisionInvariant, PTL

\* The event of a lone decision tells that decision.
THEOREM LoneDecisionsAreTold == Spec => []LoneDecisionIsTold
<1>1. DecisionInv => LoneDecisionIsTold
  BY DEF DecisionInv, Told, LoneDecisionIsTold
<1>. QED BY <1>1, DecisionInvariant, PTL

\* A bulk decision never stands without its comment, except by a deletion.
THEOREM BulkDecisionsAreAudited == Spec => []BulkIsAudited
<1>1. DecisionInv => BulkIsAudited
  BY DEF DecisionInv, Deciders, BulkIsAudited
<1>. QED BY <1>1, DecisionInvariant, PTL

\* No step takes a waiting task out of the queue without a decision.
THEOREM TasksLeaveByDecision == Spec => LeavesByDecision
<1>1. DecisionInv /\ [Next]_vars =>
        [\A t \in Task :
           /\ task[t].status = "HALTED" => task'[t].status \in {"HALTED"} \cup Decided
           /\ task[t].status \in Decided => task'[t].status \notin {"none", "HALTED"}]_vars
  <2> SUFFICES ASSUME DecisionInv, Next, NEW t \in Task
               PROVE  /\ task[t].status = "HALTED" => task'[t].status \in {"HALTED"} \cup Decided
                      /\ task[t].status \in Decided => task'[t].status \notin {"none", "HALTED"}
    BY DEF vars, tables
  <2>0. task \in [Task -> TaskRow]
    BY DEF DecisionInv, TypeOK
  <2>1. ASSUME NEW r \in Request, Settle(r)
        PROVE  task'[t] = task[t] \/ task'[t].status \in Decided
    BY <2>1, Signed DEF Settle, DecisionInv
  <2>2. ASSUME NEW r \in Request, NEW u \in Task, HaltTransaction(r, u) \/ QueueConflict(r, u)
        PROVE  task'[t] = task[t] \/ task[t].status = "none"
    BY <2>0, <2>2 DEF HaltTransaction, QueueConflict
  <2>3. ASSUME NEW old \in SUBSET Task, CleanUp(old)
        PROVE  \/ task'[t] = task[t]
               \/ task[t].status \in Decided /\ task'[t].status = "deleted"
    BY <2>0, <2>3 DEF CleanUp, TaskRow
  <2>4. \/ task'[t] = task[t]
        \/ task'[t].status \in Decided
        \/ task[t].status = "none"
        \/ task[t].status \in Decided /\ task'[t].status = "deleted"
    BY <2>1, <2>2, <2>3 DEF Next, Decision, Write, Queue, Die, DeleteComment, StartDecision,
       StartBulk, ReadTask, CommitDecision, CommitBulk, AnnounceDecision, AnnounceTask,
       CreateRecord, StartWrite, SaveUpdate, Collide, DeleteRecord, DeleteRefused, tables
  <2>. QED BY <2>4 DEF Decided
<1>. QED BY <1>1, DecisionInvariant, PTL DEF Spec, LeavesByDecision

(***************************************************************************)
(* Master records and their conflicts                                      *)
(***************************************************************************)
\* The version counts the updates, and an update is counted once.
Versions ==
  \A rec \in Record :
    /\ record[rec].there => record[rec].version > 0
    /\ record[rec].version > 0 => record[rec].version = 1 + Cardinality(saves[rec])
    /\ record[rec].version = 0 => saves[rec] = {}

Savers ==
  \A rec \in Record : \A r \in saves[rec] :
    req[r].pc = "done" /\ req[r].kind = "update" /\ req[r].on = rec

\* A person's task is that of one update, which was refused.
Makers ==
  \A t \in Task : task[t].maker \in Request =>
    /\ req[task[t].maker].kind = "update"
    /\ req[task[t].maker].pc \in {"queued", "done", "dead"}
    /\ task[t].maker \notin saves[req[task[t].maker].on]
    /\ \A u \in Task : task[u].maker = task[t].maker => u = t

\* An update that has been answered is saved or has made a task.
Answered ==
  \A r \in Request :
    /\ req[r].pc = "decided" => req[r].kind = "single"
    /\ req[r].pc = "collided" => req[r].kind = "update"
    /\ req[r].kind = "update" /\ req[r].pc \in {"queued", "done"} =>
         r \in saves[req[r].on] \/ \E t \in Task : task[t].maker = r

\* A task that does not exist is nobody's.
Unmade == \A t \in Task : task[t].status = "none" => task[t].maker = Nobody

RecordInv == Versions /\ Savers /\ Makers /\ Answered /\ Unmade

\* Steps that leave records and makers alone keep the invariant when the request
\* does not come to the end of an update by them.
LEMMA OthersKeepRecords ==
  ASSUME TypeOK, RecordInv, NEW r \in Request,
         UNCHANGED <<record, saves>>,
         \A t \in Task : task'[t].maker = task[t].maker,
         \A t \in Task : task'[t].status = "none" => task[t].status = "none",
         \A q \in Request \ {r} : req'[q] = req[q],
         req[r].pc \notin {"done", "dead"}, req'[r].pc # "queued",
         req[r].pc = "queued" =>
           /\ req'[r].pc \in {"done", "dead"}
           /\ req'[r].kind = req[r].kind /\ req'[r].on = req[r].on,
         req'[r].pc = "done" /\ req[r].pc # "queued" => req'[r].kind # "update",
         req'[r].pc = "decided" => req'[r].kind = "single",
         req'[r].pc = "collided" => req'[r].kind = "update"
  PROVE  RecordInv'
<1>0. /\ task \in [Task -> TaskRow] /\ req \in [Request -> RequestState]
      /\ saves \in [Record -> SUBSET Request]
  BY DEF TypeOK
<1>1. Versions'
  BY DEF RecordInv, Versions
<1>2. Savers'
  <2>1. ASSUME NEW rec \in Record, NEW q \in saves[rec]
        PROVE  req'[q].pc = "done" /\ req'[q].kind = "update" /\ req'[q].on = rec
    BY <1>0, <2>1 DEF RecordInv, Savers
  <2>. QED BY <2>1 DEF Savers
<1>3. Makers'
  <2>1. ASSUME NEW t \in Task, task'[t].maker \in Request
        PROVE  /\ req'[task'[t].maker].kind = "update"
               /\ req'[task'[t].maker].pc \in {"queued", "done", "dead"}
               /\ task'[t].maker \notin saves'[req'[task'[t].maker].on]
               /\ \A u \in Task : task'[u].maker = task'[t].maker => u = t
    <3>0. task'[t].maker = task[t].maker /\ saves' = saves
      OBVIOUS
    <3>1. CASE task[t].maker = r
      BY <2>1, <3>0, <3>1 DEF RecordInv, Makers
    <3>2. CASE task[t].maker # r
      BY <2>1, <3>0, <3>2 DEF RecordInv, Makers
    <3>. QED BY <3>1, <3>2
  <2>. QED BY <2>1 DEF Makers
<1>4. Answered'
  <2>1. ASSUME NEW q \in Request
        PROVE  /\ req'[q].pc = "decided" => req'[q].kind = "single"
               /\ req'[q].pc = "collided" => req'[q].kind = "update"
               /\ req'[q].kind = "update" /\ req'[q].pc \in {"queued", "done"} =>
                    q \in saves'[req'[q].on] \/ \E t \in Task : task'[t].maker = q
    <3>0. saves' = saves /\ \A t \in Task : task'[t].maker = task[t].maker
      OBVIOUS
    <3>1. CASE q = r
      BY <3>0, <3>1 DEF RecordInv, Answered
    <3>2. CASE q # r
      BY <3>0, <3>2 DEF RecordInv, Answered
    <3>. QED BY <3>1, <3>2
  <2>. QED BY <2>1 DEF Answered
<1>5. Unmade'
  <2>1. ASSUME NEW t \in Task, task'[t].status = "none"
        PROVE  task'[t].maker = Nobody
    BY <2>1 DEF RecordInv, Unmade
  <2>. QED BY <2>1 DEF Unmade
<1>. QED BY <1>1, <1>2, <1>3, <1>4, <1>5 DEF RecordInv

\* An update that finds its version is counted, and made no task.
LEMMA SavingKeepsRecords ==
  ASSUME TypeOK, RecordInv, NEW r \in Request, SaveUpdate(r)
  PROVE  RecordInv'
<1> DEFINE rec == req[r].on
<1>0. /\ task \in [Task -> TaskRow] /\ req \in [Request -> RequestState]
      /\ saves \in [Record -> SUBSET Request]
      /\ record \in [Record -> [version : Nat, there : BOOLEAN]]
  BY DEF TypeOK
<1>1. /\ req[r].pc = "writing" /\ req[r].kind = "update" /\ task' = task
      /\ req' = [req EXCEPT ![r].pc = "done"]
      /\ record' = [record EXCEPT ![rec].version = req[r].seen + 1]
      /\ saves' = [saves EXCEPT ![rec] = saves[rec] \cup {r}]
      /\ record[rec].there /\ record[rec].version = req[r].seen
  BY DEF SaveUpdate, Fresh, Goto
<1>2. rec \in Record /\ req[r].seen \in Nat
  BY <1>0 DEF RequestState
<1>3. /\ \A q \in Request \ {r} : req'[q] = req[q]
      /\ req'[r].pc = "done" /\ req'[r].kind = "update" /\ req'[r].on = rec
  BY <1>0, <1>1 DEF RequestState
<1>4. \A x \in Record : r \notin saves[x]
  BY <1>1 DEF RecordInv, Savers
<1>5. IsFiniteSet(saves[rec]) /\ Cardinality(saves[rec] \cup {r}) = Cardinality(saves[rec]) + 1
  <2>1. IsFiniteSet(saves[rec])
    BY <1>0, <1>2, GovernanceAssumption, FS_Subset
  <2>. QED BY <1>2, <1>4, <2>1, FS_AddElement
<1>6. /\ record'[rec].version = record[rec].version + 1
      /\ saves'[rec] = saves[rec] \cup {r}
      /\ \A x \in Record \ {rec} : record'[x] = record[x] /\ saves'[x] = saves[x]
  BY <1>0, <1>1, <1>2
<1>7. record[rec].version > 0 /\ record[rec].version = 1 + Cardinality(saves[rec])
  BY <1>1, <1>2 DEF RecordInv, Versions
<1> HIDE DEF rec
<1>8. Versions'
  <2>1. ASSUME NEW x \in Record
        PROVE  /\ record'[x].there => record'[x].version > 0
               /\ record'[x].version > 0 => record'[x].version = 1 + Cardinality(saves'[x])
               /\ record'[x].version = 0 => saves'[x] = {}
    <3>1. CASE x = rec
      <4>1. Cardinality(saves[rec]) \in Nat
        BY <1>5, FS_CardinalityType
      <4>2. Cardinality(saves'[rec]) = Cardinality(saves[rec]) + 1
        BY <1>5, <1>6
      <4>3. record'[rec].version = 1 + Cardinality(saves'[rec]) /\ record'[rec].version > 0
        BY <1>6, <1>7, <4>1, <4>2
      <4>. QED BY <3>1, <4>3
    <3>2. CASE x # rec
      BY <1>6, <3>2 DEF RecordInv, Versions
    <3>. QED BY <3>1, <3>2
  <2>. QED BY <2>1 DEF Versions
<1>9. Savers'
  <2>1. ASSUME NEW x \in Record, NEW q \in saves'[x]
        PROVE  req'[q].pc = "done" /\ req'[q].kind = "update" /\ req'[q].on = x
    <3>1. CASE q = r
      BY <1>3, <1>4, <1>6, <2>1, <3>1
    <3>2. CASE q # r
      BY <1>0, <1>3, <1>6, <2>1, <3>2 DEF RecordInv, Savers
    <3>. QED BY <3>1, <3>2
  <2>. QED BY <2>1 DEF Savers
<1>10. \A t \in Task : task[t].maker # r
  BY <1>1 DEF RecordInv, Makers
<1>11. Makers'
  <2>1. ASSUME NEW t \in Task, task[t].maker \in Request
        PROVE  /\ req'[task[t].maker].kind = "update"
               /\ req'[task[t].maker].pc \in {"queued", "done", "dead"}
               /\ task[t].maker \notin saves'[req'[task[t].maker].on]
               /\ \A u \in Task : task[u].maker = task[t].maker => u = t
    <3>1. task[t].maker # r /\ req'[task[t].maker] = req[task[t].maker]
          /\ req[task[t].maker].on \in Record
      BY <1>0, <1>3, <1>10, <2>1 DEF RequestState
    <3>. QED BY <1>6, <2>1, <3>1 DEF RecordInv, Makers
  <2>. QED BY <1>1, <2>1 DEF Makers
<1>12. Answered'
  <2>1. ASSUME NEW q \in Request
        PROVE  /\ req'[q].pc = "decided" => req'[q].kind = "single"
               /\ req'[q].pc = "collided" => req'[q].kind = "update"
               /\ req'[q].kind = "update" /\ req'[q].pc \in {"queued", "done"} =>
                    q \in saves'[req'[q].on] \/ \E t \in Task : task[t].maker = q
    <3>1. CASE q = r
      BY <1>3, <1>6, <3>1
    <3>2. CASE q # r
      <4>1. req'[q] = req[q] /\ req[q].on \in Record
        BY <1>0, <1>3, <3>2 DEF RequestState
      <4>2. saves[req[q].on] \subseteq saves'[req[q].on]
        BY <1>6, <4>1
      <4>. QED BY <4>1, <4>2 DEF RecordInv, Answered
    <3>. QED BY <3>1, <3>2
  <2>. QED BY <1>1, <2>1 DEF Answered
<1>13. Unmade'
  BY <1>1 DEF RecordInv, Unmade
<1>. QED BY <1>8, <1>9, <1>11, <1>12, <1>13 DEF RecordInv

\* A record that is created or deleted keeps its count.
LEMMA CreatingKeepsRecords ==
  ASSUME TypeOK, RecordInv, NEW r \in Request,
         (\E rec \in Record : CreateRecord(r, rec)) \/ DeleteRecord(r)
  PROVE  RecordInv'
<1>0. /\ req \in [Request -> RequestState] /\ saves \in [Record -> SUBSET Request]
      /\ record \in [Record -> [version : Nat, there : BOOLEAN]]
  BY DEF TypeOK
<1>1. task' = task /\ saves' = saves
  BY DEF CreateRecord, DeleteRecord, history
<1>2. ASSUME NEW rec \in Record
      PROVE  \/ record'[rec] = record[rec]
             \/ record'[rec].version = record[rec].version /\ ~record'[rec].there
             \/ record[rec].version = 0 /\ record'[rec].version = 1
  <2>1. CASE DeleteRecord(r)
    <3>1. record' = [record EXCEPT ![req[r].on].there = FALSE]
      BY <2>1 DEF DeleteRecord
    <3>. QED BY <1>0, <3>1
  <2>2. ASSUME NEW x \in Record, CreateRecord(r, x)
        PROVE  \/ record'[rec] = record[rec]
               \/ record[rec].version = 0 /\ record'[rec].version = 1
    <3>1. /\ record[x].version = 0
          /\ record' = [record EXCEPT ![x] = [version |-> 1, there |-> TRUE]]
      BY <2>2 DEF CreateRecord
    <3>2. CASE rec = x
      BY <1>0, <3>1, <3>2
    <3>3. CASE rec # x
      <4>1. record'[rec] = record[rec]
        BY <1>0, <3>1, <3>3
      <4>. QED BY <4>1
    <3>. QED BY <3>2, <3>3
  <2>. QED BY <2>1, <2>2
<1>3. Versions'
  <2>1. ASSUME NEW rec \in Record
        PROVE  /\ record'[rec].there => record'[rec].version > 0
               /\ record'[rec].version > 0 =>
                    record'[rec].version = 1 + Cardinality(saves[rec])
               /\ record'[rec].version = 0 => saves[rec] = {}
    <3>1. record[rec].version \in Nat /\ Cardinality({}) = 0
      BY <1>0, FS_EmptySet
    <3>2. CASE record'[rec] = record[rec]
      BY <3>2 DEF RecordInv, Versions
    <3>3. CASE record'[rec].version = record[rec].version /\ ~record'[rec].there
      BY <3>3 DEF RecordInv, Versions
    <3>4. CASE record[rec].version = 0 /\ record'[rec].version = 1
      <4>1. saves[rec] = {}
        BY <3>4 DEF RecordInv, Versions
      <4>. QED BY <3>1, <3>4, <4>1
    <3>. QED BY <1>2, <3>2, <3>3, <3>4
  <2>. QED BY <1>1, <2>1 DEF Versions
<1>4. /\ \A q \in Request \ {r} : req'[q] = req[q]
      /\ req[r].pc \in {"idle", "writing"} /\ req'[r].pc = "done" /\ req'[r].kind # "update"
  <2>1. CASE DeleteRecord(r)
    BY <1>0, <2>1 DEF DeleteRecord, Goto, RequestState
  <2>2. ASSUME NEW rec \in Record, CreateRecord(r, rec)
        PROVE  /\ \A q \in Request \ {r} : req'[q] = req[q]
               /\ req[r].pc \in {"idle", "writing"}
               /\ req'[r].pc = "done" /\ req'[r].kind # "update"
    <3> DEFINE new == [req[r] EXCEPT !.pc = "done", !.kind = "create", !.on = rec]
    <3>1. new.pc = "done" /\ new.kind = "create"
      BY <1>0 DEF RequestState
    <3>2. req' = [req EXCEPT ![r] = new] /\ req[r].pc = "idle"
      BY <2>2 DEF CreateRecord
    <3> HIDE DEF new
    <3>. QED BY <1>0, <3>1, <3>2
  <2>. QED BY <2>1, <2>2
<1>5. Savers'
  <2>1. ASSUME NEW rec \in Record, NEW q \in saves[rec]
        PROVE  req'[q].pc = "done" /\ req'[q].kind = "update" /\ req'[q].on = rec
    BY <1>0, <1>4, <2>1 DEF RecordInv, Savers
  <2>. QED BY <1>1, <2>1 DEF Savers
<1>6. Makers'
  <2>1. ASSUME NEW t \in Task, task[t].maker \in Request
        PROVE  task[t].maker # r /\ req'[task[t].maker] = req[task[t].maker]
    BY <1>4, <2>1 DEF RecordInv, Makers
  <2>. QED BY <1>1, <2>1 DEF RecordInv, Makers
<1>7. Answered'
  <2>1. ASSUME NEW q \in Request
        PROVE  /\ req'[q].pc = "decided" => req'[q].kind = "single"
               /\ req'[q].pc = "collided" => req'[q].kind = "update"
               /\ req'[q].kind = "update" /\ req'[q].pc \in {"queued", "done"} =>
                    q \in saves[req'[q].on] \/ \E t \in Task : task[t].maker = q
    <3>1. CASE q = r
      BY <1>4, <3>1
    <3>2. CASE q # r
      BY <1>4, <3>2 DEF RecordInv, Answered
    <3>. QED BY <3>1, <3>2
  <2>. QED BY <1>1, <2>1 DEF Answered
<1>8. Unmade'
  BY <1>1 DEF RecordInv, Unmade
<1>. QED BY <1>3, <1>5, <1>6, <1>7, <1>8 DEF RecordInv

\* A refused update makes its one task.
LEMMA QueueKeepsRecords ==
  ASSUME TypeOK, RecordInv, NEW r \in Request, NEW t \in Task,
         HaltTransaction(r, t) \/ QueueConflict(r, t)
  PROVE  RecordInv'
<1>0. /\ task \in [Task -> TaskRow] /\ req \in [Request -> RequestState]
      /\ saves \in [Record -> SUBSET Request]
  BY DEF TypeOK
<1>1. UNCHANGED <<record, saves>> /\ req[r].pc \in {"idle", "collided"}
  BY DEF HaltTransaction, QueueConflict, history
<1>2. /\ \A q \in Request \ {r} : req'[q] = req[q]
      /\ req'[r].pc = "queued" /\ req'[r].on = req[r].on
      /\ \/ req'[r].kind = "halt" /\ task'[t].maker = Nobody
         \/ /\ req[r].pc = "collided" /\ req'[r].kind = req[r].kind
            /\ task'[t].maker = r
  <2>1. CASE HaltTransaction(r, t)
    <3> DEFINE new == [req[r] EXCEPT !.pc = "queued", !.kind = "halt", !.asked = {t}]
    <3>1. new.pc = "queued" /\ new.kind = "halt" /\ new.on = req[r].on
      BY <1>0 DEF RequestState
    <3>2. req' = [req EXCEPT ![r] = new] /\ task'[t].maker = Nobody
      BY <1>0, <2>1 DEF HaltTransaction, Halted, NoTask
    <3> HIDE DEF new
    <3>. QED BY <1>0, <3>1, <3>2
  <2>2. CASE QueueConflict(r, t)
    <3> DEFINE new == [req[r] EXCEPT !.pc = "queued", !.asked = {t}]
    <3>1. new.pc = "queued" /\ new.kind = req[r].kind /\ new.on = req[r].on
      BY <1>0 DEF RequestState
    <3>2. req' = [req EXCEPT ![r] = new] /\ task'[t].maker = r /\ req[r].pc = "collided"
      BY <1>0, <2>2 DEF QueueConflict, Halted, NoTask
    <3> HIDE DEF new
    <3>. QED BY <1>0, <3>1, <3>2
  <2>. QED BY <2>1, <2>2
<1>3. \A u \in Task \ {t} : task'[u] = task[u]
  BY <1>0 DEF HaltTransaction, QueueConflict
<1>4. /\ \A u \in Task : task[u].maker # r
      /\ \A rec \in Record : r \notin saves[rec]
  BY <1>1 DEF RecordInv, Makers, Savers
<1>5. req[r].on \in Record /\ (req[r].pc = "collided" => req[r].kind = "update")
  BY <1>0 DEF RecordInv, Answered, RequestState
<1>6. Versions'
  BY <1>1 DEF RecordInv, Versions
<1>7. Savers'
  <2>1. ASSUME NEW rec \in Record, NEW q \in saves[rec]
        PROVE  req'[q].pc = "done" /\ req'[q].kind = "update" /\ req'[q].on = rec
    BY <1>0, <1>2, <1>4, <2>1 DEF RecordInv, Savers
  <2>. QED BY <1>1, <2>1 DEF Savers
<1>8. Makers'
  <2>1. ASSUME NEW u \in Task, task'[u].maker \in Request
        PROVE  /\ req'[task'[u].maker].kind = "update"
               /\ req'[task'[u].maker].pc \in {"queued", "done", "dead"}
               /\ task'[u].maker \notin saves[req'[task'[u].maker].on]
               /\ \A v \in Task : task'[v].maker = task'[u].maker => v = u
    <3>1. CASE u = t
      <4>1. task'[u].maker = r
        BY <1>2, <2>1, <3>1, GovernanceAssumption
      <4>2. \A v \in Task \ {t} : task'[v].maker # r
        BY <1>3, <1>4
      <4>. QED BY <1>2, <1>4, <1>5, <3>1, <4>1, <4>2, GovernanceAssumption
    <3>2. CASE u # t
      <4>1. task'[u] = task[u] /\ task[u].maker # r /\ req'[task[u].maker] = req[task[u].maker]
        BY <1>2, <1>3, <1>4, <2>1, <3>2
      <4>2. task'[t].maker # task[u].maker
        BY <1>2, <2>1, <4>1, GovernanceAssumption
      <4>. QED BY <1>3, <2>1, <4>1, <4>2 DEF RecordInv, Makers
    <3>. QED BY <3>1, <3>2
  <2>. QED BY <1>1, <2>1 DEF Makers
<1>9. Answered'
  <2>1. ASSUME NEW q \in Request
        PROVE  /\ req'[q].pc = "decided" => req'[q].kind = "single"
               /\ req'[q].pc = "collided" => req'[q].kind = "update"
               /\ req'[q].kind = "update" /\ req'[q].pc \in {"queued", "done"} =>
                    q \in saves[req'[q].on] \/ \E u \in Task : task'[u].maker = q
    <3>1. CASE q = r
      BY <1>2, <3>1
    <3>2. CASE q # r
      <4>1. ASSUME NEW u \in Task, task[u].maker = q
            PROVE  task'[u].maker = q
        <5>1. task[t].maker # q
          BY GovernanceAssumption DEF HaltTransaction, QueueConflict, RecordInv, Unmade
        <5>. QED BY <1>3, <4>1, <5>1
      <4>. QED BY <1>2, <3>2, <4>1 DEF RecordInv, Answered
    <3>. QED BY <3>1, <3>2
  <2>. QED BY <1>1, <2>1 DEF Answered
<1>10. Unmade'
  <2>1. task'[t].status = "HALTED"
    BY <1>0 DEF HaltTransaction, QueueConflict, Halted, NoTask
  <2>. QED BY <1>3, <2>1 DEF RecordInv, Unmade
<1>. QED BY <1>6, <1>7, <1>8, <1>9, <1>10 DEF RecordInv

\* Every step keeps the invariant of records.
LEMMA RecordStep ==
  ASSUME DecisionInv, RecordInv, [Next]_vars
  PROVE  RecordInv'
<1>0. TypeOK /\ task \in [Task -> TaskRow] /\ req \in [Request -> RequestState]
  BY DEF DecisionInv, TypeOK
<1>1. ASSUME NEW r \in Request, NEW pc \in {"deciding", "writing"}, NEW new, new.pc = pc,
             req' = [req EXCEPT ![r] = new], req[r].pc \in {"idle", "deciding"},
             UNCHANGED <<tables, events, history>>
      PROVE  RecordInv'
  <2>1. /\ req'[r].pc = pc /\ \A q \in Request \ {r} : req'[q] = req[q]
        /\ UNCHANGED <<record, saves>> /\ task' = task
    BY <1>0, <1>1 DEF tables, history
  <2>. QED BY <1>0, <1>1, <2>1, OthersKeepRecords
<1>2. ASSUME NEW r \in Request,
             \/ \E t \in Task, action \in DOMAIN Outcome : StartDecision(r, t, action)
             \/ \E ids \in SUBSET Task, action \in DOMAIN Outcome : StartBulk(r, ids, action)
             \/ \E t \in Task : ReadTask(r, t)
             \/ \E rec \in Record, kind \in {"update", "delete"} : StartWrite(r, rec, kind)
      PROVE  RecordInv'
  <2>1. ASSUME NEW t \in Task, NEW action \in DOMAIN Outcome, StartDecision(r, t, action)
        PROVE  RecordInv'
    <3> DEFINE new == [req[r] EXCEPT !.pc = "deciding", !.kind = "single",
                         !.action = action, !.asked = {t}, !.picked = {t}]
    <3>1. new.pc = "deciding"
      BY <1>0 DEF RequestState
    <3>2. /\ req' = [req EXCEPT ![r] = new] /\ req[r].pc = "idle"
          /\ UNCHANGED <<tables, events, history>>
      BY <2>1 DEF StartDecision
    <3> HIDE DEF new
    <3>. QED BY <1>1, <3>1, <3>2
  <2>2. ASSUME NEW ids \in SUBSET Task, NEW action \in DOMAIN Outcome, StartBulk(r, ids, action)
        PROVE  RecordInv'
    <3> DEFINE new == [req[r] EXCEPT !.pc = "deciding", !.kind = "bulk",
                         !.action = action, !.asked = ids, !.left = ids]
    <3>1. new.pc = "deciding"
      BY <1>0 DEF RequestState
    <3>2. /\ req' = [req EXCEPT ![r] = new] /\ req[r].pc = "idle"
          /\ UNCHANGED <<tables, events, history>>
      BY <2>2 DEF StartBulk
    <3> HIDE DEF new
    <3>. QED BY <1>1, <3>1, <3>2
  <2>3. ASSUME NEW t \in Task, ReadTask(r, t)
        PROVE  RecordInv'
    <3> DEFINE new == [req[r] EXCEPT !.left = req[r].left \ {t}, !.picked =
                 IF task[t].status = "HALTED" THEN req[r].picked \cup {t} ELSE req[r].picked]
    <3>1. new.pc = req[r].pc
      BY <1>0 DEF RequestState
    <3>2. /\ req' = [req EXCEPT ![r] = new] /\ req[r].pc = "deciding"
          /\ UNCHANGED <<tables, events, history>>
      BY <2>3 DEF ReadTask
    <3> HIDE DEF new
    <3>. QED BY <1>1, <3>1, <3>2
  <2>4. ASSUME NEW rec \in Record, NEW kind \in {"update", "delete"}, StartWrite(r, rec, kind)
        PROVE  RecordInv'
    <3> DEFINE new == [req[r] EXCEPT !.pc = "writing", !.kind = kind, !.on = rec,
                         !.seen = record[rec].version]
    <3>1. new.pc = "writing"
      BY <1>0 DEF RequestState
    <3>2. /\ req' = [req EXCEPT ![r] = new] /\ req[r].pc = "idle"
          /\ UNCHANGED <<tables, events, history>>
      BY <2>4 DEF StartWrite
    <3> HIDE DEF new
    <3>. QED BY <1>1, <3>1, <3>2
  <2>. QED BY <1>2, <2>1, <2>2, <2>3, <2>4
<1>3. ASSUME NEW r \in Request,
             \/ CommitDecision(r) \/ CommitBulk(r) \/ AnnounceDecision(r) \/ AnnounceTask(r)
             \/ Collide(r) \/ DeleteRefused(r) \/ Die(r)
      PROVE  RecordInv'
  <2>1. PICK pc : /\ req' = [req EXCEPT ![r].pc = pc]
                  /\ pc \in {"decided", "done", "collided", "dead"}
                  /\ req[r].pc \notin {"done", "dead"}
                  /\ req[r].pc = "queued" => pc \in {"done", "dead"}
                  /\ pc = "decided" => req[r].kind = "single"
                  /\ pc = "collided" => req[r].kind = "update"
                  /\ pc = "done" /\ req[r].pc # "queued" =>
                       req[r].kind \in {"bulk", "delete"} \/ req[r].pc = "decided"
    BY <1>3 DEF CommitDecision, CommitBulk, AnnounceDecision, AnnounceTask, Collide,
       DeleteRefused, Die, Goto
  <2>2. /\ req'[r].pc = pc /\ req'[r].kind = req[r].kind /\ req'[r].on = req[r].on
        /\ \A q \in Request \ {r} : req'[q] = req[q]
    BY <1>0, <2>1 DEF RequestState
  <2>3. pc = "done" /\ req[r].pc # "queued" => req[r].kind # "update"
    BY <2>1 DEF RecordInv, Answered
  <2>4. UNCHANGED <<record, saves>>
    BY <1>3 DEF CommitDecision, CommitBulk, AnnounceDecision, AnnounceTask, Collide,
       DeleteRefused, Die, Settle, tables, history
  <2>5. ASSUME NEW t \in Task
        PROVE  /\ task'[t].maker = task[t].maker
               /\ task'[t].status = "none" => task[t].status = "none"
    <3>1. CASE Settle(r)
      BY <1>0, <3>1, Signed DEF Settle, Decided
    <3>2. CASE task' = task
      BY <3>2
    <3>. QED BY <1>3, <3>1, <3>2 DEF CommitDecision, CommitBulk, AnnounceDecision,
             AnnounceTask, Collide, DeleteRefused, Die, tables
  <2>. QED BY <1>0, <2>1, <2>2, <2>3, <2>4, <2>5, OthersKeepRecords
<1>4. ASSUME \/ \E old \in SUBSET Task : CleanUp(old)
             \/ \E c \in comments : DeleteComment(c)
             \/ UNCHANGED vars
      PROVE  RecordInv'
  <2>1. UNCHANGED <<record, req, saves>>
    BY <1>4 DEF CleanUp, DeleteComment, vars, tables, history
  <2>2. ASSUME NEW t \in Task
        PROVE  /\ task'[t].maker = task[t].maker
               /\ task'[t].status = "none" => task[t].status = "none"
    <3>1. ASSUME NEW old \in SUBSET Task, CleanUp(old)
          PROVE  /\ task'[t].maker = task[t].maker
                 /\ task'[t].status = "none" => task[t].status = "none"
      BY <1>0, <3>1 DEF CleanUp, TaskRow
    <3>2. CASE task' = task
      BY <3>2
    <3>. QED BY <1>4, <3>1, <3>2 DEF DeleteComment, vars, tables
  <2>3. Versions' /\ Savers'
    BY <2>1 DEF RecordInv, Versions, Savers
  <2>4. Makers' /\ Answered' /\ Unmade'
    BY <2>1, <2>2 DEF RecordInv, Makers, Answered, Unmade
  <2>. QED BY <2>3, <2>4 DEF RecordInv
<1>5. ASSUME NEW r \in Request, Decision(r) \/ Write(r) \/ Queue(r) \/ Die(r)
      PROVE  RecordInv'
  BY <1>0, <1>2, <1>3, <1>5, SavingKeepsRecords, CreatingKeepsRecords, QueueKeepsRecords
     DEF Decision, Write, Queue
<1>. QED BY <1>4, <1>5 DEF Next

\* The invariant of records holds in every state of every execution.
THEOREM RecordInvariant == Spec => []RecordInv
<1>1. Init => RecordInv
  <2> SUFFICES ASSUME Init PROVE RecordInv
    OBVIOUS
  <2>1. \A r \in Request : req[r].pc = "idle" /\ req[r].kind = "none"
    BY DEF Init
  <2>2. \A t \in Task : task[t].maker = Nobody
    <3>1. NoTask.maker = Nobody /\ Halted(Nobody).maker = Nobody
      BY DEF NoTask, Halted
    <3>2. \A t \in Task : task[t] \in {NoTask, Halted(Nobody)}
      BY DEF Init
    <3>. QED BY <3>1, <3>2
  <2>3. Versions
    <3>1. \A rec \in Record : record[rec] \in {[version |-> 0, there |-> FALSE],
                                                [version |-> 1, there |-> TRUE]}
      BY DEF Init
    <3>2. \A rec \in Record : saves[rec] = {} /\ Cardinality({}) = 0
      BY FS_EmptySet DEF Init
    <3>. QED BY <3>1, <3>2 DEF Versions
  <2>4. Savers /\ Makers /\ Answered /\ Unmade
    BY <2>1, <2>2, GovernanceAssumption DEF Init, Savers, Makers, Answered, Unmade
  <2>. QED BY <2>3, <2>4 DEF RecordInv
<1>2. DecisionInv /\ RecordInv /\ [Next]_vars => RecordInv'
  BY RecordStep
<1>. QED BY <1>1, <1>2, DecisionInvariant, PTL DEF Spec

\* A record's version counts its updates: none is lost under another.
THEOREM UpdatesAreCounted == Spec => []NoUpdateLost
<1>1. RecordInv => NoUpdateLost
  BY DEF RecordInv, Versions, NoUpdateLost
<1>. QED BY <1>1, RecordInvariant, PTL

\* An answered update is saved or queued once, and not both.
THEOREM UpdatesAreSavedOrQueued == Spec => []SavedOrQueued
<1>1. RecordInv => SavedOrQueued
  BY DEF RecordInv, Makers, Answered, SavedOrQueued
<1>. QED BY <1>1, RecordInvariant, PTL

=============================================================================
