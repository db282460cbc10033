--------------------------- MODULE GovernanceGate ---------------------------
(***************************************************************************)
(* The four-eye queue and the versioned master records: GovernanceGateHub  *)
(* (services/governance_gate.py), the decision endpoints of                *)
(* routers/governance.py, the dynamic records of routers/masters.py and    *)
(* the clean-up of services/archival_service.py.                           *)
(*                                                                         *)
(* A request is one HTTP request in a database session of its own, made by *)
(* a person of its own.  It reads, decides in memory and commits; nothing  *)
(* is locked between.  A request that is refused because of what it reads  *)
(* (404, already processed) changes nothing and is left out.               *)
(*                                                                         *)
(* A row that is deleted keeps its fields here, as history: its status is  *)
(* "deleted".  Comments are those of bulk actions; people's own notes and  *)
(* the wording of comments are left out, and so are the payloads.          *)
(***************************************************************************)
EXTENDS Integers, FiniteSets

CONSTANTS
  Request,   \* requests; each is used once, which bounds the behaviours
  Task,      \* ids of governance tasks
  Record,    \* ids of master records
  Nobody     \* PENDING_SME_OVERRIDE as a checker, no signature, the system as a maker

ASSUME GovernanceAssumption == IsFiniteSet(Request) /\ Nobody \notin Request

VARIABLES
  task,      \* evidence_packet_registry, the rows of the queue
  comments,  \* governance_task_comments: <<task, author>>
  record,    \* dynamic_master_records: version_id and whether the row is there
  req,       \* per request: where it is and what it has in memory
  events,    \* broadcasts: the task, its status as told, and by whom
  deciders,  \* history, per task: the requests that committed a decision
  rivals,    \* history, per task: the requests under way at the first decision
  saves,     \* history, per record: the requests that committed an update
  erased     \* history: comments deleted since

tables == <<task, comments, record>>
history == <<deciders, rivals, saves, erased>>
vars == <<tables, req, events, history>>

Outcome == [APPROVE |-> "AUTHORIZED", REJECT |-> "REJECTED"]
Decided == {"AUTHORIZED", "REJECTED"}

TaskRow == [status : {"none", "HALTED", "deleted"} \cup Decided,
            maker : Request \cup {Nobody}, checker : Request \cup {Nobody},
            signed : Request \cup {Nobody}]
NoTask == [status |-> "none", maker |-> Nobody, checker |-> Nobody, signed |-> Nobody]
Halted(maker) == [NoTask EXCEPT !.status = "HALTED", !.maker = maker]

\* picked: tasks the request has in memory as decided; seen: the version it loaded.
RequestState ==
  [pc : {"idle", "deciding", "decided", "writing", "collided", "queued", "done", "dead"},
   kind : {"none", "single", "bulk", "halt", "update", "delete", "create"},
   action : DOMAIN Outcome, asked : SUBSET Task, left : SUBSET Task,
   picked : SUBSET Task, on : Record, seen : Nat]

TypeOK ==
  /\ task \in [Task -> TaskRow]
  /\ comments \subseteq Task \X Request
  /\ record \in [Record -> [version : Nat, there : BOOLEAN]]
  /\ req \in [Request -> RequestState]
  /\ events \subseteq [task : Task, status : {"HALTED"} \cup Decided, by : Request]
  /\ deciders \in [Task -> SUBSET Request] /\ rivals \in [Task -> SUBSET Request]
  /\ saves \in [Record -> SUBSET Request]
  /\ erased \subseteq Task \X Request

\* Any tasks may be waiting, any records may be there.
Init ==
  /\ task \in [Task -> {NoTask, Halted(Nobody)}]
  /\ record \in [Record -> {[version |-> 0, there |-> FALSE], [version |-> 1, there |-> TRUE]}]
  /\ comments = {} /\ events = {} /\ erased = {}
  /\ \E rec \in Record :
       req = [r \in Request |->
                [pc |-> "idle", kind |-> "none", action |-> "REJECT", asked |-> {},
                 left |-> {}, picked |-> {}, on |-> rec, seen |-> 0]]
  /\ deciders = [t \in Task |-> {}] /\ rivals = [t \in Task |-> {}]
  /\ saves = [rec \in Record |-> {}]

Goto(r, pc) == req' = [req EXCEPT ![r].pc = pc]

\* The requests that have a task in memory as one they decide.
Holders(t) == {r \in Request : req[r].pc = "deciding" /\ t \in req[r].picked}

(***************************************************************************)
(* Decisions                                                               *)
(***************************************************************************)
\* Faulty variant: the status is not looked at.
StartDecisionUnchecked(r, t, action) ==
  /\ req[r].pc = "idle"
  /\ task[t].status \in {"HALTED"} \cup Decided
  /\ req' = [req EXCEPT ![r] = [@ EXCEPT !.pc = "deciding", !.kind = "single",
               !.action = action, !.asked = {t}, !.picked = {t}]]
  /\ UNCHANGED <<tables, events, history>>

\* authorize_exception_task: the task is loaded and is still waiting.
StartDecision(r, t, action) ==
  /\ req[r].pc = "idle"
  /\ task[t].status = "HALTED"
  /\ req' = [req EXCEPT ![r] = [@ EXCEPT !.pc = "deciding", !.kind = "single",
               !.action = action, !.asked = {t}, !.picked = {t}]]
  /\ UNCHANGED <<tables, events, history>>

\* bulk_authorize: a list of ids, which need not name tasks that wait, or exist.
StartBulk(r, ids, action) ==
  /\ req[r].pc = "idle" /\ ids # {}
  /\ req' = [req EXCEPT ![r] = [@ EXCEPT !.pc = "deciding", !.kind = "bulk",
               !.action = action, !.asked = ids, !.left = ids]]
  /\ UNCHANGED <<tables, events, history>>

\* One query of the bulk loop.
ReadTask(r, t) ==
  /\ req[r].pc = "deciding" /\ t \in req[r].left
  /\ req' = [req EXCEPT ![r] = [@ EXCEPT !.left = req[r].left \ {t},
       !.picked = IF task[t].status = "HALTED" THEN req[r].picked \cup {t} ELSE req[r].picked]]
  /\ UNCHANGED <<tables, events, history>>

\* Faulty variant: keeps a signature that is already there.
SignOnce(row, r) ==
  [row EXCEPT !.status = Outcome[req[r].action], !.checker = r,
     !.signed = IF req[r].action = "APPROVE" /\ row.signed = Nobody THEN r ELSE @]

\* The UPDATE of a decided row. A rejection does not write the signature.
Sign(row, r) ==
  [row EXCEPT !.status = Outcome[req[r].action], !.checker = r,
     !.signed = IF req[r].action = "APPROVE" THEN r ELSE @]

\* What a committed decision does to the rows and their history.
Settle(r) ==
  /\ task' = [t \in Task |-> IF t \in req[r].picked THEN Sign(task[t], r) ELSE task[t]]
  /\ deciders' = [t \in Task |->
       IF t \in req[r].picked THEN deciders[t] \cup {r} ELSE deciders[t]]
  /\ rivals' = [t \in Task |->
       IF t \in req[r].picked /\ deciders[t] = {} THEN Holders(t) ELSE rivals[t]]

CommitDecision(r) ==
  /\ req[r].pc = "deciding" /\ req[r].kind = "single"
  /\ Settle(r)
  /\ Goto(r, "decided")
  /\ UNCHANGED <<comments, record, events, saves, erased>>

\* Faulty variant: comments only the tasks that are still waiting at the commit.
CommitBulkSparing(r) ==
  /\ req[r].pc = "deciding" /\ req[r].kind = "bulk" /\ req[r].left = {}
  /\ Settle(r)
  /\ comments' = comments \cup ({t \in req[r].asked : task[t].status = "HALTED"} \X {r})
  /\ Goto(r, "done")
  /\ UNCHANGED <<record, events, saves, erased>>

\* The rows and the comments, one for every id of the request, in one transaction.
CommitBulk(r) ==
  /\ req[r].pc = "deciding" /\ req[r].kind = "bulk" /\ req[r].left = {}
  /\ Settle(r)
  /\ comments' = comments \cup (req[r].asked \X {r})
  /\ Goto(r, "done")
  /\ UNCHANGED <<record, events, saves, erased>>

\* Faulty variant: compares the action with a word no client sends.
AnnounceRejection(r) ==
  /\ req[r].pc = "decided"
  /\ events' = events \cup {[task |-> t, status |-> "REJECTED", by |-> r] : t \in req[r].picked}
  /\ Goto(r, "done")
  /\ UNCHANGED <<tables, history>>

\* The commit expired the object: the event tells the row as it is by now.
AnnounceDecision(r) ==
  /\ req[r].pc = "decided"
  /\ events' = events \cup
       {[task |-> t, status |-> task[t].status, by |-> r] : t \in req[r].picked}
  /\ Goto(r, "done")
  /\ UNCHANGED <<tables, history>>

(***************************************************************************)
(* Tasks                                                                   *)
(***************************************************************************)
\* create_exception_task: a deviating amount; its maker is the system.
HaltTransaction(r, t) ==
  /\ req[r].pc = "idle" /\ task[t].status = "none"
  /\ task' = [task EXCEPT ![t] = Halted(Nobody)]
  /\ req' = [req EXCEPT ![r] = [@ EXCEPT !.pc = "queued", !.kind = "halt", !.asked = {t}]]
  /\ UNCHANGED <<comments, record, events, history>>

\* create_concurrency_conflict_task, after the rollback of the update.
QueueConflict(r, t) ==
  /\ req[r].pc = "collided" /\ task[t].status = "none"
  /\ task' = [task EXCEPT ![t] = Halted(r)]
  /\ req' = [req EXCEPT ![r] = [@ EXCEPT !.pc = "queued", !.asked = {t}]]
  /\ UNCHANGED <<comments, record, events, history>>

AnnounceTask(r) ==
  /\ req[r].pc = "queued"
  /\ events' = events \cup {[task |-> t, status |-> "HALTED", by |-> r] : t \in req[r].asked}
  /\ Goto(r, "done")
  /\ UNCHANGED <<tables, history>>

\* cleanup_old_execution_logs deletes decided rows, and with them their comments.
\* It takes rows not touched for thirty days at least: no request is that old.
CleanUp(old) ==
  /\ old # {}
  /\ \A t \in old : task[t].status \in Decided
  /\ \A r \in Request : req[r].pc \in {"deciding", "decided"} =>
       req[r].asked \cap old = {}
  /\ task' = [t \in Task |-> IF t \in old THEN [task[t] EXCEPT !.status = "deleted"] ELSE task[t]]
  /\ comments' = {c \in comments : c[1] \notin old}
  /\ erased' = erased \cup {c \in comments : c[1] \in old}
  /\ UNCHANGED <<record, req, events, deciders, rivals, saves>>

\* delete_governance_task_comment, by its author or an admin.
DeleteComment(c) ==
  /\ c \in comments
  /\ comments' = comments \ {c}
  /\ erased' = erased \cup {c}
  /\ UNCHANGED <<task, record, req, events, deciders, rivals, saves>>

(***************************************************************************)
(* Master records                                                          *)
(***************************************************************************)
CreateRecord(r, rec) ==
  /\ req[r].pc = "idle" /\ record[rec].version = 0
  /\ record' = [record EXCEPT ![rec] = [version |-> 1, there |-> TRUE]]
  /\ req' = [req EXCEPT ![r] = [@ EXCEPT !.pc = "done", !.kind = "create", !.on = rec]]
  /\ UNCHANGED <<task, comments, events, history>>

\* The record is loaded, and with it the version the commit will compare.
StartWrite(r, rec, kind) ==
  /\ req[r].pc = "idle" /\ record[rec].there
  /\ req' = [req EXCEPT ![r] = [@ EXCEPT !.pc = "writing", !.kind = kind, !.on = rec,
               !.seen = record[rec].version]]
  /\ UNCHANGED <<tables, events, history>>

\* Faulty variant: the WHERE clause names the key only.
FreshByKey(r) == record[req[r].on].there

\* UPDATE and DELETE name the version that was loaded in their WHERE clause.
Fresh(r) == record[req[r].on].there /\ record[req[r].on].version = req[r].seen

SaveUpdate(r) ==
  /\ req[r].pc = "writing" /\ req[r].kind = "update"
  /\ Fresh(r)
  /\ record' = [record EXCEPT ![req[r].on].version = req[r].seen + 1]
  /\ saves' = [saves EXCEPT ![req[r].on] = @ \cup {r}]
  /\ Goto(r, "done")
  /\ UNCHANGED <<task, comments, events, deciders, rivals, erased>>

\* Faulty variant: reloads and writes again before the conflict is reported.
CollideAndRetry(r) ==
  /\ req[r].pc = "writing" /\ req[r].kind = "update"
  /\ ~Fresh(r) /\ record[req[r].on].there
  /\ record' = [record EXCEPT ![req[r].on].version = @ + 1]
  /\ saves' = [saves EXCEPT ![req[r].on] = @ \cup {r}]
  /\ Goto(r, "collided")
  /\ UNCHANGED <<task, comments, events, deciders, rivals, erased>>

\* StaleDataError: the session is rolled back.
Collide(r) ==
  /\ req[r].pc = "writing" /\ req[r].kind = "update"
  /\ ~Fresh(r)
  /\ Goto(r, "collided")
  /\ UNCHANGED <<tables, events, history>>

DeleteRecord(r) ==
  /\ req[r].pc = "writing" /\ req[r].kind = "delete"
  /\ Fresh(r)
  /\ record' = [record EXCEPT ![req[r].on].there = FALSE]
  /\ Goto(r, "done")
  /\ UNCHANGED <<task, comments, events, history>>

\* Nothing catches the StaleDataError of a deletion: the answer is an error.
DeleteRefused(r) ==
  /\ req[r].pc = "writing" /\ req[r].kind = "delete"
  /\ ~Fresh(r)
  /\ Goto(r, "done")
  /\ UNCHANGED <<tables, events, history>>

\* The process of the request dies; what is not committed is rolled back.
Die(r) ==
  /\ req[r].pc \notin {"idle", "done", "dead"}
  /\ Goto(r, "dead")
  /\ UNCHANGED <<tables, events, history>>

Decision(r) ==
  \/ \E action \in DOMAIN Outcome :
       \/ \E t \in Task : StartDecision(r, t, action)
       \/ \E ids \in SUBSET Task : StartBulk(r, ids, action)
  \/ \E t \in Task : ReadTask(r, t)
  \/ CommitDecision(r) \/ CommitBulk(r) \/ AnnounceDecision(r)

Write(r) ==
  \/ \E rec \in Record :
       CreateRecord(r, rec) \/ StartWrite(r, rec, "update") \/ StartWrite(r, rec, "delete")
  \/ SaveUpdate(r) \/ Collide(r) \/ DeleteRecord(r) \/ DeleteRefused(r)

Queue(r) ==
  \/ \E t \in Task : HaltTransaction(r, t) \/ QueueConflict(r, t)
  \/ AnnounceTask(r)

Next ==
  \/ \E r \in Request : Decision(r) \/ Write(r) \/ Queue(r) \/ Die(r)
  \/ \E old \in SUBSET Task : CleanUp(old)
  \/ \E c \in comments : DeleteComment(c)

Spec == Init /\ [][Next]_vars

(***************************************************************************)
(* Properties                                                              *)
(***************************************************************************)
\* An approved task carries the signature of the one named as its checker,
\* whoever else decided it meanwhile, and an undecided task carries none.
ApprovedIsSigned ==
  \A t \in Task :
    /\ task[t].status = "AUTHORIZED" => task[t].signed = task[t].checker /\ task[t].signed # Nobody
    /\ task[t].status = "HALTED" => task[t].signed = Nobody /\ task[t].checker = Nobody

\* A decision that has been committed is replaced only by those who had already
\* loaded the task when it was: everyone later is told that it is processed.
OnlyRivalsOverturn == \A t \in Task : deciders[t] \subseteq rivals[t]

\* When one request alone decided a task, its event tells what it decided,
\* although the event is built from a row read again after the commit.
LoneDecisionIsTold ==
  \A e \in events :
    e.status # "HALTED" /\ deciders[e.task] = {e.by} => e.status = Outcome[req[e.by].action]

\* A task decided in bulk has the bulk action's comment, unless it was deleted:
\* no failure or race separates the decision from its record.
BulkIsAudited ==
  \A t \in Task : \A r \in deciders[t] :
    req[r].kind = "bulk" => <<t, r>> \in comments \cup erased

\* No committed update of a record is lost under another that did not see it:
\* the version counts the updates.
NoUpdateLost ==
  \A rec \in Record :
    record[rec].version > 0 => record[rec].version = 1 + Cardinality(saves[rec])

\* An update that has been answered is either in the record or, once, in the
\* queue, and never in both.
SavedOrQueued ==
  \A r \in Request :
    req[r].kind = "update" /\ req[r].pc \in {"queued", "done"} =>
      IF r \in saves[req[r].on]
      THEN \A t \in Task : task[t].maker # r
      ELSE \E t \in Task : task[t].maker = r /\ \A u \in Task \ {t} : task[u].maker # r

\* A held task leaves the queue only by a decision: no clean-up takes it, and
\* once decided it never waits again.
LeavesByDecision ==
  [][\A t \in Task :
       /\ task[t].status = "HALTED" => task'[t].status \in {"HALTED"} \cup Decided
       /\ task[t].status \in Decided => task'[t].status \notin {"none", "HALTED"}]_vars

=============================================================================
