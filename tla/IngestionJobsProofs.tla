------------------------ MODULE IngestionJobsProofs ------------------------
(* Proofs about IngestionJobs for every number of jobs and actors.         *)
EXTENDS IngestionJobs, TLAPS

(***************************************************************************)
(* The inductive invariant                                                 *)
(***************************************************************************)
\* Rows in view of a mover have finished; a job has a row since its upload.
PlaceInv ==
  /\ KeptInOnePlace
  /\ \A j \in Job : files[j] = 0 => ~Present(active[j]) /\ ~Present(archive[j])
  /\ \A c \in Clerk : req[c].pc = "loaded" =>
       /\ files[req[c].job] > 0
       /\ req[c].act = "restore" => req[c].seen.status \in Finished
       /\ req[c].act = "requeue" => req[c].seen.status = "FAILED"
       /\ req[c].act = "cancel" => req[c].seen.status = "PENDING"
  /\ \A a \in Archiver, j \in Job : Present(archiving[a][j]) =>
       archiving[a][j].status \in Finished /\ files[j] > 0
  /\ \A w \in Worker :
       /\ worker[w].pc = "idle" => worker[w].msg = NoMessage
       /\ worker[w].pc = "loaded" => worker[w].done = 0

\* A job's work is announced by a request, then by a message, then held by a
\* worker that is yet to claim it.
Announces(c, j) == req[c].pc = "committed" /\ req[c].job = j
Awaited(j) ==
  \/ \E c \in Clerk : Announces(c, j)
  \/ \E m \in queue : m.job = j
  \/ \E w \in Worker : worker[w].pc = "loaded" /\ HasJob(w, j)

\* It is in one of these places only.
OneToken(j) ==
  /\ \A c \in Clerk : Announces(c, j) =>
       /\ \A d \in Clerk : Announces(d, j) => d = c
       /\ \A m \in queue : m.job # j
       /\ \A w \in Worker : ~HasJob(w, j)
       /\ req[c].file = files[j]
  /\ \A m \in queue : m.job = j =>
       /\ \A n \in queue : n.job = j => n = m
       /\ \A w \in Worker : ~HasJob(w, j)
       /\ m.file = files[j]
  /\ \A w \in Worker : HasJob(w, j) =>
       /\ \A x \in Worker : HasJob(x, j) => x = w
       /\ worker[w].msg.file = files[j]

\* The status says where it is, and the row names the last upload.
StatusTells(j) ==
  /\ Awaited(j) => TheRow(j).status \in {"PENDING", "CANCELLED"}
  /\ \A w \in Worker : AtWork(w, j) => active[j].status = "PROCESSING"
  /\ files[j] > 0 => TheRow(j).file = files[j]

\* What has been run of the last upload, and nothing of later ones.
RanSoFar(j) ==
  /\ \A u \in reran : u[1] # j
  /\ \A u \in ran : u[1] = j => u[2] <= files[j]
  /\ Awaited(j) => \A u \in ran : u[1] = j => u[2] # files[j]
  /\ \A w \in Worker : AtWork(w, j) =>
       /\ \A u \in ran : u[1] = j /\ u[2] = files[j] => u[3] <= worker[w].done
       /\ \A k \in 1 .. worker[w].done : <<j, files[j], k>> \in ran
  /\ TheRow(j).status = "COMPLETED" =>
       \A k \in 1 .. Units([job |-> j, file |-> files[j]]) : <<j, files[j], k>> \in ran

JobInv(j) == OneToken(j) /\ StatusTells(j) /\ RanSoFar(j)

IngestionInv == TypeOK /\ PlaceInv /\ \A j \in Job \ disturbed : JobInv(j)

(***************************************************************************)
(* Every step, one case per action                                         *)
(***************************************************************************)
LEMMA UnitsBound == ASSUME NEW m PROVE Units(m) \in Nat /\ Units(m) <= MaxUnits
  BY IngestionAssumption DEF Units

LEMMA NoWorkIsWork == NoWork \in Work /\ NoMessage \notin Message /\ NoRequest \in Request /\ Absent \in Row
  BY IngestionAssumption DEF NoWork, Work, NoMessage, Message, NoRequest, Request, Row, Absent, Unit

\* TypeOK holds at the start.
LEMMA TypeInit == Init => TypeOK
  BY IngestionAssumption, NoWorkIsWork DEF Init, TypeOK, NoWork, NoRequest, Absent, Row

LEMMA WriteTyped ==
  ASSUME active \in [Job -> Row], NEW j, NEW st \in Status, WriteStatus(j, st)
  PROVE  active' \in [Job -> Row]
  BY DEF WriteStatus, Row

RequestsOK ==
  /\ req \in [Clerk -> Request]
  /\ \A c \in Clerk : /\ req[c].pc # "idle" => req[c].job \in Job
                      /\ req[c].pc = "committed" => req[c].file # 0

\* The request a clerk turns to is a request.
LEMMA RequestTyped ==
  ASSUME TypeOK, NEW c \in Clerk, NEW r \in Request, r.pc # "idle" => r.job \in Job,
         r.pc = "committed" => r.file # 0,
         req' = [req EXCEPT ![c] = r]
  PROVE  RequestsOK'
  BY DEF TypeOK, RequestsOK

\* The work a worker turns to is work.
LEMMA WorkTyped ==
  ASSUME TypeOK, NEW w \in Worker, NEW r \in Work, r.pc # "idle" => r.msg \in Message,
         worker' = [worker EXCEPT ![w] = r]
  PROVE  worker' \in [Worker -> Work] /\ \A x \in Worker : worker'[x].pc # "idle" => worker'[x].msg \in Message
  BY DEF TypeOK

LEMMA RestTyped ==
  ASSUME TypeOK, NEW w \in Worker, Rest(w)
  PROVE  worker' \in [Worker -> Work] /\ \A x \in Worker : worker'[x].pc # "idle" => worker'[x].msg \in Message
  BY WorkTyped, NoWorkIsWork DEF Rest, NoWork

LEMMA DropTyped ==
  ASSUME TypeOK, NEW c \in Clerk, req' = [req EXCEPT ![c] = NoRequest]
  PROVE  RequestsOK'
  BY RequestTyped, NoWorkIsWork DEF NoRequest

\* An endpoint's step keeps the types.
LEMMA TypeEndpoint ==
  ASSUME TypeOK, NEW c \in Clerk, EndpointStep(c)
  PROVE  TypeOK'
<1>. USE IngestionAssumption DEF rowVars, workVars
<1>1. ASSUME NEW j \in Job, Upload(c, j) PROVE TypeOK'
  <2>1. [status |-> "PENDING", file |-> 1] \in Row BY <1>1 DEF Upload, Row, Status
  <2>. DEFINE r == [pc |-> "committed", act |-> "upload", job |-> j, seen |-> Absent, file |-> 1]
  <2>2. r \in Request BY <1>1, NoWorkIsWork DEF Upload, Request
  <2>3. req' = [req EXCEPT ![c] = r] BY <1>1 DEF Upload
  <2>4. RequestsOK'
    <3>1. r.job \in Job /\ r.file # 0 OBVIOUS
    <3>2. QED BY <2>2, <2>3, <3>1, RequestTyped
  <2>5. files' \in [Job -> 0 .. MaxFiles] BY <1>1 DEF Upload, TypeOK
  <2>6. QED BY <1>1, <2>1, <2>4, <2>5 DEF Upload, TypeOK, RequestsOK
<1>2. ASSUME NEW j \in Job, NEW act \in {"cancel", "requeue", "restore"}, Load(c, j, act) PROVE TypeOK'
  <2>. DEFINE r == [pc |-> "loaded", act |-> act, job |-> j, file |-> 0,
                    seen |-> IF act = "restore" THEN archive[j] ELSE active[j]]
  <2>2. r \in Request BY DEF Request, TypeOK
  <2>3. req' = [req EXCEPT ![c] = r] BY <1>2 DEF Load
  <2>4. RequestsOK'
    BY <2>2, <2>3, RequestTyped
  <2>5. QED BY <1>2, <2>4 DEF Load, TypeOK, RequestsOK
<1>3. CASE Dispatch(c)
  <2>1. [job |-> req[c].job, file |-> req[c].file] \in Message BY <1>3 DEF Dispatch, TypeOK, Request, Message
  <2>2. QED BY <1>3, <2>1, DropTyped DEF Dispatch, TypeOK, RequestsOK
<1>4. CASE Cancel(c)
  <2>1. active' \in [Job -> Row] BY <1>4, WriteTyped DEF Cancel, TypeOK, Status, Finished, Final
  <2>2. disturbed' \subseteq Job BY <1>4 DEF Cancel, TypeOK, Unexpected
  <2>3. QED BY <1>4, <2>1, <2>2, DropTyped DEF Cancel, TypeOK, RequestsOK
<1>5. CASE Requeue(c)
  <2>. DEFINE j == req[c].job
              r == [req[c] EXCEPT !.pc = "committed", !.seen = Absent, !.file = files[j] + 1]
  <2>1. j \in Job /\ files[j] + 1 \in 0 .. MaxFiles BY <1>5 DEF Requeue, TypeOK
  <2>2. [status |-> "PENDING", file |-> files[j] + 1] \in Row BY <2>1 DEF Row, Status
  <2>3. r \in Request BY <2>1, NoWorkIsWork DEF TypeOK, Request
  <2>4. req' = [req EXCEPT ![c] = r] BY <1>5 DEF Requeue
  <2>5. RequestsOK'
    <3>1. r.job = j
      <4>1. req[c] \in Request BY DEF TypeOK
      <4>2. QED BY <4>1 DEF Request
    <3>2. r.file # 0 BY <2>1 DEF TypeOK
    <3>3. QED BY <2>1, <2>3, <2>4, <3>1, <3>2, RequestTyped
  <2>6. disturbed' \subseteq Job BY <1>5 DEF Requeue, TypeOK, Unexpected
  <2>7. files' \in [Job -> 0 .. MaxFiles] BY <1>5, <2>1 DEF Requeue, TypeOK
  <2>8. active' \in [Job -> Row] BY <1>5, <2>2 DEF Requeue, TypeOK
  <2>9. QED BY <1>5, <2>5, <2>6, <2>7, <2>8 DEF Requeue, TypeOK, RequestsOK
<1>6. CASE Restore(c)
  <2>1. active' \in [Job -> Row] /\ archive' \in [Job -> Row]
    BY <1>6, NoWorkIsWork DEF Restore, TypeOK, Request
  <2>2. disturbed' \subseteq Job BY <1>6 DEF Restore, TypeOK
  <2>3. QED BY <1>6, <2>1, <2>2, DropTyped DEF Restore, TypeOK, RequestsOK
<1>7. CASE RequestFails(c) \/ RequestDies(c)
  BY <1>7, DropTyped DEF RequestFails, RequestDies, TypeOK, RequestsOK
<1>8. QED BY <1>1, <1>2, <1>3, <1>4, <1>5, <1>6, <1>7 DEF EndpointStep

\* A worker's step keeps the types.
LEMMA TypeWorker ==
  ASSUME TypeOK, NEW w \in Worker, WorkerStep(w)
  PROVE  TypeOK'
<1>. USE IngestionAssumption DEF rowVars, workVars
<1>1. ASSUME NEW m \in queue, Start(w, m) PROVE TypeOK'
  <2>. DEFINE r == [pc |-> "loaded", msg |-> m, done |-> 0]
  <2>1. r \in Work /\ r.msg \in Message BY DEF TypeOK, Work
  <2>2. worker' = [worker EXCEPT ![w] = r] BY <1>1 DEF Start
  <2>3. worker' \in [Worker -> Work] /\ \A x \in Worker : worker'[x].pc # "idle" => worker'[x].msg \in Message
    BY <2>1, <2>2, WorkTyped
  <2>4. QED BY <1>1, <2>3 DEF Start, TypeOK
<1>2. CASE \E m \in queue : TurnAway(w, m) \/ StartFails(w, m)
  BY <1>2 DEF TurnAway, StartFails, Message, TypeOK
<1>3. CASE Claim(w)
  <2>1. active' \in [Job -> Row] BY <1>3, WriteTyped DEF Claim, TypeOK, Status
  <2>2. disturbed' \subseteq Job BY <1>3 DEF Claim, TypeOK, Unexpected, Message
  <2>3. worker' \in [Worker -> Work] /\ \A x \in Worker : worker'[x].pc # "idle" => worker'[x].msg \in Message
    BY <1>3 DEF Claim, TypeOK, Work
  <2>4. QED BY <1>3, <2>1, <2>2, <2>3 DEF Claim, TypeOK
<1>4. CASE ClaimFails(w) \/ FailUnwritten(w) \/ TimeLimit(w)
  <2>1. hit' \subseteq Job BY <1>4 DEF ClaimFails, FailUnwritten, TimeLimit, TypeOK, Message
  <2>2. losses' \in 0 .. MaxLosses BY <1>4 DEF ClaimFails, FailUnwritten, TimeLimit, TypeOK
  <2>3. Rest(w) BY <1>4 DEF ClaimFails, FailUnwritten, TimeLimit
  <2>4. QED BY <1>4, <2>1, <2>2, <2>3, RestTyped DEF ClaimFails, FailUnwritten, TimeLimit, TypeOK
<1>5. CASE RunUnit(w)
  <2>. DEFINE m == worker[w].msg
  <2>0. m \in Message BY <1>5 DEF RunUnit, TypeOK
  <2>1. worker[w].done + 1 \in Unit /\ worker[w].done + 1 \in 0 .. MaxUnits
    BY <1>5, UnitsBound DEF RunUnit, TypeOK, Work, Unit
  <2>2. <<m.job, m.file, worker[w].done + 1>> \in Job \X (1 .. MaxFiles) \X Unit
    BY <2>0, <2>1 DEF Message
  <2>3. worker' \in [Worker -> Work] /\ \A x \in Worker : worker'[x].pc # "idle" => worker'[x].msg \in Message
    BY <1>5, <2>1 DEF RunUnit, TypeOK, Work
  <2>4. ran' \subseteq Job \X (1 .. MaxFiles) \X Unit /\ reran' \subseteq ran'
    BY <1>5, <2>2 DEF RunUnit, TypeOK
  <2>5. QED BY <1>5, <2>3, <2>4 DEF RunUnit, TypeOK
<1>6. CASE Complete(w) \/ Fail(w)
  <2>1. active' \in [Job -> Row]
    BY <1>6, WriteTyped DEF Complete, Fail, TypeOK, Status, Finished, Final
  <2>2. QED BY <1>6, <2>1, RestTyped DEF Complete, Fail, TypeOK
<1>7. CASE WorkerLost(w) \/ Redeliver(w)
  <2>1. queue' \subseteq Message BY <1>7 DEF WorkerLost, Redeliver, Back, TypeOK
  <2>2. disturbed' \subseteq Job BY <1>7 DEF WorkerLost, Redeliver, TypeOK, Message
  <2>3. losses' \in 0 .. MaxLosses BY <1>7 DEF WorkerLost, Redeliver, TypeOK
  <2>4. QED BY <1>7, <2>1, <2>2, <2>3, RestTyped DEF WorkerLost, Redeliver, TypeOK
<1>8. QED BY <1>1, <1>2, <1>3, <1>4, <1>5, <1>6, <1>7 DEF WorkerStep, Take, GoOn

\* A maintenance step keeps the types.
LEMMA TypeMaintenance ==
  ASSUME TypeOK, MaintenanceStep
  PROVE  TypeOK'
<1>. USE IngestionAssumption DEF rowVars, workVars
<1>1. ASSUME NEW a \in Archiver, Archive(a) PROVE TypeOK'
  BY <1>1, NoWorkIsWork DEF Archive, Moved, EmptyBatch, Batch, TypeOK
<1>2. ASSUME NEW a \in Archiver, ArchiveRollsBack(a) PROVE TypeOK'
  BY <1>2, NoWorkIsWork DEF ArchiveRollsBack, EmptyBatch, TypeOK
<1>3. ASSUME NEW a \in Archiver, NEW S \in SUBSET Job, ArchiveLoad(a, S) PROVE TypeOK'
  BY <1>3, NoWorkIsWork DEF ArchiveLoad, TypeOK
<1>4. ASSUME NEW f \in Flagger, Flag(f) PROVE TypeOK'
  <2>1. flagging[f] \subseteq Job /\ active \in [Job -> Row] BY DEF TypeOK
  <2>2. \A j \in Job : [active[j] EXCEPT !.status = "FAILED"] \in Row
    BY <2>1 DEF Row, Status, Finished
  <2>3. active' \in [Job -> Row] BY <1>4, <2>1, <2>2 DEF Flag, Flagged
  <2>4. disturbed' \subseteq Job BY <1>4, <2>1 DEF Flag, Unexpected, TypeOK
  <2>5. QED BY <1>4, <2>3, <2>4 DEF Flag, TypeOK
<1>5. ASSUME NEW f \in Flagger, NEW S \in SUBSET Job, FlagLoad(f, S) PROVE TypeOK'
  BY <1>5 DEF FlagLoad, TypeOK
<1>6. QED BY <1>1, <1>2, <1>3, <1>4, <1>5 DEF MaintenanceStep

LEMMA TypeStep == TypeOK /\ [Next]_vars => TypeOK'
<1>1. ASSUME TypeOK, UNCHANGED vars PROVE TypeOK'
  BY <1>1 DEF TypeOK, vars, rowVars, workVars
<1>2. QED BY <1>1, TypeEndpoint, TypeWorker, TypeMaintenance DEF Next

(***************************************************************************)
(* Where a job's row is                                                    *)
(***************************************************************************)
\* PlaceInv holds at the start.
LEMMA PlaceInit == Init => PlaceInv
  BY DEF Init, PlaceInv, KeptInOnePlace, Present, Absent, NoRequest, NoWork

\* A change of status leaves every row where it is.
LEMMA WriteStays ==
  ASSUME active \in [Job -> Row], NEW j, NEW st \in Status, WriteStatus(j, st)
  PROVE  \A k \in Job : Present(active'[k]) <=> Present(active[k])
  BY DEF WriteStatus, Row, Present, Status, Finished, Final

\* An endpoint's step keeps every row in one place.
LEMMA PlaceEndpoint ==
  ASSUME TypeOK, PlaceInv, NEW c \in Clerk, EndpointStep(c)
  PROVE  PlaceInv'
<1>. USE IngestionAssumption DEF rowVars, workVars
<1>1. ASSUME NEW j \in Job, Upload(c, j) PROVE PlaceInv'
  BY <1>1 DEF Upload, PlaceInv, KeptInOnePlace, Present, TypeOK
<1>2. ASSUME NEW j \in Job, NEW act \in {"cancel", "requeue", "restore"}, Load(c, j, act) PROVE PlaceInv'
  <2>1. act = "restore" => archive[j].status \in Finished
    BY <1>2 DEF Load, Legal, PlaceInv, KeptInOnePlace
  <2>2. files[j] > 0
    BY <1>2 DEF Load, Legal, PlaceInv, Present, TypeOK
  <2>3. \A d \in Clerk : req'[d] = req[d] \/ (d = c /\ req'[d].act = act /\ req'[d].job = j
          /\ req'[d].seen = IF act = "restore" THEN archive[j] ELSE active[j])
    BY <1>2 DEF Load, TypeOK
  <2>4. act = "cancel" => active[j].status = "PENDING" BY <1>2 DEF Load, Legal
  <2>5. act = "requeue" => active[j].status = "FAILED" BY <1>2 DEF Load, Legal
  <2>6. QED BY <1>2, <2>1, <2>2, <2>3, <2>4, <2>5 DEF Load, PlaceInv, KeptInOnePlace
<1>3. CASE Dispatch(c)
  BY <1>3 DEF Dispatch, NoRequest, PlaceInv, KeptInOnePlace, TypeOK
<1>4. CASE Cancel(c)
  <2>1. \A k \in Job : Present(active'[k]) <=> Present(active[k])
    BY <1>4, WriteStays DEF Cancel, TypeOK, Status, Finished, Final
  <2>2. QED BY <1>4, <2>1 DEF Cancel, NoRequest, PlaceInv, KeptInOnePlace, TypeOK
<1>5. CASE Requeue(c)
  <2>1. req[c].job \in Job /\ files[req[c].job] + 1 \in 1 .. MaxFiles
    BY <1>5 DEF Requeue, TypeOK
  <2>2. \A k \in Job : Present(active'[k]) <=> Present(active[k])
    BY <1>5, <2>1 DEF Requeue, TypeOK, Present
  <2>3. \A d \in Clerk : req'[d].pc = "loaded" => req'[d] = req[d]
    BY <1>5 DEF Requeue, TypeOK, Request
  <2>5. \A k \in Job : files'[k] = files[k] \/ (files'[k] > 0 /\ files[k] + 1 = files'[k] /\ Present(active[k]))
    BY <1>5, <2>1 DEF Requeue, TypeOK
  <2>6. files' \in [Job -> Nat] /\ files \in [Job -> Nat] BY <1>5, <2>1 DEF Requeue, TypeOK
  <2>7. QED BY <1>5, <2>2, <2>3, <2>5, <2>6 DEF Requeue, PlaceInv, KeptInOnePlace
<1>6. CASE Restore(c)
  <2>1. req[c].seen.status \in Finished /\ req[c].job \in Job BY <1>6 DEF Restore, PlaceInv, TypeOK
  <2>2. files[req[c].job] > 0 BY <1>6 DEF Restore, PlaceInv
  <2>3. Present(req[c].seen) /\ ~Present(Absent) BY <2>1 DEF Present, Absent, Finished, Final
  <2>4. \A j \in Job :
          \/ active'[j] = active[j] /\ archive'[j] = archive[j]
          \/ j = req[c].job /\ Present(active'[j]) /\ ~Present(archive'[j])
    <3>1. active \in [Job -> Row] /\ archive \in [Job -> Row] BY DEF TypeOK
    <3>2. QED BY <1>6, <2>3, <3>1 DEF Restore
  <2>5. KeptInOnePlace' BY <1>6, <2>4 DEF Restore, PlaceInv, KeptInOnePlace
  <2>6. \A d \in Clerk : req'[d].pc = "loaded" => req'[d] = req[d]
    BY <1>6 DEF Restore, NoRequest, TypeOK
  <2>7. \A j \in Job : files[j] = 0 => ~Present(active'[j]) /\ ~Present(archive'[j])
    BY <2>2, <2>4 DEF PlaceInv
  <2>8. UNCHANGED <<files, worker, archiving>> BY <1>6 DEF Restore
  <2>9. QED BY <2>5, <2>6, <2>7, <2>8 DEF PlaceInv
<1>7. CASE RequestFails(c) \/ RequestDies(c)
  <2>1. \A d \in Clerk : req'[d].pc = "loaded" => req'[d] = req[d]
    BY <1>7 DEF RequestFails, RequestDies, NoRequest, TypeOK
  <2>2. UNCHANGED <<active, archive, files, worker, archiving>> BY <1>7 DEF RequestFails, RequestDies
  <2>3. QED BY <2>1, <2>2 DEF PlaceInv, KeptInOnePlace
<1>8. QED BY <1>1, <1>2, <1>3, <1>4, <1>5, <1>6, <1>7 DEF EndpointStep

\* A worker's step keeps every row in one place.
LEMMA PlaceWorker ==
  ASSUME TypeOK, PlaceInv, NEW w \in Worker, WorkerStep(w)
  PROVE  PlaceInv'
<1>. USE DEF rowVars, workVars
<1>1. \A k \in Job : Present(active'[k]) <=> Present(active[k])
  <2>1. CASE Claim(w) \/ Complete(w) \/ Fail(w)
    BY <2>1, WriteStays DEF Claim, Complete, Fail, TypeOK, Status, Finished, Final
  <2>2. CASE UNCHANGED active BY <2>2
  <2>3. QED BY <2>1, <2>2 DEF WorkerStep, Take, GoOn, Start, TurnAway, StartFails, ClaimFails, RunUnit,
                 FailUnwritten, WorkerLost, TimeLimit, Redeliver
<1>2. UNCHANGED <<archive, files, req, archiving>>
  BY DEF WorkerStep, Take, GoOn, Start, TurnAway, StartFails, Claim, ClaimFails, RunUnit, Complete, Fail,
                 FailUnwritten, WorkerLost, TimeLimit, Redeliver
<1>3. \A x \in Worker :
         /\ worker'[x].pc = "idle" => worker'[x].msg = NoMessage
         /\ worker'[x].pc = "loaded" => worker'[x].done = 0
  <2>1. \A x \in Worker : x # w => worker'[x] = worker[x]
    BY DEF TypeOK, Rest, WorkerStep, Take, GoOn, Start, TurnAway, StartFails, Claim, ClaimFails, RunUnit,
           Complete, Fail, FailUnwritten, WorkerLost, TimeLimit, Redeliver
  <2>2. CASE Rest(w) \/ UNCHANGED worker BY <2>1, <2>2 DEF Rest, NoWork, TypeOK, PlaceInv
  <2>3. ASSUME NEW m \in queue, Start(w, m)
        PROVE  worker'[w].pc = "loaded" /\ worker'[w].done = 0
    BY <2>3 DEF Start, TypeOK
  <2>4. ASSUME Claim(w) \/ RunUnit(w) PROVE worker'[w].pc = "running"
    BY <2>4 DEF Claim, RunUnit, TypeOK, Work
  <2>5. QED BY <2>1, <2>2, <2>3, <2>4 DEF PlaceInv, WorkerStep, Take, GoOn, TurnAway, StartFails, ClaimFails,
             Complete, Fail, FailUnwritten, WorkerLost, TimeLimit, Redeliver
<1>4. QED BY <1>1, <1>2, <1>3 DEF PlaceInv, KeptInOnePlace

\* A maintenance step keeps every row in one place.
LEMMA PlaceMaintenance ==
  ASSUME TypeOK, PlaceInv, MaintenanceStep
  PROVE  PlaceInv'
<1>. USE DEF rowVars, workVars
<1>1. ASSUME NEW a \in Archiver, Archive(a) PROVE PlaceInv'
  <2>1. \A j \in Batch(a) : archiving[a][j].status \in Finished BY DEF Batch, PlaceInv
  <2>2. KeptInOnePlace'
    BY <1>1, <2>1 DEF Archive, Moved, Batch, PlaceInv, KeptInOnePlace, Present, Absent, Finished, Final
  <2>3. \A b \in Archiver, j \in Job : Present(archiving'[b][j]) =>
          archiving'[b][j].status \in Finished /\ files[j] > 0
    BY <1>1 DEF Archive, EmptyBatch, PlaceInv, Present, Absent, TypeOK
  <2>4. \A j \in Job : files[j] = 0 => ~Present(active'[j]) /\ ~Present(archive'[j])
    <3>1. \A j \in Batch(a) : files[j] # 0 BY DEF PlaceInv, Batch
    <3>2. QED BY <1>1, <3>1 DEF Archive, Moved, PlaceInv, Present, Absent
  <2>5. QED BY <1>1, <2>2, <2>3, <2>4 DEF Archive, PlaceInv
<1>2. ASSUME NEW a \in Archiver, ArchiveRollsBack(a) PROVE PlaceInv'
  BY <1>2 DEF ArchiveRollsBack, EmptyBatch, PlaceInv, KeptInOnePlace, Present, Absent, TypeOK
<1>3. ASSUME NEW a \in Archiver, NEW S \in SUBSET Job, ArchiveLoad(a, S) PROVE PlaceInv'
  BY <1>3 DEF ArchiveLoad, Aged, PlaceInv, KeptInOnePlace, Present, Absent, TypeOK
<1>4. ASSUME NEW f \in Flagger, Flag(f) PROVE PlaceInv'
  <2>1. \A k \in Job : Present(active'[k]) <=> Present(active[k])
    BY <1>4 DEF Flag, Flagged, Present, TypeOK, Row
  <2>2. QED BY <1>4, <2>1 DEF Flag, PlaceInv, KeptInOnePlace
<1>5. ASSUME NEW f \in Flagger, NEW S \in SUBSET Job, FlagLoad(f, S) PROVE PlaceInv'
  BY <1>5 DEF FlagLoad, PlaceInv, KeptInOnePlace
<1>6. QED BY <1>1, <1>2, <1>3, <1>4, <1>5 DEF MaintenanceStep

LEMMA PlaceStep == TypeOK /\ PlaceInv /\ [Next]_vars => PlaceInv'
<1>1. ASSUME PlaceInv, UNCHANGED vars PROVE PlaceInv'
  BY <1>1 DEF PlaceInv, KeptInOnePlace, vars, rowVars, workVars
<1>2. QED BY <1>1, PlaceEndpoint, PlaceWorker, PlaceMaintenance DEF Next

(***************************************************************************)
(* A settled job                                                           *)
(***************************************************************************)
\* An endpoint's step leaves a settled job alone.
LEMMA SettledEndpoint ==
  ASSUME TypeOK, PlaceInv, NEW c \in Clerk, EndpointStep(c), NEW j \in Job, Settled(j)
  PROVE  SettledStays(j)
<1>. USE DEF rowVars, workVars, SettledStays
<1>0. KeptInOnePlace /\ TheRow(j).status \in Final BY DEF PlaceInv, Settled
<1>1. ASSUME NEW i \in Job, Upload(c, i) PROVE SettledStays(j)
  <2>1. i # j
    BY <1>1, <1>0 DEF Upload, PlaceInv, TheRow, Present, Final
  <2>2. TheRow(j)' = TheRow(j) BY <1>1, <2>1 DEF Upload, TheRow, TypeOK
  <2>3. \A d \in Clerk : req'[d].pc = "loaded" => req'[d] = req[d] BY <1>1 DEF Upload, TypeOK
  <2>4. QED BY <1>1, <2>2, <2>3 DEF Upload, Settled, HasJob
<1>2. ASSUME NEW i \in Job, NEW act \in {"cancel", "requeue", "restore"}, Load(c, i, act) PROVE SettledStays(j)
  <2>1. i = j => act = "restore" /\ TheRow(j) = archive[j]
    BY <1>2, <1>0 DEF Load, Legal, TheRow, Final, KeptInOnePlace, Present
  <2>2. \A d \in Clerk : req'[d] = req[d] \/ (d = c /\ req'[d].act = act /\ req'[d].job = i
          /\ req'[d].seen = IF act = "restore" THEN archive[i] ELSE active[i])
    BY <1>2 DEF Load, TypeOK
  <2>3. TheRow(j)' = TheRow(j) BY <1>2 DEF Load, TheRow
  <2>4. QED BY <1>2, <2>1, <2>2, <2>3 DEF Load, Settled, HasJob
<1>3. CASE Dispatch(c) \/ RequestFails(c) \/ RequestDies(c)
  <2>1. \A d \in Clerk : req'[d].pc = "loaded" => req'[d] = req[d]
    BY <1>3 DEF Dispatch, RequestFails, RequestDies, NoRequest, TypeOK
  <2>2. TheRow(j)' = TheRow(j) BY <1>3 DEF Dispatch, RequestFails, RequestDies, TheRow
  <2>3. QED BY <1>3, <2>1, <2>2 DEF Dispatch, RequestFails, RequestDies, Settled, HasJob
<1>4. CASE Cancel(c) \/ Requeue(c)
  <2>1. req[c].job # j BY <1>4 DEF Cancel, Requeue, Settled
  <2>2. active'[j] = active[j] BY <1>4, <2>1 DEF Cancel, Requeue, WriteStatus, TypeOK
  <2>3. TheRow(j)' = TheRow(j) BY <1>4, <2>2 DEF Cancel, Requeue, TheRow
  <2>4. \A d \in Clerk : req'[d].pc = "loaded" => req'[d] = req[d]
    <3>1. \A d \in Clerk : d # c => req'[d] = req[d] BY <1>4 DEF Cancel, Requeue, TypeOK
    <3>2. req'[c].pc # "loaded"
      <4>1. req[c] \in Request BY DEF TypeOK
      <4>2. CASE Cancel(c) BY <4>2 DEF Cancel, NoRequest, TypeOK
      <4>3. CASE Requeue(c) BY <4>1, <4>3 DEF Requeue, TypeOK, Request
      <4>4. QED BY <1>4, <4>2, <4>3
    <3>3. QED BY <3>1, <3>2
  <2>5. QED BY <1>4, <2>3, <2>4 DEF Cancel, Requeue, Settled, HasJob
<1>5. CASE Restore(c)
  <2>1. req[c].job = j => req[c].seen = TheRow(j) BY <1>5 DEF Restore, Settled
  <2>2. TheRow(j)' = TheRow(j)
    <3>1. active \in [Job -> Row] /\ archive \in [Job -> Row] BY DEF TypeOK
    <3>2. CASE req[c].job = j BY <1>0, <1>5, <2>1, <3>1, <3>2 DEF Restore, TheRow, Present, Final
    <3>3. CASE req[c].job # j BY <1>5, <3>1, <3>3 DEF Restore, TheRow
    <3>4. QED BY <3>2, <3>3
  <2>3. \A d \in Clerk : req'[d].pc = "loaded" => req'[d] = req[d] BY <1>5 DEF Restore, NoRequest, TypeOK
  <2>4. QED BY <1>5, <2>2, <2>3 DEF Restore, Settled, HasJob
<1>6. QED BY <1>1, <1>2, <1>3, <1>4, <1>5 DEF EndpointStep

\* A worker's step leaves a settled job alone: its messages are turned away.
LEMMA SettledWorker ==
  ASSUME TypeOK, PlaceInv, NEW w \in Worker, WorkerStep(w), NEW j \in Job, Settled(j)
  PROVE  SettledStays(j)
<1>. USE DEF rowVars, workVars
<1>0. ~HasJob(w, j) /\ TheRow(j).status \in Final BY DEF Settled
<1>1. active'[j] = active[j]
  <2>1. CASE Claim(w) \/ Complete(w) \/ Fail(w)
    BY <1>0, <2>1 DEF Claim, Complete, Fail, WriteStatus, HasJob, TypeOK
  <2>2. CASE UNCHANGED active BY <2>2
  <2>3. QED BY <2>1, <2>2 DEF WorkerStep, Take, GoOn, Start, TurnAway, StartFails, ClaimFails, RunUnit,
                 FailUnwritten, WorkerLost, TimeLimit, Redeliver
<1>2. UNCHANGED <<archive, req, archiving, flagging>>
  BY DEF WorkerStep, Take, GoOn, Start, TurnAway, StartFails, Claim, ClaimFails, RunUnit, Complete, Fail,
                 FailUnwritten, WorkerLost, TimeLimit, Redeliver
<1>3. TheRow(j)' = TheRow(j) BY <1>1, <1>2 DEF TheRow
<1>4. \A x \in Worker : ~HasJob(x, j)'
  <2>1. \A x \in Worker : x # w => worker'[x] = worker[x]
    BY DEF TypeOK, Rest, WorkerStep, Take, GoOn, Start, TurnAway, StartFails, Claim, ClaimFails, RunUnit,
           Complete, Fail, FailUnwritten, WorkerLost, TimeLimit, Redeliver
  <2>2. worker'[w].msg.job # j
    <3>1. ASSUME NEW m \in queue, Start(w, m) PROVE worker'[w].msg.job # j
      <4>1. m.job # j BY <1>0, <3>1 DEF Start, TheRow, Present, Final
      <4>2. QED BY <3>1, <4>1 DEF Start, TypeOK
    <3>2. CASE Rest(w)
      <4>1. worker'[w].msg.job = None BY <3>2 DEF Rest, NoWork, NoMessage, TypeOK
      <4>2. QED BY <4>1, IngestionAssumption
    <3>3. CASE worker'[w].msg = worker[w].msg BY <1>0, <3>3 DEF HasJob
    <3>4. QED
      <4>1. ASSUME Claim(w) \/ RunUnit(w) PROVE worker'[w].msg = worker[w].msg
        BY <4>1 DEF Claim, RunUnit, TypeOK, Work
      <4>2. QED BY <3>1, <3>2, <3>3, <4>1 DEF WorkerStep, Take, GoOn, TurnAway, StartFails, ClaimFails,
                  Complete, Fail, FailUnwritten, WorkerLost, TimeLimit, Redeliver
  <2>3. QED BY <1>0, <2>1, <2>2 DEF HasJob, Settled
<1>5. \A u \in ran' : u[1] = j => u \in ran
  BY <1>0 DEF HasJob, WorkerStep, Take, GoOn, Start, TurnAway, StartFails, Claim, ClaimFails, RunUnit,
         Complete, Fail, FailUnwritten, WorkerLost, TimeLimit, Redeliver
<1>6. \A u \in reran' : u[1] = j => u \in reran
  BY <1>0 DEF HasJob, WorkerStep, Take, GoOn, Start, TurnAway, StartFails, Claim, ClaimFails, RunUnit,
         Complete, Fail, FailUnwritten, WorkerLost, TimeLimit, Redeliver
<1>7. QED BY <1>2, <1>3, <1>4, <1>5, <1>6 DEF Settled, SettledStays

\* A maintenance step may move a settled job's row, and nothing else.
LEMMA SettledMaintenance ==
  ASSUME TypeOK, PlaceInv, MaintenanceStep, NEW j \in Job, Settled(j)
  PROVE  SettledStays(j)
<1>. USE DEF rowVars, workVars
<1>0. KeptInOnePlace /\ TheRow(j).status \in Final BY DEF PlaceInv, Settled
<1>1. ASSUME NEW a \in Archiver, Archive(a) PROVE SettledStays(j)
  <2>1. TheRow(j)' = TheRow(j)
    <3>1. CASE j \in Batch(a)
      <4>1. archiving[a][j] = TheRow(j) BY <3>1 DEF Settled, Batch, Present, Absent
      <4>2. QED BY <1>1, <3>1, <4>1 DEF Archive, Moved, TheRow, Present, Absent
    <3>2. CASE j \notin Batch(a) BY <1>1, <3>2 DEF Archive, Moved, TheRow
    <3>3. QED BY <3>1, <3>2
  <2>2. \A b \in Archiver : archiving'[b][j] \in {Absent, archiving[b][j]}
    BY <1>1 DEF Archive, EmptyBatch, TypeOK
  <2>3. QED BY <1>1, <2>1, <2>2 DEF Archive, Settled, SettledStays, HasJob
<1>2. ASSUME NEW a \in Archiver, ArchiveRollsBack(a) PROVE SettledStays(j)
  <2>1. TheRow(j)' = TheRow(j) BY <1>2 DEF ArchiveRollsBack, TheRow
  <2>2. \A b \in Archiver : archiving'[b][j] \in {Absent, archiving[b][j]}
    BY <1>2 DEF ArchiveRollsBack, EmptyBatch, TypeOK
  <2>3. QED BY <1>2, <2>1, <2>2 DEF ArchiveRollsBack, Settled, SettledStays, HasJob
<1>3. ASSUME NEW a \in Archiver, NEW S \in SUBSET Job, ArchiveLoad(a, S) PROVE SettledStays(j)
  <2>1. TheRow(j)' = TheRow(j) BY <1>3 DEF ArchiveLoad, TheRow
  <2>2. j \in S => active[j] = TheRow(j) BY <1>3 DEF ArchiveLoad, Aged, TheRow, Present, Finished, Final
  <2>3. \A b \in Archiver : archiving'[b][j] \in {Absent, archiving[b][j], TheRow(j)}
    BY <1>3, <2>2 DEF ArchiveLoad, TypeOK
  <2>4. QED BY <1>3, <2>1, <2>3 DEF ArchiveLoad, Settled, SettledStays, HasJob
<1>4. ASSUME NEW f \in Flagger, Flag(f) PROVE SettledStays(j)
  <2>1. j \notin flagging[f] BY DEF Settled
  <2>2. TheRow(j)' = TheRow(j) BY <1>4, <2>1 DEF Flag, Flagged, TheRow
  <2>3. \A g \in Flagger : j \notin flagging'[g] BY <1>4 DEF Flag, Settled, TypeOK
  <2>4. QED BY <1>4, <2>2, <2>3 DEF Flag, Settled, SettledStays, HasJob
<1>5. ASSUME NEW f \in Flagger, NEW S \in SUBSET Job, FlagLoad(f, S) PROVE SettledStays(j)
  <2>1. TheRow(j)' = TheRow(j) BY <1>5 DEF FlagLoad, TheRow
  <2>2. j \notin S BY <1>0, <1>5 DEF FlagLoad, TheRow, Present, Final
  <2>3. \A g \in Flagger : j \notin flagging'[g] BY <1>5, <2>2 DEF FlagLoad, Settled, TypeOK
  <2>4. QED BY <1>5, <2>1, <2>3 DEF FlagLoad, Settled, SettledStays, HasJob
<1>6. QED BY <1>1, <1>2, <1>3, <1>4, <1>5 DEF MaintenanceStep

LEMMA SettledStep ==
  ASSUME TypeOK, PlaceInv, [Next]_vars, NEW j \in Job
  PROVE  SettledStays(j)
<1>1. ASSUME ~Settled(j) PROVE SettledStays(j) BY <1>1 DEF SettledStays
<1>2. ASSUME Settled(j), UNCHANGED vars PROVE SettledStays(j)
  BY <1>2 DEF SettledStays, Settled, TheRow, HasJob, vars, rowVars, workVars
<1>3. QED BY <1>1, <1>2, SettledEndpoint, SettledWorker, SettledMaintenance DEF Next

(***************************************************************************)
(* A job's work                                                            *)
(***************************************************************************)
\* The places of a job's work, by what a worker's pc says.
LEMMA HolderIs ==
  ASSUME TypeOK, PlaceInv, NEW w \in Worker, NEW j \in Job, HasJob(w, j)
  PROVE  /\ worker[w].msg \in Message /\ worker[w].msg = [job |-> j, file |-> worker[w].msg.file]
         /\ (worker[w].pc = "loaded" /\ Awaited(j)) \/ AtWork(w, j)
<1>1. worker[w].pc # "idle" BY IngestionAssumption DEF PlaceInv, HasJob, NoMessage
<1>2. worker[w].msg \in Message BY <1>1 DEF TypeOK
<1>3. worker[w].pc \in {"loaded", "running"} BY <1>1 DEF TypeOK, Work
<1>4. QED BY <1>2, <1>3 DEF Message, HasJob, AtWork, Awaited

\* A step that adds no work to a job and leaves its row, its last upload and its
\* units alone keeps the job's invariant.
LEMMA JobFrame ==
  ASSUME NEW j \in Job, JobInv(j),
         \A c \in Clerk : Announces(c, j)' => Announces(c, j) /\ req'[c].file = req[c].file,
         \A m \in queue' : m.job = j => m \in queue,
         \A w \in Worker : HasJob(w, j)' => worker'[w] = worker[w],
         TheRow(j)' = TheRow(j), files'[j] = files[j],
         \A w \in Worker : AtWork(w, j) => active'[j] = active[j],
         \A u \in ran' \cup ran : u[1] = j => (u \in ran' <=> u \in ran),
         \A u \in reran' : u[1] = j => u \in reran
  PROVE  JobInv(j)'
<1>1. \A w \in Worker : HasJob(w, j)' => HasJob(w, j) BY DEF HasJob
<1>2. Awaited(j)' => Awaited(j) BY <1>1 DEF Awaited, HasJob
<1>3. \A w \in Worker : AtWork(w, j)' => AtWork(w, j) BY <1>1 DEF AtWork
<1>4. OneToken(j)'
  <2>1. ASSUME NEW c \in Clerk, Announces(c, j)'
        PROVE  /\ \A d \in Clerk : Announces(d, j)' => d = c
               /\ \A m \in queue' : m.job # j
               /\ \A w \in Worker : ~HasJob(w, j)'
               /\ req'[c].file = files'[j]
    BY <1>1, <2>1 DEF JobInv, OneToken
  <2>2. ASSUME NEW m \in queue', m.job = j
        PROVE  /\ \A n \in queue' : n.job = j => n = m
               /\ \A w \in Worker : ~HasJob(w, j)'
               /\ m.file = files'[j]
    BY <1>1, <2>2 DEF JobInv, OneToken
  <2>3. ASSUME NEW w \in Worker, HasJob(w, j)'
        PROVE  /\ \A x \in Worker : HasJob(x, j)' => x = w
               /\ worker'[w].msg.file = files'[j]
    BY <1>1, <2>3 DEF JobInv, OneToken
  <2>4. QED BY <2>1, <2>2, <2>3 DEF OneToken
<1>5. StatusTells(j)'
  BY <1>2, <1>3 DEF JobInv, StatusTells
<1>6. RanSoFar(j)'
  <2>1. \A w \in Worker : AtWork(w, j)' => worker'[w].done = worker[w].done BY DEF AtWork, HasJob
  <2>2. \A k : <<j, files[j], k>> \in ran => <<j, files[j], k>> \in ran' OBVIOUS
  <2>3. \A u \in ran' : u[1] = j => u \in ran OBVIOUS
  <2>4. Units([job |-> j, file |-> files[j]])' = Units([job |-> j, file |-> files[j]]) BY DEF Units
  <2>5. ASSUME NEW w \in Worker, AtWork(w, j)'
        PROVE  /\ \A u \in ran' : u[1] = j /\ u[2] = files'[j] => u[3] <= worker'[w].done
               /\ \A k \in 1 .. worker'[w].done : <<j, files'[j], k>> \in ran'
    BY <1>3, <2>1, <2>2, <2>3, <2>5 DEF JobInv, RanSoFar
  <2>6. TheRow(j)'.status = "COMPLETED" =>
          \A k \in 1 .. Units([job |-> j, file |-> files[j]])' : <<j, files'[j], k>> \in ran'
    BY <2>2, <2>4 DEF JobInv, RanSoFar
  <2>7. Awaited(j)' => \A u \in ran' : u[1] = j => u[2] # files'[j]
    BY <1>2, <2>3 DEF JobInv, RanSoFar
  <2>8. \A u \in ran' : u[1] = j => u[2] <= files'[j] BY <2>3 DEF JobInv, RanSoFar
  <2>9. \A u \in reran' : u[1] # j BY DEF JobInv, RanSoFar
  <2>10. QED BY <2>5, <2>6, <2>7, <2>8, <2>9 DEF RanSoFar
<1>7. QED BY <1>4, <1>5, <1>6 DEF JobInv

\* A job that is not in the tables yet has nothing on its way.
LEMMA NewJob ==
  ASSUME TypeOK, PlaceInv, NEW j \in Job, JobInv(j), files[j] = 0
  PROVE  /\ \A c \in Clerk : ~Announces(c, j)
         /\ \A m \in queue : m.job # j
         /\ \A w \in Worker : ~HasJob(w, j)
         /\ \A u \in ran : u[1] # j
<1>1. \A c \in Clerk : ~Announces(c, j) BY DEF JobInv, OneToken, Announces, TypeOK
<1>2. \A m \in queue : m.job # j BY DEF JobInv, OneToken, TypeOK, Message
<1>3. \A w \in Worker : ~HasJob(w, j)
  <2>. SUFFICES ASSUME NEW w \in Worker, HasJob(w, j) PROVE FALSE OBVIOUS
  <2>1. worker[w].msg.file \in 1 .. MaxFiles BY HolderIs DEF Message
  <2>2. worker[w].msg.file = 0 BY DEF JobInv, OneToken
  <2>3. QED BY <2>1, <2>2, IngestionAssumption
<1>4. \A u \in ran : u[1] # j
  <2>1. \A u \in ran : u[2] \in 1 .. MaxFiles BY DEF TypeOK
  <2>2. \A u \in ran : u[1] = j => u[2] <= 0 BY DEF JobInv, RanSoFar
  <2>3. QED BY <2>1, <2>2, IngestionAssumption
<1>5. QED BY <1>1, <1>2, <1>3, <1>4

\* Nothing of a job is on its way or held when its row has failed.
LEMMA NothingHeld ==
  ASSUME TypeOK, PlaceInv, NEW j \in Job, JobInv(j), Present(active[j]),
         active[j].status \notin {"PENDING", "CANCELLED", "PROCESSING"}
  PROVE  /\ ~Awaited(j) /\ \A c \in Clerk : ~Announces(c, j)
         /\ \A m \in queue : m.job # j
         /\ \A w \in Worker : ~HasJob(w, j)
<1>1. ~Awaited(j) BY DEF JobInv, StatusTells, TheRow
<1>2. \A w \in Worker : ~AtWork(w, j) BY DEF JobInv, StatusTells
<1>3. QED BY <1>1, <1>2, HolderIs DEF Awaited

\* upload_files_for_processing: the new job's work is announced.
LEMMA JobUpload ==
  ASSUME TypeOK, PlaceInv, NEW c \in Clerk, NEW i \in Job, Upload(c, i), NEW j \in Job, JobInv(j)
  PROVE  JobInv(j)'
<1>. USE DEF rowVars, workVars
<1>1. \A d \in Clerk : d # c => req'[d] = req[d] BY DEF Upload, TypeOK
<1>2. req'[c].pc = "committed" /\ req'[c].job = i /\ req'[c].file = 1 BY DEF Upload, TypeOK
<1>3. CASE i # j
  <2>1. TheRow(j)' = TheRow(j) /\ active'[j] = active[j] BY <1>3 DEF Upload, TheRow, TypeOK
  <2>2. files'[j] = files[j] BY <1>3 DEF Upload, TypeOK
  <2>3. QED BY <1>1, <1>2, <1>3, <2>1, <2>2, JobFrame DEF Upload, Announces
<1>4. CASE i = j
  <2>0. files[j] = 0 BY <1>4 DEF Upload
  <2>1. /\ \A d \in Clerk : ~Announces(d, j)
        /\ \A m \in queue : m.job # j
        /\ \A w \in Worker : ~HasJob(w, j)
        /\ \A u \in ran : u[1] # j
    BY <2>0, NewJob
  <2>2. UNCHANGED <<queue, worker, ran, reran, archive>> BY DEF Upload
  <2>3. active'[j].status = "PENDING" /\ active'[j].file = 1 /\ files'[j] = 1 BY <1>4 DEF Upload, TypeOK
  <2>4. TheRow(j)'.status = "PENDING" /\ TheRow(j)'.file = 1 BY <2>3 DEF TheRow, Present
  <2>5. OneToken(j)' BY <1>1, <1>2, <2>1, <2>2, <2>3 DEF OneToken, Announces, HasJob
  <2>6. StatusTells(j)' BY <2>1, <2>2, <2>3, <2>4 DEF StatusTells, AtWork, HasJob
  <2>7. RanSoFar(j)' BY <2>1, <2>2, <2>3, <2>4 DEF RanSoFar, AtWork, HasJob, JobInv
  <2>8. QED BY <2>5, <2>6, <2>7 DEF JobInv
<1>5. QED BY <1>3, <1>4

\* The request's message is sent.
LEMMA JobDispatch ==
  ASSUME TypeOK, PlaceInv, NEW c \in Clerk, Dispatch(c), NEW j \in Job, JobInv(j)
  PROVE  JobInv(j)'
<1>. USE DEF rowVars, workVars
<1>. DEFINE m == [job |-> req[c].job, file |-> req[c].file]
<1>1. \A d \in Clerk : Announces(d, j)' => d # c /\ Announces(d, j) /\ req'[d] = req[d]
  BY DEF Dispatch, NoRequest, TypeOK, Announces
<1>2. UNCHANGED <<active, archive, files, worker, ran, reran>> BY DEF Dispatch
<1>3. queue' = queue \cup {m} BY DEF Dispatch
<1>4. CASE req[c].job # j
  <2>1. TheRow(j)' = TheRow(j) BY <1>2 DEF TheRow
  <2>2. \A n \in queue' : n.job = j => n \in queue BY <1>3, <1>4
  <2>3. QED BY <1>1, <1>2, <2>1, <2>2, JobFrame
<1>5. CASE req[c].job = j
  <2>1. Announces(c, j) /\ m.job = j /\ m.file = files[j] BY <1>5 DEF Dispatch, Announces, JobInv, OneToken
  <2>2. /\ \A n \in queue : n.job # j
        /\ \A w \in Worker : ~HasJob(w, j)
        /\ \A d \in Clerk : ~Announces(d, j)'
    BY <1>1, <2>1 DEF JobInv, OneToken
  <2>3. Awaited(j) BY <2>1 DEF Awaited
  <2>4. OneToken(j)' BY <1>2, <1>3, <2>1, <2>2 DEF OneToken, HasJob
  <2>5. StatusTells(j)' BY <1>2, <2>2, <2>3 DEF StatusTells, JobInv, TheRow, AtWork, HasJob
  <2>6. RanSoFar(j)' BY <1>2, <2>2, <2>3 DEF RanSoFar, JobInv, TheRow, AtWork, HasJob, Units
  <2>7. QED BY <2>4, <2>5, <2>6 DEF JobInv
<1>6. QED BY <1>4, <1>5

\* The checks of a request, its failure and its death add nothing.
LEMMA JobRequest ==
  ASSUME TypeOK, PlaceInv, NEW c \in Clerk, NEW j \in Job, JobInv(j),
         \/ \E i \in Job, act \in {"cancel", "requeue", "restore"} : Load(c, i, act)
         \/ RequestFails(c) \/ RequestDies(c)
  PROVE  JobInv(j)'
<1>. USE DEF rowVars, workVars
<1>1. UNCHANGED <<active, archive, files, worker, queue, ran, reran>> BY DEF Load, RequestFails, RequestDies
<1>2. \A d \in Clerk : d # c => req'[d] = req[d] BY DEF Load, RequestFails, RequestDies, TypeOK
<1>3. req'[c].pc # "committed" BY DEF Load, RequestFails, RequestDies, TypeOK, NoRequest
<1>4. \A d \in Clerk : Announces(d, j)' => Announces(d, j) /\ req'[d].file = req[d].file
  BY <1>2, <1>3 DEF Announces
<1>5. TheRow(j)' = TheRow(j) BY <1>1 DEF TheRow
<1>6. QED BY <1>1, <1>4, <1>5, JobFrame

\* cancel_ingestion_job, over the status it has read.
LEMMA JobCancel ==
  ASSUME TypeOK, PlaceInv, NEW c \in Clerk, Cancel(c), NEW j \in Job, JobInv(j), j \notin disturbed'
  PROVE  JobInv(j)'
<1>. USE DEF rowVars, workVars
<1>1. UNCHANGED <<archive, files, worker, queue, ran, reran>> BY DEF Cancel
<1>2. \A d \in Clerk : Announces(d, j)' => d # c /\ Announces(d, j) /\ req'[d] = req[d]
  BY DEF Cancel, NoRequest, TypeOK, Announces
<1>3. CASE req[c].job # j
  <2>1. active'[j] = active[j] BY <1>3 DEF Cancel, WriteStatus, TypeOK
  <2>2. TheRow(j)' = TheRow(j) BY <1>1, <2>1 DEF TheRow
  <2>3. QED BY <1>1, <1>2, <2>1, <2>2, JobFrame
<1>4. CASE req[c].job = j
  <2>1. active[j].status = "PENDING" BY <1>4 DEF Cancel, Unexpected, PlaceInv
  <2>2. active'[j].status = "CANCELLED" /\ active'[j].file = active[j].file
    <3>1. active[j] \in Row /\ active \in [Job -> Row] BY DEF TypeOK
    <3>2. active' = [active EXCEPT ![j].status = "CANCELLED"] BY <1>4, <2>1 DEF Cancel, WriteStatus, Present
    <3>3. QED BY <3>1, <3>2 DEF Row
  <2>3. TheRow(j) = active[j] /\ TheRow(j)' = active'[j] BY <2>1, <2>2 DEF TheRow, Present
  <2>4. \A w \in Worker : ~AtWork(w, j) BY <2>1 DEF JobInv, StatusTells
  <2>5. Awaited(j)' => Awaited(j) BY <1>1, <1>2 DEF Awaited, HasJob
  <2>6. OneToken(j)' BY <1>1, <1>2 DEF JobInv, OneToken, HasJob
  <2>7. StatusTells(j)' BY <1>1, <2>2, <2>3, <2>4 DEF JobInv, StatusTells, AtWork, HasJob
  <2>8. RanSoFar(j)' BY <1>1, <2>2, <2>3, <2>4, <2>5 DEF JobInv, RanSoFar, AtWork, HasJob
  <2>9. QED BY <2>6, <2>7, <2>8 DEF JobInv
<1>5. QED BY <1>3, <1>4

\* requeue_ingestion_job, over the FAILED it has read: nothing was on its way.
LEMMA JobRequeue ==
  ASSUME TypeOK, PlaceInv, NEW c \in Clerk, Requeue(c), NEW j \in Job, JobInv(j), j \notin disturbed'
  PROVE  JobInv(j)'
<1>. USE DEF rowVars, workVars
<1>1. UNCHANGED <<archive, worker, queue, ran, reran>> BY DEF Requeue
<1>2. \A d \in Clerk : d # c => req'[d] = req[d] BY DEF Requeue, TypeOK
<1>3. req'[c].pc = "committed" /\ req'[c].job = req[c].job /\ req'[c].file = files[req[c].job] + 1
  <2>1. req[c] \in Request /\ req \in [Clerk -> Request] BY DEF TypeOK
  <2>2. QED BY <2>1 DEF Requeue, Request
<1>4. CASE req[c].job # j
  <2>1. active'[j] = active[j] /\ files'[j] = files[j] BY <1>4 DEF Requeue, TypeOK
  <2>2. TheRow(j)' = TheRow(j) BY <1>1, <2>1 DEF TheRow
  <2>3. \A d \in Clerk : Announces(d, j)' => Announces(d, j) /\ req'[d].file = req[d].file
    BY <1>2, <1>3, <1>4 DEF Announces
  <2>4. QED BY <1>1, <2>1, <2>2, <2>3, JobFrame
<1>5. CASE req[c].job = j
  <2>1. active[j].status = "FAILED" BY <1>5 DEF Requeue, Unexpected, PlaceInv
  <2>2. /\ \A d \in Clerk : ~Announces(d, j)
        /\ \A m \in queue : m.job # j
        /\ \A w \in Worker : ~HasJob(w, j)
    BY <2>1, NothingHeld DEF Present
  <2>3. files'[j] = files[j] + 1 /\ files[j] \in Nat BY <1>5, IngestionAssumption DEF Requeue, TypeOK
  <2>4. active'[j] = [status |-> "PENDING", file |-> files[j] + 1] BY <1>5 DEF Requeue, TypeOK
  <2>5. TheRow(j)'.status = "PENDING" /\ TheRow(j)'.file = files'[j] BY <2>3, <2>4 DEF TheRow, Present
  <2>6. OneToken(j)' BY <1>1, <1>2, <1>3, <1>5, <2>2, <2>3 DEF OneToken, Announces, HasJob
  <2>7. StatusTells(j)' BY <1>1, <2>2, <2>5 DEF StatusTells, AtWork, HasJob
  <2>8. \A u \in ran : u[1] = j => u[2] <= files[j] BY DEF JobInv, RanSoFar
  <2>9. \A u \in ran : u[2] \in Nat BY DEF TypeOK
  <2>10. RanSoFar(j)' BY <1>1, <2>2, <2>3, <2>5, <2>8, <2>9 DEF RanSoFar, AtWork, HasJob, JobInv
  <2>11. QED BY <2>6, <2>7, <2>10 DEF JobInv
<1>6. QED BY <1>4, <1>5

\* restore_job_from_archive, of the row as it is in the archive.
LEMMA JobRestore ==
  ASSUME TypeOK, PlaceInv, NEW c \in Clerk, Restore(c), NEW j \in Job, JobInv(j), j \notin disturbed'
  PROVE  JobInv(j)'
<1>. USE DEF rowVars, workVars
<1>1. UNCHANGED <<files, worker, queue, ran, reran>> BY DEF Restore
<1>2. \A d \in Clerk : Announces(d, j)' => d # c /\ Announces(d, j) /\ req'[d] = req[d]
  BY DEF Restore, NoRequest, TypeOK, Announces
<1>3. active \in [Job -> Row] /\ archive \in [Job -> Row] BY DEF TypeOK
<1>4. CASE req[c].job # j
  <2>1. active'[j] = active[j] /\ archive'[j] = archive[j] BY <1>3, <1>4 DEF Restore
  <2>2. TheRow(j)' = TheRow(j) BY <2>1 DEF TheRow
  <2>3. QED BY <1>1, <1>2, <2>1, <2>2, JobFrame
<1>5. CASE req[c].job = j
  <2>1. archive[j] = req[c].seen /\ ~Present(active[j]) BY <1>5 DEF Restore
  <2>2. Present(req[c].seen) BY DEF Restore, PlaceInv, Present, Finished, Final
  <2>3. TheRow(j)' = TheRow(j) BY <1>3, <1>5, <2>1, <2>2 DEF Restore, TheRow
  <2>4. \A w \in Worker : ~AtWork(w, j) BY <2>1 DEF JobInv, StatusTells, Present
  <2>5. QED BY <1>1, <1>2, <2>3, <2>4, JobFrame
<1>6. QED BY <1>4, <1>5

LEMMA JobEndpoint ==
  ASSUME TypeOK, PlaceInv, NEW c \in Clerk, EndpointStep(c), NEW j \in Job, JobInv(j), j \notin disturbed'
  PROVE  JobInv(j)'
BY JobUpload, JobDispatch, JobRequest, JobCancel, JobRequeue, JobRestore DEF EndpointStep

\* A delivery: the message is taken up, or turned away.
LEMMA JobTake ==
  ASSUME TypeOK, PlaceInv, NEW w \in Worker, Take(w), NEW j \in Job, JobInv(j)
  PROVE  JobInv(j)'
<1>. USE DEF rowVars, workVars
<1>1. ASSUME NEW m \in queue, TurnAway(w, m) \/ StartFails(w, m) PROVE JobInv(j)'
  <2>1. UNCHANGED <<active, archive, files, req, worker, ran, reran>> /\ queue' \subseteq queue
    BY <1>1 DEF TurnAway, StartFails
  <2>2. TheRow(j)' = TheRow(j) BY <2>1 DEF TheRow
  <2>3. \A d \in Clerk : Announces(d, j)' => Announces(d, j) /\ req'[d].file = req[d].file
    BY <2>1 DEF Announces
  <2>4. QED BY <2>1, <2>2, <2>3, JobFrame
<1>2. ASSUME NEW m \in queue, Start(w, m) PROVE JobInv(j)'
  <2>1. UNCHANGED <<active, archive, files, req, ran, reran>> /\ queue' = queue \ {m}
    BY <1>2 DEF Start
  <2>2. \A x \in Worker : x # w => worker'[x] = worker[x] BY <1>2 DEF Start, TypeOK
  <2>3. worker'[w] = [pc |-> "loaded", msg |-> m, done |-> 0] BY <1>2 DEF Start, TypeOK
  <2>4. TheRow(j)' = TheRow(j) BY <2>1 DEF TheRow
  <2>5. \A d \in Clerk : Announces(d, j)' <=> Announces(d, j) BY <2>1 DEF Announces
  <2>6. CASE m.job # j
    <3>1. \A x \in Worker : HasJob(x, j)' => worker'[x] = worker[x] BY <2>2, <2>3, <2>6 DEF HasJob
    <3>2. QED BY <2>1, <2>4, <2>5, <3>1, JobFrame
  <2>7. CASE m.job = j
    <3>1. /\ \A n \in queue' : n.job # j
          /\ \A x \in Worker : ~HasJob(x, j)
          /\ \A d \in Clerk : ~Announces(d, j)
          /\ m.file = files[j]
      BY <2>1, <2>7 DEF JobInv, OneToken
    <3>2. Awaited(j) BY <2>7 DEF Awaited
    <3>3. \A x \in Worker : HasJob(x, j)' => x = w BY <2>2, <3>1 DEF HasJob
    <3>4. \A x \in Worker : ~AtWork(x, j)' BY <2>3, <3>3 DEF AtWork
    <3>5. OneToken(j)' BY <2>1, <2>3, <2>5, <3>1, <3>3 DEF OneToken
    <3>6. StatusTells(j)' BY <2>1, <2>4, <3>2, <3>4 DEF StatusTells, JobInv
    <3>7. RanSoFar(j)' BY <2>1, <2>4, <3>2, <3>4 DEF RanSoFar, JobInv, Units
    <3>8. QED BY <3>5, <3>6, <3>7 DEF JobInv
  <2>8. QED BY <2>6, <2>7
<1>3. QED BY <1>1, <1>2 DEF Take

\* A worker that ends its task: its job's work is nowhere afterwards.
LEMMA JobEnd ==
  ASSUME TypeOK, PlaceInv, NEW w \in Worker, NEW j \in Job, JobInv(j), Rest(w),
         UNCHANGED <<active, archive, files, queue, req, ran, reran>>
  PROVE  JobInv(j)'
<1>1. \A x \in Worker : x # w => worker'[x] = worker[x] BY DEF Rest, TypeOK
<1>2. worker'[w].msg.job = None BY DEF Rest, TypeOK, NoWork, NoMessage
<1>3. \A x \in Worker : HasJob(x, j)' => worker'[x] = worker[x]
  BY <1>1, <1>2, IngestionAssumption DEF HasJob
<1>4. \A d \in Clerk : Announces(d, j)' => Announces(d, j) /\ req'[d].file = req[d].file BY DEF Announces
<1>5. TheRow(j)' = TheRow(j) BY DEF TheRow
<1>6. QED BY <1>3, <1>4, <1>5, JobFrame

\* A worker that writes a status and ends its task.
LEMMA JobWrite ==
  ASSUME TypeOK, PlaceInv, NEW w \in Worker, Complete(w) \/ Fail(w), NEW j \in Job, JobInv(j)
  PROVE  JobInv(j)'
<1>. USE DEF rowVars, workVars
<1>. DEFINE m == worker[w].msg
<1>1. UNCHANGED <<archive, files, queue, req, ran, reran>> /\ Rest(w) BY DEF Complete, Fail
<1>2. \A x \in Worker : x # w => worker'[x] = worker[x] BY <1>1 DEF Rest, TypeOK
<1>3. worker'[w].msg.job = None BY <1>1 DEF Rest, TypeOK, NoWork, NoMessage
<1>4. \A x \in Worker : HasJob(x, j)' => x # w /\ worker'[x] = worker[x]
  BY <1>2, <1>3, IngestionAssumption DEF HasJob
<1>5. \A d \in Clerk : Announces(d, j)' <=> Announces(d, j) BY <1>1 DEF Announces
<1>6. CASE m.job # j
  <2>1. active'[j] = active[j] BY <1>6 DEF Complete, Fail, WriteStatus, TypeOK
  <2>2. TheRow(j)' = TheRow(j) BY <1>1, <2>1 DEF TheRow
  <2>3. QED BY <1>1, <1>4, <1>5, <2>1, <2>2, JobFrame
<1>7. CASE m.job = j
  <2>1. HasJob(w, j) /\ AtWork(w, j) BY <1>7 DEF Complete, Fail, HasJob, AtWork
  <2>2. active[j].status = "PROCESSING" /\ active[j] \in Row BY <2>1 DEF JobInv, StatusTells, TypeOK
  <2>3. PICK st \in {"COMPLETED", "FAILED"} : active' = [active EXCEPT ![j].status = st]
          /\ (st = "COMPLETED" => Complete(w))
    BY <1>7, <2>2 DEF Complete, Fail, WriteStatus, Present
  <2>4. active'[j].status = st /\ active'[j].file = active[j].file BY <2>2, <2>3 DEF TypeOK, Row
  <2>5. TheRow(j) = active[j] /\ TheRow(j)' = active'[j] BY <2>2, <2>4 DEF TheRow, Present
  <2>6. \A x \in Worker : ~HasJob(x, j)' BY <1>4, <2>1 DEF JobInv, OneToken, HasJob
  <2>7. /\ \A n \in queue : n.job # j
        /\ \A d \in Clerk : ~Announces(d, j)
    BY <2>1 DEF JobInv, OneToken
  <2>8. ~Awaited(j)' /\ \A x \in Worker : ~AtWork(x, j)'
    BY <1>1, <1>5, <2>6, <2>7 DEF Awaited, AtWork
  <2>9. OneToken(j)' BY <1>1, <1>5, <2>6, <2>7 DEF OneToken
  <2>10. StatusTells(j)' BY <1>1, <2>4, <2>5, <2>8 DEF StatusTells, JobInv
  <2>11. st = "COMPLETED" => \A k \in 1 .. Units([job |-> j, file |-> files[j]]) : <<j, files[j], k>> \in ran
    <3>1. m = [job |-> j, file |-> files[j]] BY <2>1, HolderIs DEF JobInv, OneToken
    <3>2. st = "COMPLETED" => worker[w].done = Units([job |-> j, file |-> files[j]])
      BY <2>3, <3>1 DEF Complete
    <3>3. QED BY <2>1, <3>2 DEF JobInv, RanSoFar
  <2>12. RanSoFar(j)' BY <1>1, <2>4, <2>5, <2>8, <2>11 DEF RanSoFar, JobInv, Units
  <2>13. QED BY <2>9, <2>10, <2>12 DEF JobInv
<1>8. QED BY <1>6, <1>7

\* The claim, of a job that is PENDING still.
LEMMA JobClaim ==
  ASSUME TypeOK, PlaceInv, NEW w \in Worker, Claim(w), NEW j \in Job, JobInv(j), j \notin disturbed'
  PROVE  JobInv(j)'
<1>. USE DEF rowVars, workVars
<1>1. UNCHANGED <<archive, files, queue, req, ran, reran>> BY DEF Claim
<1>2. \A x \in Worker : x # w => worker'[x] = worker[x] BY DEF Claim, TypeOK
<1>3. worker'[w].pc = "running" /\ worker'[w].msg = worker[w].msg /\ worker'[w].done = 0
  <2>1. worker[w] \in Work /\ worker[w].done = 0 BY DEF Claim, TypeOK, PlaceInv
  <2>2. QED BY <2>1 DEF Claim, TypeOK, Work
<1>4. \A d \in Clerk : Announces(d, j)' <=> Announces(d, j) BY <1>1 DEF Announces
<1>5. \A x \in Worker : HasJob(x, j)' <=> HasJob(x, j) BY <1>2, <1>3 DEF HasJob
<1>6. CASE worker[w].msg.job # j
  <2>1. active'[j] = active[j] BY <1>6 DEF Claim, WriteStatus, TypeOK
  <2>2. TheRow(j)' = TheRow(j) BY <1>1, <2>1 DEF TheRow
  <2>3. \A x \in Worker : HasJob(x, j)' => worker'[x] = worker[x] BY <1>2, <1>3, <1>6 DEF HasJob
  <2>4. QED BY <1>1, <1>4, <2>1, <2>2, <2>3, JobFrame
<1>7. CASE worker[w].msg.job = j
  <2>1. HasJob(w, j) /\ Awaited(j) BY <1>7 DEF Claim, HasJob, Awaited
  <2>2. active[j] \in Row /\ Present(active[j]) BY <1>7 DEF Claim, TypeOK
  <2>3. active'[j].status = "PROCESSING" /\ active'[j].file = active[j].file
    <3>1. active' = [active EXCEPT ![j].status = "PROCESSING"] BY <1>7 DEF Claim, WriteStatus
    <3>2. QED BY <2>2, <3>1 DEF TypeOK, Row
  <2>4. TheRow(j) = active[j] /\ TheRow(j)' = active'[j] BY <2>2, <2>3 DEF TheRow, Present
  <2>5. \A x \in Worker : HasJob(x, j) => x = w BY <2>1 DEF JobInv, OneToken
  <2>6. /\ \A n \in queue : n.job # j
        /\ \A d \in Clerk : ~Announces(d, j)
        /\ worker[w].msg.file = files[j]
    BY <2>1 DEF JobInv, OneToken
  <2>7. ~Awaited(j)' BY <1>1, <1>3, <1>4, <1>5, <2>5, <2>6 DEF Awaited
  <2>8. OneToken(j)' BY <1>1, <1>3, <1>4, <1>5, <2>5, <2>6 DEF OneToken
  <2>9. StatusTells(j)' BY <1>1, <2>3, <2>4, <2>7 DEF StatusTells, JobInv
  <2>10. \A x \in Worker : AtWork(x, j)' => worker'[x].done = 0 BY <1>3, <1>5, <2>5 DEF AtWork
  <2>11. \A u \in ran : u[1] = j => u[2] # files[j] BY <2>1 DEF JobInv, RanSoFar
  <2>12. RanSoFar(j)' BY <1>1, <2>3, <2>4, <2>7, <2>10, <2>11 DEF RanSoFar, JobInv
  <2>13. QED BY <2>8, <2>9, <2>12 DEF JobInv
<1>8. QED BY <1>6, <1>7

\* One more unit, the next.
LEMMA JobRunUnit ==
  ASSUME TypeOK, PlaceInv, NEW w \in Worker, RunUnit(w), NEW j \in Job, JobInv(j)
  PROVE  JobInv(j)'
<1>. USE DEF rowVars, workVars
<1>. DEFINE m == worker[w].msg
            unit == <<m.job, m.file, worker[w].done + 1>>
<1>1. UNCHANGED <<active, archive, files, queue, req>> BY DEF RunUnit
<1>2. \A x \in Worker : x # w => worker'[x] = worker[x] BY DEF RunUnit, TypeOK
<1>3. /\ worker'[w].pc = "running" /\ worker'[w].msg = m /\ worker'[w].done = worker[w].done + 1
      /\ worker[w].done \in Nat
  <2>1. worker[w] \in Work BY DEF TypeOK
  <2>2. QED BY <2>1, IngestionAssumption DEF RunUnit, TypeOK, Work
<1>4. \A d \in Clerk : Announces(d, j)' <=> Announces(d, j) BY <1>1 DEF Announces
<1>5. \A x \in Worker : HasJob(x, j)' <=> HasJob(x, j) BY <1>2, <1>3 DEF HasJob
<1>6. TheRow(j)' = TheRow(j) BY <1>1 DEF TheRow
<1>7. CASE m.job # j
  <2>1. \A x \in Worker : HasJob(x, j)' => worker'[x] = worker[x] BY <1>2, <1>3, <1>7 DEF HasJob
  <2>2. \A u \in ran' \cup ran : u[1] = j => (u \in ran' <=> u \in ran) BY <1>7 DEF RunUnit
  <2>3. \A u \in reran' : u[1] = j => u \in reran BY <1>7 DEF RunUnit
  <2>4. QED BY <1>1, <1>4, <1>6, <2>1, <2>2, <2>3, JobFrame
<1>8. CASE m.job = j
  <2>1. HasJob(w, j) /\ AtWork(w, j) BY <1>8 DEF RunUnit, HasJob, AtWork
  <2>2. \A x \in Worker : HasJob(x, j) => x = w BY <2>1 DEF JobInv, OneToken
  <2>3. unit = <<j, files[j], worker[w].done + 1>> BY <1>8, <2>1 DEF JobInv, OneToken
  <2>4. unit \notin ran BY <1>3, <2>1, <2>3 DEF JobInv, RanSoFar
  <2>5. ran' = ran \cup {unit} /\ reran' = reran BY <2>4 DEF RunUnit
  <2>6. /\ \A n \in queue : n.job # j
        /\ \A d \in Clerk : ~Announces(d, j)
    BY <2>1 DEF JobInv, OneToken
  <2>7. ~Awaited(j)' BY <1>1, <1>3, <1>4, <1>5, <2>2, <2>6 DEF Awaited
  <2>8. TheRow(j).status = "PROCESSING"
    BY <2>1 DEF JobInv, StatusTells, TheRow, Present
  <2>9. OneToken(j)' BY <1>1, <1>3, <1>4, <1>5, <2>1, <2>2, <2>6 DEF OneToken, JobInv
  <2>10. \A x \in Worker : AtWork(x, j)' => x = w BY <1>5, <2>2 DEF AtWork
  <2>11. StatusTells(j)' BY <1>1, <1>6, <2>1, <2>7, <2>10 DEF StatusTells, JobInv
  <2>12. \A u \in ran' : u[1] = j => u[2] <= files[j]
    BY <2>3, <2>5, IngestionAssumption DEF JobInv, RanSoFar, TypeOK
  <2>13. \A u \in ran' : u[1] = j /\ u[2] = files[j] => u[3] <= worker'[w].done
    <3>1. \A u \in ran : u[3] \in Nat BY IngestionAssumption DEF TypeOK, Unit
    <3>2. \A u \in ran : u[1] = j /\ u[2] = files[j] => u[3] <= worker[w].done
      BY <2>1 DEF JobInv, RanSoFar
    <3>3. QED BY <1>3, <2>3, <2>5, <3>1, <3>2
  <2>14. \A k \in 1 .. worker'[w].done : <<j, files[j], k>> \in ran'
    <3>1. \A k \in 1 .. worker[w].done : <<j, files[j], k>> \in ran BY <2>1 DEF JobInv, RanSoFar
    <3>2. \A k \in 1 .. (worker[w].done + 1) : k \in 1 .. worker[w].done \/ k = worker[w].done + 1
      BY <1>3
    <3>3. QED BY <1>3, <2>3, <2>5, <3>1, <3>2
  <2>15. RanSoFar(j)'
    BY <1>1, <1>6, <2>5, <2>7, <2>8, <2>10, <2>12, <2>13, <2>14 DEF RanSoFar, JobInv
  <2>16. QED BY <2>9, <2>11, <2>15 DEF JobInv
<1>9. QED BY <1>7, <1>8

\* The message of a worker that is lost before its claim waits again.
LEMMA JobLost ==
  ASSUME TypeOK, PlaceInv, NEW w \in Worker, WorkerLost(w) \/ Redeliver(w),
         NEW j \in Job, JobInv(j), j \notin disturbed'
  PROVE  JobInv(j)'
<1>. USE DEF rowVars, workVars
<1>. DEFINE m == worker[w].msg
<1>1. UNCHANGED <<active, archive, files, req, ran, reran>> BY DEF WorkerLost, Redeliver
<1>2. queue' = queue \cup {m} BY DEF WorkerLost, Redeliver, Back
<1>3. TheRow(j)' = TheRow(j) BY <1>1 DEF TheRow
<1>4. \A d \in Clerk : Announces(d, j)' <=> Announces(d, j) BY <1>1 DEF Announces
<1>5. \A x \in Worker : HasJob(x, j)' => worker'[x] = worker[x] /\ (WorkerLost(w) => x # w)
  <2>1. CASE WorkerLost(w)
    <3>1. \A x \in Worker : x # w => worker'[x] = worker[x] BY <2>1 DEF WorkerLost, Rest, TypeOK
    <3>2. worker'[w].msg.job = None BY <2>1 DEF WorkerLost, Rest, TypeOK, NoWork, NoMessage
    <3>3. QED BY <3>1, <3>2, IngestionAssumption DEF HasJob
  <2>2. CASE Redeliver(w) /\ ~WorkerLost(w) BY <2>2 DEF Redeliver
  <2>3. QED BY <2>1, <2>2
<1>6. CASE m.job # j
  <2>1. \A n \in queue' : n.job = j => n \in queue BY <1>2, <1>6
  <2>2. QED BY <1>1, <1>3, <1>4, <1>5, <2>1, JobFrame
<1>7. CASE m.job = j
  <2>1. WorkerLost(w) /\ worker[w].pc = "loaded" /\ HasJob(w, j)
    <3>1. HasJob(w, j) /\ ~Redeliver(w) BY <1>7 DEF Redeliver, HasJob
    <3>2. WorkerLost(w) /\ worker[w].pc # "running" BY <1>7, <3>1 DEF WorkerLost
    <3>3. QED BY <3>1, <3>2, HolderIs DEF AtWork
  <2>2. Awaited(j) BY <2>1 DEF Awaited
  <2>3. /\ \A n \in queue : n.job # j
        /\ \A d \in Clerk : ~Announces(d, j)
        /\ m.file = files[j]
        /\ \A x \in Worker : HasJob(x, j) => x = w
    BY <2>1 DEF JobInv, OneToken
  <2>4. \A x \in Worker : ~HasJob(x, j)' BY <1>5, <2>1, <2>3 DEF HasJob
  <2>5. OneToken(j)' BY <1>1, <1>2, <1>4, <2>3, <2>4 DEF OneToken
  <2>6. StatusTells(j)' BY <1>1, <1>3, <2>2, <2>4 DEF StatusTells, AtWork, JobInv
  <2>7. RanSoFar(j)' BY <1>1, <1>3, <2>2, <2>4 DEF RanSoFar, AtWork, JobInv, Units
  <2>8. QED BY <2>5, <2>6, <2>7 DEF JobInv
<1>8. QED BY <1>6, <1>7

LEMMA JobWorker ==
  ASSUME TypeOK, PlaceInv, NEW w \in Worker, WorkerStep(w), NEW j \in Job, JobInv(j), j \notin disturbed'
  PROVE  JobInv(j)'
<1>1. CASE ClaimFails(w) \/ FailUnwritten(w) \/ TimeLimit(w)
  BY <1>1, JobEnd DEF ClaimFails, FailUnwritten, TimeLimit, rowVars
<1>2. QED BY <1>1, JobTake, JobWrite, JobClaim, JobRunUnit, JobLost DEF WorkerStep, GoOn

\* The maintenance jobs add no work, and fail what nobody is at work on.
LEMMA JobMaintenance ==
  ASSUME TypeOK, PlaceInv, MaintenanceStep, NEW j \in Job, JobInv(j), j \notin disturbed'
  PROVE  JobInv(j)'
<1>. USE DEF rowVars, workVars
<1>1. UNCHANGED <<files, queue, worker, req, ran, reran>>
  BY DEF MaintenanceStep, Archive, ArchiveRollsBack, ArchiveLoad, Flag, FlagLoad
<1>2. \A d \in Clerk : Announces(d, j)' <=> Announces(d, j) BY <1>1 DEF Announces
<1>3. \A x \in Worker : HasJob(x, j)' => worker'[x] = worker[x] BY <1>1
<1>4. ASSUME NEW a \in Archiver, Archive(a) PROVE JobInv(j)'
  <2>1. CASE j \in Batch(a)
    <3>1. active[j] = archiving[a][j] /\ Present(active[j]) BY <1>4, <2>1 DEF Archive, Batch
    <3>2. active[j].status \in Finished BY <2>1, <3>1 DEF Batch, PlaceInv
    <3>3. \A x \in Worker : ~AtWork(x, j) BY <3>2 DEF JobInv, StatusTells, Finished, Final
    <3>4. TheRow(j)' = TheRow(j) BY <1>4, <2>1, <3>1 DEF Archive, Moved, TheRow, Present, Absent
    <3>5. QED BY <1>1, <1>2, <1>3, <3>3, <3>4, JobFrame
  <2>2. CASE j \notin Batch(a)
    <3>1. active'[j] = active[j] /\ archive'[j] = archive[j] BY <1>4, <2>2 DEF Archive, Moved
    <3>2. TheRow(j)' = TheRow(j) BY <3>1 DEF TheRow
    <3>3. QED BY <1>1, <1>2, <1>3, <3>1, <3>2, JobFrame
  <2>3. QED BY <2>1, <2>2
<1>5. ASSUME UNCHANGED <<active, archive>> PROVE JobInv(j)'
  <2>1. TheRow(j)' = TheRow(j) BY <1>5 DEF TheRow
  <2>2. QED BY <1>1, <1>2, <1>3, <1>5, <2>1, JobFrame
<1>6. ASSUME NEW f \in Flagger, Flag(f) PROVE JobInv(j)'
  <2>0. UNCHANGED archive BY <1>6 DEF Flag
  <2>1. CASE active' = active BY <1>5, <2>0, <2>1
  <2>2. CASE j \notin flagging[f]
    <3>1. active'[j] = active[j] BY <1>6, <2>2 DEF Flag, Flagged
    <3>2. TheRow(j)' = TheRow(j) BY <2>0, <3>1 DEF TheRow
    <3>3. QED BY <1>1, <1>2, <1>3, <3>1, <3>2, JobFrame
  <2>3. CASE j \in flagging[f] /\ active' # active
    <3>1. active[j].status = "PROCESSING" /\ \A x \in Worker : ~AtWork(x, j)
      BY <1>6, <2>3 DEF Flag, Unexpected
    <3>2. active'[j].status = "FAILED" /\ active'[j].file = active[j].file
      <4>1. active' = [i \in Job |-> IF i \in flagging[f] THEN [active[i] EXCEPT !.status = "FAILED"] ELSE active[i]]
        BY <1>6, <2>3 DEF Flag, Flagged
      <4>2. active[j] \in Row BY DEF TypeOK
      <4>3. QED BY <2>3, <4>1, <4>2 DEF Row
    <3>3. TheRow(j) = active[j] /\ TheRow(j)' = active'[j] BY <3>1, <3>2 DEF TheRow, Present
    <3>4. ~Awaited(j) BY <3>1, <3>3 DEF JobInv, StatusTells
    <3>5. ~Awaited(j)' /\ \A x \in Worker : ~AtWork(x, j)'
      BY <1>1, <1>2, <3>1, <3>4 DEF Awaited, AtWork, HasJob
    <3>6. OneToken(j)' BY <1>1, <1>2 DEF OneToken, JobInv, HasJob
    <3>7. StatusTells(j)' BY <1>1, <3>2, <3>3, <3>5 DEF StatusTells, JobInv
    <3>8. RanSoFar(j)' BY <1>1, <3>2, <3>3, <3>5 DEF RanSoFar, JobInv
    <3>9. QED BY <3>6, <3>7, <3>8 DEF JobInv
  <2>4. QED BY <2>1, <2>2, <2>3
<1>7. QED BY <1>4, <1>5, <1>6 DEF MaintenanceStep, ArchiveRollsBack, ArchiveLoad, FlagLoad

(***************************************************************************)
(* The theorems                                                            *)
(***************************************************************************)
LEMMA JobInitially == ASSUME Init, NEW j \in Job PROVE JobInv(j)
<1>1. \A c \in Clerk : ~Announces(c, j) BY DEF Init, Announces, NoRequest
<1>2. \A w \in Worker : ~HasJob(w, j) BY IngestionAssumption DEF Init, HasJob, NoWork, NoMessage
<1>3. queue = {} /\ ran = {} /\ reran = {} /\ files[j] = 0 /\ TheRow(j).status = "absent"
  BY DEF Init, TheRow, Absent, Present
<1>4. QED BY <1>1, <1>2, <1>3 DEF JobInv, OneToken, StatusTells, RanSoFar, Awaited, AtWork

\* The inductive invariant of the ingestion jobs: the types, where a job's row
\* is, and for a job nothing unexpected happened to, where its work is and what
\* has been run of it.
THEOREM IngestionInvariant == Spec => []IngestionInv
<1>1. Init => IngestionInv BY TypeInit, PlaceInit, JobInitially DEF IngestionInv
<1>2. ASSUME IngestionInv, [Next]_vars PROVE IngestionInv'
  <2>1. TypeOK /\ PlaceInv /\ TypeOK' /\ PlaceInv' BY <1>2, TypeStep, PlaceStep DEF IngestionInv
  <2>2. disturbed \subseteq disturbed'
    <3>1. ASSUME NEW c \in Clerk, EndpointStep(c) PROVE disturbed \subseteq disturbed'
      BY <3>1 DEF EndpointStep, Upload, Load, Dispatch, Cancel, Requeue, Restore, RequestFails, RequestDies,
         rowVars, workVars
    <3>2. ASSUME NEW w \in Worker, WorkerStep(w) PROVE disturbed \subseteq disturbed'
      BY <3>2 DEF WorkerStep, Take, GoOn, Start, TurnAway, StartFails, Claim, ClaimFails, RunUnit, Complete,
         Fail, FailUnwritten, WorkerLost, TimeLimit, Redeliver, rowVars, workVars
    <3>3. CASE MaintenanceStep
      BY <3>3 DEF MaintenanceStep, Archive, ArchiveRollsBack, ArchiveLoad, Flag, FlagLoad, rowVars, workVars
    <3>4. CASE UNCHANGED vars
      BY <3>4 DEF vars, rowVars, workVars
    <3>. QED BY <1>2, <3>1, <3>2, <3>3, <3>4 DEF Next
  <2>3. ASSUME NEW j \in Job, j \notin disturbed' PROVE JobInv(j)'
    <3>1. JobInv(j) BY <1>2, <2>2, <2>3 DEF IngestionInv
    <3>2. ASSUME UNCHANGED vars PROVE JobInv(j)'
      BY <3>1, <3>2 DEF vars, rowVars, workVars, JobInv, OneToken, StatusTells, RanSoFar, Awaited, AtWork,
         HasJob, Announces, TheRow, Units
    <3>3. QED BY <1>2, <2>1, <2>3, <3>1, <3>2, JobEndpoint, JobWorker, JobMaintenance DEF Next
  <2>4. QED BY <2>1, <2>3 DEF IngestionInv
<1>3. QED BY <1>1, <1>2, PTL DEF Spec

\* Every variable has its type, for any number of jobs, workers, requests,
\* archivers and detectors.
THEOREM TypeCorrect == Spec => []TypeOK
<1>1. IngestionInv => TypeOK BY DEF IngestionInv
<1>2. QED BY <1>1, IngestionInvariant, PTL

\* A job's row is in one table from the upload on, and archived only when the
\* job has finished.
THEOREM RowsAreKept == Spec => []KeptInOnePlace
<1>1. IngestionInv => KeptInOnePlace BY DEF IngestionInv, PlaceInv
<1>2. QED BY <1>1, IngestionInvariant, PTL

\* What nobody has in view of a completed or cancelled job stays as it is.
THEOREM SettledJobsStay == Spec => SettledIsForever
<1>1. IngestionInv /\ [Next]_vars => [\A j \in Job : SettledStays(j)]_vars
  BY SettledStep DEF IngestionInv
<1>2. QED BY <1>1, IngestionInvariant, PTL DEF Spec, SettledIsForever

\* An undisturbed job has one worker at a time, and no unit of it is run twice
\* for one upload.
THEOREM JobsRunAlone == Spec => []RunsAlone
<1>1. IngestionInv => RunsAlone
  <2>. SUFFICES ASSUME IngestionInv, NEW j \in Job \ disturbed
                PROVE  /\ \A w, x \in Worker : AtWork(w, j) /\ AtWork(x, j) => w = x
                       /\ \A u \in reran : u[1] # j
    BY DEF RunsAlone
  <2>1. JobInv(j) BY DEF IngestionInv
  <2>2. QED BY <2>1 DEF JobInv, OneToken, RanSoFar, AtWork
<1>2. QED BY <1>1, IngestionInvariant, PTL

\* An undisturbed job that is COMPLETED has had every unit of its last upload
\* run.
THEOREM CompletedJobsAreDone == Spec => []CompletedIsDone
<1>1. IngestionInv => CompletedIsDone
  <2>. SUFFICES ASSUME IngestionInv, NEW j \in Job \ disturbed, TheRow(j).status = "COMPLETED"
                PROVE  \A u \in 1 .. Units([job |-> j, file |-> TheRow(j).file]) : <<j, TheRow(j).file, u>> \in ran
    BY DEF CompletedIsDone
  <2>1. JobInv(j) /\ TypeOK /\ PlaceInv BY DEF IngestionInv
  <2>2. files[j] > 0
    <3>1. Present(active[j]) \/ Present(archive[j]) BY DEF TheRow, Present
    <3>2. files[j] # 0 BY <2>1, <3>1 DEF PlaceInv
    <3>3. QED BY <2>1, <3>2, IngestionAssumption DEF TypeOK
  <2>3. TheRow(j).file = files[j] BY <2>1, <2>2 DEF JobInv, StatusTells
  <2>4. QED BY <2>1, <2>3 DEF JobInv, RanSoFar
<1>2. QED BY <1>1, IngestionInvariant, PTL

=============================================================================
