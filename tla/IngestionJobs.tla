--------------------------- MODULE IngestionJobs ---------------------------
(***************************************************************************)
(* The life of an IngestionJob row: the endpoints of routers/ingestion.py  *)
(* (upload, cancel, requeue), the Celery worker of tasks.py, and the       *)
(* maintenance jobs of services/archival_service.py (archive, restore,     *)
(* flag stuck).                                                            *)
(*                                                                         *)
(* Every actor has a database session of its own, loads the row, decides   *)
(* on what it loaded and writes at its commit; no row is locked and no     *)
(* version compared, so a write goes over whatever status the row has by   *)
(* then.  The broker delivers at least once (task_acks_late): a message is *)
(* acknowledged when the task ends, and comes back when its worker is lost *)
(* or when it stays unacknowledged for too long.                           *)
(*                                                                         *)
(* A file is named by the number of its upload.  Its records, or for an    *)
(* upload that names target instances the targets, are units of work: one  *)
(* run of the executor each, which commits for itself.                     *)
(***************************************************************************)
EXTENDS Integers, FiniteSets

CONSTANTS
  Job,          \* the jobs there can be
  Convergence,  \* those uploaded with target instances (workflow id "resume")
  Worker,       \* Celery workers
  Clerk,        \* threads that serve requests
  Archiver,     \* runs of the archive job: the scheduler's and the admins'
  Flagger,      \* runs of the stuck-job detector
  None,         \* no job
  MaxFiles,     \* bound: files uploaded for one job
  MaxUnits,     \* bound: units of work in a file
  MaxLosses     \* bound: processes that die, messages that come back

ASSUME IngestionAssumption ==
  /\ Convergence \subseteq Job /\ None \notin Job
  /\ MaxFiles \in Nat /\ MaxUnits \in Nat /\ MaxLosses \in Nat

VARIABLES
  active,     \* table ingestion_jobs
  archive,    \* table ingestion_jobs_archive
  files,      \* files uploaded so far per job
  queue,      \* messages waiting at the broker
  worker,     \* per worker: the message it holds and how far it is
  req,        \* per clerk: the request it serves
  archiving,  \* per archiver: the rows it has loaded
  flagging,   \* per flagger: the jobs it has loaded
  ran,        \* units that have been run
  reran,      \* units that have been run more than once
  disturbed,  \* jobs on which a write or a delivery came unexpected
  hit,        \* jobs on which a worker's call of the database failed
  losses      \* losses so far

rowVars == <<active, archive, files>>
workVars == <<queue, worker, ran, reran>>
vars == <<rowVars, workVars, req, archiving, flagging, disturbed, hit, losses>>

Final == {"COMPLETED", "CANCELLED"}
Finished == Final \cup {"FAILED"}
Status == Finished \cup {"PENDING", "PROCESSING"}

\* file: the upload that the row's filename names.
Row == [status : Status \cup {"absent"}, file : 0 .. MaxFiles]
Absent == [status |-> "absent", file |-> 0]
Present(row) == row.status # "absent"

Unit == 1 .. MaxUnits
Message == [job : Job, file : 1 .. MaxFiles]
NoMessage == [job |-> None, file |-> 0]

Work == [pc : {"idle", "loaded", "running"}, msg : Message \cup {NoMessage}, done : 0 .. MaxUnits]
NoWork == [pc |-> "idle", msg |-> NoMessage, done |-> 0]

Request == [pc : {"idle", "loaded", "committed"}, act : {"none", "upload", "cancel", "requeue", "restore"},
            job : Job \cup {None}, seen : Row, file : 0 .. MaxFiles]
NoRequest == [pc |-> "idle", act |-> "none", job |-> None, seen |-> Absent, file |-> 0]

TypeOK ==
  /\ active \in [Job -> Row] /\ archive \in [Job -> Row]
  /\ files \in [Job -> 0 .. MaxFiles]
  /\ queue \subseteq Message
  /\ worker \in [Worker -> Work]
  /\ \A w \in Worker : worker[w].pc # "idle" => worker[w].msg \in Message
  /\ req \in [Clerk -> Request]
  /\ \A c \in Clerk : /\ req[c].pc # "idle" => req[c].job \in Job
                      /\ req[c].pc = "committed" => req[c].file # 0
  /\ archiving \in [Archiver -> [Job -> Row]]
  /\ flagging \in [Flagger -> SUBSET Job]
  /\ ran \subseteq Job \X (1 .. MaxFiles) \X Unit /\ reran \subseteq ran
  /\ disturbed \subseteq Job /\ hit \subseteq Job
  /\ losses \in 0 .. MaxLosses

Init ==
  /\ active = [j \in Job |-> Absent] /\ archive = [j \in Job |-> Absent]
  /\ files = [j \in Job |-> 0]
  /\ queue = {} /\ worker = [w \in Worker |-> NoWork]
  /\ req = [c \in Clerk |-> NoRequest]
  /\ archiving = [a \in Archiver |-> [j \in Job |-> Absent]]
  /\ flagging = [f \in Flagger |-> {}]
  /\ ran = {} /\ reran = {} /\ disturbed = {} /\ hit = {} /\ losses = 0

\* What the executor is run for.  A requeue does not pass the targets on, and
\* the workflow id "resume" stands for no workflow.
Units(m) == IF m.job \in Convergence /\ m.file > 1 THEN 0 ELSE MaxUnits

WriteStatus(j, st) ==
  active' = IF Present(active[j]) THEN [active EXCEPT ![j].status = st] ELSE active

\* The jobs of S whose status is not the one that the writer has read.
Unexpected(S, st) == {j \in S : active[j].status # st}

(***************************************************************************)
(* The endpoints                                                           *)
(***************************************************************************)
\* upload_files_for_processing: a new job is committed as PENDING ...
Upload(c, j) ==
  /\ req[c].pc = "idle" /\ files[j] = 0 /\ MaxFiles > 0
  /\ active' = [active EXCEPT ![j] = [status |-> "PENDING", file |-> 1]]
  /\ files' = [files EXCEPT ![j] = 1]
  /\ req' = [req EXCEPT ![c] = [pc |-> "committed", act |-> "upload", job |-> j,
                                seen |-> Absent, file |-> 1]]
  /\ UNCHANGED <<archive, workVars, archiving, flagging, disturbed, hit, losses>>

\* ... and only then is its message sent, as after a requeue.
Dispatch(c) ==
  /\ req[c].pc = "committed"
  /\ queue' = queue \cup {[job |-> req[c].job, file |-> req[c].file]}
  /\ req' = [req EXCEPT ![c] = NoRequest]
  /\ UNCHANGED <<rowVars, worker, ran, reran, archiving, flagging, disturbed, hit, losses>>

\* Faulty variant: cancelling is allowed while the job is being processed.
LegalCancelAnytime(act, j) ==
  \/ act = "cancel" /\ active[j].status \in {"PENDING", "PROCESSING", "COMPLETED"}
  \/ act = "requeue" /\ active[j].status = "FAILED" /\ files[j] < MaxFiles
  \/ act = "restore" /\ Present(archive[j]) /\ ~Present(active[j])

\* Faulty variant: a job that is still being processed can be requeued.
LegalRequeueAnytime(act, j) ==
  \/ act = "cancel" /\ active[j].status = "PENDING"
  \/ act = "requeue" /\ active[j].status \in {"FAILED", "PROCESSING"} /\ files[j] < MaxFiles
  \/ act = "restore" /\ Present(archive[j]) /\ ~Present(active[j])

\* The checks of cancel_ingestion_job, requeue_ingestion_job and
\* restore_job_from_archive.
Legal(act, j) ==
  \/ act = "cancel" /\ active[j].status = "PENDING"
  \/ act = "requeue" /\ active[j].status = "FAILED" /\ files[j] < MaxFiles
  \/ act = "restore" /\ Present(archive[j]) /\ ~Present(active[j])

\* The row is loaded and found in order; a request that is refused changes nothing.
Load(c, j, act) ==
  /\ req[c].pc = "idle" /\ Legal(act, j)
  /\ req' = [req EXCEPT ![c] =
               [pc |-> "loaded", act |-> act, job |-> j, file |-> 0,
                seen |-> IF act = "restore" THEN archive[j] ELSE active[j]]]
  /\ UNCHANGED <<rowVars, workVars, archiving, flagging, disturbed, hit, losses>>

Cancel(c) ==
  LET j == req[c].job IN
  /\ req[c].pc = "loaded" /\ req[c].act = "cancel"
  /\ WriteStatus(j, "CANCELLED")
  /\ disturbed' = disturbed \cup Unexpected({j}, req[c].seen.status)
  /\ req' = [req EXCEPT ![c] = NoRequest]
  /\ UNCHANGED <<archive, files, workVars, archiving, flagging, hit, losses>>

\* requeue_ingestion_job has read the new file and resets the row.
Requeue(c) ==
  LET j == req[c].job IN
  /\ req[c].pc = "loaded" /\ req[c].act = "requeue"
  /\ Present(active[j]) /\ files[j] < MaxFiles
  /\ active' = [active EXCEPT ![j] = [status |-> "PENDING", file |-> files[j] + 1]]
  /\ files' = [files EXCEPT ![j] = @ + 1]
  /\ disturbed' = disturbed \cup Unexpected({j}, req[c].seen.status)
  /\ req' = [req EXCEPT ![c] = [@ EXCEPT !.pc = "committed", !.seen = Absent,
                                         !.file = files[j] + 1]]
  /\ UNCHANGED <<archive, workVars, archiving, flagging, hit, losses>>

\* Faulty variant: the row is copied back and the archived one left behind.
RestoreCopy(c) ==
  LET j == req[c].job IN
  /\ req[c].pc = "loaded" /\ req[c].act = "restore" /\ ~Present(active[j])
  /\ active' = [active EXCEPT ![j] = req[c].seen]
  /\ disturbed' = IF archive[j] = req[c].seen THEN disturbed ELSE disturbed \cup {j}
  /\ req' = [req EXCEPT ![c] = NoRequest]
  /\ UNCHANGED <<archive, files, workVars, archiving, flagging, hit, losses>>

\* restore_job_from_archive moves what it has loaded back, in one transaction.
Restore(c) ==
  LET j == req[c].job IN
  /\ req[c].pc = "loaded" /\ req[c].act = "restore" /\ ~Present(active[j])
  /\ active' = [active EXCEPT ![j] = req[c].seen]
  /\ archive' = [archive EXCEPT ![j] = Absent]
  /\ disturbed' = IF archive[j] = req[c].seen THEN disturbed ELSE disturbed \cup {j}
  /\ req' = [req EXCEPT ![c] = NoRequest]
  /\ UNCHANGED <<files, workVars, archiving, flagging, hit, losses>>

\* The commit fails: the row to update is gone, the row to insert is there.
RequestFails(c) ==
  /\ req[c].pc = "loaded"
  /\ \/ req[c].act = "requeue" /\ ~Present(active[req[c].job])
     \/ req[c].act = "restore" /\ Present(active[req[c].job])
  /\ req' = [req EXCEPT ![c] = NoRequest]
  /\ UNCHANGED <<rowVars, workVars, archiving, flagging, disturbed, hit, losses>>

\* The request dies with its process, or the broker refuses the message.
RequestDies(c) ==
  /\ req[c].pc # "idle" /\ losses < MaxLosses
  /\ losses' = losses + 1
  /\ req' = [req EXCEPT ![c] = NoRequest]
  /\ UNCHANGED <<rowVars, workVars, archiving, flagging, disturbed, hit>>

EndpointStep(c) ==
  \/ \E j \in Job : Upload(c, j)
  \/ \E j \in Job, act \in {"cancel", "requeue", "restore"} : Load(c, j, act)
  \/ Dispatch(c) \/ Cancel(c) \/ Requeue(c) \/ Restore(c)
  \/ RequestFails(c) \/ RequestDies(c)

(***************************************************************************)
(* The worker                                                              *)
(***************************************************************************)
HasJob(w, j) == worker[w].msg.job = j
AtWork(w, j) == worker[w].pc = "running" /\ HasJob(w, j)

\* Faulty variant: acknowledges a message when it is delivered.
BackEarlyAck(w) == queue

\* The message of a lost worker is delivered again.
Back(w) == queue \cup {worker[w].msg}

\* process_file_task loads the job and finds it PENDING.
Start(w, m) ==
  /\ worker[w].pc = "idle" /\ m \in queue
  /\ active[m.job].status = "PENDING"
  /\ worker' = [worker EXCEPT ![w] = [pc |-> "loaded", msg |-> m, done |-> 0]]
  /\ queue' = queue \ {m}
  /\ UNCHANGED <<rowVars, ran, reran, req, archiving, flagging, disturbed, hit, losses>>

\* Otherwise it returns, and the message is acknowledged.
TurnAway(w, m) ==
  /\ worker[w].pc = "idle" /\ m \in queue
  /\ active[m.job].status # "PENDING"
  /\ queue' = queue \ {m}
  /\ UNCHANGED <<rowVars, worker, ran, reran, req, archiving, flagging, disturbed, hit, losses>>

\* The query fails before there is a job for the handler to write to.
StartFails(w, m) ==
  /\ worker[w].pc = "idle" /\ m \in queue /\ m.job \notin hit
  /\ queue' = queue \ {m}
  /\ hit' = hit \cup {m.job}
  /\ UNCHANGED <<rowVars, worker, ran, reran, req, archiving, flagging, disturbed, losses>>

Rest(w) == worker' = [worker EXCEPT ![w] = NoWork]

Claim(w) ==
  LET j == worker[w].msg.job IN
  /\ worker[w].pc = "loaded" /\ Present(active[j])
  /\ WriteStatus(j, "PROCESSING")
  /\ disturbed' = disturbed \cup Unexpected({j}, "PENDING")
  /\ worker' = [worker EXCEPT ![w].pc = "running"]
  /\ UNCHANGED <<archive, files, queue, ran, reran, req, archiving, flagging, hit, losses>>

\* The commit fails, and so does the handler's with the session as it is: the
\* row is gone, or the database.
ClaimFails(w) ==
  LET j == worker[w].msg.job IN
  /\ worker[w].pc = "loaded"
  /\ \/ ~Present(active[j]) /\ hit' = hit
     \/ j \notin hit /\ hit' = hit \cup {j}
  /\ Rest(w)
  /\ UNCHANGED <<rowVars, queue, ran, reran, req, archiving, flagging, disturbed, losses>>

\* One record, or one target, goes through the executor.
RunUnit(w) ==
  LET m == worker[w].msg  unit == <<m.job, m.file, worker[w].done + 1>> IN
  /\ worker[w].pc = "running" /\ worker[w].done < Units(m)
  /\ ran' = ran \cup {unit}
  /\ reran' = IF unit \in ran THEN reran \cup {unit} ELSE reran
  /\ worker' = [worker EXCEPT ![w].done = @ + 1]
  /\ UNCHANGED <<rowVars, queue, req, archiving, flagging, disturbed, hit, losses>>

Complete(w) ==
  /\ worker[w].pc = "running" /\ worker[w].done = Units(worker[w].msg)
  /\ WriteStatus(worker[w].msg.job, "COMPLETED")
  /\ Rest(w)
  /\ UNCHANGED <<archive, files, queue, ran, reran, req, archiving, flagging, disturbed, hit, losses>>

\* Reading the file or running a unit raises; units that have run stay.
Fail(w) ==
  /\ worker[w].pc = "running"
  /\ WriteStatus(worker[w].msg.job, "FAILED")
  /\ Rest(w)
  /\ UNCHANGED <<archive, files, queue, ran, reran, req, archiving, flagging, disturbed, hit, losses>>

\* As Fail, but the handler's commit fails as well.
FailUnwritten(w) ==
  LET j == worker[w].msg.job IN
  /\ worker[w].pc = "running" /\ j \notin hit
  /\ hit' = hit \cup {j}
  /\ Rest(w)
  /\ UNCHANGED <<rowVars, queue, ran, reran, req, archiving, flagging, disturbed, losses>>

\* The worker's container is lost: the message was not acknowledged.
WorkerLost(w) ==
  /\ worker[w].pc # "idle" /\ losses < MaxLosses
  /\ losses' = losses + 1
  /\ queue' = Back(w)
  /\ disturbed' = IF worker[w].pc = "running" THEN disturbed \cup {worker[w].msg.job} ELSE disturbed
  /\ Rest(w)
  /\ UNCHANGED <<rowVars, ran, reran, req, archiving, flagging, hit>>

\* task_time_limit kills the task, which counts as its end: it is acknowledged.
TimeLimit(w) ==
  /\ worker[w].pc = "running" /\ losses < MaxLosses
  /\ losses' = losses + 1
  /\ Rest(w)
  /\ UNCHANGED <<rowVars, queue, ran, reran, req, archiving, flagging, disturbed, hit>>

\* The broker's visibility timeout passes while the worker lives.
Redeliver(w) ==
  /\ worker[w].pc # "idle" /\ losses < MaxLosses /\ worker[w].msg \notin queue
  /\ losses' = losses + 1
  /\ queue' = Back(w)
  /\ disturbed' = disturbed \cup {worker[w].msg.job}
  /\ UNCHANGED <<rowVars, worker, ran, reran, req, archiving, flagging, hit>>

Take(w) == \E m \in queue : Start(w, m) \/ TurnAway(w, m) \/ StartFails(w, m)
GoOn(w) == Claim(w) \/ ClaimFails(w) \/ RunUnit(w) \/ Complete(w) \/ Fail(w) \/ FailUnwritten(w)
WorkerStep(w) == Take(w) \/ GoOn(w) \/ WorkerLost(w) \/ TimeLimit(w) \/ Redeliver(w)

(***************************************************************************)
(* The maintenance jobs                                                    *)
(***************************************************************************)
\* A row that finished a week ago or more (the smallest retention).  A request
\* takes seconds and a task an hour at most, so whoever has it in view has
\* loaded it as it is now.
Aged(j) ==
  /\ active[j].status \in Finished
  /\ \A w \in Worker : ~HasJob(w, j)
  /\ \A c \in Clerk : req[c].job = j => req[c].pc = "loaded" /\ req[c].seen = active[j]
  /\ \A a \in Archiver : archiving[a][j] \in {Absent, active[j]}
  /\ \A f \in Flagger : j \notin flagging[f]

Batch(a) == {j \in Job : Present(archiving[a][j])}
EmptyBatch == [j \in Job |-> Absent]

\* archive_old_ingestion_jobs loads the old rows ...
ArchiveLoad(a, S) ==
  /\ Batch(a) = {} /\ S # {}
  /\ \A j \in S : Aged(j)
  /\ archiving' = [archiving EXCEPT ![a] = [j \in Job |-> IF j \in S THEN active[j] ELSE Absent]]
  /\ UNCHANGED <<rowVars, workVars, req, flagging, disturbed, hit, losses>>

\* What the archive table becomes: copies of the rows as they were loaded.
Moved(a) == [j \in Job |-> IF j \in Batch(a) THEN archiving[a][j] ELSE archive[j]]

\* ... and moves them in one transaction; the rows are deleted by key.
Archive(a) ==
  /\ Batch(a) # {} /\ \A j \in Batch(a) : ~Present(archive[j])
  /\ archive' = Moved(a)
  /\ active' = [j \in Job |-> IF j \in Batch(a) THEN Absent ELSE active[j]]
  /\ disturbed' = disturbed \cup {j \in Batch(a) : active[j] # archiving[a][j]}
  /\ archiving' = [archiving EXCEPT ![a] = EmptyBatch]
  /\ UNCHANGED <<files, workVars, req, flagging, hit, losses>>

\* One of the rows has been archived by then: the transaction is rolled back.
ArchiveRollsBack(a) ==
  /\ \E j \in Batch(a) : Present(archive[j])
  /\ archiving' = [archiving EXCEPT ![a] = EmptyBatch]
  /\ UNCHANGED <<rowVars, workVars, req, flagging, disturbed, hit, losses>>

\* flag_stuck_ingestion_jobs loads rows that are PROCESSING for five minutes or
\* more; nothing tells it whether their worker lives.
FlagLoad(f, S) ==
  /\ flagging[f] = {} /\ S # {}
  /\ \A j \in S : active[j].status = "PROCESSING"
  /\ flagging' = [flagging EXCEPT ![f] = S]
  /\ UNCHANGED <<rowVars, workVars, req, archiving, disturbed, hit, losses>>

\* The flagged rows; the commit fails for all of them if one is gone.
Flagged(S) ==
  IF \A j \in S : Present(active[j])
  THEN [j \in Job |-> IF j \in S THEN [active[j] EXCEPT !.status = "FAILED"] ELSE active[j]]
  ELSE active

Flag(f) ==
  /\ flagging[f] # {}
  /\ active' = Flagged(flagging[f])
  /\ disturbed' = disturbed \cup Unexpected(flagging[f], "PROCESSING")
                    \cup {j \in flagging[f] : \E w \in Worker : AtWork(w, j)}
  /\ flagging' = [flagging EXCEPT ![f] = {}]
  /\ UNCHANGED <<archive, files, workVars, req, archiving, hit, losses>>

MaintenanceStep ==
  \/ \E a \in Archiver : Archive(a) \/ ArchiveRollsBack(a) \/ \E S \in SUBSET Job : ArchiveLoad(a, S)
  \/ \E f \in Flagger : Flag(f) \/ \E S \in SUBSET Job : FlagLoad(f, S)

Next ==
  \/ \E c \in Clerk : EndpointStep(c)
  \/ \E w \in Worker : WorkerStep(w)
  \/ MaintenanceStep

Spec == Init /\ [][Next]_vars

\* Workers take messages and get on with them (the time limit sees to it), and
\* the scheduler runs the detector every hour.  Users and archiving owe nothing.
Fairness ==
  /\ \A w \in Worker : WF_vars(Take(w)) /\ WF_vars(GoOn(w))
  /\ \A f \in Flagger, j \in Job :
       WF_vars(\E S \in SUBSET Job : j \in S /\ FlagLoad(f, S)) /\ WF_vars(Flag(f))

FairSpec == Spec /\ Fairness

(***************************************************************************)
(* What holds                                                              *)
(***************************************************************************)
\* A job is in exactly one of the two tables from its upload on, and in the
\* archive only when it has finished: whatever restores, requeues, workers and
\* several runs of the archive job do at once.
KeptInOnePlace ==
  \A j \in Job :
    /\ ~(Present(active[j]) /\ Present(archive[j]))
    /\ files[j] > 0 => Present(active[j]) \/ Present(archive[j])
    /\ Present(archive[j]) => archive[j].status \in Finished

\* Nobody holds a job with anything but its final row in view.
TheRow(j) == IF Present(active[j]) THEN active[j] ELSE archive[j]
Settled(j) ==
  /\ TheRow(j).status \in Final
  /\ \A w \in Worker : ~HasJob(w, j)
  /\ \A c \in Clerk : req[c].job = j /\ req[c].pc = "loaded" =>
       req[c].act = "restore" /\ req[c].seen = TheRow(j)
  /\ \A a \in Archiver : archiving[a][j] \in {Absent, TheRow(j)}
  /\ \A f \in Flagger : j \notin flagging[f]

\* A completed or cancelled job that nobody has in view stays as it is through
\* archiving, restoring and messages that are still to come, and no more of its
\* units are run.
SettledStays(j) ==
  Settled(j) => /\ Settled(j)' /\ TheRow(j)' = TheRow(j)
                /\ \A u \in ran' : u[1] = j => u \in ran
                /\ \A u \in reran' : u[1] = j => u \in reran
SettledIsForever == [][\A j \in Job : SettledStays(j)]_vars

\* Unless a write went over a status its writer had not read, a message came
\* back after its claim, or a job was flagged under a living worker, a job has
\* one worker at a time and none of its units is run twice for one upload.
RunsAlone ==
  \A j \in Job \ disturbed :
    /\ \A w, x \in Worker : AtWork(w, j) /\ AtWork(x, j) => w = x
    /\ \A u \in reran : u[1] # j

\* Under the same proviso a job that is COMPLETED has had every unit of its
\* last upload run.  (A requeued job that named targets has no units.)
CompletedIsDone ==
  \A j \in Job \ disturbed :
    LET row == TheRow(j) IN
    row.status = "COMPLETED" =>
      \A u \in 1 .. Units([job |-> j, file |-> row.file]) : <<j, row.file, u>> \in ran

\* A job that waits with its message at the broker does not wait forever,
\* workers being lost notwithstanding, unless the database failed the worker.
Waiting(j) == active[j].status = "PENDING" /\ \E m \in queue : m.job = j
WaitingEnds == \A j \in Job : Waiting(j) ~> (active[j].status # "PENDING" \/ j \in hit)

\* No job is PROCESSING forever, whatever became of its worker.
ProcessingEnds ==
  \A j \in Job : active[j].status = "PROCESSING" ~> active[j].status # "PROCESSING"

\* So a requeued or redelivered job comes to rest: it neither waits beside its
\* message nor stays PROCESSING for ever.
JobsEnd == WaitingEnds /\ ProcessingEnds

\* celery_app.py has messages delivered again "if the worker container crashes
\* midway": a job left PROCESSING with no worker is taken up when its message
\* comes back.
Abandoned(j) == active[j].status = "PROCESSING" /\ \A w \in Worker : ~HasJob(w, j)
RedeliveryResumes ==
  [][\A m \in queue : Abandoned(m.job) /\ m.job \notin hit' /\ m \notin queue' =>
       \E w \in Worker : worker'[w].msg = m]_vars

=============================================================================
