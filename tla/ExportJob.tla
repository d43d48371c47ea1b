------------------------------- MODULE ExportJob -------------------------------
(***************************************************************************)
(* Export jobs: the row of table export_job, the Celery message, the ZIP   *)
(* archive in export_dir, the workers that run process_export_job and the  *)
(* API requests that cancel and delete a job.                              *)
(*                                                                         *)
(* Every database access is a step of its own where the code can be        *)
(* overtaken between a read and the commit that depends on it.  The jobs   *)
(* belong to one user: archives of different users never share a name.     *)
(*                                                                         *)
(* A worker's SQLAlchemy session keeps the row it loaded until a commit or *)
(* expire_all() drops it: seen[w] is that copy.  A flush writes only the   *)
(* attributes that differ from it.                                         *)
(***************************************************************************)
EXTENDS Naturals, FiniteSets

CONSTANTS Jobs,             \* export jobs of one user
          NoJob,            \* what an idle worker or request holds
          Workers,          \* Celery worker processes
          Requests,         \* API requests that may be in progress at once
          MaxSecond,        \* bound: archive names are 1..MaxSecond
          MaxRedeliveries,  \* bound: messages the broker delivers again
          Events            \* what the environment may do, a subset of AllEvents

AllEvents == {"cancel", "delete",     \* the user's requests
              "job_error",            \* the export itself fails: I/O, validation, soft time limit
              "db_error",             \* a flush fails: lock timeout, lost connection
              "worker_lost",          \* a worker process dies; the message is requeued
              "redelivery",           \* the broker delivers an unacknowledged message again
              "broker_down",          \* the message cannot be sent after the row is committed
              "same_second",          \* two archives get the same timestamp
              "week_passes"}          \* an archive outlives export_cleanup_days

ASSUME ConstantsAssumption ==
    /\ NoJob \notin Jobs
    /\ MaxSecond \in Nat
    /\ MaxRedeliveries \in Nat
    /\ Events \subseteq AllEvents

VARIABLES status,       \* status[j]: column status, "none" before creation, "absent" once deleted
          filePath,     \* filePath[j]: column file_path
          queue,        \* queue[j]: messages of job j waiting in the broker
          redelivered,  \* messages delivered again so far
          disk,         \* names of the archives in export_dir
          content,      \* content[n]: the jobs whose export was written to archive n in full
          aged,         \* names of archives older than the retention period
          clock,        \* the second the last archive was named after
          pc,           \* pc[w]: where worker w is in process_export_job
          wjob,         \* wjob[w]: the job worker w runs
          seen,         \* seen[w]: the status in the worker's session, Expired if not loaded
          zip,          \* zip[w]: the archive worker w writes or has written
          op,           \* op[r]: what request r still has to do
          rjob,         \* rjob[r]: the job of request r
          rfile,        \* rfile[r]: the file_path request r read
          overtaken     \* history: workers whose loaded row predates a committed cancellation

rowVars     == <<status, filePath>>
brokerVars  == <<queue, redelivered>>
diskVars    == <<disk, content, aged, clock>>
workerVars  == <<pc, wjob, seen, zip>>
requestVars == <<op, rjob, rfile>>
vars == <<rowVars, brokerVars, diskVars, workerVars, requestVars, overtaken>>

Names    == 1..MaxSecond
NoName   == 0
Live     == {"pending", "running", "completed", "failed", "cancelled"}
Terminal == {"completed", "failed", "cancelled"}
Statuses == Live \cup {"none", "absent"}
Expired  == "expired"

Steps == {"idle", "picked", "building", "archiving", "finalizing", "checking",
          "completing", "cancelling", "ending", "acking"}
Ops   == {"idle", "cancel", "delete", "deleteRow"}

TypeOK ==
    /\ status \in [Jobs -> Statuses]
    /\ filePath \in [Jobs -> Names \cup {NoName}]
    /\ queue \in [Jobs -> Nat]
    /\ redelivered \in 0..MaxRedeliveries
    /\ disk \subseteq Names
    /\ content \in [Names -> SUBSET Jobs]
    /\ aged \subseteq Names
    /\ clock \in 0..MaxSecond
    /\ pc \in [Workers -> Steps]
    /\ wjob \in [Workers -> Jobs \cup {NoJob}]
    /\ \A w \in Workers : pc[w] # "idle" => wjob[w] \in Jobs
    /\ seen \in [Workers -> Statuses \cup {Expired}]
    /\ zip \in [Workers -> Names \cup {NoName}]
    /\ op \in [Requests -> Ops]
    /\ rjob \in [Requests -> Jobs \cup {NoJob}]
    /\ \A r \in Requests : op[r] # "idle" => rjob[r] \in Jobs
    /\ rfile \in [Requests -> Names \cup {NoName}]
    /\ overtaken \subseteq Workers

Init ==
    /\ status = [j \in Jobs |-> "none"]
    /\ filePath = [j \in Jobs |-> NoName]
    /\ queue = [j \in Jobs |-> 0]
    /\ redelivered = 0
    /\ disk = {}
    /\ content = [n \in Names |-> {}]
    /\ aged = {}
    /\ clock = 0
    /\ pc = [w \in Workers |-> "idle"]
    /\ wjob = [w \in Workers |-> NoJob]
    /\ seen = [w \in Workers |-> Expired]
    /\ zip = [w \in Workers |-> NoName]
    /\ op = [r \in Requests |-> "idle"]
    /\ rjob = [r \in Requests |-> NoJob]
    /\ rfile = [r \in Requests |-> NoName]
    /\ overtaken = {}

-----------------------------------------------------------------------------
(* The operations of ExportJob and of its session.  A definition named X_Y is X *)
(* with a bug of kind Y, for the mutants of PROJECT.json; nothing uses it here. *)

\* The row as the worker's session shows it: the loaded copy, or a fresh read.
Cached(w) == IF seen[w] = Expired THEN status[wjob[w]] ELSE seen[w]

\* What a flush leaves in the row: a status equal to the loaded one is no UPDATE.
Flushed(j, loaded, new) == IF loaded = new THEN status[j] ELSE new

\* mark_completed and mark_failed leave a row they see cancelled alone.
Marked(loaded, new) == IF loaded = "cancelled" THEN "cancelled" ELSE new

\* raise_if_cancelled: expire_all() and a fresh read; true when it raises.
MustStop(w) == status[wjob[w]] \in {"cancelled", "absent"}

Exists(j) == status[j] \in Live

\* The task goes on with any row it finds that is not cancelled: on a redelivery
\* the job may be running or finished already.
Wanted_Any(j) == Exists(j)
Wanted(j) == status[j] \in Live \ {"cancelled"}

\* Removing archives from export_dir.
Unlink(names) ==
    /\ disk' = disk \ names
    /\ content' = [n \in Names |-> IF n \in names THEN {} ELSE content[n]]

Goto(w, to) == pc' = [pc EXCEPT ![w] = to]

\* A commit or a reload: the worker's copy of the row is no longer an old one.
Load(w, loaded) ==
    /\ seen' = [seen EXCEPT ![w] = loaded]
    /\ overtaken' = overtaken \ {w}

-----------------------------------------------------------------------------
(* POST /export: ExportService.create_export commits the row, then the      *)
(* endpoint sends the message.                                              *)

Create(j) ==
    /\ status[j] = "none"
    /\ status' = [status EXCEPT ![j] = "pending"]
    /\ queue' = [queue EXCEPT ![j] = @ + 1]
    /\ UNCHANGED <<filePath, redelivered, diskVars, workerVars, requestVars, overtaken>>

\* delay() raises: the endpoint answers 500, the row stays.
CreateUnsent(j) ==
    /\ "broker_down" \in Events
    /\ status[j] = "none"
    /\ status' = [status EXCEPT ![j] = "pending"]
    /\ UNCHANGED <<filePath, brokerVars, diskVars, workerVars, requestVars, overtaken>>

-----------------------------------------------------------------------------
(* process_export_job, step by step. *)

\* The task reads the row: gone or cancelled, it returns and acknowledges.
Skip(w, j) ==
    /\ pc[w] = "idle"
    /\ queue[j] > 0
    /\ ~Wanted(j)
    /\ queue' = [queue EXCEPT ![j] = @ - 1]
    /\ UNCHANGED <<rowVars, redelivered, diskVars, workerVars, requestVars, overtaken>>

PickUp(w, j) ==
    /\ pc[w] = "idle"
    /\ queue[j] > 0
    /\ Wanted(j)
    /\ queue' = [queue EXCEPT ![j] = @ - 1]
    /\ Goto(w, "picked")
    /\ wjob' = [wjob EXCEPT ![w] = j]
    /\ Load(w, status[j])
    /\ UNCHANGED <<rowVars, redelivered, diskVars, zip, requestVars>>

\* mark_running and its commit; a row deleted meanwhile makes the flush fail.
MarkRunning(w) ==
    LET j == wjob[w] IN
    /\ pc[w] = "picked"
    /\ Load(w, Expired)
    /\ IF Exists(j)
       THEN /\ status' = [status EXCEPT ![j] = Flushed(j, seen[w], "running")]
            /\ Goto(w, "building")
       ELSE /\ Goto(w, "acking")
            /\ UNCHANGED status
    /\ UNCHANGED <<filePath, brokerVars, diskVars, wjob, zip, requestVars>>

\* The throttled progress callback and the check between media files pass: the
\* row is fresh in the session again.
Proceed(w) ==
    /\ pc[w] \in {"building", "archiving"}
    /\ ~MustStop(w)
    /\ Load(w, status[wjob[w]])
    /\ UNCHANGED <<rowVars, brokerVars, diskVars, pc, wjob, zip, requestVars>>

\* They raise JobCancelledError: the archiver drops its half-written file.
Abort(w) ==
    /\ pc[w] \in {"building", "archiving"}
    /\ MustStop(w)
    /\ Goto(w, "cancelling")
    /\ Unlink({zip[w]})
    /\ zip' = [zip EXCEPT ![w] = NoName]
    /\ Load(w, Expired)
    /\ UNCHANGED <<rowVars, brokerVars, aged, clock, wjob, requestVars>>

\* create_export_zip: its first check, the name, and the file opened for writing.
\* The second of an archive that has aged does not come again.
OpenArchive(w) ==
    LET n == clock' IN
    /\ pc[w] = "building"
    /\ ~MustStop(w)
    /\ clock' \in {clock + 1} \cup (IF "same_second" \in Events THEN {clock} ELSE {})
    /\ n \in Names \ aged
    /\ disk' = disk \cup {n}
    /\ content' = [content EXCEPT ![n] = {}]
    /\ Goto(w, "archiving")
    /\ zip' = [zip EXCEPT ![w] = n]
    /\ Load(w, status[wjob[w]])
    /\ UNCHANGED <<rowVars, brokerVars, aged, wjob, requestVars>>

\* The archive is complete; stat() fails if another job has removed the name.
CloseArchive(w) ==
    /\ pc[w] = "archiving"
    /\ zip[w] \in disk
    /\ content' = [content EXCEPT ![zip[w]] = @ \cup {wjob[w]}]
    /\ Goto(w, "finalizing")
    /\ UNCHANGED <<rowVars, brokerVars, disk, aged, clock, wjob, seen, zip, requestVars, overtaken>>

\* set_progress(EXPORT_FINALIZING) and its commit.  On a row deleted meanwhile the
\* flush fails, the generic handler finds no row, and the archive stays.
Finalize(w) ==
    /\ pc[w] = "finalizing"
    /\ Load(w, Expired)
    /\ IF Exists(wjob[w])
       THEN /\ Goto(w, "checking")
            /\ UNCHANGED zip
       ELSE /\ Goto(w, "ending")
            /\ zip' = [zip EXCEPT ![w] = NoName]
    /\ UNCHANGED <<rowVars, brokerVars, diskVars, wjob, requestVars>>

\* The last check_cancelled().
FinalCheck(w) ==
    /\ pc[w] = "checking"
    /\ IF MustStop(w)
       THEN /\ Goto(w, "cancelling")
            /\ Load(w, Expired)
       ELSE /\ Goto(w, "completing")
            /\ Load(w, status[wjob[w]])
    /\ UNCHANGED <<rowVars, brokerVars, diskVars, wjob, zip, requestVars>>

\* mark_completed on the loaded row, and its commit.
Complete(w) ==
    LET j == wjob[w] IN
    /\ pc[w] = "completing"
    /\ IF Exists(j)
       THEN /\ status' = [status EXCEPT ![j] = Flushed(j, seen[w], Marked(seen[w], "completed"))]
            /\ filePath' = [filePath EXCEPT ![j] = zip[w]]
       ELSE UNCHANGED rowVars
    /\ Goto(w, "ending")
    /\ zip' = [zip EXCEPT ![w] = NoName]
    /\ Load(w, Expired)
    /\ UNCHANGED <<brokerVars, diskVars, wjob, requestVars>>

\* A commit that leaves job j cancelled: every other copy of the row is now old.
CommitCancel(j, w) ==
    /\ status' = [status EXCEPT ![j] = "cancelled"]
    /\ overtaken' = (overtaken \cup {v \in Workers : wjob[v] = j /\ seen[v] # Expired}) \ {w}

\* except JobCancelledError: drop the archive if there is one, mark the row.
DropArchive_Keep(w) == UNCHANGED <<disk, content>>
DropArchive(w) == Unlink({zip[w]})

HandleCancel(w) ==
    LET j == wjob[w] IN
    /\ pc[w] = "cancelling"
    /\ DropArchive(w)
    /\ zip' = [zip EXCEPT ![w] = NoName]
    /\ IF Wanted(j) THEN CommitCancel(j, w) ELSE UNCHANGED <<status, overtaken>>
    /\ Goto(w, "ending")
    /\ UNCHANGED <<filePath, brokerVars, aged, clock, wjob, seen, requestVars>>

\* except Exception, with a session that still works: mark_failed.  The archive,
\* half-written or not, stays.
Fail(w) ==
    LET j == wjob[w] IN
    /\ pc[w] \in {"building", "archiving", "finalizing", "checking", "completing"}
    /\ "job_error" \in Events \/ (pc[w] = "archiving" /\ zip[w] \notin disk)
    /\ IF Exists(j)
       THEN status' = [status EXCEPT ![j] = Flushed(j, Cached(w), Marked(Cached(w), "failed"))]
       ELSE UNCHANGED status
    /\ Goto(w, "ending")
    /\ zip' = [zip EXCEPT ![w] = NoName]
    /\ Load(w, Expired)
    /\ UNCHANGED <<filePath, brokerVars, diskVars, wjob, requestVars>>

\* except Exception after a failed flush: there is no rollback, so reading the row
\* raises again and nothing is recorded.
LoseSession(w) ==
    /\ "db_error" \in Events
    /\ pc[w] \in {"picked", "building", "finalizing", "completing"}
    /\ Goto(w, IF pc[w] = "picked" THEN "acking" ELSE "ending")
    /\ zip' = [zip EXCEPT ![w] = NoName]
    /\ Load(w, Expired)
    /\ UNCHANGED <<rowVars, brokerVars, diskVars, wjob, requestVars>>

\* What cleanup_old_exports removes.
Outdated_All == disk
Outdated == disk \cap aged

\* finally: cleanup_old_exports, for a task that got as far as its ExportService.
CleanUp(w) ==
    /\ pc[w] = "ending"
    /\ Unlink(Outdated)
    /\ Goto(w, "acking")
    /\ UNCHANGED <<rowVars, brokerVars, aged, clock, wjob, seen, zip, requestVars, overtaken>>

\* acks_late: the message is acknowledged when the task has returned.
Acknowledge(w) ==
    /\ pc[w] = "acking"
    /\ Goto(w, "idle")
    /\ wjob' = [wjob EXCEPT ![w] = NoJob]
    /\ UNCHANGED <<rowVars, brokerVars, diskVars, seen, zip, requestVars, overtaken>>

\* The broker has the message of job j (once more).
Requeue_Lost(j) == UNCHANGED queue
Requeue(j) == queue' = [queue EXCEPT ![j] = @ + 1]

\* reject_on_worker_lost: the process dies anywhere before the acknowledgement.
LoseWorker(w) ==
    /\ "worker_lost" \in Events
    /\ pc[w] # "idle"
    /\ redelivered < MaxRedeliveries
    /\ redelivered' = redelivered + 1
    /\ Requeue(wjob[w])
    /\ Goto(w, "idle")
    /\ wjob' = [wjob EXCEPT ![w] = NoJob]
    /\ zip' = [zip EXCEPT ![w] = NoName]
    /\ Load(w, Expired)
    /\ UNCHANGED <<rowVars, diskVars, requestVars>>

\* The broker delivers the message of a job that is still running once more.
Redeliver(w) ==
    /\ "redelivery" \in Events
    /\ pc[w] # "idle"
    /\ redelivered < MaxRedeliveries
    /\ redelivered' = redelivered + 1
    /\ Requeue(wjob[w])
    /\ UNCHANGED <<rowVars, diskVars, workerVars, requestVars, overtaken>>

\* export_cleanup_days pass for an archive nobody is writing.
Age(n) ==
    /\ "week_passes" \in Events
    /\ n \in disk \ aged
    /\ \A w \in Workers : zip[w] # n
    /\ aged' = aged \cup {n}
    /\ UNCHANGED <<rowVars, brokerVars, disk, content, clock, workerVars, requestVars, overtaken>>

-----------------------------------------------------------------------------
(* POST /export/{id}/cancel and DELETE /export/{id}: read, then write. *)

Request(r, what, j, file) ==
    /\ op[r] = "idle"
    /\ op' = [op EXCEPT ![r] = what]
    /\ rjob' = [rjob EXCEPT ![r] = j]
    /\ rfile' = [rfile EXCEPT ![r] = file]
    /\ UNCHANGED <<rowVars, brokerVars, diskVars, workerVars, overtaken>>

Reply_GoOn(r) ==
    /\ UNCHANGED op
    /\ rjob' = [rjob EXCEPT ![r] = NoJob]
    /\ rfile' = [rfile EXCEPT ![r] = NoName]
Reply(r) ==
    /\ op' = [op EXCEPT ![r] = "idle"]
    /\ rjob' = [rjob EXCEPT ![r] = NoJob]
    /\ rfile' = [rfile EXCEPT ![r] = NoName]

\* 409 unless the job is pending or running.
CancelRead(r, j) ==
    /\ "cancel" \in Events
    /\ status[j] \in {"pending", "running"}
    /\ Request(r, "cancel", j, NoName)

\* mark_cancelled and commit, on the row as it is by now; a deleted row is an error.
CancelWrite(r) ==
    /\ op[r] = "cancel"
    /\ IF Exists(rjob[r])
       THEN /\ status' = [status EXCEPT ![rjob[r]] = "cancelled"]
            /\ overtaken' = overtaken \cup {w \in Workers : wjob[w] = rjob[r] /\ seen[w] # Expired}
       ELSE UNCHANGED <<status, overtaken>>
    /\ Reply(r)
    /\ UNCHANGED <<filePath, brokerVars, diskVars, workerVars>>

\* 404 without a row, 409 while it is running.
Deletable(j) == status[j] \in Live \ {"running"}

DeleteRead(r, j) ==
    /\ "delete" \in Events
    /\ Deletable(j)
    /\ Request(r, "delete", j, filePath[j])

\* The file the row named when it was read.
DeleteFile(r) ==
    /\ op[r] = "delete"
    /\ Unlink({rfile[r]})
    /\ op' = [op EXCEPT ![r] = "deleteRow"]
    /\ UNCHANGED <<rowVars, brokerVars, aged, clock, workerVars, rjob, rfile, overtaken>>

DeleteRow(r) ==
    /\ op[r] = "deleteRow"
    /\ status' = [status EXCEPT ![rjob[r]] = "absent"]
    /\ filePath' = [filePath EXCEPT ![rjob[r]] = NoName]
    /\ Reply(r)
    /\ UNCHANGED <<brokerVars, diskVars, workerVars, overtaken>>

-----------------------------------------------------------------------------
WorkerStep(w) ==
    \/ MarkRunning(w) \/ Proceed(w) \/ Abort(w)
    \/ OpenArchive(w) \/ CloseArchive(w) \/ Finalize(w) \/ FinalCheck(w)
    \/ Complete(w) \/ HandleCancel(w) \/ Fail(w) \/ LoseSession(w)
    \/ CleanUp(w) \/ Acknowledge(w)

RequestStep(r) == CancelWrite(r) \/ DeleteFile(r) \/ DeleteRow(r)

Next ==
    \/ \E j \in Jobs : Create(j) \/ CreateUnsent(j)
    \/ \E w \in Workers, j \in Jobs : Skip(w, j) \/ PickUp(w, j)
    \/ \E w \in Workers : WorkerStep(w) \/ LoseWorker(w) \/ Redeliver(w)
    \/ \E r \in Requests, j \in Jobs : CancelRead(r, j) \/ DeleteRead(r, j)
    \/ \E r \in Requests : RequestStep(r)
    \/ \E n \in Names : Age(n)

Spec == Init /\ [][Next]_vars

\* A running task goes on, a free worker takes a waiting message, a request in
\* progress is carried through.  Nothing obliges a user to create, cancel or delete.
Fairness ==
    /\ \A w \in Workers : WF_vars(WorkerStep(w))
    /\ \A w \in Workers, j \in Jobs : WF_vars(Skip(w, j) \/ PickUp(w, j))
    /\ \A r \in Requests : WF_vars(RequestStep(r))

FairSpec == Spec /\ Fairness

-----------------------------------------------------------------------------
(* Properties. *)

\* Archive n holds the export of job j and nothing else.
Intact(j, n) == n \in disk /\ content[n] = {j}

\* Workers in the middle of a task for job j.
Running(j) == {w \in Workers : pc[w] # "idle" /\ wjob[w] = j}

\* A request that has removed the file of job j and is about to remove its row.
BeingDeleted(j) == \E r \in Requests : op[r] = "deleteRow" /\ rjob[r] = j /\ rfile[r] = filePath[j]

\* The download endpoints serve file_path of a completed job: it is that job's own,
\* complete archive, until retention or a deletion in progress removes it.
DownloadIsOwnArchive ==
    \A j \in Jobs : status[j] = "completed" =>
        Intact(j, filePath[j]) \/ filePath[j] \in aged \/ BeingDeleted(j)

\* A job shown as pending or running is in the hands of a task or of the broker: no
\* failure, crash, redelivery or cancellation leaves it behind in that state.
UnfinishedIsOwned ==
    \A j \in Jobs : status[j] \in {"pending", "running"} => queue[j] > 0 \/ Running(j) # {}

\* Every archive in export_dir is named by a row or is in the hands of a worker, so
\* that somebody can still deliver it or delete it.
EveryArchiveAccounted ==
    \A n \in disk : (\E j \in Jobs : filePath[j] = n) \/ (\E w \in Workers : zip[w] = n)

\* A committed cancellation is undone only by a task that had loaded the row before
\* that commit and has not looked at it since.
CancelLostOnlyToOldCopy ==
    [][\A j \in Jobs : status[j] = "cancelled" /\ status'[j] \notin {"cancelled", "absent"}
          => \E w \in overtaken : wjob[w] = j /\ pc'[w] # pc[w]]_vars

\* Every job that is created ends: completed, failed, cancelled or deleted.
EveryJobEnds ==
    \A j \in Jobs : status[j] \in {"pending", "running"} ~> status[j] \in Terminal \cup {"absent"}

-----------------------------------------------------------------------------
(* What all this amounts to for the user of the API (JobService). *)

\* What a download of job j finds.
Download(j) ==
    IF status[j] # "completed" THEN "none"
    ELSE IF ~Intact(j, filePath[j]) THEN "gone"
    ELSE IF filePath[j] \in aged THEN "old" ELSE "ready"

Service == INSTANCE JobService WITH
    archive <- [j \in Jobs |-> Download(j)],
    stale   <- {wjob[w] : w \in overtaken},
    leaving <- {rjob[r] : r \in {q \in Requests : op[q] = "deleteRow"}}

\* Through sessions with old copies of the row, shared files, retention, crashes and
\* redeliveries the jobs keep the contract of JobService: completed and downloadable
\* is one step, an archive goes only by retention or a deletion, which takes the file
\* before the row, and a cancellation is final for all who could know of it.
KeepsContract == Service!Spec

================================================================================
