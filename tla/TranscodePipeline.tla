-------------------------- MODULE TranscodePipeline --------------------------
(***************************************************************************)
(* One video and its transcode job, from POST /videos/{id}/complete to the *)
(* terminal status: the beat dispatcher, the Celery broker, the transcode  *)
(* workers, the stale-heartbeat sweeper and the coach's recovery endpoints *)
(* (cancel, requeue, delete), over two database rows and one object.       *)
(*                                                                         *)
(* An action is one database transaction, except where a transaction's     *)
(* first UPDATE matches no row: PostgreSQL (READ COMMITTED) then holds no  *)
(* lock, other transactions commit in between, and the second UPDATE is a  *)
(* step of its own (pcs "release_video", "fail_video").                    *)
(***************************************************************************)
EXTENDS Naturals, FiniteSets

CONSTANTS
  Workers,      \* Celery worker slots that run run_transcode
  Dispatchers,  \* concurrent runs of dispatch_pending_jobs
  Tasks,        \* Celery task ids; an id no one holds any more stands for a new uuid
  NoTask,       \* NULL in processing_jobs.celery_task_id
  MaxRetries    \* settings.worker_job_max_retries

ASSUME ConstantsAssumption ==
  /\ NoTask \notin Tasks
  /\ MaxRetries \in Nat

VARIABLES
  videoStatus,     \* videos.status, "absent" once the row is deleted
  mezzanineKey,    \* videos.storage_key_mezzanine is not NULL
  jobStatus,       \* processing_jobs.status of stage TRANSCODE, "absent" without a row
  celeryTaskId,    \* processing_jobs.celery_task_id
  heartbeatFresh,  \* heartbeat_at is younger than worker_stale_heartbeat_seconds
  mezzObject,      \* an object is stored under storage_key_for_mezzanine(video)
  queue,           \* messages <<task id, retries>> the broker holds for delivery
  pc,              \* where each worker is in run_transcode
  taskId,          \* self.request.id of the message each worker is handling
  retries,         \* self.request.retries of that message
  dispatchPc,      \* where each dispatcher run is in its loop body
  dispatchTask,    \* the task id its enqueue call returned
  sweeperPc        \* where recover_stale_jobs is for this job

rows     == <<videoStatus, mezzanineKey, jobStatus, celeryTaskId, heartbeatFresh>>
worker   == <<pc, taskId, retries>>
dispatch == <<dispatchPc, dispatchTask>>
vars     == <<rows, mezzObject, queue, worker, dispatch, sweeperPc>>

VideoStatus == {"PENDING_UPLOAD", "QUEUED", "PROCESSING", "PROCESSED", "FAILED", "absent"}
JobStatus   == {"PENDING", "RUNNING", "COMPLETED", "FAILED", "absent"}
Messages    == Tasks \X (0..MaxRetries)

\* Steps inside execute_transcode's try block: an exception there goes to
\* _handle_task_failure; from any other step it escapes to on_failure.
InTry     == {"verify", "encode", "materialize", "audit"}
OutsideTry == {"start", "complete", "handle_retry", "handle_permanent", "release",
               "release_video", "fail", "fail_video"}
WorkerPc == InTry \cup OutsideTry \cup {"idle", "discard", "retry", "raised"}

Init ==
  /\ videoStatus = "PENDING_UPLOAD"
  /\ mezzanineKey = FALSE
  /\ jobStatus = "absent"
  /\ celeryTaskId = NoTask
  /\ heartbeatFresh = FALSE
  /\ mezzObject = FALSE
  /\ queue = {}
  /\ pc = [w \in Workers |-> "idle"]
  /\ taskId = [w \in Workers |-> NoTask]
  /\ retries = [w \in Workers |-> 0]
  /\ dispatchPc = [d \in Dispatchers |-> "idle"]
  /\ dispatchTask = [d \in Dispatchers |-> NoTask]
  /\ sweeperPc = "idle"

------------------------------------------------------------------------------
(* The UPDATE statements of runtime/jobs.py.                                *)

\* Mutant: the caller's allowed_from is forgotten.
set_video_status_unconditional(new, allowedFrom) ==
  videoStatus' = IF videoStatus # "absent" THEN new ELSE videoStatus

\* set_video_status: conditional on allowed_from; no row matched, no change.
set_video_status(new, allowedFrom) ==
  videoStatus' = IF videoStatus \in allowedFrom THEN new ELSE videoStatus

\* Mutants: COMPLETED rows match too; RUNNING rows do not.
fail_job_matches_completed == jobStatus \in {"PENDING", "RUNNING", "COMPLETED"}
fail_job_matches_pending_only == jobStatus = "PENDING"

\* fail_job matches any PENDING or RUNNING row, whoever claimed it.
fail_job_matches == jobStatus \in {"PENDING", "RUNNING"}

\* Mutant: the RUNNING filter becomes "not FAILED".
release_job_matches_completed == jobStatus \in {"RUNNING", "COMPLETED"}

\* release_job_for_retry matches any RUNNING row and keeps celery_task_id.
release_job_matches == jobStatus = "RUNNING"

\* The ownership test of _claimed_job_still_active, complete_job, touch_heartbeat.
StillActive(w) == jobStatus = "RUNNING" /\ celeryTaskId = taskId[w]

\* touch_heartbeat by worker w: only a RUNNING row that carries w's task id.
touch_heartbeat(w) == heartbeatFresh' = (heartbeatFresh \/ StillActive(w))

\* Status sets the callers pass as allowed_from.
Active == {"QUEUED", "PROCESSING"}

Goto(w, step) == pc' = [pc EXCEPT ![w] = step]

\* The run of w ends: its message is acknowledged and the slot is free.
Finish(w) == /\ Goto(w, "idle")
             /\ taskId' = [taskId EXCEPT ![w] = NoTask]
             /\ retries' = [retries EXCEPT ![w] = 0]

\* The run of w moves on to another step.
Continue(w, step) == Goto(w, step) /\ UNCHANGED <<taskId, retries>>

------------------------------------------------------------------------------
(* API endpoints. Each locks the video row, then the job row, FOR UPDATE.   *)

\* POST /complete verified the upload: QUEUED, and the PENDING transcode job.
complete_upload ==
  /\ videoStatus = "PENDING_UPLOAD"
  /\ videoStatus' = "QUEUED"
  /\ jobStatus' = "PENDING"
  /\ celeryTaskId' = NoTask
  /\ UNCHANGED <<mezzanineKey, heartbeatFresh, mezzObject, queue, worker, dispatch, sweeperPc>>

\* POST /processing/cancel: only a RUNNING job of a video not yet terminal.
cancel_processing ==
  /\ videoStatus \in Active
  /\ jobStatus = "RUNNING"
  /\ videoStatus' = "FAILED"
  /\ jobStatus' = "FAILED"
  /\ UNCHANGED <<mezzanineKey, celeryTaskId, heartbeatFresh, mezzObject, queue,
                 worker, dispatch, sweeperPc>>

\* POST /processing/requeue: a failed job of a failed video starts over.
\* Whether the raw object still exists is the storage's answer (see RawRetention).
requeue_processing ==
  /\ videoStatus = "FAILED"
  /\ jobStatus = "FAILED"
  /\ videoStatus' = "QUEUED"
  /\ jobStatus' = "PENDING"
  /\ celeryTaskId' = NoTask
  /\ heartbeatFresh' = FALSE
  /\ UNCHANGED <<mezzanineKey, mezzObject, queue, worker, dispatch, sweeperPc>>

\* DELETE /videos/{id}: known objects removed, then the row and, by cascade,
\* its job. The mezzanine is known only when its key is on the row.
delete_failed_video ==
  /\ videoStatus = "FAILED"
  /\ videoStatus' = "absent"
  /\ jobStatus' = "absent"
  /\ mezzanineKey' = FALSE
  /\ celeryTaskId' = NoTask
  /\ heartbeatFresh' = FALSE
  /\ mezzObject' = (mezzObject /\ ~mezzanineKey)
  /\ UNCHANGED <<queue, worker, dispatch, sweeperPc>>

\* The same request when one storage call fails: the row stays FAILED, the
\* objects whose delete had succeeded are gone.
delete_failed_video_cleanup_fails ==
  /\ videoStatus = "FAILED"
  /\ mezzanineKey
  /\ mezzObject' = FALSE
  /\ UNCHANGED <<rows, queue, worker, dispatch, sweeperPc>>

------------------------------------------------------------------------------
(* dispatch_pending_jobs, run by beat; a slow run overlaps the next.        *)

\* A task id no message, worker, dispatcher or row mentions: a new uuid.
FreshTasks == {t \in Tasks :
  /\ t # celeryTaskId
  /\ \A m \in queue : m[1] # t
  /\ \A w \in Workers : taskId[w] # t
  /\ \A d \in Dispatchers : dispatchTask[d] # t}

\* Mutant: only jobs of videos that still show QUEUED are dispatched.
dispatch_select_queued_only(d) ==
  /\ dispatchPc[d] = "idle"
  /\ jobStatus = "PENDING" /\ videoStatus = "QUEUED"
  /\ celeryTaskId = NoTask
  /\ dispatchPc' = [dispatchPc EXCEPT ![d] = "selected"]
  /\ UNCHANGED <<rows, mezzObject, queue, worker, dispatchTask, sweeperPc>>

\* The SELECT of PENDING jobs with no task id; it takes no lock.
dispatch_select(d) ==
  /\ dispatchPc[d] = "idle"
  /\ jobStatus = "PENDING"
  /\ celeryTaskId = NoTask
  /\ dispatchPc' = [dispatchPc EXCEPT ![d] = "selected"]
  /\ UNCHANGED <<rows, mezzObject, queue, worker, dispatchTask, sweeperPc>>

\* enqueue(job.id, stage): the message is out before the row knows its id.
dispatch_enqueue(d) ==
  /\ dispatchPc[d] = "selected"
  /\ \E t \in FreshTasks :
       /\ queue' = queue \cup {<<t, 0>>}
       /\ dispatchTask' = [dispatchTask EXCEPT ![d] = t]
  /\ dispatchPc' = [dispatchPc EXCEPT ![d] = "sent"]
  /\ UNCHANGED <<rows, mezzObject, worker, sweeperPc>>

\* UPDATE ... SET celery_task_id WHERE status = PENDING AND celery_task_id IS NULL.
dispatch_record(d) ==
  /\ dispatchPc[d] = "sent"
  /\ celeryTaskId' = IF jobStatus = "PENDING" /\ celeryTaskId = NoTask
                       THEN dispatchTask[d] ELSE celeryTaskId
  /\ dispatchPc' = [dispatchPc EXCEPT ![d] = "idle"]
  /\ dispatchTask' = [dispatchTask EXCEPT ![d] = NoTask]
  /\ UNCHANGED <<videoStatus, mezzanineKey, jobStatus, heartbeatFresh, mezzObject,
                 queue, worker, sweeperPc>>

\* The broker refuses the message (the loop goes on), or the run dies.
dispatch_abort(d) ==
  /\ dispatchPc[d] # "idle"
  /\ dispatchPc' = [dispatchPc EXCEPT ![d] = "idle"]
  /\ dispatchTask' = [dispatchTask EXCEPT ![d] = NoTask]
  /\ UNCHANGED <<rows, mezzObject, queue, worker, sweeperPc>>

------------------------------------------------------------------------------
(* execute_transcode, one worker w.                                         *)

\* w takes message m off the queue.
Take(w, m) ==
  /\ pc[w] = "idle"
  /\ m \in queue
  /\ queue' = queue \ {m}

\* claim_job matched the PENDING row: RUNNING under this message's task id.
claim_job(w, m) ==
  /\ Take(w, m)
  /\ jobStatus = "PENDING"
  /\ jobStatus' = "RUNNING"
  /\ celeryTaskId' = m[1]
  /\ heartbeatFresh' = TRUE
  /\ Goto(w, "start")
  /\ taskId' = [taskId EXCEPT ![w] = m[1]]
  /\ retries' = [retries EXCEPT ![w] = m[2]]
  /\ UNCHANGED <<videoStatus, mezzanineKey, mezzObject, dispatch, sweeperPc>>

\* No PENDING row: duplicate delivery, skipped and acknowledged.
claim_skipped(w, m) ==
  /\ Take(w, m)
  /\ jobStatus # "PENDING"
  /\ UNCHANGED <<rows, mezzObject, worker, dispatch, sweeperPc>>

\* The claim raises (lost connection, deadlock victim): on_failure follows.
claim_raises(w, m) ==
  /\ Take(w, m)
  /\ Goto(w, "raised")
  /\ taskId' = [taskId EXCEPT ![w] = m[1]]
  /\ retries' = [retries EXCEPT ![w] = m[2]]
  /\ UNCHANGED <<rows, mezzObject, dispatch, sweeperPc>>

\* The second transaction: video -> PROCESSING. Whether a row matched is ignored.
start(w) ==
  /\ pc[w] = "start"
  /\ set_video_status("PROCESSING", Active)
  /\ Continue(w, "verify")
  /\ UNCHANGED <<mezzanineKey, jobStatus, celeryTaskId, heartbeatFresh, mezzObject,
                 queue, dispatch, sweeperPc>>

\* Heartbeat 10, load the video (a vanished row is a permanent error),
\* re-verify the raw object, heartbeat 50.
verify(w) ==
  /\ pc[w] = "verify"
  /\ touch_heartbeat(w)
  /\ Continue(w, IF videoStatus = "absent" THEN "handle_permanent" ELSE "encode")
  /\ UNCHANGED <<videoStatus, mezzanineKey, jobStatus, celeryTaskId, mezzObject,
                 queue, dispatch, sweeperPc>>

\* _await_with_heartbeat's timer fires while the encoder runs.
heartbeat(w) ==
  /\ pc[w] = "encode"
  /\ StillActive(w)
  /\ ~heartbeatFresh
  /\ touch_heartbeat(w)
  /\ UNCHANGED <<videoStatus, mezzanineKey, jobStatus, celeryTaskId, mezzObject,
                 queue, worker, dispatch, sweeperPc>>

\* create_browser_mezzanine: the output is uploaded under the video's one key.
create_browser_mezzanine(w) ==
  /\ pc[w] = "encode"
  /\ mezzObject' = TRUE
  /\ Continue(w, "materialize")
  /\ UNCHANGED <<rows, queue, dispatch, sweeperPc>>

\* Mutant: the output is published whatever the video's status.
materialize_outputs_any_status(w) ==
  /\ pc[w] = "materialize"
  /\ mezzanineKey' = (mezzanineKey \/ StillActive(w))
  /\ Continue(w, IF StillActive(w) THEN "audit" ELSE "discard")
  /\ UNCHANGED <<videoStatus, jobStatus, celeryTaskId, heartbeatFresh, mezzObject,
                 queue, dispatch, sweeperPc>>

\* _materialize_outputs under the job lock: still the owner and still PROCESSING.
materialize_outputs(w) ==
  /\ pc[w] = "materialize"
  /\ LET ok == StillActive(w) /\ videoStatus = "PROCESSING"
     IN  /\ mezzanineKey' = (mezzanineKey \/ ok)
         /\ Continue(w, IF ok THEN "audit" ELSE "discard")
  /\ UNCHANGED <<videoStatus, jobStatus, celeryTaskId, heartbeatFresh, mezzObject,
                 queue, dispatch, sweeperPc>>

\* _delete_transient_output_best_effort: by key, errors suppressed.
discard(w) ==
  /\ pc[w] = "discard"
  /\ mezzObject' \in {FALSE, mezzObject}
  /\ Finish(w)
  /\ UNCHANGED <<rows, queue, dispatch, sweeperPc>>

\* The "materialized" audit row and heartbeat 80.
audit(w) ==
  /\ pc[w] = "audit"
  /\ touch_heartbeat(w)
  /\ Continue(w, "complete")
  /\ UNCHANGED <<videoStatus, mezzanineKey, jobStatus, celeryTaskId, mezzObject,
                 queue, dispatch, sweeperPc>>

\* complete_job, then the video, in one transaction; no match: skipped.
complete_job(w) ==
  /\ pc[w] = "complete"
  /\ IF StillActive(w)
       THEN /\ jobStatus' = "COMPLETED"
            /\ set_video_status("PROCESSED", {"PROCESSING"})
       ELSE UNCHANGED <<jobStatus, videoStatus>>
  /\ Finish(w)
  /\ UNCHANGED <<mezzanineKey, celeryTaskId, heartbeatFresh, mezzObject, queue,
                 dispatch, sweeperPc>>

------------------------------------------------------------------------------
(* Failures of a run.                                                       *)

\* A TransientProcessingError, or any exception that is not a processing error.
fails_transiently(w) ==
  /\ pc[w] \in InTry
  /\ Continue(w, "handle_retry")
  /\ UNCHANGED <<rows, mezzObject, queue, dispatch, sweeperPc>>

\* A PermanentProcessingError of the checks or of the encoder.
fails_permanently(w) ==
  /\ pc[w] \in {"verify", "encode"}
  /\ Continue(w, "handle_permanent")
  /\ UNCHANGED <<rows, mezzObject, queue, dispatch, sweeperPc>>

\* _handle_task_failure's ownership test: a SELECT without FOR UPDATE.
handle_task_failure(w) ==
  /\ pc[w] \in {"handle_retry", "handle_permanent"}
  /\ IF StillActive(w)
       THEN Continue(w, IF pc[w] = "handle_retry" THEN "release" ELSE "fail")
       ELSE Finish(w)
  /\ UNCHANGED <<rows, mezzObject, queue, dispatch, sweeperPc>>

\* release_job_for_retry and the video back to QUEUED; they commit together
\* when the job row matched.
release_job_for_retry(w) ==
  /\ pc[w] = "release"
  /\ IF release_job_matches
       THEN /\ jobStatus' = "PENDING"
            /\ heartbeatFresh' = TRUE
            /\ set_video_status("QUEUED", Active)
            /\ Continue(w, "retry")
       ELSE Continue(w, "release_video") /\ UNCHANGED <<jobStatus, heartbeatFresh, videoStatus>>
  /\ UNCHANGED <<mezzanineKey, celeryTaskId, mezzObject, queue, dispatch, sweeperPc>>

\* The video update of a release whose job update matched nothing.
release_video(w) ==
  /\ pc[w] = "release_video"
  /\ set_video_status("QUEUED", Active)
  /\ Continue(w, "retry")
  /\ UNCHANGED <<mezzanineKey, jobStatus, celeryTaskId, heartbeatFresh, mezzObject,
                 queue, dispatch, sweeperPc>>

\* self.retry: the same task id again, one retry more.
retry(w) ==
  /\ pc[w] = "retry"
  /\ retries[w] < MaxRetries
  /\ queue' = queue \cup {<<taskId[w], retries[w] + 1>>}
  /\ Finish(w)
  /\ UNCHANGED <<rows, mezzObject, dispatch, sweeperPc>>

\* self.retry past max_retries raises the error instead.
retries_exhausted(w) ==
  /\ pc[w] = "retry"
  /\ retries[w] = MaxRetries
  /\ Continue(w, "raised")
  /\ UNCHANGED <<rows, mezzObject, queue, dispatch, sweeperPc>>

\* fail_job and the video to FAILED, for a permanent error.
fail_job(w) ==
  /\ pc[w] = "fail"
  /\ IF fail_job_matches
       THEN /\ jobStatus' = "FAILED"
            /\ set_video_status("FAILED", Active)
            /\ Finish(w)
       ELSE Continue(w, "fail_video") /\ UNCHANGED <<jobStatus, videoStatus>>
  /\ UNCHANGED <<mezzanineKey, celeryTaskId, heartbeatFresh, mezzObject, queue,
                 dispatch, sweeperPc>>

\* The video update of a failure whose job update matched nothing.
fail_video(w) ==
  /\ pc[w] = "fail_video"
  /\ set_video_status("FAILED", Active)
  /\ Finish(w)
  /\ UNCHANGED <<mezzanineKey, jobStatus, celeryTaskId, heartbeatFresh, mezzObject,
                 queue, dispatch, sweeperPc>>

\* A database error outside the try block rolls back and escapes the task.
raises(w) ==
  /\ pc[w] \in OutsideTry
  /\ Continue(w, "raised")
  /\ UNCHANGED <<rows, mezzObject, queue, dispatch, sweeperPc>>

\* Mutant: on_failure forgets the video.
terminal_failure_job_only(w) ==
  /\ pc[w] = "raised"
  /\ jobStatus' = IF fail_job_matches THEN "FAILED" ELSE jobStatus
  /\ Finish(w)
  /\ UNCHANGED <<videoStatus, mezzanineKey, celeryTaskId, heartbeatFresh, mezzObject,
                 queue, dispatch, sweeperPc>>

\* on_failure -> _terminal_failure: no ownership test, and the video is set to
\* FAILED from any status when a job row matched.
terminal_failure(w) ==
  /\ pc[w] = "raised"
  /\ IF fail_job_matches
       THEN /\ jobStatus' = "FAILED"
            /\ set_video_status("FAILED", VideoStatus \ {"absent"})
       ELSE UNCHANGED <<jobStatus, videoStatus>>
  /\ Finish(w)
  /\ UNCHANGED <<mezzanineKey, celeryTaskId, heartbeatFresh, mezzObject, queue,
                 dispatch, sweeperPc>>

------------------------------------------------------------------------------
(* Broker and process failures.                                             *)

\* acks_late and the visibility timeout: the message of a run still in
\* progress is delivered again.
redeliver(w) ==
  /\ pc[w] # "idle"
  /\ queue' = queue \cup {<<taskId[w], retries[w]>>}
  /\ UNCHANGED <<rows, mezzObject, worker, dispatch, sweeperPc>>

\* The worker process dies; reject_on_worker_lost puts the message back.
crash(w) ==
  /\ pc[w] # "idle"
  /\ queue' = queue \cup {<<taskId[w], retries[w]>>}
  /\ Finish(w)
  /\ UNCHANGED <<rows, mezzObject, dispatch, sweeperPc>>

\* The broker loses a message (Redis without persistence).
lose(m) ==
  /\ m \in queue
  /\ queue' = queue \ {m}
  /\ UNCHANGED <<rows, mezzObject, worker, dispatch, sweeperPc>>

------------------------------------------------------------------------------
(* recover_stale_jobs. Its row locks end with the first commit of the sweep, *)
(* so for every job but the first the update runs on what was selected.     *)

\* Time passes: the heartbeat of a RUNNING job grows old.
heartbeat_ages ==
  /\ jobStatus = "RUNNING"
  /\ heartbeatFresh
  /\ heartbeatFresh' = FALSE
  /\ UNCHANGED <<videoStatus, mezzanineKey, jobStatus, celeryTaskId, mezzObject,
                 queue, worker, dispatch, sweeperPc>>

recover_select ==
  /\ sweeperPc = "idle"
  /\ jobStatus = "RUNNING"
  /\ ~heartbeatFresh
  /\ sweeperPc' = "selected"
  /\ UNCHANGED <<rows, mezzObject, queue, worker, dispatch>>

recover_fail_job ==
  /\ sweeperPc = "selected"
  /\ IF fail_job_matches
       THEN /\ jobStatus' = "FAILED"
            /\ set_video_status("FAILED", Active)
            /\ sweeperPc' = "idle"
       ELSE sweeperPc' = "fail_video" /\ UNCHANGED <<jobStatus, videoStatus>>
  /\ UNCHANGED <<mezzanineKey, celeryTaskId, heartbeatFresh, mezzObject, queue,
                 worker, dispatch>>

recover_fail_video ==
  /\ sweeperPc = "fail_video"
  /\ set_video_status("FAILED", Active)
  /\ sweeperPc' = "idle"
  /\ UNCHANGED <<mezzanineKey, jobStatus, celeryTaskId, heartbeatFresh, mezzObject,
                 queue, worker, dispatch>>

\* The sweep dies; its transaction rolls back.
recover_crash ==
  /\ sweeperPc # "idle"
  /\ sweeperPc' = "idle"
  /\ UNCHANGED <<rows, mezzObject, queue, worker, dispatch>>

------------------------------------------------------------------------------
Api == \/ complete_upload \/ cancel_processing \/ requeue_processing
       \/ delete_failed_video \/ delete_failed_video_cleanup_fails

Dispatch(d) == \/ dispatch_select(d) \/ dispatch_enqueue(d)
               \/ dispatch_record(d) \/ dispatch_abort(d)

\* Steps of a run that succeed, and how it deals with its own errors.
Work(w) == \/ start(w) \/ verify(w) \/ create_browser_mezzanine(w)
           \/ materialize_outputs(w) \/ discard(w) \/ audit(w) \/ complete_job(w)
           \/ handle_task_failure(w) \/ release_job_for_retry(w) \/ release_video(w)
           \/ retry(w) \/ retries_exhausted(w) \/ fail_job(w) \/ fail_video(w)
           \/ terminal_failure(w)

Receive(w) == \E m \in queue : claim_job(w, m) \/ claim_skipped(w, m) \/ claim_raises(w, m)

Fault(w) == \/ fails_transiently(w) \/ fails_permanently(w) \/ raises(w)
            \/ redeliver(w) \/ crash(w)

Sweep == recover_select \/ recover_fail_job \/ recover_fail_video

Next ==
  \/ Api
  \/ \E d \in Dispatchers : Dispatch(d)
  \/ \E w \in Workers : Receive(w) \/ Work(w) \/ heartbeat(w) \/ Fault(w)
  \/ \E m \in queue : lose(m)
  \/ heartbeat_ages \/ Sweep \/ recover_crash

Spec == Init /\ [][Next]_vars

------------------------------------------------------------------------------
(* Fairness. Beat runs the dispatcher and the sweeper for ever and a live   *)
(* worker polls its queue, so what they attempt again and again succeeds    *)
(* at last (strong fairness: a broker outage, a database error or a crash   *)
(* may spoil any one attempt). A run makes progress, and time passes. There *)
(* is no fairness on the API, on faults or on what the broker loses.        *)

Fairness ==
  /\ \A d \in Dispatchers : /\ WF_vars(dispatch_select(d))
                            /\ SF_vars(dispatch_enqueue(d))
                            /\ SF_vars(dispatch_record(d))
  /\ \A w \in Workers : /\ SF_vars(\E m \in queue : claim_job(w, m) \/ claim_skipped(w, m))
                        /\ WF_vars(Work(w))
  /\ WF_vars(heartbeat_ages)
  /\ SF_vars(recover_select) /\ SF_vars(recover_fail_job) /\ WF_vars(recover_fail_video)

FairSpec == Spec /\ Fairness

------------------------------------------------------------------------------
(* Properties.                                                              *)

TypeOK ==
  /\ videoStatus \in VideoStatus
  /\ mezzanineKey \in BOOLEAN
  /\ jobStatus \in JobStatus
  /\ celeryTaskId \in Tasks \cup {NoTask}
  /\ heartbeatFresh \in BOOLEAN
  /\ mezzObject \in BOOLEAN
  /\ queue \subseteq Messages
  /\ pc \in [Workers -> WorkerPc]
  /\ taskId \in [Workers -> Tasks \cup {NoTask}]
  /\ \A w \in Workers : pc[w] # "idle" => taskId[w] \in Tasks
  /\ retries \in [Workers -> 0..MaxRetries]
  /\ dispatchPc \in [Dispatchers -> {"idle", "selected", "sent"}]
  /\ dispatchTask \in [Dispatchers -> Tasks \cup {NoTask}]
  /\ \A d \in Dispatchers : dispatchPc[d] = "sent" => dispatchTask[d] \in Tasks
  /\ sweeperPc \in {"idle", "selected", "fail_video"}

\* A video is PROCESSED only when its transcode job is COMPLETED and the
\* playback key is on the row, whatever duplicate, late or retried runs did:
\* execute_transcode writes both rows in the transaction of complete_job.
ProcessedIsFinished ==
  videoStatus = "PROCESSED" => jobStatus = "COMPLETED" /\ mezzanineKey

\* A FAILED job always has a FAILED video, so requeue_processing, which wants
\* both, never refuses a failed job: every fail_job caller also fails the video.
FailedJobIsRequeueable == jobStatus = "FAILED" => videoStatus = "FAILED"

\* No late worker, retry, sweep or coach action takes a COMPLETED job or a
\* PROCESSED video back: on_failure sets the video FAILED from any status, and
\* only fail_job's row count stands between it and a finished video.
TerminalIsFinal ==
  [][ /\ jobStatus = "COMPLETED" => jobStatus' \in {"COMPLETED", "absent"}
      /\ videoStatus = "PROCESSED" => videoStatus' = "PROCESSED" ]_vars

\* No claim is kept for ever: a RUNNING job is completed, released or failed,
\* even when its worker crashed, was skipped after the claim, or hangs on as a
\* zombie (docs/soc2/INCIDENT_RESPONSE.md, "Worker stuck").
ClaimedJobSettles == jobStatus = "RUNNING" ~> jobStatus # "RUNNING"

\* A job that was never handed to Celery, or was requeued, does not stay
\* undispatched: broker outages and dispatcher crashes only delay it.
UndispatchedJobLeaves ==
  (jobStatus = "PENDING" /\ celeryTaskId = NoTask)
     ~> ~(jobStatus = "PENDING" /\ celeryTaskId = NoTask)

\* What joins the two rows, and why a run that completes has published its
\* key: the inductive invariant behind the properties above. The job row exists
\* exactly while an uploaded video's row does.
RowsAgree ==
  /\ jobStatus = "absent" <=> videoStatus \in {"PENDING_UPLOAD", "absent"}
  /\ ProcessedIsFinished
  /\ FailedJobIsRequeueable
  /\ \A w \in Workers : pc[w] \in {"audit", "complete"}
                          => mezzanineKey \/ videoStatus = "absent"

\* Jobs, messages, late runs and sweeps hidden, the video moves as
\* VideoLifecycle promises its clients: PROCESSED only after the playback key
\* was published, never left again, FAILED left only by requeue or delete.
Lifecycle == INSTANCE VideoLifecycle WITH status <- videoStatus, playback <- mezzanineKey
ImplementsLifecycle == Lifecycle!Spec
==============================================================================
