----------------------------- MODULE DemoPreview -----------------------------
(***************************************************************************)
(* The detector preview of one processed video. Its progress is kept twice: *)
(* in a state file beside the rendered artifact, and in the video row. The  *)
(* API queues a render (create_demo_preview), a Celery worker renders under *)
(* two lock files, uploads the artifact and imports the candidate tags; a   *)
(* coach may cancel; a sweep removes old directories. Processes die and     *)
(* leave their lock files behind; a dead worker's task is redelivered.      *)
(* Ages are abstracted to fresh/old, old meaning past                       *)
(* cv_demo_timeout_seconds + 60.                                            *)
(***************************************************************************)
EXTENDS Integers, FiniteSets

CONSTANTS
  MaxTasks,    \* POSTs that may ever be made, each with the task it may send
  Tagging,     \* alpha_candidate_tags_enabled
  MaxRetries,  \* retry_limit of run_demo_preview
  MaxFaults,   \* bound on deaths, cancels and things that grow old together
  None

ASSUME DemoPreviewAssumption ==
  /\ MaxRetries \in Nat /\ MaxFaults \in Nat /\ Tagging \in BOOLEAN
  /\ MaxTasks \in Nat /\ None \notin Nat

Tasks == 1..MaxTasks
PreviewStatus == {"idle", "queued", "running", "completed", "failed"}
Open == {"queued", "running"}
Ages == {"none", "fresh", "old"}
Locks == [by : Tasks \cup {None}, old : BOOLEAN]
NoLock == [by |-> None, old |-> FALSE]
HeldBy(x) == [by |-> x, old |-> FALSE]
NoState == [st |-> "idle", req |-> "none", start |-> "none"]

VARIABLES
  mode,     \* "local": API and worker share the disk; "alpha": they do not;
            \* "nostorage": shared disk, worker without object storage
  file,     \* demo-preview.state.json, NoState without a file
  art,      \* task whose render is the artifact on disk
  tags,     \* task whose report is the candidate-tags file on disk
  lockM,    \* .demo-preview.machine.lock
  lockR,    \* .demo-preview.run.lock
  lockQ,    \* .demo-preview.queue.lock
  row,      \* the video's demo_preview_status
  stored,   \* task whose render is the object in storage
  events,   \* task whose report the candidate events come from
  pc,       \* where a task is
  snap,     \* demo_preview_status as the task's session last saw it
  tagged,   \* outcome of the task's candidate tagging
  retries,  \* retries the task has used
  apc,      \* where a request is
  cancelling, \* a request to cancel has read the row
  faults,   \* deaths, cancels and things that grew old, counted
  late,     \* history: a task loaded the row before its request's commit
  broken,   \* history: a live render lost a lock
  disowned  \* history: the queue lock or an open state grew old, or a task
            \* failed after its state said completed

disk   == <<file, art, tags>>
locks  == <<lockM, lockR>>
db     == <<row, events>>
task   == <<pc, snap, tagged, retries>>
api    == <<apc, lockQ, cancelling>>
hist   == <<faults, late, broken, disowned>>
previewVars   == <<mode, disk, locks, db, stored, task, api, hist>>

PreviewInit ==
  /\ mode \in {"local", "alpha", "nostorage"}
  /\ file = NoState /\ art = None /\ tags = None
  /\ lockM = NoLock /\ lockR = NoLock /\ lockQ = NoLock
  /\ row = "idle" /\ stored = None /\ events = None
  /\ pc = [t \in Tasks |-> "unsent"] /\ snap = [t \in Tasks |-> "idle"]
  /\ tagged = [t \in Tasks |-> "none"] /\ retries = [t \in Tasks |-> 0]
  /\ apc = [t \in Tasks |-> "idle"] /\ cancelling = FALSE
  /\ faults = 0 /\ late = FALSE /\ broken = FALSE /\ disowned = FALSE

Fault == faults < MaxFaults /\ faults' = faults + 1
Live(t) == pc[t] \notin {"unsent", "done"}

-----------------------------------------------------------------------------
(* The state file.                                                         *)

\* _state_is_stale: the age of started_at, or of requested_at without one.
state_is_stale(f) ==
  f.st \in Open /\ IF f.start # "none" THEN f.start = "old" ELSE f.req # "fresh"

\* resolve_demo_preview_state: what the file says after it has been
\* reconciled with its age and with the artifact on disk.
resolve_demo_preview_state(f) ==
  LET aged == IF state_is_stale(f) THEN [f EXCEPT !.st = "failed", !.start = "none"] ELSE f
  IN IF f = NoState
       THEN IF art = None THEN NoState ELSE [NoState EXCEPT !.st = "completed"]
       ELSE CASE aged.st = "completed" /\ art = None -> [aged EXCEPT !.st = "failed"]
              [] aged.st = "failed" /\ art # None -> [aged EXCEPT !.st = "completed"]
              [] OTHER -> aged

resolved == resolve_demo_preview_state(file)

\* mark_demo_preview_queued; requested_at is kept unless a new one is given.
mark_queued(new) ==
  file' = [st |-> "queued", start |-> "none",
           req |-> IF new \/ resolved.req = "none" THEN "fresh" ELSE resolved.req]

mark_running ==
  file' = [st |-> "running", start |-> "fresh",
           req |-> IF resolved.req = "none" THEN "fresh" ELSE resolved.req]

\* The started_at of a closed state is never read: it is left out.
closed(st) == file' = [resolved EXCEPT !.st = st, !.start = "none"]
mark_failed == closed("failed")
mark_completed == closed("completed")

\* The unit of work flushes an attribute only when it differs from the value
\* the session loaded; otherwise the row keeps what another session wrote.
flushed(loaded, st) == IF st = loaded THEN row ELSE st

Alive(l) == l.by # None /\ pc[l.by] \in {"gotM", "running"}

-----------------------------------------------------------------------------
(* POST and DELETE /videos/{id}/demo-preview.                              *)

\* create_demo_preview loads the video; a queued or running row is returned.
\* Requests are numbered in the order in which they come and go on.
create_load(t) ==
  /\ apc[t] = "idle" /\ \A u \in 1..(t - 1) : apc[u] # "idle"
  /\ row \notin Open
  /\ apc' = [apc EXCEPT ![t] = "loaded"]
  /\ UNCHANGED <<mode, disk, locks, db, stored, task, lockQ, cancelling, hist>>

Turn(t) == apc[t] = "loaded" /\ \A u \in 1..(t - 1) : apc[u] # "loaded"

\* Under the queue lock: a queued or running state is returned as it is.
create_refused(t) ==
  /\ lockQ.by = None \/ lockQ.old
  /\ resolved.st \in Open
  /\ file' = resolved /\ lockQ' = NoLock
  /\ apc' = [apc EXCEPT ![t] = "end"]
  /\ UNCHANGED task

\* Otherwise the state is marked queued and the task is sent.
create_sent(t) ==
  /\ lockQ.by = None \/ lockQ.old
  /\ resolved.st \notin Open
  /\ mark_queued(TRUE) /\ lockQ' = HeldBy(t)
  /\ pc' = [pc EXCEPT ![t] = "waiting"]
  /\ apc' = [apc EXCEPT ![t] = "sent"]
  /\ UNCHANGED <<snap, tagged, retries>>

\* The broker refuses the task: completed again with an artifact, else failed.
create_send_failed(t) ==
  /\ lockQ.by = None \/ lockQ.old
  /\ resolved.st \notin Open
  /\ file' = [st |-> IF art # None THEN "completed" ELSE "failed", req |-> "fresh", start |-> "none"]
  /\ lockQ' = NoLock
  /\ apc' = [apc EXCEPT ![t] = "end"]
  /\ UNCHANGED task

\* The queue lock stays taken for a second.
create_contended(t) ==
  /\ lockQ.by # None /\ ~lockQ.old
  /\ file' = resolved
  /\ apc' = [apc EXCEPT ![t] = "end"]
  /\ UNCHANGED <<task, lockQ>>

\* queue_demo_preview_request on a shared disk, up to the send.
queue_demo_preview_request(t) ==
  /\ Turn(t) /\ mode # "alpha"
  /\ \/ create_refused(t)
     \/ create_sent(t)
     \/ create_send_failed(t)
     \/ create_contended(t)
  /\ UNCHANGED <<mode, art, tags, locks, db, stored, cancelling, hist>>

\* The second mark, with the task id, and the release of the queue lock.
queue_marked(t) ==
  /\ apc[t] = "sent"
  /\ mark_queued(FALSE) /\ lockQ' = NoLock
  /\ apc' = [apc EXCEPT ![t] = "commit"]
  /\ UNCHANGED <<mode, art, tags, locks, db, stored, task, cancelling, hist>>

\* _queue_storage_backed_alpha_preview_request: only the loaded row is read.
queue_alpha_request(t) ==
  /\ Turn(t) /\ mode = "alpha"
  /\ \/ /\ apc' = [apc EXCEPT ![t] = "end"]
        /\ UNCHANGED pc
     \/ /\ pc' = [pc EXCEPT ![t] = "waiting"]
        /\ apc' = [apc EXCEPT ![t] = "commit"]
  /\ UNCHANGED <<mode, disk, locks, db, stored, snap, tagged, retries, lockQ, cancelling,
                 hist>>

\* The request's transaction: the row becomes queued, whatever the task that
\* was sent before has written since.
create_commit(t) ==
  /\ apc[t] = "commit"
  /\ row' = "queued"
  /\ apc' = [apc EXCEPT ![t] = "end"]
  /\ UNCHANGED <<mode, disk, locks, events, stored, task, lockQ, cancelling, hist>>

\* cancel_demo_preview finds the row queued or running; it reads without a
\* lock.
cancel_load ==
  /\ row \in Open /\ ~cancelling /\ Fault
  /\ cancelling' = TRUE
  /\ UNCHANGED <<mode, disk, locks, db, stored, task, apc, lockQ, late, broken, disowned>>

\* Its transaction: the row becomes failed, whatever was written to it since.
\* The task and the state file are not told.
cancel_commit ==
  /\ cancelling
  /\ row' = "failed" /\ cancelling' = FALSE
  /\ UNCHANGED <<mode, disk, locks, events, stored, task, apc, lockQ, hist>>

\* _demo_preview_view of a row without a preview of its own reads the file.
demo_preview_view ==
  /\ row = "idle" /\ mode # "alpha"
  /\ file' = resolved
  /\ UNCHANGED <<mode, art, tags, locks, db, stored, task, api, hist>>

-----------------------------------------------------------------------------
(* run_demo_preview on a worker.                                           *)

TaskAt(t, l) == pc' = [pc EXCEPT ![t] = l]

\* The process of t is gone, and what it had in memory with it.
Leave(t, l) ==
  /\ TaskAt(t, l)
  /\ snap' = [snap EXCEPT ![t] = "idle"] /\ tagged' = [tagged EXCEPT ![t] = "none"]

End(t) == Leave(t, "done") /\ retries' = [retries EXCEPT ![t] = 0]

\* execute_demo_preview without storage: only the state file is told.
execute_without_storage(t) ==
  /\ pc[t] = "waiting" /\ mode = "nostorage"
  /\ mark_failed /\ End(t)
  /\ UNCHANGED <<mode, art, tags, locks, db, stored, api, hist>>

\* The worker loads the video.
execute_load(t) ==
  /\ pc[t] = "waiting" /\ mode # "nostorage"
  /\ snap' = [snap EXCEPT ![t] = row] /\ TaskAt(t, "loaded")
  /\ late' = (late \/ apc[t] \in {"sent", "commit"})
  /\ UNCHANGED <<mode, disk, locks, db, stored, tagged, retries, api, faults, broken, disowned>>

\* _acquire_lock of the machine lock: O_EXCL, or a lock found too old.
machine_lock(t) ==
  /\ pc[t] = "loaded"
  /\ \/ lockM.by = None /\ lockM' = HeldBy(t) /\ TaskAt(t, "gotM")
     \/ lockM.old /\ TaskAt(t, "breakM") /\ UNCHANGED lockM
  /\ UNCHANGED <<mode, disk, lockR, db, stored, snap, tagged, retries, api, hist>>

\* The old lock is unlinked by its name, whoever holds it by now, and taken.
machine_lock_broken(t) ==
  /\ pc[t] = "breakM"
  /\ broken' = (broken \/ Alive(lockM))
  /\ lockM' = HeldBy(t) /\ TaskAt(t, "gotM")
  /\ UNCHANGED <<mode, disk, lockR, db, stored, snap, tagged, retries, api, faults, late, disowned>>

\* self.retry, until retry_limit; then the failure is final.
Retry(t) ==
  IF retries[t] < MaxRetries
    THEN Leave(t, "waiting") /\ retries' = [retries EXCEPT ![t] = @ + 1]
    ELSE Leave(t, "finalize") /\ UNCHANGED retries

\* Mutant: the lock is released whether or not it was acquired.
machine_busy_releases(t) ==
  /\ pc[t] = "loaded" /\ lockM.by # None /\ ~lockM.old
  /\ mark_queued(FALSE)
  /\ row' = flushed(snap[t], "queued")
  /\ lockM' = NoLock /\ Retry(t)
  /\ UNCHANGED <<mode, art, tags, lockR, events, stored, api, hist>>

\* DEMO_PREVIEW_MACHINE_BUSY: queued again and retried.
machine_busy(t) ==
  /\ pc[t] = "loaded" /\ lockM.by # None /\ ~lockM.old
  /\ mark_queued(FALSE)
  /\ row' = flushed(snap[t], "queued")
  /\ Retry(t)
  /\ UNCHANGED <<mode, art, tags, locks, events, stored, api, hist>>

\* The run lock is free or old: it is taken, and on_started commits
\* _mark_preview_running.
Running(t) ==
  /\ lockR' = HeldBy(t) /\ mark_running
  /\ row' = flushed(snap[t], "running")
  /\ snap' = [snap EXCEPT ![t] = "running"] /\ TaskAt(t, "running")
  /\ UNCHANGED <<mode, art, tags, lockM, events, stored, tagged, retries, api, faults, late, disowned>>

run_lock(t) ==
  /\ pc[t] = "gotM" /\ (lockR.by = None \/ lockR.old)
  /\ broken' = (broken \/ Alive(lockR))
  /\ Running(t)

\* DEMO_PREVIEW_IN_PROGRESS: the task is skipped.
in_progress(t) ==
  /\ pc[t] = "gotM" /\ lockR.by # None /\ ~lockR.old
  /\ lockM' = NoLock /\ file' = resolved /\ End(t)
  /\ UNCHANGED <<mode, art, tags, lockR, db, stored, api, hist>>

\* The end of render_demo_preview_artifact: the artifact replaces the one on
\* disk, the report its file (an error removes the old one), and both lock
\* files are unlinked by name.
render_published(t) ==
  /\ pc[t] = "running"
  /\ art' = t
  /\ \E o \in IF Tagging THEN {"report", "error"} ELSE {"none"} :
       /\ tagged' = [tagged EXCEPT ![t] = o]
       /\ tags' = CASE o = "report" -> t [] o = "error" -> None [] OTHER -> tags
  /\ lockM' = NoLock /\ lockR' = NoLock /\ TaskAt(t, "published")
  /\ UNCHANGED <<mode, file, db, stored, snap, retries, api, hist>>

\* Any error before: the locks the task took are released, then "failed".
\* Errors before the machine lock are those of validation and of the video.
Failed(t) ==
  /\ mark_failed
  /\ row' = flushed(snap[t], "failed")
  /\ End(t)
  /\ UNCHANGED <<mode, art, tags, events, stored, api, hist>>

render_failed(t) ==
  \/ pc[t] = "loaded" /\ Failed(t) /\ UNCHANGED locks
  \/ pc[t] = "running" /\ Failed(t) /\ lockM' = NoLock /\ lockR' = NoLock

\* _upload_demo_preview_artifact sends whatever is on disk by now.
upload(t) ==
  /\ pc[t] = "published"
  /\ \/ /\ art # None
        /\ stored' = art /\ TaskAt(t, "uploaded")
        /\ UNCHANGED <<mode, disk, locks, db, snap, tagged, retries, api, hist>>
     \/ Failed(t) /\ UNCHANGED locks

\* Mutant: a failed tagging leaves the events of the render before.
sync_alpha_candidate_tags_kept(t) == IF tagged[t] = "report" /\ tags # None THEN {tags} ELSE {events}

\* _sync_alpha_candidate_tags: the candidate events become those of the
\* report on disk, if it is accepted; a failed tagging removes them.
sync_alpha_candidate_tags(t) ==
  CASE tagged[t] = "none" -> {events}
    [] tagged[t] = "report" /\ tags # None -> {tags, None}
    [] OTHER -> {None}

\* The success branch, one transaction behind the row lock of the video.
execute_completed(t) ==
  /\ pc[t] = "uploaded"
  /\ mark_completed
  /\ row' = flushed(snap[t], "completed")
  /\ events' \in sync_alpha_candidate_tags(t)
  /\ End(t)
  /\ UNCHANGED <<mode, art, tags, locks, stored, api, hist>>

\* The transaction fails: the exception escapes to on_failure.
execute_escapes(t) ==
  /\ pc[t] = "uploaded"
  /\ mark_completed /\ TaskAt(t, "finalize") /\ disowned' = TRUE
  /\ UNCHANGED <<mode, art, tags, locks, db, stored, snap, tagged, retries, api, faults, late, broken>>

\* Mutant: exhausted retries only end the task.
finalize_forgotten(t) ==
  /\ pc[t] = "finalize" /\ End(t)
  /\ UNCHANGED <<mode, disk, locks, db, stored, api, hist>>

\* finalize_demo_preview_failure, after MaxRetriesExceededError or on_failure.
finalize_demo_preview_failure(t) ==
  /\ pc[t] = "finalize"
  /\ mark_failed /\ row' = "failed"
  /\ End(t)
  /\ UNCHANGED <<mode, art, tags, locks, events, stored, api, hist>>

-----------------------------------------------------------------------------
(* Time, deaths, the sweep.                                                *)

OldState == [file EXCEPT !.req = IF @ = "fresh" THEN "old" ELSE @,
                         !.start = IF @ = "fresh" THEN "old" ELSE @]

\* More than cv_demo_timeout_seconds + 60 pass. A task takes its two locks
\* and marks its state running one right after the other: they grow old
\* together.
time_passes ==
  /\ Fault
  /\ \/ /\ file.st \in Open /\ (file.st = "running" => lockM.by = None)
        /\ file # OldState /\ file' = OldState /\ disowned' = TRUE
        /\ UNCHANGED <<lockM, lockR, lockQ>>
     \/ /\ lockM.by # None /\ ~lockM.old /\ pc[lockM.by] # "gotM"
        /\ lockM' = [lockM EXCEPT !.old = TRUE]
        /\ lockR' = [lockR EXCEPT !.old = @ \/ lockR.by = lockM.by]
        /\ file' = IF file.st = "running" THEN OldState ELSE file
        /\ disowned' = (disowned \/ file' # file)
        /\ UNCHANGED lockQ
     \/ /\ lockR.by \notin {None, lockM.by} /\ ~lockR.old
        /\ lockR' = [lockR EXCEPT !.old = TRUE]
        /\ UNCHANGED <<file, lockM, lockQ, disowned>>
     \/ /\ lockQ.by # None /\ ~lockQ.old
        /\ lockQ' = [lockQ EXCEPT !.old = TRUE] /\ disowned' = TRUE
        /\ UNCHANGED <<file, lockM, lockR>>
  /\ UNCHANGED <<mode, art, tags, db, stored, task, apc, cancelling, late, broken>>

\* A worker dies in the render, leaving its locks, or between the upload and
\* the transaction; acks_late returns its task to the broker. Elsewhere a
\* death leaves nothing that the redelivered task would meet.
worker_dies(t) ==
  /\ Fault /\ pc[t] \in {"running", "uploaded"}
  /\ Leave(t, "waiting")
  /\ UNCHANGED <<mode, disk, locks, db, stored, retries, api, late, broken, disowned>>

\* An API process dies after the send: its queue lock stays, its transaction
\* is lost.
api_dies(t) ==
  /\ Fault /\ apc[t] = "sent"
  /\ apc' = [apc EXCEPT ![t] = "end"]
  /\ UNCHANGED <<mode, disk, locks, db, stored, task, lockQ, cancelling, late, broken, disowned>>

\* cleanup_expired_demo_previews: the directory is older than
\* cv_demo_retention_seconds, at least an hour, so nothing is writing to it.
cleanup_expired_demo_previews ==
  /\ file # NoState /\ (file.st \in Open => state_is_stale(file))
  /\ (lockR.by # None => lockR.old) /\ (lockQ.by # None => lockQ.old)
  /\ \A t \in Tasks : pc[t] \notin {"gotM", "running", "published", "uploaded"}
  /\ file' = NoState /\ art' = None /\ tags' = None /\ lockR' = NoLock /\ lockQ' = NoLock
  /\ UNCHANGED <<mode, lockM, db, stored, task, apc, cancelling, hist>>

-----------------------------------------------------------------------------
\* The steps of the worker that runs t.
worker_step(t) ==
  \/ execute_without_storage(t) \/ execute_load(t)
  \/ machine_lock(t) \/ machine_lock_broken(t) \/ machine_busy(t)
  \/ run_lock(t) \/ in_progress(t) \/ render_published(t) \/ render_failed(t)
  \/ upload(t) \/ execute_completed(t) \/ execute_escapes(t)
  \/ finalize_demo_preview_failure(t)

\* The steps a request takes once it is made.
request_step(t) ==
  \/ queue_demo_preview_request(t) \/ queue_marked(t)
  \/ queue_alpha_request(t) \/ create_commit(t)

PreviewNext ==
  \/ \E t \in Tasks : create_load(t) \/ request_step(t) \/ api_dies(t)
  \/ cancel_load \/ cancel_commit \/ demo_preview_view
  \/ \E t \in Tasks : worker_step(t) \/ worker_dies(t)
  \/ time_passes \/ cleanup_expired_demo_previews

\* Workers and requests that are alive go on; nobody is obliged to make a
\* request, to cancel or to look at the video.
PreviewFairness ==
  /\ \A t \in Tasks : WF_previewVars(worker_step(t))
  /\ \A t \in Tasks : WF_previewVars(request_step(t))

PreviewSpec == PreviewInit /\ [][PreviewNext]_previewVars /\ PreviewFairness

-----------------------------------------------------------------------------
(* Properties.                                                             *)

\* Type invariant.
PreviewTypeOK ==
  /\ mode \in {"local", "alpha", "nostorage"}
  /\ file \in [st : PreviewStatus, req : Ages, start : Ages]
  /\ {art, tags, stored, events} \subseteq Tasks \cup {None}
  /\ {lockM, lockR, lockQ} \subseteq Locks
  /\ row \in PreviewStatus
  /\ pc \in [Tasks -> {"unsent", "waiting", "loaded", "breakM", "gotM", "running",
                       "published", "uploaded", "finalize", "done"}]
  /\ snap \in [Tasks -> PreviewStatus] /\ tagged \in [Tasks -> {"none", "report", "error"}]
  /\ retries \in [Tasks -> 0..MaxRetries]
  /\ apc \in [Tasks -> {"idle", "loaded", "sent", "commit", "end"}]
  /\ cancelling \in BOOLEAN
  /\ faults \in 0..MaxFaults
  /\ late \in BOOLEAN /\ broken \in BOOLEAN /\ disowned \in BOOLEAN

\* One inference at a time on the machine, through busy retries, skips,
\* failures, deaths and redeliveries, until the lock of a live render is
\* taken for an old one: the lock ages past cv_demo_timeout_seconds + 60
\* while the tagging alone may take longer (_acquire_lock,
\* render_demo_preview_artifact).
OneRender ==
  broken \/ Cardinality({t \in Tasks : pc[t] \in {"gotM", "running"}}) <= 1

\* Requests on a shared disk never have two tasks under way, although each
\* reads the row and sends its task before it commits: the queue lock and the
\* state file hold the second one back, until the state
\* stops speaking for a task that is still under way (queue_demo_preview_request).
OneLiveTask ==
  mode = "alpha" \/ disowned \/ Cardinality({t \in Tasks : Live(t)}) <= 1

\* A completed row has an artifact in storage, and the candidate events shown
\* with it are not those of another render: report, upload and transaction
\* may fail one by one and a death may fall between them
\* (execute_demo_preview, _sync_alpha_candidate_tags). Only while tasks do
\* not overlap.
TagsMatchPreview ==
  row = "completed" /\ mode # "alpha" /\ ~disowned =>
    stored # None /\ (Tagging => events \in {None, stored})

\* A queued or running row does not stay so: every end of a task, exhausted
\* retries, escaped exceptions and redeliveries after a death included,
\* closes the row, unless its task had read the row before the request's
\* own commit, a live render lost its lock, or the worker has no storage (run_demo_preview,
\* DemoPreviewTask.on_failure, create_demo_preview).
RowSettles ==
  row \in Open ~> (row \notin Open \/ late \/ broken \/ mode = "nostorage")

\* One at a time: one render on the machine, one task under way for the video
\* (render_demo_preview_artifact, queue_demo_preview_request).
OneAtATime == PreviewTypeOK /\ OneRender /\ OneLiveTask
=============================================================================
