---------------------------- MODULE RawRetention ----------------------------
(***************************************************************************)
(* The raw upload of one video: who stores it (the client, for as long as  *)
(* its presigned URL lasts), who needs it (complete, transcode, requeue)   *)
(* and who deletes it (DELETE /videos/{id}, the retention sweep and the    *)
(* sweep that retries deletes).                                            *)
(*                                                                         *)
(* Both sweeps select with FOR UPDATE SKIP LOCKED, but the first commit of *)
(* a sweep frees all its rows, so for every row but the first the later    *)
(* steps run without a lock on what was selected: they interleave with the *)
(* requests. The status is that of VideoLifecycle with QUEUED standing for *)
(* QUEUED and PROCESSING.                                                  *)
(***************************************************************************)
EXTENDS Naturals

CONSTANTS
  RetentionRuns,  \* runs of cleanup_expired_raw_videos that may overlap
  RetryRuns,      \* runs of retry_raw_video_storage_deletes that may overlap
  AllowCrash      \* whether a sweep may die half way

ASSUME RunsAssumption ==
  /\ RetentionRuns \cap RetryRuns = {}
  /\ AllowCrash \in BOOLEAN

Runs == RetentionRuns \cup RetryRuns

VARIABLES
  status,           \* videos.status, "absent" once the row is deleted
  hasJob,           \* a transcode job exists
  rawKey,           \* storage_key_raw is not NULL
  rawObject,        \* the object is stored
  expired,          \* raw_retention_expires_at has passed
  deleteRequested,  \* raw_delete_requested_at is not NULL
  storageDeleted,   \* raw_storage_deleted_at (and raw_deleted_at) is not NULL
  urlOpen,          \* the presigned upload URL is still valid
  userAsked,        \* a coach has called DELETE (history)
  lateUpload,       \* the client uploaded after the deletion was requested (history)
  sweepPc           \* where each sweep is with this video

videoRow == <<status, hasJob, rawKey, expired, deleteRequested, storageDeleted>>
client == <<urlOpen, lateUpload>>
vars   == <<videoRow, rawObject, client, userAsked, sweepPc>>

Status == {"PENDING_UPLOAD", "QUEUED", "PROCESSED", "FAILED", "absent"}

Init ==
  /\ status = "PENDING_UPLOAD"
  /\ hasJob = FALSE
  /\ rawKey = TRUE
  /\ rawObject = FALSE
  /\ expired = FALSE
  /\ deleteRequested = FALSE
  /\ storageDeleted = FALSE
  /\ urlOpen = TRUE
  /\ userAsked = FALSE
  /\ lateUpload = FALSE
  /\ sweepPc = [r \in Runs |-> "idle"]

------------------------------------------------------------------------------
(* Requests and the pipeline.                                               *)

\* The client PUTs the file, whatever became of its row meanwhile.
put_object ==
  /\ urlOpen
  /\ rawObject' = TRUE
  /\ lateUpload' = (lateUpload \/ userAsked)
  /\ UNCHANGED <<videoRow, urlOpen, userAsked, sweepPc>>

\* upload_url_expires_seconds pass.
url_expires ==
  /\ urlOpen
  /\ urlOpen' = FALSE
  /\ UNCHANGED <<videoRow, rawObject, lateUpload, userAsked, sweepPc>>

\* POST /complete found the object. What DELETE left on the row stays there.
complete_upload ==
  /\ status = "PENDING_UPLOAD"
  /\ rawKey /\ rawObject
  /\ status' = "QUEUED"
  /\ hasJob' = TRUE
  /\ UNCHANGED <<rawKey, expired, deleteRequested, storageDeleted, rawObject,
                 client, userAsked, sweepPc>>

\* /cancel-upload or the cleanup of abandoned uploads: the object goes, best
\* effort.
abandon_upload ==
  /\ status = "PENDING_UPLOAD"
  /\ status' = "FAILED"
  /\ \E gone \in BOOLEAN : rawObject' = (rawObject /\ ~(gone /\ rawKey))
  /\ UNCHANGED <<hasJob, rawKey, expired, deleteRequested, storageDeleted, client,
                 userAsked, sweepPc>>

\* execute_transcode ends; it needs the object, and fails for good without it.
transcode ==
  /\ status = "QUEUED"
  /\ \/ rawKey /\ rawObject /\ status' = "PROCESSED"
     \/ status' = "FAILED"
  /\ UNCHANGED <<hasJob, rawKey, expired, deleteRequested, storageDeleted, rawObject,
                 client, userAsked, sweepPc>>

\* _assert_raw_object_requeueable.
requeueable == rawKey /\ ~storageDeleted /\ rawObject

\* POST /processing/requeue. raw_delete_requested_at is not reset.
requeue_processing ==
  /\ status = "FAILED" /\ hasJob
  /\ requeueable
  /\ status' = "QUEUED"
  /\ UNCHANGED <<hasJob, rawKey, expired, deleteRequested, storageDeleted, rawObject,
                 client, userAsked, sweepPc>>

\* DELETE /videos/{id}: every storage call succeeded, the row goes.
delete_failed_video ==
  /\ status \in {"FAILED", "PENDING_UPLOAD"}
  /\ status' = "absent"
  /\ hasJob' = FALSE
  /\ rawObject' = (rawObject /\ ~rawKey)
  /\ userAsked' = TRUE
  /\ UNCHANGED <<rawKey, expired, deleteRequested, storageDeleted, client, sweepPc>>

\* One of them failed: the row stays as it is, marked for deletion.
mark_video_cleanup_failed ==
  /\ status \in {"FAILED", "PENDING_UPLOAD"}
  /\ deleteRequested' = TRUE
  /\ \E gone \in BOOLEAN : rawObject' = (rawObject /\ ~(gone /\ rawKey))
  /\ userAsked' = TRUE
  /\ UNCHANGED <<status, hasJob, rawKey, expired, storageDeleted, client, sweepPc>>

\* raw_retention_expires_at, set by /complete, passes: days, where the upload URL
\* lasts an hour.
retention_elapses ==
  /\ hasJob /\ ~expired /\ ~urlOpen
  /\ expired' = TRUE
  /\ UNCHANGED <<status, hasJob, rawKey, deleteRequested, storageDeleted, rawObject,
                 client, userAsked, sweepPc>>

------------------------------------------------------------------------------
(* The sweeps.                                                              *)

Goto(r, step) == sweepPc' = [sweepPc EXCEPT ![r] = step]

\* Mutant: the retention timestamp is not compared with now.
retention_select_unexpired(r) ==
  /\ r \in RetentionRuns /\ sweepPc[r] = "idle"
  /\ rawKey /\ ~storageDeleted /\ hasJob
  /\ status \in {"PROCESSED", "FAILED"}
  /\ Goto(r, "selected")
  /\ UNCHANGED <<videoRow, rawObject, client, userAsked>>

\* cleanup_expired_raw_videos: terminal videos past their window only.
retention_select(r) ==
  /\ r \in RetentionRuns /\ sweepPc[r] = "idle"
  /\ rawKey /\ ~storageDeleted /\ expired
  /\ status \in {"PROCESSED", "FAILED"}
  /\ Goto(r, "selected")
  /\ UNCHANGED <<videoRow, rawObject, client, userAsked>>

\* Mutant: the deletion is recorded before it is done.
retention_mark_final(r) ==
  /\ r \in RetentionRuns /\ sweepPc[r] = "selected"
  /\ deleteRequested' = TRUE
  /\ storageDeleted' = TRUE /\ rawKey' = FALSE
  /\ Goto(r, "marked")
  /\ UNCHANGED <<status, hasJob, expired, rawObject, client, userAsked>>

\* The intent is committed first; the status is not looked at again.
retention_mark(r) ==
  /\ r \in RetentionRuns /\ sweepPc[r] = "selected"
  /\ deleteRequested' = (deleteRequested \/ (status # "absent" /\ ~storageDeleted))
  /\ Goto(r, "marked")
  /\ UNCHANGED <<status, hasJob, rawKey, expired, storageDeleted, rawObject, client,
                 userAsked>>

\* retry_raw_video_storage_deletes: whatever was marked, whatever its status.
retry_select(r) ==
  /\ r \in RetryRuns /\ sweepPc[r] = "idle"
  /\ status # "absent"
  /\ rawKey /\ deleteRequested /\ ~storageDeleted
  /\ Goto(r, "marked")
  /\ UNCHANGED <<videoRow, rawObject, client, userAsked>>

\* storage_delete_object by the key that was selected.
sweep_delete(r) ==
  /\ sweepPc[r] = "marked"
  /\ rawObject' = FALSE
  /\ Goto(r, "deleted")
  /\ UNCHANGED <<videoRow, client, userAsked>>

\* The call raised, its effect unknown: raw_delete_failed_at, on to the next row.
sweep_delete_fails(r) ==
  /\ sweepPc[r] = "marked"
  /\ \E gone \in BOOLEAN : rawObject' = (rawObject /\ ~gone)
  /\ Goto(r, "idle")
  /\ UNCHANGED <<videoRow, client, userAsked>>

\* The outcome is recorded unless another sweep recorded it, or the row is gone.
sweep_record(r) ==
  /\ sweepPc[r] = "deleted"
  /\ storageDeleted' = (storageDeleted \/ status # "absent")
  /\ rawKey' = (rawKey /\ status = "absent")
  /\ Goto(r, "idle")
  /\ UNCHANGED <<status, hasJob, expired, deleteRequested, rawObject, client, userAsked>>

\* The run dies, or its database connection does.
sweep_crash(r) ==
  /\ AllowCrash
  /\ sweepPc[r] # "idle"
  /\ Goto(r, "idle")
  /\ UNCHANGED <<videoRow, rawObject, client, userAsked>>

------------------------------------------------------------------------------
Requests == \/ complete_upload \/ abandon_upload \/ requeue_processing
            \/ delete_failed_video \/ mark_video_cleanup_failed

Sweep(r) == \/ retention_select(r) \/ retention_mark(r) \/ retry_select(r)
            \/ sweep_delete(r) \/ sweep_delete_fails(r) \/ sweep_record(r)

Next == \/ put_object \/ url_expires
        \/ Requests \/ transcode \/ retention_elapses
        \/ \E r \in Runs : Sweep(r) \/ sweep_crash(r)

Spec == Init /\ [][Next]_vars

\* Beat starts the sweeps for ever and storage outages end: what a sweep tries
\* again and again it does at last.
Fairness ==
  \A r \in Runs :
    /\ SF_vars(retention_select(r)) /\ SF_vars(retention_mark(r))
    /\ SF_vars(retry_select(r))
    /\ SF_vars(sweep_delete(r)) /\ SF_vars(sweep_record(r))

FairSpec == Spec /\ Fairness

------------------------------------------------------------------------------
(* Properties.                                                              *)

TypeOK ==
  /\ status \in Status
  /\ hasJob \in BOOLEAN
  /\ rawKey \in BOOLEAN
  /\ rawObject \in BOOLEAN
  /\ expired \in BOOLEAN
  /\ deleteRequested \in BOOLEAN
  /\ storageDeleted \in BOOLEAN
  /\ urlOpen \in BOOLEAN
  /\ userAsked \in BOOLEAN
  /\ lateUpload \in BOOLEAN
  /\ sweepPc \in [Runs -> {"idle", "selected", "marked", "deleted"}]

\* What the row says of the object is true: once raw_storage_deleted_at is set
\* the object is gone, unless the client used its URL again after DELETE, and a
\* row that lost its key has the timestamp that says why. Overlapping sweeps,
\* crashes and requeues do not break it.
DeletionRecordIsTrue ==
  /\ storageDeleted => ~rawObject \/ lateUpload
  /\ status # "absent" => (storageDeleted <=> ~rawKey)

\* The inductive form: a run that is about to record a deletion has done it,
\* and a run deletes only what expired or what a coach asked to delete.
RetentionInv ==
  /\ TypeOK
  /\ DeletionRecordIsTrue
  /\ expired => ~urlOpen
  /\ storageDeleted \/ deleteRequested => expired \/ userAsked
  /\ status = "absent" => userAsked
  /\ hasJob => status \in {"QUEUED", "PROCESSED", "FAILED"}
  /\ \A r \in Runs :
       /\ sweepPc[r] = "deleted" => ~rawObject \/ lateUpload
       /\ sweepPc[r] # "idle" => expired \/ userAsked
       /\ sweepPc[r] = "selected" => expired

\* No sweep deletes the source of a finalised video before its retention window
\* has passed, unless a coach asked for the deletion.
NotDeletedEarly ==
  [][ hasJob /\ rawObject /\ ~rawObject' => expired \/ userAsked' ]_vars

\* Retention is enforced: an expired source of a processed video is deleted at
\* last, storage outages, crashes and overlapping sweeps notwithstanding. (An
\* upload after DELETE may have lost the key that names it.)
ExpiredSourceGoes ==
  (status = "PROCESSED" /\ expired /\ ~lateUpload) ~> ~rawObject
=============================================================================
