----------------------------- MODULE UploadQuota -----------------------------
(***************************************************************************)
(* The uploads of one billing account: the quota check that reserves a     *)
(* slot when a presigned URL is issued, the client's upload, /complete,    *)
(* /cancel-upload and DELETE, and cleanup_abandoned_uploads, over the      *)
(* video rows, the raw objects and the usage ledger.                       *)
(*                                                                         *)
(* A request holds its video row FOR UPDATE across its storage calls       *)
(* (variable request). The cleanup does not lock what it selects: its      *)
(* storage call and, when its UPDATE matches no row, its release of the    *)
(* slot interleave with everyone else. initiate_upload runs under the      *)
(* account's row lock and is one step. base and stray are history: they    *)
(* guard nothing.                                                          *)
(***************************************************************************)
EXTENDS Integers, FiniteSetsExt

CONSTANTS
  Videos,      \* video ids
  NoVideo,     \* the cleanup works on no video
  Sizes,       \* declared file sizes
  MaxVideos,   \* the plan's max_videos_per_month
  MaxStorage   \* what the plan's max_storage_gb leaves these videos, in units of Sizes

ASSUME QuotaAssumption ==
  /\ IsFiniteSet(Videos) /\ NoVideo \notin Videos
  /\ Sizes \subseteq Nat
  /\ MaxVideos \in Nat
  /\ MaxStorage \in Nat

VARIABLES
  status,         \* videos.status; "none" before the row, "absent" after it
  size,           \* videos.file_size_bytes
  multipart,      \* the upload was presigned as multipart
  hasJob,         \* a transcode job exists: the upload was finalised
  expired,        \* upload_expires_at plus the cleanup's grace has passed
  rawObject,      \* an object is stored under storage_key_raw
  multipartOpen,  \* the storage still holds the open multipart upload
  net,            \* sum of the "video.upload.initiated" events of one video
  used,           \* the same sum over the account since current_period_start
  base,           \* what used was before these uploads
  stray,          \* the uploads whose slot the cleanup gave back though its
                  \* UPDATE had found them no longer pending
  request,        \* the request that holds a video's row lock, and its step
  cleanupPc,      \* where cleanup_abandoned_uploads is
  cleanupRows,    \* the rows it selected and has not dealt with
  cleanupVideo    \* the row it is dealing with

video   == <<status, size, multipart, hasJob, expired>>
storage == <<rawObject, multipartOpen>>
ledger  == <<net, used>>
history == <<base, stray>>
cleanup == <<cleanupPc, cleanupRows, cleanupVideo>>
vars    == <<video, storage, ledger, history, request, cleanup>>

\* QUEUED stands for QUEUED and PROCESSING, which this component treats alike.
Status == {"none", "PENDING_UPLOAD", "QUEUED", "PROCESSED", "FAILED", "absent"}
Request == {"none", "complete", "uploaded", "verified", "delete", "delete_release"}

\* The account may have finalised uploads before these: used starts anywhere
\* within the plan.
Init ==
  /\ status = [v \in Videos |-> "none"]
  /\ size = [v \in Videos |-> 0]
  /\ multipart = [v \in Videos |-> FALSE]
  /\ hasJob = [v \in Videos |-> FALSE]
  /\ expired = [v \in Videos |-> FALSE]
  /\ rawObject = [v \in Videos |-> FALSE]
  /\ multipartOpen = [v \in Videos |-> FALSE]
  /\ net = [v \in Videos |-> 0]
  /\ used \in 0..MaxVideos
  /\ base = used
  /\ stray = {}
  /\ request = [v \in Videos |-> "none"]
  /\ cleanupPc = "idle"
  /\ cleanupRows = {}
  /\ cleanupVideo = NoVideo

------------------------------------------------------------------------------
(* billing.py.                                                              *)

\* videos_used_this_period: no code moves current_period_start, so the sum
\* runs over every event of the account.
videos_used_this_period == IF used < 0 THEN 0 ELSE used

\* Mutant: the limit itself is still allowed.
check_video_upload_quota_inclusive == videos_used_this_period <= MaxVideos

check_video_upload_quota == videos_used_this_period < MaxVideos

\* storage_bytes_reserved: every row of the account that is not FAILED.
storage_bytes_reserved ==
  MapThenSumSet(LAMBDA v : size[v],
                {v \in Videos : status[v] \notin {"none", "FAILED", "absent"}})

check_video_storage_quota(bytes) == storage_bytes_reserved + bytes <= MaxStorage

\* record_usage of quantity q for video v.
record_usage(v, q) == net' = [net EXCEPT ![v] = @ + q] /\ used' = used + q

\* release_video_upload_quota_reservation, read and insert in one step.
release_reservation(v) ==
  IF net[v] > 0 THEN record_usage(v, -1) ELSE UNCHANGED ledger

------------------------------------------------------------------------------
(* Requests.                                                                *)

\* Mutant: rows are read without FOR UPDATE.
Locked_never(v) == FALSE

\* Whether another transaction holds the row of v FOR UPDATE.
Locked(v) == request[v] # "none"

\* An UPDATE of v's row, or a SELECT FOR UPDATE of it, can proceed.
Unlocked(v) == ~Locked(v)

Hold(v, step) == request' = [request EXCEPT ![v] = step]

Become(v, s) == status' = [status EXCEPT ![v] = s]

\* POST /videos/upload: both quota checks, the row, the presigned URL and the
\* ledger entry; a presign failure rolls everything back.
initiate_upload(v) ==
  /\ status[v] = "none"
  /\ check_video_upload_quota
  /\ \E b \in Sizes, m \in BOOLEAN :
       /\ check_video_storage_quota(b)
       /\ size' = [size EXCEPT ![v] = b]
       /\ multipart' = [multipart EXCEPT ![v] = m]
       /\ multipartOpen' = [multipartOpen EXCEPT ![v] = m]
  /\ Become(v, "PENDING_UPLOAD")
  /\ record_usage(v, 1)
  /\ UNCHANGED <<hasJob, expired, rawObject, request, cleanup, history>>

\* The client PUTs the file to its presigned URL, whatever became of the row.
put_object(v) ==
  /\ status[v] # "none"
  /\ ~multipart[v] /\ ~expired[v]
  /\ rawObject' = [rawObject EXCEPT ![v] = TRUE]
  /\ UNCHANGED <<video, multipartOpen, ledger, request, cleanup, history>>

\* POST /complete locks a row that awaits its upload. (A repeated call on a
\* finalised row answers from the row and changes nothing.)
complete_lock(v) ==
  /\ status[v] = "PENDING_UPLOAD"
  /\ Unlocked(v)
  /\ Hold(v, "complete")
  /\ UNCHANGED <<video, storage, ledger, cleanup, history>>

\* storage_complete_multipart turns the parts into the object.
complete_multipart(v) ==
  /\ request[v] = "complete"
  /\ multipart[v] /\ multipartOpen[v]
  /\ multipartOpen' = [multipartOpen EXCEPT ![v] = FALSE]
  /\ rawObject' = [rawObject EXCEPT ![v] = TRUE]
  /\ Hold(v, "uploaded")
  /\ UNCHANGED <<video, ledger, cleanup, history>>

\* The step at which _verify_uploaded_object finds an object to look at.
AtVerify(v) ==
  /\ request[v] = (IF multipart[v] THEN "uploaded" ELSE "complete")
  /\ rawObject[v]

\* Size and checksum match.
complete_verify(v) ==
  /\ AtVerify(v)
  /\ Hold(v, "verified")
  /\ UNCHANGED <<video, storage, ledger, cleanup, history>>

\* They do not: the object is deleted (best effort), the row stays as it was.
complete_rejects(v) ==
  /\ AtVerify(v)
  /\ \E gone \in BOOLEAN : rawObject' = [rawObject EXCEPT ![v] = ~gone]
  /\ Hold(v, "none")
  /\ UNCHANGED <<video, multipartOpen, ledger, cleanup, history>>

\* The row becomes QUEUED with its transcode job.
complete_commit(v) ==
  /\ request[v] = "verified"
  /\ Become(v, "QUEUED")
  /\ hasJob' = [hasJob EXCEPT ![v] = TRUE]
  /\ Hold(v, "none")
  /\ UNCHANGED <<size, multipart, expired, storage, ledger, cleanup, history>>

\* A request ends in an error (storage failure, nothing uploaded, lost
\* database connection): rolled back, what the storage did stays done.
request_fails(v) ==
  /\ request[v] # "none"
  /\ Hold(v, "none")
  /\ UNCHANGED <<video, storage, ledger, cleanup, history>>

\* The storage part of /cancel-upload: abort the multipart upload, or delete
\* the object, best effort.
cancel_storage(v) ==
  IF multipart[v]
    THEN multipartOpen' = [multipartOpen EXCEPT ![v] = FALSE] /\ UNCHANGED rawObject
    ELSE /\ \E gone \in BOOLEAN : rawObject' = [rawObject EXCEPT ![v] = @ /\ ~gone]
         /\ UNCHANGED multipartOpen

\* The storage refuses to abort a multipart upload it no longer holds.
Abortable(v) == status[v] = "PENDING_UPLOAD" /\ multipart[v] => multipartOpen[v]

\* POST /cancel-upload; and the same when its transaction fails at the end.
cancel_upload(v) ==
  /\ status[v] = "PENDING_UPLOAD"
  /\ Unlocked(v)
  /\ Abortable(v)
  /\ cancel_storage(v)
  /\ Become(v, "FAILED")
  /\ release_reservation(v)
  /\ UNCHANGED <<size, multipart, hasJob, expired, request, cleanup, history>>

cancel_upload_fails(v) ==
  /\ status[v] = "PENDING_UPLOAD"
  /\ Unlocked(v)
  /\ Abortable(v)
  /\ cancel_storage(v)
  /\ UNCHANGED <<video, ledger, request, cleanup, history>>

\* DELETE /videos/{id}: objects removed, the multipart upload of a pending row
\* aborted, the reservation read; the insert and the row's end commit later.
delete_failed_video(v) ==
  /\ status[v] \in {"FAILED", "PENDING_UPLOAD"}
  /\ Unlocked(v)
  /\ Abortable(v)
  /\ rawObject' = [rawObject EXCEPT ![v] = FALSE]
  /\ multipartOpen' = [multipartOpen EXCEPT ![v] = @ /\ status[v] # "PENDING_UPLOAD"]
  /\ Hold(v, IF net[v] > 0 THEN "delete_release" ELSE "delete")
  /\ UNCHANGED <<video, ledger, cleanup, history>>

\* One of its storage calls failed: the row stays, some objects are gone.
delete_storage_fails(v) ==
  /\ status[v] \in {"FAILED", "PENDING_UPLOAD"}
  /\ Unlocked(v)
  /\ \E raw, parts \in BOOLEAN :
       /\ rawObject' = [rawObject EXCEPT ![v] = @ /\ ~raw]
       /\ multipartOpen' = [multipartOpen EXCEPT
                              ![v] = @ /\ ~(parts /\ status[v] = "PENDING_UPLOAD")]
  /\ UNCHANGED <<video, ledger, request, cleanup, history>>

\* Mutant: the ledger entry of the deleted video is left alone.
delete_commit_without_release(v) ==
  /\ request[v] \in {"delete", "delete_release"}
  /\ Become(v, "absent")
  /\ hasJob' = [hasJob EXCEPT ![v] = FALSE]
  /\ Hold(v, "none")
  /\ UNCHANGED <<size, multipart, expired, storage, ledger, cleanup, history>>

delete_commit(v) ==
  /\ request[v] \in {"delete", "delete_release"}
  /\ IF request[v] = "delete_release" THEN record_usage(v, -1) ELSE UNCHANGED ledger
  /\ Become(v, "absent")
  /\ hasJob' = [hasJob EXCEPT ![v] = FALSE]
  /\ Hold(v, "none")
  /\ UNCHANGED <<size, multipart, expired, storage, cleanup, history>>

\* POST /processing/requeue of a failed transcode whose raw object is there.
requeue_processing(v) ==
  /\ status[v] = "FAILED" /\ hasJob[v]
  /\ Unlocked(v)
  /\ rawObject[v]
  /\ Become(v, "QUEUED")
  /\ UNCHANGED <<size, multipart, hasJob, expired, storage, ledger, request, cleanup, history>>

\* How TranscodePipeline ends: a result needs the raw object, a failure nothing.
transcode(v) ==
  /\ status[v] = "QUEUED"
  /\ \/ rawObject[v] /\ Become(v, "PROCESSED")
     \/ Become(v, "FAILED")
  /\ UNCHANGED <<size, multipart, hasJob, expired, storage, ledger, request, cleanup, history>>

------------------------------------------------------------------------------
(* cleanup_abandoned_uploads.                                               *)

\* The unlocked SELECT of pending rows past their window.
cleanup_select ==
  /\ cleanupPc = "idle"
  /\ cleanupRows' = {v \in Videos : status[v] = "PENDING_UPLOAD" /\ expired[v]}
  /\ cleanupRows' # {}
  /\ cleanupPc' = "loop"
  /\ UNCHANGED <<video, storage, ledger, request, cleanupVideo, history>>

\* Abort or delete, errors suppressed, on what was selected.
cleanup_storage(v) ==
  /\ cleanupPc = "loop"
  /\ v \in cleanupRows
  /\ \/ cancel_storage(v)
     \/ UNCHANGED storage
  /\ cleanupPc' = "update"
  /\ cleanupVideo' = v
  /\ UNCHANGED <<video, ledger, request, cleanupRows, history>>

\* The run is done with its current row.
NextRow == /\ cleanupRows' = cleanupRows \ {cleanupVideo}
           /\ cleanupPc' = (IF cleanupRows \ {cleanupVideo} = {} THEN "idle" ELSE "loop")
           /\ cleanupVideo' = NoVideo

\* Mutant: the slot of an abandoned upload is kept.
cleanup_abandon_keeps_slot(v) ==
  /\ cleanupPc = "update" /\ cleanupVideo = v
  /\ status[v] = "PENDING_UPLOAD"
  /\ Unlocked(v)
  /\ Become(v, "FAILED")
  /\ NextRow
  /\ UNCHANGED <<size, multipart, hasJob, expired, storage, ledger, request, history>>

\* The UPDATE matched the pending row (waiting for its lock if need be): FAILED,
\* and the slot released in the same transaction.
cleanup_abandon(v) ==
  /\ cleanupPc = "update" /\ cleanupVideo = v
  /\ status[v] = "PENDING_UPLOAD"
  /\ Unlocked(v)
  /\ Become(v, "FAILED")
  /\ release_reservation(v)
  /\ NextRow
  /\ UNCHANGED <<size, multipart, hasJob, expired, storage, request, history>>

\* The UPDATE matched nothing; the release follows all the same. Its read:
cleanup_unmatched(v) ==
  /\ cleanupPc = "update" /\ cleanupVideo = v
  /\ status[v] # "PENDING_UPLOAD"
  /\ IF net[v] > 0
       THEN cleanupPc' = "release" /\ UNCHANGED <<cleanupRows, cleanupVideo>>
       ELSE NextRow
  /\ UNCHANGED <<video, storage, ledger, request, history>>

\* ... and its insert.
cleanup_release(v) ==
  /\ cleanupPc = "release" /\ cleanupVideo = v
  /\ record_usage(v, -1)
  /\ stray' = stray \cup {v}
  /\ NextRow
  /\ UNCHANGED <<video, storage, base, request>>

\* The run dies; its open transaction rolls back.
cleanup_crash ==
  /\ cleanupPc # "idle"
  /\ cleanupPc' = "idle" /\ cleanupRows' = {} /\ cleanupVideo' = NoVideo
  /\ UNCHANGED <<video, storage, ledger, request, history>>

------------------------------------------------------------------------------
(* Time.                                                                    *)

\* The upload window and its grace elapse.
window_elapses(v) ==
  /\ status[v] # "none" /\ ~expired[v]
  /\ expired' = [expired EXCEPT ![v] = TRUE]
  /\ UNCHANGED <<status, size, multipart, hasJob, storage, ledger, request, cleanup, history>>

------------------------------------------------------------------------------
Upload(v) == initiate_upload(v) \/ put_object(v) \/ window_elapses(v)

Complete(v) == \/ complete_lock(v) \/ complete_multipart(v) \/ complete_verify(v)
               \/ complete_rejects(v) \/ complete_commit(v) \/ request_fails(v)

Recover(v) == \/ cancel_upload(v) \/ cancel_upload_fails(v) \/ delete_failed_video(v)
              \/ delete_storage_fails(v) \/ delete_commit(v) \/ requeue_processing(v)

Cleanup(v) == \/ cleanup_storage(v) \/ cleanup_abandon(v)
              \/ cleanup_unmatched(v) \/ cleanup_release(v)

Next ==
  \/ \E v \in Videos : Upload(v) \/ Complete(v) \/ Recover(v) \/ transcode(v) \/ Cleanup(v)
  \/ cleanup_select \/ cleanup_crash

Spec == Init /\ [][Next]_vars

\* A request ends, upload windows elapse, beat runs the cleanup again and
\* again, its runs die only finitely often, and a cleanup waiting for a row
\* lock gets it at last (PostgreSQL queues waiters).
Fairness ==
  /\ \A v \in Videos :
       /\ WF_vars(request_fails(v) \/ complete_commit(v) \/ delete_commit(v))
       /\ WF_vars(window_elapses(v))
       /\ SF_vars(Cleanup(v))
  /\ WF_vars(cleanup_select)
  /\ <>[][~cleanup_crash]_vars

FairSpec == Spec /\ Fairness

------------------------------------------------------------------------------
(* Properties.                                                              *)

TypeOK ==
  /\ status \in [Videos -> Status]
  /\ size \in [Videos -> Nat]
  /\ multipart \in [Videos -> BOOLEAN]
  /\ hasJob \in [Videos -> BOOLEAN]
  /\ expired \in [Videos -> BOOLEAN]
  /\ rawObject \in [Videos -> BOOLEAN]
  /\ multipartOpen \in [Videos -> BOOLEAN]
  /\ net \in [Videos -> Int]
  /\ used \in Int /\ base \in 0..MaxVideos
  /\ stray \subseteq Videos
  /\ request \in [Videos -> Request]
  /\ cleanupPc \in {"idle", "loop", "update", "release"}
  /\ cleanupRows \subseteq Videos
  /\ cleanupVideo \in Videos \cup {NoVideo}

\* The uploads that occupy a place of the plan: pending or finalised.
Occupying == {v \in Videos : status[v] = "PENDING_UPLOAD" \/ hasJob[v]}

\* Counted by their rows and not by the ledger, the account's uploads exceed
\* its plan at most by the slots that the cleanup gave back for uploads it had
\* found finalised or gone, each of which admits one upload more.
UploadsWithinPlan == base + Cardinality(Occupying) <= MaxVideos + Cardinality(stray)

\* The ledger and the rows agree: a pending or finalised upload holds exactly
\* its one slot and one that was cancelled, abandoned or deleted none, except
\* that a stray release takes a finalised upload's slot away, and gives a
\* deleted upload's slot back for the second time if DELETE had read the
\* ledger before it, or it before DELETE.
SlotsMatchUploads ==
  \A v \in Videos :
    /\ status[v] = "PENDING_UPLOAD" => net[v] = 1
    /\ status[v] = "FAILED" /\ ~hasJob[v] => net[v] = 0
    /\ hasJob[v] => net[v] = IF v \in stray THEN 0 ELSE 1
    /\ status[v] = "absent" => net[v] = 0 \/ (v \in stray /\ net[v] = -1)

\* Who holds a lock, and what the cleanup is about to release: the
\* strengthening of SlotsMatchUploads that is inductive.
SlotInv ==
  /\ TypeOK
  /\ SlotsMatchUploads
  /\ \A v \in Videos :
       /\ status[v] = "none" => net[v] = 0
       /\ hasJob[v] => status[v] \in {"QUEUED", "PROCESSED", "FAILED"}
       /\ status[v] \in {"QUEUED", "PROCESSED"} => hasJob[v]
       /\ request[v] \in {"complete", "uploaded", "verified"} => status[v] = "PENDING_UPLOAD"
       /\ request[v] \in {"delete", "delete_release"} => status[v] \in {"FAILED", "PENDING_UPLOAD"}
       /\ request[v] = "delete" => net[v] = 0
       /\ request[v] = "delete_release" => net[v] = 1 \/ v \in stray
       /\ v \in stray => status[v] \notin {"none", "PENDING_UPLOAD"} /\ v \notin cleanupRows
  /\ \A v \in cleanupRows : status[v] # "none"
  /\ cleanupPc \in {"update", "release"} => cleanupVideo \in cleanupRows
  /\ cleanupPc = "release" => hasJob[cleanupVideo] \/ status[cleanupVideo] = "absent"

\* The videos that hold a slot, and those whose slot was given back twice.
Holding == {v \in Videos : net[v] = 1}
Doubled == {v \in Videos : net[v] = -1}

\* used is the sum of the events of all videos, and the quota check bounds it.
UploadInv ==
  /\ SlotInv
  /\ used = base + Cardinality(Holding) - Cardinality(Doubled)
  /\ used <= MaxVideos

\* An upload that was cancelled or abandoned stays so: a /complete that was
\* under way, or arrives late, cannot bring it back with its slot given away.
NoResurrection ==
  [][ \A v \in Videos : status[v] = "FAILED" /\ ~hasJob[v]
                          => status'[v] \in {"FAILED", "absent"} ]_vars

\* Every reserved slot is at last used or given back: a client that vanishes
\* does not keep it.
ReservationSettles ==
  \A v \in Videos : status[v] = "PENDING_UPLOAD" ~> (hasJob[v] \/ net[v] <= 0)
==============================================================================
