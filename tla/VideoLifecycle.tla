--------------------------- MODULE VideoLifecycle ---------------------------
(***************************************************************************)
(* What the API promises about one video, as its clients see it through    *)
(* GET /videos/{id}: the status, and whether a playback key is on the row. *)
(* It says nothing of jobs, messages, workers or retries.                  *)
(***************************************************************************)
VARIABLES
  status,    \* videos.status, "absent" once the row is deleted
  playback   \* videos.storage_key_mezzanine is not NULL

view == <<status, playback>>

Init == status = "PENDING_UPLOAD" /\ playback = FALSE

Move(from, to) == status \in from /\ status' = to /\ UNCHANGED playback

\* The upload was verified, or given up.
Queue   == Move({"PENDING_UPLOAD"}, "QUEUED")
Abandon == Move({"PENDING_UPLOAD"}, "FAILED")

\* A run begins, gives the video back to the queue, or fails it.
Begin == Move({"QUEUED"}, "PROCESSING")
Retry == Move({"PROCESSING"}, "QUEUED")
Fail  == Move({"QUEUED", "PROCESSING"}, "FAILED")

\* A run publishes its output, and only then finishes the video.
Publish == status = "PROCESSING" /\ playback' = TRUE /\ UNCHANGED status
Finish  == playback /\ Move({"PROCESSING"}, "PROCESSED")

\* A coach retries a failed video, or deletes a failed or pending one.
Requeue == Move({"FAILED"}, "QUEUED")
Delete  == /\ status \in {"FAILED", "PENDING_UPLOAD"}
           /\ status' = "absent"
           /\ playback' = FALSE

Next == \/ Queue \/ Abandon \/ Begin \/ Retry \/ Fail
        \/ Publish \/ Finish \/ Requeue \/ Delete

Spec == Init /\ [][Next]_view
=============================================================================
