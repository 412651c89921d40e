----------------------------- MODULE UploadClient -----------------------------
(***************************************************************************)
(* The upload form of the web client: the runs that handleSubmit starts,   *)
(* the cancel button, leaving the page, the parts sent by the workers of   *)
(* uploadMultipart, and the three API calls of a run. A run that was       *)
(* cancelled goes on as a coroutine until its next await returns, beside   *)
(* the run that was started after it.                                      *)
(*                                                                         *)
(* On the server a run has one video row; its handlers are those of        *)
(* UploadQuota, seen from the client: each may refuse, whatever the reason *)
(* (a full quota, a row pruned in between, a part that does not verify).   *)
(***************************************************************************)
EXTENDS ApiClient

CONSTANTS
  MaxRuns,               \* uploads started from one page
  PartCount,             \* parts of a multipart upload
  MULTIPART_CONCURRENCY  \* parts sent at a time

Runs  == 1..MaxRuns
Kinds == {"upload", "complete", "cancel"}
RunCalls == Runs \X Kinds

ASSUME UploadClientAssumption ==
  /\ MaxRuns \in Nat
  /\ PartCount \in Nat \ {0}
  /\ MULTIPART_CONCURRENCY \in Nat \ {0}
  /\ Calls = RunCalls

VARIABLES
  mounted,    \* the page is open
  phase,      \* what the form shows
  doneRun,    \* the run whose video the form links to
  active,     \* activeRunRef, 0 for null
  lastRun,    \* runIdRef
  pc,         \* where the coroutine of each run waits
  aborted,    \* abortRun was applied to the run
  videoId,    \* the run has learnt the id of its video
  part,       \* the parts of the run's file (a single PUT has one)
  failure,    \* a part failed
  video       \* the video row of the run on the server

form       == <<mounted, phase, doneRun, active, lastRun>>
transfer   == <<part, failure>>
clientVars == <<form, pc, aborted, videoId, transfer, video>>
vars       == <<clientVars, apiVars>>

Busy       == {"hashing", "presigning", "uploading", "finalizing"}
Cancelable == {"hashing", "presigning", "uploading"}
Parts      == 1..PartCount

Init ==
  /\ ApiInit
  /\ mounted = TRUE
  /\ phase = "idle" /\ doneRun = 0
  /\ active = 0 /\ lastRun = 0
  /\ pc = [r \in Runs |-> "none"]
  /\ aborted = [r \in Runs |-> FALSE]
  /\ videoId = [r \in Runs |-> FALSE]
  /\ part = [r \in Runs |-> [i \in Parts |-> "none"]]
  /\ failure = [r \in Runs |-> FALSE]
  /\ video = [r \in Runs |-> "none"]

------------------------------------------------------------------------------
(* The run.                                                                 *)

At(r, place) == pc' = [pc EXCEPT ![r] = place]

\* Mutant: the run does not ask.
isRunCancelled_unasked(r) == FALSE

isRunCancelled(r) == aborted[r] \/ active # r

\* The run is over, its locals with it; the form is free if it was the active
\* one.
finishRun(r) ==
  /\ At(r, "over")
  /\ part' = [part EXCEPT ![r] = [i \in Parts |-> "none"]]
  /\ failure' = [failure EXCEPT ![r] = FALSE]
  /\ active' = IF active = r THEN 0 ELSE active

Show(p) == phase' = p /\ UNCHANGED <<mounted, doneRun, lastRun>>

\* The run failed: tell the user, keep the video row for the pruning job.
FinishWithError(r) == finishRun(r) /\ Show("error")

\* The run was cancelled: the form is no longer its own.
FinishSilently(r) == finishRun(r) /\ UNCHANGED <<mounted, phase, doneRun, lastRun>>

\* Mutant: the video is left to the pruning job.
cancelRemoteUpload_never(r) == UNCHANGED apiVars

\* Ask the server once to cancel a video the run knows of.
cancelRemoteUpload(r) ==
  IF videoId[r] /\ call[<<r, "cancel">>] = "idle"
    THEN make(<<r, "cancel">>) /\ UNCHANGED <<retried, answer, refreshes, session>>
    ELSE UNCHANGED apiVars

\* The form is submitted without an acceptable file.
submit_invalid ==
  /\ mounted /\ phase \notin Busy /\ active = 0
  /\ Show("error")
  /\ UNCHANGED <<active, pc, aborted, videoId, transfer, video, apiVars>>

\* A run starts; a small file is hashed first.
submit(r) ==
  /\ mounted /\ phase \notin Busy /\ active = 0
  /\ r = lastRun + 1
  /\ lastRun' = r /\ active' = r
  /\ UNCHANGED <<mounted, doneRun, aborted, videoId, transfer, video>>
  /\ \/ /\ At(r, "hashing") /\ phase' = "hashing"
        /\ UNCHANGED apiVars
     \/ /\ At(r, "presigning") /\ phase' = "presigning"
        /\ make(<<r, "upload">>)
        /\ UNCHANGED <<retried, answer, refreshes, session>>

\* computeSha256Hex returns, with a checksum or without one.
hash_done(r) ==
  /\ pc[r] = "hashing"
  /\ IF isRunCancelled(r)
       THEN FinishSilently(r) /\ UNCHANGED apiVars
       ELSE /\ At(r, "presigning") /\ Show("presigning")
            /\ make(<<r, "upload">>)
            /\ UNCHANGED <<active, transfer, retried, answer, refreshes, session>>
  /\ UNCHANGED <<aborted, videoId, video>>

\* POST /videos/upload failed.
presign_failed(r) ==
  /\ pc[r] = "presigning" /\ call[<<r, "upload">>] = "failed"
  /\ IF isRunCancelled(r) THEN FinishSilently(r) ELSE FinishWithError(r)
  /\ UNCHANGED <<aborted, videoId, video, apiVars>>

\* It succeeded, too late: the row it created is cancelled.
presign_cancelled(r) ==
  /\ pc[r] = "presigning" /\ call[<<r, "upload">>] = "ok"
  /\ isRunCancelled(r)
  /\ videoId' = [videoId EXCEPT ![r] = TRUE]
  /\ make(<<r, "cancel">>)
  /\ FinishSilently(r)
  /\ UNCHANGED <<aborted, video, retried, answer, refreshes, session>>

\* It succeeded with an answer the form cannot use.
presign_unusable(r) ==
  /\ pc[r] = "presigning" /\ call[<<r, "upload">>] = "ok"
  /\ ~isRunCancelled(r)
  /\ videoId' = [videoId EXCEPT ![r] = TRUE]
  /\ FinishWithError(r)
  /\ UNCHANGED <<aborted, video, apiVars>>

\* It succeeded: the transfer of n parts starts, each worker with a part.
presign_done(r) ==
  /\ pc[r] = "presigning" /\ call[<<r, "upload">>] = "ok"
  /\ ~isRunCancelled(r)
  /\ videoId' = [videoId EXCEPT ![r] = TRUE]
  /\ \E n \in {1, PartCount} :
       part' = [part EXCEPT ![r] = [i \in Parts |->
                  IF i > n THEN "none"
                  ELSE IF i <= MULTIPART_CONCURRENCY THEN "sending" ELSE "todo"]]
  /\ At(r, "uploading") /\ Show("uploading")
  /\ UNCHANGED <<active, aborted, failure, video, apiVars>>

------------------------------------------------------------------------------
(* The transfer.                                                            *)

\* A part is stored; the worker goes on with the next one unless the transfer
\* has failed or was aborted.
part_stored(r, i) ==
  /\ part[r][i] = "sending"
  /\ LET todo == {j \in Parts : part[r][j] = "todo"}
         next == IF failure[r] \/ aborted[r] THEN {} ELSE {j \in todo : \A k \in todo : j <= k}
     IN part' = [part EXCEPT ![r] = [j \in Parts |->
                   IF j = i THEN "stored" ELSE IF j \in next THEN "sending" ELSE @[j]]]
  /\ UNCHANGED <<form, pc, aborted, videoId, failure, video, apiVars>>

\* A part fails (refused, network error, no ETag): its worker ends.
part_failed(r, i) ==
  /\ part[r][i] = "sending"
  /\ part' = [part EXCEPT ![r][i] = "failed"]
  /\ failure' = [failure EXCEPT ![r] = TRUE]
  /\ UNCHANGED <<form, pc, aborted, videoId, video, apiVars>>

\* Every worker has returned.
WorkersDone(r) == pc[r] = "uploading" /\ \A i \in Parts : part[r][i] # "sending"

TransferComplete(r) ==
  ~failure[r] /\ ~aborted[r] /\ \A i \in Parts : part[r][i] \in {"stored", "none"}

transfer_cancelled(r) ==
  /\ WorkersDone(r) /\ isRunCancelled(r)
  /\ cancelRemoteUpload(r)
  /\ FinishSilently(r)
  /\ UNCHANGED <<aborted, videoId, video>>

transfer_failed(r) ==
  /\ WorkersDone(r) /\ ~isRunCancelled(r)
  /\ ~TransferComplete(r)
  /\ FinishWithError(r)
  /\ UNCHANGED <<aborted, videoId, video, apiVars>>

\* POST /complete.
transfer_done(r) ==
  /\ WorkersDone(r) /\ ~isRunCancelled(r)
  /\ TransferComplete(r)
  /\ At(r, "finalizing") /\ Show("finalizing")
  /\ make(<<r, "complete">>)
  /\ UNCHANGED <<active, aborted, videoId, transfer, video, retried, answer, refreshes, session>>

\* The answer of /complete: done, an error, or nobody is interested.
complete_returns(r) ==
  /\ pc[r] = "finalizing"
  /\ call[<<r, "complete">>] \in {"ok", "failed"}
  /\ \/ isRunCancelled(r) /\ FinishSilently(r)
     \/ ~isRunCancelled(r) /\ call[<<r, "complete">>] = "failed" /\ FinishWithError(r)
     \/ /\ ~isRunCancelled(r) /\ call[<<r, "complete">>] = "ok"
        /\ finishRun(r)
        /\ phase' = "done" /\ doneRun' = r
        /\ UNCHANGED <<mounted, lastRun>>
  /\ UNCHANGED <<aborted, videoId, video, apiVars>>

------------------------------------------------------------------------------
(* The user.                                                                *)

\* The calls of r whose fetch is aborted by its signal.
Signalled(r) == {<<r, "upload">>, <<r, "complete">>}

\* abortRun: the parts in flight end, and so does the call that is out. A call
\* that waits for a refresh ends when the refresh does. What became of the parts
\* is forgotten: no worker takes another one, and nothing else of the run looks
\* at them.
abortRun(r) ==
  /\ aborted' = [aborted EXCEPT ![r] = TRUE]
  /\ part' = [part EXCEPT ![r] = [i \in Parts |-> "none"]]
  /\ failure' = [failure EXCEPT ![r] = FALSE]

AbortedCalls(r) ==
  [c \in Calls |-> IF c \in Signalled(r) /\ call[c] = "pending" THEN "failed" ELSE call[c]]

AbortedRetries(r) ==
  [c \in Calls |-> retried[c] /\ ~(c \in Signalled(r) /\ call[c] = "pending")]

AbortedAnswers(r) == [c \in Calls |-> IF c \in Signalled(r) THEN "none" ELSE answer[c]]

\* The cancel button. It is drawn in the phases of Cancelable, and a click on
\* it may still come before React has drawn the phase "finalizing"; the handler
\* only asks for an active run.
handleCancelUpload(r) ==
  /\ mounted /\ phase \in Cancelable \cup {"finalizing"} /\ active = r
  /\ abortRun(r)
  /\ Show("cancelled")
  /\ active' = 0
  /\ LET remote == videoId[r] /\ call[<<r, "cancel">>] = "idle" IN
     /\ call' = IF remote THEN [AbortedCalls(r) EXCEPT ![<<r, "cancel">>] = "pending"]
                          ELSE AbortedCalls(r)
     /\ wire' = IF remote THEN [wire EXCEPT ![<<r, "cancel">>] = cookie] ELSE wire
  /\ answer' = AbortedAnswers(r)
  /\ retried' = AbortedRetries(r)
  /\ UNCHANGED <<pc, videoId, video, refreshes, session>>

\* The page is left: the effect's cleanup aborts the active run.
unmount ==
  /\ mounted
  /\ mounted' = FALSE
  /\ IF active # 0
       THEN /\ abortRun(active)
            /\ call' = AbortedCalls(active)
            /\ answer' = AbortedAnswers(active)
            /\ retried' = AbortedRetries(active)
       ELSE UNCHANGED <<aborted, transfer, call, answer, retried>>
  /\ UNCHANGED <<phase, doneRun, active, lastRun, pc, videoId, video, wire,
                 refreshes, session>>

------------------------------------------------------------------------------
(* The server.                                                              *)

Row(r, s) == video' = [video EXCEPT ![r] = s]

\* initiate_upload, or its refusal.
serve_upload(r) ==
  /\ Authorized(<<r, "upload">>)
  /\ \/ Row(r, "PENDING") /\ Serve(<<r, "upload">>, "ok")
     \/ UNCHANGED video /\ Serve(<<r, "upload">>, "refused")
  /\ UNCHANGED <<form, pc, aborted, videoId, transfer>>

\* complete_upload: a pending row is queued, a queued one answers again, and
\* the storage or the verification may refuse.
serve_complete(r) ==
  /\ Authorized(<<r, "complete">>)
  /\ \/ video[r] \in {"PENDING", "QUEUED"} /\ Row(r, "QUEUED") /\ Serve(<<r, "complete">>, "ok")
     \/ UNCHANGED video /\ Serve(<<r, "complete">>, "refused")
  /\ UNCHANGED <<form, pc, aborted, videoId, transfer>>

\* cancel_upload of a row that is still pending.
serve_cancel(r) ==
  /\ Authorized(<<r, "cancel">>)
  /\ \/ video[r] = "PENDING" /\ Row(r, "FAILED") /\ Serve(<<r, "cancel">>, "ok")
     \/ UNCHANGED video /\ Serve(<<r, "cancel">>, "refused")
  /\ UNCHANGED <<form, pc, aborted, videoId, transfer>>

------------------------------------------------------------------------------
\* Calls that an aborted signal keeps from being repeated.
Dead == {c \in Calls : c[2] # "cancel" /\ aborted[c[1]]}

Coroutine(r) ==
  \/ hash_done(r) \/ presign_failed(r) \/ presign_cancelled(r)
  \/ presign_done(r) \/ transfer_cancelled(r) \/ transfer_failed(r) \/ transfer_done(r)
  \/ complete_returns(r)

Transfer(r) == \E i \in Parts : part_stored(r, i) \/ part_failed(r, i)

Server(r) == serve_upload(r) \/ serve_complete(r) \/ serve_cancel(r)

Api(c) == ApiStep(c, Dead) /\ UNCHANGED clientVars

Next ==
  \/ submit_invalid \/ unmount
  \/ access_expires /\ UNCHANGED clientVars
  \/ \E r \in Runs : \/ submit(r) \/ handleCancelUpload(r) \/ presign_unusable(r)
                     \/ Coroutine(r) \/ Transfer(r) \/ Server(r)
  \/ \E c \in Calls : Api(c)

Spec == Init /\ [][Next]_vars

\* The browser runs what is ready, and every request it has out ends with an
\* answer or an error. The user and the clock are not obliged to anything. (One
\* condition will do: only finitely many such steps are ever possible.)
Fairness == WF_vars(\/ \E r \in Runs : Coroutine(r) \/ Transfer(r) \/ Server(r)
                    \/ \E c \in Calls : Api(c))

FairSpec == Spec /\ Fairness

------------------------------------------------------------------------------
(* Properties.                                                              *)

TypeOK ==
  /\ ApiTypeOK
  /\ mounted \in BOOLEAN
  /\ phase \in Busy \cup {"idle", "done", "cancelled", "error"}
  /\ doneRun \in 0..MaxRuns /\ active \in 0..MaxRuns /\ lastRun \in 0..MaxRuns
  /\ pc \in [Runs -> Busy \cup {"none", "over"}]
  /\ aborted \in [Runs -> BOOLEAN]
  /\ videoId \in [Runs -> BOOLEAN]
  /\ part \in [Runs -> [Parts -> {"none", "todo", "sending", "stored", "failed"}]]
  /\ failure \in [Runs -> BOOLEAN]
  /\ video \in [Runs -> {"none", "PENDING", "QUEUED", "FAILED"}]

\* The form shows where its active run is, and is free exactly when there is
\* none: the coroutine of a cancelled run, coming back late beside the run that
\* was started after it, never takes the form over.
FormFollowsRun ==
  mounted => IF active = 0 THEN phase \notin Busy
             ELSE phase = pc[active] /\ ~aborted[active]

\* "Upload complete" is shown only for a video the server has queued.
DoneIsQueued == phase = "done" => video[doneRun] = "QUEUED"

\* A run given up before /complete has asked the server to cancel its video by
\* the time it is over, if it ever learnt of it.
GivenUpIsCancelled ==
  \A r \in Runs :
    pc[r] = "over" /\ aborted[r] /\ videoId[r] /\ call[<<r, "complete">>] = "idle"
      => call[<<r, "cancel">>] # "idle"

\* Every run ends, cancelled, failed, left behind or done: no coroutine waits
\* for ever for a part, a call or a refresh that another call started. (A run
\* that is over stays over, and there are finitely many.)
RunEnds == []<>(\A r \in Runs : pc[r] \in {"none", "over"})

\* The form tells the truth: it shows where its run is, and announces only
\* what the server has.
FormTruthful == TypeOK /\ FormFollowsRun /\ DoneIsQueued
=============================================================================
