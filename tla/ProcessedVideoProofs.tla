------------------------- MODULE ProcessedVideoProofs -------------------------
(***************************************************************************)
(* Proofs about what happens to a video once it is processed: the sweeps   *)
(* of its raw file (RawRetention), its detector preview (DemoPreview) and  *)
(* the review of its events (EventReview). Each part is about one          *)
(* component; none uses another.                                           *)
(***************************************************************************)
EXTENDS RawRetention, DemoPreview, EventReview, FiniteSetTheorems, SequenceTheorems,
        WellFoundedInduction, NaturalsInduction, TLAPS

-----------------------------------------------------------------------------
(* Raw retention, for any number of overlapping sweeps.                    *)

\* Every step keeps the row, the object and the sweeps in agreement.
LEMMA RetentionStep == RetentionInv /\ [Next]_vars => RetentionInv'
<1> SUFFICES ASSUME RetentionInv, [Next]_vars PROVE RetentionInv'
  OBVIOUS
<1> USE DEF RetentionInv, TypeOK, DeletionRecordIsTrue, Status, videoRow, client
<1>1. CASE complete_upload
  BY <1>1 DEF complete_upload
<1>2. CASE abandon_upload
  BY <1>2 DEF abandon_upload
<1>3. CASE transcode
  BY <1>3 DEF transcode
<1>4. CASE requeue_processing
  BY <1>4 DEF requeue_processing, requeueable
<1>5. CASE delete_failed_video
  BY <1>5 DEF delete_failed_video
<1>6. CASE mark_video_cleanup_failed
  BY <1>6 DEF mark_video_cleanup_failed
<1>7. CASE retention_elapses
  BY <1>7 DEF retention_elapses
<1>8. ASSUME NEW r \in Runs, retention_select(r) PROVE RetentionInv'
  BY <1>8 DEF retention_select, Goto
<1>9. ASSUME NEW r \in Runs, retention_mark(r) PROVE RetentionInv'
  BY <1>9 DEF retention_mark, Goto
<1>10. ASSUME NEW r \in Runs, retry_select(r) PROVE RetentionInv'
  BY <1>10 DEF retry_select, Goto
<1>11. ASSUME NEW r \in Runs, sweep_delete(r) PROVE RetentionInv'
  BY <1>11 DEF sweep_delete, Goto
<1>12. ASSUME NEW r \in Runs, sweep_delete_fails(r) PROVE RetentionInv'
  BY <1>12 DEF sweep_delete_fails, Goto
<1>13. ASSUME NEW r \in Runs, sweep_record(r) PROVE RetentionInv'
  BY <1>13 DEF sweep_record, Goto
<1>14. ASSUME NEW r \in Runs, sweep_crash(r) PROVE RetentionInv'
  BY <1>14 DEF sweep_crash, Goto
<1>15. CASE UNCHANGED vars
  BY <1>15 DEF vars
<1>16. CASE put_object
  BY <1>16 DEF put_object
<1>17. CASE url_expires
  BY <1>17 DEF url_expires
<1> QED
  BY <1>1, <1>2, <1>3, <1>4, <1>5, <1>6, <1>7, <1>8, <1>9,
     <1>10, <1>11, <1>12, <1>13, <1>14, <1>15, <1>16, <1>17
     DEF Next, Requests, Sweep

\* The invariant holds in every reachable state of every instance.
THEOREM RetentionSafe == Spec => []RetentionInv
<1>1. Init => RetentionInv
  BY DEF Init, RetentionInv, TypeOK, DeletionRecordIsTrue, Status
<1> QED
  BY <1>1, RetentionStep, PTL DEF Spec

\* A recorded deletion is a real one.
THEOREM RecordSafe == Spec => []DeletionRecordIsTrue
<1>1. RetentionInv => DeletionRecordIsTrue
  BY DEF RetentionInv
<1> QED
  BY <1>1, RetentionSafe, PTL

\* The source of a finalised video outlives its retention window unless a coach
\* asked for its deletion.
THEOREM EarlySafe == Spec => NotDeletedEarly
<1> DEFINE Early == hasJob /\ rawObject /\ ~rawObject' => expired \/ userAsked'
<1>1. RetentionInv /\ [Next]_vars => [Early]_vars
  <2> SUFFICES ASSUME RetentionInv, [Next]_vars,
                      hasJob, rawObject, ~rawObject'
               PROVE  expired \/ userAsked'
    OBVIOUS
  <2> USE DEF RetentionInv, TypeOK
  <2>1. CASE complete_upload \/ transcode \/ requeue_processing \/ retention_elapses
              \/ put_object \/ url_expires \/ UNCHANGED vars
    BY <2>1 DEF put_object, url_expires, complete_upload, transcode, requeue_processing,
       retention_elapses, vars
  <2>2. CASE abandon_upload
    BY <2>2 DEF abandon_upload
  <2>3. CASE delete_failed_video \/ mark_video_cleanup_failed
    BY <2>3 DEF delete_failed_video, mark_video_cleanup_failed
  <2>4. ASSUME NEW r \in Runs, Sweep(r) \/ sweep_crash(r) PROVE expired \/ userAsked'
    BY <2>4 DEF Sweep, retention_select, retention_mark, retry_select, sweep_delete,
       sweep_delete_fails, sweep_record, sweep_crash
  <2> QED
    BY <2>1, <2>2, <2>3, <2>4 DEF Next, Requests
<1> QED
  BY <1>1, RetentionSafe, PTL DEF Spec, NotDeletedEarly

-----------------------------------------------------------------------------
(* The detector preview.                                                   *)

\* The machine lock is that of the render under way.
RenderInv ==
  ~broken => \A t \in Tasks : pc[t] \in {"gotM", "running"} => lockM.by = t

\* An open state that is not stale.
FreshState(f) == f.st \in Open /\ f.req = "fresh" /\ f.start # "old"

\* On a shared disk the state speaks for the one task that is under way.
AloneInv ==
  mode # "alpha" /\ ~disowned =>
    /\ \A t, u \in Tasks : Live(t) /\ Live(u) => t = u
    /\ \A t \in Tasks : Live(t) => FreshState(file)

\* A render has replaced a "completed" in the row before it replaces what is
\* stored, and what it has published, uploaded and tagged is its own.
OwnRender(t) ==
  /\ /\ pc[t] \in {"loaded", "breakM", "gotM", "running", "published", "uploaded"}
     /\ snap[t] = "running"
     => row # "completed"
  /\ pc[t] \in {"running", "published", "uploaded"} => snap[t] = "running"
  /\ pc[t] = "published" => art = t
  /\ pc[t] = "uploaded" => stored = t
  /\ pc[t] \in {"published", "uploaded"} => /\ tagged[t] = "report" => tags = t
                                            /\ Tagging => tagged[t] # "none"

MatchInv ==
  mode # "alpha" /\ ~disowned => TagsMatchPreview /\ \A t \in Tasks : OwnRender(t)

PreviewInv == PreviewTypeOK /\ RenderInv /\ AloneInv /\ MatchInv

States == [st : PreviewStatus, req : Ages, start : Ages]
Places == {"unsent", "waiting", "loaded", "breakM", "gotM", "running",
           "published", "uploaded", "finalize", "done"}

\* Resolving leaves a fresh open state as it is.
LEMMA ResolvedState ==
  ASSUME PreviewTypeOK
  PROVE  resolved \in States /\ (FreshState(file) => resolved = file /\ ~state_is_stale(file))
<1>1. file \in States
  BY DEF PreviewTypeOK, States
<1>2. FreshState(file) => resolved = file /\ ~state_is_stale(file)
  BY <1>1 DEF FreshState, resolved, resolve_demo_preview_state, state_is_stale, Open, NoState, States
<1>3. resolved \in States
  <2> DEFINE aged == IF state_is_stale(file) THEN [file EXCEPT !.st = "failed", !.start = "none"] ELSE file
  <2>1. aged \in States
    BY <1>1 DEF States, PreviewStatus, Ages
  <2>2. NoState \in States /\ [NoState EXCEPT !.st = "completed"] \in States
    BY DEF NoState, States, PreviewStatus, Ages
  <2>3. [aged EXCEPT !.st = "failed"] \in States /\ [aged EXCEPT !.st = "completed"] \in States
    <3> HIDE DEF aged
    <3> QED BY <2>1 DEF States, PreviewStatus
  <2>4. resolved \in {NoState, [NoState EXCEPT !.st = "completed"], aged,
                      [aged EXCEPT !.st = "failed"], [aged EXCEPT !.st = "completed"]}
    BY Zenon DEF resolved, resolve_demo_preview_state
  <2> QED BY <2>1, <2>2, <2>3, <2>4
<1> QED BY <1>2, <1>3

\* What the marks leave: a state marked queued or running is fresh if it was.
LEMMA MarkedState ==
  ASSUME PreviewTypeOK
  PROVE  /\ \A new \in BOOLEAN : mark_queued(new) =>
              file' \in States /\ (new \/ FreshState(file) => FreshState(file'))
         /\ mark_running => file' \in States /\ (FreshState(file) => FreshState(file'))
         /\ mark_failed \/ mark_completed => file' \in States
<1>1. resolved \in States /\ (FreshState(file) => resolved = file)
  BY ResolvedState
<1> HIDE DEF resolved
<1>2. ASSUME NEW new \in BOOLEAN, mark_queued(new)
      PROVE  file' \in States /\ (new \/ FreshState(file) => FreshState(file'))
  BY <1>1, <1>2 DEF mark_queued, States, FreshState, Open, PreviewStatus, Ages
<1>3. ASSUME mark_running PROVE file' \in States /\ (FreshState(file) => FreshState(file'))
  BY <1>1, <1>3 DEF mark_running, States, FreshState, Open, PreviewStatus, Ages
<1>4. ASSUME mark_failed \/ mark_completed PROVE file' \in States
  BY <1>1, <1>4 DEF mark_failed, mark_completed, closed, States, PreviewStatus, Ages
<1> QED BY <1>2, <1>3, <1>4

\* A step of t changes what is known of t only.
LEMMA TaskMoves ==
  ASSUME PreviewTypeOK, NEW t \in Tasks, NEW l \in Places, TaskAt(t, l)
  PROVE  pc' \in [Tasks -> Places] /\ pc'[t] = l /\ \A u \in Tasks \ {t} : pc'[u] = pc[u]
BY DEF PreviewTypeOK, TaskAt, Places

LEMMA TaskLeaves ==
  ASSUME PreviewTypeOK, NEW t \in Tasks, NEW l \in Places, Leave(t, l)
  PROVE  /\ pc' \in [Tasks -> Places] /\ pc'[t] = l
         /\ snap' \in [Tasks -> PreviewStatus] /\ tagged' \in [Tasks -> {"none", "report", "error"}]
         /\ \A u \in Tasks \ {t} : pc'[u] = pc[u] /\ snap'[u] = snap[u] /\ tagged'[u] = tagged[u]
BY DEF PreviewTypeOK, Leave, TaskAt, Places, PreviewStatus

LEMMA TaskEnds ==
  ASSUME PreviewTypeOK, NEW t \in Tasks, End(t)
  PROVE  /\ pc' \in [Tasks -> Places] /\ pc'[t] = "done"
         /\ snap' \in [Tasks -> PreviewStatus] /\ tagged' \in [Tasks -> {"none", "report", "error"}]
         /\ retries' \in [Tasks -> 0..MaxRetries]
         /\ \A u \in Tasks \ {t} : pc'[u] = pc[u] /\ snap'[u] = snap[u] /\ tagged'[u] = tagged[u]
<1>1. Leave(t, "done") /\ "done" \in Places
  BY DEF End, Places
<1>2. retries' \in [Tasks -> 0..MaxRetries]
  BY DemoPreviewAssumption DEF End, PreviewTypeOK
<1> QED BY <1>1, <1>2, TaskLeaves

-----------------------------------------------------------------------------
(* Steps that leave the tasks alone.                                       *)

\* They keep the invariant if they give nobody the machine lock, write no
\* "completed" and leave a fresh state of a task under way fresh.
LEMMA NoTaskMoves ==
  ASSUME PreviewInv, PreviewTypeOK', mode' = mode, disowned => disowned',
         UNCHANGED <<pc, snap, tagged, stored, events, broken>>, lockM'.by = lockM.by,
         row' = row \/ row' # "completed",
         UNCHANGED <<art, tags>> \/ \A t \in Tasks : pc[t] \notin {"published", "uploaded"},
         ~disowned' /\ FreshState(file) => FreshState(file')
  PROVE  PreviewInv'
<1>0. RenderInv /\ AloneInv /\ MatchInv
  BY DEF PreviewInv
<1>1. RenderInv'
  BY <1>0 DEF RenderInv
<1>2. AloneInv'
  <2>1. \A t \in Tasks : Live(t)' = Live(t)
    BY DEF Live
  <2> QED BY <1>0, <2>1 DEF AloneInv
<1>3. MatchInv'
  <2> SUFFICES ASSUME mode # "alpha", ~disowned'
               PROVE  TagsMatchPreview' /\ \A t \in Tasks : OwnRender(t)'
    BY DEF MatchInv
  <2>1. TagsMatchPreview /\ \A t \in Tasks : OwnRender(t)
    BY <1>0 DEF MatchInv
  <2>2. TagsMatchPreview'
    BY <2>1 DEF TagsMatchPreview
  <2>3. \A t \in Tasks : OwnRender(t)'
    BY <2>1 DEF OwnRender
  <2> QED BY <2>2, <2>3
<1> QED BY <1>1, <1>2, <1>3 DEF PreviewInv

\* Requests, the coach and the view, but for the send of a task.
LEMMA RequestSteps ==
  ASSUME PreviewInv,
         \/ \E t \in Tasks : \/ create_load(t) \/ queue_marked(t) \/ create_commit(t) \/ api_dies(t)
                             \/ queue_demo_preview_request(t) /\ ~create_sent(t)
         \/ cancel_load \/ cancel_commit \/ demo_preview_view
  PROVE  PreviewInv'
<1>0. PreviewTypeOK
  BY DEF PreviewInv
<1>1. resolved \in States /\ (FreshState(file) => resolved = file /\ ~state_is_stale(file))
  BY <1>0, ResolvedState
<1>2. /\ NoLock \in Locks /\ \A t \in Tasks : HeldBy(t) \in Locks
  BY DEF NoLock, HeldBy, Locks
<1>3. ASSUME NEW t \in Tasks, create_load(t) PROVE PreviewInv'
  <2>1. /\ apc' = [apc EXCEPT ![t] = "loaded"]
        /\ UNCHANGED <<mode, file, art, tags, lockM, lockR, row, events, stored, pc, snap, tagged, retries,
                       lockQ, cancelling, faults, late, broken, disowned>>
    BY <1>3 DEF create_load, disk, locks, db, task, hist
  <2>2. PreviewTypeOK'
    BY <1>0, <2>1 DEF PreviewTypeOK
  <2> QED BY <2>1, <2>2, NoTaskMoves
<1>4. ASSUME NEW t \in Tasks, queue_marked(t) PROVE PreviewInv'
  <2>1. /\ mark_queued(FALSE) /\ lockQ' = NoLock /\ apc' = [apc EXCEPT ![t] = "commit"]
        /\ UNCHANGED <<mode, art, tags, lockM, lockR, row, events, stored, pc, snap, tagged, retries,
                       cancelling, faults, late, broken, disowned>>
    BY <1>4 DEF queue_marked, locks, db, task, hist
  <2>2. file' \in States /\ (FreshState(file) => FreshState(file'))
    BY <1>0, <2>1, MarkedState
  <2>3. PreviewTypeOK'
    BY <1>0, <1>2, <2>1, <2>2 DEF PreviewTypeOK, States
  <2> QED BY <2>1, <2>2, <2>3, NoTaskMoves
<1>5. ASSUME NEW t \in Tasks, create_commit(t) PROVE PreviewInv'
  <2>1. /\ row' = "queued" /\ apc' = [apc EXCEPT ![t] = "end"]
        /\ UNCHANGED <<mode, file, art, tags, lockM, lockR, events, stored, pc, snap, tagged, retries,
                       lockQ, cancelling, faults, late, broken, disowned>>
    BY <1>5 DEF create_commit, disk, locks, task, hist
  <2>2. PreviewTypeOK'
    BY <1>0, <2>1 DEF PreviewTypeOK, PreviewStatus
  <2> QED BY <2>1, <2>2, NoTaskMoves
<1>6. ASSUME NEW t \in Tasks, api_dies(t) PROVE PreviewInv'
  <2>1. /\ apc' = [apc EXCEPT ![t] = "end"] /\ Fault
        /\ UNCHANGED <<mode, file, art, tags, lockM, lockR, row, events, stored, pc, snap, tagged, retries,
                       lockQ, cancelling, late, broken, disowned>>
    BY <1>6 DEF api_dies, disk, locks, db, task
  <2>2. faults' \in 0..MaxFaults
    BY <1>0, <2>1, DemoPreviewAssumption DEF Fault, PreviewTypeOK
  <2>3. PreviewTypeOK'
    BY <1>0, <2>1, <2>2 DEF PreviewTypeOK
  <2> QED BY <2>1, <2>3, NoTaskMoves
<1>7. ASSUME NEW t \in Tasks, queue_demo_preview_request(t), ~create_sent(t) PROVE PreviewInv'
  <2>1. /\ UNCHANGED <<mode, art, tags, lockM, lockR, row, events, stored, cancelling, faults, late, broken,
                       disowned>>
        /\ create_refused(t) \/ create_send_failed(t) \/ create_contended(t)
    BY <1>7 DEF queue_demo_preview_request, locks, db, hist
  <2>2. /\ UNCHANGED <<pc, snap, tagged, retries>> /\ apc' = [apc EXCEPT ![t] = "end"]
        /\ lockQ' = NoLock \/ lockQ' = lockQ
    BY <2>1 DEF create_refused, create_send_failed, create_contended, task
  <2>3. file' \in States /\ (FreshState(file) => FreshState(file'))
    <3>1. CASE file' = resolved
      BY <1>1, <3>1
    <3>2. CASE create_send_failed(t)
      <4>1. /\ resolved.st \notin Open
            /\ file' = [st |-> IF art # None THEN "completed" ELSE "failed", req |-> "fresh", start |-> "none"]
        BY <3>2 DEF create_send_failed
      <4>2. ~FreshState(file)
        BY <1>1, <4>1 DEF FreshState
      <4> QED BY <4>1, <4>2 DEF States, PreviewStatus, Ages
    <3> QED BY <2>1, <3>1, <3>2 DEF create_refused, create_contended
  <2>4. lockQ' \in Locks
    BY <1>0, <1>2, <2>2 DEF PreviewTypeOK
  <2>5. PreviewTypeOK'
    BY <1>0, <2>1, <2>2, <2>3, <2>4 DEF PreviewTypeOK, States
  <2> QED BY <2>1, <2>2, <2>3, <2>5, NoTaskMoves
<1>8. CASE cancel_load
  <2>1. /\ cancelling' = TRUE /\ Fault
        /\ UNCHANGED <<mode, file, art, tags, lockM, lockR, row, events, stored, pc, snap, tagged, retries,
                       apc, lockQ, late, broken, disowned>>
    BY <1>8 DEF cancel_load, disk, locks, db, task
  <2>2. faults' \in 0..MaxFaults
    BY <1>0, <2>1, DemoPreviewAssumption DEF Fault, PreviewTypeOK
  <2>3. PreviewTypeOK'
    BY <1>0, <2>1, <2>2 DEF PreviewTypeOK
  <2> QED BY <2>1, <2>3, NoTaskMoves
<1>10. CASE cancel_commit
  <2>1. /\ row' = "failed" /\ cancelling' = FALSE
        /\ UNCHANGED <<mode, file, art, tags, lockM, lockR, events, stored, pc, snap, tagged, retries,
                       apc, lockQ, faults, late, broken, disowned>>
    BY <1>10 DEF cancel_commit, disk, locks, task, hist
  <2>2. PreviewTypeOK'
    BY <1>0, <2>1 DEF PreviewTypeOK, PreviewStatus
  <2> QED BY <2>1, <2>2, NoTaskMoves
<1>9. CASE demo_preview_view
  <2>1. /\ file' = resolved
        /\ UNCHANGED <<mode, art, tags, lockM, lockR, row, events, stored, pc, snap, tagged, retries,
                       apc, lockQ, cancelling, faults, late, broken, disowned>>
    BY <1>9 DEF demo_preview_view, locks, db, task, api, hist
  <2>2. PreviewTypeOK'
    BY <1>0, <1>1, <2>1 DEF PreviewTypeOK, States
  <2> QED BY <1>1, <2>1, <2>2, NoTaskMoves
<1> QED BY <1>3, <1>4, <1>5, <1>6, <1>7, <1>8, <1>9, <1>10

\* Time and the sweep.
LEMMA TimeAndSweep ==
  ASSUME PreviewInv, time_passes \/ cleanup_expired_demo_previews \/ UNCHANGED previewVars
  PROVE  PreviewInv'
<1>0. PreviewTypeOK
  BY DEF PreviewInv
<1>1. CASE time_passes
  <2>1. /\ Fault /\ UNCHANGED <<mode, art, tags, row, events, stored, pc, snap, tagged, retries, apc, cancelling,
                                 late, broken>>
    BY <1>1 DEF time_passes, db, task
  <2>2. faults' \in 0..MaxFaults
    BY <1>0, <2>1, DemoPreviewAssumption DEF Fault, PreviewTypeOK
  <2>3. OldState \in States
    BY <1>0 DEF OldState, PreviewTypeOK, States, Ages
  <2>4. /\ file' = file \/ (file' = OldState /\ disowned')
        /\ disowned' \in BOOLEAN /\ (disowned => disowned')
    <3>1. file' = file \/ file' = OldState
      BY <1>1, Zenon DEF time_passes
    <3>2. disowned' = TRUE \/ disowned' = disowned \/ disowned' = (disowned \/ file' # file)
      BY <1>1 DEF time_passes
    <3>3. file' # file => disowned'
      BY <1>1 DEF time_passes
    <3>4. disowned \in BOOLEAN
      BY <1>0 DEF PreviewTypeOK
    <3>5. disowned' \in BOOLEAN /\ (disowned => disowned')
      <4>1. CASE disowned
        BY <3>2, <3>4, <4>1, Zenon
      <4>2. CASE ~disowned
        <5>1. disowned' = TRUE \/ disowned' = disowned \/ disowned' = (file' # file)
          BY <3>2, <4>2
        <5> QED BY <3>4, <4>2, <5>1
      <4> QED BY <4>1, <4>2
    <3> QED BY <3>1, <3>3, <3>5
  <2>5. /\ lockM' \in Locks /\ lockR' \in Locks /\ lockQ' \in Locks /\ lockM'.by = lockM.by
    <3>1. lockM \in Locks /\ lockR \in Locks /\ lockQ \in Locks
      BY <1>0 DEF PreviewTypeOK
    <3>2. /\ \/ lockM' = lockM \/ lockM' = [lockM EXCEPT !.old = TRUE]
          /\ \/ lockR' = lockR \/ lockR' = [lockR EXCEPT !.old = TRUE]
             \/ lockR' = [lockR EXCEPT !.old = @ \/ lockR.by = lockM.by]
          /\ \/ lockQ' = lockQ \/ lockQ' = [lockQ EXCEPT !.old = TRUE]
      BY <1>1 DEF time_passes
    <3>3. lockM' \in Locks /\ lockQ' \in Locks /\ lockM'.by = lockM.by
      BY <3>1, <3>2 DEF Locks
    <3>4. lockR' \in Locks
      BY <3>1, <3>2 DEF Locks
    <3> QED BY <3>3, <3>4
  <2>6. file' \in States
    BY <1>0, <2>3, <2>4 DEF PreviewTypeOK, States
  <2>7. PreviewTypeOK'
    BY <1>0, <2>1, <2>2, <2>4, <2>5, <2>6 DEF PreviewTypeOK, States
  <2> QED BY <2>1, <2>4, <2>5, <2>7, NoTaskMoves
<1>2. CASE cleanup_expired_demo_previews
  <2>1. /\ file.st \in Open => state_is_stale(file)
        /\ \A t \in Tasks : pc[t] \notin {"gotM", "running", "published", "uploaded"}
        /\ file' = NoState /\ art' = None /\ tags' = None /\ lockR' = NoLock /\ lockQ' = NoLock
        /\ UNCHANGED <<mode, lockM, row, events, stored, pc, snap, tagged, retries, apc,
                       cancelling, faults, late, broken, disowned>>
    BY <1>2 DEF cleanup_expired_demo_previews, db, task, hist
  <2>2. ~FreshState(file)
    BY <1>0, <2>1, ResolvedState DEF FreshState
  <2>3. NoLock \in Locks /\ NoState \in States
    BY DEF NoLock, Locks, NoState, States, PreviewStatus, Ages
  <2>4. PreviewTypeOK'
    BY <1>0, <2>1, <2>3 DEF PreviewTypeOK, States
  <2> QED BY <2>1, <2>2, <2>4, NoTaskMoves
<1>3. CASE UNCHANGED previewVars
  <2>1. UNCHANGED <<mode, file, art, tags, lockM, lockR, row, events, stored, pc, snap, tagged, retries,
                    apc, lockQ, cancelling, faults, late, broken, disowned>>
    BY <1>3 DEF previewVars, disk, locks, db, task, api, hist
  <2>2. PreviewTypeOK'
    BY <1>0, <2>1 DEF PreviewTypeOK
  <2> QED BY <2>1, <2>2, NoTaskMoves
<1> QED BY <1>1, <1>2, <1>3

-----------------------------------------------------------------------------
(* Sending a task.                                                         *)

\* A task is sent when no other is under way.
LEMMA TaskSent ==
  ASSUME PreviewInv, PreviewTypeOK', NEW t \in Tasks,
         UNCHANGED <<mode, art, tags, lockM, row, stored, events, snap, tagged, broken, disowned>>,
         pc'[t] = "waiting", \A u \in Tasks \ {t} : pc'[u] = pc[u],
         mode # "alpha" => ~FreshState(file) /\ FreshState(file')
  PROVE  PreviewInv'
<1>0. RenderInv /\ AloneInv /\ MatchInv
  BY DEF PreviewInv
<1>1. RenderInv'
  BY <1>0 DEF RenderInv
<1>2. AloneInv'
  <2> SUFFICES ASSUME mode # "alpha", ~disowned
               PROVE  \A u \in Tasks : Live(u)' => u = t
    BY DEF AloneInv
  <2>1. \A u \in Tasks : ~Live(u)
    BY <1>0 DEF AloneInv
  <2> QED BY <2>1 DEF Live
<1>3. MatchInv'
  <2> SUFFICES ASSUME mode # "alpha", ~disowned
               PROVE  TagsMatchPreview' /\ \A u \in Tasks : OwnRender(u)'
    BY DEF MatchInv
  <2>1. TagsMatchPreview /\ \A u \in Tasks : OwnRender(u)
    BY <1>0 DEF MatchInv
  <2>2. TagsMatchPreview'
    BY <2>1 DEF TagsMatchPreview
  <2>3. \A u \in Tasks \ {t} : OwnRender(u)'
    BY <2>1 DEF OwnRender
  <2>4. OwnRender(t)'
    BY DEF OwnRender
  <2> QED BY <2>2, <2>3, <2>4
<1> QED BY <1>1, <1>2, <1>3 DEF PreviewInv

LEMMA Sending ==
  ASSUME PreviewInv, NEW t \in Tasks,
         (queue_demo_preview_request(t) /\ create_sent(t)) \/ queue_alpha_request(t)
  PROVE  PreviewInv'
<1>0. PreviewTypeOK
  BY DEF PreviewInv
<1>1. CASE queue_demo_preview_request(t) /\ create_sent(t)
  <2>1. /\ mode # "alpha" /\ resolved.st \notin Open /\ mark_queued(TRUE) /\ lockQ' = HeldBy(t)
        /\ TaskAt(t, "waiting") /\ apc' = [apc EXCEPT ![t] = "sent"]
        /\ UNCHANGED <<mode, art, tags, lockM, lockR, row, events, stored, snap, tagged, retries,
                       cancelling, faults, late, broken, disowned>>
    BY <1>1 DEF queue_demo_preview_request, create_sent, TaskAt, locks, db, hist
  <2>2. file' \in States /\ FreshState(file')
    BY <1>0, <2>1, MarkedState
  <2>3. ~FreshState(file)
    BY <1>0, <2>1, ResolvedState DEF FreshState
  <2>4. pc' \in [Tasks -> Places] /\ pc'[t] = "waiting" /\ \A u \in Tasks \ {t} : pc'[u] = pc[u]
    BY <1>0, <2>1, TaskMoves DEF Places
  <2>5. HeldBy(t) \in Locks
    BY DEF HeldBy, Locks
  <2>6. PreviewTypeOK'
    BY <1>0, <2>1, <2>2, <2>4, <2>5 DEF PreviewTypeOK, States, Places
  <2> QED BY <2>1, <2>2, <2>3, <2>4, <2>6, TaskSent
<1>2. CASE queue_alpha_request(t)
  <2>1. /\ mode = "alpha"
        /\ \/ apc' = [apc EXCEPT ![t] = "end"] /\ UNCHANGED pc
           \/ TaskAt(t, "waiting") /\ apc' = [apc EXCEPT ![t] = "commit"]
        /\ UNCHANGED <<mode, file, art, tags, lockM, lockR, row, events, stored, snap, tagged, retries,
                       lockQ, cancelling, faults, late, broken, disowned>>
    BY <1>2 DEF queue_alpha_request, TaskAt, disk, locks, db, hist
  <2>2. CASE UNCHANGED pc
    <3>1. PreviewTypeOK'
      BY <1>0, <2>1, <2>2 DEF PreviewTypeOK
    <3> QED BY <2>1, <2>2, <3>1, NoTaskMoves
  <2>3. CASE TaskAt(t, "waiting")
    <3>1. pc' \in [Tasks -> Places] /\ pc'[t] = "waiting" /\ \A u \in Tasks \ {t} : pc'[u] = pc[u]
      BY <1>0, <2>3, TaskMoves DEF Places
    <3>2. PreviewTypeOK'
      BY <1>0, <2>1, <3>1 DEF PreviewTypeOK, Places
    <3> QED BY <2>1, <3>1, <3>2, TaskSent
  <2> QED BY <2>1, <2>2, <2>3
<1> QED BY <1>1, <1>2

-----------------------------------------------------------------------------
(* The worker.                                                             *)

\* What a step of t may do with the machine lock: leave it, release the one
\* it holds, or take one that no render under way holds.
LEMMA MachineLock ==
  ASSUME RenderInv, NEW t \in Tasks, \A u \in Tasks \ {t} : pc'[u] = pc[u], broken => broken',
         \/ lockM' = lockM /\ (pc'[t] \in {"gotM", "running"} => pc[t] \in {"gotM", "running"})
         \/ pc[t] \in {"gotM", "running"} /\ pc'[t] \notin {"gotM", "running"}
         \/ lockM'.by = t /\ (~broken' => lockM.by = None \/ ~Alive(lockM))
  PROVE  RenderInv'
<1> SUFFICES ASSUME ~broken', NEW u \in Tasks, pc'[u] \in {"gotM", "running"}
             PROVE  lockM'.by = u
  BY DEF RenderInv
<1>1. \A v \in Tasks : pc[v] \in {"gotM", "running"} => lockM.by = v
  BY DEF RenderInv
<1>2. CASE u = t
  BY <1>1, <1>2
<1>3. CASE u # t
  <2>1. pc[u] \in {"gotM", "running"} /\ lockM.by = u
    BY <1>1, <1>3
  <2>2. u # None
    BY DemoPreviewAssumption DEF Tasks
  <2>3. Alive(lockM)
    BY <2>1, <2>2 DEF Alive
  <2> QED BY <1>1, <1>3, <2>1, <2>2, <2>3
<1> QED BY <1>2, <1>3

\* A step of the task under way.
LEMMA WorkerMoves ==
  ASSUME PreviewInv, PreviewTypeOK', NEW t \in Tasks, Live(t), mode' = mode, disowned => disowned', RenderInv',
         \A u \in Tasks \ {t} : pc'[u] = pc[u] /\ snap'[u] = snap[u] /\ tagged'[u] = tagged[u],
         ~disowned' /\ pc'[t] # "done" /\ FreshState(file) => FreshState(file'),
         mode # "alpha" /\ ~disowned' /\ TagsMatchPreview /\ OwnRender(t) =>
           TagsMatchPreview' /\ OwnRender(t)'
  PROVE  PreviewInv'
<1>0. AloneInv /\ MatchInv
  BY DEF PreviewInv
<1>1. ASSUME mode # "alpha", ~disowned'
      PROVE  /\ \A u \in Tasks : Live(u)' => u = t /\ FreshState(file')
             /\ TagsMatchPreview' /\ \A u \in Tasks : OwnRender(u)'
  <2>1. FreshState(file) /\ \A u \in Tasks : Live(u) => u = t
    BY <1>0, <1>1 DEF AloneInv
  <2>2. TagsMatchPreview /\ OwnRender(t)
    BY <1>0, <1>1 DEF MatchInv
  <2>3. \A u \in Tasks \ {t} : ~Live(u)' /\ OwnRender(u)'
    <3> SUFFICES ASSUME NEW u \in Tasks \ {t} PROVE ~Live(u)' /\ OwnRender(u)'
      OBVIOUS
    <3>1. pc'[u] \in {"unsent", "done"}
      BY <2>1 DEF Live
    <3> QED BY <3>1 DEF Live, OwnRender
  <2>4. Live(t)' => FreshState(file')
    BY <1>1, <2>1 DEF Live
  <2> QED BY <1>1, <2>2, <2>3, <2>4
<1>2. AloneInv'
  BY <1>1 DEF AloneInv
<1>3. MatchInv'
  BY <1>1 DEF MatchInv
<1> QED BY <1>2, <1>3 DEF PreviewInv

\* A step after which t is over, waits again or is to be finalized.
LEMMA WorkerLeaves ==
  ASSUME PreviewInv, PreviewTypeOK', NEW t \in Tasks, Live(t), UNCHANGED <<mode, disowned, stored, events>>, RenderInv',
         \A u \in Tasks \ {t} : pc'[u] = pc[u] /\ snap'[u] = snap[u] /\ tagged'[u] = tagged[u],
         pc'[t] \in {"done", "waiting", "finalize"}, row' = row \/ row' # "completed",
         pc'[t] # "done" /\ FreshState(file) => FreshState(file')
  PROVE  PreviewInv'
<1>1. TagsMatchPreview => TagsMatchPreview'
  BY DEF TagsMatchPreview
<1>2. OwnRender(t)'
  BY DEF OwnRender
<1> QED BY <1>1, <1>2, WorkerMoves

\* flushed writes the status or leaves the row.
LEMMA Flushed ==
  ASSUME PreviewTypeOK, NEW t \in Tasks, NEW st \in PreviewStatus, row' = flushed(snap[t], st)
  PROVE  row' \in PreviewStatus /\ row' \in {row, st} /\ (snap[t] # st => row' = st)
BY DEF flushed, PreviewTypeOK

\* A failure before the render is published or in the upload.
LEMMA Failing ==
  ASSUME PreviewInv, NEW t \in Tasks, Failed(t),
         \/ pc[t] \in {"loaded", "published"} /\ UNCHANGED locks
         \/ pc[t] = "running" /\ lockM' = NoLock /\ lockR' = NoLock
  PROVE  PreviewInv'
<1>0. PreviewTypeOK /\ RenderInv
  BY DEF PreviewInv
<1>1. /\ mark_failed /\ row' = flushed(snap[t], "failed") /\ End(t)
      /\ UNCHANGED <<mode, art, tags, events, stored, apc, lockQ, cancelling, faults, late, broken, disowned>>
  BY DEF Failed, api, hist
<1>2. /\ pc' \in [Tasks -> Places] /\ pc'[t] = "done"
      /\ snap' \in [Tasks -> PreviewStatus] /\ tagged' \in [Tasks -> {"none", "report", "error"}]
      /\ retries' \in [Tasks -> 0..MaxRetries]
      /\ \A u \in Tasks \ {t} : pc'[u] = pc[u] /\ snap'[u] = snap[u] /\ tagged'[u] = tagged[u]
  BY <1>0, <1>1, TaskEnds
<1>3. row' \in PreviewStatus /\ row' \in {row, "failed"}
  BY <1>0, <1>1, Flushed DEF PreviewStatus
<1>4. file' \in States
  BY <1>0, <1>1, MarkedState
<1>5. lockM' \in Locks /\ lockR' \in Locks
  <2>1. NoLock \in Locks
    BY DEF NoLock, Locks
  <2>2. lockM \in Locks /\ lockR \in Locks
    BY <1>0 DEF PreviewTypeOK
  <2> QED BY <2>1, <2>2 DEF locks
<1>6. PreviewTypeOK'
  BY <1>0, <1>1, <1>2, <1>3, <1>4, <1>5 DEF PreviewTypeOK, Places, States
<1>7. RenderInv'
  BY <1>0, <1>1, <1>2, MachineLock DEF locks
<1> QED BY <1>1, <1>2, <1>3, <1>6, <1>7, WorkerLeaves DEF Live

\* Up to the machine lock.
LEMMA BeforeRender ==
  ASSUME PreviewInv, NEW t \in Tasks,
         \/ execute_without_storage(t) \/ execute_load(t)
         \/ machine_lock(t) \/ machine_lock_broken(t) \/ machine_busy(t)
  PROVE  PreviewInv'
<1>0. PreviewTypeOK /\ RenderInv
  BY DEF PreviewInv
<1>1. CASE execute_without_storage(t)
  <2>1. /\ pc[t] = "waiting" /\ mark_failed /\ End(t)
        /\ UNCHANGED <<mode, art, tags, lockM, lockR, row, events, stored, apc, lockQ, cancelling, faults, late, broken, disowned>>
    BY <1>1 DEF execute_without_storage, locks, db, api, hist
  <2>2. /\ pc' \in [Tasks -> Places] /\ pc'[t] = "done"
        /\ snap' \in [Tasks -> PreviewStatus] /\ tagged' \in [Tasks -> {"none", "report", "error"}]
        /\ retries' \in [Tasks -> 0..MaxRetries]
        /\ \A u \in Tasks \ {t} : pc'[u] = pc[u] /\ snap'[u] = snap[u] /\ tagged'[u] = tagged[u]
    BY <1>0, <2>1, TaskEnds
  <2>3. file' \in States
    BY <1>0, <2>1, MarkedState
  <2>4. PreviewTypeOK'
    BY <1>0, <2>1, <2>2, <2>3 DEF PreviewTypeOK, Places, States
  <2>5. RenderInv'
    BY <1>0, <2>1, <2>2, MachineLock
  <2> QED BY <2>1, <2>2, <2>4, <2>5, WorkerLeaves DEF Live
<1>2. CASE execute_load(t)
  <2>1. /\ pc[t] = "waiting" /\ snap' = [snap EXCEPT ![t] = row] /\ TaskAt(t, "loaded")
        /\ late' = (late \/ apc[t] \in {"sent", "commit"})
        /\ UNCHANGED <<mode, file, art, tags, lockM, lockR, row, events, stored, tagged, retries, apc, lockQ, cancelling,
                       faults, broken, disowned>>
    BY <1>2 DEF execute_load, disk, locks, db, api
  <2>2. pc' \in [Tasks -> Places] /\ pc'[t] = "loaded" /\ \A u \in Tasks \ {t} : pc'[u] = pc[u]
    BY <1>0, <2>1, TaskMoves DEF Places
  <2>3. snap' \in [Tasks -> PreviewStatus] /\ snap'[t] = row /\ \A u \in Tasks \ {t} : snap'[u] = snap[u]
    BY <1>0, <2>1 DEF PreviewTypeOK
  <2>4. late' \in BOOLEAN
    BY <2>1
  <2>5. PreviewTypeOK'
    BY <1>0, <2>1, <2>2, <2>3, <2>4 DEF PreviewTypeOK, Places
  <2>6. RenderInv'
    BY <1>0, <2>1, <2>2, MachineLock
  <2>7. TagsMatchPreview => TagsMatchPreview'
    BY <2>1 DEF TagsMatchPreview
  <2>8. OwnRender(t)'
    BY <2>1, <2>2, <2>3 DEF OwnRender
  <2>9. Live(t)
    BY <2>1 DEF Live
  <2> QED BY <2>1, <2>2, <2>3, <2>5, <2>6, <2>7, <2>8, <2>9, WorkerMoves
<1>3. CASE machine_lock(t)
  <2>1. /\ pc[t] = "loaded"
        /\ \/ lockM.by = None /\ lockM' = HeldBy(t) /\ TaskAt(t, "gotM")
           \/ TaskAt(t, "breakM") /\ UNCHANGED lockM
        /\ UNCHANGED <<mode, file, art, tags, lockR, row, events, stored, snap, tagged, retries, apc, lockQ, cancelling,
                       faults, late, broken, disowned>>
    BY <1>3 DEF machine_lock, disk, db, api, hist
  <2>2. pc' \in [Tasks -> Places] /\ pc'[t] \in {"gotM", "breakM"} /\ \A u \in Tasks \ {t} : pc'[u] = pc[u]
    BY <1>0, <2>1, TaskMoves DEF Places
  <2>3. lockM' \in Locks
    <3>1. HeldBy(t) \in Locks
      BY DEF HeldBy, Locks
    <3>2. lockM \in Locks
      BY <1>0 DEF PreviewTypeOK
    <3> QED BY <2>1, <3>1, <3>2
  <2>4. PreviewTypeOK'
    BY <1>0, <2>1, <2>2, <2>3 DEF PreviewTypeOK, Places
  <2>5. RenderInv'
    <3>1. CASE lockM.by = None /\ lockM' = HeldBy(t)
      BY <1>0, <2>1, <2>2, <3>1, MachineLock DEF HeldBy
    <3>2. CASE TaskAt(t, "breakM") /\ UNCHANGED lockM
      <4>1. pc'[t] = "breakM"
        BY <1>0, <3>2, TaskMoves DEF Places
      <4> QED BY <1>0, <2>1, <2>2, <3>2, <4>1, MachineLock
    <3> QED BY <2>1, <3>1, <3>2
  <2>6. TagsMatchPreview => TagsMatchPreview'
    BY <2>1 DEF TagsMatchPreview
  <2>7. OwnRender(t) => OwnRender(t)'
    BY <2>1, <2>2 DEF OwnRender
  <2>8. Live(t)
    BY <2>1 DEF Live
  <2> QED BY <2>1, <2>2, <2>4, <2>5, <2>6, <2>7, <2>8, WorkerMoves
<1>4. CASE machine_lock_broken(t)
  <2>1. /\ pc[t] = "breakM" /\ broken' = (broken \/ Alive(lockM)) /\ lockM' = HeldBy(t) /\ TaskAt(t, "gotM")
        /\ UNCHANGED <<mode, file, art, tags, lockR, row, events, stored, snap, tagged, retries, apc, lockQ, cancelling,
                       faults, late, disowned>>
    BY <1>4 DEF machine_lock_broken, disk, db, api
  <2>2. pc' \in [Tasks -> Places] /\ pc'[t] = "gotM" /\ \A u \in Tasks \ {t} : pc'[u] = pc[u]
    BY <1>0, <2>1, TaskMoves DEF Places
  <2>3. lockM' \in Locks /\ lockM'.by = t
    BY <2>1 DEF HeldBy, Locks
  <2>4. broken' \in BOOLEAN /\ (broken => broken') /\ (~broken' => ~Alive(lockM))
    BY <2>1, Zenon
  <2>5. PreviewTypeOK'
    BY <1>0, <2>1, <2>2, <2>3, <2>4 DEF PreviewTypeOK, Places
  <2>6. RenderInv'
    BY <1>0, <2>2, <2>3, <2>4, MachineLock
  <2>7. TagsMatchPreview => TagsMatchPreview'
    BY <2>1 DEF TagsMatchPreview
  <2>8. OwnRender(t) => OwnRender(t)'
    BY <2>1, <2>2 DEF OwnRender
  <2>9. Live(t)
    BY <2>1 DEF Live
  <2> QED BY <2>1, <2>2, <2>5, <2>6, <2>7, <2>8, <2>9, WorkerMoves
<1>5. CASE machine_busy(t)
  <2>1. /\ pc[t] = "loaded" /\ mark_queued(FALSE) /\ row' = flushed(snap[t], "queued") /\ Retry(t)
        /\ UNCHANGED <<mode, art, tags, lockM, lockR, events, stored, apc, lockQ, cancelling, faults, late, broken, disowned>>
    BY <1>5 DEF machine_busy, locks, api, hist
  <2>2. /\ Leave(t, "waiting") \/ Leave(t, "finalize")
        /\ retries' \in [Tasks -> 0..MaxRetries]
    BY <1>0, <2>1, DemoPreviewAssumption DEF Retry, PreviewTypeOK
  <2>3. /\ pc' \in [Tasks -> Places] /\ pc'[t] \in {"waiting", "finalize"}
        /\ snap' \in [Tasks -> PreviewStatus] /\ tagged' \in [Tasks -> {"none", "report", "error"}]
        /\ \A u \in Tasks \ {t} : pc'[u] = pc[u] /\ snap'[u] = snap[u] /\ tagged'[u] = tagged[u]
    BY <1>0, <2>2, TaskLeaves DEF Places
  <2>4. file' \in States /\ (FreshState(file) => FreshState(file'))
    BY <1>0, <2>1, MarkedState
  <2>5. row' \in PreviewStatus /\ row' \in {row, "queued"}
    BY <1>0, <2>1, Flushed DEF PreviewStatus
  <2>6. PreviewTypeOK'
    BY <1>0, <2>1, <2>2, <2>3, <2>4, <2>5 DEF PreviewTypeOK, Places, States
  <2>7. RenderInv'
    BY <1>0, <2>1, <2>3, MachineLock
  <2> QED BY <2>1, <2>3, <2>4, <2>5, <2>6, <2>7, WorkerLeaves DEF Live
<1> QED BY <1>1, <1>2, <1>3, <1>4, <1>5

\* The render.
LEMMA Rendering ==
  ASSUME PreviewInv, NEW t \in Tasks,
         run_lock(t) \/ in_progress(t) \/ render_published(t) \/ render_failed(t)
  PROVE  PreviewInv'
<1>0. PreviewTypeOK /\ RenderInv
  BY DEF PreviewInv
<1>1. NoLock \in Locks /\ HeldBy(t) \in Locks
  BY DEF NoLock, HeldBy, Locks
<1>2. CASE run_lock(t)
  <2>1. /\ pc[t] = "gotM" /\ broken' = (broken \/ Alive(lockR)) /\ lockR' = HeldBy(t) /\ mark_running
        /\ row' = flushed(snap[t], "running") /\ snap' = [snap EXCEPT ![t] = "running"] /\ TaskAt(t, "running")
        /\ UNCHANGED <<mode, art, tags, lockM, events, stored, tagged, retries, apc, lockQ, cancelling, faults, late, disowned>>
    BY <1>2 DEF run_lock, Running, api
  <2>2. pc' \in [Tasks -> Places] /\ pc'[t] = "running" /\ \A u \in Tasks \ {t} : pc'[u] = pc[u]
    BY <1>0, <2>1, TaskMoves DEF Places
  <2>3. snap' \in [Tasks -> PreviewStatus] /\ snap'[t] = "running" /\ \A u \in Tasks \ {t} : snap'[u] = snap[u]
    BY <1>0, <2>1 DEF PreviewTypeOK, PreviewStatus
  <2>4. broken' \in BOOLEAN /\ (broken => broken')
    BY <2>1, Zenon
  <2>5. file' \in States /\ (FreshState(file) => FreshState(file'))
    BY <1>0, <2>1, MarkedState
  <2>6. row' \in PreviewStatus /\ row' \in {row, "running"} /\ (snap[t] # "running" => row' = "running")
    BY <1>0, <2>1, Flushed DEF PreviewStatus
  <2>7. PreviewTypeOK'
    BY <1>0, <1>1, <2>1, <2>2, <2>3, <2>4, <2>5, <2>6 DEF PreviewTypeOK, Places, States
  <2>8. RenderInv'
    BY <1>0, <2>1, <2>2, <2>4, MachineLock
  <2>9. OwnRender(t) => row' # "completed"
    BY <2>1, <2>6 DEF OwnRender
  <2>10. OwnRender(t) => TagsMatchPreview' /\ OwnRender(t)'
    BY <2>2, <2>3, <2>9 DEF OwnRender, TagsMatchPreview
  <2>11. Live(t)
    BY <2>1 DEF Live
  <2> QED BY <2>1, <2>2, <2>3, <2>5, <2>7, <2>8, <2>10, <2>11, WorkerMoves
<1>3. CASE in_progress(t)
  <2>1. /\ pc[t] = "gotM" /\ lockM' = NoLock /\ file' = resolved /\ End(t)
        /\ UNCHANGED <<mode, art, tags, lockR, row, events, stored, apc, lockQ, cancelling, faults, late, broken, disowned>>
    BY <1>3 DEF in_progress, db, api, hist
  <2>2. /\ pc' \in [Tasks -> Places] /\ pc'[t] = "done"
        /\ snap' \in [Tasks -> PreviewStatus] /\ tagged' \in [Tasks -> {"none", "report", "error"}]
        /\ retries' \in [Tasks -> 0..MaxRetries]
        /\ \A u \in Tasks \ {t} : pc'[u] = pc[u] /\ snap'[u] = snap[u] /\ tagged'[u] = tagged[u]
    BY <1>0, <2>1, TaskEnds
  <2>3. file' \in States
    BY <1>0, <2>1, ResolvedState
  <2>4. PreviewTypeOK'
    BY <1>0, <1>1, <2>1, <2>2, <2>3 DEF PreviewTypeOK, Places, States
  <2>5. RenderInv'
    BY <1>0, <2>1, <2>2, MachineLock
  <2> QED BY <2>1, <2>2, <2>4, <2>5, WorkerLeaves DEF Live
<1>4. CASE render_published(t)
  <2>1. /\ pc[t] = "running" /\ art' = t /\ lockM' = NoLock /\ lockR' = NoLock /\ TaskAt(t, "published")
        /\ UNCHANGED <<mode, file, row, events, stored, snap, retries, apc, lockQ, cancelling, faults, late, broken, disowned>>
    BY <1>4 DEF render_published, db, api, hist
  <2>2. PICK o \in IF Tagging THEN {"report", "error"} ELSE {"none"} :
          /\ tagged' = [tagged EXCEPT ![t] = o]
          /\ tags' = CASE o = "report" -> t [] o = "error" -> None [] OTHER -> tags
    BY <1>4 DEF render_published
  <2>3. o \in {"none", "report", "error"} /\ (Tagging => o # "none")
    BY <2>2
  <2>4. pc' \in [Tasks -> Places] /\ pc'[t] = "published" /\ \A u \in Tasks \ {t} : pc'[u] = pc[u]
    BY <1>0, <2>1, TaskMoves DEF Places
  <2>5. /\ tagged' \in [Tasks -> {"none", "report", "error"}] /\ tagged'[t] = o
        /\ \A u \in Tasks \ {t} : tagged'[u] = tagged[u]
    BY <1>0, <2>2, <2>3 DEF PreviewTypeOK
  <2>6. tags' \in {t, None, tags} /\ (o = "report" => tags' = t)
    BY <2>2, <2>3
  <2>7. {art', tags', stored', events'} \subseteq Tasks \cup {None}
    BY <1>0, <2>1, <2>6 DEF PreviewTypeOK
  <2>8. PreviewTypeOK'
    BY <1>0, <1>1, <2>1, <2>4, <2>5, <2>7 DEF PreviewTypeOK, Places
  <2>9. RenderInv'
    BY <1>0, <2>1, <2>4, MachineLock
  <2>10. TagsMatchPreview => TagsMatchPreview'
    BY <2>1 DEF TagsMatchPreview
  <2>11. OwnRender(t) => OwnRender(t)'
    BY <2>1, <2>3, <2>4, <2>5, <2>6 DEF OwnRender
  <2>12. Live(t)
    BY <2>1 DEF Live
  <2> QED BY <2>1, <2>4, <2>5, <2>8, <2>9, <2>10, <2>11, <2>12, WorkerMoves
<1>5. CASE render_failed(t)
  BY <1>5, Failing DEF render_failed
<1> QED BY <1>2, <1>3, <1>4, <1>5

\* From the upload to the end, and a death.
LEMMA AfterRender ==
  ASSUME PreviewInv, NEW t \in Tasks,
         \/ upload(t) \/ execute_completed(t) \/ execute_escapes(t)
         \/ finalize_demo_preview_failure(t) \/ worker_dies(t)
  PROVE  PreviewInv'
<1>0. PreviewTypeOK /\ RenderInv
  BY DEF PreviewInv
<1>1. CASE upload(t)
  <2>1. CASE Failed(t) /\ UNCHANGED locks
    BY <1>1, <2>1, Failing DEF upload
  <2>2. CASE ~(Failed(t) /\ UNCHANGED locks)
    <3>1. /\ pc[t] = "published" /\ stored' = art /\ TaskAt(t, "uploaded") /\ art # None
          /\ UNCHANGED <<mode, file, art, tags, lockM, lockR, row, events, snap, tagged, retries, apc, lockQ, cancelling,
                         faults, late, broken, disowned>>
      BY <1>1, <2>2 DEF upload, disk, locks, db, api, hist
    <3>2. pc' \in [Tasks -> Places] /\ pc'[t] = "uploaded" /\ \A u \in Tasks \ {t} : pc'[u] = pc[u]
      BY <1>0, <3>1, TaskMoves DEF Places
    <3>3. PreviewTypeOK'
      BY <1>0, <3>1, <3>2 DEF PreviewTypeOK, Places
    <3>4. RenderInv'
      BY <1>0, <3>1, <3>2, MachineLock
    <3>5. OwnRender(t) => OwnRender(t)' /\ row' # "completed"
      BY <3>1, <3>2 DEF OwnRender
    <3>6. row' # "completed" => TagsMatchPreview'
      BY DEF TagsMatchPreview
    <3>7. Live(t)
      BY <3>1 DEF Live
    <3> QED BY <3>1, <3>2, <3>3, <3>4, <3>5, <3>6, <3>7, WorkerMoves
  <2> QED BY <2>1, <2>2
<1>2. CASE execute_completed(t)
  <2>1. /\ pc[t] = "uploaded" /\ mark_completed /\ row' = flushed(snap[t], "completed")
        /\ events' \in sync_alpha_candidate_tags(t) /\ End(t)
        /\ UNCHANGED <<mode, art, tags, lockM, lockR, stored, apc, lockQ, cancelling, faults, late, broken, disowned>>
    BY <1>2 DEF execute_completed, locks, api, hist
  <2>2. /\ pc' \in [Tasks -> Places] /\ pc'[t] = "done"
        /\ snap' \in [Tasks -> PreviewStatus] /\ tagged' \in [Tasks -> {"none", "report", "error"}]
        /\ retries' \in [Tasks -> 0..MaxRetries]
        /\ \A u \in Tasks \ {t} : pc'[u] = pc[u] /\ snap'[u] = snap[u] /\ tagged'[u] = tagged[u]
    BY <1>0, <2>1, TaskEnds
  <2>3. file' \in States
    BY <1>0, <2>1, MarkedState
  <2>4. row' \in PreviewStatus
    BY <1>0, <2>1, Flushed DEF PreviewStatus
  <2>5. /\ events' \in {events, tags, None}
        /\ tagged[t] # "none" => events' \in {tags, None}
        /\ tagged[t] \notin {"none", "report"} => events' = None
    BY <2>1 DEF sync_alpha_candidate_tags
  <2>6. {art', tags', stored', events'} \subseteq Tasks \cup {None}
    BY <1>0, <2>1, <2>5 DEF PreviewTypeOK
  <2>7. PreviewTypeOK'
    BY <1>0, <2>1, <2>2, <2>3, <2>4, <2>6 DEF PreviewTypeOK, Places, States
  <2>8. RenderInv'
    BY <1>0, <2>1, <2>2, MachineLock
  <2>9. OwnRender(t) => TagsMatchPreview'
    <3>1. t # None
      BY DemoPreviewAssumption DEF Tasks
    <3>2. tagged[t] \in {"none", "report", "error"}
      BY <1>0 DEF PreviewTypeOK
    <3> QED BY <2>1, <2>5, <3>1, <3>2 DEF OwnRender, TagsMatchPreview
  <2>10. OwnRender(t)'
    BY <2>2 DEF OwnRender
  <2>11. Live(t)
    BY <2>1 DEF Live
  <2> QED BY <2>1, <2>2, <2>7, <2>8, <2>9, <2>10, <2>11, WorkerMoves
<1>3. CASE execute_escapes(t)
  <2>1. /\ pc[t] = "uploaded" /\ mark_completed /\ TaskAt(t, "finalize") /\ disowned' = TRUE
        /\ UNCHANGED <<mode, art, tags, lockM, lockR, row, events, stored, snap, tagged, retries, apc, lockQ, cancelling,
                       faults, late, broken>>
    BY <1>3 DEF execute_escapes, locks, db, api
  <2>2. pc' \in [Tasks -> Places] /\ pc'[t] = "finalize" /\ \A u \in Tasks \ {t} : pc'[u] = pc[u]
    BY <1>0, <2>1, TaskMoves DEF Places
  <2>3. file' \in States
    BY <1>0, <2>1, MarkedState
  <2>4. PreviewTypeOK'
    BY <1>0, <2>1, <2>2, <2>3 DEF PreviewTypeOK, Places, States
  <2>5. RenderInv'
    BY <1>0, <2>1, <2>2, MachineLock
  <2>6. disowned'
    BY <2>1
  <2> QED BY <2>4, <2>5, <2>6 DEF PreviewInv, AloneInv, MatchInv
<1>4. CASE finalize_demo_preview_failure(t)
  <2>1. /\ pc[t] = "finalize" /\ mark_failed /\ row' = "failed" /\ End(t)
        /\ UNCHANGED <<mode, art, tags, lockM, lockR, events, stored, apc, lockQ, cancelling, faults, late, broken, disowned>>
    BY <1>4 DEF finalize_demo_preview_failure, locks, api, hist
  <2>2. /\ pc' \in [Tasks -> Places] /\ pc'[t] = "done"
        /\ snap' \in [Tasks -> PreviewStatus] /\ tagged' \in [Tasks -> {"none", "report", "error"}]
        /\ retries' \in [Tasks -> 0..MaxRetries]
        /\ \A u \in Tasks \ {t} : pc'[u] = pc[u] /\ snap'[u] = snap[u] /\ tagged'[u] = tagged[u]
    BY <1>0, <2>1, TaskEnds
  <2>3. file' \in States
    BY <1>0, <2>1, MarkedState
  <2>4. PreviewTypeOK'
    BY <1>0, <2>1, <2>2, <2>3 DEF PreviewTypeOK, Places, States, PreviewStatus
  <2>5. RenderInv'
    BY <1>0, <2>1, <2>2, MachineLock
  <2> QED BY <2>1, <2>2, <2>4, <2>5, WorkerLeaves DEF Live
<1>5. CASE worker_dies(t)
  <2>1. /\ Fault /\ pc[t] \in {"running", "uploaded"} /\ Leave(t, "waiting")
        /\ UNCHANGED <<mode, file, art, tags, lockM, lockR, row, events, stored, retries, apc, lockQ, cancelling,
                       late, broken, disowned>>
    BY <1>5 DEF worker_dies, disk, locks, db, api
  <2>2. /\ pc' \in [Tasks -> Places] /\ pc'[t] = "waiting"
        /\ snap' \in [Tasks -> PreviewStatus] /\ tagged' \in [Tasks -> {"none", "report", "error"}]
        /\ \A u \in Tasks \ {t} : pc'[u] = pc[u] /\ snap'[u] = snap[u] /\ tagged'[u] = tagged[u]
    BY <1>0, <2>1, TaskLeaves DEF Places
  <2>3. faults' \in 0..MaxFaults
    BY <1>0, <2>1, DemoPreviewAssumption DEF Fault, PreviewTypeOK
  <2>4. PreviewTypeOK'
    BY <1>0, <2>1, <2>2, <2>3 DEF PreviewTypeOK, Places
  <2>5. RenderInv'
    BY <1>0, <2>1, <2>2, MachineLock
  <2> QED BY <2>1, <2>2, <2>4, <2>5, WorkerLeaves DEF Live
<1> QED BY <1>1, <1>2, <1>3, <1>4, <1>5

-----------------------------------------------------------------------------

\* The initial states: nobody is under way.
LEMMA PreviewStarts == PreviewInit => PreviewInv
<1> SUFFICES ASSUME PreviewInit PROVE PreviewInv
  OBVIOUS
<1>1. PreviewTypeOK
  <2>1. NoLock \in Locks /\ NoState \in States
    BY DEF NoLock, Locks, NoState, States, PreviewStatus, Ages
  <2>2. retries \in [Tasks -> 0..MaxRetries] /\ faults \in 0..MaxFaults
    BY DemoPreviewAssumption DEF PreviewInit
  <2> QED BY <2>1, <2>2 DEF PreviewInit, PreviewTypeOK, States, PreviewStatus
<1>2. \A t \in Tasks : pc[t] = "unsent" /\ ~Live(t)
  BY DEF PreviewInit, Live
<1>3. TagsMatchPreview
  BY DEF PreviewInit, TagsMatchPreview
<1>4. \A t \in Tasks : OwnRender(t)
  BY <1>2 DEF OwnRender
<1> QED BY <1>1, <1>2, <1>3, <1>4 DEF PreviewInv, RenderInv, AloneInv, MatchInv

\* Every interleaving of requests, workers, cancels, deaths, sweeps and the
\* passing of time keeps the invariant: the machine lock is that of the render
\* under way, the state file is open and fresh for the only task under way, and
\* what that task publishes, uploads and tags is its own (execute_demo_preview,
\* queue_demo_preview_request, cleanup_expired_demo_previews).
THEOREM PreviewSafe == PreviewSpec => []PreviewInv
<1>1. PreviewInit => PreviewInv
  BY PreviewStarts
<1>2. PreviewInv /\ [PreviewNext]_previewVars => PreviewInv'
  <2> SUFFICES ASSUME PreviewInv, [PreviewNext]_previewVars PROVE PreviewInv'
    OBVIOUS
  <2>1. ASSUME NEW t \in Tasks, create_load(t) \/ request_step(t) \/ api_dies(t)
        PROVE  PreviewInv'
    BY <2>1, RequestSteps, Sending DEF request_step
  <2>2. ASSUME NEW t \in Tasks, worker_step(t) \/ worker_dies(t)
        PROVE  PreviewInv'
    BY <2>2, BeforeRender, Rendering, AfterRender DEF worker_step
  <2>3. CASE cancel_load \/ cancel_commit \/ demo_preview_view
    BY <2>3, RequestSteps
  <2>4. CASE time_passes \/ cleanup_expired_demo_previews \/ UNCHANGED previewVars
    BY <2>4, TimeAndSweep
  <2> QED BY <2>1, <2>2, <2>3, <2>4 DEF PreviewNext
<1> QED BY <1>1, <1>2, PTL DEF PreviewSpec

\* A set whose members are all the same one has at most one member.
LEMMA AtMostOne ==
  ASSUME NEW S, \A x, y \in S : x = y
  PROVE  Cardinality(S) <= 1
<1>1. CASE S = {}
  BY <1>1, FS_EmptySet
<1>2. CASE S # {}
  <2>1. PICK x \in S : TRUE
    BY <1>2
  <2>2. S = {x}
    BY <2>1
  <2> QED BY <2>2, FS_Singleton
<1> QED BY <1>1, <1>2

\* For any number of requests, retries and faults: at most one render on the
\* machine until a live render's lock is broken as old
\* (render_demo_preview_artifact, _acquire_lock), and on a shared disk at most
\* one task under way for the video while its state speaks for it
\* (queue_demo_preview_request).
THEOREM OneSafe == PreviewSpec => []OneAtATime
<1>1. PreviewInv => OneAtATime
  <2> SUFFICES ASSUME PreviewInv PROVE OneAtATime
    OBVIOUS
  <2>1. PreviewTypeOK /\ RenderInv /\ AloneInv
    BY DEF PreviewInv
  <2>2. OneRender
    <3> DEFINE S == {t \in Tasks : pc[t] \in {"gotM", "running"}}
    <3>1. ~broken => \A t, u \in S : t = u
      BY <2>1 DEF RenderInv
    <3> QED BY <3>1, AtMostOne DEF OneRender
  <2>3. OneLiveTask
    <3> DEFINE S == {t \in Tasks : Live(t)}
    <3>1. mode # "alpha" /\ ~disowned => \A t, u \in S : t = u
      BY <2>1 DEF AloneInv
    <3> QED BY <3>1, AtMostOne DEF OneLiveTask
  <2> QED BY <2>1, <2>2, <2>3 DEF OneAtATime
<1> QED BY <1>1, PreviewSafe, PTL

\* For any number of requests, retries and faults: a completed preview is in
\* storage and the candidate events beside it are its own or none, whichever of
\* report, upload and transaction fails (execute_demo_preview,
\* _sync_alpha_candidate_tags).
THEOREM TagsSafe == PreviewSpec => []TagsMatchPreview
<1>1. PreviewInv => TagsMatchPreview
  BY DEF PreviewInv, MatchInv, TagsMatchPreview
<1> QED BY <1>1, PreviewSafe, PTL

-----------------------------------------------------------------------------
(* Windows.                                                                *)

\* A time that was clamped lies in the video, and clamping keeps the order.
LEMMA Clamping ==
  ASSUME NEW t \in Int
  PROVE  /\ clamp_clip_time(t) \in 0..Duration
         /\ \A u \in Int : t <= u => clamp_clip_time(t) <= clamp_clip_time(u)
<1>1. Duration \in Nat \ {0}
  BY EventReviewAssumption
<1> QED BY <1>1 DEF clamp_clip_time, Least, Greatest

\* What _resolve_clip_window lets through.
LEMMA Resolving ==
  ASSUME NEW t \in Nat, NEW s \in Int \X Int, NEW w \in resolved_windows(t, s)
  PROVE  /\ w \in Nat \X Nat /\ w[1] < w[2] /\ w[1] <= t /\ t <= w[2]
         /\ w[2] - w[1] <= MaxReviewWindow
<1>1. /\ w = Clamped(s) /\ window_accepted(t, w)
  BY DEF resolved_windows
<1>2. s[1] \in Int /\ s[2] \in Int
  OBVIOUS
<1>3. clamp_clip_time(s[1]) \in 0..Duration /\ clamp_clip_time(s[2]) \in 0..Duration
  BY <1>2, Clamping
<1>4. w \in Nat \X Nat
  BY <1>1, <1>3, EventReviewAssumption DEF Clamped
<1> QED BY <1>1, <1>4 DEF window_accepted

\* A clip is offered for every row, not empty and inside the video.
LEMMA Proposing ==
  ASSUME NEW e \in Row
  PROVE  /\ 0 <= proposal(e)[1] /\ proposal(e)[1] < proposal(e)[2]
         /\ proposal(e)[2] <= Duration
<1> DEFINE center == clamp_clip_time(e.time)
           pre == window_override(clip_reach(e)[1])
           post == window_override(clip_reach(e)[2])
<1>1. e.time \in Nat /\ e.start \in Nat /\ e.end \in Nat
  BY DEF Row
<1>2. center \in 0..Duration
  BY <1>1, Clamping
<1>3. clip_reach(e)[1] \in Int /\ clip_reach(e)[2] \in Int
  <2>1. clamp_clip_time(e.start) \in 0..Duration /\ clamp_clip_time(e.end) \in 0..Duration
    BY <1>1, Clamping
  <2> QED BY <1>1, <2>1, EventReviewAssumption DEF clip_reach, window_from_event, Clamped
<1>4. pre \in Nat \ {0} /\ post \in Nat \ {0}
  <2>1. MinWindow \in Nat \ {0} /\ MaxModelWindow \in Nat /\ MinWindow <= MaxModelWindow
    BY EventReviewAssumption
  <2>2. ASSUME NEW v \in Int PROVE window_override(v) \in Nat \ {0}
    BY <2>1 DEF window_override, Greatest, Least
  <2> QED BY <1>3, <2>2
<1> HIDE DEF center, pre, post
<1>5. /\ Duration \in Nat \ {0} /\ MinWindow \in Nat \ {0}
      /\ Greatest(0, center - pre) < Least(Duration, center + post)
      /\ 0 <= Greatest(0, center - pre) /\ Least(Duration, center + post) <= Duration
  BY <1>2, <1>4, EventReviewAssumption DEF Greatest, Least
<1>6. proposal(e) = <<Greatest(0, center - pre), Least(Duration, center + post)>>
  <2>1. Greatest(0, center - pre) \in Int /\ Least(Duration, center + post) \in Int
    BY <1>2, <1>4, <1>5 DEF Greatest, Least
  <2> QED BY <1>5, <2>1 DEF proposal, center, pre, post
<1> QED BY <1>5, <1>6

\* What is exported of a row lies in the video and does not end before it starts.
LEMMA Exporting ==
  ASSUME NEW e \in Row, e.start <= e.end
  PROVE  /\ 0 <= window_from_event(e)[1] /\ window_from_event(e)[1] <= window_from_event(e)[2]
         /\ window_from_event(e)[2] <= Duration
<1>1. e.start \in Int /\ e.end \in Int
  BY DEF Row
<1>2. /\ clamp_clip_time(e.start) \in 0..Duration /\ clamp_clip_time(e.end) \in 0..Duration
      /\ clamp_clip_time(e.start) <= clamp_clip_time(e.end)
  BY <1>1, Clamping
<1> QED BY <1>2, EventReviewAssumption DEF window_from_event, Clamped

-----------------------------------------------------------------------------
(* The order of a page.                                                    *)

\* A set of naturals that is not empty has a least member.
LEMMA LeastMember ==
  ASSUME NEW T, T \subseteq Nat, T # {}
  PROVE  \E x \in T : \A y \in T : x <= y
<1>1. PICK x \in T : \A y \in T : ~ (<<y, x>> \in OpToRel(<, Nat))
  <2> HIDE DEF IsWellFoundedOn, OpToRel
  <2> QED BY NatLessThanWellFounded, WFMin, Zenon
<1>2. \A y \in T : ~(y < x)
  BY <1>1 DEF OpToRel
<1> QED BY <1>2

\* Rows are compared by time and then id: of some rows one comes first.
LEMMA FirstRow ==
  ASSUME ReviewTypeOK, NEW S, S \subseteq Existing, S # {}
  PROVE  \E x \in S : \A y \in S \ {x} : Before(Key(x), Key(y))
<1>1. \A i \in S : i \in Nat /\ event[i].time \in Nat
  BY DEF ReviewTypeOK, Existing, Row, NoRow, Ids
<1> DEFINE T == {event[i].time : i \in S}
<1>2. PICK t \in T : \A u \in T : t <= u
  <2>1. T \subseteq Nat /\ T # {}
    BY <1>1
  <2> HIDE DEF T
  <2> QED BY <2>1, LeastMember
<1> DEFINE I == {i \in S : event[i].time = t}
<1>3. PICK x \in I : \A y \in I : x <= y
  <2>1. I \subseteq Nat /\ I # {}
    BY <1>1, <1>2
  <2> HIDE DEF I
  <2> QED BY <2>1, LeastMember
<1>4. ASSUME NEW y \in S \ {x} PROVE Before(Key(x), Key(y))
  <2>1. event[x].time = t /\ t <= event[y].time /\ x \in S
    BY <1>2, <1>3
  <2>2. event[y].time = t => x <= y
    BY <1>3
  <2> QED BY <1>1, <2>1, <2>2 DEF Before, Key
<1> QED BY <1>3, <1>4

\* So any rows can be put in order.
LEMMA Sortable ==
  ASSUME ReviewTypeOK
  PROVE  \A S \in SUBSET Existing : \E s \in [1..Cardinality(S) -> S] : in_order(s)
<1>0. \A S \in SUBSET Existing : IsFiniteSet(S) /\ Cardinality(S) \in Nat
  <2>1. IsFiniteSet(Ids)
    <3>1. MaxEvents \in Int /\ 1 \in Int
      BY EventReviewAssumption
    <3> QED BY <3>1, FS_Interval DEF Ids
  <2>2. \A S \in SUBSET Existing : S \in SUBSET Ids
    BY DEF Existing
  <2> QED BY <2>1, <2>2, FS_Subset, FS_CardinalityType
<1> DEFINE Sorts(S) == \E s \in [1..Cardinality(S) -> S] : in_order(s)
           Bad == {n \in Nat : \E S \in SUBSET Existing : Cardinality(S) = n /\ ~Sorts(S)}
<1>1. ASSUME Bad # {} PROVE FALSE
  <2>1. PICK n \in Bad : \A m \in Bad : n <= m
    BY <1>1, LeastMember
  <2>2. PICK S \in SUBSET Existing : Cardinality(S) = n /\ ~Sorts(S)
    BY <2>1
  <2>3. S # {}
    <3> SUFFICES ASSUME S = {} PROVE FALSE
      OBVIOUS
    <3>1. Cardinality(S) = 0
      BY FS_EmptySet
    <3> DEFINE s == [k \in {} |-> k]
    <3>2. s \in [{} -> S] /\ in_order(s)
      BY DEF in_order
    <3>3. 1..Cardinality(S) = {}
      BY <3>1
    <3> HIDE DEF s
    <3>4. Sorts(S)
      BY <3>2, <3>3
    <3> HIDE DEF Sorts
    <3> QED BY <2>2, <3>4
  <2>4. PICK x \in S : \A y \in S \ {x} : Before(Key(x), Key(y))
    BY <2>3, FirstRow
  <2> DEFINE R == S \ {x}
  <2>5. Cardinality(R) = n - 1 /\ n - 1 \in Nat
    <3>1. IsFiniteSet(S) /\ Cardinality(R) \in Nat /\ Cardinality(S) \in Nat
      BY <1>0
    <3>2. Cardinality(R) = Cardinality(S) - 1
      BY <3>1, FS_RemoveElement
    <3>3. Cardinality(S) = n
      BY <2>2
    <3> QED BY <3>1, <3>2, <3>3
  <2>6. R \in SUBSET Existing
    OBVIOUS
  <2>7. Sorts(R)
    <3> HIDE DEF Sorts, R
    <3> QED BY <2>1, <2>5, <2>6
  <2>8. PICK s \in [1..n - 1 -> R] : in_order(s)
    BY <2>5, <2>7
  <2> DEFINE u == [k \in 1..n |-> IF k = 1 THEN x ELSE s[k - 1]]
  <2>9. \A k \in 1..n : k # 1 => k - 1 \in 1..n - 1
    BY <2>5
  <2>10. u \in [1..n -> S]
    BY <2>8, <2>9
  <2>11. in_order(u)
    <3>1. ASSUME NEW j \in 1..n, NEW k \in 1..n, j < k PROVE Before(Key(u[j]), Key(u[k]))
      <4>1. k # 1 /\ k - 1 \in 1..n - 1 /\ u[k] = s[k - 1]
        BY <2>9, <3>1
      <4>2. CASE j = 1
        BY <2>4, <2>8, <4>1, <4>2
      <4>3. CASE j # 1
        <5>1. j - 1 \in 1..n - 1 /\ u[j] = s[j - 1] /\ j - 1 < k - 1
          BY <2>9, <3>1, <4>3
        <5> HIDE DEF u
        <5> QED BY <2>8, <4>1, <5>1 DEF in_order
      <4> QED BY <4>2, <4>3
    <3> QED BY <3>1 DEF in_order
  <2> QED BY <2>2, <2>10, <2>11
<1> QED BY <1>0, <1>1

\* ORDER BY lists every row once, in order.
LEMMA Ordering ==
  ASSUME ReviewTypeOK, NEW S \in SUBSET Existing
  PROVE  /\ Cardinality(S) \in Nat /\ Len(ordered(S)) = Cardinality(S)
         /\ ordered(S) \in [1..Cardinality(S) -> S]
         /\ in_order(ordered(S))
         /\ \A i \in S : \E n \in 1..Cardinality(S) : ordered(S)[n] = i
<1> DEFINE N == Cardinality(S)
           s == ordered(S)
<1>1. IsFiniteSet(S) /\ N \in Nat
  <2>1. IsFiniteSet(Ids)
    <3>1. MaxEvents \in Int /\ 1 \in Int
      BY EventReviewAssumption
    <3> QED BY <3>1, FS_Interval DEF Ids
  <2>2. S \in SUBSET Ids
    BY DEF Existing
  <2> QED BY <2>1, <2>2, FS_Subset, FS_CardinalityType
<1>2. s \in [1..N -> S] /\ in_order(s)
  BY Sortable DEF ordered
<1> HIDE DEF s
<1>3. \A m, n \in 1..N : s[m] = s[n] => m = n
  <2>1. \A i \in S : i \in Int /\ event[i].time \in Int
    BY DEF ReviewTypeOK, Existing, Row, NoRow, Ids
  <2>2. \A i \in S : ~Before(Key(i), Key(i))
    BY <2>1 DEF Before, Key
  <2>3. \A m, n \in 1..N : m < n => s[m] # s[n]
    BY <1>2, <2>2 DEF in_order
  <2> QED BY <1>1, <2>3
<1>4. \A i \in S : \E n \in 1..N : s[n] = i
  <2>1. s \in Injection(1..N, S)
    BY <1>2, <1>3 DEF Injection, IsInjective
  <2>2. IsFiniteSet(1..N) /\ Cardinality(1..N) = N
    BY <1>1, FS_Interval
  <2>3. s \in Surjection(1..N, S)
    BY <1>1, <2>1, <2>2, FS_Injection
  <2> QED BY <2>3 DEF Surjection
<1>5. Len(s) = N
  BY <1>1, <1>2
<1> QED BY <1>1, <1>2, <1>4, <1>5 DEF s

-----------------------------------------------------------------------------
(* The invariant.                                                          *)

\* What a review under way will write. The id of the row it has loaded is never
\* given out again, so if the row is still there it has the time that was
\* loaded; the new ends lie around it.
Pending(q) ==
  /\ q.id \in used
  /\ event[q.id] # NoRow => event[q.id].time = q.from.time
  /\ q.to.start <= q.from.time /\ q.from.time <= q.to.end
  /\ IF q.trims THEN q.to.start < q.to.end /\ q.to.end - q.to.start <= MaxReviewWindow
                ELSE q.to.start = q.from.start /\ q.to.end = q.from.end

WindowInv ==
  /\ Existing \subseteq used /\ trimmed \subseteq used
  /\ MomentInsideWindow /\ TrimmedWindowValid
  /\ \A r \in Reviews : review[r] # NoReview => Pending(review[r])

\* What the reader has seen lies up to the cursor and in order, and what has
\* been in its listing all the while it has seen or will find behind the cursor.
ReaderInv ==
  IF reader.pc = "idle" THEN steady = {} ELSE
    /\ reader.seen \in Seq(Nat \X Ids)
    /\ PagesAdvance
    /\ reader.pc = "more" =>
         /\ reader.cursor \in Nat \X Ids
         /\ \A n \in DOMAIN reader.seen :
              reader.seen[n] = reader.cursor \/ Before(reader.seen[n], reader.cursor)
    /\ \A i \in steady :
         /\ Shown(reader.filter, event[i])
         /\ \/ \E n \in DOMAIN reader.seen : reader.seen[n][2] = i
            \/ reader.pc = "more" /\ Before(reader.cursor, Key(i))

ReviewInv == ReviewTypeOK /\ WindowInv /\ ReaderInv

-----------------------------------------------------------------------------
(* The writers.                                                            *)

\* Rows that come, go and change leave the reader its order: those that stay
\* in its listing keep their place.
LEMMA ReaderKeeps ==
  ASSUME ReaderInv, UNCHANGED reader, steady' = StillSteady,
         \A i \in steady : event'[i] = NoRow \/ event'[i].time = event[i].time
  PROVE  ReaderInv'
<1>1. CASE reader.pc = "idle"
  BY <1>1 DEF ReaderInv, StillSteady
<1>2. CASE reader.pc # "idle"
  <2>1. steady' = {i \in steady : Shown(reader.filter, event'[i])}
    BY <1>2 DEF StillSteady
  <2>2. PagesAdvance'
    BY <1>2 DEF ReaderInv, PagesAdvance
  <2>3. ASSUME NEW i \in steady'
        PROVE  /\ Shown(reader.filter, event'[i])
               /\ \/ \E n \in DOMAIN reader.seen : reader.seen[n][2] = i
                  \/ reader.pc = "more" /\ Before(reader.cursor, Key(i)')
    <3>1. i \in steady /\ Shown(reader.filter, event'[i])
      BY <2>1
    <3>2. event'[i] # NoRow
      BY <3>1 DEF Shown
    <3>3. Key(i)' = Key(i)
      BY <3>1, <3>2 DEF Key
    <3> QED BY <1>2, <3>1, <3>3 DEF ReaderInv
  <2> QED BY <1>2, <2>2, <2>3 DEF ReaderInv
<1> QED BY <1>1, <1>2

\* A manual tag.
LEMMA TagCreated ==
  ASSUME ReviewInv, NEW i \in Ids, NEW t \in Times,
         NEW s \in Windows \cup {default_window(t)}, NEW w \in resolved_windows(t, s),
         create_manual_video_event(i, t, w)
  PROVE  ReviewInv'
<1>0. ReviewTypeOK /\ WindowInv /\ ReaderInv
  BY DEF ReviewInv
<1>1. t \in Nat
  BY EventReviewAssumption
<1>2. s \in Int \X Int
  BY <1>1, EventReviewAssumption DEF default_window, Greatest
<1>3. /\ w \in Nat \X Nat /\ w[1] < w[2] /\ w[1] <= t /\ t <= w[2]
      /\ w[2] - w[1] <= MaxReviewWindow
  BY <1>1, <1>2, Resolving
<1> DEFINE e == [src |-> "manual", status |-> "needs_review", time |-> t, start |-> w[1], end |-> w[2]]
<1>4. e \in Row /\ e # NoRow
  BY <1>1, <1>3 DEF Row, ReviewStatus, NoRow
<1>5. /\ i \notin used /\ event' = [event EXCEPT ![i] = e] /\ used' = used \cup {i}
      /\ trimmed' = trimmed \cup {i} /\ steady' = StillSteady /\ Spend("tags")
      /\ UNCHANGED <<review, reader, stale>>
  BY DEF create_manual_video_event
<1>6. e.start = w[1] /\ e.end = w[2] /\ e.time = t
  OBVIOUS
<1> HIDE DEF e
<1>7. /\ event' \in [Ids -> Row \cup {NoRow}] /\ event'[i] = e
      /\ \A j \in Ids \ {i} : event'[j] = event[j]
  BY <1>0, <1>4, <1>5 DEF ReviewTypeOK
<1>8. Existing' = Existing \cup {i} /\ i \notin Existing /\ i \notin trimmed
  BY <1>0, <1>4, <1>5, <1>7 DEF Existing, WindowInv
<1>9. steady' \in SUBSET Ids
  BY <1>0, <1>5 DEF StillSteady, ReviewTypeOK
<1>10. left' \in [tags : Nat, imports : Nat, reviews : Nat, readers : Nat]
  BY <1>0, <1>5 DEF Spend, ReviewTypeOK
<1>11. ReviewTypeOK'
  BY <1>0, <1>5, <1>7, <1>9, <1>10 DEF ReviewTypeOK
<1>12. WindowInv'
  <2>1. MomentInsideWindow'
    BY <1>0, <1>3, <1>6, <1>7, <1>8 DEF WindowInv, MomentInsideWindow, Existing
  <2>2. TrimmedWindowValid'
    BY <1>0, <1>3, <1>5, <1>6, <1>7, <1>8 DEF WindowInv, TrimmedWindowValid, Existing
  <2>3. ASSUME NEW r \in Reviews, review'[r] # NoReview PROVE Pending(review[r])'
    <3>1. Pending(review[r]) /\ review'[r] = review[r]
      BY <1>0, <1>5, <2>3 DEF WindowInv
    <3>2. review[r].id # i /\ review[r].id \in Ids /\ event'[review[r].id] = event[review[r].id]
      BY <1>0, <1>5, <1>7, <3>1 DEF Pending, ReviewTypeOK
    <3> QED BY <1>5, <3>1, <3>2 DEF Pending
  <2> QED BY <1>0, <1>5, <1>8, <2>1, <2>2, <2>3 DEF WindowInv
<1>13. ReaderInv'
  <2>1. \A j \in steady : event'[j] = event[j]
    <3>1. \A j \in steady : j \in Ids /\ event[j] # NoRow
      BY <1>0 DEF ReaderInv, Shown, ReviewTypeOK
    <3> QED BY <1>7, <1>8, <3>1 DEF Existing
  <2> QED BY <1>0, <1>5, <2>1, ReaderKeeps
<1> QED BY <1>11, <1>12, <1>13 DEF ReviewInv

\* The candidates of a report in the place of those before.
LEMMA Importing ==
  ASSUME ReviewInv, NEW new \in Reports, replace_alpha_candidate_events(new)
  PROVE  ReviewInv'
<1>0. ReviewTypeOK /\ WindowInv /\ ReaderInv
  BY DEF ReviewInv
<1> DEFINE D == DOMAIN new
<1>1. D \subseteq Ids /\ new \in [D -> validated_candidates]
  BY DEF Reports
<1>2. ASSUME NEW c \in validated_candidates
      PROVE  /\ candidate_row(c) \in Row /\ candidate_row(c) # NoRow
             /\ candidate_row(c).start <= candidate_row(c).time
             /\ candidate_row(c).time <= candidate_row(c).end
  <2>1. c[1] \in Int /\ c[2] \in Int /\ c[1] < c[2]
    BY EventReviewAssumption DEF validated_candidates
  <2> DEFINE b == Greatest(0, c[1])
             d == Greatest(0, c[2])
             m == (b + d) \div 2
  <2>2. b \in Nat /\ d \in Nat /\ b <= d
    BY <2>1 DEF Greatest
  <2> HIDE DEF b, d
  <2>3. m \in Nat /\ b <= m /\ m <= d
    BY <2>2
  <2>4. candidate_row(c) = [src |-> "alpha", status |-> "needs_review", time |-> m,
                            start |-> b, end |-> d]
    BY DEF candidate_row, b, d
  <2> QED BY <2>2, <2>3, <2>4 DEF Row, ReviewStatus, NoRow
<1>3. /\ Spend("imports") /\ D \cap used = {} /\ used' = used \cup D
      /\ event' = [i \in Ids |-> IF i \in D THEN candidate_row(new[i])
                                 ELSE IF event[i].src = "alpha" THEN NoRow ELSE event[i]]
      /\ steady' = StillSteady /\ UNCHANGED <<review, reader, trimmed, stale>>
  BY DEF replace_alpha_candidate_events
<1> HIDE DEF D
<1>4. /\ event' \in [Ids -> Row \cup {NoRow}]
      /\ \A i \in D : /\ event'[i] # NoRow /\ event'[i].start <= event'[i].time
                      /\ event'[i].time <= event'[i].end
      /\ \A i \in Ids \ D : event'[i] = NoRow \/ event'[i] = event[i]
  BY <1>0, <1>1, <1>2, <1>3 DEF ReviewTypeOK
<1>5. /\ \A i \in Existing' : i \in D \/ (i \in Existing /\ i \notin D /\ event'[i] = event[i])
      /\ Existing' \subseteq Existing \cup D /\ trimmed \cap D = {}
  BY <1>0, <1>3, <1>4 DEF Existing, WindowInv
<1>6. steady' \in SUBSET Ids
  BY <1>0, <1>3 DEF StillSteady, ReviewTypeOK
<1>7. left' \in [tags : Nat, imports : Nat, reviews : Nat, readers : Nat]
  BY <1>0, <1>3 DEF Spend, ReviewTypeOK
<1>8. ReviewTypeOK'
  BY <1>0, <1>1, <1>3, <1>4, <1>6, <1>7 DEF ReviewTypeOK
<1>9. WindowInv'
  <2>1. MomentInsideWindow'
    BY <1>0, <1>4, <1>5 DEF WindowInv, MomentInsideWindow
  <2>2. TrimmedWindowValid'
    BY <1>0, <1>3, <1>5 DEF WindowInv, TrimmedWindowValid
  <2>3. ASSUME NEW r \in Reviews, review'[r] # NoReview PROVE Pending(review[r])'
    <3>1. Pending(review[r]) /\ review'[r] = review[r]
      BY <1>0, <1>3, <2>3 DEF WindowInv
    <3>2. /\ review[r].id \in Ids /\ review[r].id \notin D
      BY <1>0, <1>3, <3>1 DEF Pending, ReviewTypeOK
    <3>3. event'[review[r].id] = NoRow \/ event'[review[r].id] = event[review[r].id]
      BY <1>4, <3>2
    <3> QED BY <1>3, <3>1, <3>2, <3>3 DEF Pending
  <2> QED BY <1>0, <1>3, <1>5, <2>1, <2>2, <2>3 DEF WindowInv
<1>10. ReaderInv'
  <2>1. \A j \in steady : j \in Ids \ D
    BY <1>0, <1>3 DEF ReaderInv, Shown, ReviewTypeOK, WindowInv, Existing
  <2>2. \A j \in steady : event'[j] = NoRow \/ event'[j].time = event[j].time
    BY <1>4, <2>1
  <2> QED BY <1>0, <1>3, <2>2, ReaderKeeps
<1> QED BY <1>8, <1>9, <1>10 DEF ReviewInv

\* A review loads a row and decides what it is to be.
LEMMA Loading ==
  ASSUME ReviewInv, NEW r \in Reviews, NEW i \in Existing, NEW st \in ReviewStatus,
         NEW ws, \/ ws = {}
                 \/ \E s \in Windows : ws = resolved_windows(event[i].time, s),
         review_load(r, i, st, ws)
  PROVE  ReviewInv'
<1>0. ReviewTypeOK /\ WindowInv /\ ReaderInv
  BY DEF ReviewInv
<1> DEFINE e == event[i]
<1>1. i \in Ids /\ e \in Row /\ i \in used /\ e.start <= e.time /\ e.time <= e.end
  BY <1>0 DEF ReviewTypeOK, Existing, WindowInv, MomentInsideWindow
<1>2. UNCHANGED <<event, used, reader, steady, trimmed, stale>> /\ Spend("reviews")
  BY DEF review_load
<1>3. left' \in [tags : Nat, imports : Nat, reviews : Nat, readers : Nat]
  BY <1>0, <1>2 DEF Spend, ReviewTypeOK
<1>4. Windows \subseteq Int \X Int
  BY EventReviewAssumption
<1>5. PICK to \in IF ws = {} THEN {e} ELSE {[e EXCEPT !.start = w[1], !.end = w[2]] : w \in ws} :
        review' = [review EXCEPT ![r] = [id |-> i, from |-> e, trims |-> ws # {},
                                         to |-> [to EXCEPT !.status = st]]]
  BY DEF review_load
<1> DEFINE q == [id |-> i, from |-> e, trims |-> ws # {}, to |-> [to EXCEPT !.status = st]]
<1>6. /\ to \in Row /\ to.start <= e.time /\ e.time <= to.end
      /\ ws = {} => to.start = e.start /\ to.end = e.end
      /\ ws # {} => to.start < to.end /\ to.end - to.start <= MaxReviewWindow
  <2>1. CASE ws = {}
    BY <1>1, <1>5, <2>1
  <2>2. CASE ws # {}
    <3>1. PICK s \in Windows : ws = resolved_windows(e.time, s)
      BY <2>2
    <3>2. PICK w \in ws : to = [e EXCEPT !.start = w[1], !.end = w[2]]
      BY <1>5, <2>2
    <3>3. s \in Int \X Int
      BY <1>4
    <3>4. e.time \in Nat
      BY <1>1 DEF Row
    <3>5. /\ w \in Nat \X Nat /\ w[1] < w[2] /\ w[1] <= e.time /\ e.time <= w[2]
          /\ w[2] - w[1] <= MaxReviewWindow
      BY <3>1, <3>3, <3>4, Resolving
    <3>6. to \in Row /\ to.start = w[1] /\ to.end = w[2]
      BY <1>1, <3>2, <3>5 DEF Row
    <3> QED BY <2>2, <3>5, <3>6
  <2> QED BY <2>1, <2>2
<1>7. /\ [to EXCEPT !.status = st] \in Row /\ [to EXCEPT !.status = st].start = to.start
      /\ [to EXCEPT !.status = st].end = to.end
  BY <1>6 DEF Row
<1>8. /\ q \in [id : Ids, from : Row, to : Row, trims : BOOLEAN] /\ q.id = i /\ q.from = e
      /\ q.to.start = to.start /\ q.to.end = to.end /\ q.trims = (ws # {})
  BY <1>1, <1>7
<1> HIDE DEF q
<1>9. /\ review' \in [Reviews -> [id : Ids, from : Row, to : Row, trims : BOOLEAN] \cup {NoReview}]
      /\ review'[r] = q /\ \A p \in Reviews \ {r} : review'[p] = review[p]
  <2>1. review' = [review EXCEPT ![r] = q]
    BY <1>5 DEF q
  <2> QED BY <1>0, <1>8, <2>1 DEF ReviewTypeOK
<1>10. ReviewTypeOK'
  BY <1>0, <1>2, <1>9, <1>3 DEF ReviewTypeOK
<1>11. WindowInv'
  <2>1. Pending(review[r])'
    BY <1>1, <1>2, <1>6, <1>8, <1>9 DEF Pending
  <2>2. ASSUME NEW p \in Reviews \ {r}, review[p] # NoReview PROVE Pending(review[p])'
    BY <1>0, <1>2, <1>9, <2>2 DEF WindowInv, Pending
  <2> QED BY <1>0, <1>2, <1>9, <2>1, <2>2
        DEF WindowInv, MomentInsideWindow, TrimmedWindowValid, Existing
<1>12. ReaderInv'
  BY <1>0, <1>2 DEF ReaderInv, PagesAdvance, Key
<1> QED BY <1>10, <1>11, <1>12 DEF ReviewInv

\* A review writes the columns it changed, over whatever is in the others now.
LEMMA Committing ==
  ASSUME ReviewInv, NEW r \in Reviews, review_commit(r)
  PROVE  ReviewInv'
<1>0. ReviewTypeOK /\ WindowInv /\ ReaderInv
  BY DEF ReviewInv
<1> DEFINE q == review[r]
           i == q.id
           e == event[i]
<1>1. /\ q # NoReview /\ review' = [review EXCEPT ![r] = NoReview]
      /\ UNCHANGED <<used, left, reader>>
  BY DEF review_commit
<1>2. /\ q \in [id : Ids, from : Row, to : Row, trims : BOOLEAN] /\ Pending(q) /\ i \in Ids
      /\ q.from \in Row /\ q.to \in Row
  BY <1>0, <1>1 DEF ReviewTypeOK, WindowInv
<1>3. /\ review' \in [Reviews -> [id : Ids, from : Row, to : Row, trims : BOOLEAN] \cup {NoReview}]
      /\ review'[r] = NoReview /\ \A p \in Reviews \ {r} : review'[p] = review[p]
  BY <1>0, <1>1 DEF ReviewTypeOK
<1>4. CASE e = NoRow
  <2>1. UNCHANGED <<event, steady, trimmed, stale>>
    BY <1>4 DEF review_commit
  <2>2. ReviewTypeOK'
    BY <1>0, <1>1, <1>3, <2>1 DEF ReviewTypeOK
  <2>3. ASSUME NEW p \in Reviews, review'[p] # NoReview PROVE Pending(review[p])'
    BY <1>0, <1>1, <1>3, <2>1, <2>3 DEF WindowInv, Pending
  <2>4. WindowInv'
    BY <1>0, <1>1, <2>1, <2>3 DEF WindowInv, MomentInsideWindow, TrimmedWindowValid, Existing
  <2>5. ReaderInv'
    BY <1>0, <1>1, <2>1 DEF ReaderInv, PagesAdvance, Key
  <2> QED BY <2>2, <2>4, <2>5 DEF ReviewInv
<1>5. CASE e # NoRow
  <2> DEFINE n == reviewed(e, q)
  <2>1. /\ event' = [event EXCEPT ![i] = n] /\ steady' = StillSteady
        /\ trimmed' = IF q.trims THEN trimmed \cup {i} ELSE trimmed
        /\ stale' = IF e = q.from THEN stale ELSE stale \cup {i}
    BY <1>5 DEF review_commit
  <2>2. e \in Row /\ i \in Existing /\ e.start <= e.time /\ e.time <= e.end /\ e.time = q.from.time
    BY <1>0, <1>2, <1>5 DEF ReviewTypeOK, Existing, WindowInv, MomentInsideWindow, Pending
  <2>3. /\ n \in Row /\ n # NoRow /\ n.time = e.time
        /\ n.start = written(e.start, q.from.start, q.to.start)
        /\ n.end = written(e.end, q.from.end, q.to.end)
    <3>1. /\ written(e.status, q.from.status, q.to.status) \in ReviewStatus
          /\ written(e.start, q.from.start, q.to.start) \in Nat
          /\ written(e.end, q.from.end, q.to.end) \in Nat
      BY <1>2, <2>2 DEF written, Row
    <3> HIDE DEF q, i, e
    <3> QED BY <2>2, <3>1 DEF reviewed, Row, NoRow
  <2> HIDE DEF n
  <2>4. n.start <= n.time /\ n.time <= n.end
    BY <1>2, <2>2, <2>3 DEF written, Pending
  <2>5. e = q.from => n.start = q.to.start /\ n.end = q.to.end
    BY <2>3 DEF written
  <2>6. /\ event' \in [Ids -> Row \cup {NoRow}] /\ event'[i] = n
        /\ \A j \in Ids \ {i} : event'[j] = event[j]
    BY <1>0, <1>2, <2>1, <2>3 DEF ReviewTypeOK
  <2>7. Existing' = Existing
    BY <2>2, <2>3, <2>6 DEF Existing
  <2>8. ReviewTypeOK'
    <3>1. steady' \in SUBSET Ids
      BY <1>0, <2>1 DEF StillSteady, ReviewTypeOK
    <3>2. trimmed' \in SUBSET Ids /\ stale' \in SUBSET Ids
      BY <1>0, <1>2, <2>1 DEF ReviewTypeOK
    <3> QED BY <1>0, <1>1, <1>3, <2>6, <3>1, <3>2 DEF ReviewTypeOK
  <2>9. WindowInv'
    <3>1. MomentInsideWindow'
      BY <1>0, <2>4, <2>6, <2>7 DEF WindowInv, MomentInsideWindow, Existing
    <3>2. ASSUME NEW j \in (Existing' \cap trimmed') \ stale'
          PROVE  event'[j].start < event'[j].end /\ event'[j].end - event'[j].start <= MaxReviewWindow
      <4>1. CASE j # i
        <5>1. j \in (Existing \cap trimmed) \ stale /\ event'[j] = event[j]
          BY <2>1, <2>6, <2>7, <3>2, <4>1 DEF Existing
        <5> QED BY <1>0, <5>1 DEF WindowInv, TrimmedWindowValid
      <4>2. CASE j = i
        <5>1. e = q.from /\ i \notin stale
          BY <2>1, <3>2, <4>2
        <5>2. n.start = q.to.start /\ n.end = q.to.end /\ event'[j] = n
          BY <2>5, <2>6, <4>2, <5>1
        <5>3. CASE q.trims
          BY <1>2, <5>2, <5>3 DEF Pending
        <5>4. CASE ~q.trims
          <6>1. i \in (Existing \cap trimmed) \ stale
            BY <2>1, <2>7, <3>2, <4>2, <5>1, <5>4
          <6>2. e.start < e.end /\ e.end - e.start <= MaxReviewWindow
            BY <1>0, <6>1 DEF WindowInv, TrimmedWindowValid
          <6>3. n.start = e.start /\ n.end = e.end
            BY <1>2, <5>1, <5>2, <5>4 DEF Pending
          <6> QED BY <5>2, <6>2, <6>3
        <5> QED BY <5>3, <5>4
      <4> QED BY <4>1, <4>2
    <3>3. TrimmedWindowValid'
      BY <3>2 DEF TrimmedWindowValid
    <3>4. ASSUME NEW p \in Reviews, review'[p] # NoReview PROVE Pending(review[p])'
      <4>1. review'[p] = review[p] /\ Pending(review[p]) /\ review[p].id \in Ids
        BY <1>0, <1>3, <3>4 DEF WindowInv, ReviewTypeOK
      <4>2. event'[review[p].id] # NoRow
              => event[review[p].id] # NoRow /\ event'[review[p].id].time = event[review[p].id].time
        BY <1>5, <2>3, <2>6, <4>1
      <4> QED BY <1>1, <4>1, <4>2 DEF Pending
    <3>5. trimmed' \subseteq used
      BY <1>0, <1>2, <2>1 DEF WindowInv, Pending
    <3> QED BY <1>0, <1>1, <2>7, <3>1, <3>3, <3>4, <3>5 DEF WindowInv
  <2>10. ReaderInv'
    <3>1. \A j \in steady : event'[j] = NoRow \/ event'[j].time = event[j].time
      BY <1>0, <2>3, <2>6 DEF ReviewTypeOK
    <3> QED BY <1>0, <1>1, <2>1, <3>1, ReaderKeeps
  <2> QED BY <2>8, <2>9, <2>10 DEF ReviewInv
<1> QED BY <1>4, <1>5

-----------------------------------------------------------------------------
(* The reader.                                                             *)

\* The order of the keys is transitive.
LEMMA BeforeTransitive ==
  ASSUME NEW k \in Nat \X Ids, NEW l \in Nat \X Ids, NEW m \in Nat \X Ids,
         Before(k, l), Before(l, m)
  PROVE  Before(k, m)
<1>1. /\ k[1] \in Int /\ k[2] \in Int /\ l[1] \in Int /\ l[2] \in Int
      /\ m[1] \in Int /\ m[2] \in Int
  BY DEF Ids
<1> QED BY <1>1 DEF Before

\* A page follows what was seen before it and leaves out nothing behind the
\* cursor that it does not leave for the next.
LEMMA Paging ==
  ASSUME ReviewInv, NEW f, list_video_events(f),
         reader.pc = "idle" \/ (reader.pc = "more" /\ f = reader.filter)
  PROVE  ReaderInv' /\ steady' \in SUBSET Ids /\ reader'.pc \in {"more", "done"}
<1>0. ReviewTypeOK /\ WindowInv /\ ReaderInv
  BY DEF ReviewInv
<1> DEFINE cur == IF reader.pc = "idle" THEN <<>> ELSE reader.cursor
           old == IF reader.pc = "idle" THEN <<>> ELSE reader.seen
           R == {i \in Ids : Shown(f, event[i]) /\ after_cursor(Key(i), cur)}
           s == ordered(R)
           N == Len(s)
           K == Least(Limit, N)
           page == [n \in 1..K |-> Key(s[n])]
<1>1. R \in SUBSET Existing
  BY DEF Shown, Existing
<1>2. /\ N \in Nat /\ s \in [1..N -> R] /\ in_order(s)
      /\ \A i \in R : \E n \in 1..N : s[n] = i
  <2> HIDE DEF R
  <2>1. /\ Cardinality(R) \in Nat /\ Len(ordered(R)) = Cardinality(R)
        /\ ordered(R) \in [1..Cardinality(R) -> R] /\ in_order(ordered(R))
        /\ \A i \in R : \E n \in 1..Cardinality(R) : ordered(R)[n] = i
    BY <1>0, <1>1, Ordering
  <2> QED BY <2>1
<1>3. Limit \in Nat \ {0}
  BY EventReviewAssumption
<1>4. /\ reader' = [pc |-> IF N > Limit THEN "more" ELSE "done", filter |-> f,
                    cursor |-> IF N > Limit THEN page[Limit] ELSE cur, seen |-> old \o page]
      /\ steady' = IF reader.pc = "idle" THEN {i \in Ids : Shown(f, event[i])} ELSE steady
      /\ UNCHANGED event
  BY Zenon DEF list_video_events
<1>5. \A i \in R : Shown(f, event[i]) /\ (cur = <<>> \/ Before(cur, Key(i)))
  BY DEF after_cursor
<1>6. \A i \in Ids : Shown(f, event[i]) /\ (cur = <<>> \/ Before(cur, Key(i))) => i \in R
  BY DEF after_cursor
<1>7. \A i \in Existing : Key(i) \in Nat \X Ids /\ Key(i)[2] = i
  BY <1>0 DEF ReviewTypeOK, Existing, Key, Row, NoRow
<1> HIDE DEF R, s, N
<1>8. /\ K \in Nat /\ K <= N /\ K <= Limit /\ (N > Limit => K = Limit) /\ (N <= Limit => K = N)
  BY <1>2, <1>3 DEF Least
<1> HIDE DEF K
<1>9. /\ page \in Seq(Nat \X Ids) /\ Len(page) = K
      /\ \A n \in 1..K : page[n] = Key(s[n]) /\ s[n] \in R
  <2>1. \A n \in 1..K : n \in 1..N
    BY <1>2, <1>8
  <2>2. \A n \in 1..K : s[n] \in R /\ Key(s[n]) \in Nat \X Ids
    BY <1>1, <1>2, <1>7, <2>1
  <2> QED BY <1>8, <2>2
<1> HIDE DEF page
<1>10. /\ old \in Seq(Nat \X Ids)
       /\ \A m \in 1..Len(old), i \in R : Before(old[m], Key(i))
       /\ \A m, n \in 1..Len(old) : m < n => Before(old[m], old[n])
  <2>1. CASE reader.pc = "idle"
    BY <2>1
  <2>2. CASE reader.pc = "more"
    <3>1. /\ old = reader.seen /\ cur = reader.cursor /\ old \in Seq(Nat \X Ids)
          /\ cur \in Nat \X Ids /\ PagesAdvance
          /\ \A m \in DOMAIN old : old[m] = cur \/ Before(old[m], cur)
      BY <1>0, <2>2 DEF ReaderInv
    <3>2. DOMAIN old = 1..Len(old) /\ \A m \in 1..Len(old) : old[m] \in Nat \X Ids
      BY <3>1
    <3>3. cur # <<>>
      BY <3>1
    <3>4. ASSUME NEW m \in 1..Len(old), NEW i \in R PROVE Before(old[m], Key(i))
      <4>1. Before(cur, Key(i)) /\ Key(i) \in Nat \X Ids /\ old[m] \in Nat \X Ids
        BY <1>1, <1>5, <1>7, <3>2, <3>3
      <4>2. old[m] = cur \/ Before(old[m], cur)
        BY <3>1, <3>2
      <4> HIDE DEF old, cur
      <4> QED BY <3>1, <4>1, <4>2, BeforeTransitive
    <3>5. \A m, n \in 1..Len(old) : m < n => Before(old[m], old[n])
      BY <2>2, <3>1, <3>2 DEF PagesAdvance
    <3> QED BY <3>1, <3>4, <3>5
  <2> QED BY <2>1, <2>2
<1> HIDE DEF old, cur
<1> DEFINE all == old \o page
<1>11. /\ all \in Seq(Nat \X Ids) /\ DOMAIN all = 1..(Len(old) + K) /\ Len(old) \in Nat
       /\ \A m \in 1..Len(old) : m \in DOMAIN all /\ all[m] = old[m]
       /\ \A n \in 1..K : Len(old) + n \in DOMAIN all /\ all[Len(old) + n] = Key(s[n])
       /\ \A m \in DOMAIN all : m > Len(old) => m - Len(old) \in 1..K
  <2>1. /\ all \in Seq(Nat \X Ids) /\ Len(all) = Len(old) + K /\ Len(old) \in Nat
        /\ \A m \in 1..(Len(old) + K) : all[m] = IF m <= Len(old) THEN old[m] ELSE page[m - Len(old)]
    BY <1>9, <1>10, ConcatProperties, LenProperties
  <2> HIDE DEF all
  <2>2. DOMAIN all = 1..(Len(old) + K)
    BY <2>1
  <2>3. ASSUME NEW n \in 1..K PROVE Len(old) + n \in 1..(Len(old) + K) /\ all[Len(old) + n] = Key(s[n])
    <3>1. /\ Len(old) + n \in 1..(Len(old) + K) /\ ~(Len(old) + n <= Len(old))
          /\ Len(old) + n - Len(old) = n
      BY <1>8, <2>1
    <3>2. all[Len(old) + n] = page[Len(old) + n - Len(old)]
      BY <2>1, <3>1
    <3>3. page[n] = Key(s[n])
      BY <1>9
    <3> QED BY <3>1, <3>2, <3>3
  <2>4. \A m \in 1..Len(old) : m \in 1..(Len(old) + K) /\ all[m] = old[m]
    BY <1>8, <2>1
  <2>5. \A m \in 1..(Len(old) + K) : m > Len(old) => m - Len(old) \in 1..K
    BY <1>8, <2>1
  <2> QED BY <2>1, <2>2, <2>3, <2>4, <2>5
<1>12. \A m, n \in 1..K : m < n => Before(Key(s[m]), Key(s[n]))
  BY <1>2, <1>8 DEF in_order
<1> HIDE DEF all
<1>13. ASSUME NEW m \in DOMAIN all, NEW n \in DOMAIN all, m < n PROVE Before(all[m], all[n])
  <2>1. m \in 1..(Len(old) + K) /\ n \in 1..(Len(old) + K) /\ Len(old) \in Nat /\ K \in Nat
    BY <1>8, <1>11, <1>13
  <2>2. CASE n <= Len(old)
    <3>1. m \in 1..Len(old) /\ n \in 1..Len(old)
      BY <1>13, <2>1, <2>2
    <3> QED BY <1>10, <1>11, <1>13, <3>1
  <2>3. CASE m <= Len(old) /\ n > Len(old)
    <3>1. m \in 1..Len(old) /\ n - Len(old) \in 1..K /\ n = Len(old) + (n - Len(old))
      BY <1>11, <2>1, <2>3
    <3>2. all[m] = old[m] /\ all[n] = Key(s[n - Len(old)]) /\ s[n - Len(old)] \in R
      BY <1>9, <1>11, <3>1
    <3> QED BY <1>10, <3>1, <3>2
  <2>4. CASE m > Len(old)
    <3>1. /\ m - Len(old) \in 1..K /\ n - Len(old) \in 1..K /\ m - Len(old) < n - Len(old)
          /\ m = Len(old) + (m - Len(old)) /\ n = Len(old) + (n - Len(old))
      BY <1>13, <2>1, <2>4
    <3>2. all[m] = Key(s[m - Len(old)]) /\ all[n] = Key(s[n - Len(old)])
      BY <1>11, <3>1
    <3> QED BY <1>12, <3>1, <3>2
  <2> QED BY <1>13, <2>1, <2>2, <2>3, <2>4
<1>14. /\ reader'.pc = (IF N > Limit THEN "more" ELSE "done") /\ reader'.filter = f
       /\ reader'.seen = all /\ (N > Limit => reader'.cursor = page[Limit])
  BY <1>4 DEF all
<1>15. ASSUME N > Limit
       PROVE  /\ page[Limit] \in Nat \X Ids
              /\ \A m \in DOMAIN all : all[m] = page[Limit] \/ Before(all[m], page[Limit])
  <2>1. Limit \in 1..K /\ page[Limit] = Key(s[Limit]) /\ s[Limit] \in R
    BY <1>3, <1>8, <1>9, <1>15
  <2>2. ASSUME NEW m \in DOMAIN all PROVE all[m] = page[Limit] \/ Before(all[m], page[Limit])
    <3>1. m \in 1..(Len(old) + K) /\ Len(old) \in Nat /\ K \in Nat
      BY <1>8, <1>11
    <3>2. CASE m <= Len(old)
      <4>1. m \in 1..Len(old)
        BY <3>1, <3>2
      <4> QED BY <1>10, <1>11, <2>1, <4>1
    <3>3. CASE m > Len(old)
      <4>0. m - Len(old) \in 1..K /\ m = Len(old) + (m - Len(old))
        BY <3>1, <3>3
      <4>1. m - Len(old) \in 1..K /\ all[m] = Key(s[m - Len(old)])
        BY <1>11, <4>0
      <4>2. K = Limit /\ (m - Len(old) = Limit \/ m - Len(old) < Limit)
        BY <1>3, <1>8, <1>15, <3>1, <4>1
      <4> QED BY <1>12, <2>1, <4>1, <4>2
    <3> QED BY <3>1, <3>2, <3>3
  <2>3. page[Limit] \in Nat \X Ids
    BY <1>1, <1>7, <2>1
  <2> QED BY <2>2, <2>3
<1>16. ASSUME NEW i \in steady'
       PROVE  /\ Shown(f, event[i])
              /\ \/ \E n \in DOMAIN all : all[n][2] = i
                 \/ N > Limit /\ Before(page[Limit], Key(i))
  <2>1. i \in Ids /\ Shown(f, event[i])
    BY <1>0, <1>4 DEF ReviewTypeOK, ReaderInv
  <2>2. CASE \E m \in DOMAIN old : old[m][2] = i
    <3>1. DOMAIN old = 1..Len(old)
      BY <1>10
    <3> QED BY <1>11, <2>1, <2>2, <3>1
  <2>3. CASE i \in R
    <3>1. PICK n \in 1..N : s[n] = i
      BY <1>2, <2>3
    <3>2. CASE n <= K
      <4>1. n \in 1..K
        BY <1>2, <1>8, <3>1, <3>2
      <4>2. all[Len(old) + n] = Key(i) /\ Len(old) + n \in DOMAIN all
        BY <1>11, <3>1, <4>1
      <4>3. Key(i)[2] = i
        BY <1>1, <1>7, <2>3
      <4> QED BY <2>1, <4>2, <4>3
    <3>3. CASE n > K
      <4>1. N > Limit /\ Limit \in 1..N /\ Limit < n /\ Limit \in 1..K
        BY <1>2, <1>3, <1>8, <3>1, <3>3
      <4>2. Before(Key(s[Limit]), Key(s[n]))
        BY <1>2, <4>1 DEF in_order
      <4>3. page[Limit] = Key(s[Limit])
        BY <1>9, <4>1
      <4> QED BY <2>1, <3>1, <4>1, <4>2, <4>3
    <3> QED BY <1>8, <3>1, <3>2, <3>3
  <2>4. i \in R \/ \E m \in DOMAIN old : old[m][2] = i
    BY <1>0, <1>4, <1>6, <2>1 DEF ReaderInv, old, cur
  <2> QED BY <2>2, <2>3, <2>4
<1>17. steady' \in SUBSET Ids
  BY <1>0, <1>4 DEF ReviewTypeOK
<1>18. PagesAdvance'
  BY <1>13, <1>14 DEF PagesAdvance
<1>19. \A i \in steady' : Key(i)' = Key(i) /\ event'[i] = event[i]
  BY <1>4 DEF Key
<1> QED BY <1>11, <1>14, <1>15, <1>16, <1>17, <1>18, <1>19 DEF ReaderInv

LEMMA PageRead ==
  ASSUME ReviewInv, (\E f \in Filters : first_page(f)) \/ next_page
  PROVE  ReviewInv'
<1>0. ReviewTypeOK /\ WindowInv
  BY DEF ReviewInv
<1>1. PICK f : /\ list_video_events(f)
               /\ reader.pc = "idle" \/ (reader.pc = "more" /\ f = reader.filter)
  BY DEF first_page, next_page
<1>2. ReaderInv' /\ steady' \in SUBSET Ids /\ reader'.pc \in {"more", "done"}
  BY <1>1, Paging
<1>3. UNCHANGED <<event, used, review, trimmed, stale>>
  BY <1>1 DEF list_video_events
<1>4. left' \in [tags : Nat, imports : Nat, reviews : Nat, readers : Nat]
  BY <1>0 DEF first_page, next_page, Spend, ReviewTypeOK
<1>5. ReviewTypeOK'
  BY <1>0, <1>2, <1>3, <1>4 DEF ReviewTypeOK
<1>6. WindowInv'
  BY <1>0, <1>3 DEF WindowInv, Pending, MomentInsideWindow, TrimmedWindowValid, Existing
<1> QED BY <1>2, <1>5, <1>6 DEF ReviewInv

-----------------------------------------------------------------------------
(* The theorems.                                                           *)

\* The inductive invariant of the review holds in every reachable state of
\* every instance.
THEOREM ReviewSafe == ReviewSpec => []ReviewInv
<1>1. ReviewInit => ReviewInv
  <2> SUFFICES ASSUME ReviewInit PROVE ReviewInv
    OBVIOUS
  <2>1. Existing = {}
    BY DEF ReviewInit, Existing
  <2>2. ReviewTypeOK
    BY EventReviewAssumption DEF ReviewInit, ReviewTypeOK, Idle
  <2>3. WindowInv
    BY <2>1 DEF ReviewInit, WindowInv, MomentInsideWindow, TrimmedWindowValid
  <2>4. ReaderInv
    BY DEF ReviewInit, ReaderInv, Idle
  <2> QED BY <2>2, <2>3, <2>4 DEF ReviewInv
<1>2. ReviewInv /\ [ReviewNext]_reviewVars => ReviewInv'
  <2> SUFFICES ASSUME ReviewInv, [ReviewNext]_reviewVars PROVE ReviewInv'
    OBVIOUS
  <2>1. CASE \E i \in Ids, t \in Times :
               \E w \in UNION {resolved_windows(t, s) : s \in Windows \cup {default_window(t)}} :
                 create_manual_video_event(i, t, w)
    BY <2>1, TagCreated
  <2>2. CASE \E new \in Reports : replace_alpha_candidate_events(new)
    BY <2>2, Importing
  <2>3. CASE \E r \in Reviews, i \in Existing, st \in ReviewStatus :
               \E ws \in {{}} \cup ({resolved_windows(event[i].time, s) : s \in Windows} \ {{}}) :
                 review_load(r, i, st, ws)
    <3>1. PICK r \in Reviews, i \in Existing, st \in ReviewStatus :
            \E ws \in {{}} \cup ({resolved_windows(event[i].time, s) : s \in Windows} \ {{}}) :
              review_load(r, i, st, ws)
      BY <2>3
    <3>2. PICK ws \in {{}} \cup ({resolved_windows(event[i].time, s) : s \in Windows} \ {{}}) :
            review_load(r, i, st, ws)
      BY <3>1
    <3>3. ws = {} \/ \E s \in Windows : ws = resolved_windows(event[i].time, s)
      OBVIOUS
    <3> QED BY <3>2, <3>3, Loading
  <2>4. CASE \E r \in Reviews : review_commit(r)
    BY <2>4, Committing
  <2>5. CASE (\E f \in Filters : first_page(f)) \/ next_page
    BY <2>5, PageRead
  <2>6. CASE UNCHANGED reviewVars
    BY <2>6 DEF reviewVars, ReviewInv, ReviewTypeOK, WindowInv, Pending, MomentInsideWindow,
                TrimmedWindowValid, Existing, ReaderInv, PagesAdvance, Key
  <2> QED BY <2>1, <2>2, <2>3, <2>4, <2>5, <2>6 DEF ReviewNext
<1> QED BY <1>1, <1>2, PTL DEF ReviewSpec

\* A client that follows next_cursor sees no event twice, and at the end it has
\* seen every event that was in its listing all the while (list_video_events).
THEOREM ListingSafe == ReviewSpec => []ListingComplete
<1>1. ReviewInv => ListingComplete
  BY DEF ReviewInv, ReaderInv, ListingComplete, PagesAdvance, NothingMissed
<1> QED BY <1>1, ReviewSafe, PTL

\* A window holds its moment, one that a coach chose is valid unless a review
\* was committed over a row it had not loaded, and what is exported lies in the
\* video (_resolve_clip_window, update_video_event_review, _window_from_event).
THEOREM WindowsSafe == ReviewSpec => []WindowsSound
<1>1. ReviewInv => WindowsSound
  <2> SUFFICES ASSUME ReviewInv PROVE WindowsSound
    OBVIOUS
  <2>1. ReviewTypeOK /\ MomentInsideWindow /\ TrimmedWindowValid
    BY DEF ReviewInv, WindowInv
  <2>2. ASSUME NEW i \in Existing PROVE event[i] \in Row /\ event[i].start <= event[i].end
    <3>1. /\ event[i] \in Row /\ event[i].start <= event[i].time
          /\ event[i].time <= event[i].end
      BY <2>1 DEF ReviewTypeOK, Existing, MomentInsideWindow
    <3> QED BY <3>1 DEF Row
  <2>3. ExportInsideVideo
    <3> SUFFICES ASSUME NEW st \in ReviewStatus, NEW x \in export_rows(st)
                 PROVE  0 <= x[2][1] /\ x[2][1] <= x[2][2] /\ x[2][2] <= Duration
      BY DEF ExportInsideVideo
    <3>1. PICK i \in Existing : x = <<i, window_from_event(event[i])>>
      BY DEF export_rows
    <3>2. x[2] = window_from_event(event[i])
      BY <3>1
    <3> QED BY <2>2, <3>2, Exporting
  <2> QED BY <2>1, <2>3 DEF WindowsSound
<1> QED BY <1>1, ReviewSafe, PTL

\* The clip queue is full or shows every candidate that waits; what a full one
\* leaves out does not rank before what it shows unless more wait than are read;
\* and every clip lies in the video (list_video_clip_proposals).
THEOREM QueueSafe == ReviewSpec => []QueueIsComplete
<1>1. ReviewInv => QueueIsComplete
  <2> SUFFICES ASSUME ReviewInv, NEW F \in fetched, NEW Q \in build_clip_proposals(F)
               PROVE  /\ Q = Waiting \/ (Q \subseteq Waiting /\ Cardinality(Q) = QueueLimit)
                      /\ Cardinality(Waiting) <= QueueFactor * QueueLimit =>
                           \A i \in Q, j \in Waiting \ Q : Ahead(i, j)
                      /\ \A i \in Q : 0 <= proposal(event[i])[1] /\ proposal(event[i])[2] <= Duration
    BY DEF QueueIsComplete, proposals
  <2> DEFINE K == QueueFactor * QueueLimit
  <2>1. K \in Nat /\ QueueLimit \in Nat /\ K >= QueueLimit
    BY EventReviewAssumption
  <2> HIDE DEF K
  <2>2. /\ F \subseteq Waiting /\ Cardinality(F) = Least(K, Cardinality(Waiting))
        /\ Q \subseteq clips(F) /\ Cardinality(Q) = Least(QueueLimit, Cardinality(clips(F)))
        /\ \A i \in Q, j \in clips(F) \ Q : Ahead(i, j)
    BY DEF fetched, first_rows, build_clip_proposals, K
  <2>3. \A i \in Waiting : event[i] \in Row
    BY DEF ReviewInv, ReviewTypeOK, Existing, Waiting
  <2>4. \A i \in Waiting : /\ 0 <= proposal(event[i])[1] /\ proposal(event[i])[2] <= Duration
                           /\ proposal(event[i])[1] < proposal(event[i])[2]
    BY <2>3, Proposing
  <2>5. clips(F) = F
    BY <2>2, <2>4 DEF clips
  <2>6. IsFiniteSet(Waiting)
    <3>1. IsFiniteSet(Ids)
      <4>1. MaxEvents \in Int /\ 1 \in Int
        BY EventReviewAssumption
      <4> QED BY <4>1, FS_Interval DEF Ids
    <3>2. Waiting \subseteq Ids
      BY DEF Waiting, Existing
    <3> QED BY <3>1, <3>2, FS_Subset
  <2>7. /\ IsFiniteSet(F) /\ Cardinality(Waiting) \in Nat /\ Cardinality(F) \in Nat
        /\ Cardinality(F) = Cardinality(Waiting) => F = Waiting
        /\ Cardinality(Q) = Cardinality(F) => Q = F
    BY <2>2, <2>5, <2>6, FS_Subset, FS_CardinalityType
  <2>8. ASSUME Cardinality(Waiting) <= K PROVE F = Waiting
    BY <2>1, <2>2, <2>7, <2>8 DEF Least
  <2>9. Cardinality(Q) = QueueLimit \/ Q = Waiting
    <3>1. CASE QueueLimit < Cardinality(F)
      BY <2>2, <2>5, <3>1 DEF Least
    <3>2. CASE ~(QueueLimit < Cardinality(F))
      <4>1. Q = F
        BY <2>2, <2>5, <2>7, <3>2 DEF Least
      <4>2. CASE Cardinality(Waiting) <= K
        BY <2>8, <4>1, <4>2
      <4>3. CASE ~(Cardinality(Waiting) <= K)
        <5>1. Cardinality(F) = K
          BY <2>1, <2>2, <2>7, <4>3 DEF Least
        <5> QED BY <2>1, <2>7, <3>2, <4>1, <5>1
      <4> QED BY <4>2, <4>3
    <3> QED BY <3>1, <3>2
  <2>10. Cardinality(Waiting) <= QueueFactor * QueueLimit =>
           \A i \in Q, j \in Waiting \ Q : Ahead(i, j)
    BY <2>2, <2>5, <2>8 DEF K
  <2> QED BY <2>2, <2>4, <2>5, <2>9, <2>10
<1> QED BY <1>1, ReviewSafe, PTL
=============================================================================
