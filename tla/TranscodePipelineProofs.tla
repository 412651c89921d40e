----------------------- MODULE TranscodePipelineProofs -----------------------
(***************************************************************************)
(* Proofs about TranscodePipeline for any set of workers, dispatchers and  *)
(* task ids, any number of retries, with and without message loss.         *)
(***************************************************************************)
EXTENDS TranscodePipeline, TLAPS

\* Every step keeps the types of the rows, the queue and the processes.
LEMMA TypeStep == TypeOK /\ [Next]_vars => TypeOK'
<1> SUFFICES ASSUME TypeOK, [Next]_vars PROVE TypeOK'
  OBVIOUS
<1> USE ConstantsAssumption
<1> USE DEF TypeOK, VideoStatus, JobStatus, Messages, WorkerPc, InTry, OutsideTry,
            rows, worker, dispatch
<1>1. CASE complete_upload
  BY <1>1 DEF complete_upload
<1>2. CASE cancel_processing
  BY <1>2 DEF cancel_processing, Active
<1>3. CASE requeue_processing
  BY <1>3 DEF requeue_processing
<1>4. CASE delete_failed_video
  BY <1>4 DEF delete_failed_video
<1>5. CASE delete_failed_video_cleanup_fails
  BY <1>5 DEF delete_failed_video_cleanup_fails
<1>6. CASE heartbeat_ages
  BY <1>6 DEF heartbeat_ages
<1>7. CASE recover_select
  BY <1>7 DEF recover_select
<1>8. CASE recover_fail_job
  BY <1>8 DEF recover_fail_job, set_video_status, fail_job_matches, Active
<1>9. CASE recover_fail_video
  BY <1>9 DEF recover_fail_video, set_video_status, Active
<1>10. CASE recover_crash
  BY <1>10 DEF recover_crash
<1>11. ASSUME NEW d \in Dispatchers, dispatch_select(d) PROVE TypeOK'
  BY <1>11 DEF dispatch_select
<1>12. ASSUME NEW d \in Dispatchers, dispatch_enqueue(d) PROVE TypeOK'
  BY <1>12 DEF dispatch_enqueue, FreshTasks
<1>13. ASSUME NEW d \in Dispatchers, dispatch_record(d) PROVE TypeOK'
  BY <1>13 DEF dispatch_record
<1>14. ASSUME NEW d \in Dispatchers, dispatch_abort(d) PROVE TypeOK'
  BY <1>14 DEF dispatch_abort
<1>15. ASSUME NEW w \in Workers, NEW m \in queue, claim_job(w, m) PROVE TypeOK'
  BY <1>15 DEF claim_job, Take, Goto
<1>16. ASSUME NEW w \in Workers, NEW m \in queue, claim_skipped(w, m) PROVE TypeOK'
  BY <1>16 DEF claim_skipped, Take
<1>17. ASSUME NEW w \in Workers, NEW m \in queue, claim_raises(w, m) PROVE TypeOK'
  BY <1>17 DEF claim_raises, Take, Goto
<1>18. ASSUME NEW w \in Workers, start(w) PROVE TypeOK'
  BY <1>18 DEF start, set_video_status, Continue, Active, Goto
<1>19. ASSUME NEW w \in Workers, verify(w) PROVE TypeOK'
  BY <1>19 DEF verify, touch_heartbeat, Continue, Goto
<1>20. ASSUME NEW w \in Workers, create_browser_mezzanine(w) PROVE TypeOK'
  BY <1>20 DEF create_browser_mezzanine, Continue, Goto
<1>21. ASSUME NEW w \in Workers, materialize_outputs(w) PROVE TypeOK'
  BY <1>21 DEF materialize_outputs, StillActive, Continue, Goto
<1>22. ASSUME NEW w \in Workers, discard(w) PROVE TypeOK'
  <2>1. mezzObject' \in BOOLEAN
    BY <1>22, Zenon DEF discard
  <2> QED
    BY <1>22, <2>1 DEF discard, Finish, Goto
<1>23. ASSUME NEW w \in Workers, audit(w) PROVE TypeOK'
  BY <1>23 DEF audit, touch_heartbeat, Continue, Goto
<1>24. ASSUME NEW w \in Workers, complete_job(w) PROVE TypeOK'
  BY <1>24 DEF complete_job, set_video_status, StillActive, Finish, Goto
<1>25. ASSUME NEW w \in Workers, handle_task_failure(w) PROVE TypeOK'
  BY <1>25 DEF handle_task_failure, StillActive, Finish, Continue, Goto
<1>26. ASSUME NEW w \in Workers, release_job_for_retry(w) PROVE TypeOK'
  <2>1. CASE release_job_matches
    BY <1>26, <2>1 DEF release_job_for_retry, set_video_status, Continue, Active, Goto
  <2>2. CASE ~release_job_matches
    BY <1>26, <2>2 DEF release_job_for_retry, Continue, Goto
  <2> QED
    BY <2>1, <2>2
<1>27. ASSUME NEW w \in Workers, release_video(w) PROVE TypeOK'
  BY <1>27 DEF release_video, set_video_status, Continue, Active, Goto
<1>28. ASSUME NEW w \in Workers, retry(w) PROVE TypeOK'
  BY <1>28 DEF retry, Finish, Goto
<1>29. ASSUME NEW w \in Workers, retries_exhausted(w) PROVE TypeOK'
  BY <1>29 DEF retries_exhausted, Continue, Goto
<1>30. ASSUME NEW w \in Workers, fail_job(w) PROVE TypeOK'
  BY <1>30 DEF fail_job, set_video_status, fail_job_matches, Finish, Continue, Active, Goto
<1>31. ASSUME NEW w \in Workers, fail_video(w) PROVE TypeOK'
  BY <1>31 DEF fail_video, set_video_status, Finish, Active, Goto
<1>32. ASSUME NEW w \in Workers, terminal_failure(w) PROVE TypeOK'
  BY <1>32 DEF terminal_failure, set_video_status, fail_job_matches, Finish, Goto
<1>33. ASSUME NEW w \in Workers, heartbeat(w) PROVE TypeOK'
  BY <1>33 DEF heartbeat, touch_heartbeat, StillActive
<1>34. ASSUME NEW w \in Workers, fails_transiently(w) PROVE TypeOK'
  BY <1>34 DEF fails_transiently, Continue, Goto
<1>35. ASSUME NEW w \in Workers, fails_permanently(w) PROVE TypeOK'
  BY <1>35 DEF fails_permanently, Continue, Goto
<1>36. ASSUME NEW w \in Workers, raises(w) PROVE TypeOK'
  BY <1>36 DEF raises, Continue, Goto
<1>37. ASSUME NEW w \in Workers, redeliver(w) PROVE TypeOK'
  BY <1>37 DEF redeliver
<1>38. ASSUME NEW w \in Workers, crash(w) PROVE TypeOK'
  BY <1>38 DEF crash, Finish, Goto
<1>39. ASSUME NEW m \in queue, lose(m) PROVE TypeOK'
  BY <1>39 DEF lose
<1>40. CASE UNCHANGED vars
  BY <1>40 DEF vars
<1> QED
  BY <1>1, <1>2, <1>3, <1>4, <1>5, <1>6, <1>7, <1>8, <1>9, <1>10, <1>11, <1>12, <1>13,
     <1>14, <1>15, <1>16, <1>17, <1>18, <1>19, <1>20, <1>21, <1>22, <1>23, <1>24, <1>25,
     <1>26, <1>27, <1>28, <1>29, <1>30, <1>31, <1>32, <1>33, <1>34, <1>35, <1>36, <1>37,
     <1>38, <1>39, <1>40
     DEF Next, Api, Dispatch, Receive, Work, Fault, Sweep

\* Every step keeps the two rows in agreement: the row lock of a matched job
\* update carries the video update with it, and no step un-publishes a key.
LEMMA RowsStep == TypeOK /\ RowsAgree /\ [Next]_vars => RowsAgree'
<1> SUFFICES ASSUME TypeOK, RowsAgree, [Next]_vars PROVE RowsAgree'
  OBVIOUS
<1> USE DEF TypeOK, RowsAgree, ProcessedIsFinished, FailedJobIsRequeueable, VideoStatus,
   JobStatus, worker
<1>1. CASE complete_upload
  BY <1>1 DEF complete_upload
<1>2. CASE cancel_processing
  BY <1>2 DEF cancel_processing, Active
<1>3. CASE requeue_processing
  BY <1>3 DEF requeue_processing
<1>4. CASE delete_failed_video
  BY <1>4 DEF delete_failed_video
<1>5. CASE recover_fail_job
  BY <1>5 DEF recover_fail_job, set_video_status, fail_job_matches, Active
<1>6. CASE recover_fail_video
  BY <1>6 DEF recover_fail_video, set_video_status, Active
<1>7. CASE delete_failed_video_cleanup_fails \/ heartbeat_ages \/ recover_select \/ recover_crash
  BY <1>7 DEF delete_failed_video_cleanup_fails, heartbeat_ages, recover_select,
     recover_crash, rows, worker
<1>8. ASSUME NEW d \in Dispatchers, Dispatch(d) PROVE RowsAgree'
  BY <1>8 DEF Dispatch, dispatch_select, dispatch_enqueue, dispatch_record,
     dispatch_abort, rows, worker
<1>9. ASSUME NEW w \in Workers, NEW m \in queue, claim_job(w, m) PROVE RowsAgree'
  BY <1>9 DEF claim_job, Take, Goto
<1>10. ASSUME NEW w \in Workers, NEW m \in queue, claim_skipped(w, m) \/ claim_raises(w, m)
       PROVE  RowsAgree'
  BY <1>10 DEF claim_skipped, claim_raises, Goto, rows, worker
<1>11. ASSUME NEW w \in Workers, start(w) PROVE RowsAgree'
  BY <1>11 DEF start, set_video_status, Continue, Active, Goto
<1>12. ASSUME NEW w \in Workers, materialize_outputs(w) PROVE RowsAgree'
  BY <1>12 DEF materialize_outputs, StillActive, Continue, Goto
<1>13. ASSUME NEW w \in Workers, complete_job(w) PROVE RowsAgree'
  BY <1>13 DEF complete_job, set_video_status, StillActive, Finish, Goto
<1>14. ASSUME NEW w \in Workers, release_job_for_retry(w) PROVE RowsAgree'
  BY <1>14 DEF release_job_for_retry, set_video_status, release_job_matches, Continue,
     Active, Goto
<1>15. ASSUME NEW w \in Workers, release_video(w) PROVE RowsAgree'
  BY <1>15 DEF release_video, set_video_status, Continue, Active, Goto
<1>16. ASSUME NEW w \in Workers, fail_job(w) PROVE RowsAgree'
  BY <1>16 DEF fail_job, set_video_status, fail_job_matches, Finish, Continue, Active,
     Goto
<1>17. ASSUME NEW w \in Workers, fail_video(w) PROVE RowsAgree'
  BY <1>17 DEF fail_video, set_video_status, Finish, Active, Goto
<1>18. ASSUME NEW w \in Workers, terminal_failure(w) PROVE RowsAgree'
  BY <1>18 DEF terminal_failure, set_video_status, fail_job_matches, Finish, Goto
<1>19. ASSUME NEW w \in Workers,
              verify(w) \/ create_browser_mezzanine(w) \/ discard(w) \/
              audit(w) \/ handle_task_failure(w) \/ retry(w) \/
              retries_exhausted(w) \/ heartbeat(w) \/ fails_transiently(w)
              \/ fails_permanently(w) \/ raises(w) \/ redeliver(w) \/
              crash(w)
       PROVE  RowsAgree'
  BY <1>19 DEF verify, touch_heartbeat, Continue, Goto, create_browser_mezzanine, discard,
     Finish, audit, handle_task_failure, StillActive, retry, retries_exhausted, heartbeat,
     fails_transiently, fails_permanently, raises, redeliver, crash, rows, worker
<1>20. ASSUME NEW m \in queue, lose(m) PROVE RowsAgree'
  BY <1>20 DEF lose, rows, worker
<1>21. CASE UNCHANGED vars
  BY <1>21 DEF vars, rows, worker
<1> QED
  BY <1>1, <1>2, <1>3, <1>4, <1>5, <1>6, <1>7, <1>8, <1>9, <1>10, <1>11, <1>12, <1>13,
     <1>14, <1>15, <1>16, <1>17, <1>18, <1>19, <1>20, <1>21
     DEF Next, Api, Dispatch, Receive, Work, Fault, Sweep

\* The initial states: nothing uploaded, every process idle.
LEMMA RowsInit == Init => TypeOK /\ RowsAgree
<1> SUFFICES ASSUME Init PROVE TypeOK /\ RowsAgree
  OBVIOUS
<1>1. 0 \in 0..MaxRetries
  BY ConstantsAssumption
<1>2. TypeOK
  BY <1>1 DEF Init, TypeOK, VideoStatus, JobStatus, WorkerPc
<1>3. RowsAgree
  BY DEF Init, RowsAgree, ProcessedIsFinished, FailedJobIsRequeueable
<1> QED
  BY <1>2, <1>3

\* Type correctness, for every instance.
THEOREM TypeCorrect == Spec => []TypeOK
<1>1. Init => TypeOK
  BY RowsInit
<1> QED
  BY <1>1, TypeStep, PTL DEF Spec

\* The rows of a video and its job agree in every reachable state, whatever
\* duplicate deliveries, retries, crashes, late runs and coach actions occurred.
THEOREM RowsAlwaysAgree == Spec => [](TypeOK /\ RowsAgree)
<1>1. TypeOK /\ RowsAgree /\ [Next]_vars => (TypeOK /\ RowsAgree)'
  BY TypeStep, RowsStep
<1> QED
  BY <1>1, RowsInit, PTL DEF Spec

\* A FAILED job has a FAILED video: requeue_processing never refuses it.
THEOREM FailedJobSafe == Spec => []FailedJobIsRequeueable
<1>1. RowsAgree => FailedJobIsRequeueable
  BY DEF RowsAgree
<1> QED
  BY <1>1, RowsAlwaysAgree, PTL

\* What a step may do to the visible state: a step of VideoLifecycle or none,
\* and a COMPLETED job stays.
VisibleStep ==
  /\ [Lifecycle!Next]_(Lifecycle!view)
  /\ jobStatus = "COMPLETED" => jobStatus' \in {"COMPLETED", "absent"}

\* Every step of the pipeline is such a step.
LEMMA LifecycleStep == TypeOK /\ RowsAgree /\ [Next]_vars => VisibleStep
<1> SUFFICES ASSUME TypeOK, RowsAgree, [Next]_vars PROVE VisibleStep
  OBVIOUS
<1> USE DEF Lifecycle!view, VisibleStep, TypeOK, RowsAgree, ProcessedIsFinished,
   FailedJobIsRequeueable, VideoStatus, JobStatus, worker
<1>1. CASE complete_upload
  BY <1>1 DEF complete_upload, Lifecycle!Next, Lifecycle!Move, Lifecycle!Queue
<1>2. CASE cancel_processing
  BY <1>2 DEF cancel_processing, Active, Lifecycle!Next, Lifecycle!Move, Lifecycle!Fail
<1>3. CASE requeue_processing
  BY <1>3 DEF requeue_processing, Lifecycle!Next, Lifecycle!Move, Lifecycle!Requeue
<1>4. CASE delete_failed_video
  BY <1>4 DEF delete_failed_video, Lifecycle!Next, Lifecycle!Delete
<1>5. CASE recover_fail_job
  BY <1>5 DEF recover_fail_job, set_video_status, fail_job_matches, Active,
     Lifecycle!Next, Lifecycle!Move, Lifecycle!Fail
<1>6. CASE recover_fail_video
  BY <1>6 DEF recover_fail_video, set_video_status, Active, Lifecycle!Next,
     Lifecycle!Move, Lifecycle!Fail
<1>7. CASE delete_failed_video_cleanup_fails \/ heartbeat_ages \/ recover_select \/ recover_crash
  BY <1>7 DEF delete_failed_video_cleanup_fails, heartbeat_ages, recover_select,
     recover_crash, rows, worker
<1>8. ASSUME NEW d \in Dispatchers, Dispatch(d) PROVE VisibleStep
  BY <1>8 DEF Dispatch, dispatch_select, dispatch_enqueue, dispatch_record,
     dispatch_abort, rows, worker
<1>9. ASSUME NEW w \in Workers, NEW m \in queue, claim_job(w, m) PROVE VisibleStep
  BY <1>9 DEF claim_job, Take, Goto
<1>10. ASSUME NEW w \in Workers, NEW m \in queue, claim_skipped(w, m) \/ claim_raises(w, m)
       PROVE  VisibleStep
  BY <1>10 DEF claim_skipped, claim_raises, Goto, rows, worker
<1>11. ASSUME NEW w \in Workers, start(w) PROVE VisibleStep
  BY <1>11 DEF start, set_video_status, Continue, Active, Goto, Lifecycle!Next,
     Lifecycle!Move, Lifecycle!Begin
<1>12. ASSUME NEW w \in Workers, materialize_outputs(w) PROVE VisibleStep
  BY <1>12 DEF materialize_outputs, StillActive, Continue, Goto, Lifecycle!Next,
     Lifecycle!Publish
<1>13. ASSUME NEW w \in Workers, complete_job(w) PROVE VisibleStep
  BY <1>13 DEF complete_job, set_video_status, StillActive, Finish, Goto, Lifecycle!Next,
     Lifecycle!Move, Lifecycle!Finish
<1>14. ASSUME NEW w \in Workers, release_job_for_retry(w) PROVE VisibleStep
  BY <1>14 DEF release_job_for_retry, set_video_status, release_job_matches, Continue,
     Active, Goto, Lifecycle!Next, Lifecycle!Move, Lifecycle!Retry
<1>15. ASSUME NEW w \in Workers, release_video(w) PROVE VisibleStep
  BY <1>15 DEF release_video, set_video_status, Continue, Active, Goto, Lifecycle!Next,
     Lifecycle!Move, Lifecycle!Retry
<1>16. ASSUME NEW w \in Workers, fail_job(w) PROVE VisibleStep
  BY <1>16 DEF fail_job, set_video_status, fail_job_matches, Finish, Continue, Active,
     Goto, Lifecycle!Next, Lifecycle!Move, Lifecycle!Fail
<1>17. ASSUME NEW w \in Workers, fail_video(w) PROVE VisibleStep
  BY <1>17 DEF fail_video, set_video_status, Finish, Active, Goto, Lifecycle!Next,
     Lifecycle!Move, Lifecycle!Fail
<1>18. ASSUME NEW w \in Workers, terminal_failure(w) PROVE VisibleStep
  BY <1>18 DEF terminal_failure, set_video_status, fail_job_matches, Finish, Goto,
     Lifecycle!Next, Lifecycle!Move, Lifecycle!Fail
<1>19. ASSUME NEW w \in Workers,
              verify(w) \/ create_browser_mezzanine(w) \/ discard(w) \/
              audit(w) \/ handle_task_failure(w) \/ retry(w) \/
              retries_exhausted(w) \/ heartbeat(w) \/ fails_transiently(w)
              \/ fails_permanently(w) \/ raises(w) \/ redeliver(w) \/
              crash(w)
       PROVE  VisibleStep
  BY <1>19 DEF verify, touch_heartbeat, Continue, Goto, create_browser_mezzanine, discard,
     Finish, audit, handle_task_failure, StillActive, retry, retries_exhausted, heartbeat,
     fails_transiently, fails_permanently, raises, redeliver, crash, rows, worker
<1>20. ASSUME NEW m \in queue, lose(m) PROVE VisibleStep
  BY <1>20 DEF lose, rows, worker
<1>21. CASE UNCHANGED vars
  BY <1>21 DEF vars, rows, worker
<1> QED
  BY <1>1, <1>2, <1>3, <1>4, <1>5, <1>6, <1>7, <1>8, <1>9, <1>10, <1>11, <1>12, <1>13,
     <1>14, <1>15, <1>16, <1>17, <1>18, <1>19, <1>20, <1>21
     DEF Next, Api, Dispatch, Receive, Work, Fault, Sweep


\* A COMPLETED job and a PROCESSED video are final.
THEOREM TerminalSafe == Spec => TerminalIsFinal
<1>1. /\ TypeOK /\ RowsAgree /\ [Next]_vars
      => [ /\ jobStatus = "COMPLETED" => jobStatus' \in {"COMPLETED", "absent"}
           /\ videoStatus = "PROCESSED" => videoStatus' = "PROCESSED" ]_vars
  <2> SUFFICES ASSUME TypeOK, RowsAgree, [Next]_vars
               PROVE  /\ jobStatus = "COMPLETED" => jobStatus' \in {"COMPLETED", "absent"}
                      /\ videoStatus = "PROCESSED" => videoStatus' = "PROCESSED"
    OBVIOUS
  <2> QED
    BY LifecycleStep
       DEF VisibleStep, Lifecycle!Next, Lifecycle!view, Lifecycle!Move, Lifecycle!Queue,
           Lifecycle!Abandon, Lifecycle!Begin, Lifecycle!Retry, Lifecycle!Fail,
           Lifecycle!Publish, Lifecycle!Finish, Lifecycle!Requeue, Lifecycle!Delete
<1> QED
  BY <1>1, RowsAlwaysAgree, PTL DEF Spec, TerminalIsFinal

\* The pipeline implements the lifecycle its clients are promised.
THEOREM Refinement == Spec => ImplementsLifecycle
<1>1. Init => Lifecycle!Init
  BY DEF Init, Lifecycle!Init
<1>2. TypeOK /\ RowsAgree /\ [Next]_vars => [Lifecycle!Next]_(Lifecycle!view)
  BY LifecycleStep DEF VisibleStep
<1> QED
  BY <1>1, <1>2, RowsAlwaysAgree, PTL DEF Spec, ImplementsLifecycle, Lifecycle!Spec

==============================================================================
