--------------------------- MODULE UploadQuotaProofs ---------------------------
(***************************************************************************)
(* Proofs about UploadQuota for any set of videos and sizes and any plan   *)
(* limits.                                                                 *)
(***************************************************************************)
EXTENDS UploadQuota, FiniteSetTheorems, TLAPS

\* Every step keeps the types of the rows, the ledger and the processes.
LEMMA TypeStep == TypeOK /\ [Next]_vars => TypeOK'
<1> SUFFICES ASSUME TypeOK, [Next]_vars PROVE TypeOK'
  OBVIOUS
<1> USE QuotaAssumption
<1> USE DEF TypeOK, Status, Request, video, storage, ledger, cleanup, history
<1>1. ASSUME NEW v \in Videos, initiate_upload(v) PROVE TypeOK'
  BY <1>1 DEF initiate_upload, Become, record_usage, check_video_upload_quota,
     videos_used_this_period
<1>2. ASSUME NEW v \in Videos, put_object(v) PROVE TypeOK'
  BY <1>2 DEF put_object
<1>3. ASSUME NEW v \in Videos, window_elapses(v) PROVE TypeOK'
  BY <1>3 DEF window_elapses
<1>4. ASSUME NEW v \in Videos, complete_lock(v) PROVE TypeOK'
  BY <1>4 DEF complete_lock, Hold, Unlocked, Locked
<1>5. ASSUME NEW v \in Videos, complete_multipart(v) PROVE TypeOK'
  BY <1>5 DEF complete_multipart, Hold
<1>6. ASSUME NEW v \in Videos, complete_verify(v) PROVE TypeOK'
  BY <1>6 DEF complete_verify, Hold, AtVerify
<1>7. ASSUME NEW v \in Videos, complete_rejects(v) PROVE TypeOK'
  BY <1>7 DEF complete_rejects, Hold, AtVerify
<1>8. ASSUME NEW v \in Videos, complete_commit(v) PROVE TypeOK'
  BY <1>8 DEF complete_commit, Hold, Become
<1>9. ASSUME NEW v \in Videos, request_fails(v) PROVE TypeOK'
  BY <1>9 DEF request_fails, Hold
<1>10. ASSUME NEW v \in Videos, cancel_upload(v) PROVE TypeOK'
  <2>1. net' \in [Videos -> Int] /\ used' \in Int
    BY <1>10 DEF cancel_upload, release_reservation, record_usage
  <2>2. rawObject' \in [Videos -> BOOLEAN] /\ multipartOpen' \in [Videos -> BOOLEAN]
    BY <1>10 DEF cancel_upload, cancel_storage
  <2> QED
    BY <1>10, <2>1, <2>2 DEF cancel_upload, Become
<1>11. ASSUME NEW v \in Videos, cancel_upload_fails(v) PROVE TypeOK'
  BY <1>11 DEF cancel_upload_fails, cancel_storage
<1>12. ASSUME NEW v \in Videos, delete_failed_video(v) PROVE TypeOK'
  BY <1>12 DEF delete_failed_video, Hold, Unlocked, Locked
<1>13. ASSUME NEW v \in Videos, delete_storage_fails(v) PROVE TypeOK'
  BY <1>13 DEF delete_storage_fails
<1>14. ASSUME NEW v \in Videos, delete_commit(v) PROVE TypeOK'
  BY <1>14 DEF delete_commit, Hold, Become, record_usage
<1>15. ASSUME NEW v \in Videos, requeue_processing(v) PROVE TypeOK'
  BY <1>15 DEF requeue_processing, Become, Unlocked, Locked
<1>16. ASSUME NEW v \in Videos, transcode(v) PROVE TypeOK'
  BY <1>16 DEF transcode, Become
<1>17. ASSUME NEW v \in Videos, cleanup_storage(v) PROVE TypeOK'
  BY <1>17 DEF cleanup_storage, cancel_storage
<1>18. ASSUME NEW v \in Videos, cleanup_abandon(v) PROVE TypeOK'
  BY <1>18 DEF cleanup_abandon, Become, Unlocked, Locked, release_reservation,
     record_usage, NextRow
<1>19. ASSUME NEW v \in Videos, cleanup_unmatched(v) PROVE TypeOK'
  BY <1>19 DEF cleanup_unmatched, NextRow
<1>20. ASSUME NEW v \in Videos, cleanup_release(v) PROVE TypeOK'
  BY <1>20 DEF cleanup_release, record_usage, NextRow
<1>21. CASE cleanup_select
  BY <1>21 DEF cleanup_select
<1>22. CASE cleanup_crash
  BY <1>22 DEF cleanup_crash
<1>23. CASE UNCHANGED vars
  BY <1>23 DEF vars
<1> QED
  BY <1>1, <1>2, <1>3, <1>4, <1>5, <1>6, <1>7, <1>8, <1>9, <1>10, <1>11, <1>12, <1>13,
     <1>14, <1>15, <1>16, <1>17, <1>18, <1>19, <1>20, <1>21, <1>22, <1>23
     DEF Next, Upload, Complete, Recover, Cleanup

\* Every step keeps the ledger, the rows, the locks and the cleanup in step.
LEMMA SlotStep == SlotInv /\ [Next]_vars => SlotInv'
<1> SUFFICES ASSUME SlotInv, [Next]_vars PROVE SlotInv'
  OBVIOUS
<1> TypeOK'
  BY TypeStep DEF SlotInv
<1> USE QuotaAssumption
<1> USE DEF SlotInv, TypeOK, SlotsMatchUploads, Status, Request,
            video, storage, ledger, cleanup, history
<1>1. ASSUME NEW v \in Videos, initiate_upload(v) PROVE SlotInv'
  <2>1. SlotsMatchUploads'
    BY <1>1 DEF initiate_upload, Become, record_usage
  <2>2. \A u \in cleanupRows' : status'[u] # "none"
    BY <1>1 DEF initiate_upload, Become
  <2>3. cleanupPc' = "release" => hasJob'[cleanupVideo'] \/ status'[cleanupVideo'] = "absent"
    BY <1>1 DEF initiate_upload, Become
  <2> QED
    BY <1>1, <2>1, <2>2, <2>3 DEF initiate_upload, Become, record_usage
<1>2. ASSUME NEW v \in Videos, put_object(v) PROVE SlotInv'
  BY <1>2 DEF put_object
<1>3. ASSUME NEW v \in Videos, window_elapses(v) PROVE SlotInv'
  BY <1>3 DEF window_elapses
<1>4. ASSUME NEW v \in Videos, complete_lock(v) PROVE SlotInv'
  BY <1>4 DEF complete_lock, Hold, Unlocked, Locked
<1>5. ASSUME NEW v \in Videos, complete_multipart(v) PROVE SlotInv'
  BY <1>5 DEF complete_multipart, Hold
<1>6. ASSUME NEW v \in Videos, complete_verify(v) PROVE SlotInv'
  BY <1>6 DEF complete_verify, Hold, AtVerify
<1>7. ASSUME NEW v \in Videos, complete_rejects(v) PROVE SlotInv'
  BY <1>7 DEF complete_rejects, Hold, AtVerify
<1>8. ASSUME NEW v \in Videos, complete_commit(v) PROVE SlotInv'
  BY <1>8 DEF complete_commit, Hold, Become
<1>9. ASSUME NEW v \in Videos, request_fails(v) PROVE SlotInv'
  BY <1>9 DEF request_fails, Hold
<1>10. ASSUME NEW v \in Videos, cancel_upload(v) PROVE SlotInv'
  BY <1>10 DEF cancel_upload, Become, Unlocked, Locked, cancel_storage,
     release_reservation, record_usage
<1>11. ASSUME NEW v \in Videos, cancel_upload_fails(v) PROVE SlotInv'
  BY <1>11 DEF cancel_upload_fails, cancel_storage
<1>12. ASSUME NEW v \in Videos, delete_failed_video(v) PROVE SlotInv'
  BY <1>12 DEF delete_failed_video, Hold, Unlocked, Locked
<1>13. ASSUME NEW v \in Videos, delete_storage_fails(v) PROVE SlotInv'
  BY <1>13 DEF delete_storage_fails
<1>14. ASSUME NEW v \in Videos, delete_commit(v) PROVE SlotInv'
  BY <1>14 DEF delete_commit, Hold, Become, record_usage
<1>15. ASSUME NEW v \in Videos, requeue_processing(v) PROVE SlotInv'
  BY <1>15 DEF requeue_processing, Become, Unlocked, Locked
<1>16. ASSUME NEW v \in Videos, transcode(v) PROVE SlotInv'
  BY <1>16 DEF transcode, Become
<1>17. ASSUME NEW v \in Videos, cleanup_storage(v) PROVE SlotInv'
  BY <1>17 DEF cleanup_storage, cancel_storage
<1>18. ASSUME NEW v \in Videos, cleanup_abandon(v) PROVE SlotInv'
  BY <1>18 DEF cleanup_abandon, Become, Unlocked, Locked, release_reservation,
     record_usage, NextRow
<1>19. ASSUME NEW v \in Videos, cleanup_unmatched(v) PROVE SlotInv'
  BY <1>19 DEF cleanup_unmatched, NextRow
<1>20. ASSUME NEW v \in Videos, cleanup_release(v) PROVE SlotInv'
  BY <1>20 DEF cleanup_release, record_usage, NextRow
<1>21. CASE cleanup_select
  BY <1>21 DEF cleanup_select
<1>22. CASE cleanup_crash
  BY <1>22 DEF cleanup_crash
<1>23. CASE UNCHANGED vars
  BY <1>23 DEF vars
<1> QED
  BY <1>1, <1>2, <1>3, <1>4, <1>5, <1>6, <1>7, <1>8, <1>9, <1>10, <1>11, <1>12, <1>13,
     <1>14, <1>15, <1>16, <1>17, <1>18, <1>19, <1>20, <1>21, <1>22, <1>23
     DEF Next, Upload, Complete, Recover, Cleanup

\* A video's ledger entries and the account's sum change together: +1 makes a
\* video without a slot a holder, -1 takes the slot of a holder or gives it
\* back once more.
LEMMA RecordUsage ==
  ASSUME TypeOK, used = base + Cardinality(Holding) - Cardinality(Doubled),
         NEW v \in Videos, NEW q \in {1, -1}, record_usage(v, q),
         \/ q = 1 /\ net[v] = 0
         \/ q = -1 /\ net[v] \in {0, 1}
  PROVE  used' = base + Cardinality(Holding') - Cardinality(Doubled')
<1>1. IsFiniteSet(Holding) /\ IsFiniteSet(Doubled)
  BY FS_Subset, QuotaAssumption DEF Holding, Doubled
<1>2. Cardinality(Holding) \in Nat /\ Cardinality(Doubled) \in Nat
  BY <1>1, FS_CardinalityType
<1>3. used' = used + q /\ used \in Int /\ base \in Nat
  BY QuotaAssumption DEF TypeOK, record_usage
<1>4. CASE q = 1
  <2>1. Holding' = Holding \cup {v} /\ v \notin Holding /\ Doubled' = Doubled
    BY <1>4 DEF TypeOK, record_usage, Holding, Doubled
  <2>2. Cardinality(Holding') = Cardinality(Holding) + 1
    BY <2>1, <1>1, FS_AddElement
  <2> QED
    BY <1>2, <1>3, <1>4, <2>1, <2>2
<1>5. CASE q = -1 /\ net[v] = 1
  <2>1. Holding' = Holding \ {v} /\ v \in Holding /\ Doubled' = Doubled
    BY <1>5 DEF TypeOK, record_usage, Holding, Doubled
  <2>2. Cardinality(Holding') = Cardinality(Holding) - 1
    BY <2>1, <1>1, FS_RemoveElement
  <2> QED
    BY <1>2, <1>3, <1>5, <2>1, <2>2
<1>6. CASE q = -1 /\ net[v] = 0
  <2>1. Doubled' = Doubled \cup {v} /\ v \notin Doubled /\ Holding' = Holding
    BY <1>6 DEF TypeOK, record_usage, Holding, Doubled
  <2>2. Cardinality(Doubled') = Cardinality(Doubled) + 1
    BY <2>1, <1>1, FS_AddElement
  <2> QED
    BY <1>2, <1>3, <1>6, <2>1, <2>2
<1> QED
  BY <1>4, <1>5, <1>6

\* Every step keeps the account's sum the sum of its videos' entries, and
\* within the plan.
LEMMA SumStep == UploadInv /\ [Next]_vars => UploadInv'
<1> SUFFICES ASSUME UploadInv, [Next]_vars PROVE UploadInv'
  OBVIOUS
<1> DEFINE Sum == used = base + Cardinality(Holding) - Cardinality(Doubled)
<1>1. SlotInv'
  BY SlotStep DEF UploadInv
<1>2. SlotInv /\ TypeOK /\ Sum /\ used <= MaxVideos
  BY DEF UploadInv, SlotInv
<1>3. SUFFICES (Sum /\ used <= MaxVideos)'
  BY <1>1 DEF UploadInv
<1> USE QuotaAssumption
<1>4. ASSUME UNCHANGED <<ledger, history>> PROVE (Sum /\ used <= MaxVideos)'
  BY <1>2, <1>4 DEF ledger, history, Holding, Doubled
<1>5. ASSUME NEW v \in Videos, initiate_upload(v) PROVE (Sum /\ used <= MaxVideos)'
  <2>1. net[v] = 0 /\ record_usage(v, 1) /\ base' = base
    BY <1>2, <1>5 DEF initiate_upload, SlotInv, history
  <2>2. Sum'
    BY <2>1, <1>2, RecordUsage
  <2>3. (used <= MaxVideos)'
    BY <1>5, <1>2, <2>1 DEF initiate_upload, check_video_upload_quota, videos_used_this_period,
       record_usage, TypeOK
  <2> QED
    BY <2>2, <2>3
<1>6. ASSUME NEW v \in Videos, record_usage(v, -1), base' = base, net[v] \in {0, 1}
      PROVE  (Sum /\ used <= MaxVideos)'
  <2>1. Sum'
    BY <1>6, <1>2, RecordUsage
  <2>2. (used <= MaxVideos)'
    BY <1>6, <1>2 DEF record_usage, TypeOK
  <2> QED
    BY <2>1, <2>2
<1>7. ASSUME NEW v \in Videos, cancel_upload(v) \/ cleanup_abandon(v)
      PROVE  (Sum /\ used <= MaxVideos)'
  <2>1. net[v] = 1 /\ UNCHANGED history /\ record_usage(v, -1)
    BY <1>2, <1>7 DEF cancel_upload, cleanup_abandon, release_reservation, SlotInv,
       SlotsMatchUploads
  <2> QED
    BY <2>1, <1>6 DEF history
<1>8. ASSUME NEW v \in Videos, delete_commit(v) PROVE (Sum /\ used <= MaxVideos)'
  <2>1. UNCHANGED history
    BY <1>8 DEF delete_commit
  <2>2. request[v] = "delete_release" => net[v] \in {0, 1}
    BY <1>2 DEF SlotInv, SlotsMatchUploads, TypeOK, Status
  <2> QED
    BY <1>8, <2>1, <2>2, <1>4, <1>6 DEF delete_commit, history
<1>9. ASSUME NEW v \in Videos, cleanup_release(v) PROVE (Sum /\ used <= MaxVideos)'
  <2>1. net[v] \in {0, 1} /\ base' = base /\ record_usage(v, -1)
    BY <1>2, <1>9 DEF cleanup_release, SlotInv, SlotsMatchUploads, TypeOK
  <2> QED
    BY <2>1, <1>6
<1>10. ASSUME NEW v \in Videos,
              put_object(v) \/ window_elapses(v) \/ complete_lock(v) \/ complete_multipart(v)
                \/ complete_verify(v) \/ complete_rejects(v) \/ complete_commit(v)
                \/ request_fails(v) \/ cancel_upload_fails(v) \/ delete_failed_video(v)
                \/ delete_storage_fails(v) \/ requeue_processing(v) \/ transcode(v)
                \/ cleanup_storage(v) \/ cleanup_unmatched(v)
       PROVE  (Sum /\ used <= MaxVideos)'
  <2>1. UNCHANGED <<ledger, history>>
    BY <1>10 DEF put_object, window_elapses, complete_lock, complete_multipart,
       complete_verify, complete_rejects, complete_commit, request_fails,
       cancel_upload_fails, delete_failed_video, delete_storage_fails, requeue_processing,
       transcode, cleanup_storage, cleanup_unmatched
  <2> QED
    BY <2>1, <1>4
<1>11. CASE cleanup_select \/ cleanup_crash \/ UNCHANGED vars
  <2>1. UNCHANGED <<ledger, history>>
    BY <1>11 DEF cleanup_select, cleanup_crash, vars
  <2> QED
    BY <2>1, <1>4
<1> QED
  BY <1>5, <1>7, <1>8, <1>9, <1>10, <1>11 DEF Next, Upload, Complete, Recover, Cleanup

\* Nothing uploaded, nothing reserved, the cleanup idle.
LEMMA SlotInit == Init => UploadInv
<1> SUFFICES ASSUME Init PROVE UploadInv
  OBVIOUS
<1>1. SlotInv
  BY QuotaAssumption DEF Init, SlotInv, TypeOK, SlotsMatchUploads, Status, Request
<1>2. Holding = {} /\ Doubled = {}
  BY DEF Init, Holding, Doubled
<1> QED
  BY <1>1, <1>2, FS_EmptySet, QuotaAssumption DEF Init, UploadInv

\* The inductive invariant, for every instance.
THEOREM UploadSafe == Spec => []UploadInv
  BY SlotInit, SumStep, PTL DEF Spec

\* However uploads, releases and deletions interleave, the account's pending
\* and finalised uploads exceed its plan at most by the stray releases: those
\* that still have their slot are counted by the ledger, which is short of one
\* for each slot given back twice, and every such video is itself stray.
THEOREM WithinPlan == Spec => []UploadsWithinPlan
<1>1. UploadInv => UploadsWithinPlan
  <2> SUFFICES ASSUME UploadInv PROVE UploadsWithinPlan
    OBVIOUS
  <2> USE QuotaAssumption DEF UploadInv, SlotInv, SlotsMatchUploads, TypeOK, Holding, Doubled,
          Occupying
  <2>1. Occupying \subseteq Holding \cup (stray \ Doubled) /\ Doubled \subseteq stray
    <3>1. ASSUME NEW v \in Videos, net[v] = -1 PROVE v \in stray
      BY <3>1 DEF Status
    <3>2. ASSUME NEW v \in Occupying, v \notin Holding PROVE v \in stray /\ net[v] = 0
      BY <3>2 DEF Status
    <3> QED
      BY <3>1, <3>2
  <2>2. IsFiniteSet(Holding) /\ IsFiniteSet(Doubled) /\ IsFiniteSet(Occupying) /\ IsFiniteSet(stray)
    BY FS_Subset
  <2>3. IsFiniteSet(stray \ Doubled)
        /\ Cardinality(stray \ Doubled) = Cardinality(stray) - Cardinality(Doubled)
    <3>1. stray \cap Doubled = Doubled
      BY <2>1
    <3> HIDE DEF UploadInv, SlotInv, SlotsMatchUploads, TypeOK, Holding, Doubled, Occupying
    <3>2. /\ IsFiniteSet(stray \ Doubled)
          /\ Cardinality(stray \ Doubled) = Cardinality(stray) - Cardinality(stray \cap Doubled)
      BY <2>2, FS_Difference
    <3> QED
      BY <3>1, <3>2
  <2>4. IsFiniteSet(Holding \cup (stray \ Doubled))
        /\ Cardinality(Holding \cup (stray \ Doubled))
             = Cardinality(Holding) + Cardinality(stray \ Doubled)
               - Cardinality(Holding \cap (stray \ Doubled))
    BY <2>2, <2>3, FS_Union
  <2>5. Cardinality(Occupying) <= Cardinality(Holding \cup (stray \ Doubled))
    BY <2>1, <2>4, FS_Subset
  <2>6. IsFiniteSet(Holding \cap (stray \ Doubled))
    BY <2>2, FS_Subset
  <2>7. /\ Cardinality(Holding) \in Nat /\ Cardinality(Doubled) \in Nat
        /\ Cardinality(Occupying) \in Nat /\ Cardinality(stray) \in Nat
        /\ Cardinality(Holding \cap (stray \ Doubled)) \in Nat
    BY <2>2, <2>6, FS_CardinalityType
  <2>8. used \in Int /\ base \in Nat /\ MaxVideos \in Nat
        /\ used = base + Cardinality(Holding) - Cardinality(Doubled) /\ used <= MaxVideos
    OBVIOUS
  <2> HIDE DEF UploadInv, SlotInv, SlotsMatchUploads, TypeOK, Holding, Doubled, Occupying
  <2> QED
    BY <2>3, <2>4, <2>5, <2>7, <2>8 DEF UploadsWithinPlan
<1> QED
  BY <1>1, UploadSafe, PTL

\* The ledger and the video rows agree.
THEOREM SlotsSafe == Spec => []SlotsMatchUploads
<1>1. UploadInv => SlotsMatchUploads
  BY DEF UploadInv, SlotInv
<1> QED
  BY <1>1, UploadSafe, PTL

\* A cancelled or abandoned upload is never finalised later: the step that
\* would do it holds the row lock of a row that is still PENDING_UPLOAD.
THEOREM ResurrectionSafe == Spec => NoResurrection
<1> DEFINE Stays == \A v \in Videos : status[v] = "FAILED" /\ ~hasJob[v]
                                        => status'[v] \in {"FAILED", "absent"}
<1>1. UploadInv /\ [Next]_vars => [Stays]_vars
  <2> SUFFICES ASSUME UploadInv, [Next]_vars,
                      NEW u \in Videos, status[u] = "FAILED", ~hasJob[u]
               PROVE  status'[u] \in {"FAILED", "absent"}
    OBVIOUS
  <2> USE DEF UploadInv, SlotInv, TypeOK, video
  <2>1. ASSUME NEW v \in Videos,
               complete_commit(v) \/ cancel_upload(v) \/ cleanup_abandon(v)
                 \/ initiate_upload(v) \/ delete_commit(v)
        PROVE  status'[u] \in {"FAILED", "absent"}
    BY <2>1 DEF complete_commit, cancel_upload, cleanup_abandon, initiate_upload,
       delete_commit, Become
  <2>2. ASSUME NEW v \in Videos, requeue_processing(v) \/ transcode(v)
        PROVE  status'[u] \in {"FAILED", "absent"}
    BY <2>2 DEF requeue_processing, transcode, Become
  <2>3. ASSUME status' = status PROVE status'[u] \in {"FAILED", "absent"}
    BY <2>3
  <2>4. ASSUME NEW v \in Videos,
               put_object(v) \/ window_elapses(v) \/ complete_lock(v) \/ complete_multipart(v)
                 \/ complete_verify(v) \/ complete_rejects(v) \/ request_fails(v)
                 \/ cancel_upload_fails(v) \/ delete_failed_video(v) \/ delete_storage_fails(v)
                 \/ cleanup_storage(v) \/ cleanup_unmatched(v) \/ cleanup_release(v)
        PROVE  status' = status
    BY <2>4 DEF put_object, window_elapses, complete_lock, complete_multipart,
       complete_verify, complete_rejects, request_fails, cancel_upload_fails,
       delete_failed_video, delete_storage_fails, cleanup_storage, cleanup_unmatched,
       cleanup_release
  <2>5. CASE cleanup_select \/ cleanup_crash \/ UNCHANGED vars
    BY <2>5 DEF cleanup_select, cleanup_crash, vars
  <2> QED
    BY <2>1, <2>2, <2>3, <2>4, <2>5 DEF Next, Upload, Complete, Recover, Cleanup
<1> QED
  BY <1>1, UploadSafe, PTL DEF Spec, NoResurrection

================================================================================
