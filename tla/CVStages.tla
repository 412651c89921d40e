------------------------------ MODULE CVStages ------------------------------
(***************************************************************************)
(* The CV stages of one processed video: detection, tracking, ..., metrics, *)
(* one job row per stage, each queued by the stage before it. Stage 0 is    *)
(* the transcode. The dispatcher, the redelivering broker, the workers that *)
(* run execute_cv_stage and the stale-job sweep share the job rows; a CV    *)
(* job is never released or requeued. A demo preview with candidate tags    *)
(* writes the EVENTS row too. The broker duplicates messages and loses none.*)
(***************************************************************************)
EXTENDS Integers, FiniteSets

CONSTANTS
  LastStage,      \* how many CV stages there are (5 in the code)
  Workers,
  MaxMessages,    \* bound on the copies of one stage's message
  MaxTier,        \* plan tiers 0..MaxTier
  MaxArtifacts,   \* bound on registered model artifacts
  EventsStage,    \* the stage whose row a demo preview writes as well
  RequiredStages  \* cv_model_artifact_required_stages, {} when not required

ASSUME CVAssumption ==
  /\ LastStage \in Nat /\ MaxMessages \in Nat /\ MaxTier \in Nat /\ MaxArtifacts \in Nat
  /\ EventsStage \in 1..LastStage
  /\ RequiredStages \subseteq 1..LastStage

Stages == 0..LastStage
CVs == 1..LastStage
Artifact == [tier : 0..MaxTier, created : 1..MaxArtifacts, commercial : BOOLEAN, active : BOOLEAN]
NoArtifact == [tier |-> -1, created |-> 0, commercial |-> FALSE, active |-> FALSE]
Terminal == {"COMPLETED", "FAILED"}

VARIABLES
  enabled,     \* cv_pipeline_enabled of the deployment
  plan,        \* tier of the team's plan, -1 when it has no plan
  registry,    \* cv_model_artifacts
  job,         \* processing_jobs by stage: status, "none" without a row
  dispatched,  \* the job has a celery_task_id
  messages,    \* copies of the stage's message at the broker
  result,      \* the artifact in the job's result_metadata
  alpha,       \* result_metadata of the EVENTS job is a demo preview's
  claims,      \* history: how often the job was claimed
  best,        \* history: the highest tier the plan had while the job ran
  pc,          \* worker: the step its run has reached
  stage,       \* worker: the stage it runs
  tier,        \* worker: plan_tier as it read it, -1 without a plan
  chosen       \* worker: the artifact it selected

env  == <<enabled, plan, registry>>
rows == <<job, dispatched, result, alpha, claims, best>>
work == <<pc, stage, tier, chosen>>
vars == <<env, rows, messages, work>>

Init ==
  /\ enabled \in BOOLEAN
  /\ plan \in -1..MaxTier
  /\ registry = {}
  /\ job = [s \in Stages |-> IF s = 0 THEN "RUNNING" ELSE "none"]
  /\ dispatched = [s \in Stages |-> s = 0]
  /\ messages = [s \in CVs |-> 0]
  /\ result = [s \in CVs |-> NoArtifact]
  /\ alpha = FALSE
  /\ claims = [s \in CVs |-> 0]
  /\ best = [s \in CVs |-> -1]
  /\ pc = [w \in Workers |-> "idle"]
  /\ stage = [w \in Workers |-> 0]
  /\ tier = [w \in Workers |-> -1]
  /\ chosen = [w \in Workers |-> NoArtifact]

-----------------------------------------------------------------------------
(* Selection of the model.                                                 *)

\* Mutant: min_plan_tier is not looked at.
Entitled_any_tier(a, t) == a.active /\ a.commercial

\* Without a plan the tier is 0.
Entitled(a, t) == a.active /\ a.commercial /\ a.tier <= IF t = -1 THEN 0 ELSE t

\* _active_artifact_for_stage: the highest entitled tier, then the newest.
active_artifact_for_stage(t) ==
  IF \E a \in registry : Entitled(a, t)
    THEN CHOOSE a \in registry :
           /\ Entitled(a, t)
           /\ \A b \in registry :
                Entitled(b, t) => a.tier > b.tier \/ (a.tier = b.tier /\ a.created >= b.created)
    ELSE NoArtifact

-----------------------------------------------------------------------------
(* Job rows.                                                               *)

\* queue_next_stage_if_enabled after stage s, over the rows j: SELECT and
\* INSERT; uq_processing_jobs_video_stage would refuse a second row.
queue_next_stage(j, s) ==
  IF enabled /\ s < LastStage /\ j[s + 1] = "none"
    THEN [j EXCEPT ![s + 1] = "PENDING"] ELSE j

\* fail_job: a job that is not over.
fail_job(s) == [job EXCEPT ![s] = IF @ \in {"PENDING", "RUNNING"} THEN "FAILED" ELSE @]

\* Mutant: a running job is claimed again.
Claimable_running(s) == job[s] \in {"PENDING", "RUNNING"}

\* claim_job matches a PENDING row.
Claimable(s) == job[s] = "PENDING"

-----------------------------------------------------------------------------
(* Transcode, dispatcher, broker.                                          *)

\* execute_transcode completes its job and queues the first CV stage.
transcode_completes ==
  /\ job[0] = "RUNNING"
  /\ job' = queue_next_stage([job EXCEPT ![0] = "COMPLETED"], 0)
  /\ UNCHANGED <<env, dispatched, result, alpha, claims, best, messages, work>>

\* Mutant: the id is recorded first, and a crash in between loses the message.
dispatch_recorded_first(s) ==
  /\ job[s] = "PENDING" /\ ~dispatched[s]
  /\ dispatched' = [dispatched EXCEPT ![s] = TRUE]
  /\ \E sent \in {0, 1} : messages' = [messages EXCEPT ![s] = @ + sent]
  /\ UNCHANGED <<env, job, result, alpha, claims, best, work>>

\* The dispatcher enqueues a PENDING job without a task id and records the
\* id; a crash in between leaves the message without the record.
dispatch(s) ==
  /\ job[s] = "PENDING" /\ ~dispatched[s]
  /\ messages[s] < MaxMessages
  /\ messages' = [messages EXCEPT ![s] = @ + 1]
  /\ \E recorded \in BOOLEAN : dispatched' = [dispatched EXCEPT ![s] = recorded]
  /\ UNCHANGED <<env, job, result, alpha, claims, best, work>>

\* A worker is done with its message; of a message delivered twice the second
\* acknowledgement has no effect.
Ack(s) == messages' = [messages EXCEPT ![s] = IF @ > 0 THEN @ - 1 ELSE 0]

Idle(w) ==
  /\ pc' = [pc EXCEPT ![w] = "idle"]
  /\ stage' = [stage EXCEPT ![w] = 0]
  /\ tier' = [tier EXCEPT ![w] = -1]
  /\ chosen' = [chosen EXCEPT ![w] = NoArtifact]

-----------------------------------------------------------------------------
(* execute_cv_stage.                                                       *)

\* A delivery (the broker may hand out a message again while a worker holds
\* it) claims the job, or finds it taken and is skipped.
claim_job(w, s) ==
  /\ pc[w] = "idle"
  /\ messages[s] > 0
  /\ IF Claimable(s)
       THEN /\ job' = [job EXCEPT ![s] = "RUNNING"]
            /\ dispatched' = [dispatched EXCEPT ![s] = TRUE]
            /\ claims' = [claims EXCEPT ![s] = @ + 1]
            /\ best' = [best EXCEPT ![s] = plan]
            /\ pc' = [pc EXCEPT ![w] = "claimed"]
            /\ stage' = [stage EXCEPT ![w] = s]
            /\ UNCHANGED <<messages, tier, chosen>>
       ELSE Ack(s) /\ UNCHANGED <<job, dispatched, claims, best, work>>
  /\ UNCHANGED <<env, result, alpha>>

\* Mutant: the upstream stage is not looked up.
PrerequisitesMet_enabled(s) == enabled

\* The pipeline is on and the stage before has completed.
PrerequisitesMet(s) == enabled /\ job[s - 1] = "COMPLETED"

\* The checks pass and the heartbeat commits; resolve_team_plan is the first
\* read of the next transaction.
check_prerequisites(w) ==
  /\ pc[w] = "claimed"
  /\ PrerequisitesMet(stage[w])
  /\ pc' = [pc EXCEPT ![w] = "resolved"]
  /\ tier' = [tier EXCEPT ![w] = plan]
  /\ UNCHANGED <<env, rows, messages, stage, chosen>>

\* _stage_requires_artifact, and there is no plan or no artifact for its tier.
ArtifactMissing(s, t) ==
  s \in RequiredStages /\ (t = -1 \/ active_artifact_for_stage(t) = NoArtifact)

\* The artifact is selected for the tier that was read.
select_artifact(w) ==
  /\ pc[w] = "resolved"
  /\ ~ArtifactMissing(stage[w], tier[w])
  /\ pc' = [pc EXCEPT ![w] = "selected"]
  /\ chosen' = [chosen EXCEPT ![w] = active_artifact_for_stage(tier[w])]
  /\ tier' = [tier EXCEPT ![w] = -1]
  /\ UNCHANGED <<env, rows, messages, stage>>

\* A check fails: _terminal_cv_failure.
terminal_cv_failure(w) ==
  /\ \/ pc[w] = "claimed" /\ ~PrerequisitesMet(stage[w])
     \/ pc[w] = "resolved" /\ ArtifactMissing(stage[w], tier[w])
  /\ job' = fail_job(stage[w])
  /\ Ack(stage[w]) /\ Idle(w)
  /\ UNCHANGED <<env, dispatched, result, alpha, claims, best>>

\* complete_job (RUNNING only, without the task id, its result ignored), then
\* the next stage, in one transaction.
complete_job(w) ==
  LET s == stage[w] IN
  /\ pc[w] = "selected"
  /\ IF job[s] = "RUNNING"
       THEN /\ job' = queue_next_stage([job EXCEPT ![s] = "COMPLETED"], s)
            /\ result' = [result EXCEPT ![s] = chosen[w]]
       ELSE job' = queue_next_stage(job, s) /\ UNCHANGED result
  /\ pc' = [pc EXCEPT ![w] = "committed"]
  /\ UNCHANGED <<env, dispatched, alpha, claims, best, messages, stage, tier, chosen>>

\* clear_worker_context, one more statement, and the task returns.
stage_returns(w) ==
  /\ pc[w] = "committed"
  /\ Ack(stage[w]) /\ Idle(w)
  /\ UNCHANGED <<env, rows>>

\* An exception escapes the task, also after its commit, or because the next
\* stage's row appeared in between: CVStageTask.on_failure.
on_failure(w) ==
  /\ pc[w] # "idle"
  /\ job' = fail_job(stage[w])
  /\ Ack(stage[w]) /\ Idle(w)
  /\ UNCHANGED <<env, dispatched, result, alpha, claims, best>>

\* The worker process is lost; the message was not acknowledged.
worker_lost(w) ==
  /\ pc[w] # "idle"
  /\ Idle(w)
  /\ UNCHANGED <<env, rows, messages>>

\* recover_stale_jobs: a RUNNING job whose heartbeat is old. The sweep cannot
\* tell a dead worker from a slow one.
recover_stale_job(s) ==
  /\ job[s] = "RUNNING"
  /\ job' = fail_job(s)
  /\ UNCHANGED <<env, dispatched, result, alpha, claims, best, messages, work>>

-----------------------------------------------------------------------------
(* A demo preview of the processed video, alpha_candidate_tags_enabled.    *)

\* _sync_alpha_candidate_tags, one transaction: whatever the EVENTS row was,
\* absent included, it ends COMPLETED with the tags or FAILED without them. It
\* asks for no stage before, no model and no plan, and queues nothing.
sync_alpha_candidate_tags ==
  /\ job[0] = "COMPLETED"
  /\ \E outcome \in Terminal : job' = [job EXCEPT ![EventsStage] = outcome]
  /\ dispatched' = [dispatched EXCEPT ![EventsStage] = TRUE]
  /\ result' = [result EXCEPT ![EventsStage] = NoArtifact]
  /\ alpha' = TRUE
  /\ UNCHANGED <<env, claims, best, messages, work>>

-----------------------------------------------------------------------------
(* Operators of the deployment.                                            *)

redeploy ==
  /\ enabled' = ~enabled
  /\ UNCHANGED <<plan, registry, rows, messages, work>>

\* A new subscription, an upgrade, a downgrade or the end of the plan.
change_plan ==
  /\ plan' \in (-1..MaxTier) \ {plan}
  /\ best' = [s \in CVs |-> IF job[s] = "RUNNING" /\ best[s] < plan' THEN plan' ELSE best[s]]
  /\ UNCHANGED <<enabled, registry, job, dispatched, result, alpha, claims, messages, work>>

register_artifact ==
  /\ Cardinality(registry) < MaxArtifacts
  /\ \E t \in 0..MaxTier, c \in BOOLEAN :
       registry' = registry \cup
         {[tier |-> t, created |-> Cardinality(registry) + 1, commercial |-> c, active |-> TRUE]}
  /\ UNCHANGED <<enabled, plan, rows, messages, work>>

retire_artifact ==
  /\ \E a \in registry :
       /\ a.active
       /\ registry' = (registry \ {a}) \cup {[a EXCEPT !.active = FALSE]}
  /\ UNCHANGED <<enabled, plan, rows, messages, work>>

Next ==
  \/ transcode_completes
  \/ \E s \in CVs : dispatch(s) \/ recover_stale_job(s)
  \/ \E w \in Workers :
       \/ \E s \in CVs : claim_job(w, s)
       \/ check_prerequisites(w) \/ select_artifact(w) \/ terminal_cv_failure(w)
       \/ complete_job(w) \/ stage_returns(w) \/ on_failure(w) \/ worker_lost(w)
  \/ sync_alpha_candidate_tags
  \/ redeploy \/ change_plan \/ register_artifact \/ retire_artifact

\* The beat runs the dispatcher and the sweep for ever, and a worker keeps
\* taking messages and finishing what it takes.
Fairness ==
  /\ \A s \in CVs :
       /\ WF_vars(dispatch(s)) /\ WF_vars(recover_stale_job(s))
       /\ SF_vars(\E w \in Workers : claim_job(w, s))
  /\ \A w \in Workers :
       WF_vars(\/ check_prerequisites(w) \/ select_artifact(w) \/ terminal_cv_failure(w)
               \/ complete_job(w) \/ stage_returns(w))

Spec == Init /\ [][Next]_vars
FairSpec == Spec /\ Fairness

-----------------------------------------------------------------------------
(* Properties.                                                             *)

TypeOK ==
  /\ enabled \in BOOLEAN /\ plan \in -1..MaxTier
  /\ registry \subseteq Artifact
  /\ job \in [Stages -> {"none", "PENDING", "RUNNING", "COMPLETED", "FAILED"}]
  /\ dispatched \in [Stages -> BOOLEAN]
  /\ messages \in [CVs -> 0..MaxMessages]
  /\ result \in [CVs -> Artifact \cup {NoArtifact}]
  /\ alpha \in BOOLEAN
  /\ claims \in [CVs -> Nat]
  /\ best \in [CVs -> -1..MaxTier]
  /\ pc \in [Workers -> {"idle", "claimed", "resolved", "selected", "committed"}]
  /\ stage \in [Workers -> Stages]
  /\ tier \in [Workers -> -1..MaxTier]
  /\ chosen \in [Workers -> Artifact \cup {NoArtifact}]

\* However messages are duplicated and redelivered, a stage is run once: no
\* path puts a claimed CV job back, so two runs never race to queue the next.
StageRunsOnce == \A s \in CVs : claims[s] <= 1

\* Stage s was completed by its CV run and not by a demo preview.
CompletedByRun(s) == job[s] = "COMPLETED" /\ ~(s = EventsStage /\ alpha)

\* A run completes its stage only behind a completed stage before it, though
\* the sweep may have failed that one while its worker went on. METRICS alone
\* may rest on an EVENTS row that a demo preview completed, or has rewritten.
ChainInOrder ==
  \A s \in CVs : CompletedByRun(s) =>
    job[s - 1] = "COMPLETED" \/ (s - 1 = EventsStage /\ alpha)

\* An artifact, or none, that the team's plans while stage s ran allow it.
Allowed(s, a) ==
  \/ a = NoArtifact /\ s \notin RequiredStages
  \/ a.commercial /\ (a.tier <= best[s] \/ (a.tier = 0 /\ s \notin RequiredStages))

\* The model in a run's result was cleared for commercial use and covered by
\* a plan the team had while the stage ran, and where a model is required
\* there is one, whatever happened to the plan and the registry between the
\* reading of the plan, the selection and the completion.
ResultIsEntitled == \A s \in CVs : CompletedByRun(s) => Allowed(s, result[s])

\* Every queued stage is completed or failed in the end.
StageSettles == \A s \in CVs : job[s] \in {"PENDING", "RUNNING"} ~> job[s] \in Terminal
=============================================================================
