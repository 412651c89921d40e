---------------------------- MODULE CVStagesProofs ----------------------------
(***************************************************************************)
(* Proofs about CVStages for any number of stages, workers, messages,      *)
(* tiers and artifacts.                                                    *)
(***************************************************************************)
EXTENDS CVStages, FiniteSetTheorems, WellFoundedInduction, TLAPS

-----------------------------------------------------------------------------
(* The model registry.                                                     *)

\* A set of naturals that is bounded and not empty has a greatest member.
LEMMA Greatest ==
  ASSUME NEW N \in Nat, NEW T, T \subseteq 0..N, T # {}
  PROVE  \E x \in T : \A y \in T : y <= x
<1> DEFINE D == {N - x : x \in T}
<1>1. D \subseteq Nat /\ D # {}
  <2>1. PICK x \in T : TRUE
    OBVIOUS
  <2>2. N - x \in D
    OBVIOUS
  <2>3. \A y \in 0..N : N - y \in Nat
    OBVIOUS
  <2> QED BY <2>2, <2>3
<1> HIDE DEF D
<1>2. PICK d \in D : \A e \in D : ~ (<<e, d>> \in OpToRel(<, Nat))
  <2> HIDE DEF IsWellFoundedOn, OpToRel
  <2> QED BY <1>1, NatLessThanWellFounded, WFMin, Zenon
<1>3. \A e \in D : ~(e < d)
  BY <1>1, <1>2 DEF OpToRel
<1>4. PICK x \in T : d = N - x
  BY <1>2 DEF D
<1>5. ASSUME NEW y \in T PROVE y <= x
  <2>1. N - y \in D
    BY DEF D
  <2>2. ~(N - y < N - x)
    BY <2>1, <1>3, <1>4
  <2>3. x \in 0..N /\ y \in 0..N
    OBVIOUS
  <2> QED BY <2>2, <2>3
<1> QED BY <1>5

\* When an artifact is entitled, the one that is selected is entitled too and
\* comes from the registry: the order by tier and age always has a first.
LEMMA SelectedIsEntitled ==
  ASSUME TypeOK, NEW q \in -1..MaxTier, \E a \in registry : Entitled(a, q)
  PROVE  active_artifact_for_stage(q) \in registry /\ Entitled(active_artifact_for_stage(q), q)
<1> DEFINE E == {a \in registry : Entitled(a, q)}
           Tiers == {a.tier : a \in E}
<1>1. E # {} /\ E \subseteq Artifact /\ Tiers # {} /\ Tiers \subseteq 0..MaxTier
  BY DEF TypeOK, Artifact
<1>2. PICK t \in Tiers : \A u \in Tiers : u <= t
  <2> HIDE DEF E, Tiers
  <2> QED BY <1>1, Greatest, CVAssumption
<1> DEFINE Top == {a \in E : a.tier = t}
           Ages == {a.created : a \in Top}
<1>3. Ages # {} /\ Ages \subseteq 0..MaxArtifacts
  <2>1. \A a \in Artifact : a.created \in 0..MaxArtifacts
    BY CVAssumption DEF Artifact
  <2> QED BY <1>1, <1>2, <2>1
<1>4. PICK c \in Ages : \A d \in Ages : d <= c
  <2> HIDE DEF Ages
  <2> QED BY <1>3, Greatest, CVAssumption
<1>5. PICK m \in Top : m.created = c
  BY <1>4
<1>6. ASSUME NEW b \in registry, Entitled(b, q)
      PROVE  m.tier > b.tier \/ (m.tier = b.tier /\ m.created >= b.created)
  <2>1. b \in E /\ b.tier \in Tiers /\ m.tier = t /\ b.tier <= t
    BY <1>2, <1>6
  <2>2. b.tier \in Int /\ m.tier \in Int /\ b.created \in Int /\ m.created \in Int
    BY <1>1, <2>1 DEF Artifact
  <2>3. b.tier = t => b.created <= c
    BY <2>1, <1>4
  <2> QED BY <2>1, <2>2, <2>3, <1>5
<1>7. m \in registry /\ Entitled(m, q)
  BY <1>5
<1> HIDE DEF E
<1> QED BY <1>6, <1>7 DEF active_artifact_for_stage

-----------------------------------------------------------------------------
(* The inductive invariant.                                                *)

\* A job that was never claimed is absent or waiting, and a claim is made once;
\* the plan is covered by its own history; the row that a preview wrote is
\* final; a worker runs a claimed CV stage,
\* past its checks behind a stage that had completed, and while the job is
\* still its own the tier it read and the artifact it chose are covered.
CVInv ==
  /\ TypeOK
  /\ IsFiniteSet(registry)
  /\ \A s \in CVs : claims[s] <= 1 /\ (job[s] \in {"none", "PENDING"} => claims[s] = 0)
  /\ \A s \in CVs : job[s] = "RUNNING" => plan <= best[s]
  /\ alpha => job[EventsStage] \in Terminal
  /\ \A w \in Workers : pc[w] # "idle" =>
       stage[w] \in CVs /\ job[stage[w]] \notin {"none", "PENDING"}
  /\ \A w \in Workers : pc[w] \in {"resolved", "selected"} =>
       job[stage[w] - 1] = "COMPLETED" \/ (stage[w] - 1 = EventsStage /\ alpha)
  /\ \A w \in Workers : job[stage[w]] = "RUNNING" =>
       /\ pc[w] = "resolved" => tier[w] <= best[stage[w]]
       /\ pc[w] = "selected" => Allowed(stage[w], chosen[w])
  /\ ChainInOrder
  /\ ResultIsEntitled

\* The job rows after the next stage was queued behind stage s.
LEMMA QueueNext ==
  ASSUME TypeOK, NEW j \in [Stages -> {"none", "PENDING", "RUNNING", "COMPLETED", "FAILED"}],
         NEW s \in Stages
  PROVE  /\ queue_next_stage(j, s) \in [Stages -> {"none", "PENDING", "RUNNING", "COMPLETED", "FAILED"}]
         /\ \A r \in Stages : \/ queue_next_stage(j, s)[r] = j[r]
                              \/ j[r] = "none" /\ queue_next_stage(j, s)[r] = "PENDING"
BY CVAssumption DEF queue_next_stage, Stages

\* Failing a job leaves every other and every finished one alone.
LEMMA FailJob ==
  ASSUME TypeOK, NEW s \in Stages
  PROVE  /\ fail_job(s) \in [Stages -> {"none", "PENDING", "RUNNING", "COMPLETED", "FAILED"}]
         /\ \A r \in Stages : \/ fail_job(s)[r] = job[r]
                              \/ job[r] \in {"PENDING", "RUNNING"} /\ fail_job(s)[r] = "FAILED"
BY DEF fail_job, TypeOK

\* An acknowledgement keeps the message counts in range.
LEMMA AckType ==
  ASSUME TypeOK, NEW s \in CVs, Ack(s)
  PROVE  messages' \in [CVs -> 0..MaxMessages]
BY CVAssumption DEF Ack, TypeOK, CVs

\* A step that finishes jobs only by failing them, and leaves the results,
\* the history and the workers that go on as they were, keeps the invariant.
LEMMA Undisturbed ==
  ASSUME CVInv, TypeOK', UNCHANGED <<plan, registry>>,
         UNCHANGED <<result, alpha, claims, best>>,
         \A r \in Stages : \/ job'[r] = job[r]
                           \/ job[r] \in {"PENDING", "RUNNING"} /\ job'[r] = "FAILED"
                           \/ job[r] = "none" /\ job'[r] = "PENDING"
                           \/ r = 0 /\ job'[r] = "COMPLETED",
         \A w \in Workers : \/ pc'[w] = "idle" /\ stage'[w] = 0
                            \/ /\ pc'[w] = pc[w] /\ stage'[w] = stage[w]
                               /\ tier'[w] = tier[w] /\ chosen'[w] = chosen[w]
                            \/ /\ pc[w] = "selected" /\ pc'[w] = "committed"
                               /\ stage'[w] = stage[w]
  PROVE  CVInv'
<1> USE CVAssumption DEF CVInv
<1>0. CVs \subseteq Stages /\ 0 \in Stages /\ 0 \notin CVs /\ EventsStage \in CVs
      /\ \A s \in CVs : s - 1 \in Stages
  BY DEF CVs, Stages
<1>1. \A r \in Stages : job[r] = "COMPLETED" => job'[r] = "COMPLETED"
  OBVIOUS
<1>2. \A r \in CVs : job'[r] \in {"none", "PENDING"} => job[r] \in {"none", "PENDING"}
  BY <1>0
<1>3. \A r \in CVs : /\ job'[r] = "COMPLETED" => job[r] = "COMPLETED"
                     /\ job'[r] = "RUNNING" => job[r] = "RUNNING"
                     /\ job[r] \in Terminal => job'[r] \in Terminal
  BY <1>0 DEF Terminal
<1>4. ChainInOrder' /\ ResultIsEntitled'
  BY <1>0, <1>1, <1>3 DEF ChainInOrder, ResultIsEntitled, CompletedByRun, Allowed
<1>5. ASSUME NEW w \in Workers, pc'[w] # "idle"
      PROVE  /\ stage'[w] = stage[w] /\ stage[w] \in CVs
             /\ job'[stage[w]] \notin {"none", "PENDING"}
             /\ job'[stage[w]] = "RUNNING" => job[stage[w]] = "RUNNING"
  BY <1>5, <1>2, <1>3
<1>6. ASSUME NEW w \in Workers, pc'[w] \in {"resolved", "selected"}
      PROVE  /\ pc'[w] = pc[w] /\ tier'[w] = tier[w] /\ chosen'[w] = chosen[w]
             /\ job'[stage[w] - 1] = "COMPLETED" \/ (stage[w] - 1 = EventsStage /\ alpha)
  BY <1>6, <1>5, <1>1, <1>0
<1> QED
  BY <1>0, <1>2, <1>3, <1>4, <1>5, <1>6 DEF Allowed

\* Every step keeps CVInv.
LEMMA CVStep == CVInv /\ [Next]_vars => CVInv'
<1> SUFFICES ASSUME CVInv, [Next]_vars PROVE CVInv'
  OBVIOUS
<1> DEFINE Status == {"none", "PENDING", "RUNNING", "COMPLETED", "FAILED"}
<1>0. /\ TypeOK /\ CVs \subseteq Stages /\ RequiredStages \subseteq CVs
      /\ \A s \in CVs : s - 1 \in Stages
      /\ 0 \in Stages /\ 0 \notin CVs /\ EventsStage \in CVs
      /\ NoArtifact \notin Artifact /\ -1 \in -1..MaxTier
  BY CVAssumption DEF CVInv, CVs, Stages, Artifact, NoArtifact
<1> USE <1>0
<1>1. CASE transcode_completes
  <2> DEFINE j == [job EXCEPT ![0] = "COMPLETED"]
  <2>1. j \in [Stages -> Status]
    BY DEF TypeOK
  <2>2. /\ job' \in [Stages -> Status]
        /\ \A r \in Stages : job'[r] = j[r] \/ (j[r] = "none" /\ job'[r] = "PENDING")
    <3>1. job' = queue_next_stage(j, 0)
      BY <1>1 DEF transcode_completes
    <3> HIDE DEF j
    <3> QED BY <2>1, <3>1, QueueNext
  <2>3. \A r \in Stages : \/ job'[r] = job[r]
                          \/ job[r] = "none" /\ job'[r] = "PENDING"
                          \/ r = 0 /\ job'[r] = "COMPLETED"
    BY <2>2 DEF TypeOK
  <2>4. UNCHANGED <<env, dispatched, result, alpha, claims, best, messages, work>>
    BY <1>1 DEF transcode_completes
  <2>5. TypeOK'
    BY <2>2, <2>4 DEF env, work, TypeOK
  <2> QED BY <2>3, <2>4, <2>5, Undisturbed DEF env, work
<1>2. ASSUME NEW s \in CVs, dispatch(s) PROVE CVInv'
  <2>1. UNCHANGED <<env, job, result, alpha, claims, best, work>>
    BY <1>2 DEF dispatch
  <2>2. messages' \in [CVs -> 0..MaxMessages]
    <3>1. messages[s] \in 0..MaxMessages /\ messages[s] < MaxMessages
          /\ messages' = [messages EXCEPT ![s] = @ + 1]
      BY <1>2 DEF dispatch, TypeOK
    <3>2. messages[s] + 1 \in 0..MaxMessages
      BY <3>1, CVAssumption
    <3> QED BY <3>1, <3>2 DEF TypeOK
  <2>3. dispatched' \in [Stages -> BOOLEAN]
    BY <1>2 DEF dispatch, TypeOK
  <2>4. TypeOK'
    BY <2>1, <2>2, <2>3 DEF env, work, TypeOK
  <2> QED BY <2>1, <2>4, Undisturbed DEF env, work
<1>3. ASSUME NEW s \in CVs, recover_stale_job(s) PROVE CVInv'
  <2>1. job' = fail_job(s)
        /\ UNCHANGED <<env, dispatched, result, alpha, claims, best, messages, work>>
    BY <1>3 DEF recover_stale_job
  <2>2. TypeOK'
    BY <2>1, FailJob DEF env, work, TypeOK
  <2> QED BY <2>1, <2>2, FailJob, Undisturbed DEF env, work
<1>4. ASSUME NEW w \in Workers, NEW s \in CVs, claim_job(w, s) PROVE CVInv'
  <2>1. CASE Claimable(s)
    <3>1. /\ UNCHANGED <<enabled, plan, registry, result, alpha, messages, tier, chosen>>
          /\ job[s] = "PENDING" /\ job' = [job EXCEPT ![s] = "RUNNING"]
          /\ dispatched' = [dispatched EXCEPT ![s] = TRUE]
          /\ claims' = [claims EXCEPT ![s] = @ + 1]
          /\ best' = [best EXCEPT ![s] = plan]
          /\ pc' = [pc EXCEPT ![w] = "claimed"]
          /\ stage' = [stage EXCEPT ![w] = s]
      BY <1>4, <2>1 DEF claim_job, Claimable, env
    <3>2. TypeOK'
      BY <3>1 DEF TypeOK
    <3>3. \A r \in Stages \ {s} : job'[r] = job[r]
      BY <3>1 DEF TypeOK
    <3>4. job'[s] = "RUNNING" /\ \A r \in CVs \ {s} : best'[r] = best[r]
      BY <3>1 DEF TypeOK
    <3>5. ChainInOrder' /\ ResultIsEntitled'
      BY <3>1, <3>3, <3>4 DEF CVInv, ChainInOrder, ResultIsEntitled, CompletedByRun, Allowed
    <3>6. (\A r \in CVs : claims[r] <= 1 /\ (job[r] \in {"none", "PENDING"} => claims[r] = 0))'
      BY <3>1 DEF CVInv, TypeOK
    <3>7. /\ (alpha => job[EventsStage] \in Terminal)'
          /\ (\A r \in CVs : job[r] = "RUNNING" => plan <= best[r])'
      BY <3>1, <3>3, <3>4, CVAssumption DEF CVInv, TypeOK, Terminal
    <3>8. ASSUME NEW u \in Workers, pc'[u] # "idle"
          PROVE  /\ stage'[u] \in CVs /\ job'[stage'[u]] \notin {"none", "PENDING"}
                 /\ pc'[u] \in {"resolved", "selected"} =>
                      job'[stage'[u] - 1] = "COMPLETED" \/ (stage'[u] - 1 = EventsStage /\ alpha')
                 /\ job'[stage'[u]] = "RUNNING" =>
                      /\ pc'[u] = "resolved" => tier'[u] <= best'[stage'[u]]
                      /\ pc'[u] = "selected" => Allowed(stage[u], chosen[u])'
      <4>1. CASE u = w
        BY <4>1, <3>1, <3>4 DEF TypeOK
      <4>2. CASE u # w
        <5>1. pc'[u] = pc[u] /\ stage'[u] = stage[u] /\ tier'[u] = tier[u] /\ chosen'[u] = chosen[u]
          BY <4>2, <3>1 DEF TypeOK
        <5>2. stage[u] \in CVs \ {s}
          BY <5>1, <3>1, <3>8 DEF CVInv
        <5> QED BY <5>1, <5>2, <3>1, <3>3, <3>4, <3>8 DEF CVInv, Allowed
      <4> QED BY <4>1, <4>2
    <3> QED BY <3>1, <3>2, <3>5, <3>6, <3>7, <3>8 DEF CVInv
  <2>2. CASE ~Claimable(s)
    <3>1. Ack(s) /\ UNCHANGED <<env, rows, work>>
      BY <1>4, <2>2 DEF claim_job, rows
    <3>2. TypeOK'
      BY <3>1, AckType DEF env, rows, work, TypeOK
    <3> QED BY <3>1, <3>2, Undisturbed DEF env, rows, work
  <2> QED BY <2>1, <2>2
<1>5. ASSUME NEW w \in Workers, check_prerequisites(w) PROVE CVInv'
  <2>1. /\ pc[w] = "claimed" /\ job[stage[w] - 1] = "COMPLETED"
        /\ pc' = [pc EXCEPT ![w] = "resolved"] /\ tier' = [tier EXCEPT ![w] = plan]
        /\ UNCHANGED <<env, rows, messages, stage, chosen>>
    BY <1>5 DEF check_prerequisites, PrerequisitesMet
  <2>2. TypeOK'
    BY <2>1 DEF env, rows, TypeOK
  <2>3. job[stage[w]] = "RUNNING" => plan <= best[stage[w]]
    BY <2>1 DEF CVInv
  <2> QED BY <2>1, <2>2, <2>3 DEF env, rows, CVInv, TypeOK, ChainInOrder, ResultIsEntitled,
             CompletedByRun, Allowed
<1>6. ASSUME NEW w \in Workers, select_artifact(w) PROVE CVInv'
  <2> DEFINE a == active_artifact_for_stage(tier[w])
             s == stage[w]
  <2>1. /\ pc[w] = "resolved" /\ s \in CVs /\ tier[w] \in -1..MaxTier
        /\ ~ArtifactMissing(s, tier[w])
        /\ pc' = [pc EXCEPT ![w] = "selected"] /\ chosen' = [chosen EXCEPT ![w] = a]
        /\ tier' = [tier EXCEPT ![w] = -1]
        /\ UNCHANGED <<env, rows, messages, stage>>
    BY <1>6 DEF select_artifact, CVInv, TypeOK
  <2>2. a = NoArtifact \/ (a \in registry /\ Entitled(a, tier[w]))
    BY <2>1, SelectedIsEntitled DEF active_artifact_for_stage
  <2>3. a \in Artifact \cup {NoArtifact}
    BY <2>2 DEF TypeOK
  <2>4. ASSUME job[s] = "RUNNING" PROVE Allowed(s, a)
    <3>1. tier[w] <= best[s] /\ best[s] \in -1..MaxTier
      BY <2>1, <2>4 DEF CVInv, TypeOK
    <3>2. s \in RequiredStages => tier[w] # -1 /\ a # NoArtifact
      BY <2>1 DEF ArtifactMissing
    <3>3. CASE a = NoArtifact
      BY <3>2, <3>3 DEF Allowed
    <3>4. CASE a \in registry /\ Entitled(a, tier[w])
      <4>1. a.commercial /\ a.tier \in 0..MaxTier /\ a.tier <= IF tier[w] = -1 THEN 0 ELSE tier[w]
        BY <3>4 DEF Entitled, TypeOK, Artifact
      <4> HIDE DEF a, s
      <4> QED BY <2>1, <3>1, <3>2, <4>1, CVAssumption DEF Allowed
    <3> QED BY <2>2, <3>3, <3>4
  <2> HIDE DEF a
  <2>5. TypeOK'
    BY <2>1, <2>3, CVAssumption DEF env, rows, TypeOK
  <2> QED BY <2>1, <2>4, <2>5 DEF env, rows, CVInv, TypeOK, ChainInOrder, ResultIsEntitled,
             CompletedByRun, Allowed
<1>7. ASSUME NEW w \in Workers, terminal_cv_failure(w) \/ on_failure(w) PROVE CVInv'
  <2>1. stage[w] \in CVs /\ job' = fail_job(stage[w]) /\ Ack(stage[w]) /\ Idle(w)
        /\ UNCHANGED <<env, dispatched, result, alpha, claims, best>>
    BY <1>7 DEF terminal_cv_failure, on_failure, CVInv
  <2>2. messages' \in [CVs -> 0..MaxMessages]
    BY <2>1, AckType
  <2>3. TypeOK'
    <3>1. job' \in [Stages -> Status]
      BY <2>1, FailJob
    <3>2. /\ pc' \in [Workers -> {"idle", "claimed", "resolved", "selected", "committed"}]
          /\ stage' \in [Workers -> Stages] /\ tier' \in [Workers -> -1..MaxTier]
          /\ chosen' \in [Workers -> Artifact \cup {NoArtifact}]
      BY <2>1 DEF Idle, TypeOK
    <3> QED BY <2>1, <2>2, <3>1, <3>2 DEF env, TypeOK
  <2>4. \A u \in Workers : \/ pc'[u] = "idle" /\ stage'[u] = 0
                           \/ /\ pc'[u] = pc[u] /\ stage'[u] = stage[u]
                              /\ tier'[u] = tier[u] /\ chosen'[u] = chosen[u]
    BY <2>1 DEF Idle, TypeOK
  <2> QED BY <2>1, <2>3, <2>4, FailJob, Undisturbed DEF env
<1>8. ASSUME NEW w \in Workers, complete_job(w) PROVE CVInv'
  <2> DEFINE s == stage[w]
             j == IF job[s] = "RUNNING" THEN [job EXCEPT ![s] = "COMPLETED"] ELSE job
  <2>1. /\ s \in CVs /\ pc[w] = "selected"
        /\ job[s - 1] = "COMPLETED" \/ (s - 1 = EventsStage /\ alpha)
        /\ job[s] = "RUNNING" => Allowed(s, chosen[w])
    BY <1>8 DEF complete_job, CVInv
  <2>2. j \in [Stages -> Status]
    BY <2>1 DEF TypeOK
  <2>3. job' = queue_next_stage(j, s)
    BY <1>8 DEF complete_job
  <2> HIDE DEF j
  <2>4. /\ job' \in [Stages -> Status]
        /\ \A r \in Stages : job'[r] = j[r] \/ (j[r] = "none" /\ job'[r] = "PENDING")
    <3>1. s \in Stages
      BY <2>1
    <3> HIDE DEF s
    <3> QED BY <3>1, <2>2, <2>3, QueueNext
  <2>5. result' = IF job[s] = "RUNNING" THEN [result EXCEPT ![s] = chosen[w]] ELSE result
    BY <1>8 DEF complete_job
  <2>6. UNCHANGED <<env, dispatched, alpha, claims, best, messages, stage, tier, chosen>>
        /\ pc' = [pc EXCEPT ![w] = "committed"]
    BY <1>8 DEF complete_job
  <2>7. TypeOK'
    BY <2>1, <2>4, <2>5, <2>6 DEF env, TypeOK
  <2>8. CASE job[s] # "RUNNING"
    <3>1. \A r \in Stages : job'[r] = job[r] \/ (job[r] = "none" /\ job'[r] = "PENDING")
      BY <2>4, <2>8 DEF j
    <3>2. \A u \in Workers : \/ pc'[u] = pc[u] \/ (pc[u] = "selected" /\ pc'[u] = "committed")
      BY <2>1, <2>6 DEF TypeOK
    <3> QED BY <2>5, <2>6, <2>7, <2>8, <3>1, <3>2, Undisturbed DEF env
  <2>9. CASE job[s] = "RUNNING"
    <3>1. /\ job'[s] = "COMPLETED"
          /\ \A r \in Stages \ {s} : job'[r] = job[r] \/ (job[r] = "none" /\ job'[r] = "PENDING")
      BY <2>1, <2>4, <2>9 DEF j, TypeOK
    <3>2. result'[s] = chosen[w] /\ \A r \in CVs \ {s} : result'[r] = result[r]
      BY <2>1, <2>5, <2>9 DEF TypeOK
    <3>3. \A r \in Stages : job[r] = "COMPLETED" => job'[r] = "COMPLETED"
      BY <3>1
    <3>4. ChainInOrder'
      BY <2>1, <2>6, <3>1, <3>3 DEF CVInv, ChainInOrder, CompletedByRun
    <3>5. ResultIsEntitled'
      BY <2>1, <2>6, <2>9, <3>1, <3>2 DEF CVInv, ResultIsEntitled, CompletedByRun, Allowed
    <3>6. (\A r \in CVs : claims[r] <= 1 /\ (job[r] \in {"none", "PENDING"} => claims[r] = 0))'
      BY <2>6, <3>1 DEF CVInv
    <3>7. /\ (alpha => job[EventsStage] \in Terminal)'
          /\ (\A r \in CVs : job[r] = "RUNNING" => plan <= best[r])'
      BY <2>6, <3>1 DEF env, CVInv, Terminal
    <3>8. ASSUME NEW u \in Workers, pc'[u] # "idle"
          PROVE  /\ stage'[u] \in CVs /\ job'[stage'[u]] \notin {"none", "PENDING"}
                 /\ pc'[u] \in {"resolved", "selected"} =>
                      job'[stage'[u] - 1] = "COMPLETED" \/ (stage'[u] - 1 = EventsStage /\ alpha')
                 /\ job'[stage'[u]] = "RUNNING" =>
                      /\ pc'[u] = "resolved" => tier'[u] <= best'[stage'[u]]
                      /\ pc'[u] = "selected" => Allowed(stage[u], chosen[u])'
      <4>1. pc[u] # "idle" /\ stage[u] \in CVs /\ (pc'[u] # "committed" => pc'[u] = pc[u])
        BY <2>1, <2>6, <3>8 DEF CVInv, TypeOK
      <4>2. job'[stage[u]] = "RUNNING" => job[stage[u]] = "RUNNING"
        BY <3>1, <4>1
      <4>3. job'[stage[u]] \notin {"none", "PENDING"}
        BY <3>1, <4>1 DEF CVInv
      <4> QED BY <2>6, <3>3, <4>1, <4>2, <4>3 DEF CVInv, Allowed
    <3> QED BY <2>6, <2>7, <3>4, <3>5, <3>6, <3>7, <3>8 DEF env, CVInv
  <2> QED BY <2>8, <2>9
<1>9. ASSUME NEW w \in Workers, stage_returns(w) \/ worker_lost(w) PROVE CVInv'
  <2>1. Idle(w) /\ UNCHANGED <<env, rows>> /\ stage[w] \in CVs
        /\ (Ack(stage[w]) \/ UNCHANGED messages)
    BY <1>9 DEF stage_returns, worker_lost, CVInv
  <2>2. messages' \in [CVs -> 0..MaxMessages]
    BY <2>1, AckType DEF TypeOK
  <2>3. TypeOK'
    BY <2>1, <2>2, CVAssumption DEF Idle, env, rows, TypeOK
  <2>4. \A u \in Workers : \/ pc'[u] = "idle" /\ stage'[u] = 0
                           \/ /\ pc'[u] = pc[u] /\ stage'[u] = stage[u]
                              /\ tier'[u] = tier[u] /\ chosen'[u] = chosen[u]
    BY <2>1 DEF Idle, TypeOK
  <2> QED BY <2>1, <2>3, <2>4, Undisturbed DEF env, rows
<1>10. CASE redeploy
  <2>1. enabled' \in BOOLEAN /\ UNCHANGED <<plan, registry, rows, messages, work>>
    BY <1>10 DEF redeploy, TypeOK
  <2>2. TypeOK'
    BY <2>1 DEF rows, work, TypeOK
  <2> QED BY <2>1, <2>2, Undisturbed DEF rows, work
<1>11. CASE change_plan
  <2>1. /\ plan' \in -1..MaxTier
        /\ best' = [s \in CVs |-> IF job[s] = "RUNNING" /\ best[s] < plan' THEN plan' ELSE best[s]]
        /\ UNCHANGED <<enabled, registry, job, dispatched, result, alpha, claims, messages, work>>
    BY <1>11 DEF change_plan
  <2>2. TypeOK'
    BY <2>1 DEF work, TypeOK
  <2>3. \A s \in CVs : /\ best[s] <= best'[s] /\ best'[s] \in Int /\ best[s] \in Int
                       /\ job[s] = "RUNNING" => plan' <= best'[s]
    BY <2>1, CVAssumption DEF TypeOK
  <2>4. \A s \in CVs, a \in Artifact \cup {NoArtifact} : Allowed(s, a) => Allowed(s, a)'
    <3> SUFFICES ASSUME NEW s \in CVs, NEW a \in Artifact \cup {NoArtifact}, Allowed(s, a)
                 PROVE  Allowed(s, a)'
      OBVIOUS
    <3>1. a.tier \in Int
      BY CVAssumption DEF Artifact, NoArtifact
    <3>2. a.tier <= best[s] => a.tier <= best'[s]
      BY <2>3, <3>1
    <3> QED BY <3>2 DEF Allowed
  <2>5. ResultIsEntitled'
    BY <2>1, <2>4 DEF CVInv, TypeOK, ResultIsEntitled, CompletedByRun
  <2>6. ASSUME NEW w \in Workers, job[stage[w]] = "RUNNING"
        PROVE  /\ pc[w] = "resolved" => tier[w] <= best'[stage[w]]
               /\ pc[w] = "selected" => Allowed(stage[w], chosen[w])'
    <3>1. CASE pc[w] = "resolved"
      <4>1. tier[w] \in Int /\ stage[w] \in CVs /\ tier[w] <= best[stage[w]]
        BY <2>6, <3>1 DEF CVInv, TypeOK
      <4>2. best[stage[w]] \in Int /\ best'[stage[w]] \in Int /\ best[stage[w]] <= best'[stage[w]]
        BY <4>1, <2>3
      <4> QED BY <3>1, <4>1, <4>2
    <3>2. CASE pc[w] = "selected"
      <4>1. chosen[w] \in Artifact \cup {NoArtifact} /\ stage[w] \in CVs /\ Allowed(stage[w], chosen[w])
        BY <2>6, <3>2 DEF CVInv, TypeOK
      <4>2. Allowed(stage[w], chosen[w])'
        BY <4>1, <2>1, <2>4 DEF work, Allowed
      <4> QED BY <3>2, <4>2
    <3> QED BY <3>1, <3>2
  <2>7. \A w \in Workers : job'[stage'[w]] = "RUNNING" =>
          /\ pc'[w] = "resolved" => tier'[w] <= best'[stage'[w]]
          /\ pc'[w] = "selected" => Allowed(stage[w], chosen[w])'
    BY <2>1, <2>6 DEF work
  <2>8. \A s \in CVs : job'[s] = "RUNNING" => plan' <= best'[s]
    BY <2>1, <2>3
  <2> HIDE DEF Status
  <2> QED BY <2>1, <2>2, <2>5, <2>7, <2>8 DEF work, CVInv, ChainInOrder, CompletedByRun
<1>12. CASE sync_alpha_candidate_tags
  <2>1. /\ \E outcome \in Terminal : job' = [job EXCEPT ![EventsStage] = outcome]
        /\ dispatched' = [dispatched EXCEPT ![EventsStage] = TRUE]
        /\ result' = [result EXCEPT ![EventsStage] = NoArtifact]
        /\ alpha' = TRUE
        /\ UNCHANGED <<env, claims, best, messages, work>>
    BY <1>12 DEF sync_alpha_candidate_tags
  <2>2. TypeOK'
    BY <2>1 DEF env, work, TypeOK, Terminal
  <2>3. job'[EventsStage] \in Terminal /\ \A r \in Stages \ {EventsStage} : job'[r] = job[r]
    BY <2>1 DEF TypeOK
  <2>4. \A r \in CVs \ {EventsStage} : result'[r] = result[r]
    BY <2>1 DEF TypeOK
  <2>5. ChainInOrder' /\ ResultIsEntitled'
    BY <2>1, <2>3, <2>4 DEF CVInv, ChainInOrder, ResultIsEntitled, CompletedByRun, Allowed
  <2>6. (\A r \in CVs : /\ claims[r] <= 1 /\ (job[r] \in {"none", "PENDING"} => claims[r] = 0)
                        /\ job[r] = "RUNNING" => plan <= best[r])'
    BY <2>1, <2>3 DEF env, CVInv, Terminal
  <2>7. ASSUME NEW w \in Workers, pc[w] # "idle"
        PROVE  /\ job'[stage[w]] \notin {"none", "PENDING"}
               /\ job'[stage[w]] = "RUNNING" => job[stage[w]] = "RUNNING"
               /\ pc[w] \in {"resolved", "selected"} =>
                    job'[stage[w] - 1] = "COMPLETED" \/ stage[w] - 1 = EventsStage
    BY <2>3, <2>7 DEF CVInv, Terminal
  <2> QED BY <2>1, <2>2, <2>3, <2>5, <2>6, <2>7 DEF env, work, CVInv, Allowed
<1>13. CASE register_artifact \/ retire_artifact
  <2>1. UNCHANGED <<enabled, plan, rows, messages, work>>
    BY <1>13 DEF register_artifact, retire_artifact
  <2>2. registry' \subseteq Artifact /\ IsFiniteSet(registry')
    <3>1. CASE register_artifact
      <4>1. PICK t \in 0..MaxTier, c \in BOOLEAN : registry' = registry \cup
             {[tier |-> t, created |-> Cardinality(registry) + 1, commercial |-> c, active |-> TRUE]}
        BY <3>1 DEF register_artifact
      <4>2. Cardinality(registry) + 1 \in 1..MaxArtifacts
        BY <3>1, FS_CardinalityType, CVAssumption DEF register_artifact, CVInv
      <4>3. [tier |-> t, created |-> Cardinality(registry) + 1, commercial |-> c, active |-> TRUE] \in Artifact
        BY <4>2 DEF Artifact
      <4> QED BY <4>1, <4>3, FS_AddElement DEF CVInv, TypeOK
    <3>2. CASE retire_artifact
      <4>1. PICK a \in registry : registry' = (registry \ {a}) \cup {[a EXCEPT !.active = FALSE]}
        BY <3>2 DEF retire_artifact
      <4>2. registry' \subseteq Artifact
        BY <4>1 DEF TypeOK, Artifact
      <4> QED BY <4>1, <4>2, FS_AddElement, FS_RemoveElement DEF CVInv
    <3> QED BY <1>13, <3>1, <3>2
  <2> QED BY <2>1, <2>2 DEF rows, work, CVInv, TypeOK, ChainInOrder, ResultIsEntitled,
             CompletedByRun, Allowed
<1>14. CASE UNCHANGED vars
  BY <1>14 DEF vars, env, rows, work, CVInv, TypeOK, ChainInOrder, ResultIsEntitled,
     CompletedByRun, Allowed
<1> QED
  BY <1>1, <1>2, <1>3, <1>4, <1>5, <1>6, <1>7, <1>8, <1>9, <1>10, <1>11, <1>12, <1>13, <1>14 DEF Next

\* The invariant holds in every reachable state of every instance.
THEOREM CVSafe == Spec => []CVInv
<1>1. Init => CVInv
  <2> SUFFICES ASSUME Init PROVE CVInv
    OBVIOUS
  <2>1. 0 \in Stages /\ -1 \in -1..MaxTier /\ 0 \in 0..MaxMessages
    BY CVAssumption DEF Stages
  <2>2. TypeOK
    BY <2>1 DEF Init, TypeOK
  <2>3. CVs \subseteq Stages \ {0} /\ EventsStage \in CVs /\ \A s \in CVs : job[s] = "none"
    BY CVAssumption DEF Init, CVs, Stages
  <2>4. /\ alpha = FALSE /\ registry = {} /\ \A s \in CVs : claims[s] = 0
        /\ \A w \in Workers : pc[w] = "idle"
    BY DEF Init
  <2> QED
    BY <2>2, <2>3, <2>4, FS_EmptySet DEF CVInv, ChainInOrder, ResultIsEntitled, CompletedByRun
<1> QED
  BY <1>1, CVStep, PTL DEF Spec

\* A run completes its stage behind a completed one, but for METRICS behind an
\* EVENTS row that a demo preview wrote, whatever the sweep, a late worker or
\* a preview did in between.
THEOREM ChainSafe == Spec => []ChainInOrder
<1>1. CVInv => ChainInOrder
  BY DEF CVInv
<1> QED
  BY <1>1, CVSafe, PTL

\* A run's result names an entitled model, though the plan and the registry
\* may change at every step of the run.
THEOREM EntitledSafe == Spec => []ResultIsEntitled
<1>1. CVInv => ResultIsEntitled
  BY DEF CVInv
<1> QED
  BY <1>1, CVSafe, PTL

\* No stage is run twice, however often its message is delivered.
THEOREM OnceSafe == Spec => []StageRunsOnce
<1>1. CVInv => StageRunsOnce
  BY DEF CVInv, StageRunsOnce
<1> QED
  BY <1>1, CVSafe, PTL
=============================================================================
