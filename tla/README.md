# NextBallUp: a TLA+ verification project

NextBallUp is a basketball video platform: coaches upload game film, a worker
turns it into a browser-playable mezzanine (and, where enabled, runs a
computer-vision pipeline over it), and the web client plays, clips and reviews
it. A FastAPI service (`apps/api`), Celery workers with a beat scheduler
(`apps/worker`), PostgreSQL, Redis and S3-compatible storage share the work.

The interesting part is what these processes do to the same rows and the same
objects: requests lock rows, sweeps mostly do not, Celery delivers at least
once, storage calls cannot be rolled back, and time moves everything. The
modules here model that part from the source, TLC checks them on small
instances, and TLAPS proves every safety property that TLC checks, for every
instance.

Paths below are relative to the repository; `videos.py` is
`apps/api/src/nextballup_api/routers/videos.py`, and `runtime/` is
`apps/worker/src/nextballup_worker/runtime/`.

## 1. Inventory

| Component | State it keeps | Operations | Shared with | What makes it correct |
|---|---|---|---|---|
| **Transcode pipeline** (`runtime/transcode.py`, `runtime/jobs.py`, `tasks.py`) | `videos.status`, `storage_key_mezzanine`; `processing_jobs.status`, `celery_task_id`, `heartbeat_at`; the mezzanine object | claim, start, verify, encode, materialise, complete; release for retry, fail, `on_failure` | dispatcher, stale-job sweep, recovery endpoints | the two rows agree; terminal results are final; no claim is held for ever; a late run does no harm |
| **Dispatcher** (`runtime/dispatch.py`) | `celery_task_id`, the broker's queue | select, enqueue, record | pipeline, requeue | every PENDING job is run |
| **Stale-job recovery** (`runtime/cleanup.py` 46-112) | job and video status | select, fail the job, fail the video | pipeline | a crashed worker's job settles |
| **Upload and quota** (`videos.py` 880-1490, `billing.py`) | `PENDING_UPLOAD` rows, raw objects, open multipart uploads, the usage ledger | initiate, PUT, complete, cancel-upload, delete, requeue, abandoned-upload sweep | pipeline, retention, billing | one slot per upload, given back once unless the sweep's unlocked release strays; uploads stay within the plan but for those; no slot is kept for ever |
| **Raw retention** (`runtime/cleanup.py` 195-402) | `raw_*` columns, the raw object | retention sweep, retry sweep, DELETE, requeue | upload, pipeline | the recorded deletion is real; nothing goes early; what expired goes |
| **CV stages** (`runtime/cv_pipeline.py`) | a job per stage, the model registry, the plan's tier | queue the next stage, select a model, run, complete, fail | pipeline, dispatcher, sweep, demo preview (which writes the EVENTS row) | a stage runs once, on a completed stage, with an entitled model; the chain ends |
| **Demo preview** (`packages/core/.../demo_preview.py`, `runtime/demo_preview.py`, `nextballup_api/demo_preview.py`) | state file, three lock files, `demo_preview_*` columns, the artifact and its candidate events | queue, render, upload, import, cancel, stale repair, expiry | videos, events | one render per machine; one task under way; the row ends; tags belong to the preview shown |
| **Sessions and tokens** (`routers/auth.py`, `deps.py`, `security/jwt.py`) | `users.session_version`, password, refresh sessions | register, login, refresh with rotation, replay handling, logout, reset, disable TOTP, delete | account, MFA, playback | one live refresh session per family; revoked tokens stop validating |
| **Password reset, email verification** (`password_reset.py`, `email_verification.py`) | single-use tokens | issue, supersede, deliver, consume, prune | sessions, email | a token works once; one reset link; a resend ends the links before it |
| **MFA** (`routers/mfa.py`) | secret, last TOTP counter, recovery codes | setup, confirm, verify, disable | sessions | a code works once; one batch of recovery codes; an enabled secret was proven |
| **Account deletion, export** (`routers/auth.py`) | the user's rows | delete, export | sessions, links, MFA, teams | deleted means signed out and off the rosters |
| **Teams, invites, consents** (`routers/teams.py`) | memberships, invite use counts, consents | found, invite, join, delete | games, videos, accounts | `use_count` is the seats taken; one seat per user, one user per number |
| **Games** (`routers/games.py`) | game rows | create, patch | teams, videos | terminal games stay; the shot clock is consistent |
| **Events and clips** (`videos.py` 1692-2117, `packages/clip_engine`) | event rows, windows, review status | tag, review, trim, import, page, propose, export | demo preview | pages neither skip nor repeat; windows stay inside the video |
| **Playback tokens** | none (JWT) | mint, check | sessions | stop validating with the session |
| **Web client** (`apps/web`) | the upload form's run, part workers, the refresh in flight | submit, cancel, leave, upload parts, complete; refresh on 401 | API, storage | the form shows the run it belongs to; a given-up video is cancelled; no self-inflicted replay |
| **Rate limiting** | Redis counters | check and count | every route | within the limit; fail-open or fail-closed as configured |
| **CSRF, cookies, headers, tenant isolation, audit, admin, health, marketing, email, settings, seed, schema** | configuration or append-only rows | request checks, inserts | all | stateless, or the database's own constraints |

### How the components interact

`POST /videos/upload` reserves a ledger slot and issues a presigned URL; the
client stores the file without the API; `POST /complete` verifies the object
and inserts the transcode job. Beat starts the dispatcher, which enqueues a
Celery message and then records its id on the job. A worker claims the job by
that id, moves the video, writes the mezzanine and completes both rows. Coaches
may cancel, requeue or delete at any time. Beat tasks act on what they find: undispatched jobs, stale heartbeats, abandoned uploads, expired
originals and deletes to be retried. A completed transcode may queue the first
CV stage, and each stage the next. A coach may ask for a detector preview of a
processed video, whose worker imports candidate events that coaches then
review. The web client drives uploads and refreshes its session when a call is
refused. Requests lock the video row and then the
job row `FOR UPDATE`; workers and sweeps rely on guarded UPDATEs.

### What is hard

* **Interleaving.** Rows are selected without a lock, or with one that the
  first commit in a loop releases, and acted on later
  (`dispatch.py`, `cleanup.py`).
* **At-least-once delivery.** `acks_late` and `reject_on_worker_lost` run the
  same message twice, under the same task id; a retry keeps the id too.
* **Irreversible effects.** Storage deletes and multipart completion happen
  before, after or between commits, and use keys every run shares.
* **Partial failure.** A second UPDATE follows a first that matched nothing;
  DELETE removes some objects and fails on others.
* **Time.** Heartbeats, upload windows, URL lifetimes, retention and quota
  periods race the actors that rely on them.

* **Stale reads.** Requests keep what their first query loaded and write it
  back later (`session_version`, a game, an event window, an MFA secret); the
  ORM writes only the attributes that differ from what was loaded, so two valid
  updates combine.
* **Coroutines.** In the browser a cancelled upload goes on until its next
  await, beside the upload started after it.

`PROJECT.json` lists the hazards one by one with their lines and the
properties that cover them.

## 2. Modules

| Module | Models | Composes |
|---|---|---|
| `VideoLifecycle` | what the API promises of one video: status and playback key | — (abstract specification) |
| `TranscodePipeline` | one video and its job: API, dispatchers, broker, workers, stale-job sweep | instantiates `VideoLifecycle` |
| `UploadQuota` | the uploads of one billing account, requests and abandoned-upload sweep | the pipeline as one step (`transcode`) |
| `RawRetention` | the raw object of one video, any number of overlapping sweeps | upload and pipeline as one step each |
| `CVStages` | the CV stages of one video with dispatcher, broker, workers and stale-job sweep | the transcode as stage 0 |
| `DemoPreview` | the preview of one video: API, lock files, state file, row, workers, sweep | — |
| `AuthSessions` | the credentials of one user and the requests that issue, rotate and revoke them | — |
| `AccountTokens` | reset and verification links of one user | account deletion as one step |
| `Mfa` | TOTP enrolment and recovery codes of one user | login as its second factor |
| `Teams` | one team: founding, invites, joins, deletions | — |
| `Games` | a game of the team | extends `Teams` |
| `EventReview` | the candidate events of one video, their pages, clips and exports | the demo preview's import as one step |
| `ApiClient` | the API calls of one browser tab and the refresh they share | the session as generations of cookies |
| `UploadClient` | the upload form | extends `ApiClient`; the upload endpoints as one step each |
| `TranscodePipelineProofs`, `UploadQuotaProofs`, `CVStagesProofs`, `AuthSessionsProofs`, `UploadClientProofs`, `TeamsProofs` (with `Games`) | the theorems about them | extend the module they are about |
| `ProcessedVideoProofs` | the theorems about `RawRetention`, `DemoPreview` and `EventReview` | extends the three, whose proofs do not use each other |
| `AccountProofs` | the theorems about `AccountTokens` and `Mfa` | extends both |
| `MC*` | sets, symmetry and constants for TLC | extend the module they check |

**Granularity.** An action is one database transaction with the storage call it
contains, unless something can happen in between. It can (a) after an
unlocked SELECT, (b) after a commit, (c) after an UPDATE that matched no row,
since PostgreSQL under READ COMMITTED then holds no lock, and (d) around a
storage call made outside a lock. At each of those points the model has a
program counter: `pc`, `dispatchPc`, `sweeperPc`, `request`, `cleanupPc`,
`sweepPc`, the slots of requests (`join`, `patch`, `review`, `op`). A request that fails
rolls its rows back and leaves what the storage did.

**Names.** Variables and actions keep the source's names (`claim_job`,
`release_job_for_retry`, `set_video_status`, `cleanup_abandoned_uploads`'s
steps as `cleanup_*`). The operators whose comment begins with "Mutant" are
faulty versions of the definition after them; no specification uses them.

### TranscodePipeline

State: the video row (`videoStatus`, `mezzanineKey`), the job row
(`jobStatus`, `celeryTaskId`, `heartbeatFresh` for the age of
`heartbeat_at`), the object under `storage_key_for_mezzanine`
(`mezzObject`; its key depends on team and video only, so all runs share it),
the broker's messages `<<task id, retries>>`, and where each worker,
dispatcher and the sweep are.

* `complete_upload`, `cancel_processing`, `requeue_processing`,
  `delete_failed_video` (and its failing form) are the endpoints of `videos.py`.
* `dispatch_select`, `dispatch_enqueue`, `dispatch_record`, `dispatch_abort`
  are the loop body of `dispatch_pending_jobs`: the message is out before the
  row knows its id.
* `claim_job` … `complete_job` are `execute_transcode`; an exception inside its
  `try` goes to `handle_task_failure` (ownership test, then release or fail),
  one outside goes to `terminal_failure`, the `on_failure` hook, which tests
  no ownership.
* `redeliver`, `crash`, `lose` are the broker and the process; `heartbeat_ages`
  is time.
* `recover_*` is `recover_stale_jobs`.

ffmpeg, probing and storage verification are one step that succeeds or fails.

### UploadQuota

State per video: row (`status`, `size`, `multipart`, `hasJob`, `expired`),
storage (`rawObject`, `multipartOpen`), ledger balance `net`, the request that
holds its row lock; per account: `used`, the sum the quota check reads, which
starts anywhere within the plan (uploads finalised earlier). Two history
variables guard nothing: `base`, what `used` was before these uploads, and
`stray`, the uploads whose slot the sweep gave back although its UPDATE had
found them no longer pending. With them the properties say exactly what each
row's slot is worth and how far the rows may exceed the plan. One sweep runs at
a time. `/complete` is five steps because it holds the
lock across a multipart completion and a verification that can fail
separately. `release_video_upload_quota_reservation` is one step under a lock
and a read and an insert (`cleanup_unmatched`, `cleanup_release`) without one.
`QUEUED` stands for QUEUED and PROCESSING here and in `RawRetention`: nothing
in these components tells them apart.

### RawRetention

State: the `raw_*` columns as booleans, the stored object, whether the
presigned URL still works, two history variables (`userAsked`: a coach called
DELETE; `lateUpload`: the client uploaded after that), and a step per sweep.
The retention sweep commits its intent (`retention_mark`), deletes
(`sweep_delete`), and records (`sweep_record`); the retry sweep starts at the
delete. Both lock with SKIP LOCKED, but the first commit of a sweep releases
every row it selected, so the model holds no lock between the steps. It does
not distinguish the first row of a batch, which is better protected: its
behaviours are among those of the others.

### CVStages

`job[s]` is the row of stage `s`. Two histories stand beside it: `claims[s]`
counts the runs that got past `claim_job`, `best[s]` is the highest tier the
team's plan had while the stage ran. A worker reads the plan, then selects the
best active artifact for it, then completes; the plan changes at any time (a
subscription ends, is upgraded or downgraded; no plan counts as tier 0), and so
does the registry. CV jobs are never released, so a failed stage ends the
chain; the sweep may fail a stage whose worker is alive and goes on to queue
the next one, which then finds no completed predecessor. The broker duplicates
messages and loses none: a lost message is `TranscodePipeline`'s subject.

`sync_alpha_candidate_tags` is the other writer of one of these rows: a demo
preview with candidate tags takes the EVENTS row from whatever status it has,
or creates it, and leaves it COMPLETED or FAILED in one transaction, asking for
no predecessor, model or plan. `alpha` remembers that the row's
`result_metadata` is a preview's. So an EVENTS row may go from FAILED to
COMPLETED and back, be completed without a model where one is required, and
METRICS may rest on a row that no run completed; `ChainInOrder` and
`ResultIsEntitled` speak of the stages completed by a run of theirs and except
only that. Both features can be on in one deployment (tags need development,
test or staging, `settings.py` 540-550; the pipeline needs nothing). When preview and chain both insert the row, the
loser's transaction fails: for the chain that is `on_failure`.

### DemoPreview

Progress is kept in a state file and in the video row; the model has both, the
queue, run and machine lock files with their age (fresh or past
`cv_demo_timeout_seconds + 60`), and the steps of the request and of the
worker between which another process may act. `mode` tells the three
deployments apart (shared disk, alpha candidates, no storage). History
variables mark what the code does not defend against: `broken` (the lock of a
live render was taken for an old one), `disowned` (the state no longer speaks
for a task under way), `late` (the worker acted before the request's commit). A
cancellation is two steps, since it reads the row without a lock: it may fail a
row that was completed, or queued again, after it looked. One cancellation is
under way at a time.

### AuthSessions, AccountTokens, Mfa

One user each. A request is a slot with a program counter, what it has read
and what it has not committed. `AuthSessions` has the row locks on the user and
on `refresh_sessions`, the snapshot of an UPDATE that then waits, and
`lostUpdate`, the history of two revocations that overlapped. A token is the
version and the password it was issued under; access, refresh and playback
tokens differ in nothing else that matters here. `AccountTokens` keeps the two
kinds of link apart by their locks; its history `older` says which verification
links were live when the issuing of a link began. In `Mfa` a code is the secret
and the step it was computed for; `stale` is the history of a setup, a confirm
or a disable committed over a row it had not loaded. The deletion of the second
factor's rows with the account is not in `Mfa`.

### Teams and Games

A join is three steps of one transaction, an account deletion two; refused
requests change nothing and are not steps. A seat remembers the invite it was
taken with (`via`), which the code does not store. A patch of a game loads the
row, checks it, and writes what differs at its commit.

### EventReview

Event times, windows and the video's duration are counted in a unit the MC
module chooses (about 15 s), with the code's limits (default windows, the
minimum and the maximum trim) in that unit. A report may hold windows that
end before they start; the import skips those (`validated_candidates`). A
listing is the only sequence of its rows in the order of the query
(`ordered`). `reader` follows `next_cursor`
through the listing while events change; `steady` is the set of events that
have belonged to the listing since it began. Exports are operators over the
rows, checked in every reachable state, and so is the clip queue: `proposals`
is the set of queues a request may get, since rows at the same frame come in
any order. A request for `QueueLimit` clips reads `QueueFactor` times as many
waiting rows by frame, ranks them and cuts (`videos.py` 2451-2471,
`proposals.py` 124). The code allows 100 clips from 4 times as many rows; the
run asks for 1 from 2, so that both cuts happen with three rows. A row's rank
(its type and confidence) does not change and is a constant per id. A report
lists up to `MaxReport` candidates, 100 in the code and 2 in the run.

### ApiClient and UploadClient

A call is pending, waits for the refresh, or is settled; its request and its
answer travel on their own (`wire`, `answer`), so an aborted call may still
reach the server. The session is a generation number: one answer sets both
cookies. A run of the form is a coroutine with a program counter; `abortRun`
settles its parts and the call that is out at once, a call that waits for a
refresh only when the refresh ends. The part workers need no identity: a
worker is a part being sent. Rendering is not modelled: the button is drawn in
the phases of `Cancelable`, its handler asks only for an active run, and a click
may come before "finalizing" is drawn; it then aborts a run whose `/complete`
is out, and the form says "cancelled" of a video the server may have queued.

## 3. What TLC checks

Twelve runs, all passing (from a few seconds to about three minutes each). A
module's type invariant is checked as the first conjunct of one of its
invariants (`SessionsInv`, `LiveLinks`, `EnrolmentSound`, `OneAtATime`,
`RosterExact`, `WindowsSound`, `FormTruthful`) or proved (section 4):

| Run | Bounds | Shows |
|---|---|---|
| `transcode_requeue` | 2 workers, 1 dispatcher, 2 task ids, no Celery retry, lossy broker | `RowsAgree`, `TerminalIsFinal`, and that the pipeline implements `VideoLifecycle`, with every other fault and every recovery endpoint |
| `transcode_liveness` | 1 worker, 1 task id, 1 retry, lossy broker, fair | a failed job can always be requeued; no claim is held for ever, no undispatched job stays so |
| `upload_quota` | 2 videos, 2 sizes, 2 slots of which earlier uploads may hold any number, fair | uploads within the plan but for stray releases, the exact slot of every upload, no cancelled upload coming back, every reserved slot used or given back, also after a multipart upload the storage no longer knows |
| `retention` | 2 retention sweeps and a retry sweep, crashes, fair | a recorded deletion is real, nothing goes before its window or a request, and an expired original is deleted at last |
| `cv_stages` | the transcode and 2 CV stages, 2 workers, 2 messages per stage, the first of them EVENTS, a registry of 1 artifact, a plan that changes, fair | stages run once, in order, with models a plan of their time allowed, beside the preview's writes; every queued stage ends |
| `demo_preview` | 2 tasks, all three deployments, 1 retry, 2 of death, cancellation and ageing, fair | one render at a time, one task under way, tags matching the preview, every open row closed |
| `auth_sessions` | 2 concurrent requests of 8 kinds, 3 refresh rows, 3 session versions, 1 reset | one live token per login; what was revoked, and what an old password obtained, stays dead |
| `account_tokens` | 2 concurrent requests, 3 links of two kinds | one reset link, no verification link that survives a later resend, each link once, failed links and links of deleted accounts dead |
| `mfa` | 2 concurrent requests, 2 secrets, 2 batches, 3 steps | one batch of recovery codes; a code and a step log in once; what is enabled was proven |
| `teams` | 2 coaches, 2 players, 1 admin, 2 concurrent requests, budgets for invites, joins, games and endings | use counts exact, seats unique, head coaches invited by head coaches, deleted people gone, game clock consistent |
| `event_review` | 3 event ids, 2 concurrent reviews, four mixes of tags, imports, reviews and listings, pages of 1, a queue of 1 from 2 rows read, a video of 4 units | pages advance and miss nothing; moments and windows inside; the queue complete or full, and ranked; exports inside the video |
| `upload_client` | 2 runs, 3 parts, 2 part workers, 1 expiry, fair | the form follows its run; videos given up before `/complete` are cancelled; no self-replay; every run ends |

Two workers together with Celery retries have too many states to enumerate in
minutes; the theorems of section 4 cover that combination.

**Why these bounds are enough to be interesting.** Every race above is between
two actors: two runs of one job, a run and a coach, a sweep and a request, two
sweeps, two requests of one user. Two task ids are the least that lets a
requeued job meet the run before it, one id the least that lets a retry meet
its own redelivery; more ids only rename. A task id nobody holds any more may
be drawn again, which stands for a new uuid. Two videos are the least that
compete for a slot or for bytes, and two sizes let one fit where the other does
not. `MaxRetries` is 0 or 1: the interesting boundary is the last retry. Three
parts over two workers is the least where one worker goes on while another has
failed. In `teams` the constant `Budgets` bounds how many invites, joins, games
and deletions a behaviour has; without it the product of independent requests
is too large, and each race needs at most two of a kind. Symmetry is used in
safety runs only, over sets the specification does not order.

**Deadlock** is not checked: a processed, failed or deleted video with idle
workers is the system at rest, and so is a user or a team nobody acts on. That
nothing gets stuck on the way is what the liveness properties say.

**Fairness.** Beat starts the dispatcher and the sweeps on a fixed schedule
(`celery_app.py` 92-111), so a sweep that may run, runs; an attempt can be
spoiled by a crash, a broker outage or a storage error, but not every attempt,
hence strong fairness on what is attempted again, and, for the
abandoned-upload sweep, the condition that its runs die only finitely often. A
live worker polls its queue and its run makes progress (subprocesses have
timeouts), hence weak fairness on its steps. Requests end (client and server
timeouts), time passes, and PostgreSQL queues lock waiters, hence strong
fairness on the cleanup that waits for a row. The browser runs what is ready
and every request it has out ends with an answer or an error. No fairness is
assumed of coaches, clients, faults or message loss.

### Where the properties stop

While modelling, behaviours of the code turned up that its comments or
documents do not expect. No run is about them; the properties are stated so
that they hold beside them, with a history variable or an exception that names
the case.

Videos and uploads:

* A run that lost its claim deletes its output by key, and the key is also the
  finished run's (`transcode.py` 416); a dispatcher that records its id after a
  cancel and a requeue leaves the job PENDING under a consumed message
  (`dispatch.py` 67); a redelivered message shares the task id, so a job can be
  COMPLETED while its video is not PROCESSED (`transcode.py` 493). A run that
  tested ownership before a cancel and a requeue can release or fail the claim
  of the next run (`transcode.py` 541). A message that is lost when its task id
  is already on the row leaves a PENDING job that no query selects:
  `UndispatchedJobLeaves` speaks of rows without a task id.
* The abandoned-upload sweep releases the slot, and has deleted the object, of
  an upload whose `/complete` won (`cleanup.py` 159, 169), and of one that a
  DELETE releases at the same time (`billing.py` 424, read then insert):
  `SlotsMatchUploads` says what the slot is worth in each case, -1 after a
  double release, and `UploadsWithinPlan` that every such release (`stray`)
  admits one upload beyond the plan and nothing else does. FAILED videos do not
  count as reserved bytes and requeue checks no quota (`videos.py` 2965).
  Nothing moves `current_period_start`, so the monthly quota is for life
  (`billing.py` 252).
* A deletion mark outlives a requeue or a late `/complete`, and the sweeps
  delete the source of a QUEUED video (`cleanup.py` 325). `PRD.md` 310 says
  originals are never deleted automatically, which the retention sweep does by
  design.
* A CV stage that the sweep failed still queues its successor
  (`cv_pipeline.py` 58, 247); `ChainInOrder` says it cannot complete. The demo
  preview completes an EVENTS row without predecessor, model or plan
  (`runtime/demo_preview.py` 135, 394): `alpha` excepts that row and what METRICS
  rests on. A plan is read once per run (`cv_pipeline.py` 231): a result may need
  a tier that the team had while the stage ran and no longer has when it
  completes, hence `best`.
* Upload client: an abort while `/videos/upload` is out leaves a pending row
  the client never learns of, and a failed transfer does not cancel its row;
  both wait for the pruning job (`upload-flow.tsx` 229, 290, 322). A cancel that
  falls into `/complete` asks the server to cancel a video it may have queued
  (372): `GivenUpIsCancelled` speaks of runs given up before `/complete`. A lost
  answer to `/auth/refresh` ends every session of the user at the next refresh
  (`auth.py` 353): `NoSelfReplay` excepts it. A refresh that fails in the browser
  and reaches the server afterwards is not modelled.

Demo preview:

* The locks age by `cv_demo_timeout_seconds + 60` while tagging may take two
  hours (`core/demo_preview.py` 999), and a stale lock is unlinked by name
  (472): `OneRender` holds until then. The task is sent before the commit
  (`videos.py` 2600), alpha mode takes no queue lock
  (`nextballup_api/demo_preview.py` 89), a worker without storage leaves the
  row queued (`runtime/demo_preview.py` 502), the EVENTS job row is taken over
  by each render (135), a cancel's message survives a completion, and approved
  candidate events are deleted by the next render (266).

Accounts:

* `session_version` is incremented on a stale read, so overlapping revocations
  can take it back to a value tokens carry (`auth.py` 764; `README.md` 151 says
  old tokens stop validating): hence `lostUpdate`.
* Two overlapping resends leave two valid verification links, whereas the
  docstring of `email_verification.py` 72-75 calls the most recent link the only
  valid one: `ResendSupersedes` says that a resend ends every link that was live
  when it began. A setup between
  a confirm's read and commit has its unproven secret confirmed
  (`mfa.py` 216): `stale`.
* A join or a new team that commits between the membership read and the commit
  of an account deletion keeps its seat active (`auth.py` 1281): `overtaken`.

Teams, games, events:

* A deactivated membership keeps its jersey number and blocks rejoining; every
  constraint violation of a join is reported as a taken number
  (`teams.py` 736); an admin who is not on the team is refused by `get_team`
  (806) before the branch meant for admins.
* A patch that loaded the game before it became terminal reopens it, and racing
  patches can leave the shot clock on without seconds (`games.py` 283-299).
* Two reviews that trim one event can leave an empty window or one above 60 s
  (`videos.py` 1777). Proposals clamp a coach's window to 15 s each side and
  take the first four times `limit` candidates by time before ranking them, so
  a later row of a higher rank may be missing while more than those wait:
  `QueueIsComplete` asks for the ranking only when all that wait are read. An
  expired restrictive consent revives an older permissive one (`videos.py` 1955).

## 4. What is proved

All theorems hold for arbitrary constants under the assumptions named in the
modules, which say only that the NULL values are not members of the sets they
stand beside, that bounds are naturals, flags are Boolean, the two kinds of
sweep are distinct, the stages that need an artifact are stages, the API calls
of the page are the three of each run, a user's role is one of coach, player
and admin, a TOTP clock has a first step, and a video has a positive duration
that tags lie within, a page at least one row and a clip a positive minimum
below its maximum (`ConstantsAssumption`, `QuotaAssumption`, `RunsAssumption`,
`CVAssumption`, `AuthAssumption`, `TokensAssumption`, `MfaAssumption`,
`DemoPreviewAssumption`, `EventReviewAssumption`, `ApiAssumption`,
`UploadClientAssumption`, `TeamsAssumption`, `GamesAssumption`). The videos of
an account are assumed to be finitely many, because `UploadsWithinPlan` counts
them.

| Theorem | States |
|---|---|
| `TypeCorrect` | `TypeOK` of the pipeline, including that retry counts stay within the limit |
| `RowsAlwaysAgree` | `RowsAgree`, for any number of workers, dispatchers, ids and retries |
| `TerminalSafe`, `FailedJobSafe` | COMPLETED and PROCESSED are final; a failed job's video can be requeued |
| `Refinement` | the pipeline implements `VideoLifecycle` |
| `UploadSafe`, `SlotsSafe`, `WithinPlan`, `ResurrectionSafe` | the upload invariant; the exact slot of every upload; uploads beyond the plan only by stray releases; no cancelled upload comes back |
| `RetentionSafe`, `RecordSafe`, `EarlySafe` | the retention invariant and its consequences |
| `CVSafe`, `OnceSafe`, `ChainSafe`, `EntitledSafe` | the invariant of the CV stages: each stage is claimed once, and one that a run completed rests on its predecessor and on a model that a plan of its time allowed, beside plan changes and the preview's writes |
| `AuthSafe`, `FamilySafe`, `RevocationSafe`, `PasswordSafe` | the invariant of the sessions: one live refresh row per login; what was revoked, and what an old password obtained, does not validate |
| `LinksSafe`, `OnceRedeemed`, `LinkSafe`, `DeletedSafe` | the invariants of the mailed links: each is accepted once; one reset link is live and a resend ends the verification links that were live when it began; a failed one is dead; a deleted account redeems nothing |
| `MfaSafe`, `EnrolmentSafe`, `FactorSafe` | the invariant of the second factor: one batch of codes, a code and a step log in once, what is enabled was proven |
| `PreviewSafe`, `OneSafe`, `TagsSafe` | the invariant of the detector preview: one render, one task under way, candidate events that are those of the stored preview |
| `ReviewSafe`, `ListingSafe`, `WindowsSafe`, `QueueSafe` | the invariant of the events: complete listings for every page size, windows around their moments, a queue that is complete or full and ranked, for every length and every report, exports inside the video |
| `ClubSafe`, `RosterSafe`, `ChainSafe`, `RosterForgets`, `ClockSafe` | every invariant of the team and its game that the run checks, for any number of accounts, invites and requests |
| `FormSafe`, `GivenUpSafe`, `ReplaySafe` | every safety invariant of the upload form and of the refresh it shares, for any number of runs, parts and part workers |

**Arguments.**

* *Pipeline.* That a PROCESSED video is completed and has a key
  (`ProcessedIsFinished`, a part of `RowsAgree`) is not inductive by itself:
  `complete_job` sets PROCESSED without looking at the key, so one must know that a run at
  `audit` or `complete` has published it, or that the row is gone for good
  (a deleted row never returns). `on_failure` writes FAILED from any status,
  guarded only by `fail_job`'s row count, so one must know that a PROCESSED
  video has a COMPLETED job, which `fail_job` does not match. And a FAILED job
  implies a FAILED video because every writer of the first writes the second
  in the same transaction. `RowsAgree` is that conjunction. Refinement and
  `TerminalIsFinal` follow step by step from it; the refinement mapping is the
  projection on the video row.
* *Upload.* `SlotsMatchUploads` needs to know who holds a lock: a `/complete`
  or a DELETE under way keeps its row pending or failed until it commits, a
  DELETE that read a zero balance finds it so at its commit, one that read a
  slot finds it unless a release strayed, and the cleanup's unguarded release
  only concerns a row that is no longer pending, once per row (`SlotInv`).
  `UploadInv` adds what the ledger's sum is worth: `used` is `base` plus the
  uploads that hold a slot minus those given back twice. Only `initiate_upload`
  raises it, below the limit; `WithinPlan` follows by comparing the uploads that
  occupy a place with those that hold a slot: the difference are strays.
* *Retention.* `RetentionInv` adds to the record that a sweep about to write it
  has deleted, and that every sweep past its selection works on something
  expired or asked for. `EarlySafe` is then a case split on who deletes.
* *CV stages.* A stage is claimed once because `claim_job` matches PENDING and
  no writer takes a claimed job back to PENDING: `CVInv` says that a job that
  is absent or PENDING has no claim. For `ChainInOrder` and `ResultIsEntitled`
  it adds what a worker past its checks knows: its predecessor is COMPLETED, and
  stays so, as `fail_job` matches only open jobs, or is the EVENTS row that a
  preview has rewritten; while its own job is RUNNING, the tier it read is at
  most `best` of its stage, and so is the artifact it picked. When the job is
  no longer RUNNING its `complete_job` writes nothing.
  That the query of `_active_artifact_for_stage` returns an entitled artifact
  whenever there is one needs a first element of its order by tier and age;
  `Greatest` gets it from the well-foundedness of the naturals.
* *Sessions.* `AuthInv` has three parts beside the types. `UserInv`: one
  request holds the user row FOR UPDATE. `RowInv`: row locks are disjoint, and
  a refresh about to rotate holds its row, which is live; so a rotation replaces
  the only live row of its family. `VersionInv`: no version in circulation (in
  a token, in a refresh row's claim, in the memory of a request) is ahead of
  the user's, revoked ones are behind it, and those that are level come from the password
  in force. The last needs `~lostUpdate`: an increment written from a stale
  read can take the version back, and the theorem says that nothing else can.
* *Links.* `RedeemedOnce` needs to know that an unused link was never accepted
  (`UseInv`), and that a redeeming request still finds its link unused when it
  commits. `LockInv` says so: what a request holds is live and held by no other,
  and an issuing reset, which holds the user row, holds all the live reset
  links there are, so the one it inserts is alone. Verification links are
  issued without the user's lock. A resend waits for each link it has read and
  then holds those that are still live, nobody else can redeem or supersede
  these until it commits, and a link that was not live then is never live
  again; so none of what it read is live beside its own link (`OlderInv`).
* *Second factor.* A login holds the TOTP row from its check to its commit, so
  the code it found unused is unused and the step it found new is new when it
  writes (`FlightInv`); codes in use are all of the last batch (`FactorInv`). A
  setup and a confirm hold no lock: what a confirm proved is the secret it
  read, and `FreshInv` ties that to the row only while no write went over a
  row that had changed.
* *Preview.* Three parts. The machine lock names the render under way, unless
  a live one lost it (`RenderInv`). On a shared disk an open state that is not
  stale stands for exactly one task: the marks of that task keep it so, a
  request that finds it refuses, the sweep leaves it, and only the end of the
  task closes it (`AloneInv`). A task alone on its video publishes, uploads and tags its own
  render, and before it touches the stored object it has taken "completed" off
  the row: if its session believed the row was already running, nobody else
  can have completed it in between (`OwnRender`).
* *Events.* Ids are not reused, so a review that commits late finds its own row
  or none, and either end of the window it loaded or sends lies on its side of
  the moment: however two reviews mix their ends, the moment stays inside
  (`Pending`). For the listing, everything seen lies up to the cursor and
  everything that stayed in the listing has been seen or lies behind it
  (`ReaderInv`). A page keeps that because its rows can be put in order
  (`Sortable`: the smallest set that cannot, without its first row by time and
  id, is a smaller one), the order has every row in it (`Ordering`), and a row
  that is not on the page comes after its last one (`Paging`). The queue's two
  cuts leave `QueueLimit` rows or all there are (`QueueSafe`).
* *Team.* The uses a join read are still the invite's when it writes them plus
  one, because no other join under way has the code (`JoinInv`); the count of
  seats then goes up by that one, and the deletion of an account replaces at
  most one seat by one with the same invite (`OneSeatEach`). `ChainInv` carries
  authority over the time between issuing and joining: an issuer stays an
  admin, a head coach, or becomes a deleted account. `LeavingInv` says that a
  seat of an account being deleted was read by the deletion or taken since.
* *Upload form.* `RunOK` says of each place of `handleSubmit` which of the
  run's three calls have been made; with it a run given up before `/complete`
  has asked for the cancellation when it was aborted, and a video learnt too late is cancelled by the
  coroutine itself. `FormInv` adds that the active run is under way, so that a
  run which is busy but not active was aborted. An aborted run stays aborted,
  which is why its late return changes nothing of the form. `CallInv` (a
  response belongs to a call that still waits) carries "done" back to the
  server's row. For `NoSelfReplay`, `RefreshInv`: the one refresh that is out
  carries the tab's cookie, and the server is at that cookie, or one ahead
  while the grant is on its way.

**Only model-checked:** the seven liveness properties (`ClaimedJobSettles`,
`UndispatchedJobLeaves`, `ReservationSettles`, `ExpiredSourceGoes`,
`StageSettles`, `RowSettles`, `RunEnds`). Fairness and ENABLED are out of the
prover's reach.

## 5. Plan

1. An abstract specification of one upload's slot and of one refresh family,
   and the refinements that the invariants above already carry.
2. A composition of `UploadQuota`, `TranscodePipeline` and `RawRetention` on
   one video, whose one-step summaries of each other (`transcode`,
   `abandon_upload`) it justifies.
3. The playback view of the web client: its polling of processing and preview
   status against the coach's own actions.
4. Rate limiting with its fail-open and fail-closed modes.

## 6. Not modelled

* Rate limiting: one atomic Redis script per key; a limited request is one that
  is not made.
* Tenant isolation: row policies in SQL migrations, no step structure.
* Billing provider (a stub), CSRF, cookies, headers, CSP reports, admin,
  health, marketing, settings, seed: stateless checks, append-only rows or pure
  I/O. Email delivery is a success or a failure.
* Media tools: commands, formats and resource limits; a media or inference step
  succeeds or fails.
* Privacy consents (single inserts and reads), account export, listings of
  teams and games, video detail reads, clip file rendering.
* In the web client everything but the upload form and the API client.
* In what is modelled: names, types, consents and plan lookup are the guards'
  truth values; sizes are small numbers; a day, an hour and a heartbeat
  interval are steps that may happen whenever the code allows them to have
  elapsed (a retention window, days long, never ends before an upload URL).
