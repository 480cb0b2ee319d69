# papaia-manager: specifications, model checking and proofs

papaia-manager is the web console of a papAIa installation: one Python process (FastAPI on one
asyncio event loop) that looks after a Docker Compose stack it is itself part of. This directory
holds TLA+ modules translated from its source (`src/app/...` of the repository), the TLC
configurations that check them on small instances, and proofs that TLAPS checks. Every
definition that models code is listed with its source lines in `PROJECT.json` ("map").

```
tlc -workers 2 -config JobQueue.cfg MCJobQueue      # one run; all of them are in PROJECT.json
tlapm JobQueueProofs.tla                            # one set of proofs
```

## 1. Inventory

### The process and its parts

The manager has no database. Its state is in memory (a job registry, a few caches, the scheduler's
job store), in files under the configuration directory (YAML, JSONL, `.env`), in Docker (containers
it starts and finds again by label) and in the services of the stack (Keycloak, the ingester, Qdrant,
LiteLLM). Three things move at the same time: requests, which suspend at every `await`; the one
worker of the job queue; and the timers of APScheduler, of the notification loop and of the ingest
watcher. Detached runner containers and the operator's shell move independently of all of them.

| Part (source) | State | Operations | Correct when |
|---|---|---|---|
| Job queue (`core/jobs.py`) | registry, asyncio queue, callbacks, `index.jsonl`, audit entries, listeners | enqueue, worker, stop, active_job | one job at a time, in order, none lost; files and listeners agree with the registry; every job ends |
| Detached runners (`core/runner.py`) | containers by label and name | find, start, confirm, clear | nothing that runs is removed; an outcome stays until it was read |
| Request guards (`routers/api_stack.py`, `api_maintenance.py`, `api_upgrade.py`, `stack_guard.py`, `core/backup_run.py`) | the cached upgrade check | stack action, restore, upgrade, backup, delete restore points, scoped restore, acknowledge | restore, upgrade, stack action and jobs do not meet where they would destroy each other's work |
| Backup scheduler (`core/scheduler.py`) | three APScheduler jobs | start, apply, fire, retry, give up, catch up | the slot is the file's; a due run is started or given up; a removed schedule is quiet |
| Schedule and retention (`core/schedule.py`, `core/backups.py`) | `schedule.yaml`, restore points | validate, plan retention | pruning never takes the last good restore point |
| Configuration jobs (`core/config/*`, `routers/api_config.py`) | overlay files, their history, the profile set, containers, volumes | enable, disable, apply, discard, roll back | compare-and-swap on files, undo on failure, stop before setup, data last |
| Mail (`core/mail/*`, `routers/api_mail.py`) | relay settings, the realm's mail server, the status reading | save, apply, probe, test, read | the relay runs with what is stored; the realm knows whether it is on |
| Upgrade (`core/upgrade.py`, `routers/api_upgrade.py`, the panel in `routers/ui.py`) | cached check, upgrade log, git checkout, the runner's output | check, gate, start, read, acknowledge | what the panel shows happened; a way back is shown |
| Images (`core/images.py`) | local images, those in use, those declared | report, prune | no image that is needed goes |
| Add-ons and catalogues (`core/addon_upgrades.py`, `catalogs.py`, `state.py`, `snapshots.py`, `routers/api_addons.py`, `api_catalogs.py`) | `deployment.yaml`, `installed.yaml`, snapshots, catalogue clones | install, start, stop, remove, upgrade, roll back, uninstall, plan, refresh | the record follows the registration; the versions needed stay |
| Ingest catalogue (`core/ingest/catalog*.py`, `jobs_service.py`, `jobspec.py`, `secrets.py`) | `jobs.yaml`, credentials, the ingester's own catalogue and history | save, enable, delete, replace, run, clean up | an edit touches its own job only; references hold; nothing of a live job is cleaned up |
| Uploads (`core/ingest/uploads.py`, `runs.py`, `watcher.py`) | folders and manifests, runs | upload, embed, discard, reconcile | only what is embedded goes; everything is settled |
| Notifications (`core/notifications/*`) | recipients, what was reported, the pass | detect, deliver, edit, test | once per occurrence; a job's end is looked at |
| Vector databases (`core/vectordb/*`) | `connections.yaml` | add, edit, remove, default | no job loses its connection |
| Users and roles (`core/users_service.py`, `roles_service.py`, `core/keycloak*.py`) | Keycloak | create, edit, disable, delete, assign | an administrator is always left; roles do not contain themselves |
| Authentication (`auth/*`, `routers/auth.py`) | session cookie, caches of renewals and of user tokens | login, renew, step up, logout | a race for one token signs nobody out; a step-up is of the account that has it |
| Settings, tiles, preferences (`core/settings_store.py`, `tiles.py`, `user_prefs.py`) | small files, logos, a cache | read, compare-and-swap | what is named is there; ids are stable |
| Audit log (`core/audit.py`) | `audit.log` | append, prune, read | what a prune took is accounted for |
| Health and usage (`core/services.py`, `host_health.py`, `docker_usage.py`), widgets (`core/widgets/*`), nodes (`core/nodes.py`) | caches and runs in flight | read, share, invalidate | recent, in the reader's language, nobody waits in vain, changes are seen |
| `papaia-ctl` bridge (`core/ctl.py`) | a stream | run, cut into lines | no line lost, doubled or joined |
| Environment forms, other pages | none | | see section 6 |

### How they interact

Requests enqueue jobs; the worker runs their callbacks, which call `papaia-ctl`. Requests that must
outlive the manager (restore, upgrade, stop or restart of the stack) start a detached container
instead, which usually stops the manager: the next manager finds the container by its label. The
scheduler asks Docker and the queue what is in the way and then enqueues like a request.
Configuration jobs change files and containers step by step, and the operator edits the same files
with an editor or with `papaia-ctl`. There is no lock between any of these: what excludes one from
another is a question asked before an `await` and acted on after it.

### What is hard

Interleavings at `await`s between a question and the act it decides; a manager that dies in the
middle of each of them and comes back without its queue; a daemon call that times out and still
takes effect; one write of several failing; a plan made when a job is enqueued and carried out hours
later; the host editing a file a job is replacing; margins that two constants of different files
must keep. The list, line by line, is "hazards" in `PROJECT.json`; each entry names the properties
that would catch it going wrong.

## 2. Modules

| Module | Models | Run | Proofs |
|---|---|---|---|
| `JobService` | what the queue promises: submit, begin, end, forget | as a property of `JobQueue` | |
| `JobQueue` | `core/jobs.py` | `job_queue` | `JobQueueProofs` |
| `ControlPlane` (extends `JobService`) | runners, the handlers that start them or enqueue jobs, the queue as `JobService` | `control_plane`, `control_plane_two_upgrades` | `ControlPlaneProofs` |
| `BackupRetention` | cadence bounds, the retention plan, pruning | `backups` (composed by `MCBackups`) | `BackupProofs` |
| `BackupScheduler` | `core/scheduler.py` and the routes that edit the schedule | `backups` | `BackupProofs` |
| `ConfigJobs` | module, overlay and mail jobs | `config_jobs` | `ConfigJobsProofs` |
| `AddonLifecycle` | one add-on, its snapshots and its two records | `addons`, `addons_head_moves` | `LifecycleProofs` |
| `IngestUploads` | uploads, embedding runs, the watcher | `ingest_uploads` | `IngestProofs` |
| `Notifications` | passes, reports, recipients | `reports` (composed by `MCReports`) | `JobQueueProofs` |
| `Upgrade` | check, gate, the panel, the way back, images | `reports` | `LifecycleProofs` |
| `Identity`, `Sessions` | users and roles; one browser's session | `access` (composed by `MCAccess`) | `AccessProofs` |
| `IngestCatalog`, `Readings`, `StackView`, `CtlStream`, `ManagerFiles` | the job catalogue; shared readings; the stack's state; output into lines; the manager's own files | `pages` (composed by `MCPages`), `catalog_raw` | `PagesProofs`; the catalogue `IngestProofs` |

`MC*` modules instantiate for TLC. Four of them put several specifications that share no variable
into one run: the first state says whose a behaviour is, and the variables of the others do not
move. What one of them can do does not depend on the others, so nothing is lost by looking at them
one at a time. Operators marked "Mutant", and those that stand directly before a definition under a
variant of its name, are wrong versions of it; each breaks the property `PROJECT.json` names for it,
which shows that the property depends on that code. Properties with a name like `QueueHolds` or
`FilesHold` are conjunctions of named parts, each with its own comment. A proof module may be about two
models that share nothing (`BackupProofs`, `LifecycleProofs`, `JobQueueProofs`, `IngestProofs`); the
initial states, next-state relations and so on of one of them then carry its name (`RetentionNext`,
`UpgradeNext`, `NotifyNext`, `UploadsNext`).

### JobQueue, JobService

`jobs`, `callbacks`, `queue`, `current` are `_jobs`, `_callbacks`, `_queue` and the job the worker
has popped; `index` is the file, by job; `audit` and `notified` are what the end of a job leaves
behind. `accepted` and `taken` are history variables for FIFO. `enqueue()` never suspends and the
worker suspends only in `get()` and in the callback, so `Enqueue`, `Take` and `Finish` are one step
each. Every append to a file may raise, and each place where it does is an action of its own:
`EnqueueFails` (the job is registered and never queued), `TakeFails` (outside the `try`: the worker
task dies with a RUNNING job), `FinishIndexFails`, `AuditFails`, `ErrorLogFails`. `Stop` cancels the
worker in the middle of a callback, whose `finally` still writes; `Kill` writes nothing.

`JobService` is the abstract queue: a sequence of pending jobs, whether its head runs, and how jobs
ended. `ImplementsJobService` is the refinement; a job that was popped and never ended stays at the
head and busy. `ControlPlane` is built on `JobService`, so what is checked of the guards rests on a
queue that `JobQueue` was proved to provide.

### ControlPlane

`status` is what Docker reports of each runner name, `order` their start order (`find_runner` takes
the most recently started), `checked` the cached upgrade check, `req` the requests on their way. A
request is a record of where its handler is. `docker ps`, the `docker inspect`s, `docker rm`,
`docker run` and the confirmation after it are steps of their own, because each is awaited; between
two of them other requests, the worker, the runners and the end of the manager may come. With
`DockerFaults` each call may fail or time out; a `docker run` that was killed may have started the
container or left it `created`. The three routes guarded by `_require_no_runner` share one action.
`MCControlPlane` holds two instances: requests that interleave with a failing daemon, and requests
served one after the other (`InTurn`), where the refusals of the handlers must exclude everything.

### BackupRetention, BackupScheduler

Time is an integer; `Plan` is `plan_retention`, taken at `Fire` and used at `EndRun`, when
`papaia-ctl` (external) prunes everything older, whatever it is and whether or not the run went
well. `Edit` may replace the schedule at any time, between a plan and its pruning too.
In the scheduler, `slot`, `retry`, `catchup` are the three jobs of the job store, `fires` the `fire()`
each may have on its way, suspended in `blocking_runner` or in the executor that reads the
catalogue. Time is counted in units of `RETRY_DELAY`. `ChangeUnaudited` and the third case of `Skip`
are an audit entry that cannot be written between the two halves of an operation. `owed` and
`unaudited` are history.

### ConfigJobs

A behaviour is about one module: the web search (overlay file, no dependent), the RAG system (a
dependent, LibreChat, that must be recreated) or the mail relay (settings, and the realm as
dependent). `on`, `conf`, `running`, `told`, `data` are the profile, the file or the stored settings,
what the containers were started with, what the dependent was last told, and the named volumes. The
running job is at a step; each step of `overlay_callback` that touches the file is separate (read
and save, compare, rename, read back) so that `HostEdit` can fall in between, and so is each
`papaia-ctl` call. Each may fail; a failed start leaves the containers up or down. `trouble` is a
history variable that says why things may be out of step.

### AddonLifecycle

One add-on of one git catalogue. `head` is the commit its clone is at, `snaps` the
directories under the snapshot root (from the revision in the name to the commit whose files it
holds and the directories that are newer), `dep` what `papaia-ctl` has registered in `deployment.yaml`, `inst` the manager's own
`installed.yaml`, `ctr` the containers. A request is answered before its job runs: it may stage a
candidate, read a plan and prune, beside the job the worker is at. `papaia-ctl` is external: an
upgrade switches the registration at one point of its run and may fail before or after it, and the
record is settled from what is registered then. A staging reads HEAD (`StageRequest`,
`StageInstall`) and archives HEAD as it is later (`Archive`); a refresh may end in between. `trouble`
notes the ways the records may part: `astray` (a death between the call and the record, an install
that fails once it has registered, a rollback decided before another job moved the registration),
`pruned` (a candidate pruned by a plan) and `swapped` (a directory written a second time with
another version in it). `carried` is the version each directory was first written with. The
history of `installed.yaml` keeps as many entries as there are snapshots; a rollback to a version
that was cut off it records the version of the manifest and a commit that is unknown.

### IngestCatalog

`file` is `jobs.yaml` as a sequence of entries (id, connection, enabled, whether it uses the
credential), `served` what the ingester has loaded of it, `running`, `hist`, `data` its runs, their
history and the content it has written. A request is suspended whenever it asks the ingester: a save
asks for a verdict, writes with the etag of the page, has the ingester reload, compares what is
served with what was written and restores the previous file if it is still the one it wrote. The
rules are those of `jobspec.py`, including that of two jobs that disagree the later one is blamed.
Foreign writes, polls and restarts of the ingester come at any time, and it may fail to answer. The
raw editor has two steps of its own: the verdict on the typed text (`RawAsked`) and the write under
the revision of `jobs.yaml` alone (`RawWrite`). Three writes do not look at the connections again:
that one, the way back of a save, and a hand on the host. `left` is history: the jobs one of them
has left without their connection (`Lost`), until the job is changed or the connection is back.

### IngestUploads

An upload is a folder (`dir`) with a manifest (`man`), which are two writes; a save of a file is two
steps; a start plans, writes the managed job, loads and asks for the run, then marks the upload. A
pass of the watcher or of a page collects what to ask about, asks run by run and then settles,
expires and drops orphans with the answers it got. A kill may fall between any two steps.

### Notifications

A pass goes through `_run`: clear the event, ask whether the stack is busy, read the services, look
for updates, decide and store, deliver. What is read is read at different times. `seen` and `up` are
the stored state; `told` and `over` are history for what was reported. The edge event and the marker
event stand for the two kinds of detection.

### Upgrade

`stack`, `checkout`, `recorded` are the release that runs, the one checked out and the one of the
configuration. A run announces its phases in `log`; the panel (`poll`) reads the state of the
container first and the last `PanelLines` lines of its output later. `prune` holds the cleanups on their
way, each with the lists it read at different times; one is started by hand, one by the runner after
a success, one by the acknowledgement. The words of papaia-ctl are told apart as far as the matching
tells them apart: the hand-over line opens like the announcement of the migrations.

### Identity, Sessions

`Identity`: each call to Keycloak is a step, with the rights of the signed-in account as they are at
that moment, and may fail, which leaves the half already done. `Below`, the roles a role contains through
others, is the least set the walk of `roles_service` is closed under. `Sessions`: a request works on the
cookie it arrived with, its answer overwrites the browser's; refresh tokens rotate and are good once,
renewals are shared for a while (`results`), the Users page renews by itself (`cache`). Redirects to
the sign-in form may be answered later, in another order, and by another account.

### Readings, StackView, CtlStream, ManagerFiles

`Readings`: one run per key, belonging to the process, shared by whoever asks meanwhile; visitors
leave. `StackView`: the reading of the containers or of all nodes, its cache, lock and invalidation,
and how health is derived from states, declarations and restart policies. `CtlStream`: the reader of
a subprocess's output with its clipping of over-long lines, against a fold over the whole text as
reference. `ManagerFiles`: branding and logos, ids of widgets, the cached preferences, and the audit
log, its prunes and the entries that document them. Every caller that writes to the log runs on the
event loop, so that an entry and a rewrite are one step each; `_LOCK` guards against threads there
are none of today, and is not modelled.

## 3. Runs

| Run | Question | Result |
|---|---|---|
| `job_queue` | With failing writes, cancellation and kills: single flight, FIFO without loss, files and listeners in agreement, `active_job` right but for a job whose `enqueue()` failed, the refinement, every job ends | holds |
| `control_plane` | Two requests interleaved, a failing daemon: nothing that runs is removed, no outcome is lost unread. Requests in turn: upgrades alone, guarded jobs never beside the runners they look for, unread outcomes block | holds |
| `control_plane_two_upgrades` | "one runner and one 409, not two upgrades" (`start_upgrade`) | violated: two versions have two names |
| `backups` | Slot and file in step, the retry hour ends before the next slot, a removed schedule is quiet, what is due is settled; the last successful restore point survives any series of runs and edits | holds |
| `config_jobs` | No container outlives its module, nothing is overwritten unsaved, a failed apply is undone, data goes last and only when asked, what runs is what is stored | holds |
| `addons` | The record has the version and, but after a rollback, the commit of what is registered, through failed upgrades, deaths and a HEAD that moves; the version that runs and the one to go back to stay; a removed add-on is down | holds |
| `addons_head_moves` | "its name is the commit, so its content is the same" (`stage_revision`) | violated: HEAD is read twice |
| `catalog_raw` | "Replace jobs.yaml with the text as typed [...], if it would load" (`replace_raw`) | violated: a connection goes while the verdict is awaited |
| `ingest_uploads` | What is removed was embedded; the age limit spares a working run; every ended run is settled and no folder forgotten | holds |
| `reports` | A job's end gets its pass; once per occurrence; once per window. Progress of an upgrade shown is real whatever part of the output is read; a way back is shown; no cleanup takes a needed image | holds |
| `access` | Somebody can still manage the realm; roles do not contain themselves; a step-up is the account's own; a race for one token signs nobody out | holds |
| `pages` | An edit of a job touches no other, no job loses its connection, nothing of a live job is cleaned up; readings are recent and shared; changes are seen; lines survive; the manager's own files hold, and gaps in the audit log are documented | holds |

The properties name the gaps the code leaves, as exceptions or as history variables, so that each
says exactly how far its promise goes. What else was met and has no run of its own:

* Queue: `enqueue()` registers before `mkdir` and the index append, so on a full disk `active_job`
  names a job that holds no lock (`jobs.py:118` against the docstring at 139). `ActiveJobIsRight`
  excepts it.
* Guards: `start_restore` and `stack_action` do not look for each other, although the comment at
  `api_stack.py:252` says that both are refused; and a job enqueued between `stack_action`'s look at
  the queue and its `docker run` is in flight when the runner starts. `blocking_runner` forgets a
  restore it has found when its second question fails, as its docstring accepts.
* Scheduler: a `fire()` that is suspended when its schedule is removed still enqueues
  (`scheduler.py:184`; "a schedule that was just removed must not start one more run", 112), and a
  backup may be queued behind a job that came in while `fire()` read the catalogue.
* Mail: `put_mail` reads whether the relay is on at request time, so that its job may switch a relay
  on again that a job before it has switched off (`api_mail.py:174`; `mail/service.py:55`).
* Add-ons: an uninstall prunes with an empty list and the newest snapshot stays (`README.md:534`
  says that all go); a rollback decided before another job moved the registration leaves
  `installed.yaml` as it is; a plan may prune the candidate of the upgrade that is running. Since the
  directory of a commit may hold another (`addons_head_moves`), a request that has found it missing
  may write it a second time, under an add-on that runs from it by then: `RecordFollowsRegistration`
  holds of a directory that is written twice only if its version is the same (`swapped`). A rollback
  looks its commit up by version, so that of two commits with one version the newer is recorded.
* Ingest catalogue: the way back of a refused save and the raw editor write without looking at the
  connections again (`left`); for the raw editor `catalog_raw` shows it.
* Audit log: the entry of a prune is a second write, after the rewrite; if it fails the gap has no
  entry (`silent`; "The prune documents its own gap", `api_audit.py:160`).
* Uploads: two starts that overlap, a file saved after the run has read the folder and a stale pass
  that marks an upload whose new run works; `ConsumedWasEmbedded` names those that lose something.
* Notifications: an outage that begins inside the debounce window is marked active and never
  reported; "stack is busy" is asked before the stack is read; a test on its way while its recipient
  is deleted leaves a result behind.
* Upgrade: `synthetic_recovery` compares with the target, so a run that failed before it moved the
  checkout is also shown a way back (`upgrade.py:970`; docstring 966); a cleanup by hand after a
  failed upgrade may take images of the way back; acknowledging prunes without `_require_quiet`.
* Users: the rights may be lost through roles that contain other roles (`composed`); two role changes
  under way together can make a loop (`raced`); a change that fails half way leaves an unaudited
  half. Sessions: `user_token` and `deps` use different locks, so both may spend one refresh token; a
  late answer rewrites the cookie after a sign-out.
* Files: `set_locale` changes the cached object before it writes (docstring of `user_prefs.py:152`:
  nothing is changed then); `upload_logo` removes the old logo before the settings are saved; a node's
  report is lost while its reading is taken again, and is not re-worded per language; a reading of
  the stack that was on its way when a change was made known is kept.

### Bounds

* `job_queue`: three jobs, so that one runs, one waits and one is refused by a failing write; index
  lines per job are bounded by the life of a job. The safety part is proved for any number.
* `control_plane`: interleaved, two requests, one job and one target of each kind: each property is
  about one container and at most two requests that saw it. In turn, two jobs (one runs, one waits)
  and two upgrade targets. The number of requests over time is not bounded.
* `backups`, the retention: the tightest retention the validator accepts for a gap of two units and a
  roomier schedule to switch to, a run of up to one unit (the most `MaxRun` allows), plans up to time
  7: almost twice the tighter retention (4), so that the first points age out during a series of
  failed runs and the plan changes its mind. Proved for every value.
* `backups`, the scheduler: `MAX_ATTEMPTS` 6 and `MIN_INTERVAL` 6 units of ten minutes are the code's own
  values; 7 units as longest gap adds the case with slack; two schedules, one queue place beyond the
  job that runs.
* `config_jobs`: two contents besides "no file" tell a draft, a previous file and a host edit apart
  two by two; two kept versions so that pruning happens; two waiting jobs so that one is decided on
  before another has run; two host edits, one on each side of a job's comparison.
* `addons`: four commits, so that a version runs, one is behind it and one is a candidate, and so
  that a rollback may go past the kept history (with three it never does); two snapshots kept, so
  that each of them may be the one to prune; one waiting job beside the one at work. Two commits each
  have a version in common, so that a rollback may find the wrong one of them. `Followed` ends a behaviour where the two records may have parted (`astray`, `swapped`): what
  comes after such a state is no longer about the code. It also keeps the run within minutes: an
  add-on is installed, and installed again, from one of the first two commits, and where HEAD has
  overtaken an archive the first three are looked at, of which the third has another version. The
  theorems need neither.
* `ingest_uploads`: one upload, file, save, start and pass, two runs and one kill; other selections
  of the collection appear as `UpsertOther`. With two passes or two starts the space is out of
  TLC's reach; the races of two starts are listed above.
* `reports`, the notifications: one service and one add-on beside the core, so that each scope of the updates
  differs; time 3 with a window of 2 lets an event fire, be suppressed and fire again; three
  changes of the world; one recipient that is there or was removed behind an open page.
* `reports`, the upgrade: two releases and two runs, so that a second run may start on what a failed
  one left; four lines in the window, fewer than the six phases announce. `AtTheBound` is where the
  bound on runs ends a behaviour.
* `access`: two accounts, two roles and two requests under way together; three requests in all, so
  that a third acts on what two left; three tokens: one expired, one renewed, one from the second
  sign-in. The symmetric sets are not named by the modules.
* `pages`: two people everywhere. Two jobs of the catalogue (one managed) and two connections; an
  interval that is shorter and one that is longer than a run; lines of up to two bytes in chunks of
  four and an output of eight, so that a newline falls on and beside each border of a chunk and of a
  clipped line; three tiles of two types; five writes; a clock of three values
  for the audit log, to be set forward and back. Deadlock is off where time and steps end.

### Fairness

`JobQueue!FairSpec`: weak fairness of the worker taking a job (the event loop schedules a task whose
`get()` can return) and of a callback ending (it waits for a `papaia-ctl` process that exits). None
is assumed of requests, starts, stops or failures, and `JobEventuallyEnds` names the two ways out: the
process is gone or a failing write has ended the worker.
`BackupScheduler!FairSpec`, which `BackupsSpec` takes over: weak fairness of APScheduler running what is due, of Docker and the
executor answering `fire()`, of jobs ending, and of time. A runner or a lost mount may stay for ever:
then the run is given up. Nothing is assumed of the operator.
`IngestUploads!FairSpec`: the watcher's loop goes on (weak fairness of a pass beginning, asking and
ending) and time passes for an upload; strong fairness of an answer, because the ingester may be out
of reach for any time but not at every pass for ever. Nothing is assumed of requests, runs or kills.
All other modules are checked for safety only.

## 4. Proofs

`JobQueueProofs`, for every set of job ids and with or without failing writes (assumptions: `NoJob`
is not a job id, `IoFaults` is a Boolean):

* `TypeCorrect`. `TypeOK` alone is not inductive: `Take` and the ends of a job write
  `index[current]`, which needs `current` to be a job while the worker runs. `TypeInv` adds
  `WorkerHoldsCurrent`.
* `SingleFlightHolds` and `QueuedIsRunnableHolds`, from `QueueInv`: a RUNNING job is `current`
  (`RunningIsCurrent`), ids on the queue are distinct, registered, QUEUED and have their callback.
  Single flight is not inductive because it does not say that the job about to be popped is not the
  one a dead worker left RUNNING; distinctness is needed so that popping one id leaves the others
  QUEUED.
* `FifoNoLossHolds`, from `FifoInv`: taken followed by queued is what was accepted, and what was
  accepted is registered, so that a fresh id is not among it. The lemmas on sequences
  (`ConcatAppend`, `AppendHeadTail`, `ConsElements`...) carry the two steps that move an id.
* `Refinement`: `Spec => ImplementsJobService`. One lemma per kind of step: `Enqueue` is a submit,
  a pop a begin, an end an end, `Stop` and `Kill` a forget, everything else a stutter.

`BackupProofs` on the retention period, for every set of schedules with `retention >= 2 * longest`, every `MaxRun`
of at most half the longest gap of each schedule, and every horizon:

* `RunSparesOneHolds`, with `TimeInv` (no restore point is in the future and a run is never later
  than `MaxRun`) as the strengthening; `PlanSparesOne` is the arithmetic: 1.5 gaps of age plus half a
  gap of run are 2 gaps of retention.
* `LastGoodSurvivesHolds`, from the same invariant: the only step that removes points is `EndRun`,
  and `RunSparesOne` names a successful one that stays.

The assumption that a run is over within half a gap is not checked by the code; it is what the margin
between the overdue factor and the retention bound leaves room for, and without it the theorem is
false.

`QueueHoldsAlways` in `JobQueueProofs` is about the records: the index on disk says of each job what
the registry says, an end is recorded where it must be, `active_job` is right. Its strengthening,
`RecordInv`, says of every job that was taken and is not held that it has ended, and that what the
index says of an ended job is its end; each place where an append may fail is a case of its own.

`JobQueueProofs` on the notifications, which listen to the queue, for every stack, every set of versions
and recipients, every clock, and every window that is not longer than the time after which an outage is
forgotten (`NotificationConstants`):

* `JobEndIsLookedAtAlways`: a job's end that no pass has followed has the loop's event set.
* `ReportedOncePerOccurrenceAlways` and `OncePerWindowAlways`, from `ReportInv`. The file forgets, and
  the report may go out without being stored; `Remembered` and `Dated` say what of the last report
  that was stored is on file still: that it is active, unless it is over, and when it was, unless
  its window is over.

`ControlPlaneProofs`, for every set of jobs, of runners (named by kind and target, `NoRunner` not
among them: `RunnersAssumption`, `TurnRunnersAssumption`) and of requests:

* `RunningIsNeverRemovedAlways` and `OutcomeNeedsAcknowledgementAlways`, where requests interleave
  and the daemon may fail, from `PlaneInv`: a request that looks for runners lists runners of its own
  kind, and the one it is about to remove is a stack runner or was acknowledged. Nothing is known of
  what Docker said a moment ago, and nothing needs to be: `docker rm` without force does the rest.
* `UpgradeRunsAloneAlways`, `GuardedJobsRunAloneAlways` and `UnreadOutcomeBlocksAlways`, where requests
  come in turn (`TurnAssumption`: one request at a time), from `TurnInv`. The three hold each other up
  and need what a request has been told so far to be still true when it acts: what it has passed of
  its list does not run, what it has asked of the queue is as it was, for a queue that can only
  become shorter meanwhile.

`BackupProofs` on the schedule, for every set of schedules, every shortest and longest interval, every queue
and every number of attempts that fits between two slots (`HourAssumption`: `MAX_ATTEMPTS` times
`RETRY_DELAY` is not more than the shortest interval, which is an hour in the code; TLC evaluates it
for the code's values):

* `ScheduleHoldsAlways`. That the retries of a slot end before the next one is not inductive. It needs
  how far away the next slot is when attempt *n* is made or waits (`Distances`), where a retry counts
  from (`Origins`), and that a manager that is down has no jobs (`DownIsEmpty`).
* `RemovedIsQuietAlways`, from the same invariant.

`ConfigJobsProofs`, for every set of modules and contents, every length of the history and of
the queue, and every number of edits on the host: `StoredIsRunningAlways`, `DataGoesLastAlways` and
`NothingLostUnsavedAlways`. All three speak of single steps of a job or of the time between jobs, so
`ConfigInv` adds what is known at each step (`JobSteps`): what a disabling job has taken down before
the profile goes, what an overlay job has seen and saved before it renames, what the dependent was
told. `SavedKeepsTheNewest` is the lemma on the history: saving and pruning leave the newest version.

`LifecycleProofs`, for every number of commits, of snapshots and of waiting jobs, with and without
deaths:

* `VersionsStayAlways` and `InactiveIsDownAlways`, from `LifecycleInv`: what the job at work switches to
  is another directory than the registered one and is on disk, unless a plan has pruned it. The
  lemmas on `Newer`, `Only`, `Pruned` say which directories pruning leaves.
* `RecordFollowsRegistrationAlways`, for all versions of the manifest, also equal ones, and a HEAD that
  moves at any time. `RecordInv` holds as long as no directory was written twice with different
  versions (`Unswapped`, which is in the state): whatever a record, its history, a waiting job or
  the request under way says of a commit is the version its directory carried (`Told`, `Carries`),
  and what was told stays told (`ToldStays`), because a directory keeps the first version it was
  given. `RecordIsOnItsWay` says where the registration can be while a job is at work.

and on the core's upgrade, for every number of releases and of upgrades and every length of the window
the panel reads (`UpgradeConstants`):

* `WayBackIsShownAlways`, from `RunInv`: a run records the release only after the checkout has moved to
  it, and the release it was started for was not the recorded one, since a check is of the release
  that is recorded: the manager, and with it the check, is gone from the stop to the start of the
  stack, and the release is recorded in between (`RunHolds`). What a panel has read of a container
  that does not run stays so (`PollHolds`).
* `NeededImagesStayAlways`, from `PruneHolds`: what a cleanup has read of the checkout is still so when it
  removes, and a cleanup nobody asked for by hand is under way only where checkout and configuration
  agree, unless an upgrade, or the way back, started beside it.
* `PanelIsTrueAlways`, from `LogHolds`, which says of each line what the run must have done, and what must
  follow it: a phase's line is that of the phase the run is in or is followed by it, a run that is
  over has its completion marker after every phase, the cleanup has its end after its opening unless
  it is at work. Whatever must follow a line is in the window if the line is (`WindowIs`), so that the
  window hides a beginning and never an end; a problem of provisioning is the one thing that is read
  the other way round, and `ProvisioningIsSeen` uses that a window without the opening is full.

`AccessProofs`, for every set of accounts, roles, requests under way together and every clock
(`SessionConstants`: lifetimes are natural numbers and nobody is not an account; `RealmConstants`: the
identity role is not one of the editable ones; `WalkAssumption`: fewer roles than `_MAX_WALK`, 500,
beyond which the code gives up the walk):

* `StepUpIsConfirmedAlways` and `RaceSignsNobodyOutAlways`, from `BrowserInv`: every cookie, the
  browser's and that of each request, is confirmed; of the requests with one token only one asks
  Keycloak (`OneAsks`), and the renewal that has used a token is kept for as long as somebody may come
  for it (`UsedIsKept`).
* `SomebodyRemainsAlways` and `NoLoopsAlways`, from `RealmInv`: what a request under way has been
  checked for; that nobody has rights through a role unless `composed` says so; and that a request
  past its walk works on the roles it has walked (`Walked`), unless `raced`. `NoLoopAdded` is the
  argument: an edge to a role from which there is no way back closes no loop. It rests on lemmas
  about `Below` as the least closed set, so that nothing is proved by induction along a path.

`IngestProofs`, for every set of jobs, connections and requests under way together (catalogue), and of
uploads, files, saves, starts and passes (uploads):

* `CatalogHoldsAlways`, where the raw write rests on a verdict that was given before it,
  `OnlyItsOwnJobAlways` and `PurgeSparesTheFileAlways`, from `CatalogInv`: what
  a request carries (`Carries`: the file before its write and after it differ in its own job only, so
  that putting the one back for the other touches no other job), and what it relies on (`Missing`:
  what it found missing from the file is missing still, or a write has marked it; where it is about to
  delete the runs, the ingester does not serve the job either). The last is why no run can come back:
  what is deleted is neither in the file, nor served, nor working (`GoneInv`), and each of the three
  comes only from another. The lemmas on `Put`, `Without` and `RemoveAt` say what an edit does to a
  catalogue whose ids are unique. `CatalogAssumption`: there is at least one job id.
* `LimitSparesWorkingRunAlways`, from `UploadInv`: a pass that is asking has asked, or still will,
  about every marked upload that is old and whose run works (`AskedAbout`). One that is marked after
  the pass has collected is not old, because the mark dates it anew; this is why the code may read
  the clock later than its list. `MarkedRunIs` says that the run a manifest names was started.
* `ConsumedWasEmbeddedAlways`, from the same invariant: a run that has read its folder without a
  failure has left nothing there but what came late (`ReadIsRead`). `RemovalHasReason`: an
  upload leaves while a pass asks only through an answer for one of its runs that ended well. `UploadConstants`: the two bounds are natural numbers,
  and no upload is called what stands for a selection that is none.

`PagesProofs` (on the lemmas about sequences of `IngestProofs`), for every set of lines,
languages, readers, services, users, widgets and tiles, and every output:

* `GapsAreDocumentedAlways`, from `PruneInv`: the date of a prune is not after its own entry, since a
  cutoff in the future is refused. Whoever removes the entry of an earlier prune therefore does so
  with a later date, which stands for all that the earlier one took.
* `ReadingsAreSharedAlways`, from `DoctorInv`. A reading's age is bounded by where it comes from: an
  entry is as old as its page lets it be, a run was begun no longer ago than `RUN_LIMIT`, the last good
  reading a failed run falls back to was itself of a run that was in time, and a mail run that goes
  through a node adds the age of the node's. `ReadingsAssumption` says what the limits must keep: a
  re-check is refused for less time than the mail page's reading is kept (3 and 5 s against 10 s) and
  than the longest interval the settings allow.
* `ShownIsSoAlways`, from `StackInv`: what each reader has read so far, and what it knew of the nodes
  when it began, bounds what it will store. `StackAssumption`: a snapshot is kept for less time (5 s)
  than a status of all nodes (30 s).
* `LinesSurviveChunkingAlways`, from `CtlInv`: what was yielded so far is what a reference that folds
  over the whole output makes of the bytes used up (`Yielded`), and what is pending is the rest.
  That reference is a recursive function of the number of bytes (`Cut`), and each step of the reader
  takes it further by a line, a clipped line or nothing. `StreamAssumption`: limits and chunks are
  natural numbers, no more; not even that a line fits into a chunk.
* `FilesHoldAlways`, from `SettingsInv`, `PrefsInv` and `TilesInv`. The logo and the cached choice need
  what a cache that has the file's stat holds (`PrefsInv`). The ids need none of the history: they
  hold of whatever a person writes (`TilesInv` is its type). `GivenAreApart` is the argument: the ids
  that are kept are distinct and each generated one avoids all of them and those generated before
  it, since fewer ids are taken than numbers are tried.
  `FilesAssumption`: the bounds on tiles and on time are natural numbers.

What the attempts found about the models: `RecordFollowsRegistration` failed in the case of a rollback
past the kept history, which three commits cannot reach; the run has four now and the property says
what the code does there. The proof for a HEAD that moves brought out `swapped`. The version is recorded from the staged manifest and not when the job
ends. `Bound` of `Readings` had two cases that both applied to a mail reading through a node.
`HourAssumption` had been a property of the constants in the configuration file and is an
assumption of the module.

Only model-checked:

Liveness: `JobEventuallyEnds`, `DueIsSettled`, `UploadsAreSettled`. The prover has neither fairness nor
`ENABLED`.

The library's induction theorems take the formula as a parameter, which the provers cannot
instantiate. Where a proof needs induction over numbers (`CtlInv`, `GivenAreApart`), the formula is
given as the set of numbers it holds of: `SmallestNumber` is the well-foundedness of `<`, and from it
`UpTo` says that a set that holds *a* and, up to *z*, with a number the next holds all numbers from *a* to *z*.

## 5. Plan

Done: all modules of section 2 and their runs; the proofs of section 4, which cover every invariant
and every action property of the passing runs. Nothing of the plan is left; what a next step could
take up is in section 6.

## 6. Not modelled

* `papaia-ctl`, Docker, Keycloak, the ingester and the host are external: they are modelled by what
  the manager uses of them (outcomes of a start, of pruning, of a container, of a reload) and marked
  so in the map.
* Cron parsing, presets, texts, forms, environment files, translations, and all pages but the upgrade
  panel: pure conversions and rendering of single inputs, well within reach of unit tests.
* LiteLLM's usage, charts, inventory, placement of modules on nodes and `lock_reason`: read-only.
* Hook nodes of distributed installations: a failure there ends a configuration job with a message
  and changes nothing else.
* Validation and preview of overlay drafts, probes and test mails, dry runs and timetables of ingest
  jobs: they change nothing that is stored.
* Addresses and keys of connections, passwords and attributes of accounts, colours and texts of
  settings: no other state depends on them.
* Dependencies between add-ons and local-directory catalogues, the `defaults` section of `jobs.yaml`.
