# Orcheo in TLA+

Orcheo runs workflows: a FastAPI backend stores workflows, versions, triggers
and runs in PostgreSQL, publishes runs to Celery over Redis, and Celery workers
execute them. This directory models the part of it where processes meet over
the database: the life of a run from its creation to its outcome; two of the
sources that create runs, cron schedules and Telegram updates; the lease that
decides which process serves a listener; and hosted apps, whose releases and
invocations have rows of their own. TLC checks the modules on small instances.
TLAPS proves, for every value of the constants, the worker ownership protocol
(for all times that satisfy one inequality), the safety of the publication of
runs, of cron dispatch, of the run quota, of event dispatch, of the listener lease
and of hosted apps, and the arithmetic of cron schedules for every schedule and every
change of the clocks (section 5).

Paths below are relative to the repository; `B/` stands for
`apps/backend/src/orcheo_backend/`.

Run a check with `tlc -config X.cfg M` and the proofs with
`tlapm M_proofs.tla` for each of the modules that end in `_proofs`.

## 1. Inventory

| Component | State | Operations | Interacts by |
|---|---|---|---|
| Run lifecycle (`src/orcheo/models/workflow_entities.py`, `B/app/repository_postgres/_runs.py`) | `workflow_runs` row: status, owner token, lease | start, claim, succeed, fail, cancel, recover | row locks |
| Celery worker (`B/worker/tasks.py`, `run_heartbeat.py`) | task, token, heartbeat thread, stop events | load, claim, execute, renew, commit, record history, exit | messages, row, history |
| Publication and reconciler (`_triggers.py`, `B/app/pending_run_reconciler.py`) | dispatch columns of the row, broker queue | create, publish, confirm, claim stale, republish | row, broker |
| Cron (`src/orcheo/triggers/cron.py`, `triggers/layer/cron.py`, `_triggers.py`, `_base.py`) | `cron_triggers` row; one `CronTriggerState` per process | refresh, plan, create once, configure, delete, archive | row lock, copies |
| In-process execution (`B/app/local_execution.py`) | asyncio tasks | schedule, drain, fail abandoned | run row |
| Retry policies (`src/orcheo/triggers/retry.py`) | attempts per run | next decision | trigger layer |
| Webhook and manual triggers (`src/orcheo/triggers/webhook`, `_triggers.py`) | configuration, rate window | validate, dispatch | creates runs |
| Telegram event dispatch (`src/orcheo/listeners/telegram.py`, `_listeners.py`) | adapter's offset; cursor and dedupe rows | poll, normalize, dispatch event, save cursor, back off | platform, rows, creates runs |
| Listener supervisor and lease (`src/orcheo/listeners/supervisor.py`, `_listeners.py`, `B/app/listener_runtime_service.py`) | subscription row with lease and status | claim, renew, release, block, recover, pause, resume, disable | row, adapters |
| Discord and QQ gateways (`src/orcheo/listeners/discord.py`, `qq.py`) | session with an external service | identify, resume, heartbeat, dispatch event | rows, creates runs |
| Run history (`B/app/history/postgres_store.py`) | one history row per run | start, append, complete, fail | worker, websocket |
| Workflows, versions, candidates (`_workflows.py`, `_versions.py`) | rows with a JSON payload | create, update, archive, version | row |
| Workspace quota (`B/app/workspace_governance.py`, `_persistence.py`) | count of active rows | check capacity | advisory lock |
| Hosted apps (`B/app/hosted_apps/apps.py`, `apps_platform.py`, `src/orcheo/hosted_apps/postgres_store.py`) | app row, draft bindings and collections, immutable releases, moderation block, runtime switch | change the draft, update, publish, unpublish, archive, block, enable | row locks, reads outside them |
| Hosted app runtime (`B/app/hosted_apps/internal.py`, `src/orcheo/hosted_apps/postgres_runtime.py`) | run row, concurrency lease, idempotency record; tasks | resolve, accept, execute, complete, poll | advisory locks, rows |
| Identity, workspaces, vault, ChatKit | own tables | see `PROJECT.json` | requests |
| Graph IR and interpreter, nodes, plugins, studio, SDK | data and code | | |

What is hard in it: several backend processes, schedulers and workers act on
the same rows, each with an in-process lock that excludes nobody else; many
operations read in one transaction and write in another; publishing lies
outside every transaction; a reply may be lost after its commit; a worker may
die or hang at any step, and whether it did is only known by time.
`PROJECT.json` lists the hazards, each at the line where it bites, with the
properties that would catch it.

What makes the parts correct:

* a run has at most one executor and one outcome; a live owner is never
  declared dead; a dead one is; a worker that lost its run stops; history does
  not claim a success the row denies;
* a run that a trigger created does not stay pending, whoever crashes around
  its publication;
* an occurrence of a schedule gets one run, inside the schedule's window, never
  beside an active one unless allowed, and is not forgotten;
* an update of a listener gets at most one run per dedupe window, and no cursor
  moves past an update that was not dispatched;
* one adapter serves a subscription while nothing fails or is edited; two do not
  stay; a pause reaches the adapters; an active subscription is served again
  after a crash;
* a release of a hosted app grants what its administrator reviewed, as far as a
  revision covers it (the bindings of a manifest are not); an app that
  was withdrawn is not delivered again unasked; an invocation is executed at
  most once per key, within the concurrency limit, and its outcome stays;
* a workspace never has more active runs than its quota.

## 2. Modules

| Module | Models | Kind |
|---|---|---|
| `RunRow` | the statuses and row updates all run modules share | operators |
| `RunLifecycle` | what a run promises: one executor from pending to running, an outcome that stays | abstract specification |
| `WorkerOwnership` | workers, heartbeat threads, run API, reconciler's recovery; time in ticks | implements `RunLifecycle` |
| `RunDispatch` | creators, broker, reconcilers, workers up to the claim | implements `RunLifecycle` |
| `CronSchedule` | `CronOccurrence`, `CronTriggerState` | operators |
| `CronDispatch` | dispatcher processes, configuration, archiving over one schedule row | uses `CronSchedule` |
| `CronWalk` | one dispatcher walking along a schedule, against a definition of occurrences | uses `CronSchedule` |
| `RunQuota` | creators of runs, the quota's advisory lock, the count | |
| `ListenerEvents` | Telegram adapters, the platform's queue, the dedupe and run transactions, the cursor | |
| `ListenerLease` | a subscription's row, the supervisors of several processes, their adapters, the users | |
| `HostedApps` | the control plane of one hosted app: draft, revision, releases, switches | |
| `HostedRuntime` | invocations of its releases: idempotency, concurrency, tasks, timeouts, a crash | extends `HostedApps` |
| `MC*` | instances, symmetry sets, schedules; `MCCron` is `CronDispatch`, `CronWalk` and `RunQuota` in one instance, side by side | |
| `*_proofs` | theorems about the module they are named after; `Cron_proofs` about the three cron modules | |

### RunRow and WorkerOwnership

`rows[r]` is the row: `status`, `owner` (`worker_owner_token`) and `age`, the
time since the lease was last set, instead of `worker_lease_expires_at`: the
lease has expired when `age >= Lease`, and the run is orphaned when
`age >= Lease + Grace`. `wk[w]` is the Celery task a pool process is executing
(`pc` follows `_load_and_validate_run`, `_mark_run_started`,
`_execute_workflow`), `hb[w]` the thread of `worker_run_heartbeat` with two
timers: `t`, the time in its present step, and `since`, the time since the
last successful renewal (`last_renewed`).

| Action | Code |
|---|---|
| `LoadRun`, `LoadArchived`, `RejectRun` | `tasks._load_and_validate_run` |
| `ClaimRun`, `ClaimRefused`, `ClaimUnanswered` | `claim_worker_run`; a reply lost after the commit |
| `StartHeartbeat`, `HeartbeatDue`, `RenewLease`, `RenewalReturns`, `RenewalDenied`, `RenewalRaises` | `run_heartbeat.py` |
| `CancelTask`, `TerminateWorker` | cancellation of the task; `os._exit` after the shutdown time |
| `StartHistory`, `ExecutionRaises`, `CommitSucceeded`, `CompleteHistory`, `CommitFailed`, `RecordFailure` | `tasks._execute_workflow`, `_handle_execution_failure` |
| `ApiStart` ... `ApiCancel` | `B/app/routers/runs.py` |
| `FailOrphaned` | `fail_orphaned_worker_runs` |
| `Crash`, `Tick` | the process dies; time passes |

Delivery is abstracted to "an idle worker may be handed any run", so every
duplicate is included. A run is an inert object until its claim; what a node
does is one step that ends well or raises, or never ends.

`Tick` waits for what the code bounds: a database call lasts at most `DbCall`
(for the claim an assumption, see section 5), the heartbeat fires after `Interval`, the
process exits `Shutdown` after the loss. All other delays are unbounded.

### RunDispatch

One row per run with the dispatch columns `dispatch_requested`,
`enqueue_confirmed` and the ages of `created_at` and
`last_enqueue_attempt_at`; `queue[r]` counts copies of a run's message. Redis
and Celery are external: messages are delivered at least once in any order,
acknowledged late, redelivered after a crash or a visibility timeout. The
broker losing its data is outside what the code claims
(`docs/deployment.md`). `faults` counts outages, crashes and lost replies
against `MaxFaults`; `MaxCopies` caps the queue. `scoped` says whether the
run's workflow belongs to a workspace: a worker rejects a run without one.

### CronSchedule, CronDispatch, CronWalk

Instants are ticks; a minute is `Minute` ticks long, because what a dispatcher
does within a minute matters: `croniter.match` accepts every time in an
occurrence's minute. An expression fires in the first minute of every
`period` of local time; a zone has at most one change of its clocks.
croniter is external.

A wall-clock time has a fold, as a Python datetime has. In the second pass of an
hour that the clocks repeat (`SecondReading`) `astimezone` sets it and `replace` keeps it
on the way back, so that `next_after` returns a reference or a `start_at` that matches
the expression as it is; what `get_next` returns has fold 0 and is read in the first pass
(`Instant`). `next_after`'s comparisons of wall-clock times ignore the fold, as those of naive
datetimes do.

In `CronDispatch` every process holds its own copy `local[p]`; a pass is
`BeginPass` (takes `now`), `Plan` (`_refresh_cron_triggers` and
`collect_due_cron_dispatches`), `CheckWorkflow` and `CreateRun`
(`_create_cron_run_once`, one transaction under the row lock, after which the
copy advances, or does not when the commit's reply is lost). `SkipPlan` stands
for every way a pass ends without a run: no version, unhealthy credentials,
quota, `SKIP LOCKED`, a database error. `BeginConfigure` and `Configure` are
the two transactions of `configure_cron_trigger`; the second also takes
effect only in memory when its write fails. A process does one of these at a
time, as `self._lock` has it; a pass that waits for the lock with its `now`
already taken is a `BeginPass` followed by time. Runs are created by
dispatchers only: an API client that creates runs with `triggered_by="cron"`
is not modelled.

`CronWalk` says what an occurrence is (`Occurs`): an instant in the window at which
the schedule's own clock shows a time of the expression for the first time. Its walk
is one dispatcher that consumes what is due, from any instant on, unless
`_create_cron_run_once` would refuse it as not after the last dispatch. `TurnsBack` names
the references from which it would: in the second pass of a repeated hour, when the
expression fires again before the pass ends. A schedule is dispatched there when its `start_at`, or
the first poll of a schedule without one, is there; its next time is then in the first
pass, before the dispatch, and it stays refused until the schedule is deleted or given another configuration
(`cron_walk_fold`). `next_after` does
not quite return the occurrences where the clocks go forward: `replace(tzinfo=...)`
reads a skipped wall-clock time with the offset before the change, so it fires by as much
later as the clocks were put on, which is another occurrence only if the shift is a multiple
of the period, and may be after `end_at` although the skipped time was before it.
`Regular` names the schedules to which this does not happen: those whose clocks
go back or do not change, and those where the shift is a multiple and, if they end, the change is at an
occurrence.

### RunQuota

`active` counts the committed runs of a workspace that are pending or running.
A creator is a process (`self._lock` lets it create one run at a time), and its
transaction is `BeginRun`, `TakeQuotaLock` (the advisory lock), `CountRuns`
(which refuses when the quota is full) and `CommitRun`, or it ends in `RollBack`.
The transaction is its own, or the one of `_create_cron_run_once`, which also
advances the schedule. `FreeSlot` is any change of a run to a terminal status.
`Limit` is a constant because no operation changes a workspace's quotas once it
exists, and at least 1 because `WorkspaceQuotas` requires it.
The run `worker_ownership_release` shows what a slot is worth: a run can free it
while it is still executed.

### ListenerEvents

An adapter's `offset` is its own `telegram_offset`, `next..last` what is left
of its batch (`next` is also `next_offset`), `attempt` the dedupe record it
has just written. `cursor` is the row of `listener_cursors`, `expires[e]` the
`expires_at` of an update's row in `listener_dedupe` (0 without a row; a row
that has expired is deleted by the next reservation and so counts as absent).
`attempts` is a history of the dedupe records with what became of each, and
`ignored` of the updates that met a subscription that was not active; no action
reads them. Adapters that run at the same time stand for the overlap when a
lease moves to another process.

| Action | Code |
|---|---|
| `GetCursor`, `GetUpdates` | `poll_once` up to the answer of `getUpdates`; the platform drops what lies below the offset |
| `PassOver` | an update that `normalize_telegram_update` rejects |
| `Reserve`, `ReserveUnanswered` | first transaction of `dispatch_listener_event` |
| `CreateRun`, `CreateRaises` | second transaction and `_create_run_locked` |
| `SaveCursor`, `SaveCursorUnanswered` | `save_listener_cursor` after the batch |
| `PollRaises`, `AfterBackoff`, `Exit` | the loop of `run`, which catches and waits |
| `Start`, `StopAdapter`, `Pause`, `Resume` | the supervisor and the API, as far as an adapter notices |
| `Arrive`, `Tick`, `Crash` | the platform, time, the end of a process |

### ListenerLease

The row of `listener_subscriptions` holds status, `assigned_runtime` and
`lease_expires_at` twice, in columns (`cols`) and inside its JSON payload
(`pay`), and the writers do not treat them alike: a claim takes the row lock and
decides by both; a release sets the columns' owner and the payload read before;
a dispatched event writes back the payload only; a status change writes both.
`call[p]` is a read-modify-write under way in process `p`, with the payload it
read. `sup[p]` is where the supervisor stands in its pass, `seen[p]` the
payload the pass listed, `task[p]` the adapter's task. What is left of a lease is
counted in half leases (2: more than half, 1: at most half, 0: expired), which is
all that the renewal and the claim distinguish; `Tick` ages every copy, so time
needs no bound.

| Action | Code |
|---|---|
| `List`, `Keep`, `Renew`, `ClaimAndStart`, `ClaimRefused`, `ClaimUnbuilt`, `PassOver`, `RecoverBlocked`, `Unbuild`, `EndPass` | `ListenerSupervisor.run_once` and what it awaits |
| `SupervisorReads`, `BeginRelease`, `BeginDispatch`, `Pause`, `Resume`, `Disable`; `Write` | the reading and the writing half of `update_listener_subscription_status`, `release_listener_subscription`, `dispatch_listener_event` |
| `StopAdapter`, `AwaitRaises`, `AdapterReturns`, `ReleaseRaises` | `_stop_stale_subscriptions`, `_run_adapter` with its `finally` |
| `ChangeCredential`, `PassRaises`, `Crash`, `Tick` | the environment |

`Tick` waits until no call lasts longer than half a lease and every supervisor
that is neither waiting nor gone has ended a pass; a tick that does not wait is a fault.

### HostedApps, HostedRuntime

`app` is the app's row. `draft` stands for its stored bindings, collections,
deployments and the configuration of the workflow it binds by version numbers: two drafts are equal when
their numbers are; `bound` says whether a live binding row is of that workflow. The bindings a
release grants are the stored rows, with the copies they hold of the workflow's configuration, or,
for a deployment with a manifest, are built at publish from the configuration of that
moment (`GrantsOf`, `ReadBindings`; `ResolutionFails` when there is no such
version). `ChangeConfig` is `update_workflow_version_runnable_config`, which changes the configuration in
place; `InvalidateBindings` is the second transaction of that handler, which advances the revision
only of apps with a stored binding of the workflow. `invalidating` counts those still to come, and a
crash loses them. So no revision covers a manifest's bindings, and `Covered` leaves them out of
what `ReleasedAsReviewed` and `NothingToReview` claim.
`releases[r].grants` is what a release copied, `reviewed` (history) what the
administrator had seen when acknowledging the revision. An update is two
transactions, `ReadRow` and `WriteRow`, and a publish is its three reads and
`CommitPublish`; `torn` (history) records that an update wrote back a row that had
changed in between. `boot` is what a start of the backend still has to do
(`_auto_enable_self_hosted_runtime`).

`run[h]` is an invocation's row with its lease and its idempotency record, which
are written in the same transaction; `left` and `ttl` count down to `timeout_at` and
to `expires_at`. `call[c]` is a visitor's request. Acceptance is `Lookup` (lock of
the idempotency scope, known invocation), `Count` (lock of the limit, leases
counted) and `Accept` (expired leases released, rows inserted, commit); the locks
are held from their step to the end of the transaction, which is `ScopeFree` and
`LimitFree`. The task of the run is `Schedule` and `Finish`; `Poll` is
`get_runtime_run`. One backend process serves everything, as the in-process
execution of hosted runs requires: `Restart` is its crash, which drops requests
and tasks and keeps the rows. The app has one binding and one visitor; the
binding of a draft keeps its id from release to release, one that comes from a
manifest is made anew for each.

## 3. Runs

| Run | Instance | Shows |
|---|---|---|
| `worker_ownership` | 1 run, 2 workers, 3 tokens, Interval = DbCall = Shutdown = 1, Lease 2, Grace 4 | all safety properties, the refinement of `RunLifecycle`, `OrphanRecovered` and `LossStopsWork` |
| `worker_ownership_release` | 1 run, 1 worker | violation: the API frees a slot whose run is still executed |
| `run_dispatch` | 1 run with or without a workspace, 2 reconcilers, 2 workers, 3 copies, 3 faults | nothing is stranded or executed twice; every triggered run leaves pending |
| `cron` | 2 processes, two schedules (the clocks of one go forward, the other starts in the second pass of a repeated hour), 5 instants (an API caller may pass the last), 2 runs, 2 insertions of the row; beside it a walk: 4 periods, 5 zones, 6 windows, 31 instants; and 3 creators of runs, a quota of 2 | one run per occurrence, in the window, no overlap, no current plan refused, but after a dispatch in that pass; the arithmetic against a definition of occurrences; the quota |
| `cron_dispatch_liveness` | 2 processes, one schedule, in UTC | a due schedule does not stay due (in a zone that turns back it does, see finding 4) |
| `cron_dispatch_open` | a schedule without start that allows overlap | violation: two runs for one occurrence |
| `cron_dispatch_archive` | one schedule | violation: an archived workflow with a schedule |
| `cron_walk_fold` | the walk alone | violation: after a dispatch in the second pass of the repeated hour the next time is before it |
| `listener_events` | 2 adapters, 3 updates (the second irrelevant), batches of 2, window 1, 2 instants, 1 fault | one run per update and window, nothing dropped undispatched, every update dispatched |
| `listener_events_delivery` | the same, window 2, 1 instant | violation: an update without a run |
| `listener_lease` | 2 processes, one edit or one fault | one adapter while undisturbed; overlaps end, a pause arrives, an active subscription is served |
| `hosted_apps` | 1 update, 1 publish and 2 visitor's requests at a time, 2 releases, 2 keys, 2 handles, limit 1, every interleaving of up to 4 requests, configuration changes among them, and one crash or dead task | releases as reviewed but for the bindings of manifests, withdrawal, idempotency, limit, outcomes |

Why these bounds are enough for the interesting cases. Two workers
allow a duplicate delivery and a late reporter, and no step reads the rows of
two runs; three tokens let a run be claimed again with a fresh token after a
rejected or unanswered claim. The times make every order of the heartbeat's, the database's and
the reconciler's steps reachable while satisfying the code's inequality
exactly (1 + 2 + 1 = 4 = Grace), so a tick less breaks `LiveOwnerNotOrphaned`.
Two reconcilers and three copies show the publication racing its
republication; one run is enough, as no action reads two rows and a worker
handles one message at a time. Three updates and batches of two give a batch
that ends in the middle, one that begins with a duplicate, and an irrelevant
update inside; a window of one tick out of two lets a record expire while an
adapter still holds the update. A duplicate needs no fault (two
adapters run from the start) and every single fault is covered. Two dispatchers are enough for a stale plan; two insertions for
deletion and re-creation; two runs for a duplicate; two ticks per minute for
two different `now` in one. The walk's instants cover at least one period
on each side of the change, the shift is smaller than, equal to and
larger than the periods, and the change is at an occurrence or between two.

In `listener_lease` two processes suffice for every conflict over the one row, and
one disturbance for every single overwriting of one by the other; with
two (an edit and a fault, or two edits) the run passes too, but takes close to the
time a check may. In `hosted_apps` four requests are enough for what the
properties relate: an update or a publish that began before two others
committed, and a publish, an invocation and its retry under the next release. An
invocation needs no more than two handles to exceed a limit of one.

`cron_walk_fold` disables the deadlock check, as the walk ends at `WalkTime` (in
`MCCron` a step of its own, `WalkOver`, says so); so does `hosted_apps`, as requests are bounded and an app without
visitors may rest.

Each property of a passing run is also run against a mutated definition, the
way a plausible bug would change it (the definitions marked "A mutation"), and
then fails.

### Findings

1. `NoExecutionAfterRelease`: marking a running run through the API frees its
   quota slot while its worker goes on for up to a heartbeat and the shutdown
   time; `docs/deployment.md` says a worker cannot keep executing when the
   slot is released.
2. `OneRunPerOccurrence` on an open schedule: without `start_at` the first
   `scheduled_for` is the dispatcher's own `now`, so the comparison under the
   row lock does not recognise the other dispatcher's run. With a start it
   does.
3. `ArchivedHasNoSchedule`: `configure_cron_trigger` checks and writes in two
   transactions.
4. `NextIsAfter`: after a dispatch in the second pass of an hour that the clocks
   repeat `next_after` returns a time before it, which `_create_cron_run_once` refuses on every
   pass. With `*/30 * * * *` in America/New_York and `start_at` 2025-11-02T06:00Z the
   first run is for 06:00Z, the next time is 05:30Z, and there is no other run.
5. `AtLeastOnce`: the dedupe record is committed before the run exists. When
   the second transaction fails, the next poll takes the update for a
   duplicate and the cursor passes it: no run, where the requirements
   (`project/initiatives/private_bot_listeners/1_requirements.md`) promise
   at-least-once delivery. `DropsOnlyHandled` is what does hold: each update is
   dispatched once before it is dropped.

## 4. Fairness

* `WorkerOwnership`: time passes; the reconciler polls every minute while a
  backend lives (`run_pending_reconciler` catches every exception); the
  heartbeat is a thread of its own and its steps are bounded by timeouts; the
  claim's reply or its timeout arrives. The task itself has no fairness: a node may block for ever and
  may ignore its cancellation.
* `RunDispatch`: time passes; the broker recovers; a publisher and a confirmer go
  on; the reconcilers poll; a worker takes messages and handles what it took.
  With `MaxFaults` faults in a behaviour: if every publication failed for ever
  nothing could be promised.
* `CronDispatch`: every process polls for ever and its lock is given in order,
  so passes begin, plan and create with strong fairness: what makes one pass
  skip a plan (a lock held by another, a quota) is not there every time. Runs
  end, which is `WorkerOwnership`'s liveness. `Configure` finishes.
* `ListenerEvents`: an adapter's coroutine goes on, its requests and queries
  ending or raising, and a supervisor starts adapters for an active
  subscription (it looks every few seconds). The latter is an assumption about
  the supervisor: its `serve` ends with the first exception of `run_once`, and
  an ended adapter is not replaced when releasing its lease raised. Apart from these two
  (`Broken`), `ListenerLease`'s `ActiveIsServed` discharges it. Nothing is assumed of the
  platform and of time. `EventDispatched` speaks of a subscription that stays
  active from some point on, and faults are finite.
* `ListenerLease`: time passes; a call that has read writes; a supervisor's
  pass goes on and a release begins, both with strong fairness, as the process's
  repository lock is taken and given in order; an adapter that was told to
  stop returns (its poll has a timeout). Building an adapter whose credentials
  resolve does not fail every time, as faults are finite. The liveness
  properties leave out a supervisor that died or keeps an ended task
  (`Broken`): nothing in the code brings it back.
* `HostedRuntime`: safety only. A run whose process died is settled by a poll, if
  a visitor polls before the handle expires; nothing else looks at it.

## 5. Proofs

### WorkerOwnership

`WorkerOwnership_proofs` proves, for all finite or infinite sets of runs,
workers and tokens and all times:

| Theorem | Property | Argument |
|---|---|---|
| `TypeCorrect` | `TypeOK` | with `TaskOK`: a busy worker has a run |
| `OutcomeFinal` | `OutcomeIsFinal` | `RowSteps` names the only ways a row changes, and `OwnedIsRunning` (only a running row has an owner) shows none applies to a row that has ended |
| `LiveOwnerSafe` | `LiveOwnerNotOrphaned` | `TimerInv`, below |
| `OneExecutorSafe` | `OneExecutor` | `EngagedInv`: whoever is engaged found the run pending, which never comes back |
| `HistoryAgreesAlways` | `HistoryAgrees` | `HistoryInv`: the step that completes the history comes after the commit of the same worker, and an outcome is final |
| `ImplementsLifecycle` | `KeepsLifecycle` | each action is a step of `RunLifecycle` or a stutter, given `TypeInv` and `EngagedInv` |
| `StaleIsBounded` | (no run) | `TimerInv`: `since` never exceeds `Lease - 1 + Interval + DbCall + Shutdown` |
| `LossIsFinal` | (no run) | `LostRowStep`: a lost run stays lost, since it has left pending; `LostWorkerStep`: only a granted renewal sets `since` back |

The assumptions are those of `WorkerOwnership.tla`. `GraceCoversShutdown`,
`Interval + 2 * DbCall + Shutdown <= Grace`, is the one with content: with the
code's values (interval 20 s, shutdown 30 s, lease 120 s, grace 180 s,
`B/app/run_ownership.py`) it holds for database calls of up to 65 s. A
renewal is bounded by its timeouts for connecting and for the statement (5 s
each). The claim goes through the shared pool, which sets no statement timeout but
detects a dead connection within 60 s (keepalives and the TCP user timeout of
`src/orcheo/config/defaults.py`): that its reply arrives and the heartbeat
thread starts within `DbCall` of the commit is an assumption about the rest.
The lease does not occur in it: the worker gives up when its lease would have
run out, and from there on only the grace period protects it.

`LiveOwnerNotOrphaned` is not inductive: whether a step is too late depends on
how the worker's clock relates to the database's. `TimerInv` relates them: as
long as the worker owns the row, `age <= since + DbCall` (the lease was set
after the call that renewed it began), and `since` is bounded in each state
of the heartbeat, up to `Lease - 1 + Interval + DbCall + Shutdown` while it
waits for the task to stop. Together they keep `age` below `Lease + Grace`.

`StaleIsBounded` and `LossIsFinal` are the safety part of `LossStopsWork`: once a
worker's row is not its own and no granted reply is under way (`Lost`), each tick
moves its clock towards a bound it cannot pass, and nothing moves it back; so it has
left when the bound is reached. That time passes is fairness, and that stays with TLC.

### RunDispatch

`RunDispatch_proofs` proves, for every set of runs, workers and reconcilers, any
number of faults and copies and all times with `PublishTime < RetryInterval`
(`PublishFitsRetry`; the broker's socket timeouts bound a publish):

| Theorem | Property | Argument |
|---|---|---|
| `TypeCorrect` | `TypeOK` | with `BusyHasRun`: who is busy has a run |
| `ConfirmedIsQueuedAlways` | `ConfirmedIsQueued` | `QueuedInv`, below |
| `OneRepublisherAlways` | `OneRepublisher` | `SpacedInv`: a run that is being republished has been stamped at most `PublishTime` ago, and a second reconciler takes only what was stamped a `RetryInterval` ago |
| `ImplementsLifecycle` | `KeepsLifecycle` | each action is a step of `RunLifecycle` or a stutter, given `EngagedInv`: who executes a run found it pending |
| `ExecutedOnce` | (no run) | from `RunLifecycle`'s steps (`LifecyclePromises`) through the refinement: a worker joins a run's executors only when the run leaves pending, which it does once, and an outcome stays |

`ConfirmedIsQueued` is about the confirmed column and is set by a process that
published earlier. `QueuedInv` therefore says more: what is confirmed, or whose
creator or reconciler is about to confirm it, has a message in the queue or at a
worker until it leaves pending. `MessagesKept` lists the only steps that drop a
message, each of a run that is no longer pending or has no workspace;
`AbsentInv` says that nobody knows a run that does not exist yet.

### CronWalk, CronDispatch

`Cron_proofs` proves, for every set of schedules with any period, window and change of
the clocks, and every length of a minute:

| Theorem | Property | Argument |
|---|---|---|
| `WalkTypeCorrect` | `WalkTypeOK` | |
| `ScheduleAdvancesAlways` | `ScheduleAdvances` | `WalkInv`, below |
| `NextIsFirstAlways` | `NextIsFirst` | `WalkInv`; `FollowingOccurs`: what `next_after` returns occurs; `NoneBetween`: nothing occurs before it |

and for every set of processes and any number of runs and insertions of the row:

| Theorem | Property | Argument |
|---|---|---|
| `TypeCorrect` | `TypeOK` | |
| `RunsAreOccurrencesAlways` | `RunsAreOccurrences` | `ProcessInv`: a plan is the next time of its process's copy, and that is an occurrence of the copy's configuration, which the row lock compares with the row's |
| `OneRunPerOccurrenceAlways` | `OneRunPerOccurrence` | `RunsInv`: the row remembers the latest run of its insertion, and runs of one insertion have increasing times; assumes of every schedule that it has a start and that start, period and shift of the clocks are whole minutes (`Whole`) |
| `SecondPassOnlyStarts` | (no run) | `NextReads`: what `next_after` returns is `get_next`'s time, which is never in a second pass, or the start, or the inclusive reference, which is the start when there is one |
| `NoOverlapAlways` | `NoOverlap` | only `CreateRun` adds a run, and it counts active ones under the row lock |
| `PlansGoOnAlways` | `PlansGoOn` | `ChainInv` and `NextIsLater`, below |
| `DueIsPlanned` | (no run) | `ChainInv`: a copy's next time is what follows its last one; `RefreshedFollows`: a refreshed copy is the row's |

`WalkInv` says that what a copy holds is in the window and that its next time is what
`next_after` makes of its last one. The last one is in the window, so `next_after` does not move it to the
start, and the next time is `get_next`'s, read without a fold (`NextOfLater`); such a
time is never in a second pass (`InstantFirst`). It is after the last one if that was a first reading (`LaterInstant`),
and otherwise exactly if the expression does not fire again before the pass ends (`TurningBack`).
Hence `ScheduleAdvances` says "if and only if": a schedule turns back from its first dispatch or
never. `NextIsFirst` leaves that one step out and assumes `Regular`, for the reason given in section 2.

Increasing times are not yet different minutes: `croniter.match` accepts every
time of an occurrence's minute. `NextReads` says that what `next_after` returns is
on the period, the start or its inclusive reference, and the reference is the start
when there is one; hence `Due`, a whole minute. Without a start the reference is
the dispatcher's clock, which is what the run `cron_dispatch_open` exploits.

`PlansGoOn` is about a plan made from the row as it is now. Its time is what `next_after` makes
of `last_dispatched_at` (`ChainInv`), however the copy came by it, and that is later if
the last dispatch is a first reading in the row's zone (`NextIsLater`). It need not be one: `start_at` may lie
in a second pass, and a schedule may get a zone whose clocks repeat the hour in which it was
last dispatched. The property exempts these cases (`SecondReading`), and without the exemption TLC finds the
plan refused. Nothing is assumed of the schedules or their zones.

`DueIsPlanned` is the safety part of `DueIsDispatched`: whatever copy a process
holds, the pass that refreshes it plans the occurrence after the row's last dispatch
if that is due and no active run forbids it; with `PlansGoOn` the row lock then accepts
it unless the row has changed meanwhile or was last dispatched in a second pass.

### RunQuota

`RunQuota_proofs` proves `QuotaTypeOK` (`QuotaTypeCorrect`) and `WithinQuota`
(`WithinQuotaAlways`) for any number of creators and every quota. `SlotInv` says
why: who has counted holds the lock, and until its transaction ends the number
of active runs only falls.

### ListenerEvents

`ListenerEvents_proofs` proves, for every set of adapters, every number of
updates and faults, every batch size and every dedupe window:

| Theorem | Property | Argument |
|---|---|---|
| `TypeCorrect` | `TypeOK` | with `RecordHeld`: an adapter between its two transactions holds the index of its own dedupe record |
| `OncePerWindowAlways` | `OncePerWindow` | with `RecordsCovered`, below |
| `DropsOnlyHandledAlways` | `DropsOnlyHandled` | with `Behind`, below |

`OncePerWindow` speaks of the history and the code looks only at `expires`.
`RecordsCovered` ties them: no record lies in the future and each is covered by
its update's `expires` until `at + Window`. A reservation that finds
`expires <= now` is therefore at least a window after every earlier one.

`DropsOnlyHandled` is about the platform's and the stored cursor, and both are
set from adapters' offsets, which are read from the cursor. `Behind` says of all
four (confirmed, cursor, each `offset`, each `next`) that what lies below has
been dispatched; an offset goes up only past an update that was dispatched or is
irrelevant, and `HistoryGrows` says that the history keeps it. It does not
matter that a second adapter stores an older cursor over a newer one.

### ListenerLease

`ListenerLease_proofs` proves, for every set of processes and any number of edits
and faults:

| Theorem | Property | Argument |
|---|---|---|
| `TypeCorrect` | `TypeOK` | |
| `InactiveIsRealAlways` | `InactiveIsReal` | `CopyInv`: a payload that a release or a dispatch has read and may yet write back is active, and only an active one has an owner; so these two can leave behind an old "active", never an old pause |
| `OneAdapterAlways` | `OneAdapter` | `QuietInv`, below |

`QuietInv` describes the row while nobody edits and nothing fails: whoever has an
adapter owns the lease in the columns and in the payload, the lease has not expired, has more than half to go
once its pass has ended in this half lease, and a dispatch under way
holds a copy that is its own and not newer than the columns. Hence its renewal is never
refused and a second claim always is.

### HostedApps, HostedRuntime

`HostedRuntime_proofs`, on the lemmas of `HostedApps_proofs`, proves for every set
of requests, releases, keys and handles, every limit and all times with
`Timeout <= Ttl`:

| Theorem | Property | Argument |
|---|---|---|
| `TypeCorrect` | `TypeOK` | |
| `ReleasedAsReviewedAlways`, `NothingToReviewAlways` | the properties of these names | `ReviewInv`, below |
| `WithdrawnStaysWithdrawnAlways` | `WithdrawnStaysWithdrawn` | `MadeInv`: a row's active release has been made, also in a row an update still holds |
| `OncePerKeyAlways` | `OncePerKey` | `KeyInv`: behind the scope's lock there is no run of the scope, and no two requests hold it; `StartedInv`: an accepted run is scheduled by the one request that holds its handle |
| `WithinLimitAlways` | `WithinLimit` | `LimitInv`: a request behind the limit's lock has counted fewer leases than the limit, and until it commits the number only falls; with `ReleasedInv`, as the bindings a run counts against are fixed by its immutable release |
| `LeaseFollowsRunAlways` | `LeaseFollowsRun` | inductive |
| `SettledIsFinalAlways` | `SettledIsFinal` | `KindsOfStep`: every step is calm (runs only settle or grow older) or one of the three of an acceptance or the start of the task |

`ReviewInv` says which publish may still be admitted and what it has read: while the
revision is the acknowledged one, each part it has read, of those a revision covers, is the part that was reviewed; and also
one revision later, if the change was to the visibility and came after the
handler read the row, because the handler then claims a revision that is one
higher. That second case is why `Admits` alone does not show the property. `torn`
is in it as the hypothesis it is in the properties: an update that writes back an
old revision makes an old acknowledgement admissible again.

### What is only model-checked

Liveness (`OrphanRecovered`, `LossStopsWork`, `TriggeredRunLeavesPending`,
`DueIsDispatched`, `EventDispatched`, `OverlapEnds`, `StopReachesAdapters`,
`ActiveIsServed`) and the violations. Liveness under fairness is out of the prover's
reach; of two of them the safety part is a theorem (`LossIsFinal`, `DueIsPlanned`).
Every other property of a passing run has a theorem.

## 6. Assumptions and omissions

* The heartbeat thread is scheduled in time and database calls end within
  `DbCall`; a process that is suspended as a whole for minutes can break
  `LiveOwnerNotOrphaned`. The row's fence (status and token) still keeps its result out,
  which is why `OutcomeIsFinal` and the refinement do not need the times.
* The owner token and the status machine overlap as fences: an owner that lost
  its run meets a row that has ended. The history of a run that succeeded may
  say `running` or `error`, when the write after the commit failed;
  `HistoryAgrees` is the direction that holds.
* A run published without a workspace is rejected by the worker and stays
  pending; `RunDispatch`'s liveness excludes it (`scoped`).
* `RunQuota` has one workspace: workspaces whose identifiers hash to one lock key
  only wait for each other. A run without a workspace has no quota.
* The instance of `RunDispatch` has one run, so which of several stale runs a
  reconciler claims first and how many it handles in a pass make no difference
  to it.
* The platform keeps an update until a later poll confirms it; Telegram's own
  limit of a day is left out. Which updates are relevant is a constant. An
  update that is dispatched while the subscription is paused is dropped by the code, and
  counts as handled here (`ignored`).
* `ListenerLease` has one subscription. Subscriptions that a new version creates,
  and the passes' order over several, are left out. That nobody but a user ends
  a pause is not a property of this code: recovering a blocked subscription
  (`supervisor.py:214`) and blocking one (`:131`) set a status decided on
  from an older listing, and `_listeners.py:489` writes it whatever
  the status now is. `InactiveIsReal` and `StopReachesAdapters` are what holds.
* `HostedApps` has one app. Aliases and tombstones, sessions and authorization
  codes, the data of an app, bundles and uploads, the gateway and its origins, and the
  limits per minute are left out; `cancel` has no callers. `suspended_at`
  is never set in the code, so that a moderation block ends the delivery and not the
  publishing. The resolution of an app and the acceptance of its run are two
  transactions: a run may be accepted just after the app was
  unpublished, and no property says otherwise. `torn` excludes an update that
  overwrites a row changed in between, a hazard in `PROJECT.json`; what holds
  regardless is `WithdrawnStaysWithdrawn`, which names that case. `Covered` leaves out the bindings of a
  manifest, another hazard there: without it TLC finds `ReleasedAsReviewed` and `NothingToReview` violated by a
  configuration that changed between the review and the publish, or since, with no update out of date.
  The manifest's bindings are one workflow's here, and a change of the configuration
  stands for every change of what they copy.
* `_auto_enable_self_hosted_runtime` enables the runtime at every start,
  also after an operator disabled it (`EnableRuntime`); the outcomes
  of runs accepted under the earlier generation are then out of reach of a poll.
* Not modelled: see the notes in `PROJECT.json`. The repository has some 118000
  lines of implementation; the greater part of them converts, renders, validates or
  calls services (nodes, integrations, SDK, CLI, ChatKit's widgets), keeps no state
  that two actors share, and would be transcribed rather than modelled. Data
  (graphs, payloads, credentials), cryptography and single-statement storage
  are left out on purpose; what is left of the stateful parts is planned.

## 7. Plan

1. `InProcess`: scheduling and draining without leases, together with cron's
   overlap check.
2. `RetryPolicy` as recursive functions against a reference definition, the
   webhook's rate window, and version and candidate promotion.
3. Hosted apps' aliases and sessions, and the data of an app.
