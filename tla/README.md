# Verification of Pasion

Pasion is a Matrix authentication service: an OAuth 2.0 / OpenID Connect
provider with its account pages, admin API, upstream logins, and a background
worker that keeps a Matrix homeserver in step, all on one PostgreSQL database.
This directory holds TLA+ models of its concurrent core, the TLC runs that check
them on small instances and the TLAPS proofs that hold for every instance.

## Inventory

| Part | State | Operations | What is hard | What makes it correct |
|---|---|---|---|---|
| Job queue tables (`data/src/pg/queue`) | `queue_jobs`, `queue_workers`, `queue_schedules`, `queue_leader` | schedule, reserve, mark completed / failed, retry, promote, recover, heartbeat, lease | every statement commits by itself; any number of processes | attempts at a job stay in sequence, outcomes are final |
| Queue runtime (`tasks/src/new_queue*`) | tracked tasks, last heartbeat, leader flag | tick, leader duties, drain, deregister | crashes between statements, stalls, eviction of a worker that lives, lease expiry | no job is orphaned, duties are exclusive, every job ends |
| Token endpoint (`backend/.../token_service.rs`, `data/src/pg/oauth2`) | grants, sessions, access and refresh tokens | code exchange, refresh, device code, client credentials | two requests with the same code or token at READ COMMITTED, lost responses | a code is exchanged once, one live token chain per session |
| User lifecycle and homeserver jobs (`tasks/src/user.rs`, `matrix.rs`) | users, sessions, homeserver accounts and devices | deactivate, reactivate, provision, sync devices | retried jobs of opposite intent interleave; homeserver calls fail half way | the homeserver ends in the state of the last decision |
| Notification delivery (`tasks/src/notifications.rs`, `data/src/pg/notification.rs`) | deliveries, attempts, provider events | send, retry, webhook | webhook before the send is recorded, retry windows | a message goes out once, its request shows what became of it |
| Session expiry (`tasks/src/sessions.rs`) | sessions, cursors | expire a page, reschedule | activity that is written late, retried pages | only inactive sessions end |
| Server lifecycle (`backend/src/lifecycle.rs`) | soft and hard tokens, task tracker | signal, reload, time out, drain | tasks that wait for each other while they stop | the tasks end by themselves |
| Configuration sync (`backend/src/sync.rs`) | clients, providers | upsert under an advisory lock | two servers that start together | the tables equal the configuration |
| Registration and upstream login (`account/service/registration.rs`, `upstream_oauth2`) | registrations, verified addresses, authorization sessions, links | begin, verify, change the address, finish, log in, link, unlink, clean up | two requests that find the same address or link free; cleanup under a registration in progress | addresses were proved, an account keeps a way to log in |
| Recovery, flow executor | flow and session rows | one request per stage | requests out of order or twice | each stage is taken once, in order |
| Activity tracker (`backend/.../activity_tracker`) | a channel, pending records | record, flush, drain | reports before the commit, flush against shutdown, a batch that is refused as a whole | no accepted activity vanishes, sessions in use are not expired |
| Rate limits, caches | in memory | - | - | out of scope |
| Policy, JOSE, keys, types, templates, i18n, messaging, CLI, listeners, frontend | none shared | pure functions and I/O | - | out of scope |

Interaction: request handlers enqueue jobs in their own transaction; workers
poll the tables (and are woken by NOTIFY); jobs call the homeserver and the
message transports and may enqueue further jobs; everything else shares nothing
but the database. `PROJECT.json` lists every part, its status and the hazards,
each at its line.

## Plan

1. **Job queue** (done): `JobQueue`, its contract `JobContract`, the refinement
   `JobQueueRefinement`, the proofs `JobQueueProofs` and the proof of the
   refinement `JobQueueRefinementProofs`.
2. **Token rotation** (done): `TokenRotation` and the proofs
   `TokenRotationProofs`.
3. **User lifecycle** (done): `UserLifecycle`, accounts, administrators and
   their twins on the homeserver; proofs in `UserLifecycleProofs`.
4. **Grants** (done): `GrantExchange`, authorization and device codes from
   consent to tokens, with the device list that `SyncDevicesJob` keeps; proofs in
   `GrantExchangeProofs`.
5. **Notification delivery** (done): `NotificationDelivery`, the outbox and the
   provider webhooks; proofs in `NotificationDeliveryProofs`.
6. **Activity, expiry and shutdown** (done): `ActivityTracker`; proofs in
   `ActivityTrackerProofs`.
7. **Registration** (done): `Registration`, accounts, addresses and upstream
   links; proofs in `RegistrationProofs`.

Every safety property that a passing run checks, and the refinement, is a theorem.
What stays with TLC is liveness (`EveryJobSettles`, `EveryRequestEnds`,
`EveryDeliverySettles`, `EveryRecordSettles`, `TasksEnd`): fairness and ENABLED are
out of the prover's reach. The inductive invariants of the proofs were checked with TLC on the
instances of the runs before they were proved.

The modules meet in the database and are composed through what they establish:
the job queue gives each job at-least-once execution and no second attempt
before the first has failed, and steps 3, 4 and 6 use jobs exactly in this way
(a job stays until a task has finished it, a failing task is retried). A module
for all of them together would be out of TLC's reach.

## The job queue

### What the code does

A worker process registers a row in `queue_workers` and loops about once a
second. A tick sends a heartbeat once a minute, removes an expired leader
lease, tries to take or renew the lease, records the results of finished tasks
and reserves available jobs up to `MAX_CONCURRENT_JOBS`. The leader then takes a
session advisory lock and performs the leader duties: shut down workers that
were silent for two minutes, fail and retry the running jobs of workers that
are shut down, add the next run of each cron schedule, promote scheduled jobs
that are due. On cancellation the worker drains its tasks, sets its
`shutdown_at` and gives the lease back.

The runtime builds its repository with `PgRepository::new(conn)` on a bare
pooled connection. `BEGIN` is issued only by the repository factory that request
handlers use, so here **each SQL statement is a transaction of its own**. That
fixes the grain of the model.

### JobQueue

One action is one SQL statement with the local code up to the next one.
Variables are the columns of the tables (one function per column, rows
`1 .. lastId` in id order), the lease, the advisory lock and, per worker, a
control point `pc` and its local variables. `Die` is the end of a worker
wherever it is: a crash, or a query error whose `?` ends `run_inner`; the row
of the worker, its lease and its lock stay behind, its tasks are gone.

| Code | Actions |
|---|---|
| `QueueWorker::new`, `setup_schedules` | `Register` |
| `tick_worker` | `Heartbeat`, `RemoveLeaseIfExpired`, `TryGetLeaderLease`, `MarkAsCompleted`, `MarkAsFailed`, `Reserve` |
| `QueueJobRepository::retry`, three statements | `RetryInsert` or `RecoverInsert`, `RetrySchedule`, `RetryLink` |
| `run_leader_duties` | `TryAdvisoryLock`, `ShutdownDeadWorkers`, `MarkAbandonedJobsAsFailed`, `RecoverInsert`, `ListSchedules`, `CronInsert`, `CronLink`, `ScheduleAvailableJobs`, `Unlock` |
| `shutdown_worker`, `drain_jobs` | `Cancelled`, the recording actions, `Deregister`, `StepDown` |
| request handlers | `Schedule`, `ScheduleLater` |
| environment | `TaskFinish`, `FallDue`, `Age`, `LeaseExpires`, `ReleaseLock`, `Crash` |

Abstractions. Time is what the code compares: `due` is `scheduled_at <= now`,
`seen` is the age of `last_seen_at` (below one minute, below two, beyond),
`leaseFresh` is `expires_at >= NOW()`. The payload of a job is `origin`, the row
its chain of attempts began with. A panic of a task is an error that asks for a
retry, as in `process_jobs`. `NOTIFY` only shortens the poll. All jobs are on
queues that the worker serves. `process_jobs` takes results until no task is
finished; a task that ends after that look and before the reservation is in the
model one that ends just after the reservation, which reads no result.

### Properties

* `AttemptHistory`: of two attempts at a job the earlier one failed. Nothing runs
  after a success, no two attempts are live, none is beyond `MAX_ATTEMPTS`.
* `OverlapOnlyAfterEviction`: two attempts execute together only if one of their
  workers has been shut down in the table while still executing.
* `NoOrphanedRunningRow`: a running row is tracked by its live worker or belongs
  to a dead one, whose rows the leader recovers.
* `DutiesExclusive`: the five second lease alone would not give this; the
  advisory lock does.
* `FinalIsFinal`: completed and failed rows never change status.
* `OneRunPerSchedule` has two parts. While one worker has run, a schedule has one
  row in the queue, so its pointer has to follow every retry. Whatever workers run,
  overlap and die, the first attempts of a schedule in the queue are at most one
  more than the workers that died: a death between the INSERT of `schedule_later`
  and its UPDATE leaves a run nobody points at, and the next leader adds another.
  What is not bounded is a run beside the retry of an earlier one: with two workers
  the leader may look while a failed run's retry is not inserted yet.
* `EveryJobSettles`: each enqueued job reaches its end if some worker stays.
* `ImplementsContract`: `JobQueueRefinement` maps the chain of attempts of a job
  to the phases of `JobContract`; every step of the queue is a step of it.

### Runs

| Run | Instance | Shows |
|---|---|---|
| `queue_stalled` | 2 workers, 1 schedule with 2 runs, 1 retry, unlimited stalls | the safety properties and the refinement |
| `queue_live` | 2 workers, 1 requested job, 1 retry, timely ticks, fairness | `EveryJobSettles` |
| `queue_lost_retry` | 2 workers, 1 requested job, 1 retry | expected violation of `RetryNotLost` |

Bounds. Every conflict in this code is between two workers over one row, or
between a worker and the leader, so two workers and two runs of one schedule
reach them; a retry
makes a second row, and the leader can be the worker that runs it. A worker id
is used once (a restarted process registers a new id), so two ids are two
process lives, and a dead one can be recovered by the other. One slot and a fetch of two
make the capacity bind. The proofs remove the bounds for the
properties they cover. Deadlock is not checked: all workers may be gone, and
then nothing happens.

The expected violation. `mark_as_failed` and `retry` are two commits. A worker
that dies between them leaves a failed row that no statement looks at again; the
same holds for the whole batch between `mark_abandoned_jobs_as_failed` and the
retries of the leader. The comments promise the retry without that exception.
With two workers the leader can list the schedules while the other worker is
between `mark_as_failed` and `retry`, take the run for finished and add the next
one, so that a run and the retry of the one before are in the queue; no document
excludes it, and `OneRunPerSchedule` leaves it open.

Fairness. `FairSpec` assumes that each worker's loop goes on (the tokio runtime
polls it; its timer fires every 1.1 s at the latest), that tasks end, that
timestamps pass, and that the session of a dead worker is closed or recycled
(`pg_advisory_unlock_all` in the pool's hook). Crashes, cancellations, new jobs
and new workers are never forced. `EveryJobSettles` assumes in addition that
from some time on a worker stays in its loop.

### Proofs

`JobQueueProofs` proves for any sets of workers and schedules and any bounds,
from `SizeAssumption` (the bounds are numbers, capacities are positive) and
`NoneAssumption` (NULL is no id):

* `TypeCorrect`. `TypeOK` is inductive by itself; it includes that a worker
  inside `retry` knows its rows.
* `AttemptHistoryHolds`. `AttemptHistory` is not inductive: two workers could be
  about to retry the same row. `HistoryInv` adds `RowsInv` (the shape of rows that
  exist or do not) and `TokenInv`: the right to retry a row is a token. A row
  in `Retrying(w)` is failed, is the latest attempt of its job, is below the limit,
  and no two workers hold the same one. `FailStep` and `InsertStep` are the two
  steps that matter: a token is created by the only statement that can move the
  row out of running, and given up by the insert.
* `NoOrphanedRunningRowHolds` and `OverlapOnlyAfterEvictionHolds`. `OwnerInv` says
  that a tracked task is a row started by this very worker (which has been shut
  down in the table if the row is failed), that a running row's starter tracks it
  or is dead, and that a stopped worker tracks nothing.
* `FinalIsFinalHolds`, an action property: each statement that writes a status
  filters on one that is not final, or writes a row that did not exist.
* `DutiesExclusiveHolds`, from `LockInv`: whoever is inside the duties, nested
  retries included, holds the session lock.

* `OneRunPerScheduleHolds`. The first part rests on `SoloInv`: the row of a schedule that is live or about
  to be retried (`Pending`) is the one `queue_schedules` points at (`Linked`), except
  between the INSERT and the UPDATE of one call, and a schedule that the leader
  has chosen to run has none (`Chosen`). Without the first part the invariant would
  not say that the row whose end `list` waits for is the live one. The second part
  rests on `BeginInv`: there are sets of orphans, no larger than the number of dead
  workers, such that every other first attempt is the row its schedule points at
  or the one a leader has inserted and is about to point at, and a schedule that a
  leader has chosen has none. Only `BeginDie` adds an orphan, one for its death.
* `ContractHolds` in `JobQueueRefinementProofs`: the queue implements `JobContract`.
  A step moves rows along their statuses, or inserts a row that begins a job, or
  inserts the next attempt of a row whose token it gives up (`StepKinds`). The
  contract sees a job through its latest attempt, which exists and is unique by
  `HistoryInv`, so the proof compares the latest attempt before and after each of
  the three.

`EveryJobSettles` is model-checked only.

## Token rotation

### What the code does

An OAuth 2.0 session owns pairs of an access and a refresh token. A refresh
(`handle_refresh_token`) inserts a new pair, marks the presented refresh token as
consumed with a link to its replacement, and revokes the access token that came
with it. If the presented token was already consumed, the client may have lost
the answer: when the replacement is valid and its access token was never used,
both are revoked and a new pair is issued (the double refresh). Introspection
marks an access token as used; a revocation finishes the session; a refresh of a
session with administrative scopes whose user was demoted finishes it too. Four
jobs delete tokens that were revoked or consumed an hour ago or expired thirty
days ago.

Request handlers take their repository from the factory, so here **a request is
one transaction**, at READ COMMITTED. All updates are by id, without a condition
on the row's state; the states are tested on copies that were read before. A
handler that returns an error drops the repository without `ROLLBACK`: the
transaction and its row locks last until the pool's hook recycles the connection.

### TokenRotation

One action is one SQL statement with the local code up to the next one. Each row
has its committed version (`refresh`, `access`, `finished`), the version its
writer sees (`refreshW`, `accessW`, `finishedW`) and the writer (`refreshBy`,
`accessBy`, `sessionBy`), which is the row lock. An UPDATE works on the latest
version of the row, as PostgreSQL does after waiting for a lock; a read sees the
committed version or the transaction's own.

| Code | Actions |
|---|---|
| `handle_refresh_token` | `FindByToken`, `LookupSession`, `RecordUserAgent`, `CheckToken`, `LookupNext`, `LookupNextAccess`, `RevokeNextAccess`, `RevokeNextRefresh`, `GenerateTokenPair`, `Consume`, `LookupAccess`, `RevokeAccess`, `FinishSession`, `SaveRefused` |
| `introspect_token` and the guards that mark an access token as used | `FindAccessToken`, `IntrospectSession`, `MarkUsed` |
| `revoke_token` | `FindRevokedToken`, `RevokeSession`, `FinishSession` |
| `save`, pool hook | `Save`, `Recycle` |
| cleanup jobs | `CleanupRevokedAccess`, `CleanupExpiredAccess`, `CleanupRevokedRefresh`, `CleanupConsumedRefresh` |
| `set_can_request_admin` | `Demote` |
| client and PostgreSQL | `Send`, `GiveUp`, `Drop`, `DatabaseError`, `DeadlockVictim` |

Abstractions. The tokens of a pair are inserted together and share one id;
`oauth2_access_token_id` is NULL exactly when the access token was deleted.
Expired access tokens, lookups of users and clients that refuse a request, and
clients that disconnect are `Drop`, which may end a request at any statement. The
client presents its own tokens, so the client id matches. The device sync job a
revocation enqueues belongs to the job queue. Cleanups run while no request is in
progress: they delete rows that were ended at least an hour ago, which no request
still works on. The reads of `session_may_keep_admin_scope` are one step with the
local checks that follow.

### Properties

* `NeverLockedOut`: as far as the tokens decide, a client that sends one request
  at a time, and does not stay away for thirty days, can always refresh with what it
  received last, whichever answers were lost, whatever failed and whatever was
  cleaned up.
* `SingleChain`: for such a client at most one refresh token is valid.
* `AccessDiesWithRefresh`: an ended refresh token leaves no working access token,
  for any overlap of requests.
* `SessionStaysFinished`: no request in progress reopens a finished session.
* `LockedOutOnlyByDuplicate`: with overlapping attempts, a client is locked out
  only if a late duplicate revoked (and a cleanup perhaps deleted) its pair, or
  if it stayed away for thirty days after it lost an answer: the cleanup has then
  deleted the access token that proves the replacement unused.
* `EveryRequestEnds`: no request waits for ever for a row lock.

### Runs

| Run | Instance | Shows |
|---|---|---|
| `rotation_serial` | 4 requests of all kinds, 5 pairs, no overlap, demotion | `TypeOK`, `NeverLockedOut`, `SingleChain` |
| `rotation_overlap` | 3 requests of all kinds, 4 pairs, overlap, absence, fairness | `AccessDiesWithRefresh`, `SessionStaysFinished`, `LockedOutOnlyByDuplicate`, `EveryRequestEnds` |

Bounds. A request issues at most one pair, so one pair more than requests is no
restriction. Three requests are the least with which two work on one pair while a
third has created it; the fourth in `rotation_serial` gives two lost answers in a
row followed by a refresh. Requests are symmetric; symmetry is used in the runs
without liveness properties. Deadlock is not checked: a model in which all
requests are spent stops.

Rows that no longer decode. The client refreshes with A and
receives B. A duplicate refresh with A takes B for lost and revokes it while a
refresh with B, which read B as valid, waits for the row and then consumes it.
The row of B is now revoked and consumed; `TryFrom` refuses it as a database
inconsistency, so every later request with B ends in an internal error in place
of `invalid_grant`. If the answer to the refresh with B arrives, the client goes
on with the pair that replaced B; if it gets lost, the client is locked out, which
is the case `LockedOutOnlyByDuplicate` leaves. The model takes such a row as the
code does: find_by_token fails on it.

Fairness. The runtime polls each handler, PostgreSQL detects deadlocks, and the
pool hands out each connection again, which runs its hook: workers take
connections every second. The deadlock is real: a double refresh with A locks
access token B and then refresh token B, a refresh with B locks them in the
other order.

### Proofs

`TokenRotationProofs` proves, for any set of requests and any number of pairs,
from `RotationAssumption` (the constants have their types, NULL is no request):

* `RotationTypeCorrect`. `TypeOK` includes that a request knows the rows its next
  statement names, which makes it inductive.
* `AccessDiesWithRefreshHolds`. The property speaks of committed rows, so the
  invariant has to say what a transaction in progress will commit. `SoundFor(r)`:
  committing now would respect the property for every pair, except for the
  presented token between `Consume` and `RevokeAccess`. That a *different*
  transaction may have written the same rows in between needs `SyncInv` (a row
  without writer has one version), `WriteInv` (no transaction takes a revocation
  back, and new tokens come in pairs), `FreshInv`, `OwnInv` and `NextInv`.
* `SessionStaysFinishedHolds`, an action property, from `SessionInv`: a pending
  version of the session is finished whenever the committed one is.

* `LockedOutOnlyByDuplicateHolds`, `NeverLockedOutHolds` and `SingleChainHolds`, from
  `ChainInv`. No request is sent with a later pair than the client holds
  (`ClientInv`), and a pair replaces exactly one other, an earlier one (`NamesInv`); so
  the replacement of the held pair, which the client has not seen, can be
  consumed or used by nobody, and revoked only by a refresh with the held pair, which
  puts another in its place in the same commit (`Place`, `Writes`). That gives
  `HeldInv`: the held pair is valid, or its replacement is and was never used, or a
  duplicate of an earlier request revoked it. Without overlap (`SerialInv`) the
  copy a request decides on is the committed row until it commits, so the held pair is
  never revoked and no pair but those two is valid.

`EveryRequestEnds` is model-checked only.

## User lifecycle

### What the code does

The row of a user is changed by the admin API, by its owner and by jobs, and the
homeserver keeps a second copy of the administrator flag and of the
deactivation. `patch_user` takes the user's advisory lock and the row lock, counts
the other active administrators when it removes one, calls the homeserver before
the commit for what must fail closed (a reactivation, a revoked flag), commits,
and pushes a granted flag after that. `risk_action`, `update_profile` and
`deactivate_current_account` read the row without a lock and write *every* column
of their copy back. `DeactivateUserJob` and `ReactivateUserJob` write the row,
commit, and then (or before) call the homeserver; `ProvisionUserJob` copies the
flag under the advisory lock.

### UserLifecycle

A process is a handler or the task of a job; an action is what happens between
two awaits that others can see. `row` is committed, `written` and `inserted` are a
transaction's own version and jobs, `rowBy`, `syncBy` and `bootBy` are the locks.
`Change` and `Patches` say which columns a request wants to change; columns the
properties do not speak of (names, pictures, contacts) are left out, but a write
of the whole copy is one of all three columns.

| Code | Actions |
|---|---|
| `update_user`, `patch_user`, `push_admin_grant` | `Request`, `AcquireLockForSync`, `ReadUser`, `Guard`, `Update`, `HsReactivate`, `HsRevoke`, `Save`, `PushAdminGrant` |
| `risk_action`, `patch_viewer_profile`, `deactivate_current_account`, `post_claim`, `unlock --reactivate` of the CLI | `Request`, `ReadUser`, `Guard`, `Update`, `Save` |
| the three jobs | `RunJob`, `ReadUser`, `Update`, `HsDelete`, `HsReactivate`, `HsProvision`, `Save` |
| any statement, commit or homeserver call that fails, before or after it took effect | `Fail` |

Some outcomes are what the code accepts: `lapses` records, per user, when one of
them has happened, and the properties name the ones they allow for. *stale*: a
write from a copy that was out of date. *lateDeactivation*: a deactivation job
that finds the account active again. *lateGrant*: a grant pushed after a later
revocation. *lostCommit*: a homeserver call for a transaction that did not commit.
*crossed*: a reactivation and a deactivation that pass each other on the way to
the homeserver. Without any of these, two copies of the truth agree in the end.

### Properties and runs

* `LastAdminKept`: no step takes the last active administrator away, however
  demotions, locks and deactivations overlap (but stale, lateDeactivation).
* `BootstrapOnce`: a bootstrap claim never makes a second administrator (but stale,
  lateDeactivation). The exception is beyond the bounds of the run: a late job deactivates
  the last administrator while her demotion and a grant to somebody else are under
  way; the demotion commits, a claim finds no administrator, and the grant commits
  before the claim does. It needs four processes and six requests, and came out of
  the proof.
* `AdminFlagConverges`, `DeactivationConverges`: once requests and jobs are done,
  the homeserver has what was committed last.
* `NeverWithoutAdmin`: the same as `LastAdminKept` without exception, as the
  comment in `patch_user` says it.

| Run | Instance | Shows |
|---|---|---|
| `lifecycle` | 2 users, 2 processes, 3 requests of all kinds, 1 mishap (387,604 states) | the four properties and the type |
| `lifecycle_last_admin` | 2 users, 2 processes, 4 patches | expected violation of `NeverWithoutAdmin` |

Two users are two administrators who remove each other, three requests are a
deactivation, a reactivation and a third that acts on the state between. The
expected violation: an administrator is deactivated and reactivated before the
job has run; the other one is locked (or demoted, or deactivated, which the check
counts alike), which is allowed since two are active; the job then deactivates the
last one. Deadlock is checked: `Terminated` is the only
way to stop.

### Proofs

`UserLifecycleProofs` proves for any users, any finite set of processes and any
bounds, from `ConstantsAssumption` (kinds and patches are those of the code, NULL
is no id): `TypeCorrect`, `AdminFlagsConverge`, `DeactivationsConverge`,
`LastAdminStays` and `BootstrapClaimsOnce`. None of the properties is inductive: they
speak of committed rows, or only of the end. `IInv` adds, per process, where it can be
(`Shape`), which locks it holds there (`Locks`), that the row it will commit is
the committed one with its patch unless its copy was stale (`Writes`), that whoever
removes an active administrator holds the deployment's lock and has seen another one
(`Guarded`), and that a job pushes what is committed or another job follows
(`Pushes`). `AdminSynced` and `DeactivationSynced` say the same of the homeserver at
any time: where it differs from the row, a job or a commit is outstanding. A job stays
in the queue while it runs, so `JobsInv` counts: finite processes are assumed for
its cardinalities.

## Grants, exchange and devices

### What the code does

A consent fulfils an authorization grant with a new session; the exchange of the
code marks the grant, issues tokens and adds the device to the homeserver. A code
presented again within the grace period is refused, after it the session is
ended. A device request is approved or rejected by one request and polled by
another, which creates the session. All of them read the row of the code, decide
on the copy and update by id. Whoever adds a device takes the user's advisory lock
first, and so does `SyncDevicesJob`, which replaces the homeserver's list by the
devices of the active OAuth 2.0 and personal sessions.

### GrantExchange

| Code | Actions |
|---|---|
| `accept_authorization_consent`, `submit_device_consent` | `ReadConsent`, `FulfillAuthCode`, `DecideDeviceCode` |
| `exchange_authorization_code` | `ReadAuthCode`, `ReplayAuthCode`, `UseSession`, `RefuseAdminScope`, `AcquireLockForSync`, `UpsertDevice`, `SaveExchange` |
| `exchange_device_code` | `ReadDeviceCode`, `MarkDeviceCode` and the same end |
| `password_login` of the Matrix API, personal sessions | `BeginPersonal`, `TakeOverDevice`, `UpsertDevice`, `SavePersonal` |
| revocation, logout, expiry; back-channel logout | `EndSession`; `LogoutAll` |
| `SyncDevicesJob` | `RunSync`, `AcquireLockForSync`, `Collect`, `PushDevices`, `SaveSync` |
| time, failures, PostgreSQL | `Age`, `Fail`, `BreakDeadlock` |

One user with one browser session is modelled, since locks and lists are per
user. `Collect` is one step for two queries: sessions only start under the
advisory lock that the job holds, and one that ends between the queries schedules
another job. `strays` records the devices that are left behind where the code
schedules no job.

### Properties and runs

* `DevicesPresent`: in the end, the homeserver has the device of every session a
  client holds tokens of.
* `DevicesRemoved`: it has no other, except the strays (a transaction that failed
  after it added its device, a code exchanged for a session that had ended, a
  session ended as compromised or demoted).
* `ReplayKillsTokens`: a replay after the grace period leaves no session with
  tokens of that code alive, however many exchanges had raced for it; overlapping
  consents, of which the row keeps one session, are excepted.
* `SpentCodeIsRefused`: tokens go only to requests that began before the code was
  exchanged or rejected. (Two that both began before do both get tokens.)
* `LogoutAllReachesDevices`: what `docs/en/setup/sso.md` says of `logout_all`.

| Run | Instance | Shows |
|---|---|---|
| `grants` | 1 code with an administrative scope, 1 device code, 2 devices, 2 processes, 3 sessions, 4 requests, 1 mishap (762,496 states) | the first four and the type |
| `grants_logout_all` | the same codes, 1 session, 3 requests, no mishap | expected violation of `LogoutAllReachesDevices` |

Every conflict is between two transactions, or one and the job. The expected
violation: a device code is approved, a back-channel logout ends all sessions,
and the next poll of the device gets a new session from the approval.

### Proofs

`GrantExchangeProofs` proves for any codes, devices, processes and bounds, from
`ConstantsAssumption` and `KindAssumption` (codes of the two flows differ, NULL is no
id): `TypeCorrect`, `SpentCodesRefused`, `ReplaysKillTokens`, `DevicesStayPresent` and
`DevicesGetRemoved`. The last two say what holds when nothing is under way;
`PresentInv` and `RemovedInv` say what leads there at any time: a sync that has read
the sessions will not take away a device in use, because sessions come into use only
under the lock it holds; and a device without a session is about to get one, was
left behind, or a sync that has still to read will remove it. `ReplayInv` speaks of
all sessions consented to for the code, since an exchange that is under way may
add tokens to any of them. `Knows` and `Locks` are the requests' side of it, `AuthInv`,
`DeviceInv` and `SessionInv` that of the rows.

## Notification delivery

### What the code does

A request for a code or a recovery link is a row with one delivery. A worker
reserves a delivery with `FOR UPDATE SKIP LOCKED`, calls the provider inside the
transaction, writes the outcome on the delivery and its status on the request,
and commits. Failures are retried along a table of delays until the code is too
old. Providers report back through a webhook, in any order; it reads the delivery
without a lock, decides by its status whether the event applies, and writes the
row from its copy.

### NotificationDelivery

`delivery` and `request` are committed rows; reserved and sending are a row lock
and the copy of a process, as these states are never committed. Actions:
`EnqueueNotificationRequest`, `ReserveDelivery` (with the checks of
`prepare_delivery`, which may cancel), `Dispatch`, `Save`, `ReadWebhook`,
`ApplyWebhook`, and the environment: `CloseSource` (the authentication or recovery
session completed or gone), `RetryDue`, `Expire`, `LoseAnswer`, `Fail`.

* `SentOnce`: no message goes out twice unless the provider accepted it and that
  was not recorded (the answer or the commit was lost).
* `RequestMatchesDelivery`: the request shows the outcome of its delivery,
  whichever of worker and webhook wrote last. Early, duplicate and overtaken
  webhooks are no exception, though they write back a copy. The one exception is a
  webhook that read the delivery before a worker cancelled it and wrote after: the
  delivery then shows the event while the request stays cancelled.
* `EveryDeliverySettles`: every delivery is delivered, cancelled or failed for
  good. Fairness: tasks and handlers go on, retries become due, and the schedule
  of every minute makes some worker look for work.

The run `deliveries` has 1 delivery, 3 processes (two workers and a webhook, or one
and two), 2 events and 2 mishaps (98,467 states): deliveries share nothing.

### Proofs

`NotificationDeliveryProofs` proves for any deliveries and processes and any bounds,
from `ConstantsAssumption` (NULL is no id): `TypeCorrect`, `NeverSentTwice` and
`RequestStatusCorrect`. `LockInv`: the row a worker sends is locked by it alone and is
still as it was reserved. `SentInv`: a message known to be accepted is settled in the
table, or its sender is about to settle it; this is what a second worker's
reservation runs into. `AttemptsInv`: a delivery that will be retried has an attempt
left, by the schedule of delays. For the request the argument is `Reconciled`: of
each state of a request and each outcome of a delivery it makes the state that
belongs to the outcome, except that it never leaves cancelled. `EveryDeliverySettles` is model-checked only.

## Activity, expiry and shutdown

### What the code does

Handlers report that a session was used over a bounded channel. The worker task
merges the reports by session and writes them in one transaction when
`flush_loop` asks for it every minute, at a limit of pending records, and when it
ends. The batch statement expects to find a row for every id, or the whole batch
is refused and kept. On a shutdown the worker closes the channel, takes what is
queued and flushes once more, while handlers and `flush_loop` may still wait for
room or for an answer. The expiry job sets a threshold, lists pages of sessions
whose last activity is older, and finishes each by id.

### ActivityTracker

| Code | Actions |
|---|---|
| `record_*_session` and the handlers around it | `UseSession`, `StartSession`, `SendRecord`, `SendFails`, `CommitSession`, `CommitFails` |
| `Worker::run`, `flush`, `try_flush` | `CloseReceiver`, `ReceiveRecord`, `ReceiveFlush`, `ReceiveNone`, `FlushSucceeds`, `FlushRefused`, `FlushFails`, `WorkerCrashes` |
| `flush_loop`, `ActivityTracker::flush` | `LoopTicks`, `LoopAsks`, `LoopGetsError`, `LoopEnds` |
| `LifecycleManager::run` | `SoftShutdown`, `GracefulExit`, `ForcedExit` |
| expiry jobs | `EnqueueExpiry`, `ListPage`, `FinishPage`, `JobFails` |
| `delete_by_id` of a client, cleanups | `DeleteSession` |

A flush is one step: its transaction becomes visible at the commit, and the
worker does nothing else meanwhile. The kinds of sessions are one set, as one
transaction writes them all. A failing commit may have taken effect. `accepted`,
`late` and `lost` are histories of reports: accepted by the channel, not written
in time, and given up where the code says so (dropped at the limit, a last flush
that failed, a crash, a forced exit).

* `NothingLostSilently`: every accepted report is written, on its way, given up
  as above, or of a deleted session. Reports that arrive out of order, batches
  that are written twice and the closing of the channel do not break it.
* `ExpiredWasIdle`: a session is expired only if it was not used between the
  threshold and the last flush before the run. Reports that were late because
  flushes failed, or because their handler waited longer than a flush interval
  for room in the channel, are excepted. A use within the last flush interval can be too
  late: a session that wakes up just then is expired all the same.
* `EveryRecordSettles`: every report is written or given up, unless a pending
  report has no row. That case is real: token requests report a session before
  they commit it (the code has a comment on the race), and when the commit fails,
  or a client is deleted with its sessions, every later flush of the process is
  refused until it ends. With expiry configured, sessions in use then look idle.
* `TasksEnd`: after a shutdown began, both tasks end without the timeouts.

The run `activity` has 2 sessions, 2 handlers, a channel and a pending map of
size 1, pages of 1, 3 ticks, 2 reports, 1 expiry run and 1 failure or deletion
(960,494 states). One tick is longer than the flush interval and as long as the
TTL; size 1 makes every limit bind; two reports reach every order of arrival.
Fairness: the runtime polls the two tasks and the requests under way, and database
calls return. No signal and no timeout is assumed. Deadlock is not checked: a
process that has exited does nothing.

### Proofs

`ActivityTrackerProofs` proves for any sessions, handlers, sizes and times, from
`ConstantsAssumption` (sizes are positive, the flush interval is shorter than the
TTL) and `NoneAssumption`: `TypeCorrect`, `ActivityIsNotLost` and
`ExpiresIdleSessions`. `NothingLostSilently` needs `WorkerInv`: what the channel and
the worker hold was accepted, and the worker ends only with an empty closed
channel. `ExpiredWasIdle` needs `OnTime` (a report older than a flush interval is
written, late or lost) and `ExpiryInv`: thresholds of every page are a TTL old, and
what is listed was idle in the sense of the property and stays so, whatever
is written between the list and the finish. `EveryRecordSettles` and `TasksEnd` are
model-checked only.

## Registration and upstream links

### What the code does

A registration is a row that several requests fill in. With a password, the first
request checks that the name and the address are free and stores both; the address
is verified with a code and may be changed until then. Through an upstream
provider, the callback finds or inserts the *link* of the upstream identity and
completes an *authorization session* with it; a login continues from there if the
link has an owner, and a registration is created from the session if it has none.
Where the provider forces the user name and an account of that name exists,
`on_conflict` decides: fail, add a link, replace the account's links, or set one if
there is none. `finish_registration` loads the row and the verified address, checks
that name, address and link are free, and then writes the account, the address, the
password, the owner of the link and the consumed session in one transaction.

Only the name has a UNIQUE constraint. The address has none, `associate_to_user`
sets the owner of a link by id whatever it is, and `consume` updates the session by
id and tests the transition on the copy that was read.

### Registration

A request is one step per read that another request can get in front of, and one
step for its writes with the commit. That step is atomic for two reasons: nobody
sees the writes before the commit, and rows are locked from the write on, so that
conditions of the updates are checked on what is committed. Two requests that
lock rows in opposite order end with an error for one of them, which is `Fail`.

| Code | Actions |
|---|---|
| `begin_password_registration`, `start_password_registration` | `BeginPasswordRegistration` |
| `verify_registration_email_code` | `VerifyEmailCode`, `CompleteAuthentication` |
| `change_registration_email` | `ChangeEmail`, `SetEmailAuthentication` |
| upstream callback | `Callback` |
| `load_upstream_link_state`, `submit_upstream_link_action` | `PrepareUserRegistration`; `LoadOwnedLink`, `ConsumeLogin`; `LoadUnownedLink`, `ResolveConflict`, `ClaimLink`; `LinkCurrentSession`, `ClaimLink` |
| `finish_registration` | `LoadProgress`, `PrepareCompletion`, `CompleteRegistration` |
| `unlink_linked_account` | `Unlink`, `RemoveLink` |
| contacts of an account | `AddContact`, `RemoveContact` |
| `CleanupUpstreamOAuthLinksJob`, time | `CleanupLinks`, `Week` |
| any request that is refused or fails | `Fail` |

`BeginPasswordRegistration`, `PrepareUserRegistration` and `Callback` are one step
each: the rows they insert are new and their checks are repeated by the finish or
backed by a constraint. A week that goes by (`Week`) stands for every timeout, as
registrations expire after an hour and the cookie of a session after ten minutes;
no request lasts that long. A link that is claimed while the cleanup waits for its
row is not deleted: the session has authenticated somebody by then, and that
foreign key makes the cleanup fail. Phones work as addresses do and are left out,
as are names on the homeserver, display names, terms, locked accounts and the
administration of links. Registration tokens are left out because no handler sets
one (where a token is required, every finish is refused).

A login on an unowned link reads the link, asks the policy, and then looks for the
account of that name and its links: `LoadUnownedLink` and `ResolveConflict`, with
whatever others do in between.

`raced` records the accounts whose claim overlapped another one, by what was claimed:
an address by two finishes, a link by any two requests, or an account that two
requests link. Changes of address under way are no claims. `contacts`, `linked` and `unlinked` record what owners did by hand.

### Properties and run

* `CredentialKept`: an account without a password keeps a link to log in with. The
  exceptions are its owner's own doing, an overlapping claim of the same link (the
  second one takes the link away), and a cleanup that deleted the session before the finish.
* `OneLinkPerAccount`: with `set` and `replace`, an account gets a second link only
  by hand or if two requests link it at once.
* `AddressWasProved`: the account gets an address that this registration proved,
  however verification, change of address and finish interleave.
* `AddressSharedOnlyByRace`: two accounts share an address only if their finishes
  overlapped or the owner of an account added it as a contact.

The run `registration` has 2 names, 2 addresses, 2 upstream identities with the same
localpart, 2 registrations, 2 authorization sessions, 2 requests at a time and five
deployments: password only, and a provider that suggests the name or forces it with
`add`, `replace` or `set`; contacts are part of the password and the `add`
deployments, imported addresses of the latter (2,813,307 states). Every conflict is between two claims; the second
session is the second tab, or the second identity. The exceptions are reachable: the
model shows a new account losing its only link to an overlapping claim, and one
created without any credential. The latter takes a link that was left unowned
for a week: its identity comes back, a registration is begun, and the hourly cleanup
runs before it is finished. Deadlock is not checked, since registrations and
sessions are finite here.

### Proofs

`RegistrationProofs` proves for any names, addresses, identities, registrations,
sessions, requests and deployments, from `ConstantsAssumption` and `RowAssumption`
(NULL is no id and no row): `TypeCorrect`, `NobodyLockedOut`, `LinksStaySingle`,
`AddressesProved` and `AddressesShared`. A request decides on rows it read some steps
before it writes, so the invariant says what is left of each reading when the
write comes (`Knows`): the address it will add was proved by this registration;
a link it found free is free still, or the two claims of it have been marked as
overlapping, or the cleanup took it; the links it will drop are those of the account;
whoever holds the address by now overlapped or added it by hand. `RowInv`
(a registration becomes one account) and `LinkInv` (a link's owner exists)
complete it.

## Exceptions that are behaviour of the code

Some properties name an exception because the code behaves that way. For the
hazards behind them the property is a bound: the checks and proofs show that
nothing else leads to the outcome, not that the outcome is excluded.

| Property | Exception | What it costs |
|---|---|---|
| `OneRunPerSchedule` | a death inside `schedule_later`; several workers and a failed attempt whose retry is not inserted | one more run of the schedule; a run beside a retry |
| `LockedOutOnlyByDuplicate` | a late duplicate of a refresh | the client has to log in again |
| `AdminFlagConverges`, `LastAdminKept`, `BootstrapOnce` | a write of an outdated copy; for the flag, a grant pushed after the revocation | the flag or the account's state is taken back |
| `DeactivationConverges` | a reactivation that crosses the job | an account active here and gone on the homeserver |
| `DevicesRemoved` | a session ended, or a device added, with no sync scheduled | a device that stays until the next sync |
| `ReplayKillsTokens` | two consents to one grant | tokens of the first that a replay does not reach |
| `SpentCodeIsRefused` | exchanges that read the code before it was spent | two sessions from one code |
| `SentOnce` | an acceptance that was not recorded | the message goes out twice |
| `RequestMatchesDelivery` | a webhook that read before a cancellation and wrote after | a request that stays cancelled |
| `EveryRecordSettles`, `ExpiredWasIdle` | a pending report without a row, failed flushes, a full channel | activity that is not written, sessions in use that expire |
| `CredentialKept`, `OneLinkPerAccount`, `AddressSharedOnlyByRace` | overlapping claims; a cleanup before the finish | no way to log in, a second link, a shared address |

## Not modelled

* Recovery: its session is consumed by one request. Of registration and upstream
  login what the section above leaves out; the bootstrap claim of registration is in
  `UserLifecycle`.
* The flow executor and the workflow tables: single requests on their own rows, or
  not used by any handler.
* Configuration sync: one transaction under one advisory lock.
* Of the queue: `cleanup` of old finished rows, wake-ups by NOTIFY, metrics; the
  bodies of jobs are tasks that end in success, a retryable or a final error. Clock
  skew between workers, which the code assumes to be below a minute.
* Of the cleanup jobs: batches and cursors, and the tables other than tokens and
  upstream links.
* The deprecated device jobs, which schedule a sync that is never saved, and the
  CLI but for `unlock --reactivate`.
* Of the server lifecycle: SIGHUP reloads, the watchdog and the exit code. Of the
  activity tracker: the address of a report. The row gets the one of the first
  report since the last flush together with the time of the last.
* Rate limits, policy, cryptography, templates, transports, frontend: no shared
  state of their own, or pure functions and I/O.
