# hosting-service: TLA+ models and proofs

hosting-service is a Django service that hosts static sites for companies: apps
and their deployments, preview sites with an expiry, deploy tokens, and an
"actions" subsystem that tells other systems what happened (webhooks and
e-mails) through a transactional outbox. It runs as gunicorn (2 worker
processes of 2 threads), a Celery worker with an embedded beat, PostgreSQL,
Redis and object storage, beside an external identity-service.

This directory holds TLA+ modules of the parts of it that are concurrent or
fail in steps, TLC configurations that check them on small instances, and TLAPS
proofs about all of them. Paths below are relative to the repository.

    tlc -workers 2 -config MCOutboxRace.cfg MCOutbox.tla
    tlapm OutboxProofs.tla

## 1. Inventory

| Component | State it keeps | Operations | Talks to |
|---|---|---|---|
| Outbox and delivery (`apps/actions/emit.py`, `delivery.py`, `models.py`) | `ActionOutbox` rows (status, attempt_count, next_attempt_at, locked_until), `DeliveryAttempt` rows, an in-memory thread pool per process | emit in the caller's transaction; dispatch after commit; two transactions around each POST; `retry_webhooks` runs with leases and dry runs | receivers, email-service |
| Administration (`admin_api_views.py`, `rule_config.py`) | `ActionRule` rows: switch, URL, secrets, private-network permission | create, PATCH, rotate, delete, test a rule; requeue a delivery | the outbox rows, with no lock shared with delivery |
| Event log (`event_log.py`, `event_log_views.py`) | `EventLog` rows | recorded in the request's transaction, listed page by page, purged | retention |
| Retention (`retention.py`) | none | purge of events, finished deliveries and old run rows in batches, under a deadline; `retention_status` | event log, outbox, run rows |
| Apps and deployments (`apps/hosting/services.py`, `extract.py`, `storage.py`) | `App` and `Deployment` rows, artifact and extracted tree in storage | create, upload, finalize, rollback, renew, delete | storage, identity-service, serve cache |
| Serving (`serve.py`) | a cache of App rows per process | load on a miss, answer, invalidate, expire | App rows, storage |
| Login redirects (`identity_redirects.py`) | the origin on identity-service's allowlist | add after a deploy or by `sync_oauth_redirects`, remove in a delete, both best effort | identity-service |
| Scheduled jobs (`config/task_lock.py`, `tasks.py`, `scheduled_jobs.py`) | a Redis lock per job, `ScheduledJobRun` and `ScheduledJobState` rows, counters | take and release the lock, record a run, close interrupted runs, announce, health | Redis, database, event log |
| Company deletion (`apps/actions/company_deletion.py`, `apps/hosting/company_deletion.py`) | the `CompanyDeletion` flag | set the flag on a signed assertion, sweep every minute, complete, release | every company table, storage |
| Access waitlist, quotas, previews, deploy tokens (`services.py`, `deploy_tokens.py`) | `CompanyHostingAccess`, `App`, `DeployToken` rows | request and review access; count and insert; mint, touch and revoke | the same transactions |
| JWT authentication (`apps/authapi`) | the key set of the process's `JWKSClient` and its age | look a kid up, refresh after the TTL or for an unknown kid, keep keys when a fetch fails | identity-service |
| Container (`tools/docker-entrypoint.sh`) | PID 1's position, two children, `STOP_SIGNAL` | check, migrate, start both, wait, stop, exit | docker |
| Signing, SSRF guard, redaction, throttling, settings, metrics | none, or approximate counters | check, report | |

What is hard about it, and what makes each part correct:

* **Outbox.** A row may be in the hands of a dispatch thread (which holds no
  lease), of retry threads of overlapping runs, and of an administrator, all at
  once; a POST is made outside any transaction and its outcome may be unknown.
  The delivery log has to be exact, `delivered` has to mean that one of the row's
  own POSTs was answered, the attempt limit has to hold, a finished row has to stay finished, and
  nothing that was committed may be forgotten.
* **Rules.** A handler loads a rule, changes the copy and saves it in
  autocommit, a PATCH all columns and a rotation only one. A private address has
  to have been approved by staff, and a webhook has to be signed with a secret
  somebody was told.
* **Event log.** Rows are committed after they were dated, purged in batches by
  runs that stop early or die, and listed meanwhile, a page by two queries. The alarm has to be true,
  pages must skip nothing, expired rows have to go.
* **Deployments.** A request decides on a row it loaded before it streamed
  megabytes; no lock protects it. Storage, database, caches of other processes
  and identity-service change in an order no transaction covers. The app has to
  point at an active deployment whose files are there; a stale cache must answer
  from a whole site; an expired preview must not stay online.
* **Scheduled jobs.** The lock can expire under a live run, its reply can be
  lost, every record of a run is a statement of its own. Runs have to exclude
  each other while their locks last, dead ones have to be closed, nothing may be
  counted twice, and `healthy` has to be true.
* **Company deletion.** Users' tokens outlive the request, sweeps fail and
  overlap, and a file is found only by its row: data that existed has to be gone before the flag says so, and the
  flag has to outlive the tokens and yet be released.
* **Access, quota, tokens.** Everything is read, then decided, then written.
  Approvals must come from staff, a revocation must stay, the quota may be
  passed by no more than the races allow, and a preview must not be left without
  its draft.
* **Keys.** Threads share a cache that identity-service's rotations, failed
  fetches and the two reads of a dictionary make stale: a current key must be
  accepted, a withdrawn one must expire, an old document must not come back.
* **Container.** Signals and exits reach the script between any two of its
  commands: both processes have to fall together, status 0 has to mean a
  requested stop, work in flight has to finish.

PROJECT.json lists every component with its status, and under `hazards` each
place in the code where one of these can go wrong, with the properties that
would catch it.

## 2. Modules

| Module | Code it models | Content |
|---|---|---|
| `Outbox`, `MCOutbox` | `apps/actions/emit.py`, `delivery.py`, parts of `admin_api_views.py`, `retention.py`, `company_deletion.py` | the outbox as the database and the threads see it |
| `DeliveryContract` | (abstract) | what the outbox promises to its receivers and administrators |
| `ActionRules`, `MCActionRules` | `apps/actions/admin_api_views.py`, `rule_config.py`, `admin_scope.py`, `permissions.py`, `handlers/webhook.py`, `apps/authapi/principal.py` | the rows webhooks are sent with |
| `EventLog` | `apps/actions/event_log.py`, `retention.py`, `event_log_views.py`, `purge_expired_data.py` | the event log, its purge, its list, its alarm |
| `Deployments`, `MCDeployments` | `apps/hosting/services.py`, `extract.py`, `serve.py`, `storage.py`, `identity_redirects.py` | one app, its deployments, storage, caches, allowlist |
| `HostingAccess`, `MCHostingAccess` | parts of `apps/hosting/services.py` and `views.py`, `deploy_tokens.py`, `approve_hosting_access.py` | one company's access, quota, previews and deploy tokens |
| `ScheduledJobs`, `MCScheduledJobs` | `config/task_lock.py`, `apps/actions/tasks.py`, `scheduled_jobs.py` | one job, its lock, its runs, its state, its counters |
| `CompanyDeletion` | `apps/actions/company_deletion.py`, `apps/hosting/company_deletion.py` | the deletion of one company |
| `TokenKeys`, `MCTokenKeys` | `apps/authapi/jwks_client.py` and its use in `authentication.py` | one process's key cache and the threads that use it |
| `ContainerState`, `Container` | `tools/docker-entrypoint.sh` | PID 1, its children, docker: their state with what they promise, and their steps |
| `OutboxProofs`, `ActionRulesProofs`, `EventLogProofs`, `HostingAccessProofs`, `ScheduledJobsProofs`, `CompanyDeletionProofs`, `TokenKeysProofs` | | TLAPS proofs about the module in their name |
| `ServiceProofs` | | TLAPS proofs about `Deployments` and about `Container`, whose actions it has as the instance `Box` |

In every module an action is one committed transaction, one autocommitted
statement, one storage, Redis or HTTP operation, one command of the script, or
one in-memory hand-over; between two of them any other thread may act, and a
process may die. Definitions are named after the functions they stand for and
PROJECT.json's `map` gives the lines. Variables commented "observer" record what
happened for a property and guard nothing. Operators commented "mutant" are
wrong variants of a definition; each shows that a property would notice the bug.
They are used nowhere.

The modules meet at their borders: what `Outbox` leaves to `SetEnabled` and
`DeleteRule` is `ActionRules`; what `HostingAccess` leaves to `Finalize` is
`Deployments`; what `CompanyDeletion` does to the outbox is `DeleteCompanyRows`
there; that beat starts runs and that dead processes come back, which fairness
assumes in the others, is what `Container` and `ScheduledJobs` are about.

### Outbox

`row[r]` is the `ActionOutbox` row of an event and a target (a rule, or the
e-mail target), `log[r]` its `DeliveryAttempt` rows. `Emit` is `emit_event`
with its on_commit hook. A delivery is `deliver_outbox_row`: its first
transaction (`BeginNothing`, `BeginTerminal`, `BeginPost`), the request
(`Post`), its second transaction (`ApplyResult`, `DiscardResult`), where
`Current` is the comparison of attempt_count with the snapshot. `Claim` is
`claim_next_pending_outbox`, with the timestamp frozen when the run began;
`DryClaim` and `DryRelease` are `--dry-run`. `Requeue`, `SetEnabled`,
`DeleteRule`, `DeleteCompanyRows` and the two steps of the purge are the
administration. `PATCH` of a rule saves all columns of the row it loaded, so
`SetEnabled` has no guard: it may re-enable or re-insert.

The outcome of a request is a pair: what the sender concludes, and what became of
the POST. `receipt[r]` (an observer) collects the latter: a receiver *took* it
(2xx), or *diverted* it, answering with a redirect, which nobody follows. A
webhook fails only from status 400 on (`handlers/webhook.py:92`), so its redirect
counts as a success (`WebhookAnswered`); the e-mail channel takes 2xx alone for
one (`EmailAnswered`). After a timeout or a broken connection (`Broken`) the
receiver may have taken the POST or not.

Abstractions: the backoff formula is a set of delays; signing, envelope and
headers are left out except the attempt number, which the log keeps. `requeues`
is an observer, apart from the bound on requeues.

### DeliveryContract

A message is open until it is delivered or given up. `Deliver` needs an `Answer`
to one of its own POSTs: that the receiver took it or, for a message that is not
in `Checked`, that it was diverted. Late and repeated answers are allowed.
`Outbox` maps pending and failed to `open` (`OutsideStatus`), and its e-mails are
the checked messages.

### ActionRules

`rule[r]` is the row in every state it may have had (a PATCH that saves a
deleted row inserts it again), `req[q]` a request or a delivery with the row it
loaded. `Principal`, `Scope`, `InScope` and `May` are who may do what to which
company's rules. `Create` and `Patch` are `build_config` with `BuiltUrl`,
`BuiltSecret` and `BuiltPrivate` and the save; `Rotate` saves only the config;
`LoadDelivery`, `Send` and `Answered` are a delivery or a test send, which signs
with the copy it loaded.

Abstractions: a secret is a number in the order it was made or sent; the
authorization header is carried in the same way and left out; URL syntax is the
set `Urls`. `approved`, `told`, `latest` and `lapped` are observers.

### EventLog

`event[i]` is a row with the moment it was dated, open until its transaction
commits. `StartPurge`, `Select`, `DeleteBatch`, `FinishEvents` and `StopPurge`
are the purge with its batches and its deadline, `Die` a purge that is killed.
`FirstCount`, `NextCount`, `Slice`, `EndWalk` are one administrator's walk, by
offset, over the newest-first list. A page is two queries without a transaction,
the count and then the slice, and the client stops where the count says so.
`crept` (observer) is set by a commit between the two. `Stale` is `retention_status`. `swept` (observer) is when
the newest run that reached the end of the expired rows began.

### Deployments

`site` is the App row, `row[d]` a deployment, `store[d]` its artifact and
whose files are in its extracted tree: those of the artifact (`own`), those of an
earlier one (`old`), both or none. A request thread `req[q]` walks through the steps of
its service function: load and check, storage, commit, call to
identity-service. In `Prepare` the UPDATE that supersedes finds its rows; in
`Commit` those that are still active are superseded (the statement's condition
is evaluated again under READ COMMITTED once it gets the row), and the app is
saved. `Load`, `Keep` and `Tick` are the serve cache of a process.

Extraction removes the old tree first, but `delete_extracted_prefix` swallows the
errors of an S3 storage, and its recursion appends `/extracted/` to a prefix that
has it already, so it does not reach nested files; on a file system an error
ends the request. `Removed` therefore leaves nothing or old files, and
`Extracted` lays the new files beside them. The removal after an archive that is
over a limit, and that of a delete (`Wipe`), are the same.

Abstractions: a tree is reduced to whose files it has; the kinds of
archives are the five that behave differently (`AllArchives`); several uploads
of one file name overwrite each other, while Django's file storage would give
the second an alternative name; Django admin edits are left out; the expiry is
taken at the commit. `Exclusive` restricts clients to one request per
deployment at a time, which is what the CLI does; without it the finding of
`deployments_upload` applies, and `CurrentIsActive` and `TreesIntact` claim
nothing.

### ScheduledJobs

`lock` is the Redis key, `proc[w]` a Celery process or an operator's command
(`RunCommand`, which takes no lock), `run[i]` the `ScheduledJobRun` row, `state`
the `ScheduledJobState` row. Each statement of `record_run`, `_mark_interrupted`
and `_finish` is an action of its own (`Create`, `Start`, `MarkInterrupted`,
`CountMarked`, `Work`, `Announce`, `SaveRun`, `Stamp`, `CountRun`), since nothing
wraps them in a transaction; `Abandon` is an exception in one of them. `Health`
is the computation of the overview. The random token of the lock is identified
with its holder.

### CompanyDeletion

`flag` is the `CompanyDeletion` row (its primary key tells one flag from the
next), `sweep[s]` a sweep, `app[a]` an app with all the rows that cascade or are
deleted with it, `files` the apps that have files in storage. `Ask` and
`AskAgain` are the get_or_create and the UPDATE of an accepted request; what
makes an assertion acceptable is left out, since identity-service alone can sign
one. `WipeOwn` and `DropOwn` are `delete_app`, by a user or in the Django admin,
before the request or after it: the files that the rows lead to, whose errors are
swallowed, and then the rows, in a transaction that may fail; an upload may store
its archive in between or later. `orphans` (observer) are the apps it dropped
with files left or on their way. Of what an upload stores after the request the
module keeps nothing, as it claims nothing about it. A sweep loads
the flag and takes its timestamp in one action. Sweeps may always overlap, since
the lock of the task (120 s) may expire under a long one. Storage errors that
the code swallows are `WipeSwallowed`.

### HostingAccess

`access` is the status of the waitlist row, `app[a]` an app with its expiry as a
countdown, `token[t]` a deploy token. A request walks through the queries of its
service function: `CreateApp` or `CreatePreview`, `Count`, `Recheck` (since
`create_deployment` asks for access again), `InsertApp` or `InsertPreview`;
`Redeploy` and `InsertDraft`; `BeginRenew` and `SaveRenew`; `AskAgain` and
`SaveAsk`; `Review`, `Approve` and `SaveReview`; `Authenticate` and `Touch`;
`BeginRevoke` and `SaveRevoke`. The name check of `create_app` is in the action
of its count, and the unique constraint is looked at again by the insert.
`Finalize` is reduced to what it does to the expiry; `Deployments` has the rest.

Abstractions: names and slugs are identities that are not used again after a
delete; who owns a preview is left out (it never changes); `HOSTING_DEBUG_OPEN`,
which production refuses, is off. `revived` is an observer.

### TokenKeys

`client` is the `JWKSClient` (its keys, the version of the document they came
from, `_fetched_at`), `lock` its lock, `thread[t]` a request on its way through
`get_key`: `Check` and `EnterLock` are the two looks at the TTL, `Fetch`,
`FetchAgain` and `GiveUp` the GETs and what becomes of a failed one, `Apply`
`_apply_document`, `Lookup` and `Take` the two reads of the dictionary.
`published` and `Rotate` are identity-service (external). With a pinned document,
as in production, none of this runs: the module is about the other setting.

Abstractions: a document is the set of its usable keys; signature and claims are
the library's; `Latency` bounds the time from an answer to its use. `withdrawn`,
`failedAt`, `steady`, `failed` and the versions are observers.

### Container

`script` is the command PID 1 reaches next, `proc[p]` gunicorn, the Celery worker
or the command that replaces the script. `Prepare` is everything up to the
launch, `Spawn` the two background starts, `SetTraps`, `WaitFirst`, `StopRest`,
`WaitAll`, `Leave` the supervision. `Signal` reaches the script anywhere and
interrupts a wait; `Crash` and `Finish` end a process; `Kill` is the end of
docker's grace period and `Restart` its `unless-stopped`.

## 3. Runs

All passing runs end with the complete state space explored.

| Run | Instance | Shows |
|---|---|---|
| `outbox_race` (0.94 M states) | one event, one rule, one dispatch thread, one retry thread of one run that may be a dry run, 2 attempts, 1 requeue, 1 crash | the log is exact (`AttemptLogExact`), the status is its verdict (`StatusFollowsLog`), `DeliveredWasAnswered`, `AttemptBudget`, `FinishedIsFinal`, `PurgeSparesOpen`, and the outbox implements `DeliveryContract` (`ImplementsContract`) |
| `outbox_overlap` (0.83 M) | one e-mail row, two runs of one thread, lease of 2 ticks, 1 crash, with fairness | `LeaseExclusive`; a delivered e-mail was taken (`DeliveredWasAnswered`); every row settles (`OpenRowsSettle`) |
| `action_rules` (0.05 M) | one rule of the first of two companies, two URLs, two requests or deliveries at once, three secrets, every principal | `PrivateUrlApproved`, `SignedBySharedSecret` |
| `event_log` (0.58 M) | three events, one company and the platform, one purging process, retention, grace and span of 1 tick, batches and pages of 1, 1 death, with fairness | `AlarmIsTrue`, `PagesMissNothing`; expired rows go (`ExpiredAreDeleted`) |
| `deployments` (2.9 M) | two requests in one process, two ids, a limit of one deployment (count-then-insert still yields two), an archive that extracts and one over a limit, storage errors, crashes; ids and requests symmetric | `CurrentIsActive`, `TreesIntact`, `ExpiredIsDark`, `ServedIsWhole` |
| `hosting_access` (1.2 M) | two requests, three apps, a limit of one app, one token, a lifetime of one tick; apps and requests symmetric | `OverQuotaBounded`, `NoBarePreview`, `GrantedByStaff`, `RevokedStays` |
| `scheduled_jobs` (3.4 M) | two workers (Celery or operator) and two runs, lock, runtime, retention and overdue of 1, 2 ticks, 1 skipped run; workers and run ids symmetric | `LockExcludes`, `OwnerFrees`, `NoneLeftRunning`, `CountedOnce`, `VerdictStays`, `SuccessAnnounced`, `HealthyIsTrue` |
| `company_deletion` (1.1 M) | one app that may be created, uploaded to and deleted by its users, two sweepers, window and token life 1, 2 requests, 1 failure, with fairness | `OldDataGone`, `FlagOutlivesTokens`; the flag is released (`FlagReleased`) |
| `token_keys` (2.7 M) | two threads, two keys, TTL, latency and retries of 1, 2 rotations, 2 ticks; keys and threads symmetric | `CurrentKeyAccepted`, `WithdrawnKeyExpires`, `NeverOlder` |
| `container` (0.02 M) | all modes and settings, up to 3 signals, crashes at any step, 1 restart, with fairness | `CleanExit`, `InFlightFinishes`; both processes fall together (`FallTogether`) |

Two runs show a disagreement between the code and what its docs or comments say
(`expect: violation`, one property each):

| Run | What happens |
|---|---|
| `deployments_upload` | an upload that checked the status before streaming writes `uploading` over an activation (`services.py:476`); the docs say an active deployment cannot accept another upload |
| `deployments_delete` | the origin is taken off the allowlist before a commit that can still fail (`services.py:639`); the comment there says a failed delete does not strip login |

Why the bounds are enough. In `outbox_race` the hazards need two deliverers of
one row, an attempt limit that is reached and passed, and one requeue, deletion
or crash in between: the instance has each. Rows do not interact except by
sharing the threads. In `outbox_overlap` the lease must lapse under its holder
and be taken over by the other run. MaxTime is 30 there and 20 in
`company_deletion`, and neither is reached: `Tick` is enabled only while a
timestamp lies in the future, so the clock stops by itself and the liveness
results do not depend on the bound. `event_log` records events in tick 1, commits them up to tick 2, and
the clock runs to 4, so every event expires and can go stale before it stops.
There a row is committed late, also between a count and its slice, a batch leaves
rows behind, and a page boundary shifts under a walk; purges that overlap are not in the instance, and the proof
of `AlarmIsTrue` covers them. In `outbox_race`, `scheduled_jobs` and
`token_keys` the clock stops at 4, 2 and 2: enough for a lease, a lock or the
TTL to be set, to expire and to be taken over, and for a run row to be purged or
a withdrawn key to be looked up past its time. `action_rules` needs two copies of
one row, an approval between their loads and saves, and a secret that is older
than another. `deployments` needs two overlapping requests of different kinds and
two rows; its clocks count down. A failed extraction whose files stay and an
extraction over them need an archive over a limit and a sound one; the archives
of the other three kinds are covered by the proofs, which hold for all five.
`OverQuotaBounded` needs three apps: with a limit of one and two requests the
bound is two, and a third app would break it.
`container` needs a signal before, between and during the two waits.

`CHECK_DEADLOCK FALSE` stands where the system may really stop: the bound on
runs, requests, rotations or events is used up, the clock has reached its last
tick, or the container has exited and is not started again.

### Fairness

* `Outbox` (`outbox_overlap`): weak fairness of every delivery thread's next
  step, of the starting and ending of runs (beat starts one each minute, a run
  has a deadline) and of time; strong fairness of claiming, since a run asks for
  rows before it can stop and another run may take a row only for the length of
  a lease. Nothing is assumed about crashes, administrators, or the dispatch
  pool, whose backlog is lost with its process. Crashes are bounded.
* `EventLog`: time, the end of each transaction (gunicorn's timeout), and the
  next step of a purge (beat starts one each hour). Nothing about readers.
* `CompanyDeletion`: time, and each sweeper's next step (beat, every 60 s).
  Failures are bounded.
* `Container`: the script's next command, and that a process that was told to
  stop does (gunicorn's graceful timeout, jobs bounded by `--max-seconds`).
  Nothing makes a running process end.

## 4. Proofs

All theorems hold for any values of the constants that satisfy the ASSUMEs of
the module. Each module's `TypeCorrect` states `Spec => []TypeOK` (in
`ServiceProofs`, `DeploymentsTyped` and `ContainerTypes` do); the rest:

| Module | Theorems |
|---|---|
| `OutboxProofs` | `DeliveryCorrect` (the inductive invariant `DeliveryInv`); `LogCorrect`, `BudgetCorrect`, `DeliveredCorrect`, `VerdictCorrect`: `[]AttemptLogExact`, `[]AttemptBudget`, `[]DeliveredWasAnswered`, `[]StatusFollowsLog`; `FinishedCorrect`, `PurgeCorrect`: `FinishedIsFinal`, `PurgeSparesOpen`, action properties; `ContractCorrect`: `ImplementsContract`, the refinement of `DeliveryContract`; `LeaseCorrect`: `[]LeaseExclusive` when no run is a dry run |
| `ActionRulesProofs` | `RulesCorrect` (the inductive invariant `RuleInv`); `PrivateCorrect`, `SignedCorrect`: `[]PrivateUrlApproved`, `[]SignedBySharedSecret` |
| `EventLogProofs` | `PurgeCorrect` (the inductive invariant `NothingOlder`); `AlarmCorrect`, `PagesCorrect`: `[]AlarmIsTrue`, `[]PagesMissNothing` |
| `HostingAccessProofs` | `AccessCorrect` (the inductive invariant `AccessInv`); `DraftCorrect`, `QuotaCorrect`: `[]NoBarePreview`, `[]OverQuotaBounded`; `GrantCorrect`, `RevokeCorrect`: `GrantedByStaff`, `RevokedStays`, action properties |
| `ScheduledJobsProofs` | `JobsCorrect` (the inductive invariant `JobInv`); `CountCorrect`, `AnnouncedCorrect`, `NoneLeftCorrect`, `LockCorrect`, `HealthCorrect`: `[]CountedOnce`, `[]SuccessAnnounced`, `[]NoneLeftRunning`, `[]LockExcludes`, `[]HealthyIsTrue`; `VerdictCorrect`, `OwnerCorrect`: `VerdictStays`, `OwnerFrees`, action properties |
| `CompanyDeletionProofs` | `DeletionCorrect` (the inductive invariant `DeletionInv`); `GoneCorrect`, `OutlivesCorrect`: `[]OldDataGone`, `[]FlagOutlivesTokens` |
| `TokenKeysProofs` | `OrderCorrect`, `HistoryCorrect`, `RequestsCorrect`, `RecentCorrect` (inductive invariants, each relative to those before it); `NeverOlderCorrect`: `NeverOlder`, an action property; `CurrentKeyCorrect`, `WithdrawnKeyCorrect`: `[]CurrentKeyAccepted`, `[]WithdrawnKeyExpires` |
| `ServiceProofs` (`Deployments`) | `DeploymentsTypes` (`TypeOK` with `StepInv`), `DeploymentsAlone` (the inductive invariant `AloneFacts` of clients that do not share a deployment); `PointsAtActive`, `RollbacksFindTheirTree`, `ServedWhole`, `ExpiredNotServed`: `[]CurrentIsActive`, `[]TreesIntact`, `[]ServedIsWhole`, `[]ExpiredIsDark`; `ActiveKept`: `ActiveTakesNoUpload`, an action property, for such clients |
| `ServiceProofs` (`Box`, that is `Container`) | `SupervisionCorrect` (the inductive invariant); `ExitCorrect`, `FinishCorrect`: `[]CleanExit`, `[]InFlightFinishes` of `Box!Spec` |

The assumptions on constants are those of the modules. Two are there for the
proofs alone: the ids of `ScheduledJobs` (`RunIds`) are a finite set, since the
module keeps a counter of runs by id, and `Null` of `HostingAccess` is none of
the values it stands beside. Both hold of the code, where ids are rows of a table
and null is no string.

The arguments:

* **Outbox.** None of the invariants is inductive: each depends on what a
  thread holds in memory between its two transactions. `DeliveryInv` adds
  `SnapshotInv`: for a thread that is posting or has an answer, its snapshot
  never exceeds attempt_count; if the snapshot is still current the row has not
  finished (so recording the answer cannot reopen or overrun it); and a success
  in its hands has the receipt that its channel takes for one (`Credits`). `FreshRows` says that a row that does
  not exist yet is blank. `FinishedCorrect` needs, beyond that, that a finished
  row carries no lease (`FinishedUnleased`), because `Claim` and the dry run's
  unlock write leases.
* **Outbox, the status.** `StatusFollowsLog` is inductive relative to
  `DeliveryInv` row by row (`Follows`). `RowStep` says what one step does to one
  row: keeps it, emits it, removes it, requeues it or records a result in it; the
  last is the only one that moves the log, and `ApplyFollows` handles it. The
  purge reads ids in one statement and deletes in the next; `Reopened` says of
  an id it has read that the row is open only if it was requeued.
* **Outbox, the contract.** A `DeliveryContract` message is published when its
  row is inserted. `PostMoves`, `ApplyMoves` and `OnlyMoves` map each action of
  `Next` to a step of the contract or a stutter. The step that needs an invariant
  is the second transaction: `Deliver` asks for an answer, which
  `SnapshotInv` provides, and for an open message, which the comparison of
  attempt_count provides.
* **Outbox, leases.** The claim compares leases with the time its run began,
  which is in the past, so it takes a row only if the lease has lapsed. `Holds`
  says that a thread under a live lease, whose attempt is the row's next one,
  finds its own lease in the row. Only real runs have this: the unlock of a dry
  run clears the lease of whoever holds it by then, and the theorem says so
  (`TRUE \notin DryRunModes`).
* **Rules.** The properties are about rows, the reason they hold is in the
  copies: a PATCH saves what it loaded. `CopyOK` says of the copy in a request
  what `RuleOK` says of the row, apart from being the newest; approvals and told
  secrets are never taken back (`Kept`), so a copy does not go bad while the row
  moves on, and saving it puts an older truth back rather than an untruth.
* **Event log, the alarm.** A complete purge leaves no row that was older than
  the retention when it began. A row dated before it may still be uncommitted;
  `NothingOlder` also bounds the age of open insertions by `Span`, and
  `Span <= Retention` (a request lasts seconds, the retention days) keeps a late
  commit from bringing an older row back. So a stale row proves that the newest
  complete purge is more than the grace old.
* **Event log, the pages.** `DueInv`: a row that is still to be shown and is
  within its retention is ahead of the walk (`Ahead`): its offset is on a page that
  comes later and, between a count and its slice, below the count, unless a commit
  crept in. A commit adds rows to the list and never lowers an offset; only a
  commit raises one (`OffsetStays`), so that a count stays good until the slice
  without one. A purge takes only rows that were
  expired when its run began (`BatchInv`), and all that is listed before a row
  is at least as young: while the row is within its retention, so are they
  (`OffsetGrows`, a fact about cardinalities). Rows may move to later pages, and
  then the walk meets them there. `OffsetBound` ends the walk no earlier than
  behind the last row that was there at the count.
* **Access.** Requests decide and later write. `RecordOK` says what a request
  between the two may write: a request of the company carries `pending` or, after
  it read `denied`, asks again, and only staff carry another status; from that
  `GrantedByStaff` follows, though rows are saved whole.
* **Quota.** A request that found room takes its place in advance: `QuotaInv`
  counts the active apps (apart from revived ones) and the requests that have
  counted and not inserted together, and bounds the sum by the limit and one
  less than the number of requests. The count leaves room for one; every other
  request may be between its count and its insert.
* **Jobs.** `Move` lists what an action does to the fields the properties are
  about (`MoveSteps` proves that it covers `Next`), and each part of `JobInv` is
  carried through the moves: no run in two hands (`UniqueRun`), an overstayed
  run is known to be one (`StartedInv`), what a row says at each position of its
  worker (`RecordInv`), and where a count may still come from (`CountInv`: by
  its worker, while the row is running or purged; or by the one worker that
  marked it, when it is dead; never both). `LockInv` says that a worker whose
  lock has not expired is the one whose token Redis holds, and `GoodInv` that
  `last_success_at` is never later than the last run that did its work.
* **Deletion.** `DataInv` keeps the way to the files: an old file belongs to an
  app whose row is there, because a sweep's files go first, unless `delete_app`
  orphaned it; and an upload under way before the request is one of a live app or
  of an orphan. `SweepOK` says what a sweep
  has achieved at each of its steps; `Onward` says that everybody else's steps
  only take old data away, so this stays true under overlapping sweeps. The flag's
  part is that it is reopened only with a newer request and released only by a
  sweep that loaded it after the window.
* **Keys.** Since the lock is held across the HTTP call, one answer is in flight
  at a time and the cached, in-flight and published documents are in this order
  (`Order`): hence `NeverOlder`. `History` follows each key: what is cached is
  published, or was withdrawn at most one latency before the cache was written;
  a key that is cached and published is in every answer in flight. From that,
  `Requests` keeps a key that stays published within its request's reach, and
  `Recent` gives each lookup a reason to trust the cache: young at the look at
  the TTL, or a failure since, or contents that were read since.
* **Deployments, the steps.** A request is a record of the step it is at, the
  row id it loaded and what it has read since. `StepInv` says that the step
  belongs to its operation; `ReqMoves` that every action of `Next` starts, moves
  or ends one request, ends those of a process that crashed, or leaves all alone;
  `SiteMoves`, `RowMoves` and `CopyMoves` say the same of the App row, of the
  status of a Deployment row and of the caches. The invariants below are carried
  through these moves, not through the actions one by one.
* **Deployments, clients that do not share one.** Nothing locks a row between
  the request's look at its status and the transaction that changes it. What
  takes the lock's place is that no other client works on the deployment
  (`Exclusive`, as the CLI does): no two requests hold one row (`AloneInv`), so
  what a request read of the row it holds is still true, unless a delete removed
  the row (`HoldInv`). A finalized row might be superseded under its holder, but
  what a request is about to upload or extract to is draft, uploading or failed:
  no step ever leaves a row `ready` (`NeverReady`), which is why `ready` among
  the statuses of `finalize_deployment` does no harm. `CurrentIsActive` follows:
  only a commit moves `current_deployment`, in the transaction that makes the row
  active and supersedes only others, and a late save or failure mark is never
  about an active row. `ActiveTakesNoUpload`, which `deployments_upload` shows
  violated by two clients on one row, holds for the same reason.
* **Deployments, the trees.** `TreeInv` adds to `TreesIntact` what a request
  carries: one about to extract has a tree without files of the very archive it read,
  one about to prepare or commit has the archive's whole tree. Old files that the
  removal left count as none of the archive's. Storage and extraction write
  only under a row that its holder knows not to be active or superseded
  (`TreeHeld`); every other step leaves the files alone and makes no row
  restorable that was not, but for the commit, which has the tree (`TreeKept`).
* **Deployments, what is served.** A copy in a cache may be older than the row.
  `SeasonedCopies` says that its deployment was active and that no request is
  about to clear or to extract its tree. It begins so: the current deployment is
  active (`CurrentIsActive`), and what a request clears is not (`HoldInv`). It
  stays so: from active a row goes to superseded and back, or away with its app
  (`RowsGoTogether`), and no finalize begins on it (`SeasonedKept`). Neither the
  TTL nor an invalidation is part of the argument.
* **Deployments, expiry.** `ExpiredIsDark` needs no `Exclusive`. A preview
  without an expiry has nothing to serve, nor a row to roll back to
  (`ExpiryInv`): the first activation is a finalize, which sets the expiry in its
  transaction. A copy in a cache, or read and not yet cached, was taken from the
  row and ages with it, while the row's expiry only moves away by renewals
  (`Fades`, `FadesKept`, `FadesAged`): a copy is dark no later than the row. A
  cache TTL is not part of the argument; it bounds how long a renewal stays
  unnoticed, not how long an expired site stays online.
* **Container.** `Supervision` says what PID 1's position tells about the
  processes and why: a process stops only for a reason, PID 1 leaves while one
  is alive only for two.

Only model-checked: the liveness properties (`OpenRowsSettle`,
`ExpiredAreDeleted`, `FlagReleased`, `FallTogether`), since
fairness and ENABLED are out of the prover's reach. `LeaseExclusive` has no
theorem for dry runs, with which it does not hold (section 5), and
`FailedDeleteKeepsLogin` none at all: the code violates it, as
`deployments_delete` shows.

## 5. Seen in the models and covered by no property

* A thread that got a row before another thread's attempt failed POSTs it at
  once: `deliver_outbox_row` does not look at next_attempt_at again
  (`delivery.py:246`). No text promises a minimum distance of two POSTs.
* `retry_webhooks --dry-run` claims a row and clears its lease in a second
  transaction, whoever holds it by then (`delivery.py`, `DryRelease`). If the
  dry run lasts longer than a lease, it can clear the lease of a real run, and
  a third run works on the same attempt: with `DryRunModes = {TRUE, FALSE}` in
  `MCOutboxOverlap.cfg`, TLC finds `LeaseExclusive` violated. `LeaseCorrect`
  therefore assumes real runs. The other properties hold with dry runs, which
  `outbox_race` includes.
* A webhook's redirect is recorded as delivered, although `docs/actions.md:75` and
  `docs/n8n.md:163` let only 2xx count: `deliver_webhook_action` fails from 400 on
  and the transport follows no redirect. The models have it (`WebhookAnswered`);
  `DeliveredWasAnswered` says what is left: an answer, and for e-mail a 2xx. If it
  said `taken` for webhooks, TLC would find it violated.
* `_activate_deployment` invalidates the serve cache before its commit and in its
  own process only. `docs/preview-and-serving.md:53` says that the new deployment
  is served at once; the models let a page loaded in between, and every other
  process, keep the old one for the TTL. `ServedIsWhole` says what a visitor gets
  meanwhile.
* Two activations that overlap may each miss the other's row, so that two rows
  stay active; `CurrentIsActive` is about the one the app points at.
* Old files of an earlier archive may be served beside the new ones, where the
  removal did not reach them (`Removed`). `TreesIntact` allows it.
* A row that is committed between the count and the slice of a page of the event
  log pushes the last row off that page; if the older count says that it was the
  last page, the walk misses that row. Without `~crept`, TLC finds
  `PagesMissNothing` violated by this.
* A `delete_app` that swallows a storage error, or races an upload, leaves files
  that no row leads to. If the company is deleted later, no sweep finds them, and
  the flag says completed: `OldDataGone` names them as `orphans`. The same goes
  for an error that a sweep swallows (`swallowed`).
* A PATCH that saves a stale copy puts a rotated secret back
  (`SignedBySharedSecret` exempts it by `lapped`).
* `request_access` saves the whole denied row it loaded and may overwrite an
  approval given meanwhile (`SaveAsk`); the company can be approved again.
* A file that is no tar archive extracts to nothing and is activated
  (`Extract` with the archive `junk`).
* An archive that a sweep's removal of files did not see, because it was stored
  after the request, may stay in storage with no row that leads to it.
  `OldDataGone` is about what existed when the deletion was asked for.
* A repeated deletion request that arrives between the load of a lapsed flag and
  its removal is dropped with it (`company_deletion.py:139`).

## 6. Not modelled

* Throttling: counters in a cache that lose updates by design; no decision about
  data rests on them.
* Signing, SSRF guard, redaction, host and path parsing, slugs, e-mail
  rendering: stateless functions of strings and addresses, which have unit tests
  and no interleavings.
* Settings, environment registry, deployment checks: constants read at start;
  they are the CONSTANTS of the modules.
* Metrics, statistics, health and error pages, OpenAPI documents: reports over
  the state the modules describe. The exception is a job's health, in
  `ScheduledJobs`, because it is an alarm.
* In the partly modelled components: listing and filters of the administration;
  archive validation rules (outcomes of `Extract`); MIME types and headers of
  served files; HTTP retries towards identity-service (one call that works or
  does not); signature and claim checks (the library's); the health check of the
  container (a read); filters and CSV of the event log (reads).

## 7. State

Modelled: every component whose state several actors change. Proved: every
safety property the passing runs check, and the part of `ActiveTakesNoUpload`
that the code does keep. Open: what of `LeaseExclusive` survives a dry run that
outlasts a lease (the rows that no dry run holds).
