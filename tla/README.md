# Formal models of the DevOps platform

Four services build and run users' applications: `auth-service`,
`project-service` and `secrets-service` (Python, FastAPI, FastStream) and
`deployment-service` (Go).  They share nothing but Kafka topics and a few HTTP
calls; each has its own PostgreSQL database, auth-service keeps its sessions in
Redis, secrets-service its values in Vault, and deployment-service drives
Nomad.  This directory holds TLA+ models of their logic, TLC configurations
that check them on small instances, and TLAPS proofs for every instance.

Contents: [the system](#the-system) · [modules](#the-modules) ·
[runs](#the-runs) · [fairness](#fairness) · [proofs](#the-proofs) ·
[findings](#where-the-code-and-its-documentation-disagree) ·
[abstractions](#abstractions) · [not modelled](#not-modelled) ·
[plan](#plan)

Paths below are relative to `src/services/`.

## The system

| component | state it keeps | operations | interacts through |
|---|---|---|---|
| auth-service | users and OAuth connections (PostgreSQL), sessions with a TTL (Redis) | GitHub login, refresh, logout, get user, get GitHub token | HTTP; no Kafka |
| project-service | projects with status and progress (PostgreSQL), deployment configs waiting for their secrets (memory) | create, get, list, analyse, delete; handlers for the secrets and deployment events; long-poll of a project's status | publishes `project.created_with_secrets`, `project.deleted`, ...; consumes `secrets.*`, `deployment.*`; `POST /configs` to deployment-service |
| secrets-service | metadata of secrets (PostgreSQL), values and read policies (Vault) | create, bulk create, update, delete, list; handlers for project events | consumes `project.created_with_secrets`, `project.deleted`; publishes `secrets.bulk_created` |
| deployment-service | `deployment_configs`, `deployments` (PostgreSQL), one goroutine per deployment in progress (memory), metrics | deploy (on `secrets.bulk_created`), delete project (on `project.deleted`), retry, stop, create config, get, list, logs | publishes `deployment.building/deploying/running/failed`; registers and purges Nomad jobs |

A user's deployment is a chain: project-service stores the project and
publishes it with its secrets; secrets-service writes them to Vault and
publishes `secrets.bulk_created`; deployment-service builds and deploys and
publishes the progress; project-service folds the progress into the project's
row, which clients long-poll.

What is hard, and what makes each part correct:

- **deployment-service, commands and goroutines.**  A deployment is a goroutine
  of up to fifteen minutes whose steps (a call to PostgreSQL, Nomad or Kafka
  each) interleave with stop requests, a second retry and the deletion of the
  project; every call can fail or lose its reply; SIGTERM cancels contexts half
  way and nothing resumes.  Each actor saves its own copy of the object, and
  `MarkFailed` asks no transition table.  Correct means: rows and events only
  go forward, outcomes are final, one outcome is announced, what is announced
  is stored, a redelivered event deploys once, no job runs without a row unless
  a call was lost, and nothing stays in progress.
- **deployment-service, Kafka consumer.**  A batch goes on after a failing
  record, and its commit covers that record.  Correct means: no event is passed
  over that was neither handled nor parked, a commit never goes back, a poisoned
  record does not block its partition.
- **project-service.**  Handlers of five topics load the same row, change some
  columns, and commit them later, on several instances; the config that waits
  for its secrets lives in one process' memory.  Correct means: concurrent
  handlers do not undo each other, a deleted project does not come back, a
  config is posted once, neither `creating` nor `initializing` lasts, and the
  progress a client polls does not go back.
- **secrets-service.**  Values go to Vault, metadata to PostgreSQL, answers to
  Kafka, with a compensation for one of the failures in between.  Correct
  means: an event is answered or parked, and what is announced is stored and can
  be read by the job of its project.
- **auth-service.**  A session is two Redis keys, `session:s` and its entry in
  the set `user_sessions:u`, each with a time to live of its own; they are
  written, refreshed and removed by separate calls, beside rows in PostgreSQL.
  Correct means: a session ends when it should and stays ended after a logout,
  a token that was handed out is honoured, the set holds the live sessions.
- **The client's side of project-service.**  The analysis of a repository reads
  its files call by call while somebody may push, and takes a failing call for
  an empty file; a `POST /projects` that fails half way is sent again; the long
  poll decides by comparing `updated_at`, which handlers take from clocks read
  earlier.  Correct means: the analysis follows from what was read, no request
  leaves a row nobody knows of unless it lost a call from the INSERT on or its
  client did not get the answer, the poll misses a
  change only for a stamp that came late, and never for good.

The hazards, each at its line, are listed in `PROJECT.json`, with the
properties that would catch them going wrong or the reason why none does yet.

## The modules

| module | what it is |
|---|---|
| `DeploymentDomain` | statuses and transition table of `deployment-service/internal/domain/deployment.go` |
| `DeploymentLifecycle` | abstract: what API clients (the row) and project-service (the events) may observe of a deployment |
| `DeploymentService` | the commands, the goroutines and the process; implements `DeploymentLifecycle` |
| `DeploymentServiceProofs` | its theorems |
| `DeploymentConsumer`, `DeploymentConsumerProofs` | the poll / dispatch / dead-letter / commit loop, and its theorems |
| `ProjectDomain` | columns of a project's row and how `deployment_status` may move |
| `ProjectLifecycle` | abstract: how a polled project row may change |
| `ProjectService`, `ProjectServiceProofs` | creation, deletion and event handlers on several instances, which implement `ProjectLifecycle`, and their theorems |
| `SecretsService`, `SecretsServiceProofs` | creation of secrets over HTTP and by event, and the two event handlers, and their theorems |
| `AuthSessions`, `AuthSessionsProofs` | sign-in, refresh, logout and the sessions in Redis, and their theorems |
| `RepositoryAnalysis` | `GET /repositories/{owner}/{repo}/config`: the rules and the calls |
| `StatusPoll` | `GET /projects/{id}/status` and its long poll, beside the handlers |
| `ProjectClient`, `ProjectClientProofs` | composes the two with `GET /repositories` and `POST /projects` along the path of one client, and the theorems of all three |
| `MC*` | model values and symmetry for TLC |

Modules contain some operators marked *Mutant of X*: a form of X with a
plausible bug, listed in `PROJECT.json` under `mutants`.  No specification
uses them.  Put in X's place they violate the property they are listed with, which
shows that the property depends on the code and not on the shape of the model.

### DeploymentService

State: `rows` and `configs` are the tables, `said` the last event published
per deployment, `builds` and `apps` the jobs Nomad knows, `pc[d]` and `dep[d]`
the goroutine of `d` and the unchanging fields of its object, `stops`,
`checked` and `purge` the requests and the consumer between two of their calls,
`proc` the process.  `disturbed` is history: deployments one of whose calls was
lost or cut short, or whose project was deleted.

| code | actions |
|---|---|
| `DeployCommand.Execute` (`deploy.go:99`) and `createConfig` | `ReceiveBulkCreated`, `SaveBuilding`, `SayBuilding` |
| `RetryCommand.Execute` (`retry.go:65`) | `Retry`, then the same two, on the request's context |
| `runBuildAndDeploy`, `failDeployment` (`deploy.go:176`, `retry.go:99`) | `SubmitBuild`, `AwaitBuild`, `SaveDeploying`, `SayDeploying`, `SubmitApp`, `SaveRunning`, `SayRunning`, `SaveFailed`, `SayFailed` (their disjunction is `Pipeline`) |
| `StopCommand.Execute` (`stop.go`) | `StopRead`, `StopKill`, `StopSave` |
| `CreateConfigCommand.Execute` (`create_config.go`) | `CheckConfig`, `InsertConfig` |
| `DeleteProjectCommand.Execute` (`delete_project.go`) | `ReceiveDeleted`, `PurgeRead`, `PurgeJobs`, `PurgeRows`, `PurgeConfigs` |
| `main` (`cmd/api/main.go`) | `SigTerm`, `Exit`, `Crash`, `Boot` |
| Nomad | `FinishBuild` |

Every call is one step with the outcomes `ok`, `err` (no effect) and `lost`
(effect, but no reply), the last two when `Faults` or a cancelled context allow
them.  UNIQUE (project, environment), the foreign key and its cascade are part
of `NoConfigFor`, `Upsert` and `DropRows`.  A retry's version counts the rows its
query returned; when that fails half way `collectDeployments` returns the rows
read so far with the error, and `retry.go:77` drops the error (`Counted`).
`dep[d].seen` records which rows were counted, `dep[d].missed` which ones the
query kept from it.

### DeploymentConsumer

`logEnd` and `committed` are Kafka's; `fetched`, `next`, `toCommit`, `current`
and `at` are the loop of `Consumer.Run`
(`deployment-service/internal/transport/kafka/consumer.go`).  `Poll`, `Dispatch`,
`PublishDLQ` and `CommitBatch` are its steps; `SigTerm`, `Stop` (return or
crash, at any point) and `Boot` the process.  Handlers are opaque: they succeed,
or fail before or after they took effect.

### ProjectService

`row` holds the columns that handlers change, `request` and `removal` the two
HTTP requests, `pending` the `PendingConfigsStore` of every instance, `log`,
`position`, `committed` and `owner` the topics, `task[t]` the handler of topic
`t` with `base`, the row as its session loaded it.  SQLAlchemy's unit of work
is `Written`: an UPDATE contains the columns whose value differs from the one
loaded, and no row to update is an error.

| code | actions |
|---|---|
| `CreateProjectInteractor` | `SaveProject`, `PublishCreated`, `PublishLog`, `StorePending` |
| `DeleteProjectInteractor` | `DeleteRow`, `AnnounceDeletion` |
| `HandleSecretsBulkCreatedInteractor` | `Take`, `SecretsReady`, `Pop`, then `Ready` or `Creating`, `Post`, `Posted`, `Announce`, `Fail` |
| `HandleDeploymentStatusChangedInteractor` | `Take`, `SaveStatus` |
| an instance dies and another one takes its topics | `Crash` |
| secrets-service, deployment-service | `SecretsCreated`, `DeploymentSays` (the announcements `DeploymentLifecycle` allows) |

### SecretsService

`vault`, `policies` and `rows` are what other readers can see; `task[x]` is the
handler of `project.created_with_secrets` or an HTTP request, and its `added`
the rows flushed in its session.  `Finish` ends the request scope
(`secrets_service/ioc.py:34-39`): the session is closed without a commit, so
`rows` stays empty; that is what the code does (see below).  `policies` says
that a project's policy is registered, `Granted(p)` which paths it covers.

| code | actions |
|---|---|
| `POST /secrets`, `POST /secrets/bulk` | `Request` |
| `CreateBulkSecretsInteractor`, `CreateSecretInteractor` | `Look`, `Write`, `SaveRows`, `Undo`, `Policy`, `Publish` |
| `HandleProjectCreatedWithSecretsInteractor` and its subscriber | `Take`, the steps above, `Announce`, `Log`, `Park` |
| `HandleProjectDeletedInteractor` | `HandleDeleted` |
| the process ends under a task | `Crash` |

### AuthSessions

`users` and `connections` are the tables; `until[s]` is when Redis drops
`session:s`; `members` and `setUntil` are the sets `user_sessions:u`; `access`
and `refresh` when the tokens of a session expire; `task[x]` the request `x`.
`time` and `ttl` of a task are the variables `now` and `ttl` of the code, read
at one moment and used at another.  `out`, `overlapped` and `unlisted` are
history.

| code | actions |
|---|---|
| `GitHubOAuthLoginInteractor` and the callback's route | `Callback`, `Exchange`, `Find`, `Insert` or `Touch`, `Connect`, `Create`, `AddMember`, `ExpireSet`, `HandOut` |
| `RefreshTokenInteractor` | `Refresh`, `GetSession`, `Reread`, `Rewrite` |
| `LogoutInteractor` | `Logout`, `GetSession`, `Reread`, `Delete`, `RemoveMember`, `Farewell` |
| `GET /auth/me`, the GitHub token | the operators `MeAnswer`, `GitHubTokenAnswer`: they only read |
| time, a process that ends | `Tick`, `Crash` |

Facts of the code a reader may not expect: `update` and `delete` read the
session a second time; `update` leaves `expires_at` alone; the answer to a
refresh does not contain the new refresh token; `/auth/refresh` accepts an
access token as well, since `verify_refresh_token` asks for no type; a sign-in
whose record to service-logs fails answers 400 although its session stays; the
GitHub token is given for an access token whose session is gone; a missing
connection is answered with 500, since `.one()` raises before the interactor's
own error.

### RepositoryAnalysis, StatusPoll, ProjectClient

`RepositoryAnalysis`: `repo` is the branch on GitHub, `seen` the listing the
analysis works with, `read` and `deps` what it read, `missed` the files that
were there and could not be read.  The rules of `analyze_repository.py` are
data (`NodeRules`, `PythonRules`, `MarkerRules`): the first whose names and
files are present applies.  `Ask`, `GetToken`, `GetRepoContents`, `ReadPackage`,
`ReadRequirements`, `ReadPyproject` are its calls, `Push` somebody else's.
`Reference` says what a repository calls for, from its files alone.

`StatusPoll`: `project` is the row (a version and its `updated_at`), `save[w]` a
handler's session with the stamp it is going to commit, `shown` what the client
was last told, `poll` the request.  `Load`, `Mark`, `Commit`, `Abandon`,
`Remove` are the handlers; `GetStatus`, `Ask`, `Look`, `Wake`, `LookLast` the
routes.  The long poll keeps its pooled database session while it sleeps.

`ProjectClient` instantiates both.  A client lists its repositories, has one
analysed, posts the project (`Post`, `GetGitHubToken`, `CreateWebhook`,
`GetCurrentUser`, `Save`, `Publish`), again after a failure, and follows it
(`Follow`).  It takes `POST /projects` up to its answer; `ProjectService` has
what concerns the events.  A request can also leave its client without an
answer: the client gives up at any point (`GiveUp`) and the request goes on
(`GoOnUnseen`; `adrift` counts those that have not inserted yet), or the process
ends (`Crash`).  `broken` counts the rows whose 201 the client never got.

## The runs

| run | bounds | shows |
|---|---|---|
| `failures` | 1 deployment at a time, 2 config ids, 2 requests, a deletion, every fault, fairness | the inductive invariant `IInv`; what is announced is stored (`RunningIsStored`); an undisturbed row says what its goroutine last did (`RowTracksGoroutine`) and the inductive invariant `JobsInv` behind it; the refinement and its two consequences; deployments and deletions end (`Settles`, `PurgeEnds`) |
| `interleavings` | 2 deployments, 2 config ids, 1 request, a deletion, PostgreSQL failing | no leaked and no missing app job (`JobsMatchRows`), one event-triggered deployment (`DuplicateEventDeploysOnce`) |
| `versions` | 3 deployments, PostgreSQL failing, 1 config, no deletion and no other request | a retry has a higher version than every deployment it counted (`RetryVersionsGrow`), and the inductive invariant `CountsInv` behind it |
| `consumer` | 2 partitions of 2 records, 1 end of the process, failing handlers, publishes and commits, fairness | `ConsumerInv`, `Accounted`, `CommitAdvances`, `EveryRecordTaken` |
| `project_faults` | 1 project, 1 deployment, 2 `secrets.bulk_created`, failing PostgreSQL and Kafka | the refinement of `ProjectLifecycle`, `ProgressGoesOn` |
| `project_instances` | 2 instances, 1 crash, 2 `secrets.bulk_created`, failing Kafka, fairness | the inductive invariant `IInv`, `PostedOnce`, `CreatingEnds`, `InitializingEnds` |
| `secrets_faults` | 1 project, 2 events, 1 request, 1 crash, every fault, fairness | the inductive invariant `IInv`, `EventsAccounted`, `AnnouncedIsProvisioned`, `EveryEventAnswered` |
| `auth` | 1 account, 2 sign-ins, 2 requests at a time, 2 ticks, sessions of 2 ticks, crashes | the inductive invariant `IInv`; sessions end on time (`SessionEnds`), tokens that were handed out serve (`TokensServe`), `LoggedOutStaysOut`, `LiveIsListed` |
| `client` | 6 files, 3 packages, 2 libraries, 1 push; 2 requests to create; 2 handlers, 3 versions, 2 ticks, polls of 2 rounds; every call failing, a client that gives up, the end of the process, fairness | the inductive invariant `IInv`; `AnswersWhatItRead`, `InstallNamesListed`, `RowsAccounted`, `PromptUnlessLate`, `CatchesUp` |
| `project_order`, `project_pending`, `secrets_readable` | the smallest instance without faults | each ends in the counterexample of a finding below |

Why these bounds are enough to meet the interesting cases:

- Rows of different projects share only the consumer goroutine, Nomad's name
  space (whose ids contain the project) and the sessions' tables, and no action
  reads another project's rows.  One project is therefore where the races are.
- Two config ids allow a deletion and a redelivery after it; two deployments
  allow a deploy and a retry, or two retries, to overlap, which is what a
  double deployment or an overwritten row needs.  Only versions relate more: a
  retry counts a deployment that had counted another one, which it may miss
  itself.  `versions` has three for that and leaves the deletion and the other
  requests away; `VersionsGrow` has both, for any number.
- Two events on a topic are one redelivery, which exercises every handler on a
  state its first execution left half way; two records in each of two partitions
  give a batch that fails in the middle and commits across partitions.
- One crash or restart reaches every step as its crash point.
- Sessions of different accounts share no key.  Two requests at a time are a
  logout beside a refresh, or two sign-ins of one account beside each other's
  set; the third actor, time, passes the end of an access token (1 tick), of a
  session (2) and of a set that was created for nothing.  More requests and
  accounts are covered by the proofs.
- In `auth` a crash stands for the failures of GitHub, PostgreSQL, Redis and
  Kafka: a call that fails ends its request, which takes nothing back, so it is
  a crash before the call, and a lost reply is one after it.  The one difference,
  a refresh whose last reply is lost and that hands out no access token, only
  leaves a token out.  With `Faults = {"redis", "crash"}` TLC finds no error
  either, in twice the time, and the proofs have every kind of failure.
- Every rule of the analysis has a name or file that selects it or is the last
  of its list; the names chosen make rules overlap (`vite` with `react`,
  `manage.py` with and without `django`).  One push between two of the at most
  five calls changes what a later one reads.
- Two handlers suffice to commit stamps in the wrong order; three versions are
  one the client knows, one it sleeps over and one more.
- `failures` keeps to one deployment because every fault at once multiplies the
  outcomes of each call; `interleavings` has two with fewer faults.  The proofs
  close the gap between the two for the properties they cover.

`CHECK_DEADLOCK FALSE` everywhere: the services may be idle for good once the
bounded supply of ids, events and crashes is used up.

## Fairness

Only steps of running code are fair; no client, other service, fault, SIGTERM,
crash or restart is, and neither is Nomad's `FinishBuild`.

- `DeploymentService`: weak fairness of `Pipeline(d)` for each goroutine and of
  the consumer's deletion steps.  Each call has a timeout (HTTP clients 30 s),
  and a build that does not end is given up when its context expires after 15
  minutes, so a goroutine that can step does.
- `DeploymentConsumer`: weak fairness of the loop `Run`.  `EveryRecordTaken`
  has the premise `<>[](proc = "up")`: the process may be stopped for ever.
- `ProjectService`: weak fairness per topic's handler, and of the steps of a
  creation request after its insert: coroutines of a running event loop whose
  calls time out.  The insert itself is a client's decision.  `CreatingEnds`
  and `InitializingEnds` except a crash, after which a project may stay so: no
  code looks for it.
- `SecretsService`: weak fairness of the subscriber of
  `project.created_with_secrets`.
- `StatusPoll`, `ProjectClient`: weak fairness of `Poll`: the server goes on
  with a request it is given, and the client, whose frontend polls in a loop,
  asks again.  The handlers are not fair.

## The proofs

The theorems hold for every value of the constants that satisfies the named
assumptions: `DeploymentsFinite` (a retry takes the cardinality of a set of
rows), `NamesExist` (a project and an environment exist, and the empty string
is not an environment), `MaxConfigsIsNat`, `FaultKinds`; for the consumer
`PartitionsExist`, `BoundsAreNat`; for project-service `SomeInstance`,
`BoundsAreNat`; for secrets-service `ProjectsExist` (a
project exists, and a request is not called like a topic), `BoundsAreNat`; for
the client's path `BoundsAreNat` (the row has a first version); for
auth-service `SomeAccount`, `BoundsAreNat` and `LivesAreNat`: an access token
lives no longer than a session (60 minutes, 30 days), and the hour by which a
set outlives its sessions is longer than two requests.  Without the last,
`LiveIsListed` is false: with a slack of one tick a set can expire under a
session that a refresh just wrote back.

`DeploymentServiceProofs`:

- `TypeCorrect`: `Spec => []TypeOK`.
- `InvCorrect`: `Spec => []IInv`.
- `DeploysOnce`: `Spec => []DuplicateEventDeploysOnce`.
- `Refines`: `Spec => ImplementsLifecycle`, the refinement of
  `DeploymentLifecycle`; `OutcomesAreFinal` (`TerminalIsFinal`) and `OneOutcome`
  (`OneOutcomeAnnounced`), its consequences for rows and for events.
- `JobsCorrect`: `Spec => []JobsInv`, and from it `RowsTrackGoroutines`
  (`RowTracksGoroutine`), `NoJobLeaks` (`JobsMatchRows`) and `RunningStored`
  (`RunningIsStored`).
- `CountsCorrect`: `Spec => []CountsInv`, and from it `VersionsGrow`
  (`RetryVersionsGrow`).

What matters (`DuplicateEventDeploysOnce`, the refinement) is not inductive.
`IInv` strengthens it with what goroutines, stop requests and the schema
maintain together:

- `NeverAhead`: at each step of a goroutine, what its row may say and what may
  have been announced.  A `Save` at a step then always goes forward along the
  table, which is the refinement's obligation.  It holds whatever is lost or
  deleted, which is why it allows `None` at every step.
- `StopsAreLate`: a stop request past its status check exists only for a
  goroutine that saves no more, so its late `Save("stopped")` cannot be
  followed by another.  Without it `failed` after `stopped` is not excluded.
- `RowHasConfig`, `UniqueConfigs`: the foreign key and the UNIQUE constraint.
- `IdsAreUsed`, `OneDeployPerConfig`: ids are fresh, so a config that was
  deleted never equals a new one and each config has at most one deployment
  made from an event.

`DuplicateEventDeploysOnce` follows from the last four: two rows whose configs
have the same project and environment have the same config, hence are one
deployment.  The step proof has one lemma for each kind of step (a save, a
publication, a move, a removal) and one case per action.

`JobsInv` and `CountsInv` are inductive together with `IInv`:

- `JobsInv` relates, for a deployment none of whose calls was lost, the step of
  its goroutine, its row, its job in Nomad and the stop requests (`JobOf`).  What
  a row without a job needs is a stop request that is about to save, and that
  one has killed the job (`StopsHaveKilled`): a stop between its call to Nomad
  and its save is the only time at which a running row may lack its job.
- `CountsInv` says what the `COUNT(*)` of `retry.go` has counted: saved
  deployments of the same project (`CountedAreSaved`), one less than the version
  (`VersionCounts`).  What a counted deployment had counted or missed is counted
  or missed by the later one too, unless a deletion took it away
  (`KnownStayKnown`): a count cut short loses rows from `seen`, not from the two
  together.  Where the later count missed nothing that the earlier had counted,
  the counted sets are therefore strictly ordered, and so are their
  cardinalities.

An earlier form of the version property, that versions collide only between
deployments neither of which counted the other, passed its run and is false.
With three deployments the second counts the first, the deletion removes the
first one's row, and the third counts the second alone: both have version 2,
so the same build job and image tag.  The attempt to prove it found that.  A count that
PostgreSQL cut short has the same effect without any deletion: the third reads
the second's row and loses the connection before the first's.
`RetryVersionsGrow` names both exceptions (`dep[d1].seen` meets `disturbed` or
`dep[d2].missed`).

`OnlyOwnersLose` is an action property of the deletion and the stop requests
with several projects (`TakesOnlyItsOwn`: whatever goes away goes on behalf of
its own project or deployment).  The runs, which have one project, cannot say
that.  It rests on `PurgeInv`: the purge works by the rows it read some steps
earlier, and those still belong to its project because a deployment that has
begun keeps its fields (`BegunStays`).

### The exceptions are exact

Several invariants name what they cannot exclude: a deployment that was
`disturbed`, a record `dropped`, a creation `undone`, a logout `overlapped`, a
request `broken`.  An exception that is too wide would make its invariant say
little, so each is also shown to need its cause.  These theorems have the cause
excluded as a hypothesis on the constants, and the invariant without its
exception as conclusion:

| Theorem | Without | it holds that |
|---|---|---|
| `WithoutFaultsAllAgree` (deployment-service) | failing calls, crashes, SIGTERM | goroutine, row and job agree for every project that is not deleted |
| `OnlyKafkaDrops` (its consumer) | failing publications | what was committed was handled or dead-lettered, through crashes and shutdowns |
| `OnlyKafkaTakesBack` (project-service) | failing publications | the percentage a client polls never goes back, with every other fault |
| `OnlyDbTakesBack` (secrets-service) | errors of PostgreSQL | what was announced is stored in Vault and its policy registered |
| `OnlyCrashesLose` (secrets-service) | failing publications, crashes | no event is lost |
| `OneAtATimeStayOut` (auth-service) | a second request in flight | a logged-out session is not live |
| `OneProjectAtMost` (creation) | errors of PostgreSQL and Kafka, clients that give up, the end of the process | retries of `POST /projects` leave one row at most |

No run checks these statements; each is the invariant its run checks, with the
exception shown to be empty (or, for deletions, to stay within `Deletable`).

`DeploymentConsumerProofs`: `ConsumerInvCorrect`, `NothingIsSkipped`
(`Accounted`) and `CommitsAdvance`.  `Accounted` speaks of the committed offset,
which jumps; `ConsumerInv` adds `Positions` (committed, to be committed, next
and fetched offsets in this order) and `PassedOver` (what a *running* process
has passed over is handled, parked, dropped or about to be parked).  A draining
process passes over records it could neither handle nor park, but can no longer
commit them; that is the argument, and the reason why `PassedOver` is
conditional.

`ProjectServiceProofs`: `Invariance`, `TypeCorrect`, `ConfigPostedOnce`
(`PostedOnce`), `Refines` (`ImplementsLifecycle`) and `ProgressOnlyGoesOn`
(`ProgressGoesOn`), with failing calls and crashes of any number of instances.  A handler writes over a row it loaded some
steps earlier, so neither follows from the row alone.  `IInv` says

- where the config of a project is until it is posted (`ConfigInv`, `BulkInv`):
  with the request that creates the project, in the store of the instance that
  ran it, or with the one handler that popped it; when it is in none of them it
  is posted or lost, and nothing brings it back.  That gives `PostedOnce`, and
  it makes the steps of `deployment_status` those `NextDeploy` allows, since
  only the handler with the config changes this column;
- what a handler loaded is never ahead of the row (`BaseInv`).  A column that
  is left out of an UPDATE because it had its value already therefore still
  has it, and an error, a URL and a config id stay;
- `RowInv`: a config that is ready has its id, `failed` comes with its error.

`Goes` is what each action is shown to do: keep `IInv`, and be a step of
`ProjectLifecycle` or a stutter.  There is a lemma per set of columns that is
written, `CommitGoes` for the commits, `MoveInv` for steps of a handler that
leave the row alone, `RequestGoes` for the request that creates a project.
`ProgressOnlyGoesOn` follows from the refinement: what `ProjectLifecycle` lets a
row do adds completed steps, the number of steps of a project stays
(`WantsStay`), and the rounded percentage is monotone (`PercentMonotone`).

`SecretsServiceProofs`: `Invariance`, `TypeCorrect`, `AllEventsAccounted`
(`EventsAccounted`) and `AnnouncedProvisioned` (`AnnouncedIsProvisioned`).  When
`secrets.bulk_created` goes out, nobody looks into Vault; that the values are
there is known only from the path the handler took.  `IInv` states it step by
step (`HandlerInv`: from `save` on the values are in Vault or were taken back,
from `publish` on the policy exists), and that the table of metadata stays
empty, without which `Look` could skip the writing and `HandleDeleted` remove
announced values.  Every step of a task keeps Vault up to what it notes in
`undone` (`Keeps`), which carries `HandlerInv` and `AnnouncedIsProvisioned` over
the steps of other requests; `HandlerGoes` and `HandlerEnds` do the steps of the
handler, one lemma per action the rest.  That the policy covers what it should is
no part of this, and false: see `secrets_readable`.

`AuthSessionsProofs`: `Invariance`, `TypeCorrect`, `SessionsEnd`
(`SessionEnds`), `HandedOutTokensServe` (`TokensServe`), `LoggedOutStay`
(`LoggedOutStaysOut`), `LiveSessionsAreListed` (`LiveIsListed`).  The four
properties depend on each other's ground:

- `TaskTimes`: a request sees the clock move once at most, so a time to live
  computed from an earlier reading is off by one tick at most.
- `TaskSession`: a session is known to one request until its tokens are handed
  out, and to the requests that were sent a token of it afterwards; user and
  connection are stored before the session.
- `SessionInv`: a known session that was not logged out is still in Redis until
  its `expires_at`; a logged-out one is gone, and no request that is not noted
  in `overlapped` will write it back; the set lives longer than any member that
  was added and not lost (`Kept`).

`ProjectClientProofs`: `Invariance`, `TypeCorrect`, `AnalysisAnswers`
(`AnswersWhatItRead`), `InstallListed` (`InstallNamesListed`), `RowsAccountedFor`
(`RowsAccounted`) and `PollIsPrompt` (`PromptUnlessLate`), for any files, names,
pushes, attempts, handlers and versions.  `IInv` is one part per phase of the
client:

- `ReadInv`: what the request knows before each of its calls is what the files
  before it say once those that could not be read are blanked (`ReadSoFar`, only
  while nobody pushed), and a file is read because it was listed (`Listed`,
  always).  `Fallback` and each read is a lemma that ends in an answer or in the
  next call; `AnswerKeeps` says what an answer has to be.  `Reference` picks the
  same configuration in one go.  That the rules always select one
  (`FirstHolds`), with an install command that names a file, is proved of the
  rules themselves (`RulesOrdered`).
- `CreationInv`: `RowsAccounted`, and a request has stored nothing before its
  INSERT, which bounds the rows by the attempts.
- `StampInv`: between the client's version and a later one, either the row's
  `updated_at` is later than the client's, or a version in between came late.
  A commit keeps that because its stamp is either the newest or noted in `late`;
  the sleeping poll inherits it at the moment it compared.
- `PhaseInv`: the poll begins with the row as it was created.

Every safety property the passing runs check is stated by a theorem.  Only
model-checked are the liveness properties `Settles`, `PurgeEnds`,
`EveryRecordTaken`, `CreatingEnds`, `InitializingEnds`, `EveryEventAnswered` and
`CatchesUp`: fairness and ENABLED are out of the prover's reach.

## Where the code and its documentation disagree

Each has a run that ends in a counterexample, and an entry in `PROJECT.json`
with the quoted line.

- `project_order`: README:255 says `deployment.running` updates the project.
  Each topic has its own subscriber and no handler looks at the current status,
  so the last handler to commit wins and the project may end as
  `deployment_pending` or `ready`.
- `project_pending`: README:247 says `project.created_with_secrets` triggers
  the deployment config.  The config is put in the memory of one of two
  instances after the event is out; an answer handled earlier or elsewhere
  finds none.
- `secrets_readable`: README:78 promises per-project policies.  The policy of a
  project grants `secret/data/projects/<id>/*` (`create_bulk_secrets.py:58`),
  its secrets are stored and announced at `projects/<id>` (line 88), and the job
  of the deployment that follows the event (`deploy.go:233`) reads them there
  (`job_builder.go:105`) with this policy alone (`deploy_job.hcl.tmpl:18`).  The
  pattern does not match, and Vault denies the read.

Met while modelling, without a run of their own:

- A deletion publishes no `project.deleted`, against README:216:
  `delete_project.py:22` reads an attribute the repository does not have, after
  the row was deleted (`AnnounceDeletion`).  So the other services keep what
  they have of the project.
- The metadata of secrets is never committed (`secrets_service/ioc.py:34-39`,
  `Finish`).  A retry that asks for the current env vars (README:140) gets none,
  `PUT` and `DELETE /secrets/{id}` answer 404, `project.deleted` finds nothing to
  remove from Vault.
- A goroutine in progress is not cancelled by `project.deleted`: it may submit
  its app job after the deletion, and the job stays without a row.  README:248
  ("Cascade delete") can be read as speaking of the tables only, so this is the
  exception `disturbed` of `JobsMatchRows` and no finding.
- `create_project.py:55-56` reads `github_webhook_id` and
  `github_webhook_secret` of a webhook whose fields `dtos/__init__.py:159` names
  otherwise; `except` takes the error, so the webhook exists at GitHub and its
  id is lost.
- README:250-252 lists `secrets.failed`, `deployment.config_created` and
  `deployment.config_failed`; nothing publishes them.
- `SessionRepository.get_by_user_id`, `delete_by_user_id` and `delete_expired`,
  for which the set of a user's sessions is kept, and the deletion of users and
  connections, are called by nothing.

## Abstractions

- Payloads (env vars, repository, job specifications, templates, names),
  metrics, logging and the presentation of responses are left out.  So a job is
  the same with and without its secrets, and the gauges are not checked.
- A Kafka topic has one partition in `ProjectService` and `SecretsService`;
  consumers that go on after a rebalance took their topic away are not
  modelled.  Both Python clients commit their position periodically, handled or
  not, so after a crash a topic resumes at any point passed since it last
  resumed.
- A publication to the dead-letter topic that fails while the process runs is
  recorded as `dropped` (`DeploymentConsumer`) or `lost` (`SecretsService`): the
  code only logs it, and `Accounted` and `EventsAccounted` say so.  The
  dead-letter records of project-service are not kept.
- SQLAlchemy's refresh after a commit is taken together with the step that
  follows it.
- deployment-service is one process.  `infra/nomad-stack/jobs` gives
  project-, secrets- and auth-service two instances; its
  `deployment-service.nomad` still starts an earlier Python service, so it says
  nothing of the Go one.
- Access checks (auth-service) precede each command and change nothing; a
  command that is refused does not start.
- Time.  In `AuthSessions` and `StatusPoll` the hosts, PostgreSQL and Redis
  share one clock; a skew only adds stamps that are late and expiries that are
  off.  A tick of `AuthSessions` is longer than a request.  There the lives of
  tokens are constants; `config.py` has 60 minutes, 60 days for
  the refresh token, and the session and its cookie have 30 days and therefore
  end first.
- A GitHub account keeps its address and login.  Signing and encryption of
  tokens are abstracted to their expiry and their session.
- In `RepositoryAnalysis` a file names members of a small set: how a line of
  `requirements.txt` is split is not modelled, nor are the build and start
  commands and the root directory (`.strip('./')`, which also drops the dot of
  a directory `.app`).

## Not modelled

- deployment-service: `GetLogs`, get and list queries, DTOs, routing: read-only
  or I/O.  `WaitForCompletion` is modelled by its outcomes.
- project-service: the handlers of `secrets.failed`,
  `deployment.config_created` and `deployment.config_failed`, which no service
  produces; `TriggerDeploymentConfigInteractor`, which nothing calls; DTOs and
  dependency injection.
- secrets-service: `PUT` and `DELETE /secrets/{id}` look a secret up in a table
  to which nothing is ever committed and end with 404; the list routes only
  read, and find nothing.
- Infrastructure (Compose, Nomad jobs, scripts, CI, monitoring): it only fixes
  how many instances run.

## Plan

Done, in this order:

1. `DeploymentDomain`, `DeploymentLifecycle`: table and promise.
2. `DeploymentService` and its proofs.
3. `DeploymentConsumer` and its proofs.
4. `ProjectDomain`, `ProjectLifecycle`, `ProjectService` and its proofs.
5. `SecretsService` and its proofs.
6. `AuthSessions` and its proofs.
7. `RepositoryAnalysis`, `StatusPoll`, `ProjectClient` and their proofs.

To come:

- `Platform`: the saga of the three event-driven services composed through
  their topics, on the abstract specifications where they suffice: the race of
  `createConfig` and `POST /configs` for the UNIQUE constraint, deletion while
  the chain is under way, redelivery after deletion, end-to-end progress.
- `Validate` and the overlay of a config, `slugify`, the Nomad wait loop, each
  against a reference definition.
- deployment-service with several replicas: rebalances between consumers.
