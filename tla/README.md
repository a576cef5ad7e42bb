# VoidSend: TLA+ models, model checking and proofs

VoidSend is an e-mail dispatch service in Go: HTTP handlers turn requests into
jobs, an engine of worker goroutines sends them through SES, SendGrid or SMTP,
templates come from files or from PostgreSQL, and four client SDKs (web,
Android, Flutter, iOS) keep a dispatch until the server has taken it. This
directory models the parts of it that run concurrently or that fail half-way,
checks them with TLC on small instances and proves the safety properties with
TLAPS for all instances. `src/...:n` below names line n of a source file of the
repository.

## How to run it

    tlc -workers 2 -config EngineRetry.cfg MCEngine.tla     # any run, see "Runs"
    tlapm EngineProofs.tla                                  # any *Proofs module

`PROJECT.json` lists the components, the runs, the source lines each definition
models, the hazards with the properties that watch them, and one mutant per
property: a plausible bug in a modelled definition, written as an operator right
above it (`RetryEnqueueOrDrop` above `RetryEnqueue`), under which the property
has to fail.

## The system

| component | state it keeps | operations | what is hard | what makes it correct |
|---|---|---|---|---|
| Dispatch engine (`core/engine`) | `activeJobs`, the `queue` and `results` channels, retry timers, `metrics`, `job_history` | Dispatch, worker loop, processResults, retry, scheduleJob, Stop | goroutines over two bounded channels, a map under a lock, timers that outlive everything else, cancellation | each job in one place; counted once and truthfully; Stop returns; accepted jobs are concluded |
| Process lifecycle (`main.go`) | the engine's context, the HTTP server | start, SIGTERM, Stop, Shutdown, exit | Stop runs before the HTTP server is shut down; errors at the start are only logged | no send on a closed channel; jobs are drained; no service without a database |
| Developer templates (`core/template/manager.go`) | table `developer_templates`, `dbCache` | save, delete, read-through, hourly reload | queries run outside the mutex that guards the cache | never ahead of the table; stale only by a race, and not for ever |
| File templates and rendering (`core/template`) | `fileCache`, `templates`, files | load, parse, reload, execute, clean up | two caches nobody compares with the disk, a data map consumed while rendering | a good file is enough; data is lost to failures only |
| HTTP handlers (`main.go`, `api`) | none of their own | dispatch, batch, scheduled, templates, webhooks | a batch that fails in the middle, results indexed in two ways | an answer says truly which jobs are in the engine; an error means that nothing is, but for a batch that a panic has cut |
| Mailer (`core/mailer`) | the SMTP pool, its connections | SES, SendGrid, SMTP, failover | lost answers, broken connections, a shared pool | no send leaks or shares a connection; success means sent; no needless duplicates |
| Request gate (`core/security`, `api/middleware.go`, `core/database/redis.go`) | token buckets, Redis counters, cached API keys | limit by address and user, authenticate | expiry of limiters, counters and cached keys, Redis commands that fail | a bound on what a window lets in; nobody shut out for ever; a revoked key stops working |
| Client SDKs (`sdk/*`) | persisted pending jobs, callbacks | dispatch, retry, restart | lost answers, restarts, two loops over the same jobs | a job stays until it is accepted; each callback once |
| Schema (`scripts/migrate.go`, `createTables`) | the tables, `schema_migrations` | InitPostgres, the loop over versions | runs beside each other and beside servers, ends between two statements | each migration once, in order |
| Template cache, variables, helpers, encryption, validators, MongoDB, most of the Redis and PostgreSQL wrappers | - | - | no caller in the repository, or pure functions | - |
| Monitoring and alerts | Prometheus gauges | - | nothing is read back | - |

Interactions: a handler renders its template (templates), then calls `Dispatch`
(engine); a worker of the engine calls the mailer and sends the result to the
engine's result loop; the gate stands in front of the handlers; the SDKs are the
handlers' clients. `main` owns the start and the stop.

Some of what the repository contains cannot run or is never run, which decides
what is worth modelling: `main.go:310` calls `security.IPWhitelistMiddleware`,
which no file defines; the handlers of `api/handler.go` are not routed;
`loadConfig` reads `config/config.yaml` while the repository has
`config/secrets.yaml`; nothing calls `InitMongoDB`, the template LRU, the
variable registry, or the queue, lock, pub/sub and schedule helpers of Redis.

## Modules

| module | models | state and actions against the code |
|---|---|---|
| `JobLifecycle` | what the engine promises about one job | abstract: waiting, pending, completed or failed; at most `MaxTries` sends |
| `Engine` | `core/engine/dispatcher.go`, `worker.go`, the shutdown of `main.go` | `queue`, `results`: the channels; `worker[w]`: what worker goroutine w holds; `proc`: the goroutine of processResults; `timers`: pending `time.AfterFunc` callbacks; `phase[j]`: how far the handler's Dispatch call is; `stage`: how far Stop and Shutdown are |
| `TemplateStore` | the database half of `core/template/manager.go` and its HTTP handlers | `row`: the table; `dbCache`; `client[c]`: a request between two of its database or cache accesses; `loader[l]`: a run of loadTemplatesFromDB |
| `Mailer` | `core/mailer/providers.go` | `smtpPool`: whether InitSMTPPool is at work (`making`) and what it has come to (`nil`, `set`), `stray`: connections it left behind; `pool`: the channel of connections; `conn[c]`: what client and server have come to on it; `sender[s]`: a worker inside a Send call, one step per network exchange |
| `Requests` | the dispatch, batch and scheduled handlers of `main.go` and of `api/handler.go`; the file half of `manager.go`; `template/engine.go` | `kind`, `pc`, `at`: which handler a request is in and how far; `data`: what is left of the entry's map; `jobs`, `result`: the two slices of a batch; `fileCache`, `engCache`: the caches; one step per lock region, file access and job |
| `IpGate` | RateLimitMiddleware, `core/security/rate_limit.go`, RateLimitCheck of `redis.go` | `limiter`, `sweep`, `bucket`: the entry of `ipLimiters`, its deletion and its tokens; `members`, `expiry`: the sorted set; one step per lock region and Redis command, and the ticks of time; `left`, `letIn` watch one window, begun at any moment (`Watch`) |
| `KeyGate` | APIKeyMiddleware, checkRateLimit of `dispatcher.go` | `active`: the row; `cached`: what is left of the Redis entry's five minutes; `count`, `expiry`: the counters of this clock hour and the last; `left`, `letIn` watch an hour as in `IpGate` |
| `Schema`, `Startup` | `createTables`, the list of migrations; `main` up to ListenAndServe, InitPostgres, the loader of GetManager, the whole of `scripts/migrate.go` | `origin[o]`: who has made a table or index; `recorded`: `schema_migrations`; `pc`, `stmt`, `version`: how far a server or a run of the script is; `made`: its open transaction |
| `Client` | the four SDKs under `sdk/`: dispatch, the store of pending jobs, the retry loop, callbacks, initialize, restarts | `platform`: which SDK; `pending`, `disk`: the store as the program reads it and as the next start will; `loaded`: the `pendingJobs` of iOS; `callbacks`: the keys of `dispatchCallbacks`; `chain[<<j, g>>]`: the executeDispatch calls of job j that dispatch (g = 0) or the g-th initialize began |
| `MCEngine`, `MCMailer`, `MCTemplateStore`, `MCClient`, `MCRequests`, `MCStartup` | - | instances for TLC: symmetry sets, the choice of handlers and of statements |
| `EngineProofs`, `TemplateStoreProofs`, `MailerProofs`, `RequestsProofs`, `IpGateProofs`, `KeyGateProofs`, `StartupProofs`, `ClientProofs` | - | theorems |

The models meet where the code does: `Requests` takes from `TemplateStore` that
a read of a developer's template yields one that parses, or nothing; it takes
from `Engine` that Dispatch accepts a job (`Enqueue`), refuses it
(`RateLimited`, `QueueFull` with `RemoveRefused`), or panics on the queue that
Stop has closed (`SendOnClosedQueue`), and from `KeyGate` nothing but a refusal.
`Engine` begins where `Startup` has a server listening, and calls what `Mailer`
models. `Startup` takes the two lists of `Schema` as constants.

**Steps.** A step of a model is the code between two points at which another
goroutine, or the world, can come in: a channel operation, a lock region, a
statement sent to a database, a network exchange. `Engine` separates, for
example, the send of Dispatch from the `TotalJobs++` after it
(`dispatcher.go:151-154`), and the decision of processResults from the
`delete(activeJobs)` at its end (`:186-212`). `PickResult` joins the receive
with the lookup, because nobody else removes a job that has been queued. A lock
region that touches one variable is one step. In `Client` the event-loop SDKs
give way at an `await` only; on Android and iOS every call runs beside the
others, so that reading the dictionary of iOS and writing it back are two steps
(`VoidSendSDK.swift:316-318`).

**Data.** A job is a model value: its content never influences the engine. In
`TemplateStore` a template is its version number, 0 for none. In `Requests` it
is the set of data parts (`user`, `app`, `now`) without which its execution
fails; the request's map is the set of parts in it. A mail is the `copies` of it
a provider accepted. In `Startup` a statement is what it makes and what has to
be there for it. In `IpGate` and `KeyGate` time passes in ticks, and deadlines
are countdowns. Variables under "Observations" or marked so record what
happened; no action reads them.

**Outside the repository.** The providers, SMTP servers, PostgreSQL and Redis,
and for the SDKs the server and the network, appear as their possible answers: a
call succeeds, fails, or takes effect and has its answer lost. Two assumptions
about them are stated in the modules. An SMTP server refuses MAIL inside an open
transaction (RFC 5321, 503). The table `developer_templates`, which no file of
the repository creates, has (developer, action) as a unique key and `is_active`
true by default: every query addresses rows that way.

**Abstracted.** `checkRateLimit` is a free yes or no in `Engine`; its counter is
in `KeyGate`. Job ids are unique in `Engine`: the generated ones come from the
clock (`main.go:610`) and could collide, which is listed as an open hazard.
`SelectOptimalProvider` picks from Redis keys nobody writes; `Mailer` lets a
send begin with any chain of providers. Logging, metrics export and the stubs
for webhooks and alerts keep no state of the engine. In `Client` every dispatch
is given a callback, and a request is one acceptance or none. `HashMap` and
`Dictionary` used by several threads without a lock are undefined behaviour: an
operation that meets another one may lose entries, find nothing, or leave its
own undone (`Racing`, `Twins`). The preferences of Android and iOS reach the
disk at a time of their own (`Flush`). A dispatch before initialize is refused,
and leaves no trace in any variable.

## Runs

| run | instance | what it shows |
|---|---|---|
| `engine_retry` | 3 jobs, one scheduled; 2 workers; channels of 2; 2 retries | each job is in one place (`SingleCustody`), known until its first result (`TrackedUntilHandled`), counted once (`CountersAddUp`), never touched after its conclusion (`ConcludedForGood`); `activeJobs` is cleaned up (`OnlyUnsentStayActive`); `Engine` implements `JobLifecycle` |
| `engine_no_retry` | 3 jobs, one scheduled; 2 workers; channels of 1; no retries | history rows are true (`HistoryTruthful`) |
| `engine_live` | 2 jobs; 2 workers; channels of 1; 1 retry; fair | `StopReturns`, `AcceptedIsHandled` |
| `template_store` | 2 templates, 2 clients, 1 loader, 2 versions; fair | `NeverAhead`, `StaleOnlyByRace`; with writers quiet the cache converges (`QuietBecomesCoherent`) |
| `mailer` | 3 workers, 3 connections, pool of 2, made by an InitSMTPPool that may fail | connections are not shared, and none is lost but by a failed InitSMTPPool (`ConnsAccounted`), the pool refills (`PoolRefills`), `SuccessMeansCopy`, `DuplicateOnlyUnheard` |
| `requests` | 2 requests, all six handlers, batches of up to 2; 1 file; templates that demand nothing or both parts | a 202 says which jobs are in the engine (`AnswerTruthful`), an error that none is, or that a panic has cut a batch, at a nil or at the closed queue (`ErrorCutsBatch`); data is lost to failed executions (`PartsLostByFailure`); a good file is enough (`HealthyFileIsEnough`) |
| `ip_gate` | 2 requests, 3 limiter objects, 1 request per window of 2 ticks; fair | how much one window lets in (`AdmissionsBounded`), and that a refused address is let in again (`NotShutOut`) |
| `key_gate` | 2 requests, key life of 2 ticks, hour of 2 ticks, quota 2 | a revoked key is gone from the cache once its life has passed since the last write by a request that had read it active (`RevokedKeyRunsOut`); jobs in any hour (`QuotaBounded`) |
| `startup` | 1 server, 2 runs of the script, the statements for 5 objects; fair | `MigrationsCreateNothing`, `RecordedInOrder`, and a server without a pool goes down (`NoPoolNoService`) |
| `client_one_job` | each SDK; 1 job, 3 retries, 3 initializes, 2 restarts; fair | through retries, lost answers and restarts the callback of a requested job is called, on an event loop once (`ToldOnce`) and at last (`CallbackComes`) |
| `client_races` | Android and iOS; 2 jobs, 1 retry, 2 initializes, 1 restart | of jobs that share an unlocked map and, on iOS, a dictionary that is rewritten whole: the job is kept (`KeptUntilAccepted`), duplicated only for a reason (`DuplicateOnlyExplained`), reported truthfully (`ReportTruthful`) |
| `engine_stop_crash` | 2 jobs, 2 workers, 2 retries | the finding below |

**Why these bounds.** Two workers and three jobs let one job be in the queue,
one at a worker, and one in the results, at a timer or in a handler at the same
time; with two places per channel, a channel is met empty, partly filled and
full, and full together with the other one. Two retries are needed for a second
retry to be possible at all, which is how the first run shows that the code
never gets there. `engine_no_retry` is separate because only with `RetryAttempts
= 0` a job is ever counted as failed (see "Noticed"): the failure rows of
`HistoryTruthful` do not exist otherwise. `template_store` needs two clients for
a reader to race a writer, a second key for a load to mix fresh and stale
entries, and two versions to tell an old row from a new one; `MaxVersion` bounds
the saves. In `mailer`, three workers over a pool of two fill, empty and
overfill it, and InitSMTPPool can fail with one connection already made. Three
connections are enough, as one that was closed can be made anew and a sender
makes one only when it finds the pool empty: there are never more than the pool
has places or than there are senders, whichever is larger. In `client_one_job`,
one job is enough: on an event loop jobs share only maps that are changed at one
key, and the threads have a run of their own; three retries are the SDKs' own
limit, and the third initialize is the one that sends a job again that the
second has already finished, from the list iOS read at the start. `client_races`
needs two jobs for one write of the dictionary to undo another, and one retry to
have a request in each state of the loop. `copies` counts up to 2, which stands
for more.

`requests` needs two requests for one to fill or replace the cache entry another
is about to use; a batch of two, for an entry to fail before, after, or instead
of another; and two templates, one that demands nothing and one that demands
all, for a cached one to fail where the file would not. The first request is a
batch of either handler or a single call of one of three, the second a single
dispatch of main.go, so that every handler runs beside another one; the queue
can be closed before, between and after the jobs of a batch. `ip_gate`
has a limit of 1, which keeps its state space small enough for the liveness
property, and three limiter objects: the one in the map and one in each
request's hand; its window lets in five requests at most, the theorem covers the
larger limits for which the bound comes closer. `key_gate` has two requests, so
that one is between its read of the row and the write of the cache while the key
is switched off, and a quota of two, with which the bound is met exactly and the
dropped counter of the last hour matters. In both, a window of two ticks tells
the middle of one from its edge. `startup` takes from the two lists of `Schema`
a table with an index, one that refers to it, one that refers to that, and the
table of versions; two runs of the script meet at every pair of statements. The
counters stop where one more changes nothing (`Many`, `Quota + 1`).

**Deadlock** is checked in every run. A process that has exited, crashed or been
killed stutters (`Dead`); every other state has a step, that of a signal or a
request in the quiet ones.

**Fairness.** `Engine`: weak fairness for each goroutine that has something to
do. Go schedules every runnable goroutine; provider and database calls are
assumed to return. Nothing makes a client send a request or an operator send the
signal. A full channel is no obstacle: `WF` of a worker's step holds the worker
to it as soon as there is room again. `TemplateStore`: requests that have begun
go on, and the hourly ticker ticks; requests need not come. `IpGate`: time
passes, the sweeping goroutine wakes up, and a request that has begun goes on,
Redis answering if with an error. `Startup`: the loader's goroutine runs;
nothing is asked of the processes or the database. `Mailer` has no liveness
property: `providers.go` sets no deadline on any connection, so that a server
which stays silent holds a worker for ever. `Client`: only the SDK's own steps
(timers, the rest of a handler) are fair. Its HTTP calls need not end, since web
and Flutter set no timeout, and the application need not call anything;
`CallbackComes` carries the assumption that calls end in its statement
(`CallsEnd`), and is about the event-loop SDKs: a racing map of callbacks on
threads may lose one. `StopReturns` therefore says that the *engine* has no
deadlock of its own, not that Stop returns whatever the network does.

## Findings

**Stopping can crash** (`StopDoesNotCrash`, `dispatcher.go:198`). A retry timer
that fires, or still waits for room, after Stop has closed the queue panics in a
goroutine of its own, which ends the process. `main.go:300`: "gracefully
stopped".

Several properties say exactly how far a weakness of the code goes instead of
denying it. `TrackedUntilHandled` shows that the results processResults throws
away are results of retries only. `SuccessMeansCopy` shows that a success
without a mail is possible over SMTP only, where `defer wc.Close()`
(`providers.go:161`) drops the server's answer to the mail, and
`DuplicateOnlyUnheard` that duplicates need an accepted request whose answer was
lost. `KeptUntilAccepted` and `DuplicateOnlyExplained` name in `befell` what
must have happened to a job of the SDKs that is lost or accepted twice: an
acceptance the SDK could not note, a second chain beside a live one or after the
job was done, a stop before the disk was written, a dictionary written over a
newer one. `AnswerTruthful` and `ErrorCutsBatch` leave room for three faults of
the batch handlers: main.go's panics at the nil an entry without a job leaves in
its slice (`main.go:487`), and either one at the queue that Stop has closed
(`dispatcher.go:150-151`; Stop runs before the server is shut down), after the
jobs before it were queued, so that the client hears of an error only; api's
notes a refusal at the place of the job, not of the entry, once an entry was
left out (`handler.go:147`). `AdmissionsBounded` is four times the
configured limit and twice the requests under way, and why is said above it: a
request that holds a swept bucket takes a token from it once, and there may be
such requests when the window begins and again when the entry is swept in it.
`QuotaBounded` is twice the limit of a clock hour and twice the requests under
way: a counter lives for an hour from its first job, so that it can be dropped
while a request has its name but not yet its count; that request then starts it
again, once when the window begins and once after the hour has turned in it.
`RevokedKeyRunsOut` counts from the last write of the cache by a request that
had read the row while the key was active (`early`); that write may come after
the key was revoked. `ConnsAccounted` sets apart what a failed InitSMTPPool
leaves open (`stray`), and shows that it is fewer connections than a pool has
and that no send adds to them. `CallbackComes` is about jobs for which a request
was made: a save that throws makes none.

**Noticed** while modelling, without a run of its own:

- A job is retried at most once, and its end is then unknown. processResults
  starts a retry and then deletes the job from `activeJobs` all the same
  (`dispatcher.go:210`). The result of the retry finds no entry and is skipped
  (`:182-183`): it is not counted, not written to the history, and not retried
  again, though `README.md:174` has "retry_attempts: 3".
- Scheduled mails are never sent (`dispatcher.go:216`). The Redis key expires
  when the job is due, and nothing reads it or the row; `main.go:565` answers
  "Email scheduled successfully".
- A deleted template can be served for up to an hour (`manager.go:177`). A
  reader or the loader that read the row before the delete caches it after the
  delete has dropped the entry.
- A pooled SMTP connection can be unusable for good (`providers.go:142`). After
  a refused recipient the connection goes back with its transaction open; every
  later MAIL on it is refused, and it is put back each time.
- InitSMTPPool returns at the first connection it cannot make
  (`providers.go:76-79`) and closes none of those before it. They stay open, in
  no pool; every send over SMTP then fails.
- The web and Flutter SDKs register the callback, then save, then send. A save
  that throws (`void-send.js:256`, `void_send.dart:274`: a full store, data that
  is no JSON) ends dispatch in between. The callback is not called unless the
  application calls initialize again, which sends what is still in memory.
- Without a URL of Postgres, or when ConnectConfig fails, `main.go:182` goes on;
  the goroutine of GetManager then uses the nil pool and its panic ends the
  process (`NoPoolNoService`). A server whose Ping or createTables has failed
  has a pool, and stays up.
- The migration script opens its pool without MaxConns (`migrate.go:40-42`), and
  `postgres.go:28` puts that 0 over pgx's own default. A pool of size 0 cannot
  be made (puddle, the pool under pgx, panics; its source is not in the
  repository), so that the script as it is ends at InitPostgres, and so does a
  server whose configuration has no `max_conns`, like the sample's
  (`src/README.md:182-183`). `Startup` lets both have a pool: it allows more
  than happens, and what it shows of the steps behind holds for a script that
  sets MaxConns.
- For such a script, createTables has made every table of the migrations before
  they run, so that their REFERENCES never come into being
  (`MigrationsCreateNothing`), and without a table of versions it fails at its
  first query. The loop counts the three statements of "Version 3" as three
  versions.
- A configuration without `rate_window` gives the limit on addresses a window of
  0, hence an infinite rate (`rate_limit.go:27`): nothing is limited.
  validateConfig has no default for it; `IpGateAssumption` leaves it out.
- `developer_templates`, `job_history`, `scheduled_jobs` and `developers` are
  queried, but no file creates them.
- prepareData takes "user" out of the request's map (`manager.go:317`): if the
  execution then fails, the fallback renders without it. The manager keeps "app"
  to itself: the developer's template gets no `App`.
- The repository's templates lie in directories (`templates/otp/OTP.html`), the
  code reads `templates/<action>.html`; `password_reset.html` uses a function
  `date` that FuncMap lacks.
- "0.0.0.0/0" as the list of allowed addresses refuses every IPv6 address,
  though its comment says "Allow all".
- The sorted set of RateLimitCheck never loses a member before it expires as a
  whole: the bounds are passed as `string(rune(...))` (`redis.go`), no numbers.
- A worker whose context is cancelled may return although the queue is not empty
  (`worker.go:36-47`), so a graceful stop can drop jobs for which a client was
  told "Email will be dispatched shortly" (`main.go:421`).
- `initialize` also sends the jobs that the current session is still working on;
  the comment at `VoidSendSDK.java:74` says "Process any pending jobs from
  previous sessions". A second call of initialize on iOS sends finished jobs
  again.
- `uploadTemplate` takes its callback out before it reads the answer; if the
  answer is not JSON, the catch block finds no callback and the application
  hears nothing (`void_send.dart:141`, `VoidSendSDK.java:228`).
- The SDKs send `Authorization: Bearer`, the server's key check reads
  `X-API-Key` (`middleware.go:24`).

## Proofs

TLAPS proves the following for every value of the constants that satisfies the
modules' assumptions: `EngineAssumption` (scheduled jobs are jobs, `NoJob` is
none, channels have room for one entry, finitely many workers),
`StoreAssumption` (at least one version), `MailerAssumption` (finitely many
senders and connections, `NoConn` is none, no fewer connections than the pool
has places or than there are senders),
`RequestsAssumption` (handlers, bodies and demands are of their kinds, a batch
has at least one entry), `IpGateAssumption` and `KeyGateAssumption` (limits and
spans of time are positive, finitely many requests at a time),
`StartupAssumption` (servers and runs of the script are different processes,
both lists have a statement, and each migration makes the table of versions or
an object of createTables; `SchemaAssumption` has TLC check the latter of the
lists in the code) and `ClientAssumption` (platforms are among the four,
finitely many jobs, bounds are natural numbers). TLC evaluates the assumptions
in the passing runs.

| theorem | property | inductive invariant and why it is needed |
|---|---|---|
| `EngineProofs!TypeCorrect` | `TypeOK` | itself: it says which goroutine states hold a job |
| `EngineProofs!ChannelsClosedLast` | `ChannelsOutliveWorkers` | itself |
| `EngineProofs!OnePlacePerJob` | `SingleCustody` | `TypeOK` and `Custody`, which adds `Launched`: a job in flight has been queued by its own Dispatch, so that `Enqueue` never makes a second copy of one |
| `EngineProofs!FirstResultIsKnown` | `TrackedUntilHandled` | `Tracked`: a registered job is in `activeJobs`, and what processResults is about to forget is retried or in no place any more |
| `EngineProofs!EngineImplementsLifecycle` | `ImplementsLifecycle` | `Faithful`: what a place says about a job (before or after a provider call, with which answer) agrees with `retryCount`, `attempts`, `delivered` and `outcome` |
| `EngineProofs!VerdictIsFinal` | `ConcludedForGood` | `Faithful`: a job in flight has no verdict yet |
| `EngineProofs!HistoryIsTrue` | `HistoryTruthful` | `Recorded`: between the count and the INSERT processResults holds the verdict |
| `EngineProofs!NothingSentStaysActive` | `OnlyUnsentStayActive` | `ActiveKnown`: the job of an entry that was queued is in flight, or processResults is about to delete it |
| `EngineProofs!MetricsAddUp` | `CountersAddUp` | `Counted`: the sets the metrics count grow by one job per step, which was in none of them (`Faithful`) |
| `TemplateStoreProofs!TypeCorrect` | `TypeOK` | itself |
| `TemplateStoreProofs!CommittedOnly` | `NeverAhead` | itself with `TypeOK`; versions of a row only grow |
| `TemplateStoreProofs!StaleByRaceOnly` | `StaleOnlyByRace` | itself with `TypeOK` and `NeverAhead` |
| `MailerProofs!TypeCorrect` | `TypeOK` | `Typed`, which ties a sender's step to whether it holds a connection |
| `MailerProofs!NoConnectionLost` | `ConnsAccounted` | `Accounted`: `Typed` and the property; InitSMTPPool is a case of its own (`PoolAccounted`) |
| `MailerProofs!PoolNeverShrinks` | `PoolRefills` | itself with `Typed`: each step that takes a connection adds a holder, each that ends one fills the pool or finds it full |
| `MailerProofs!SuccessIsReal` | `SuccessMeansCopy` | `Reporting`: what each sender will report, if it ended now |
| `MailerProofs!DuplicatesExplained` | `DuplicateOnlyUnheard` | `Reporting`: an earlier copy means an unheard answer |
| `RequestsProofs!TypeCorrect` | `TypeOK` | `Inv`: a batch appends at a place within the slice only because of `Slice` |
| `RequestsProofs!AnswersTrue` | `AnswerTruthful` | `Flow`: while entries are worked on, `Slice` ties the jobs slice to the entries behind the handler and to those left out; while jobs are dispatched, `Sent` ties accepted jobs and results to both |
| `RequestsProofs!ErrorsCut` | `ErrorCutsBatch` | `Flow`: a nil stands at the place of an entry that was left out, in main.go's slice only, and what was taken stands before the place the handler is at; a closed queue stays closed |
| `RequestsProofs!PartsKept` | `PartsLostByFailure` | `Mail`: what a waiting entry's map has lost, a failed execution has taken |
| `RequestsProofs!HealthyServed` | `HealthyFileIsEnough` | `Health`: what the engine has just read of a healthy file demands nothing |
| `IpGateProofs!TypeCorrect` | `TypeOK` | `Typed`: a request about to ask a limiter has one |
| `IpGateProofs!WindowBounded` | `AdmissionsBounded` | `Watched`: what was let in and what may still come in the window under watch, in requests (`Claims`) and in parts of tokens (`Units`), is within the bound |
| `KeyGateProofs!TypeCorrect` | `TypeOK` | itself |
| `KeyGateProofs!RevocationTakesHold` | `RevokedKeyRunsOut` | itself with `TypeOK` and `ReadActive`: who is about to cache the row has read it while it was active |
| `KeyGateProofs!HourlyJobsBounded` | `QuotaBounded` | `Watched`: the same for an hour (`Spent`, `NextHour`); the counter of the present hour is never dropped in it |
| `StartupProofs!TypeCorrect` | `TypeOK` | itself, with the invariant below |
| `StartupProofs!NothingMigrated` | `MigrationsCreateNothing` | `Inv`: a run past InitPostgres has all of createTables' objects, and one past the query has the table of versions |
| `StartupProofs!RecordsInOrder` | `RecordedInOrder` | `Inv`: the versions below the one at hand are recorded |
| `ClientProofs!TypeCorrect` | `TypeOK` | itself |
| `ClientProofs!NoJobForgotten` | `KeptUntilAccepted` | `KeptInv`: what is being answered was accepted (`Noted`); only a dispatch is saving, and Flutter has its job in memory by then (`Saving`); callbacks belong to dispatches (`Registered`) |
| `ClientProofs!DuplicatesExplained` | `DuplicateOnlyExplained` | `OnceInv`: `KeptInv`, nothing of a job exists before its dispatch (`Fresh`), and a job to which nothing befell has one chain, which after the acceptance only removes it from the store (`Once`) |
| `ClientProofs!ReportsAreTrue` | `ReportTruthful` | `OnceInv`: a chain that still waits for its answer means no acceptance, or a mishap |
| `ClientProofs!OneCallPerCallback` | `ToldOnce` | `Spent`: a callback that was called is gone from the map |

The engine's proofs go place by place. They first show how a channel changes as
a list without repetitions (`Longer`, `Shorter`), then how each step that moves
a job changes the five places (`TakeMoves`, `ReportMoves`, `PickMoves`,
`EnqueueMoves`, `TimerMoves`), and derive from these that the places stay apart.
The refinement needs the same facts: a step that changes the counters of one job
leaves all other places alone because that job is in no other place
(`OthersStay`); so does `ActiveKnown`, for which no step but the deletion may
take a queued job out of flight. The refinement mapping takes `status` from
`outcome` and `phase`; `Enqueue` is `Submit`, `Send` is `Try`, `CountSuccess`
and `CountFailure` are `Complete` and `Fail`, every other step stutters.
`ClientProofs` says for each step of a chain what it owes to its own job
(`Advances`), to the other jobs (`LeavesOthers`) and to those not dispatched yet
(`LeavesFresh`); `OnceKeeps` and `FreshKeeps` derive the invariant from these
for all such steps at once.

`RequestsProofs` first treats the two slices of a batch as plain values
(`SliceAdd`, `SliceFail`, `SentRefused`, `SentAccepted`), then shows for each
step what it does to the flow of its own request (`Flows`) and to its mail
(`Mails`); a step leaves the other requests alone (`Untouched`, `Apart`) but for
the health of a file they share (`AroundInv`). `StartupProofs` does the same
with the processes: the one step that makes an object and the one that records a
version are lemmas of their own, every other step ends a process or moves it on.

The bounds of the two gates are proved as budgets. From `Watch` on, the requests
let in and all those that can still be let in before the watch ends are within
the bound, and no step adds to this sum: a step that lets a request in has the
claim of that request, a token of the bucket (`AllowWatched`), a place in the
sorted set (`SetStep`) or a place under the counter's limit (`IncrementSpends`)
taken away. What is still to come in the watch is set aside when it begins: the
sweep with another full bucket and everybody's claim on the old one, the refill
of the ticks that are left, the set's own end, the turn of the hour with a fresh
limit and everybody's claim on the counter that is over. Each of them can happen
only once (`Sweeping`, `Dropping`, `Turning`), which is where the lengths of the
window, the sweep and the expiries meet. TLC has checked both invariants on the
instances of the runs.

Only model-checked: the liveness properties (`StopReturns`, `AcceptedIsHandled`,
`QuietBecomesCoherent`, `CallbackComes`, `NotShutOut`, `NoPoolNoService`), since
TLAPS has no rules for fairness and ENABLED within reach. Every invariant and
every action property of a passing run, and the refinement, has its theorem.
`ChannelsOutliveWorkers` is proved only. The violation needs no proof: TLC
prints its behaviour.

## Not modelled

`PROJECT.json` gives the reason for each component. In short: of the SDKs,
`Client` leaves out `dispatchBatch` and the template calls, which send one
request and keep nothing, and `dispatchWithHtml`, an upload followed by a
dispatch. The webhook handlers, `ListDeveloperTemplates` and the metrics keep no
state. The LRU of templates, the variable registry, MongoDB, the user and
API-key rate limits of `rate_limit.go`, and the queue, lock, pub/sub and
schedule helpers have no caller, so that no behaviour of the system shows them.
Pure functions over strings (encryption, validators, helpers), the unused
GraphQL schema, HTML and deployment files have no behaviour that a state machine
would bring out. The hazards in `PROJECT.json` that no property covers say why.

## Plan

What would come next, in this order:

1. `Client`: `dispatchWithHtml` and `uploadTemplate`, with the callback that one
   call hands to the other; an abstract at-least-once channel that the SDKs
   implement where nothing but lost answers befalls a job.
2. `Engine` with ids that collide (`main.go:610`), and composed with the intake
   of `Requests`.
3. `Paginate` and `Retry` of the helpers, against reference definitions.
4. Proofs: what the composition of 2. promises, from the theorems of both
   modules; the abstract channel of 1. as a refinement of `Client`.
