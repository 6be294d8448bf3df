# A formal model of scalable-starter

`scalable-starter` is a web application template: a FastAPI service over
PostgreSQL and Redis, a background worker over the same Redis, a Next.js
front end and the deployment files for all of them. This directory holds TLA+
specifications of the parts whose correctness depends on the order of events,
the TLC configurations that check them and theorems that TLAPS proves. Paths
below are relative to `src/apps/api/app/` unless they name another directory.

## 1. The system

### 1.1 Components

| Component | State | Operations | What is hard |
|---|---|---|---|
| Job queue producer, `workers/queue.py` | one lazily created Redis client; the list `jobs:default` | `enqueue`, `get_client`, `aclose` | the reply to RPUSH may be lost |
| Worker, `workers/worker.py` | a processing list per HOSTNAME, `jobs:dead`, the stop event, the back-off | `recover_orphans`, `process_next`, `handle_job`, the loop `_run` | several workers on one queue; SIGTERM, SIGKILL, replaced pods; lost replies; retries |
| Worker liveness, `_heartbeat` and `infra/k8s/base/worker-deployment.yaml` | the mtime of a file | touch per iteration, exec probe | a handler or an outage longer than the probe allows |
| Cache, `cache/redis.py` | keys with expiry | `get`, `set`, `delete`, `incr` | the window of a counter, clock boundaries, crash between INCR and EXPIRE |
| Cache-aside, `cache/aside.py` | one lock per key per process | `get_or_set` | stampedes, failing factories |
| Rate limiter, `api/v1/deps.py` | a counter per window, path and client | `rate_limit` | several processes on one counter, an outage of Redis, window edges |
| Outbound HTTP client, `core/http_client.py` | breaker: failures, open_until | `request`, `allow`, `record_*` | requests in flight while the breaker changes; retries against time |
| Database sessions, `db/session.py` | engines, session makers | `init_engine`, `dispose_engine`, `get_session`, `get_read_session` | the commit runs after the response; replica lag |
| Items, `services/item.py`, `repositories/`, `api/v1/routes/items.py` | table `items`, unique name | create, get, list, update, delete | check-then-insert races, concurrent update and delete |
| Authentication, `core/security.py`, `get_current_subject` | none | sign, decode, select the subject | which of the claims must be there |
| Health, `api/v1/routes/health.py` | none | `healthz`, `readyz` | a probe against dependencies that come and go |
| Lifespan, `core/lifespan.py` | what is open | startup and shutdown in order | one step of several fails; resources that requests make lazily |
| Settings, `core/config.py` | none | production guard | a bad version in a rolling update |
| Application, errors, middleware, metrics, logging: `main.py`, `api/errors.py`, `exceptions.py`, `middleware/`, `observability/`, `core/logging.py` | request id, the context of the log, counters | the stack of middleware, exceptions and their answers | which layers see which answer; a request is two tasks; the answer comes before the commit |
| Migrations and seed, `alembic/`, `scripts/seed.py` | schema, rows | upgrade, select-then-insert | two seeds, or a seed and a create, at once |
| Web client, `src/apps/web/lib/api-client.ts` | an abort timer | `apiFetch` | a timeout racing an answer; what an error says of the write |
| Deployment, `src/infra/`, `docker-compose.yml` | replicas | rolling update, probes, autoscaling | who restarts what, under which name |

### 1.2 How they interact

A request passes the middleware, the dependencies of its route (session,
subject, rate limit) and a service, which uses a repository inside the
request's session. The rate limiter and the readiness probe use the cache; the
cache, the rate limiter and the queue share one Redis. A service may `enqueue` a
job; a worker process elsewhere takes it with BLMOVE. All API state shared by
concurrent requests of a process is on its event loop, so a step between two
awaits is atomic; processes share only Redis and PostgreSQL.

## 2. The models

A step of every model is what one process does between two awaits: one command
to Redis, one statement of a transaction, one return of a handler. Redis applies
a command atomically; an `asyncio` task cannot be interrupted between awaits, so
Python code without an await is never split. Failure is a step of its own
wherever the code awaits something that can fail.

A definition whose comment begins with **`Slip:`** is not part of any
specification. It is the definition after it with one plausible mistake (a guard
dropped, an off-by-one, a swapped order), and `PROJECT.json` lists for every
property the slip that violates it. This is how we know that the properties can
see the code they are about.

### 2.1 JobQueue — producer, worker and Redis lists

`JobQueue` has the three kinds of Redis list (`queue`, `processing[host]`,
`dead`) and, for every worker, the place `pc` of its coroutine, the message
`held` by `handle_job` and the `stop` event. A message is its id and its
attempts; the type and the payload matter only through `Registered`, the jobs a
worker has a handler for (a message that does not parse takes the same path as
one of an unknown type).

| Code | Actions |
|---|---|
| `JobQueue.enqueue` | `Enqueue`: RPUSH, with its reply, with its reply lost, or never arrived |
| container start | `Restart` (same HOSTNAME), `Replace` (a HOSTNAME nobody had) |
| `recover_orphans` | `RecoverMove` per LMOVE, `RecoverEnd` |
| `_run` | `Poll`, `Exit`, `BackoffEnd`; an error anywhere in the loop leads to `backoff` |
| `process_next` | `Fetch` (BLMOVE and the choice of the handler), `FetchTimeout`, `FetchBroken` |
| `handle_job` | `HandlerReturns`, `HandlerRaises`, `Ack`, `Drop`, `Unlist` (LREM), `Requeue` (RPUSH) |
| signals | `Terminate` (SIGTERM, SIGINT), `Kill` (SIGKILL, or an exception the loop does not catch) |
| Redis | `NoAnswer` (a command that never arrived); a lost reply is a disjunct of each command; `LateMove`, `LateTimeout`: a BLMOVE whose client has gone, still served by Redis until its timeout |

`JobQueueProperties` states the properties and the refinement. `JobLifecycle` is
the abstract specification: a job becomes live once, and leaves for one of five
reasons (acknowledged after a success, dead-lettered after `MaxAttempts`
failures, dropped where it has no handler, lost after a failure). `JobQueue`
implements it with `phase` read off the lists and `tries`, `handled` the history
variables `failures`, `succeeded`.

### 2.2 WorkerProbe — the worker's clock

The same loop seen as time: how long each place of `_run` may take (`Reply`,
`Block`, `MaxHandler`, the back-off), the heartbeat file (`age`), the exec probe
of `worker-deployment.yaml` (`InitialDelay`, `Period`, `FailureThreshold`,
`Stale`) and SIGTERM with `terminationGracePeriodSeconds` (`Grace`). `Advance`
goes from LLEN through BLMOVE and the handler to LREM/RPUSH, `Turn` is the while
test with the heartbeat, `Error` the back-off, `Wedge` a handler that never comes
back or blocks the event loop. `Tick` cannot pass the end of a wait, the time of
a probe or of SIGKILL: nothing is late.

### 2.3 HttpClient — breaker and retries

`breaker` is `_failures` and `_open_until`; a request is idle, on the wire,
sleeping before a retry, or has ended. `Begin` is the call of `allow`, `Answer`
and `Failure` end an attempt with `record_success` and `record_failure`, `Retry`
wakes up (and, as in the code, does not ask the breaker again; `opened` remembers when a
failure last opened it or extended its cooldown), `Cancel` is a
cancelled task or an exception that is no `TransportError`. `Tick` is the clock.

### 2.4 RateLimiter — `rate_limit` over `RedisCache.incr`

One counter in Redis, `count` and `expireAt`, and the requests of one client and
route in any number of processes. `Arrive` sends the script, `Eval` is the script
in Redis, `Decide` the comparison in the process; `CacheError` fails open and may
leave a script behind that Redis runs later; `Kill` ends a request meanwhile.

### 2.5 CacheAside — `get_or_set`

Tasks of several processes and one key. `line[p]` is the lock of process `p`:
the tasks that want it in their order, the first of them the holder. `FirstGet`,
`Acquire`, `SecondGet`, `Make`, `Set`, `Return` are the statements of
`get_or_set`; `Raise` is a failing cache or factory or a cancellation, and lets
the lock go as `async with` does; `Evict` is expiry or `delete`.

### 2.6 ItemStore — items in a database

The committed `table` and, for every request, its place, the row it loaded and
the row it has written or locked but not committed (`pending`). PostgreSQL is
READ COMMITTED: a statement sees what is committed when it runs, and waits for
whoever holds the row it writes (`RowHolders`) or has a claim on the name it wants
in the unique index (`NameHolders`). An UPDATE is two steps (`Lock`, `Update`), a
deadlock is resolved by `Deadlock`. `Answer` comes before `Commit`:
`get_session` commits after its yield, which FastAPI resumes when the response is
sent. `Fail` and `CommitFails` are lost connections and cancellations before and
after the answer. `ItemStoreProperties` states the properties.

### 2.7 RequestPipeline — a request from the front end to the commit

The stack that `create_app` builds, a request that passes it, and `apiFetch`, which
waits for the answer. `BaseHTTPMiddleware` runs what it encloses in a task of its
own, so a request is two tasks (`outer`, `app`): the outer one relays an answer as
soon as it is offered, the inner one goes on to its commit.

| Code | Definitions |
|---|---|
| `add_middleware` in `main.py` | `create_app`, the layers from the outermost in; `Passes`, `Sent`, `dispatch_metrics` follow from it |
| `api/errors.py`, `exceptions.py` | `AppError`, `Handled` and the `handle_...` operators; what nobody handles goes to `Fail` |
| `RequestContextMiddleware.dispatch` | `Enter`, `Relay`, `Fail`, `FailLate`, with `bind_request_id` and `clear_request_context` |
| `api/v1/deps.py`, `core/security.py` | `rate_limit`, `get_current_subject`, `decode_access_token`, `Call` |
| a handler and `get_session` | `Work`, `HandlerReturns`, `HandlerRaises`, `Commit`, `CommitFails`, `rollback` |
| `apiFetch` | `apiFetch`, `Hidden` (a browser hides an answer without CORS headers), `abort` |

### 2.8 ApiRollout — processes of the API and their Deployment

The lifespan (`Startup`, `Resume`, `Close`, `CloseRaises`, `Exit`) with what a process
has `open`: engines, cache, HTTP client and tracer from the start, the queue's client
from the first `enqueue`. `_enforce_production_safety`, and the step that `raises` if one does, decide whether a process starts, and
`readyz` what its `Probe` finds in an outage. Around them the Deployment replaces
`Old` pods with `New` ones under `maxSurge` and `maxUnavailable` (`Create`,
`mayDelete`, `Delete`), sleeps in `preStop`, sends SIGTERM and, after the grace
period, SIGKILL. `endpoints` is what those who route requests know; it lags (`Route`).

### 2.9 ItemListing — pages, a replica and the seed

The committed rows as a `log` of transactions, of which the replica has `applied` a
prefix. `Begin`, `Select`, `Flush`, `CommitAll` are `scripts/seed.py` (a create of the API
is a writer of one name), with the unique index as in `ItemStore`; a row's `born` is the time
its transaction began, as `created_at` is. A reader goes from page to page (`ListRows`) by
the total (`ListCount`), two statements with a snapshot each.

The `MC...` modules hold the instances: which requests there are, which worker
has which handlers, which versions are rolled out.

## 3. What TLC checks

| Run | Instance and bounds | What it shows |
|---|---|---|
| `queue_faults` | 2 jobs, 2 workers (one an older image without a handler for `j2`), 3 host names, 2 attempts, 1 Redis error, 1 signal | a job is never in two places and never runs twice at once; a running job is listed; attempts are backed by failures; nothing is lost but in the one gap; a graceful stop leaves nothing behind; the implementation of `JobLifecycle`, which says among other things that nothing returns; the queue is worked off, jobs that meet only crashes settle, SIGTERM ends the process |
| `worker_probe` | ticks of 5 s, the values of the manifest, handlers up to 30 s | whom the probe ends, and when; what SIGTERM leaves time for |
| `http_client_safety` | 2 GETs and a POST, threshold 2, cooldown 2, 1 retry, 5 ticks | how often a request is sent, who is active while the breaker is open |
| `rate_limiter_safety` | 5 requests, limit 1, window 2, 4 ticks, 2 faults | `Retry-After` is honest, nobody is refused early, at most twice the limit passes in the span of a window |
| `cache_aside_stampede` | 3 tasks of one process, 1 of another, 2 faults, 1 eviction | the factory runs once per process and fill, everyone ends |
| `items` | a create, 3 patches, 2 deletes, a read; 2 rows, 2 names, 2 texts; 1 fault | unique names, one delete wins, refusals change nothing, patches touch only what they send, nobody waits for ever |
| `request_pipeline` | 2 requests, each of 14 kinds (creates, guarded creates with 7 tokens, reads, preflights, paths nobody has, methods a path has no route for, `/metrics`), from browsers and services, with ids given and not | an `ApiError` means that nothing was or will be written; each request is counted once, under the status that is sent; no answer and no log line has the id of another request |
| `api_rollout` | 2 old pods, 2 new ones of one of 6 versions (one good), surge 1, `preStop` 2 and grace 4 ticks, a lag of 1; 1 request, 1 outage, 1 close that raises | nobody is refused, a version that cannot serve never takes over, nothing is closed under a request or left open |
| `item_listing` | 2 seeds of the same 2 names, a create, a reader with pages of 1 on a replica; 2 events out of lost connections, re-runs and deletes | a seed is all or nothing, pages miss nothing |

Why these bounds suffice. In the queue two workers give every pair of
places, and the third host name one replacement; two jobs are needed for one to
overtake another, two attempts for a retry and a dead letter. One error and one
signal at any step, in either order and on either worker, reach every gap between two
commands; two errors or two signals in one behaviour are left to the theorems, which cover
the safety properties for any number. Threshold 2 and
three requests let one request in flight succeed or fail after the breaker has
opened and after its cooldown. With limit 1 and window 2, five requests fill two
counters, with their refusals. Three tasks give a lock a holder and a line of two,
and the fourth, in another process, fills the cache between them. In `items` every
pair of operations meets on one row, the renames cross (the deadlock), and the create races
with a rename to its name. Two requests give `request_pipeline` every pair of kinds in
every order: what one could do to another goes through the shared context or the log.
In `api_rollout` two pods and a surge of one make the steps of a rolling update with
nothing to spare; only the order of `Lag`, `PreStop` and `Grace` matters
(`Lag < PreStop < Grace` is assumed, see section 5), and one request decides for each,
since requests do not see each other. In `item_listing` pages of one row make every move
of a row move it across a page; three rows, two seeds and a create give rows of one transaction, of
two that overlap, and a late commit of an early one.


In `worker_probe` a tick is 5 s: `Block` 1
(`block_seconds`), `MaxBackoff` 6, `InitialDelay` 3, `Period` 2, `Stale` 6 and
`Grace` 12 are the values of the worker and its manifest; 3 failures are the default of Kubernetes.
`Reply` and `MaxHandler` are ours: Redis answers or the client raises within
5 s, and handlers of 30 s are the longest for which `NoJobInterrupted` holds. Section 5
has what follows for longer ones.

### Disagreements between code and words

Each of these runs checks one sentence of the repository and ends in a counterexample.

| Run | The sentence | What happens |
|---|---|---|
| `queue_gap` | "a crash or SIGKILL can't lose it" (`workers/worker.py:5`) | a failed job is removed with LREM, and pushed only then; a kill in between loses it |
| `items_reread` | create, then read, is 200 (`tests/test_items.py:10-18`) | the 201 is sent before the commit; a quick GET is told 404 |
| `http_client_cooldown` | the breaker "stays open for ``cooldown``" (`core/http_client.py:29`) | a retry, which does not ask it, or a request sent before it opened, succeeds and closes it; the next request goes out within the cooldown |

Other sentences that the models deny have no run of their own:

* "Every line carries `request_id`" (`docs/guides/observability.md:7-8`), "every line tagged with the
  request ID" (`ARCHITECTURE.md:200-201`), and the X-Request-ID on the response in the diagram
  (`ARCHITECTURE.md:124`). The answer to an unexpected exception has the id in its body only, and its
  `unhandled_exception` line has none (`Fail`, `FailLate`): ServerErrorMiddleware, which calls
  `handle_unexpected`, is outside of RequestContextMiddleware, which has cleared the context by then.
  `OwnIdOnly` names these two places and allows the own id or none there.
* The comment at `main.py:33` calls the layers "outermost first"; `add_middleware` makes the reverse.
  With the order of the comment (`asCommented`) answers would go uncounted.
* "no dropped requests" (`docs/guides/deployment.md:48`). A request that runs longer than the grace period
  less `preStop` is lost (`Sigkill`). What holds is that none is refused (`NeverRefused`).
* "on restart the worker requeues its own processing list" (`workers/worker.py:6-7`) is true of a container
  that is started again in its pod. A pod that replaces another has a new name, and nobody requeues what is
  in the list of the old one (`Stuck`).

### Fairness

* `JobQueue`: a container that is down is started again (Kubernetes), a running
  process takes its next step and handlers return (`WF` on `Start(w)` and
  `Work(w)`), and Redis ends a BLMOVE after its timeout (`WF` on `LateTimeout`).
  Errors and signals are finitely many and never obliged. A handler that hangs is the
  subject of `WorkerProbe`.
* `CacheAside`: the event loop runs a task that can run, factories return and
  Redis answers or times out after `socket_timeout` (`WF` on `Run(t)`). The lock is
  first come, first served, as `asyncio.Lock` is.
* `ItemStore`: some request that can go on does (`WF` on `\E r : Serve(r)`).
  This is weaker than fairness to each request; it is enough because requests end.
* `HttpClient`, `RateLimiter`, `WorkerProbe`, `RequestPipeline`, `ApiRollout`,
  `ItemListing`: safety only. Bounds on time are states of their clocks
  (`WedgedIsReplaced`), not liveness. `RequestPipeline` and `ItemListing` are
  checked for deadlock, with `Finished` as the one end; a rollout may
  stop where a version is not promoted, so `api_rollout` is not.

## 4. What TLAPS proves

All theorems hold for every value of the constants that satisfies the named
assumptions, which TLC evaluates on every run. `MaxErrors`, `MaxSignals`,
`MaxFaults`, `MaxEvents` and `MaxTime` are arbitrary numbers there. Every invariant and every
action property that a run checks is proved, and the refinement. `ItemProofs` has the proofs
about both models of the items, which share no name; for every other model with theorems
there is a module of its own.

| Theorem | States | Inductive invariant |
|---|---|---|
| `JobQueueProofs!TypeCorrect` | `TypeOK` | itself: a worker holds a message exactly inside `handle_job` |
| `JobQueueProofs!AttemptsBackedAlways` | `AttemptsBacked` | `AttemptsInv` |
| `JobQueueProofs!NothingElseIsLost` | `NoOtherLoss` | `ConservationInv` |
| `JobQueueProofs!JobsRunExclusively` | `ExclusiveExecution` | `PlacesInv` |
| `JobQueueProofs!GracefulStopStrandsNothing` | `NothingLeftBehind` | `PlacesInv`, `LeftInv` |
| `JobQueueProofs!QueueImplementsLifecycle` | `ImplementsLifecycle`, the refinement of `JobLifecycle` | `PlacesInv`, `AttemptsInv`, `ConservationInv` |
| `WorkerProbeProofs!TypeCorrect` | `TypeOK` | `Numbers`, `Places` |
| `WorkerProbeProofs!JobsFinish` | `NoJobInterrupted`, if `LoopTime < Grace` | `EndsInTime` |
| `WorkerProbeProofs!ProbeSparesWorkers` | `OnlySlowTurnsAreStopped` | `StrikesAreSlow` |
| `WorkerProbeProofs!HungLoopsAreReplaced` | `WedgedIsReplaced` | `Replaced` |
| `HttpClientProofs!TypeCorrect` | `TypeOK` | `Functions`, `Clock`, `Counted`, `WakeTyped` |
| `HttpClientProofs!SendsBounded`, `CooldownAdmitsNothing` | `SentAtMost`, `OnlyOldRequestsWhileOpen` | `Counted`, `Clock` |
| `RateLimiterProofs!TypeCorrect` | `TypeOK` | `CountedOnce` |
| `RateLimiterProofs!RetryAfterIsHonest`, `NobodyRefusedEarly` | `RetryAfterSuffices`, `RefusedOnlyBeyondLimit` | `CounterExpires`, `CountedOnce`, `NoGap`, `RefusedBriefly` |
| `RateLimiterProofs!WindowAdmitsTwiceLimit` | `AtMostTwiceLimit` | `SpanInv` |
| `CacheAsideProofs!TypeCorrect` | `TypeOK` | itself: who is inside is at the head of the line |
| `CacheAsideProofs!ComputedOnce` | `ComputesOncePerProcess` | `TypeOK`, `Stored` |
| `ItemProofs!TypeCorrect` | `TypeOK` | `Typed`, `Answered` |
| `ItemProofs!NamesStayUnique`, `DeletedOnce`, `RefusalsChangeNothing` | `UniqueNames`, `OneDeleteWins`, `RefusedChangesNothing` | `Typed`, `UniqueNames`, `OneHolder`, `Places`, `Ends`, `Gone` |
| `ItemProofs!PatchesKeepTheRest` | `OmittedFieldsUntouched` | the same, and `Patched` |
| `ItemProofs!SeedSafe`, `PagesComplete` | `SeedAllOrNothing`, `PagingMissesNothing` | `ListTyped`, `LogOK`, `WriterOK` of each writer, `Apart`, `ReaderOK` of each reader |
| `RequestPipelineProofs!TypeCorrect` | `TypeOK` | `Parts` |
| `RequestPipelineProofs!ErrorsWriteNothing`, `AnswersAreCounted`, `IdsAreOwn` | `ApiErrorMeansNothingWritten`, `CountedAsAnswered`, `OwnIdOnly` | `InvOf` of each request, `LineOK` of each line |
| `ApiRolloutProofs!NobodyIsRefused`, `ProcessesEndCleanly` | `NeverRefused`, `CleanShutdown` | `PodInv` of each pod: `Kept`, `Proven`, `Routed`, `Opened` |
| `ApiRolloutProofs!CapacityIsKept` | `CapacityKept` | the same, and itself |

The arguments:

* **Attempts.** The bound on listed messages is not inductive, because `Requeue`
  pushes what a worker holds. `AttemptsInv` bounds the held messages as well: what a
  worker holds was backed when it was fetched, `failures` never falls, and the
  handler's failure is counted before LREM. Neither it nor conservation
  uses that host names differ.
* **Conservation.** A job leaves a list through LREM, LMOVE or BLMOVE. The moves keep
  it. An LREM takes one message of the id it acknowledges, drops or fails, and each of
  these has left a trace: `ConservationInv` says that a worker at `ack` holds a job
  in `succeeded`. The LREM before a retry passes it into the worker's hands
  (`InHands`), and `abandoned` names those it falls from. The module begins with what
  `RemoveFirst` and `Append` do to the set of a list's elements.
* **Places.** `ExclusiveExecution` says that a job is in one place; to be inductive it needs what
  the places are and who owns them. `PlacesInv`: no list has two messages of a job, `Places(j)` (the
  queue, a processing list, the dead, a worker's hands between LREM and RPUSH) has one member at most
  (`OnePlace`), a job that was not enqueued, was dropped or is lost has none (`GoneOrNew`), and no two containers have
  one name (`OwnHosts`). So what a worker works on is in its own list (`HeldListed`),
  and two workers at one job would make two places. This rests on `HostNamesAssumption`: the names
  that the containers start with differ; `Replace` gives new ones.
* **A graceful stop.** `LeftInv` says for each place of the loop what the worker's list has: nothing, or the one
  message it works on. While no command has failed no BLMOVE comes late, so nobody else fills it.
* **Refinement.** The phase of a job is a function of its one place and of the history
  (`PhaseByPlaces`). Each action moves at most one job; what the abstract step needs of it is
  in `AttemptsInv` (the dead have failed often enough) and `ConservationInv` (what was
  acknowledged has succeeded). Every other step leaves all phases as they are.
* **The worker's clock.** `EndsInTime`: what is left of a place, plus what the places
  after it may take, is less than the grace that is left; SIGTERM starts with all
  of it, and the while test lets no turn begin after. `StrikesAreSlow`: failures are
  a `Period` apart and the first finds a stale file, unless the loop has had a turn
  since; so `strikes` of them take their time. `Replaced` is the converse: from a
  turn on, `turn + next + ` the periods of the failures still needed stays within the
  budget, and after SIGTERM `turn + grace`. Both are sums that a tick leaves alone.
* **Breaker.** `Counted` ties sends, attempts and the place of a request together.
  `Clock`: no request began in the future, so a failure that starts a cooldown now
  starts it after every request in flight.
* **Rate limiter.** `CountedOnce` says which requests were counted, `NoGap` that the
  numbers a counter has given out form an unbroken row from 1, so whoever has a number
  above `Limit` has others at 1 to `Limit`. `RefusedBriefly`, with `CounterExpires`: the
  counter that refused someone ends within a window of the refusal. `SpanInv`: counters
  that are two apart count moments at least a window apart (`Apart`), and those whom one counter let pass
  have different numbers up to `Limit` (`Numbered`). So whoever passed within one span belongs to
  one of two counters, and the pairs of counter and number map them one to one into `1 .. 2 * Limit`.
* **Requests.** `InvOf(r)` speaks of one request only: `InnerOf` says that an error which
  is offered ends the inner task and that only an offered success is committed, `OuterOf`
  that what is sent is what was offered or the 500 of an exception that had ended the
  inner task, `CountedOf` that it was counted once, `ContextOf` that both contexts hold the
  request's id while it waits. So a step of one request leaves the others' parts
  alone (`OthersKeep`), and the log only grows by lines that are right (`LinesKeep`).
  The order of the layers enters through two lemmas, `InsideIsSeen` and `OutsideIsNot`.
* **Items.** A commit keeps names unique because no two requests hold one row or want
  one name, and no committed row has a name that a request wants (`OneHolder`). `Places`
  says what each place implies of the row, so that a held row cannot vanish. `Ends`:
  what was committed was answered with success, and a deleted row stays deleted; `Gone`: only a
  committed delete takes a row away, so a 404 speaks of one. `Patched`:
  the row that a patch holds differs from the committed one only in the fields it was sent, and
  nobody else can write it in between.
* **Seeds.** `SeedAllOrNothing` speaks of the table after every commit, so `LogOK` does: a commit leaves the
  earlier tables as they are (`RowsAppend`). What makes the next one right is `OpenOK` of each transaction:
  it holds names that neither the last table nor another open transaction has (`Apart`), and
  each of its names is still to come, held, or was inserted by someone. Its rows bear the time of its own beginning, which no
  row of the log has (`Unlisted`), so nothing of it is there before it commits.
* **Pages.** `Ahead`: a row that the client has not seen, and nothing excuses, has at least `offset` rows before it in
  the table that is read now, where rows that begin earlier may have appeared at any place. Without deletes the tables only
  grow (`RowsStay`), and with them this number (`RankGrows`); a page that leaves the row out is before it as a
  whole (`PageThenAhead`), so the number keeps up with the offset. A client that stops has an offset that no
  row of the table has as many rows before (`RankBetween`): it has seen them all.
* **The lock of the cache.** A line is joined at its end and left from anywhere (`Joins`,
  `Leaves`), and its head stays its head for as long as it stands there; so two tasks inside would both be the head.
  What a process has stored is in the cache until it is evicted (`Stored`), and who begins to compute has just
  found nothing there.
* **Rolling updates.** `PodInv(p)` speaks of one pod. `Routed`: whoever is routed to was deleted at most `Lag`
  ago, so `preStop` is not over and it listens. `Opened`: what requests need is open as long as there are
  requests, and `Close` goes on until only the tracer is left, which ends with the process. `Proven`: a new pod
  that was ready runs a version that works, since outages only make `/readyz` fail. For the capacity,
  only `Delete` takes a pod out of those that serve, and it counts the old pods and the new ones that were
  ready, which all serve and work. This needs that the old version does (`RunningAssumption`).

### Model-checked only

* Liveness (`ComesToRest`, `EveryJobSettles`, `StopsOnTerm`, `EveryCallEnds`,
  `EveryRequestEnds`): out of the prover's reach.

## 5. Limits worth knowing

These follow from the models, beside the disagreements of section 3.

* **A lost BLMOVE reply.** If Redis moves a job and the reply is lost, the loop
  goes on with the next, and the job stays in the worker's list until
  the process restarts and recovers it. `ComesToRest` says so (`Stuck`).
* **HOSTNAME.** The name falls back to `"local"`. Two workers with one name share a processing list,
  and recovery of the one requeues what the other is working on. The models
  assume names that differ, as the deployments provide (`OwnHost`). In a Deployment a
  replaced pod has a new name, so the job its predecessor left in the old list stays there
  (`Stuck`).
* **Slow handlers.** Reply times and the poll take up to 25 s of a turn in the worst
  case (LLEN, BLMOVE with its block, LREM and RPUSH), so with a grace period of 60 s a handler of 35 s and more
  may be killed on a deployment when Redis is slow too. The probe ends a container whose
  loop has had no turn for 50 s (or 35 s after its start), which a handler,
  or a slow turn and a back-off of 30 s, can reach without a hang.
* **The breaker** is asked once per request: a retry goes out while it is open.
* **A PATCH to a taken name** is a 500 (`uncaught` in `ItemStore`): only the create turns
  the `IntegrityError` into a 409.
* **The window** of the rate limiter is fixed: `2 * Limit` requests can pass within the time
  of one window, around the edge of two counters.
* **Unexpected exceptions.** Their handler is run by Starlette's own ServerErrorMiddleware,
  outside of every layer that `add_middleware` adds. Such a 500 has no CORS headers either, so a browser
  does not show it to the script, nor the id in its body (`Hidden`).
* **Success before the commit.** Metrics and the access log count a 200 whose commit then
  fails; what is logged for it is an `unhandled_exception` without an id. An `AbortError` tells nothing about the write.
* **A path that nobody has**, or a method that a path has no route for, gets FastAPI's own
  404 or 405, not a problem document.
* **A delete whose commit fails** was told 204 before. So two clients can be told 204 for one row, when the
  first deletion came to nothing; after a deletion is committed nobody else is (`OneDeleteWins`).
* **Seeds against creates.** In `item_listing` the create has a name of its own; a seed and a create that
  want one name are covered by the theorem `SeedSafe`, for any writers and names.
* **Offset pages.** A delete between two pages moves a row onto the page already read.
  Rows of one seed share `created_at`, so their order, and with it the pages, is not fixed.
* **Start and shutdown.** A close that raises leaves the rest open until the process ends
  (`failed`), and a step of the start that raises what the steps before it have made
  (`made`; it is outside of the try at `lifespan.py:42`). `NeverRefused` rests on `Lag < PreStop`: whoever learns of
  a deletion after more than the five seconds may send to a pod that no longer listens.
* **Readiness.** `/readyz` shares its pool with the requests; a busy pod may fail its probe
  without an outage. Such probes, and an outage of a shared dependency that takes all pods out of
  service at once, are not what `CapacityKept` is about: it counts pods that serve.

## 6. Not modelled, and why

* *Inside libraries.* redis-py may send a command again after a connection error,
  depending on its version and settings; httpx's kinds of error; PostgreSQL's
  waits beyond rows and unique keys. The models take their outcomes only.
* *A connection that is silent for ever.* The worker passes no `socket_timeout` to its
  client (so that BLMOVE is not cut off, `cache/redis.py:113-114`). `WorkerProbe`
  bounds a reply by `Reply`; for the probe, a silent connection is like a handler that hangs (`Wedge`).
* *Redis losing data* (failover, eviction), *malformed jobs* that parse to something that is no
  object.
* *The memory cache* of tests and local development. *Stale fills of CacheAside*: that model does not
  tell values apart, so a value that is deleted while its factory runs is not followed.
* *Sizes of pools* (httpx, Redis, PostgreSQL) and what waits for a connection of them.
* *Probe time-outs and jitter* of the kubelet.
* *Autoscaling*, the liveness probe of the API and crashes of its processes; `docker-compose.yml`.
* *Pure code*: signing of tokens, the rendering of log lines, the duration
  histogram, spans; the web pages; *generated code* (the API contract); *scripts and tests*;
  *schema migrations*, which run alone before the service starts.

## 7. Plan

1. *(done)* JobQueue with JobLifecycle, its invariants and first theorems;
   WorkerProbe; HttpClient; RateLimiter; CacheAside; ItemStore.
2. *(done)* RequestPipeline with its theorems; ApiRollout; ItemListing.
3. *(done)* Proofs: `ExclusiveExecution` for host names that differ, `NothingLeftBehind`, the
   implementation of `JobLifecycle`; the lock of `CacheAside`; `AtMostTwiceLimit`; `ApiRollout`;
   the action properties of `ItemStore`; seeds and pages in `ItemListing`; all type invariants.
4. **Caches**: an abstract cache that the memory cache and the Redis cache both
   implement, and with it how long a stale fill may live.
