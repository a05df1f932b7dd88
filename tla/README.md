# A TLA+ model of the SaaS boilerplate

The repository is a monorepo: a Next.js app (`apps/app`), a Fastify API
(`apps/api`), a Python AI worker (`apps/ai`), Postgres through Prisma
(`packages/database`), Redis, and shared packages. Most of it is thin glue over
libraries. Three parts have behaviour that is hard to get right, and are modelled:
the asynchronous AI job pipeline, in most detail; the accounts with the session
that a browser keeps of them; and the API process around its handlers.

## Inventory

| Component | Source | State it keeps | Operations |
| --- | --- | --- | --- |
| AI job API | `apps/api/src/services/ai-jobs.ts`, `routes/v1/ai` | none of its own; each request holds what it read before its last `await` | `POST /jobs`, `GET /jobs/:id`, `GET /jobs` |
| AI result cache | `services/ai-cache.ts` | Redis keys `ai:cache:<type>:<hash>` with a TTL | get, set; `invalidate` has no caller |
| AiJob table | `packages/database/prisma/schema.prisma` | one row per job: status, attempts, result, error, unique key | the inserts of the API, the updates of `db.py` |
| Job stream | `apps/ai/app/queue.py`, `enqueue()` | Redis stream `ai:jobs`, group `ai-workers`, its pending list | XGROUP CREATE, XADD, XREADGROUP, XAUTOCLAIM, XACK |
| AI worker loop | `apps/ai/app/worker.py` | the batch in hand, `attempts` of the claim, `_running` | claim, process, mark, ack, retry |
| Processors | `apps/ai/app/processors` | none | deterministic stubs, one per type |
| Entrypoint, probes | `apps/ai/app/entrypoint.py`, `main.py` | a daemon thread for the loop | `/health`, `/ready`, `/internal/jobs/:id` |
| Redis plugin | `apps/api/src/plugins/redis.ts` | a client, or null without `REDIS_URL` | boot, close |
| Accounts | `services/authentication.ts`, `authorization.ts` | User rows; signed tokens | register, login, token check, `/users/me` |
| Browser session | `apps/app/src/features/auth`, `lib/auth.ts`, `lib/store.ts`, `proxy.ts` | redux, localStorage (redux-persist), sessionStorage, a cookie | login, register, logout, route guard |
| API process | `server.ts`, `index.ts`, `app.ts`, `plugins/rate-limiter.ts`, `routes/v1/actions.ts` | plugins loaded, requests in flight, the limiter's counters (in Redis, or its own) | start, graceful close, rate limit, health |
| Sidebar | `packages/ui/.../sidebar.tsx`, `use-mobile.tsx` | open flags, cookie, viewport | toggle, shortcut, resize |
| Everything else | UI components, configuration, generated code, deployment | - | not modelled; see `PROJECT.json` |

How they meet. A request inserts a row and adds a message; a worker takes the
message, updates the row and acknowledges. The row and the stream are shared by
all API processes and all workers, and no step spans both: every behaviour worth
a model comes from that. The cache is written by GETs and read by POSTs.
The web app calls two routes of the API, register and login, and keeps what a
login returns in four places: the redux slice of the tab, sessionStorage,
localStorage (through redux-persist) and a cookie; `proxy.ts` looks at the cookie,
the dashboard at the slice. All API replicas share Redis, for the queue, the cache
and the counters of the rate limit.

What is hard: redelivery while a slow worker still works; failures between two
calls, with and without the first having taken effect; crashes with a batch in
hand; a Redis that may drop the stream; racing requests with one idempotency
key or one address; reloads, tabs and timers between four copies of one session;
a SIGTERM or a Redis outage with requests in flight, whose clients may have hung up.
`PROJECT.json` lists each hazard at its line with the properties on it.

## Modules

| Module | Models |
| --- | --- |
| `AiContracts` | job types, statuses, cache keys, which result belongs to which payload, what jsonb does to a payload |
| `Environment` | the kinds of faults and a budget for them |
| `AiJobTable` | the AiJob rows, one operator per SQL statement |
| `JobStream` | the stream, its group and pending list, one operator per Redis command |
| `AiCache` | the result cache |
| `AiJobsService` | POST and GET handlers, one action per `await` |
| `AiWorker` | the worker loop, one action per network call |
| `AiPipeline` | the composition, its fairness and its properties |
| `AiJobLifecycle` | the abstract specification: what a client is promised of a job |
| `AiPipelineProofs`, `AiPipelineResults`, `AiPipelineDelivery` | theorems and proofs of the pipeline: types and acknowledgements; results and keys; who holds a message, what is owed, how many attempts faults can cost |
| `AiPipelineRefinement` | the proof that the pipeline implements `AiJobLifecycle` |
| `AccountCalls` | what calls to the accounts may ask for |
| `Accounts` | register, login, token check and `/users/me`, one action per `await` |
| `AccountRegistry` | the abstract specification of the accounts: every call answered in one step |
| `AccountsProofs`, `AccountsRefinement` | theorems and proofs of `Accounts`, and that it implements `AccountRegistry` |
| `Session` | the session of the web app in the tabs of a browser and its three stores |
| `WebApp` | the composition of `Session` and `Accounts`: forms send calls, answers move the session |
| `WebAppProofs` | theorems and proofs of `WebApp`, on top of those of `Accounts` |
| `ApiServer` | the API process in several replicas: start, stop, rate limit, health, the Redis client |
| `ApiServerProofs` | theorems and proofs of `ApiServer` |
| `MCAiPipeline`, `MCAccounts`, `MCWebApp`, `MCApiServer` | values of the constants for TLC |

`AiJobsService` and `AiWorker` both extend `AiJobTable`, `JobStream` and
`Environment`, and `AiPipeline` extends both, so `job` and the stream's variables
are the shared state. A component's action leaves its own variables to itself
and names the shared ones it keeps; `AiPipeline!Next` adds `UNCHANGED` for the
variables of the other side.

### State and code

* `job` is the table: a function from ids in use to rows. An id is the request
  that created the row. `finished` stands for `finishedAt`, `error` for the
  presence of an error text.
* `log`, `group`, `last`, `pel` are the stream, the group, its last-delivered id
  and its pending list. `idle` is the part of `pel` older than `claim_idle_ms`.
  `evicted` counts messages lost with the stream.
* `worker[w]` is where a loop stands (`pc`), the message and rest of the batch it
  has in hand, the `attempts` that `mark_running` returned, and `_running`.
* `request[r]` is where a POST stands; `polled[u]` is the cache entry a GET is
  about to write. Many API processes are no different from many requests.
* A payload is one of a few texts; `Jsonb` maps a text to the one Postgres gives
  back (members reordered). The cache hashes the first and the second.

* `user` is the User table; an id is the registration that created the row. A
  password stands for its hash (bcrypt is taken to be exact). `call[c]` is what a
  request to the accounts asks for, where its handler stands, the row it has in
  hand, and for a check the login its token came from; `expired` holds the
  logins whose token is past its `exp`. `LowerCase` is `toLowerCase()`.
  `VerifyToken` also covers a request without a token, or with a wrong one.

* `tab[t]` is a tab: its page, the redux slice (`auth`: `loading` and the token,
  which stands for the user as well), the call its form waits for, whether
  PersistGate has let it render, a `router.push` on its way, and whether
  redux-persist has yet to write. `session[t]`, `stored` and `cookie` are
  sessionStorage, localStorage and the cookie. A token is named by the login it
  came from. `torn` records that a page was left before its slice was written.
  `sent` holds the calls of forms; only those run in the API.
* `replica[r]` is where an API process stands, `client[r]` its ioredis client,
  `request[q]` a request with its replica, its address, whether its client still
  waits, and from `QueryDatabase` on its kind: `login` stands for the routes that need
  Postgres only, `enqueue` for those that need Redis as well. A handler whose client
  hung up runs on without a connection; what it answers is `unseen`. A closing server
  waits for its connections (`Connected`), not for its handlers (`Active`).
  `count` holds the limiter's counters, in Redis and in each process; `up` says
  which of Postgres and Redis answer; `redisUrl` whether `REDIS_URL` is set.
  `admitted` and `losses` are histories that the limit is stated with.

### Faults

A faulty step spends one of `MaxFaults`. A call may raise with no effect (`db`,
`redis`) or after its effect (`dbReply`, `redisReply`); in the worker the
exception goes where the code sends it: into the except clause from inside the
`try`, else out of the loop. `crash` and `stop` are a kill and a SIGTERM (the
latter only reaches `stop()` when the worker runs as `python -m app.worker`;
under `entrypoint.py` a SIGTERM is a `crash`). `slow` lets a message grow idle in
the hands of a live worker. `evict` loses the stream (allkeys-lru, emptyDir).
`resend` is ioredis repeating a command whose answer a broken connection took: an
XADD of the queue, or the increment of the rate limiter. A process that ended is
restarted; a loop that died of an exception is not, since its process lives on
and its probes stay green. In the browser `net` loses an answer and `quick` leaves a
page within the timer tick that redux-persist writes after. In `ApiServer` `slow`
lets requests outlast the grace delay of a shutdown and `evict` loses the
limiter's counters; outages of Redis and Postgres and clients that hang up are no
faults there but plain steps, any number of them.

## Runs

The pipeline runs use two users, one idempotency key, a payload in two spellings and one
payload its processor raises on. Bounds that are not named here do not exist:
statuses, attempts and message ids are bounded by what the faults allow.

| Run | Bounds | Shows |
| --- | --- | --- |
| `pipeline_faults` | 2 requests, 2 workers, batches of 1, any 2 of the 9 kinds of faults a pipeline knows | `TypeOK`, `AckedOnlyWhenSettled`, `StatusTellsTruth`, `ResultsAreOfTheirJob`, `SameKeySameJob`, `ExtraAttemptsAreFaults`, `ResultIsKept` |
| `pipeline_refines` | the same with 1 fault | `ImplementsLifecycle` |
| `pipeline_reliable` | 2 requests, 2 workers, batches of 2, 2 faults; no `slow`, `redisReply`, `evict` | `NoStrandedJob`, `OneHolder` |
| `pipeline_live` | 2 requests, 2 workers, batches of 2, 1 of `crash`, `stop`, `resend`, `db` | `EnqueuedJobsFinish`, and no deadlock |
| `succeeded_is_final` | 1 request, 1 worker, 1 `redis` | violated: the ack is inside the `try` |
| `failed_attempt_is_retried` | 1 request, 2 workers, 1 `slow` | violated: a late failure re-opens an acknowledged job |
| `accepted_is_enqueued` | 2 requests, 1 `redis` | violated: the POST of r1 fails at Redis after its insert; a second one with its key is answered 202 with that job, which is on no stream and which no open request will enqueue |
| `accounts` | 4 calls, 1 address in 2 spellings, 2 passwords, 2 of `db`, `dbReply`, `crash` | `TypeOK`, `RegisteredOnce`, `TokensNameTheirOwner`, `RegisteredCanLogIn`, `ImplementsRegistry` |
| `existing_user_is_refused` | 2 calls, no faults | violated: an account registered with capitals is missed by the lookup of a later registration and by the unique index, and the address is registered again |
| `web_app` | 2 tabs, 3 calls, 1 of `net`, `quick`, `crash` | `SessionTypeOK`, `OneCallPerTab`, `SessionsAreEarned`, `CopiesAgree`, `NoSessionComesBack` |
| `login_form_unlocks` | 1 tab, 1 call, no faults | violated: a reload during a login leaves the forms disabled for good |
| `api_server` | 2 replicas, 2 requests of 1 address, a limit of 1, 2 of `crash`, `slow`, `evict`, `resend` | `TypeOK`, `LimitIsShared`, `OnlyFaultsCut`, `ShutdownsFailNothing`, `EveryRequestEnds` |

Why the bounds are enough. Two requests give every race on the key and on the
cache; two workers every race on a row, since a row's updates are made by the
holders of its messages and a third holder needs a third message or a second
redelivery. Four calls give two racing registrations with a login and a check
of its token, and three registrations with a login; with three calls in two tabs a
registration, the login it makes right and a wrong one meet in every order, and a
second tab is enough to overwrite what the first one stored. Two requests race
for a limit of one, the second replica is where the first one's restart must not
show, and outages are not bounded. Two faults reach a fault in the handling of a fault (an ack that
fails after a reclaim, a crash after a lost reply). Requests and workers are
interchangeable, hence the symmetry sets; `pipeline_live` uses none. The safety
runs turn the deadlock check off because a worker whose loop has died, with all
requests answered, leaves nothing to do: that is a state of the program. The same
is true of accounts all of whose calls are answered. `web_app` and `api_server`
never stop, since pages can be reloaded and processes restarted, and check it.

### Fairness

`FairSpec` asks for weak fairness of each worker's own steps (the loop never
waits for ever: reads block for `block_ms`), of the restart of an ended process
(the orchestrator's job), and of a message growing idle (time passes). Requests
and polls are not fair: a client or an API process may stop anywhere. Faults are
never fair. `EnqueuedJobsFinish` does not hold with Redis failures or lost
replies (`succeeded_is_final` shows why), and a `db` fault ends one of the two
loops for good: it holds as long as one is left.

`ApiServer!Spec` is weakly fair to the steps of requests in hand only: a handler of
a live process runs on, since every Redis command raises after three retries and
Prisma's statements end. Nothing else is owed: no client must send, no process
must start or end, and an outage may last for ever. A handler left on a closing
process either finishes or is cut by its exit. `Accounts` and `WebApp` state
no liveness: a call, or a user, may stop anywhere.

## What is proved

For every number of requests, users, workers, keys, payloads, batch sizes, and
for every set and number of faults, from the assumptions on the constants in
`AiContracts`, `AiJobTable`, `Environment`, `AiJobsService` and `AiWorker`:

* `TypeCorrect`: `Spec => []TypeOK`. The invariant is `TypeInv`: the types, that a
  message in a worker's hand was delivered and not lost since or names a row
  anyway, that a request past its insert has its row, and that without a group
  nothing is delivered. `TypeOK` alone is not inductive: `MarkRunning` of a job
  that is not in the table would break it.
* `NeverAckedEarly` and `StatusIsTruthful`: `SettledInv` adds what each control
  point of a worker knows of the row it works on (`Knows`): once past
  `mark_running` the row has at least the attempts the worker counted, before an
  ack it is settled. The knowledge survives other workers because rows only grow
  (`RowsGrow`): attempts never fall and results stay.
* `ResultsAreCorrect` and `ResultsStay`: `ResultInv` says that only payload texts
  that jsonb leaves alone are found in rows, in the cache, in a GET about to fill
  it and in a POST about to use it; with that a hit on the text as sent is a hit on
  the text as stored.

* `OneJobPerKey`: `KeyInv` says that no two rows share a key and that a request which
  has a row, its own or one it found, has one with the key it was sent with. Keys of
  rows never change (`KeysStay`), so what a request knows of its row stays true.
* `OneHolderAtATime` (`OneHolder`), assuming only that no worker is slow
  (`"slow" \notin Faults`). `HoldInv` adds that XAUTOCLAIM does not offer a message
  that is in hand (`Held(w) \cap idle = {}`) and that a batch has each message once
  (`Once`). A worker takes what was idle and then is not, or what nobody was given
  before (`Takes`); dying loops, lost replies and a lost stream only let go.
* `NoJobIsStranded` (`NoStrandedJob`), assuming `Reliable`: no slow workers, lost
  Redis replies or evictions. `failed_attempt_is_retried` is why the first is needed;
  a lost reply of an XACK, or of the stream, takes off a message with no one having
  seen the row final. `StrandInv` adds that what is in hand is pending
  (`HeldIsPending`). A worker comes to a point where it acknowledges only when the row
  is final (`WorkerAcks`); who takes a row out of a final status has a message for it
  in hand, alone by `OneHolder`, that it is not about to acknowledge (`WorkerReopens`).
  With `OneHolder` and `SettledInv` the two make it inductive (`StrandStepKeeps`).
* `ExtraAttemptsArePaid` (`ExtraAttemptsAreFaults`), under any faults, for any finite
  number of workers. That attempts exceed `maxAttempts` by no more than the faults so
  far is not inductive: one must also bound the attempts still to come. A slot is a
  message that can still begin an attempt or be redelivered after one: `Free`, owed and
  for anyone to take, or `Open` in a worker's hand, which excludes a worker that can
  only settle or acknowledge it. `Budget` says that below the limit a job has at most
  one slot more than there were faults, and at the limit attempts and slots together
  are paid for. A step of a worker passes slots on (`SlotsPass`, along the map
  `Goes`); the last regular claim uses its slot up (`ClaimSpends`); a closed message
  becomes free again only by a fault (`WorkerCloses`); a slow worker or a second XADD
  adds one slot and is a fault. The counts come from the cardinality facts of the
  library, hence the finite set of workers.
* `PipelineImplementsLifecycle`: the refinement `ImplementsLifecycle`, under any faults.
  An insert admits a job, an XADD promises it, `mark_running`, `mark_succeeded` and
  `mark_failed` begin, complete and fail an attempt, an XACK releases the job when it
  was the last message (`AckMaps`), a raise or a kill abandons the attempt, the
  eviction of the stream loses all that is owed; every other step stutters. `Release`
  asks for a settled job and `Fail` for used-up tries: the mapping needs `SettledInv`,
  which says what a worker knows when it acknowledges, and `TypeInv`. Each move has a
  lemma about one job's record (`Begins` to `Admits`), and each step one that shows
  the records of the other jobs unchanged.

About `Accounts`, for every set of calls, addresses and passwords and any
faults, from its assumption that `LowerCase` is idempotent:

* `AccountInv` says what each call knows where its handler stands (`Knows`): a
  registration that has not inserted has no row, one that is answered has the row
  it asked for; a login past its lookup holds a row with its address, and one past
  `compare` with its password; a check holds the login of its token and its row.
  With `UniqueEmails` and the types it is inductive. A step moves one call and adds
  at most that call's own row (`Moves`, `Inserts`), so what the others know stays
  true (`OthersKnow`) and each action need only show what its own call knows
  next (`StepKeeps`).
* `RegistersOnce`, `TokensAreTheirs` and `TypeCorrect` follow from it, and the
  action property `RegisteredLogsIn`: the one row a login of that address can
  find is the registered one, so only a failing statement turns it down.

* `AccountsImplementRegistry`: a refinement. A call of the registry is answered
  by the step that ends its handler: the insert of a registration, whether it
  succeeds or violates the unique key; the lookup or the comparison of a login;
  every other step stutters. `AccountInv` is what makes it true: the row a login
  compared with is still the account of its address, because rows are never
  changed and addresses are unique.

About `WebApp`, for every set of tabs and calls, from the same assumptions and
`SessionAssumption` (the mark of an empty localStorage is no slice):

* `WebInv` adds to `AccountInv` what the browser knows: a tab that waits has
  rendered and its `loading` is set (`OneCallPerTab`); a tab without a page is idle;
  every copy of a token is of a login that was sent and answered 200 (`EarnedInv`);
  and how the stores agree with the one tab in use, before and after it is
  rehydrated (`AgreeInv`). The last one is the strengthening that `CopiesAgree`
  needs: before REHYDRATE the slice agrees with sessionStorage, not with
  localStorage, and a page left in time leaves the two alike.
* `CopiesAreEarned`, `OneTabAgrees`, `OneCallAtATime`, `SessionTypeCorrect` follow,
  the first together with `AccountInv`; `SessionsStayGone` is an action property.

About `ApiServer`, for every set of replicas and addresses, a finite set of
requests, any limit and any faults (`ApiServerAssumption`):

* `ApiInv` has four parts besides the types. `ClientInv`: a process quits its Redis
  client when it closes and not before. `HandlerInv`: a request in flight is on a
  process that runs, possibly one that closes, but while its client waits on one that
  still serves. `CountInv`: a counter is at most the number of requests past the
  limiter and the faults so far, since a command that ioredis sends again is counted
  again. `LimitInv`: what Redis admitted is covered by its counter, or by one limit
  per loss of its data. `LimitIsShared` alone is not inductive: the counter has to be
  tied to what was admitted.
* `ServerTypeCorrect`, `LimitsAreShared` and `ShutdownsCutNothing` (`OnlyFaultsCut`)
  follow from it, and so does the action property `ShutdownsFailNone`
  (`ShutdownsFailNothing`): a request that fails at Redis on a client that has quit
  is one whose process closes, so nobody waits for it (`ErrorIsUnseen`).

Only model-checked: the liveness properties `EnqueuedJobsFinish` and
`EveryRequestEnds`, which are beyond the prover. Every other property of the passing
runs is stated by a theorem.

## Where code and documents disagree

The five violation runs; `PROJECT.json` quotes each line. More, found while
reading or modelling, have no run:

* Redis down is answered 503 with `AI_QUEUE_UNAVAILABLE` in the documents
  (`doc/features/ai-async-jobs.md:606`, `doc/practical-ai-lab.md:78`). The code
  answers 503 only without `REDIS_URL`; when a command raises the answer is 500,
  and the rate limiter raises first, on every route.
* For the same reason `redis: 'down'` in the answer of `/health` can only be seen
  when Redis fails between the limiter and the ping.
* "Worker must never crash the loop" (`worker.py:77`): only calls inside the `try`
  are kept from it; `reclaim`, `read`, `mark_running`, the ack of a job that cannot be
  claimed and the calls of the except clause are not.
* Two racing POSTs with one idempotency key: the loser of the insert is answered
  500, where `doc/features/ai-async-jobs.md:273` gives it the existing job.
* The idempotency key is global: a second user who sends a taken key is answered
  202 with a job that the GET then hides (404).
* `ACCESS_TOKEN_TTL=1d`, a form `doc/setup/environment-variables.md:81` gives, makes
  `Number()` return NaN and every login fail. The same table calls the variable not
  required, while `config.ts` refuses to start without it.
* `doc/practical-workflow-lab.md`, module 4, sends a registered user to the
  dashboard; the code pushes `/login`.
* `doc/features/authentication.md:23` and `doc/architecture/overview.md:77` have the app send its token as a
  Bearer header; no code of the app sends it.
* `apps/api/README.md:104` names `/api/v1/common/health`; the route is
  `/api/v1/health`.

## Not modelled

Wording, logging, timestamps, serialisation, validation of bodies (assumed),
payload contents, the poison-pill branch of `_handle_message` (`enqueue` always
writes both fields), Redis Cluster, retries inside redis-py (5.3.1 has none by
default). Nothing deletes users or jobs. In the browser: the back/forward cache,
duplicated tabs (which copy sessionStorage), the error text of the slice. In the
API: a Redis or Postgres that hangs without closing its connections (an outage means that
commands raise after their retries), a second signal during a shutdown, load shedding (`under-pressure`), requests
that reach no process. What the steps of a job's POST leave behind when its handler
is cut, by a crash or after its client hung up, is in `AiJobsService`, whose requests
may stop at any point. `CopiesAgree` is about one tab: a tab that was open before
another one logged in or out never hears of it, and nothing promises that it does.

The sidebar of the UI package keeps two open flags and writes a cookie that nothing
reads; it is presentation, as are the other components and pages. Of the 9,869
lines counted as implementation 5,138 are TypeScript types that Prisma generates
from the schema, 1,500 more are UI wrappers around Radix components, and much of
the rest is configuration and registration of plugins: none has a state to model.
What the map covers is the code that has.

## Plan

1. The pipeline, its abstract lifecycle, its first proofs. Done.
2. `Accounts` with its proofs, its abstract registry and the refinement, proved. Done.
3. `Session` and `WebApp` with their proofs. Done.
4. `ApiServer` with its proofs. Done.
5. The pipeline's remaining safety properties and its refinement, proved. Done.
