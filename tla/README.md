# Verification of microservice-rnd1

TLA+ models of the framework in `src/packages/server` and of the jobs and
tools around it, TLC configurations that check them on small instances, and
proofs that hold for every instance. Paths below are relative to
`src/packages/server/src` unless they start with `src/`.

The repository is a monorepo in which each server under `apps/servers` is
generated: a `ServerApp` with plugins (Redis, Kafka logger, OpenBao, ...),
drivers (GraphQL, gRPC, Kafka, cron), routers that bind use cases to them, and
sagas written as subclasses of `ProcedureOrchestrator`. The hard part of it is
what happens between two `await`s: promises that run side by side under
`Promise.all` and are not cancelled, timers that race what they time, objects
and connections that are shared by calls nobody ordered. The servers and
frontends themselves are written by the generators of `src/turbo/generators`,
which edit a dozen files one after another and can be stopped between any two.

## 1. Inventory

| Part | State it keeps | Operations | What is hard |
|---|---|---|---|
| Saga orchestrator (`abstract/ProcedureOrchestrator.ts`) | the list `procedures` of the object; per call: position, attempt, completed procedures, context, last error | `procedure()`/`build()`, `execute()` with `retries`, `retryDelayMs`, `timeoutMs`, fallbacks | a timed-out main runs on; a shared object's list grows under an iteration; fallbacks fail |
| Server lifecycle (`ServerApp.ts`) | database handle, plugin instances, driver entries, container | builder methods, `run()`, `stop()` | parallel starts, first rejection wins, `stop()` during `run()`, order of closing |
| Health check (`plugin/HealthCheckPlugin.ts`) | a port, a `Bun.serve` | `onStart()`, `onStop()` | the parameter that every plugin is constructed with |
| Kafka driver (`driver/KafkaDriver.ts`, `router/KafkaRouter.ts`) | producer, consumer, dispatch table, registrations | `start()`, `eachMessage`, `kafkaProducer.send()`, `stop()` | redelivery, poison and empty messages, rebalances, a start overtaken by a stop |
| Other drivers (`ApolloDriver`, `GrpcDriver`, `CronDriver`, `startStandaloneServerTls`) | a server or a list of jobs | `start()`, `stop()` | which of them wait for running handlers |
| Routers, interceptors, spans (`router/GrpcRouter.ts`, `router/GraphqlRouter.ts`, `abstract/BaseInterceptor.ts`, `interceptor/`, `otel-span.ts`) | per driver the interceptors around its handlers; per request how far it is, its span, its answer | `apply()`, `register()`, one call per request | the order in which interceptors and routers are wired; an answer beside a handler that runs on; a token valid after logout |
| Cache-aside (`redis/RedisCache.ts`) | keys in Redis; per call: ids found, rows missing | `cacheAside()`, `cacheAsideAll()` | SCAN beside writers, late fills, nothing expires |
| Authentik client (`plugin/AuthentikPlugin.ts`) | per sign-in: cookies, stage; in Authentik: accounts, sessions, tokens | `signIn`, `logout`, `enroll`/`createUser` | up to ten requests in a row, failure between any two, other calls beside them |
| OpenBao client (`plugin/OpenBaoPlugin.ts`) | one client token | `login`, `get`, `put` | a token that expires |
| OpenBao jobs (`src/services/openbao/helm/files/*.sh`) | OpenBao's seal, the secret `openbao-init`, mounts, policy, role | initialise, store, unseal, provision | attempts that die or overlap, pipelines that hide a failure |
| Connecting plugins, database adapter, serializers | a connection each | start, stop, encode, decode | handles assigned before they are connected; cached rejections |
| API generation (`src/packages/script`) | a directory of generated files and its barrel | `generate()` | several generators on one directory; errors that are logged only |
| Server generators (`src/turbo/generators/server*`) | source, manifest, environment and chart files of the servers, the supergraph, Prometheus' and Grafana's configuration | one action list per driver and extension; routers, repositories, use cases, interceptors with their barrels | stopping halfway, running again, ports that must differ, files several servers share |
| Frontend generators (`src/turbo/generators/frontendCodeGenerator`) | projects, modules, pages with wrapper and route, barrels | project, module, page, component, hook, use case | four writes for one page |
| Charts, Terraform, k3d scripts, docs site, workflows | — | — | the behaviour is that of the tools they configure |

How they interact: `ServerApp.run()` connects the database, constructs routers,
interceptors and plugins with the container, awaits all `onStart()`s, then all
`driver.start()`s. Plugins and drivers communicate through registrations in
the container (`redis`, `logger`, `kafkaProducer`, `secrets`, ...), which
handlers resolve per call. Servers communicate through Kafka topics, Redis and
the database. `OpenBaoPlugin.onStart()` needs what the OpenBao jobs have set up.

What makes each part correct:

* saga: a call ends with all effects or none, compensates backwards, never
  exceeds its retries, ends;
* lifecycle: no handler without its plugins and database; what came up is
  closed, the database last; neither call waits for nothing;
* Kafka: at least once, in order per topic, with a producer the handlers can
  use; what was connected is disconnected;
* cache: a read never loses a row that was there all along;
* OpenBao jobs: never open with keys that could not be found again;
* clients: nobody gets another's token, session or account; a refusal has a
  cause;
* request path: no handler runs unguarded, every request is answered once, and
  the span tells what the caller is told;
* generators: ports are distinct and agree across files, nothing refers to what
  is missing, a run that ends has wired everything.

## 2. Modules

| Module | Models | Notes |
|---|---|---|
| `AtomicSaga` | what a caller of `execute()` may expect | abstract specification |
| `Saga` | `ProcedureOrchestrator` | refines `AtomicSaga` under stated conditions |
| `SagaProofs` | — | the inductive invariant of `Saga` and its theorems |
| `SagaAtomicProofs` | — | that `Saga` implements `AtomicSaga` |
| `ServerApp` | `run()`, `stop()`, `HealthCheckPlugin`'s port | |
| `ServerAppProofs` | — | the inductive invariant of `ServerApp` and its theorems |
| `KafkaDriver` | `KafkaDriver`, the dispatchers of `KafkaRouter` | broker and kafkajs external |
| `KafkaDriverProofs` | — | the inductive invariant of `KafkaDriver` and its theorems |
| `RedisCache` | `cacheAside()`, `cacheAsideAll()` | Redis and database external |
| `RedisCacheProofs` | — | the inductive invariant of `RedisCache` and its theorems |
| `OpenBao` | `init.sh`, `k8s-auth-provision.sh` | OpenBao and API server external |
| `OpenBaoProofs` | — | the inductive invariant of `OpenBao` and its theorems |
| `AuthentikClient` | `AuthentikPlugin.ts`: `signIn()`, `logout()`, `enroll()` | Authentik external |
| `SecretsClient` | `OpenBaoPlugin.ts`: `login()`, `get()`, `put()` | OpenBao external |
| `RequestPath` | interceptors, routers, spans, the gRPC and Apollo wiring | uses both clients |
| `Requests` | the composition of these three | |
| `RequestsProofs` | — | the inductive invariant of `Requests` and its theorems |
| `Splices` | the files as entries; the edits and scans of `helpers.ts` | |
| `ServerGenerators` | the action lists of the driver, extension and code generators | |
| `FrontendGenerators` | the web generators | |
| `Generators` | `turbo gen`: prompts, actions, stopped and repeated runs | composes the three before |
| `GeneratorsProofs` | — | the inductive invariant of `Generators` and its theorems |
| `MC*` | — | the instances TLC checks |

Throughout, an action is the code from the settling of one awaited promise to
the next `await`: JavaScript runs it without interruption. What an awaited
promise does outside (a use case, a broker, Redis) is one or more actions of
its own, which may resolve, reject or, where nothing bounds it, hang. Variables
marked *history* in a module record something for a property and never guard a
step. Definitions marked *Mutant* are plausible mistakes in the code; no
specification uses them. Each is put in the place of the definition after it to
see that a property notices.

### Saga

`procedures[i]` is `this.procedures` of object `i`; everything else is a local
variable of one call: `pos` (the `for..of` position over the live list),
`attempt`, `completed` (the winning attempts), `undone` (whose fallback has
resolved), `error` (`lastErr`, or what is thrown). `running` and `applied` are
the main use cases that have not settled and those whose effect is in the
world; an effect comes at some moment of a main's run (`MainEffect`), also when
nobody waits any more.

| Code | Action |
|---|---|
| `execute()` up to the first `await` (69-86); `build()` pushes onto the list | `Execute` |
| the main resolves, patch merged, next procedure (83-108) | `MainResolves` |
| it rejects: `lastErr`, retry now, later, or give up (89-102) | `MainRejects` |
| `ProcedureTimeoutError` wins the race (26-37) | `TimeoutFires` |
| a main that lost the race settles | `LateSettles` |
| `sleep(retryDelayMs)` is over (91-93) | `WakesUp` |
| loop over `completed.reverse()` (97-101) | `FallbackResolves`, `FallbackRejects` |

The context is not kept: it is the merge of the patches of `completed`, which
determines it.

### ServerApp

`app` and `stopper` are the program counters of `run()` and `stop()`; `db`,
`plugin`, `driver` the state of what they handle; `stopping` the promises a
`Promise.all` of `stop()` still waits for; `ready` how often a driver's
`start()` has resolved; `work` the handlers running on each driver. `stop()`
calls and awaits `onStop()` of every plugin instance and `stop()` of every
driver, whatever state it is in: on one that is starting it may find the handle
and close it under the start (`cut`), on one that failed or never started it
resolves or rejects. `database` (no database, an adapter, or a factory that has to resolve)
is chosen in the initial state; the other builder calls are constants.
`Promise.all` rejects with the first rejection and lets the rest run on, so
`PluginStarts` and `DriverStarts` remain enabled after `app` has become
`"failed"`. A driver in `Drains` waits for its handlers in `stop()`
(`GrpcDriver.ts:56-60`); one that is not in it does not
(`CronDriver.ts:60-63`). `early` records that `stop()` was called while
something was still starting; what comes up after that is never stopped, so
the properties about closing except it. `Bounded` are the plugins and drivers
whose own starts and stops are known to settle; the others may hang, as an
`onStart()` with a `fetch` without timeout does.

### KafkaDriver

`phase` is the `await` at which `start()` stands: `admin` (connect, create
topics, disconnect), `producer`, `consumer` (connect and subscribe), `run`.
`owner`, `committed`, `position` are the group's view of a topic (one partition
each); `running` is the message a server's handler is at, `handled` the
offsets handled at least once. kafkajs is modelled by what the driver relies
on: one message at a time, the offset resolved when `eachMessage` resolves,
committed now or later, and fetched again when it rejects, unless the error is
one kafkajs does not retry, which ends the consumer for good
(`RejectionEndsConsumer`); a member that leaves or is given up by the broker
loses the topic while its handler goes on. A disconnect that rejects may have
taken effect or not. The
rules about which of two routers' dispatchers wins (`Object.assign`, line 98)
are left out: `RouterTopics` is the merged table.

### RedisCache

A reader's `pc` is the command it waits for: `get`, `fallback` (the query),
`set` for `cacheAside()`; `scan`, `mget`, `fallback`, `set` for
`cacheAsideAll()`, whose sets run in parallel: one that rejects may have taken
effect, ends the call, and leaves the others to land. A row is a version number per id
and a version never comes back; a key is evicted at any time. A SCAN returns
keys present at some moment, some more than once, and each key that is present
from its beginning to its end (`steady`) at least once, which is what Redis
guarantees. `cached` holds the items found, each with the place of its key in
the SCAN's list, and, after the query, those added; in what order the answer
lists them is left out.

### OpenBao

One variable per fact the scripts depend on: the generation of keys OpenBao is
initialised with (`keys`), `sealed` and the shares submitted so far
(`progress`), the mounts, policy and role, and the secret. Every attempt of a
job is a pod with a `pc` that names the command it is at. A command that fails
in sight of `set -e` ends the pod (`Fails`), which also stands for eviction.
One that fails in a pipeline, an `if` or before `|| true` goes on with its
empty output; the history variable `unnoticed` records it. `bao operator init`
and the POST of the secret may take effect and lose the answer.
Attempts overlap: a Job may replace a pod that is still terminating, and a
second release runs its hook while the last pod of the first lives.

### AuthentikClient, SecretsClient, RequestPath, Requests

A call of the Authentik client names the session and the token it makes, so
that one call's are told from another's. `call[c].at` is the request that is
under way; `jar[c]` is the cookie jar of `runAuthenticationFlow()`. Every
request may be lost before Authentik acts (`Unavailable`) or, where it changes
something, after (`Answered`, and `FlowAnswerLost` for the steps of the flow);
`MaxFaults` bounds how many are.

| Code | Action |
|---|---|
| `flowStep()`: first GET, identification, password | `Identify`, `Name`, `Prove` |
| the loop of five further GETs (213-220) | `Advance` |
| `exchangeAuthorizationCode()`: redirect, then token | `Authorize`, `Mint` |
| `logout()`: introspect, revoke, list, one DELETE for each session | `Introspect`, `Revoke`, `List`, `Delete`, `LeaveSessions` |
| `createUser()`: POST the user, then set_password | `Create`, `Secure` |
| the access token's end | `Expire` |

Authentik's identification stage may hide that an account does not exist, its
flow may have any number of `FlowLengths` stages after the password, and its
service account may lack the right to list sessions. `OpenBaoClient` has one
lease, taken by `onStart()`, which ends and is never renewed. In `RequestPath`
each driver, once the plugins are up, calls `apply()` of one interceptor of
`Chain` after another (`Apply`) and then `register()` of its routers
(`Register`), which puts around every handler the interceptors applied so far
(`guards`); `start()` does all that before its first request, so `Receive`
waits for both drivers (`Listening`). `left` are the interceptors a request has
still to pass, `accepted` those that have let it by: on gRPC one after another,
in Apollo's `didResolveOperation` all at once (`Turn`). Then its handler runs in
a span if `otelTracer` is registered, may read or write a secret, and is
answered. What the callback of grpc-js does inside the `try` of
`GrpcRouter.ts:76-79` is left out: it serialises and sends in a `try` of its
own and does not throw. A request carries a token that a sign-in handed out, a forged one, or
none.

### Splices, ServerGenerators, FrontendGenerators, Generators

The repository is a set of entries (whose file, which module, what it says,
with which port, leading where). A helper of `helpers.ts` looks for its own
entry and writes if it is absent; what it looks for is `Finds`, which is not
always the key: Grafana's ConfigMap is searched for the camelCase name, a
deployment for the number of a container port, a module's barrel for the folder
and the name together (`./hooks/X` is another line than `./components/X`).
A container port has the container it is put into as its `to`: the first
`image:` line's, which is the app's unless a wait container came before.
`todo` holds the plop actions
that have not begun, `writes` the edits of the one that has: they are worked
out when the action begins, as the code computes ports and paths before it
writes. `Write` makes one; `Stop` ends the run anywhere; `Refuse` is plop's
`add` meeting a file that exists; `done` and `stopped` are histories. What a
run is offered (`DriverOffered`, `DatabaseOffered`, ...) is read when it
starts, as in the prompts. Text is left out, and so is the difference between
services that share one role (Kafka's chart values).

## 3. Runs

| Run | Checks | Instance |
|---|---|---|
| `saga_atomic` | type, refinement of `AtomicSaga` | two calls on objects of their own, three procedures with 1, 0, 2 retries, the third delayed |
| `saga_shared` | order of compensation, all or nothing, overlap only after a timeout, bounded and ordered tries; every call ends | two calls on one object, two procedures, the second with a timeout, a delay and a retry; fallbacks may fail |
| `saga_shared_twice` | violates `RunsEachProcedureOnce` | one procedure, two calls on one object |
| `server_run` | drivers are backed, the database closes last, a resolved `stop()` closed what was up, `Promise.all` waits for what is pending; both calls settle or wait for what may hang | two plugins, one of them unbounded, a draining and a non-draining driver, two handlers each, every operation may reject, `stop()` at any time |
| `server_stop_order` | violates `PluginsOutliveHandlers` | the same |
| `server_health_port` | violates `HealthOnItsOwnPort` | the same |
| `kafka` | usable producer, commits, order, disconnection; good messages are handled | two servers of a group with two messages of any kind, a third without serializer, one crash or rebalance |
| `cache` | no row lost or added twice, coherence without updates | two single reads and one collection read, one constant and one changing row of two versions, three SCAN results |
| `openbao` | recoverable when open; jobs that end well did their work | three attempts to initialise, two to provision, three shares, data lost once |
| `openbao_refusal` | violates `RefusalLeavesItUninitialised` | the same |
| `requests` | tokens, refusals, guards, answers and spans, accounts, verdicts | three calls (one earlier), two users, two passwords, flows of 0, 5 or 6 further requests, one request past `auth` and `audit`, one fault |
| `generators` | distinct and agreeing ports, a backed `app.ts`, complete runs, no dangling reference, nothing unreached but by a stopped run | two workspaces with names that differ in camelCase, two modules; two runs over servers, three over their code, or five over frontends; one stopped |

Why the instances are large enough. Saga: a failing procedure with two
completed ones before it tells reverse order from any other; a list that grows
under an iteration needs two calls and no more, since a call only ever sees
entries appended. Lifecycle: `Promise.all` over two members has every case of
one settling before, after or without the other. Kafka: two messages give
before and behind, two members give the old and the new owner of a topic;
`stop()` is called on one of the two only (`Stopped`), because stopping one
does not read the other's state, and one fault separates every pair of steps
once. Cache: one key may appear, stay or go while the other is scanned; three
SCAN results allow a key to come twice beside the other. OpenBao: three
attempts are one that dies, one beside it and one after; losing the data once
gives old keys in the secret and new ones in OpenBao. Requests: two calls
beside a user who is signed in give two sign-ins at once, a sign-in beside a
logout or a registration, and a token whose owner leaves while a request
carries it; five and six further requests are on either side of the client's
bound; two interceptors have an order. Generators: two workspaces are what a
port can collide between and a shared file can be shared by; two server runs
are one that stops and one that resumes it, repeats it or meets what it left on
the other server (longer series only add to the number of states: section 4
proves the invariants for any number of runs and stops); a page with everything
it needs is three frontend runs, and two more repeat or collide with it. The side (`server`, `code`, `frontend`) is chosen in the initial
state, since the generators of one side read nothing the others write except
what a database run leaves for repositories, which is in `code`. `.env` is
copied before the first run or after it (`LastCopy`), so also from a sample
that a stopped run has left. `PortRange` is larger than the number of claimants.

`CHECK_DEADLOCK FALSE` stands in the runs of programs that end: a server that
has stopped, cached reads that have returned, pods that are done, a Kafka log
at its bound, a developer who has used up the runs. `Saga` and `Requests` have
explicit steps (`AtRest`, `Quiet`) for the state in which nothing is left to
do, so their runs do check that no call and no request is stuck.

Symmetry is used in `cache`, `openbao`, `requests` and `generators`, which
check no liveness, over readers, attempts, calls, and workspaces and modules
that are interchangeable.

### Fairness

`Saga`: timers fire (`TimeoutFires`, `WakesUp`), because the event loop runs
them when due. Nothing is assumed of a main use case or of a fallback, neither
of which the code bounds; `EveryCallEnds` therefore excepts a call that waits
for ever for a main without `timeoutMs` or for a fallback. `ServerApp`: only
the own starts and stops of what is in `Bounded` settle. `run()` and `stop()`
await every promise without a bound, so `BothSettle` says of each call that it
settles or stays for ever at something nothing bounds: the database, a plugin or
driver outside `Bounded`, a handler that a driver drains. Nobody has to call
`run()` or `stop()`. What remains is that the two never wait for each other or
for a promise that has settled. `KafkaDriver`: calls to the broker settle,
which kafkajs bounds by its own timeouts; offsets are committed in time, which
kafkajs does per batch; and strong fairness of `HandlerResolves`: a good message
that is handed over again and again is handled in the end, without which
redelivery could not promise anything. `GoodMessagesAreHandled` excepts a
consumer that kafkajs has ended.
Nothing is said of liveness in `Requests`: the `fetch` calls of the two clients
have no timeout (`AuthentikPlugin.ts:157`), so the code justifies no fairness
for their answers. `Generators` promises nothing about the next run either.

### What the violations show

* `saga_shared_twice`: `execute()` calls `build()` every time and `build()`
  pushes onto the object's list. The second call on an object, such as a
  `singleton()` registration would give, runs every procedure twice, and a call
  in progress runs into the entries of the second one.
* `server_stop_order`: `stop()` closes plugins first. Handlers of a driver that
  has yet to drain run against a closed Redis or logger.
* `server_health_port`: every plugin is constructed with the container, which
  in `HealthCheckPlugin` is the parameter `port`, so the default never applies.
* `openbao_refusal`: `bao operator init` runs before the script looks for the
  secret. When it finds one it refuses, but OpenBao is initialised by then and
  the only copy of the new keys is in the pod that exits.

### Read in the code and shown by no run of their own

Sagas and lifecycle:

* a rejecting fallback leaves the loop (`ProcedureOrchestrator.ts:97-101`):
  earlier procedures keep their effects and the procedure's own error is lost,
  which `AllOrNothing` excepts; one that never settles holds the call for ever;
* a plugin whose `fetch` gets no answer (`AuthentikPlugin.ts:125`,
  `OpenBaoPlugin.ts:75`) holds `run()` for ever;
* a main that timed out is not aborted, whatever the test name "aborted by
  timeoutMs" suggests (`OverlapOnlyAfterTimeout` and `AllOrNothing` state what
  remains true);
* a driver that comes up after `stop()` has passed it is never stopped (the
  exception `early`);
* with two routers on one topic, `Object.assign` keeps the last dispatcher
  (`KafkaDriver.ts:98`);
* drivers start side by side, so a GraphQL or gRPC handler may resolve
  `kafkaProducer` before it is registered;
* `LoggerPlugin.ts:104` publishes without awaiting; the rejected bootstrap that
  `otel-bootstrap.ts:76` caches does no harm, because the process ends with it.

Cache and clients:

* a late cache fill is served until it is evicted (`CoherentIfImmutable` holds
  only of rows that do not change);
* `OpenBaoClient.get()` reads `secret/data/<path>` although its comment speaks
  of `secret/data/servers/<own-name>/<path>`, so callers have to pass the
  prefix; after an hour every `get()` and `put()` is refused until the server
  restarts, as nothing renews the lease or logs in again (`OpenBaoPlugin.ts:90`,
  `ttl=1h` in `k8s-auth-provision.sh:70`);
* `logout()` revokes the access token only, although the comment at
  `AuthentikPlugin.ts:237-238` has `signOut()` revoke the refresh token, and it
  ends sessions only where the service account may list them; a token that is
  verified locally is good until it expires (`VerdictsAreLocal` says so);
* a user whose password could not be set stays in Authentik and every later
  `enroll()` of the address is refused (`OnlyItsCreatorSecures`);
* use cases are registered by class name and the first one wins
  (`GrpcRouter.ts:45`);
* the provisioning job of OpenBao waits for ever if nothing unseals it.

Generators:

* most of them write the file by which the next run takes the work for done
  (`app.ts`, `schema.prisma`, `redis.yaml`, `serviceaccount.yaml`) before the
  chart: a run stopped after it is never offered again;
* a server with gRPC and GraphQL gets two Services of one name;
* in a deployment with an init container the first `image:` line is its own,
  and the container port goes there (`helpers.ts:601`), although the comment at
  `helpers.ts:571` has it in the app's container; `DoneMeansWired` asks for the
  app's container only where there is no init container;
* the Kafka generator's environment block (`KafkaGenerator.ts:66`) is never
  written, because the server template's `.env.sample` has `KAFKA_BROKERS`
  already; `DoneMeansWired` asks nothing of it;
* the Debezium generator is never offered (`DebeziumGenerator.ts:53` asks for a
  file that the database generator writes to another chart);
* of two names with one camelCase form the second gets no Grafana datasource
  (`DatabaseGenerator.ts:429-433` searches for the camelCase variable), while
  its mount refers to a key by its own name (464, 521) that is not there;
  `DoneMeansWired` and `NothingDangles` speak of names that differ in camelCase;
  a server called
  `<x>-infra` would find the database chart of `<x>` in its way;
* a page for `/` or `/about` gets a wrapper and no route; a page `HomePage`
  makes `router.tsx` bind the name twice;
* servers whose APIs are generated side by side rewrite one barrel
  (`APIGenerator.ts:105`).

## 4. Proofs

### Saga

`SagaProofs` proves, for any number of calls, objects and procedures and any
options, about `Saga!Spec`:

| Theorem | States |
|---|---|
| `Invariance` | the inductive invariant `IInv` |
| `TypeCorrect` | `TypeOK` |
| `Overlap` | `OverlapOnlyAfterTimeout` |
| `Compensation` | `CompensatesInReverse` |
| `Atomicity` | `AllOrNothing` |
| `Tries` | `TriesAreBoundedAndOrdered` |

They rest on `SagaAssumption` alone: the number of procedures is a natural
number, the options have their types, each call is made on one object.

`CompensatesInReverse` and `AllOrNothing` are not inductive. `IInv` adds:

* `PositionsListed`: the positions a call is at, or has a running or applied
  attempt at, exist in its list. Without it the timeout option of an attempt
  has no meaning, and appending to the list could change it;
* `CompensationCounts`: while a call compensates, some completed attempt is
  still to be undone, and it had begun to compensate if anything is undone;
  this makes `ToCompensate` an element of `completed`;
* `CompensationOrder`: `undone` is an initial part of `completed` reversed;
* `OverlapOnlyAfterTimeout` itself;
* `EffectsAccounted`: an applied attempt of a call is awaited, completed, or
  excused by a timeout or a rejection halfway, and completed ones are applied.

The argument for atomicity: when a call gives up, no attempt of it is awaited,
so every unexcused effect is one of `completed`; it throws its own error only
when `undone` has as many elements as `completed`, and being an initial part of
the reversed list it then has the same ones. The lemma `StepListsGrow` is what
makes shared objects harmless here: every step leaves lists as they are or
extends them at the end.

`Tries` needs an invariant of its own, `TriesInv`, on top of `IInv`:
`TriesInTurn` says that a call which waits is at the position behind its
completed ones, and that it sleeps only while a retry is left. A bound on the
attempts made does not say that the next one is within it.

`SagaAtomicProofs` proves the refinement: `Atomic` says that under `Plain`
every behaviour of `Saga!Spec` is one of `AtomicSaga` (`IsAtomic`). `Plain` is
what `execute()` cannot do without: a call has an object of its own, mains do
not time out and do not reject after an effect, fallbacks resolve. The run
`saga_atomic` is one such instance; the runs on shared objects and with
timeouts show why each condition is there. The argument is one step of the
abstract saga, or none, for each step of the code: `MainEffect` is `Forward`,
the last `MainResolves` (or an `Execute` with nothing registered) is `Commit`,
the last `MainRejects` is `GiveUp`, `FallbackResolves` is `Backward`. It rests
on `OwnLists` (a call iterates exactly what its own `build()` pushed) and
`FirstEffects` (what is in place is always an initial part of the list: the
completed positions less the undone ones, and the awaited one once it has its
effect).

### Server lifecycle

`ServerAppProofs` proves, for any plugins, drivers and handlers and from
`ServerAppAssumption` (plugins are no drivers, those that drain are drivers):

| Theorem | States |
|---|---|
| `Invariance` | the inductive invariant `IInv` |
| `TypeCorrect` | `TypeOK` |
| `Backed` | `DriversAreBacked` |
| `DatabaseLast` | `DatabaseClosesLast` |
| `Closed` | `StoppedMeansClosed` |
| `Awaits` | `AwaitsWhatIsPending` |

None of the properties is inductive, because where `run()` stands and
what its promises have come to are different things. `IInv` adds
`StartedInOrder` (which states plugins and drivers can be in at each `await` of
`run()`), `BeforeStop` (without `stop()` nothing is closed), `AwaitedByStop` and
`ClosingIsAwaited` (what `stop()` waits for at each of its `await`s, and that
what closes or drains is among it),
`HandlersAreDrained` (a driver that drains is not past it with a handler left),
`ClosedInOrder` (what is closed at each `await` of a `stop()` that began on a
settled application) and `ClosedByStop` (only the end of `stop()` touches the
database). The exception `early` is essential: the properties are false of a
`stop()` that overtakes a start.

### Kafka driver

`KafkaDriverProofs` proves, for any servers, topics, messages, crashes and
rebalances, from `KafkaAssumption` (the topics of routers and configuration are
topics, bounds are natural numbers, and no server is called as the owner of a
free topic is):

| Theorem | States |
|---|---|
| `Invariance` | the inductive invariant `IInv` |
| `TypeCorrect` | `TypeOK` |
| `ProducerThere` | `HandlersCanSend` |
| `AtLeastOnce` | `CommittedIsHandled` |
| `InOrder` | `HandledInOrder` |
| `Disconnected` | `StoppedMeansDisconnected` |

`IInv` has a half for the connections, `LinksFollow` and `InTurn` (where
`start()` and `stop()` stand says what is connected, unless `stop()` overtook
`start()`), and a half for the messages. A commit takes over `position`, so
`CommittedIsHandled` needs `ResolvedIsOver`: all up to the position is handled
or empty. A handler may resolve after its server has lost the topic, so that
needs `HandlersAreNext`: the message at a handler is in the log, everything
before it is over, and for the owner it is the next one. That is also why a
stale handler does no harm: it finishes a message that is in order anyway.

### OpenBao jobs

`OpenBaoProofs` proves, for any attempts, any number of shares and of losses of
the data, from `OpenBaoAssumption` (attempts of the two jobs differ; at least
one share and one initialisation):

| Theorem | States |
|---|---|
| `Invariance` | the inductive invariant `IInv` |
| `TypeCorrect` | `TypeOK` |
| `Recoverable` | `UnsealedIsRecoverable` |
| `Provisioned` | `ProvisionedMeansAccess` |
| `EndsOpen` | `InitDoneMeansUnsealed` (an action property) |

The secret is written once and never changed, so `SubmittersHoldTheSecret`
(whoever is about to submit shares holds what the secret has) makes every set
of shares that opens OpenBao one of the secret's keys. `SharesAreIn` says that
an attempt which missed nothing finds all the shares it has submitted in
`progress` as long as OpenBao is sealed; with its last one, counting
(`SharesCount`, `OneMoreShare`) shows the set complete, whoever else submits.
`Granted` follows a provisioning attempt command by command, and
`KeysWereMade` keeps its token from being that of keys made later.

### Requests

`RequestsProofs` proves, for any calls, accounts, passwords, flows, requests,
chain of interceptors and number of faults:

| Theorem | States |
|---|---|
| `Invariance` | the inductive invariant `IInv` |
| `TypeCorrect` | `TypeOK` |
| `TokensAreEarned` | `TokenIsForItsCaller` |
| `CreatorsSecure` | `OnlyItsCreatorSecures` |
| `HandlersAreGuarded` | `HandledMeansAccepted` |
| `AnswersAreSingle` | `AnsweredOnce` |
| `VerdictsHold` | `VerdictsAreLocal` |
| `RefusalsHaveCauses` | `RefusedForCause` |

They rest on `AuthentikAssumption` (the user who is signed in has an account,
the words for a missing and an unusable password are no passwords, bounds are
natural numbers, a forged token is none of those issued) and `ChainAssumption`
(the chain is a sequence of names).

`TokenIsForItsCaller` is not inductive: it speaks of tokens only, and a token
is the last of six steps. `IInv` adds, from the end to the beginning:

* `CodesAreEarned`: a code names the user of the call's own email, and that
  account has the password the call gave; a token is that of its call's code;
* `SessionsAreEarned`: a call's cookie is that of the session it made, and a
  session that is past the password stage names the call's own email, whose
  account has the call's password;
* `CreatorsAreAlone`: while a call is between `createUser()`'s two requests,
  the account has no password and that call created it. Hence a password is
  set only where there was none, and what was proven once stays proven;
* `CallsKeepToTheirCode`: a call is at places of its own operation;
* `RoutersAreGuarded`: a driver that listens has the whole chain around its
  routers;
* `RequestsAreGuarded`: a request carries a token that was handed out, a forged
  one or none, came to a driver that listens, and every interceptor of the chain
  is still to be passed or has accepted it. `HandledMeansAccepted` takes both:
  with routers registered one `apply()` early the missing interceptor would
  never be among those to pass.

`RefusedForCause` has an invariant of its own, `Causes`, on top of `IInv`. Why a
sign-in was refused can only be told while the stage Authentik is at is known,
and other calls end sessions meanwhile. `InStep` says that both sides are at the
same stage, except that the session of a call that is past the flow may have
gone; `EndsWhatIsOver`, that a `logout()` lists and ends only such sessions,
never one still at the identification or the password stage. So a refusal in
the middle of the flow is due to the call's own password, the account's state
or the flow's length, and one after it to a `logout()`; what was a mistake of
the caller stays one, because passwords are set once.

The lemmas are one per step: `...Keeps` for the client (the step preserves its
part of the invariant and what has been handed out stays so), `...Handled` for
the request path (the step preserves `IInv` and is one the action properties
allow).

### Cache-aside

`RedisCacheProofs` proves, for any rows, calls, versions and lengths of a SCAN,
from `CacheAssumption` (the two kinds of calls are different calls, there is at
least one version, the rows that change are rows):

| Theorem | States |
|---|---|
| `Invariance` | the inductive invariant `IInv` |
| `TypeCorrect` | `TypeOK` |
| `LastingRead` | `LastingRowsAreRead` |
| `Coherent` | `CoherentIfImmutable` |

`IInv` adds `RowsAccounted` (a row counts as lasting only while it is there, and
one that nothing updates has had one version), `FillsAreRows` (what a call is
about to put into the cache is a row, and of an id that nothing updates the row
itself, however late the fill) and `CollectionsGrow`, which follows the items of
`cacheAsideAll()`: MGET's have different places in the list of keys, the query
adds only ids that are not among them, and after it no lasting row is missing.
Nothing about the cache's contents is needed for that; in particular SCAN's
guarantee is not. What the query adds makes up for whatever SCAN missed.

### Generators

`GeneratorsProofs` proves, for any workspaces, modules, names and numbers of
ports, any series of generators and any of its runs stopped anywhere:

| Theorem | States |
|---|---|
| `Invariance` | the inductive invariant `IInv` |
| `TypeCorrect` | `TypeOK` |
| `Distinct` | `PortsAreDistinct` |
| `Agree` | `PortsAgree` |
| `AppBacked` | `AppIsBacked` |
| `Wires` | `DoneMeansWired` |
| `NoDangling` | `NothingDangles` |
| `Unfinished` | `UnreachedIsUnfinished` |

They rest on `GeneratorsAssumption` alone (the bounds are natural numbers). The
repository only grows, so what is there stays; the difficulty is in what is
*not* there yet. Edits are computed when an action begins and made one by one
later, and an edit is skipped if the file has a line it is taken for. `IInv`
therefore speaks of the edits that are pending as well:

* `BegunIsSettled`: what an action of the run `Leaves` is in the repository, or
  pending, or pending under another name that will be found for it, from when
  the action has begun. With `InTurn` (`todo` is the end of the generator's
  list) this gives `DoneMeansWired` when the list is empty;
* `OwnPortIsSettled` and `OneContainer`: once the chart action of gRPC or
  GraphQL has begun, the port `.env.sample` says is or will be a container port,
  and it stands in one container with the health port, the app's unless there is
  a wait container;
* `AllGrounded`: an entry, made or pending, has what it rests on in the
  repository already. `Backed` is for the lines of `app.ts`; `Said`, for the
  ports that charts and the supergraph take from `.env.sample`; `Marked`, for
  what a later run is kept from by a file that exists;
* `AllOwned`: which action an edit pending comes from. `AloneInDatabase` and
  `AloneInSecrets` say that the first run past the marking file meets nothing
  of what its helpers would silently skip, `PortsComeWithDrivers` that a server
  which has a port and not the driver was stopped on;
* `ClaimsAreFree` and `EnvInStep`: a port is claimed by the first edit of its
  action, so that nothing comes between the scan for a free one and the claim,
  and `.env` is given what `.env.sample` was;
* `AllLed` and `LedInOrder`: what an edit refers to is in the repository or
  before it in the list; `ReachedInOrder` and `WillBeReached`: what no barrel or
  route leads to yet is led to by an edit that follows, unless a run was stopped.

The proof of a step has three parts. `WriteKeeps` is about the one place where
the repository grows in a run. `BeginKeeps` reduces the beginning of an action
to what is to be shown of its edits, and one lemma per generator
(`GrpcBegins`, ..., `SecretsBegins`) shows it, action by action. The web and
code generators make all their edits at once and have one lemma each for the
prompts' answers. `PortsAreDistinct` needs no assumption that the range of ports
is long enough: without a free port the model's generator does not begin.

### Model-checked only

The liveness properties `EveryCallEnds`, `BothSettle` and
`GoodMessagesAreHandled`: fairness and `ENABLED` are out of the proof system's
reach. Every other property of a run that is expected to pass is stated by a
theorem above. Induction over data and recursive operators are out of reach as
well; no module needs them.

## 5. Not modelled

* API generation (`src/packages/script`): generators of several servers on one
  directory and its barrel. It needs a model of a file system that is read
  while it is written, which nothing else here shares.
* The Debezium generator, which is never offered (section 3).
* What the other drivers' `start()` does inside (schema merging, TLS files, the
  cron scheduler), and the registrations of the connecting plugins, with the
  logger's publishing.
* Database engines, brokers, Redis, OpenBao, Authentik, Kubernetes: external, as
  far as the code relies on them. OpenBao's development mode.
* Prompts' wording, templates, and the text the generators splice. A server's
  scaffold (`addMany` of the whole template) is one step, so one that stops
  halfway is left out; of a project's some twenty files two writes are kept,
  those that later runs look for. Port literals in an `app.ts`, which
  `helpers.ts:500-506` also scans, are left out: the templates write none.
* Charts, Terraform, k3d scripts, the documentation site, CI workflows, shared
  configuration: declarations for other tools, with no state of the program.

## 6. Plan

In order of weight; done items are in the sections above.

1. Saga, its abstract specification, proofs of its safety. *Done.*
2. Server lifecycle with stop, failures and handlers. *Done.*
3. Kafka driver. *Done.*
4. Cache-aside. *Done.*
5. OpenBao jobs. *Done.*
6. Clients and the path of a request, with proofs. *Done.*
7. Generators, stopped and run again. *Done.*
8. Proofs for the lifecycle, the Kafka driver and the OpenBao jobs; the
   refinement of `AtomicSaga` and the bound on tries. *Done.*
9. Proofs for the cache, `RefusedForCause` and the generators. *Done.*
10. Left to model: API generation and its barrel.

## 7. Running

    tlc -workers 2 -config SagaShared.cfg MCSaga
    tlc -workers 2 -config RequestsRun.cfg MCRequests
    tlapm SagaProofs.tla
    tlapm SagaAtomicProofs.tla
    tlapm ServerAppProofs.tla
    tlapm KafkaDriverProofs.tla
    tlapm OpenBaoProofs.tla
    tlapm RequestsProofs.tla
    tlapm RedisCacheProofs.tla
    tlapm GeneratorsProofs.tla

Each run of section 3 has a `.cfg` file and an `MC` module; `PROJECT.json` says
which, maps every definition to the source lines it stands for, and lists the
hazards of the code with the properties that answer them. `requests`
and `cache` take about two minutes, the others seconds to a minute. The proofs of
`GeneratorsProofs` take about five minutes from nothing.
