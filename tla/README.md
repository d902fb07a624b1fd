# Verification of the billing service

TLA+ models of `service-order-billing-service`, the TLC runs that check them on small
instances, and TLAPS proofs of the properties that matter most. Paths below are relative to
the repository; line numbers are those of the commit the models were written from.
`PROJECT.json` maps every definition to the lines it stands for.

## 1. The system

The service turns an opened service order into a quote, an approved quote into a payment
with a checkout preference at Mercado Pago, and a payment's outcome into an event for the
other services. It runs as

- an API process (FastAPI; the endpoints are plain functions, so each request has a thread
  of its own; two replicas, up to five under load: `k8s/deployment.yaml`), and
- a worker process (one replica, two while a rollout replaces it),

over one database, one RabbitMQ exchange with one queue, and Mercado Pago.

### Components

| Component | State | Operations | What makes it correct |
| --- | --- | --- | --- |
| Domain rules (`domain/payment.py`, `domain/events.py`) | status of a quote, of a payment | approve, cancel, create preference, confirm, fail; each builds its event | the guards: only a created quote is approved, only a pending payment confirmed, no confirmed payment fails |
| Use cases (`application/use_cases.py`) | objects of one request | create, approve, confirm, fail, apply status, sync | save before publish; the decision table of provider statuses; a payment settles once |
| API (`billing_routes.py`) | none | one endpoint per use case, errors to 400/404/409/502/503 | success only for what is stored and announced |
| SQL repositories | tables `quotes`, `payments` | save (overwrites the whole row), get, get by service order | a row is what its last save wrote; nothing guards against a stale save |
| Payment gateway (adapter, SDK client, fake) | preferences and payments at the provider | create preference, search the payments of a reference | a payment is confirmed for money that was paid for it |
| Worker and handler (`rabbitmq_blocking_worker.py`, `event_handlers.py`) | the message in hand | deliver, handle, acknowledge, refuse | acknowledge only what is processed; a message is processed once; nothing blocks the queue |
| Processed events (`processed_event_repositories.py`) | table `processed_events` | look up, mark | an event is marked only after its effect |
| Publisher (`rabbitmq_blocking_publisher.py`) | a connection per call, a process-local list behind a lock | publish, list, drain | what is published reaches the exchange and the list |
| Event contracts, consumer | none | validate a message | only valid messages are handled |
| In-memory runtime (`runtime.py`, `in_memory_*.py`) | dictionaries and lists of live objects | the same ports | same as above; live objects are shared between threads |
| Event list endpoints | none | list, drain | every message is drained once |
| Authentication (`presentation/dependencies/auth.py`) | none | decide on a token and a role | no access without a valid token of the role |
| Settings, URL checks | none | decide at startup | no unsafe combination starts |
| Readiness, health | none | connect, compare database and user with what is expected | ready exactly when the repositories can work |
| Schema bootstrap (alembic, `entrypoint.sh`, `create_all` in the repositories' constructors) | tables, version row | migrate, create missing tables | one schema, whoever starts first |
| Deployment (`scripts/deploy`, `k8s`, `ci-cd.yml`) | env file, ConfigMap, Secret, Job, pods | prepare, render, apply, migrate, roll out | a file that was accepted starts; no foreign database is touched; a good deploy ends |

### How they interact

A request thread calls its use case, which calls the repositories, the gateway and the
publisher, one after the other, each call its own transaction. Nothing holds a lock across
two calls, rows carry no version and there is no outbox. The worker's handler runs the same
`CreateQuoteUseCase`. The publisher declares the service's own queue bound to each routing
key it publishes, so the worker also receives the service's own events. Events are the only
way other services learn of anything.

### What is hard here

`PROJECT.json` lists every hazard at its line. They come in seven groups: reads that are
stale when the decision they led to is saved (two threads on one row, whatever the guards
say); requests that stop between two of their steps; the order of the steps of one request
as others see it; redelivery, crashes and exceptions of the worker; what identifies a
payment at the provider (the service order, shared by all its payments); in-process state
that threads share, with one lock or none (the lists of published events, the live objects
of memory mode); and a deploy, where one env file is read by five programs that disagree on
it and up to five containers create the same tables at once.

## 2. The modules

| Module | What it is |
| --- | --- |
| `BillingDomain` | the guards and the decision table as operators on statuses |
| `PaymentLedger` | the abstract specification: a payment opens, settles once, and what is told of it is how it settled |
| `BillingApi` | threads running the use cases against the tables, the provider and the broker |
| `MCBillingApi` | instances of `BillingApi` for TLC |
| `BillingApiProofs` | the inductive invariant of `BillingApi` and the theorems that follow |
| `BillingApiSerialProofs` | what holds where requests do not overlap, the refinement of `PaymentLedger` included |
| `BillingApiSyncProofs` | what holds where payments are confirmed by sync alone |
| `QuoteIntake` | the worker, its queue, and the table of processed events |
| `MCQuoteIntake` | instances of `QuoteIntake` for TLC |
| `QuoteIntakeProofs` | the inductive invariant of `QuoteIntake` and the theorems that follow |
| `EventLog` | the abstract specification of `/events`: kept in order until one drain takes it |
| `RabbitPublisher` | `publish`, `published_messages` and `drain` in every replica, step by step |
| `MCRabbitPublisher` | an instance of `RabbitPublisher` for TLC |
| `RabbitPublisherProofs` | its inductive invariant, and the refinement of `EventLog` |
| `MemoryRuntime` | the API in `APP_RUNTIME_MODE=memory`: live objects and a list without a lock |
| `MCMemoryRuntime` | an instance of `MemoryRuntime` for TLC |
| `MemoryRuntimeProofs` | its inductive invariant, and the refinement of `PaymentLedger` |
| `RequestChecks` | the decisions on tokens and on every result of the payment SDK |
| `MCRequestChecks` | all tokens, settings and results for TLC |
| `RequestChecksProofs` | the same properties for every token, setting and result |
| `DeployConfig` | what becomes of an env file: accepted, normalised, rendered, started on |
| `Rollout` | a deploy: pipeline, migration Job, old and new pods, and the tables they create |
| `MCRollout` | env files for TLC |
| `RolloutProofs` | the safety of a deploy for every env file |

### `BillingApi`

Ids are fresh uuids and the fields of a row other than its status never change, so the
tables are functions from ids to statuses, `ABSENT` for no row, and the constants `OrderOf`,
`AmountOf`, `QuoteOf` and `CheckoutOf` say what an id stands for.

A use case is cut into the steps at which other threads can see or change something, in the
order of the code:

| Code | Actions |
| --- | --- |
| `POST /quotes` | `BeginCreate` . `SaveQuote` . `Publish` . `Reply` |
| `POST /quotes/{id}/approve` | `BeginApprove` (read, `Quote.approve`, `Payment.from_quote`) . `CallGateway` . `SaveQuote` . `SavePayment` . `Publish` twice . `Reply` |
| `POST /payments/{id}/confirm`, `/fail` | `BeginConfirm`/`BeginFail` (read, guard) . `SavePayment` . `Publish` . `Reply` |
| `POST /internal/test/.../simulate` | `BeginSimulate` (read, table) . `SavePayment` . `Publish` if it changed something . `Reply` |
| `POST /payments/{id}/sync` | `BeginSync` (read) . `SearchPayments` . `ApplyStatus` (second read, table) . `SavePayment` . `Publish` if it changed something . `Reply` |

What happens between two of these steps is private to the thread: `Quote.approve` changes an
object in memory that no other thread holds. A read and the decision made on it are one
action, since nothing can intervene that the decision would notice; the save that follows
is another. `SavePayment` writes what the thread decided, over whatever is in the row by
then; an ignored or duplicate report is saved too, as in the code. `job[t]` is the thread's
place, its decision, the status it read and the events it still has to publish. `Interrupt`
ends a request before any of its steps: the process dies, or the next call raises. That a
call takes effect and then raises is the step followed by `Interrupt`.

`CallGateway` may leave a preference at the provider although the call failed. `provider` is
external: a customer pays through a preference that exists, and the payment then moves as
`ProviderMoves` says; `in_mediation` stands for a status the table does not know. The answer
of the fake gateway (always a preference, always `pending`) is one of the outcomes of the
adapter.

`FairSpec` assumes only that a thread with an enabled local step (one that needs the database or
the broker) is scheduled. The gateway and the search are left out: the search sets no timeout of
its own, and nothing checked depends on its end. No fairness is assumed of clients or of the
provider.

### `QuoteIntake`

A message is delivered (`Deliver`), validated and looked up (`Check`), turned into a quote
(`SaveQuote`, `Publish`), marked (`MarkCheck`, `MarkInsert`: two transactions, as
`mark_processed` makes them), and acknowledged or refused (`Ack`, `Nack`). A message is a model
value with a type (`OS_OPENED`, another one, invalid, or an `OS_OPENED` without its
`service_order_id`, which only the handler misses, and only after the event was looked up) and
an event id, which a publisher that repeats itself uses twice. `OwnEvent` stands for every
`QUOTE_CREATED` that comes back. `Fail` is any exception inside the handler: refused without
requeue, and there is no dead-letter exchange. `Crash` kills a worker, `DropConnection` takes
the connection of a busy one, which goes on and finds out when it acknowledges; both return its
message to the head of the queue. The broker is modelled from how the worker uses it.

`FairSpec` assumes that a worker that can go on does and that Kubernetes restarts one that
exited; both are what the deployment provides. Crashes, exceptions and publishers are under
no fairness.

### `RabbitPublisher`

| Code | Actions |
| --- | --- |
| `publish` | `BeginPublish` . `Acquire` . `BuildPublisher` or `BuildFails` . `Send` . `Record` . `Close` |
| `published_messages` | `BeginRead` . `Acquire` . `List` |
| `drain` | `BeginRead` . `Acquire` . `Copy` . `Clear` |

Every replica has its lock and its list. A message that was written is in `flight` until the
broker reads it (`BrokerReads`). `Close` is the close handshake, which the broker answers
after what was written before it; it is what stands in for publisher confirms. `Cut` breaks
a connection: the call raises at once, later or never (`SendFails`, `CloseFails`), and what
was in flight is read late or lost (`FlightLost`). `Restart` takes a replica away with its
list and the calls it was in; `gone` and `cut` record what that affects. The broker and the
network are external, modelled from how the code uses pika.

`FairSpec`: a thread in a call goes on when it can (pika's socket timeouts end what the
broker does not answer) and the broker reads what it received. The lock is not assumed fair.
With bounded reads and one publish per event, weak fairness is enough: every competitor for
the lock runs out of calls.

### `MemoryRuntime`

The dictionaries hold the objects themselves, so the domain method that decides also
stores: `BeginApprove` and `BeginSettle` change the object at once, and `save` files an
object that is there already. A guard and the assignment after it are one action because
CPython switches threads only at calls and loop ends, and the domain methods have neither in
between. `ApplyPaymentStatusUseCase` reads the status and then calls a method, which is a
switch point: `Decided` and `Act`. `Clear` is the second half of `drain`, and `atRisk` are
the events published in its gap.

### `RequestChecks`

One request at a time: `Authenticate`, then `Approve` or `Sync`, then `Answer`. A token is
the tuple of what decoding depends on (secret, issuer, validity, claims), a provider payment
how each of its fields compares with the billing payment, an SDK result an exception, an odd
value or a status with a body. `Verdict`, `ExecuteCode`, `ApproveCode` and `SearchCode`
follow the order of the code's early returns, since a status is all that tells them apart. An
amount at the provider that is no number raises in `Decimal` what no route catches: `Uncaught`.

### `DeployConfig` and `Rollout`

`DeployConfig` is a set of pure operators on an env file, one group per program that reads
it: `prepare_env.py` (`Accepts`, `Normalised`), `render_k8s_manifests.py` (`Renders`,
`PodEnv`), `Settings` (`SettingsAccept`), and what entrypoint, worker, alembic, probe and
broker broker need (`ApiStarts`, `WorkerStarts`, `JobStarts`, `ProbeSucceeds`,
`BrokerIsReachable`). `KnownLevel` is what `configure_logging` takes for a level, `HostIsTrusted`
whether the kubelet, which calls a pod by its address, gets past `TrustedHostMiddleware`.

`Rollout` runs the pipeline over them. The manual path prepares the file first and leaves
the worker alone; the CI path renders a file that `prepare_env.py` never saw. `Effect` is
what an environment makes of a process, so that a container carries seven flags and two names
instead of the whole file. A container reads the applied environment when it starts, so the
old pods serve on under theirs until something restarts them. `create_all` looks for all its
tables and then creates what it missed, in the order of their declaration, in one
transaction; alembic looks and creates table by table. `LosesTheRace` is PostgreSQL's answer
to two transactions that create one table: the later one waits (`WaitsFor`) and then fails.
A placeholder host is unreachable.

A container that ended is restarted at once or after a back-off (`Restart`): nothing keeps it
from coming back while the Job is in its transaction, so an old pod may race every run of the
Job. A pod whose host is not trusted answers its readiness probe (`Probe`) and its liveness
probe (`LivenessFails`) with 400 and is killed for the latter. The Deployments replace an old
pod when its successor is available (`Replace`), whatever the pipeline waits for; the worker
has no readiness probe and is available while it runs. The pipeline's two waits of 300 seconds
are taken to be long enough for the retries of the Job and for a pod that can get ready, while
the database answers. `lost` counts the runs of the Job that a race and that a kill has ended;
no action reads it.

`Fairness`: the pipeline's commands return, the Deployments replace their pods, the kubelet
restarts and probes what it runs, a process in its constructor goes on, and the database comes
back.

## 3. The runs

Bounds of the first two models: requests begun (`MaxRequests`), crashes and lost connections
(`MaxCrashes`), exceptions (`MaxErrors`). The races the models were written for need two
threads and two requests on one quote or payment, and the passing runs give twice that: two
threads, four requests in all, two quotes of one order, two payments of one quote (or one of
each), one or two provider payments.

| Run | Question | Answer |
| --- | --- | --- |
| `api_concurrent` | What holds with every endpoint, two threads and requests that stop anywhere? | `PaymentBacked`, `AnnouncedIsStored`, `PreferenceFollowsApproval`, `OkIsDurable`; a settled payment changes only by a stale save (`UnsettledOnlyByStaleSave`) |
| `api_serial` | Does the service keep its promise when requests do not overlap? | Yes, even if they stop half way: `ImplementsLedger`, `ApprovedOnce`, `ConfirmedOnce` |
| `api_sync_only` | Does sync confirm only what was paid? | Yes, for the service order and the amount: `ConfirmedMeansPaid` |
| `api_uninterrupted` | What if requests overlap but all finish? | Approved quotes have payments, and everything stored or settled is announced in the end |
| `shared_reference` (violation) | Can one provider payment settle two billing payments? | Yes: two quotes of one order with one amount |
| `intake_faults` | What survives a crash or lost connection and an exception, with two workers? | Nothing is lost or duplicated by the broker, nothing acknowledged early, quotes multiply by at most one per worker and fault, every message is settled; until something raises, every `OS_OPENED` is processed in the end, even a refused one |
| `intake_idempotent` (violation) | Does `processed_events` make the consumption idempotent? | No: a worker that stops between the quote and the mark leaves an event that makes another quote |
| `rabbit_publisher` | Do the lists behind `/events` keep their promise while threads publish, list and drain? | Yes: `ImplementsLog`, `ReturnedIsKept`; what is listed has reached the exchange in that order unless a connection was cut; every call ends |
| `memory_runtime` | Does memory mode keep the promise of the core without its lock or tables? | More than SQL does: `ImplementsLedger` and `SettledOnce` under overlap. But a refused approval strands its quote for good, and a drain loses what is published in its gap |
| `request_checks` | Who is admitted, and what does each SDK result become? | Exactly the valid admins; a sync follows the single matching provider payment; a refusal changes nothing |
| `rollout` | Which env files start, and what do racing containers make of the tables? | `ServesItsSchema`, `VersionMeansTables`; races end at most two of the Job's runs; on the manual path no foreign database is touched; an accepted file is stable and starts; a good environment rolls out |
| `deploy_ready` (violation) | Does the runbook's URL get a pod ready? | No: the readiness probe hands `ssl=require` to psycopg |

Bounds of the others. `rabbit_publisher`: two replicas, one with two threads, two events, two
reads, one cut and one restart; a race for a list needs one writer, one drain and a third call
to see the result. `memory_runtime`: two threads, five requests, two quotes, two payments of one
of them. `request_checks`: every token over three secrets and two issuers, every result with up
to two provider payments; nothing is bounded but the length of the search result, for which the
proof stands. `rollout`: 227 env files (the runbook's, each key changed to each value that some
reader treats differently, and pairs of keys that are read together), each on both paths and
from four states of the database; for two of them also two faults (`MaxFaults`), each a
container that is killed or an outage of the database. Two kills bring both old pods back beside
the Job, each at any moment, or the Job and the pod it races with; that is enough to reach the
two lost races of `RacesDoNotFailTheJob`. `BackoffLimit` is that of the manifest.
`intake_faults` has three copies of one event and an `OS_OPENED` without its order: one fault of
each kind, and enough copies for a bound on the quotes of an event to be exceeded. Messages of
another type are handled as a `QUOTE_CREATED` that comes back and invalid ones as the incomplete
one, so `intake_idempotent` alone has them.

Deadlock is checked in `request_checks`, which runs for ever. Everywhere else the bounded
requests, the settled messages or the finished deploy let an instance end.

The three violations are what the repository's own documents say and the code does not do;
`PROJECT.json` quotes the lines under "findings". `RunbookUrlGetsReady` is checked under
`Rollout`'s `Fairness`: the pod serves, the database is up, and it is probed for ever.
`OneQuotePerEvent` is what `README.md:132` and `fase4-final.md:37` call idempotent; what the code
keeps instead is `QuotesBounded`, and every property that relates quotes, announcements, marks
and acknowledgements.

Next to some definitions stands a variant that no action uses, marked `(Mutant: ...)`.
Each is a plausible bug in the code its neighbour models. `PROJECT.json` lists, under
"mutants", which property of which run fails when a variant takes its neighbour's place, so
that every checked property is known to be able to fail.

### Known limits of the code

What the invariants leave open is as much a result as what they say. TLC reaches each of
these states in the instances above:

- A fail that read `PENDING` saves over a confirmation (`use_cases.py`, read and save are
  two transactions): a `CONFIRMED` payment becomes `FAILED`, and both outcomes are announced.
  Two overlapping syncs announce the confirmation twice. `UnsettledOnlyByStaleSave` says that
  this is the only way. (`SettledOnce` and `ConfirmedOnce` hold in memory mode and without
  overlap.)
- Two approvals that both read `CREATED` around the gateway call open two payments.
- A request cut between its save and its publish leaves an outcome that nobody hears of, since
  nothing publishes it again. `SettledIsAnnounced` holds where requests finish.
- The payment of an approval is visible to the other requests before the approval is announced:
  the outcome of a payment may be on the exchange before the approval of its quote.
- An approval whose gateway call took effect but failed leaves a preference that no payment
  names; the retry makes another one, with a new idempotency key.
- An approval cut between its two saves leaves an approved quote without a payment, which
  cannot be approved again. `ApprovedQuoteHasPayment` holds where requests finish.
- A worker that stops between the save of the quote and the mark makes a second quote on
  redelivery (`intake_idempotent`). `QuotesBounded` says how many there can be.
- One exception in the handler refuses an `OS_OPENED` for good, since there is no dead-letter
  exchange. `RefusedIsProcessed` holds until the first exception.

And some of the documents differ from the code without a run of their own:

- `.env.prod.example` starts with a byte order mark, which makes its first key another one than
  `APP_NAME`: `prepare_env.py` refuses it as it is. Without the mark it passes, but its empty
  secrets make `render_k8s_manifests.py` refuse it.
- The `api` service of `docker-compose.prod.yml` sets no `APP_RUNTIME_MODE` and so runs in
  memory mode.
- `docs/runbooks/troubleshooting.md:105` has an existing schema among the causes of a failed
  migration Job. The migration looks for each table before it creates it, so an existing schema
  stops no run; only a table that comes between the look and the creation does, twice at most
  (`RacesDoNotFailTheJob`).
- `prepare_env.py` takes any `LOG_LEVEL`, and `configure_logging` raises on one it does not know:
  such a file is prepared, rendered and applied, and the API does not start (`Unchecked`).
- `docs/runbooks/deploy-ec2-rds.md:11` has the pipeline run `prepare_env.py`; `ci-cd.yml:119`
  writes the secret to a file and renders it as it is, so there the Job migrates whatever database
  the URL names before the entrypoint refuses it. `ForeignDatabaseUntouched` is about the manual
  path for that reason.
- `docs/runbooks/phase-3-troubleshooting.md:28` has production restrict `TRUSTED_HOSTS`, and
  `k8s/configmap.yaml:13` sets it to the public host name. The kubelet calls a pod by its address,
  which `TrustedHostMiddleware` answers with 400, the health routes included: no new pod gets
  ready or stays alive, and the deploy is given up. `Works`, and with it `GoodEnvRollsOut`,
  excepts such an environment.
- The manual path does not deploy the worker.

## 4. The proofs

`BillingApiProofs` proves for every number of threads, quotes, payments, provider payments
and requests, from `ConstantsAssumption` alone:

- `TypeCorrect`: `Spec => []TypeOK`;
- `PaymentsAreBacked`, `AnnouncementsAreStored`, `PreferencesFollowApprovals`,
  `SuccessIsDurable`: the safety invariants of `api_concurrent`;
- `LostUpdatesOnly`: its action property;
- `ApprovalsReachTheirPayment` and `NoEventIsForgotten`, on the further hypothesis
  `MayInterrupt = FALSE`, under which `api_uninterrupted` runs; see below.

None of the invariants is inductive. The inductive invariant `IInv` adds what a thread in the
middle of a request relies on, which no table shows: a thread about to save a payment has its
preference at the provider and its quote approved; the outbox is what is left of the operation's
events, and those it has published already are with the broker; what it is about to publish is
stored; and a thread that works on a payment, other than its approval, found it stored. Rows are
never deleted, quotes never leave `APPROVED` and nothing published is taken back, so these facts
about one thread survive the steps of the others; that is a lemma of its own. The proof then
goes through the actions one at a time. TLC finds `IInv`, and the invariants below, to hold on
the instances of the runs they belong to.

Two more theorems are about requests that are never cut short. `ApprovalsReachTheirPayment`
is `ApprovedQuoteHasPayment`: a quote is approved by a thread whose next step saves the
payment, and without an interruption there is no other next step. `NoEventIsForgotten` is
what the two liveness properties of `api_uninterrupted` say at every single state, fairness
aside: whatever the tables hold has been announced, or its event is in the outbox of a thread
that has nothing left to do but save and publish (`EventsAreOwed`). It is not inductive. A
request that read an outcome may write it back over another one, so the outcome it read must
be announced or owed as well, whether or not it is still in the table
(`ReadOutcomesAreOwed`). That a fair thread then empties its outbox is left to TLC.

`BillingApiSerialProofs` assumes `Solo`, that there is at most one thread, and nothing about
interruptions. `SoloInv` adds to `IInv` what only another thread could take away: the status
a request saves on is the one it read, a payment that an approval is about to save is the
first of its quote, the outcome a request is about to publish is in the table, and whatever
outcome was announced is too. From it follow

- `QuotesApproveOnce` and `PaymentsConfirmOnce`: the invariants of `api_serial`;
- `LedgerImplemented`: `Spec => ImplementsLedger`. Only `SavePayment` and `Publish` are seen
  by the ledger. A save opens the payment (`Open`), settles it (`Settle`) or writes what was
  there; the publish of an outcome is a `Tell`, any other publish a stutter;
- `OutcomesAreOne`: the promise of the ledger, that no payment is announced with two
  outcomes.

Each of the first two fails without `Solo`, by the races listed above.

`BillingApiSyncProofs` assumes that neither `confirm` nor `simulate` is among `Operations`
and proves `SyncConfirmsPaid`, the invariant of `api_sync_only`, for any number of threads.
`PaidInv` adds that a thread that heard of an approved payment, decided to confirm, or read
`CONFIRMED`, works on a payment that was paid; what was paid stays paid in the sense of the
property, since the provider only refunds or disputes it.

`QuoteIntakeProofs` proves for every set of workers and messages and every number of faults

- `IntakeTypeCorrect`, `MessagesHaveOnePlace`, `MarksFollowEffects`, `AcksFollowMarks`,
  `RefusalsFollowMarks`, `QuotesAreBounded`: the invariants `TypeOK`, `OnePlace`,
  `ProcessedIsAnnounced`, `AckedIsProcessed`, `RefusedIsProcessed` and `QuotesBounded` of
  `intake_faults`.

`PlaceInv` adds up, for each message, its positions in the queue, the workers that hold it
and its settlement; one for a message that was published and none for another. A worker that
lost its connection no longer holds what it is handling, and is not idle before it has found
out (`IdleIsConnected`), so it takes no second message.

`IntakeInv` counts. `QuotesCoverAnnouncements` gives every announcement, and every worker
that is about to announce, a quote of its own. `SettleInv` says that a worker on its way to
acknowledge has found its event processed, and, as long as nothing has raised, so has one on
its way to refuse. `QuoteBudget` charges every quote of an event that is not yet marked
either to a worker still handling the event or to a fault; once the event is marked no
worker starts on it, and those that had started are still counted. The bound follows, and is
reached: `QuotesBounded` cannot promise less than one quote per worker and fault.

`RabbitPublisherProofs` proves for every number of replicas, threads, events and faults
`TypeCorrect`, `ReturnedIsAlwaysKept`, `ListedIsAlwaysReceived` and `PublisherImplementsLog`
(`Spec => Log!Spec`). `IInv` is about one lock: a thread that publishes or drains holds its
replica's lock, so the list it copied is still the list it clears; an event is published by
one call and is in no list before that call has written it; and what a call has written is in
flight, read, or on a cut connection. A step of one thread leaves what the others rely on
alone because they do not hold that lock, which is one lemma (`ThreadStep`) for all of them.
`Record` is the log's `Keep`, `Clear` its `Take`, `Restart` its `Forget`, anything else a
stutter.

`ListsFollowTheExchange` is `ListOrderIsExchangeOrder`, and compares two sequences that grow
at different times. What makes them agree is that the close handshake comes before the next
write. `OrderInv` says that an event is neither in flight nor read before its call has written
it (`NewIsUnwritten`, `WritesLater`), that only the last event of a list can be one whose call
has not returned (`LastIsCurrent`), and that an event the broker has read before it was listed
came after all that its list holds already, cut connections apart (`SentAfter`).

`LocksAreNeverLeft` is the half of `CallsEnd` that does not need fairness: whoever holds the
lock of a replica is a thread of that replica inside its `with` block, whatever raised and
whichever replica went away. A thread that waits therefore waits for one that can go on.

`MemoryRuntimeProofs` proves `TypeCorrect`, `SettlesOnce`, `EventsAlwaysHandedOut`,
`StrandedStaysStranded` and `RuntimeImplementsLedger` for every number of threads and
requests, this time without `Solo`. The argument is ownership. The request that stores a
quote, approves it or confirms a payment changed the object in the step that found it
unchanged, so no other request is in the same position (`Clash`), the object stays as it left
it (`Backed`), and what it is about to announce has not been announced.

`RequestChecksProofs` proves the properties of `request_checks`, and `OpensWithItsCheckout`,
for every set of settings, tokens and results, on one hypothesis: `ResultsShaped`, that a
status is an HTTP status or missing and that the search results are a sequence. It is a
hypothesis of the theorems, not an assumption of the module. The lemma that carries them is
`SingleHit`: a set of hits that is neither empty nor larger than one is a singleton, so the
`CHOOSE` of the model and the first element of the code are the same.

`RolloutProofs` proves `TypeCorrect`, `ServingMeansSchema`, `VersionIsComplete`,
`ForeignStaysUntouched` and `MigratedFirst` for every set of env files and URLs and every
number of runs, kills and outages, from `RolloutAssumption` (a file that gives a URL gives
one that `Urls` describes; the running release has one, and the probes of its pods succeed)
and `MissingAssumption`. Tables are never dropped, so what a
process found stays found. `PodOk` says that the tables of the call a container is at are
committed, created in its open transaction or still on its list; it commits with an empty
list, so a call that is over has all its tables, and so has a run of the migration that
writes the version row. `StageOk` adds which containers the pipeline can have started, and
under which environment; `PathOk` that on the manual path it was a checked one. That an order
of the missing tables lists all of them is `Orders`, from the pigeonhole facts of
`FiniteSetTheorems`.

`PreparingSettles` and `PreparedFilesStart` are about whatever file the deploy was given: one
that `prepare_env.py` accepts is rewritten into one that it accepts and does not change, and one
that was prepared and rendered starts the API, but for the keys that `Unchecked` names.
`MissingAssumption` keeps the marker for an absent value apart from the texts the scripts
compare values with. `Normalised` is what both proofs are about: it maps what it wrote to
itself.

`RacesCostTwoRuns` is `RacesDoNotFailTheJob`. A Job loses a race when another container
commits a table between the Job's look and its own `CREATE TABLE`. Containers of the old
release may restart beside it at any time and any number of times, so no count of restarts
bounds what they can do; the tables do. They come in groups: `create_all` commits `quotes` and
`payments` together, and `processed_events` in a call of its own, unless the migration commits
all of them at once (`TablesInOrder`). A Job that is bound to lose a race (`Doomed`) owes it to
the first commit of a group, and the next run finds that group. So `RaceInv` keeps
`lost.race + One(Doomed) =< GroupsOf(tables[JobBase])`, and there are two groups. That a
`create_all` has no table in hand but those of its call is `InHand`.

`GoodDeploysGoOn` is what this says about a deploy. Once the Job of an environment that every
process takes has started (`Works`: its programs start, its probes succeed and are let through,
its broker and database are reachable), the deploy is given up only for an outage, or when kills
of the Job itself have used up the runs that races leave it:
`outages > 0 \/ lost.kill + 2 >= BackoffLimit`. Kills of other containers never suffice.
`FailsCounted` says that nothing else ends a run of the Job: `fails =< lost.race + lost.kill`
while there was no outage. It is the safety half of `GoodEnvRollsOut`.

Every invariant, action property and refinement that a passing run checks is a theorem. Only
model-checked is what is said under fairness (`SettledIsAnnounced`, `StoredIsAnnounced`,
`EventuallySettled`, `EventuallyProcessed`, `CallsEnd`, `GoodEnvRollsOut`, and the violated
`RunbookUrlGetsReady`), since TLAPS does not prove liveness; `NoEventIsForgotten`,
`MessagesHaveOnePlace`, `LocksAreNeverLeft` and `GoodDeploysGoOn` are as much of it as is
safety.

## 5. Not modelled

Data no property distinguishes: items, descriptions, currencies beyond equal or not, names,
event envelopes, correlation ids, logs and metrics; amounts as decimals (an amount is equal,
different or missing). `Quote.cancel`, `RabbitMqEventConsumer` and alembic's `downgrade`,
which nothing calls. Reads (`GET`) that change nothing. A restart of the broker, which loses
transient messages: the code has nothing that reacts to it. The growth of the publisher's
list in a replica that is never drained, which has no bound to check against. Settings that
only reach the wire (routing keys, expiry times, telemetry). HPA, ingress, images and the
build stages of the pipeline.

## 6. Plan

Done, in the order of importance they were planned in: the core and its proofs
(`BillingApi`, `PaymentLedger`), the worker (`QuoteIntake`), the lists behind `/events`
(`RabbitPublisher`, `EventLog`), memory mode (`MemoryRuntime`), tokens and provider answers
(`RequestChecks`), settings, schema and deployment (`DeployConfig`, `Rollout`).

Left, should the code change in its direction:

1. A composition of worker and API over one database, once something reads a quote by service
   order and acts on it; today `get_by_service_order_id` has no caller that changes state.
2. What is left to prove is safety no run checks yet: that a thread of `QuoteIntake` and of
   `MemoryRuntime` always has a step to take, which their liveness rests on as `CallsEnd` does
   on `LocksAreNeverLeft`.
