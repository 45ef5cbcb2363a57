# Weather subscriptions: models, checks and proofs

This directory is a TLA+ development of the microservices under
`src/microservices`: people subscribe to weather reports for a city, confirm by
a link in an email, get a report every hour or every day, and leave by a link in
a report. The modules model the parts in which something can go wrong between
two calls; TLC checks them on small instances and TLAPS proves the main
properties for every instance.

## The system

| Component | State it keeps | Operations | Talks to |
|---|---|---|---|
| Subscription service (`subscription/internal/subscription`) | the `subscriptions` table, one row per address | Subscribe, Confirm, Unsubscribe, GenerateWeatherReportTasks, ProcessWeatherReportTask | weather service, database, broker |
| Link tokens (`token/jwt`) | none; a signed email and an expiry | Generate, Parse | – |
| Scheduler (`job`, `app/di/sheduler.go`) | events channel, local queue, goroutines | Start, cron jobs, dispatch, work, Stop | subscription service |
| Email publisher (`adapter/email/async`) | none | SendConfirmationEmail, SendWeatherReport | broker |
| Email consumer (`email/internal/delivery/consumer`) | the delivery it handles, its breaker | Start, handle, processIdempotently | broker, Redis, provider |
| Idempotency store (`adapter/idempotency`) | one Redis key per message id | IsProcessed, MarkAsProcessing, MarkAsProcessed, ClearProcessing | Redis |
| Circuit breaker (`сircuitbreaker.go`) | failures, openUntil | CanExecute, RecordSuccess, RecordFailure | – |
| Email endpoint (`email/internal/delivery/handler.go`) | none | Send | provider |
| Weather service (`weather/internal`) | Redis cache of reports and of unknown cities | GetWeather, CityIsValid through cache and provider chain | Redis, providers |
| Gateway (`gateway/internal`) | none | validation, forwarding, renaming of errors | subscription service |
| The four applications (`*/internal/app`) | servers, connections, the goroutines they started | Run, NewApp, Start, Shutdown | database, Redis, broker |
| Logging, metrics, generated code | counters | – | – |

How they interact: the gateway forwards HTTP requests to the subscription
service. Subscribe stores a pending row and publishes a confirmation email with
a link; the link comes back as Confirm. Cron puts a frequency on a channel, the
dispatcher turns it into tasks for the rows that are due, a goroutine per task
asks the weather service and publishes a report. The email service consumes the
broker's queue, uses Redis to recognise a message id, and sends. The weather
service answers from its cache or asks its providers one after the other.
docker-compose starts all containers side by side; each application opens what
it needs and ends when it cannot, and the broker's exchange, queue and bindings
are set up by the email service.

What is hard here: requests that read a row and save it whole later without a
transaction; tasks that are copies of rows; goroutines and channels that end in
no fixed order; consumers that share ids through Redis while calls are lost,
keys expire and processes die; a breaker that feeds back into the queue; cache
entries that are written late, expire, or are of another provider; processes
that start in any order on services that are not there yet, and that stop while
requests are on their way through several of them.
`PROJECT.json` lists each hazard at its line.

What makes each component correct:

- subscription service: double opt-in; only a confirmation switches reports on;
  a row is never a mixture of two requests; a mailed link finds its row; an
  opt-out that no save or task on its way contradicts lasts until its owner
  subscribes again; a success is true when it is told, as long as requests for an
  address do not overlap (another one's save may come before the answer);
- scheduler: a task is created once, attempted at most once and given up only
  when the service is told to stop; a full channel delays and loses nothing; the
  shutdown ends, and without a panic;
- email consumer: no email is lost while nothing fails, and a failure harms one id
  and costs one repeated email at most; an id is worked on by one instance; the
  queue drains;
- breaker: it opens at its limit, stays open for its time and lets calls through
  again after it;
- weather service: an answer is one a provider gave for that city within its TTL,
  "not found" is a recent refusal of the last provider, and no failure of cache or
  provider ends a request while a provider is left to ask;
- gateway and the way back: a client is told what happened: success when it was
  done, a refusal only when nothing was;
- the applications: exchange and bindings are there before what relies on them,
  a handler keeps the broker through the shutdown of its service (the database it
  may lose, when the drain runs out of time), every application comes to serve,
  every request ends.

## Modules

| Module | What it is |
|---|---|
| `Subscription` | the subscription service, its table, links and report tasks |
| `Lifecycle` | abstract: a subscription is absent, pending, active or ended |
| `EmailConsumer` | instances of the consumer, the broker's queue, Redis |
| `AtLeastOnce` | abstract: what a publisher expects of the email service |
| `CircuitBreaker` | simpleCB with its clock and any number of callers |
| `BreakerModes` | abstract: the breaker as three modes; the consumer contains it |
| `Scheduler` | cron, dispatcher, queue, worker, tasks and the shutdown |
| `TaskFlow` | abstract: what happens to a report task |
| `WeatherService` | the weather service's requests, cache, provider chain and Redis |
| `RequestPath` | operators: what each handler and client refuses and how it renames an outcome |
| `Deployment` | the four applications, their starts, stops and crashes, and requests through them |
| `MC*` | instances for TLC |
| `*Proofs` | theorems about the module they are named after, and their proofs |

An abstract module is instantiated in the detailed one with a refinement
mapping, and `Abstract!Spec` is a property of a run: `ImplementsLifecycle`,
`KeepsPromise` (consumer), `ImplementsModes`, `BreakersKeepTheirModes` and
`KeepsPromise` (scheduler).

### Subscription

`rows` is the table; `call`, `stage`, `pending` and `reply` are the local state
of the request goroutines: what was asked, the next call out of the process, the
record that will be saved, the answer. One action is one such call with the code
up to the next one: `BeginSubscribe` (the weather service's answer),
`BeginLink` (Parse), `ReadForSubscribe`/`ReadForLink` (GetByEmail and the
decisions on what it found), `Create`, `Update`, `Publish`, and `Respond`, which
tells the answer: it is decided with the last call, and other requests may save
before it is told. `RepoFails` is a
repository call that failed without effect, the second case of `AfterWrite` one
that was applied and still failed for its caller. `GenerateWeatherReportTasks`
and `ProcessWeatherReportTask` are what the scheduler calls. `Restart` drops the
requests and tasks of a process. CityIsValid's boolean is not looked at, as in
`service.go:68`. Passwords, bodies and wording are left out; a token is the
address and the expiry it carries, and a token's signature is taken as sound.
Saving writes the whole record, which is what gorm's `Save` does.

### EmailConsumer

`place` is the broker's view of each publication (ready, unacknowledged at an
instance, settled), `connected` whether an instance has its delivery channel,
`at`, `pc` and `ok` the handler of each instance, `redis` the idempotency keys.
The actions are the calls of `handle` and `processIdempotently` in their order:
`Take`, `IsProcessed`, `MarkAsProcessing`, `Send`, `MarkAsProcessed`,
`ClearProcessing`, `Settle`, besides `DropNoId` and `Reject`. A failed Redis
call counts as in the code ("not processed", "may process", "only logged").
`Settle` joins RecordSuccess or RecordFailure with the broker call after it:
nobody else reads an instance's breaker. `Deliver` has no prefetch limit, as
`Consume` sets none. Environment: `Evict` (expiry, allkeys-lru, restart of
Redis), `LoseConnection` (nothing opens the channel again), `Restart`,
`BreakerElapses` (time). A sent email is counted in `sent` up to `SentCap`.
`Render` and `Sends`/`SendFails` are the use case: a message outside `Sendable`
has no template that renders and is requeued each time, as the code does it.

### CircuitBreaker

The methods hold a mutex, so each is one step; `inside` are the callers that were
let through and have not reported. The clock starts after `ZeroTime`, the zero
`time.Time`. The mutex makes more callers than the consumer's single one
possible, and the run and the proofs cover any number.

### Scheduler

Each goroutine has a program counter: `start` (Scheduler.Start), `job` (one per
firing), `dispatcher`, `worker`, `stopper` (the goroutine at `cron.go:62`) and
`main` (Run, App.Shutdown, Scheduler.Stop). A `select` with several ready cases
takes any of them; a send on or a close of a closed channel ends the process
with `panicked`. `cancelled` is the root context, which every other context
derives from. Server.Shutdown may run out of time, and then nothing else is
stopped before Run returns, through its deferred DB.Close only. A failed query
gives the firing up.

### WeatherService

A slot of `Requests` holds one request at a time; `pc` is its next call out of
the process: `Lookup` (the reader's Get, one provider's entry after the other),
`Consult` (a writer's GetCityNotFound), `Call` (the provider), `Store` and `Mark`
(the writer's Set and SetCityNotFound), `Reply`. `node` is the provider in the
chain, `held` the statement at hand, `failed` and `refused` the errors met.
`FallThrough` is the chain node's second branch. A statement carries its age and
an entry the rest of its TTL; `Tick` moves both, so there is no clock to bound.
Every call to Redis may fail, and a write that failed may have happened; that
covers an outage, the client the shutdown closes first, and a time-out.
`RedisLoses` drops any entry, `Exit` the process. `WeatherAPI`, `TomorrowIO`,
`OpenWeatherMap` and `Benchmark` class what comes back. `Patience` bounds how long
a request sits on a statement before its next two calls: without it nothing could
be said of an answer's age. What a report says is left out.

### RequestPath and Deployment

`phase` is the call an application's start or shutdown is at, in the order of
`Starting` and `Stopping`, or `serving`, `exited`, `stopped`; `link` its AMQP
connection; `up`, `exchange` and `bound` what is outside. `StartCall` succeeds
when what it calls is there, `StartFails` ends the process otherwise, and
`Restart` is docker's. `Signal`, `StopCall` and `StopTimesOut` are the shutdown:
a drain that runs out of its five seconds ends the process, the subscription
service's through the `DB.Close` that Run deferred (`app.go:54`), so that its
handlers go on for a while without a database. `WeatherClientClosed` is the gRPC
client that a complete shutdown has closed, which only report tasks can meet.
`Crash`, `Outage` and `Recovery` the faults. `ask`, `pc`, `waits`, `stored`,
`mail` and `answer` are a request on its way: it enters by the gateway
(`Forward`), a link (`Visit`), the scheduler (`Report`) or the email service's
endpoint (`Post`), goes through `CallWeather`, `WeatherAnswers`, `GetByEmail`,
`Save`, `Publish` or through `SendEmail` and `Reply`, and may lose whoever waits
for it (`HangUp`) or the process that works on it (`Dies`) anywhere. `RequestPath`
has the decisions: which input is refused where, and which status an outcome
becomes. What a table or queue holds is the other modules' business; here a row
and a publication are just written, queued, dropped or lost. The requests are of
all four kinds of clients, but do not disturb each other: what they share are the
processes and connections.

## Runs

| Run | Bounds | Shows |
|---|---|---|
| `SubRaces` | 1 address, 2 frequencies, 4 requests, 3 in flight | `Consent`, `RowFromOneSubscribe`, `LinksNeverDangle`, `OnlyConfirmActivates`, `OptOutsLast` in every interleaving, with failures, expiry and restarts |
| `SubSerial` | 2 addresses, 4 requests, 1 in flight | `ImplementsLifecycle`, `AnswersMatchTheRow`, `LinksActOnAddressee` |
| `SubOptOutRace` | as `SubRaces`, clock to 2 | violated: `UnsubscribedStaysOut` |
| `Breaker` | 3 callers, limit 2, open for 2 of 8 ticks | `OpenedAtLimit`, `FailuresBounded`, `ImplementsModes` |
| `ConsumerSafety` | 2 instances, 4 publications (2 of one id, 1 without id, 1 that no template renders), 2 refusals, 1 dropped key, 1 fault | `OneIdPerFault`, `ResendsNeedFaults`, `OneWorkerPerId`, `BreakerGuards` |
| `ConsumerPromise` | 2 instances, 3 publications (2 of one id), 2 refusals, 1 dropped key | `KeepsPromise`, `BreakersKeepTheirModes`, `Drains` |
| `ConsumerTwice` | 1 instance, 2 publications of one id | violated: `OneEmailPerId` |
| `ConsumerCrash` | the same and 1 fault | violated: `ReliableDelivery` |
| `SchedRounds` | 2 firings, 2 subscribers, channels of one element | `KeepsPromise`, `FiringsArrive`, `TasksAttempted`, `ShutdownEnds`, `NoPanicWhileServing`, `NoTaskAfterTheWait` |
| `SchedPanic` | 1 firing, 1 subscriber | violated: `NoPanic` |
| `WeatherAnswers` | 2 requests at a time, 2 spellings of a city, 2 providers, TTLs of 2, 1 and 1 ticks, Patience 1 | `ReportsAreRecent`, `NotFoundIsFounded`, `NothingLeftToAsk`, `AlwaysForward` with overlapping requests, lost entries, a failing Redis and exits |
| `Deploy` | 1 request at a time, any number in a row, 1 crash, outage or stop, any services down at first | `AnswersAreTrue`, `ExchangeBeforeMail`, `HandlersKeepBroker`, `DroppedOnlyBeforeSetup`, `EventuallyServing`, `EveryRequestEnds` |

Why the bounds are enough: a lost update takes two requests on one row, and a
third in flight gives a subscriber, a confirmer and a leaver together; the
fourth makes the row exist before. Two lets a clock pass one expiry, and an hour
between two reports. Two copies of an id and two instances are what the Redis
key is for; two refusals open a breaker whose limit is the code's 2. Channels of
one element are full after one send, which the code's 10 and 100 would need more
firings for; their sizes are parameters. Three callers let one succeed and one
fail while a third is inside. Two weather requests let one write what another
read before; two spellings of one city and providers with different TTLs are what
keys and writers must tell apart, and two ticks of TTL make an entry age and
expire. In `Deploy` one trouble meets one request at every step of both; the
safety properties are proved for any number of either. The bounds that cut
behaviours off are guards named in the CONSTANTS: `MaxInFlight`, `MaxTime`, `MaxRefusals`, `MaxEvictions`,
`MaxFaults`, `SentCap`, `Patience`, `MaxTroubles`.

`SYMMETRY` is used where requests, instances or callers are interchangeable, and
never in a run with a liveness property. `CHECK_DEADLOCK FALSE` is set for the
consumer, which really goes quiet when its queue is empty, for the breaker,
whose clock ends, and for the deployment, which may be told to stop. In the
scheduler the stutter `Ended` is the process that is gone, so a deadlock of its goroutines would be found.

### Fairness

Scheduler: every goroutine that can go on does (the Go scheduler runs them all,
and sends, receives and waits that are possible happen); tasks end because of
their 30 seconds' context. Neither the signal nor a firing is assumed to come.
Consumer: a handler goes on (its Redis calls and the provider answer in the end),
time passes, and the broker pushes what is ready to an open channel. Refusals are
finite (`MaxRefusals`) and every message can be sent in `Drains`: a message that
never can be is requeued for ever, which is what the code does. Nothing is
assumed to repair a connection.
Deployment: a request goes on (its calls return: the database, an SMTP dialogue
and the weather service's providers answer or fail in the end), an application
goes on with its start or shutdown, an exited container is restarted and an
outage ends. `docker-compose.yml` restarts the three services and what they use;
the gateway is not in it, and its restart is an assumption of the same kind.
Nobody is assumed to make a request, and a client need not hang up.

## What the code does not keep

Four runs show a sentence of the documents or of the code that the program
violates; `findings` in `PROJECT.json` quotes them:

- `SubOptOutRace`: Confirm and Unsubscribe save the record they read
  (`service.go:121`, `:144`). A Confirm that read before an Unsubscribe saved
  undoes it, although both were answered with success.
- `ConsumerTwice`: the deferred ClearProcessing (`consumer.go:169`) deletes the
  key that MarkAsProcessed has just set to `done`, so "already processed" is
  never found once a handler has returned.
- `ConsumerCrash`: a key left by a dead instance makes the next one acknowledge
  the redelivered message without sending (`consumer.go:164`).
- `SchedPanic`: on the signal the goroutine at `cron.go:62` closes the events
  channel (`cron.go:76`), and a cron job that is about to send on it
  (`cron.go:33`, `:50`) panics. Where no job is sending, `sheduler.go:64` closes
  the channel a second time, which panics as well.

Also met while modelling, and part of the models without a run of their own: a
report queued before an unsubscribe is mailed after it (`service.go:168`); a
link of an earlier Subscribe confirms a later one, since the token is not
compared with the row (`docs/sdd.md:82` says it is); links expire after 24 hours
(`jwt.go:25`; `docs/sdd.md:78` says they do not); tasks in the queue and in
goroutines are lost on shutdown (`sheduler.go:61`); one failed query skips all
reports of a firing (`dispatcher.go:57`); when requests for an address overlap, a
success may be told after another request's save has made it untrue (the answer
comes behind `service.go:121`, `:144`); when the drain of the shutdown runs out of
time, the database is closed under the handlers that are left (`app.go:183`,
`:54`); after a lost connection the consumer
never consumes again (`consumer.go:69`), and after the broker was away the
subscription service never publishes again while it answers 200
(`connection.go:14`, `service.go:95`).

On the way of a request (paths under `src/microservices`):

- the HTTP weather client asks `/weather` and `/validate` where the weather
  service serves `/api/weather` and `/api/weather/validate`
  (`subscription/internal/adapter/weatherhttp/client.go`): without `USE_GRPC`
  every city is a 404 to the client inside the subscription service;
- over gRPC an unknown city is an error like any other
  (`weather/internal/delivery/grpcapi/handler.go`), so the client gets a 500; over
  HTTP Subscribe does not look for the client's error and GetWeather's handler
  compares with another one.
  `UnknownCitiesAreServerErrors` proves that nobody is ever told otherwise;
- the gateway routes the exact paths of `config.yaml` only: a link with its token
  is not among them (`gateway/internal/delivery/router.go:15`), which is why
  links lead to the subscription service itself;
- its 504 comes after 30 seconds and its `WriteTimeout` is 15
  (`gateway/internal/config/config.go:36`): with these settings the client sees a
  closed connection;
- WeatherAPI's status is not looked at: another error's body becomes a report of
  zeros and is cached (`weatherapi/provider.go:65`), and `CityIsValid` takes a
  body that is no JSON for a yes;
- the weather service closes its Redis client before it drains its servers
  (`weather/internal/app/app.go:189`); `NothingLeftToAsk` shows that the requests
  still in flight only miss the cache;
- a task goroutine is started for every task at once (`job/worker.go:62`); no
  limit is stated anywhere, so there is none to check;
- the email service's HTTP endpoint has no caller here: the subscription service's
  synchronous client is not used.

## Proofs

TLAPS checks every leaf; the constants are arbitrary up to `BreakerAssumption`,
`ConsumerAssumption`, `SubscriptionAssumption`, `SchedulerAssumption`,
`WeatherAssumption` and `DeploymentAssumption`, which TLC evaluates for the runs.

`SubscriptionProofs`. `Consent` and `LinksActOnAddressee` speak of rows, tasks and
messages, but a row is written from what a request has held since its read; so the
invariant asks of each held record what it asks of a stored one (`Sound`) and, by
operation, what the save may say (`Held`: a Subscribe's record is unconfirmed, a
Confirm's confirmed, an Unsubscribe's unsubscribed). `Known` is what a request has
behind it at its stage; its last part, that the address of a link has a row, is why
links never dangle. `Steady` collects what no step takes back (a request that came,
the record it holds, the existence of a row), so that what was sound stays so, and a
step is checked only on the request it belongs to (`OneRequest`). Then
`OnlyConfirmActivates` follows from `Held` at the save, and so does `OptOutsLast`:
a save that is not on its way yet has first to read, and of an unsubscribed row
only a Subscribe's read leads to a record that is not. All
of this holds for overlapping requests. The refinement of `Lifecycle` does not, and
the finding `SubOptOutRace` shows why. The second half of the module proves that
this is the only reason: as long as no two requests are between read and save of the
same address (`OneWriter`, what a lock on the row would give), what a request holds
is what the row still is, edited (`Fresh`); so a save is a move of the lifecycle
(`OneWriterImplementsLifecycle`) and a row leaves `unsubscribed` only through a
Subscribe (`OneWriterKeepsOptOuts`), whatever else interleaves. `OneWriter` is a
hypothesis the code does not establish; where requests come one at a time it is
an invariant, and `SerialRequestsImplementLifecycle` proves what `SubSerial` checks
for any number of addresses, requests and rounds. `AnswersMatchTheRow` needs more
than `OneWriter`, since a save of another request may come between the last call of
a handler and its answer: `OneAtATime`, one request of an address from its read to its
answer. Under it the decision that a request carries to its answer stays founded
(`AnswersFounded`), which gives `OneAtATimeAnswersMatchTheRow` and, where requests
come one at a time, `SerialAnswersMatchTheRow`.

`SchedulerProofs`. That nobody panics before the signal needs only that channels are
closed after it (`OnlyAfterSignal`). That a task has one fate needs `FiringOnce` (a
firing is in the channel at most once, and has no task until its subscribers are
read) and `TaskOnce` (batch, queue, goroutines, attempted and dropped are disjoint,
and the batch is empty while the dispatcher is not enqueueing, or a second query
would forget tasks). With them every step is one of `TaskFlow` or a stutter
(`SchedulerKeepsPromise`), for channels of any capacity.
A second invariant, `ShutdownInv`, is about Stop. `NoTaskBeginsAfterTheWait` looks as
if it followed from the wait on the worker, but main may find the worker not yet
started, since Start runs beside it, and go on; then nothing may be on its way
(`Quiet`), which holds because Start comes to cron last (`StartOrder`) and the
root context is cancelled by then (`WorkerWaitedFor`). `ClosedByOne` counts the two
closes of the events channel: `StopOutrunsTheStopper` says that a Stop that got as
far as closing the queue without a panic did so because the stopper goroutine, which
waits for the same signal, has not run: the second of the two ways to panic that
`SchedPanic` is about, for every schedule.

`CircuitBreakerProofs`. `BreakerInv` is `TypeOK`, `OpenedAtLimit` and a bound of
the failures by the callers that are inside: `failures <= maxFailures - 1 +
Cardinality(Callers)` alone is not inductive, since a caller who reports could be
let through again; while the breaker is open nobody is, so the bound counts those
that still are inside. Then the breaker with a clock implements the one with
modes (`BreakerImplementsModes`), and with a single caller an opened breaker
stays open (`BreakerStaysOpen`; nobody is inside who could close it). With any
number of callers, reporting as late as they like, it is open for one duration more
at most (`BreakerReadmits`), which is the safety core of "lets calls through again".

`EmailConsumerProofs`. `ConsumerInv` is inductive and holds through faults. Its core
is a bound per fault: `HurtBounded` says that no more ids than there were faults are
not `Healthy`. An id is healthy when the deliveries handled for it are still their
handlers' (`HandlersHold`), its `processing` key has a worker (`KeyFounded`: the copy
an instance skips is covered by that worker's own), and it is `Answered`: its email
went out, or a copy is left that nobody is about to acknowledge. That some copy is
unsettled would not be inductive: two instances might be about to acknowledge the
two copies of an id, each counting on the other's. Every step but a fault keeps a
healthy id healthy, and a fault touches one instance or one call and so one id.
From it follow `ConsumerOneIdPerFault`, and without faults
`ConsumerReliableUntilAFault`: the sentence that `ConsumerCrash` refutes is true
until something fails. `ConsumerResendsNeedFaults` needs `SendsBounded`, which counts
with the emails of a publication the handlers that may still send it: those whose
delivery the broker has taken back (`Stray`), and the one it counts on (`Chance`).
`DoneMeansMailed` says that who is about to store `done` has sent, hence
`ConsumerDoneIsMailed`; `OneWorkerPerId` needs `WorkerHasKey`. With `MaxFaults = 0`
every step is a step of `AtLeastOnce` or a stutter (`ConsumerKeepsPromise`).
`ConsumerBreakersKeepTheirModes` shows each instance's breaker to be a breaker.

`WeatherServiceProofs`. `WeatherInvariant` adds to the types what is known at each
step: an entry of the cache holds a statement of its own provider and city whose
age and rest add up to no more than its TTL and Patience (a late `Store` gives an
old statement its full TTL, so the sum and not the age is bounded); a statement at
hand is younger by what the request waited since; and the providers before `node`
have failed the request. The last needs that a request in `lookup` has none yet.
From it follow `ReportsStayRecent`, `NotFoundStaysFounded` and
`ChainIsExhausted`, for any chain, TTLs and number of requests.
`RequestsMoveForward` gives each step a rank in (provider, call) that falls, so a
request makes no call twice and at most `4 * Depth + 1` in all, whatever fails.
`RedisHoldsOneEntryPerKey` is what lets the model keep the cache as a set of
entries: late writers replace, they never leave a second answer behind.

`DeploymentProofs`. `DeploymentInvariant` has a part for the applications and one
for the requests. `SetUpSoFar` says what the email service has behind it at each
call of its start, `Verified` that the subscription service has seen the exchange;
both hold through restarts because exchange and bindings are durable. `Drained`
is about the subscription service's own shutdown: past the drain no handler is left
and none begins, up to the closing of the broker's connection that connection is
there, and without one there is no handler. The last part is what
`HandlersKeepTheBroker` says, and alone it is not inductive: the step that closes the
connection needs the first part, a new request the second. A drain that runs out of
time skips that step. `Progress`
says what a request at a step may have done: nothing before `save`, its row at
`publish`, and, while a handler works on it, no answer but a cut or the gateway's
504. `AnswersAreTrue` alone is not inductive: a gateway that gives up leaves a
handler behind that may still write. From it follow the theorems on each safety
property. `RequestsMoveOn` gives every step of a request a
rank that falls, through outages and restarts; it is the safety core of
`EveryRequestEnds`, the rest of which is fairness. `RequestsHaveTheirProcess` says
that no request is in a process that is not up. `Untroubled` is what holds until the
first outage, crash or stop: every link that was opened is open. So a publication is
refused or lost only after one (`MailIsLostForAReason`), and a process ends before
one only for want of the database, Redis or the broker or, the subscription
service's, of the exchange the email service declares
(`ProcessesEndForAReason`): the start order costs restarts of that service and
nothing else. `UnknownCitiesAreServerErrors` follows each outcome of the weather
client through the handlers' status tables of `RequestPath`.

Together: `simpleCB` implements `BreakerModes`, and the consumer's model uses its
breakers only in the way `BreakerModes` allows.

Only model-checked is liveness (`Drains`, `FiringsArrive`, `TasksAttempted`,
`ShutdownEnds`, `EventuallyServing`, `EveryRequestEnds`): fairness needs ENABLED, which
this prover does not handle. Of the safety properties and refinements that the
passing runs check, each is the statement of a theorem, `ImplementsLifecycle`,
`AnswersMatchTheRow` and the consumer's `KeepsPromise` under the bound of their runs
(`MaxInFlight = 1`, twice, and `MaxFaults = 0`), without which the code does not have
them.

## Not modelled

The synchronous email client and the SendGrid provider, which nothing uses;
logging, metrics and the middleware that numbers requests, which nothing reads;
generated protocol code; the archived monolith. `components` in `PROJECT.json`
has the reason for each. SMTP without a timeout is taken as a send that returns.
Message bodies, reports and wording carry nothing the properties distinguish. The
weather service's two servers stop each other when one fails to listen; ports are
taken as free. A browser's OPTIONS request is answered by the gateway's middleware
(`gateway/internal/middleware/cors.go:12`) and reaches no route.

The id of a report is made of the hour in which its task is processed
(`service.go:174`), so a task delayed over the full hour takes the id of the next
report. Each half is modelled (`ReportFor` in `Subscription`, the ids in
`EmailConsumer`); their composition with a clock of hours is not: scheduler and
consumer together are beyond an exhaustive run, and the consumer forgets an id
when its handler returns (`ConsumerTwice`), so the second report would be sent in
the code as it is.
