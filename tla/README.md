# ticket-hub in TLA+

Models, model-checking runs and machine-checked proofs for ticket-hub: a
ticket shop made of three services, a GraphQL gateway and a worker, connected
by HTTP, gRPC, PostgreSQL, Redis and Kafka. Paths below are relative to the
repository (`src/` in `PROJECT.json`); `O/` stands for
`services/orders-service/src/`.

## 1. The system

| Component | State | Operations | Talks to |
|---|---|---|---|
| Order creation and payment (`O/modules/orders`) | tables `orders`, `ticket_types` | `POST /orders`, `POST /orders/:id/pay`, `GET /orders/:id` | accounts-service (gRPC), Redis lock, outbox table |
| Distributed lock (`O/infra/redis`) | keys in Redis with a time to live; per process the map `lockValues` | `acquire`, `release` | Redis, one connection per process |
| Order outbox (`O/infra/persistence/DrizzleOrderOutboxRepository.ts`) | table `order_outbox` | `enqueue`, `claimPending`, `markAsSent`, `markAsFailed` | written by orders-service, read by the worker |
| Outbox worker (`O/infra/outbox`, `O/main-outbox-worker.ts`) | the claimed batch, a timer, `isShuttingDown` | poll loop, shutdown on SIGINT/SIGTERM | outbox table, Kafka |
| Event catalogue (`O/modules/events`) | tables `events`, `ticket_types` | `POST /events`, `GET /events`, `GET /events/:id` | database |
| Accounts client (`O/infra/grpc`) | attempt counter of a call | `getUserById` with deadline and retries | accounts-service |
| notifications-service | table `order_inbox`, committed offset | Kafka consumer, shutdown | Kafka, its database |
| accounts-service | table `users` | signup, login, me (HTTP), getUserById (gRPC) | its database |
| graphql-gateway | cached query results in Redis; per request `currentUserPromise` | 5 queries, 3 mutations | accounts-service, orders-service, Redis |
| shared-kernel, config, testkit | none | schemas, error classes, environment | |

What makes them hard:

* **Interleaving.** Node runs one callback at a time, so every `await` is a
  point where other requests of the process run; other processes run at any
  time. No database transaction spans two awaited statements, anywhere.
* **Failure.** A statement or command can fail without having been executed,
  or be executed and its reply lost. A process can die between any two awaits;
  what it wrote to PostgreSQL, Redis and Kafka stays.
* **Time.** The lock expires after 3 seconds whether or not its holder is done,
  and the accounts client repeats calls while the lock is held.
* **Delivery.** The outbox is drained by any number of workers in two
  statements per claim; Kafka may get a record twice, and delivers again after
  an error, a crash or a rebalance.
* **Caching.** The gateway fills its cache and deletes from it in requests that
  interleave, and nothing ties either to the tables.
* **Translation.** An error passes through up to three mappings before the
  client sees it.

Correctness, per component:

* lock: at most one holder per ticket type until a key lapses; a release never
  removes the key of another process; an answered request leaves its key behind
  only after an error or after a lapse among the requests of its process;
* orders: no overselling; one order per idempotency key; answers tell the
  truth; refused requests leave nothing; the outbox announces what
  happened and nothing else, and an order stays unannounced for known reasons
  only; every request is answered;
* worker: SENT means published; one owner per claimed row; no needless
  repetition; bounded disorder; nothing is forgotten; it stops when told to;
* notifications: an event is handled at most once, and no message is passed
  unseen; an event is marked and not handled for known reasons only; what is
  published is handled in the end;
* catalogue: one event per idempotency key; an event without all its ticket
  types is never announced by the request that created it;
* accounts: one user per address; the answer of a signup tells what is stored;
* accounts client: the retries fit the time to live of the lock;
* gateway: answers tell what was stored; a cached list is stale for known
  reasons only; every request ends.

The complete list of hazards, each with its line, is in `PROJECT.json`.

## 2. Modules

| Module | Models |
|---|---|
| `RedisLock` | `RedisDistributedLock` |
| `OutboxTable` | `order_outbox` and its statements |
| `TicketSale` | abstract: what the shop promises about stock |
| `OrdersService` | `CreateOrderUseCase`, `PayOrderUseCase`; EXTENDS `RedisLock`, instantiates `OutboxTable`, implements `TicketSale` |
| `OutboxWorker` | `OrderOutboxWorker`, `main-outbox-worker`; EXTENDS `OutboxTable` |
| `AtMostOnce` | abstract: what notifications-service promises about events |
| `Notifications` | `orders-events-consumer`, `DrizzleInboxRepository`, `main-kafka`; implements `AtMostOnce` |
| `EventPipeline` | composition: outbox workers publish what the consumers read; EXTENDS `OutboxWorker`, instantiates `Notifications` |
| `ServiceCalls` | requests, failures and the error mappings the next four share |
| `EventCatalog` | `CreateEventUseCase` and what the queries read |
| `Accounts` | signup, login, GET /me of accounts-service |
| `AccountsClient` | `AccountsGrpcClient` and the getUserById it calls |
| `Gateway` | the resolvers, their context and the cache; composition: EXTENDS the three modules above |
| `...Proofs` | theorems: `RedisLock`, `TicketSale`, `OrdersService`, `OutboxWorker`, `Notifications`, `EventPipeline`, `Services` (the three services below the gateway), `Gateway` |

`MC<Module>` gives the constants their values for TLC; each `.cfg` is one run.

### RedisLock

`redis[t]` is the value stored at the key of ticket type `t`; a lock value is
represented by the request that drew it. `lockValues[p][t]` is the map of
process `p`. `phase[r]` says how far request `r` is: a command is executed by
`SetNX` or `Release`, and its reply handled by `Acquired`, `NotAcquired` or
`Released` later, because in between other requests of the process change
`lockValues`, which is the whole point: `release` looks its value up under the
key (`DistributedLock.ts:31`) and gets what the *last* acquire of that process
put there. One connection answers in order (`ahead`). `Expire` may happen at
any time: the code has no way to know how long its I/O takes. `lapsed` is a
history variable: requests whose key expired under them.

### OrdersService

`pc[r]` names the call that request `r` makes next, one action per awaited
call, with the `try`/`finally` of `CreateOrderUseCase.ts:63-111`: `Throw` goes
to the release of the lock with the answer already decided, and an exception of
`release` replaces that answer. An order has the identity of the request that
created it. `input`, `target` and `reply` are the request and its answer
(`ReplyCode` has the classes that the error mapper distinguishes). `stock` is
`remaining_quantity`. `reserved` is a history variable: the requests whose
UPDATE took stock; without it, lost stock would not be attributable.

Details that matter and are kept: the key is looked up before the lock and not
again; an empty `x-idempotency-key` is not looked up but is stored
(`BlankKey`), one of more than 100 characters is refused by the column
(`LongKey`), as is a total beyond 32 bits (`Int4Max`); the event of a ticket
type is compared after its stock was taken; `pay` checks the status of the copy
it read and writes without a condition. Quantities beyond 32 bits, which the
UPDATE refuses without effect, are left out, and a ticket type that does not
exist is one whose capacity is 0 (the code tells the two apart only in the
answer). A payment names an order that some answer disclosed, or an id that was
never given out. `EnsureUserExists` may end in any way the use case has: a
customer, no user (404), a user of another role (403) or an exception. Which of
these the accounts client gives, and how long it takes, is the subject of
`AccountsClient`; the client of the repository throws instead of returning no
user.

### OutboxTable and OutboxWorker

A row is identified by its position, which is the order of `created_at`.
`claimPending` is two actions, `SelectPending` and `UpdateClaimed`, as it is
two statements; RETURNING lists the rows in any order (`Listings`). Send, then
`markAsSent`, then `markAsFailed` if either threw, with the condition
`status = 'PROCESSING'` in both UPDATEs; an exception of `markAsFailed`
abandons the batch (`Abandon`). `Sleep` sets the timer; `Wake` needs it;
`Signal` clears it. A second signal makes `shutdown` return at once, so the
producer is disconnected (sends fail) and the process exits while its loop
runs. After the shutdown promise hangs, the process lives as long as something
keeps Node's event loop alive: the open connection to Kafka does.
`orders-service` appears as `Insert`: rows are added one by one, in any order,
with one ORDER_CREATED per order. That orders-service does just this is a theorem
(`MeetsWorkerAssumption`).

### TicketSale

A sale takes tickets at once and never more than there are, and may be
confirmed later; taken tickets do not come back. That last sentence is what the
code does: there is no compensation. `OrdersService` implements it with
`taken` = the quantities of the requests in `reserved` and `confirmed` = the
orders stored.

### Notifications, AtMostOnce and EventPipeline

A message is a model value with a key (`KeyOf`), or none when it does not
parse; all events of an order share a partition, so one partition is modelled.
`eachMessage` is `Deliver` (the two early returns, `isShuttingDown` and the
parse), `TryMarkProcessed` (the INSERT ... ON CONFLICT DO NOTHING, and what its
result decides) and `HandleEvent`. Of Kafka and its client the module keeps
what decides correctness: delivery starts from the committed offset, or at the
end of the topic if there is none (`fromBeginning: false`); only the owner of
the partition commits; a former owner goes on until it notices; a handler that
throws gets the message again. The shutdown of `main-kafka.ts` is `life`: the
pool is ended first (`ending`: the statement in flight is waited for, new ones
are refused), then the consumer is stopped (`stopping`: what still arrives is
passed over); a second signal ends the pool twice, which kills the process.
`skipped` and `interrupted` are history variables: the offsets passed without a
look at the message, and the keys whose own INSERT was executed and reported an
error, or whose consumer died between INSERT and handler. `AtMostOnce` promises that an event is handled at most once and only
if it was offered; `Notifications` implements it with `handled` itself.

`EventPipeline` puts both ends together: the topic of the worker is the topic
of the consumers, and a message is the row it was published from. As a whole it
implements `AtMostOnce` too, an event being offered when its row is inserted.

### ServiceCalls, EventCatalog, Accounts, AccountsClient

`ServiceCalls` translates the six error mappings as functions on error
classes, and `Fault(r, kind)`, which records in the history variable
`disturbed` that request `r` met a failure. In each service `...At[r]` names the
statement that request `r` awaits, and `...Reply[r]` is its answer; what a
request creates takes its identity. A row that the database or the row schema
refuses is part of the input: `unstorable` for events (which row of a creation
is refused: the event's, or the n-th ticket type's), `LongEmail` for users.
`AccountsClient.elapsed` bounds from above the time a call with its repetitions
takes, in units of 50 ms, a call being taken to last until its deadline. A
process that dies is a request that takes no further step: there is nothing in
memory that another request could see.

### Gateway

`gatewayAt[r]` is the call the resolver of request `r` awaits. Every request
with a token starts `accountsApi.me` and does not wait for it (`main.ts:48`):
`me[r]` is that promise, and `MeReturns` settles it at any later moment. If it
is rejected and the operation is not one that awaits it, or the document is
refused before any resolver runs (`Malformed`), Node ends the process
(`ProcessDies`): every request in it is `lost`. Queries are `GetCached`,
`Fetch`, `SetCached`; mutations are the call to orders-service and a list of
keys to delete (`toDelete`), one command each. An entry of the cache is the set
of events it lists; no query shows stock, and what is cached of an event under
`event:<id>` never changes. `Event.endsAt` is not nullable and
`GET /events/:id` gives `endAt`, so asking for it fails (`eventWithEnd`);
`GET /orders` has no route, so `ordersByCustomer` always fails. createEvent
sends its idempotency key in the body (`orders-api.ts:101`), where
orders-service does not look: `AwaitUser` calls `CreateEvent` with `NoKey`.
`outdated` is a history variable: queries whose list was outdated when they
cached it. `RestRequest` are clients that call the services directly; the
organizer they name may be any id (`OrganizersOf`), with a user behind it or not.

Placing an order is two actions, before and after the user is asked for over
gRPC. In `PostOrder` the body is parsed (`ask.body`: GraphQL lets through a
quantity below 1 and an id that is no UUID, which `createOrderRequestSchema`
refuses with 400) and the lock is tried, so that the 409 of a lock held by
somebody else comes before anybody looks at the user. `PlaceOrder` is the rest: the
role, the event, the stock, and the INSERT, which fails without any fault if the
total is beyond 32 bits. These are the outcomes of `OrdersService` for requests
without a key, as statuses (`Respond`); stock is not counted here, so 409 is
possible whenever user and event are found. `UserOf` is what `accountsApi.me`
makes of the answer of accounts-service. Paying is `PayOrder`.

## 3. Runs

Every constant is small and named in its `.cfg`.

| Run | Instance | Shows |
|---|---|---|
| `OrdersFaulty` | 2 buyers of 1 or 2 of 2 tickets in one process, with one key, a blank one or none; a payer in another process; all faults | `NoOversell`, `NothingSoldTwice`, `SameKeySameOrder`, `SuccessIsBacked`, `NoPhantomEvent`, `ExclusionUntilLapse`, `LeftKeyExplained`, `MissingEventExplained`, `ImplementsTicketSale`, types |
| `OrdersRefused` | 2 requests in one process, wrong and unknown events, too large totals, all kinds of keys; nothing fails | `RefusalLeavesNoOrder`, `LeakExplained`, `NothingLeftBehind` |
| `OrdersLive` | 2 requests in two processes, all faults, fairness | `ReleaseWithinProcess`, `EveryRequestAnswered` |
| `WorkerTwo` | 2 workers, batches of 2, 3 rows, all faults | `SentIsPublished`, `ClaimedByOne`, `ResolvedStays`, `NeverSentAgain`, types |
| `EventPipeline` | 1 worker, told to stop and started again, batches of 2, 3 rows, Kafka failing; 1 consumer; fairness | `DisorderBounded`, `NothingStranded`, `HandledInBatchOrder`, `HandledOncePerRow`, `PendingIsClaimed`, `ClaimedIsResolved`, `HangsOnlyAsleep`, `SentIsHandled` |
| `Notifications` | 2 consumers, 3 messages of which some share a key or do not parse, all faults | `PassedIsMarked`, `MarkedIsHandled`, `ImplementsAtMostOnce`, types |
| `Gateway` | 2 requests, all operations between them, order bodies that are valid, invalid or too large, tokens of a customer, of staff, of a removed user and invalid ones, all faults, fairness | `SameKeySameEvent`, `IncompleteExplained`, `SignupAnswerTrue`, `RetriesFitLock`, `StaleExplained`, `AnswerTrue`, `EveryRequestOver`, types |

The comment above each property says what it means; `PROJECT.json` names for
each a change of the model, as a plausible bug of the code would be, that
violates it.

Some properties say what may go wrong and why, because the code promises no
more. `LeakExplained`, `LeftKeyExplained` and `MissingEventExplained` name the
ways in which stock, a key in Redis and an event can be lost; `MarkedIsHandled`
says that the events marked and never handled are exactly those of
`interrupted`. `StaleExplained`: a cached list lacks an event whose creation
never deleted the list (sent directly, under way, failed or refused after the
row was stored), or a query cached what it had read before. `AnswerTrue`: an
internal error is a failure or one of the refusals the mappings do not know:
input of createEvent that the schema or a column refuses, input of createOrder
that the schema refuses (400) or whose total has no room in its column, an order
by staff (403), a payment of a paid order (409). It is also the answer to the
two queries that cannot succeed (`ordersByCustomer`, and `endsAt` of an event).

Two of these exceptions sit beside tests that read otherwise.
`gateway/graphql-gateway/tests/integration/graphql/query-orders.spec.ts:10`,
"should resolve ordersByCustomer query by calling orders-service and returning
mapped shape", passes because it replaces `fetch`: orders-service has no route
`GET /orders`. `gateway/graphql-gateway/tests/unit/error-mapping.spec.ts:16`,
"should map 403 to FORBIDDEN", is about the formatter and holds of it; the 403 of
an order does not arrive there as such, as `orders-api.ts:142-144` makes an
`UnexpectedError` of every status but 404 and 409.

Bounds. Requests are used once, so their number bounds every run of
`OrdersService` and of the gateway; two are enough for each race the hazards
name, which are races of pairs, and a third is added where somebody has to pay.
`MaxRows` bounds the rows the worker's environment inserts: three rows and
batches of two give a full batch, a partial one and a row left for the other
worker, or for the next batch. The Kafka client repeats a send at most once.
`MaxMessages` is 3: an event, its repetition, and another between or after
them. `TicketTypes` is 2: one stored, one not. What the runs leave out is left to the
theorems, which have no bounds: the requests of `OrdersFaulty` share a ticket
type, those of `OrdersLive` no process, nothing fails in `OrdersRefused`, and
`EventPipeline` has one worker and one consumer. The largest runs are
`WorkerTwo` (2.9 million states), `Notifications` (2.8 million) and
`OrdersFaulty` (1.1 million), about two minutes each with two workers. The times of the accounts client
are those of the code (500 ms, 50 ms, 2 repetitions, a lock of 3 s) in units of
50 ms. Symmetry is used only where the permuted requests or workers have the
same process and ticket type, and in no run with liveness properties.

Deadlock is not checked in the runs of the lock, the orders and the gateway,
whose requests end, nor in `EventPipeline`, where a worker may hang in its
shutdown; it is checked in `WorkerTwo` and `Notifications`.

### What the repository says and the code does not do

Each of these runs checks one sentence of the repository and finds a
counterexample:

| Run | Sentence | Counterexample |
|---|---|---|
| `LockSafeRelease` | README:33 "safe release with Lua" | A's key expires, B of the same process acquires, A's release finds B's value and deletes B's key |
| `OrdersKeyRace` | create-order.spec.ts:49 "no double stock decrement" | two requests with one key look it up before either has stored an order |
| `OrdersPayRace` | pay-order.spec.ts:10 "prevent double payment" | both payments read PENDING |
| `OrdersCrash` | README:34 "same transaction boundary" | crash between the two INSERTs |
| `WorkerLost` | README:27 "publishes events reliably" | a worker dies with claimed rows |

Two more disagreements are visible in the models without a run of their own.
`main-outbox-worker.ts:47` says "Press Ctrl+C to stop.", and a worker that is
told to stop while it sleeps never does: `HangsOnlyAsleep` shows that this is
the only moment. README:248 says "Idempotency key propagation", and the
gateway's key for createEvent arrives where nobody reads it.

How far three of these sentences do hold is proved (section 5): requests with one
key decrement the stock twice, and payments are accepted twice, only if they
overlap (`LateRetryStoppedHolds`, `LatePaymentStoppedHolds`), and the event of a
new order is lost only if a process is killed or a statement fails
(`MissingEventExplainedHolds`, `CreatedEventNotLostWithoutFaults`).

## 4. Fairness

`FairSpec` of `OrdersService`: weak fairness of each request's next call
(gRPC calls have deadlines, Redis and PostgreSQL answer or the connection
breaks and the promise is rejected; both outcomes are steps). Nothing is assumed
of clients, which need not send anything, nor of the expiry of keys: a lock that
is taken is answered with 409 and not waited for. `FairSpec` of `Gateway`: the same for each request, in
the gateway and in the services, so that a process does not die in
`EveryRequestOver` other than by the rejection the model contains; nothing for
clients or the expiry of cache entries. `FairWorkerSpec`: weak fairness of each
worker's next call, of its timer and of its exit once that is due; none for
signals, crashes, inserts or starts. `PipelineSpec` adds the same for each
consumer: Kafka delivers what is there, the INSERT returns or throws; none for
commits, starts and signals. `RestartedWorkerSpec`, used for the counterexample
`WorkerLost` only, adds that somebody starts a worker that is down, which makes
the counterexample stronger.

## 5. Proofs

All are for any sets of requests, processes, ticket types, keys, workers,
consumers and messages and for any faults, and rest only on the named
assumptions about constants, which TLC evaluates in the runs.
`SaleAssumption` of `TicketSale` is a hypothesis of its theorem, established for
the constants of `OrdersService` where the theorem is used. Each rests on one
inductive invariant, with a lemma per step.

* `RedisLockProofs`. `LockInv`: a request that has been granted its key and has
  not lapsed is the value stored in Redis. Two holders without a lapse would be
  equal; hence `ExclusionHolds`. `LockInv` also says that a process remembers
  values of its own requests only: `ReleaseWithinProcessHolds`, and
  `SafeReleaseWhenSeparate` for one request per process.
  `NothingLeftHolds` needs, for shared processes, that a request in the critical
  section finds its own value: nobody else of its process can have been granted
  the key while it was held, and the replies of earlier commands, which come
  first on the connection, are handled first.
* `TicketSaleProofs`. `SaleBalanced`: the tickets taken are a finite set whose
  size plus what is left is the capacity; a step adds a disjoint block of `n`.
* `OrdersServiceProofs`. `OrdersInv` is the conjunction of the types, of which
  calls a request has behind it at each `pc` (`CallsSoFar`), what a stored order
  has in common with its request (`StoredOrders`), what a payment has seen
  (`Payments`) and what an answer promises (`Answers`). `Kept` collects what no
  step takes back. From it: `TypeCorrect`, `SameKeySameOrderHolds`,
  `SuccessIsBackedHolds`, `NoPhantomEventHolds`, `RefusalLeavesNoOrderHolds`,
  `LeakExplainedHolds`. `ImplementsTicketSaleHolds` maps every step to a step of
  the sale or a stutter, and `NoOversellHolds` then follows from `SaleBalanced`
  through the instance (`NothingSoldTwiceHolds`): stored orders hold tickets that
  were taken. `UsesTheLock`
  says every step is a step of `RedisLock` or leaves it alone, so the theorems on
  the lock hold of the service (`CriticalSectionExclusive`, `NoForeignRelease`).
  Three action properties follow from the invariant and `Kept`: `OrdersStay`
  (orders are not removed, PAID is final), `LateRetryStoppedHolds` and
  `LatePaymentStoppedHolds` (a request that looks after another one was answered
  sees its order). `MissingEventExplained` is inductive on top of `OrdersInv`:
  `StoredRequestStep` lists the ways in which the request of a stored order can
  move on, and each either keeps the reason why nothing is announced yet or
  gives one.
  `LeftKeyExplainedHolds` rests on an invariant of the lock (`Entries` of
  `RedisLockProofs`: as long as nothing has lapsed under a key and process, a
  request in the critical section finds its own value in the map) and on two of
  the service: how far a request is with the lock follows from its `pc`
  (`Stages`), and a request that is through with the lock and whose key is still
  there was killed or has reported an internal error (`LeftOver`).
  `MeetsWorkerAssumption`: every step that writes to the outbox is
  `Insert` of `OutboxWorker`, apart from its bound `MaxRows`. This discharges
  what the worker's model assumes of its environment.
* `OutboxWorkerProofs`. `WorkerInv`: a worker has rows in hand exactly while it
  sends or marks them; those it has not tried are PROCESSING, in no other
  worker's hands and not in the topic; none in hand is PENDING, so no other
  worker can claim it; a row is published before it may be marked SENT. That
  a listing returned by the UPDATE names each row once comes from a surjection
  between finite sets of one size being injective (`ListingOnce`). The steps
  fall into four kinds, one lemma each: a claim, a send, a mark, and those that
  leave table and topic alone. From it: `SentIsPublishedHolds`,
  `ClaimedByOneHolds`, `NeverSentAgainHolds`, `ResolvedStaysHolds`, and with
  `Graceful`, which adds that no worker is signalled twice, `NothingStrandedHolds`.
  With one worker, every claimed row is older than every PENDING one
  (`ClaimedAreOldest`), the PENDING rows therefore have no gaps, and the oldest
  `BatchSize` of them are a piece of the sequence no longer than that
  (`SelectedAreOldest`, a cardinality argument). What was published is less than
  a batch ahead of what is in hand (`BatchIsNear`). Hence `DisorderBoundedHolds`.
* `NotificationsProofs`. `NotifInv`: a consumer whose INSERT took place is the
  only one with that key in hand, the key is in the inbox and not handled yet
  (`OwnsMark`); handled keys are in the inbox, which holds offered keys only; and
  below the offset *every consumer* has reached, owner or not, each message was
  skipped, does not parse or is in the inbox (`PassedSeen`). Only this stronger
  form is inductive, as any consumer may become the owner and commit.
  From it: `NotifTypeCorrect`, `PassedIsMarkedHolds`, and
  `ImplementsAtMostOnceHolds`, with `HandleEvent` as the abstract `Handle`.
  `MarkedIsHandledHolds`: a step that adds a key to the inbox has it in hand or
  is an error of the INSERT, which adds it to `interrupted`; a consumer that has
  it in hand keeps it until it is handled or its process dies; and a key in the
  inbox is never in hand again, as `OwnsMark` leaves it one owner.
  `OneConsumerKeepsOrder`: a single consumer handles events in the order of the
  topic (`HandledInTopicOrder`: two events handled one after the other have
  messages in that order). It is about where it may read again: `TopicOrderInv`
  says that what it has handled lies before its offset (`HandledBefore`), that
  between the offset it would start from again (`Base`) and its own every message
  is settled, that is in the inbox or unreadable (`NoGap`), so that reading those
  again changes nothing,
  and that an event it has in hand comes after everything handled
  (`ToComeIsLater`). `TopicGrows` and `GrowthInv` say that all of this survives
  whatever is appended to the topic, not only one message at a time.
* `EventPipelineProofs` is about the composition. A step of it is a step of the
  workers or of the consumers (`StepOfPipeline`), so `PipelineUsesWorker`:
  `PipelineSpec` implements `WorkerSpec`, and its theorems hold in the pipeline
  (`PipelineKeepsClaims`). For the consumers a step of a worker is `TopicGrows`
  (a send may append two messages, so it is not one `Produce`), whence
  `PipelineInvariance` and `PipelineForgetsNothing`; with `PassedIsMarked` the
  latter gives `CommittedIsHandledHolds`: below the committed offset an event was
  handled, is in hand, was passed unseen or interrupted.
  `HandledInBatchOrderHolds` combines
  `DisorderBounded`, about the topic, with `HandledInTopicOrder`, about the
  handler. `HandledOncePerRowHolds` maps an insertion to `Offer` and `HandleEvent`
  to `Handle`: a published row is a row, and a handled one is not handled again.
* `ServicesProofs`. One invariant per service, each shown both for the steps of
  that service and for any other step, which leaves its variables alone
  (`...Rest`), so that the composition can use them: `AccountsInv` (one user per
  address; what an answer says is stored), `CatalogInv` (one event per key; at
  each statement, which rows exist), `KeylessRequest` (a request without a key
  creates an event of its own), `ClientInv` (the time spent is bounded at each
  attempt).
* `GatewayProofs`. `ServicesStep` says that a step of the whole is at most one
  step of each service. `GatewayInv` adds to the services' invariants what the
  call a resolver awaits says of the operation, the user and the services
  (`CallFits`, `UserFits`, `OrderFits`) and why an answer, once given, stays true
  (`AnswerFits`): tables only grow, and an order that is PAID stays PAID. From
  it: `GatewayTypesCorrect`, `EmailsUnique`, `SignupsAnswered`, `OneEventForKey`,
  `PartialEventsExplained`, `AnswersTrue`; and
  `RetriesWithinLock`, whose hypothesis `RetryBudget <= LockTtl` is the
  arithmetic condition on the client's timeouts (34 of 60 units for the values in
  the code). `StaleInv` on top of it says of every entry that it lists stored
  events only and lacks none without an excuse, and of every list on its way to
  the cache that its events are stored; an excuse is kept by every step unless
  the step deletes the entry. Hence `StaleListsExplained`.

Only model-checked: liveness (`EveryRequestAnswered`,
`PendingIsClaimed`, `ClaimedIsResolved`, `HangsOnlyAsleep`, `SentIsHandled`,
`EveryRequestOver`), which is beyond the prover. Every invariant and every action
property of the passing runs, and the three refinements, are theorems. The
counterexamples of section 3 are TLC's.

Assumptions on constants, all of them checked by TLC in the runs: requests,
processes, ticket types and the functions between them have their types, capacities,
prices, `Int4Max` and `MaxRows` are naturals, quantities and `BatchSize` are
positive, and the values that stand for nothing (`NoRequest`, `NoKey`, `Nobody`,
`NoOffset`) are not among the values they stand beside; `TicketTypes` is positive,
and the users, tokens, operations and stored orders of the gateway are of the kinds
their declarations say (`RegisteredAssumption`, `ClientAssumption`,
`GatewayAssumption`).

## 6. Not modelled

* `GET /orders/:id`: it changes nothing and the gateway does not call it.
* Formatting, logging, routing and schema validation: their outcome is the set
  of inputs a handler accepts. Password hashing and the signing of tokens are
  library calls; a token is the user it names, or one that is refused. A token
  that expires during a request is one that was refused.
* Prices, dates and quantities in the gateway: no property of it depends on them.
* The partitions of the topic: events of different orders have no order to keep.
* Mutations with two fields: a request of the gateway has one. The second field of
  a mutation awaits the user only after the first is done, so a rejection may be
  unhandled there as well.
* Ids that change the path of a URL of the gateway, or that PostgreSQL refuses in a
  comparison.
* Two payments of one order within a millisecond have one key in the inbox
  (`orders-events-consumer.ts:80-86`): the second is passed over as a duplicate.
  In `EventPipeline` every row has a key of its own.
* `created_at` is taken to be the order in which rows become visible: two
  inserts that commit out of order could differ.
* packages/config, packages/testkit and the start of the servers: environment,
  test containers and wiring, with no behaviour to check.
* That two createEvent mutations with one key create two events is modelled and
  forbidden by no property: by the service's own rules they carry no key.

## 7. Plan

1. `PlaceOrder` and `PayOrder` of `Gateway` against `OrdersService`: each outcome of
   the one-step form is one that `OrdersService` has, stated and proved.
2. A positive form of `StaleExplained`: without failures and without overlap, no
   list is stale.
3. `OrdersService` against a catalogue that grows, instead of a constant
   `StoredEvent`.
