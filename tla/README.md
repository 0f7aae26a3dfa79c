# AIPX: specification and verification

TLA+ models of the AIPX trading platform, the TLC runs that check them on small
instances, and TLAPS proofs of the properties that should hold for every
instance. Everything here is translated from the code; source positions are
relative to the repository, and `PROJECT.json` ("map") gives the lines that each
definition stands for.

* [1 The system](#1-the-system): its components, their state and operations
* [2 What is hard](#2-what-is-hard): the behaviours the models are about
* [3 The modules](#3-the-modules): how state and actions correspond to the code
* [4 The runs](#4-the-runs): what TLC checks, the bounds, the fairness
* [5 The proofs](#5-the-proofs)
* [6 Where the code departs from its own words](#6-where-the-code-departs-from-its-own-words)
* [7 What is not modelled](#7-what-is-not-modelled)
* [8 Plan](#8-plan)

To run a check or a proof: `tlc -config X.cfg M`, `tlapm M.tla`, in this directory.

## 1 The system

AIPX is a set of services around Kafka, Redis, PostgreSQL/TimescaleDB and the
Korean broker KIS. Market data flows from KIS over `data-ingestion-service`
through Kafka to `data-recorder-service` and to consumers; strategies flow from
`cognitive-service` through Kafka to `strategy-worker`, which is meant to send
orders over gRPC to `order-management-service` (OMS), which sends them to KIS and
publishes what became of them; `notification-service` tells the user;
`user-service` issues the tokens that everything is used with.

| Component | State it keeps | Operations | Talks to | What makes it correct |
|---|---|---|---|---|
| **OMS order pipeline** (`grpc/`, `cmd/server`) | open streams per user; one goroutine per request; the process | `StreamOrders`, `validateToken`, `processOrder`, `sendResponse`; start, graceful and forced stop | rate limiter, risk engine, executor; the client over a gRPC stream | every request is answered; ACCEPTED means there is an order; a stream's or the process's end leaves nothing inconsistent |
| **OMS risk engine** (`risk/`) | rules in order, `enabled`; fingerprints and cached PnL in Redis | `Validate`, `AddRule`, `RemoveRule`, `Enable`, `Disable` | Redis | an order that breaks a rule does not reach the executor; no duplicates within a window |
| **OMS executor, orders table, KIS client** (`broker/`, `repository/`) | `orders` rows (status, broker id); retry counter; circuit breaker | `Execute`, `Cancel`; `CreateOrder`, `UpdateOrderExecution`, `UpdateOrderStatus`, `CancelOrder`; `SubmitOrder`, `CancelOrder` | PostgreSQL, KIS over HTTP, topic of order events | table, events and broker agree; no order is sent more often than the retry limit; final states are final |
| **OMS rate limiter** (`ratelimit/limiter.go`) | a Redis hash per user: tokens, last update | `Allow`, `AllowN`, `PriorityAllow`, `GetRemaining`, `Reset` | Redis (Lua) | burst plus rate bounds what is granted; who is under the rate is served |
| **Data recorder: buffer and writer** (`buffer/`, `writer/`) | buffer, flush signal, ticker; the batch being written; rows | `Add`, `Start`, `Flush`, `Stop`; `WriteMessages` | TimescaleDB | what was accepted is written once, or counted as lost |
| **Data recorder: consumer and process** (`consumer/`, `pkg/kafka`, `cmd/server`) | read, marked and committed offsets; where the shutdown is | `ConsumeClaim`, handlers; `Start`, `WaitForShutdown`, `Shutdown` | Kafka, the buffers | a committed message is accounted for; a shutdown flushes |
| **Data recorder: S3 writer** (`writer/s3_writer.go`) | objects under keys that name a kind and a second | `WriteMessages`, `Close` | S3 | what was reported as uploaded is there. Its buffers are made (`main.go:159-176`) and never fed (`main.go:188-192`) |
| **Data ingestion: KIS WebSocket client** (`internal/kis`) | connection, status, subscriptions, reconnect trigger; access token | `Connect`, `Subscribe`, `Stop`; reader, heartbeat, reconnect and token goroutines | KIS | a lost connection is replaced; one connection at a time |
| **Data ingestion: parsing and publishing** (`message_parser.go`, `market_producer.go`, `cmd/server`) | counters; where the shutdown is | `messageProcessor`, `Publish*`, `Stop` | shared Kafka producer | messages are published once and in order, or counted |
| **Shared Go Kafka producer and consumer** (`shared/go/pkg/kafka`) | `closed`, metrics under one lock; session | `SendMessage`, `Close`, result goroutines; `ConsumeClaim` | Kafka | `Close` ends; a failed message is handed out again |
| **Shared Go Redis lock and limiter** (`shared/go/pkg/redis`) | key with a token and TTL; sorted sets | `Acquire`, `TryAcquire`, `Release`, `Refresh`, `WithLock`; `Allow`, `Reset` | Redis | one holder; only the holder releases; a window holds its limit |
| **Shared Python library** (`shared/python`) | as the two above | the same operations on asyncio | Redis, Kafka | as above |
| **Strategy worker: execution** (`executor/`, `monitor/`, `risk/`) | active executions and their monitors; positions, PnL; execution rows | `execute_strategy`, `stop_execution`, the monitor's loop, `check_order`, `check_stop_loss` | OMS client, PostgreSQL | a stopped strategy has no positions left; orders and positions agree |
| **Strategy worker: consumer and main** | offsets, `_running` | consume, process, commit; shutdown | Kafka | a strategy runs once |
| **Notification service: consumer and channels** (`consumer/`, `channels/`, `repository/`, `templates/`, `cmd/server`) | offsets and session; preferences and history in PostgreSQL | `handleMessage`, `sendWithRetry`, the channels' `Send` with retries of their own; start and stop | Kafka, Telegram, Slack, mail, PostgreSQL | each channel gets its notification once, with its own configuration; the history is true |
| **Notification service: channel manager** (`channels/manager.go`) | registered channels, routing rules, counters, under two locks | register, unregister, rules, `Send`, `HealthCheck`, `GetMetrics` | the channels | what it reports is what happened |
| **User service: sessions and profile** (`handlers/`, `repository/`, `auth/jwt.go`, `middleware/auth.go`) | users; refresh tokens with `revoked` and expiry; access tokens nobody stores | `Signup`, `Login`, `Refresh`, `Logout`, `GetMe`, `UpdateMe`, `DeleteMe` | PostgreSQL | no session outlives its end; addresses are unique; no update is lost |
| **User service: limiters** (`middleware/rate_limiter.go`) | failure counters, lockouts and request counters in Redis, or in memory when Redis is away | `Limit`, `checkRateLimit`, `recordFailed*`, `clearFailed*`, `CleanupExpired`; the general `RateLimiter` | Redis | an account locks after the limit and unlocks again; a window holds its limit |
| **Backtesting engine** (`src/engine`) | cash, positions, event queue | `run`, `match_order`, `execute_buy`, `execute_sell` | files of prices | cash and positions are conserved; no look-ahead |
| **Cognitive service** | session dictionary, workflow state | chat and strategy routes, graph nodes | language model, Kafka | a strategy is published once the user confirmed it |
| **ML inference**, **dashboard**, **deployment** | | | | see section 7 |

## 2 What is hard

* **Calls that fail after they took effect.** KIS takes an order and the answer is
  lost; a statement commits and the connection breaks; a transaction is retried
  after it committed; a mail is delivered and the session ends in an error. The
  models give each call that leaves the process three outcomes: done, not done, done
  but reported as an error.
* **Contexts that end under running work.** The goroutine of a request shares
  the context of its stream; the flush callback shares the context that the
  shutdown cancels first; a client that hangs up cancels the limiter's commands.
* **Interleaving.** One goroutine per request, per claim, per timer; each is cut at
  every call that leaves the process and at every lock. Redis scripts are atomic,
  sequences of Redis commands, pipelines included, are not. No handler of the
  user service opens a transaction.
* **Clock readings used later.** The rate limiters read the clock before their
  commands run, so commands run out of the order of their readings.
* **Expiry under somebody who does not learn of it.** Locks, fingerprints, counters,
  refresh and access tokens.
* **Crashes.** No service has a recovery step. What tables, Kafka, Redis and the
  broker hold after a crash is all there is.
* **Redelivery.** Kafka hands messages out again after a rebalance or a crash, and
  a message that failed is passed over by the mark of the next one.
* **Shutdown sequences** over several goroutines, and locks held while waiting for
  those who want them.

`PROJECT.json` ("hazards") lists each of these at the line where it bites, with the
properties that would catch it going wrong.

## 3 The modules

    OMS
      OrderLifecycle      what the orders table promises (abstract)
        ^ refined by
      OrderExecutor       Execute and Cancel, table, broker, events   OrderExecutorProofs
      OrderCallers        the same, ids of Cancel from the table      OrderPipelineProofs
        ^ instantiated by
      OrderPipeline       streams, requests, risk rules, answers,     OrderPipelineProofs
                          the life of the process
      TokenBucket         the rate limiter                            RedisGuardsProofs

    data recorder
      BatchBuffer         buffer, flusher, writer                     BatchBufferProofs
        ^ instantiated by
      MarketRecorder      Kafka consumer, restarts, shutdown          MarketDataProofs
      S3Writer            objects and keys                            MarketDataProofs

    data ingestion
      MarketFeed          the WebSocket client of KIS                 MarketDataProofs
      MarketPublisher     processor, shared Kafka producer, Close     MarketDataProofs

    StrategyWorker        consume loop, executions, shutdown          StrategyWorkerProofs

    notification service
      NotificationDispatch  consumer, channels, history, shutdown     NotificationDispatchProofs
      ChannelManager        registry, rules, counters                 NotificationDispatchProofs

    user service
      AuthSessions        accounts, sessions, profiles                AuthSessionsProofs
      LoginLimiter        failures and lockouts                       RedisGuardsProofs
      RequestCounter      requests per window                         RedisGuardsProofs

    shared Go
      RedisLock           the lock                                    RedisGuardsProofs
      SlidingWindow       the sliding-window limiter                  RedisGuardsProofs

Each `MC` module extends the module it checks. Operators whose name has an
underscore (`Retry_OneTooMany`) are plausible bugs in the definition before the
underscore; nothing uses them except the sensitivity checks listed under
"mutants", which put one in the place of its definition and expect the named
property to fail.

**Sums.** `MCOrderExecutor`, `MCRedisGuards`, `MCMarketRecorder`, `MCMarketIngestion` and
`MCNotificationDispatch` check several small models in one run. A variable `part`
(`half` in `MCMarketIngestion`) is chosen in the initial state and never changes; a behaviour is one of the model it
names, and the variables of the others do not move. The state spaces are added, not
multiplied, and a property of one model is checked in all its behaviours. Where a
model has fairness, it is required of its own behaviours only, or the other models'
variables rest in a state in which it asks nothing.

### OrderExecutor

One member of `Orders` is one call of `Execute`, one of `Cancellers` one call of
`Cancel`. `pc` is where the call is, in the code's order: `create` (the INSERT),
`submit` (the retry loop of `KISClient.SubmitOrder`), `saveExecution`
(`UpdateOrderExecution`), `markSent` (`UpdateOrderStatus`), `publishSent`; or after
the last failed attempt `markRejected`, `publishRejected`. The two columns that
matter are `status` and `brokerId`. `placed` counts what the broker took, and it
numbers the broker's ids, so `brokerId[o] = placed[o]` says that the row names the
last of them.

* A submission has three outcomes (`SubmitAnswered`, `SubmitAnswerLost`,
  `SubmitNotTaken`). The third stands for a refusal, an unreachable broker, an
  open circuit breaker and an ended context. The retry loop goes on after every
  error, as `kis_client.go:123-155` does, and submits without an idempotency key.
* A failed `UpdateOrderExecution` or `UpdateOrderStatus` is logged and passed over
  (`logged`). Statements are by id only, so they overwrite any status.
* `Cancel` works from the row it read first (`readId`).
* `LearnsFrom` says where the caller of `Cancel` has the id from. No code in the
  repository calls `Cancel` (the rpc of the service's README is not implemented),
  and the response carries the id of the request, not of the row; a caller can
  have the id from the table or from an order event. The two give different
  guarantees, so both are checked.
* `FILLED` and `PARTIALLY_FILLED` are statuses of the table that no path reaches:
  `submitOrderInternal` never sets a filled quantity.

`OrderLifecycle` is the abstract promise: created PENDING, SENT only if the broker
has it, nothing moves a REJECTED or CANCELLED order.

`TableIsTrue` says what a row is worth: SENT means the broker took an order
(`SentIsAtBroker`), the id in it is that of the last one (`TrackedIsLast`), and
REJECTED excludes both an id and a SENT event (`RejectedIsUntracked`).

### OrderPipeline

`stage` is where `processOrder` is with a request: the rate limit, the rules in the
order of `registerRules` (three price rules, then `EXISTS` and `SET` of the
duplicate rule as the two commands they are, then the symbol list), `execute`,
and the answer. Execution itself is `OrderExecutor` (`Exec`). Three variables are history:
`window` has the orders that passed the duplicate rule since their key was last
dropped, those included whose `SET` failed and was only logged (`unset`), and
`earlier` what the window was when an order's `EXISTS` found no key.

A stream is opened by `Connect`, which refuses an empty token and takes any other
for the same user, as `validateToken` does; without the header the user is whoever
the client's metadata claims. A stream ends, and with it the contexts of its
requests, by `Disconnect` (also a client that half-closes while it waits for
answers). `Signal`, `ForceStop` and `Exit` are `Server.Stop` and the rest of `run`:
nobody waits for the goroutines of `processOrder`, so `Exit` can cut them; `Crash`
can at any time.

### TokenBucket

`AllowN` reads the clock, `Eval` runs the Lua script (`Grant` or `Refuse`), `Tick`
passes time between any two. The hash is `tokens`, `last`; `wrote` is when EXPIRE
was set. Doubles are taken as exact integers because only a floor reaches the
state; nanoseconds beyond 2^53 lose 256 ns in Lua and are abstracted to ticks.
`PriorityAllow` always says yes and changes nothing. `granted`, `since`,
`inOrder`, `told`, `refusedFrom` are history. `RefusalsAreDue` says that a caller
who asked for no more than the bucket could hold, and left it time to fill, is
served, and that what `GetRemaining` told was there.

### BatchBuffer, MarketRecorder and S3Writer

`BatchBuffer` cuts `Add` at the mutex (`AddCheck` reads `running`, `AddLocked` is the
rest) and the flusher at its select, its unlock and each attempt to write. `age`
counts ticks since `lastFlow`: the timeout has not passed at 0, has passed at 2,
and may have passed at 1. `ctxDone` is one variable because the context given to
`Start` is the one the callback writes with (`main.go:147`). An attempt to write is
one transaction that commits, fails, or commits with an error reported; rows are
counted per message, as the tables have no key.

`MarketRecorder` instantiates it for one message type, with a claim per partition
as an adder. `Content` says what is in a message: its topic, whether it decodes, and
the fields the handlers look at; `Usable` is the routing and validation of
`MarketConsumer`. Offsets are handed out (`position`), marked when a handler returned
nil, committed in the background and on leaving a session. `Rebalance` and `Crash`
resume after the committed offsets, and a rebalance whose Consume fails ends the
consumer for good (`consuming`) while the process runs on. `Signal`, `ConsumerStopped`,
`Cancel`, `FlushBuffers`, `Exit` are the steps of `Shutdown`.

`S3Writer` is `WriteMessages` called by two flushers at once: `stamp` is the second in
which a call began, which is all that tells its keys from those of another
(`generateS3Key`); `object` says whose records are at a key. Its calls come from a
flusher, so an empty batch is left out.

Both instantiated modules state what they assume of their constants as an operator
(`BufferAssumption`, `S3Assumption`; below `FeedAssumption`, `PublisherAssumption`), which the module that gives the constants their
values assumes in turn.

### MarketFeed and MarketPublisher

The two halves of the data-ingestion-service meet in `messageChan`. `MarketFeed` is
the client of `internal/kis/client.go`. Connections are
numbered; `wire` says of each whether it is up, broken or closed, `conn` which one
the field holds. A goroutine that dials holds the mutex until it has its answer, as
`connect` does; `trigger` is `reconnectChan` with its one place, and a report that
finds it full is dropped. The reader copies `conn` under the lock and reads after
it, so that it can read a connection that has been replaced; so does the
heartbeat. `Subscribe` happens once, where the service calls it. Whether the access
token is valid is a boolean that `RefreshToken` renews and that may lapse at any
time. `Break` is the network.

`MarketPublisher` takes the messages (`Frames`, each described by what the parser looks
at: its transaction id, whether its parts parse, its prices) to Kafka. `Publishable`
is the parser with the validation of the producer. The shared `Producer` holds a
read lock while it puts a message into sarama (`sending`); sarama, external, holds
up to `InputSize` messages (`pipe`), sends them again up to `RetryMax` times with
an idempotent producer, and gives results on `successes` and `errors`, which
`handleSuccesses` and `handleErrors` read and then count, once they have the read lock.
`Close` holds that lock while it drains. `main` ends in `exited`, or in `forced`
when its timeout comes first.

### StrategyWorker

Three coroutines of one asyncio loop, cut where they await: the consume loop with the
handler it calls (`cpc`), `shutdown()` (`down`), and `run()`, whose return cancels
whatever is left (`RunReturns`). `exec` holds one record per execution: the row of
`strategy_executions`, the rows of its orders, and the symbols its monitor holds,
the last in memory and gone with the process. `active` and `tasks` are the two
dictionaries of `StrategyExecutor`.

* A call to PostgreSQL or Kafka returns (`Answered`) or raises after it was or was not
  applied (`Raised`); `OnError` says which `except` clause it meets. Cancelling the
  loop leaves the statement in flight applied or not and runs no handler, because
  `CancelledError` is no `Exception`.
* A message is a strategy, lacks a field (skipped and committed), has a malformed
  identifier (logged, passed over), or is not JSON: the deserialiser then raises in
  the iterator and the loop ends for good.
* `Restart` loses the memory, `Rebalance` does not; both resume after the committed
  offset, and a rebalance can do so while a strategy is being executed.
* Rebalancing of a portfolio and monitoring only log and write snapshots, so of them
  only the tasks are kept. The risk check's arithmetic is "passes, refuses or
  raises". The call of the OMS is commented out in the code
  (`strategy_executor.py:256`) and is not here.

### NotificationDispatch and ChannelManager

`NotificationDispatch` follows one partition, which has one goroutine. `h` is where
`handleMessage` is: reading the preferences, and for each enabled channel in turn the
consumer's retry loop around the channel's own retry loop, then the row of the
history. `data` is the map that all notifications of one message share and into
which the configuration of each channel is merged: for each recipient key, whether the event
brought it (`Carries`) or which channel set it last. A single e-mail address or chat wins over
a list (`FoundUnder`), and an empty value or one of another type counts as none (`blank`). `delivered` counts what reached each destination (0, 1, more), `rows`
is the history table, and `lostAnswer`, `unrecorded`, `handings`, `wanted`, `verdict` are
history variables. `Cancel`, `Close` and `Exit` are the shutdown; a sleep between
attempts ends with the context.

`ChannelManager` is a library in this process: registrations, rules, sends with a
goroutine per channel, health checks and reports in any order, as its endpoints
allow. The consumer sends without it, so its counters stay zero in the service.
`GetMetrics` ranges over the channels under the lock of the counters (`GetMetrics`, `Loaded`,
`MetricsRead`), so they may change meanwhile (`Disturbed`): the Go runtime notices it or does not, and
ends the process if it does. `panicked` is that outcome, or that of a registration which is
half done. A channel is registered under one name and counted under what its `Name()` says (`NameOf`,
`Label`), except by `SendToChannel`; `stray` remembers where there was no counter. An
answer that is an error leaves open whether the channel took the notification (`took`).

### AuthSessions

Each worker serves one request at a time; `req[w]` is what its handler holds: the
kind of request, the row it read, how far it is. One action per statement, so any
two handlers interleave between their statements. Rows are appended to `users` and
`tokens` and keep their places; deletion is a mark (`is_active`). `bearer` are the
accounts of which an unexpired access token is around: nobody stores access tokens,
and the middleware asks no database. `ended` is what clients were told: accounts
deleted, sessions logged out or expired; a request is `late` if it began after that.
Passwords are right or wrong.

### LoginLimiter, RequestCounter, RedisLock, SlidingWindow

`LoginLimiter` is `AuthRateLimiter` for one identifier, with Redis (each command an
action, any of which may fail before or after its effect, and then lets the request
pass) or in memory (each check or record one critical section). `RequestCounter` is
the general limiter: INCR and EXPIRE in a pipeline that other requests and the expiry of the key
interleave and a broken connection cuts short, and the local token bucket that stands in. `RedisLock` is SET NX, the
compare-and-delete and compare-and-expire scripts, and `WithLockRetry`; the key
expires by Redis's clock and its holder does not learn of it. `SlidingWindow` is
ZREMRANGEBYSCORE, ZCARD, ZADD and EXPIRE in a pipeline, a step each: the clock was read before the first,
and the key can expire between any two. `passed` (`let` in `MCRedisGuards`) is what was let pass. No service calls the
last two yet, nor installs the first two, so their callers are arbitrary.

## 4 The runs

Deadlock checking is off except in `auth`: the other models are sets of calls that
all end, so that a state without a successor is the end of them.

| Run | Instance | Shows |
|---|---|---|
| `executor` | ids from events: 1 Execute, 2 Cancel, 3 submissions, fair; and ids from the table: 2 Execute, 1 Cancel, 2 submissions each | what table, events and broker agree on under lost answers, failed statements, ended contexts and crashes; that the table implements `OrderLifecycle` and Execute ends; and what is left of it when Cancel overlaps Execute (`AnyCallerIsSafe`, with `OutcomesAgree` in it) |
| `pipeline_safety` | 2 identical requests of one user on 2 streams, a third stream with an empty token, all rules | ACCEPTED means an order and a row; a repeated order passes only in a race or after a failed SET |
| `pipeline_answers` | 1 request without a token, 1 Cancel, 2 submissions, risk engine disabled, fair | what the table says of an accepted order and what the broker may have behind a REJECTED answer; a stop cuts off no client that waits; every request is answered; a stopping process goes down |
| `redis_guards` | bucket: 2 callers, rate 2 per 3 ticks, burst 2, TTL 3, 4 ticks. login: 2 requests at a time, limits 2 and 3, 2 failing commands, fair. lock: 3 processes, 2 tries. counter: 2 clients, limit 2 per 2 ticks, 4 requests in 3 ticks. sliding window: 2 callers, limit 2 per 2 ticks, 4 calls in 3 ticks | what the bucket grants and whom it refuses; how many guesses a lockout lets through, that it ends and that failures are forgotten; when two processes hold one lock; how many requests a window lets pass |
| `bucket_polling` | 1 caller, rate 2 per 4 ticks | *violation*: a caller that keeps asking is never served |
| `recorder` | 1 partition, 3 messages, the last invalid, buffer of 1, failing database, 1 restart or rebalance; a buffer of 2 (limit 4) by itself with 2 adders, 3 messages, 2 attempts, fair; the S3 writer with 3 calls, 2 attempts, 2 seconds | where every committed offset went, which messages have no row or several; the buffer loses and reorders nothing, signals when full and is bounded; a batch that never fills is written; what an uploaded object is worth |
| `recorder_shutdown` | 1 partition, 2 order books, healthy database | *violation*: a graceful shutdown loses the buffer |
| `ingestion` | 3 connections, 2 attempts, queue of 1; a feed of 4 messages (one not valid, two of one symbol, an order book), sarama holding 2, results 1, 1 retry; both fair | one connection at a time; a dropped report is not a lost failure; every message published once and in order, or counted; both halves stop |
| `strategy` | 5 messages (2 strategies, with 2 orders and none), 2 failures, 1 restart or rebalance, fair | which strategies are executed and how often; order table and positions; what a shutdown leaves |
| `strategy_stop` | 1 strategy of 2 orders | *violation*: a shutdown leaves positions open |
| `notify` | 3 events (one malformed, one without a template), 3 channels, 2 chats, 5 tables of preferences, an event that carries two of the five recipient keys, 1 retry in each loop, 1 restart or rebalance, fair; the manager with 1 caller, 2 channels that have the same `Name()`, 2 events, 3 changes | what became of every committed event, who was told twice, under whose recipient key; that a shutdown ends; that the manager's reports are true |
| `auth` | 2 workers, 2 addresses, 2 names, 2 accounts, 1 refresh token; workers, addresses and names are symmetric | addresses stay unique, what a client was told is over stays over, an update is lost only to a race |

Several properties are conjunctions, so that one run states what belongs together:
`TableIsTrue` (`SentIsAtBroker`, `TrackedIsLast`, `RejectedIsUntracked`), `BufferIsSound`
(`NothingLostInside`, `FullIsSignalled`, `MemoryBounded`, and that nothing comes after
the final flush), `WindowsHold` (`WindowHolds` of the counter, `SlidingBound`),
`ServiceStops` (`StopReturns` of the client, the publisher's own). Type invariants are
conjuncts of the first safety invariant of their module.

**Why the bounds are enough.** The executor's calls touch only their own row, so two
Execute calls show that they do not meet, one row with two Cancels shows
everything that can meet; the retry loop is exercised at its first, a middle and
its last attempt with `MaxRetries` 1 and 2 (the code's default is 3), and the proofs
cover every limit. Two requests are enough for the duplicate rule, whose state is
one key per fingerprint. In the bucket the rate is not a divisor of the tick, so the
floor bites; the ticks let a key expire and a new bucket fill; callers ask for one
token or for all. A lockout of three failures is reached by two workers with one
in flight. A third process meets a lock whose key expired under the first and is
held by the second. Two clients of the counter with
four requests reach its bound: three pass in one window of limit 2, as the key expires before the second's EXPIRE. Two callers of
the sliding window can count before either adds, and the key can expire before both renew it, so the
bounds of what the set holds and misses of the present window are reached. The bound of
any window is reached by one caller with a limit of 2 and a window of 3 ticks (an old clock, then an expiry);
for two it takes more calls than TLC can enumerate, and the theorem covers it. One caller of the channel
manager is enough: callers share nothing but counters that are added to in one step. Three messages meet a buffer of 2 at its signal threshold, with a
batch in flight, and with a rest that waits for the timer; the recorder's buffer of
1 adds the limit of twice the size. Three uploads are two that collide and one
that follows. One restart shows redelivery and loss; a second
repeats it from the same states. Three connections are the fewest with which a
stale report can close the successor of the one it is about. A producer that holds
two messages and result channels of one fill up in every order. In the strategy worker
two failures are what it takes for an order's compensating update to fail after the
update it compensates; the second strategy meets an execution that runs already.
A notification is tried twice by each of the two nested loops. Two workers of the
user service are the fewest that race; two accounts share an address or do not;
one refresh token is refreshed, revoked and expired under both.

**Fairness.** `OrderExecutor` and `OrderPipeline` assume weak fairness of each call's
steps: goroutines that can run are run, and each external call returns, because the
HTTP client has a timeout and sarama and pgx report broken connections; and that the
shutdown timeout of the server passes. `BatchBuffer`
assumes weak fairness of the flusher and of its ticker. `MarketFeed` assumes weak
fairness of the handler, the processor and the ping, and strong fairness where a
goroutine waits for the mutex or chooses in a select: Go's RWMutex does not starve a
waiter, and select picks among ready cases at random. It also assumes that KIS
sends something on a connection or the connection breaks. `MarketPublisher` assumes
weak fairness of its goroutines and of sarama, whose requests have a timeout; its own
shutdown timeout is not assumed, and `ServiceStops` holds without it. `StrategyWorker`
assumes weak fairness of polling and of the loop's calls: the pool has a command timeout.
`NotificationDispatch` assumes that each call of a channel returns and that `main`
goes on; `LoginLimiter` that time passes. The other modules have no liveness property
and no fairness. Nothing is assumed of clients, cancellers, adders, the other outcome
of a call, signals, or crashes.

## 5 The proofs

TLAPS checks these for every value of the constants under the named assumptions of
the modules: `RetriesAssumption` (the retry limit is a natural number), `OrdersAssumption`,
`LearnsAssumption`, `PipelineAssumption`, `ConfigAssumption` (rate, burst and resolution
are positive), `AsksAssumption`, `BufferAssumption`, `RecorderAssumption` (logs are finite and every
message has a content), `S3Assumption`, `FeedAssumption` (sizes and limits are positive),
`PublisherAssumption` (the messages are a sequence, sizes and retries natural numbers),
`LoginAssumption` (there are finitely many workers, limits and times are positive),
`CounterAssumption` and `SlidingAssumption` (the same for the windows, which have a caller),
`WorkerAssumption`, `DispatchAssumption`, `CallersAssumption`, `ManagerAssumption` (callers and
names are finite sets), `BoundsAreNaturals`, `NoneIsNoValue`, `NoneIsNoRow`. `BufferIsAssumed`,
`InstancesAssumption`, `ManagerIsAssumed`, `FeedIsAssumed`, `PublisherIsAssumed`, `LoginIsAssumed` and `WindowsAreAssumed` say that an instance is given what its module
assumes; TLC evaluates all of them. Each proof has an inductive invariant, named `IInv` or
after its component, the lemma that every action keeps it, with one step per action,
and the theorems that follow from it. An invariant built from `IInv` was an invariant of a
run before it was proved.

**OrderExecutorProofs.** `IInv` is `TypeOK`, and for each
order `OrderInv`, which says what each place in Execute knows. The safety
invariants are not inductive by themselves: `SentIsAtBroker` needs to know that
whoever writes SENT holds an answer (`pc \in Answered => kisId > 0`), `TrackedIsLast`
that no submission follows the answer (`kisId # 0 => kisId = placed`),
`RejectedIsUntracked` that a call which rejects has used every attempt. From `IInv`
follow `TableIsTrueInvariant` (with a theorem for each of its parts) and
`ExposureBoundedInvariant`. `OutcomesAgreeInvariant` adds what each place of an Execute
knows of row and events as long as nothing was passed over and nobody cancels;
`RecordedInvariant` that a call which ended so left the broker's id in the row.
`EventsKeepLifecycle` assumes `LearnsFrom = "events"` and proves that `OrderExecutor`
implements `OrderLifecycle`. It needs `EventsInv`: publishing is the last thing
Execute does, so an order with an event is no longer executed and a Cancel that
learnt of it there never overlaps Execute. Each step then maps to a step of
`OrderLifecycle` or to a stutter. `CancelReachesBrokerInvariant` holds for the same
callers and for the same reason: the row they read has the id. Of callers that read ids from the table
neither holds; `AnyCallerIsSafe` lists what does, each part with a theorem here that
does not depend on `LearnsFrom`. `ExecuteProgress` is what can be proved of `ExecuteReturns`:
`StepsLeft`, at most `MaxRetries + 6`, is lowered by each step of Execute and raised by none.

**OrderPipelineProofs.** `PipelineStep` shows that every step of the pipeline is a step of
`OrderExecutor` or leaves its variables alone, so that the facts
about the executor, those of `OrderExecutorProofs` instantiated as `Calls`, can be cited.
`AcceptedIsRealInvariant` needs besides that no
step takes back an order or a row (`Monotone`), for the answer outlives the call;
`AcceptedIsRecordedInvariant` that an executor at the same place of the same call knows
what was passed over. `RepeatsHaveACauseInvariant` needs `RiskInv`: an order that passed leaves its key
or the mark that its SET failed, until the window has passed. `UnansweredExplainedInvariant` needs
`StopInv`: a request that was begun belongs to a stream that is open or was closed by its client or by
force, and a process that ends in good order has no open stream left. `RequestProgress` is what can be
proved of `EveryRequestAnswered`: each step of a
handler lowers `RequestLeft`, which counts the rules, the steps left to its Execute and the
response. It needs that a call of Execute runs only inside the handler of its request (`NestInv`).
The pipeline's proofs also hold `AnyCallerIsSafeInvariant`, about the variables of `OrderCallers`:
they instantiate `OrderExecutorProofs` a second time (`Given`), with ids from the table.

**BatchBufferProofs.** `MemoryBoundedInvariant`, `FullIsSignalledInvariant` and
`RowsExactInvariant`, for any number of adders and messages. The invariant says that
what was accepted is what was flushed, then the batch, then the buffer, in this order
(`NothingLostInside`); that the messages in these and in the hands of adders are
all different (`Apart`); and how many rows a message has at each place (`RowsInv`). The part
of it that does not need the messages to be different, `Sound`, is kept by every
step of a buffer whoever adds to it (`AnyStep`), and the recorder builds on that.

**MarketDataProofs.** `EveryOffsetAccountedInvariant` and `BufferIsSoundInvariant`, for any number
of partitions, logs of any length, and any number of rebalances, failures and crashes. The
buffer is `Kept`, an instance of `BatchBufferProofs` whose adders are the partitions. Around it the
invariant says that a claim commits at most what it marked and marks at most what it
was handed (`OffsetsInv`); that a usable message handed out is in a set
that explains it or in the hands of its claim (`WhereaboutsInv`); that, while no write of unknown
outcome was repeated, a message handed out once is in one place or has its one row
(`OnceInv`); and in what order `main`, the consumer and the flusher end (`LifeInv`). Of the other
two parts of the run it proves `RowsExactInvariant`, which is the buffer's theorem under
the sum of the models, and `ArchiveIsTrueInvariant`: an object is of a call that holds its kind and
began in its second (`OwnersInv`); where a call is says how far its uploads are
(`PlacesInv`); what it uploaded is there, under its own records or those of a call of
the same second (`PresentInv`). At the other end of the topics, `OneConnectionInvariant` of
`MarketFeed` (`Feed`): from the critical section in which `reconnect`
closes the old connection to the dialling of the next one there is none, and the
other goroutine that dials, `Start`, has not come to the handler yet (`FeedPlacesInv`). And
`OncePerTopicInOrderInvariant` and `EveryMessageAccountedInvariant` of `MarketPublisher`
(`Publisher`), for any messages, any sizes of sarama's buffer and of the result channels and any
number of retries. A message the processor took is at exactly one place: in hand, waiting in sarama,
in a channel or the hand of one of the two goroutines, refused, counted or drained (`ApartInv`,
`TakenInv`). What waits is in the order it was sent, so the one request an idempotent producer has
under way is for the first of its partition (`FirstOfPartition`), and what has no result and is not
in the topic comes after all of its partition that is (`OrderInv`): that is why an appended message
never overtakes one that is retried. The counters are the sizes of two sets that part the counted
messages (`CountInv`); which sets, the code does not remember, for a message may be in the topic and
counted as an error when its answers were lost.

**RedisGuardsProofs.** The five models the run `redis_guards` adds up.
`RateBoundInvariant`: the invariant is a potential; tokens granted plus tokens left, less
the burst, are at most what accrued from the bucket's start to `last`. It survives scripts out of order
because the floor of a negative number is rounded down (`EarnedBound`) and the cap only
removes tokens. `RefusalsAreDueTheorem` is an action property: the bucket is never in debt
(`NoDebt`) and holds what its last answer said until time passes (`ToldHolds`), and a
later clock reading earns as much or more (`EarnedMonotone`).
`OverlapNeedsExpiryInvariant`: the key has one value (`KeyIsSingle`), and
who is inside without an expiry holds it (`InsideHolds`).
`GuessesBoundedInvariant`, for any number of workers: who guesses beyond the limit looked
before the lockout and records after its guess. While nothing is locked, guesses are covered by the
failures counted (`CountedInv`) or by `LockoutLimit - 1` and the requests that still
owe their record (`UnlockedInv`); once locked, those that
passed the check count against the number of workers, because a request is in one
place only (`LockedInv`). `CountAt`, the number of requests at some places, changes by one
with each step. `FailuresAreForgottenInvariant`: a counter without an expiry has a request
between INCR and EXPIRE, or a fault.
`WindowsHoldInvariant`, for windows and limits of any size and any number of callers. The counter: what
passed since it expired has numbers of its own up to the limit (`NumberedInv`); the expiry is a window
after all that passed but what is still before its EXPIRE, one request for each client and never the first
(`RenewedInv`), so that is all the expiry can catch (`CaughtInv`) and an earlier window can have more than
the limit (`OverInv`). The local bucket is the potential above for every window (`LocalInv`). A counter that
stands has a request to blame (`BlameInv`), and so has what it refused (`RefusedInv`). The sliding
window: the expiry is a window after all that passed but what is between ZADD and EXPIRE (`KeyInv`), so that of
the present window the set misses no more than those and what shared a nanosecond (`MissedInv`). What the
set holds of it, with what was let pass and is about to be added, is bounded by what the last ZCARD
said (`HeldInv`). A window that is over may still get what was under way with its old clock (`OldInv`),
which is the third unit for each caller in `SlidingBound`.

**StrategyWorkerProofs.** `EveryStrategyAccountedInvariant`, `OrdersMatchPositionsInvariant`,
`ShutdownStopsAllInvariant` and the action property `StoppedStaysTheorem`, for logs of any length, any
number of orders of a strategy, of failures, restarts and rebalances. The invariant says where
`execute_strategy` is, which orders are decided and which are not there
(`CurrentInv`): the orders and positions of the execution in hand can differ only at the
order in hand. Below the position only the message in hand is unsettled, and that is beyond what is
committed (`SettledInv`). A second execution of a strategy is of a later
epoch (`EpochInv`), so it is a redelivery and not a repeat of the loop. `shutdown()` comes to
the executions when the consume loop has ended and runs through all that are active
(`DownInv`), and what is stopped is not active (`StoppedInv`).

**NotificationDispatchProofs.** `EveryNotificationAccountedInvariant`, `DuplicatesExplainedInvariant`
and `RightRecipientInvariant`, for any partition, any tables of preferences, any retry limit, number of
chats, rebalances and crashes. Every message handed out is in hand or has its verdict (`PastInv`), and a
message in hand is beyond what is marked, so what is committed is accounted for. Of the message in
hand, the wanted channels before the one in hand are settled (`TodoInv`), and the first time the
later ones are untouched (`AheadInv`). The hard part is the channel in hand (`RoundInv`):
while no answer was lost, a round that starts again has delivered nothing and an attempt has delivered
nothing to the chats still to come, so the outer retry cannot repeat a delivery and a row `failed`
cannot be wrong. A lost answer or a second handing out ends all of that, and they are the exceptions
that the properties name. For `RightRecipient` it says of each recipient key who may have set it by now
(`DataInv`). `HandlerProgress` says that each step of the handler comes to a later place
in the nesting of channels, rounds, chats and tries (`Later`, a strict order) or returns, so that a
message has boundedly many attempts.

The second part is about `ChannelManager`. `ManagerReportsAreTrue` needs that at any moment, not only
when nothing is sent, a total is the sum of its counters and of the answers that
are in the totals but not in the counter of their channel yet (`CountInv`). A channel whose registration is
half done has no counter, which only the report can meet (`RegistryInv`); what a goroutine of Send still
owes the counters is in its job (`JobInv`). Sums over sets of any size are
written as the size of a set: the counter `n` of a channel is a stack of pairs
`<<channel, 0>>` to `<<channel, n - 1>>`, and a sum is the cardinality of all stacks (`SumsAreStacks`). That the fold
of the community modules computes it is an induction over finite sets, for which
`SubsetInduction` stands: if a set of subsets has every subset all of whose subsets with one
element less it has, it has them all, since there is no smallest one missing. It is stated of a set
of subsets where the library's induction theorems take an operator.

**AuthSessionsProofs.** `EmailsAreUniqueInvariant`, `EndedStaysEndedInvariant` and
`OverwritesNeedARaceTheorem`. `GoodAt` says what a handler knows of the tables at each of
its places: the row it found exists; a request that is late finds nothing that is
active, because no statement makes a deleted account active or a revoked token
valid again (`Evolves`); the copy that UpdateMe writes back is the row itself unless
somebody wrote it in between.

**Model-checked only.**

* The liveness properties, as fairness and ENABLED are out of the prover's reach:
  `ExecuteReturns`, `EveryRequestAnswered`, `EventuallyTaken`, `FailureNoticed`, `ServiceStops`,
  `EveryStrategySettled`, `LockoutEnds`, `ShutdownEnds`. Of the first two and of the handler of
  notifications the measures above are proved, of `EveryStrategySettled` its action part.
* The violations of section 6, which are counterexamples.

Every invariant and every other action property that a passing run checks is a theorem.

## 6 Where the code departs from its own words

Shown by a run that finds the violation:

* **Rate** (`bucket_polling`). `limiter.go:21`: "tokens per second per user". A refusal
  moves `last_update` too and the fraction earned is floored away, so a caller that
  asks more often than once per `1/rate` seconds is refused for as long as it asks.
* **Shutdown of the recorder** (`recorder_shutdown`). `main.go:280`: "Flush all buffers".
  The context the callbacks write with is cancelled two lines before, so the final
  flush cannot begin a transaction. The service's README promises the same.
* **Shutdown of the strategy worker** (`strategy_stop`). `README.md:17` of the service:
  "Graceful Shutdown: Closes all positions before stopping". `stop_execution` removes
  the execution from the dictionary in which `_close_all_positions` then looks it up,
  so nothing is closed.

Contained in the models, where a property states what holds in spite of them:

* `rules.go:217`: "DuplicateOrderRule prevents duplicate orders within a time window".
  EXISTS and SET are two commands and a failed SET is only logged; two identical requests can
  both see no key, and so can one that comes after another whose SET failed
  (`RepeatsHaveACause` says that these are the only ways).
* `order_executor.go:125`: "Cancel with broker if order was sent". A Cancel that reads
  the row between the broker's answer and `UpdateOrderExecution` asks nobody
  (`CancelReachesBroker` holds for ids learnt from events).
* The OMS's graceful stop waits for streams, not for the goroutines of its requests: an
  order can be at the broker with its row PENDING after a stop that nothing hurried
  (`AcceptedIsReal` says that nobody was told ACCEPTED without a row).
* `market_consumer.go:170`: "Return error to retry", and `consumer.go:198` of the shared
  consumer: "message will be reprocessed". The message is not marked, but the
  next one is, which commits past both (`EveryOffsetAccounted`,
  `EveryNotificationAccounted`).
* A Consume call that fails ends the recorder's consumer; the process runs on, healthy
  and idle.
* `batch_buffer.go:232`: "Stop stops the buffer and flushes remaining messages". An Add
  that saw `running` before Stop can append after the final flush, and returns nil
  (`BufferIsSound`: not in the recorder, whose consumer has stopped by then).
* The recorder's README names S3 as the cold path. Its buffers are never fed
  (`main.go:188-192`), and its keys end in whole seconds, so one of two batches of one
  second would replace the other (`ArchiveIsTrue`).
* A second report of one failure of the KIS connection outlives the reconnection it
  caused, and closes the new connection, which is reported in turn. Nothing
  subscribes again after a reconnection.
* `strategy_consumer.py:93`: "Manual commit after successful processing". A strategy
  that failed is committed with the next message; `EveryStrategyAccounted` counts it
  as logged.
* A message that is not JSON ends the consume loop of the strategy worker, and makes
  its shutdown raise before it stops an execution; and `run()` cuts a shutdown that
  takes longer than a second.
* Each notification channel retries inside the consumer's own retries, so a lost answer
  can deliver a message `(MaxRetries + 1)` squared times (`DuplicatesExplained`).
* `rate_limiter.go:70`: "Use Redis pipeline for atomic operation". A pipeline is no transaction: the
  counter can expire between INCR and EXPIRE, and a window then passes requests beyond its limit
  (`WindowHolds` says how many).
* `GetMetrics` of the channel manager ranges over the channels under the lock of the counters
  (`manager.go:349`) while registrations change them under the other one: it fails on a channel that is half
  registered, and the runtime may end the process for the conflict (`ReportsAreTrue` excludes
  any other failure). The service registers before it serves, so neither happens in this commit.
* Channels read `email`, `slack_webhook_url` and `telegram_chat_id` from the configuration of a user's
  channel; `migrations/001_notifications.sql` documents `webhook_url` and `chat_id`, which
  nothing reads. And a recipient of the event, or one that another channel's configuration sets, counts where
  a channel's own leaves its key alone: a single address over the channel's own list
  (`RightRecipient`).
* UpdateMe writes back the whole row it read (`OverwritesNeedARace`). `user_repo.go:71`
  recognises a taken address by comparing the error's text to "SQLSTATE 23505", which
  no driver error is equal to: of two racing signups the second is answered with an
  internal error instead of "already exists" (`EmailsAreUnique` holds all the same).
* `Allow` of the shared limiter trims, counts and adds in a pipeline that other calls
  interleave, by a clock read before: calls in flight at the same time pass beyond
  `limit`, and once more when they come late (`SlidingBound` says how many).
* A login lockout is looked up before the handler and set after it, so requests in
  flight go on guessing (`GuessesBounded` says how many).

## 7 What is not modelled

* Amounts: the price rules of the risk engine and the risk manager of the strategy
  worker are "passes or refuses", profit and loss is left out. Amounts that are no
  numbers (NaN) are not distinguished from those a check refuses.
* The circuit breaker of the KIS client opens and closes inside a library; what it does
  to the caller is `SubmitNotTaken`, at any time.
* The shared Go lock and limiter, the limiters of the user service and the sends of the
  channel manager have no callers in a service; they are modelled for arbitrary callers.
* Code that nothing calls: `grpc/interceptors/auth.go` and `ratelimit.go` of the OMS, the
  URL validator, `apikey_repo.go`, `audit_repo.go`, AES, `RevokeUserTokens`,
  `UpdatePassword`, the clean-up of expired tokens, most of the preference repository.
* Concurrent `stream.Send` calls (forbidden by grpc-go), metrics, health checks, logs, the
  text and layout of messages and mails, signatures and headers.
* The backtesting engine: one process that replays prices in order, whose hazards are
  those of decimal arithmetic.
* The cognitive service: a fixed graph of nodes around the text of a language model.
* Features and inference of `ml-inference-service`: floating point.
* The shared Python library, whose lock is the Go lock over again and has no callers.
* The dashboard, the deployment files, configuration, logging and the cache wrapper.

## 8 Plan

What would add most, in this order:

1. Re-subscription: a promise that data flows after a reconnection would need a
   component that subscribes again, which the code does not have yet.
2. `Portfolio`: accounting of the backtesting engine and of the strategy worker's
   monitor against a reference definition, over small integers.
3. The routing of the cognitive service's graph.
