# Social Networking Platform: specifications and proofs

TLA+ models of the platform's services, the TLC runs that check them on small
instances, and TLAPS proofs of the properties that matter most. The models are
written from the Go code; a document of the repository is quoted only where the
code does something else than it says.

## 1. The system

Six processes, written in Go, that share nothing but Redis, Postgres and Kafka.

| Component | State it keeps | Operations | Talks to |
|---|---|---|---|
| **api-gateway** | per upstream a `circuitBreaker`; per user a rate-limit window; counters and gauges | authenticate, rate-limit, proxy with retries; log, count and recover around it | every service (HTTP); Redis (reads sessions) |
| **auth-service** | sessions in Redis under a TTL; nothing of an OAuth state | `BeginLogin`, `HandleCallback`, `Logout`, `ValidateSession` | Google, Redis |
| **users-service** | `users`, `follows` (Postgres) | `GetMe`, `UpdateMe`, `GetUser`, `FollowUser`, `UnfollowUser`, `ListFollowerIDs` | Postgres; Kafka `user.followed` |
| **posts-service** | `posts` (Postgres) | `CreatePost`, `GetPost`, `ListPostsByAuthor`, `UpdatePost`, `DeletePost`, `InteractWithPost` | Postgres; Kafka `post.created`, `post.interacted` |
| **feed-service** | one sorted set per user (Redis), a fallback copy in memory | two consumers, `GetFeed` | Kafka; users-service (HTTP); Redis |
| **notification-service** | `notifications` (Postgres) | two consumers, list | Kafka; Postgres; dead-letter topics |

How they interact: a request reaches a service only through the gateway, which
puts the user's ID in a header. users-service and posts-service publish events
after their database write; feed-service and notification-service consume them
and commit the offset when they are done with an event. feed-service asks
users-service for an author's followers.

What is hard here:

* **Concurrency.** Every request is a goroutine; the breaker, the rate limiter
  and the fallback cache are shared, and the clock is read before the lock is
  taken. Every profile and post update reads a row and writes it back later.
* **Failure.** A call may fail with its effect done (Redis `SET`, Postgres
  `INSERT`, Kafka produce), between two writes that belong together (insert and
  publish), or the process may crash between the effect and the offset commit.
* **Ordering.** Consumers restart from the committed offset after a rebalance;
  events of two topics are consumed by two goroutines; a `SET` that its caller
  gave up on may arrive after the `DEL` of a logout.
* **Timeouts and numbers.** Retries of requests that were carried out; timeouts
  and doubling backoffs that add up past the server's write timeout; TTLs and
  `exp` claims rounded to whole seconds; windows that end while a request waits.
* **Layers.** The middleware around a handler sees the status written last, the
  client the one written first, and a panic passes through them in between. One
  Redis connection carries `AUTH`, `SELECT` and the command, each with a reply.

What makes each component correct is stated as properties of the modules below;
`PROJECT.json` lists, under `hazards`, each place in the code where one of these
bites with the property that watches it.

## 2. Modules

Each component has a module (state, `Init`, one action per step of the code,
`Spec`, and its properties), an `MC...` module with the small sets TLC uses, and
a `...Proofs` module with the theorems. A definition in `PROJECT.json`'s `map`
names the lines it stands for.

| Module | Code | State: variable and what it stands for | Actions and the code they are |
|---|---|---|---|
| `GatewayResilience` | `resilience.go`, `proxy_handler.go` (api-gateway) | `breaker` = the `circuitBreaker`; `pc`, `attempt`, `now` = one `RoundTrip` per request; `applied` = how often the upstream carried a request out | `ReadClock`, `Admit`/`Reject` = `allow`; `Send`, `Succeed`, `RetryError`, `RetryResponse`, `Drain` (of the answer's body), `GiveUp`, `Wake`, `Abort` = the loop of `RoundTrip` with `recordSuccess`/`recordFailure` |
| `GatewayRequests` | `router.go`, `metrics.go`, `logging.go`, `recovery.go`, `demo_simulation.go`, `response.go`, `proxyRequest` (api-gateway) | `chain` = how far a request has come into the chain and out again; `due` = when its timeout or backoff ends; `drained` = how long it has been draining bodies; `code`, `body` = the status that went out and how much of the body; `metricsStatus`, `logStatus` = the `statusCode` of the two wrapped `ResponseWriter`s; `counted`, `logged`, `active` = the counter, the log entry, the gauge; `client` | `Arrive` ... `Forward`; `Call` = `GatewayResilience`'s steps, each at its time; `HangUp`, `CancelCall`; `ErrorHandler`, `PassOn`, `Copy`, `CopyFails`, `Recover`; `LeaveMetrics`, `LeaveLogging`, `Leave` = out through the middleware to the server |
| `RateLimiter` | `rate_limiter.go` | `count`, `resetAt` = the `userWindow`s; `now`, `pc` = a call of `Allow`; `sweepNow` = a sweep that has read its clock | `ReadClock` (before the lock), `Allow`/`Deny` (under it), `StartSweep`, `Sweep`, `Stop` |
| `RedisClient` | `client.go` (auth-service and api-gateway) | `sent`, `heard`, `result` = one `Do`; `served`, `reply` = what Redis has carried out over its connection and answered | `Dial`, `ReadReply`, `Break` = `Do`; `Greet` (`AUTH`, `SELECT`), `Execute` (the command) = Redis |
| `AuthSessions` | `auth_service.go`, `session_repository.go`, `jwt.go`, `state.go` (auth-service); `requireAuthenticated`, `jwt.go`, `session_repository.go` (gateway) | `states`; `login`, `expiresAt`, `tokenExp`, `ex` = one `HandleCallback` and the `EX` of its `SET`; `deadline`, `gone` = the key in Redis; `logout`, `check`, `token` = a logout and a request | `StartCallback` ... `Return` = `HandleCallback`; `StartLogout`, `LogoutEnds`; `Begin`, `Load`, `Decide`; `ClientStep` = `Do` of `RedisClient`; `RedisSet`, `RedisDel`, `RedisGet` = what Redis does with the command, maybe late |
| `NotificationConsumer` | the two consumers, `retry.go`, `notification_service.go`, the SQL repository | `committed`, `position`, `sessions` = the consumer group and the reader; `pc`, `current`, `attempt` = `Run`; the rows and dead letters per event | `Fetch`, `Attempt`, `Wait`, `PublishDLQ`, `CommitMessages` and each one's failures; `Crash`, `Cancel`, `Closed`, `Rebalance` |
| `FeedFanout` | `post_consumer.go`, `client.go`, `feed_repository.go` (feed-service); follows of users-service | `follows`; the group as above; `pending` = followers still to be added; `feed` = the sorted sets | `FollowerIDs`, `FanOut` (one `AddFeedItem` at a time, with its trim), `CommitMessages`; `Follow`, `Unfollow` at any moment |
| `UsersService` | `user_service.go`, the SQL repositories, `follow_producer.go` | `users`, the profile's fields, `follows` = the tables; `pc`, `side`, `copy` = a request and the row it has read | one action per SQL statement: `SelectFound`, `Create`, `SaveProfile`, `InsertAdds`, `Delete`, and `PublishFollowed`; `Abandon`, `Drop` |
| `PostsService` | `post_service.go`, the SQL repository, `post_producer.go` | `posts`, `content` = the table; `pc` = a request; `announced`, `liked` = the topics | `Select`, `Insert`, `Update`, `Delete`, `Publish`, `PublishFails`; `Abandon`, `Drop` |
| `FeedReads` | `feed_service.go`, `feed_handler.go`, `GetFeed` of `feed_repository.go` | `feed` = a user's feed in Redis, by the number of its changes; `fallback` = the map in memory; `pc`, `items` = a request | `Begin`, `Read`/`ReadFails`, `Save` (under the lock), `FallBack`; `Restart` |
| `ServiceLifecycle` | `main.go` and `App.Close` of all six services | `service` = which one; `listener`, `main` = the server and `main`; `request`, `consumer` = what is under way; `closed` = pools closed so far; `lost` = events a closed writer refused | `Listen`, `Accept`, `Query`, `Publish`, `Written`; `Signal`, `Drained`/`ShutdownTimesOut`, `Close` in the order of `App.Close`, with `Flushed` = a Kafka writer has no more writes under way |
| `EventDelivery` | (abstract) | `outcome` of every event | `Settle`, `GiveUpTo` |
| `SessionRegistry` | (abstract) | `status` of every session; `logout`, `check` | `Open`, `Close`; `LogOut`, `LogOutEnds`; `Ask`, `See`, `TurnAway`, `LetThrough` |
| `FollowTable` | (abstract) | `follows`, `announced`; `fate` of every follow and unfollow | `Add`, `Find`, `Remove`, `Answer`, `Refuse`, `Fail` |
| `PostStore` | (abstract) | `post`, `content`; `fate` of every request | `Create`, `Update`, `Delete`, `Like`, `Missing`, `Forbidden`, `Refuse`, `Succeed`, `Fail` |

The abstract modules say what a component promises, without its statements,
retries and failures; the module of the component instantiates one of them with
state functions of its own variables and has its specification as a property.

* `EventDelivery`, for both consumers (`DeliversInOrder`): events are settled in
  the order of the log, and a delivered event stays delivered. `outcome` is
  computed from the tables, the dead letters and the offset.
* `SessionRegistry`, for `AuthSessions` (`ActsAsRegistry`): a session opens once
  and closes for good, a logout that succeeds leaves it closed, and a request is
  let through only if its session was open at a moment after it came in. A
  session is `absent` until its `SET` is carried out, whenever that is, and
  `closed` once its key is gone; a request has seen it open when Redis has the
  reply to its `GET`, before the gateway has read it.
* `FollowTable`, for `UsersService` (`FollowsAreAtomic`), and `PostStore`, for
  `PostsService` (`RequestsAreAtomic`): each request acts on the table at one
  moment, at most once, and its answer tells what became of it then, although it
  is made of several statements, none of them in a transaction, and may be given
  up between any two. The moment is the one of its last statement. In `PostStore`
  the author is checked at that moment; the code checks on a row it read before.
  A follow is announced at most once, by the request that put the row in.

`GatewayRequests` and `AuthSessions` are compositions. `GatewayRequests` extends
`GatewayResilience` and lets its requests take that module's steps at the times
their timeouts and timers allow. `AuthSessions` extends `RedisClient`, the module of both ends of a call:
a login, a logout and a check each make one call, and the module says what Redis
does with its command.

How the environment is modelled. A call to Postgres, Kafka or another service,
and feed-service's to Redis, is one step that succeeds, or fails with or without its effect. A
request that nobody waits for any more is *abandoned*, but a statement it has
sent may still be carried out, at any later time or never. A Kafka partition is
a log of numbered events with one committed offset per group. A user, post, name
or text is a value: the ID of a post is the request that drew it, and the value
of a field the request that wrote it, so that a property can ask *whose* it is.

Next to some definitions stands another one named for a slip (`OneSecondShort`
before `RemainingSeconds`): what the definition would be with a plausible bug.
`Next` does not use it. `PROJECT.json` lists, under `mutants`, which property
fails when it takes the definition's place.

## 3. Runs

Runs that pass:

| Run | What it shows | Instance, and why it is enough |
|---|---|---|
| `gateway_resilience` | The breaker's state agrees with its count; it opens on failed *requests*, not attempts; probing starts only after the cool-off; an upstream carries out a request that cannot be replayed at most once; every request that reached the transport ends, unless the upstream keeps it for good (`EveryRequestEnds`). | A `GET`, a body-less `POST` and a `PUT` with a body, 2 attempts, threshold 2, cool-off 1 tick, clock to 2. Two failures open the breaker while the third request is in flight; the clock passes the deadline, so that the half-open state is probed, closed and opened again. |
| `gateway_requests` | The counter and the log hold the status of every complete answer, each from a recorder of its own, unless its body broke off; headers come within the budget of timeouts and backoffs, plus the time spent on draining the bodies of answers that were not used; an answer is lost only if the two together exceed `WriteTimeout`. | A `GET` with a streamed body and a `PUT` with a body, 4.3 million states. 3 attempts, so that two backoffs of different length lie between them; write timeout 4, which the `GET`'s budget of 7 exceeds and the `PUT`'s of 2 does not; threshold 1, so that one request's failure rejects the other. They arrive in the same tick (`LastArrival` 0), and their look-ups set them up to a tick apart; clock to 8, past the longest budget. The theorems cover any number of requests and arrivals. |
| `auth_sessions` | A token is not refused more than a second early; no key outlives `SESSION_TTL`; a logged-out token is not accepted later; no call returns the reply to another command; the services and Redis act as one `SessionRegistry`. | One login with its logout and a request, over connections that send `AUTH`, `SELECT` and a command; 2 ticks a second, token 4, session 5, so that both roundings cut; clock to 7, beyond every expiry and a late `SET`. |
| `rate_limiter` | At most `Limit` requests of a user per window; windows do not overlap; a 429 is earned. | Two users, three requests and one; limit 2, window 2, stall 2, clock to 5: the third request reaches the limit, a second window starts, and a request may hold a time of the first. |
| `notification_consumer` | The offset passes no event unaccounted for; duplicates have a cause; events are settled in order; events are handled while the process lives. | Two events of every combination of kinds, two attempts, three sessions: one redelivery after a crash and one after a rebalance. |
| `feed_fanout` | A steady follower of the author was called for before the offset passes the post; the feed holds the newest `maxFeedItems` of all ever added; events are settled in order; posts are handled. | Two posts in either feed order, malformed or not, two users who come and go as followers, a feed of one item, two sessions: a crash or rebalance between the two followers, an older post that arrives later, one that is redelivered. |
| `feed_reads` | A fresh answer is the user's own feed of that moment; a stale one was fresh before, for the same user; who was served once is served until a restart. | Three requests of one user, so that two overlap and a third falls back, two of another, one of them without an ID; each feed changes twice. |
| `service_lifecycle` | Nothing is closed under a consumer; requests meet a closed pool only after `Shutdown` timed out, and only where that is not fatal; a write to Kafka that has begun is cut off only where it is; a signal ends the process, unless such a write or the handling of a message hangs for good. | All six services, each with two requests that may hang in either call, and its consumers: one request may be writing to Kafka, and one about to, when the producer closes. |
| `users_requests` | No field holds a value its user did not ask for; an acknowledged follow is in the table; repeats publish nothing; every new row is announced or accounted for; both users of a follow have rows; follows act as on a `FollowTable`. | Seven requests of two users: two updates of different fields, a follow sent twice, an unfollow, and two that are refused. |
| `posts_requests` | Only the author changes a post; the answers say what happened; every post is announced or accounted for; requests act as on a `PostStore`, in which a deleted post never comes back. | Seven requests on one post: create, two updates (one by someone else), two deletes, a like, an update without content. |

`FollowsAlike` in `users_requests` and `AnnsAlike` in `rate_limiter` and
`feed_reads` exchange requests that ask for the same. No property of these runs
tells the two apart, and none is about liveness. Deadlock is not
checked: the instances have finitely many requests and events, and the clocks
are bounded, so that every behaviour comes to an end.

Runs that find a violation, each of something the repository says:

| Run | What it shows |
|---|---|
| `breaker_closes_early` | `recordSuccess` closes the breaker from any state. A request admitted before it opened and answered afterwards closes it ahead of its deadline; `api-gateway-resilience.md:43` says it remains open for 30 seconds. |
| `users_partial_update` | `UpdateMe` writes back the whole row it read. Two updates of different fields lose one; `swagger.yaml:119` calls it a partial update. |

What else was noticed while modelling follows from the code at a glance and has
no run of its own:

* `RoundTrip` asks the breaker once (`resilience.go:101`): a request that was
  admitted goes on sending while the breaker is open, where
  `gateway-resilience-manual-test.md:70` says that open circuits do not hit the
  downstream service.
* With the defaults, one attempt (10 s to connect and 10 s for headers) already
  exceeds `HTTP_WRITE_TIMEOUT` (10 s), three all the more: the client of a slow
  service gets a closed connection, where `gateway-resilience-manual-test.md:90`
  says that it still gets `UPSTREAM_UNAVAILABLE`. `gateway_requests` has such
  states; `LostAnswersWereLate` says that an answer of the gateway's own is lost
  to a waiting client in two ways only, this one and the next.
* Before it backs off, `RoundTrip` reads the body of a 502, 503 or 504 to its end
  (`resilience.go:153`). `ResponseHeaderTimeout` does not cover bodies, so one
  that stalls keeps the request for as long as the service likes; only the
  client's hanging up ends it. `drained` is that time.
* Nor does anything bound the copy of a response's body, or the sending of a
  request's body to a service that stops reading; and `validate` accepts
  `UPSTREAM_TIMEOUT=0`, which removes the bounds on an attempt. `AttemptTimeout`
  stands for a configured timeout and a service that reads.
* A body that breaks off makes `ReverseProxy` panic with `http.ErrAbortHandler`,
  so that the server closes the connection. `Recovery` swallows it: a chunked
  response ends as if it were complete, with a 500's JSON behind the part that
  was copied. One with a `Content-Length` gets as much of that JSON as fits into
  what is missing, and where it fits exactly the response looks complete as well.
* The errors that `Recovery` of auth-, posts-, feed- and notification-service
  writes have no `request_id`, where `api-and-observability-conventions.md:54`
  says that it must always be included.
* `RequireHTTPS` stands outside `Logging` and `Metrics`: what it refuses is
  neither logged nor counted.
* `backoffForAttempt` shifts by `attempt - 1` and would overflow from some sixty
  attempts on, but the backoffs before would have taken longer than anyone waits.
* A client that hangs up ends in `recordFailure`, so hang-ups alone can open the
  breaker of a healthy upstream.
* An error of `CommitMessages` or `FetchMessage` ends `Run`
  (`follow_consumer.go:110`) and nothing starts it again while the process serves
  on; `notifications-event-flow-manual-test.md:74` says that consumers publish a
  malformed event to the DLQ and continue with later ones. The consumers of
  feed-service have the same loop.
* If the dead-letter write fails as well, the notification's event is committed
  and lost (`follow_consumer.go:129`).
* A failed look-up of the followers, or a failed `AddFeedItem`, is logged and the
  post committed all the same (`post_consumer.go:98` of feed-service), where
  `kafka-topics.md:27` says that posts are fanned out into the followers' feeds.
* `feed_service.go:50` says that the *latest* successful feed is kept, but the
  slower of two reads replaces a newer copy by an older one, so a stale answer
  may be older than one the user has already seen.
* posts-service ends with `log.Fatalf` when `Shutdown` times out (`main.go:53`),
  which skips its deferred `Close`; users-service closes its pools under the
  requests that are still running. Its producer's `Close` waits for the writes
  under way (`follow_producer.go:92`), so that one that hangs keeps the process.
* A publish that fails is only logged (`user_service.go:177`,
  `post_service.go:76`): the follow or the post exists and its event does not.
* The followers of a post are read when it is consumed, so somebody who follows
  between publication and consumption gets an older post, where
  `follow_consumer.go:120` of feed-service logs `policy=future-posts-only`.

## 4. Fairness

Only four specifications assume fairness, of the program's own steps and never
of the environment's choices. It is weak but for one condition:

* `GatewayResilience!FairSpec`: a goroutine that can run does, and a backoff
  timer fires. Nothing is assumed of the upstream: an attempt may stay without an
  answer, and a body that is drained without an end. `EveryRequestEnds` is
  therefore conditional: each request that has reached the transport ends,
  provided that it is not with the upstream for good. How an attempt ends is
  free: it may fail every time.
* `NotificationConsumer!FairSpec` and `FeedFanout!FairSpec`: the goroutine of
  `Run` is scheduled and every call it makes returns, with success or an error.
  Calls to Kafka carry the context, and the request to users-service has a
  timeout. `AddFeedItem` runs with `context.Background`, so what ends it are the
  timeouts of the Redis client. `Save` has no deadline of its own towards the
  database: that it returns is assumed of the driver and the connection.
  `EventsAreHandled` and `PostsAreHandled` promise nothing for a process that
  crashes, is closed, or whose `Run` has ended on an error; the code does not
  either.
* `ServiceLifecycle!FairSpec`: `main` goes on where nothing holds it, and
  `Shutdown`'s ten-second timer fires. The `Close` of a Kafka reader and of a
  `sql.DB` is assumed to return. Strong fairness stands for one thing: a consumer
  that comes to `FetchMessage` with a cancelled context again and again does not
  find a message there each time instead of the error. Nothing is assumed of
  handlers, of writes to Kafka or of the handling of a message; all may hang for
  good. `SignalEndsProcess` excepts the last two, for which `App.Close` waits
  without a timeout, and holds with handlers that hang in anything else.

## 5. Theorems

`tlapm` checks every proof; the constants are arbitrary within the assumption
that each module names (`ResilienceAssumption`, ...), among them any number of
requests, attempts, sessions and logouts.

| Module | Theorems | Inductive invariant, and why it is needed |
|---|---|---|
| `GatewayProofs` | `TypeCorrect`, `BreakerConsistent`, `TripsJustified`, `CoolOffRespected`, `NoUnsafeReplay` | `RequestInv`: before an attempt is sent there is room for one more, and a request that cannot be replayed is past its only attempt once it has left `sending`. `TripsJustified` counts the failed requests, a finite set that grows by one where the counter does. |
| `GatewayProofs`, second part | `GatewayTypeCorrect`, `RecordsHonest`, `HeadersInTime`, `AnswersLostLate` | For each request, where it is in the chain decides what was written and recorded, and how much of its budget is used up: `n` attempts and the backoffs between them have taken at most `n * AttemptTimeout + Backoff * (2^(n-1) - 1)` and the time in `drained`, which grows while nothing is due. The few facts about `2^n` are lemmas on the number of subsets. |
| `RateLimiterProofs` | `TypeCorrect`, `RateLimited`, `WindowsNeverOverlap`, `DenialsEarned` | A bucket's count is the number of requests charged to its window. A request that holds an old time cannot start a window that overlaps a later one: this needs `MaxStall <= Window`, and it is the only assumption about timing. |
| `AuthSessionsProofs` | `TypeCorrect`, `RepliesMatched`, `LogoutIsFinal`, `TokensHonoured`, `KeysAreTemporary`, `RegistryImplemented`, `ClosedForGood` | `CallInv`: of one call at most one command has no reply yet, so what `Do` returns is the reply to the last. A login returns only when its `SET` was carried out, and only a token that was returned is presented; therefore no `SET` follows a `DEL`. A late check's `GET` finds nothing; one that found nothing was late, or less than a second from it. For the registry: a session that is `absent` to it has a `SET` that was not carried out, so that no token of it was presented and no `GET` or `DEL` is about it. |
| `NotificationConsumerProofs` | `TypeCorrect`, `NoEventForgotten`, `NoUnexplainedDuplicate`, `ImplementsDelivery` | `ProgressInv`: all events before the reader's position are accounted for, except the one in hand. Duplicates are bounded by sessions and lost answers plus what is still to come. |
| `FeedFanoutProofs` | `TypeCorrect`, `NoFollowerLeftOut`, `FeedsKeepNewest`, `ImplementsDelivery` | As above, with the followers still to be added for the post in hand. `FeedsKeepNewest` rests on a lemma about `Trim`: trimming a set that was trimmed before and has grown by one item keeps the newest of all items ever added. |
| `UsersServiceProofs` | `TypeCorrect`, `FollowsHaveRows`, `ProfilesOwned`, `FollowsAreDurable`, `EventsAreUnique`, `NoFollowForgotten`, `FollowsAtomic` | `Control` (a stage belongs to the operations that have it); `RowsEnsured` (what earlier statements of a request have left); the row a request holds contains only values of its owner. |
| `PostsServiceProofs` | `TypeCorrect`, `AuthorsOnly`, `DeletionIsFinal`, `AnswersHonest`, `EventsHaveCause`, `NoPostForgotten`, `RequestsAtomic` | `Control`: a statement that changes a row was permitted, and its post is or was in the table; `RowsInserted`: a create has a row only once its `INSERT` was done. `Owned` speaks of every post's content, also after its deletion, because an abandoned `UPDATE` may still be under way. |
| `FeedReadsProofs` | `TypeCorrect`, `AnswersReal`, `AlwaysServed` | Every entry of the map is what a finished request of its user was answered; a user who was served has an entry; an entitled request that is still under way belongs to such a user, because `Restart` ends the others. |
| `FeedReadsProofs`, second part | `LifecycleTypeCorrect`, `PoolsInUseStayOpen` | `ServiceLifecycle`, for any number of requests. `DrainInv`: once `main` has left `Shutdown`, no request is under way, unless it timed out, and then nothing is closed where that is fatal. `CloseInv`: an `App.Close` that closes anything has seen every consumer stop. `MetClosedPool`: a request that met a closed pool had been given its ten seconds. `FlushInv`: once a producer is closed and `main` has gone on from its `Close`, no write to Kafka is under way, and since a closed producer admits none, the process ends with none. |

The refinements (`ImplementsDelivery`,
`RegistryImplemented`, `FollowsAtomic`, `RequestsAtomic`) are proved as step
simulations: the initial states map to initial states, and under the module's
inductive invariant each step maps to a step of the abstract module or to a
stutter. A lemma per action or group of actions (`InsertMapped`, `LoginMapped`,
...) names the step. The invariant is needed where the code relies on what it
read earlier: an `UPDATE` maps to `PostStore`'s because whoever reaches it is
the author, and the row, if there, is still the author's; a `SET` maps to `Open`
because it is the only one for its session and was not carried out yet.

`ClosedForGood` is an action property that follows from the refinement: no step
opens a closed session again. `DeletionIsFinal` (a deleted post never comes back,
and one request deleted it), `EventsHaveCause` (an event names a stored post, and
no like is the author's own) and the type invariants are proved only; no run
repeats them.

Only model-checked: the liveness properties (`EveryRequestEnds`,
`EventsAreHandled`, `PostsAreHandled`, `SignalEndsProcess`), since fairness is
out of the prover's reach; and the two violations.

## 6. Not modelled

* The bytes of RESP, JSON and HTTP headers: a reply that cannot be decoded is an
  error. `Client.Do` reads a bulk reply with one `Read`; `Decoded` lets a value
  come out short, and the caller cannot decode it then.
* Request IDs, trace contexts and proxy headers, which every request carries for
  itself. The other services wrap their handlers in the same `Logging`,
  `Metrics` and `Recovery`, in the same order, and have no module of their own.
* Connection pools: every proxied request builds an `http.Transport` of its own
  (`proxy_handler.go:302`), whose idle connections nobody closes.
* How often an OAuth state is used: the code keeps no record of used states, so
  a state starts any number of logins until it expires, and the model lets it.
* Google's OAuth endpoints: each of the two calls succeeds or fails.
* Listing notifications and posts, which only reads; what `NewApp` does before
  the server starts; configuration; migrations; deployment.
* Several partitions, and the order of events across topics: nothing in the code
  relates them.

## 7. Plan

Written so far: sections 2 to 5. What could follow:

1. Compositions across services: the gateway's retry with `FollowUser` and the
   notification consumer (how many notifications one click may cause), and
   posts-service with the follows and the fan-out (which posts reach whom). Both
   can start from the abstract modules: `FollowTable` and `PostStore` have the
   requests, `EventDelivery` the consumers.
2. An abstract account of a feed for `FeedReads` to implement, in which a copy
   may be old but is never invented.
3. `RedisClient` under feed-service, whose client is a library with a pool.
