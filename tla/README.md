# gitops: a TLA+ verification of the platform's services

The repository holds a small platform: an API gateway in front of a few
services, and among them the demonstration casino (`services/sentry-demo`) and
the user service. This directory specifies the parts that keep state and are
shared by concurrent requests, model-checks them on small instances with TLC,
and proves the most important results for every instance with TLAPS.

    tlc -workers 2 -config wager_concurrent.cfg MCWager     # any run of PROJECT.json
    tlapm WagerServiceProofs.tla                            # any *Proofs module

`PROJECT.json` maps every definition to the lines of source it stands for, and
lists the runs, the hazards with the properties aimed at them, the findings and
the theorems.

## 1. Inventory

| component (source) | state | operations | interacts with |
|---|---|---|---|
| wager service, PHP-FPM and MongoDB (`services/sentry-demo/wager-service`) | per user: one `user_bonuses` document (balances, active bonus, version), `wager_history`, `bonus_conversions` | validate, place, claim, progress, convert, history | called by the game engine (validate, place) and by the frontend (the rest) |
| game engine, Python/Tornado (`services/sentry-demo/game-engine`) | `games`, `user_balances`, a connection to RabbitMQ | calculate a spin | MongoDB; publishes results for analytics; calls the wager service over HTTP with a timeout of 5 s |
| payment service, Node (`services/sentry-demo/payment-service`) | `users`, `transactions`, a connection to RabbitMQ | process a payment | MongoDB; publishes events, unawaited |
| user service, Go (`services/user-service`) | `users`, `refresh_tokens`; JWTs that clients hold | register, login, refresh, logout, validate a session | MongoDB (unique and TTL indexes); asked by the auth adapter; publishes events over one connection made at start; drains and closes at a signal |
| auth adapter, Go (`shared/base/auth-adapter`) | rate-limit counters behind one mutex | Check (Envoy ext_authz) | asks the user service, and a captcha service |
| API gateway (`shared/base/api-gateway-image`; `services/api-gateway` holds the same Go files) | the file `envoy.yaml`, written once at start from `config.yaml` | validate, fill in defaults, generate | Envoy reads what it writes; the auth adapter reads the same `config.yaml` |
| frontend, Angular (`services/sentry-demo/frontend`) | tokens in localStorage, signals of the views | login, logout, spin, claim, convert, refresh progress | all services through the gateway |
| analytics (`services/analytics-service`) | records in memory, lists in Redis | record, sum | consumer of results |
| health-demo, web-grpc, web-http, load test | none | - | - |
| charts, CI templates, scripts, docs, audits | configuration and text | - | - |

What is hard, and what makes each part correct:

- **Wager service.** Up to 20 FPM workers (`docker/php/www.conf`) serve the
  same user. Requests read a document, compute, and flush changed fields; a
  flush is several MongoDB operations with no transaction, and a worker may be
  killed between them. The "lock" of a validation is one compare-and-increment
  of `version`. Correct means: no grant twice from one version, no credit for
  wagers that were not recorded, nothing converted that was not earned, no
  bonus lost without a record; and, when requests do not overlap, exact books.
- **Game engine.** One spin at a time per pod, but two pods in staging, and a
  spin is a chain of operations on MongoDB, RabbitMQ and the wager service,
  any of which may fail; the stake is what the client sends; between two spins
  nobody answers the broker's heartbeats. Correct means: balances add up, a reset
  takes nothing but what overlapped it, results are published while the broker is up
  except the one that finds its connection broken, no wager is placed twice although calls
  time out and are served late, and every spin is answered.
- **Payment service.** Handlers interleave at every `await`; the publisher's
  connection has a life of its own. Correct means: the balance is the sum of
  what was applied, the transactions are a statement of account, and there is
  never more than one connection.
- **User service.** Refresh and logout are several operations each, clients
  retry, access tokens cannot be revoked. Correct means: a used refresh token
  stays used, a logout ends a session's refreshing and bounds its access, and a
  session is not lost by overlapping refreshes. As a process it stores, then
  publishes, then answers; RabbitMQ may be missing from the start or go away; a
  signal starts a drain, then what `main` deferred runs backwards. Correct means:
  no event or answer is ahead of the database, also where refreshes, a logout and
  the TTL index overlap; events are lost in an outage only; a graceful stop cuts off
  nobody, and ends unless a handler hangs at MongoDB.
- **Auth adapter.** A counter checked, a captcha asked, the counter reset: three
  steps; and one mutex held over a sleep. Correct means: at most Count requests
  pass per address and period, and no request is blocked by another's delay.
- **Frontend.** Replies arrive in any order, timers delay them, a logout may
  overtake them. Correct means: the view shows the latest state, and a user who
  logged out is not authenticated.
- **API gateway.** Three programs read one configuration: the generator and the
  adapter validate it each in its own way, and Envoy matches prefixes, first
  route first, where the adapter cuts a path at its slashes. Correct means: what
  is written Envoy can use, what the generator accepts the adapter loads, and a
  request goes to the backend, the limit and the policy its path names.

## 2. Modules

    UserBonus            documents of the wager service and their operations (pure)
      WagerLedger        what the wager service promises: indivisible operations
      WagerService       the service: one database operation a step
        MCWager          instance for TLC
        WagerServiceProofs   theorems about the operations and the service
    UserSession          sessions of the user service
      MCUserSession, UserSessionProofs
    Sums                 sums of sequences (pure)
      SumsProofs         induction over numbers, and what sums do
    SlotMachine          what the reels can show and what that pays (pure)
    GameEngine           replicas of the engine, the wager service left open
      MCGameEngine
      SpinFlow           GameEngine composed with WagerService (W == INSTANCE)
        MCSpinFlow
        SpinFlowProofs   theorems about the engine and about the flow
    PaymentService       payments, statement, publisher
      MCPaymentService, PaymentServiceProofs
    AuthAdapter          checks of the auth adapter, and its rate limiter
      MCAuthAdapter, AuthAdapterProofs
    ApiGateway           generator, Envoy and adapter around one configuration
      MCApiGateway, ApiGatewayProofs
    UserServer           the user service as a process: start, events, shutdown
      MCUserServer, UserServerProofs

Conventions. A step is one operation on shared state: a MongoDB operation, a
publish, a call. Between two steps of a request anything else may happen. What
a handler holds in memory in between is its record in `req`, `spin` or `pay`.
One user (player) is modelled where users share nothing: every document, lock
and call is keyed by the user. Variables marked *ghost* record history for the
properties and influence no guard except as bounds. Each module also holds faulty forms of some
definitions (a dropped guard, a missing reset, a swapped order), named in its
header and used by no specification: with one of them in place of the
definition after it, TLC finds the property aimed at it violated (the pairs are in
`PROJECT.json`).

### WagerService, UserBonus
`db` is the `user_bonuses` document or `NoDoc`; `history` and `conversions` are
the two collections; `tickets` the validation arrays clients hold; `req` what
each worker is at. `Flushed(now, old, new)` is Doctrine's flush of a loaded
document: it writes the fields that changed since loading, whatever the
database holds by now, and of an embedded bonus its fields one by one, so that a
bonus removed meanwhile comes back as a *partial* one, without id and amount.
A document built by the request is upserted whole. `ValidateLock` is
`updateOne({_id, version}, {$inc: {version: 1}})`. A conversion of a bonus
with wagers on record ends at `ConvertStats`, where `setTotalWagers` reads an
uninitialized property. The embedded bonus's id is the second it was built in,
hence `second`. Amounts are integers; the program computes with floats whose
values are whole amounts in all its callers.

### UserSession
`tokens` is the collection, `given` and `access` the tokens that clients hold
and may show at any time; `raced` marks the sessions that were being refreshed
when they were logged out. A handler's tokens are dated between its last
operation and the insert, since the clock may advance while it computes.
`Expire` is the TTL index, which removes expired documents at some later time.

### GameEngine, SpinFlow, SlotMachine
`balances` is a sequence: the collection has no unique index on the user, so two
first spins may insert a document each, and a later `$inc` reaches one of them.
`link` distinguishes a connection the engine knows is gone (`none`) from one it
does not (`broken`), which costs the publish that finds out. A connection breaks when
the broker goes away (`BrokerDown`), or when a broker that is up closes it for missed
heartbeats (`BrokerCloses`): pika's BlockingConnection serves them inside its own
calls only, and the engine makes none between two spins. Bets are any integers, as
`CalculateRequest` takes them: more than the default balance, 0 or less. A reset sets
the default and the result of its own spin, which may be negative; the ghost
`lastReset` is how many games had changed a balance by then, `Since(p)` what has been won
after game p. The flow leaves negative stakes out (`AmountsOfFlow`); a stake of 0 is
answered 400 by the wager service, which reads nothing for it. GameEngine leaves
the answers of the wager service open; SpinFlow binds each open call to a
worker of WagerService. A call that has not been accepted when its caller hangs
up moves to `late` and is still served; one that has been accepted runs on with
nobody waiting. The ghost `validated` pairs the number of each validation with the
game its caller asked for, in the order of the answers (`Given`: its elements); `settled` is the sequence of games that changed a balance. `SlotMachine` says what the two calculations can show, three of a
kind or a loss that was made not to look like one, and what that pays; GameEngine
chooses among its `Outcomes`.

### PaymentService
`applied` is the ghost list of changes of the balance in order. `channel` has
the state `fresh`, between `createChannel` and the registration of the close
listener, and `dead`, which follows when the connection closes there.

### AuthAdapter
`check` is what each goroutine of Check is at; between its steps the captcha
service and the user service are asked, and their answers are left open.
`window`, `rate` and `mutex` are the limiter: the end of a method's period, its
counts by address, and the check that sleeps under the mutex (a critical section
that does not sleep is one step). `Key` names what a count is about; the ghosts
`grants` and `overs` collect the checks that passed and the counts found used up,
`epoch` counts resets. `verdict`, `identity` and `cleared` say of a response what the user
service found of the token, whether the request goes on with user-id and session-id, and
whether the client is told to drop its cookie: Envoy hands the headers of a refusal to
the client and those of an OK answer to the upstream request, so that a refused
token under an optional or no-need policy goes on, without an identity, and stays
with the client. With no captcha service configured every captcha passes,
so that a check over the limit forgives its address: the properties hold with
that too, and say that the limit is per reset.

### ApiGateway
`config` is what the file holds; Validate replaces it by its `Defaulted` form,
since the value receiver of `ClusterConf.Validate` writes through pointers into
the original. A name, a route or a path is a sequence of pieces, and "/" is the
piece that both readers of a path cut it at; "user" and "user-admin" share their
first piece. `file` is `envoy.yaml`: its routes by the place they come from (method
j of API i, or the API after its methods), so that the order of the file is
`Before`, and its clusters. `Accepted` is the generator's validation, `Loadable` the
adapter's. A request is routed by Envoy (first prefix that fits), limited, judged by
the adapter from the path as it arrived, and sent with its prefix rewritten. The
answers of the adapter beyond the choice of the policy are AuthAdapter's. Envoy
itself is external: `EnvoyAccepts` is what it demands of clusters and routes (names, hosts,
ports, no name twice), and `EnvoyStarts` may fail for more than that, as for a CA
file that is missing. `WrittenFileIsUsable` claims of the file what the generator
answers for, routes that fit their clusters and numbers that are set; not that Envoy takes
it. A text of the file that only the adapter decodes (need_recaptcha, delay) is
`Decodable` or not, and the generator takes either.

### UserServer
`stage` is how far `main` is: from MongoDB, indexes and RabbitMQ to serving, and
at a signal through the drain and the deferred calls, last first. `req` is what
each handler is doing, one database operation or publish a step; requests come
over HTTP/1.1, as the gateway sends them, which `Shutdown` waits for. `publisher`
is "none" where the one try at the start failed and "dead" once the connection was
lost or closed. `tokens` are the stored refresh tokens, each with its session. A
refresh finds its token, deletes it without looking whether it was there, and
inserts another; a logout deletes those of its session; `Expire` is the TTL index. So a
refresh that found its token before the logout's delete stores the session again
after the logout was published and answered. Ghosts name the sessions of which that
may be (`raced`), that a logout ended (`ended`), and that lost a token to its time or to
a refresh cut between its delete and its insert (`lapsed`); `outage`, `late` and `cut`
are about the current life, and `excused` keeps what they were at an answer.
`Disconnect` waits for the connections in use (`Using`): it can return while a
handler is at MongoDB, since not each of those holds one, but need not.

## 3. Runs

Passing runs:

| run | instance | shows |
|---|---|---|
| wager_concurrent | 2 workers, failures, 2 validations, 2 conversions, 2 seconds | `OneGrantPerVersion`, `ProgressIsBacked`, `ConversionsAreEarned`, `StatusFollowsProgress`, `NoConversionAfterWagers`, `HistoryIsCovered`, `BonusRetiredOnRecord` |
| wager_sequential | 1 worker, no failure | `BooksBalance` (total, status and money agree with the history) and the refinement `ImplementsLedger` |
| session_concurrent | 2 handlers, failures, 2 sessions, 4 tokens, clock to 2 | `ReplayIsRefused`, `LogoutEndsRefreshing`, `LogoutBoundsAccess`, `SessionSurvives`, `OneTokenPerSession` |
| engine_replicas | 2 replicas, 3 games, stakes of 600 and 1600, failures, a connection that breaks | `ShownIsPaid`, `IncrementsAddUp`, `NeverLeftNegative`, `BreakCostsOneResult`, `ResetTakesOnlyOverlap` |
| spin_single | 1 replica, 2 workers, 3 games, stakes of 0 and 600, no timeout | `ValidatedSpinsAreBooked` |
| spin_timeouts | 1 replica, 2 workers, 2 games, stakes of 0 and 600, timeouts, failures, late service | `PlacedAtMostOnce`, `RecordsAreSpins`, and under fairness `SpinIsAnswered` |
| payment_failures | 3 handlers, 4 payments, failures, 2 broker faults or restarts | `BalanceAddsUp`, `StatementAddsUp`, `OneConnection` |
| adapter_checks | 2 checks at once, 5 in all, 1 address, 3 methods (1 limited), clock to 3, a restart | `LimitIsKept`, `RefusedWhenUsedUp`, `BurstIsBounded`, `TokenIsJudged` |
| gateway | 2,495 configurations of up to two APIs, 26 paths | `WrittenFileIsUsable`, `LoadersAgree`, `SentAlike`, `LongestRouteTaken`, `JudgedByOwnAuth` |
| user_server | 2 handlers, 3 requests, 1 address, 2 lives, a token that may expire, crashes, outages | `NothingAheadOfDatabase`, `EventsLostOnlyInOutage`, `ShutdownCutsNone`, and under fairness `Stops` |

`wager_concurrent` also checks the type invariant of the wager service, which the
ledger and the spin flow rest on; the types of UserSession and AuthAdapter are
proved (section 4).

**Bounds.** A wager of 1500 against 1000 real and 1000 bonus takes from both
balances, two of them meet the requirement of 2000, and with payouts of 0 and
2000 a player can go on or be refused. Two workers suffice for every overlap of
a pair of requests, which is what the hazards are; two seconds make bonus ids
differ or coincide. `MaxOpen` bounds the wagers a client keeps open. Session
lifetimes of 1 and 2 against a clock that reaches 2 let access tokens expire
before refresh tokens, and both expire in a run. Three games let two replicas
overlap and a balance be reset twice; a stake of 600 brings a balance of 1000 below zero in
two spins, one of 1600 makes the reset itself set less than nothing; one broken
connection is enough for the publish that finds out, the one after it and the
other replica's. Its VIEW leaves out how many results were published, which nothing
reads. In `spin_single` the amounts are smaller
(500 and 500, a requirement of 500), so that three games are enough for a
refused stake, a conversion and a bonus that lacks fields. Two symbols can be
alike or not, and one multiplier, the least, wins and loses. In `adapter_checks`
five checks with a limit of one get past the limit, sleep (from the third over
it) and pass after a reset in the same period and in the next; the three methods
have a policy of their own, one of their service, and none. In `gateway` names of
APIs and methods begin like one another or hold a slash, clusters are gRPC or
HTTP, and everything `Validate` looks at is wrong once, and so is what it does not look at (a
port, a host, need_recaptcha, delay), so that routes shadow each
other, prefixes end in the middle of a segment, and each error is met; two APIs
suffice, since every property is about one request and a pair of routes. In
`user_server` one address and three requests let two registrations collide, and a
refresh overlap a logout or another refresh of the session that the first request made;
the token of that request may expire; two lives hold a crash, an outage and the start
after it. Every bound is a constant whose name begins with `Max`. Requests run to an end and the bounds
stop new ones, but each of the service modules keeps the requests that change
nothing, so they are checked for deadlock. `gateway` and `user_server` are not:
a gateway whose configuration is refused stops, and so does a process that has
used up its lives.

Several properties hold on a condition that a ghost records: `gen` (how often
the user document was created), `raced`, `overlapped`, `lapsed` and `cut` (sessions with a
refresh at their logout, with overlapping refreshes, with a request that ended
halfway), `resetDied` (a spin that died before its reset). The condition names the one overlap or
failure that breaks the property; every other one is explored and is harmless.

**Fairness.** Two runs assume any. `spin_timeouts`, for `SpinIsAnswered`: a replica
goes on with a spin it has begun (a running process), and its HTTP client gives
up after its timeout (`requests` enforces it). Nothing is assumed of the wager
service, and pods, MongoDB and the broker may fail. `user_server`, for
`Stops`: `main` takes its own next step of a shutdown (`WF_vars(Stopping)`), and its
drain ends after ten seconds. No handler has to end and no client has to read. The
disconnect is among those steps only while no handler is at MongoDB, since `main.go:58`
gives it a context without a deadline; so `Stops` claims that a process told to stop
does, provided that each handler is away from MongoDB again and again. A
handler that hangs there keeps the process until the pod is killed. The fairness of
`spin_timeouts` includes that the engine's operations on MongoDB and RabbitMQ return, as an
answer or an error: neither client is given a timeout for one that hangs.

Findings, each a run that shows what a comment or an interface description says
and the code does not keep:

| run | what is said | what happens |
|---|---|---|
| wager_lost_update | `WagerService.php:44` "with lock to prevent concurrent modifications" | overlapping placements overwrite each other's totals |
| wager_convert_throws | `bonus.proto:66` "can be converted to real money" | with a wager on record the conversion throws: `BonusConversion.php:121` reads an uninitialized property |

The models have other behaviours a reader of the comments would not expect:

- a second validation is granted while a wager is open ("Another wager is in
  progress", `WagerService.php:107`, is raised for overlapping validations only);
- of two overlapping placements one may store the status "completed" and the
  other a smaller progress, after which progress says the bonus can be converted
  and the conversion refuses it;
- a new user who claims is credited the bonus twice (`BonusService.php:58` adds
  what `UserBonus::setActiveBonus` has set);
- a refresh token shown twice at once is exchanged twice (`refresh_token.go:95`
  does not look at what it deleted);
- a player who exists and loses below zero is set to the default balance and the result
  of the last spin (`mongo_balance_repository.py:48`); with a stake above the default
  (`CalculateRequest` has no limit) that is below zero again, and may be less than what
  was there: the reset may lower a balance, and nothing raises it before the next spin;
- a broker that is up closes the connection of an engine that did not spin for a
  while, `is_closed` stays False, and the next result is lost
  (`rabbitmq_message_publisher.py:64` checks it, and 92 finds out);
- an invalid token is "cleared" (`server.go:201`) only where the request is refused: under
  an optional or no-need policy the set-cookie header is part of an OK answer, which
  Envoy adds to the request that goes on, and the client keeps the token;
- a refresh that overlaps the logout of its session (`user.go:120` "Logout
  invalidates the current session") stores a token after it, when the logout has been
  published and answered: that session is logged out and can refresh;
- a process told to stop waits without limit for a handler that hangs at MongoDB
  (`main.go:58`), although its drain gives up after ten seconds (`main.go:165`);
- a first spin that wins inserts the net win alone, without the default balance
  (`mongo_balance_repository.py:48` detects a new player by a negative balance);
- `config.yaml:131` and 148 (in `services/api-gateway`) say that /api/wager/* reaches
  /wager/* and /api/bonus/* reaches /bonus/*, the prefixes of the controllers;
  `README.md:1122` names only the service, `audit/04-api-standards.md:89` says "strip
  /api/wager", and the latter is what the templates do (`envoy_conf_generator.go:25`): an HTTP
  backend is sent the path without the API's name. No property says what should be sent;
  `SentAlike` says that the routes of an API agree about it;
- `Validate` takes ports that are none, hosts and cluster names that are empty, and CA
  files that are not there (`conf_convertor.go:88`), and Envoy refuses the file;
- a need_recaptcha that is no boolean or a delay that is no duration, the empty one
  included, passes the generator, which does not decode them, and keeps the adapter
  from starting (`config.go:18`);
- method names with a slash, which `services/api-gw/config.yaml:171` and others
  have, make a route with its rate limit, but the adapter looks up the first segment
  only, so that the auth of the API decides whatever the method's says;
- the adapter looks for "/api/": under any other `api_route` it answers "bad path"
  (`utils.go:60`);
- a cluster named `ext_auth` or `opentelemetry_collector` is accepted, and Envoy
  refuses the file (`envoy_conf_generator.go:280`);
- the rate limit of an API's own auth section is in no route
  (`envoy_conf_generator.go:416`), and that of a method lets twice its count pass at
  once in Envoy (`conf_convertor.go:212`), where the adapter counts exactly;
- after RabbitMQ was missing at the start, or went away once, the user service
  publishes nothing for the rest of its life (`main.go:84`);
- a unique index that could not be built is only printed (`main.go:75`): two users of
  one address may then register, and it cannot be built any more;
- a spin is saved, published and paid before its wager is validated, and a
  refusal takes nothing back (`calculate_game_result_use_case.py:67` and 98);
- the weights and multipliers of the reels return 30% x 4.1 = 123% of the stakes,
  where `calculate_game_result_use_case.py:141` says about 90%.

## 4. Proofs

Proved with TLAPS for every value of the constants that satisfies the named
assumptions (`AmountsAssumption`, `WagerAssumption`, `SessionAssumption`,
`SlotAssumption`, `EngineAssumption`, `PaymentAssumption`, `AdapterAssumption`,
`GatewayAssumption`, `ServerAssumption`, `FlowAssumption`, `AmountsOfFlow`: types, positive amounts, stakes that
are any integers in the engine and natural numbers in the flow, multipliers of at least two, finitely many replicas and handlers,
limits only where the configuration has an auth section, and `NoDoc` no document,
`NoUser` no number, `NoCheck` no check, `NoWorker` no worker):

| theorem | statement | argument |
|---|---|---|
| `TypeCorrect` | `Spec => []TypeOK` | inductive; the lemmas about UserBonus give the type of each operation on a document, `Flushed` included |
| `OneGrant` | `Spec => []OneGrantPerVersion` | every validation issued has a `(gen, version)` below that of the document: a grant needs the current version and increments it, an upsert begins a new `gen`; so two with the same pair are one |
| `ProgressBacked` | `Spec => []ProgressIsBacked` | the wagers recorded never fall below what any document in a worker's hands shows plus the stake whose record is written: a placement adds to `staked` when it inserts, before the flush that uses it |
| `ConversionsEarned` | `Spec => []ConversionsAreEarned` | a worker in a conversion holds a document whose bonus was complete when read, and that document is backed |
| `HistoryCovered` | `Spec => []HistoryIsCovered` | `CanWager` held of the document a validation holds, so what it issues is split and covered, and the record copies it |
| `StatusFollows`, `NeverConverted` | `Spec => []StatusFollowsProgress`, `Spec => []NoConversionAfterWagers` | while the user was created once there is one bonus, the same in every document that was read: each is completed if complete, only if the stored one is, and has a record if it has progress; so no flush takes "completed" back, `ConvertStats` finds the record, and nobody can claim a second |
| `RetiredOnRecord` | `Spec => BonusRetiredOnRecord` | a worker at the flush of a conversion has stored the record before, and no other flush takes a whole bonus out: the documents that requests create hold a whole one |
| `BooksInBalance` | one worker, no failure: `Spec => []BooksBalance` | the document a worker holds is the stored one, so a flush writes what the operation computed; between the record and the flush the history is ahead by one wager |
| `LedgerImplemented` | one worker, no failure: `Spec => ImplementsLedger` | each operation that changes the mapped state is the ledger's operation, taken at the flush, and every other one a stutter; numbers tell granted and recorded wagers apart |
| `LogoutIsFinal` | `Spec => []LogoutEndsRefreshing` | strengthened by: a logged-out, unraced session has no stored token and no handler that refreshes it or issues its first token |
| `LogoutLimitsAccess` | `Spec => []LogoutBoundsAccess` | from the same invariant: no access token of the session is made after the logout, and each expires `AccessTTL` after it was made |
| `ReplayRefused` | `Spec => ReplayIsRefused` | tokens are numbered; a stored token is new or was stored before, so one that is gone and in no handler stays so |
| `OneTokenStored` | `Spec => []OneTokenPerSession` | of a session without overlapping refreshes there is one token stored, or one handler that will store it, never both |
| `SessionStaysAlive` | `Spec => []SessionSurvives` | inductive: who deletes the last token of a session holds it, and stores its successor unless the request is cut |
| `ShownPaid` | `EngineSpec => []ShownIsPaid` | a loss whose middle symbol is replaced is not three of a kind; three of a kind pay at least twice the stake |
| `NegativeIsRaised` | `EngineSpec => []NeverLeftNegative` | who debits an only balance below zero goes to its reset; a reset leaves the default and the result of a settled spin; every later change that leaves less than zero goes to the reset itself |
| `BreakIsCheap` | `EngineSpec => []BreakCostsOneResult` | results missed and broken links together are at most the connections that broke: a publish that misses takes a broken link with it |
| `NoIncrementLost` | `EngineSpec => []IncrementsAddUp` | `SettledInv`: games are numbered, each unsettled spin has one of its own, so an increment settles a new game; the lemmas on sums give what one more element, and one changed balance, add |
| `ResetsTakeOverlap`, `FlowResetsTakeOverlap` | `EngineSpec => ResetTakesOnlyOverlap`, `Spec => ResetTakesOnlyOverlap` (SpinFlow) | `OverlapInv`: of an only document whose debit called for a reset, and that no other spin reset since, the balance is below what was won since that debit; the reset leaves at least 0 |
| `FlowIsEngine` | `Spec => EngineSpec` (SpinFlow) | step by step: each action of the flow is one of the engine or leaves it alone |
| `FlowIsWager` | `Spec => W!Spec` (SpinFlow) | the same for the wager service; the stakes and payouts of calls, late ones too, are those of games on record, and those are what the service expects |
| `NothingPlacedTwice`, `RecordsOfSpins` | `Spec => []PlacedAtMostOnce`, `Spec => []RecordsAreSpins` (SpinFlow) | `FlowInv`: replicas hold games of their own; numbers of validations are given, placed and recorded once; a worker's caller waits for what that worker does; and whoever holds validation data (replica, late call, worker) holds it for the game it was given for |
| `SpinsBooked` | one replica, no timeout, no failure, any number of workers: `Spec => []ValidatedSpinsAreBooked` (SpinFlow) | `FlowInv` with `OneCaller` (only the worker of the replica's call serves a wager), `FirstDocs` (documents to be created are sound and untouched) and `Steady`; see below |
| `BalanceIsSum`, `StatementIsComplete` | `Spec => []BalanceAddsUp`, `Spec => []StatementAddsUp` | `BooksInv`: the entries stored and those handlers still hold are at different positions of `applied`, each with the sum up to its own; their number and the cut ones make all |
| `NeverTwoConnections` | `Spec => []OneConnection` | one more connection was begun than there were faults at most while there is a channel or an event makes one; a payment's number, which `connecting` holds, is not 0 |
| `AdapterTypes` | `Spec => []TypeOK` | inductive, with: a check at the limiter is about a limited method, and finitely many passed |
| `LimitKept`, `RefusedLate` | `Spec => []LimitIsKept`, `Spec => []RefusedWhenUsedUp` | the limiter's count of an address, capped at Count, is the number of checks that passed under the current key; every check that passed has a key not later than now, because windows only end later and resets and restarts only add up, so that a new key begins with none |
| `BurstsBounded` | `Spec => []BurstIsBounded` | of the windows of a method in one life each is the same as another or more than a period from it, and a check passes in its window; so a span of a period meets two windows at most, of Count checks each |
| `TokenJudged` | `Spec => []TokenIsJudged` | only a response says "ok": with a token it comes after the user service was asked, with an identity only from `Valid`, and from elsewhere only where the policy requires none |
| `DatabaseIsAhead` | `Spec => []NothingAheadOfDatabase` | `FreshInv`: what a request stores bears its number, so nobody stored it before; `ClosedInv`: a session that a logout ended without a race has no token and no refresh that will store one; `SaidInv`: a request past its database step has stored what it will say, or the session is in one of the ghosts |
| `EventsLost`, `ShutdownDrains` | `Spec => []EventsLostOnlyInOutage`, `Spec => []ShutdownCutsNone` | `MainInv`: after a drain that was in time no request is left, and the publisher of a life without outage is open until then; `AnswersInv`: an answer was published, or its life was excused by then |
| `FileIsUsable` | `Spec => []WrittenFileIsUsable` | how far the gateway is tells what `config` and `file` are; the defaults preserve `Accepted` and leave no number at zero; unique names make the `CHOOSE` of a cluster the one with the route's name |
| `AdapterAgrees` | `Spec => []LoadersAgree` | what `Validate` checks of an auth section and `Decodable` are what the adapter checks; a full method name has a slash, which no API's name has, and full names are unique |
| `RoutesSendAlike` | `Spec => []SentAlike` | every prefix is what is stripped followed by what is written back, and what follows x in s begins with y when x \o y is a prefix of s; the routes of an API strip the same |
| `LongestIsTaken` | `Spec => []LongestRouteTaken` | of two prefixes of one path the shorter is a prefix of the longer |
| `JudgedByOwn` | `Spec => []JudgedByOwnAuth` | `JudgedInv`: the adapter's index is that of the configuration, also after `Validate`, and a request has the auth found under its path; cuts are counted by the slashes before them, so names without one are the parts 2 and 3 of the path; unique names and full names leave one place of the index per key |

Induction over numbers is proved where it is needed, from the library's theorem about
well-founded sets (`SumsProofs`: every set of numbers has a least element), so that the
sums of the engine and of the payments, which are recursive functions, can be proved
about.

**The books of the spin flow.** `ValidatedSpinsAreBooked` speaks of quiet states only, so
it is far from inductive. `Books` states it in every state: lifetime total and balances are
those of all validated spins, except that the spin whose wager is being placed has its
stake and its result still to come. A step keeps that because of what others can hold
meanwhile (`Course`), as long as the player was created once (`gen <= 1`):

- the worker at the lock or at a placement holds the document as it is in the
  database, so that the flush of a placement writes the sums it computed, and neither
  balance gets below zero (`Covers`);
- no claim comes to its flush, since the only bonus is never taken out of the document;
- no conversion comes to its insert: a bonus with progress has a record
  (`Recorded`), one without has not met its requirement, and `ConvertStats`
  throws at the record;
- every other request reads, or creates the document, which happens once.

Where `gen` is 0 nobody has validated anything; from its second creation on the property
claims nothing. The sums are those of sequences (`Sum`, a recursive function), and
`SumsOneMore` says what one more validation adds. `Steady` and its companions held in
`spin_single` before they were proved.

Only model-checked: liveness (`SpinIsAnswered`, `Stops`), which the prover does not reach.
Every other property of the passing runs is stated by a theorem. `BooksInBalance`,
`LedgerImplemented` and `SpinsBooked` are about one worker or one replica, as the properties are: with more, requests overlap
and the runs' findings show what becomes of the books.

## 5. Not modelled

Formatting, logging, tracing, metrics and the endpoints that provoke errors for
the monitoring demo; the older single-file variants of the engine and the
payment service, which the deployed configuration does not select; password
hashing and signatures (a token is what it identifies). The frontend: it shows
state that the services own, so its races (replies out of order, a profile reply
after a logout) mislead one view until the next reply. Analytics: demonstration data from a
random generator and sums taken under one mutex. The load test: a client that
measures. Of the gateway: tracing, CORS, trusted hops, percent-encoded paths,
numbers in YAML that its two decoders read differently, and Envoy's refill of its buckets,
which is a refusal at any time. Of the wager service: `ConnectWagerController`, a second
door to the same use cases, routed by the gateway (`config.yaml:210`) and called by none of
the services. Of the auth adapter:
headers named user-id and session-id that a request brings along (it sets them, and
removes none), and the panic of `CheckRecaptcha` (`recaptcha.go:54` logs the first
twenty characters of a token) at a shorter one. Of the payment service: an error from
`Sentry.getBaggage`, which would follow the payment. Of the engine's expensive calculation:
that `win` may be a numpy value, which MongoDB's driver does not encode; such a
spin ends at its save and changes nothing. Charts, CI and
documentation are not programs.

In `PaymentService` delivery of events is not claimed: the state `dead` shows that
every later event may be lost. In `AuthAdapter` progress is not claimed: a sleep
holds the mutex for its whole delay, and the calls of the captcha service have no
timeout. In `UserServer` requests over h2c connections are left out, since
`http.Server.Shutdown` does not wait for connections the h2c handler took over: the
only caller that opens them is the auth adapter, whose request (ValidateSession)
touches neither database nor publisher.
