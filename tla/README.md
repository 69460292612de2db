# IdiomaMate: formal models

TLA+ models of the IdiomaMate backend (`apps/`, `libs/shared`, `prisma/schema.prisma`),
checked with TLC; every safety property and both refinements are also proved with
TLAPS.
`PROJECT.json` lists every run, theorem, finding and hazard and says which
lines each definition translates; this file says what it all means.

## 1. Inventory

| component | state | operations | talks to |
|---|---|---|---|
| match API (`apps/api/src/match`) | none | `POST /match/join`, `POST /match/cancel` | publishes `matchmaking.join`, `matchmaking.cancel` |
| matching service (`apps/matching`) | Redis hash `pool` (level → one entry); handlers in progress | `handleJoin`, `handleCancel` | subscribes to both; Redis; inserts the measurement; publishes `match.found` |
| notification service (`apps/notification`) | `registry` map user → {ws, level}; sockets | connect, `register`, disconnect, `handleMatchFound` | subscribes to `match.found`; publishes `matchmaking.cancel`; updates the measurement; WebSocket messages |
| broker (NATS or RabbitMQ) | undelivered messages | publish, deliver | between the three |
| measurements | table `match_measurements` | insert (hop 1), update (hop 2) | written by two services |
| friends (`apps/monolith/src/friends`) | `friend_requests`, `friendships` | send, accept, reject, cancel, unfriend, three lists | Postgres |
| direct messages (`…/dm`) | `conversations`, `messages`, socket rooms `user:<id>` | send (HTTP, socket), mark read, history, inbox | reads `friendships` |
| lobbies (`…/lobby`) | `lobbies`, `lobby_members`, `lobby_messages`, socket rooms | create, delete, join, leave, message, history, lists | Postgres, socket.io |
| auth and accounts (`apps/api/src/auth`, `users`) | `users`, `refresh_tokens` | register, login, Google login, refresh, logout, profile | Postgres |
| metrics (`metrics.service.ts` of matching and notification) | counters and quantiles in memory | count a request, a match, a delivery | scraped by Prometheus |
| load test (`k6/matchmaking-test.js`) | virtual users; k6's counters | an iteration: connect, register, join, wait for `match_found` or the timer, close | HTTP and WebSocket of the match flow |
| results (`k6/run-tests.sh`, `generate-charts.js`, `show-results.js`) | a directory of JSON files | collect, average, draw, print | k6, Prometheus, Postgres |
| not modelled | | JWT and Google strategies, DTOs, Prisma glue, the unused table `rooms`, seeding, curves over time, monitoring, docker | |

Every service is a single-threaded Node process, but every `await` lets other
handlers run. No call but `acceptRequest` uses a transaction. So the hard
behaviours are

* **check, then act**: a row or pool entry is read, awaited, and acted on later
  (`handleCancel`, `unregister`, every monolith service, `refresh`, `googleLogin`);
* **two publishers**: joins come from the API, the cancel of a disconnect from
  the notification service, and nothing orders one against the other;
* **at most once**: `emit` errors are logged or dropped, handlers that throw are
  not redelivered, a restarting subscriber misses messages;
* **sockets**: a closed socket is noticed late, a new one may be there already;
* **partial failure**: a process may die between any two statements;
* **timers**: a virtual user's timer races the answer it waits for, and the answer
  to one iteration can come in the next.

What makes each component correct:

* matching: a request is used once, for its own level and user; two waiting
  requests of one level do not both stay; a cancel takes out the canceller only;
* notification: who is matched and reachable is told, with the payload that
  mirrors the partner's; the registry follows the sockets;
* measurements: both halves of a row are written, in that order;
* friends: no friendship without request and acceptance; an acceptance and its
  friendship come together or not at all (not: that an answer is final, or that a
  pair has one request; see the end of section 3);
* direct messages: one conversation per pair, messages only between users who were
  friends, live only to the two, read only by the receiver;
* lobbies: an empty lobby goes; only who was let in writes or listens (not: that a
  lobby with members stays, or that a writer is still a member);
* auth: a refresh token is spent once; a session has one good token; a Google
  account and a user belong together for good; a session that is over stays over;
* load test: every iteration ends and is counted as what it was; the two monitors
  and the database tell the same story; the charts show what was measured.

## 2. Modules

| module | models | proofs in |
|---|---|---|
| `MatchEvents` | event payloads, measurement row | |
| `MatchingService` | pool and handlers of `matching.service.ts` | |
| `NotificationService` | sockets, registry, delivery | |
| `Matchmaking` | the three services, broker, clients, faults composed | `MatchmakingProofs` |
| `Matchmaker` | abstract specification: pending, waiting, pairs | |
| `MatchmakingProps` | properties, and the refinement of `Matchmaker` | `MatchFlowProofs` |
| `Friends` | friend requests and friendships | `FriendsProofs` |
| `DirectMessages` | extends `Friends` with conversations, messages, live delivery | `DirectMessagesProofs` |
| `Lobby` | lobbies, members, messages, rooms | `LobbyProofs` |
| `Auth` | accounts and refresh tokens | `AuthProofs` |
| `Sessions` | abstract specification: sessions are opened, renewed, over; `Auth` implements it | |
| `MessageHistory` | cursor paging of dm and lobby histories | `MessageHistoryProofs` |
| `LoadTest` | extends `Matchmaking` with k6's virtual users, the services' counters, what is collected | `LoadTestProofs` |
| `LoadResults` | pure: from the collected files to charts and printed summary | `LoadTestProofs` |
| `MC…` | constants and symmetry for TLC | |

Definitions commented `Mutant:` are the original with one plausible bug. They
are part of no specification; each property is known to fail when its mutant
stands in for the original.

### Match flow

An action is the code between two awaits. `HandleJoin` is `handleJoin` up to
the reply of `JOIN_LUA` and on to its next await: the script is one atomic step
of Redis, which finds the level empty (`JoinWaits`) or pops the entry and builds
the event (`JoinMatches`). `RecordHop1` is the end of the awaited insert,
`EmitFound` the publish. `HandleCancel` is the `hget`, `DeleteEntry` the `hdel`.
One ioredis connection carries all commands of the process in the order they are
issued, so a command is executed in the step that issues it and replies come
back in order (`cancelling` is a queue).

`Matchmaking` adds the broker. Each publisher's messages stay in order
(`toMatching["api"]`, `toMatching["notification"]`), two publishers' do not.
`OnJoin`, `OnCancel`, `OnMatchFound` take the head of a queue. Nest's `emit` is
hot: a publish happens whether or not somebody subscribes to its result, and an
error is at most logged. Consumers run with `noAck`, so a message is gone once
delivered. A publish, a Redis command and a database statement may fail
(`ok = FALSE`), a process may crash and restart (`CrashMatching`,
`CrashNotification`); each uses up one of `MaxFaults`. What a restart loses
depends on `Broker`: NATS keeps nothing for an absent subscriber; a durable
RabbitMQ queue keeps what it has not delivered, so any prefix is lost.

`topics` is opaque to the code: it is stored and forwarded. The model uses the
number of the request as its topics, so that two requests of a user can be told
apart. Channel names are fresh numbers for fresh UUIDs, an Agora token is the
uid it is made for. A socket id stands for one connection at a time; a socket is
`closing` from the moment its client is gone until the server runs
`handleDisconnect`. A connection without a valid token is closed at once and
changes nothing; it is left out.

### Monolith and auth

A call is a record in a slot; a step is one database statement (the
`$transaction` of an accept is one). The condition of a statement's reply is the
guard of what comes next, and the row that was read stays in the call as it was.
A call that the first statement turns down is no step. Prisma may send an
upsert as one statement or as a read and an insert; the models have the two
steps, and an insert that comes second may go on (ON CONFLICT) or fail (P2002).
A lobby call knows whether it came over HTTP or over a socket, since only the
gateway enters and leaves rooms, and whether that socket has closed since.
`asked`, `agreed`, `entered`, `heard`, `issued`, `signedIn` and the like are
history variables: no action reads them, but for `issued` which also hands out
fresh token numbers.

In `MessageHistory` a message is its `createdAt`. Messages may become visible in
any order, which covers transactions that commit late. The client's page-by-page
reading (`LoadPage`) is the use the API is made for.

A session (`Sessions`) is a sign-in and the tokens it leads to; `SessionOf` reads
it off `issued`. It is live while one of its tokens is stored, and renewing while
a `refresh` is between its delete and its insert. `ImplementsSessions` says that
no interleaving, repeated token or crash brings back a session that is over, and
that only a live one can be logged out: a logout that comes while the session is
renewing ends nothing.

`Friends` and `DirectMessages` also have the lists users are shown (`GetFriends`,
`GetConversations`, `Histories`), so that `FriendListedOnce` and `NothingHidden`
speak of what a user sees and not of rows.

### Load test

A virtual user is the user of its token and runs `matchmaking-test.js` in one
thread. `StartIteration` is `ws.connect` with its open handler up to the sent
`register`; the server handles that (`HandleRegistering`) at any time before the
close. `PostJoin` is the answered join, `PostFails` a join that is refused or
whose answer is lost. Then the event loop runs `OnMessage`, `OnTimeout` and
`OnError` in any order; a handler runs even after another has closed the socket.
`EndIteration` is the return of `ws.connect`. There is no clock, so the 30 s timer
may fire before or after anything. The handlers of the services are those of
`Matchmaking`; `CountJoin`, `CountMatch` and `DeliverFound` add what
`metrics.service.ts` counts and which virtual users get the message, and a crash
forgets the counts.

When all virtual users are done and the services are idle (`Settled`), the files
are collected: `summary.json` of k6, `db_metrics.json` and `metrics.json`; each may be
missing. The database is asked for the rows up to the second in which k6 ended, so any
part of the finished rows. A latency is a difference of two `Date.now()`, so each row
and each sample has any of the whole milliseconds `Millis`, zero among them, and
`Percentile` is `percentile_cont` (k6 interpolates its percentiles in the same way):
between two neighbours in order of size, in proportion. `PerSecond` is `COUNT(*) / 60.0`
to four decimals, the unit of all collected numbers. k6 writes the metrics of its
thresholds as zeros when they were not used. What Prometheus answers depends on when
it scraped: no series, zero, or more than was counted, as `rate` extrapolates.
`LoadResults` translates what is then computed: optional values are sequences of at
most one element, a mean is a pair of sum and count, and the runs are the domain of a
function to their files, since nothing that is computed depends on their order.

## 3. Runs

Passing runs, with their bounds (each below three minutes with 2 workers):

| run | question | bounds |
|---|---|---|
| `match_faults` | types, requests used once, faithful matches, how requests leave, mirrored notices, live registry, measurement rows, and that `Matchmaking` implements `Matchmaker`, under faults | 2 users, 2 levels, 2 sockets, 3 joins, the cancels of disconnects, 3 connects, 1 fault, RabbitMQ |
| `match_live` | liveness; how requests leave and the refinement once more, with a cancel of the API | 1 level, 2 joins, 1 cancel, 2 connects, no fault, NATS |
| `load_test` | iterations end, failures are counted, samples are distinct, monitors agree, the charts show what was collected | 2 virtual users, 3 sockets, 3 iterations without a fault or 2 with one, latencies of 0 and 1 ms, NATS |
| `friends_calls` | consent, atomic accept, friends listed once | 2 users, 3 concurrent calls, 4 rows |
| `dm_calls` | consent for messages, who hears, history and inbox, read marks | 3 users, 1 friend call, 2 dm calls, 2 messages |
| `lobby_calls` | rows, empty lobbies, rooms, messages | 2 users, 2 calls, 1 message, 1 crash |
| `auth_calls` | accounts, Google links, refresh tokens, `Auth` implements `Sessions` | 2 users, 2 e-mails, 2 names, 2 Google accounts, 3 concurrent calls, 3 tokens |
| `history_pages` | paging | 6 messages, pages of 0 to 3 |

Why this is enough. A pool entry concerns one level, and a match two requests:
three joins give a match with a third request before, between or after, two
levels tell a mix-up of levels apart, the cancel of a disconnect (or, in
`match_live`, of the API) can hit each of them, and two sockets with three
connects give the reconnect. The fault is any of the possible ones, at any point;
RabbitMQ loses any prefix of a queue, which includes the NATS case of losing all
of it. A third iteration of the load test meets the request or the match that an
earlier one has left behind. The iterations make one match and one row, or none
after a fault, and up to two samples, whose percentiles lie between 0 and 1 ms or on
them; every combination of latencies and of missing files is collected in every quiet
state. In the monolith and in auth each hazard is a race of two
calls, each with steps of the other between its own; `friends_calls` and
`auth_calls` add a third. `dm_calls` needs a third user only to see that he
hears nothing, two sends can cross, and with two messages the last one of an
inbox entry differs from the first. Three tokens
give a chain of two exchanges and a double spend. Six messages and pages of
three give exact and partial last pages.

Symmetry is used only for sets of model values that the specification never
tells apart and in runs without liveness. `MCAuth` also exchanges its two Google
accounts together with everything their profiles name. Two more bounds cut
states. The constraint `ThirdLooksOn` (`MCDirectMessages`) lets user 1 ask user 2 and
nobody else anybody, as one friendship is all the rows allow. `BoundedSpec`
(`MCLoadTest`) is `LoadFairSpec` with `FewIterations`, which trades iterations against the
fault, and `AliceFirst`, which names the first virtual user to connect, the two being
alike. It is a bound of the steps and not a constraint, so that the files are not
collected over and over in states beyond it. Liveness is not affected: the two only stop
an iteration or a fault from beginning, which no fairness asks for.
`CHECK_DEADLOCK FALSE` everywhere: clients need not call, and once their bounded
calls are used up the system really stops.

Runs that must fail, each with one property that a document or comment of the
repository states (`findings` in `PROJECT.json`):

| run | what TLC shows |
|---|---|
| `match_cancel_race` | `hget`/`hdel` of a cancel removes another user's request; the atomic script of the plan exists and is unused (and as written it compares the stored JSON with something that never equals it) |
| `match_ghost` | the cancel of a disconnect overtakes the join: the user who left waits in the pool |
| `match_reconnect` | the late close of an old socket unregisters the new one |
| `lobby_join_leave` | a leave deletes the lobby under somebody who has just joined |

`match_ghost` runs on `LoadTest`: the clients are the virtual users of the load
test and no fault happens, so that it is not due to a client nobody would write.

The models contain further behaviour of the code that is surprising and that the
passing properties are worded around. It is listed under `hazards`:

* a client that joins twice is matched with itself (`MatchFaithful` speaks of
  two requests, not of two users);
* friend requests that cross are both stored, and an accept and a reject that
  read the same pending row overwrite each other (`MutualConsent` asks for an
  acceptance, not for the last answer);
* a message can be created after the friendship, or the membership, it was
  checked against has ended (`MessagesNeedConsent` and `OnlyEntrants` ask that
  there was one);
* a crash inside a leave can keep an empty lobby (`EmptyLobbyIsAttended` has the
  premise that nothing has crashed);
* an end-to-end latency may belong to the match of the user's previous iteration,
  measured from the wrong start (`EachJoinSampledOnce` asks that no request is
  measured twice, and none by another user);
* after a fault the summary may print that nothing failed although iterations
  measured nothing, as refused connections are not counted (`NoSilentFailure` has
  the premise that there was no fault);
* a run whose database file has no matches is drawn from Prometheus although the
  source line names PostgreSQL, and the Prometheus quantiles have no p90
  (`ChartsShowMatches` speaks of collected rows);
* a percentile of 0 is drawn as 0.01 and printed as N/A, like one of exactly 0.01 and
  like no value at all: two matches measured in 0 ms have no latency in the charts
  (`ChartsShowMatches` says N/A where no latency was above zero, a number where all
  were, and in between that a printed number is one between the two extremes);
* crossing friend requests, both accepted, make two friendships, and an unfriend
  ends only one (`FriendListedOnce` excepts users who had asked each other);
* a send that passed its checks before an accept and a cancel of the previous
  request leaves a pending request between friends.

## 4. Fairness

`match_live` uses `FairSpec`: weak fairness on each handler step of the services
(delivery of a message, reply of a command, noticing a closed socket). Node runs
every callback that is ready and TCP delivers a reply or an error, so a step
that stays possible happens. Weak fairness is enough: once a message is at the head
of its queue it stays there until it is taken. No fairness is assumed of
clients, and none of faults; the run has `MaxFaults = 0`, since a lost message is
lost for good in this code and nothing can be promised about it.

`load_test` uses `LoadFairSpec`, within the bounds of `BoundedSpec`: weak fairness on the steps of each virtual user's
iteration, which are its own thread, the reading of its `register` by the server
and its timer. Nothing is assumed of the match flow: `IterationEnds` holds even
when no match is ever made, by the timer alone. No fairness makes a new iteration
begin.

## 5. Proofs

Each theorem holds for all values of the constants: any users, levels, sockets,
lobbies, accounts and calls, both brokers, and all bounds, so that what TLC sees on
a small instance is known of every one. Every invariant and every action property
that a passing run checks is a theorem, and so are the refinements:

| module | theorem | property |
|---|---|---|
| `MatchmakingProofs` | `TypeCorrect`, `UsedOnce`, `Faithfulness` | `TypeOK`, `RequestUsedOnce`, `MatchFaithful` |
| `MatchFlowProofs` | `RegistryPointsHome`, `NotificationsMirror`, `BothHopsMeasured` | `RegistryLive`, `MirrorNotifications`, `MeasuredBothHops` |
| | `LeavesOnlyPaired` | `LeavesPaired` (action) |
| | `FlowImplementsMatchmaker` | `ImplementsMatchmaker` (refinement) |
| `FriendsProofs` | `FriendsTypeCorrect`, `FriendsConsented`, `ListedOnce` | `FriendsTypeOK`, `MutualConsent`, `FriendListedOnce` |
| | `AcceptAtomic` | `AcceptIsAtomic` (action) |
| `DirectMessagesProofs` | `DmTypeCorrect`, `WritersConsented`, `LiveToTheTwo`, `HidesNothing` | `DmTypeOK`, `MessagesNeedConsent`, `LiveOnlyToParticipants`, `NothingHidden` |
| | `OnlyReceiverReads` | `ReadByReceiver` (action) |
| `LobbyProofs` | `LobbyTypeCorrect`, `EntrantsOnly`, `EmptyAttended` | `LobbyTypeOK`, `OnlyEntrants`, `EmptyLobbyIsAttended` |
| `AuthProofs` | `AuthTypeCorrect`, `OneUserEach`, `TokensSpentOnce`, `OneTokenEach` | `TypeOK`, `OneUserPerProfile`, `SpentOnce`, `OneTokenPerSession` |
| | `TokensImplementSessions` | `ImplementsSessions` (refinement) |
| `MessageHistoryProofs` | `HistoryTypeCorrect`, `PagesInOrder`, `NoneSkipped` | `TypeOK`, `PagesJoinUp`, `NothingPassedOver` |
| `LoadTestProofs` | `LoadTypeCorrect`, `SampledOnce`, `MonitorsTellTheSame`, `FailuresShow`, `ChartsTellTheTruth` | `LoadTypeOK`, `EachJoinSampledOnce`, `MonitorsAgree`, `NoSilentFailure`, `ChartsShowMatches` |
| | `LoadImplementsMatchmaker` | `ImplementsMatchmaker`, of `LoadSpec` |

Assumptions are the named ones of the modules. Bounds are naturals
(`BoundsAssumption`, `MaxRowsAssumption`, `LimitsAssumption`); `None` and `NoOne`
stand for nothing and are no user, socket, pool entry or registry entry; `Broker` is
one of the two and `LEVEL` is a level; two Google profiles have different e-mails and
`NoProfile` is none (`ProfilesAssumption`); the users of `DirectMessages` are numbers
in the order of their ids, and times are numbers (`UsersAssumption`,
`TimesAssumption`); latencies are whole numbers (`MillisAssumption`). No proof assumes that a set of users, sockets, lobbies or calls is
finite.

### The match flow

`RequestUsedOnce` is not inductive: that a popped request is in no other match
needs that its number was in one place only. The invariant `IInv` says of every
request number where it can be:

* `QueueInv`: joins come from the API only, their numbers are increasing along
  the queue (so each occurs once), and each message has the user and level of
  the request it names;
* `PoolFaithful`: a pool entry at level `l` is a request made at `l` by its user;
* `TypeOK`, `MatchFaithful`, `RequestUsedOnce` themselves.

Then each action moves a request number from the queue to the pool, or from the
queue and the pool to a new match, or loses it; no action copies it. The proof
has one lemma for each of these moves (`NewRequest`, `JoinWaitsStep`,
`JoinMatchesStep`, `OtherSteps`) and, under them, lemmas on what taking,
publishing and dropping do to a queue. `TypeOK` is proved in three parts
(matching, notification, composition) with one step per action.

What happens after a match is made is the invariant `FlowInv`. `ChannelInv`: the
channel of a match is its own, and handlers, messages, updates and notices are about
matches. `OnePlace`: while a handler of the matching service has a match, no other
handler has it, no message announces it and no update is about it.
`HopInv`: without faults the row is there once its handler is past the insert, and
complete once nothing is under way. `OnePlace` is what `HopInv` needs to be
inductive: otherwise a match could be announced and its row updated before the
insert. `RegistryLive` needs nothing but the types.

`LeavesPaired` and the refinement go back to what each handler does to the two places
a request can be in, the queue and the pool (`SubmitDoes`, `JoinTaken`, `WaitsDoes`,
`MatchesDoes`, `FinishCancelDoes`, `CrashLoses`, and lemmas for what moves nothing).
For the refinement each of these is one action of `Matchmaker` (`Submits`, `Waits`,
`Pairs`, `Loses`, `Withdraws`), or none.

### The monolith and auth

`FriendsInv` adds that an id is a request's own (`RequestKeys`), that a call's copy of
a row, stale as it may be, has the sender and receiver the row has (`AnswersRow`),
that every row was asked for and an accept in progress was asked for and agreed to
(`Consent`), and the unique index. A row may be answered by another call in between:
the invariant speaks of who asked, which no call changes, and not of the status.
`DmInv` needs of the friendships only `FriendsInv`; `SendsBetweenFriends` carries the check of the first
step of a send through to its message, `Sorted` makes the conversation of two users
the one of both orders, and `MessageKeys` makes the last message of an inbox entry
the one with the greatest id, which needs that ids are bounded by their number.

`LobbyInv` is `OnlyEntrants` and `EmptyLobbyIsAttended` with what members, rooms and
calls have been let in to (`LetIn`). `EmptyLobbyIsAttended` names the leave that has
still to look at the lobby, which is why it is inductive: whichever leave takes the
last member away goes on to count.

`AuthInv` has two halves that know nothing of each other. `AccountInv`: a row that a
Google call has found by its e-mail keeps that e-mail until it is linked, and who was
signed in with a profile is linked to it. `SessionInv`: tokens are numbered as they are
issued (`TokenKeys`), a token that is stored, or deleted by a call that is about to
insert the next one, has no successor and was not logged out (`SpendsOnce`), and a
session goes on with at most one of these (`OneHead`). That one is the state of the
session in `Sessions`.

`MessageHistoryProofs` proves what one page is, from the definition of the sort
(`NewestFirst`: `CHOOSE` a sequence that is sorted; it is shown to exist), and that
the cursor is the oldest message shown. The invariant `CursorIsFirst` is what makes
two pages join.

### The load test

The load test drives the match flow. `LoadStepCases` shows that each of its steps is
one of `Matchmaking` but for two kinds of fault that only a client sees, an
unanswered request and a join whose answer is lost. Both keep `IInv` and `FlowInv`,
and both are steps of `Matchmaker`, so that the results above hold under it.
`LoadInv` adds that a connection of a virtual user is open and its own (`VuInv`) and
that a sample is of a message that was received and waits no more (`MailInv`).

* `MonitorsTellTheSame`: the three counts are not equal at every moment, but without
  faults differ by what is in between, the joins in the queue, the matches in a
  handler, the messages in the broker (`Counted`); when all is quiet nothing is. Rows
  and matches are then in a bijection, by `HopInv`.
* `FailuresShow`: an iteration closes only by a match, which is a sample, or by a
  timeout, which is counted, as without a fault no connection is lost
  (`NothingSilent`). A mean of one counter is that counter, so that a printed zero
  means zero.
* `ChartsTellTheTruth`: under any faults finished rows are no more than matches
  (`RowsBounded`) and samples are finitely many (`SamplesFinite`). That a percentile lies
  between two measured latencies (`PercentileBetween`) needs that the value `Ordered`
  chooses exists. Of the latencies that have more than `k` up to them `OrderedIs` takes
  the least; it exists because the set is finite: the latency with the fewest above it
  is the greatest (`GreatestOf`, by the least number principle). Then the one file is
  followed through `LoadResults`. The lemmas on `Mean` need the sum over a single run only,
  for which the recursive function in the library's fold is given explicitly
  (`SumOfOne`); the sum over more runs would need an induction.

### Only model-checked

The liveness properties `NoTwoLeftWaiting`, `ParticipantTold`, `CancelTakesEffect`
and `IterationEnds`: TLAPS reasons neither about fairness nor about `ENABLED`. What
`LoadResults` computes from the files of several runs is neither checked nor proved:
`RUNS_PER_SCENARIO` is 1 (`run-tests.sh:30`), so that there is one file of each kind
for a broker and a number of users.

## 6. Not modelled

Read-only endpoints without a property of their own (user searches, profiles,
lobby lists); validation of DTOs and JWTs, password hashing, token signing
(stateless library code; every call of the models carries a valid user); logs;
file uploads (the banner of a lobby is stored before the call and never
deleted); notices that change no state (`member_joined`, `member_left`); the
table `rooms`, which no code uses; monitoring and deployment. The retry of a
command by ioredis after a reconnect is not modelled: a failed command is lost.

Of the load test: the iterations k6 interrupts at the end of the duration, its
thresholds, `seed.js`, `collect-metrics.js` (nothing reads its output), how
prom-client computes quantiles, and the curves over time
(`makeTimeseriesChart`: `toXY` counts seconds from the first sample, not from the
start of the test, and draws a 0 as a gap). `Settled` files are collected after
everything has calmed down; `run-tests.sh` waits five seconds, which may be too
short.

Two messages with the same `createdAt` are not modelled: their order is the
database's. Hazards that no property covers are listed in `PROJECT.json` with the
reason.

## 7. Plan

Done: the match flow, friends, direct messages, lobbies, auth with its sessions,
paging, metrics, the load test and its results, all with their proofs.

Left to model: ioredis resending `JOIN_LUA` after a reconnect; two sockets per
user in `DirectMessages` and `Lobby`; how far each check-then-act window reaches
(a message after an unfriend comes only from a send that was checked before it).

Left to prove: of the present properties, nothing but liveness. Worth stating and
proving next:

1. how far each check-then-act window reaches, as action properties: a message is
   written only for a friendship that was there since the send began, a row is
   answered by the call that read it pending or by one that crossed it;
2. the means of several runs, with an induction over finite sets that is spelled out
   for the sum (`SumFunction`);
3. the safety half of `CancelTakesEffect`: without a join in between, a cancel takes
   out the entry it has seen.
