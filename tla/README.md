# Live Game Feed in TLA+

A verification project for the Live Game Feed API (Node, PostgreSQL, Redis,
WebSocket): coaches post events of a game, fans follow it live. The modules
model what the code does between its `await`s, TLC checks small instances, and
TLAPS proves the properties that hold for every instance.

## 1. The system

| Component | State | Operations | Calls and is called by |
|---|---|---|---|
| Games and events services (`src/src/domains/games`, `domains/events`) | none of their own; rows `games`, `events` in PostgreSQL | createGame, submitEvent, transitionStatus, updateGameState, getGame, getGameSnapshot, listGames, listEvents | write PostgreSQL first, then send commands to Redis, most of them without waiting |
| Game cache (`games.cache-repository.ts`) | Redis: game hash, recent events list (25), fan counter | get/set, push, incr/decr, evict | services, WebSocket server, cleanup job |
| Publishers | none | PUBLISH on `lgf:v1:game:{id}:events` | services, after their commit |
| Redis clients (`config/redis.ts`) | queue of outstanding commands, connection | send, resend on reconnect, give up after 3 attempts | everyone |
| PostgreSQL (`config/database.ts`) | pool, transactions | withTransaction, single statements | services |
| Cleanup job | none | every 10 minutes: SELECT games that ended 2 hours ago, DEL their keys | PostgreSQL, game cache |
| WebSocket server (`infrastructure/websocket`) | registry of sockets per game, `subscribedChannels` | connection, close and message handlers | getGame, snapshot and catch-up list; the subscriber client |
| API keys (`domains/auth`, `auth.middleware.ts`) | row `api_keys`, Redis entry with a TTL of 5 minutes | create, validate, revoke, touch | every write request |
| Pagination (`shared/pagination`, listGames, listEvents) | none | cursors on `created_at` | read requests |
| Migrations (`scripts/migrate.ts`) | `schema_migrations` | apply each missing file in a transaction | `start.sh`, on every start, before the server |
| Startup and shutdown (`server.ts`) | timers | wiring; drain on SIGTERM or SIGINT, forced exit after 30 s | closes the HTTP server, then both Redis clients, then the pool |
| Teams and players, HTTP layer, seed data | rows; none | single statements; routing, validation, error formats | |

What is hard here: a handler reads a game, awaits, and writes what it computed
from the read; several servers share PostgreSQL and Redis but each has its own
connection; the fan-out after a commit is neither atomic nor awaited; commands
are repeated after a reconnect and rejected after the client gave up; a process
may die anywhere; the catch-up and the subscription of a fan are separate
steps, and its close listener comes last. `PROJECT.json` lists each hazard at
its line, with the properties that cover it or the reason why none does.

What makes each component correct:

- write path: no delta is lost, the status follows its machine, nothing is
  announced that was not committed, what was committed is announced;
- cache and catch-up list: right when all is done, newest event on top, an
  announced event is in the list, no score that never was;
- cleanup: only games that are over are evicted;
- WebSocket server: registry, `subscribedChannels` and Redis agree, no open fan
  misses a message that others get, dead sockets leave, the catch-up and the
  stream leave no gap;
- API keys: a revoked key stops working, and stays so;
- pagination: no row twice, none skipped, newest first, while rows are inserted;
- migrations: each applied once, in order, however many instances start at once;
- startup and shutdown: no server on an old schema, no resource taken from a
  request whose client waits for the answer, nothing that such a request committed
  left unannounced by an orderly exit, every signal ends the process.

## 2. The modules

| Module | What it is |
|---|---|
| `GameTypes` | game, status machine, requests, messages, score arithmetic |
| `GameWrites` | write path, cache, cached read, Redis clients, cleanup job; properties |
| `ScoreSheet` | abstract: what the write path promises |
| `GameWritesProofs`, `QueueProofs`, `ScoreSheetProofs` | theorems about them |
| `WsServer` | connection handler, registry, dispatcher, subscriber client |
| `Feed` | abstract: what the WebSocket server promises its fans |
| `WsServerProofs` | theorems about both |
| `LiveFeed`, `LiveFeedProofs` | `GameWrites` and `WsServer` composed; theorems |
| `Pages`, `PagesProofs` | cursor pagination of games and events; theorems |
| `Lifecycle`, `LifecycleProofs` | migrations, start, serving, shutdown of several instances; theorems |
| `ApiKeys`, `ApiKeysProofs` | the life of one API key; theorems |
| `MCGameWrites`, `MCWsServer`, `MCLiveFeed`, `MCPages`, `MCLifecycle`, `MCApiKeys` | small instances for TLC |

Operators named after a mutation (their comment starts with "Mutant:") are
variants of the definition below them that a plausible bug would produce. They
take no part in the specification; each is there to show that some property
would notice it.

### GameWrites

One game; games share no row, key or channel. `row` is its `games` row, `state`
the JSONB column, `commits` the committed writes in commit order (its events are
the `events` table). `cache`, `recent` and `published` are the Redis hash, list
and channel. `h[w]` is the request of writer `w`, with a program counter for
each await:

| Step | Code |
|---|---|
| `Begin` | `requireAuth`: one Redis lookup, so it needs a working client, and its reply comes behind those to the writer's earlier commands on that connection |
| `Read` | `findById` and the checks on what it returned |
| `Commit` | the transaction or the single UPDATE/INSERT, and its reply |
| `LoseReply`, `Abort` | COMMIT without a reply; ROLLBACK |
| `Fanout` | the commands sent in the same synchronous stretch |
| `Await` | `setGameState` has resolved or was rejected; the status is published |
| `ReadCache`, `ReadRow`, `Warm`, `Served` | `getGame` |
| `FindStale`, `EvictGame` | `runCleanup`: SELECT, then DEL |

`out[s]` is the queue of the ioredis client of server `s`: commands whose reply
has not come. Redis executes them in order (`Execute`), replies take them off
(`Reply`), a reconnect repeats all of them (`Reconnect`, external behaviour of
ioredis with its default settings), and after three attempts the client rejects
everything (`GiveUp`, `retryStrategy` returning null).

Abstractions. A pipeline (HSET with EXPIRE; LPUSH, LTRIM, EXPIRE) is one command.
A PostgreSQL transaction takes effect at its commit: submitEvent's is one INSERT
and one UPDATE that depend on nothing read inside it, and the row lock orders the
UPDATEs as the commits. Timestamps are "set or not", and `stale` says that
`ended_at` is two hours back; `updated_at` is left out (the cached copy that
submitEvent writes carries the old one). `period` and `clock` of the row never
change and are left out. The delta of an event may be any integer.

`ScoreSheet` is the same service without its machinery: an entry is made in one
step on the game as it stands, and entries are announced, late or twice or never.
`ImplementsScoreSheet` maps `row` and `state` to themselves, `log` to `commits`
and `told` to the messages in `published`.

### WsServer

One server, the fans of one game. `conn[f]` is a socket's handler (`catchup`,
`subscribing`, `live`, `over`, `gone`) and `open` the sockets themselves;
`registry` and `subscribed` are WsConnectionRegistry and `subscribedChannels`.
`subq` (with `sent`, how many of them Redis executed) and `stream` are the two
directions of the subscriber's connection: commands in order one way, replies
and messages in order the other. `confirmed` is ioredis's own set of channels,
which it subscribes again after a reconnect. The fan's catch-up is `base`, the
number of events in the list when it was read; messages are numbered in the order
in which they are published. An unhandled rejection of SUBSCRIBE ends the process
(`Restart`; that a new one is started is up to the deployment).

`Feed` promises one line: every streaming fan hears the oldest message on it at
the same time, nothing published while it is up is left out, and it only goes
down under a streaming fan when it breaks. `ImplementsFeed` maps the line to the
messages in `stream` and the streaming fans to the registered open sockets whose
handler is through.

### LiveFeed

The two machines together, from a coach's request to a fan's screen. A message
that Redis executes in `GameWrites` goes to the subscriber's `stream` in the same
step (`Relay`); a fan's handler is one of the readers of `GameWrites`, so its
`getGame` takes the steps `AskGame`, `MissGame`, `WarmGame`, `GetGame`; its
catch-up list is `recent`. `screen[f]` is the score a fan shows: that of the
catch-up, then that of every event it hears; it is `Due` what is announced while it
is registered, open and subscribed. `WsServer` is instantiated with
`feed` as the length of the channel and `pushed` as the newest event listed; a
step of one machine leaves the variables of the other alone where they do not
meet.

### Pages

One walk through `GET /games` or a game's events, page by page. `created_at` is
the start of the inserting transaction, so rows commit out of order
(`BeginInsert`, `CommitInsert`). Time is in ticks, of which `Precision` make the
millisecond that a cursor keeps (`Millisecond`). `NextPage` is one query (filter,
strict comparison, order, LIMIT; rows of one instant in any order) and what the
service makes of it. `listGames` asks for two rows more than a page, once in the
service and once in the repository, `listEvents` for one: `Fetched`. Page sizes
that are zero, negative or not a number go through `Slice` and LIMIT as in the
code. `steady` and `edges` are history: the rows owed to the walk, and the
milliseconds in which a page ended.

### Lifecycle

Instances that share a database. `Start` to `CommitMigration` are `start.sh` and
the runner, a step per statement; an open transaction (`tx`) holds its locks, so
a second instance waits in `Apply` and then fails.

A server has connections, handlers, `redisClient`, a cleanup run, and up to two
calls of `shutdown()`. `client[c]` is a connection while it is `on`, and the
handler of its request: `Request`, `BeginQuery` (requireAuth, the checks, BEGIN),
`Query` (COMMIT), `Answer` (the events sent to Redis without waiting, and the
response). The request is submitEvent's, the only one that announces without
waiting. A client may hang up at any time (`Disconnect`); the handler does not
notice and goes on, which is why the announcement it then sends is called an
`"orphan"`. An upgraded connection is a fan.

`redis[i]` is `redisClient`, `queue[i]` what has no reply: it is `ready`, or
`away` while it reconnects (`Drop`, `Reconnect`: it keeps what has no reply), or
`gone` (`GiveUp`, or a drop after it wrote QUIT), or has `quit`, or was `closed` by a
`quit()` that found it reconnecting. What a client rejects at its end is noted in
`lost` (history) if it is the announcement of a client that stayed.

`Signal` stops the listener and closes idle connections. `Closed` runs the callback
of every call that waits once the last connection is gone; it does not wait for
handlers. Then `Quit`, `QuitSubscriber`, `EndPool`; `ClosedAway` is `quit()` on a
client that reconnects: ioredis closes it and resolves, and drops what had no reply.
`QuitRejected` and `SubscriberRejected` are the failures of a call, `ForceExit` the
timer. `Kill` ends a process anywhere, also by a signal during the migrations. A
signal reaches node: `start.sh` runs it as a child of `sh`, and whether `sh` passes a
signal on is up to the platform; where it does not, the platform's SIGKILL is `Kill`.

So a shutdown that ends with 0 after "All connections drained" may have lost an
announcement in two ways, and the properties exempt them by name: its client hung up
before the answer (Redis and the pool are taken from the handler, or its command
stands behind the QUIT), or `quit()` closed a client that reconnected.

### ApiKeys

One key, with a validation cut at its awaits: cache lookup, `findByKeyHash`
(active rows only), `setCachedKey`, and on to the handler. The controller revokes
by id and the cache entry stays until its TTL ends. `racing` (history) are the requests
that were half-way at the revocation.

## 3. The runs

| Run | Asks | Instance |
|---|---|---|
| `one_coach` | Used as intended (one coach, one timekeeper, one server), are score, status, cache, channel and catch-up list right, and is it a `ScoreSheet`? | 6 requests of 8 kinds, scores up to 3, list of 2, one reconnect or expiry; aborts and ageing at any time |
| `many_coaches` | What still holds when two clients write through two servers? | 4 requests, one reader, one lost reply, crash or client that gives up; servers symmetric |
| `live_feed` | From request to screen: are scores real and the last one right for those who heard it or were due it, is every commit published and heard, does every request end? | fair; one coach, one fan, 4 requests, one reconnect, expiry or dropped line |
| `lost_update` | Two clients: does every event count? **No.** | 4 requests |
| `stale_warm` | Does a fallback read heal the cache? **Not if it is slow.** | 4 requests, one read |
| `ws` | Do registry and subscription agree while fans come and go and the connection fails, is every fan served what it is owed, and is it a `Feed`? | fair; 2 fans, 2 events, one drop or give-up |
| `ws_leak` | Are dead sockets unregistered? **Not if they die early.** | 2 fans |
| `ws_gap` | Do catch-up and stream meet? **Not always.** | 2 fans, 1 event |
| `pages` | Does a walk list every row once, in order, and end? | fair; 3 rows, 4 ticks of which 2 make a millisecond, pages of 1 and 2, limits -2 and "abc" |
| `lifecycle` | Are migrations applied once, is the server started on a full schema, is shutdown clean, does every signal end the process? | fair; 2 instances, 2 clients, 2 migrations, 3 starts, 2 signals, one request, one failed statement, lost reply, kill or drop of Redis; clients hang up at any time |
| `keys` | Does a revoked key die, for good? | fair; 3 requests that repeat for ever |
| `key_revoked` | Is it refused at once where no validation is under way at the revocation? **No.** | 2 requests |

Why the bounds are enough to meet the interesting cases. A game needs a create, a
start and two events before two writes can disturb each other: four requests do
it, and six leave room for an end and a patch. A list of two overflows with the
third event. `MaxScore` 3 is passed by two baskets, -3 passes zero. One mishap is
enough for each single fault. In `ws` two messages can overtake and two fans race
for a subscription; what more fans and faults add is covered by `WsServerProofs`.
`live_feed` has one fault at a time, because two do not fit; `HeardScreensAreRow` and
`ServedScreensAreRow` cover any number. Three rows make two pages and a rest; two ticks
per millisecond let two instants share a cursor. Two instances are what it takes
to race for a migration, two migrations to get their order wrong, three starts
to come back after a failure; two signals make two calls of `shutdown()`, and one
request can be at any of its steps when its client leaves, the connection drops or a
call goes on. The theorems of section 4 have none of these bounds.

`CHECK_DEADLOCK FALSE`: with bounded requests, rows or starts, or with all fans
gone, the models stop when all work is done. The runs `keys` and `key_revoked`
check deadlock.

### Fairness

Only what the code's own limits justify. Handlers and reads (`Handle`, `Serve`,
`Handler` of WsServer, `Validate`) are weakly fair: statements time out after
30 s, locks after 5 s, and a Redis command is answered or, after
`maxRetriesPerRequest`, rejected. Redis executes what it received, replies
arrive, and the event loop reads its sockets. `Expire` is fair only in `ApiKeys`,
where the TTL of an entry is never renewed by a hit. In `Pages` the client goes on
as long as it is given a cursor. In `Lifecycle` statements of the runner end (the
runner sets no timeout; a lock it waits for is freed when its holder commits,
fails or dies) and the timer of shutdown fires; nothing makes a client hang up, Redis
answer or a query return, so `EverySignalEnds` rests on the timer alone. Clients asking, fans coming and going, signals and mishaps are not fair.
`live_feed` has no crash, lost reply or client that gives up: after those a
commit is not published, and no code tries again.

### What the violations show

1. `lost_update`: submitEvent computes absolute scores from a game that it read
   before the transaction, and the transaction is a plain BEGIN. The status has
   the same fault: the check of a transition and its UPDATE are two statements and
   the UPDATE has no condition, so with two clients a cancelled game can become
   active (`StatusFollowsMachine` fails in that instance as well).
2. `stale_warm`: getGame warms the cache with a row read before a write whose own
   cache update came first; nothing corrects it before the next write or the TTL.
3. `ws_leak`: the close listener comes after two awaits.
4. `ws_gap`: the catch-up is read before the channel is subscribed.
5. `key_revoked`: the key is validated and cached, then revoked while no validation is
   under way, and the next request is let in by the cache: the controller does not pass
   the hash that would delete the entry. (A validation that read the row before the
   revocation caches the key after it, which the hash would not prevent. The property
   exempts that race; `RevokedKeyDies` in the run `keys` includes it.)

## 4. The proofs

All are about every value of the constants that satisfies the named assumptions
of the module, which TLC evaluates in the runs.

`GameWritesProofs` (any writers, readers, servers, requests, mishaps, bounds):

- `Goodness`: the inductive invariant `Good`. The safety properties say where
  things that fans see come from, but a wrong message could sit in a client's
  queue, in a handler, or in a list that a reader holds. So `Good` follows
  everything on its way: each game in the cache, in a queue or in a handler past
  its commit has a score that some transaction stored, each message in a list, a
  queue or a handler is in `commits`, and each handler that will write has a
  request it was allowed and an existing row. `commits` only grows
  (`GoodMonotonic`), so what was good stays good; one lemma per group of actions
  (`HandlerStepIsGood`, `ReaderStepIsGood`, `ServerStepIsGood`) does the rest.
- `TypeCorrectness`, `OnlyCommittedIsShown`, `CacheShowsStoredScores` follow.
- `NoEventBeforeStart`: with `StartInv`, that a row which is or was active is
  started and a handler that passed the check of submitEvent saw such a row.
- `SoloKeepsEveryDelta`, `SoloFollowsMachine` and `SoloEvictsOnlyEnded` assume
  `SoloScorer`: at most one writer submits events and moves the status, the others
  patch the state. This is the hypothesis under which what two clients break holds,
  on any number of servers and through every mishap: `SoloInv` says that the game
  that this writer read is still the row when it writes. The run `lost_update`
  shows that the hypothesis is needed. `OverInv` adds that a row with `ended_at` is
  over and stays so between the SELECT and the DEL of the cleanup job.

`QueueProofs` is about the order in which what was committed reaches Redis. Each of
its theorems names the hypotheses that the run it belongs to has by its instance.
- `NewestMessageIsRow` needs none: the newest message of each type in `commits` says
  what the row says, whoever writes and whatever fails (`RecordInv`: a message's
  number is its place, and the last of a type carries the row's values).
- The others assume one server and one client per type of message (`OneWriterOf`):
  `AskedInv` and `OwnInv` say who can have sent what is queued. requireAuth's lookup
  comes behind the commands of the last request on the same connection, so a request
  that is past it has none of its client's commands in the queue (`NoneBehind`), and
  what the queue and the handlers carry of a type is the newest of it (`LatestInv`).
- `SoloListsWhatItTells`, through every mishap: an announcement is of an event that is
  listed already or stands behind its push (`Followed`), also after a reconnect starts
  again at the front; announcements come in the order of the commits
  (`EventsInOrder`). Without the lookup's wait a reconnect would push an old event on
  top.
- `SoloRecentIsNewest`, `SoloChannelIsRow`: the newest message of a type is where it
  belongs or on its way there, in the part of a queue that Redis has not executed or
  in a handler (`TopArrives`, `Arrives`); when all is done nothing is on its way. They
  need that no commit's reply is lost, no client gives up and no process dies
  (`NothingIsDropped`): the code sends nothing again after those.
- `SoloCacheIsRow`: every `HSET` in the queue has the row (`SetsRow`), and a cached
  game is the row or the row is on its way (`Coming`). Its hypotheses are the findings
  read the other way: `NothingIsDropped`, the score keeper also creates the game
  (`SoloOwner`), and no getGame warms the cache (run `stale_warm`).

`ScoreSheetProofs`: `SoloImplementsScoreSheet`, the refinement, under the same
hypothesis. A write is an entry on the row as it stands because of `SoloInv`; a
PUBLISH announces an entry because of `Good`; nothing else shows.

`WsServerProofs` (any fans, messages, mishaps): `Readiness` proves the invariant
`Ready`. The properties speak of the registry and of what Redis delivers; why they
hold is in the commands between the two. A handler that waits is registered and has
one SUBSCRIBE under way; an UNSUBSCRIBE is only sent while nobody waits, so it
stands before every SUBSCRIBE that somebody waits for; the last command, or where
there is none what Redis executed last, says whether the registry is empty; and the
messages in the stream are in their order and without holes. From it follow
`TypeCorrectness`, `RegistryIsServed`, `ChannelIsLeft`, `NothingIsMissed` and the
refinement `ServerImplementsFeed`.

`LiveFeedProofs`: every step of the composition is a step of `GameWrites` or only
counts a mishap of the line, so `Good` carries over (`LiveGoodness`);
`ScreensShowStoredScores` follows a score to the screen, with the invariant that
the stream holds only places of the channel that are taken. `HeardScreensAreRow`
says that the screen does not turn back, for one client that submits on one server
and through every mishap of either connection. The stream is in the channel's order
and what a fan heard stands before it (`StreamInOrder`, `HeardBefore`); a fan shows
the last event it heard (`ShowsLastHeard`), which is the newest it heard because of
`EventsInOrder`; and the newest event is the row because of `RecordInv`. A socket
outside the registry hears nothing (`Outside`), so the catch-up never overwrites an
event. `StreamsMissNothing` says for any clients and mishaps that what was announced
while a fan streamed it has heard or will hear (`NothingIsMissing`); with the theorem
before it, `ServedScreensAreRow` is the promise of the system from the coach to the
screen: a fan who streamed when the newest event was announced shows the row's score
once nothing is on its way to it. What neither says is that a fan streams: a fan who
connects is served at all (`EveryConnectionSettles`), and an event that falls between
its catch-up and its subscription is lost to it (`ws_gap`).

`PagesProofs` (any precision, page size, limits, rows): `WalksAreSound` proves
`Walks`: everything listed lies at or after the cursor and the next page strictly
before it, and a row owed is listed, of a millisecond in which a page ended, or
before the cursor. From it `NoRowTwice`, `PagesAreInOrder`, `OnlyEdgesAreSkipped`,
`TypeCorrectness`.

`LifecycleProofs` (any instances, clients, migrations, starts, faults):
`Soundness` proves two invariants that hardly meet. `Migrations`: an instance has
seen every earlier migration recorded, and what open transactions have made is
disjoint from one another and from what is recorded. `Serves`: once a call of
shutdown is past `server.close` nobody is connected (`Drained`), so whoever sends to
Redis after the QUIT is a handler whose client hung up. Hence no announcement of a
client that stayed stands behind a QUIT, and only a `redisClient` that gave up or was
closed has rejected one (`Ordered`); a call that is past QUIT has a client that has
quit (`Quitted`). `MigrationsAreApplied`, `SchemaIsFull`, `ResourcesAreKept`,
`NothingIsLeftBehind`, `NobodyIsCutOff` follow.

`ApiKeysProofs`, for any set of requests: `TypeCorrectness`, and
`RevocationHolds`: once no copy of the active row is left in the cache or in a
request, none comes back. (That the last copy goes is liveness and is checked by
`keys`.)

Only model-checked: liveness (`EveryCommitIsPublished`, `EveryRequestEnds`,
`EveryEventIsHeard`, `EveryConnectionSettles`, `EveryMessageArrives`, `WalkEnds`,
`EveryStartSettles`, `EverySignalEnds`, `RevokedKeyDies`), which is out of the
prover's reach. Every safety property of a passing run is proved, under the
hypotheses above.

## 5. Not modelled

- Teams and players: single statements with nothing to interleave, and none that
  deletes what a game refers to.
- The HTTP layer: validation, formats, routing and a library's rate limit; the
  requests of `GameTypes` follow its schemas.
- `broadcastStatusChange` and `invalidateGameState`: no code calls them.
- The ping: it changes no state and its answer is not looked at.
- The expiry date of an API key: no code sets one. Scopes appear as what a writer
  may ask for (`MayRequest`).
- `fan_count`: it is moved by an INCR and a DECR that nobody waits for, which may be
  rejected, repeated after a reconnect or lost with the process, and `evictGame`
  deletes it. No value of it could be promised, and its only reader, `getFanCount`,
  has no caller.
- What the migration files create, beyond the columns that `GameTypes` and `Pages`
  name; a `redisSubscriber.quit()` that fails in the first call of shutdown, which ends
  like `QuitRejected`.
- Seed data and test helpers are no part of the running system.

## 6. Plan

Done, in this order: the write path with its cache, because every fan sees its
results; the WebSocket server; API keys; the abstract specifications `ScoreSheet`
and `Feed` and the refinements; their composition; pagination; migrations,
startup and shutdown; the proofs of the safety properties. Left: a second server in
`LiveFeed`, fans on one and the coach on the other. Nothing in the code couples them
but Redis, which `LiveFeed` models already.
