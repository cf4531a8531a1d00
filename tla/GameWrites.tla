----------------------------- MODULE GameWrites -----------------------------
(***************************************************************************)
(* The write path of one game and the reads that fill its cache.           *)
(*                                                                         *)
(*   Postgres   row, state, stale, commits                                 *)
(*   Redis      cache, recent, published                                   *)
(*   servers    out, done, up (the ioredis client of each instance),       *)
(*              job (its cleanup job)                                      *)
(*   handlers   h (write requests), r (getGame)                            *)
(*                                                                         *)
(* A handler is cut at every await: between two of its steps any other     *)
(* handler, server, Redis command or mishap may take a step.  A statement  *)
(* or transaction of Postgres takes effect in one step, its commit: the    *)
(* row lock that UPDATE takes is held until then.                          *)
(*                                                                         *)
(* Commands to Redis go through the one client of the server: they are     *)
(* sent in order, executed in order, and stay in the client's queue until  *)
(* their reply arrives.  A connection that drops before the reply makes    *)
(* ioredis send them again.                                                *)
(***************************************************************************)
EXTENDS GameTypes, SequencesExt

CONSTANTS
    Writers,      \* clients with an API key, each sends one request at a time
    Readers,      \* requests that call getGame
    Servers,      \* API instances; Postgres and Redis are shared
    MayRequest,   \* what each writer may ask for
    MaxRecent,    \* length of the recent events list (25 in the code)
    MaxRequests,  \* bound: write requests that are started
    MaxReads,     \* bound: reads that are started
    Mishaps,      \* which faults of the environment may happen
    MaxMishaps    \* bound: how many of them happen

MishapKinds == {"abort", "lost_reply", "reconnect", "give_up", "crash",
                "expire", "age"}

ASSUME MayRequestAssumption == MayRequest \in [Writers -> SUBSET Request]
ASSUME MaxRecentAssumption == MaxRecent \in Nat \ {0}
ASSUME MishapsAssumption == Mishaps \subseteq MishapKinds
ASSUME BoundsAssumption == /\ MaxRequests \in Nat
                           /\ MaxReads \in Nat
                           /\ MaxMishaps \in Nat
ASSUME ProcessAssumption == /\ Writers \cap Readers = {}
                            /\ NULL \notin Writers \cup Readers

VARIABLES
    row,        \* the row of the game, NULL before it is created
    state,      \* its JSONB column "state"
    stale,      \* its ended_at lies more than two hours back
    commits,    \* the message of every committed write, in commit order; its
                \* event_update entries are the events table
    cache,      \* the hash lgf:v1:game:{id}:state, with who wrote it
    recent,     \* the list lgf:v1:game:{id}:recent_events, newest first
    published,  \* what Redis delivered to the game's channel, in order
    out,        \* out[s]: commands of server s whose reply is outstanding
    done,       \* done[s]: how many of them Redis has executed
    up,         \* up[s]: the client of s has not given up reconnecting
    job,        \* job[s]: the cleanup job is about to evict the game
    h,          \* h[w]: the write request of w
    r,          \* r[p]: the getGame call of p
    started,    \* the write requests started so far
    reads,      \* the reads started so far
    mishaps     \* the mishaps so far

postgres == <<row, state, stale, commits>>
redis == <<cache, recent, published>>
clients == <<out, done, up>>
bounds == <<started, reads, mishaps>>
vars == <<row, state, stale, commits, cache, recent, published,
          out, done, up, job, h, r, started, reads, mishaps>>

-----------------------------------------------------------------------------
(* Redis commands.  A pipeline (HSET and EXPIRE; LPUSH, LTRIM and EXPIRE)   *)
(* is one command.  "who" is the handler that waits for it.                 *)

SetState(game, who) == [op |-> "set", game |-> game, who |-> who]
PushRecent(msg, who) == [op |-> "push", msg |-> msg, who |-> who]
Publish(msg, who) == [op |-> "publish", msg |-> msg, who |-> who]
Evict == [op |-> "evict", who |-> NULL]

Process == Writers \cup Readers
Command == [op: {"set"}, game: Game, who: Process]
             \cup [op: {"push", "publish"}, msg: Message, who: Process]
             \cup [op: {"evict"}, who: {NULL}]

\* A client that has given up rejects a command at once; every caller logs
\* and swallows that error.
Enqueue(s, cmds) ==
    out' = IF up[s] THEN [out EXCEPT ![s] = @ \o cmds] ELSE out

\* A command of process p on server s has no reply yet.
Awaiting(p, s) == \E i \in DOMAIN out[s] : out[s][i].who = p

\* Mutant: RPUSH instead of LPUSH.
PushedLast(msg, list) ==
    SubSeq(list \o <<msg>>, 1,
           IF Len(list) < MaxRecent THEN Len(list) + 1 ELSE MaxRecent)

\* LPUSH, LTRIM 0 MaxRecent-1
Pushed(msg, list) ==
    SubSeq(<<msg>> \o list, 1,
           IF Len(list) < MaxRecent THEN Len(list) + 1 ELSE MaxRecent)

Mishap(kind) ==
    /\ kind \in Mishaps
    /\ mishaps < MaxMishaps
    /\ mishaps' = mishaps + 1

-----------------------------------------------------------------------------
NoRequest == [kind |-> "none"]
IdleWrite == [pc |-> "idle", req |-> NoRequest, srv |-> NULL,
              seen |-> NULL, msg |-> NULL]
IdleRead == [pc |-> "idle", srv |-> NULL, seen |-> NULL]

Init ==
    /\ row = NULL
    /\ state = NoState
    /\ stale = FALSE
    /\ commits = << >>
    /\ cache = NULL
    /\ recent = << >>
    /\ published = << >>
    /\ out = [s \in Servers |-> << >>]
    /\ done = [s \in Servers |-> 0]
    /\ up = [s \in Servers |-> TRUE]
    /\ job = [s \in Servers |-> FALSE]
    /\ h = [w \in Writers |-> IdleWrite]
    /\ r = [p \in Readers |-> IdleRead]
    /\ started = 0
    /\ reads = 0
    /\ mishaps = 0

-----------------------------------------------------------------------------
(* Write requests: createGame, submitEvent, transitionStatus and            *)
(* updateGameState.                                                         *)

\* requireAuth looks the key up in Redis first.  So a server whose client has
\* given up answers 500 and the request never reaches its handler, and the
\* reply to the lookup comes behind those to the commands of w's last request
\* to this server.  createGame reads no game.
Begin(w, s) ==
    /\ h[w].pc = "idle"
    /\ started < MaxRequests
    /\ up[s] /\ ~Awaiting(w, s)
    /\ \E req \in MayRequest[w] :
         h' = [h EXCEPT ![w] =
                 [IdleWrite EXCEPT !.pc = IF req.kind = "create" THEN "write" ELSE "read",
                                   !.req = req, !.srv = s]]
    /\ started' = started + 1
    /\ UNCHANGED <<postgres, redis, clients, job, r, reads, mishaps>>

\* findById reads Postgres.
FindById == row

\* Mutant: VALID_TRANSITIONS is not consulted.
AcceptsAnyTransition(game, req) ==
    game # NULL /\ (req.kind = "submit" => game.status = "active")

\* Mutant: submitEvent does not check the status.
AcceptsInactive(game, req) ==
    /\ game # NULL
    /\ req.kind = "transition" => req.to \in ValidTransitions[game.status]

\* The validation that follows findById.
Accepts(game, req) ==
    /\ game # NULL
    /\ req.kind = "submit" => game.status = "active"
    /\ req.kind = "transition" => req.to \in ValidTransitions[game.status]

\* Mutant: the error of a refusal never reaches next(), nobody answers.
ReadUnanswered(w) ==
    /\ h[w].pc = "read"
    /\ Accepts(FindById, h[w].req)
    /\ h' = [h EXCEPT ![w].pc = "write", ![w].seen = FindById]
    /\ UNCHANGED <<postgres, redis, clients, job, r, bounds>>

\* findById and the checks on what it returned; a refusal ends the request.
Read(w) ==
    /\ h[w].pc = "read"
    /\ h' = [h EXCEPT ![w] = IF Accepts(FindById, h[w].req)
                               THEN [@ EXCEPT !.pc = "write", !.seen = FindById]
                               ELSE IdleWrite]
    /\ UNCHANGED <<postgres, redis, clients, job, r, bounds>>

\* The row that submitEvent wants: the scores are computed from the game it
\* read before the transaction, the rest of the row is whatever it is now.
ScoreFor(game, req) == Scored(game, req.side, req.delta)

EventMessage(game, req) ==
    [n |-> Len(commits) + 1, type |-> "event_update",
     side |-> req.side, delta |-> req.delta,
     home |-> ScoreFor(game, req).home, away |-> ScoreFor(game, req).away,
     status |-> game.status]

\* Mutant: the columns take any value.
FitsAlways(score) == TRUE

\* A score over the INTEGER range makes the UPDATE, and so the transaction, fail.
Fits(score) == score.home <= MaxScore /\ score.away <= MaxScore

\* BEGIN; INSERT event; UPDATE score; COMMIT.
WriteEvent(w) ==
    LET seen == h[w].seen
        score == ScoreFor(seen, h[w].req)
    IN  /\ h[w].req.kind = "submit"
        /\ Fits(score)
        /\ row' = WithScore(row, score)
        /\ commits' = Append(commits, EventMessage(seen, h[w].req))
        /\ UNCHANGED <<state, stale>>

\* UPDATE status WHERE id: unconditional, it does not look at the status again.
WriteStatus(w) ==
    LET to == h[w].req.to
    IN  /\ h[w].req.kind = "transition"
        /\ row' = WithStatus(row, to)
        /\ stale' = (stale /\ to \notin Ended)
        /\ commits' = Append(commits, [n |-> Len(commits) + 1,
                                       type |-> "status_change", status |-> to])
        /\ UNCHANGED state

\* Mutant: the patch is published instead of what RETURNING gave.
WriteStateUnmerged(w) ==
    /\ h[w].req.kind = "patch"
    /\ state' = Merge(state, h[w].req.patch)
    /\ commits' = Append(commits, [n |-> Len(commits) + 1,
                                   type |-> "state_update", state |-> h[w].req.patch])
    /\ UNCHANGED <<row, stale>>

\* UPDATE state = COALESCE(state, '{}') || patch RETURNING state.
WriteState(w) ==
    /\ h[w].req.kind = "patch"
    /\ state' = Merge(state, h[w].req.patch)
    /\ commits' = Append(commits, [n |-> Len(commits) + 1,
                                   type |-> "state_update", state |-> state'])
    /\ UNCHANGED <<row, stale>>

\* INSERT INTO games.  One game is modelled, so only the first insert is.
WriteGame(w) ==
    /\ h[w].req.kind = "create"
    /\ row = NULL
    /\ row' = NewGame
    /\ UNCHANGED <<state, stale, commits>>

Write(w) == WriteEvent(w) \/ WriteStatus(w) \/ WriteState(w) \/ WriteGame(w)

\* Mutant: the delta is added to a game that already has it.
GameToCacheTwice(w) ==
    IF h[w].req.kind = "submit"
      THEN WithScore(row', ScoreFor(row', h[w].req))
      ELSE row'

\* Mutant: submitEvent caches the game as it read it.
GameToCacheUnscored(w) == IF h[w].req.kind = "submit" THEN h[w].seen ELSE row'

\* What the handler builds its Redis commands from: submitEvent from the game
\* it read before the transaction, the others from RETURNING.
GameToCache(w) ==
    IF h[w].req.kind = "submit"
      THEN WithScore(h[w].seen, ScoreFor(h[w].seen, h[w].req))
      ELSE row'

MessageOf(w) == IF h[w].req.kind = "create" THEN NULL ELSE Last(commits')

\* The write commits and its reply reaches the handler.
Commit(w) ==
    /\ h[w].pc = "write"
    /\ Write(w)
    /\ h' = [h EXCEPT ![w].pc = "fanout", ![w].seen = GameToCache(w),
                      ![w].msg = MessageOf(w)]
    /\ UNCHANGED <<redis, clients, job, r, bounds>>

\* The write commits but its reply is lost: the request fails with 500 and
\* nothing is cached or published.
LoseReply(w) ==
    /\ h[w].pc = "write"
    /\ Mishap("lost_reply")
    /\ Write(w)
    /\ h' = [h EXCEPT ![w] = IdleWrite]
    /\ UNCHANGED <<redis, clients, job, r, started, reads>>

\* Mutant: the event is published inside the transaction that fails.
AbortPublished(w) ==
    /\ h[w].pc = "write"
    /\ h[w].req.kind = "submit" /\ ~Fits(ScoreFor(h[w].seen, h[w].req))
    /\ Enqueue(h[w].srv, <<Publish(EventMessage(h[w].seen, h[w].req), w)>>)
    /\ h' = [h EXCEPT ![w] = IdleWrite]
    /\ UNCHANGED <<postgres, redis, done, up, job, r, bounds>>

\* Mutant: the event is inserted through the pool, outside the transaction.
AbortInserted(w) ==
    /\ h[w].pc = "write"
    /\ h[w].req.kind = "submit" /\ ~Fits(ScoreFor(h[w].seen, h[w].req))
    /\ commits' = Append(commits, EventMessage(h[w].seen, h[w].req))
    /\ h' = [h EXCEPT ![w] = IdleWrite]
    /\ UNCHANGED <<row, state, stale, redis, clients, job, r, bounds>>

\* Timeout, constraint or connection error: ROLLBACK, the request fails.  (A
\* second create makes another game and leaves this one alone.)
Abort(w) ==
    /\ h[w].pc = "write"
    /\ \/ "abort" \in Mishaps
       \/ h[w].req.kind = "submit" /\ ~Fits(ScoreFor(h[w].seen, h[w].req))
       \/ h[w].req.kind = "create" /\ row # NULL
    /\ h' = [h EXCEPT ![w] = IdleWrite]
    /\ UNCHANGED <<postgres, redis, clients, job, r, bounds>>

\* Mutant: the event is announced before it is listed.
FanoutOfAnnounced(w) ==
    CASE h[w].req.kind = "submit" -> <<SetState(h[w].seen, w),
                                       Publish(h[w].msg, w),
                                       PushRecent(h[w].msg, w)>>
      [] h[w].req.kind = "patch"  -> <<Publish(h[w].msg, w)>>
      [] OTHER                    -> <<SetState(h[w].seen, w)>>

\* What each handler sends to Redis after its commit: submitEvent sends three
\* commands and waits for none of them; transitionStatus and createGame wait
\* for the first one.
FanoutOf(w) ==
    CASE h[w].req.kind = "submit" -> <<SetState(h[w].seen, w),
                                       PushRecent(h[w].msg, w),
                                       Publish(h[w].msg, w)>>
      [] h[w].req.kind = "patch"  -> <<Publish(h[w].msg, w)>>
      [] OTHER                    -> <<SetState(h[w].seen, w)>>

WaitsForCache(req) == req.kind \in {"transition", "create"}

Fanout(w) ==
    /\ h[w].pc = "fanout"
    /\ Enqueue(h[w].srv, FanoutOf(w))
    /\ h' = [h EXCEPT ![w] = IF WaitsForCache(h[w].req)
                               THEN [@ EXCEPT !.pc = "await"]
                               ELSE IdleWrite]
    /\ UNCHANGED <<postgres, redis, done, up, job, r, bounds>>

\* setGameState resolved or was rejected (and caught): the status change is
\* published, and the request is answered.
Await(w) ==
    /\ h[w].pc = "await"
    /\ ~Awaiting(w, h[w].srv)
    /\ Enqueue(h[w].srv, IF h[w].req.kind = "transition"
                           THEN <<Publish(h[w].msg, w)>> ELSE << >>)
    /\ h' = [h EXCEPT ![w] = IdleWrite]
    /\ UNCHANGED <<postgres, redis, done, up, job, r, bounds>>

-----------------------------------------------------------------------------
(* getGame: cache first, Postgres on a miss, then warm the cache.           *)

\* HGETALL is answered after every command that the client sent before it.
ReadCache(p, s) ==
    /\ r[p].pc = "idle"
    /\ reads < MaxReads
    /\ up[s]
    /\ done[s] = Len(out[s])
    /\ r' = [r EXCEPT ![p] = IF cache # NULL THEN IdleRead
                             ELSE [pc |-> "miss", srv |-> s, seen |-> NULL]]
    /\ reads' = reads + 1
    /\ UNCHANGED <<postgres, redis, clients, job, h, started, mishaps>>

ReadRow(p) ==
    /\ r[p].pc = "miss"
    /\ r' = [r EXCEPT ![p] = IF row = NULL THEN IdleRead
                             ELSE [@ EXCEPT !.pc = "warm", !.seen = row]]
    /\ UNCHANGED <<postgres, redis, clients, job, h, bounds>>

Warm(p) ==
    /\ r[p].pc = "warm"
    /\ Enqueue(r[p].srv, <<SetState(r[p].seen, p)>>)
    /\ r' = [r EXCEPT ![p].pc = "await"]
    /\ UNCHANGED <<postgres, redis, done, up, job, h, bounds>>

Served(p) ==
    /\ r[p].pc = "await"
    /\ ~Awaiting(p, r[p].srv)
    /\ r' = [r EXCEPT ![p] = IdleRead]
    /\ UNCHANGED <<postgres, redis, clients, job, h, bounds>>

-----------------------------------------------------------------------------
(* Redis and its clients *)

\* Redis executes the next command of server s.
Execute(s) ==
    /\ done[s] < Len(out[s])
    /\ LET cmd == out[s][done[s] + 1]
       IN  /\ cache' = CASE cmd.op = "set"   -> [game |-> cmd.game, who |-> cmd.who]
                         [] cmd.op = "evict" -> NULL
                         [] OTHER            -> cache
           /\ recent' = CASE cmd.op = "push"  -> Pushed(cmd.msg, recent)
                          [] cmd.op = "evict" -> << >>
                          [] OTHER            -> recent
           /\ published' = IF cmd.op = "publish" THEN Append(published, cmd.msg)
                                                 ELSE published
    /\ done' = [done EXCEPT ![s] = @ + 1]
    /\ UNCHANGED <<postgres, out, up, job, h, r, bounds>>

\* The reply to the oldest command arrives.
Reply(s) ==
    /\ done[s] > 0
    /\ out' = [out EXCEPT ![s] = Tail(@)]
    /\ done' = [done EXCEPT ![s] = @ - 1]
    /\ UNCHANGED <<postgres, redis, up, job, h, r, bounds>>

\* Mutant: autoResendUnfulfilledCommands is off.
ReconnectForgetful(s) ==
    /\ up[s]
    /\ done[s] > 0
    /\ Mishap("reconnect")
    /\ done' = [done EXCEPT ![s] = 0]
    /\ out' = [out EXCEPT ![s] = << >>]
    /\ UNCHANGED <<postgres, redis, up, job, h, r, started, reads>>

\* The connection drops and comes back: every command without a reply is sent
\* again, those that Redis has executed included.
Reconnect(s) ==
    /\ up[s]
    /\ done[s] > 0
    /\ Mishap("reconnect")
    /\ done' = [done EXCEPT ![s] = 0]
    /\ UNCHANGED <<postgres, redis, out, up, job, h, r, started, reads>>

\* After three attempts the client gives up for good: outstanding commands
\* are rejected, and so is every later one.
GiveUp(s) ==
    /\ up[s]
    /\ Mishap("give_up")
    /\ up' = [up EXCEPT ![s] = FALSE]
    /\ out' = [out EXCEPT ![s] = << >>]
    /\ done' = [done EXCEPT ![s] = 0]
    /\ UNCHANGED <<postgres, redis, job, h, r, started, reads>>

\* A TTL runs out: 2 hours or 30 minutes for the hash, 2 hours for the list.
Expire ==
    /\ \/ cache # NULL /\ cache' = NULL /\ UNCHANGED recent
       \/ recent # << >> /\ recent' = << >> /\ UNCHANGED cache
    /\ Mishap("expire")
    /\ UNCHANGED <<postgres, published, clients, job, h, r, started, reads>>

\* The process of server s dies and is started again: its handlers and its
\* client's queue are gone.
Crash(s) ==
    /\ Mishap("crash")
    /\ h' = [w \in Writers |-> IF h[w].srv = s THEN IdleWrite ELSE h[w]]
    /\ r' = [p \in Readers |-> IF r[p].srv = s THEN IdleRead ELSE r[p]]
    /\ out' = [out EXCEPT ![s] = << >>]
    /\ done' = [done EXCEPT ![s] = 0]
    /\ up' = [up EXCEPT ![s] = TRUE]
    /\ job' = [job EXCEPT ![s] = FALSE]
    /\ UNCHANGED <<postgres, redis, started, reads>>

-----------------------------------------------------------------------------
(* The cleanup job: every ten minutes, games that ended two hours ago.      *)

\* Two hours pass; no request lives that long.
Age ==
    /\ "age" \in Mishaps
    /\ row # NULL /\ row.ended /\ ~stale
    /\ \A w \in Writers : h[w].pc = "idle"
    /\ \A p \in Readers : r[p].pc = "idle"
    /\ \A s \in Servers : out[s] = << >> /\ ~job[s]
    /\ stale' = TRUE
    /\ UNCHANGED <<row, state, commits, redis, clients, job, h, r, bounds>>

\* SELECT id FROM games WHERE ended_at < cutoff.  The runs are ten minutes
\* apart: the eviction of the last one has been answered.
FindStale(s) ==
    /\ ~job[s]
    /\ \A i \in DOMAIN out[s] : out[s][i].op # "evict"
    /\ row # NULL /\ row.ended /\ stale
    /\ job' = [job EXCEPT ![s] = TRUE]
    /\ UNCHANGED <<postgres, redis, clients, h, r, bounds>>

\* evictGame: DEL of the game's keys
EvictGame(s) ==
    /\ job[s]
    /\ Enqueue(s, <<Evict>>)
    /\ job' = [job EXCEPT ![s] = FALSE]
    /\ UNCHANGED <<postgres, redis, done, up, h, r, bounds>>

-----------------------------------------------------------------------------
Handle(w) == Read(w) \/ Commit(w) \/ Abort(w) \/ Fanout(w) \/ Await(w)
Serve(p) == ReadRow(p) \/ Warm(p) \/ Served(p)
Deliver(s) == Execute(s) \/ Reply(s)

Next ==
    \/ \E w \in Writers : Handle(w) \/ LoseReply(w)
    \/ \E w \in Writers, s \in Servers : Begin(w, s)
    \/ \E p \in Readers : Serve(p)
    \/ \E p \in Readers, s \in Servers : ReadCache(p, s)
    \/ \E s \in Servers : Deliver(s) \/ Reconnect(s) \/ GiveUp(s) \/ Crash(s)
                            \/ FindStale(s) \/ EvictGame(s)
    \/ Expire
    \/ Age

Spec == Init /\ [][Next]_vars

\* statement_timeout (30 s), lock_timeout (5 s) and maxRetriesPerRequest (3)
\* make every awaited call of a handler return or fail; Redis executes what
\* it received.
Fairness ==
    /\ \A w \in Writers : WF_vars(Handle(w))
    /\ \A p \in Readers : WF_vars(Serve(p))
    /\ \A s \in Servers : WF_vars(Execute(s)) /\ WF_vars(Reply(s))

FairSpec == Spec /\ Fairness
-----------------------------------------------------------------------------
(* Properties *)

\* The handlers' records: after the commit, seen is the game they will cache.
Handler == [pc: {"idle", "read", "write", "fanout", "await"},
            req: Request \cup {NoRequest}, srv: Servers \cup {NULL},
            seen: Game \cup {NULL}, msg: Message \cup {NULL}]
Reader == [pc: {"idle", "miss", "warm", "await"},
           srv: Servers \cup {NULL}, seen: Game \cup {NULL}]

\* Every variable has its type: in particular the score columns stay within
\* their range and the replies outstanding never outnumber the commands.
TypeOK ==
    /\ row \in Game \cup {NULL}
    /\ state \in GameState
    /\ stale \in BOOLEAN
    /\ commits \in Seq(Message)
    /\ cache \in [game: Game, who: Process] \cup {NULL}
    /\ recent \in Seq(Message)
    /\ published \in Seq(Message)
    /\ out \in [Servers -> Seq(Command)]
    /\ done \in [Servers -> Nat]
    /\ \A s \in Servers : done[s] <= Len(out[s])
    /\ up \in [Servers -> BOOLEAN]
    /\ job \in [Servers -> BOOLEAN]
    /\ h \in [Writers -> Handler]
    /\ r \in [Readers -> Reader]
    /\ started \in Nat /\ reads \in Nat /\ mishaps \in Nat

Committed == ToSet(commits)

\* Fans see nothing that did not happen: every message in the channel and every
\* event of the catch-up list was committed, whatever fails and whoever writes
\* at the same time (submitEvent and its siblings send to Redis after COMMIT).
NothingUncommittedIsShown ==
    ToSet(published) \cup ToSet(recent) \subseteq Committed

\* A score that fans can read from the cache is the opening score or one that
\* some transaction stored: caching the game read before the transaction, a
\* warm-up that comes late and a command sent twice never invent a score.
CachedScoreWasStored ==
    cache # NULL =>
      \/ cache.game.home = 0 /\ cache.game.away = 0
      \/ \E m \in Committed : /\ m.type = "event_update"
                              /\ m.home = cache.game.home
                              /\ m.away = cache.game.away

\* An event is only ever recorded for a game that was started: the status check
\* of submitEvent and started_at, which transitionStatus sets, agree whatever
\* the interleaving.
EventsOnlyAfterStart ==
    (\E m \in Committed : m.type = "event_update") => row # NULL /\ row.started

\* Each committed event changes the score by its own delta and nothing else
\* (withTransaction: "multi-write operations ... preserve atomicity").
NoLostUpdate ==
    [][commits' # commits /\ Last(commits').type = "event_update" =>
         /\ row'.home = Scored(row, Last(commits').side, Last(commits').delta).home
         /\ row'.away = Scored(row, Last(commits').side, Last(commits').delta).away]_vars

\* The status of the row only moves along VALID_TRANSITIONS, and no event is
\* recorded for a game that is not active.
StatusFollowsMachine ==
    [][/\ row # NULL /\ row'.status # row.status =>
            row'.status \in ValidTransitions[row.status]
       /\ commits' # commits /\ Last(commits').type = "event_update" =>
            row.status = "active"]_vars

\* No handler, no outstanding command, no eviction under way.
Quiescent ==
    /\ \A w \in Writers : h[w].pc = "idle"
    /\ \A p \in Readers : r[p].pc = "idle"
    /\ \A s \in Servers : out[s] = << >> /\ ~job[s]

\* When all is done, the cached game is the row: for one coach on one server
\* the cache built from the game read before the transaction and commands that
\* a reconnecting client sends again still leave the last write in place.
QuietCacheIsRow == Quiescent /\ cache # NULL => cache.game = row

\* The same for a cache entry that a fallback read of getGame left.
FallbackReadHeals ==
    Quiescent /\ cache # NULL /\ cache.who \in Readers => cache.game = row

\* The last message of m's type in a sequence of messages is m.
LastOfType(m, messages) ==
    \E i \in DOMAIN messages :
      /\ messages[i] = m
      /\ \A j \in DOMAIN messages : messages[j].type = m.type => j <= i

\* When all is done, the catch-up list (unless it expired or was evicted) has
\* the newest event on top.
QuietRecentIsNewest ==
    Quiescent /\ recent # << >> =>
      recent[1].type = "event_update" /\ LastOfType(recent[1], commits)

\* What a message says is what the database says.
ShowsRow(m) ==
    CASE m.type = "event_update"  -> m.home = row.home /\ m.away = row.away
      [] m.type = "status_change" -> m.status = row.status
      [] m.type = "state_update"  -> m.state = state

\* When all is done, a fan who heard the whole channel and believes the newest
\* message of each type shows the row: its score, its status and its state.
\* Commits are announced in their order, also when a reconnecting client sends
\* again what it had sent.
QuietChannelIsRow ==
    Quiescent =>
      \A c \in Committed : \E m \in ToSet(published) :
        m.type = c.type /\ LastOfType(m, published) /\ ShowsRow(m)

\* An event that was announced is in the catch-up list, unless the list expired
\* or was evicted, or newer events pushed it out: a fan who hears of an event
\* and then asks for the list does not miss it.
PublishedIsListed ==
    \A m \in ToSet(published) :
      m.type = "event_update" /\ recent # << >> =>
        \E i \in DOMAIN recent : recent[i].n >= m.n

\* The cleanup job only evicts a game that is over.
CleanupOnlyEnded ==
    (\E s \in Servers : job[s]) => row.status \in Ended

\* Every committed write reaches the channel.
EveryCommitIsPublished ==
    \A n \in 1 .. MaxRequests :
      Len(commits) >= n ~> \E i \in DOMAIN published : published[i].n = n

\* Every request is answered or fails, and so is every read.
EveryRequestEnds ==
    /\ \A w \in Writers : h[w].pc # "idle" ~> h[w].pc = "idle"
    /\ \A p \in Readers : r[p].pc # "idle" ~> r[p].pc = "idle"

-----------------------------------------------------------------------------
(* The write path as an implementation of ScoreSheet *)

Asked == UNION {MayRequest[w] : w \in Writers}

Sheet == INSTANCE ScoreSheet WITH Requests <- Asked, log <- commits,
                                  told <- ToSet(published)

\* With one score keeper every step of handlers, Postgres, clients and Redis is
\* one entry on the sheet, one announcement of an entry, or nothing at all:
\* the reads, transactions and retries in between do not show.
ImplementsScoreSheet == Sheet!Spec
=============================================================================
