------------------------------ MODULE Lifecycle ------------------------------
(***************************************************************************)
(* The life of the API's instances: start.sh runs the migrations and then  *)
(* the server, a signal shuts the server down, the platform starts it      *)
(* again.  All instances share Postgres; each has its own process.         *)
(*                                                                         *)
(* The migration runner is cut at every statement, shutdown at every await.*)
(* A statement of an open transaction holds its locks until COMMIT or      *)
(* ROLLBACK: another transaction that creates the same table, or inserts   *)
(* the same key, waits and then finds it taken.                            *)
(***************************************************************************)
EXTENDS Integers, Sequences, SequencesExt

CONSTANTS
    Instances,     \* processes that run start.sh
    Clients,       \* HTTP connections; one that is upgraded is a fan
    NumMigrations, \* the number of migrations (6 in the code)
    MaxStarts,     \* bound: how often an instance is started
    MaxRequests,   \* bound: requests of the clients
    MaxSignals,    \* bound: signals to all instances
    Mishaps,       \* which faults may happen
    MaxMishaps,    \* bound: how many of them happen
    NULL

ASSUME MigrationsAssumption == NumMigrations \in Nat \ {0}
ASSUME BoundsAssumption ==
    /\ MaxStarts \in Nat /\ MaxRequests \in Nat /\ MaxSignals \in Nat
    /\ MaxMishaps \in Nat
ASSUME MishapsAssumption ==
    Mishaps \subseteq {"abort", "lost_reply", "kill", "drop"}
ASSUME NullAssumption == NULL \notin Instances

Versions == 1 .. NumMigrations
Calls == {1, 2}      \* the calls of shutdown(): one per signal, two at most

VARIABLES
    tracked,    \* the table schema_migrations exists
    applied,    \* applied[v]: how often migration v took effect
    recorded,   \* the rows of schema_migrations
    proc,       \* proc[i]: the process of instance i
    tx,         \* tx[i]: what its open transaction has done
    client,     \* client[c]: a connection, while it is open (on), and its handler
    queue,      \* queue[i]: commands of redisClient without a reply
    redis,      \* redis[i]: the state of redisClient
    lost,       \* history: lost[i]: it rejected the announcement of a request
                \* whose client had stayed
    job,        \* job[i]: where a run of the cleanup job is
    call,       \* call[i][k]: where the k-th call of shutdown() is
    exit,       \* exit[i]: how the process of i ended, until it is started again
    starts, requests, signals, mishaps

postgres == <<tracked, applied, recorded>>
bounds == <<starts, requests, signals, mishaps>>
serving == <<client, queue, redis, lost, job, call>>
vars == <<tracked, applied, recorded, proc, tx, client, queue, redis, lost,
          job, call, exit, starts, requests, signals, mishaps>>

Down == [pc |-> "down", version |-> 1]
NoTx == [made |-> {}, listed |-> {}]
NoClient == [at |-> NULL, pc |-> "none", on |-> FALSE]
NoCalls == [k \in Calls |-> "none"]

Init ==
    /\ tracked = FALSE
    /\ applied = [v \in Versions |-> 0] /\ recorded = {}
    /\ proc = [i \in Instances |-> Down]
    /\ tx = [i \in Instances |-> NoTx]
    /\ client = [c \in Clients |-> NoClient]
    /\ queue = [i \in Instances |-> << >>]
    /\ redis = [i \in Instances |-> "ready"]
    /\ lost = [i \in Instances |-> FALSE]
    /\ job = [i \in Instances |-> "idle"]
    /\ call = [i \in Instances |-> NoCalls]
    /\ exit = [i \in Instances |-> "none"]
    /\ starts = 0 /\ requests = 0 /\ signals = 0 /\ mishaps = 0

Mishap(kind) ==
    /\ kind \in Mishaps
    /\ mishaps < MaxMishaps
    /\ mishaps' = mishaps + 1

\* process.exit, a failed start.sh, a kill: sockets, queue and transaction are gone.
Exit(i, how) ==
    /\ proc' = [proc EXCEPT ![i] = Down]
    /\ tx' = [tx EXCEPT ![i] = NoTx]
    /\ client' = [c \in Clients |-> IF client[c].at = i THEN NoClient ELSE client[c]]
    /\ queue' = [queue EXCEPT ![i] = << >>]
    /\ redis' = [redis EXCEPT ![i] = "ready"]
    /\ lost' = [lost EXCEPT ![i] = FALSE]
    /\ job' = [job EXCEPT ![i] = "idle"]
    /\ call' = [call EXCEPT ![i] = NoCalls]
    /\ exit' = [exit EXCEPT ![i] = how]

Goto(i, pc) == proc' = [proc EXCEPT ![i].pc = pc]

-----------------------------------------------------------------------------
(* start.sh and scripts/migrate.ts *)

Start(i) ==
    /\ proc[i].pc = "down"
    /\ starts < MaxStarts
    /\ Goto(i, "connect")
    /\ starts' = starts + 1
    /\ exit' = [exit EXCEPT ![i] = "none"]
    /\ UNCHANGED <<postgres, tx, serving, requests, signals, mishaps>>

\* CREATE TABLE IF NOT EXISTS schema_migrations: looks for the table, ...
LookForTable(i) ==
    /\ proc[i].pc = "connect"
    /\ Goto(i, IF tracked THEN "check" ELSE "create")
    /\ UNCHANGED <<postgres, tx, serving, exit, bounds>>

\* ... creates it, and fails if another instance did so meanwhile.
CreateTable(i) ==
    /\ proc[i].pc = "create"
    /\ IF tracked
         THEN Exit(i, "error") /\ UNCHANGED tracked
         ELSE /\ tracked' = TRUE
              /\ Goto(i, "check")
              /\ UNCHANGED <<tx, serving, exit>>
    /\ UNCHANGED <<applied, recorded, bounds>>

\* Mutant: readdirSync's order is taken for the order of the migrations.
CheckUnsorted(i) ==
    /\ proc[i].pc = "check"
    /\ IF recorded = Versions
         THEN Goto(i, "serve")
         ELSE \E v \in Versions \ recorded :
                proc' = [proc EXCEPT ![i] = [pc |-> "apply", version |-> v]]
    /\ UNCHANGED <<postgres, tx, serving, exit, bounds>>

\* SELECT version: skip a migration that is recorded, BEGIN one that is not.
\* After the last one, start.sh runs the server.
Check(i) ==
    /\ proc[i].pc = "check"
    /\ IF proc[i].version > NumMigrations
         THEN Goto(i, "serve")
         ELSE IF proc[i].version \in recorded
           THEN proc' = [proc EXCEPT ![i].version = @ + 1]
           ELSE Goto(i, "apply")
    /\ UNCHANGED <<postgres, tx, serving, exit, bounds>>

\* Mutant: the client is not released, and pool.end() waits for it for ever.
MigrationHangs(i) == Goto(i, "hung") /\ UNCHANGED <<tx, serving, exit>>

\* Mutant: start.sh goes on after an error.
MigrationIgnored(i) ==
    Goto(i, "serve") /\ tx' = [tx EXCEPT ![i] = NoTx] /\ UNCHANGED <<serving, exit>>

\* An error: ROLLBACK, the runner rethrows, exits with 1, and set -e ends start.sh.
MigrationFails(i) == Exit(i, "error")

\* The file's CREATE TABLE or ALTER TABLE waits for another transaction that
\* does the same, and fails if the table or column is there.
Apply(i) ==
    LET v == proc[i].version
    IN  /\ proc[i].pc = "apply"
        /\ \A j \in Instances \ {i} : v \notin tx[j].made
        /\ IF applied[v] > 0
             THEN MigrationFails(i)
             ELSE /\ tx' = [tx EXCEPT ![i].made = @ \cup {v}]
                  /\ Goto(i, "record")
                  /\ UNCHANGED <<serving, exit>>
        /\ UNCHANGED <<postgres, bounds>>

\* INSERT INTO schema_migrations: version is the primary key.
Record(i) ==
    LET v == proc[i].version
    IN  /\ proc[i].pc = "record"
        /\ \A j \in Instances \ {i} : v \notin tx[j].listed
        /\ IF v \in recorded
             THEN MigrationFails(i)
             ELSE /\ tx' = [tx EXCEPT ![i].listed = @ \cup {v}]
                  /\ Goto(i, "commit")
                  /\ UNCHANGED <<serving, exit>>
        /\ UNCHANGED <<postgres, bounds>>

\* What COMMIT makes of an open transaction.
TakeEffect(i) ==
    /\ applied' = [v \in Versions |-> applied[v] + IF v \in tx[i].made THEN 1 ELSE 0]
    /\ recorded' = recorded \cup tx[i].listed
    /\ UNCHANGED tracked

CommitMigration(i) ==
    /\ proc[i].pc = "commit"
    /\ TakeEffect(i)
    /\ tx' = [tx EXCEPT ![i] = NoTx]
    /\ proc' = [proc EXCEPT ![i] = [pc |-> "check", version |-> proc[i].version + 1]]
    /\ UNCHANGED <<serving, exit, bounds>>

\* The reply to COMMIT is lost: the runner takes the migration for failed.
LoseReply(i) ==
    /\ proc[i].pc = "commit"
    /\ Mishap("lost_reply")
    /\ TakeEffect(i)
    /\ MigrationFails(i)
    /\ UNCHANGED <<starts, requests, signals>>

\* A statement of the runner fails.
Abort(i) ==
    /\ proc[i].pc \in {"connect", "create", "check", "apply", "record", "commit"}
    /\ Mishap("abort")
    /\ MigrationFails(i)
    /\ UNCHANGED <<postgres, starts, requests, signals>>

-----------------------------------------------------------------------------
(* The server: connections, requests and the cleanup job *)

Serving(i) == proc[i].pc = "serve"

\* shutdown() was called: server.close has stopped the listener.
Closing(i) == \E k \in Calls : call[i][k] # "none"

\* pool.end() was called: the pool takes no query any more.
Ended(i) == \E k \in Calls : call[i][k] = "end"

\* redisClient takes commands: it is connected, or reconnects and keeps them.
\* Else it gave up ("gone"), or Redis answered its QUIT ("quit"), or quit()
\* closed it while it reconnected ("closed").
Takes(i) == redis[i] \in {"ready", "away"}

\* A command is sent without waiting for it.
Send(i, cmd) ==
    /\ queue' = IF Takes(i) THEN [queue EXCEPT ![i] = Append(@, cmd)] ELSE queue
    /\ lost' = IF Takes(i) THEN lost ELSE [lost EXCEPT ![i] = @ \/ cmd = "event"]

\* redisClient rejects these commands, its last.
Reject(i, cmds) ==
    /\ queue' = [queue EXCEPT ![i] = << >>]
    /\ lost' = [lost EXCEPT ![i] = @ \/ "event" \in ToSet(cmds)]

Connect(c, i) ==
    /\ client[c].pc = "none"
    /\ Serving(i) /\ ~Closing(i)
    /\ client' = [client EXCEPT ![c] = [at |-> i, pc |-> "idle", on |-> TRUE]]
    /\ UNCHANGED <<postgres, proc, tx, queue, redis, lost, job, call, exit, bounds>>

\* A coach submits an event on a kept-alive connection (also while the server
\* closes).  Other requests wait for the reply of Redis before they answer.
Request(c) ==
    /\ client[c].pc = "idle"
    /\ requests < MaxRequests
    /\ client' = [client EXCEPT ![c].pc = "auth"]
    /\ requests' = requests + 1
    /\ UNCHANGED <<postgres, proc, tx, queue, redis, lost, job, call, exit, starts, signals, mishaps>>

\* The handler is through: the connection is idle, or gone already.
Finished(c) ==
    client' = [client EXCEPT ![c] = IF @.on THEN [@ EXCEPT !.pc = "idle"] ELSE NoClient]

\* requireAuth's lookup waits while redisClient reconnects.  Then the game is
\* read and the transaction begins; or the request is refused, or fails because
\* Redis or the pool is gone.
BeginQuery(c) ==
    /\ client[c].pc = "auth"
    /\ redis[client[c].at] # "away"
    /\ \/ /\ redis[client[c].at] = "ready" /\ ~Ended(client[c].at)
          /\ client' = [client EXCEPT ![c].pc = "query"]
       \/ Finished(c)
    /\ UNCHANGED <<postgres, proc, tx, queue, redis, lost, job, call, exit, bounds>>

\* The transaction commits, or fails and is answered at once.
Query(c) ==
    /\ client[c].pc = "query"
    /\ client' = [client EXCEPT ![c].pc = "fanout"] \/ Finished(c)
    /\ UNCHANGED <<postgres, proc, tx, queue, redis, lost, job, call, exit, bounds>>

\* The event is sent to Redis, nobody waits for that, and the request is
\* answered.  An "orphan" is the announcement for a client that hung up.
Answer(c) ==
    /\ client[c].pc = "fanout"
    /\ Send(client[c].at, IF client[c].on THEN "event" ELSE "orphan")
    /\ Finished(c)
    /\ UNCHANGED <<postgres, proc, tx, redis, job, call, exit, bounds>>

\* The connection is upgraded to a WebSocket.
Upgrade(c) ==
    /\ client[c].pc = "idle"
    /\ client' = [client EXCEPT ![c].pc = "fan"]
    /\ UNCHANGED <<postgres, proc, tx, queue, redis, lost, job, call, exit, bounds>>

\* A client hangs up, or a kept-alive connection times out after five seconds.
\* A handler that is under way does not notice and goes on.
Disconnect(c) ==
    /\ client[c].on
    /\ client' = [client EXCEPT ![c] = IF @.pc \in {"idle", "fan"} THEN NoClient
                                       ELSE [@ EXCEPT !.on = FALSE]]
    /\ UNCHANGED <<postgres, proc, tx, queue, redis, lost, job, call, exit, bounds>>

\* runCleanup, at the start and every ten minutes until clearInterval.
JobStart(i) ==
    /\ Serving(i) /\ ~Closing(i)
    /\ job[i] = "idle" /\ "evict" \notin ToSet(queue[i])
    /\ job' = [job EXCEPT ![i] = "select"]
    /\ UNCHANGED <<postgres, proc, tx, client, queue, redis, lost, call, exit, bounds>>

JobEvict(i) ==
    /\ job[i] = "select"
    /\ Send(i, "evict")
    /\ job' = [job EXCEPT ![i] = "idle"]
    /\ UNCHANGED <<postgres, proc, tx, client, redis, call, exit, bounds>>

-----------------------------------------------------------------------------
(* The connection of redisClient *)

\* Redis executes the oldest command and its reply arrives.
Execute(i) ==
    /\ redis[i] = "ready"
    /\ queue[i] # << >> /\ Head(queue[i]) # "quit"
    /\ queue' = [queue EXCEPT ![i] = Tail(@)]
    /\ UNCHANGED <<postgres, proc, tx, client, redis, lost, job, call, exit, bounds>>

\* The connection drops.  ioredis reconnects and keeps what has no reply,
\* unless it has written the QUIT: then it takes the drop for the end.
Drop(i) ==
    /\ Serving(i) /\ redis[i] = "ready"
    /\ Mishap("drop")
    /\ IF "quit" \in ToSet(queue[i])
         THEN redis' = [redis EXCEPT ![i] = "gone"] /\ Reject(i, queue[i])
         ELSE redis' = [redis EXCEPT ![i] = "away"] /\ UNCHANGED <<queue, lost>>
    /\ UNCHANGED <<postgres, proc, tx, client, job, call, exit, starts, requests, signals>>

\* What has no reply is sent again, then what was sent meanwhile.
Reconnect(i) ==
    /\ redis[i] = "away"
    /\ redis' = [redis EXCEPT ![i] = "ready"]
    /\ UNCHANGED <<postgres, proc, tx, client, queue, lost, job, call, exit, bounds>>

\* Three attempts to reconnect fail.
GiveUp(i) ==
    /\ redis[i] = "away"
    /\ redis' = [redis EXCEPT ![i] = "gone"]
    /\ Reject(i, queue[i])
    /\ UNCHANGED <<postgres, proc, tx, client, job, call, exit, bounds>>

-----------------------------------------------------------------------------
(* shutdown() *)

\* server.close waits for connections, not for handlers.
ConnectedTo(i) == {c \in Clients : client[c].at = i /\ client[c].on}

\* SIGTERM or SIGINT, the second one while the first is being handled
\* included.  server.close stops the listener and closes idle connections.
Signal(i) ==
    /\ Serving(i)
    /\ signals < MaxSignals /\ signals' = signals + 1
    /\ \E k \in Calls :
         /\ call[i][k] = "none"
         /\ k = 2 => call[i][1] # "none"
         /\ call' = [call EXCEPT ![i][k] = "closing"]
    /\ client' = [c \in Clients |-> IF client[c].at = i /\ client[c].pc = "idle"
                                      THEN NoClient ELSE client[c]]
    /\ UNCHANGED <<postgres, proc, tx, queue, redis, lost, job, exit, starts, requests, mishaps>>

\* Every call that waits for 'close' has called redisClient.quit().
QuitCalled(i) ==
    /\ \E k \in Calls : call[i][k] = "closing"
    /\ call' = [call EXCEPT ![i] = [k \in Calls |-> IF @[k] = "closing" THEN "quit" ELSE @[k]]]
    /\ queue' = [queue EXCEPT ![i] =
                   @ \o (IF Takes(i) /\ "quit" \notin ToSet(@) THEN <<"quit">> ELSE << >>)]
    /\ UNCHANGED <<postgres, proc, tx, client, redis, lost, job, exit, bounds>>

\* Mutant: shutdown quits without waiting for server.close.
ClosedEarly(i) == QuitCalled(i)

\* The last connection is gone, sockets of fans included: 'close' runs the
\* callback of every call that waits.
\* (Redis answers the first QUIT only, so one of them is kept in the queue.)
Closed(i) == ConnectedTo(i) = {} /\ QuitCalled(i)

\* The same while redisClient reconnects and nothing was sent meanwhile: quit()
\* closes it and resolves at once, and what had no reply is not sent again.
\* Other calls resolve as well, or are rejected.
ClosedAway(i) ==
    /\ ConnectedTo(i) = {}
    /\ redis[i] \in {"away", "closed"} /\ "quit" \notin ToSet(queue[i])
    /\ \E resolved \in (SUBSET Calls) \ {{}} :
         /\ \A k \in resolved : call[i][k] = "closing"
         /\ call' = [call EXCEPT ![i] = [k \in Calls |->
                       IF k \in resolved THEN "quit_subscriber"
                       ELSE IF @[k] = "closing" THEN "quit" ELSE @[k]]]
    /\ redis' = [redis EXCEPT ![i] = "closed"]
    /\ Reject(i, queue[i])
    /\ UNCHANGED <<postgres, proc, tx, client, job, exit, bounds>>

\* The first of the calls that wait for QUIT goes on.
QuitResolved(i) ==
    /\ redis[i] = "ready" /\ "quit" \in ToSet(queue[i])
    /\ \E k \in Calls :
         /\ call[i][k] = "quit"
         /\ \A j \in Calls : call[i][j] = "quit" => k <= j
         /\ call' = [call EXCEPT ![i][k] = "quit_subscriber"]
    /\ redis' = [redis EXCEPT ![i] = "quit"]
    /\ UNCHANGED <<postgres, proc, tx, client, job, exit, bounds>>

\* Mutant: QUIT overtakes the commands before it.
QuitOvertakes(i) == QuitResolved(i) /\ Reject(i, queue[i])

\* The QUIT is answered, and the commands behind it are rejected.
Quit(i) == QuitResolved(i) /\ Head(queue[i]) = "quit" /\ Reject(i, Tail(queue[i]))

\* redisClient.quit() of a call is rejected: exit(1).
QuitRejected(i) ==
    /\ ~Takes(i)
    /\ \E k \in Calls : call[i][k] = "quit"
    /\ Exit(i, "error")
    /\ UNCHANGED <<postgres, bounds>>

\* redisSubscriber.quit()
QuitSubscriber(i) ==
    /\ ~Ended(i)
    /\ \E k \in Calls :
         /\ call[i][k] = "quit_subscriber"
         /\ call' = [call EXCEPT ![i][k] = "end"]
    /\ UNCHANGED <<postgres, proc, tx, client, queue, redis, lost, job, exit, bounds>>

\* It is rejected, or the second pool.end() is, when the other call was first.
SubscriberRejected(i) ==
    /\ Ended(i)
    /\ \E k \in Calls : call[i][k] = "quit_subscriber"
    /\ Exit(i, "error")
    /\ UNCHANGED <<postgres, bounds>>

\* pool.end() waits for the connections that are in use.
EndPool(i) ==
    /\ Ended(i)
    /\ job[i] # "select"
    /\ \A c \in Clients : client[c].at = i => client[c].pc # "query"
    /\ Exit(i, "ok")
    /\ UNCHANGED <<postgres, bounds>>

\* Mutant: the timer is only set once the server has closed.
ForceExitLate(i) ==
    /\ \E k \in Calls : call[i][k] \in {"quit", "quit_subscriber", "end"}
    /\ Exit(i, "forced")
    /\ UNCHANGED <<postgres, bounds>>

\* Thirty seconds after a signal: exit(1), whatever is under way.
ForceExit(i) ==
    /\ Closing(i)
    /\ Exit(i, "forced")
    /\ UNCHANGED <<postgres, bounds>>

\* The process is killed: SIGKILL, or a signal while the migrations run.
Kill(i) ==
    /\ proc[i].pc # "down"
    /\ Mishap("kill")
    /\ Exit(i, "killed")
    /\ UNCHANGED <<postgres, starts, requests, signals>>

-----------------------------------------------------------------------------
Migrate(i) ==
    LookForTable(i) \/ CreateTable(i) \/ Check(i) \/ Apply(i) \/ Record(i) \/ CommitMigration(i)
Handle(c) == BeginQuery(c) \/ Query(c) \/ Answer(c)
Shutdown(i) ==
    \/ Closed(i) \/ ClosedAway(i) \/ Quit(i) \/ QuitRejected(i)
    \/ QuitSubscriber(i) \/ SubscriberRejected(i) \/ EndPool(i)

Next ==
    \/ \E i \in Instances :
         \/ Start(i) \/ Migrate(i) \/ LoseReply(i) \/ Abort(i)
         \/ JobStart(i) \/ JobEvict(i)
         \/ Execute(i) \/ Drop(i) \/ Reconnect(i) \/ GiveUp(i)
         \/ Signal(i) \/ Shutdown(i) \/ ForceExit(i) \/ Kill(i)
    \/ \E c \in Clients :
         Handle(c) \/ Request(c) \/ Upgrade(c) \/ Disconnect(c)
    \/ \E c \in Clients, i \in Instances : Connect(c, i)

Spec == Init /\ [][Next]_vars

\* Statements return or fail, also those that wait for a lock of another
\* instance, and the timer fires.  What shutdown() waits for may never come:
\* nothing makes a client leave, Redis answer or a query return.
FairSpec ==
    Spec /\ \A i \in Instances : WF_vars(Migrate(i)) /\ WF_vars(ForceExit(i))

-----------------------------------------------------------------------------
(* Properties *)

\* The promise of migrate.ts ("safe to run repeatedly"): instances that start
\* at once, crash half-way or lose a COMMIT's reply apply no migration twice,
\* record exactly what took effect, and never apply one before its predecessors.
MigrationsOnceInOrder ==
    \A v \in Versions :
      /\ applied[v] = IF v \in recorded THEN 1 ELSE 0
      /\ v \in recorded => 1 .. v \subseteq recorded

\* start.sh's set -e: an instance serves only with every migration in place.
ServesFullSchema == \A i \in Instances : Serving(i) => \A v \in Versions : applied[v] = 1

\* However many signals arrive, shutdown() neither quits Redis nor ends the pool
\* under a request whose client waits for its answer.  (server.close does not
\* wait for the handler of a client that hung up.)
HandlersKeepResources ==
    \A c \in Clients :
      client[c].on /\ client[c].pc \in {"auth", "query", "fanout"} =>
        redis[client[c].at] \notin {"quit", "closed"} /\ ~Ended(client[c].at)

\* When shutdown() ends the process by itself, with 0 or because a second call
\* failed, no announcement of a request whose client stayed for the answer was
\* rejected or is still without a reply, although no handler waited for it and
\* the connection may have dropped meanwhile.  Exempt is a redisClient that gave
\* up, or that quit() closed while it reconnected.
OrderlyExitLosesNothing ==
    [][\A i \in Instances :
         /\ proc[i].pc = "serve" /\ proc'[i].pc = "down" /\ exit'[i] \in {"ok", "error"}
         /\ redis[i] \notin {"gone", "closed"}
         => ~lost[i] /\ "event" \notin ToSet(queue[i])]_vars

\* An exit that calls itself clean cuts nobody off: no fan, and nobody who waits
\* for an answer.
CleanExitCutsNobody ==
    [][\A i \in Instances :
         proc[i].pc = "serve" /\ proc'[i].pc = "down" /\ exit'[i] = "ok" => ConnectedTo(i) = {}]_vars

\* A start ends with the server running or the process gone: no instance waits
\* for another's migration for ever.
EveryStartSettles ==
    \A i \in Instances : proc[i].pc = "connect" ~> proc[i].pc \in {"serve", "down"}

\* A signalled process exits, also with a fan who never leaves.
EverySignalEnds == \A i \in Instances : Closing(i) ~> ~Closing(i)
=============================================================================
