--------------------------- MODULE LifecycleProofs ---------------------------
(***************************************************************************)
(* The life of any number of instances and clients, through any number of  *)
(* starts, migrations and faults: the safety properties of Lifecycle.      *)
(*                                                                         *)
(* Two arguments that hardly meet.  Migrations: what open transactions     *)
(* have made is disjoint from one another and from what is recorded, and   *)
(* an instance stands behind the migrations before its own.  Shutdown:     *)
(* once a call is past server.close nobody is connected, so that whoever   *)
(* still sends to Redis is a handler nobody waits for, and its commands    *)
(* stand behind the QUIT.                                                  *)
(***************************************************************************)
EXTENDS Lifecycle, TLAPS

-----------------------------------------------------------------------------
(* The inductive invariants *)

Stages == {"down", "connect", "create", "check", "apply", "record", "commit", "serve"}
Process == [pc: Stages, version: Nat]
Transaction == [made: SUBSET Versions, listed: SUBSET Versions]

MigrationTypes ==
    /\ applied \in [Versions -> Nat] /\ recorded \subseteq Versions
    /\ proc \in [Instances -> Process]
    /\ tx \in [Instances -> Transaction]

\* An instance has seen every migration before its own recorded, and all of
\* them before it serves.
InPlace ==
    \A i \in Instances :
      /\ proc[i].version \in 1 .. NumMigrations + 1
      /\ \A v \in 1 .. NumMigrations : v < proc[i].version => v \in recorded
      /\ proc[i].pc \in {"down", "connect", "create"} => proc[i].version = 1
      /\ proc[i].pc \in {"apply", "record", "commit"} => proc[i].version <= NumMigrations
      /\ proc[i].pc = "serve" => proc[i].version = NumMigrations + 1

\* What an open transaction holds, by the statement its instance has reached.
Held(i) ==
    \A v \in Versions :
      /\ v \in tx[i].made <=> proc[i].pc \in {"record", "commit"} /\ proc[i].version = v
      /\ v \in tx[i].listed <=> proc[i].pc = "commit" /\ proc[i].version = v

Locked ==
    /\ \A i \in Instances : Held(i)
    /\ \A i \in Instances, v \in Versions : v \in tx[i].made => v \notin recorded
    /\ \A i, j \in Instances, v \in Versions : v \in tx[i].made /\ v \in tx[j].made => i = j

\* MigrationsOnceInOrder, its intervals read element by element.
Recorded ==
    \A v \in Versions :
      /\ applied[v] = IF v \in recorded THEN 1 ELSE 0
      /\ v \in recorded => \A u \in Versions : u < v => u \in recorded

Migrations == MigrationTypes /\ InPlace /\ Locked /\ Recorded

ClientState == [at: Instances \cup {NULL},
                pc: {"none", "idle", "auth", "query", "fanout", "fan"}, on: BOOLEAN]
Commands == {"event", "orphan", "evict", "quit"}
Steps == {"none", "closing", "quit", "quit_subscriber", "end"}
Ends == {"none", "ok", "error", "forced", "killed"}

ClientTypes == client \in [Clients -> ClientState]
QueueTypes == queue \in [Instances -> Seq(Commands)] /\ lost \in [Instances -> BOOLEAN]
OtherTypes ==
    /\ redis \in [Instances -> {"ready", "away", "gone", "quit", "closed"}]
    /\ job \in [Instances -> {"idle", "select"}]
    /\ call \in [Instances -> [Calls -> Steps]]
    /\ exit \in [Instances -> Ends]

\* A connection and a handler are of an instance.
Placed ==
    \A c \in Clients :
      /\ client[c].pc # "none" => client[c].at \in Instances
      /\ client[c].on => client[c].pc # "none"

\* A call of shutdown() that is past server.close.
Past(i) == \E k \in Calls : call[i][k] \in {"quit", "quit_subscriber", "end"}

\* redisClient has quit, after an answer of Redis or without.
HasQuit(i) == redis[i] \in {"quit", "closed"}

\* From then on nobody is connected.  Handlers whose client hung up go on.
Drained ==
    \A i \in Instances :
      HasQuit(i) \/ Past(i) => Closing(i) /\ \A c \in Clients : client[c].at = i => ~client[c].on

\* A call that is past QUIT has such a redisClient.
Quitted ==
    \A i \in Instances, k \in Calls : call[i][k] \in {"quit_subscriber", "end"} => HasQuit(i)

\* Only a redisClient that takes commands has any.  The QUIT is sent past
\* server.close, so that no announcement of a connected client is behind it, and
\* none is rejected unless the client gives up or is closed.
Ordered(i) ==
    /\ ~Takes(i) => queue[i] = << >>
    /\ lost[i] => redis[i] \in {"gone", "closed"}
    /\ \A m \in 1 .. Len(queue[i]) : queue[i][m] = "quit" => Past(i)
    /\ \A m, n \in 1 .. Len(queue[i]) : m < n /\ queue[i][m] = "quit" => queue[i][n] # "event"

Serves ==
    /\ ClientTypes /\ QueueTypes /\ OtherTypes
    /\ Placed /\ Drained /\ Quitted
    /\ \A i \in Instances : Ordered(i)

-----------------------------------------------------------------------------
(* Migrations *)

LEMMA MigrationsInit ==
    ASSUME Init
    PROVE  Migrations
  BY MigrationsAssumption
     DEF Init, Migrations, MigrationTypes, InPlace, Locked, Held, Recorded, Versions,
         Down, NoTx, Process, Transaction, Stages

\* An exit forgets the instance's transaction and its place.
LEMMA ExitKeepsMigrations ==
    ASSUME Migrations, NEW i \in Instances, NEW how, Exit(i, how), UNCHANGED postgres
    PROVE  Migrations'
<1>1. /\ proc' = [proc EXCEPT ![i] = Down] /\ tx' = [tx EXCEPT ![i] = NoTx]
      /\ applied' = applied /\ recorded' = recorded
  BY DEF Exit, postgres
<1>2. MigrationTypes'
  BY <1>1 DEF Migrations, MigrationTypes, Process, Stages, Transaction, Down, NoTx
<1>3. InPlace'
  BY <1>1, MigrationsAssumption DEF Migrations, MigrationTypes, InPlace, Down
<1>4. Locked'
  BY <1>1 DEF Migrations, MigrationTypes, Locked, Held, Down, NoTx
<1> QED
  BY <1>1, <1>2, <1>3, <1>4 DEF Migrations, Recorded

\* A step that moves an instance and leaves its transaction alone.
LEMMA MovingKeepsMigrations ==
    ASSUME Migrations, NEW i \in Instances, NEW p \in Process,
           proc' = [proc EXCEPT ![i] = p], UNCHANGED <<applied, recorded, tx>>,
           proc[i].pc \notin {"record", "commit"}, p.pc \notin {"record", "commit"},
           p.version \in 1 .. NumMigrations + 1,
           \A v \in 1 .. NumMigrations : v < p.version => v \in recorded,
           p.pc \in {"down", "connect", "create"} => p.version = 1,
           p.pc = "apply" => p.version <= NumMigrations,
           p.pc = "serve" => p.version = NumMigrations + 1
    PROVE  Migrations'
<1>1. MigrationTypes'
  BY DEF Migrations, MigrationTypes
<1>2. InPlace'
  BY DEF Migrations, MigrationTypes, InPlace
<1>3. Locked'
  BY DEF Migrations, MigrationTypes, Locked, Held
<1> QED
  BY <1>1, <1>2, <1>3 DEF Migrations, Recorded

LEMMA CommitKeepsMigrations ==
    ASSUME Migrations, NEW i \in Instances, proc[i].pc = "commit", TakeEffect(i),
           \/ /\ tx' = [tx EXCEPT ![i] = NoTx]
              /\ proc' = [proc EXCEPT ![i] = [pc |-> "check", version |-> proc[i].version + 1]]
           \/ Exit(i, "error")
    PROVE  Migrations'
<1> DEFINE v == proc[i].version
           p == IF proc' = [proc EXCEPT ![i] = Down] THEN Down
                ELSE [pc |-> "check", version |-> v + 1]
<1>1. /\ v \in Versions /\ v \in tx[i].made /\ v \notin recorded
      /\ \A u \in Versions : u \in tx[i].made \/ u \in tx[i].listed => u = v
      /\ v \in tx[i].listed
      /\ \A u \in Versions : u < v => u \in recorded
  <2>1. v \in Versions /\ \A u \in Versions : u < v => u \in recorded
    BY DEF Migrations, MigrationTypes, InPlace, Versions
  <2> QED
    BY <2>1 DEF Migrations, Locked, Held
<1>a. tx[i].made = {v} /\ tx[i].listed = {v}
  BY <1>1 DEF Migrations, MigrationTypes, Transaction
<1>2. /\ tx' = [tx EXCEPT ![i] = NoTx] /\ proc' = [proc EXCEPT ![i] = p]
      /\ recorded' = recorded \cup {v}
      /\ applied' = [u \in Versions |-> applied[u] + IF u = v THEN 1 ELSE 0]
  BY <1>a DEF TakeEffect, Exit
<1>3. /\ p \in Process /\ p.pc \in {"down", "check"}
      /\ p.version \in 1 .. NumMigrations + 1
      /\ (p.pc = "down" => p.version = 1)
      /\ \A u \in Versions : u < p.version => u \in recorded \cup {v}
  BY <1>1, MigrationsAssumption DEF Down, Process, Stages, Versions
<1> HIDE DEF v, p
<1>4. MigrationTypes'
  <2>1. applied' \in [Versions -> Nat]
    BY <1>2, <1>1 DEF Migrations, MigrationTypes
  <2> QED
    BY <2>1, <1>1, <1>2, <1>3 DEF Migrations, MigrationTypes, Transaction, NoTx
<1>5. InPlace'
  BY <1>1, <1>2, <1>3 DEF Migrations, MigrationTypes, InPlace, Versions
<1>6. Locked'
  BY <1>1, <1>2, <1>3 DEF Migrations, MigrationTypes, Locked, Held, NoTx
<1>7. Recorded'
  BY <1>1, <1>2 DEF Migrations, MigrationTypes, Recorded, Versions
<1> QED
  BY <1>4, <1>5, <1>6, <1>7 DEF Migrations

LEMMA ApplyKeepsMigrations ==
    ASSUME Migrations, NEW i \in Instances, Apply(i)
    PROVE  Migrations'
<1> DEFINE v == proc[i].version
<1>0. CASE applied[v] > 0
  BY <1>0, ExitKeepsMigrations DEF Apply, MigrationFails
<1> SUFFICES ASSUME ~(applied[v] > 0) PROVE Migrations'
  BY <1>0
<1>1. proc[i].pc = "apply" /\ v \in Versions
  BY DEF Apply, Migrations, MigrationTypes, InPlace, Versions
<1>a. /\ tx[i].made = {} /\ tx[i].listed = {}
      /\ \A j \in Instances \ {i} : v \notin tx[j].made
  BY <1>1 DEF Apply, Migrations, MigrationTypes, Locked, Held, Transaction
<1>2. v \notin recorded
  BY <1>1 DEF Migrations, MigrationTypes, Recorded
<1>3. /\ tx' = [tx EXCEPT ![i].made = {v}]
      /\ proc' = [proc EXCEPT ![i].pc = "record"] /\ UNCHANGED <<applied, recorded>>
  BY <1>a DEF Apply, Goto, postgres, Migrations, MigrationTypes
<1> HIDE DEF v
<1>4. MigrationTypes'
  BY <1>1, <1>3 DEF Migrations, MigrationTypes, Process, Stages, Transaction
<1>5. InPlace'
  BY <1>1, <1>3 DEF Migrations, MigrationTypes, InPlace, Process, Versions, v
<1>6. Locked'
  BY <1>1, <1>a, <1>2, <1>3 DEF Migrations, MigrationTypes, Locked, Held, Process, Transaction, v
<1> QED
  BY <1>3, <1>4, <1>5, <1>6 DEF Migrations, Recorded

LEMMA RecordKeepsMigrations ==
    ASSUME Migrations, NEW i \in Instances, Record(i)
    PROVE  Migrations'
<1> DEFINE v == proc[i].version
<1>1. proc[i].pc = "record" /\ v \in Versions
  BY DEF Record, Migrations, MigrationTypes, InPlace, Versions
<1>a. v \in tx[i].made /\ tx[i].listed = {} /\ v \notin recorded
  BY <1>1 DEF Migrations, MigrationTypes, Locked, Held, Transaction
<1>2. /\ tx' = [tx EXCEPT ![i].listed = {v}]
      /\ proc' = [proc EXCEPT ![i].pc = "commit"] /\ UNCHANGED <<applied, recorded>>
  BY <1>a DEF Record, Goto, postgres, Migrations, MigrationTypes
<1> HIDE DEF v
<1>3. MigrationTypes'
  BY <1>1, <1>2 DEF Migrations, MigrationTypes, Process, Stages, Transaction
<1>4. InPlace'
  BY <1>1, <1>2 DEF Migrations, MigrationTypes, InPlace, Process, Versions, v
<1>5. Locked'
  BY <1>1, <1>a, <1>2 DEF Migrations, MigrationTypes, Locked, Held, Process, Transaction, v
<1> QED
  BY <1>2, <1>3, <1>4, <1>5 DEF Migrations, Recorded

LEMMA MigrationsNext ==
    ASSUME Migrations, [Next]_vars
    PROVE  Migrations'
<1>1. ASSUME UNCHANGED <<applied, recorded, proc, tx>>
      PROVE  Migrations'
  BY <1>1 DEF Migrations, MigrationTypes, InPlace, Locked, Held, Recorded
<1>2. ASSUME NEW i \in Instances, Start(i) \/ LookForTable(i)
      PROVE  Migrations'
  <2> DEFINE p == [proc[i] EXCEPT !.pc = IF Start(i) THEN "connect"
                                         ELSE IF tracked THEN "check" ELSE "create"]
  <2>1. p \in Process /\ proc' = [proc EXCEPT ![i] = p] /\ UNCHANGED <<applied, recorded, tx>>
    BY <1>2 DEF Start, LookForTable, Goto, Migrations, MigrationTypes, Process, Stages, postgres
  <2>2. /\ proc[i].pc \in {"down", "connect"} /\ p.pc \in {"connect", "check", "create"}
        /\ p.version = 1 /\ 1 \in 1 .. NumMigrations + 1
        /\ \A v \in 1 .. NumMigrations : v < p.version => v \in recorded
    BY <1>2, MigrationsAssumption DEF Start, LookForTable, Migrations, MigrationTypes, InPlace, Process
  <2> HIDE DEF p
  <2> QED
    BY <2>1, <2>2, MovingKeepsMigrations
<1>3. ASSUME NEW i \in Instances, CreateTable(i)
      PROVE  Migrations'
  <2>1. CASE tracked
    BY <1>3, <2>1, ExitKeepsMigrations DEF CreateTable, postgres
  <2>2. CASE ~tracked
    <3> DEFINE p == [proc[i] EXCEPT !.pc = "check"]
    <3>1. p \in Process /\ proc' = [proc EXCEPT ![i] = p] /\ UNCHANGED <<applied, recorded, tx>>
      BY <1>3, <2>2 DEF CreateTable, Goto, Migrations, MigrationTypes, Process, Stages
    <3>2. /\ proc[i].pc = "create" /\ p.pc = "check"
          /\ p.version = 1 /\ 1 \in 1 .. NumMigrations + 1
          /\ \A v \in 1 .. NumMigrations : v < p.version => v \in recorded
      BY <1>3, MigrationsAssumption DEF CreateTable, Migrations, MigrationTypes, InPlace, Process
    <3> HIDE DEF p
    <3> QED
      BY <3>1, <3>2, MovingKeepsMigrations
  <2> QED
    BY <2>1, <2>2
<1>4. ASSUME NEW i \in Instances, Check(i)
      PROVE  Migrations'
  <2> DEFINE v == proc[i].version
             p == IF v > NumMigrations THEN [proc[i] EXCEPT !.pc = "serve"]
                  ELSE IF v \in recorded THEN [proc[i] EXCEPT !.version = v + 1]
                  ELSE [proc[i] EXCEPT !.pc = "apply"]
  <2>1. /\ proc[i].pc = "check" /\ v \in 1 .. NumMigrations + 1
        /\ \A u \in 1 .. NumMigrations : u < v => u \in recorded
    BY <1>4 DEF Check, Migrations, InPlace
  <2>2. p \in Process /\ proc' = [proc EXCEPT ![i] = p] /\ UNCHANGED <<applied, recorded, tx>>
    BY <1>4, <2>1, MigrationsAssumption DEF Check, Goto, Migrations, MigrationTypes, Process, Stages, postgres
  <2>3. /\ p.pc \in {"check", "apply", "serve"} /\ p.version \in 1 .. NumMigrations + 1
        /\ \A u \in 1 .. NumMigrations : u < p.version => u \in recorded
        /\ p.pc = "apply" => p.version <= NumMigrations
        /\ p.pc = "serve" => p.version = NumMigrations + 1
    <3> PICK q \in Process : q = proc[i]
      BY DEF Migrations, MigrationTypes
    <3>1. CASE v > NumMigrations
      BY <2>1, <3>1, MigrationsAssumption DEF Process
    <3>2. CASE v <= NumMigrations /\ v \in recorded
      BY <2>1, <3>2, MigrationsAssumption DEF Process
    <3>3. CASE v <= NumMigrations /\ v \notin recorded
      BY <2>1, <3>3, MigrationsAssumption DEF Process
    <3> QED
      BY <2>1, <3>1, <3>2, <3>3, MigrationsAssumption
  <2> HIDE DEF p, v
  <2> QED
    BY <2>1, <2>2, <2>3, MovingKeepsMigrations
<1>5. ASSUME NEW i \in Instances, CommitMigration(i) \/ LoseReply(i)
      PROVE  Migrations'
  BY <1>5, CommitKeepsMigrations DEF CommitMigration, LoseReply, MigrationFails
<1>6. ASSUME NEW i \in Instances,
             Abort(i) \/ QuitRejected(i) \/ SubscriberRejected(i) \/ EndPool(i)
               \/ ForceExit(i) \/ Kill(i)
      PROVE  Migrations'
  BY <1>6, ExitKeepsMigrations
     DEF Abort, MigrationFails, QuitRejected, SubscriberRejected, EndPool, ForceExit, Kill
<1>7. ASSUME NEW i \in Instances,
             JobStart(i) \/ JobEvict(i) \/ Execute(i) \/ Drop(i) \/ Reconnect(i) \/ GiveUp(i)
               \/ Signal(i) \/ Closed(i) \/ ClosedAway(i) \/ Quit(i) \/ QuitSubscriber(i)
      PROVE  UNCHANGED <<applied, recorded, proc, tx>>
  BY <1>7 DEF JobStart, JobEvict, Execute, Drop, Reconnect, GiveUp, Signal, Closed, QuitCalled,
              ClosedAway, Quit, QuitResolved, QuitSubscriber, postgres
<1>8. ASSUME NEW c \in Clients,
             Handle(c) \/ Request(c) \/ Upgrade(c) \/ Disconnect(c)
               \/ \E i \in Instances : Connect(c, i)
      PROVE  UNCHANGED <<applied, recorded, proc, tx>>
  BY <1>8 DEF Handle, BeginQuery, Query, Answer, Request, Upgrade, Disconnect, Connect, postgres
<1> QED
  BY <1>1, <1>2, <1>3, <1>4, <1>5, <1>6, <1>7, <1>8, ApplyKeepsMigrations, RecordKeepsMigrations
     DEF Next, Migrate, Shutdown, vars, postgres

-----------------------------------------------------------------------------
(* Shutdown *)

LEMMA ServesInit ==
    ASSUME Init
    PROVE  Serves
<1>1. ClientTypes /\ QueueTypes /\ OtherTypes
  BY DEF Init, ClientTypes, QueueTypes, OtherTypes, NoClient, NoCalls, ClientState, Steps, Ends, Calls
<1>2. Placed /\ Drained /\ Quitted
  BY DEF Init, Placed, Drained, Quitted, Past, HasQuit, NoClient, NoCalls, Calls
<1>3. \A i \in Instances : Ordered(i)
  BY DEF Init, Ordered, Takes
<1> QED
  BY <1>1, <1>2, <1>3 DEF Serves

\* An exit takes the connections, the queue and the calls with it.
LEMMA ExitKeepsServes ==
    ASSUME Serves, NEW i \in Instances, NEW how \in Ends, Exit(i, how)
    PROVE  Serves'
<1>1. /\ client' = [c \in Clients |-> IF client[c].at = i THEN NoClient ELSE client[c]]
      /\ queue' = [queue EXCEPT ![i] = << >>] /\ redis' = [redis EXCEPT ![i] = "ready"]
      /\ lost' = [lost EXCEPT ![i] = FALSE] /\ job' = [job EXCEPT ![i] = "idle"]
      /\ call' = [call EXCEPT ![i] = NoCalls] /\ exit' = [exit EXCEPT ![i] = how]
  BY DEF Exit
<1>2. /\ NoClient \in ClientState /\ NoClient.pc = "none" /\ NoClient.at = NULL /\ ~NoClient.on
      /\ NoCalls \in [Calls -> Steps] /\ \A k \in Calls : NoCalls[k] = "none"
  BY DEF NoClient, ClientState, NoCalls, Steps
<1>3. ClientTypes' /\ QueueTypes' /\ OtherTypes'
  BY <1>1, <1>2 DEF Serves, ClientTypes, QueueTypes, OtherTypes
<1>4. Placed'
  BY <1>1, <1>2 DEF Serves, Placed
<1>5. Drained' /\ Quitted'
  BY <1>1, <1>2, NullAssumption DEF Serves, OtherTypes, Drained, Quitted, Past, HasQuit, Closing
<1>6. ASSUME NEW j \in Instances
      PROVE  Ordered(j)'
  <2>1. CASE j = i
    BY <1>1, <2>1 DEF Serves, OtherTypes, QueueTypes, Ordered, Takes
  <2>2. CASE j # i
    BY <1>1, <2>2 DEF Serves, OtherTypes, QueueTypes, Ordered, Takes, Past
  <2> QED
    BY <2>1, <2>2
<1> QED
  BY <1>3, <1>4, <1>5, <1>6 DEF Serves

\* A client moves on the connection it has, or its handler without one.
LEMMA MovingKeepsClients ==
    ASSUME Serves, NEW c \in Clients, NEW new \in ClientState,
           client' = [client EXCEPT ![c] = new], new.at \in {client[c].at, NULL},
           new.pc # "none" => new.at \in Instances,
           new.on => client[c].on /\ new.pc # "none", UNCHANGED <<redis, call>>
    PROVE  (ClientTypes /\ Placed /\ Drained /\ Quitted)'
<1>1. ClientTypes' /\ Placed'
  BY DEF Serves, ClientTypes, Placed
<1>2. Drained' /\ Quitted'
  BY NullAssumption DEF Serves, ClientTypes, Drained, Quitted, Past, HasQuit, Closing
<1> QED
  BY <1>1, <1>2

\* A command is sent, an announcement only by a client that is connected.
LEMMA SendingKeepsOrder ==
    ASSUME Serves, NEW i \in Instances, NEW cmd \in Commands \ {"quit"}, Send(i, cmd),
           cmd = "event" => ~HasQuit(i) /\ ~Past(i), UNCHANGED <<redis, call>>
    PROVE  QueueTypes' /\ \A j \in Instances : Ordered(j)'
<1>1. queue[i] \in Seq(Commands)
  BY DEF Serves, QueueTypes
<1>2. CASE Takes(i)
  <2> DEFINE q == Append(queue[i], cmd)
  <2>1. /\ q \in Seq(Commands) /\ Len(q) = Len(queue[i]) + 1 /\ q[Len(q)] = cmd
        /\ \A m \in 1 .. Len(queue[i]) : q[m] = queue[i][m]
    BY <1>1
  <2>2. queue' = [queue EXCEPT ![i] = q] /\ lost' = lost
    BY <1>2 DEF Send
  <2> HIDE DEF q
  <2>3. Ordered(i)'
    <3>1. Ordered(i) /\ queue'[i] = q /\ Past(i)' = Past(i) /\ Takes(i)' = Takes(i)
      BY <2>2 DEF Serves, QueueTypes, Past, Takes
    <3>2. \A m \in 1 .. Len(q) : q[m] = "quit" => m \in 1 .. Len(queue[i]) /\ Past(i)
      BY <1>1, <2>1, <3>1 DEF Ordered
    <3>3. \A m, n \in 1 .. Len(q) : m < n /\ q[m] = "quit" => q[n] # "event"
      <4> SUFFICES ASSUME NEW m \in 1 .. Len(q), NEW n \in 1 .. Len(q), m < n, q[m] = "quit"
                   PROVE  q[n] # "event"
        OBVIOUS
      <4>1. CASE n = Len(q)
        BY <2>1, <3>2, <4>1
      <4>2. CASE n # Len(q)
        BY <1>1, <2>1, <3>1, <4>2 DEF Ordered
      <4> QED
        BY <4>1, <4>2
    <3> QED
      BY <1>2, <2>2, <3>1, <3>2, <3>3 DEF Ordered
  <2>4. ASSUME NEW j \in Instances \ {i}
        PROVE  Ordered(j)'
    <3>1. queue'[j] = queue[j]
      BY <2>2 DEF Serves, QueueTypes
    <3> QED
      BY <2>2, <3>1 DEF Serves, Ordered, Takes, Past
  <2>5. QueueTypes'
    BY <2>1, <2>2 DEF Serves, QueueTypes
  <2> QED
    BY <2>3, <2>4, <2>5
<1>3. CASE ~Takes(i)
  <2>1. queue' = queue /\ lost' = [lost EXCEPT ![i] = @ \/ cmd = "event"]
    BY <1>3 DEF Send
  <2>2. cmd = "event" => redis[i] = "gone"
    BY <1>3 DEF Takes, HasQuit, Serves, OtherTypes
  <2> QED
    BY <2>1, <2>2 DEF Serves, QueueTypes, Ordered, Takes, Past
<1> QED
  BY <1>2, <1>3

\* The client is free again, or gone.
LEMMA FinishingMoves ==
    ASSUME Serves, NEW c \in Clients, Finished(c), client[c].pc # "none"
    PROVE  \E new \in ClientState :
             /\ client' = [client EXCEPT ![c] = new] /\ new.at \in {client[c].at, NULL}
             /\ new.pc # "none" => new.at \in Instances
             /\ new.on => client[c].on /\ new.pc # "none"
<1>1. client[c] \in ClientState /\ client[c].at \in Instances
  BY DEF Serves, ClientTypes, Placed
<1>2. CASE client[c].on
  <2> DEFINE new == [client[c] EXCEPT !.pc = "idle"]
  <2>1. client' = [client EXCEPT ![c] = new]
    BY <1>2 DEF Finished, Serves, ClientTypes
  <2>2. new \in ClientState /\ new.at = client[c].at /\ new.pc = "idle" /\ new.on = client[c].on
    BY <1>1 DEF ClientState
  <2> HIDE DEF new
  <2> QED
    BY <1>1, <1>2, <2>1, <2>2
<1>3. CASE ~client[c].on
  <2>1. client' = [client EXCEPT ![c] = NoClient]
    BY <1>3 DEF Finished, Serves, ClientTypes
  <2>2. NoClient \in ClientState /\ NoClient.at = NULL /\ NoClient.pc = "none" /\ ~NoClient.on
    BY DEF NoClient, ClientState
  <2> QED
    BY <2>1, <2>2
<1> QED
  BY <1>2, <1>3

LEMMA ClientKeepsServes ==
    ASSUME Serves, NEW c \in Clients,
           Handle(c) \/ Request(c) \/ Upgrade(c) \/ Disconnect(c)
             \/ \E i \in Instances : Connect(c, i)
    PROVE  Serves'
<1>1. client[c] \in ClientState
  BY DEF Serves, ClientTypes
<1>2. ASSUME UNCHANGED <<queue, redis, lost, job, call, exit>>,
             (ClientTypes /\ Placed /\ Drained /\ Quitted)'
      PROVE  Serves'
  BY <1>2 DEF Serves, QueueTypes, OtherTypes, Ordered, Takes, Past
<1>3. ASSUME Finished(c), UNCHANGED <<queue, redis, lost, job, call, exit>>, client[c].pc # "none"
      PROVE  Serves'
  BY <1>2, <1>3, FinishingMoves, MovingKeepsClients
<1>4. ASSUME NEW pc \in {"query", "fanout", "auth", "fan"}, client' = [client EXCEPT ![c].pc = pc],
             UNCHANGED <<queue, redis, lost, job, call, exit>>, client[c].pc # "none"
      PROVE  Serves'
  <2> DEFINE new == [client[c] EXCEPT !.pc = pc]
  <2>1. /\ new \in ClientState /\ new.at = client[c].at /\ new.on = client[c].on
        /\ new.pc # "none" /\ client' = [client EXCEPT ![c] = new]
    BY <1>1, <1>4 DEF ClientState, Serves, ClientTypes
  <2>2. client[c].at \in Instances
    BY <1>4 DEF Serves, Placed
  <2> HIDE DEF new
  <2> QED
    BY <1>2, <1>4, <2>1, <2>2, MovingKeepsClients
<1>5. ASSUME BeginQuery(c) \/ Query(c) \/ Request(c) \/ Upgrade(c)
      PROVE  Serves'
  BY <1>3, <1>4, <1>5 DEF BeginQuery, Query, Request, Upgrade
<1>6. ASSUME Disconnect(c)
      PROVE  Serves'
  <2>1. client[c].on /\ client[c].at \in Instances /\ UNCHANGED <<queue, redis, lost, job, call, exit>>
    BY <1>6 DEF Disconnect, Serves, Placed
  <2>2. CASE client[c].pc \in {"idle", "fan"}
    <3>1. client' = [client EXCEPT ![c] = NoClient]
      BY <1>6, <2>2 DEF Disconnect, Serves, ClientTypes
    <3>2. NoClient \in ClientState /\ NoClient.at = NULL /\ NoClient.pc = "none" /\ ~NoClient.on
      BY DEF NoClient, ClientState
    <3> QED
      BY <1>2, <2>1, <3>1, <3>2, MovingKeepsClients
  <2>3. CASE client[c].pc \notin {"idle", "fan"}
    <3> DEFINE new == [client[c] EXCEPT !.on = FALSE]
    <3>1. client' = [client EXCEPT ![c] = new]
      BY <1>6, <2>3 DEF Disconnect, Serves, ClientTypes
    <3>2. new \in ClientState /\ new.at = client[c].at /\ ~new.on
      BY <1>1 DEF ClientState
    <3> HIDE DEF new
    <3> QED
      BY <1>2, <2>1, <3>1, <3>2, MovingKeepsClients
  <2> QED
    BY <2>2, <2>3
<1>7. ASSUME Answer(c)
      PROVE  Serves'
  <2> DEFINE i == client[c].at
             cmd == IF client[c].on THEN "event" ELSE "orphan"
  <2>1. /\ Send(i, cmd) /\ Finished(c) /\ client[c].pc # "none" /\ i \in Instances
        /\ UNCHANGED <<redis, job, call, exit>>
    BY <1>7 DEF Answer, Serves, Placed
  <2>2. cmd \in Commands \ {"quit"} /\ (cmd = "event" => ~HasQuit(i) /\ ~Past(i))
    BY <2>1 DEF Commands, Serves, Drained
  <2> HIDE DEF i, cmd
  <2>3. QueueTypes' /\ \A j \in Instances : Ordered(j)'
    BY <2>1, <2>2, SendingKeepsOrder
  <2>4. (ClientTypes /\ Placed /\ Drained /\ Quitted)'
    BY <2>1, FinishingMoves, MovingKeepsClients
  <2> QED
    BY <2>1, <2>3, <2>4 DEF Serves, OtherTypes
<1>8. ASSUME NEW i \in Instances, Connect(c, i)
      PROVE  Serves'
  <2> DEFINE new == [at |-> i, pc |-> "idle", on |-> TRUE]
  <2>1. new \in ClientState /\ new.at = i /\ new.pc = "idle"
    BY DEF ClientState
  <2>2. /\ client' = [client EXCEPT ![c] = new] /\ UNCHANGED <<queue, redis, lost, job, call, exit>>
        /\ ~Closing(i)
    BY <1>8 DEF Connect
  <2> HIDE DEF new
  <2>3. Drained' /\ Quitted'
    BY <2>1, <2>2 DEF Serves, ClientTypes, Drained, Quitted, Past, HasQuit, Closing
  <2>4. ClientTypes' /\ Placed'
    BY <2>1, <2>2 DEF Serves, ClientTypes, Placed
  <2> QED
    BY <1>2, <2>2, <2>3, <2>4
<1> QED
  BY <1>5, <1>6, <1>7, <1>8 DEF Handle

\* What a queue keeps when its oldest command is executed.
LEMMA TailsAreOrdered ==
    ASSUME NEW q \in Seq(Commands), q # << >>
    PROVE  /\ Tail(q) \in Seq(Commands) /\ Len(Tail(q)) = Len(q) - 1
           /\ \A m \in 1 .. Len(q) - 1 : Tail(q)[m] = q[m + 1]
  OBVIOUS

\* The connection of redisClient, before shutdown() quits it.
LEMMA ConnectionKeepsServes ==
    ASSUME Serves, NEW i \in Instances, Execute(i) \/ Drop(i) \/ Reconnect(i) \/ GiveUp(i)
    PROVE  Serves'
<1>0. queue[i] \in Seq(Commands) /\ << >> \in Seq(Commands)
  BY DEF Serves, QueueTypes
<1>1. ASSUME Execute(i)
      PROVE  Serves'
  <2> DEFINE q == Tail(queue[i])
  <2>1. /\ queue' = [queue EXCEPT ![i] = q] /\ queue[i] # << >> /\ redis[i] = "ready"
        /\ UNCHANGED <<client, redis, lost, job, call, exit>>
    BY <1>1 DEF Execute
  <2>2. /\ q \in Seq(Commands) /\ Len(q) = Len(queue[i]) - 1
        /\ \A m \in 1 .. Len(q) : q[m] = queue[i][m + 1]
    BY <1>0, <2>1, TailsAreOrdered
  <2> HIDE DEF q
  <2>3. /\ \A m \in 1 .. Len(q) : q[m] = "quit" => Past(i)
        /\ \A m, n \in 1 .. Len(q) : m < n /\ q[m] = "quit" => q[n] # "event"
    <3>1. \A m \in 1 .. Len(q) : m + 1 \in 1 .. Len(queue[i])
      BY <1>0, <2>2
    <3>2. Ordered(i)
      BY DEF Serves
    <3>3. \A m, n \in 1 .. Len(q) : m < n => m + 1 < n + 1
      BY <1>0, <2>2
    <3> QED
      BY <2>2, <3>1, <3>2, <3>3 DEF Ordered
  <2>4. ASSUME NEW j \in Instances
        PROVE  Ordered(j)'
    <3>1. CASE j = i
      <4>1. queue'[i] = q /\ Takes(i)' /\ ~lost'[i] /\ (Past(i)' <=> Past(i))
        BY <2>1 DEF Serves, QueueTypes, Ordered, Takes, Past
      <4> QED
        BY <2>3, <3>1, <4>1 DEF Ordered
    <3>2. CASE j # i
      BY <2>1, <3>2 DEF Serves, QueueTypes, Ordered, Takes, Past
    <3> QED
      BY <3>1, <3>2
  <2>5. QueueTypes'
    BY <2>1, <2>2 DEF Serves, QueueTypes
  <2> QED
    BY <2>1, <2>4, <2>5
       DEF Serves, ClientTypes, OtherTypes, Placed, Drained, Quitted, Past, HasQuit, Closing
<1>2. ASSUME redis[i] \in {"ready", "away"}, redis' = [redis EXCEPT ![i] = "gone"],
             Reject(i, queue[i]), UNCHANGED <<client, job, call, exit>>
      PROVE  Serves'
  <2>1. QueueTypes' /\ OtherTypes' /\ \A j \in Instances : Ordered(j)'
    BY <1>0, <1>2 DEF Reject, Serves, QueueTypes, OtherTypes, Ordered, Takes, Past
  <2>2. Drained' /\ Quitted'
    BY <1>2 DEF Serves, OtherTypes, Drained, Quitted, Past, HasQuit, Closing
  <2> QED
    BY <1>2, <2>1, <2>2 DEF Serves, ClientTypes, Placed
<1>3. ASSUME NEW s \in {"ready", "away"}, redis[i] \in {"ready", "away"},
             redis' = [redis EXCEPT ![i] = s], UNCHANGED <<client, queue, lost, job, call, exit>>
      PROVE  Serves'
  <2>1. OtherTypes' /\ Drained' /\ Quitted'
    BY <1>3 DEF Serves, OtherTypes, Drained, Quitted, Past, HasQuit, Closing
  <2>2. \A j \in Instances : Ordered(j)'
    BY <1>3 DEF Serves, OtherTypes, Ordered, Takes, Past
  <2> QED
    BY <1>3, <2>1, <2>2 DEF Serves, ClientTypes, QueueTypes, Placed
<1> QED
  BY <1>1, <1>2, <1>3 DEF Drop, Reconnect, GiveUp

\* A call moves past server.close, or on from there: nobody is connected.
LEMMA PassingKeepsDrained ==
    ASSUME Serves, NEW i \in Instances, NEW new \in [Calls -> Steps],
           call' = [call EXCEPT ![i] = new], \E k \in Calls : new[k] # "none",
           ConnectedTo(i) = {}, \A j \in Instances \ {i} : redis'[j] = redis[j],
           UNCHANGED client
    PROVE  Drained'
<1>1. call'[i] = new /\ \A j \in Instances \ {i} : call'[j] = call[j]
  BY DEF Serves, OtherTypes
<1>2. Closing(i)' /\ \A c \in Clients : client'[c].at = i => ~client'[c].on
  BY <1>1 DEF Closing, ConnectedTo
<1>3. ASSUME NEW j \in Instances \ {i}, (HasQuit(j) \/ Past(j))'
      PROVE  Closing(j)' /\ \A c \in Clients : client'[c].at = j => ~client'[c].on
  <2>1. HasQuit(j) \/ Past(j)
    BY <1>1, <1>3 DEF HasQuit, Past
  <2> QED
    BY <1>1, <2>1 DEF Serves, Drained, Closing
<1> QED
  BY <1>2, <1>3 DEF Drained

\* The calls of shutdown, before they end the process.
LEMMA ShutdownKeepsServes ==
    ASSUME Serves, NEW i \in Instances,
           Signal(i) \/ Closed(i) \/ ClosedAway(i) \/ Quit(i) \/ QuitSubscriber(i)
    PROVE  Serves'
<1>0. /\ call[i] \in [Calls -> Steps] /\ queue[i] \in Seq(Commands)
      /\ << >> \in Seq(Commands) /\ Ordered(i)
  BY DEF Serves, OtherTypes, QueueTypes
<1>1. ASSUME Signal(i)
      PROVE  Serves'
  <2>1. PICK k \in Calls : call[i][k] = "none" /\ call' = [call EXCEPT ![i][k] = "closing"]
    BY <1>1 DEF Signal
  <2>2. /\ call' \in [Instances -> [Calls -> Steps]] /\ Past(i)' = Past(i) /\ Closing(i)'
        /\ \A j \in Instances \ {i} : call'[j] = call[j]
    BY <1>0, <2>1 DEF Serves, OtherTypes, Past, Closing, Steps
  <2>3. /\ client' = [c \in Clients |-> IF client[c].at = i /\ client[c].pc = "idle"
                                          THEN NoClient ELSE client[c]]
        /\ UNCHANGED <<queue, redis, lost, job, exit>>
    BY <1>1 DEF Signal
  <2>4. NoClient \in ClientState /\ NoClient.at = NULL /\ NoClient.pc = "none" /\ ~NoClient.on
    BY DEF NoClient, ClientState
  <2>5. ClientTypes' /\ OtherTypes' /\ Placed'
    BY <2>2, <2>3, <2>4 DEF Serves, ClientTypes, OtherTypes, Placed
  <2>6. Drained'
    BY <2>2, <2>3, <2>4, NullAssumption DEF Serves, Drained, Past, HasQuit, Closing
  <2>7. \A h \in Calls : call'[i][h] \in {"quit_subscriber", "end"} => call'[i][h] = call[i][h]
    BY <1>0, <2>1 DEF Serves, OtherTypes
  <2>8. Quitted'
    BY <2>2, <2>3, <2>7 DEF Serves, Quitted, HasQuit
  <2>9. \A j \in Instances : Ordered(j)'
    BY <2>2, <2>3 DEF Serves, Ordered, Takes, Past
  <2> QED
    BY <2>3, <2>5, <2>6, <2>8, <2>9 DEF Serves, QueueTypes
<1>2. ASSUME Closed(i)
      PROVE  Serves'
  <2> DEFINE new == [k \in Calls |-> IF call[i][k] = "closing" THEN "quit" ELSE call[i][k]]
             more == IF Takes(i) /\ "quit" \notin ToSet(queue[i]) THEN <<"quit">> ELSE << >>
             q == queue[i] \o more
  <2>1. /\ call' = [call EXCEPT ![i] = new] /\ queue' = [queue EXCEPT ![i] = q]
        /\ UNCHANGED <<client, redis, lost, job, exit>>
        /\ ConnectedTo(i) = {} /\ \E k \in Calls : call[i][k] = "closing"
    BY <1>2 DEF Closed, QuitCalled
  <2>2. /\ new \in [Calls -> Steps] /\ \E k \in Calls : new[k] = "quit"
        /\ \A k \in Calls : new[k] \in {"quit_subscriber", "end"} => new[k] = call[i][k]
    BY <1>0, <2>1 DEF Steps
  <2> HIDE DEF new
  <2>3. /\ q \in Seq(Commands)
        /\ q = queue[i] \/ (Takes(i) /\ Len(q) = Len(queue[i]) + 1)
        /\ \A m \in 1 .. Len(queue[i]) : q[m] = queue[i][m]
        /\ \A m \in 1 .. Len(q) : m > Len(queue[i]) => q[m] = "quit"
    <3>1. CASE Takes(i) /\ "quit" \notin ToSet(queue[i])
      <4>1. q = queue[i] \o <<"quit">>
        BY <3>1
      <4>2. <<"quit">> \in Seq(Commands)
        BY DEF Commands
      <4> QED
        BY <1>0, <3>1, <4>1, <4>2
    <3>2. CASE ~(Takes(i) /\ "quit" \notin ToSet(queue[i]))
      <4>1. more = << >>
        BY <3>2
      <4>2. queue[i] \o << >> = queue[i]
        BY <1>0
      <4>3. q = queue[i]
        BY <4>1, <4>2
      <4> HIDE DEF q, more
      <4> QED
        BY <1>0, <4>3
    <3> QED
      BY <3>1, <3>2
  <2> HIDE DEF q
  <2>4. Drained'
    <3>1. \E k \in Calls : new[k] # "none"
      BY <2>2
    <3> QED
      BY <2>1, <2>2, <3>1, PassingKeepsDrained
  <2>5. ClientTypes' /\ QueueTypes' /\ OtherTypes' /\ Placed' /\ Quitted'
    BY <2>1, <2>2, <2>3 DEF Serves, ClientTypes, QueueTypes, OtherTypes, Placed, Quitted, HasQuit
  <2>6. ASSUME NEW j \in Instances
        PROVE  Ordered(j)'
    <3>1. CASE j # i
      BY <2>1, <3>1 DEF Serves, OtherTypes, QueueTypes, Ordered, Takes, Past
    <3>2. CASE j = i
      <4>1. Past(i)' /\ queue'[i] = q /\ (Takes(i)' <=> Takes(i)) /\ redis' = redis /\ lost' = lost
        BY <2>1, <2>2 DEF Serves, OtherTypes, QueueTypes, Past, Takes
      <4>2. ~Takes(i) => q = << >>
        BY <1>0, <2>3 DEF Ordered
      <4>3. \A m, n \in 1 .. Len(q) : m < n /\ q[m] = "quit" => q[n] # "event"
        <5> SUFFICES ASSUME NEW m \in 1 .. Len(q), NEW n \in 1 .. Len(q), m < n, q[m] = "quit",
                            n <= Len(queue[i])
                     PROVE  q[n] # "event"
          BY <1>0, <2>3
        <5> QED
          BY <1>0, <2>3 DEF Ordered
      <4> QED
        BY <1>0, <3>2, <4>1, <4>2, <4>3 DEF Ordered
    <3> QED
      BY <3>1, <3>2
  <2> QED
    BY <2>4, <2>5, <2>6 DEF Serves
<1>3. ASSUME NEW new \in [Calls -> Steps], NEW s \in {"quit", "closed"},
             call' = [call EXCEPT ![i] = new], \E k \in Calls : new[k] # "none",
             ConnectedTo(i) = {}, redis' = [redis EXCEPT ![i] = s],
             queue' = [queue EXCEPT ![i] = << >>], lost' \in [Instances -> BOOLEAN],
             \A j \in Instances \ {i} : lost'[j] = lost[j], s = "quit" => ~lost'[i],
             UNCHANGED <<client, job, exit>>
      PROVE  Serves'
  <2>1. Drained'
    BY <1>3, PassingKeepsDrained DEF Serves, OtherTypes
  <2>2. ClientTypes' /\ QueueTypes' /\ OtherTypes' /\ Placed' /\ Quitted'
    BY <1>0, <1>3 DEF Serves, ClientTypes, QueueTypes, OtherTypes, Placed, Quitted, HasQuit
  <2>3. \A j \in Instances : Ordered(j)'
    BY <1>3 DEF Serves, OtherTypes, QueueTypes, Ordered, Takes, Past
  <2> QED
    BY <2>1, <2>2, <2>3 DEF Serves
<1>4. ASSUME ClosedAway(i)
      PROVE  Serves'
  <2>1. PICK resolved \in (SUBSET Calls) \ {{}} :
          call' = [call EXCEPT ![i] = [k \in Calls |->
                     IF k \in resolved THEN "quit_subscriber"
                     ELSE IF @[k] = "closing" THEN "quit" ELSE @[k]]]
    BY <1>4 DEF ClosedAway
  <2> DEFINE new == [k \in Calls |->
                       IF k \in resolved THEN "quit_subscriber"
                       ELSE IF call[i][k] = "closing" THEN "quit" ELSE call[i][k]]
  <2>2. /\ new \in [Calls -> Steps] /\ \E k \in Calls : new[k] # "none"
        /\ call' = [call EXCEPT ![i] = new]
    <3>1. new \in [Calls -> Steps] /\ \A k \in Calls : k \in resolved => new[k] # "none"
      BY <1>0 DEF Steps
    <3>2. \E k \in Calls : k \in resolved
      OBVIOUS
    <3>3. call' = [call EXCEPT ![i] = new]
      BY <2>1
    <3> QED
      BY <3>1, <3>2, <3>3
  <2> HIDE DEF new
  <2>3. /\ ConnectedTo(i) = {} /\ redis' = [redis EXCEPT ![i] = "closed"]
        /\ Reject(i, queue[i]) /\ UNCHANGED <<client, job, exit>>
    BY <1>4 DEF ClosedAway
  <2>4. /\ queue' = [queue EXCEPT ![i] = << >>] /\ lost' \in [Instances -> BOOLEAN]
        /\ \A j \in Instances \ {i} : lost'[j] = lost[j]
    BY <2>3 DEF Reject, Serves, QueueTypes
  <2> QED
    BY <1>3, <2>2, <2>3, <2>4
<1>5. ASSUME Quit(i)
      PROVE  Serves'
  <2>1. PICK k \in Calls : call[i][k] = "quit" /\ call' = [call EXCEPT ![i][k] = "quit_subscriber"]
    BY <1>5 DEF Quit, QuitResolved
  <2> DEFINE new == [call[i] EXCEPT ![k] = "quit_subscriber"]
  <2>2. new \in [Calls -> Steps] /\ new[k] # "none" /\ call' = [call EXCEPT ![i] = new]
    BY <1>0, <2>1 DEF Steps, Serves, OtherTypes
  <2> HIDE DEF new
  <2>3. /\ redis[i] = "ready" /\ redis' = [redis EXCEPT ![i] = "quit"] /\ "quit" \in ToSet(queue[i])
        /\ Head(queue[i]) = "quit" /\ Reject(i, Tail(queue[i])) /\ UNCHANGED <<client, job, exit>>
    BY <1>5 DEF Quit, QuitResolved
  <2>4. ConnectedTo(i) = {}
    <3>1. Past(i)
      BY <2>1 DEF Past
    <3> QED
      BY <3>1 DEF Serves, Drained, ConnectedTo
  <2>5. "event" \notin ToSet(Tail(queue[i]))
    <3>1. queue[i] # << >>
      BY <2>3 DEF ToSet
    <3>2. /\ Len(Tail(queue[i])) = Len(queue[i]) - 1 /\ Tail(queue[i]) \in Seq(Commands)
          /\ \A m \in 1 .. Len(queue[i]) - 1 : Tail(queue[i])[m] = queue[i][m + 1]
      BY <1>0, <3>1, TailsAreOrdered
    <3>3. 1 \in 1 .. Len(queue[i]) /\ queue[i][1] = "quit"
      BY <1>0, <2>3, <3>1
    <3>4. \A m \in 1 .. Len(queue[i]) - 1 : queue[i][m + 1] # "event"
      BY <1>0, <3>3 DEF Ordered
    <3>5. \A m \in 1 .. Len(Tail(queue[i])) : Tail(queue[i])[m] # "event"
      BY <3>2, <3>4
    <3>6. DOMAIN Tail(queue[i]) = 1 .. Len(Tail(queue[i]))
      BY <3>2
    <3> QED
      BY <3>5, <3>6 DEF ToSet
  <2>6. /\ queue' = [queue EXCEPT ![i] = << >>] /\ lost' = [lost EXCEPT ![i] = @ \/ FALSE]
        /\ lost[i] = FALSE /\ lost \in [Instances -> BOOLEAN]
    BY <1>0, <2>3, <2>5 DEF Reject, Ordered, Serves, QueueTypes
  <2>7. /\ lost' \in [Instances -> BOOLEAN] /\ ~lost'[i]
        /\ \A j \in Instances \ {i} : lost'[j] = lost[j]
    BY <2>6
  <2> QED
    BY <1>3, <2>2, <2>3, <2>4, <2>6, <2>7
<1>6. ASSUME QuitSubscriber(i)
      PROVE  Serves'
  <2>1. PICK k \in Calls : call[i][k] = "quit_subscriber" /\ call' = [call EXCEPT ![i][k] = "end"]
    BY <1>6 DEF QuitSubscriber
  <2> DEFINE new == [call[i] EXCEPT ![k] = "end"]
  <2>2. new \in [Calls -> Steps] /\ new[k] # "none" /\ call' = [call EXCEPT ![i] = new]
    BY <1>0, <2>1 DEF Steps, Serves, OtherTypes
  <2> HIDE DEF new
  <2>3. UNCHANGED <<client, queue, redis, lost, job, exit>>
    BY <1>6 DEF QuitSubscriber
  <2>4. Past(i) /\ HasQuit(i)
    BY <2>1 DEF Past, Serves, Quitted
  <2>5. Drained'
    <3>1. ConnectedTo(i) = {}
      BY <2>4 DEF Serves, Drained, ConnectedTo
    <3> QED
      BY <2>2, <2>3, <3>1, PassingKeepsDrained
  <2>6. OtherTypes' /\ Quitted'
    BY <2>2, <2>3, <2>4 DEF Serves, OtherTypes, Quitted, HasQuit
  <2>7. \A j \in Instances : Ordered(j)'
    <3>1. queue[i] = << >>
      BY <1>0, <2>4 DEF Ordered, Takes, HasQuit
    <3> QED
      BY <2>2, <2>3, <3>1 DEF Serves, OtherTypes, Ordered, Takes, Past
  <2> QED
    BY <2>3, <2>5, <2>6, <2>7 DEF Serves, ClientTypes, QueueTypes, Placed
<1> QED
  BY <1>1, <1>2, <1>4, <1>5, <1>6

LEMMA ServesNext ==
    ASSUME Serves, [Next]_vars
    PROVE  Serves'
<1>1. ASSUME UNCHANGED serving, exit' \in [Instances -> Ends]
      PROVE  Serves'
  BY <1>1 DEF serving, Serves, ClientTypes, QueueTypes, OtherTypes, Placed, Drained, Quitted,
              Past, HasQuit, Closing, Ordered, Takes
<1>2. ASSUME NEW i \in Instances, NEW how \in Ends, Exit(i, how)
      PROVE  Serves'
  BY <1>2, ExitKeepsServes
<1>3. ASSUME NEW i \in Instances, Start(i) \/ Migrate(i) \/ LoseReply(i) \/ Abort(i)
      PROVE  Exit(i, "error") \/ (UNCHANGED serving /\ exit' \in [Instances -> Ends])
  BY <1>3 DEF Start, Migrate, LookForTable, CreateTable, Check, Apply, Record, CommitMigration,
              LoseReply, Abort, MigrationFails, Serves, OtherTypes, Ends
<1>4. ASSUME NEW i \in Instances,
             QuitRejected(i) \/ SubscriberRejected(i) \/ EndPool(i) \/ ForceExit(i) \/ Kill(i)
      PROVE  Exit(i, "ok") \/ Exit(i, "error") \/ Exit(i, "forced") \/ Exit(i, "killed")
  BY <1>4 DEF QuitRejected, SubscriberRejected, EndPool, ForceExit, Kill
<1>5. ASSUME NEW i \in Instances, JobStart(i)
      PROVE  Serves'
  BY <1>5 DEF JobStart, Serves, ClientTypes, QueueTypes, OtherTypes, Placed, Drained, Quitted,
              Past, HasQuit, Closing, Ordered, Takes
<1>6. ASSUME NEW i \in Instances, JobEvict(i)
      PROVE  Serves'
  <2>1. /\ "evict" \in Commands \ {"quit"} /\ Send(i, "evict") /\ UNCHANGED <<client, redis, call, exit>>
        /\ job' \in [Instances -> {"idle", "select"}]
    BY <1>6 DEF JobEvict, Commands, Serves, OtherTypes
  <2>2. QueueTypes' /\ \A j \in Instances : Ordered(j)'
    BY <2>1, SendingKeepsOrder
  <2> QED
    BY <2>1, <2>2
       DEF Serves, ClientTypes, OtherTypes, Placed, Drained, Quitted, Past, HasQuit, Closing
<1>7. {"ok", "error", "forced", "killed"} \subseteq Ends
  BY DEF Ends
<1>8. ASSUME UNCHANGED vars
      PROVE  Serves'
  BY <1>1, <1>8 DEF vars, serving, Serves, OtherTypes
<1> QED
  BY <1>1, <1>2, <1>3, <1>4, <1>5, <1>6, <1>7, <1>8,
     ClientKeepsServes, ConnectionKeepsServes, ShutdownKeepsServes
     DEF Next, Shutdown

-----------------------------------------------------------------------------
(* The theorems *)

\* The inductive invariant of both arguments, for any number of instances,
\* clients, migrations, starts and faults.
THEOREM Soundness == Spec => [](Migrations /\ Serves)
<1>1. Init => Migrations /\ Serves
  BY MigrationsInit, ServesInit
<1>2. Migrations /\ Serves /\ [Next]_vars => Migrations' /\ Serves'
  BY MigrationsNext, ServesNext
<1> QED
  BY <1>1, <1>2, PTL DEF Spec

\* However many instances start at once, crash half-way or lose the reply to a
\* COMMIT, migrate.ts applies a migration once, records what it applied and
\* keeps the order.
THEOREM MigrationsAreApplied == Spec => []MigrationsOnceInOrder
<1>1. Migrations => MigrationsOnceInOrder
  <2> SUFFICES ASSUME Migrations, NEW v \in Versions
               PROVE  /\ applied[v] = IF v \in recorded THEN 1 ELSE 0
                      /\ v \in recorded => 1 .. v \subseteq recorded
    BY DEF MigrationsOnceInOrder
  <2>1. v \in recorded => \A u \in 1 .. v : u \in recorded
    BY MigrationsAssumption DEF Migrations, Recorded, Versions
  <2> QED
    BY <2>1 DEF Migrations, Recorded
<1> QED
  BY <1>1, Soundness, PTL

\* start.sh never runs the server on a schema that misses a migration.
THEOREM SchemaIsFull == Spec => []ServesFullSchema
<1>1. Migrations => ServesFullSchema
  BY MigrationsAssumption
     DEF Migrations, InPlace, Recorded, ServesFullSchema, Serving, Versions
<1> QED
  BY <1>1, Soundness, PTL

\* No number of signals makes shutdown() take Redis or the pool away from a
\* request whose client waits for its answer.
THEOREM ResourcesAreKept == Spec => []HandlersKeepResources
<1>1. Serves => HandlersKeepResources
  <2> SUFFICES ASSUME Serves, NEW c \in Clients, client[c].on
               PROVE  redis[client[c].at] \notin {"quit", "closed"} /\ ~Ended(client[c].at)
    BY DEF HandlersKeepResources
  <2> DEFINE i == client[c].at
  <2>1. i \in Instances
    BY DEF Serves, Placed
  <2>2. ~HasQuit(i) /\ ~Past(i)
    BY <2>1 DEF Serves, Drained
  <2> HIDE DEF i
  <2>3. redis[i] \notin {"quit", "closed"} /\ ~Ended(i)
    BY <2>2 DEF HasQuit, Past, Ended
  <2> QED
    BY <2>3 DEF i
<1> QED
  BY <1>1, Soundness, PTL

\* A serving process comes down in an orderly way at the end of shutdown(), or
\* because a call of it was rejected.
LEMMA WaysDown ==
    ASSUME Migrations, Serves, [Next]_vars, NEW i \in Instances,
           proc[i].pc = "serve", proc'[i].pc = "down", exit'[i] \in {"ok", "error"}
    PROVE  \/ EndPool(i)
           \/ exit'[i] = "error" /\ (QuitRejected(i) \/ SubscriberRejected(i))
<1> DEFINE Comes(j) == Start(j) \/ Migrate(j) \/ LoseReply(j) \/ Abort(j)
           Goes(j) == QuitRejected(j) \/ SubscriberRejected(j) \/ EndPool(j) \/ ForceExit(j) \/ Kill(j)
<1>1. ASSUME NEW j \in Instances, j # i, Comes(j) \/ Goes(j)
      PROVE  proc'[i] = proc[i]
  BY <1>1 DEF Migrations, MigrationTypes, Start, Migrate, LookForTable, CreateTable, Check,
              Apply, Record, CommitMigration, LoseReply, Abort, QuitRejected, SubscriberRejected,
              EndPool, ForceExit, Kill, MigrationFails, Exit, Goto
<1>2. ~Comes(i)
  BY DEF Start, Migrate, LookForTable, CreateTable, Check, Apply, Record, CommitMigration,
         LoseReply, Abort
<1>3. ASSUME NEW j \in Instances,
             JobStart(j) \/ JobEvict(j) \/ Execute(j) \/ Drop(j) \/ Reconnect(j) \/ GiveUp(j)
               \/ Signal(j) \/ Closed(j) \/ ClosedAway(j) \/ Quit(j) \/ QuitSubscriber(j)
      PROVE  UNCHANGED proc
  BY <1>3 DEF JobStart, JobEvict, Execute, Drop, Reconnect, GiveUp, Signal, Closed, QuitCalled,
              ClosedAway, Quit, QuitResolved, QuitSubscriber
<1>4. ASSUME NEW c \in Clients,
             Handle(c) \/ Request(c) \/ Upgrade(c) \/ Disconnect(c)
               \/ \E j \in Instances : Connect(c, j)
      PROVE  UNCHANGED proc
  BY <1>4 DEF Handle, BeginQuery, Query, Answer, Request, Upgrade, Disconnect, Connect
<1>5. /\ ~ForceExit(i) /\ ~Kill(i)
      /\ QuitRejected(i) \/ SubscriberRejected(i) => exit'[i] = "error"
  BY DEF ForceExit, Kill, QuitRejected, SubscriberRejected, Exit, Serves, OtherTypes
<1>6. ~UNCHANGED proc
  OBVIOUS
<1>7. PICK j \in Instances : Comes(j) \/ Goes(j)
  <2>1. ~UNCHANGED vars
    BY <1>6 DEF vars
  <2> QED
    BY <1>3, <1>4, <1>6, <2>1 DEF Next, Shutdown
<1>8. j = i
  BY <1>1, <1>7
<1> QED
  BY <1>2, <1>5, <1>7, <1>8

\* When shutdown() ends the process by itself, every announcement of a request
\* whose client stayed was executed, unless redisClient gave up or was closed
\* while it reconnected.
THEOREM NothingIsLeftBehind == Spec => OrderlyExitLosesNothing
<1>1. ASSUME Migrations, Serves, [Next]_vars, NEW i \in Instances,
             proc[i].pc = "serve", proc'[i].pc = "down", exit'[i] \in {"ok", "error"},
             redis[i] \notin {"gone", "closed"}
      PROVE  ~lost[i] /\ "event" \notin ToSet(queue[i])
  <2>1. EndPool(i) \/ QuitRejected(i) \/ SubscriberRejected(i)
    BY <1>1, WaysDown
  <2>2. redis[i] = "quit"
    BY <1>1, <2>1 DEF EndPool, QuitRejected, SubscriberRejected, Ended, Takes,
                      Serves, OtherTypes, Quitted, HasQuit
  <2>3. ~lost[i] /\ queue[i] = << >>
    BY <1>1, <2>2 DEF Serves, Ordered, Takes
  <2> QED
    BY <2>3 DEF ToSet
<1>2. Migrations /\ Serves /\ [Next]_vars =>
        [\A i \in Instances :
           /\ proc[i].pc = "serve" /\ proc'[i].pc = "down" /\ exit'[i] \in {"ok", "error"}
           /\ redis[i] \notin {"gone", "closed"}
           => ~lost[i] /\ "event" \notin ToSet(queue[i])]_vars
  BY <1>1
<1> QED
  BY <1>2, Soundness, PTL DEF Spec, OrderlyExitLosesNothing

\* An exit with code 0 cuts nobody off.
THEOREM NobodyIsCutOff == Spec => CleanExitCutsNobody
<1>1. ASSUME Migrations, Serves, [Next]_vars, NEW i \in Instances,
             proc[i].pc = "serve", proc'[i].pc = "down", exit'[i] = "ok"
      PROVE  ConnectedTo(i) = {}
  <2>1. EndPool(i)
    BY <1>1, WaysDown
  <2> QED
    BY <1>1, <2>1 DEF EndPool, Ended, Serves, Drained, Past, ConnectedTo
<1>2. Migrations /\ Serves /\ [Next]_vars =>
        [\A i \in Instances :
           proc[i].pc = "serve" /\ proc'[i].pc = "down" /\ exit'[i] = "ok" =>
             ConnectedTo(i) = {}]_vars
  BY <1>1
<1> QED
  BY <1>2, Soundness, PTL DEF Spec, CleanExitCutsNobody
=============================================================================
