----------------------------- MODULE QueueProofs -----------------------------
(***************************************************************************)
(* What Redis holds when one client asks for a kind of write on one        *)
(* server: the catch-up list, the channel and, in the last part, the       *)
(* cached game.                                                            *)
(*                                                                         *)
(* The cached game, the list and the announcement of an event are three    *)
(* commands that nobody waits for, and a reconnect repeats all three.  The *)
(* argument is about the client's queue: requireAuth's lookup comes behind *)
(* the commands of the last request on the same connection, so the queue   *)
(* never holds messages of two requests of one client.  If one client asks *)
(* for a kind of write, then what the queue carries of that kind is the    *)
(* newest, also when it is sent again, and Redis ends with the newest.     *)
(***************************************************************************)
EXTENDS GameWritesProofs

-----------------------------------------------------------------------------
(* Vocabulary *)

OneServer == \A s, t \in Servers : s = t

\* The kind of request that writes a message of each type.
KindOf == [event_update |-> "submit", status_change |-> "transition",
           state_update |-> "patch"]

Types == {"event_update", "status_change", "state_update"}

Asks(w, kind) == \E req \in MayRequest[w] : req.kind = kind

OneWriterOf(kind) == \A v, w \in Writers : Asks(v, kind) /\ Asks(w, kind) => v = w

\* A command with a message.
Carries(c) == c.op \in {"push", "publish"}

IsEvent(m) == m.type = "event_update"

-----------------------------------------------------------------------------
(* The last message of a type *)

\* A message that is appended is the last of its type, and of no other.
LEMMA LatestAppend ==
    ASSUME NEW C, NEW q \in Seq(C), NEW x \in C, NEW m
    PROVE  LastOfType(m, Append(q, x)) <=> m = x \/ (m.type # x.type /\ LastOfType(m, q))
<1> DEFINE p == Append(q, x)
           k == Len(q)
<1>1. /\ k \in Nat /\ DOMAIN q = 1 .. k /\ DOMAIN p = 1 .. k + 1
      /\ \A i \in 1 .. k : p[i] = q[i]
      /\ p[k + 1] = x
  <2>1. /\ p \in Seq(C) /\ Len(p) = k + 1
        /\ \A i \in 1 .. k : p[i] = q[i]
        /\ p[k + 1] = x
    BY AppendProperties
  <2> QED
    BY <2>1, LenProperties
<1> HIDE DEF p, k
<1>2. ASSUME LastOfType(m, p), m # x PROVE m.type # x.type /\ LastOfType(m, q)
  <2>1. PICK i \in 1 .. k + 1 :
          p[i] = m /\ \A j \in 1 .. k + 1 : p[j].type = m.type => j <= i
    BY <1>1, <1>2 DEF LastOfType
  <2>2. i \in 1 .. k
    BY <1>1, <1>2, <2>1
  <2>3. m.type # x.type
    BY <1>1, <2>1, <2>2
  <2>4. q[i] = m /\ \A j \in 1 .. k : q[j].type = m.type => j <= i
    BY <1>1, <2>1, <2>2
  <2> QED
    BY <1>1, <2>2, <2>3, <2>4 DEF LastOfType
<1>3. ASSUME m = x PROVE LastOfType(m, p)
  <2>1. k + 1 \in 1 .. k + 1 /\ \A j \in 1 .. k + 1 : j <= k + 1
    BY <1>1
  <2> QED
    BY <1>1, <1>3, <2>1 DEF LastOfType
<1>4. ASSUME m.type # x.type, LastOfType(m, q) PROVE LastOfType(m, p)
  <2>1. PICK i \in 1 .. k :
          q[i] = m /\ \A j \in 1 .. k : q[j].type = m.type => j <= i
    BY <1>1, <1>4 DEF LastOfType
  <2>2. \A j \in 1 .. k + 1 : p[j].type = m.type => j <= i
    <3>1. SUFFICES ASSUME NEW j \in 1 .. k + 1, p[j].type = m.type PROVE j <= i
      OBVIOUS
    <3>2. j \in 1 .. k
      BY <1>1, <1>4, <3>1
    <3> QED
      BY <1>1, <2>1, <3>1, <3>2
  <2> QED
    BY <1>1, <2>1, <2>2 DEF LastOfType
<1> QED
  BY <1>2, <1>3, <1>4 DEF p

\* There is one last message of a type, and it is in the sequence.
LEMMA LatestIsOne ==
    ASSUME NEW C, NEW q \in Seq(C), NEW x, LastOfType(x, q)
    PROVE  /\ x \in C
           /\ \A y : LastOfType(y, q) /\ y.type = x.type => y = x
<1>1. Len(q) \in Nat /\ DOMAIN q = 1 .. Len(q) /\ \A i \in 1 .. Len(q) : q[i] \in C
  BY LenProperties, ElementOfSeq
<1>2. PICK i \in 1 .. Len(q) :
        q[i] = x /\ \A j \in 1 .. Len(q) : q[j].type = x.type => j <= i
  BY <1>1 DEF LastOfType
<1>3. ASSUME NEW y, LastOfType(y, q), y.type = x.type PROVE y = x
  <2>1. PICK j \in 1 .. Len(q) :
          q[j] = y /\ \A k \in 1 .. Len(q) : q[k].type = y.type => k <= j
    BY <1>1, <1>3 DEF LastOfType
  <2>2. i <= j /\ j <= i
    BY <1>2, <1>3, <2>1
  <2> QED
    BY <1>1, <1>2, <2>1, <2>2
<1> QED
  BY <1>1, <1>2, <1>3

-----------------------------------------------------------------------------
(* The record: the messages of the committed writes.  Nothing is assumed of  *)
(* the clients here.                                                         *)

\* The place of a message is its number.
Numbered == \A i \in 1 .. Len(commits) : commits[i].n = i

HasLatest ==
    \A c \in Committed : \E m \in Committed : m.type = c.type /\ LastOfType(m, commits)

\* The newest message of each type says what the database says.
NewestShowsRow ==
    /\ row = NULL => commits = << >>
    /\ \A m \in Committed : LastOfType(m, commits) => ShowsRow(m)

RecordInv == Numbered /\ HasLatest /\ NewestShowsRow

\* A write that is not the first insert commits one message, under the next
\* number and of its own kind.
LEMMA WriteAppends ==
    ASSUME Good, NEW v \in Writers, h[v].pc = "write", Write(v), ~WriteGame(v)
    PROVE  \E m \in Message :
             /\ commits' = Append(commits, m) /\ Last(commits') = m
             /\ Committed' = Committed \cup {m}
             /\ m.n = Len(commits) + 1
             /\ m.type \in Types /\ h[v].req.kind = KindOf[m.type]
<1>2. commits \in Seq(Message) /\ commits' \in Seq(Message) /\ Len(commits) \in Nat
  <2>1. GoodDatabase'
    BY WriteIsGood
  <2> QED
    BY <2>1, LenProperties DEF Good, GoodDatabase
<1>3. Committed' = Committed \cup {Last(commits')} \/ h[v].req.kind = "create"
  BY WriteEffect
<1>4. ASSUME NEW m, commits' = Append(commits, m) PROVE m \in Message /\ Last(commits') = m
  <2> DEFINE T == Message \cup {m}
  <2>1. commits \in Seq(T)
    BY <1>2, SeqMonotonic
  <2> HIDE DEF T
  <2>2. /\ Len(commits') = Len(commits) + 1 /\ commits'[Len(commits) + 1] = m
    BY <1>4, <2>1, AppendProperties DEF T
  <2>3. m \in Message
    BY <1>2, <2>2, ElementOfSeq
  <2> QED
    BY <2>2, <2>3 DEF Last
<1>5. ASSUME NEW m, commits' = Append(commits, m), m.n = Len(commits) + 1,
             h[v].req.kind # "create",
             m.type \in Types /\ h[v].req.kind = KindOf[m.type]
      PROVE  \E x \in Message :
               /\ commits' = Append(commits, x) /\ Last(commits') = x
               /\ Committed' = Committed \cup {x}
               /\ x.n = Len(commits) + 1
               /\ x.type \in Types /\ h[v].req.kind = KindOf[x.type]
  BY <1>3, <1>4, <1>5
<1>6. CASE WriteEvent(v)
  <2> DEFINE m == EventMessage(h[v].seen, h[v].req)
  <2>1. commits' = Append(commits, m) /\ h[v].req.kind = "submit"
    BY <1>6 DEF WriteEvent
  <2>2. m.n = Len(commits) + 1 /\ m.type = "event_update"
    BY DEF EventMessage
  <2> HIDE DEF m
  <2> QED
    BY <1>5, <2>1, <2>2 DEF KindOf, Types
<1>7. CASE WriteStatus(v)
  <2> DEFINE m == [n |-> Len(commits) + 1, type |-> "status_change", status |-> h[v].req.to]
  <2>1. commits' = Append(commits, m) /\ h[v].req.kind = "transition"
    BY <1>7 DEF WriteStatus
  <2>2. m.n = Len(commits) + 1 /\ m.type = "status_change"
    OBVIOUS
  <2> HIDE DEF m
  <2> QED
    BY <1>5, <2>1, <2>2 DEF KindOf, Types
<1>8. CASE WriteState(v)
  <2> DEFINE m == [n |-> Len(commits) + 1, type |-> "state_update", state |-> state']
  <2>1. commits' = Append(commits, m) /\ h[v].req.kind = "patch"
    BY <1>8 DEF WriteState
  <2>2. m.n = Len(commits) + 1 /\ m.type = "state_update"
    OBVIOUS
  <2> HIDE DEF m
  <2> QED
    BY <1>5, <2>1, <2>2 DEF KindOf, Types
<1> QED
  BY <1>6, <1>7, <1>8 DEF Write

\* A step commits nothing, or one message of a handler that writes.
LEMMA CommitEffect ==
    ASSUME Good, [Next]_vars
    PROVE  \/ UNCHANGED commits
           \/ \E v \in Writers, m \in Message :
                /\ h[v].pc = "write" /\ Write(v) /\ (Commit(v) \/ LoseReply(v))
                /\ commits' = Append(commits, m)
                /\ Committed' = Committed \cup {m}
                /\ m.n = Len(commits) + 1
                /\ m.type \in Types /\ h[v].req.kind = KindOf[m.type]
BY OnlyWritesChangeRow, WriteAppends DEF WriteGame

\* The state column is only changed by a patch.
LEMMA OnlyWritesChangeState ==
    ASSUME [Next]_vars
    PROVE  UNCHANGED <<row, state, commits>> \/ \E w \in Writers : h[w].pc = "write" /\ Write(w)
BY DEF Next, vars, Handle, Read, Commit, LoseReply, Abort, Fanout, Await, Begin,
       Serve, ReadRow, Warm, Served, ReadCache, Deliver, Execute, Reply, Reconnect,
       GiveUp, Crash, FindStale, EvictGame, Expire, Age, postgres

LEMMA NumberedStep == Good /\ Numbered /\ [Next]_vars => Numbered'
<1> SUFFICES ASSUME Good, Numbered, [Next]_vars PROVE Numbered'
  OBVIOUS
<1>1. CASE UNCHANGED commits
  BY <1>1 DEF Numbered
<1>2. ASSUME NEW m \in Message, m.n = Len(commits) + 1, commits' = Append(commits, m)
      PROVE  Numbered'
  <2>1. /\ Len(commits) \in Nat /\ Len(commits') = Len(commits) + 1
        /\ \A i \in 1 .. Len(commits) : commits'[i] = commits[i]
        /\ commits'[Len(commits) + 1] = m
    BY <1>2, AppendProperties, LenProperties DEF Good, GoodDatabase
  <2>2. \A i \in 1 .. Len(commits') : i \in 1 .. Len(commits) \/ i = Len(commits) + 1
    BY <2>1
  <2> QED
    BY <1>2, <2>1, <2>2 DEF Numbered
<1> QED
  BY <1>1, <1>2, CommitEffect

LEMMA HasLatestStep == Good /\ HasLatest /\ [Next]_vars => HasLatest'
<1> SUFFICES ASSUME Good, HasLatest, [Next]_vars PROVE HasLatest'
  OBVIOUS
<1>1. CASE UNCHANGED commits
  BY <1>1 DEF HasLatest, Committed
<1>2. ASSUME NEW x \in Message, commits' = Append(commits, x), Committed' = Committed \cup {x}
      PROVE  HasLatest'
  <2>1. \A m : LastOfType(m, commits') <=> m = x \/ (m.type # x.type /\ LastOfType(m, commits))
    BY <1>2, LatestAppend DEF Good, GoodDatabase
  <2>2. SUFFICES ASSUME NEW c \in Committed \cup {x}
                 PROVE  \E m \in Committed \cup {x} : m.type = c.type /\ LastOfType(m, commits')
    BY <1>2 DEF HasLatest
  <2>3. CASE c.type = x.type
    BY <2>1, <2>3
  <2>4. CASE c.type # x.type
    <3>1. PICK m \in Committed : m.type = c.type /\ LastOfType(m, commits)
      BY <2>2, <2>4 DEF HasLatest
    <3> QED
      BY <2>1, <2>4, <3>1
  <2> QED
    BY <2>3, <2>4
<1> QED
  BY <1>1, <1>2, CommitEffect

\* A write leaves what the other types of messages say of the database alone.
LEMMA NewestShowsRowStep == Good /\ NewestShowsRow /\ [Next]_vars => NewestShowsRow'
<1> SUFFICES ASSUME Good, NewestShowsRow, [Next]_vars PROVE NewestShowsRow'
  OBVIOUS
<1>1. CASE UNCHANGED <<row, state, commits>>
  BY <1>1 DEF NewestShowsRow, Committed, ShowsRow
<1>2. ASSUME NEW w \in Writers, h[w].pc = "write", Write(w) PROVE NewestShowsRow'
  <2>c. commits \in Seq(Message)
    BY DEF Good, GoodDatabase
  <2>r. h[w].req.kind # "create" => row \in Game /\ h[w].seen \in Game /\ row # NULL
    BY <1>2, NullAssumption DEF Good, GoodProcesses, GoodHandler, GoodGame
  <2>1. row' # NULL
    BY <1>2, WriteIsGood, NullAssumption DEF GoodGame
  <2>2. ASSUME NEW x, commits' = Append(commits, x), h[w].req.kind # "create", ShowsRow(x)',
               \A m \in Committed : m.type # x.type /\ ShowsRow(m) => ShowsRow(m)'
        PROVE  NewestShowsRow'
    <3>1. Committed' = Committed \cup {x} /\ x \in Message
      <4>1. Committed' = Committed \cup {Last(commits')} /\ commits' \in Seq(Message)
        BY <1>2, <2>2, WriteEffect, WriteIsGood DEF GoodDatabase
      <4> DEFINE T == Message \cup {x}
      <4>2. commits \in Seq(T)
        BY <2>c, SeqMonotonic
      <4> HIDE DEF T
      <4>3. /\ Len(commits') = Len(commits) + 1 /\ commits'[Len(commits) + 1] = x
            /\ Len(commits) \in Nat
        BY <2>2, <4>2, AppendProperties, LenProperties DEF T
      <4> QED
        BY <4>1, <4>3, ElementOfSeq DEF Last
    <3>2. \A m : LastOfType(m, commits') <=> m = x \/ (m.type # x.type /\ LastOfType(m, commits))
      BY <2>c, <2>2, <3>1, LatestAppend
    <3>3. ASSUME NEW m \in Committed \cup {x}, LastOfType(m, commits') PROVE ShowsRow(m)'
      <4>1. CASE m = x
        BY <2>2, <4>1
      <4>2. CASE m # x
        <5>1. m \in Committed /\ m.type # x.type /\ LastOfType(m, commits)
          BY <3>2, <3>3, <4>2
        <5>2. ShowsRow(m)
          BY <5>1 DEF NewestShowsRow
        <5> QED
          BY <2>2, <5>1, <5>2
      <4> QED
        BY <4>1, <4>2
    <3> QED
      BY <2>1, <3>1, <3>3 DEF NewestShowsRow
  <2>3. CASE WriteEvent(w)
    <3> DEFINE score == ScoreFor(h[w].seen, h[w].req)
    <3>0. PICK x : x = EventMessage(h[w].seen, h[w].req)
      OBVIOUS
    <3>1. /\ commits' = Append(commits, x) /\ h[w].req.kind = "submit"
          /\ row' = WithScore(row, score) /\ state' = state
      BY <2>3, <3>0 DEF WriteEvent
    <3>2. row'.home = score.home /\ row'.away = score.away /\ row'.status = row.status
      BY <2>r, <3>1 DEF WithScore, Game
    <3>3. x.type = "event_update" /\ x.home = score.home /\ x.away = score.away
      BY <3>0 DEF EventMessage
    <3> HIDE DEF score
    <3>4. ShowsRow(x)'
      BY <3>2, <3>3 DEF ShowsRow
    <3>5. \A m \in Committed : m.type # x.type /\ ShowsRow(m) => ShowsRow(m)'
      <4>1. \A m \in Committed : m.type \in Types
        BY <2>c, CommittedIsRange DEF Message, EventUpdate, StatusChange, StateUpdate, Types
      <4> QED
        BY <3>1, <3>2, <3>3, <4>1 DEF ShowsRow, Types
    <3> QED
      BY <2>2, <3>1, <3>4, <3>5
  <2>4. CASE WriteStatus(w)
    <3>0. PICK x : x = [n |-> Len(commits) + 1, type |-> "status_change", status |-> h[w].req.to]
      OBVIOUS
    <3>1. /\ commits' = Append(commits, x) /\ h[w].req.kind = "transition"
          /\ row' = WithStatus(row, h[w].req.to) /\ state' = state
      BY <2>4, <3>0 DEF WriteStatus
    <3>2. row'.home = row.home /\ row'.away = row.away /\ row'.status = h[w].req.to
      BY <2>r, <3>1 DEF WithStatus, Game
    <3>3. x.type = "status_change" /\ x.status = h[w].req.to
      BY <3>0
    <3>4. ShowsRow(x)'
      BY <3>2, <3>3 DEF ShowsRow
    <3>5. \A m \in Committed : m.type # x.type /\ ShowsRow(m) => ShowsRow(m)'
      <4>1. \A m \in Committed : m.type \in Types
        BY <2>c, CommittedIsRange DEF Message, EventUpdate, StatusChange, StateUpdate, Types
      <4> QED
        BY <3>1, <3>2, <3>3, <4>1 DEF ShowsRow, Types
    <3> QED
      BY <2>2, <3>1, <3>4, <3>5
  <2>5. CASE WriteState(w)
    <3>0. PICK x : x = [n |-> Len(commits) + 1, type |-> "state_update", state |-> state']
      OBVIOUS
    <3>1. /\ commits' = Append(commits, x) /\ h[w].req.kind = "patch" /\ row' = row
      BY <2>5, <3>0 DEF WriteState
    <3>3. x.type = "state_update" /\ x.state = state'
      BY <3>0
    <3>4. ShowsRow(x)'
      BY <3>3 DEF ShowsRow
    <3>5. \A m \in Committed : m.type # x.type /\ ShowsRow(m) => ShowsRow(m)'
      <4>1. \A m \in Committed : m.type \in Types
        BY <2>c, CommittedIsRange DEF Message, EventUpdate, StatusChange, StateUpdate, Types
      <4> QED
        BY <3>1, <3>3, <4>1 DEF ShowsRow, Types
    <3> QED
      BY <2>2, <3>1, <3>4, <3>5
  <2>6. CASE WriteGame(w)
    <3>1. commits' = << >> /\ row' # NULL
      BY <2>1, <2>6 DEF WriteGame, NewestShowsRow
    <3>2. Committed' = {}
      BY <3>1 DEF Committed, ToSet
    <3> QED
      BY <3>1, <3>2 DEF NewestShowsRow
  <2> QED
    BY <1>2, <2>3, <2>4, <2>5, <2>6 DEF Write
<1> QED
  BY <1>1, <1>2, OnlyWritesChangeState

LEMMA RecordStart == Init => RecordInv
<1> SUFFICES ASSUME Init PROVE RecordInv
  OBVIOUS
<1>1. Committed = {} /\ Len(commits) = 0 /\ commits = << >>
  BY DEF Init, Committed, ToSet
<1> QED
  BY <1>1 DEF RecordInv, Numbered, HasLatest, NewestShowsRow

LEMMA RecordStep == Good /\ RecordInv /\ [Next]_vars => RecordInv'
BY NumberedStep, HasLatestStep, NewestShowsRowStep DEF RecordInv

\* A message with no later one of its type says what the database says: the
\* score, the status or the state, whoever writes and whatever fails.
THEOREM NewestMessageIsRow == Spec => [](\A m \in Committed : LastOfType(m, commits) => ShowsRow(m))
<1>1. RecordInv => \A m \in Committed : LastOfType(m, commits) => ShowsRow(m)
  BY DEF RecordInv, NewestShowsRow
<1> QED
  BY <1>1, RecordStart, RecordStep, Goodness, PTL DEF Spec

-----------------------------------------------------------------------------
(* The clients' queues *)

\* The sizes of the queues, and what they carry.
LEMMA Sizes ==
    ASSUME Good
    PROVE  /\ commits \in Seq(Message) /\ Len(commits) \in Nat
           /\ \A m \in Committed : m.n \in Nat /\ m.type \in Types
           /\ out = [s \in Servers |-> out[s]] /\ done = [s \in Servers |-> done[s]]
           /\ \A s \in Servers :
                /\ out[s] \in Seq(GoodCommand(Committed))
                /\ Len(out[s]) \in Nat /\ done[s] \in Nat /\ done[s] <= Len(out[s])
                /\ \A i \in 1 .. Len(out[s]) : Carries(out[s][i]) => out[s][i].msg \in Committed
<1>1. /\ commits \in Seq(Message) /\ Len(commits) \in Nat /\ Committed \subseteq Message
  BY CommittedIsRange, LenProperties DEF Good, GoodDatabase
<1>2. \A m \in Message : m.n \in Nat /\ m.type \in Types
  BY DEF Message, EventUpdate, StatusChange, StateUpdate, Types
<1>3. /\ out = [s \in Servers |-> out[s]] /\ done = [s \in Servers |-> done[s]]
      /\ \A s \in Servers :
           /\ out[s] \in Seq(GoodCommand(Committed))
           /\ Len(out[s]) \in Nat /\ done[s] \in Nat /\ done[s] <= Len(out[s])
  BY LenProperties DEF Good, GoodClients
<1>4. \A c \in GoodCommand(Committed) : Carries(c) => c.msg \in Committed
  BY DEF GoodCommand, Carries
<1> QED
  BY <1>1, <1>2, <1>3, <1>4, ElementOfSeq

\* What sending commands does to the queues.
LEMMA Enqueued ==
    ASSUME Good, NEW t \in Servers, NEW cmds \in Seq(GoodCommand(Committed)),
           Enqueue(t, cmds), NEW s \in Servers
    PROVE  /\ Len(out'[s]) \in Nat /\ Len(out[s]) <= Len(out'[s])
           /\ \A i \in 1 .. Len(out[s]) : out'[s][i] = out[s][i]
           /\ \A i \in 1 .. Len(out'[s]) :
                i > Len(out[s]) =>
                  /\ s = t /\ i - Len(out[s]) \in 1 .. Len(cmds)
                  /\ out'[s][i] = cmds[i - Len(out[s])]
<1>1. /\ out \in [Servers -> Seq(GoodCommand(Committed))]
      /\ Len(out[s]) \in Nat /\ Len(cmds) \in Nat
  BY Sizes, LenProperties DEF Good, GoodClients
<1>2. CASE out'[s] = out[s]
  BY <1>1, <1>2
<1>3. CASE s = t /\ out'[s] = out[s] \o cmds
  <2>1. /\ Len(out'[s]) = Len(out[s]) + Len(cmds)
        /\ \A i \in 1 .. Len(out[s]) + Len(cmds) :
             out'[s][i] = IF i <= Len(out[s]) THEN out[s][i] ELSE cmds[i - Len(out[s])]
    BY <1>1, <1>3, ConcatProperties
  <2> QED
    BY <1>1, <1>3, <2>1
<1> QED
  BY <1>1, <1>2, <1>3 DEF Enqueue

\* What Fanout sends: setGameState, unless the state was patched, then the push
\* and the announcement of an event, or the announcement of a patch.
LEMMA FanoutIs ==
    ASSUME Good, NEW w \in Writers, h[w].pc = "fanout"
    PROVE  /\ h[w].srv \in Servers
           /\ FanoutOf(w) \in Seq(GoodCommand(Committed))
           /\ h[w].req.kind = "submit" =>
                FanoutOf(w) = <<SetState(h[w].seen, w), PushRecent(h[w].msg, w),
                                Publish(h[w].msg, w)>>
           /\ h[w].req.kind = "patch" => FanoutOf(w) = <<Publish(h[w].msg, w)>>
           /\ h[w].req.kind \in {"create", "transition"} =>
                FanoutOf(w) = <<SetState(h[w].seen, w)>>
           /\ h[w].req.kind \in {"create", "submit", "transition", "patch"}
<1>1. /\ h[w].req \in Request /\ h[w].srv \in Servers
      /\ h[w].seen \in GoodGame(Committed)
      /\ h[w].req.kind # "create" => h[w].msg \in Committed
      /\ w \in Process
  BY DEF Good, GoodProcesses, GoodHandler, Process
<1>2. h[w].req.kind \in {"create", "submit", "transition", "patch"}
  BY <1>1 DEF Request, CreateRequest, SubmitRequest, TransitionRequest, PatchRequest
<1>3. SetState(h[w].seen, w) \in GoodCommand(Committed)
  BY <1>1 DEF SetState, GoodCommand
<1>4. h[w].req.kind # "create" =>
        /\ PushRecent(h[w].msg, w) \in GoodCommand(Committed)
        /\ Publish(h[w].msg, w) \in GoodCommand(Committed)
  BY <1>1 DEF PushRecent, Publish, GoodCommand
<1>5. CASE h[w].req.kind = "submit"
  <2>1. FanoutOf(w) = <<SetState(h[w].seen, w), PushRecent(h[w].msg, w), Publish(h[w].msg, w)>>
    BY <1>5 DEF FanoutOf
  <2> QED
    BY <1>1, <1>2, <1>3, <1>4, <1>5, <2>1
<1>6. CASE h[w].req.kind = "patch"
  <2>1. FanoutOf(w) = <<Publish(h[w].msg, w)>>
    BY <1>6 DEF FanoutOf
  <2> QED
    BY <1>1, <1>2, <1>4, <1>6, <2>1
<1>7. CASE h[w].req.kind \in {"create", "transition"}
  <2>1. FanoutOf(w) = <<SetState(h[w].seen, w)>>
    BY <1>7 DEF FanoutOf
  <2> QED
    BY <1>1, <1>2, <1>3, <1>7, <2>1
<1> QED
  BY <1>2, <1>5, <1>6, <1>7

AwaitSends(w) ==
    IF h[w].req.kind = "transition" THEN <<Publish(h[w].msg, w)>> ELSE << >>

\* Who sends the commands cmds on server t.
Sends(t, cmds) ==
    /\ Enqueue(t, cmds)
    /\ \/ \E w \in Writers : Fanout(w) /\ t = h[w].srv /\ cmds = FanoutOf(w)
       \/ \E w \in Writers : Await(w) /\ t = h[w].srv /\ cmds = AwaitSends(w)
       \/ \E p \in Readers : Warm(p) /\ t = r[p].srv /\ cmds = <<SetState(r[p].seen, p)>>
       \/ EvictGame(t) /\ cmds = <<Evict>>

\* How the queue of a server moves in one step.
LEMMA QueueMoves ==
    ASSUME Good, [Next]_vars, NEW s \in Servers
    PROVE  \/ out'[s] = out[s] /\ done'[s] \in {0, done[s]}
           \/ out'[s] = << >> /\ (GiveUp(s) \/ Crash(s))
           \/ Execute(s)
           \/ Reply(s)
           \/ UNCHANGED done /\ \E t \in Servers, cmds \in Seq(GoodCommand(Committed)) : Sends(t, cmds)
<1> DEFINE Sent == \E t \in Servers, cmds \in Seq(GoodCommand(Committed)) : Sends(t, cmds)
<1>o. out = [t \in Servers |-> out[t]] /\ done = [t \in Servers |-> done[t]]
  BY DEF Good, GoodClients
<1>1. ASSUME NEW w \in Writers, Fanout(w) PROVE UNCHANGED done /\ Sent
  <2>1. Enqueue(h[w].srv, FanoutOf(w)) /\ UNCHANGED done /\ h[w].pc = "fanout"
    BY <1>1 DEF Fanout
  <2>2. h[w].srv \in Servers /\ FanoutOf(w) \in Seq(GoodCommand(Committed))
    BY <2>1, FanoutIs
  <2> QED
    BY <1>1, <2>1, <2>2 DEF Sends
<1>2. ASSUME NEW w \in Writers, Await(w) PROVE UNCHANGED done /\ Sent
  <2>1. /\ h[w].srv \in Servers /\ w \in Process
        /\ h[w].req.kind = "transition" => h[w].msg \in Committed
    BY <1>2 DEF Await, Good, GoodProcesses, GoodHandler, Process
  <2>2. Enqueue(h[w].srv, AwaitSends(w)) /\ UNCHANGED done
    BY <1>2 DEF Await, AwaitSends
  <2>3. AwaitSends(w) \in Seq(GoodCommand(Committed))
    <3>1. CASE h[w].req.kind = "transition"
      <4>1. Publish(h[w].msg, w) \in GoodCommand(Committed)
        BY <2>1, <3>1 DEF Publish, GoodCommand
      <4> QED
        BY <3>1, <4>1 DEF AwaitSends
    <3>2. CASE h[w].req.kind # "transition"
      BY <3>2, EmptySeq DEF AwaitSends
    <3> QED
      BY <3>1, <3>2
  <2> QED
    BY <1>2, <2>1, <2>2, <2>3 DEF Sends
<1>3. ASSUME NEW p \in Readers, Warm(p) PROVE UNCHANGED done /\ Sent
  <2> DEFINE cmds == <<SetState(r[p].seen, p)>>
  <2>1. r[p].srv \in Servers /\ r[p].seen \in GoodGame(Committed) /\ p \in Process
    BY <1>3 DEF Warm, Good, GoodProcesses, GoodReader, Process
  <2>2. Enqueue(r[p].srv, cmds) /\ UNCHANGED done
    BY <1>3 DEF Warm
  <2>3. SetState(r[p].seen, p) \in GoodCommand(Committed)
    BY <2>1 DEF SetState, GoodCommand
  <2>4. cmds \in Seq(GoodCommand(Committed))
    BY <2>3
  <2> QED
    BY <1>3, <2>1, <2>2, <2>4 DEF Sends
<1>4. ASSUME NEW t \in Servers, EvictGame(t) PROVE UNCHANGED done /\ Sent
  <2>1. Enqueue(t, <<Evict>>) /\ UNCHANGED done
    BY <1>4 DEF EvictGame
  <2>2. Evict \in GoodCommand(Committed)
    BY DEF Evict, GoodCommand
  <2>3. <<Evict>> \in Seq(GoodCommand(Committed))
    BY <2>2
  <2> QED
    BY <1>4, <2>1, <2>3 DEF Sends
<1>5. ASSUME NEW t \in Servers, t # s, Execute(t) \/ Reply(t)
      PROVE  out'[s] = out[s] /\ done'[s] = done[s]
  BY <1>o, <1>5 DEF Execute, Reply
<1>6. ASSUME NEW t \in Servers, Reconnect(t)
      PROVE  out'[s] = out[s] /\ done'[s] \in {0, done[s]}
  BY <1>o, <1>6 DEF Reconnect
<1>7. ASSUME NEW t \in Servers, GiveUp(t) \/ Crash(t)
      PROVE  \/ out'[s] = << >> /\ (GiveUp(s) \/ Crash(s))
             \/ out'[s] = out[s] /\ done'[s] = done[s]
  BY <1>o, <1>7 DEF GiveUp, Crash
<1>8. CASE UNCHANGED <<out, done>>
  BY <1>8
<1> HIDE DEF Sent
<1>9. \/ UNCHANGED <<out, done>>
      \/ \E w \in Writers : Fanout(w) \/ Await(w)
      \/ \E p \in Readers : Warm(p)
      \/ \E t \in Servers : Execute(t) \/ Reply(t) \/ Reconnect(t) \/ GiveUp(t) \/ Crash(t)
                              \/ EvictGame(t)
  BY DEF Next, vars, Handle, Serve, Read, Commit, LoseReply, Abort, Begin, ReadRow,
     Served, ReadCache, Deliver, FindStale, Expire, Age, clients
<1>10. \/ out'[s] = out[s] /\ done'[s] \in {0, done[s]}
       \/ out'[s] = << >> /\ (GiveUp(s) \/ Crash(s))
       \/ Execute(s)
       \/ Reply(s)
       \/ UNCHANGED done /\ Sent
  BY <1>1, <1>2, <1>3, <1>4, <1>5, <1>6, <1>7, <1>8, <1>9
<1> QED
  BY <1>10 DEF Sent

\* The reply to the first command moves the others up.
LEMMA ReplyMoves ==
    ASSUME Good, NEW s \in Servers, Reply(s)
    PROVE  /\ done[s] > 0 /\ done'[s] = done[s] - 1
           /\ Len(out'[s]) = Len(out[s]) - 1
           /\ \A i \in 1 .. Len(out'[s]) : i + 1 \in 1 .. Len(out[s]) /\ out'[s][i] = out[s][i + 1]
<1>1. /\ out = [t \in Servers |-> out[t]] /\ done = [t \in Servers |-> done[t]]
      /\ out[s] \in Seq(GoodCommand(Committed)) /\ Len(out[s]) \in Nat /\ done[s] \in Nat
      /\ done[s] <= Len(out[s])
  BY Sizes
<1>2. out[s] # << >>
  BY <1>1, EmptySeq DEF Reply
<1>3. out'[s] = Tail(out[s]) /\ done'[s] = done[s] - 1 /\ done[s] > 0
  BY <1>1 DEF Reply
<1>4. /\ Len(out'[s]) = Len(out[s]) - 1
      /\ \A i \in 1 .. Len(out'[s]) : out'[s][i] = out[s][i + 1]
  BY <1>1, <1>2, <1>3, HeadTailProperties
<1> QED
  BY <1>1, <1>3, <1>4

\* LPUSH puts the message in front.
LEMMA PushedHead ==
    ASSUME NEW C, NEW msg \in C, NEW list \in Seq(C)
    PROVE  1 \in DOMAIN Pushed(msg, list) /\ Pushed(msg, list)[1] = msg
<1>1. /\ <<msg>> \in Seq(C) /\ Len(<<msg>>) = 1 /\ <<msg>>[1] = msg
      /\ Len(list) \in Nat
  BY LenProperties
<1>2. /\ <<msg>> \o list \in Seq(C)
      /\ Len(<<msg>> \o list) = 1 + Len(list)
      /\ (<<msg>> \o list)[1] = msg
      /\ \A j \in 1 .. 1 + Len(list) : (<<msg>> \o list)[j] \in C
  <2>1. <<msg>> \o list \in Seq(C) /\ Len(<<msg>> \o list) = 1 + Len(list)
    BY <1>1, ConcatProperties
  <2> QED
    BY <1>1, <2>1, ConcatProperties, ElementOfSeq
<1> DEFINE k == IF Len(list) < MaxRecent THEN Len(list) + 1 ELSE MaxRecent
<1>3. k \in Nat /\ 1 <= k /\ k <= 1 + Len(list)
  BY <1>1, MaxRecentAssumption
<1> HIDE DEF k
<1>4. /\ SubSeq(<<msg>> \o list, 1, k) \in Seq(C)
      /\ Len(SubSeq(<<msg>> \o list, 1, k)) = k
      /\ SubSeq(<<msg>> \o list, 1, k)[1] = msg
  BY <1>1, <1>2, <1>3, SubSeqProperties
<1>5. DOMAIN SubSeq(<<msg>> \o list, 1, k) = 1 .. k
  BY <1>4, LenProperties
<1> QED
  BY <1>3, <1>4, <1>5 DEF Pushed, k

\* How the channel moves: Redis delivers the message of a queued command.
LEMMA PublishedMoves ==
    ASSUME Good, [Next]_vars
    PROVE  \/ UNCHANGED published
           \/ \E s \in Servers, c \in GoodCommand(Committed) :
                /\ Execute(s) /\ done[s] + 1 \in 1 .. Len(out[s]) /\ c = out[s][done[s] + 1]
                /\ c.op = "publish" /\ c.msg \in Committed
                /\ published' = Append(published, c.msg)
<1>1. ASSUME NEW s \in Servers, Execute(s), ~UNCHANGED published
      PROVE  \E c \in GoodCommand(Committed) :
               /\ done[s] + 1 \in 1 .. Len(out[s]) /\ c = out[s][done[s] + 1]
               /\ c.op = "publish" /\ c.msg \in Committed
               /\ published' = Append(published, c.msg)
  <2>1. /\ done[s] + 1 \in 1 .. Len(out[s])
        /\ out[s][done[s] + 1] \in GoodCommand(Committed)
    BY <1>1, Sizes, ElementOfSeq DEF Execute
  <2>2. /\ out[s][done[s] + 1].op = "publish"
        /\ published' = Append(published, out[s][done[s] + 1].msg)
    BY <1>1 DEF Execute
  <2> QED
    BY <2>1, <2>2, Sizes DEF Carries
<1> QED
  BY <1>1 DEF Next, vars, Handle, Serve, Read, Commit, LoseReply, Abort,
     Fanout, Await, Begin, ReadRow, Warm, Served, ReadCache, Deliver, Reply, Reconnect,
     GiveUp, Crash, FindStale, EvictGame, Expire, Age, redis

\* How the list moves: it goes away, or a queued message is pushed.
LEMMA RecentMoves ==
    ASSUME Good, [Next]_vars
    PROVE  \/ UNCHANGED recent
           \/ recent' = << >>
           \/ \E s \in Servers, c \in GoodCommand(Committed) :
                /\ Execute(s) /\ done[s] + 1 \in 1 .. Len(out[s]) /\ c = out[s][done[s] + 1]
                /\ c.op = "push" /\ c.msg \in Committed
                /\ recent' # << >> /\ recent'[1] = c.msg /\ 1 \in DOMAIN recent'
<1>1. ASSUME NEW s \in Servers, Execute(s), ~UNCHANGED recent, recent' # << >>
      PROVE  \E c \in GoodCommand(Committed) :
               /\ done[s] + 1 \in 1 .. Len(out[s]) /\ c = out[s][done[s] + 1]
               /\ c.op = "push" /\ c.msg \in Committed
               /\ recent'[1] = c.msg /\ 1 \in DOMAIN recent'
  <2>1. /\ done[s] + 1 \in 1 .. Len(out[s])
        /\ out[s][done[s] + 1] \in GoodCommand(Committed)
    BY <1>1, Sizes, ElementOfSeq DEF Execute
  <2>2. /\ out[s][done[s] + 1].op = "push"
        /\ recent' = Pushed(out[s][done[s] + 1].msg, recent)
    BY <1>1 DEF Execute
  <2>3. out[s][done[s] + 1].msg \in Committed
    BY <2>1, <2>2, Sizes DEF Carries
  <2>4. recent \in Seq(Committed)
    BY DEF Good, GoodRedis
  <2>5. 1 \in DOMAIN recent' /\ recent'[1] = out[s][done[s] + 1].msg
    BY <2>2, <2>3, <2>4, PushedHead
  <2> QED
    BY <2>1, <2>2, <2>3, <2>5
<1> QED
  BY <1>1 DEF Next, vars, Handle, Serve, Read, Commit, LoseReply, Abort,
     Fanout, Await, Begin, ReadRow, Warm, Served, ReadCache, Deliver, Reply, Reconnect,
     GiveUp, Crash, FindStale, EvictGame, Expire, Age, redis

\* Handler w sends command c with the message of its write, and is done.
SendsMessage(w, c) ==
    /\ Fanout(w) \/ Await(w)
    /\ h[w].pc \in {"fanout", "await"} /\ h[w].req.kind # "create"
    /\ h'[w] = IdleWrite
    /\ c.msg = h[w].msg /\ c.who = w
    /\ c.op = "push" => h[w].pc = "fanout" /\ h[w].req.kind = "submit"

\* Handler w sends command c with the game of its write.
SendsGame(w, c) ==
    /\ Fanout(w) /\ h[w].pc = "fanout" /\ h[w].req.kind # "patch"
    /\ c.game = h[w].seen /\ c.who = w

\* A command that is sent: an eviction, a game from getGame or from a handler,
\* or the message of a handler.
LEMMA SentIs ==
    ASSUME Good, NEW t \in Servers, NEW cmds \in Seq(GoodCommand(Committed)),
           Sends(t, cmds), NEW i \in 1 .. Len(cmds)
    PROVE  \/ cmds[i].op = "evict"
           \/ cmds[i].op = "set" /\ (Readers # {} \/ \E w \in Writers : SendsGame(w, cmds[i]))
           \/ Carries(cmds[i]) /\ \E w \in Writers : SendsMessage(w, cmds[i])
<1>h. h = [w \in Writers |-> h[w]]
  BY DEF Good, GoodProcesses
<1>1. ASSUME NEW w \in Writers, Fanout(w), cmds = FanoutOf(w)
      PROVE  \/ cmds[i].op = "set" /\ SendsGame(w, cmds[i])
             \/ Carries(cmds[i]) /\ SendsMessage(w, cmds[i])
  <2>1. /\ h[w].pc = "fanout"
        /\ ~WaitsForCache(h[w].req) => h'[w] = IdleWrite
    BY <1>h, <1>1 DEF Fanout
  <2>2. h[w].req.kind # "patch" /\ cmds[i] = SetState(h[w].seen, w) =>
          cmds[i].op = "set" /\ SendsGame(w, cmds[i])
    BY <1>1, <2>1 DEF SetState, SendsGame
  <2>3. /\ h[w].req.kind \in {"submit", "patch"}
        /\ cmds[i] = Publish(h[w].msg, w) \/ (h[w].req.kind = "submit" /\ cmds[i] = PushRecent(h[w].msg, w))
        => Carries(cmds[i]) /\ SendsMessage(w, cmds[i])
    BY <1>1, <2>1 DEF Publish, PushRecent, Carries, SendsMessage, WaitsForCache
  <2>4. CASE h[w].req.kind = "submit"
    <3>1. cmds = <<SetState(h[w].seen, w), PushRecent(h[w].msg, w), Publish(h[w].msg, w)>>
      BY <1>1, <2>1, <2>4, FanoutIs
    <3> QED
      BY <2>2, <2>3, <2>4, <3>1
  <2>5. CASE h[w].req.kind = "patch"
    <3>1. cmds = <<Publish(h[w].msg, w)>>
      BY <1>1, <2>1, <2>5, FanoutIs
    <3> QED
      BY <2>3, <2>5, <3>1
  <2>6. CASE h[w].req.kind \in {"create", "transition"}
    <3>1. cmds = <<SetState(h[w].seen, w)>>
      BY <1>1, <2>1, <2>6, FanoutIs
    <3> QED
      BY <2>2, <2>6, <3>1
  <2> QED
    BY <2>1, <2>4, <2>5, <2>6, FanoutIs
<1>2. ASSUME NEW w \in Writers, Await(w), cmds = AwaitSends(w)
      PROVE  Carries(cmds[i]) /\ SendsMessage(w, cmds[i])
  <2>1. h[w].req.kind = "transition" /\ cmds = <<Publish(h[w].msg, w)>>
    BY <1>2 DEF AwaitSends
  <2>2. h[w].pc = "await" /\ h'[w] = IdleWrite
    BY <1>h, <1>2 DEF Await
  <2> QED
    BY <1>2, <2>1, <2>2 DEF Publish, Carries, SendsMessage
<1>3. ASSUME NEW p \in Readers, cmds = <<SetState(r[p].seen, p)>>
      PROVE  cmds[i].op = "set" /\ Readers # {}
  BY <1>3 DEF SetState
<1>4. ASSUME cmds = <<Evict>> PROVE cmds[i].op = "evict"
  BY <1>4 DEF Evict
<1> QED
  BY <1>1, <1>2, <1>3, <1>4 DEF Sends

\* A command in the queue was there before, or was just sent.
LEMMA NewCommands ==
    ASSUME Good, [Next]_vars, NEW s \in Servers, NEW i \in 1 .. Len(out'[s])
    PROVE  \/ \E k \in 1 .. Len(out[s]) : out'[s][i] = out[s][k]
           \/ out'[s][i].op = "evict"
           \/ out'[s][i].op = "set" /\ (Readers # {} \/ \E w \in Writers : SendsGame(w, out'[s][i]))
           \/ Carries(out'[s][i]) /\ \E w \in Writers : SendsMessage(w, out'[s][i])
<1>s. Len(out[s]) \in Nat /\ done[s] \in Nat /\ done[s] <= Len(out[s])
  BY Sizes
<1>1. CASE out'[s] = out[s]
  BY <1>1
<1>2. CASE out'[s] = << >>
  BY <1>2
<1>3. CASE Execute(s)
  BY <1>3 DEF Execute
<1>4. CASE Reply(s)
  BY <1>4, ReplyMoves
<1>5. ASSUME NEW t \in Servers, NEW cmds \in Seq(GoodCommand(Committed)), Sends(t, cmds),
             i > Len(out[s])
      PROVE  \/ out'[s][i].op = "evict"
             \/ out'[s][i].op = "set" /\ (Readers # {} \/ \E w \in Writers : SendsGame(w, out'[s][i]))
             \/ Carries(out'[s][i]) /\ \E w \in Writers : SendsMessage(w, out'[s][i])
  <2> DEFINE j == i - Len(out[s])
  <2>1. j \in 1 .. Len(cmds) /\ out'[s][i] = cmds[j]
    BY <1>5, Enqueued DEF Sends
  <2> HIDE DEF j
  <2> QED
    BY <1>5, <2>1, SentIs
<1>6. ASSUME NEW t \in Servers, NEW cmds \in Seq(GoodCommand(Committed)), Sends(t, cmds),
             i <= Len(out[s])
      PROVE  out'[s][i] = out[s][i] /\ i \in 1 .. Len(out[s])
  BY <1>s, <1>6, Enqueued DEF Sends
<1> QED
  BY <1>s, <1>1, <1>2, <1>3, <1>4, <1>5, <1>6, QueueMoves

\* How a handler moves in one step.
LEMMA HandlerMoves ==
    ASSUME Good, [Next]_vars, NEW w \in Writers, h'[w].pc # "idle"
    PROVE  \/ h'[w] = h[w]
           \/ h'[w].pc \in {"read", "write"} /\ \E s \in Servers : Begin(w, s)
           \/ h'[w].pc = "write" /\ h[w].pc = "read"
           \/ /\ Commit(w) /\ h'[w].pc = "fanout" /\ h'[w].msg = MessageOf(w)
              /\ h'[w].seen = GameToCache(w) /\ h'[w].req = h[w].req
           \/ /\ Fanout(w) /\ h'[w].pc = "await" /\ WaitsForCache(h[w].req)
              /\ h'[w].msg = h[w].msg /\ h'[w].req = h[w].req
<1>h. h = [v \in Writers |-> h[v]]
  BY DEF Good, GoodProcesses
<1>t. h[w] \in [pc: {"idle", "read", "write", "fanout", "await"},
                req: Request \cup {NoRequest}, srv: Servers \cup {NULL},
                seen: GoodGame(Committed) \cup {NULL}, msg: Committed \cup {NULL}]
  BY DEF Good, GoodProcesses, GoodHandler
<1>i. h'[w] # IdleWrite
  BY DEF IdleWrite
<1>1. ASSUME NEW v \in Writers, v # w,
             Handle(v) \/ LoseReply(v) \/ \E s \in Servers : Begin(v, s)
      PROVE  h'[w] = h[w]
  BY <1>h, <1>1 DEF Handle, Read, Commit, LoseReply, Abort, Fanout, Await, Begin
<1>2. CASE Read(w)
  BY <1>h, <1>i, <1>t, <1>2 DEF Read
<1>3. CASE Commit(w)
  BY <1>h, <1>t, <1>3 DEF Commit
<1>4. CASE LoseReply(w) \/ Abort(w) \/ Await(w)
  BY <1>h, <1>i, <1>4 DEF LoseReply, Abort, Await
<1>5. CASE Fanout(w)
  BY <1>h, <1>i, <1>t, <1>5 DEF Fanout
<1>6. ASSUME NEW s \in Servers, Begin(w, s) PROVE h'[w].pc \in {"read", "write"}
  <2>1. PICK req \in MayRequest[w] :
          h' = [h EXCEPT ![w] =
                 [IdleWrite EXCEPT !.pc = IF req.kind = "create" THEN "write" ELSE "read",
                                   !.req = req, !.srv = s]]
    BY <1>6 DEF Begin
  <2> QED
    BY <1>h, <2>1 DEF IdleWrite
<1>7. ASSUME NEW s \in Servers, Crash(s) PROVE h'[w] = h[w]
  BY <1>i, <1>7 DEF Crash
<1>8. CASE UNCHANGED h
  BY <1>8
<1> QED
  BY <1>1, <1>2, <1>3, <1>4, <1>5, <1>6, <1>7, <1>8 DEF Next, vars, Handle, Serve,
     ReadRow, Warm, Served, ReadCache, Deliver, Execute, Reply, Reconnect, GiveUp,
     FindStale, EvictGame, Expire, Age

\* A message that a handler holds it held before, or has just written.
LEMMA HeldMessage ==
    ASSUME Good, [Next]_vars, NEW w \in Writers, h'[w].pc \in {"fanout", "await"},
           h'[w].req.kind # "create"
    PROVE  \/ /\ h[w].pc \in {"fanout", "await"}
              /\ h'[w].pc = "fanout" => h[w].pc = "fanout"
              /\ h'[w].msg = h[w].msg /\ h'[w].req = h[w].req
           \/ \E m \in Message :
                /\ Commit(w) /\ h'[w].pc = "fanout" /\ h'[w].req = h[w].req /\ h'[w].msg = m
                /\ commits' = Append(commits, m) /\ Committed' = Committed \cup {m}
                /\ m.n = Len(commits) + 1
                /\ m.type \in Types /\ h[w].req.kind = KindOf[m.type]
<1>1. CASE h'[w] = h[w]
  BY <1>1
<1>2. CASE Fanout(w) /\ h'[w].pc = "await" /\ h'[w].msg = h[w].msg /\ h'[w].req = h[w].req
  BY <1>2 DEF Fanout
<1>3. CASE Commit(w) /\ h'[w].pc = "fanout" /\ h'[w].msg = MessageOf(w) /\ h'[w].req = h[w].req
  <2>1. h[w].pc = "write" /\ Write(w) /\ ~WriteGame(w)
    BY <1>3 DEF Commit, WriteGame
  <2>2. h'[w].msg = Last(commits')
    BY <1>3 DEF MessageOf
  <2> QED
    BY <1>3, <2>1, <2>2, WriteAppends
<1> QED
  BY <1>1, <1>2, <1>3, HandlerMoves

-----------------------------------------------------------------------------
(* A message is announced by the client that asked for the write.  Nothing   *)
(* is assumed of the clients here.                                           *)

HeldIsOwn ==
    \A w \in Writers :
      h[w].pc \in {"fanout", "await"} /\ h[w].req.kind # "create" =>
        h[w].req.kind = KindOf[h[w].msg.type]

QueuedIsAsked ==
    \A s \in Servers : \A i \in 1 .. Len(out[s]) :
      Carries(out[s][i]) =>
        /\ out[s][i].who \in Writers /\ Asks(out[s][i].who, KindOf[out[s][i].msg.type])
        /\ out[s][i].op = "push" => IsEvent(out[s][i].msg)

OwnInv == AskedInv /\ HeldIsOwn /\ QueuedIsAsked

\* What a handler sends, it may ask for.
LEMMA SentIsOwn ==
    ASSUME Good, OwnInv, NEW w \in Writers, NEW c, SendsMessage(w, c)
    PROVE  /\ c.who = w /\ c.msg \in Committed /\ c.msg = h[w].msg
           /\ Asks(w, KindOf[c.msg.type]) /\ h[w].req.kind = KindOf[c.msg.type]
           /\ c.op = "push" => IsEvent(c.msg)
<1>1. c.msg \in Committed /\ c.msg.type \in Types
  BY Sizes DEF SendsMessage, Good, GoodProcesses, GoodHandler
<1>2. h[w].req \in MayRequest[w] /\ h[w].req.kind = KindOf[c.msg.type]
  BY DEF OwnInv, AskedInv, HeldIsOwn, SendsMessage
<1> QED
  BY <1>1, <1>2 DEF SendsMessage, Asks, IsEvent, Types, KindOf

LEMMA OwnStart == Init => OwnInv
BY DEF Init, OwnInv, AskedInv, HeldIsOwn, QueuedIsAsked, IdleWrite

LEMMA OwnStep == Good /\ OwnInv /\ [Next]_vars => OwnInv'
<1> SUFFICES ASSUME Good, OwnInv, [Next]_vars PROVE OwnInv'
  OBVIOUS
<1>1. AskedInv'
  BY AskedStep DEF OwnInv
<1>2. HeldIsOwn'
  <2> SUFFICES ASSUME NEW w \in Writers, h'[w].pc \in {"fanout", "await"},
                      h'[w].req.kind # "create"
               PROVE  h'[w].req.kind = KindOf[h'[w].msg.type]
    BY DEF HeldIsOwn
  <2> QED
    BY HeldMessage DEF OwnInv, HeldIsOwn
<1>3. QueuedIsAsked'
  <2> SUFFICES ASSUME NEW s \in Servers, NEW i \in 1 .. Len(out'[s]), Carries(out'[s][i])
               PROVE  /\ out'[s][i].who \in Writers
                      /\ Asks(out'[s][i].who, KindOf[out'[s][i].msg.type])
                      /\ out'[s][i].op = "push" => IsEvent(out'[s][i].msg)
    BY DEF QueuedIsAsked, Carries, Asks, IsEvent
  <2>1. ASSUME NEW k \in 1 .. Len(out[s]), out'[s][i] = out[s][k]
        PROVE  /\ out'[s][i].who \in Writers
               /\ Asks(out'[s][i].who, KindOf[out'[s][i].msg.type])
               /\ out'[s][i].op = "push" => IsEvent(out'[s][i].msg)
    BY <2>1 DEF OwnInv, QueuedIsAsked
  <2>2. ASSUME NEW w \in Writers, SendsMessage(w, out'[s][i])
        PROVE  /\ out'[s][i].who \in Writers
               /\ Asks(out'[s][i].who, KindOf[out'[s][i].msg.type])
               /\ out'[s][i].op = "push" => IsEvent(out'[s][i].msg)
    BY <2>2, SentIsOwn
  <2> QED
    BY <2>1, <2>2, NewCommands DEF Carries
<1> QED
  BY <1>1, <1>2, <1>3 DEF OwnInv

-----------------------------------------------------------------------------
(* On one server the queue holds no message of a client whose handler is     *)
(* busy again.                                                               *)

NoneBehind ==
    \A w \in Writers :
      h[w].pc # "idle" =>
        \A s \in Servers : \A i \in 1 .. Len(out[s]) :
          Carries(out[s][i]) => out[s][i].who # w

LEMMA NoneBehindStart == Init => NoneBehind
BY DEF Init, NoneBehind, IdleWrite

LEMMA NoneBehindStep == OneServer /\ Good /\ NoneBehind /\ [Next]_vars => NoneBehind'
<1> SUFFICES ASSUME OneServer, Good, NoneBehind, [Next]_vars,
                    NEW w \in Writers, h'[w].pc # "idle",
                    NEW s \in Servers, NEW i \in 1 .. Len(out'[s]),
                    Carries(out'[s][i]), out'[s][i].who = w
             PROVE  FALSE
  BY DEF NoneBehind, Carries
<1>1. ASSUME NEW k \in 1 .. Len(out[s]), out'[s][i] = out[s][k] PROVE FALSE
  <2>1. h[w].pc = "idle"
    BY <1>1 DEF NoneBehind
  <2>2. PICK t \in Servers : Begin(w, t)
    BY <2>1, HandlerMoves DEF Commit, Fanout
  <2>3. ~Awaiting(w, s)
    BY <2>2 DEF Begin, OneServer
  <2>4. k \in DOMAIN out[s]
    BY Sizes, LenProperties
  <2> QED
    BY <1>1, <2>3, <2>4 DEF Awaiting
<1>2. ASSUME NEW v \in Writers, SendsMessage(v, out'[s][i]) PROVE FALSE
  BY <1>2 DEF SendsMessage, IdleWrite
<1> QED
  BY <1>1, <1>2, NewCommands DEF Carries

-----------------------------------------------------------------------------
(* One client asks for the writes of a type, on one server: what its handler *)
(* and the queue hold of that type is the newest message.                    *)

HeldLatest(type) ==
    \A w \in Writers :
      h[w].pc \in {"fanout", "await"} /\ h[w].req.kind = KindOf[type] =>
        LastOfType(h[w].msg, commits)

QueueLatest(type) ==
    \A s \in Servers : \A i \in 1 .. Len(out[s]) :
      Carries(out[s][i]) /\ out[s][i].msg.type = type => LastOfType(out[s][i].msg, commits)

LatestInv(type) == HeldLatest(type) /\ QueueLatest(type)

\* While the one client that asks for a type is not about to write, no message
\* of that type is committed.
LEMMA LatestKept ==
    ASSUME Good, OwnInv, [Next]_vars, NEW type \in Types, OneWriterOf(KindOf[type]),
           NEW w \in Writers, Asks(w, KindOf[type]), h[w].pc # "write",
           NEW m, m.type = type, LastOfType(m, commits)
    PROVE  LastOfType(m, commits')
<1>1. CASE UNCHANGED commits
  BY <1>1
<1>2. ASSUME NEW v \in Writers, NEW x \in Message, h[v].pc = "write",
             commits' = Append(commits, x), h[v].req.kind = KindOf[x.type]
      PROVE  LastOfType(m, commits')
  <2>1. Asks(v, KindOf[x.type])
    BY <1>2 DEF OwnInv, AskedInv, Asks
  <2>2. x.type # type
    BY <1>2, <2>1 DEF OneWriterOf
  <2> QED
    BY <1>2, <2>2, Sizes, LatestAppend
<1> QED
  BY <1>1, <1>2, CommitEffect

LEMMA LatestStart == ASSUME NEW type \in Types PROVE Init => LatestInv(type)
BY DEF Init, LatestInv, HeldLatest, QueueLatest, IdleWrite

LEMMA LatestStep ==
    ASSUME NEW type \in Types, OneWriterOf(KindOf[type]), Good, OwnInv, NoneBehind,
           LatestInv(type), [Next]_vars
    PROVE  LatestInv(type)'
<1>k. \A t \in Types : KindOf[t] = KindOf[type] => t = type
  BY DEF Types, KindOf
<1>1. ASSUME NEW w \in Writers, h'[w].pc \in {"fanout", "await"},
             h'[w].req.kind = KindOf[type]
      PROVE  LastOfType(h'[w].msg, commits')
  <2>0. h'[w].req.kind # "create"
    BY <1>1 DEF Types, KindOf
  <2>1. CASE /\ h[w].pc \in {"fanout", "await"}
             /\ h'[w].msg = h[w].msg /\ h'[w].req = h[w].req
    <3>1. Asks(w, KindOf[type]) /\ h[w].pc # "write"
      BY <1>1, <2>1 DEF OwnInv, AskedInv, Asks
    <3>2. LastOfType(h[w].msg, commits) /\ h[w].msg.type = type
      <4>1. h[w].msg \in Committed
        BY <2>0, <2>1 DEF Good, GoodProcesses, GoodHandler
      <4> QED
        BY <1>k, <1>1, <2>0, <2>1, <4>1, Sizes DEF LatestInv, HeldLatest, OwnInv, HeldIsOwn
    <3> QED
      BY <2>1, <3>1, <3>2, LatestKept
  <2>2. ASSUME NEW m \in Message, h'[w].msg = m, commits' = Append(commits, m)
        PROVE  LastOfType(h'[w].msg, commits')
    BY <2>2, Sizes, LatestAppend
  <2> QED
    BY <1>1, <2>0, <2>1, <2>2, HeldMessage
<1>2. ASSUME NEW s \in Servers, NEW i \in 1 .. Len(out'[s]), Carries(out'[s][i]),
             out'[s][i].msg.type = type
      PROVE  LastOfType(out'[s][i].msg, commits')
  <2>1. ASSUME NEW k \in 1 .. Len(out[s]), out'[s][i] = out[s][k]
        PROVE  LastOfType(out'[s][i].msg, commits')
    <3> DEFINE v == out[s][k].who
    <3>1. /\ v \in Writers /\ Asks(v, KindOf[type])
          /\ LastOfType(out[s][k].msg, commits)
      BY <1>2, <2>1 DEF OwnInv, QueuedIsAsked, LatestInv, QueueLatest
    <3>2. h[v].pc = "idle"
      BY <1>2, <2>1, <3>1 DEF NoneBehind
    <3> HIDE DEF v
    <3> QED
      BY <1>2, <2>1, <3>1, <3>2, LatestKept
  <2>2. ASSUME NEW w \in Writers, SendsMessage(w, out'[s][i])
        PROVE  LastOfType(out'[s][i].msg, commits')
    <3>1. /\ Asks(w, KindOf[type]) /\ h[w].req.kind = KindOf[type]
          /\ out'[s][i].msg = h[w].msg
      BY <1>2, <2>2, SentIsOwn
    <3>2. h[w].pc \in {"fanout", "await"}
      BY <2>2 DEF SendsMessage
    <3>3. LastOfType(h[w].msg, commits)
      BY <3>1, <3>2 DEF LatestInv, HeldLatest
    <3> QED
      BY <1>2, <3>1, <3>2, <3>3, LatestKept
  <2> QED
    BY <1>2, <2>1, <2>2, NewCommands DEF Carries
<1> QED
  BY <1>1, <1>2 DEF LatestInv, HeldLatest, QueueLatest, Carries

-----------------------------------------------------------------------------
(* One client submits events, on one server: the order of the channel, and   *)
(* an event that fans heard of is in the list, or a newer one is.            *)

\* A command that announces an event.
Tells(c) == c.op = "publish" /\ IsEvent(c.msg)

\* No event of C is newer than m.
Newest(m, C) == \A c \in C : IsEvent(c) => c.n <= m.n

\* The list is empty or has an event as new as m.
Listed(m, list) == list # << >> => \E k \in DOMAIN list : list[k].n >= m.n

\* An announcement is of an event that is listed, or whose push comes first.
Followed ==
    \A s \in Servers : \A i \in 1 .. Len(out[s]) :
      Tells(out[s][i]) =>
        \/ Listed(out[s][i].msg, recent)
        \/ \E j \in done[s] + 1 .. i - 1 : out[s][j].op = "push"

\* A fan hears the events in their order, some of them again.
EventsInOrder ==
    \A i, j \in 1 .. Len(published) :
      i <= j /\ IsEvent(published[i]) /\ IsEvent(published[j]) =>
        published[i].n <= published[j].n

\* What the queue carries of events is the newest event.
EventQueue ==
    \A s \in Servers : \A i \in 1 .. Len(out[s]) :
      /\ out[s][i].op = "push" => IsEvent(out[s][i].msg)
      /\ Carries(out[s][i]) /\ IsEvent(out[s][i].msg) => Newest(out[s][i].msg, Committed)

LEMMA LatestIsNewest ==
    ASSUME Good, Numbered, OwnInv, LatestInv("event_update")
    PROVE  EventQueue
<1> SUFFICES ASSUME NEW s \in Servers, NEW i \in 1 .. Len(out[s])
             PROVE  /\ out[s][i].op = "push" => IsEvent(out[s][i].msg)
                    /\ Carries(out[s][i]) /\ IsEvent(out[s][i].msg) =>
                         Newest(out[s][i].msg, Committed)
  BY DEF EventQueue
<1> DEFINE m == out[s][i].msg
<1>1. out[s][i].op = "push" => IsEvent(m)
  BY DEF OwnInv, QueuedIsAsked, Carries
<1>2. ASSUME Carries(out[s][i]), IsEvent(m) PROVE Newest(m, Committed)
  <2>1. LastOfType(m, commits)
    BY <1>2 DEF LatestInv, QueueLatest, IsEvent
  <2> HIDE DEF m
  <2>2. DOMAIN commits = 1 .. Len(commits) /\ Len(commits) \in Nat
    BY Sizes, LenProperties
  <2>3. PICK k \in 1 .. Len(commits) :
          commits[k] = m /\ \A j \in 1 .. Len(commits) : commits[j].type = m.type => j <= k
    BY <2>1, <2>2 DEF LastOfType
  <2>4. ASSUME NEW c \in Committed, IsEvent(c) PROVE c.n <= m.n
    <3>1. PICK j \in 1 .. Len(commits) : commits[j] = c
      BY <2>2 DEF Committed, ToSet
    <3>2. j <= k
      BY <1>2, <2>3, <2>4, <3>1 DEF IsEvent
    <3>3. commits[j].n = j /\ commits[k].n = k
      BY DEF Numbered
    <3> QED
      BY <2>3, <3>1, <3>2, <3>3
  <2> QED
    BY <2>4 DEF Newest
<1> QED
  BY <1>1, <1>2

\* A push lists the newest event; what is listed stays listed, or a newer event
\* is, or the list is gone.
LEMMA ListedStays ==
    ASSUME Good, EventQueue, [Next]_vars, NEW m \in Committed, IsEvent(m),
           \/ Listed(m, recent)
           \/ \E s \in Servers : Execute(s) /\ out[s][done[s] + 1].op = "push"
    PROVE  Listed(m, recent')
<1>1. ASSUME NEW s \in Servers, Execute(s), out[s][done[s] + 1].op = "push"
      PROVE  Listed(m, recent')
  <2>1. /\ done[s] + 1 \in 1 .. Len(out[s])
        /\ recent' = Pushed(out[s][done[s] + 1].msg, recent)
        /\ recent \in Seq(Committed)
    BY <1>1, Sizes DEF Execute, Good, GoodRedis
  <2>2. PICK c : c = out[s][done[s] + 1].msg
    OBVIOUS
  <2>3. c \in Committed /\ Newest(c, Committed)
    BY <1>1, <2>1, <2>2, Sizes DEF EventQueue, Carries
  <2>4. 1 \in DOMAIN recent' /\ recent'[1] = c
    BY <2>1, <2>2, <2>3, PushedHead
  <2>5. m.n <= c.n /\ m.n \in Nat /\ c.n \in Nat
    BY <2>3, Sizes DEF Newest
  <2> QED
    BY <2>4, <2>5 DEF Listed
<1>2. CASE UNCHANGED recent
  BY <1>1, <1>2
<1>3. CASE recent' = << >>
  BY <1>3 DEF Listed
<1> QED
  BY <1>1, <1>2, <1>3, RecentMoves

\* An event is announced right behind its push.
LEMMA PushedBeforeTold ==
    ASSUME Good, OwnInv, NEW t \in Servers, NEW cmds \in Seq(GoodCommand(Committed)),
           Sends(t, cmds), NEW n \in 1 .. Len(cmds), Tells(cmds[n])
    PROVE  n = 3 /\ Len(cmds) = 3 /\ cmds[2].op = "push"
<1>1. ASSUME NEW w \in Writers, h[w].pc \in {"fanout", "await"},
             h[w].req.kind \in {"transition", "patch"}
      PROVE  h[w].req.kind = KindOf[h[w].msg.type] /\ ~IsEvent(h[w].msg)
  BY <1>1 DEF OwnInv, HeldIsOwn, IsEvent, KindOf
<1>2. ASSUME NEW w \in Writers, Fanout(w), cmds = FanoutOf(w)
      PROVE  n = 3 /\ Len(cmds) = 3 /\ cmds[2].op = "push"
  <2>1. h[w].pc = "fanout"
    BY <1>2 DEF Fanout
  <2>2. CASE h[w].req.kind = "submit"
    <3>1. cmds = <<SetState(h[w].seen, w), PushRecent(h[w].msg, w), Publish(h[w].msg, w)>>
      BY <1>2, <2>1, <2>2, FanoutIs
    <3>2. ~Tells(SetState(h[w].seen, w)) /\ ~Tells(PushRecent(h[w].msg, w))
      BY DEF Tells, SetState, PushRecent
    <3> QED
      BY <3>1, <3>2 DEF PushRecent
  <2>3. CASE h[w].req.kind = "patch"
    <3>1. cmds = <<Publish(h[w].msg, w)>>
      BY <1>2, <2>1, <2>3, FanoutIs
    <3> QED
      BY <1>1, <2>1, <2>3, <3>1 DEF Tells, Publish
  <2>4. CASE h[w].req.kind \in {"create", "transition"}
    <3>1. cmds = <<SetState(h[w].seen, w)>>
      BY <1>2, <2>1, <2>4, FanoutIs
    <3> QED
      BY <3>1 DEF Tells, SetState
  <2> QED
    BY <2>1, <2>2, <2>3, <2>4, FanoutIs
<1>3. ASSUME NEW w \in Writers, Await(w), cmds = AwaitSends(w) PROVE FALSE
  <2>1. h[w].req.kind = "transition" /\ cmds = <<Publish(h[w].msg, w)>> /\ h[w].pc = "await"
    BY <1>3 DEF AwaitSends, Await
  <2> QED
    BY <1>1, <2>1 DEF Tells, Publish
<1>4. ASSUME NEW p \in Readers, cmds = <<SetState(r[p].seen, p)>> PROVE FALSE
  BY <1>4 DEF Tells, SetState
<1>5. ASSUME cmds = <<Evict>> PROVE FALSE
  BY <1>5 DEF Tells, Evict
<1> QED
  BY <1>2, <1>3, <1>4, <1>5 DEF Sends

\* A push stays in front of its announcement until it is executed.
LEMMA FollowedStep ==
    ASSUME Good, OwnInv, EventQueue, Followed, [Next]_vars
    PROVE  Followed'
<1> SUFFICES ASSUME NEW s \in Servers, NEW i \in 1 .. Len(out'[s]), Tells(out'[s][i])
             PROVE  \/ Listed(out'[s][i].msg, recent')
                    \/ \E j \in done'[s] + 1 .. i - 1 : out'[s][j].op = "push"
  BY DEF Followed
<1>s. /\ out = [t \in Servers |-> out[t]] /\ done = [t \in Servers |-> done[t]]
      /\ out[s] \in Seq(GoodCommand(Committed))
      /\ Len(out[s]) \in Nat /\ done[s] \in Nat /\ done[s] <= Len(out[s])
  BY Sizes DEF Good, GoodClients
<1>1. ASSUME NEW k \in 1 .. Len(out[s]), out'[s][i] = out[s][k]
      PROVE  \/ Listed(out'[s][i].msg, recent')
             \/ \E j \in done[s] + 1 .. k - 1 : out[s][j].op = "push"
  <2>1. Tells(out[s][k]) /\ out[s][k].msg \in Committed /\ IsEvent(out[s][k].msg)
    BY <1>1, Sizes DEF Carries, Tells
  <2>2. CASE Listed(out[s][k].msg, recent)
    <3>1. \A m \in Committed : IsEvent(m) /\ Listed(m, recent) => Listed(m, recent')
      BY ListedStays
    <3> QED
      BY <1>1, <2>1, <2>2, <3>1
  <2>3. CASE \E j \in done[s] + 1 .. k - 1 : out[s][j].op = "push"
    BY <2>3
  <2> QED
    BY <2>1, <2>2, <2>3 DEF Followed
<1>2. CASE out'[s] = out[s] /\ done'[s] \in {0, done[s]}
  BY <1>1, <1>2, <1>s
<1>3. CASE out'[s] = << >>
  BY <1>3
<1>4. CASE Execute(s)
  <2>1. out'[s] = out[s] /\ done'[s] = done[s] + 1
    BY <1>4, <1>s DEF Execute
  <2>2. CASE \E j \in done[s] + 1 .. i - 1 : out[s][j].op = "push"
    <3>1. PICK j \in done[s] + 1 .. i - 1 : out[s][j].op = "push"
      BY <2>2
    <3>2. CASE j = done[s] + 1
      <4>1. out[s][i].msg \in Committed /\ IsEvent(out[s][i].msg)
        BY <2>1, Sizes DEF Carries, Tells
      <4>2. \A m \in Committed : IsEvent(m) => Listed(m, recent')
        BY <1>4, <3>1, <3>2, ListedStays
      <4> QED
        BY <2>1, <4>1, <4>2
    <3>3. CASE j # done[s] + 1
      BY <1>s, <2>1, <3>1, <3>3
    <3> QED
      BY <3>2, <3>3
  <2> QED
    BY <1>1, <2>1, <2>2
<1>5. CASE Reply(s)
  <2>3. /\ done[s] > 0 /\ done'[s] = done[s] - 1
        /\ Len(out'[s]) = Len(out[s]) - 1
        /\ \A k \in 1 .. Len(out'[s]) : out'[s][k] = out[s][k + 1]
    BY <1>5, ReplyMoves
  <2>4. i + 1 \in 1 .. Len(out[s]) /\ out'[s][i] = out[s][i + 1]
    BY <1>s, <2>3
  <2>5. CASE \E j \in done[s] + 1 .. i : out[s][j].op = "push"
    <3>1. PICK j \in done[s] + 1 .. i : out[s][j].op = "push"
      BY <2>5
    <3>2. j - 1 \in done'[s] + 1 .. i - 1 /\ j - 1 \in 1 .. Len(out'[s])
      BY <1>s, <2>3, <3>1
    <3>3. out'[s][j - 1] = out[s][j]
      BY <1>s, <2>3, <3>1, <3>2
    <3> QED
      BY <3>1, <3>2, <3>3
  <2> QED
    BY <1>1, <2>4, <2>5
<1>6. ASSUME NEW t \in Servers, NEW cmds \in Seq(GoodCommand(Committed)), Sends(t, cmds),
             UNCHANGED done
      PROVE  \/ Listed(out'[s][i].msg, recent')
             \/ \E j \in done'[s] + 1 .. i - 1 : out'[s][j].op = "push"
  <2>0. /\ Len(out'[s]) \in Nat /\ Len(out[s]) <= Len(out'[s])
        /\ \A j \in 1 .. Len(out[s]) : out'[s][j] = out[s][j]
        /\ \A j \in 1 .. Len(out'[s]) :
             j > Len(out[s]) =>
               /\ j - Len(out[s]) \in 1 .. Len(cmds)
               /\ out'[s][j] = cmds[j - Len(out[s])]
    BY <1>6, Enqueued DEF Sends
  <2>1. CASE i <= Len(out[s])
    <3>1. i \in 1 .. Len(out[s]) /\ out'[s][i] = out[s][i]
      BY <1>s, <2>0, <2>1
    <3>2. \A j \in done[s] + 1 .. i - 1 : out'[s][j] = out[s][j]
      BY <1>s, <2>0, <2>1
    <3> QED
      BY <1>1, <1>6, <3>1, <3>2
  <2>2. CASE i > Len(out[s])
    <3>0. PICK n : n = i - Len(out[s])
      OBVIOUS
    <3>1. n \in 1 .. Len(cmds) /\ out'[s][i] = cmds[n] /\ Tells(cmds[n])
      BY <2>0, <2>2, <3>0
    <3>5. n = 3 /\ Len(cmds) = 3 /\ cmds[2].op = "push"
      BY <1>6, <3>1, PushedBeforeTold
    <3>6. /\ i - 1 \in 1 .. Len(out'[s]) /\ i - 1 > Len(out[s])
          /\ (i - 1) - Len(out[s]) = 2 /\ i - 1 \in done[s] + 1 .. i - 1
      BY <1>s, <2>0, <3>0, <3>5
    <3>7. out'[s][i - 1] = cmds[2]
      BY <2>0, <3>6
    <3> QED
      BY <1>6, <3>5, <3>6, <3>7
  <2> QED
    BY <1>s, <2>1, <2>2
<1> QED
  BY <1>2, <1>3, <1>4, <1>5, <1>6, QueueMoves

\* What a message adds to a sequence.
LEMMA ToSetAppend ==
    ASSUME NEW C, NEW q \in Seq(C), NEW x \in C
    PROVE  ToSet(Append(q, x)) = ToSet(q) \cup {x}
<1> DEFINE p == Append(q, x)
<1>1. /\ Len(p) = Len(q) + 1
      /\ \A j \in 1 .. Len(q) : p[j] = q[j]
      /\ p[Len(q) + 1] = x
      /\ p \in Seq(C)
  BY AppendProperties
<1>2. /\ Len(q) \in Nat /\ DOMAIN q = 1 .. Len(q)
      /\ DOMAIN p = 1 .. Len(q) + 1
  BY <1>1, LenProperties
<1>3. \A j \in 1 .. Len(q) + 1 : j \in 1 .. Len(q) \/ j = Len(q) + 1
  BY <1>2
<1> HIDE DEF p
<1>4. ToSet(p) \subseteq ToSet(q) \cup {x}
  BY <1>1, <1>2, <1>3 DEF ToSet
<1>5. ToSet(q) \cup {x} \subseteq ToSet(p)
  BY <1>1, <1>2 DEF ToSet
<1> QED
  BY <1>4, <1>5 DEF p

\* An announced event is listed when it is announced, and stays listed.
LEMMA PublishedStep ==
    ASSUME Good, EventQueue, Followed, PublishedIsListed, [Next]_vars
    PROVE  PublishedIsListed'
<1>p. published \in Seq(Committed) /\ ToSet(published) \subseteq Committed
  BY LenProperties, ElementOfSeq DEF Good, GoodRedis, ToSet
<1>0. \A m \in Committed : IsEvent(m) /\ Listed(m, recent) => Listed(m, recent')
  BY ListedStays
<1>1. \A m \in ToSet(published) : IsEvent(m) => Listed(m, recent')
  BY <1>0, <1>p DEF PublishedIsListed, Listed, IsEvent
<1>2. SUFFICES \A m \in ToSet(published') : IsEvent(m) => Listed(m, recent')
  BY <1>2 DEF PublishedIsListed, Listed, IsEvent
<1>3. CASE UNCHANGED published
  BY <1>1, <1>3
<1>4. ASSUME NEW s \in Servers, NEW c \in GoodCommand(Committed),
             done[s] + 1 \in 1 .. Len(out[s]), c = out[s][done[s] + 1],
             c.op = "publish", c.msg \in Committed, published' = Append(published, c.msg)
      PROVE  \A m \in ToSet(published') : IsEvent(m) => Listed(m, recent')
  <2>1. ASSUME IsEvent(c.msg) PROVE Listed(c.msg, recent)
    <3>1. Tells(c) /\ ~\E j \in done[s] + 1 .. (done[s] + 1) - 1 : TRUE
      BY <1>4, <2>1, Sizes DEF Tells
    <3> QED
      BY <1>4, <3>1 DEF Followed
  <2>2. ToSet(published') = ToSet(published) \cup {c.msg}
    BY <1>p, <1>4, ToSetAppend
  <2> QED
    BY <1>0, <1>1, <1>4, <2>1, <2>2
<1> QED
  BY <1>3, <1>4, PublishedMoves

\* What is announced is the newest event, so the channel is in order.
LEMMA InOrderStep ==
    ASSUME Good, EventQueue, EventsInOrder, [Next]_vars
    PROVE  EventsInOrder'
<1>p. /\ published \in Seq(Committed) /\ Len(published) \in Nat
      /\ \A i \in 1 .. Len(published) : published[i] \in Committed
  BY LenProperties, ElementOfSeq DEF Good, GoodRedis
<1>1. CASE UNCHANGED published
  BY <1>1 DEF EventsInOrder, IsEvent
<1>2. ASSUME NEW m \in Committed, published' = Append(published, m),
             IsEvent(m) => Newest(m, Committed)
      PROVE  EventsInOrder'
  <2>1. /\ Len(published') = Len(published) + 1
        /\ \A i \in 1 .. Len(published) : published'[i] = published[i]
        /\ published'[Len(published) + 1] = m
    BY <1>p, <1>2, AppendProperties
  <2>2. SUFFICES ASSUME NEW i \in 1 .. Len(published'), NEW j \in 1 .. Len(published'),
                        i <= j, IsEvent(published'[i]), IsEvent(published'[j])
                 PROVE  published'[i].n <= published'[j].n
    BY DEF EventsInOrder, IsEvent
  <2>3. CASE j <= Len(published)
    BY <1>p, <2>1, <2>2, <2>3 DEF EventsInOrder
  <2>4. CASE j = Len(published) + 1
    <3>1. CASE i <= Len(published)
      BY <1>p, <1>2, <2>1, <2>2, <2>4, <3>1 DEF Newest
    <3>2. CASE i = Len(published) + 1
      BY <1>2, <2>1, <2>2, <2>4, <3>2, Sizes
    <3> QED
      BY <1>p, <2>1, <2>2, <3>1, <3>2
  <2> QED
    BY <1>p, <2>1, <2>2, <2>3, <2>4
<1>3. ASSUME NEW s \in Servers, NEW c \in GoodCommand(Committed),
             done[s] + 1 \in 1 .. Len(out[s]), c = out[s][done[s] + 1],
             c.op = "publish", c.msg \in Committed, published' = Append(published, c.msg)
      PROVE  EventsInOrder'
  <2>1. IsEvent(c.msg) => Newest(c.msg, Committed)
    BY <1>3 DEF EventQueue, Carries
  <2> QED
    BY <1>2, <1>3, <2>1
<1> QED
  BY <1>1, <1>3, PublishedMoves

-----------------------------------------------------------------------------
(* The events of one client, together *)

EventInv ==
    /\ RecordInv /\ OwnInv /\ NoneBehind
    /\ LatestInv("event_update")
    /\ Followed /\ PublishedIsListed /\ EventsInOrder

LEMMA EventStart == Init => EventInv
<1> SUFFICES ASSUME Init PROVE EventInv
  OBVIOUS
<1>1. RecordInv /\ OwnInv /\ NoneBehind /\ LatestInv("event_update")
  BY RecordStart, OwnStart, NoneBehindStart, LatestStart DEF Types
<1>2. Followed
  BY DEF Init, Followed
<1>3. PublishedIsListed
  BY DEF Init, PublishedIsListed
<1>4. EventsInOrder
  BY DEF Init, EventsInOrder
<1> QED
  BY <1>1, <1>2, <1>3, <1>4 DEF EventInv

LEMMA EventStep ==
    OneWriterOf("submit") /\ OneServer /\ Good /\ EventInv /\ [Next]_vars => EventInv'
<1> SUFFICES ASSUME OneWriterOf("submit"), OneServer, Good, EventInv, [Next]_vars
             PROVE  EventInv'
  OBVIOUS
<1>1. RecordInv' /\ OwnInv' /\ NoneBehind'
  BY RecordStep, OwnStep, NoneBehindStep DEF EventInv
<1>2. LatestInv("event_update")'
  <2>1. "event_update" \in Types /\ OneWriterOf(KindOf["event_update"])
    BY DEF Types, KindOf
  <2> QED
    BY <2>1, LatestStep DEF EventInv
<1>3. EventQueue
  BY LatestIsNewest DEF EventInv, RecordInv
<1>4. Followed' /\ PublishedIsListed' /\ EventsInOrder'
  BY <1>3, FollowedStep, PublishedStep, InOrderStep DEF EventInv
<1> QED
  BY <1>1, <1>2, <1>4 DEF EventInv

\* A fan who hears of an event and then asks for the list does not miss it:
\* submitEvent sends LPUSH before PUBLISH on one connection, a reconnect
\* repeats both, and no later event of the same client is on its way then.
THEOREM SoloListsWhatItTells ==
    ASSUME OneWriterOf("submit"), OneServer
    PROVE  Spec => []PublishedIsListed
<1>1. Init => Good /\ EventInv
  BY InitIsGood, EventStart
<1>2. Good /\ EventInv /\ [Next]_vars => Good' /\ EventInv'
  BY StepIsGood, EventStep
<1>3. EventInv => PublishedIsListed
  BY DEF EventInv
<1> QED
  BY <1>1, <1>2, <1>3, PTL DEF Spec

-----------------------------------------------------------------------------
(* What is on its way to Redis, if nothing is dropped for good: no reply is  *)
(* lost after a commit, no client gives up and no server crashes.            *)

NothingIsDropped == Mishaps \cap {"lost_reply", "give_up", "crash"} = {}

AllUp == \A s \in Servers : up[s]

\* The message m is queued for Redis, to be pushed or published as op says, or a
\* handler holds it that has yet to send it.
OnItsWay(op, m) ==
    \/ \E s \in Servers : \E i \in done[s] + 1 .. Len(out[s]) :
         out[s][i].op = op /\ out[s][i].msg = m
    \/ \E w \in Writers :
         /\ h[w].pc \in {"fanout", "await"} /\ h[w].msg = m
         /\ h[w].req.kind = KindOf[m.type]
         /\ h[w].pc = "await" => op = "publish" /\ h[w].req.kind = "transition"

\* The newest message of a type was announced after all others of the type, or
\* will be.
Arrives(type) ==
    \A m \in Committed :
      m.type = type /\ LastOfType(m, commits) =>
        LastOfType(m, published) \/ OnItsWay("publish", m)

\* The list has an event on top: the newest, or the newest will come.
TopArrives ==
    recent # << >> =>
      /\ IsEvent(recent[1]) /\ recent[1] \in Committed
      /\ \A m \in Committed :
           IsEvent(m) /\ LastOfType(m, commits) => recent[1] = m \/ OnItsWay("push", m)

LEMMA UpStep == ASSUME NothingIsDropped, AllUp, [Next]_vars PROVE AllUp'
<1>1. \A s \in Servers : ~GiveUp(s) /\ ~Crash(s)
  BY DEF NothingIsDropped, GiveUp, Crash, Mishap
<1>2. UNCHANGED up
  BY <1>1 DEF Next, vars, Handle, Serve, Read, Commit, LoseReply, Abort,
     Fanout, Await, Begin, ReadRow, Warm, Served, ReadCache, Deliver, Execute, Reply,
     Reconnect, FindStale, EvictGame, Expire, Age, clients
<1> QED
  BY <1>2 DEF AllUp

\* A command stays queued until Redis executes it.
LEMMA QueuedStays ==
    ASSUME NothingIsDropped, Good, [Next]_vars, NEW s \in Servers,
           NEW i \in done[s] + 1 .. Len(out[s])
    PROVE  \/ \E j \in done'[s] + 1 .. Len(out'[s]) : out'[s][j] = out[s][i]
           \/ Execute(s) /\ i = done[s] + 1
<1>s. /\ out = [t \in Servers |-> out[t]] /\ done = [t \in Servers |-> done[t]]
      /\ Len(out[s]) \in Nat /\ done[s] \in Nat /\ done[s] <= Len(out[s])
      /\ i \in 1 .. Len(out[s])
  BY Sizes
<1>1. CASE out'[s] = out[s] /\ done'[s] \in {0, done[s]}
  <2>1. i \in done'[s] + 1 .. Len(out'[s])
    BY <1>1, <1>s
  <2> QED
    BY <1>1, <2>1
<1>2. ~GiveUp(s) /\ ~Crash(s)
  BY DEF NothingIsDropped, GiveUp, Crash, Mishap
<1>3. CASE Execute(s) /\ i # done[s] + 1
  <2>1. out'[s] = out[s] /\ done'[s] = done[s] + 1
    BY <1>3, <1>s DEF Execute
  <2>2. i \in done'[s] + 1 .. Len(out'[s])
    BY <1>s, <1>3, <2>1
  <2> QED
    BY <2>1, <2>2
<1>4. CASE Reply(s)
  <2>1. /\ done[s] > 0 /\ done'[s] = done[s] - 1
        /\ Len(out'[s]) = Len(out[s]) - 1
        /\ \A j \in 1 .. Len(out'[s]) : out'[s][j] = out[s][j + 1]
    BY <1>4, ReplyMoves
  <2>2. i - 1 \in done'[s] + 1 .. Len(out'[s]) /\ i - 1 \in 1 .. Len(out'[s])
    BY <1>s, <2>1
  <2>3. out'[s][i - 1] = out[s][i]
    BY <1>s, <2>1, <2>2
  <2> QED
    BY <2>2, <2>3
<1>5. ASSUME NEW t \in Servers, NEW cmds \in Seq(GoodCommand(Committed)), Sends(t, cmds),
             UNCHANGED done
      PROVE  \E j \in done'[s] + 1 .. Len(out'[s]) : out'[s][j] = out[s][i]
  <2>1. /\ Len(out'[s]) \in Nat /\ Len(out[s]) <= Len(out'[s])
        /\ out'[s][i] = out[s][i]
    BY <1>5, <1>s, Enqueued DEF Sends
  <2>2. i \in done'[s] + 1 .. Len(out'[s])
    BY <1>5, <1>s, <2>1
  <2> QED
    BY <2>1, <2>2
<1> QED
  BY <1>1, <1>2, <1>3, <1>4, <1>5, QueueMoves

\* What is sent is queued.
LEMMA SentIsQueued ==
    ASSUME Good, AllUp, NEW t \in Servers, NEW cmds \in Seq(GoodCommand(Committed)),
           Enqueue(t, cmds), UNCHANGED done, NEW n \in 1 .. Len(cmds)
    PROVE  \E j \in done'[t] + 1 .. Len(out'[t]) : out'[t][j] = cmds[n]
<1>1. /\ out = [s \in Servers |-> out[s]] /\ out[t] \in Seq(GoodCommand(Committed))
      /\ Len(out[t]) \in Nat /\ done[t] \in Nat /\ done[t] <= Len(out[t]) /\ Len(cmds) \in Nat
  BY Sizes, LenProperties
<1>2. out'[t] = out[t] \o cmds
  BY <1>1 DEF Enqueue, AllUp
<1>3. /\ Len(out'[t]) = Len(out[t]) + Len(cmds)
      /\ out'[t][Len(out[t]) + n] = cmds[n]
  <2>1. /\ Len(out'[t]) = Len(out[t]) + Len(cmds)
        /\ \A i \in 1 .. Len(out[t]) + Len(cmds) :
             out'[t][i] = IF i <= Len(out[t]) THEN out[t][i] ELSE cmds[i - Len(out[t])]
    BY <1>1, <1>2, ConcatProperties
  <2>2. Len(out[t]) + n \in 1 .. Len(out[t]) + Len(cmds)
    BY <1>1
  <2>3. ~(Len(out[t]) + n <= Len(out[t])) /\ (Len(out[t]) + n) - Len(out[t]) = n
    BY <1>1
  <2> QED
    BY <2>1, <2>2, <2>3
<1>4. Len(out[t]) + n \in done'[t] + 1 .. Len(out'[t])
  BY <1>1, <1>3
<1> QED
  BY <1>3, <1>4

\* After its commit a handler only moves on by sending.
LEMMA HandlerStays ==
    ASSUME NothingIsDropped, Good, [Next]_vars, NEW w \in Writers,
           h[w].pc \in {"fanout", "await"}
    PROVE  h'[w] = h[w] \/ Fanout(w) \/ Await(w)
<1>h. h = [v \in Writers |-> h[v]]
  BY DEF Good, GoodProcesses
<1>1. ASSUME NEW v \in Writers, v # w,
             Handle(v) \/ LoseReply(v) \/ \E s \in Servers : Begin(v, s)
      PROVE  h'[w] = h[w]
  BY <1>h, <1>1 DEF Handle, Read, Commit, LoseReply, Abort, Fanout, Await, Begin
<1>2. \A s \in Servers : ~Crash(s) /\ ~Begin(w, s)
  BY DEF NothingIsDropped, Crash, Mishap, Begin
<1>3. ~Read(w) /\ ~Commit(w) /\ ~LoseReply(w) /\ ~Abort(w)
  BY DEF Read, Commit, LoseReply, Abort
<1>4. CASE UNCHANGED h
  BY <1>4
<1> QED
  BY <1>1, <1>2, <1>3, <1>4 DEF Next, vars, Handle, Serve,
     ReadRow, Warm, Served, ReadCache, Deliver, Execute, Reply, Reconnect, GiveUp,
     FindStale, EvictGame, Expire, Age

\* What is on its way stays on its way until Redis gets it.
LEMMA WayStep ==
    ASSUME NothingIsDropped, Good, AllUp, [Next]_vars, NEW op \in {"push", "publish"},
           NEW m \in Committed, op = "push" => IsEvent(m), OnItsWay(op, m)
    PROVE  \/ OnItsWay(op, m)'
           \/ \E s \in Servers :
                /\ Execute(s) /\ done[s] + 1 \in 1 .. Len(out[s])
                /\ out[s][done[s] + 1].op = op /\ out[s][done[s] + 1].msg = m
<1>0. ASSUME NEW s \in Servers, NEW j \in done'[s] + 1 .. Len(out'[s]),
             out'[s][j].op = op, out'[s][j].msg = m
      PROVE  OnItsWay(op, m)'
  BY <1>0 DEF OnItsWay
<1>1. ASSUME NEW s \in Servers, NEW i \in done[s] + 1 .. Len(out[s]),
             out[s][i].op = op, out[s][i].msg = m
      PROVE  \/ OnItsWay(op, m)'
             \/ Execute(s) /\ i = done[s] + 1 /\ i \in 1 .. Len(out[s])
  <2>1. i \in 1 .. Len(out[s])
    BY Sizes
  <2> QED
    BY <1>0, <1>1, <2>1, QueuedStays
<1>2. ASSUME NEW w \in Writers, h[w].pc \in {"fanout", "await"}, h[w].msg = m,
             h[w].req.kind = KindOf[m.type],
             h[w].pc = "await" => op = "publish" /\ h[w].req.kind = "transition"
      PROVE  OnItsWay(op, m)'
  <2>h. h = [v \in Writers |-> h[v]] /\ h[w].srv \in Servers
    BY <1>2 DEF Good, GoodProcesses, GoodHandler
  <2>k. m.type \in Types /\ (op = "push" => h[w].req.kind = "submit")
    BY <1>2, Sizes DEF IsEvent, KindOf
  <2>1. CASE h'[w] = h[w]
    BY <1>2, <2>1 DEF OnItsWay
  <2>2. ASSUME NEW cmds \in Seq(GoodCommand(Committed)), Enqueue(h[w].srv, cmds),
               UNCHANGED done, NEW n \in 1 .. Len(cmds), cmds[n].op = op, cmds[n].msg = m
        PROVE  OnItsWay(op, m)'
    <3>1. \E j \in done'[h[w].srv] + 1 .. Len(out'[h[w].srv]) : out'[h[w].srv][j] = cmds[n]
      BY <2>h, <2>2, SentIsQueued
    <3> QED
      BY <1>0, <2>h, <2>2, <3>1
  <2>3. CASE Fanout(w)
    <3>1. h[w].pc = "fanout" /\ Enqueue(h[w].srv, FanoutOf(w)) /\ UNCHANGED done
      BY <2>3 DEF Fanout
    <3>2. FanoutOf(w) \in Seq(GoodCommand(Committed))
      BY <3>1, FanoutIs
    <3>3. CASE h[w].req.kind = "submit"
      <4>1. PICK cmds \in Seq(GoodCommand(Committed)) : cmds = FanoutOf(w)
        BY <3>2
      <4>2. cmds = <<SetState(h[w].seen, w), PushRecent(h[w].msg, w), Publish(h[w].msg, w)>>
        BY <3>1, <3>3, <4>1, FanoutIs
      <4>3. /\ Len(cmds) = 3 /\ cmds[2] = PushRecent(m, w) /\ cmds[3] = Publish(m, w)
        BY <1>2, <4>2
      <4>4. CASE op = "push"
        <5>1. 2 \in 1 .. Len(cmds) /\ cmds[2].op = op /\ cmds[2].msg = m
          BY <4>3, <4>4 DEF PushRecent
        <5> QED
          BY <2>2, <3>1, <4>1, <5>1
      <4>5. CASE op = "publish"
        <5>1. 3 \in 1 .. Len(cmds) /\ cmds[3].op = op /\ cmds[3].msg = m
          BY <4>3, <4>5 DEF Publish
        <5> QED
          BY <2>2, <3>1, <4>1, <5>1
      <4> QED
        BY <4>4, <4>5
    <3>4. CASE h[w].req.kind = "patch"
      <4>1. PICK cmds \in Seq(GoodCommand(Committed)) : cmds = FanoutOf(w)
        BY <3>2
      <4>2. cmds = <<Publish(m, w)>> /\ op = "publish"
        BY <1>2, <2>k, <3>1, <3>4, <4>1, FanoutIs
      <4>3. 1 \in 1 .. Len(cmds) /\ cmds[1].op = op /\ cmds[1].msg = m
        BY <4>2 DEF Publish
      <4> QED
        BY <2>2, <3>1, <4>1, <4>3
    <3>5. CASE h[w].req.kind = "transition"
      <4>1. h' = [h EXCEPT ![w] = [@ EXCEPT !.pc = "await"]]
        BY <2>3, <3>5 DEF Fanout, WaitsForCache
      <4>2. /\ h'[w].pc = "await" /\ h'[w].msg = h[w].msg /\ h'[w].req = h[w].req
        BY <2>h, <4>1 DEF Good, GoodProcesses, GoodHandler
      <4> QED
        BY <1>2, <2>k, <3>5, <4>2 DEF OnItsWay
    <3> QED
      BY <1>2, <2>k, <3>3, <3>4, <3>5 DEF Types, KindOf
  <2>4. CASE Await(w)
    <3>1. h[w].pc = "await" /\ UNCHANGED done
      BY <2>4 DEF Await
    <3>2. op = "publish" /\ h[w].req.kind = "transition"
      BY <1>2, <3>1
    <3>3. Enqueue(h[w].srv, <<Publish(m, w)>>)
      BY <1>2, <2>4, <3>2 DEF Await
    <3>4. Publish(m, w) \in GoodCommand(Committed)
      BY DEF Publish, GoodCommand, Process
    <3>5. PICK cmds \in Seq(GoodCommand(Committed)) : cmds = <<Publish(m, w)>>
      <4>1. <<Publish(m, w)>> \in Seq(GoodCommand(Committed))
        BY <3>4
      <4> QED
        BY <4>1
    <3>6. 1 \in 1 .. Len(cmds) /\ cmds[1].op = op /\ cmds[1].msg = m
      BY <3>2, <3>5 DEF Publish
    <3> QED
      BY <2>2, <3>1, <3>3, <3>5, <3>6
  <2> QED
    BY <1>2, <2>1, <2>3, <2>4, HandlerStays
<1>3. ASSUME NEW s \in Servers, NEW i \in done[s] + 1 .. Len(out[s]),
             out[s][i].op = op, out[s][i].msg = m
      PROVE  \/ OnItsWay(op, m)'
             \/ /\ Execute(s) /\ done[s] + 1 \in 1 .. Len(out[s])
                /\ out[s][done[s] + 1].op = op /\ out[s][done[s] + 1].msg = m
  BY <1>1, <1>3
<1> QED
  BY <1>2, <1>3 DEF OnItsWay

\* The newest message of a type was the newest before, or was just written and
\* is on its way.
LEMMA NewestIsOnItsWay ==
    ASSUME NothingIsDropped, Good, [Next]_vars, NEW m \in Committed', LastOfType(m, commits')
    PROVE  \/ m \in Committed /\ LastOfType(m, commits)
           \/ \A op \in {"push", "publish"} : OnItsWay(op, m)'
<1>1. CASE UNCHANGED commits
  BY <1>1 DEF Committed
<1>2. ASSUME NEW v \in Writers, NEW x \in Message, h[v].pc = "write", Write(v),
             Commit(v) \/ LoseReply(v), commits' = Append(commits, x),
             Committed' = Committed \cup {x}, h[v].req.kind = KindOf[x.type], x.type \in Types
      PROVE  \/ m \in Committed /\ LastOfType(m, commits)
             \/ \A op \in {"push", "publish"} : OnItsWay(op, m)'
  <2>1. Commit(v)
    BY <1>2 DEF LoseReply, Mishap, NothingIsDropped
  <2>2. CASE m # x
    <3>1. LastOfType(m, commits)
      BY <1>2, <2>2, Sizes, LatestAppend
    <3> QED
      BY <1>2, <2>2, <3>1
  <2>3. CASE m = x
    <3>1. Last(commits') = x
      <4>1. /\ Len(commits') = Len(commits) + 1 /\ commits'[Len(commits) + 1] = x
        BY <1>2, Sizes, AppendProperties
      <4> QED
        BY <4>1 DEF Last
    <3>2. h[v].req.kind # "create"
      BY <1>2 DEF Types, KindOf
    <3>3. /\ h'[v].pc = "fanout" /\ h'[v].msg = MessageOf(v) /\ h'[v].req = h[v].req
      BY <2>1 DEF Commit, Good, GoodProcesses, GoodHandler
    <3> QED
      BY <1>2, <2>3, <3>1, <3>2, <3>3 DEF OnItsWay, MessageOf
  <2> QED
    BY <2>2, <2>3
<1> QED
  BY <1>1, <1>2, CommitEffect

LEMMA ArrivesStep ==
    ASSUME NothingIsDropped, NEW type \in Types, Good, AllUp, LatestInv(type), Arrives(type),
           [Next]_vars
    PROVE  Arrives(type)'
<1> SUFFICES ASSUME NEW m \in Committed', m.type = type, LastOfType(m, commits')
             PROVE  LastOfType(m, published') \/ OnItsWay("publish", m)'
  BY DEF Arrives
<1>p. published \in Seq(Committed)
  BY DEF Good, GoodRedis
<1>1. CASE \A op \in {"push", "publish"} : OnItsWay(op, m)'
  BY <1>1
<1>2. ASSUME m \in Committed, LastOfType(m, commits), OnItsWay("publish", m)
      PROVE  LastOfType(m, published') \/ OnItsWay("publish", m)'
  <2>1. ASSUME NEW s \in Servers, Execute(s), done[s] + 1 \in 1 .. Len(out[s]),
               out[s][done[s] + 1].op = "publish", out[s][done[s] + 1].msg = m
        PROVE  LastOfType(m, published')
    <3>1. published' = Append(published, m)
      BY <2>1 DEF Execute
    <3> QED
      BY <1>2, <1>p, <3>1, LatestAppend
  <2> QED
    BY <1>2, <2>1, WayStep
<1>3. ASSUME m \in Committed, LastOfType(m, commits), LastOfType(m, published)
      PROVE  LastOfType(m, published')
  <2>1. CASE UNCHANGED published
    BY <1>3, <2>1
  <2>2. ASSUME NEW s \in Servers, NEW c \in GoodCommand(Committed),
               done[s] + 1 \in 1 .. Len(out[s]), c = out[s][done[s] + 1],
               c.op = "publish", c.msg \in Committed, published' = Append(published, c.msg)
        PROVE  LastOfType(m, published')
    <3>1. c.msg.type = type => c.msg = m
      <4>1. c.msg.type = type => LastOfType(c.msg, commits)
        BY <2>2 DEF LatestInv, QueueLatest, Carries
      <4> QED
        BY <1>3, <4>1, Sizes, LatestIsOne
    <3> QED
      BY <1>p, <1>3, <2>2, <3>1, LatestAppend
  <2> QED
    BY <2>1, <2>2, PublishedMoves
<1> QED
  BY <1>1, <1>2, <1>3, NewestIsOnItsWay DEF Arrives

LEMMA TopArrivesStep ==
    ASSUME NothingIsDropped, Good, OwnInv, AllUp, LatestInv("event_update"), TopArrives,
           [Next]_vars
    PROVE  TopArrives'
<1>c. Committed \subseteq Committed'
  <2>1. \/ UNCHANGED commits
        \/ \E x \in Message : Committed' = Committed \cup {x}
    BY CommitEffect
  <2> QED
    BY <2>1 DEF Committed
<1> SUFFICES ASSUME recent' # << >>
             PROVE  /\ IsEvent(recent'[1]) /\ recent'[1] \in Committed'
                    /\ \A m \in Committed' :
                         IsEvent(m) /\ LastOfType(m, commits') =>
                           recent'[1] = m \/ OnItsWay("push", m)'
  BY DEF TopArrives, IsEvent
<1>1. ASSUME NEW x \in Committed, recent'[1] = x, IsEvent(x),
             \A m \in Committed :
               IsEvent(m) /\ LastOfType(m, commits) => x = m \/ OnItsWay("push", m)'
      PROVE  /\ IsEvent(recent'[1]) /\ recent'[1] \in Committed'
             /\ \A m \in Committed' :
                  IsEvent(m) /\ LastOfType(m, commits') =>
                    recent'[1] = m \/ OnItsWay("push", m)'
  BY <1>c, <1>1, NewestIsOnItsWay
<1>2. ASSUME NEW s \in Servers, NEW c \in GoodCommand(Committed),
             done[s] + 1 \in 1 .. Len(out[s]), c = out[s][done[s] + 1],
             c.op = "push", c.msg \in Committed, recent'[1] = c.msg
      PROVE  /\ IsEvent(c.msg)
             /\ \A m \in Committed :
                  IsEvent(m) /\ LastOfType(m, commits) => c.msg = m \/ OnItsWay("push", m)'
  <2>1. IsEvent(c.msg)
    BY <1>2 DEF OwnInv, QueuedIsAsked, Carries
  <2>2. LastOfType(c.msg, commits)
    BY <1>2, <2>1 DEF LatestInv, QueueLatest, Carries, IsEvent
  <2>3. \A m \in Committed : IsEvent(m) /\ LastOfType(m, commits) => c.msg = m
    BY <2>1, <2>2, Sizes, LatestIsOne DEF IsEvent
  <2> QED
    BY <2>1, <2>3
<1>3. ASSUME UNCHANGED recent
      PROVE  /\ IsEvent(recent'[1]) /\ recent'[1] \in Committed'
             /\ \A m \in Committed' :
                  IsEvent(m) /\ LastOfType(m, commits') =>
                    recent'[1] = m \/ OnItsWay("push", m)'
  <2>1. /\ recent # << >> /\ recent'[1] = recent[1] /\ recent[1] \in Committed
        /\ IsEvent(recent[1])
    BY <1>3 DEF TopArrives
  <2>2. ASSUME NEW m \in Committed, IsEvent(m), LastOfType(m, commits)
        PROVE  recent[1] = m \/ OnItsWay("push", m)'
    <3>1. CASE recent[1] = m
      BY <3>1
    <3>2. CASE OnItsWay("push", m)
      <4>1. ASSUME NEW s \in Servers, Execute(s), done[s] + 1 \in 1 .. Len(out[s]),
                   out[s][done[s] + 1].op = "push", out[s][done[s] + 1].msg = m
            PROVE  recent[1] = m
        <5>1. recent' = Pushed(m, recent) /\ recent \in Seq(Committed)
          BY <4>1 DEF Execute, Good, GoodRedis
        <5>2. recent'[1] = m
          BY <2>2, <5>1, PushedHead
        <5> QED
          BY <2>1, <5>2
      <4> QED
        BY <2>2, <3>2, <4>1, WayStep
    <3> QED
      BY <2>1, <2>2, <3>1, <3>2 DEF TopArrives
  <2> QED
    BY <1>1, <2>1, <2>2
<1> QED
  BY <1>1, <1>2, <1>3, RecentMoves

-----------------------------------------------------------------------------
(* When all is done: the list and the channel *)

RecentInv ==
    RecordInv /\ OwnInv /\ NoneBehind /\ AllUp /\ LatestInv("event_update") /\ TopArrives

LEMMA RecentStart == Init => RecentInv
<1> SUFFICES ASSUME Init PROVE RecentInv
  OBVIOUS
<1>1. RecordInv /\ OwnInv /\ NoneBehind /\ LatestInv("event_update")
  BY RecordStart, OwnStart, NoneBehindStart, LatestStart DEF Types
<1>2. AllUp /\ TopArrives
  BY DEF Init, AllUp, TopArrives
<1> QED
  BY <1>1, <1>2 DEF RecentInv

LEMMA RecentStep ==
    ASSUME OneWriterOf("submit"), OneServer, NothingIsDropped, Good, RecentInv, [Next]_vars
    PROVE  RecentInv'
<1>1. RecordInv' /\ OwnInv' /\ NoneBehind' /\ AllUp'
  BY RecordStep, OwnStep, NoneBehindStep, UpStep DEF RecentInv
<1>2. LatestInv("event_update")'
  <2>1. "event_update" \in Types /\ OneWriterOf(KindOf["event_update"])
    BY DEF Types, KindOf
  <2> QED
    BY <2>1, LatestStep DEF RecentInv
<1>3. TopArrives'
  BY TopArrivesStep DEF RecentInv
<1> QED
  BY <1>1, <1>2, <1>3 DEF RecentInv

\* One client submits events on one server, and nothing is dropped for good:
\* when all is done, the newest event is on top of the catch-up list, although
\* nobody waits for LPUSH and a reconnect sends old pushes again.
THEOREM SoloRecentIsNewest ==
    ASSUME OneWriterOf("submit"), OneServer, NothingIsDropped
    PROVE  Spec => []QuietRecentIsNewest
<1>1. Good /\ RecentInv => QuietRecentIsNewest
  <2> SUFFICES ASSUME Good, RecentInv, Quiescent, recent # << >>
               PROVE  recent[1].type = "event_update" /\ LastOfType(recent[1], commits)
    BY DEF QuietRecentIsNewest
  <2>1. IsEvent(recent[1]) /\ recent[1] \in Committed
    BY DEF RecentInv, TopArrives
  <2>2. PICK m \in Committed : IsEvent(m) /\ LastOfType(m, commits)
    BY <2>1 DEF RecentInv, RecordInv, HasLatest, IsEvent
  <2>3. ~OnItsWay("push", m)
    <3>1. \A s \in Servers : Len(out[s]) = 0 /\ done[s] = 0
      BY Sizes DEF Quiescent
    <3> QED
      BY <3>1 DEF OnItsWay, Quiescent
  <2> QED
    BY <2>1, <2>2, <2>3 DEF RecentInv, TopArrives, IsEvent
<1>2. Init => Good /\ RecentInv
  BY InitIsGood, RecentStart
<1>3. Good /\ RecentInv /\ [Next]_vars => Good' /\ RecentInv'
  BY StepIsGood, RecentStep
<1> QED
  BY <1>1, <1>2, <1>3, PTL DEF Spec

ChannelInv ==
    /\ RecordInv /\ OwnInv /\ NoneBehind /\ AllUp
    /\ \A type \in Types : LatestInv(type) /\ Arrives(type)

LEMMA ChannelStart == Init => ChannelInv
<1> SUFFICES ASSUME Init PROVE ChannelInv
  OBVIOUS
<1>1. RecordInv /\ OwnInv /\ NoneBehind /\ \A type \in Types : LatestInv(type)
  BY RecordStart, OwnStart, NoneBehindStart, LatestStart
<1>2. AllUp /\ Committed = {}
  BY DEF Init, AllUp, Committed, ToSet
<1> QED
  BY <1>1, <1>2 DEF ChannelInv, Arrives

LEMMA ChannelStep ==
    ASSUME \A type \in Types : OneWriterOf(KindOf[type]), OneServer, NothingIsDropped,
           Good, ChannelInv, [Next]_vars
    PROVE  ChannelInv'
<1>1. RecordInv' /\ OwnInv' /\ NoneBehind' /\ AllUp'
  BY RecordStep, OwnStep, NoneBehindStep, UpStep DEF ChannelInv
<1>2. ASSUME NEW type \in Types PROVE LatestInv(type)' /\ Arrives(type)'
  BY LatestStep, ArrivesStep DEF ChannelInv
<1> QED
  BY <1>1, <1>2 DEF ChannelInv

\* One client for each kind of write on one server, and nothing dropped for
\* good: when all is done, the newest message of each type in the channel says
\* what the database says, although patchGameState and submitEvent do not wait
\* for PUBLISH, transitionStatus publishes late, and a reconnect repeats both.
THEOREM SoloChannelIsRow ==
    ASSUME \A type \in Types : OneWriterOf(KindOf[type]), OneServer, NothingIsDropped
    PROVE  Spec => []QuietChannelIsRow
<1>1. Good /\ ChannelInv => QuietChannelIsRow
  <2> SUFFICES ASSUME Good, ChannelInv, Quiescent, NEW c \in Committed
               PROVE  \E m \in ToSet(published) :
                        m.type = c.type /\ LastOfType(m, published) /\ ShowsRow(m)
    BY DEF QuietChannelIsRow
  <2>1. PICK m \in Committed : m.type = c.type /\ LastOfType(m, commits)
    BY DEF ChannelInv, RecordInv, HasLatest
  <2>2. m.type \in Types /\ ShowsRow(m)
    BY <2>1, Sizes DEF ChannelInv, RecordInv, NewestShowsRow
  <2>3. ~OnItsWay("publish", m)
    <3>1. \A s \in Servers : Len(out[s]) = 0 /\ done[s] = 0
      BY Sizes DEF Quiescent
    <3> QED
      BY <3>1 DEF OnItsWay, Quiescent
  <2>4. LastOfType(m, published)
    BY <2>1, <2>2, <2>3 DEF ChannelInv, Arrives
  <2>5. m \in ToSet(published)
    BY <2>4 DEF LastOfType, ToSet
  <2> QED
    BY <2>1, <2>2, <2>4, <2>5
<1>2. Init => Good /\ ChannelInv
  BY InitIsGood, ChannelStart
<1>3. Good /\ ChannelInv /\ [Next]_vars => Good' /\ ChannelInv'
  BY StepIsGood, ChannelStep
<1> QED
  BY <1>1, <1>2, <1>3, PTL DEF Spec

-----------------------------------------------------------------------------
(* When all is done: the cached game.  It takes more: one client asks for    *)
(* everything that changes the row, and no getGame warms the cache (see the  *)
(* finding of run stale_warm).                                               *)

ChangesRow(w) == \E req \in MayRequest[w] : req.kind # "patch"

SoloOwner == \A v, w \in Writers : ChangesRow(v) /\ ChangesRow(w) => v = w

\* What a handler is about to cache is the row, and nothing older of it is queued.
WriterInv ==
    \A w \in Writers :
      /\ h[w].pc \in {"read", "write", "fanout"} =>
           \A s \in Servers : \A i \in 1 .. Len(out[s]) :
             out[s][i].op = "set" => out[s][i].who # w
      /\ h[w].pc = "fanout" /\ h[w].req.kind # "patch" => h[w].seen = row

\* What the queue will cache is the row.
SetsRow ==
    \A s \in Servers : \A i \in 1 .. Len(out[s]) :
      out[s][i].op = "set" =>
        /\ out[s][i].who \in Writers /\ ChangesRow(out[s][i].who)
        /\ out[s][i].game = row

\* The row is on its way to the cache.
Coming ==
    \/ \E s \in Servers : \E i \in done[s] + 1 .. Len(out[s]) : out[s][i].op = "set"
    \/ \E w \in Writers : h[w].pc = "fanout" /\ h[w].req.kind # "patch"

CacheInv ==
    /\ WriterInv
    /\ SetsRow
    /\ cache # NULL => cache.game = row \/ Coming
    /\ AllUp

LEMMA OwnerScores == SoloOwner => SoloScorer
BY DEF SoloOwner, SoloScorer, ChangesRow, KeepsScore

\* Only the score keeper's commit changes the row.
LEMMA WhoChangesRow ==
    ASSUME NothingIsDropped, Good, SoloInv, [Next]_vars, row' # row
    PROVE  \E w \in Writers : Commit(w) /\ h[w].pc = "write" /\ h[w].req.kind # "patch"
                                /\ ChangesRow(w)
<1>1. PICK w \in Writers : h[w].pc = "write" /\ Write(w) /\ (Commit(w) \/ LoseReply(w))
  BY OnlyWritesChangeRow
<1>2. Commit(w)
  BY <1>1 DEF LoseReply, Mishap, NothingIsDropped
<1>3. h[w].req.kind # "patch"
  BY <1>1, WriteEffect DEF SubmitRequest, TransitionRequest
<1>4. h[w].req \in MayRequest[w]
  BY <1>1 DEF SoloInv, AskedInv
<1> QED
  BY <1>1, <1>2, <1>3, <1>4 DEF ChangesRow

LEMMA RowKept ==
    ASSUME NothingIsDropped, SoloOwner, Good, SoloInv, [Next]_vars,
           NEW w \in Writers, ChangesRow(w), h[w].pc # "write"
    PROVE  row' = row
BY WhoChangesRow DEF SoloOwner

LEMMA SetsRowStep ==
    ASSUME NothingIsDropped, Readers = {}, SoloOwner, Good, SoloInv, CacheInv, [Next]_vars
    PROVE  SetsRow'
<1> SUFFICES ASSUME NEW s \in Servers, NEW i \in 1 .. Len(out'[s]), out'[s][i].op = "set"
             PROVE  /\ out'[s][i].who \in Writers /\ ChangesRow(out'[s][i].who)
                    /\ out'[s][i].game = row'
  BY DEF SetsRow
<1>1. ASSUME NEW k \in 1 .. Len(out[s]), out'[s][i] = out[s][k]
      PROVE  /\ out'[s][i].who \in Writers /\ ChangesRow(out'[s][i].who)
             /\ out'[s][i].game = row'
  <2> DEFINE w == out[s][k].who
  <2>1. w \in Writers /\ ChangesRow(w) /\ out[s][k].game = row
    BY <1>1 DEF CacheInv, SetsRow
  <2>2. h[w].pc # "write"
    BY <1>1, <2>1 DEF CacheInv, WriterInv
  <2> HIDE DEF w
  <2>3. row' = row
    BY <2>1, <2>2, RowKept
  <2> QED
    BY <1>1, <2>1, <2>3 DEF w
<1>2. ASSUME NEW w \in Writers, SendsGame(w, out'[s][i])
      PROVE  /\ out'[s][i].who \in Writers /\ ChangesRow(out'[s][i].who)
             /\ out'[s][i].game = row'
  <2>1. h[w].pc = "fanout" /\ row' = row
    BY <1>2 DEF SendsGame, Fanout, postgres
  <2>2. h[w].req \in MayRequest[w] /\ h[w].seen = row
    BY <1>2, <2>1 DEF SoloInv, AskedInv, CacheInv, WriterInv, SendsGame
  <2> QED
    BY <1>2, <2>1, <2>2 DEF ChangesRow, SendsGame
<1> QED
  BY <1>1, <1>2, NewCommands DEF Carries

LEMMA WriterStep ==
    ASSUME NothingIsDropped, Readers = {}, OneServer, SoloOwner, Good, SoloInv, CacheInv,
           [Next]_vars
    PROVE  WriterInv'
<1> SUFFICES ASSUME NEW w \in Writers, h'[w].pc \in {"read", "write", "fanout"}
             PROVE  /\ \A s \in Servers : \A i \in 1 .. Len(out'[s]) :
                         out'[s][i].op = "set" => out'[s][i].who # w
                    /\ h'[w].pc = "fanout" /\ h'[w].req.kind # "patch" => h'[w].seen = row'
  BY DEF WriterInv
<1>1. ASSUME NEW s \in Servers, NEW i \in 1 .. Len(out'[s]),
             out'[s][i].op = "set", out'[s][i].who = w
      PROVE  FALSE
  <2>1. ASSUME NEW k \in 1 .. Len(out[s]), out'[s][i] = out[s][k] PROVE FALSE
    <3>1. h[w].pc \notin {"read", "write", "fanout"}
      BY <1>1, <2>1 DEF CacheInv, WriterInv
    <3>2. PICK t \in Servers : Begin(w, t)
      BY <3>1, HandlerMoves DEF Commit, Fanout
    <3>3. ~Awaiting(w, s)
      BY <3>2 DEF Begin, OneServer
    <3>4. k \in DOMAIN out[s]
      BY Sizes, LenProperties
    <3> QED
      BY <1>1, <2>1, <3>3, <3>4 DEF Awaiting
  <2>2. ASSUME NEW v \in Writers, SendsGame(v, out'[s][i]) PROVE FALSE
    <3>1. h'[w] = IdleWrite \/ h'[w] = [h[w] EXCEPT !.pc = "await"]
      BY <1>1, <2>2 DEF SendsGame, Fanout, Good, GoodProcesses
    <3>2. h[w] \in [pc: {"idle", "read", "write", "fanout", "await"},
                    req: Request \cup {NoRequest}, srv: Servers \cup {NULL},
                    seen: GoodGame(Committed) \cup {NULL}, msg: Committed \cup {NULL}]
      BY DEF Good, GoodProcesses, GoodHandler
    <3> QED
      BY <3>1, <3>2 DEF IdleWrite
  <2> QED
    BY <1>1, <2>1, <2>2, NewCommands DEF Carries
<1>2. ASSUME h'[w].pc = "fanout", h'[w].req.kind # "patch"
      PROVE  h'[w].seen = row'
  <2>1. CASE h'[w] = h[w]
    <3>1. h[w].req \in MayRequest[w] /\ h[w].seen = row
      BY <1>2, <2>1 DEF SoloInv, AskedInv, CacheInv, WriterInv
    <3>2. ChangesRow(w) /\ h[w].pc # "write"
      BY <1>2, <2>1, <3>1 DEF ChangesRow
    <3> QED
      BY <2>1, <3>1, <3>2, RowKept
  <2>2. CASE Commit(w) /\ h'[w].seen = GameToCache(w) /\ h'[w].req = h[w].req
    <3>1. h[w].pc = "write" /\ Write(w)
      BY <2>2 DEF Commit
    <3>2. CASE h[w].req.kind # "submit"
      BY <2>2, <3>2 DEF GameToCache
    <3>3. CASE h[w].req.kind = "submit"
      <4>1. h[w].seen = row
        BY <3>1, <3>3 DEF SoloInv
      <4>2. row' = WithScore(row, ScoreFor(h[w].seen, h[w].req))
        BY <3>1, <3>3, WriteEffect DEF TransitionRequest, PatchRequest
      <4> QED
        BY <2>2, <3>3, <4>1, <4>2 DEF GameToCache
    <3> QED
      BY <3>2, <3>3
  <2> QED
    BY <1>2, <2>1, <2>2, HandlerMoves
<1> QED
  BY <1>1, <1>2

\* A cache command stays queued until Redis executes it, and then the row is
\* cached.
LEMMA QueuedComes ==
    ASSUME NothingIsDropped, Good, SetsRow, [Next]_vars, NEW s \in Servers,
           NEW i \in done[s] + 1 .. Len(out[s]), out[s][i].op = "set"
    PROVE  Coming' \/ cache'.game = row
<1>1. ASSUME Execute(s), i = done[s] + 1 PROVE cache'.game = row
  <2>1. cache' = [game |-> out[s][i].game, who |-> out[s][i].who]
    BY <1>1 DEF Execute
  <2>2. i \in 1 .. Len(out[s])
    BY Sizes
  <2> QED
    BY <2>1, <2>2 DEF SetsRow
<1> QED
  BY <1>1, QueuedStays DEF Coming

\* What a handler holds after its commit stays there until it is queued.
LEMMA HeldComes ==
    ASSUME NothingIsDropped, Good, AllUp, [Next]_vars,
           NEW w \in Writers, h[w].pc = "fanout", h[w].req.kind # "patch"
    PROVE  Coming'
<1>1. CASE h'[w] = h[w]
  BY <1>1 DEF Coming
<1>2. CASE Fanout(w)
  <2>1. Enqueue(h[w].srv, FanoutOf(w)) /\ UNCHANGED done /\ h[w].srv \in Servers
    BY <1>2, FanoutIs DEF Fanout
  <2>2. PICK cmds \in Seq(GoodCommand(Committed)) : cmds = FanoutOf(w)
    BY FanoutIs
  <2>3. 1 \in 1 .. Len(cmds) /\ cmds[1] = SetState(h[w].seen, w)
    <3>1. CASE h[w].req.kind = "submit"
      <4>1. cmds = <<SetState(h[w].seen, w), PushRecent(h[w].msg, w), Publish(h[w].msg, w)>>
        BY <2>2, <3>1, FanoutIs
      <4> QED
        BY <4>1
    <3>2. CASE h[w].req.kind # "submit"
      <4>1. cmds = <<SetState(h[w].seen, w)>>
        BY <2>2, <3>2, FanoutIs
      <4> QED
        BY <4>1
    <3> QED
      BY <3>1, <3>2
  <2>4. cmds[1].op = "set"
    BY <2>3 DEF SetState
  <2> QED
    BY <2>1, <2>2, <2>3, <2>4, SentIsQueued DEF Coming
<1> QED
  BY <1>1, <1>2, HandlerStays DEF Await

LEMMA CachedStep ==
    ASSUME NothingIsDropped, Good, SoloInv, CacheInv, [Next]_vars
    PROVE  cache' # NULL => cache'.game = row' \/ Coming'
<1>1. CASE row' # row
  <2>1. PICK w \in Writers : Commit(w) /\ h[w].pc = "write" /\ h[w].req.kind # "patch"
    BY <1>1, WhoChangesRow
  <2>2. h'[w].pc = "fanout" /\ h'[w].req = h[w].req
    BY <2>1 DEF Commit, Good, GoodProcesses, GoodHandler
  <2> QED
    BY <2>1, <2>2 DEF Coming
<1>2. CASE row' = row /\ Coming
  <2>1. ASSUME NEW s \in Servers, NEW i \in done[s] + 1 .. Len(out[s]), out[s][i].op = "set"
        PROVE  Coming' \/ cache'.game = row
    BY <2>1, QueuedComes DEF CacheInv
  <2>2. ASSUME NEW w \in Writers, h[w].pc = "fanout", h[w].req.kind # "patch"
        PROVE  Coming'
    BY <2>2, HeldComes DEF CacheInv
  <2> QED
    BY <1>2, <2>1, <2>2 DEF Coming
<1>3. CASE row' = row /\ (cache = NULL \/ cache.game = row)
  <2>1. CASE UNCHANGED cache \/ cache' = NULL
    BY <1>3, <2>1
  <2>2. ASSUME NEW s \in Servers, Execute(s), out[s][done[s] + 1].op = "set"
        PROVE  cache'.game = row
    <3> DEFINE c == out[s][done[s] + 1]
    <3>1. done[s] + 1 \in 1 .. Len(out[s])
      BY <2>2, Sizes DEF Execute
    <3>2. c.game = row
      BY <2>2, <3>1 DEF CacheInv, SetsRow
    <3>3. cache' = [game |-> c.game, who |-> c.who]
      BY <2>2 DEF Execute
    <3> QED
      BY <3>2, <3>3
  <2>3. ASSUME NEW s \in Servers, Execute(s), out[s][done[s] + 1].op # "set"
        PROVE  UNCHANGED cache \/ cache' = NULL
    BY <2>3 DEF Execute
  <2>4. \/ UNCHANGED cache \/ cache' = NULL
        \/ \E s \in Servers : Execute(s)
    BY DEF Next, vars, Handle, Serve, Read, Commit, LoseReply, Abort,
       Fanout, Await, Begin, ReadRow, Warm, Served, ReadCache, Deliver, Reply,
       Reconnect, GiveUp, Crash, FindStale, EvictGame, Expire, Age, redis
  <2> QED
    BY <1>3, <2>1, <2>2, <2>3, <2>4
<1> QED
  BY <1>1, <1>2, <1>3 DEF CacheInv

LEMMA CacheStart == Init => CacheInv
<1> SUFFICES ASSUME Init PROVE CacheInv
  OBVIOUS
<1>1. \A w \in Writers : h[w].pc = "idle"
  BY DEF Init, IdleWrite
<1>2. \A s \in Servers : Len(out[s]) = 0 /\ up[s]
  BY DEF Init
<1>3. cache = NULL
  BY DEF Init
<1> QED
  BY <1>1, <1>2, <1>3 DEF CacheInv, WriterInv, SetsRow, AllUp

LEMMA CacheStep ==
    /\ NothingIsDropped /\ Readers = {} /\ OneServer /\ SoloOwner
    /\ Good /\ SoloInv /\ CacheInv /\ [Next]_vars
    => CacheInv'
BY SetsRowStep, WriterStep, CachedStep, UpStep DEF CacheInv

\* One owner of the row on one server, and nothing dropped for good: when all is
\* done the cached game is the row, although submitEvent caches what it computed
\* from an earlier read and a reconnect sends old commands again.
THEOREM SoloCacheIsRow ==
    ASSUME SoloOwner, OneServer, NothingIsDropped, Readers = {} PROVE Spec => []QuietCacheIsRow
<1>1. Good /\ CacheInv => QuietCacheIsRow
  <2> SUFFICES ASSUME Good, CacheInv, Quiescent, cache # NULL PROVE cache.game = row
    BY DEF QuietCacheIsRow
  <2>1. \A s \in Servers : Len(out[s]) = 0 /\ done[s] = 0
    BY Sizes DEF Quiescent
  <2>2. ~Coming
    BY <2>1 DEF Coming, Quiescent
  <2> QED
    BY <2>2 DEF CacheInv
<1>2. SoloScorer
  BY OwnerScores
<1> QED
  BY <1>1, <1>2, CacheStart, CacheStep, SoloStart, SoloStep, Goodness, PTL DEF Spec
=============================================================================
