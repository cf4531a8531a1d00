-------------------------- MODULE GameWritesProofs --------------------------
(***************************************************************************)
(* Proofs about GameWrites, for every set of writers, readers and servers, *)
(* every menu of requests, every list length and every mishap.             *)
(*                                                                         *)
(* Part 1: whoever writes and whatever fails.  The inductive invariant     *)
(* Good says of everything on its way to a fan (handlers, client queues,   *)
(* cache, lists) that it stems from a committed write.                     *)
(***************************************************************************)
EXTENDS GameWrites, SequenceTheorems, TLAPS

-----------------------------------------------------------------------------
(* The score of game g is the opening score or was stored by one of the      *)
(* writes C.                                                                *)
ScoreStored(g, C) ==
    \/ g.home = 0 /\ g.away = 0
    \/ \E m \in C : m.type = "event_update" /\ m.home = g.home /\ m.away = g.away

GoodGame(C) == {g \in Game : ScoreStored(g, C)}

GoodCommand(C) == [op: {"set"}, game: GoodGame(C), who: Process]
                    \cup [op: {"push", "publish"}, msg: C, who: Process]
                    \cup [op: {"evict"}, who: {NULL}]

GoodHandler(x, g, C) ==
    /\ x \in [pc: {"idle", "read", "write", "fanout", "await"},
              req: Request \cup {NoRequest}, srv: Servers \cup {NULL},
              seen: GoodGame(C) \cup {NULL}, msg: C \cup {NULL}]
    /\ x.pc # "idle" => x.req \in Request /\ x.srv \in Servers
    /\ x.pc = "read" => x.req.kind # "create"
    /\ x.pc = "write" /\ x.req.kind # "create" =>
         x.seen \in GoodGame(C) /\ g \in GoodGame(C)
    /\ x.pc \in {"fanout", "await"} =>
         x.seen \in GoodGame(C) /\ (x.req.kind # "create" => x.msg \in C)

GoodReader(x, C) ==
    /\ x \in [pc: {"idle", "miss", "warm", "await"}, srv: Servers \cup {NULL},
              seen: GoodGame(C) \cup {NULL}]
    /\ x.pc # "idle" => x.srv \in Servers
    /\ x.pc = "warm" => x.seen \in GoodGame(C)

GoodDatabase ==
    /\ row \in GoodGame(Committed) \cup {NULL}
    /\ state \in GameState
    /\ stale \in BOOLEAN
    /\ commits \in Seq(Message)

GoodRedis ==
    /\ cache \in [game: GoodGame(Committed), who: Process] \cup {NULL}
    /\ recent \in Seq(Committed)
    /\ published \in Seq(Committed)

GoodClients ==
    /\ out \in [Servers -> Seq(GoodCommand(Committed))]
    /\ done \in [Servers -> Nat]
    /\ \A s \in Servers : done[s] <= Len(out[s])
    /\ up \in [Servers -> BOOLEAN]

GoodProcesses ==
    /\ job \in [Servers -> BOOLEAN]
    /\ h = [w \in Writers |-> h[w]]
    /\ \A w \in Writers : GoodHandler(h[w], row, Committed)
    /\ r = [p \in Readers |-> r[p]]
    /\ \A p \in Readers : GoodReader(r[p], Committed)

GoodBounds == started \in Nat /\ reads \in Nat /\ mishaps \in Nat

Good == GoodDatabase /\ GoodRedis /\ GoodClients /\ GoodProcesses /\ GoodBounds

-----------------------------------------------------------------------------
(* Lemmas about sequences and about the operators of the model *)

\* A sequence over the set of its own messages.
LEMMA CommittedIsRange ==
    ASSUME commits \in Seq(Message)
    PROVE  /\ Committed \subseteq Message
           /\ \A i \in 1 .. Len(commits) : commits[i] \in Committed
BY LenProperties DEF Committed, ToSet

\* A commit adds its message to the committed ones and loses none.
LEMMA CommitAdds ==
    ASSUME commits \in Seq(Message), NEW m \in Message, commits' = Append(commits, m)
    PROVE  /\ commits' \in Seq(Message)
           /\ Last(commits') = m
           /\ m \in Committed'
           /\ Committed \subseteq Committed'
<1>1. /\ commits' \in Seq(Message)
      /\ Len(commits') = Len(commits) + 1
      /\ \A i \in 1 .. Len(commits) : commits'[i] = commits[i]
      /\ commits'[Len(commits) + 1] = m
  BY AppendProperties
<1>2. /\ Len(commits) \in Nat
      /\ DOMAIN commits = 1 .. Len(commits)
      /\ DOMAIN commits' = 1 .. Len(commits) + 1
  BY <1>1, LenProperties
<1>3. Last(commits') = m
  BY <1>1 DEF Last
<1>4. m \in Committed'
  BY <1>1, <1>2 DEF Committed, ToSet
<1>5. Committed \subseteq Committed'
  BY <1>1, <1>2 DEF Committed, ToSet
<1> QED
  BY <1>1, <1>3, <1>4, <1>5

\* What is good stays good when more writes are committed.
LEMMA GoodMonotonic ==
    ASSUME NEW C, NEW D, C \subseteq D
    PROVE  /\ GoodGame(C) \subseteq GoodGame(D)
           /\ GoodCommand(C) \subseteq GoodCommand(D)
<1>1. GoodGame(C) \subseteq GoodGame(D)
  BY DEF GoodGame, ScoreStored
<1> QED
  BY <1>1 DEF GoodCommand

\* LPUSH and LTRIM keep the elements of the list.
LEMMA PushedIsSeq ==
    ASSUME NEW C, NEW msg \in C, NEW list \in Seq(C)
    PROVE  Pushed(msg, list) \in Seq(C)
<1>1. /\ <<msg>> \in Seq(C)
      /\ Len(<<msg>>) = 1
  OBVIOUS
<1>2. /\ <<msg>> \o list \in Seq(C)
      /\ Len(<<msg>> \o list) = 1 + Len(list)
      /\ Len(list) \in Nat
  BY <1>1, ConcatProperties, LenProperties
<1>3. \A i \in 1 .. 1 + Len(list) : (<<msg>> \o list)[i] \in C
  BY <1>2, ElementOfSeq
<1> DEFINE k == IF Len(list) < MaxRecent THEN Len(list) + 1 ELSE MaxRecent
<1>4. k \in Int /\ k <= 1 + Len(list)
  BY <1>2, MaxRecentAssumption
<1>5. \A i \in 1 .. k : (<<msg>> \o list)[i] \in C
  BY <1>2, <1>3, <1>4
<1> HIDE DEF k
<1>6. SubSeq(<<msg>> \o list, 1, k) \in Seq(C)
  BY <1>4, <1>5, SubSeqProperties
<1> QED
  BY <1>6 DEF Pushed, k

\* A computed score that fits is a score.
LEMMA ScoredIsScore ==
    ASSUME NEW g \in Game, NEW side \in Side, NEW delta \in Int,
           Fits(Scored(g, side, delta))
    PROVE  /\ Scored(g, side, delta).home \in Score
           /\ Scored(g, side, delta).away \in Score
BY MaxScoreAssumption DEF Fits, Scored, AtLeastZero, Game, Score, Side

-----------------------------------------------------------------------------
(* The actions one by one *)

\* What one write of a handler does to the database, and what the handler
\* holds afterwards for Redis.
LEMMA WriteIsGood ==
    ASSUME Good, NEW w \in Writers, h[w].pc = "write", Write(w)
    PROVE  /\ GoodDatabase'
           /\ Committed \subseteq Committed'
           /\ row' \in GoodGame(Committed')
           /\ GameToCache(w) \in GoodGame(Committed')
           /\ MessageOf(w) \in Committed' \cup {NULL}
           /\ h[w].req.kind # "create" => MessageOf(w) \in Committed'
<1> DEFINE req == h[w].req
<1>h. /\ req \in Request
      /\ req.kind # "create" => h[w].seen \in GoodGame(Committed) /\ row \in GoodGame(Committed)
  BY DEF Good, GoodProcesses, GoodHandler
<1>c. commits \in Seq(Message) /\ Len(commits) \in Nat
  BY LenProperties DEF Good, GoodDatabase
<1>1. CASE WriteEvent(w)
  <2>1. /\ req \in SubmitRequest
        /\ h[w].seen \in Game /\ row \in Game
    BY <1>1, <1>h DEF WriteEvent, Request, CreateRequest, SubmitRequest,
         TransitionRequest, PatchRequest, GoodGame
  <2> DEFINE score == ScoreFor(h[w].seen, req)
             m == EventMessage(h[w].seen, req)
  <2>2. score.home \in Score /\ score.away \in Score
    BY <1>1, <2>1, ScoredIsScore DEF WriteEvent, ScoreFor, SubmitRequest
  <2>3. /\ m \in Message
        /\ m.type = "event_update" /\ m.home = score.home /\ m.away = score.away
    BY <1>c, <2>1, <2>2 DEF EventMessage, Message, EventUpdate, SubmitRequest, Game
  <2>4. commits' = Append(commits, m) /\ row' = WithScore(row, score)
    BY <1>1 DEF WriteEvent
  <2> HIDE DEF m
  <2>5. /\ commits' \in Seq(Message) /\ Last(commits') = m /\ m \in Committed'
        /\ Committed \subseteq Committed'
    BY <1>c, <2>3, <2>4, CommitAdds
  <2> HIDE DEF score
  <2>6. \A g \in Game : WithScore(g, score) \in GoodGame(Committed')
    BY <2>2, <2>3, <2>5 DEF WithScore, Game, GoodGame, ScoreStored
  <2>7. row' \in GoodGame(Committed')
    BY <2>1, <2>4, <2>6
  <2>8. GameToCache(w) \in GoodGame(Committed')
    BY <1>1, <2>1, <2>6 DEF GameToCache, WriteEvent, score
  <2>9. GoodDatabase'
    BY <1>1, <2>5, <2>7 DEF GoodDatabase, WriteEvent, Good
  <2> QED
    BY <1>1, <2>5, <2>7, <2>8, <2>9 DEF MessageOf, WriteEvent
<1>2. CASE WriteStatus(w)
  <2> DEFINE m == [n |-> Len(commits) + 1, type |-> "status_change", status |-> req.to]
  <2>1. /\ req \in TransitionRequest
        /\ row \in Game /\ ScoreStored(row, Committed)
    BY <1>2, <1>h DEF WriteStatus, Request, CreateRequest, SubmitRequest,
         TransitionRequest, PatchRequest, GoodGame
  <2>2. m \in Message
    BY <1>c, <2>1 DEF Message, StatusChange, TransitionRequest, StatusTransition, Status
  <2>3. commits' = Append(commits, m) /\ row' = WithStatus(row, req.to)
    BY <1>2 DEF WriteStatus
  <2> HIDE DEF m
  <2>4. /\ commits' \in Seq(Message) /\ Last(commits') = m /\ m \in Committed'
        /\ Committed \subseteq Committed'
    BY <1>c, <2>2, <2>3, CommitAdds
  <2>5. row' \in Game /\ row'.home = row.home /\ row'.away = row.away
    BY <2>1, <2>3 DEF WithStatus, Game, TransitionRequest, StatusTransition, Status
  <2>6. row' \in GoodGame(Committed')
    BY <2>1, <2>4, <2>5 DEF GoodGame, ScoreStored
  <2>7. GoodDatabase'
    BY <1>2, <2>4, <2>6 DEF GoodDatabase, WriteStatus, Good
  <2> QED
    BY <1>2, <2>4, <2>6, <2>7 DEF MessageOf, GameToCache, WriteStatus
<1>3. CASE WriteState(w)
  <2> DEFINE m == [n |-> Len(commits) + 1, type |-> "state_update", state |-> state']
  <2>1. /\ req \in PatchRequest
        /\ row \in GoodGame(Committed) /\ state \in GameState
    BY <1>3, <1>h DEF WriteState, Request, CreateRequest, SubmitRequest,
         TransitionRequest, PatchRequest, Good, GoodDatabase
  <2>2. state' \in GameState
    BY <1>3, <2>1 DEF WriteState, Merge, PatchRequest, GameState
  <2>3. m \in Message
    BY <1>c, <2>2 DEF Message, StateUpdate
  <2>4. commits' = Append(commits, m) /\ row' = row
    BY <1>3 DEF WriteState
  <2> HIDE DEF m
  <2>5. /\ commits' \in Seq(Message) /\ Last(commits') = m /\ m \in Committed'
        /\ Committed \subseteq Committed'
    BY <1>c, <2>3, <2>4, CommitAdds
  <2>6. row' \in GoodGame(Committed')
    BY <2>1, <2>4, <2>5, GoodMonotonic
  <2>7. GoodDatabase'
    BY <1>3, <2>2, <2>5, <2>6 DEF GoodDatabase, WriteState, Good
  <2> QED
    BY <1>3, <2>5, <2>6, <2>7 DEF MessageOf, GameToCache, WriteState
<1>4. CASE WriteGame(w)
  <2>1. row' = NewGame /\ commits' = commits /\ Committed' = Committed
    BY <1>4 DEF WriteGame, Committed
  <2>2. row' \in GoodGame(Committed')
    BY <2>1, MaxScoreAssumption
       DEF NewGame, GoodGame, ScoreStored, Game, Status, Score
  <2>3. GoodDatabase'
    BY <1>4, <2>1, <2>2 DEF GoodDatabase, WriteGame, Good
  <2> QED
    BY <1>4, <2>1, <2>2, <2>3 DEF MessageOf, GameToCache, WriteGame
<1> QED
  BY <1>1, <1>2, <1>3, <1>4 DEF Write

\* Commands that are good before stay good, queued behind good ones.
LEMMA EnqueueIsGood ==
    ASSUME GoodClients, NEW s \in Servers, NEW cmds \in Seq(GoodCommand(Committed)),
           Enqueue(s, cmds), UNCHANGED <<commits, done, up>>
    PROVE  GoodClients'
<1>1. Committed' = Committed
  BY DEF Committed
<1>2. CASE up[s]
  <2>1. out' = [out EXCEPT ![s] = out[s] \o cmds]
    BY <1>2 DEF Enqueue
  <2>2. /\ out[s] \o cmds \in Seq(GoodCommand(Committed))
        /\ Len(out[s] \o cmds) = Len(out[s]) + Len(cmds)
        /\ Len(out[s]) \in Nat /\ Len(cmds) \in Nat
    BY ConcatProperties, LenProperties DEF GoodClients
  <2> QED
    BY <1>1, <2>1, <2>2 DEF GoodClients
<1>3. CASE ~up[s]
  BY <1>1, <1>3 DEF Enqueue, GoodClients
<1> QED
  BY <1>2, <1>3

LEMMA HandlerStepIsGood ==
    ASSUME Good, NEW w \in Writers, Handle(w) \/ LoseReply(w)
    PROVE  Good'
<1>c. commits \in Seq(Message)
  BY DEF Good, GoodDatabase
<1>i. \A g, C : GoodHandler(IdleWrite, g, C)
  BY DEF GoodHandler, IdleWrite
<1>g. GoodHandler(h[w], row, Committed)
  BY DEF Good, GoodProcesses
<1>1. CASE Read(w)
  <2>1. Committed' = Committed /\ row' = row
    BY <1>1 DEF Read, postgres, Committed
  <2>2. GoodHandler(h'[w], row, Committed)
    <3>1. CASE Accepts(FindById, h[w].req)
      <4>1. h'[w] = [h[w] EXCEPT !.pc = "write", !.seen = row]
        BY <1>1, <3>1 DEF Read, FindById, Good, GoodProcesses
      <4>2. row \in GoodGame(Committed)
        BY <3>1 DEF Accepts, FindById, Good, GoodDatabase
      <4>3. h[w].pc = "read"
        BY <1>1 DEF Read
      <4> QED
        BY <1>g, <4>1, <4>2, <4>3 DEF GoodHandler
    <3>2. CASE ~Accepts(FindById, h[w].req)
      <4>1. h'[w] = IdleWrite
        BY <1>1, <3>2 DEF Read, Good, GoodProcesses
      <4> QED
        BY <1>i, <4>1
    <3> QED
      BY <3>1, <3>2
  <2>3. GoodProcesses'
    BY <1>1, <2>1, <2>2 DEF Good, GoodProcesses, Read, GoodHandler, GoodReader
  <2> QED
    BY <1>1, <2>1, <2>3 DEF Read, Good, GoodDatabase, GoodRedis, GoodClients,
         GoodBounds, postgres, redis, clients, bounds
<1>2. ASSUME h[w].pc = "write", Write(w), UNCHANGED <<redis, clients, job, r>>,
             \/ h' = [h EXCEPT ![w] = IdleWrite]
             \/ h' = [h EXCEPT ![w].pc = "fanout", ![w].seen = GameToCache(w),
                               ![w].msg = MessageOf(w)]
      PROVE  GoodDatabase' /\ GoodRedis' /\ GoodClients' /\ GoodProcesses'
  <2> DEFINE C == Committed
             D == Committed'
  <2>1. /\ GoodDatabase' /\ C \subseteq D /\ row' \in GoodGame(D)
        /\ GameToCache(w) \in GoodGame(D) /\ MessageOf(w) \in D \cup {NULL}
        /\ h[w].req.kind # "create" => MessageOf(w) \in D
    BY <1>2, WriteIsGood
  <2> HIDE DEF C, D
  <2>2. GoodGame(C) \subseteq GoodGame(D) /\ GoodCommand(C) \subseteq GoodCommand(D)
    BY <2>1, GoodMonotonic
  <2>3. Seq(C) \subseteq Seq(D) /\ Seq(GoodCommand(C)) \subseteq Seq(GoodCommand(D))
    BY <2>1, <2>2, SeqMonotonic
  <2>4. GoodRedis'
    BY <1>2, <2>2, <2>3 DEF Good, GoodRedis, redis, C, D
  <2>5. GoodClients'
    BY <1>2, <2>3 DEF Good, GoodClients, clients, C, D
  <2>6. \A v \in Writers \ {w} : GoodHandler(h[v], row, C)
    BY DEF Good, GoodProcesses, C
  <2>7. \A v \in Writers \ {w} : GoodHandler(h'[v], row', D)
    <3>1. \A v \in Writers \ {w} : h'[v] = h[v]
      BY <1>2 DEF Good, GoodProcesses
    <3>2. SUFFICES ASSUME NEW v \in Writers \ {w}
                   PROVE  GoodHandler(h[v], row', D)
      BY <3>1
    <3>3. GoodHandler(h[v], row, C)
      BY <2>6
    <3> QED
      BY <2>1, <2>2, <3>3 DEF GoodHandler
  <2>8. GoodHandler(h'[w], row', D)
    <3>1. CASE h' = [h EXCEPT ![w] = IdleWrite]
      BY <1>i, <3>1 DEF Good, GoodProcesses, D
    <3>2. CASE h' = [h EXCEPT ![w].pc = "fanout", ![w].seen = GameToCache(w),
                             ![w].msg = MessageOf(w)]
      <4>1. h'[w] = [h[w] EXCEPT !.pc = "fanout", !.seen = GameToCache(w),
                                 !.msg = MessageOf(w)]
        BY <3>2 DEF Good, GoodProcesses
      <4> QED
        BY <1>2, <1>g, <2>1, <4>1 DEF GoodHandler, D
    <3> QED
      BY <1>2, <3>1, <3>2
  <2>9. \A v \in Writers : GoodHandler(h'[v], row', D)
    BY <2>7, <2>8
  <2>10. h' = [v \in Writers |-> h'[v]]
    BY <1>2 DEF Good, GoodProcesses
  <2>11. \A p \in Readers : GoodReader(r'[p], D)
    BY <1>2, <2>2 DEF Good, GoodProcesses, GoodReader, C, D
  <2> QED
    BY <1>2, <2>1, <2>4, <2>5, <2>9, <2>10, <2>11 DEF Good, GoodProcesses, D
<1>3. CASE Commit(w)
  BY <1>2, <1>3 DEF Commit, Good, GoodBounds, bounds
<1>4. CASE LoseReply(w)
  BY <1>2, <1>4 DEF LoseReply, Mishap, Good, GoodBounds
<1>5. CASE Abort(w)
  <2>1. Committed' = Committed /\ row' = row
    BY <1>5 DEF Abort, postgres, Committed
  <2>2. h' = [h EXCEPT ![w] = IdleWrite]
    BY <1>5 DEF Abort
  <2>3. GoodProcesses'
    BY <1>5, <1>i, <2>1, <2>2 DEF Good, GoodProcesses, Abort, GoodHandler, GoodReader
  <2> QED
    BY <1>5, <2>1, <2>3 DEF Abort, Good, GoodDatabase, GoodRedis, GoodClients,
         GoodBounds, postgres, redis, clients, bounds
<1>6. CASE Fanout(w)
  <2>1. Committed' = Committed /\ row' = row
    BY <1>6 DEF Fanout, postgres, Committed
  <2>2. /\ h[w].srv \in Servers /\ h[w].req \in Request
        /\ h[w].seen \in GoodGame(Committed)
        /\ h[w].req.kind # "create" => h[w].msg \in Committed
        /\ w \in Process
    BY <1>6, <1>g DEF Fanout, GoodHandler, Process
  <2>3. /\ SetState(h[w].seen, w) \in GoodCommand(Committed)
        /\ h[w].req.kind # "create" =>
             /\ PushRecent(h[w].msg, w) \in GoodCommand(Committed)
             /\ Publish(h[w].msg, w) \in GoodCommand(Committed)
    BY <2>2 DEF SetState, PushRecent, Publish, GoodCommand
  <2>4. FanoutOf(w) \in Seq(GoodCommand(Committed))
    BY <2>3 DEF FanoutOf
  <2>5. GoodClients'
    BY <1>6, <2>2, <2>4, EnqueueIsGood DEF Fanout, Good, postgres
  <2>6. h'[w] = IdleWrite \/ h'[w] = [h[w] EXCEPT !.pc = "await"]
    BY <1>6 DEF Fanout, Good, GoodProcesses
  <2>7. GoodHandler(h'[w], row, Committed)
    BY <1>6, <1>i, <1>g, <2>6 DEF GoodHandler, Fanout
  <2>8. GoodProcesses'
    BY <1>6, <2>1, <2>7 DEF Good, GoodProcesses, Fanout, GoodHandler, GoodReader
  <2> QED
    BY <1>6, <2>1, <2>5, <2>8 DEF Fanout, Good, GoodDatabase, GoodRedis,
         GoodBounds, postgres, redis, bounds
<1>7. CASE Await(w)
  <2>1. Committed' = Committed /\ row' = row
    BY <1>7 DEF Await, postgres, Committed
  <2>2. /\ h[w].srv \in Servers
        /\ h[w].req.kind = "transition" => h[w].msg \in Committed
        /\ w \in Process
    BY <1>7, <1>g DEF Await, GoodHandler, Process
  <2> DEFINE cmds == IF h[w].req.kind = "transition" THEN <<Publish(h[w].msg, w)>> ELSE << >>
  <2>3. cmds \in Seq(GoodCommand(Committed))
    <3>1. CASE h[w].req.kind = "transition"
      <4>1. Publish(h[w].msg, w) \in GoodCommand(Committed)
        BY <2>2, <3>1 DEF Publish, GoodCommand
      <4> QED
        BY <3>1, <4>1
    <3>2. CASE h[w].req.kind # "transition"
      BY <3>2, EmptySeq
    <3> QED
      BY <3>1, <3>2
  <2>4. Enqueue(h[w].srv, cmds)
    BY <1>7 DEF Await
  <2> HIDE DEF cmds
  <2>5. GoodClients'
    BY <1>7, <2>2, <2>3, <2>4, EnqueueIsGood DEF Await, Good, postgres
  <2>6. h' = [h EXCEPT ![w] = IdleWrite]
    BY <1>7 DEF Await
  <2>7. GoodProcesses'
    BY <1>7, <1>i, <2>1, <2>6 DEF Good, GoodProcesses, Await, GoodHandler, GoodReader
  <2> QED
    BY <1>7, <2>1, <2>5, <2>7 DEF Await, Good, GoodDatabase, GoodRedis,
         GoodBounds, postgres, redis, bounds
<1> QED
  BY <1>1, <1>3, <1>4, <1>5, <1>6, <1>7 DEF Handle

LEMMA ReaderStepIsGood ==
    ASSUME Good, NEW p \in Readers, Serve(p) \/ \E s \in Servers : ReadCache(p, s)
    PROVE  Good'
<1>g. GoodReader(r[p], Committed)
  BY DEF Good, GoodProcesses
<1>i. GoodReader(IdleRead, Committed)
  BY DEF GoodReader, IdleRead
<1>c. Committed' = Committed /\ UNCHANGED <<postgres, redis, job, h>>
  BY DEF Serve, ReadCache, ReadRow, Warm, Served, postgres, Committed
<1>1. SUFFICES GoodClients' /\ GoodProcesses' /\ GoodBounds'
  BY <1>c DEF Good, GoodDatabase, GoodRedis, postgres, redis
<1>2. ASSUME GoodReader(r'[p], Committed), \E x : r' = [r EXCEPT ![p] = x]
      PROVE  GoodProcesses'
  <2>1. \A q \in Readers \ {p} : r'[q] = r[q]
    BY <1>2 DEF Good, GoodProcesses
  <2>2. \A q \in Readers : GoodReader(r'[q], Committed)
    BY <1>2, <2>1 DEF Good, GoodProcesses
  <2>3. r' = [q \in Readers |-> r'[q]]
    BY <1>2 DEF Good, GoodProcesses
  <2> QED
    BY <1>c, <2>2, <2>3 DEF Good, GoodProcesses, postgres
<1>3. ASSUME NEW s \in Servers, ReadCache(p, s)
      PROVE  GoodClients' /\ GoodProcesses' /\ GoodBounds'
  <2>1. GoodReader(r'[p], Committed)
    BY <1>3, <1>i DEF ReadCache, GoodReader, Good, GoodProcesses
  <2>2. GoodProcesses'
    BY <1>2, <1>3, <2>1 DEF ReadCache
  <2> QED
    BY <1>3, <1>c, <2>2 DEF ReadCache, Good, GoodClients, GoodBounds, clients
<1>4. CASE ReadRow(p)
  <2>1. CASE row = NULL
    BY <1>2, <1>4, <1>c, <1>i, <2>1
       DEF ReadRow, Good, GoodProcesses, GoodClients, GoodBounds, clients, bounds
  <2>2. CASE row # NULL
    <3>1. /\ r' = [r EXCEPT ![p] = [r[p] EXCEPT !.pc = "warm", !.seen = row]]
          /\ r[p].pc = "miss"
      BY <1>4, <2>2 DEF ReadRow
    <3>2. r'[p] = [r[p] EXCEPT !.pc = "warm", !.seen = row]
      BY <3>1 DEF Good, GoodProcesses
    <3>3. row \in GoodGame(Committed)
      BY <2>2 DEF Good, GoodDatabase
    <3>4. GoodReader(r'[p], Committed)
      BY <1>g, <3>1, <3>2, <3>3 DEF GoodReader
    <3> QED
      BY <1>2, <1>4, <1>c, <3>1, <3>4
         DEF ReadRow, Good, GoodClients, GoodBounds, clients, bounds
  <2> QED
    BY <2>1, <2>2
<1>5. CASE Warm(p)
  <2>1. r[p].pc = "warm" /\ r' = [r EXCEPT ![p] = [r[p] EXCEPT !.pc = "await"]]
    BY <1>5 DEF Warm
  <2>2. r'[p] = [r[p] EXCEPT !.pc = "await"]
    BY <2>1 DEF Good, GoodProcesses
  <2>3. GoodReader(r'[p], Committed)
    BY <1>g, <2>1, <2>2 DEF GoodReader
  <2>4. /\ r[p].srv \in Servers
        /\ SetState(r[p].seen, p) \in GoodCommand(Committed)
    BY <1>g, <2>1 DEF GoodReader, SetState, GoodCommand, Process
  <2>5. /\ Enqueue(r[p].srv, <<SetState(r[p].seen, p)>>)
        /\ UNCHANGED <<commits, done, up>>
    BY <1>5 DEF Warm, postgres
  <2>6. <<SetState(r[p].seen, p)>> \in Seq(GoodCommand(Committed))
    BY <2>4
  <2>7. GoodClients'
    BY <2>4, <2>5, <2>6, EnqueueIsGood DEF Good
  <2> QED
    BY <1>2, <1>5, <2>1, <2>3, <2>7 DEF Warm, Good, GoodBounds, bounds
<1>6. CASE Served(p)
  <2>1. r' = [r EXCEPT ![p] = IdleRead] /\ r'[p] = IdleRead
    BY <1>6 DEF Served, Good, GoodProcesses
  <2>2. GoodProcesses'
    BY <1>2, <1>i, <2>1
  <2> QED
    BY <1>6, <1>c, <2>2 DEF Served, Good, GoodClients, GoodBounds, clients, bounds
<1> QED
  BY <1>3, <1>4, <1>5, <1>6 DEF Serve

LEMMA ServerStepIsGood ==
    ASSUME Good, NEW s \in Servers,
           \/ Deliver(s) \/ Reconnect(s) \/ GiveUp(s) \/ Crash(s)
           \/ FindStale(s) \/ EvictGame(s)
    PROVE  Good'
<1>c. Committed' = Committed /\ UNCHANGED postgres
  BY DEF Deliver, Execute, Reply, Reconnect, GiveUp, Crash, FindStale, EvictGame,
         postgres, Committed
<1>d. GoodDatabase'
  BY <1>c DEF Good, GoodDatabase, postgres
<1> DEFINE C == Committed
<1>o. /\ out[s] \in Seq(GoodCommand(C)) /\ Len(out[s]) \in Nat
      /\ done[s] \in Nat /\ done[s] <= Len(out[s])
  BY LenProperties DEF Good, GoodClients
<1>1. CASE Execute(s)
  <2> DEFINE cmd == out[s][done[s] + 1]
  <2>1. cmd \in GoodCommand(C)
    BY <1>1, <1>o, ElementOfSeq DEF Execute
  <2>2. /\ cache' = CASE cmd.op = "set"   -> [game |-> cmd.game, who |-> cmd.who]
                      [] cmd.op = "evict" -> NULL
                      [] OTHER            -> cache
        /\ recent' = CASE cmd.op = "push"  -> Pushed(cmd.msg, recent)
                       [] cmd.op = "evict" -> << >>
                       [] OTHER            -> recent
        /\ published' = IF cmd.op = "publish" THEN Append(published, cmd.msg)
                                              ELSE published
    BY <1>1 DEF Execute
  <2> HIDE DEF cmd
  <2>3. \/ /\ cmd.op = "set" /\ cmd.game \in GoodGame(C) /\ cmd.who \in Process
        \/ cmd.op \in {"push", "publish"} /\ cmd.msg \in C
        \/ cmd.op = "evict"
    BY <2>1 DEF GoodCommand
  <2>4. cache' \in [game: GoodGame(C), who: Process] \cup {NULL}
    BY <2>2, <2>3 DEF Good, GoodRedis
  <2>5. recent' \in Seq(C)
    BY <2>2, <2>3, PushedIsSeq, EmptySeq DEF Good, GoodRedis
  <2>6. published' \in Seq(C)
    BY <2>2, <2>3, AppendProperties DEF Good, GoodRedis
  <2>7. GoodClients'
    BY <1>1, <1>c, <1>o DEF Execute, Good, GoodClients
  <2>8. GoodProcesses' /\ GoodBounds'
    BY <1>1, <1>c DEF Execute, Good, GoodProcesses, GoodBounds, postgres, bounds
  <2> QED
    BY <1>c, <1>d, <2>4, <2>5, <2>6, <2>7, <2>8 DEF Good, GoodRedis
<1>2. CASE Reply(s)
  <2>1. out[s] # << >>
    BY <1>2, <1>o, EmptySeq DEF Reply
  <2>2. Tail(out[s]) \in Seq(GoodCommand(C)) /\ Len(Tail(out[s])) = Len(out[s]) - 1
    BY <1>o, <2>1, HeadTailProperties
  <2>3. GoodClients'
    BY <1>2, <1>c, <1>o, <2>2 DEF Reply, Good, GoodClients
  <2> QED
    BY <1>2, <1>c, <1>d, <2>3 DEF Reply, Good, GoodRedis, GoodProcesses,
         GoodBounds, postgres, redis, bounds
<1>3. CASE Reconnect(s)
  <2>1. GoodClients'
    BY <1>3, <1>c, <1>o DEF Reconnect, Good, GoodClients
  <2> QED
    BY <1>3, <1>c, <1>d, <2>1 DEF Reconnect, Mishap, Good, GoodRedis,
         GoodProcesses, GoodBounds, postgres, redis
<1>4. CASE GiveUp(s)
  <2>1. GoodClients'
    BY <1>4, <1>c, <1>o, EmptySeq DEF GiveUp, Good, GoodClients
  <2> QED
    BY <1>4, <1>c, <1>d, <2>1 DEF GiveUp, Mishap, Good, GoodRedis,
         GoodProcesses, GoodBounds, postgres, redis
<1>5. CASE Crash(s)
  <2>1. GoodClients'
    BY <1>5, <1>c, <1>o, EmptySeq DEF Crash, Good, GoodClients
  <2>2. \A w \in Writers : GoodHandler(h'[w], row, C)
    <3>1. \A w \in Writers : h'[w] = IdleWrite \/ h'[w] = h[w]
      BY <1>5 DEF Crash
    <3>2. GoodHandler(IdleWrite, row, C)
      BY DEF GoodHandler, IdleWrite
    <3> QED
      BY <3>1, <3>2 DEF Good, GoodProcesses
  <2>3. \A p \in Readers : GoodReader(r'[p], C)
    <3>1. \A p \in Readers : r'[p] = IdleRead \/ r'[p] = r[p]
      BY <1>5 DEF Crash
    <3>2. GoodReader(IdleRead, C)
      BY DEF GoodReader, IdleRead
    <3> QED
      BY <3>1, <3>2 DEF Good, GoodProcesses
  <2>4. /\ h' = [w \in Writers |-> h'[w]] /\ r' = [p \in Readers |-> r'[p]]
        /\ job' \in [Servers -> BOOLEAN]
    BY <1>5 DEF Crash, Good, GoodProcesses
  <2>5. GoodProcesses'
    BY <1>c, <2>2, <2>3, <2>4 DEF GoodProcesses, postgres
  <2> QED
    BY <1>5, <1>c, <1>d, <2>1, <2>5 DEF Crash, Mishap, Good, GoodRedis,
         GoodBounds, postgres, redis
<1>6. CASE FindStale(s)
  BY <1>6, <1>c, <1>d DEF FindStale, Good, GoodRedis, GoodClients, GoodProcesses,
         GoodBounds, postgres, redis, clients, bounds
<1>7. CASE EvictGame(s)
  <2>1. Evict \in GoodCommand(C)
    BY DEF Evict, GoodCommand
  <2>2. <<Evict>> \in Seq(GoodCommand(C))
    BY <2>1
  <2>3. Enqueue(s, <<Evict>>) /\ UNCHANGED <<commits, done, up>>
    BY <1>7 DEF EvictGame, postgres
  <2>4. GoodClients'
    BY <2>2, <2>3, EnqueueIsGood DEF Good
  <2> QED
    BY <1>7, <1>c, <1>d, <2>4 DEF EvictGame, Good, GoodRedis, GoodProcesses,
         GoodBounds, postgres, redis, bounds
<1> QED
  BY <1>1, <1>2, <1>3, <1>4, <1>5, <1>6, <1>7 DEF Deliver

-----------------------------------------------------------------------------
(* The theorems of part 1 *)

LEMMA InitIsGood == Init => Good
<1> SUFFICES ASSUME Init PROVE Good
  OBVIOUS
<1>1. GoodDatabase
  BY EmptySeq DEF Init, GoodDatabase, NoState, GameState
<1>2. GoodRedis
  BY EmptySeq DEF Init, GoodRedis
<1>3. GoodClients
  BY EmptySeq DEF Init, GoodClients
<1>4. GoodProcesses
  BY DEF Init, GoodProcesses, GoodHandler, GoodReader, IdleWrite, IdleRead
<1>5. GoodBounds
  BY DEF Init, GoodBounds
<1> QED
  BY <1>1, <1>2, <1>3, <1>4, <1>5 DEF Good

LEMMA StepIsGood == Good /\ [Next]_vars => Good'
<1> SUFFICES ASSUME Good, [Next]_vars PROVE Good'
  OBVIOUS
<1>1. ASSUME NEW w \in Writers, Handle(w) \/ LoseReply(w) PROVE Good'
  BY <1>1, HandlerStepIsGood
<1>2. ASSUME NEW w \in Writers, NEW s \in Servers, Begin(w, s) PROVE Good'
  <2>1. Committed' = Committed
    BY <1>2 DEF Begin, postgres, Committed
  <2>2. PICK req \in MayRequest[w] :
          h' = [h EXCEPT ![w] =
                 [IdleWrite EXCEPT !.pc = IF req.kind = "create" THEN "write" ELSE "read",
                                   !.req = req, !.srv = s]]
    BY <1>2 DEF Begin
  <2>3. req \in Request
    BY MayRequestAssumption
  <2>4. GoodHandler(h'[w], row, Committed)
    BY <2>2, <2>3 DEF GoodHandler, IdleWrite, Good, GoodProcesses
  <2>5. GoodProcesses'
    BY <1>2, <2>1, <2>2, <2>4 DEF Begin, Good, GoodProcesses, postgres
  <2> QED
    BY <1>2, <2>1, <2>5 DEF Begin, Good, GoodDatabase, GoodRedis, GoodClients,
         GoodBounds, postgres, redis, clients
<1>3. ASSUME NEW p \in Readers, Serve(p) \/ \E s \in Servers : ReadCache(p, s) PROVE Good'
  BY <1>3, ReaderStepIsGood
<1>4. ASSUME NEW s \in Servers,
             \/ Deliver(s) \/ Reconnect(s) \/ GiveUp(s) \/ Crash(s)
             \/ FindStale(s) \/ EvictGame(s)
      PROVE  Good'
  BY <1>4, ServerStepIsGood
<1>5. CASE Expire
  <2>1. Committed' = Committed /\ UNCHANGED <<row, state, stale, commits>>
    BY <1>5 DEF Expire, postgres, Committed
  <2>2. GoodRedis'
    BY <1>5, <2>1, EmptySeq DEF Expire, Good, GoodRedis
  <2>3. GoodClients' /\ GoodProcesses' /\ GoodBounds'
    BY <1>5, <2>1 DEF Expire, Mishap, Good, GoodClients, GoodProcesses, GoodBounds, clients
  <2> QED
    BY <2>1, <2>2, <2>3 DEF Good, GoodDatabase
<1>6. CASE Age
  BY <1>6 DEF Age, Good, GoodDatabase, GoodRedis, GoodClients, GoodProcesses,
         GoodBounds, redis, clients, bounds, Committed
<1>7. CASE UNCHANGED vars
  BY <1>7 DEF vars, Good, GoodDatabase, GoodRedis, GoodClients, GoodProcesses,
         GoodBounds, Committed
<1> QED
  BY <1>1, <1>2, <1>3, <1>4, <1>5, <1>6, <1>7 DEF Next

\* Good holds in every reachable state.
THEOREM Goodness == Spec => []Good
BY InitIsGood, StepIsGood, PTL DEF Spec

\* Type correctness, whoever writes and whatever fails: the score columns stay
\* in their range and no reply is missing its command.
THEOREM TypeCorrectness == Spec => []TypeOK
<1>1. Good => TypeOK
  <2> SUFFICES ASSUME Good PROVE TypeOK
    OBVIOUS
  <2>1. Committed \subseteq Message /\ commits \in Seq(Message)
    BY CommittedIsRange DEF Good, GoodDatabase
  <2>2. GoodGame(Committed) \subseteq Game
    BY DEF GoodGame
  <2>3. GoodCommand(Committed) \subseteq Command
    BY <2>1, <2>2 DEF GoodCommand, Command
  <2>4. Seq(Committed) \subseteq Seq(Message)
        /\ Seq(GoodCommand(Committed)) \subseteq Seq(Command)
    BY <2>1, <2>3, SeqMonotonic
  <2>5. /\ row \in Game \cup {NULL} /\ state \in GameState /\ stale \in BOOLEAN
    BY <2>2 DEF Good, GoodDatabase
  <2>6. /\ cache \in [game: Game, who: Process] \cup {NULL}
        /\ recent \in Seq(Message) /\ published \in Seq(Message)
    BY <2>2, <2>4 DEF Good, GoodRedis
  <2>7. /\ out \in [Servers -> Seq(Command)] /\ done \in [Servers -> Nat]
        /\ \A s \in Servers : done[s] <= Len(out[s])
        /\ up \in [Servers -> BOOLEAN]
    BY <2>4 DEF Good, GoodClients
  <2>8. \A w \in Writers : h[w] \in Handler
    BY <2>1, <2>2 DEF Good, GoodProcesses, GoodHandler, Handler
  <2>9. \A p \in Readers : r[p] \in Reader
    BY <2>2 DEF Good, GoodProcesses, GoodReader, Reader
  <2>10. h \in [Writers -> Handler] /\ r \in [Readers -> Reader]
    BY <2>8, <2>9 DEF Good, GoodProcesses
  <2> QED
    BY <2>1, <2>5, <2>6, <2>7, <2>10 DEF TypeOK, Good, GoodBounds, GoodProcesses
<1> QED
  BY <1>1, Goodness, PTL

\* Nothing uncommitted is ever published or listed for catch-up.
THEOREM OnlyCommittedIsShown == Spec => []NothingUncommittedIsShown
<1>1. Good => NothingUncommittedIsShown
  BY LenProperties, ElementOfSeq
     DEF Good, GoodRedis, NothingUncommittedIsShown, ToSet
<1> QED
  BY <1>1, Goodness, PTL

\* The cache never shows a score that no transaction stored.
THEOREM CacheShowsStoredScores == Spec => []CachedScoreWasStored
<1>1. Good => CachedScoreWasStored
  BY DEF Good, GoodRedis, GoodGame, ScoreStored, CachedScoreWasStored
<1> QED
  BY <1>1, Goodness, PTL

-----------------------------------------------------------------------------
(* Part 2: an event is only recorded for a game that was started.           *)

HasEvent == \E m \in Committed : m.type = "event_update"
Started == row # NULL /\ row.started

StartInv ==
    /\ row # NULL /\ row.status = "active" => row.started
    /\ \A w \in Writers : h[w].pc = "write" /\ h[w].req.kind = "submit" => Started
    /\ HasEvent => Started

\* Only a write touches the row and the committed messages.
LEMMA OnlyWritesChangeRow ==
    ASSUME [Next]_vars
    PROVE  \/ UNCHANGED <<row, commits>>
           \/ \E w \in Writers : h[w].pc = "write" /\ Write(w) /\ (Commit(w) \/ LoseReply(w))
BY DEF Next, vars, Handle, Read, Commit, LoseReply, Abort, Fanout, Await, Begin,
       Serve, ReadRow, Warm, Served, ReadCache, Deliver, Execute, Reply, Reconnect,
       GiveUp, Crash, FindStale, EvictGame, Expire, Age, postgres

\* A handler comes to its write by a read that accepted the request, or by
\* asking for a new game.
LEMMA EnterWrite ==
    ASSUME Good, [Next]_vars, NEW w \in Writers, h'[w].pc = "write"
    PROVE  \/ h'[w] = h[w]
           \/ /\ UNCHANGED <<row, commits>>
              /\ h'[w].req.kind = "create"
           \/ /\ UNCHANGED <<row, commits>>
              /\ h[w].pc = "read" /\ h'[w].req = h[w].req
              /\ Accepts(row, h[w].req) /\ h'[w].seen = row
<1>h. h = [v \in Writers |-> h[v]]
  BY DEF Good, GoodProcesses
<1>1. SUFFICES ASSUME h'[w] # h[w]
               PROVE  /\ UNCHANGED <<row, commits>>
                      /\ \/ h'[w].req.kind = "create"
                         \/ /\ h[w].pc = "read" /\ h'[w].req = h[w].req
                            /\ Accepts(row, h[w].req) /\ h'[w].seen = row
  OBVIOUS
<1>i. IdleWrite.pc = "idle"
  BY DEF IdleWrite
<1>2. ASSUME NEW v \in Writers, Read(v)
      PROVE  /\ UNCHANGED <<row, commits>> /\ h[w].pc = "read"
             /\ h'[w].req = h[w].req /\ Accepts(row, h[w].req) /\ h'[w].seen = row
  <2>1. v = w
    BY <1>1, <1>h, <1>2 DEF Read
  <2>2. h'[w] = IF Accepts(row, h[w].req)
                  THEN [h[w] EXCEPT !.pc = "write", !.seen = row] ELSE IdleWrite
    BY <1>h, <1>2, <2>1 DEF Read, FindById
  <2>3. Accepts(row, h[w].req) /\ h'[w] = [h[w] EXCEPT !.pc = "write", !.seen = row]
    BY <1>i, <2>2
  <2>4. h[w] \in [pc: {"idle", "read", "write", "fanout", "await"},
                  req: Request \cup {NoRequest}, srv: Servers \cup {NULL},
                  seen: GoodGame(Committed) \cup {NULL}, msg: Committed \cup {NULL}]
    BY DEF Good, GoodProcesses, GoodHandler
  <2>5. h'[w].req = h[w].req /\ h'[w].seen = row
    BY <2>3, <2>4
  <2> QED
    BY <1>2, <2>1, <2>3, <2>5 DEF Read, postgres
<1>3. ASSUME NEW v \in Writers, NEW s \in Servers, Begin(v, s)
      PROVE  UNCHANGED <<row, commits>> /\ h'[w].req.kind = "create"
  <2>1. PICK req \in MayRequest[v] :
          h' = [h EXCEPT ![v] =
                 [IdleWrite EXCEPT !.pc = IF req.kind = "create" THEN "write" ELSE "read",
                                   !.req = req, !.srv = s]]
    BY <1>3 DEF Begin
  <2>2. v = w
    BY <1>1, <1>h, <2>1
  <2>3. h'[w] = [IdleWrite EXCEPT !.pc = IF req.kind = "create" THEN "write" ELSE "read",
                                  !.req = req, !.srv = s]
    BY <1>h, <2>1, <2>2
  <2>4. h'[w].req = req /\ h'[w].pc = IF req.kind = "create" THEN "write" ELSE "read"
    BY <2>3 DEF IdleWrite
  <2>5. req.kind = "create"
    BY <2>4
  <2> QED
    BY <1>3, <2>4, <2>5 DEF Begin, postgres
<1>4. ASSUME NEW v \in Writers,
             Commit(v) \/ LoseReply(v) \/ Abort(v) \/ Fanout(v) \/ Await(v)
      PROVE  FALSE
  <2>1. v = w
    BY <1>1, <1>h, <1>4 DEF Commit, LoseReply, Abort, Fanout, Await
  <2>2. h'[w] = IdleWrite \/ h'[w].pc \in {"fanout", "await"}
    BY <1>h, <1>4, <2>1 DEF Commit, LoseReply, Abort, Fanout, Await, Good,
         GoodProcesses, GoodHandler
  <2> QED
    BY <1>i, <2>2
<1>5. ASSUME NEW s \in Servers, Crash(s) PROVE FALSE
  BY <1>1, <1>5, <1>i DEF Crash
<1>6. ~UNCHANGED h
  BY <1>1
<1> QED
  BY <1>2, <1>3, <1>4, <1>5, <1>6 DEF Next, vars, Handle, Serve, ReadRow, Warm,
       Served, ReadCache, Deliver, Execute, Reply, Reconnect, GiveUp, FindStale,
       EvictGame, Expire, Age

\* What a write does to the row and to the committed messages, by kind.
LEMMA WriteEffect ==
    ASSUME Good, NEW w \in Writers, h[w].pc = "write", Write(w)
    PROVE  \/ /\ h[w].req \in SubmitRequest /\ row \in Game /\ h[w].seen \in Game
              /\ row' = WithScore(row, ScoreFor(h[w].seen, h[w].req))
              /\ Last(commits') = EventMessage(h[w].seen, h[w].req)
              /\ Committed' = Committed \cup {Last(commits')}
           \/ /\ h[w].req \in TransitionRequest /\ row \in Game
              /\ row' = WithStatus(row, h[w].req.to)
              /\ Last(commits').type = "status_change"
              /\ Committed' = Committed \cup {Last(commits')}
           \/ /\ h[w].req \in PatchRequest /\ row' = row
              /\ Last(commits').type = "state_update"
              /\ Committed' = Committed \cup {Last(commits')}
           \/ /\ h[w].req.kind = "create"
              /\ row = NULL /\ row' = NewGame /\ commits' = commits
<1>1. /\ h[w].req \in Request
      /\ h[w].req.kind # "create" => h[w].seen \in Game /\ row \in Game
      /\ commits \in Seq(Message)
  BY DEF Good, GoodDatabase, GoodProcesses, GoodHandler, GoodGame
<1>2. \A m : commits' = Append(commits, m) =>
               Last(commits') = m /\ Committed' = Committed \cup {m}
  <2> SUFFICES ASSUME NEW m, commits' = Append(commits, m)
               PROVE  Last(commits') = m /\ Committed' = Committed \cup {m}
    OBVIOUS
  <2> DEFINE T == Message \cup {m}
  <2>1. commits \in Seq(T) /\ m \in T
    BY <1>1, SeqMonotonic
  <2> HIDE DEF T
  <2>2. /\ commits' \in Seq(T) /\ Len(commits') = Len(commits) + 1
        /\ \A i \in 1 .. Len(commits) : commits'[i] = commits[i]
        /\ commits'[Len(commits) + 1] = m
    BY <2>1, AppendProperties
  <2>3. /\ Len(commits) \in Nat /\ DOMAIN commits = 1 .. Len(commits)
        /\ DOMAIN commits' = 1 .. Len(commits) + 1
    BY <2>1, <2>2, LenProperties
  <2>4. Last(commits') = m
    BY <2>2 DEF Last
  <2>5. Committed' \subseteq Committed \cup {m}
    <3>1. \A i \in 1 .. Len(commits) + 1 : i \in 1 .. Len(commits) \/ i = Len(commits) + 1
      BY <2>3
    <3> QED
      BY <2>2, <2>3, <3>1 DEF Committed, ToSet
  <2>6. Committed \cup {m} \subseteq Committed'
    BY <2>2, <2>3 DEF Committed, ToSet
  <2> QED
    BY <2>4, <2>5, <2>6
<1>3. CASE WriteEvent(w)
  <2>1. /\ h[w].req.kind = "submit"
        /\ row' = WithScore(row, ScoreFor(h[w].seen, h[w].req))
        /\ commits' = Append(commits, EventMessage(h[w].seen, h[w].req))
    BY <1>3 DEF WriteEvent
  <2>2. h[w].req \in SubmitRequest
    BY <1>1, <2>1 DEF Request, CreateRequest, SubmitRequest, TransitionRequest, PatchRequest
  <2>3. /\ Last(commits') = EventMessage(h[w].seen, h[w].req)
        /\ Committed' = Committed \cup {Last(commits')}
    BY <1>2, <2>1
  <2> QED
    BY <1>1, <2>1, <2>2, <2>3
<1>4. CASE WriteStatus(w)
  <2> DEFINE m == [n |-> Len(commits) + 1, type |-> "status_change", status |-> h[w].req.to]
  <2>1. /\ h[w].req.kind = "transition"
        /\ row' = WithStatus(row, h[w].req.to)
        /\ commits' = Append(commits, m)
    BY <1>4 DEF WriteStatus
  <2>2. h[w].req \in TransitionRequest
    BY <1>1, <2>1 DEF Request, CreateRequest, SubmitRequest, TransitionRequest, PatchRequest
  <2>3. m.type = "status_change"
    OBVIOUS
  <2> HIDE DEF m
  <2>4. Last(commits') = m /\ Committed' = Committed \cup {Last(commits')}
    BY <1>2, <2>1
  <2> QED
    BY <1>1, <2>1, <2>2, <2>3, <2>4
<1>5. CASE WriteState(w)
  <2> DEFINE m == [n |-> Len(commits) + 1, type |-> "state_update", state |-> state']
  <2>1. h[w].req.kind = "patch" /\ row' = row /\ commits' = Append(commits, m)
    BY <1>5 DEF WriteState
  <2>2. h[w].req \in PatchRequest
    BY <1>1, <2>1 DEF Request, CreateRequest, SubmitRequest, TransitionRequest, PatchRequest
  <2>3. m.type = "state_update"
    OBVIOUS
  <2> HIDE DEF m
  <2>4. Last(commits') = m /\ Committed' = Committed \cup {Last(commits')}
    BY <1>2, <2>1
  <2> QED
    BY <2>1, <2>2, <2>3, <2>4
<1>6. CASE WriteGame(w)
  BY <1>6 DEF WriteGame
<1> QED
  BY <1>3, <1>4, <1>5, <1>6 DEF Write

LEMMA StartStep == Good /\ StartInv /\ [Next]_vars => StartInv'
<1> SUFFICES ASSUME Good, StartInv, [Next]_vars PROVE StartInv'
  OBVIOUS
<1>1. /\ row' # NULL /\ row'.status = "active" => row'.started
      /\ Started => Started'
      /\ HasEvent' => Started'
  <2>1. CASE UNCHANGED <<row, commits>>
    BY <2>1 DEF StartInv, Started, HasEvent, Committed
  <2>2. ASSUME NEW w \in Writers, h[w].pc = "write", Write(w)
        PROVE  /\ row' # NULL /\ row'.status = "active" => row'.started
               /\ Started => Started'
               /\ HasEvent' => Started'
    <3>1. CASE /\ h[w].req \in SubmitRequest /\ row \in Game
               /\ row' = WithScore(row, ScoreFor(h[w].seen, h[w].req))
      <4>1. Started
        BY <2>2, <3>1 DEF StartInv, SubmitRequest
      <4>2. row'.started = row.started /\ row' # NULL
        <5> DEFINE sc == ScoreFor(h[w].seen, h[w].req)
        <5>1. sc.home \in Int /\ sc.away \in Int
          <6>1. h[w].seen \in Game /\ h[w].req.delta \in Int
            BY <2>2, <3>1 DEF Good, GoodProcesses, GoodHandler, GoodGame, SubmitRequest
          <6> QED
            BY <6>1 DEF ScoreFor, Scored, AtLeastZero, Game, Score
        <5> HIDE DEF sc
        <5> QED
          BY <2>2, <3>1, <4>1, WriteIsGood, NullAssumption
             DEF WithScore, Game, sc, GoodGame
      <4> QED
        BY <4>1, <4>2 DEF Started
    <3>2. CASE /\ h[w].req \in TransitionRequest /\ row \in Game
               /\ row' = WithStatus(row, h[w].req.to)
               /\ Last(commits').type = "status_change"
               /\ Committed' = Committed \cup {Last(commits')}
      <4>1. /\ row'.started = (row.started \/ h[w].req.to = "active")
            /\ row'.status = h[w].req.to
        BY <3>2 DEF WithStatus, Game
      <4>2. row' # NULL
        BY <2>2, WriteIsGood, NullAssumption DEF GoodGame
      <4>3. HasEvent' => HasEvent
        BY <3>2 DEF HasEvent
      <4> QED
        BY <4>1, <4>2, <4>3 DEF StartInv, Started
    <3>3. CASE /\ h[w].req \in PatchRequest /\ row' = row
               /\ Last(commits').type = "state_update"
               /\ Committed' = Committed \cup {Last(commits')}
      BY <3>3 DEF StartInv, Started, HasEvent
    <3>4. CASE row = NULL /\ row' = NewGame /\ commits' = commits
      BY <3>4 DEF StartInv, Started, HasEvent, Committed, NewGame
    <3> QED
      BY <2>2, <3>1, <3>2, <3>3, <3>4, WriteEffect
  <2> QED
    BY <2>1, <2>2, OnlyWritesChangeRow
<1>2. \A w \in Writers : h'[w].pc = "write" /\ h'[w].req.kind = "submit" => Started'
  <2> SUFFICES ASSUME NEW w \in Writers, h'[w].pc = "write", h'[w].req.kind = "submit"
               PROVE  Started'
    OBVIOUS
  <2>1. CASE h'[w] = h[w]
    BY <1>1, <2>1 DEF StartInv
  <2>2. CASE /\ UNCHANGED <<row, commits>>
             /\ h[w].pc = "read" /\ h'[w].req = h[w].req
             /\ Accepts(row, h[w].req) /\ h'[w].seen = row
    BY <2>2 DEF Accepts, StartInv, Started
  <2> QED
    BY <2>1, <2>2, EnterWrite
<1> QED
  BY <1>1, <1>2 DEF StartInv, HasEvent, Started

\* Events are only recorded for games that were started, whatever the
\* interleaving of submitEvent and transitionStatus.
THEOREM NoEventBeforeStart == Spec => []EventsOnlyAfterStart
<1>1. Init => StartInv
  BY DEF Init, StartInv, Started, HasEvent, Committed, ToSet, IdleWrite
<1>2. StartInv => EventsOnlyAfterStart
  BY DEF StartInv, EventsOnlyAfterStart, HasEvent, Started
<1> QED
  BY <1>1, <1>2, StartStep, Goodness, PTL DEF Spec

-----------------------------------------------------------------------------
(* Part 3: one score keeper.  If at most one client submits events and      *)
(* moves the status, what it read is still the row when it writes, whatever *)
(* the others patch and whatever fails.  Without that assumption TLC finds  *)
(* NoLostUpdate violated (run lost_update); StatusFollowsMachine fails the  *)
(* same way.                                                                *)

KeepsScore(w) ==
    \E req \in MayRequest[w] : req.kind \in {"submit", "transition"}

SoloScorer ==
    \A v, w \in Writers : KeepsScore(v) /\ KeepsScore(w) => v = w

\* A handler works on what its client may ask for.
AskedInv == \A w \in Writers : h[w].pc # "idle" => h[w].req \in MayRequest[w]

SoloInv ==
    /\ AskedInv
    /\ \A w \in Writers :
         h[w].pc = "write" /\ h[w].req.kind \in {"submit", "transition"} =>
           h[w].seen = row /\ Accepts(row, h[w].req)

\* A request is kept until the handler is idle again.
LEMMA RequestIsAsked ==
    ASSUME Good, AskedInv, [Next]_vars, NEW w \in Writers, h'[w].pc # "idle"
    PROVE  h'[w].req \in MayRequest[w]
<1>h. h = [v \in Writers |-> h[v]]
  BY DEF Good, GoodProcesses
<1>1. CASE h'[w].req = h[w].req /\ h[w].pc # "idle"
  BY <1>1 DEF AskedInv
<1>2. CASE \E s \in Servers : Begin(w, s)
  <2>1. PICK req \in MayRequest[w], s \in Servers :
          h' = [h EXCEPT ![w] =
                 [IdleWrite EXCEPT !.pc = IF req.kind = "create" THEN "write" ELSE "read",
                                   !.req = req, !.srv = s]]
    BY <1>2 DEF Begin
  <2>2. h'[w] = [IdleWrite EXCEPT !.pc = IF req.kind = "create" THEN "write" ELSE "read",
                                  !.req = req, !.srv = s]
    BY <1>h, <2>1
  <2> QED
    BY <2>2 DEF IdleWrite
<1>3. \/ h'[w] = h[w] \/ h'[w] = IdleWrite
      \/ h[w].pc # "idle" /\ h'[w].req = h[w].req
      \/ \E s \in Servers : Begin(w, s)
  <2>t. h[w] \in [pc: {"idle", "read", "write", "fanout", "await"},
                  req: Request \cup {NoRequest}, srv: Servers \cup {NULL},
                  seen: GoodGame(Committed) \cup {NULL}, msg: Committed \cup {NULL}]
    BY DEF Good, GoodProcesses, GoodHandler
  <2>1. ASSUME NEW v \in Writers, v # w,
               Handle(v) \/ LoseReply(v) \/ \E s \in Servers : Begin(v, s)
        PROVE  h'[w] = h[w]
    BY <1>h, <2>1 DEF Handle, Read, Commit, LoseReply, Abort, Fanout, Await, Begin
  <2>2. CASE Read(w)
    BY <1>h, <2>t, <2>2 DEF Read
  <2>3. CASE Commit(w)
    BY <1>h, <2>t, <2>3 DEF Commit
  <2>4. CASE LoseReply(w) \/ Abort(w)
    BY <1>h, <2>4 DEF LoseReply, Abort
  <2>5. CASE Fanout(w)
    BY <1>h, <2>t, <2>5 DEF Fanout
  <2>6. CASE Await(w)
    BY <1>h, <2>6 DEF Await
  <2>7. ASSUME NEW s \in Servers, Crash(s) PROVE h'[w] = h[w] \/ h'[w] = IdleWrite
    BY <2>7 DEF Crash
  <2>8. CASE UNCHANGED h
    BY <2>8
  <2> QED
    BY <2>1, <2>2, <2>3, <2>4, <2>5, <2>6, <2>7, <2>8 DEF Next, vars, Handle, Serve,
       ReadRow, Warm, Served, ReadCache, Deliver, Execute, Reply, Reconnect, GiveUp,
       FindStale, EvictGame, Expire, Age
<1> QED
  BY <1>1, <1>2, <1>3 DEF AskedInv, IdleWrite

LEMMA AskedStep == Good /\ AskedInv /\ [Next]_vars => AskedInv'
BY RequestIsAsked DEF AskedInv

LEMMA SoloStep == SoloScorer /\ Good /\ SoloInv /\ [Next]_vars => SoloInv'
<1> SUFFICES ASSUME SoloScorer, Good, SoloInv, [Next]_vars,
                    NEW w \in Writers, h'[w].pc = "write",
                    h'[w].req.kind \in {"submit", "transition"}
             PROVE  h'[w].seen = row' /\ Accepts(row', h'[w].req)
  BY AskedStep DEF SoloInv
<1>1. KeepsScore(w)
  BY RequestIsAsked DEF KeepsScore, SoloInv
<1>2. CASE /\ UNCHANGED <<row, commits>>
           /\ h[w].pc = "read" /\ h'[w].req = h[w].req
           /\ Accepts(row, h[w].req) /\ h'[w].seen = row
  BY <1>2
<1>3. CASE h'[w] = h[w]
  <2>1. h[w].seen = row /\ Accepts(row, h[w].req)
    BY <1>3 DEF SoloInv
  <2>2. SUFFICES row' = row
    BY <1>3, <2>1
  <2>3. ASSUME NEW v \in Writers, h[v].pc = "write", Write(v), Commit(v) \/ LoseReply(v)
        PROVE  row' = row
    <3>1. h'[v].pc # "write"
      BY <2>3 DEF Commit, LoseReply, IdleWrite, Good, GoodProcesses, GoodHandler
    <3>2. v # w
      BY <1>3, <3>1
    <3>3. h[v].req \in MayRequest[v]
      BY <2>3 DEF SoloInv, AskedInv
    <3>4. h[v].req.kind \notin {"submit", "transition"}
      BY <1>1, <3>2, <3>3 DEF KeepsScore, SoloScorer
    <3>5. row # NULL
      BY <2>1 DEF Accepts
    <3> QED
      BY <2>3, <3>4, <3>5, WriteEffect DEF SubmitRequest, TransitionRequest
  <2> QED
    BY <2>3, OnlyWritesChangeRow
<1> QED
  BY <1>2, <1>3, EnterWrite

LEMMA SoloStart == Init => SoloInv
BY DEF Init, SoloInv, AskedInv, IdleWrite

\* One score keeper: every event changes the score by its own delta.
THEOREM SoloKeepsEveryDelta == ASSUME SoloScorer PROVE Spec => NoLostUpdate
<1> DEFINE A == commits' # commits /\ Last(commits').type = "event_update" =>
             /\ row'.home = Scored(row, Last(commits').side, Last(commits').delta).home
             /\ row'.away = Scored(row, Last(commits').side, Last(commits').delta).away
<1>1. Good /\ SoloInv /\ [Next]_vars => A
  <2> SUFFICES ASSUME Good, SoloInv, [Next]_vars, commits' # commits,
                      Last(commits').type = "event_update"
               PROVE  /\ row'.home = Scored(row, Last(commits').side, Last(commits').delta).home
                      /\ row'.away = Scored(row, Last(commits').side, Last(commits').delta).away
    OBVIOUS
  <2>1. PICK w \in Writers : h[w].pc = "write" /\ Write(w)
    BY OnlyWritesChangeRow
  <2>2. /\ h[w].req \in SubmitRequest /\ row \in Game
        /\ row' = WithScore(row, ScoreFor(h[w].seen, h[w].req))
        /\ Last(commits') = EventMessage(h[w].seen, h[w].req)
    BY <2>1, WriteEffect
  <2>3. h[w].seen = row
    BY <2>1, <2>2 DEF SoloInv, SubmitRequest
  <2>4. Last(commits').side = h[w].req.side /\ Last(commits').delta = h[w].req.delta
    BY <2>2 DEF EventMessage
  <2>5. /\ row'.home = ScoreFor(row, h[w].req).home
        /\ row'.away = ScoreFor(row, h[w].req).away
    BY <2>2, <2>3 DEF WithScore, Game
  <2> QED
    BY <2>4, <2>5 DEF ScoreFor
<1>2. Spec => [][A]_vars
  <2> HIDE DEF A
  <2> QED
    BY <1>1, SoloStart, SoloStep, Goodness, PTL DEF Spec
<1> QED
  BY <1>2 DEF NoLostUpdate

\* One score keeper: the status follows VALID_TRANSITIONS, and events are
\* recorded for active games only.
THEOREM SoloFollowsMachine == ASSUME SoloScorer PROVE Spec => StatusFollowsMachine
<1> DEFINE A == /\ row # NULL /\ row'.status # row.status =>
                     row'.status \in ValidTransitions[row.status]
                /\ commits' # commits /\ Last(commits').type = "event_update" =>
                     row.status = "active"
<1>1. Good /\ SoloInv /\ [Next]_vars => A
  <2> SUFFICES ASSUME Good, SoloInv, [Next]_vars PROVE A
    OBVIOUS
  <2>1. CASE UNCHANGED <<row, commits>>
    BY <2>1
  <2>2. ASSUME NEW w \in Writers, h[w].pc = "write", Write(w) PROVE A
    <3>1. h[w].req.kind \in {"submit", "transition"} => Accepts(row, h[w].req)
      BY <2>2 DEF SoloInv
    <3>2. CASE /\ h[w].req \in SubmitRequest /\ row \in Game
               /\ row' = WithScore(row, ScoreFor(h[w].seen, h[w].req))
      <4>1. row.status = "active"
        BY <3>1, <3>2 DEF Accepts, SubmitRequest
      <4>2. row'.status = row.status
        BY <3>2 DEF WithScore, Game
      <4> QED
        BY <4>1, <4>2
    <3>3. CASE /\ h[w].req \in TransitionRequest /\ row \in Game
               /\ row' = WithStatus(row, h[w].req.to)
               /\ Last(commits').type = "status_change"
      <4>1. row'.status = h[w].req.to
        BY <3>3 DEF WithStatus, Game
      <4>2. h[w].req.to \in ValidTransitions[row.status]
        BY <3>1, <3>3 DEF Accepts, TransitionRequest
      <4> QED
        BY <3>3, <4>1, <4>2
    <3>4. CASE row' = row /\ Last(commits').type = "state_update"
      BY <3>4
    <3>5. CASE row = NULL /\ commits' = commits
      BY <3>5
    <3> QED
      BY <2>2, <3>2, <3>3, <3>4, <3>5, WriteEffect
  <2> QED
    BY <2>1, <2>2, OnlyWritesChangeRow
<1>2. Spec => [][A]_vars
  <2> HIDE DEF A
  <2> QED
    BY <1>1, SoloStart, SoloStep, Goodness, PTL DEF Spec
<1> QED
  BY <1>2 DEF StatusFollowsMachine

\* What a run of the cleanup job relies on: a row with ended_at is over, and a
\* game that was selected had one.
OverInv ==
    /\ row # NULL /\ row.ended => row.status \in Ended
    /\ \A s \in Servers : job[s] => row # NULL /\ row.ended

\* Only FindStale selects a game; a crash and the eviction forget it.
LEMMA WhoSelects ==
    ASSUME Good, [Next]_vars, NEW s \in Servers, job'[s], ~job[s]
    PROVE  row # NULL /\ row.ended /\ row' = row
<1>j. job = [t \in Servers |-> job[t]]
  BY DEF Good, GoodProcesses
<1>1. ASSUME NEW t \in Servers, FindStale(t) PROVE row # NULL /\ row.ended /\ row' = row
  BY <1>1 DEF FindStale, postgres
<1>2. ASSUME NEW t \in Servers, EvictGame(t) \/ Crash(t) PROVE FALSE
  BY <1>j, <1>2 DEF EvictGame, Crash
<1>3. CASE UNCHANGED job
  BY <1>3
<1> QED
  BY <1>1, <1>2, <1>3 DEF Next, vars, Handle, Serve, Read, Commit, LoseReply, Abort,
     Fanout, Await, Begin, ReadRow, Warm, Served, ReadCache, Deliver, Execute, Reply,
     Reconnect, GiveUp, Expire, Age

LEMMA OverStep == Good /\ SoloInv /\ OverInv /\ [Next]_vars => OverInv'
<1> SUFFICES ASSUME Good, SoloInv, OverInv, [Next]_vars PROVE OverInv'
  OBVIOUS
<1>1. /\ row' # NULL /\ row'.ended => row'.status \in Ended
      /\ row # NULL /\ row.ended => row' # NULL /\ row'.ended
  <2>1. CASE UNCHANGED <<row, commits>>
    BY <2>1 DEF OverInv
  <2>2. ASSUME NEW w \in Writers, h[w].pc = "write", Write(w)
        PROVE  /\ row' # NULL /\ row'.ended => row'.status \in Ended
               /\ row # NULL /\ row.ended => row' # NULL /\ row'.ended
    <3>1. h[w].req.kind \in {"submit", "transition"} => Accepts(row, h[w].req)
      BY <2>2 DEF SoloInv
    <3>2. CASE /\ h[w].req \in SubmitRequest /\ row \in Game
               /\ row' = WithScore(row, ScoreFor(h[w].seen, h[w].req))
      <4>1. row.status = "active" /\ row # NULL
        BY <3>1, <3>2 DEF Accepts, SubmitRequest
      <4>2. row'.ended = row.ended
        BY <3>2 DEF WithScore, Game
      <4>3. ~row.ended
        BY <4>1 DEF OverInv, Ended
      <4> QED
        BY <4>2, <4>3
    <3>3. CASE /\ h[w].req \in TransitionRequest /\ row \in Game
               /\ row' = WithStatus(row, h[w].req.to)
      <4>1. row # NULL /\ h[w].req.to \in ValidTransitions[row.status]
        BY <3>1, <3>3 DEF Accepts, TransitionRequest
      <4>2. row.status \notin Ended
        BY <4>1, <3>3 DEF ValidTransitions, Ended, Game, Status
      <4>3. ~row.ended
        BY <4>1, <4>2 DEF OverInv
      <4>4. row'.status = h[w].req.to /\ (row'.ended <=> row.ended \/ h[w].req.to \in Ended)
        BY <3>3 DEF WithStatus, Game
      <4> QED
        BY <4>3, <4>4
    <3>4. CASE row' = row
      BY <3>4 DEF OverInv
    <3>5. CASE row = NULL /\ row' = NewGame
      BY <3>5 DEF NewGame
    <3> QED
      BY <2>2, <3>2, <3>3, <3>4, <3>5, WriteEffect
  <2> QED
    BY <2>1, <2>2, OnlyWritesChangeRow
<1>2. ASSUME NEW s \in Servers, job'[s] PROVE row' # NULL /\ row'.ended
  <2>1. CASE job[s]
    BY <1>1, <2>1 DEF OverInv
  <2>2. CASE ~job[s]
    BY <1>2, <2>2, WhoSelects
  <2> QED
    BY <2>1, <2>2
<1> QED
  BY <1>1, <1>2 DEF OverInv

\* One score keeper: the cleanup job only evicts games that are over, also when
\* a transition comes between its SELECT and its DEL.
THEOREM SoloEvictsOnlyEnded == ASSUME SoloScorer PROVE Spec => []CleanupOnlyEnded
<1>1. Init => OverInv
  BY DEF Init, OverInv
<1>2. OverInv => CleanupOnlyEnded
  BY DEF OverInv, CleanupOnlyEnded
<1> QED
  BY <1>1, <1>2, OverStep, SoloStart, SoloStep, Goodness, PTL DEF Spec

=============================================================================
