--------------------------- MODULE LiveFeedProofs ---------------------------
(***************************************************************************)
(* Proofs about the composition LiveFeed, for any writers, fans, servers,  *)
(* requests and faults of either part.                                     *)
(*                                                                         *)
(* Part 1 carries the invariant Good of GameWrites over: every step of the *)
(* composition is a step of GameWrites, or leaves it alone but for the     *)
(* count of the mishaps.  Part 2 follows a score to the screen: it comes   *)
(* from the game a fan's read returned or from a message of the stream,    *)
(* and the stream only holds places of the channel that are taken.  Part 3 *)
(* puts the two halves of the order together: the channel has the events   *)
(* of one client in their order (QueueProofs), and a fan hears the channel *)
(* in its order, so what a fan heard last is the newest it heard of.       *)
(* Part 4 shows that a fan who streams misses nothing.                     *)
(***************************************************************************)
EXTENDS LiveFeed, QueueProofs

\* All that GameWrites says of the system, but for the count of the mishaps.
writes == <<row, state, stale, commits, cache, recent, published, out, done, up,
            job, h, r, started, reads>>

\* The steps of the composition as steps of GameWrites.
LEMMA LiveStepIsWriteStep ==
    ASSUME [LiveNext]_liveVars
    PROVE  [Next]_vars \/ (UNCHANGED writes /\ mishaps' = mishaps + 1)
<1>1. ASSUME NEW w \in Writers, WriteStep(w) PROVE Next
  BY <1>1 DEF WriteStep, Next
<1>2. ASSUME NEW w \in Writers, NEW s \in Servers, Ask(w, s) PROVE Next
  BY <1>2 DEF Ask, Next
<1>3. ASSUME NEW s \in Servers, Relay(s) \/ ReplyTo(s) \/ Repeat(s) PROVE Next
  BY <1>3 DEF Relay, ReplyTo, Repeat, Next, Deliver
<1>4. CASE Forget
  BY <1>4 DEF Forget, Next
<1>5. ASSUME NEW f \in Readers, NEW s \in Servers, AskGame(f, s) PROVE Next
  BY <1>5 DEF AskGame, Next
<1>6. ASSUME NEW f \in Readers, GetGameStep(f) PROVE Next
  BY <1>6 DEF GetGameStep, MissGame, WarmGame, GetGame, Next, Serve
<1>7. ASSUME NEW f \in Readers, Enter(f) \/ HandlerStep(f) \/ Disconnect(f)
      PROVE  UNCHANGED vars
  BY <1>7 DEF Enter, HandlerStep, Disconnect
<1>8. CASE HearMessage \/ SubscriberStep
  BY <1>8 DEF HearMessage, SubscriberStep
<1>9. CASE DropLine
  BY <1>9 DEF DropLine, S!Drop, S!Mishap, writes, postgres, redis, clients
<1>10. CASE UNCHANGED liveVars
  BY <1>10 DEF liveVars
<1> QED
  BY <1>1, <1>2, <1>3, <1>4, <1>5, <1>6, <1>7, <1>8, <1>9, <1>10 DEF LiveNext

LEMMA GoodStaysGood == Good /\ [LiveNext]_liveVars => Good'
<1> SUFFICES ASSUME Good, [LiveNext]_liveVars PROVE Good'
  OBVIOUS
<1>1. CASE [Next]_vars
  BY <1>1, StepIsGood
<1>2. CASE UNCHANGED writes /\ mishaps' = mishaps + 1
  BY <1>2 DEF writes, Good, GoodDatabase, GoodRedis, GoodClients, GoodProcesses,
         GoodBounds, Committed
<1> QED
  BY <1>1, <1>2, LiveStepIsWriteStep

\* Good holds in every state of the composition.
THEOREM LiveGoodness == LiveSpec => []Good
<1>1. LiveInit => Good
  BY InitIsGood DEF LiveInit
<1> QED
  BY <1>1, GoodStaysGood, PTL DEF LiveSpec

-----------------------------------------------------------------------------
(* Part 2: what a fan shows *)

\* The stream of a channel with k messages: replies, and places of messages.
Places(k) == [op: {"reply"}, n: {NULL}] \cup [op: {"message"}, n: 1 .. k]

\* The score x is the opening score or was stored by one of the writes C.
Real(x, C) ==
    \/ x = [home |-> 0, away |-> 0]
    \/ \E m \in C : m.type = "event_update" /\ x = ScoreOf(m)

StreamIsChannel == stream \in Seq(Places(Len(published)))
ReadHasGame == \A f \in Readers : r[f].pc = "await" => r[f].seen # NULL
ScreensAreReal ==
    /\ screen = [f \in Readers |-> screen[f]]
    /\ \A f \in Readers : screen[f] # NULL => Real(screen[f], Committed)

ScreenInv == StreamIsChannel /\ ReadHasGame /\ ScreensAreReal

\* How channel and stream move: a message is appended to both, or to the
\* channel alone while nobody is subscribed.
LEMMA StreamMoves ==
    ASSUME Good, [LiveNext]_liveVars
    PROVE  \/ UNCHANGED <<published, stream>>
           \/ UNCHANGED published /\ stream' = << >>
           \/ UNCHANGED published /\ stream # << >> /\ stream' = Tail(stream)
           \/ UNCHANGED published /\ stream' = Append(stream, S!Reply)
           \/ \E m \in Committed :
                /\ published' = Append(published, m)
                /\ stream' = stream \/ stream' = Append(stream, S!Publication(Len(published) + 1))
<1>1. ASSUME NEW s \in Servers, Relay(s), published' # published
      PROVE  \E m \in Committed :
               /\ published' = Append(published, m)
               /\ stream' = stream \/ stream' = Append(stream, S!Publication(Len(published) + 1))
  <2>1. [Next]_vars /\ published \in Seq(Committed)
    BY <1>1 DEF Relay, Next, Deliver, Good, GoodRedis
  <2>2. PICK m \in Committed : published' = Append(published, m)
    BY <1>1, <2>1, PublishedMoves
  <2>3. Len(published') = Len(published) + 1
    BY <2>1, <2>2, AppendProperties
  <2>4. stream' = stream \/ stream' = Append(stream, S!Publication(Len(published) + 1))
    BY <1>1, <2>3 DEF Relay
  <2> QED
    BY <2>2, <2>4
<1>2. ASSUME NEW s \in Servers, Relay(s), published' = published
      PROVE  UNCHANGED <<published, stream>>
  BY <1>2 DEF Relay
<1>3. ASSUME NEW f \in Readers,
             \/ \E s \in Servers : AskGame(f, s)
             \/ Enter(f) \/ GetGameStep(f) \/ HandlerStep(f) \/ Disconnect(f)
      PROVE  UNCHANGED <<published, stream>>
  <2>1. Saw(f, cache.game) \/ Saw(f, r[f].seen) => UNCHANGED stream
    BY DEF Saw
  <2>2. UNCHANGED stream
    BY <1>3, <2>1 DEF AskGame, Enter, GetGameStep, MissGame, WarmGame, GetGame, line,
       HandlerStep, Disconnect, S!Connect, S!CatchUpFails, S!ReadRecent, S!SendFinal,
       S!Register, S!CloseFinal, S!Leave, S!client
  <2>3. UNCHANGED published
    BY <1>3 DEF AskGame, Enter, GetGameStep, MissGame, WarmGame, GetGame, HandlerStep,
       Disconnect, ReadCache, ReadRow, Warm, Served, vars, redis
  <2> QED
    BY <2>2, <2>3
<1>4. CASE HearMessage \/ SubscriberStep
  BY <1>4 DEF HearMessage, SubscriberStep, S!ReceiveMessage, S!ReceiveReply, S!Execute, vars
<1>5. CASE DropLine
  BY <1>5 DEF DropLine, S!Drop, redis
<1>6. ASSUME \/ \E w \in Writers : WriteStep(w)
             \/ \E w \in Writers, s \in Servers : Ask(w, s)
             \/ \E s \in Servers : ReplyTo(s) \/ Repeat(s)
             \/ Forget \/ UNCHANGED liveVars
      PROVE  UNCHANGED <<published, stream>>
  BY <1>6 DEF WriteStep, Ask, ReplyTo, Repeat, Forget, liveVars, line, vars, redis, Handle,
     Read, Commit, Abort, Fanout, Await, Begin, Reply, Reconnect, Expire
<1> QED
  BY <1>1, <1>2, <1>3, <1>4, <1>5, <1>6 DEF LiveNext

\* The channel only gets longer.
LEMMA ChannelGrows ==
    ASSUME Good, [LiveNext]_liveVars
    PROVE  /\ Len(published) \in Nat /\ Len(published') \in Nat
           /\ Len(published) <= Len(published')
           /\ \A n \in 1 .. Len(published) : published'[n] = published[n]
<1>1. published \in Seq(Committed) /\ Len(published) \in Nat
  BY LenProperties DEF Good, GoodRedis
<1>2. ASSUME NEW m \in Committed, published' = Append(published, m)
      PROVE  /\ Len(published') = Len(published) + 1
             /\ \A n \in 1 .. Len(published) : published'[n] = published[n]
  BY <1>1, <1>2, AppendProperties
<1> QED
  BY <1>1, <1>2, StreamMoves

\* What was committed stays committed.
LEMMA CommitsGrow ==
    ASSUME Good, [LiveNext]_liveVars
    PROVE  Committed \subseteq Committed'
<1>1. CASE UNCHANGED <<row, commits>>
  BY <1>1 DEF Committed
<1>2. ASSUME NEW w \in Writers, h[w].pc = "write", Write(w) PROVE Committed \subseteq Committed'
  BY <1>2, WriteIsGood
<1>3. CASE UNCHANGED writes
  BY <1>3 DEF writes, Committed
<1> QED
  BY <1>1, <1>2, <1>3, OnlyWritesChangeRow, LiveStepIsWriteStep

\* The stream keeps to the places that are taken.
LEMMA StreamStep == Good /\ StreamIsChannel /\ [LiveNext]_liveVars => StreamIsChannel'
<1> SUFFICES ASSUME Good, StreamIsChannel, [LiveNext]_liveVars PROVE StreamIsChannel'
  OBVIOUS
<1> DEFINE P == Places(Len(published'))
<1>1. /\ Len(published) \in Nat /\ Len(published') \in Nat
      /\ Len(published) <= Len(published')
  BY ChannelGrows
<1>2. Places(Len(published)) \subseteq P
  BY <1>1 DEF Places
<1>3. stream \in Seq(P)
  BY <1>2, SeqMonotonic DEF StreamIsChannel
<1>4. CASE UNCHANGED stream
  BY <1>3, <1>4 DEF StreamIsChannel
<1>5. CASE stream' = << >>
  BY <1>5, EmptySeq DEF StreamIsChannel
<1>6. CASE stream # << >> /\ stream' = Tail(stream)
  BY <1>3, <1>6, HeadTailProperties DEF StreamIsChannel
<1>7. CASE stream' = Append(stream, S!Reply)
  <2>1. S!Reply \in P
    BY DEF S!Reply, Places
  <2> QED
    BY <1>3, <1>7, <2>1, AppendProperties DEF StreamIsChannel
<1>8. ASSUME NEW m \in Committed, published' = Append(published, m),
             stream' = Append(stream, S!Publication(Len(published) + 1))
      PROVE  StreamIsChannel'
  <2>1. Len(published') = Len(published) + 1
    BY <1>8, AppendProperties DEF Good, GoodRedis
  <2>2. S!Publication(Len(published) + 1) \in P
    BY <1>1, <2>1 DEF S!Publication, Places
  <2> QED
    BY <1>3, <1>8, <2>2, AppendProperties DEF StreamIsChannel
<1> QED
  BY <1>4, <1>5, <1>6, <1>7, <1>8, StreamMoves

\* A read that waits for its warm-up has found a game.
LEMMA ReadHasGameStep == Good /\ ReadHasGame /\ [LiveNext]_liveVars => ReadHasGame'
<1> SUFFICES ASSUME Good, ReadHasGame, [LiveNext]_liveVars, NEW f \in Readers, r'[f].pc = "await"
             PROVE  r'[f].seen # NULL
  BY DEF ReadHasGame
<1>r. r = [p \in Readers |-> r[p]] /\ GoodReader(r[f], Committed)
  BY DEF Good, GoodProcesses
<1>1. CASE r'[f] = r[f]
  BY <1>1 DEF ReadHasGame
<1>2. CASE Warm(f)
  <2>1. r[f].pc = "warm" /\ r'[f] = [r[f] EXCEPT !.pc = "await"]
    BY <1>r, <1>2 DEF Warm
  <2>2. r'[f].seen = r[f].seen
    BY <1>r, <2>1 DEF GoodReader
  <2>3. r[f].seen \in Game
    BY <1>r, <2>1 DEF GoodReader, GoodGame
  <2> QED
    BY <2>2, <2>3, NullAssumption
<1>3. r'[f] = r[f] \/ r'[f].pc # "await" \/ Warm(f)
  <2>1. ASSUME NEW p \in Readers, p # f,
               ReadRow(p) \/ Warm(p) \/ Served(p) \/ \E s \in Servers : ReadCache(p, s)
        PROVE  r'[f] = r[f]
    BY <1>r, <2>1 DEF ReadRow, Warm, Served, ReadCache
  <2>2. ASSUME ReadRow(f) \/ Served(f) \/ \E s \in Servers : ReadCache(f, s)
        PROVE  r'[f].pc # "await"
    <3>1. r[f] \in [pc: {"idle", "miss", "warm", "await"}, srv: Servers \cup {NULL},
                    seen: GoodGame(Committed) \cup {NULL}]
      BY <1>r DEF GoodReader
    <3>2. CASE ReadRow(f)
      <4>1. r'[f] = IdleRead \/ r'[f] = [r[f] EXCEPT !.pc = "warm", !.seen = row]
        BY <1>r, <3>2 DEF ReadRow
      <4>2. IdleRead.pc # "await"
        BY DEF IdleRead
      <4>3. [r[f] EXCEPT !.pc = "warm", !.seen = row].pc = "warm"
        BY <3>1
      <4> QED
        BY <4>1, <4>2, <4>3
    <3>3. CASE Served(f)
      BY <1>r, <3>3 DEF Served, IdleRead
    <3>4. ASSUME NEW s \in Servers, ReadCache(f, s) PROVE r'[f].pc # "await"
      BY <1>r, <3>4 DEF ReadCache, IdleRead
    <3> QED
      BY <2>2, <3>2, <3>3, <3>4
  <2>3. ASSUME NEW s \in Servers, Crash(s) PROVE r'[f] = r[f] \/ r'[f].pc # "await"
    BY <2>3 DEF Crash, IdleRead
  <2>4. CASE UNCHANGED r
    BY <2>4
  <2> QED
    BY <2>1, <2>2, <2>3, <2>4, LiveStepIsWriteStep
       DEF writes, Next, vars, Handle, Read, Commit, LoseReply, Abort, Fanout, Await,
           Begin, Serve, Deliver, Execute, Reply, Reconnect, GiveUp, FindStale,
           EvictGame, Expire, Age
<1> QED
  BY <1>1, <1>2, <1>3

\* A fan's screen changes by its catch-up or by an event from the stream, and
\* both are real.
LEMMA ScreensStep ==
    Good /\ ScreenInv /\ [LiveNext]_liveVars => ScreensAreReal'
<1> SUFFICES ASSUME Good, ScreenInv, [LiveNext]_liveVars PROVE ScreensAreReal'
  OBVIOUS
<1>0. /\ Committed \subseteq Committed'
      /\ \A x : Real(x, Committed) => Real(x, Committed')
  BY CommitsGrow DEF Real
<1>1. CASE UNCHANGED screen
  BY <1>0, <1>1 DEF ScreenInv, ScreensAreReal
<1>2. ASSUME NEW f \in Readers, NEW game \in GoodGame(Committed), Saw(f, game)
      PROVE  ScreensAreReal'
  <2>1. screen' = [screen EXCEPT ![f] = ScoreOf(game)]
    BY <1>2 DEF Saw
  <2>2. Real(ScoreOf(game), Committed)
    BY DEF GoodGame, ScoreStored, Real, ScoreOf
  <2>3. screen = [g \in Readers |-> screen[g]]
    BY DEF ScreenInv, ScreensAreReal
  <2> QED
    BY <1>0, <2>1, <2>2, <2>3 DEF ScreenInv, ScreensAreReal
<1>3. ASSUME NEW f \in Readers, NEW s \in Servers, AskGame(f, s) PROVE ScreensAreReal'
  <2>1. cache # NULL => cache.game \in GoodGame(Committed)
    BY DEF Good, GoodRedis
  <2> QED
    BY <1>1, <1>2, <1>3, <2>1 DEF AskGame
<1>4. ASSUME NEW f \in Readers, GetGame(f) PROVE ScreensAreReal'
  <2>1. r[f].pc = "await"
    BY <1>4 DEF GetGame, Served
  <2>2. r[f].seen \in GoodGame(Committed)
    BY <2>1 DEF Good, GoodProcesses, GoodReader, ScreenInv, ReadHasGame
  <2> QED
    BY <1>1, <1>2, <1>4, <2>2 DEF GetGame
<1>5. CASE HearMessage
  <2> DEFINE msg == published[Head(stream).n]
  <2>1. /\ stream # << >> /\ Head(stream).op = "message"
        /\ stream \in Seq(Places(Len(published)))
    BY <1>5 DEF HearMessage, S!ReceiveMessage, ScreenInv, StreamIsChannel
  <2>2. Head(stream) \in Places(Len(published))
    BY <2>1, HeadTailProperties
  <2>3. Head(stream).n \in 1 .. Len(published)
    BY <2>1, <2>2 DEF Places
  <2>4. msg \in Committed
    BY <2>3, ElementOfSeq DEF Good, GoodRedis
  <2>5. screen' = [f \in Readers |->
                     IF f \in S!Recipients /\ msg.type = "event_update"
                       THEN ScoreOf(msg) ELSE screen[f]]
    BY <1>5 DEF HearMessage
  <2>6. msg.type = "event_update" => Real(ScoreOf(msg), Committed)
    BY <2>4 DEF Real
  <2> HIDE DEF msg
  <2> QED
    BY <1>0, <2>5, <2>6 DEF ScreenInv, ScreensAreReal
<1>6. UNCHANGED screen \/ HearMessage
      \/ \E f \in Readers : GetGame(f) \/ \E s \in Servers : AskGame(f, s)
  BY DEF LiveNext, liveVars, WriteStep, Ask, Relay, ReplyTo, Repeat, Forget, Enter,
     GetGameStep, MissGame, WarmGame, HandlerStep, Disconnect, SubscriberStep, DropLine
<1> QED
  BY <1>1, <1>3, <1>4, <1>5, <1>6

LEMMA ScreenStart == LiveInit => ScreenInv
<1> SUFFICES ASSUME LiveInit PROVE ScreenInv
  OBVIOUS
<1>1. stream = << >> /\ screen = [f \in Readers |-> NULL] /\ r = [p \in Readers |-> IdleRead]
  BY DEF LiveInit, S!Init, Init
<1> QED
  BY <1>1, EmptySeq DEF ScreenInv, StreamIsChannel, ReadHasGame, ScreensAreReal, IdleRead

\* No fan ever shows a score that no transaction stored, for any writers, fans
\* and servers, and through repeated commands, expiry and lost lines.
THEOREM ScreensShowStoredScores == LiveSpec => []ScreenWasStored
<1>1. ScreenInv => ScreenWasStored
  BY DEF ScreenInv, ScreensAreReal, Real, ScreenWasStored, Committed
<1>2. Good /\ ScreenInv /\ [LiveNext]_liveVars => ScreenInv'
  BY StreamStep, ReadHasGameStep, ScreensStep DEF ScreenInv
<1> QED
  BY <1>1, <1>2, ScreenStart, LiveGoodness, PTL DEF LiveSpec

-----------------------------------------------------------------------------
(* Part 3: a fan who heard of the newest event shows the row's score *)

IsMessage(item) == item.op = "message"

\* The handlers' records have their fields.
Connections ==
    conn = [f \in Readers |->
              [pc |-> conn[f].pc, saw |-> conn[f].saw, base |-> conn[f].base,
               joined |-> conn[f].joined, got |-> conn[f].got]]

\* Before its catch-up is through a fan is not registered and has heard nothing.
Outside ==
    \A f \in Readers :
      conn[f].pc \in {"away", "catchup"} => f \notin registry /\ conn[f].got = {}

\* The stream has the messages in their order, and what a fan has heard comes
\* before them.
StreamInOrder ==
    \A i, j \in 1 .. Len(stream) :
      i < j /\ IsMessage(stream[i]) /\ IsMessage(stream[j]) => stream[i].n < stream[j].n

HeardBefore ==
    \A f \in Readers : \A n \in conn[f].got :
      /\ n \in 1 .. Len(published)
      /\ \A i \in 1 .. Len(stream) : IsMessage(stream[i]) => n < stream[i].n

\* Fan f heard of the event at place k, of none later, and shows its score.
LastHeard(f, k) ==
    /\ k \in conn[f].got /\ IsEvent(published[k]) /\ screen[f] = ScoreOf(published[k])
    /\ \A n \in conn[f].got : IsEvent(published[n]) => n <= k

ShowsLastHeard ==
    \A f \in Readers :
      (\E n \in conn[f].got : IsEvent(published[n])) => \E k \in conn[f].got : LastHeard(f, k)

HeardInv ==
    StreamIsChannel /\ Connections /\ Outside /\ StreamInOrder /\ HeardBefore /\ ShowsLastHeard

\* How the handler of a fan moves: it hears the message at the head of the
\* stream, or takes a step that leaves what it has heard.  Only a handler in
\* its catch-up shows something else than an event it hears of.
LEMMA FanMoves ==
    ASSUME Connections, Outside, [LiveNext]_liveVars, NEW f \in Readers
    PROVE  \/ /\ stream # << >> /\ IsMessage(Head(stream)) /\ stream' = Tail(stream)
              /\ f \in registry /\ registry' = registry
              /\ conn'[f] = [conn[f] EXCEPT !.got = @ \cup {Head(stream).n}]
              /\ screen'[f] = IF IsEvent(published[Head(stream).n])
                                THEN ScoreOf(published[Head(stream).n]) ELSE screen[f]
           \/ /\ conn'[f].got = conn[f].got
              /\ conn'[f].pc \in {"away", "catchup"} =>
                   conn[f].pc \in {"away", "catchup"} /\ f \notin registry'
              /\ screen'[f] = screen[f] \/ conn[f].got = {}
<1> DEFINE Quiet ==
             /\ conn'[f].got = conn[f].got
             /\ conn'[f].pc \in {"away", "catchup"} =>
                  conn[f].pc \in {"away", "catchup"} /\ f \notin registry'
             /\ screen'[f] = screen[f] \/ conn[f].got = {}
<1>f. PICK x, y, b, j, g : conn[f] = [pc |-> x, saw |-> y, base |-> b, joined |-> j, got |-> g]
  <2>1. conn[f] = [pc |-> conn[f].pc, saw |-> conn[f].saw, base |-> conn[f].base,
                   joined |-> conn[f].joined, got |-> conn[f].got]
    BY DEF Connections
  <2> QED
    BY <2>1
<1>g. conn = [e \in Readers |-> conn[e]]
  BY DEF Connections
<1>o. conn[f].pc \in {"away", "catchup"} => f \notin registry /\ conn[f].got = {}
  BY DEF Outside
<1>1. ASSUME UNCHANGED <<conn, registry, screen>> PROVE Quiet
  BY <1>o, <1>1
<1>2. ASSUME NEW e \in Readers, NEW game, Saw(e, game) PROVE Quiet
  <2>1. /\ conn' = [conn EXCEPT ![e].saw = IF game.status \in Ended THEN "over" ELSE "running"]
        /\ screen' = [screen EXCEPT ![e] = ScoreOf(game)]
        /\ registry' = registry /\ conn[e].pc = "catchup"
    BY <1>2 DEF Saw, ReadsGame
  <2>2. CASE e = f
    <3>1. conn'[f].pc = conn[f].pc /\ conn'[f].got = conn[f].got
      BY <1>f, <1>g, <2>1, <2>2
    <3> QED
      BY <1>o, <2>1, <2>2, <3>1
  <2>3. CASE e # f
    <3>1. conn'[f] = conn[f] /\ screen'[f] = screen[f]
      BY <1>g, <2>1, <2>3
    <3> QED
      BY <1>o, <2>1, <3>1
  <2> QED
    BY <2>2, <2>3
<1>3. ASSUME NEW e \in Readers, NEW stage, S!Goto(e, stage), UNCHANGED <<screen, registry>>,
             stage \in {"away", "catchup"} => conn[e].pc \in {"away", "catchup"}
      PROVE  Quiet
  <2>1. CASE e = f
    <3>1. conn'[f].pc = stage /\ conn'[f].got = conn[f].got
      BY <1>f, <1>g, <1>3, <2>1 DEF S!Goto
    <3> QED
      BY <1>o, <1>3, <2>1, <3>1
  <2>2. CASE e # f
    <3>1. conn'[f] = conn[f]
      BY <1>g, <1>3, <2>2 DEF S!Goto
    <3> QED
      BY <1>o, <1>3, <3>1
  <2> QED
    BY <2>1, <2>2
<1>4. ASSUME NEW e \in Readers, S!ReadRecent(e), UNCHANGED screen PROVE Quiet
  <2>1. conn' = [conn EXCEPT ![e].base = NewestListed] /\ registry' = registry
    BY <1>4 DEF S!ReadRecent
  <2>2. conn'[f].pc = conn[f].pc /\ conn'[f].got = conn[f].got
    BY <1>f, <1>g, <2>1
  <2> QED
    BY <1>o, <1>4, <2>1, <2>2
<1>5. ASSUME NEW e \in Readers, S!Register(e), UNCHANGED screen PROVE Quiet
  <2>1. PICK stage \in {"live", "subscribing"} :
          conn' = [conn EXCEPT ![e].pc = stage, ![e].joined = Len(published)]
    BY <1>5 DEF S!Register, S!Joined
  <2>2. registry' = registry \cup {e}
    BY <1>5 DEF S!Register
  <2>3. CASE e = f
    <3>1. conn'[f].pc = stage /\ conn'[f].got = conn[f].got
      BY <1>f, <1>g, <2>1, <2>3
    <3> QED
      BY <1>5, <3>1
  <2>4. CASE e # f
    <3>1. conn'[f] = conn[f]
      BY <1>g, <2>1, <2>4
    <3> QED
      BY <1>o, <1>5, <2>2, <2>4, <3>1
  <2> QED
    BY <2>3, <2>4
<1>6. ASSUME NEW e \in Readers, S!Leave(e), UNCHANGED screen PROVE Quiet
  <2>1. conn' = conn /\ registry' \subseteq registry
    BY <1>6 DEF S!Leave, S!Unregister
  <2> QED
    BY <1>o, <1>6, <2>1
<1>7. ASSUME S!ReceiveReply, UNCHANGED screen PROVE Quiet
  <2>1. registry' = registry
    BY <1>7 DEF S!ReceiveReply
  <2>2. CASE UNCHANGED conn
    BY <1>1, <1>7, <2>1, <2>2
  <2>3. CASE S!Goto(S!Answered.by, "live")
    <3>1. CASE S!Answered.by \in Readers
      BY <1>3, <1>7, <2>1, <2>3, <3>1
    <3>2. CASE S!Answered.by \notin Readers
      <4>1. conn' = conn
        BY <1>g, <2>3, <3>2 DEF S!Goto
      <4> QED
        BY <1>1, <1>7, <2>1, <4>1
    <3> QED
      BY <3>1, <3>2
  <2> QED
    BY <1>7, <2>2, <2>3 DEF S!ReceiveReply
<1>8. CASE HearMessage
  <2>1. CASE f \in S!Recipients
    <3>1. conn'[f] = [conn[f] EXCEPT !.got = @ \cup {Head(stream).n}]
      BY <1>8, <2>1 DEF HearMessage, S!ReceiveMessage
    <3>2. screen'[f] = IF IsEvent(published[Head(stream).n])
                         THEN ScoreOf(published[Head(stream).n]) ELSE screen[f]
      BY <1>8, <2>1 DEF HearMessage, IsEvent
    <3> QED
      BY <1>8, <2>1, <3>1, <3>2 DEF HearMessage, S!ReceiveMessage, S!Recipients, IsMessage
  <2>2. CASE f \notin S!Recipients
    <3>1. conn'[f] = conn[f] /\ screen'[f] = screen[f] /\ registry' = registry
      BY <1>8, <2>2 DEF HearMessage, S!ReceiveMessage
    <3> QED
      BY <1>o, <3>1
  <2> QED
    BY <2>1, <2>2
<1>9. ASSUME \/ \E w \in Writers : WriteStep(w)
             \/ \E w \in Writers, s \in Servers : Ask(w, s)
             \/ \E s \in Servers : Relay(s) \/ ReplyTo(s) \/ Repeat(s)
             \/ Forget \/ DropLine \/ UNCHANGED liveVars
      PROVE  Quiet
  <2>1. UNCHANGED <<conn, registry, screen>>
    BY <1>9 DEF WriteStep, Ask, Relay, ReplyTo, Repeat, Forget, DropLine, S!Drop, liveVars, line
  <2> QED
    BY <1>1, <2>1
<1>10. ASSUME NEW e \in Readers, NEW s \in Servers, AskGame(e, s) PROVE Quiet
  BY <1>1, <1>2, <1>10 DEF AskGame, line
<1>11. ASSUME NEW e \in Readers, GetGameStep(e) PROVE Quiet
  <2>1. CASE S!CatchUpFails(e) /\ UNCHANGED screen
    BY <1>3, <2>1 DEF S!CatchUpFails
  <2>2. CASE UNCHANGED <<line, screen>>
    BY <1>1, <2>2 DEF line
  <2>3. CASE Saw(e, r[e].seen)
    BY <1>2, <2>3
  <2> QED
    BY <1>11, <2>1, <2>2, <2>3 DEF GetGameStep, MissGame, WarmGame, GetGame
<1>12. ASSUME NEW e \in Readers, Enter(e) \/ HandlerStep(e) \/ Disconnect(e) PROVE Quiet
  <2>1. UNCHANGED screen
    BY <1>12 DEF Enter, HandlerStep, Disconnect
  <2>2. CASE S!Connect(e) \/ S!SendFinal(e) \/ S!CloseFinal(e)
    <3>1. \/ S!Goto(e, "catchup") /\ conn[e].pc = "away"
          \/ S!Goto(e, "over") \/ S!Goto(e, "gone")
      BY <2>2 DEF S!Connect, S!SendFinal, S!CloseFinal
    <3>2. registry' = registry
      BY <2>2 DEF S!Connect, S!SendFinal, S!CloseFinal
    <3> QED
      BY <1>3, <2>1, <3>1, <3>2
  <2> QED
    BY <1>4, <1>5, <1>6, <1>12, <2>1, <2>2 DEF Enter, HandlerStep, Disconnect
<1>13. ASSUME SubscriberStep PROVE Quiet
  <2>1. S!Execute => UNCHANGED <<conn, registry>>
    BY DEF S!Execute
  <2> QED
    BY <1>1, <1>7, <1>13, <2>1 DEF SubscriberStep
<1> HIDE DEF Quiet
<1>14. HearMessage \/ Quiet
  BY <1>9, <1>10, <1>11, <1>12, <1>13 DEF LiveNext
<1> QED
  BY <1>8, <1>14 DEF Quiet

LEMMA ConnectionsStep == Connections /\ [LiveNext]_liveVars => Connections'
<1> SUFFICES ASSUME Connections, [LiveNext]_liveVars PROVE Connections'
  OBVIOUS
<1>g. conn = [e \in Readers |-> conn[e]]
  BY DEF Connections
<1>f. \A e \in Readers :
        conn[e] = [pc |-> conn[e].pc, saw |-> conn[e].saw, base |-> conn[e].base,
                   joined |-> conn[e].joined, got |-> conn[e].got]
  BY DEF Connections
<1>1. CASE UNCHANGED conn
  BY <1>1 DEF Connections
<1>e. ASSUME NEW e \in Readers
      PROVE  \E x, y, b, j, g : conn[e] = [pc |-> x, saw |-> y, base |-> b, joined |-> j, got |-> g]
  BY <1>f
<1>2. ASSUME NEW e \in Readers, NEW v, conn' = [conn EXCEPT ![e] = v],
             v = [pc |-> v.pc, saw |-> v.saw, base |-> v.base, joined |-> v.joined,
                  got |-> v.got]
      PROVE  Connections'
  <2>1. conn' = [d \in Readers |-> conn'[d]] /\ conn'[e] = v
        /\ \A d \in Readers \ {e} : conn'[d] = conn[d]
    BY <1>g, <1>2
  <2>2. ASSUME NEW d \in Readers
        PROVE  conn'[d] = [pc |-> conn'[d].pc, saw |-> conn'[d].saw, base |-> conn'[d].base,
                           joined |-> conn'[d].joined, got |-> conn'[d].got]
    <3>1. CASE d = e
      BY <1>2, <2>1, <3>1
    <3>2. CASE d # e
      <4>1. conn'[d] = conn[d]
        BY <2>1, <3>2
      <4> QED
        BY <1>f, <4>1
    <3> QED
      BY <3>1, <3>2
  <2> QED
    BY <2>1, <2>2 DEF Connections
<1>3. ASSUME NEW e, NEW stage, S!Goto(e, stage) PROVE Connections'
  <2>1. CASE e \in Readers
    <3>1. PICK x, y, b, j, g :
            conn[e] = [pc |-> x, saw |-> y, base |-> b, joined |-> j, got |-> g]
      BY <1>e, <2>1
    <3>2. PICK v : v = [conn[e] EXCEPT !.pc = stage]
      OBVIOUS
    <3>3. v = [pc |-> stage, saw |-> y, base |-> b, joined |-> j, got |-> g]
      BY <3>1, <3>2
    <3>4. conn' = [conn EXCEPT ![e] = v]
      BY <1>3, <3>2 DEF S!Goto
    <3> QED
      BY <1>2, <2>1, <3>3, <3>4
  <2>2. CASE e \notin Readers
    BY <1>g, <1>1, <1>3, <2>2 DEF S!Goto
  <2> QED
    BY <2>1, <2>2
<1>4. ASSUME NEW e \in Readers, NEW game, Saw(e, game) PROVE Connections'
  <2>1. PICK u, v : v = [conn[e] EXCEPT !.saw = u] /\ conn' = [conn EXCEPT ![e] = v]
    BY <1>4 DEF Saw
  <2>2. PICK x, y, b, j, g :
          conn[e] = [pc |-> x, saw |-> y, base |-> b, joined |-> j, got |-> g]
    BY <1>e
  <2>3. v = [pc |-> x, saw |-> u, base |-> b, joined |-> j, got |-> g]
    BY <2>1, <2>2
  <2> QED
    BY <1>2, <2>1, <2>3
<1>5. ASSUME NEW e \in Readers, S!ReadRecent(e) PROVE Connections'
  <2>1. PICK u, v : v = [conn[e] EXCEPT !.base = u] /\ conn' = [conn EXCEPT ![e] = v]
    BY <1>5 DEF S!ReadRecent
  <2>2. PICK x, y, b, j, g :
          conn[e] = [pc |-> x, saw |-> y, base |-> b, joined |-> j, got |-> g]
    BY <1>e
  <2>3. v = [pc |-> x, saw |-> y, base |-> u, joined |-> j, got |-> g]
    BY <2>1, <2>2
  <2> QED
    BY <1>2, <2>1, <2>3
<1>6. ASSUME NEW e \in Readers, S!Register(e) PROVE Connections'
  <2>1. PICK u, k : conn' = [conn EXCEPT ![e].pc = u, ![e].joined = k]
    BY <1>6 DEF S!Register, S!Joined
  <2>2. PICK x, y, b, j, g :
          conn[e] = [pc |-> x, saw |-> y, base |-> b, joined |-> j, got |-> g]
    BY <1>e
  <2>3. PICK v : v = [pc |-> u, saw |-> y, base |-> b, joined |-> k, got |-> g]
    OBVIOUS
  <2>4. conn'[e] = v /\ conn' = [d \in Readers |-> conn'[d]]
    <3>1. conn' = [d \in Readers |-> conn'[d]]
      BY <1>g, <2>1
    <3>2. PICK z : z = [conn[e] EXCEPT !.pc = u]
      OBVIOUS
    <3>3. z = [pc |-> u, saw |-> y, base |-> b, joined |-> j, got |-> g]
      BY <2>2, <3>2
    <3>4. conn'[e] = [z EXCEPT !.joined = k]
      BY <1>g, <2>1, <3>2
    <3>5. [z EXCEPT !.joined = k] = v
      BY <2>3, <3>3
    <3> QED
      BY <3>1, <3>4, <3>5
  <2>5. \A d \in Readers \ {e} : conn'[d] = conn[d]
    BY <1>g, <2>1
  <2>6. conn' = [conn EXCEPT ![e] = v]
    BY <1>g, <2>4, <2>5
  <2> QED
    BY <1>2, <2>3, <2>6
<1>7. CASE HearMessage
  <2>1. conn' = [e \in Readers |-> IF e \in S!Recipients
                                     THEN [conn[e] EXCEPT !.got = @ \cup {Head(stream).n}]
                                     ELSE conn[e]]
    BY <1>7 DEF HearMessage, S!ReceiveMessage
  <2>2. ASSUME NEW e \in Readers
        PROVE  conn'[e] = [pc |-> conn'[e].pc, saw |-> conn'[e].saw, base |-> conn'[e].base,
                           joined |-> conn'[e].joined, got |-> conn'[e].got]
    BY <1>f, <2>1
  <2>3. conn' = [e \in Readers |-> conn'[e]]
    BY <2>1
  <2> QED
    BY <2>2, <2>3 DEF Connections
<1>8. CASE \/ \E w \in Writers : WriteStep(w)
           \/ \E w \in Writers, s \in Servers : Ask(w, s)
           \/ \E s \in Servers : Relay(s) \/ ReplyTo(s) \/ Repeat(s)
           \/ Forget \/ DropLine \/ UNCHANGED liveVars
  <2>1. UNCHANGED conn
    BY <1>8 DEF WriteStep, Ask, Relay, ReplyTo, Repeat, Forget, DropLine, S!Drop, liveVars, line
  <2> QED
    BY <1>1, <2>1
<1>9. ASSUME NEW e \in Readers, NEW s \in Servers, AskGame(e, s) PROVE Connections'
  BY <1>1, <1>4, <1>9 DEF AskGame, line
<1>10. ASSUME NEW e \in Readers, GetGameStep(e) PROVE Connections'
  <2>1. S!CatchUpFails(e) => S!Goto(e, "gone")
    BY DEF S!CatchUpFails
  <2> QED
    BY <1>1, <1>3, <1>4, <1>10, <2>1 DEF GetGameStep, MissGame, WarmGame, GetGame, line
<1>11. ASSUME NEW e \in Readers, Enter(e) \/ HandlerStep(e) \/ Disconnect(e) PROVE Connections'
  <2>1. /\ S!Connect(e) => S!Goto(e, "catchup")
        /\ S!SendFinal(e) => S!Goto(e, "over")
        /\ S!CloseFinal(e) => S!Goto(e, "gone")
        /\ S!Leave(e) => UNCHANGED conn
    BY DEF S!Connect, S!SendFinal, S!CloseFinal, S!Leave
  <2> QED
    BY <1>1, <1>3, <1>5, <1>6, <1>11, <2>1 DEF Enter, HandlerStep, Disconnect
<1>12. CASE SubscriberStep
  <2>1. UNCHANGED conn \/ S!Goto(S!Answered.by, "live")
    BY <1>12 DEF SubscriberStep, S!Execute, S!ReceiveReply
  <2> QED
    BY <1>1, <1>3, <2>1
<1> QED
  BY <1>7, <1>8, <1>9, <1>10, <1>11, <1>12 DEF LiveNext

\* The head of the stream and the rest.
LEMMA StreamParts ==
    ASSUME StreamIsChannel, stream # << >>
    PROVE  /\ Len(stream) \in Nat /\ 1 \in 1 .. Len(stream) /\ Head(stream) = stream[1]
           /\ Len(Tail(stream)) = Len(stream) - 1
           /\ \A i \in 1 .. Len(Tail(stream)) :
                i + 1 \in 1 .. Len(stream) /\ Tail(stream)[i] = stream[i + 1]
<1>1. stream \in Seq(Places(Len(published))) /\ Len(stream) \in Nat
  BY LenProperties DEF StreamIsChannel
<1>2. Len(stream) > 0
  BY <1>1, EmptySeq
<1>3. /\ Head(stream) = stream[1] /\ Len(Tail(stream)) = Len(stream) - 1
      /\ \A i \in 1 .. Len(Tail(stream)) : Tail(stream)[i] = stream[i + 1]
  BY <1>1, HeadTailProperties
<1> QED
  BY <1>1, <1>2, <1>3

\* A message in the stream has a place of the channel.
LEMMA StreamPlaces ==
    ASSUME Good, StreamIsChannel, NEW i \in 1 .. Len(stream), IsMessage(stream[i])
    PROVE  stream[i].n \in 1 .. Len(published) /\ Len(published) \in Nat
<1>1. stream[i] \in Places(Len(published))
  BY ElementOfSeq DEF StreamIsChannel
<1>2. Len(published) \in Nat
  BY LenProperties DEF Good, GoodRedis
<1> QED
  BY <1>1, <1>2 DEF Places, IsMessage

\* Whatever is appended, the rest stays.
LEMMA StreamAppend ==
    ASSUME StreamIsChannel, NEW x
    PROVE  /\ Len(stream) \in Nat /\ Len(Append(stream, x)) = Len(stream) + 1
           /\ \A i \in 1 .. Len(stream) : Append(stream, x)[i] = stream[i]
           /\ Append(stream, x)[Len(stream) + 1] = x
<1> DEFINE T == Places(Len(published)) \cup {x}
<1>1. stream \in Seq(T)
  BY SeqMonotonic DEF StreamIsChannel
<1> HIDE DEF T
<1> QED
  BY <1>1, AppendProperties, LenProperties DEF T

LEMMA OrderStep ==
    ASSUME Good, StreamIsChannel, StreamInOrder, [LiveNext]_liveVars
    PROVE  StreamInOrder'
<1>1. CASE UNCHANGED stream
  BY <1>1 DEF StreamInOrder, IsMessage
<1>2. CASE stream' = << >>
  BY <1>2 DEF StreamInOrder
<1>3. CASE stream # << >> /\ stream' = Tail(stream)
  <2> SUFFICES ASSUME NEW i \in 1 .. Len(stream'), NEW j \in 1 .. Len(stream'), i < j,
                      IsMessage(stream'[i]), IsMessage(stream'[j])
               PROVE  stream'[i].n < stream'[j].n
    BY DEF StreamInOrder, IsMessage
  <2>1. /\ i + 1 \in 1 .. Len(stream) /\ stream'[i] = stream[i + 1]
        /\ j + 1 \in 1 .. Len(stream) /\ stream'[j] = stream[j + 1]
        /\ i + 1 < j + 1
    BY <1>3, StreamParts
  <2> QED
    BY <2>1 DEF StreamInOrder
<1>4. ASSUME NEW x, stream' = Append(stream, x), IsMessage(x) => x.n = Len(published) + 1
      PROVE  StreamInOrder'
  <2>1. /\ Len(stream) \in Nat /\ Len(stream') = Len(stream) + 1
        /\ \A i \in 1 .. Len(stream) : stream'[i] = stream[i]
        /\ stream'[Len(stream) + 1] = x
    BY <1>4, StreamAppend
  <2> SUFFICES ASSUME NEW i \in 1 .. Len(stream'), NEW j \in 1 .. Len(stream'), i < j,
                      IsMessage(stream'[i]), IsMessage(stream'[j])
               PROVE  stream'[i].n < stream'[j].n
    BY DEF StreamInOrder, IsMessage
  <2>2. i \in 1 .. Len(stream) /\ stream'[i] = stream[i]
    BY <2>1
  <2>3. CASE j \in 1 .. Len(stream)
    BY <2>1, <2>2, <2>3 DEF StreamInOrder
  <2>4. CASE j = Len(stream) + 1
    <3>1. stream'[j].n = Len(published) + 1
      BY <1>4, <2>1, <2>4
    <3> QED
      BY <2>2, <3>1, StreamPlaces
  <2> QED
    BY <2>1, <2>3, <2>4
<1>5. /\ ~IsMessage(S!Reply)
      /\ \A n : S!Publication(n).n = n
  BY DEF S!Reply, S!Publication, IsMessage
<1> QED
  BY <1>1, <1>2, <1>3, <1>4, <1>5, StreamMoves

LEMMA OutsideStep == Connections /\ Outside /\ [LiveNext]_liveVars => Outside'
<1> SUFFICES ASSUME Connections, Outside, [LiveNext]_liveVars, NEW f \in Readers,
                    conn'[f].pc \in {"away", "catchup"}
             PROVE  f \notin registry' /\ conn'[f].got = {}
  BY DEF Outside
<1>1. ASSUME f \in registry, conn'[f] = [conn[f] EXCEPT !.got = @ \cup {Head(stream).n}]
      PROVE  FALSE
  <2>1. PICK x, y, b, j, g :
          conn[f] = [pc |-> x, saw |-> y, base |-> b, joined |-> j, got |-> g]
    <3>1. conn[f] = [pc |-> conn[f].pc, saw |-> conn[f].saw, base |-> conn[f].base,
                     joined |-> conn[f].joined, got |-> conn[f].got]
      BY DEF Connections
    <3> QED
      BY <3>1
  <2>2. conn'[f].pc = conn[f].pc
    BY <1>1, <2>1
  <2> QED
    BY <1>1, <2>2 DEF Outside
<1> QED
  BY <1>1, FanMoves DEF Outside

\* A fan hears the head of the stream, or nothing.
LEMMA Hears ==
    ASSUME Good, StreamIsChannel, Connections, Outside, [LiveNext]_liveVars, NEW f \in Readers
    PROVE  \/ /\ UNCHANGED published
              /\ stream # << >> /\ IsMessage(stream[1]) /\ stream' = Tail(stream)
              /\ conn'[f].got = conn[f].got \cup {stream[1].n}
              /\ screen'[f] = IF IsEvent(published[stream[1].n])
                                THEN ScoreOf(published[stream[1].n]) ELSE screen[f]
           \/ /\ conn'[f].got = conn[f].got
              /\ screen'[f] = screen[f] \/ conn[f].got = {}
<1>1. ASSUME stream # << >>, IsMessage(Head(stream)), stream' = Tail(stream),
             conn'[f] = [conn[f] EXCEPT !.got = @ \cup {Head(stream).n}]
      PROVE  /\ Head(stream) = stream[1] /\ UNCHANGED published
             /\ conn'[f].got = conn[f].got \cup {stream[1].n}
  <2>1. Head(stream) = stream[1] /\ Len(stream') = Len(stream) - 1 /\ Len(stream) \in Nat
    BY <1>1, StreamParts
  <2>2. PICK x, y, b, j, g :
          conn[f] = [pc |-> x, saw |-> y, base |-> b, joined |-> j, got |-> g]
    <3>1. conn[f] = [pc |-> conn[f].pc, saw |-> conn[f].saw, base |-> conn[f].base,
                     joined |-> conn[f].joined, got |-> conn[f].got]
      BY DEF Connections
    <3> QED
      BY <3>1
  <2>3. conn'[f].got = conn[f].got \cup {stream[1].n}
    BY <1>1, <2>1, <2>2
  <2>4. UNCHANGED published
    <3>2. stream' # stream /\ \A e : stream' # Append(stream, e)
      BY <2>1, StreamAppend
    <3> QED
      BY <1>1, <3>2, StreamMoves
  <2> QED
    BY <2>1, <2>3, <2>4
<1> QED
  BY <1>1, FanMoves

LEMMA HeardBeforeStep ==
    ASSUME Good, StreamIsChannel, Connections, Outside, StreamInOrder, HeardBefore,
           [LiveNext]_liveVars
    PROVE  HeardBefore'
<1> SUFFICES ASSUME NEW f \in Readers, NEW n \in conn'[f].got
             PROVE  /\ n \in 1 .. Len(published')
                    /\ \A i \in 1 .. Len(stream') : IsMessage(stream'[i]) => n < stream'[i].n
  BY DEF HeardBefore, IsMessage
<1>p. /\ Len(published) \in Nat /\ Len(published') \in Nat /\ Len(published) <= Len(published')
  BY ChannelGrows
<1>1. CASE n \in conn[f].got
  <2>1. n \in 1 .. Len(published) /\ n \in 1 .. Len(published')
    BY <1>p, <1>1 DEF HeardBefore
  <2>2. \A i \in 1 .. Len(stream) : IsMessage(stream[i]) => n < stream[i].n
    BY <1>1 DEF HeardBefore
  <2>3. CASE UNCHANGED stream
    BY <2>1, <2>2, <2>3
  <2>4. CASE stream' = << >>
    BY <2>1, <2>4
  <2>5. CASE stream # << >> /\ stream' = Tail(stream)
    BY <2>1, <2>2, <2>5, StreamParts
  <2>6. ASSUME NEW x, stream' = Append(stream, x), IsMessage(x) => x.n = Len(published) + 1
        PROVE  \A i \in 1 .. Len(stream') : IsMessage(stream'[i]) => n < stream'[i].n
    <3>1. /\ Len(stream) \in Nat /\ Len(stream') = Len(stream) + 1
          /\ \A i \in 1 .. Len(stream) : stream'[i] = stream[i]
          /\ stream'[Len(stream) + 1] = x
      BY <2>6, StreamAppend
    <3>2. \A i \in 1 .. Len(stream') : i \in 1 .. Len(stream) \/ i = Len(stream) + 1
      BY <3>1
    <3>3. n < Len(published) + 1
      BY <1>p, <2>1
    <3> QED
      BY <2>2, <2>6, <3>1, <3>2, <3>3
  <2>7. /\ ~IsMessage(S!Reply)
        /\ \A k : S!Publication(k).n = k
    BY DEF S!Reply, S!Publication, IsMessage
  <2> QED
    BY <2>1, <2>3, <2>4, <2>5, <2>6, <2>7, StreamMoves
<1>2. CASE n \notin conn[f].got
  <2>1. /\ UNCHANGED published
        /\ stream # << >> /\ IsMessage(stream[1]) /\ stream' = Tail(stream)
        /\ n = stream[1].n
    BY <1>2, Hears
  <2>2. n \in 1 .. Len(published)
    BY <2>1, StreamParts, StreamPlaces
  <2>3. ASSUME NEW i \in 1 .. Len(stream'), IsMessage(stream'[i]) PROVE n < stream'[i].n
    <3>1. /\ i + 1 \in 1 .. Len(stream) /\ 1 \in 1 .. Len(stream) /\ stream'[i] = stream[i + 1]
          /\ 1 < i + 1
      BY <2>1, StreamParts
    <3> QED
      BY <2>1, <2>3, <3>1 DEF StreamInOrder
  <2> QED
    BY <2>1, <2>2, <2>3
<1> QED
  BY <1>1, <1>2

LEMMA ShowsStep ==
    ASSUME Good, StreamIsChannel, Connections, Outside, HeardBefore, ShowsLastHeard,
           [LiveNext]_liveVars
    PROVE  ShowsLastHeard'
<1> SUFFICES ASSUME NEW f \in Readers, NEW n \in conn'[f].got, IsEvent(published'[n])
             PROVE  \E k \in conn'[f].got : LastHeard(f, k)'
  BY DEF ShowsLastHeard, IsEvent
<1>1. CASE conn'[f].got = conn[f].got
  <2>1. \A k \in conn[f].got : published'[k] = published[k]
    BY ChannelGrows DEF HeardBefore
  <2>2. PICK k \in conn[f].got : LastHeard(f, k)
    BY <1>1, <2>1 DEF ShowsLastHeard
  <2>3. screen'[f] = screen[f]
    <3>1. CASE /\ UNCHANGED published
               /\ stream # << >> /\ IsMessage(stream[1])
               /\ conn'[f].got = conn[f].got \cup {stream[1].n}
      <4>1. stream[1].n \in conn[f].got
        BY <1>1, <3>1
      <4>2. 1 \in 1 .. Len(stream)
        BY <3>1, StreamParts
      <4>3. stream[1].n < stream[1].n /\ stream[1].n \in Nat
        BY <3>1, <4>1, <4>2, StreamPlaces DEF HeardBefore
      <4> QED
        BY <4>3
    <3> QED
      BY <1>1, <2>2, <3>1, Hears
  <2> QED
    BY <1>1, <2>1, <2>2, <2>3 DEF LastHeard, IsEvent
<1>2. CASE /\ UNCHANGED published
           /\ stream # << >> /\ IsMessage(stream[1])
           /\ conn'[f].got = conn[f].got \cup {stream[1].n}
           /\ screen'[f] = IF IsEvent(published[stream[1].n])
                             THEN ScoreOf(published[stream[1].n]) ELSE screen[f]
  <2>0. PICK x : x = stream[1].n
    OBVIOUS
  <2>1. /\ \A k \in conn[f].got : k < x /\ k \in Nat
        /\ x \in Nat
    BY <1>2, <2>0, StreamParts, StreamPlaces DEF HeardBefore
  <2>2. CASE IsEvent(published[x])
    <3>1. x \in conn'[f].got /\ screen'[f] = ScoreOf(published'[x]) /\ IsEvent(published'[x])
      BY <1>2, <2>0, <2>2
    <3>2. \A k \in conn'[f].got : k <= x
      BY <1>2, <2>0, <2>1
    <3> QED
      BY <3>1, <3>2 DEF LastHeard, IsEvent
  <2>3. CASE ~IsEvent(published[x])
    <3>1. n \in conn[f].got /\ IsEvent(published[n])
      BY <1>2, <2>0, <2>3
    <3>2. PICK k \in conn[f].got : LastHeard(f, k)
      BY <3>1 DEF ShowsLastHeard
    <3>3. k \in conn'[f].got /\ screen'[f] = screen[f]
      BY <1>2, <2>0, <2>3
    <3>4. \A j \in conn'[f].got : IsEvent(published'[j]) => j <= k
      BY <1>2, <2>0, <2>3, <3>2 DEF LastHeard
    <3> QED
      BY <1>2, <3>2, <3>3, <3>4 DEF LastHeard, IsEvent
  <2> QED
    BY <2>2, <2>3
<1> QED
  BY <1>1, <1>2, Hears

LEMMA HeardStart == LiveInit => HeardInv
<1> SUFFICES ASSUME LiveInit PROVE HeardInv
  OBVIOUS
<1>1. conn = [f \in Readers |-> S!Away] /\ registry = {} /\ stream = << >>
  BY DEF LiveInit, S!Init
<1>2. StreamIsChannel /\ StreamInOrder
  BY <1>1, EmptySeq DEF StreamIsChannel, StreamInOrder
<1>3. Connections /\ \A f \in Readers : conn[f].got = {}
  BY <1>1 DEF Connections, S!Away
<1> QED
  BY <1>1, <1>2, <1>3 DEF HeardInv, Outside, HeardBefore, ShowsLastHeard

LEMMA HeardStep == Good /\ HeardInv /\ [LiveNext]_liveVars => HeardInv'
BY StreamStep, ConnectionsStep, OutsideStep, OrderStep, HeardBeforeStep, ShowsStep DEF HeardInv

\* What QueueProofs says of the events holds in the composition.
LEMMA LiveEventStep ==
    ASSUME OneWriterOf("submit"), OneServer, Good, EventInv, [LiveNext]_liveVars
    PROVE  EventInv'
<1>1. CASE [Next]_vars
  BY <1>1, EventStep
<1>2. CASE UNCHANGED writes
  <2>1. UNCHANGED <<row, state, commits, published, recent, out, done, h>>
    BY <1>2 DEF writes
  <2>2. RecordInv'
    <3>1. Committed' = Committed /\ Numbered' /\ (row' = NULL => commits' = << >>)
      BY <2>1 DEF EventInv, RecordInv, Numbered, NewestShowsRow, Committed
    <3>2. ASSUME NEW m PROVE (LastOfType(m, commits))' <=> LastOfType(m, commits)
      BY <2>1 DEF LastOfType
    <3>3. ASSUME NEW m PROVE ShowsRow(m)' <=> ShowsRow(m)
      BY <2>1 DEF ShowsRow
    <3>4. HasLatest'
      BY <3>1, <3>2 DEF EventInv, RecordInv, HasLatest
    <3>5. NewestShowsRow'
      BY <3>1, <3>2, <3>3 DEF EventInv, RecordInv, NewestShowsRow
    <3> QED
      BY <3>1, <3>4, <3>5 DEF RecordInv
  <2>3. OwnInv' /\ NoneBehind'
    BY <2>1 DEF EventInv, OwnInv, AskedInv, HeldIsOwn, QueuedIsAsked, NoneBehind
  <2>4. LatestInv("event_update")'
    BY <2>1 DEF EventInv, LatestInv, HeldLatest, QueueLatest
  <2>5. Followed' /\ PublishedIsListed' /\ EventsInOrder'
    BY <2>1 DEF EventInv, Followed, PublishedIsListed, EventsInOrder
  <2> QED
    BY <2>2, <2>3, <2>4, <2>5 DEF EventInv
<1> QED
  BY <1>1, <1>2, LiveStepIsWriteStep

\* The newest event that a fan heard of is the newest event, and its score is
\* the row's.
LEMMA NewestIsShown ==
    ASSUME Good, EventInv, HeardInv, NEW f \in Readers,
           \E n \in conn[f].got : NewestEventAt(n)
    PROVE  screen[f] = ScoreOf(row)
<1>1. PICK n \in conn[f].got : IsEvent(published[n]) /\ LastOfType(published[n], commits)
  BY DEF NewestEventAt, IsEvent
<1>2. PICK k \in conn[f].got : LastHeard(f, k)
  BY <1>1 DEF HeardInv, ShowsLastHeard
<1>3. n \in 1 .. Len(published) /\ k \in 1 .. Len(published) /\ n <= k
  BY <1>1, <1>2 DEF HeardInv, HeardBefore, LastHeard
<1>4. published[n] \in Committed /\ published[k] \in Committed /\ IsEvent(published[k])
  BY <1>2, <1>3, ElementOfSeq DEF Good, GoodRedis, LastHeard
<1>5. published[n].n <= published[k].n
  BY <1>1, <1>3, <1>4 DEF EventInv, EventsInOrder
<1>6. DOMAIN commits = 1 .. Len(commits) /\ Len(commits) \in Nat
  BY Sizes, LenProperties
<1>7. PICK i \in 1 .. Len(commits) :
        /\ commits[i] = published[n]
        /\ \A j \in 1 .. Len(commits) : commits[j].type = published[n].type => j <= i
  BY <1>1, <1>6 DEF LastOfType
<1>8. PICK j \in 1 .. Len(commits) : commits[j] = published[k]
  BY <1>4, <1>6 DEF Committed, ToSet
<1>9. j <= i
  BY <1>1, <1>4, <1>7, <1>8 DEF IsEvent
<1>10. commits[i].n = i /\ commits[j].n = j
  BY DEF EventInv, RecordInv, Numbered
<1>11. published[k] = published[n]
  BY <1>5, <1>7, <1>8, <1>9, <1>10
<1>12. published[n].home = row.home /\ published[n].away = row.away
  BY <1>1, <1>4 DEF EventInv, RecordInv, NewestShowsRow, ShowsRow, IsEvent
<1> QED
  BY <1>2, <1>11, <1>12 DEF LastHeard, ScoreOf

\* One client submits events on one server: a fan who heard of the newest event
\* shows the row's score, for any number of fans, through repeated commands,
\* lost lines and the catch-up of others, and for any stream that is still on
\* its way.
THEOREM HeardScreensAreRow ==
    ASSUME OneWriterOf("submit"), OneServer PROVE LiveSpec => []HeardScreenIsRow
<1>1. Good /\ EventInv /\ HeardInv => HeardScreenIsRow
  BY NewestIsShown DEF HeardScreenIsRow
<1>2. LiveInit => Good /\ EventInv /\ HeardInv
  BY InitIsGood, EventStart, HeardStart DEF LiveInit
<1>3. Good /\ EventInv /\ HeardInv /\ [LiveNext]_liveVars => Good' /\ EventInv' /\ HeardInv'
  BY GoodStaysGood, LiveEventStep, HeardStep
<1> QED
  BY <1>1, <1>2, <1>3, PTL DEF LiveSpec

-----------------------------------------------------------------------------
(* Part 4: a fan who streams misses nothing                                  *)

\* What fan f is due it has heard, or it is in the stream.
Missing(f, n) ==
    /\ n \notin conn[f].got
    /\ \A i \in 1 .. Len(stream) : stream[i] # S!Publication(n)

NothingIsMissing ==
    \A f \in Readers : \A n \in 1 .. Len(published) : Due(f, n) => ~Missing(f, n)

\* How a fan comes to stream, and what happens while it does: the stream gets a
\* message with the channel, or a reply, or loses its head, which the fan hears.
LEMMA StreamingMoves ==
    ASSUME Good, Connections, Outside, [LiveNext]_liveVars, NEW f \in Readers,
           f \in registry' \cap open', active'
    PROVE  \/ UNCHANGED published /\ conn'[f].joined = Len(published)
           \/ UNCHANGED published /\ since' = Len(published)
           \/ /\ f \in registry \cap open /\ active
              /\ conn'[f].joined = conn[f].joined /\ since' = since
              /\ conn[f].got \subseteq conn'[f].got
              /\ \/ UNCHANGED <<published, stream>>
                 \/ UNCHANGED published /\ stream' = Append(stream, S!Reply)
                 \/ /\ UNCHANGED published /\ stream # << >> /\ stream' = Tail(stream)
                    /\ IsMessage(Head(stream)) => Head(stream).n \in conn'[f].got
                 \/ \E m \in Committed :
                      /\ published' = Append(published, m)
                      /\ stream' = Append(stream, S!Publication(Len(published) + 1))
<1> DEFINE Streaming ==
             /\ f \in registry \cap open /\ active
             /\ conn'[f].joined = conn[f].joined /\ since' = since
             /\ conn[f].got \subseteq conn'[f].got
           Still == Streaming /\ UNCHANGED <<published, stream>>
<1>f. PICK x, y, b, j, g : conn[f] = [pc |-> x, saw |-> y, base |-> b, joined |-> j, got |-> g]
  <2>1. conn[f] = [pc |-> conn[f].pc, saw |-> conn[f].saw, base |-> conn[f].base,
                   joined |-> conn[f].joined, got |-> conn[f].got]
    BY DEF Connections
  <2> QED
    BY <2>1
<1>g. conn = [e \in Readers |-> conn[e]]
  BY DEF Connections
<1>1. ASSUME UNCHANGED <<line, published>> PROVE Still
  BY <1>1 DEF line
<1>2. ASSUME NEW e \in Readers, NEW stage, S!Goto(e, stage)
      PROVE  conn'[f].joined = conn[f].joined /\ conn'[f].got = conn[f].got
  BY <1>f, <1>g, <1>2 DEF S!Goto
<1>3. ASSUME NEW e \in Readers, NEW game, Saw(e, game), UNCHANGED published PROVE Still
  <2>1. PICK u : conn' = [conn EXCEPT ![e].saw = u]
    BY <1>3 DEF Saw
  <2>2. conn'[f].joined = conn[f].joined /\ conn'[f].got = conn[f].got
    BY <1>f, <1>g, <2>1
  <2> QED
    BY <1>3, <2>2 DEF Saw
<1>4. ASSUME NEW e \in Readers, S!Connect(e), UNCHANGED published PROVE Still
  <2>1. /\ S!Goto(e, "catchup") /\ open' = open \cup {e} /\ e \notin registry
        /\ UNCHANGED <<registry, active, since, stream>>
    BY <1>4 DEF S!Connect, S!client, Outside
  <2> QED
    BY <1>2, <1>4, <2>1
<1>5. ASSUME NEW e \in Readers, UNCHANGED published,
             S!CatchUpFails(e) \/ S!SendFinal(e) \/ S!CloseFinal(e)
      PROVE  Still
  <2>1. /\ S!Goto(e, "gone") \/ S!Goto(e, "over")
        /\ UNCHANGED <<registry, active, since, stream>>
    BY <1>5 DEF S!CatchUpFails, S!SendFinal, S!CloseFinal, S!client
  <2>2. open' \subseteq open
    BY <1>5 DEF S!CatchUpFails, S!SendFinal, S!CloseFinal
  <2> QED
    BY <1>2, <1>5, <2>1, <2>2
<1>6. ASSUME NEW e \in Readers, S!ReadRecent(e), UNCHANGED published PROVE Still
  <2>1. PICK u : conn' = [conn EXCEPT ![e].base = u]
    BY <1>6 DEF S!ReadRecent
  <2>2. conn'[f].joined = conn[f].joined /\ conn'[f].got = conn[f].got
    BY <1>f, <1>g, <2>1
  <2>3. UNCHANGED <<open, registry, active, since, stream>>
    BY <1>6 DEF S!ReadRecent, S!client
  <2> QED
    BY <1>6, <2>2, <2>3
<1>7. ASSUME NEW e \in Readers, S!Register(e), UNCHANGED published
      PROVE  Still \/ conn'[f].joined = Len(published)
  <2>1. PICK u : conn' = [conn EXCEPT ![e].pc = u, ![e].joined = Len(published)]
    BY <1>7 DEF S!Register, S!Joined
  <2>2. UNCHANGED <<open, active, since, stream>> /\ registry' = registry \cup {e}
    BY <1>7 DEF S!Register
  <2>3. CASE e = f
    BY <1>f, <1>g, <2>1, <2>3
  <2>4. CASE e # f
    <3>1. conn'[f] = conn[f]
      BY <1>g, <2>1, <2>4
    <3> QED
      BY <1>7, <2>2, <2>4, <3>1
  <2> QED
    BY <2>3, <2>4
<1>8. ASSUME NEW e \in Readers, S!Leave(e), UNCHANGED published PROVE Still
  <2>1. /\ conn' = conn /\ registry' \subseteq registry /\ open' \subseteq open
        /\ UNCHANGED <<active, since, stream>>
    BY <1>8 DEF S!Leave, S!Unregister
  <2> QED
    BY <1>8, <2>1
<1>9. ASSUME NEW e \in Readers, Enter(e) \/ HandlerStep(e) \/ Disconnect(e) \/ GetGameStep(e)
      PROVE  Still \/ (UNCHANGED published /\ conn'[f].joined = Len(published))
  <2>1. UNCHANGED published
    BY <1>9 DEF Enter, HandlerStep, Disconnect, GetGameStep, MissGame, WarmGame, GetGame,
       ReadRow, Warm, Served, vars, redis
  <2>2. \/ S!Connect(e) \/ S!CatchUpFails(e) \/ S!SendFinal(e) \/ S!CloseFinal(e)
        \/ S!ReadRecent(e) \/ S!Register(e) \/ S!Leave(e)
        \/ Saw(e, r[e].seen) \/ UNCHANGED line
    BY <1>9 DEF Enter, HandlerStep, Disconnect, GetGameStep, MissGame, WarmGame, GetGame
  <2> HIDE DEF Still
  <2> QED
    BY <1>1, <1>3, <1>4, <1>5, <1>6, <1>7, <1>8, <2>1, <2>2
<1>10. ASSUME NEW e \in Readers, NEW s \in Servers, AskGame(e, s) PROVE Still
  <2>1. UNCHANGED published
    BY <1>10 DEF AskGame, ReadCache, redis
  <2>2. Saw(e, cache.game) \/ UNCHANGED line
    BY <1>10 DEF AskGame
  <2> HIDE DEF Still
  <2> QED
    BY <1>1, <1>3, <2>1, <2>2
<1>11. ASSUME \/ \E w \in Writers : WriteStep(w)
              \/ \E w \in Writers, s \in Servers : Ask(w, s)
              \/ \E s \in Servers : ReplyTo(s) \/ Repeat(s)
              \/ Forget \/ UNCHANGED liveVars
       PROVE  Still
  <2>1. UNCHANGED <<line, published>>
    BY <1>11 DEF WriteStep, Ask, ReplyTo, Repeat, Forget, liveVars, vars, redis, Handle,
       Read, Commit, Abort, Fanout, Await, Begin, Reply, Reconnect, Expire
  <2> QED
    BY <1>1, <2>1
<1>12. ASSUME NEW s \in Servers, Relay(s)
       PROVE  \/ Still
              \/ /\ Streaming
                 /\ \E m \in Committed :
                      /\ published' = Append(published, m)
                      /\ stream' = Append(stream, S!Publication(Len(published) + 1))
  <2>1. Streaming
    BY <1>12 DEF Relay
  <2>2. CASE published' = published
    BY <1>12, <2>1, <2>2 DEF Relay
  <2>3. CASE published' # published
    <3>1. [Next]_vars /\ published \in Seq(Committed)
      BY <1>12 DEF Relay, Next, Deliver, Good, GoodRedis
    <3>2. PICK m \in Committed : published' = Append(published, m)
      BY <2>3, <3>1, PublishedMoves
    <3>3. Len(published') = Len(published) + 1
      BY <3>1, <3>2, AppendProperties
    <3>4. stream' = Append(stream, S!Publication(Len(published) + 1))
      BY <1>12, <2>1, <2>3, <3>3 DEF Relay
    <3> QED
      BY <2>1, <3>2, <3>4
  <2> QED
    BY <2>2, <2>3
<1>13. ASSUME HearMessage
       PROVE  /\ Streaming /\ UNCHANGED published /\ stream # << >> /\ stream' = Tail(stream)
              /\ Head(stream).n \in conn'[f].got
  <2>1. /\ UNCHANGED <<published, open, registry, active, since>>
        /\ stream # << >> /\ stream' = Tail(stream)
        /\ f \in S!Recipients
        /\ conn'[f] = IF f \in S!Recipients
                        THEN [conn[f] EXCEPT !.got = @ \cup {Head(stream).n}] ELSE conn[f]
    BY <1>13 DEF HearMessage, S!ReceiveMessage, S!Recipients, vars, redis
  <2>2. conn'[f].joined = conn[f].joined /\ conn'[f].got = conn[f].got \cup {Head(stream).n}
    BY <1>f, <2>1
  <2> QED
    BY <2>1, <2>2 DEF S!Recipients
<1>14. ASSUME S!ReceiveReply, UNCHANGED published
       PROVE  /\ Streaming /\ stream # << >> /\ stream' = Tail(stream)
              /\ ~IsMessage(Head(stream))
  <2>1. /\ UNCHANGED <<open, registry, active, since>>
        /\ stream # << >> /\ stream' = Tail(stream) /\ Head(stream).op = "reply"
        /\ UNCHANGED conn \/ S!Goto(S!Answered.by, "live")
    BY <1>14 DEF S!ReceiveReply
  <2>2. conn'[f].joined = conn[f].joined /\ conn'[f].got = conn[f].got
    <3>1. CASE S!Goto(S!Answered.by, "live") /\ S!Answered.by \notin Readers
      BY <1>g, <3>1 DEF S!Goto
    <3> QED
      BY <1>2, <2>1, <3>1
  <2> QED
    BY <2>1, <2>2 DEF IsMessage
<1>15. ASSUME S!Execute, UNCHANGED published
       PROVE  \/ since' = Len(published)
              \/ Streaming /\ stream' = Append(stream, S!Reply)
  BY <1>15 DEF S!Execute
<1>16. ~DropLine
  BY DEF DropLine, S!Drop
<1>17. CASE SubscriberStep
  <2>1. UNCHANGED published /\ (S!Execute \/ S!ReceiveReply)
    BY <1>17 DEF SubscriberStep, vars, redis
  <2> QED
    BY <1>14, <1>15, <2>1
<1> HIDE DEF Still
<1>18. \/ Still \/ (UNCHANGED published /\ conn'[f].joined = Len(published))
       \/ HearMessage \/ SubscriberStep \/ \E s \in Servers : Relay(s)
  BY <1>9, <1>10, <1>11, <1>16 DEF LiveNext
<1> QED
  BY <1>12, <1>13, <1>17, <1>18 DEF Still

LEMMA MissingStep ==
    ASSUME Good, StreamIsChannel, Connections, Outside, NothingIsMissing, [LiveNext]_liveVars
    PROVE  NothingIsMissing'
<1> SUFFICES ASSUME NEW f \in Readers, NEW n \in 1 .. Len(published'), Due(f, n)'
             PROVE  n \in conn'[f].got \/ \E i \in 1 .. Len(stream') : stream'[i] = S!Publication(n)
  BY DEF NothingIsMissing, Missing, S!Publication
<1>d. /\ f \in registry' \cap open' /\ active'
      /\ conn'[f].joined < n /\ since' < n
  BY DEF Due
<1>1. Len(published) \in Nat
  BY ChannelGrows
<1>2. CASE UNCHANGED published /\ (conn'[f].joined = Len(published) \/ since' = Len(published))
  BY <1>1, <1>2, <1>d
<1>3. CASE /\ f \in registry \cap open /\ active
           /\ conn'[f].joined = conn[f].joined /\ since' = since
           /\ conn[f].got \subseteq conn'[f].got
  <2>1. ASSUME n \in 1 .. Len(published)
        PROVE  n \in conn[f].got \/ \E i \in 1 .. Len(stream) : stream[i] = S!Publication(n)
    <3>1. Due(f, n)
      BY <1>3, <1>d DEF Due
    <3> QED
      BY <2>1, <3>1 DEF NothingIsMissing, Missing
  <2>2. CASE UNCHANGED <<published, stream>>
    BY <1>3, <2>1, <2>2
  <2>3. CASE UNCHANGED published /\ stream' = Append(stream, S!Reply)
    <3>1. /\ Len(stream) \in Nat /\ Len(stream') = Len(stream) + 1
          /\ \A i \in 1 .. Len(stream) : stream'[i] = stream[i]
      BY <2>3, StreamAppend
    <3> QED
      BY <1>3, <2>1, <2>3, <3>1
  <2>4. CASE /\ UNCHANGED published /\ stream # << >> /\ stream' = Tail(stream)
             /\ IsMessage(Head(stream)) => Head(stream).n \in conn'[f].got
    <3>1. CASE n \in conn[f].got
      BY <1>3, <3>1
    <3>2. ASSUME NEW i \in 1 .. Len(stream), stream[i] = S!Publication(n)
          PROVE  n \in conn'[f].got \/ \E k \in 1 .. Len(stream') : stream'[k] = S!Publication(n)
      <4>1. CASE i = 1
        <5>1. IsMessage(Head(stream)) /\ Head(stream).n = n
          BY <2>4, <3>2, <4>1, StreamParts DEF IsMessage, S!Publication
        <5> QED
          BY <2>4, <5>1
      <4>2. CASE i # 1
        <5>1. /\ Len(stream) \in Nat /\ Len(stream') = Len(stream) - 1
              /\ \A k \in 1 .. Len(stream') : stream'[k] = stream[k + 1]
          BY <2>4, StreamParts
        <5>2. i - 1 \in 1 .. Len(stream') /\ (i - 1) + 1 = i
          BY <4>2, <5>1
        <5> QED
          BY <3>2, <5>1, <5>2
      <4> QED
        BY <4>1, <4>2
    <3> QED
      BY <2>1, <2>4, <3>1, <3>2
  <2>5. ASSUME NEW m \in Committed, published' = Append(published, m),
               stream' = Append(stream, S!Publication(Len(published) + 1))
        PROVE  n \in conn'[f].got \/ \E i \in 1 .. Len(stream') : stream'[i] = S!Publication(n)
    <3>1. /\ Len(stream) \in Nat /\ Len(stream') = Len(stream) + 1
          /\ \A i \in 1 .. Len(stream) : stream'[i] = stream[i]
          /\ stream'[Len(stream) + 1] = S!Publication(Len(published) + 1)
      BY <2>5, StreamAppend
    <3>2. Len(published') = Len(published) + 1
      BY <2>5, AppendProperties DEF Good, GoodRedis
    <3>3. CASE n = Len(published) + 1
      BY <3>1, <3>3
    <3>4. CASE n \in 1 .. Len(published)
      BY <1>3, <2>1, <3>1, <3>4
    <3> QED
      BY <1>1, <3>2, <3>3, <3>4
  <2> QED
    BY <1>2, <1>d, <2>2, <2>3, <2>4, <2>5, StreamingMoves
<1> QED
  BY <1>2, <1>3, <1>d, StreamingMoves

LEMMA MissingStart == LiveInit => NothingIsMissing
<1> SUFFICES ASSUME LiveInit PROVE NothingIsMissing
  OBVIOUS
<1>1. registry = {}
  BY DEF LiveInit, S!Init
<1> QED
  BY <1>1 DEF NothingIsMissing, Due

\* A fan who streams has heard of every message announced meanwhile, or will
\* hear of it: for any writers, fans and servers and through every mishap.
THEOREM StreamsMissNothing == LiveSpec => []NothingIsMissing
<1>1. LiveInit => Good /\ HeardInv /\ NothingIsMissing
  BY InitIsGood, HeardStart, MissingStart DEF LiveInit
<1>2. Good /\ HeardInv /\ NothingIsMissing /\ [LiveNext]_liveVars
        => Good' /\ HeardInv' /\ NothingIsMissing'
  BY GoodStaysGood, HeardStep, MissingStep DEF HeardInv
<1> QED
  BY <1>1, <1>2, PTL DEF LiveSpec

\* One client submits events on one server: a fan who streamed when the newest
\* event was announced shows the row's score once nothing is on its way to it.
THEOREM ServedScreensAreRow ==
    ASSUME OneWriterOf("submit"), OneServer PROVE LiveSpec => []ServedScreenIsRow
<1>1. ASSUME Good, NothingIsMissing, HeardScreenIsRow PROVE ServedScreenIsRow
  <2> SUFFICES ASSUME NEW f \in Readers, stream = << >>, NEW n \in DOMAIN published,
                      Due(f, n), NewestEventAt(n)
               PROVE  screen[f] = ScoreOf(row)
    BY DEF ServedScreenIsRow
  <2>1. n \in 1 .. Len(published)
    BY <1>1, LenProperties DEF Good, GoodRedis
  <2>2. Len(stream) = 0
    BY EmptySeq
  <2>3. n \in conn[f].got
    BY <1>1, <2>1, <2>2 DEF NothingIsMissing, Missing
  <2> QED
    BY <1>1, <2>3 DEF HeardScreenIsRow
<1>2. LiveSpec => []HeardScreenIsRow
  BY HeardScreensAreRow
<1> QED
  BY <1>1, <1>2, LiveGoodness, StreamsMissNothing, PTL

=============================================================================
