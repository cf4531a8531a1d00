--------------------------- MODULE WsServerProofs ---------------------------
(***************************************************************************)
(* The WebSocket server for any number of fans, messages and faults: its   *)
(* safety properties, and that it implements Feed.                         *)
(*                                                                         *)
(* The properties speak of the registry and of what Redis delivers; why    *)
(* they hold is in the commands between the two.  Ready is the inductive   *)
(* invariant: a handler that waits is registered and has one SUBSCRIBE     *)
(* under way; an UNSUBSCRIBE is only sent while nobody waits, so it stands *)
(* before every SUBSCRIBE that somebody waits for; and the last command    *)
(* says whether the registry is empty.                                     *)
(***************************************************************************)
EXTENDS WsServer, TLAPS, FiniteSetTheorems

-----------------------------------------------------------------------------
(* The inductive invariant *)

Stages == {"away", "catchup", "subscribing", "live", "over", "gone"}
Sights == {"nothing", "running", "over"}
Places == 0 .. MaxMessages
Connection ==
    [pc: Stages, saw: Sights, base: Places \cup {NULL}, joined: Places,
     got: SUBSET Messages]

\* TypeOK without the number of replies.
Numbers ==
    /\ pushed \in 0 .. MaxMessages /\ feed \in 0 .. pushed /\ since \in Places
    /\ sent \in 0 .. Len(subq)
    /\ mishaps \in Nat
Shapes ==
    /\ conn \in [Fans -> Connection] /\ subq \in Seq(Command) /\ stream \in Seq(Item)
    /\ open \subseteq Fans /\ registry \subseteq Fans
    /\ over \in BOOLEAN /\ subscribed \in BOOLEAN /\ confirmed \in BOOLEAN
    /\ subUp \in BOOLEAN /\ active \in BOOLEAN
Types == Numbers /\ Shapes

\* A fan is registered from its handler's last await until its socket closes,
\* and a handler that is through has a subscription.
Registered ==
    /\ \A f \in Fans : conn[f].pc = "subscribing" => f \in registry
    /\ \A f \in registry : conn[f].pc \in {"subscribing", "live"}
    /\ \A f \in open : conn[f].pc = "live" => f \in registry
    /\ \A f \in registry : conn[f].pc = "live" => subscribed
    /\ registry = {} => ~subscribed

\* Somebody waits for the i-th command.
Awaited(i) == subq[i].op = "subscribe" /\ subq[i].by # NULL

Commands ==
    /\ \A i \in 1 .. Len(subq) : Awaited(i) => conn[subq[i].by].pc = "subscribing"
    /\ \A i, j \in 1 .. Len(subq) :
         Awaited(i) /\ Awaited(j) /\ subq[i].by = subq[j].by => i = j
    /\ \A i \in 1 .. Len(subq) : subq[i].op = "unsubscribe" => ~subscribed
    /\ \A i, j \in 1 .. Len(subq) : subq[i].op = "unsubscribe" /\ Awaited(j) => i < j

\* While the client lives, the registry decides what Redis will deliver: by the
\* last command, by what it executed last, by what ioredis remembers.
Decided ==
    /\ subUp =>
         /\ Len(subq) > 0 => (subq[Len(subq)].op = "subscribe" <=> registry # {})
         /\ sent = Len(subq) => (active <=> registry # {})
         /\ Len(subq) = 0 => (confirmed <=> registry # {})
    /\ ~subUp => ~active /\ Len(subq) = 0

\* Messages come in the order in which they were published.
Ordered ==
    /\ \A i \in 1 .. Len(stream) : stream[i].op = "message" => stream[i].n \in 1 .. feed
    /\ \A i, j \in 1 .. Len(stream) :
         i < j /\ stream[i].op = "message" /\ stream[j].op = "message"
           => stream[i].n < stream[j].n

\* The places of the replies in the stream: one for each command executed.
Replies == {i \in DOMAIN stream : stream[i].op = "reply"}
RepliesDue == IsFiniteSet(Replies) /\ Cardinality(Replies) = sent

Ready ==
    Types /\ Registered /\ Commands /\ Decided /\ Ordered
      /\ StreamHasNoHoles /\ RepliesDue

-----------------------------------------------------------------------------
(* The steps, by what they mean for the invariant *)

\* Only the write path moves, unseen by the server.
Unseen ==
    UNCHANGED <<feed, conn, open, registry, subscribed, client>>

\* A handler moves before its registration, or never gets there.
Outside(f) ==
    /\ conn[f].pc \notin {"subscribing", "live"}
    /\ conn'[f].pc \notin {"subscribing", "live"}
    /\ conn'[f].got = conn[f].got /\ conn'[f].joined = conn[f].joined
    /\ \A g \in Fans \ {f} : conn'[g] = conn[g]
    /\ open' \ {f} = open \ {f}
    /\ UNCHANGED <<feed, registry, subscribed, client>>

\* The process starts again.
Restarts ==
    /\ Restart
    /\ UNCHANGED feed

\* The client gives up while nobody waits for it.
GivesUp ==
    /\ subUp' = FALSE /\ subq' = << >> /\ sent' = 0 /\ stream' = << >>
    /\ active' = FALSE
    /\ UNCHANGED <<feed, conn, open, registry, subscribed, confirmed>>

Step ==
    \/ Unseen \/ PublishEvent
    \/ \E f \in Fans : Outside(f) \/ Register(f) \/ Leave(f)
    \/ Execute \/ ReceiveMessage \/ ReceiveReply
    \/ Drop \/ Restarts \/ GivesUp

LEMMA WhatAStepIs ==
    ASSUME Types, [Next]_vars
    PROVE  Step
<1>1. ASSUME NEW f \in Fans,
             Connect(f) \/ ReadGame(f) \/ ReadRecent(f) \/ CatchUpFails(f)
               \/ SendFinal(f) \/ CloseFinal(f)
      PROVE  Outside(f)
  BY <1>1 DEF Types, Numbers, Shapes, Connection, Connect, ReadGame, ReadRecent, CatchUpFails, SendFinal,
              CloseFinal, CatchUpReady, Goto, Outside, write, client
<1>2. ASSUME PushEvent \/ EndGame \/ UNCHANGED vars
      PROVE  Unseen
  BY <1>2 DEF PushEvent, EndGame, vars, Unseen, client
<1>3. ASSUME NEW f \in Fans, RegisterRejected(f)
      PROVE  Restarts
  BY <1>3 DEF Types, Numbers, Shapes, RegisterRejected, Restarts, write
<1>4. ASSUME GiveUp
      PROVE  Restarts \/ GivesUp
  BY <1>4 DEF Types, Numbers, Shapes, GiveUp, Restarts, GivesUp, write
<1> QED
  BY <1>1, <1>2, <1>3, <1>4 DEF Next, Handler, Receive, Step

-----------------------------------------------------------------------------
(* Types *)

LEMMA TypesInit ==
    ASSUME Init
    PROVE  Types
<1>1. Away \in Connection
  BY BoundsAssumption DEF Away, Connection, Stages, Sights, Places
<1>2. subq \in Seq(Command) /\ stream \in Seq(Item)
  BY DEF Init
<1>3. Shapes
  BY <1>1, <1>2 DEF Init, Shapes
<1>4. Numbers
  BY BoundsAssumption DEF Init, Numbers, Places
<1> QED
  BY <1>3, <1>4 DEF Types

\* What a handler writes down leaves its record one of a connection.
LEMMA ConnectionsMove ==
    ASSUME conn \in [Fans -> Connection], NEW f \in Fans
    PROVE  /\ \A pc \in Stages : [conn EXCEPT ![f].pc = pc] \in [Fans -> Connection]
           /\ \A saw \in Sights : [conn EXCEPT ![f].saw = saw] \in [Fans -> Connection]
           /\ \A n \in Places : [conn EXCEPT ![f].base = n] \in [Fans -> Connection]
           /\ \A pc \in Stages, n \in Places :
                [conn EXCEPT ![f].pc = pc, ![f].joined = n] \in [Fans -> Connection]
           /\ \A n \in Messages : [conn[f] EXCEPT !.got = @ \cup {n}] \in Connection
<1>1. \A pc \in Stages, n \in Places :
        [conn EXCEPT ![f].pc = pc, ![f].joined = n]
          = [conn EXCEPT ![f] = [conn[f] EXCEPT !.pc = pc, !.joined = n]]
  OBVIOUS
<1>2. \A pc \in Stages, n \in Places :
        [conn[f] EXCEPT !.pc = pc, !.joined = n] \in Connection
  BY DEF Connection
<1> QED
  BY <1>1, <1>2 DEF Connection

LEMMA NumbersStep ==
    ASSUME Types, [Next]_vars
    PROVE  Numbers'
<1> feed \in Places /\ pushed \in Places
  BY BoundsAssumption DEF Types, Numbers, Places
<1> subq \in Seq(Command)
  BY DEF Types, Shapes
<1>1. CASE PushEvent
  BY <1>1, BoundsAssumption DEF Types, Numbers, PushEvent, client
<1>12. CASE EndGame
  BY <1>12 DEF Types, Numbers, EndGame, client
<1>2. CASE PublishEvent
  BY <1>2 DEF Types, Numbers, PublishEvent
<1>3. ASSUME NEW f \in Fans,
             \/ Connect(f) \/ ReadGame(f) \/ ReadRecent(f)
             \/ CatchUpFails(f) \/ CloseFinal(f) \/ SendFinal(f)
      PROVE  Numbers'
  BY <1>3 DEF Types, Numbers, Connect, ReadGame, ReadRecent, CatchUpFails,
              CloseFinal, SendFinal, write, client
<1>4. ASSUME NEW f \in Fans, Register(f) \/ Leave(f)
      PROVE  Numbers'
  <2>1. \/ subq' = subq
        \/ \E c \in Command : subq' = Append(subq, c)
    BY <1>4 DEF Register, Joined, Leave, Unregister, Command, Subscribe, Unsubscribe
  <2>2. Len(subq') >= Len(subq) /\ Len(subq') \in Nat
    BY <2>1
  <2> QED
    BY <1>4, <2>2 DEF Types, Numbers, Register, Leave, write
<1>5. CASE Execute
  BY <1>5 DEF Types, Numbers, Execute, write
<1>6. CASE ReceiveMessage
  BY <1>6 DEF Types, Numbers, ReceiveMessage, write
<1>7. CASE ReceiveReply
  <2>1. Len(subq') = Len(subq) - 1
    BY <1>7 DEF Types, Numbers, ReceiveReply
  <2> QED
    BY <1>7, <2>1 DEF Types, Numbers, ReceiveReply, write
<1>8. CASE Drop
  <2>1. <<Subscribe(NULL)>> \in Seq(Command)
    BY DEF Subscribe, Command
  <2>2. Len(subq') \in Nat
    BY <1>8, <2>1 DEF Drop
  <2> QED
    BY <1>8, <2>2 DEF Types, Numbers, Drop, Mishap, write
<1>9. ASSUME NEW f \in Fans, RegisterRejected(f)
      PROVE  Numbers'
  BY <1>9 DEF Types, Numbers, RegisterRejected, Restart, write
<1>10. CASE GiveUp
  <2>1. subq' = << >> /\ sent' = 0
    BY <1>10 DEF GiveUp, Restart
  <2> QED
    BY <1>10, <2>1 DEF Types, Numbers, GiveUp, Mishap, write
<1>11. CASE UNCHANGED vars
  BY <1>11 DEF Types, Numbers, vars
<1> QED
  BY <1>1, <1>2, <1>3, <1>4, <1>5, <1>6, <1>7, <1>8, <1>9, <1>10, <1>11,
     <1>12 DEF Next, Handler, Receive

LEMMA ShapesStep ==
    ASSUME Types, [Next]_vars
    PROVE  Shapes'
<1> /\ "catchup" \in Stages /\ "subscribing" \in Stages /\ "live" \in Stages
    /\ "over" \in Stages /\ "gone" \in Stages
  BY DEF Stages
<1> feed \in Places /\ pushed \in Places
  BY BoundsAssumption DEF Types, Numbers, Places
<1> USE DEF Shapes
<1> Shapes /\ conn \in [Fans -> Connection]
  BY DEF Types
<1>1. CASE PushEvent \/ EndGame
  BY <1>1 DEF PushEvent, EndGame, client
<1>2. CASE PublishEvent
  <2>1. feed + 1 \in Messages
    BY <1>2, BoundsAssumption DEF Types, Numbers, PublishEvent, Messages
  <2>2. Publication(feed + 1) \in Item
    BY <2>1 DEF Publication, Item
  <2>3. stream' \in Seq(Item)
    BY <1>2, <2>2 DEF PublishEvent
  <2> QED
    BY <1>2, <2>3 DEF PublishEvent
<1>3. ASSUME NEW f \in Fans, Connect(f) \/ CatchUpFails(f) \/ CloseFinal(f) \/ SendFinal(f)
      PROVE  Shapes'
  <2>1. PICK pc \in Stages : conn' = [conn EXCEPT ![f].pc = pc]
    BY <1>3 DEF Connect, CatchUpFails, CloseFinal, SendFinal, Goto
  <2>2. conn' \in [Fans -> Connection]
    BY <2>1, ConnectionsMove
  <2> QED
    BY <1>3, <2>2 DEF Connect, CatchUpFails, CloseFinal, SendFinal, write, client
<1>4. ASSUME NEW f \in Fans, ReadGame(f)
      PROVE  Shapes'
  <2>1. PICK saw \in Sights : conn' = [conn EXCEPT ![f].saw = saw]
    BY <1>4 DEF ReadGame, Sights
  <2>2. conn' \in [Fans -> Connection]
    BY <2>1, ConnectionsMove
  <2> QED
    BY <1>4, <2>2 DEF ReadGame, write, client
<1>5. ASSUME NEW f \in Fans, ReadRecent(f)
      PROVE  Shapes'
  <2>1. conn' \in [Fans -> Connection]
    BY <1>5, ConnectionsMove DEF ReadRecent
  <2> QED
    BY <1>5, <2>1 DEF ReadRecent, write, client
<1>6. ASSUME NEW f \in Fans, Register(f)
      PROVE  Shapes'
  <2>1. Subscribe(f) \in Command
    BY DEF Subscribe, Command
  <2>2. conn' \in [Fans -> Connection]
    BY <1>6, ConnectionsMove DEF Register, Joined
  <2>3. subq' \in Seq(Command)
    BY <1>6, <2>1 DEF Register, Joined
  <2> QED
    BY <1>6, <2>2, <2>3 DEF Register, write
<1>7. ASSUME NEW f \in Fans, Leave(f)
      PROVE  Shapes'
  <2>1. Unsubscribe \in Command
    BY DEF Unsubscribe, Command
  <2>2. subq' \in Seq(Command)
    BY <1>7, <2>1 DEF Leave, Unregister
  <2>3. subscribed' \in BOOLEAN
    BY <1>7 DEF Leave, Unregister
  <2>4. registry' \subseteq Fans
    BY <1>7 DEF Leave, Unregister
  <2> QED
    BY <1>7, <2>2, <2>3, <2>4 DEF Leave, write
<1>8. CASE Execute
  <2>1. Reply \in Item
    BY DEF Reply, Item
  <2>2. stream' \in Seq(Item)
    BY <1>8, <2>1 DEF Execute
  <2>3. active' \in BOOLEAN
    BY <1>8 DEF Execute
  <2> QED
    BY <1>8, <2>2, <2>3 DEF Execute, write
<1>9. CASE ReceiveMessage
  <2>1. Head(stream) \in Item /\ Tail(stream) \in Seq(Item)
    BY <1>9 DEF ReceiveMessage
  <2>2. Head(stream).n \in Messages
    BY <1>9, <2>1 DEF ReceiveMessage, Item
  <2>3. conn' \in [Fans -> Connection]
    BY <1>9, <2>2, ConnectionsMove DEF ReceiveMessage
  <2> QED
    BY <1>9, <2>1, <2>3 DEF ReceiveMessage, write
<1>10. CASE ReceiveReply
  <2>1. Tail(stream) \in Seq(Item)
    BY <1>10 DEF ReceiveReply
  <2>2. Tail(subq) \in Seq(Command) /\ Answered \in Command
    BY <1>10 DEF Types, Numbers, ReceiveReply, Answered
  <2>3. Resumes => Answered.by \in Fans
    BY <2>2 DEF Resumes, Command
  <2>4. conn' \in [Fans -> Connection]
    <3>1. CASE Resumes
      <4> DEFINE f == Answered.by
      <4>1. f \in Fans /\ conn' = [conn EXCEPT ![f].pc = "live"]
        BY <1>10, <2>3, <3>1 DEF ReceiveReply, Goto
      <4> HIDE DEF f
      <4> QED
        BY <4>1, ConnectionsMove
    <3>2. CASE ~Resumes
      BY <1>10, <3>2 DEF ReceiveReply
    <3> QED
      BY <3>1, <3>2
  <2>5. subscribed' \in BOOLEAN /\ confirmed' \in BOOLEAN
    BY <1>10 DEF ReceiveReply
  <2> QED
    BY <1>10, <2>1, <2>2, <2>4, <2>5 DEF ReceiveReply, write
<1>11. CASE Drop
  <2>1. <<Subscribe(NULL)>> \in Seq(Command)
    BY DEF Subscribe, Command
  <2>2. subq' \in Seq(Command) /\ stream' \in Seq(Item)
    BY <1>11, <2>1 DEF Drop
  <2> QED
    BY <1>11, <2>2 DEF Drop, Mishap, write
<1>12. ASSUME Restart, over' = over
       PROVE  Shapes'
  <2>1. \A f \in Fans : [conn[f] EXCEPT !.pc = "gone"] \in Connection
    BY DEF Connection
  <2>2. conn' \in [Fans -> Connection]
    BY <1>12, <2>1 DEF Restart
  <2>3. subq' \in Seq(Command) /\ stream' \in Seq(Item)
    BY <1>12 DEF Restart
  <2> QED
    BY <1>12, <2>2, <2>3 DEF Restart
<1>13. ASSUME NEW f \in Fans, RegisterRejected(f)
       PROVE  Shapes'
  BY <1>12, <1>13 DEF RegisterRejected, write
<1>14. CASE GiveUp
  <2>1. CASE Restart
    BY <1>12, <1>14, <2>1 DEF GiveUp, write
  <2>2. CASE ~Restart
    <3>1. /\ subUp' = FALSE /\ subq' = << >> /\ stream' = << >> /\ active' = FALSE
          /\ UNCHANGED <<over, conn, open, registry, subscribed, confirmed>>
      BY <1>14, <2>2 DEF GiveUp, write
    <3>2. subq' \in Seq(Command) /\ stream' \in Seq(Item)
      BY <3>1
    <3> QED
      BY <3>1, <3>2
  <2> QED
    BY <2>1, <2>2
<1>15. CASE UNCHANGED vars
  BY <1>15 DEF vars
<1> QED
  BY <1>1, <1>2, <1>3, <1>4, <1>5, <1>6, <1>7, <1>8, <1>9, <1>10, <1>11, <1>13,
     <1>14, <1>15 DEF Next, Handler, Receive

-----------------------------------------------------------------------------
(* The registry *)

\* Where handlers are after each kind of step.
LEMMA HandlersAfter ==
    ASSUME Types, NEW f \in Fans
    PROVE  /\ Register(f) =>
                /\ conn'[f].pc = (IF subscribed THEN "live" ELSE "subscribing")
                /\ conn'[f].joined = feed /\ conn'[f].got = conn[f].got
                /\ \A g \in Fans \ {f} : conn'[g] = conn[g]
           /\ ReceiveMessage =>
                /\ conn'[f].pc = conn[f].pc /\ conn'[f].joined = conn[f].joined
                /\ conn'[f].got = IF f \in Recipients THEN conn[f].got \cup {Head(stream).n}
                                                      ELSE conn[f].got
           /\ Restart =>
                /\ conn'[f].pc \notin {"subscribing", "live"}
                /\ conn'[f].got = conn[f].got
<1> conn \in [Fans -> Connection]
  BY DEF Types, Shapes
<1>1. ASSUME Register(f)
      PROVE  /\ conn'[f].pc = (IF subscribed THEN "live" ELSE "subscribing")
             /\ conn'[f].joined = feed /\ conn'[f].got = conn[f].got
             /\ \A g \in Fans \ {f} : conn'[g] = conn[g]
  BY <1>1 DEF Register, Joined, Connection
<1>2. ASSUME ReceiveMessage
      PROVE  /\ conn'[f].pc = conn[f].pc /\ conn'[f].joined = conn[f].joined
             /\ conn'[f].got = IF f \in Recipients THEN conn[f].got \cup {Head(stream).n}
                                                   ELSE conn[f].got
  BY <1>2 DEF ReceiveMessage, Connection
<1>3. ASSUME Restart
      PROVE  conn'[f].pc \notin {"subscribing", "live"} /\ conn'[f].got = conn[f].got
  BY <1>3 DEF Restart, Connection
<1> QED
  BY <1>1, <1>2, <1>2, <1>3

\* The reply that resumes a handler: it answers the first command, and that
\* handler goes on.
LEMMA ReplyResumes ==
    ASSUME Types, Commands, ReceiveReply, Resumes
    PROVE  /\ Answered = subq[1] /\ 1 \in 1 .. Len(subq) /\ Awaited(1)
           /\ Answered.by \in Fans
           /\ conn[Answered.by].pc = "subscribing"
           /\ conn'[Answered.by].pc = "live"
           /\ \A g \in Fans : /\ conn'[g].got = conn[g].got
                              /\ conn'[g].joined = conn[g].joined
                              /\ g # Answered.by => conn'[g] = conn[g]
<1> conn \in [Fans -> Connection]
  BY DEF Types, Shapes
<1>1. /\ Answered = subq[1] /\ 1 \in 1 .. Len(subq)
      /\ Answered \in Command
  BY DEF Types, Numbers, Shapes, ReceiveReply, Answered
<1>2. Answered.by \in Fans
  BY <1>1 DEF Resumes, Command
<1>3. Awaited(1)
  BY <1>1 DEF Resumes, Awaited
<1>4. conn[Answered.by].pc = "subscribing"
  BY <1>1, <1>3 DEF Commands
<1>5. PICK new : new = [conn[Answered.by] EXCEPT !.pc = "live"]
  OBVIOUS
<1>6. conn' = [conn EXCEPT ![Answered.by] = new]
  BY <1>5, Zenon DEF ReceiveReply, Goto
<1>7. /\ new.pc = "live" /\ new.got = conn[Answered.by].got
      /\ new.joined = conn[Answered.by].joined
  BY <1>2, <1>5 DEF Connection
<1>8. conn'[Answered.by] = new /\ \A g \in Fans \ {Answered.by} : conn'[g] = conn[g]
  BY <1>2, <1>6
<1> QED
  BY <1>1, <1>2, <1>3, <1>4, <1>7, <1>8

LEMMA RegisteredStep ==
    ASSUME Types, Registered, Commands, Step
    PROVE  Registered'
<1> registry \subseteq Fans /\ open \subseteq Fans
  BY DEF Types, Shapes
<1> USE DEF Registered
<1>1. CASE Unseen \/ PublishEvent \/ Execute \/ Drop \/ GivesUp
  BY <1>1 DEF Unseen, PublishEvent, Execute, Drop, GivesUp, write, client
<1>2. ASSUME NEW f \in Fans, Outside(f)
      PROVE  Registered'
  BY <1>2 DEF Outside, client
<1>3. ASSUME NEW f \in Fans, Register(f)
      PROVE  Registered'
  <2>1. /\ registry' = registry \cup {f} /\ subscribed' = subscribed /\ open' = open
        /\ conn'[f].pc = (IF subscribed THEN "live" ELSE "subscribing")
        /\ \A g \in Fans \ {f} : conn'[g] = conn[g]
    BY <1>3, HandlersAfter DEF Register
  <2> QED
    BY <2>1
<1>4. ASSUME NEW f \in Fans, Leave(f)
      PROVE  Registered'
  <2>1. CASE Listens(f)
    BY <1>4, <2>1 DEF Leave, Unregister, Listens
  <2>2. CASE ~Listens(f)
    BY <1>4, <2>2 DEF Leave, Listens
  <2> QED
    BY <2>1, <2>2
<1>5. CASE ReceiveMessage
  BY <1>5, HandlersAfter DEF ReceiveMessage, write
<1>6. CASE ReceiveReply
  <2>1. CASE Resumes
    <3>1. Answered.by \in registry
      BY <1>6, <2>1, ReplyResumes
    <3> QED
      BY <1>6, <2>1, <3>1, ReplyResumes DEF ReceiveReply
  <2>2. CASE ~Resumes
    BY <1>6, <2>2 DEF ReceiveReply
  <2> QED
    BY <2>1, <2>2
<1>7. CASE Restarts
  BY <1>7, HandlersAfter DEF Restarts, Restart
<1> QED
  BY <1>1, <1>2, <1>3, <1>4, <1>5, <1>6, <1>7 DEF Step

-----------------------------------------------------------------------------
(* The commands under way *)

LEMMA CommandsStep ==
    ASSUME Types, Registered, Commands, Step
    PROVE  Commands'
<1> /\ subq \in Seq(Command) /\ registry \subseteq Fans
    /\ \A i \in 1 .. Len(subq) : Awaited(i) => subq[i].by \in Fans
  BY DEF Types, Shapes, Awaited, Command
<1>1. CASE Unseen \/ PublishEvent \/ Execute
  BY <1>1 DEF Unseen, PublishEvent, Execute, write, client, Commands, Awaited
<1>2. ASSUME NEW f \in Fans, Outside(f)
      PROVE  Commands'
  BY <1>2 DEF Outside, client, Commands, Awaited
<1>3. ASSUME NEW f \in Fans, Register(f)
      PROVE  Commands'
  <2>1. /\ subscribed' = subscribed /\ conn[f].pc = "catchup"
        /\ conn'[f].pc = (IF subscribed THEN "live" ELSE "subscribing")
        /\ \A g \in Fans \ {f} : conn'[g] = conn[g]
        /\ subq' = IF subscribed THEN subq ELSE Append(subq, Subscribe(f))
    BY <1>3, HandlersAfter DEF Register, Joined, CatchUpReady
  <2>2. CASE subscribed
    BY <2>1, <2>2 DEF Commands, Awaited
  <2>3. CASE ~subscribed
    <3>1. /\ Len(subq') = Len(subq) + 1
          /\ \A i \in 1 .. Len(subq) : subq'[i] = subq[i]
          /\ subq'[Len(subq) + 1] = Subscribe(f)
      BY <2>1, <2>3
    <3>2. \A i \in 1 .. Len(subq') : i \in 1 .. Len(subq) \/ i = Len(subq) + 1
      BY <3>1
    <3>3. Subscribe(f).op = "subscribe" /\ Subscribe(f).by = f
      BY DEF Subscribe
    <3>4. \A i \in 1 .. Len(subq') : Awaited(i)' => conn'[subq'[i].by].pc = "subscribing"
      BY <2>1, <2>3, <3>1, <3>2, <3>3 DEF Commands, Awaited
    <3>5. \A i, j \in 1 .. Len(subq') :
            Awaited(i)' /\ Awaited(j)' /\ subq'[i].by = subq'[j].by => i = j
      BY <2>1, <2>3, <3>1, <3>2, <3>3 DEF Commands, Awaited
    <3>6. \A i \in 1 .. Len(subq') : subq'[i].op = "unsubscribe" => ~subscribed'
      BY <2>1, <2>3
    <3>7. \A i, j \in 1 .. Len(subq') :
            subq'[i].op = "unsubscribe" /\ Awaited(j)' => i < j
      BY <3>1, <3>2, <3>3 DEF Commands, Awaited
    <3> QED
      BY <3>4, <3>5, <3>6, <3>7 DEF Commands
  <2> QED
    BY <2>2, <2>3
<1>4. ASSUME NEW f \in Fans, Leave(f)
      PROVE  Commands'
  <2>1. CASE ~Listens(f) \/ registry' # {} \/ ~subUp
    BY <1>4, <2>1 DEF Leave, Unregister, Commands, Awaited
  <2>2. CASE Listens(f) /\ registry' = {} /\ subUp
    <3>1. \A i \in 1 .. Len(subq) : ~Awaited(i)
      BY <1>4, <2>2 DEF Leave, Unregister, Listens, Commands, Registered
    <3>2. /\ subq' = Append(subq, Unsubscribe) /\ conn' = conn
          /\ subscribed' = FALSE
      BY <1>4, <2>2 DEF Leave, Unregister
    <3>3. Unsubscribe.op = "unsubscribe"
      BY DEF Unsubscribe
    <3>4. \A i \in 1 .. Len(subq') :
            (subq'[i] = subq[i] /\ i \in 1 .. Len(subq)) \/ subq'[i] = Unsubscribe
      BY <3>2
    <3>5. \A i \in 1 .. Len(subq') : ~Awaited(i)'
      BY <3>1, <3>3, <3>4 DEF Awaited
    <3> QED
      BY <3>2, <3>5 DEF Commands
  <2> QED
    BY <2>1, <2>2
<1>5. CASE ReceiveMessage
  <2>1. subq' = subq /\ subscribed' = subscribed
    BY <1>5 DEF ReceiveMessage
  <2>2. \A f \in Fans : conn'[f].pc = conn[f].pc
    BY <1>5, HandlersAfter
  <2> QED
    BY <2>1, <2>2 DEF Commands, Awaited
<1>6. CASE ReceiveReply
  <2>1. /\ 1 \in 1 .. Len(subq) /\ Answered = subq[1] /\ Len(subq') = Len(subq) - 1
        /\ \A i \in 1 .. Len(subq') : subq'[i] = subq[i + 1] /\ i + 1 \in 1 .. Len(subq)
    <3>1. Len(subq) > 0 /\ subq' = Tail(subq)
      BY <1>6 DEF Types, Numbers, ReceiveReply
    <3> QED
      BY <3>1 DEF Answered
  <2>2. \A i \in 1 .. Len(subq') : Awaited(i)' <=> Awaited(i + 1)
    BY <2>1 DEF Awaited
  <2>3. \A i, j \in 1 .. Len(subq') :
          Awaited(i)' /\ Awaited(j)' /\ subq'[i].by = subq'[j].by => i = j
    BY <2>1, <2>2 DEF Commands
  <2>4. \A i, j \in 1 .. Len(subq') : subq'[i].op = "unsubscribe" /\ Awaited(j)' => i < j
    <3>1. ASSUME NEW i \in 1 .. Len(subq'), NEW j \in 1 .. Len(subq'),
                 subq'[i].op = "unsubscribe", Awaited(j)'
          PROVE  i < j
      <4>1. /\ i + 1 \in 1 .. Len(subq) /\ subq[i + 1].op = "unsubscribe"
            /\ j + 1 \in 1 .. Len(subq) /\ Awaited(j + 1)
        BY <2>1, <2>2, <3>1
      <4>2. i + 1 < j + 1
        BY <4>1 DEF Commands
      <4> QED
        BY <4>2
    <3> QED
      BY <3>1
  <2>5. CASE Resumes
    <3>1. \A i \in 1 .. Len(subq') : Awaited(i)' => subq'[i].by # Answered.by
      BY <1>6, <2>1, <2>2, <2>5, ReplyResumes DEF Commands
    <3>2. \A i \in 1 .. Len(subq') : Awaited(i)' => conn'[subq'[i].by].pc = "subscribing"
      BY <1>6, <2>1, <2>2, <2>5, <3>1, ReplyResumes DEF Commands
    <3>3. \A i \in 1 .. Len(subq') : subq'[i].op # "unsubscribe"
      BY <1>6, <2>1, <2>5, ReplyResumes DEF Commands
    <3> QED
      BY <2>3, <2>4, <3>2, <3>3 DEF Commands
  <2>6. CASE ~Resumes
    <3>1. conn' = conn /\ subscribed' = subscribed
      BY <1>6, <2>6 DEF ReceiveReply, Types, Shapes
    <3> QED
      BY <2>1, <2>2, <2>3, <2>4, <3>1 DEF Commands
  <2> QED
    BY <2>5, <2>6
<1>7. CASE Drop
  <2>1. conn' = conn /\ subscribed' = subscribed
    BY <1>7 DEF Drop
  <2>2. CASE ~confirmed
    BY <1>7, <2>1, <2>2 DEF Drop, Commands, Awaited
  <2>3. CASE confirmed
    <3>1. <<Subscribe(NULL)>> \in Seq(Command) /\ Subscribe(NULL) = [op |-> "subscribe", by |-> NULL]
      BY DEF Subscribe, Command
    <3>2. subq' = <<Subscribe(NULL)>> \o subq
      BY <1>7, <2>3 DEF Drop
    <3>3. /\ Len(subq') = Len(subq) + 1 /\ subq'[1] = Subscribe(NULL)
          /\ \A i \in 1 .. Len(subq') : i # 1 => subq'[i] = subq[i - 1] /\ i - 1 \in 1 .. Len(subq)
      BY <3>1, <3>2
    <3>4. \A i \in 1 .. Len(subq') : i # 1 => (Awaited(i)' <=> Awaited(i - 1))
      BY <3>3 DEF Awaited
    <3>5. ~Awaited(1)' /\ subq'[1].op # "unsubscribe"
      BY <3>1, <3>3 DEF Awaited
    <3>6. \A i \in 1 .. Len(subq') : Awaited(i)' => conn'[subq'[i].by].pc = "subscribing"
      BY <2>1, <3>3, <3>4, <3>5 DEF Commands
    <3>7. \A i, j \in 1 .. Len(subq') :
            Awaited(i)' /\ Awaited(j)' /\ subq'[i].by = subq'[j].by => i = j
      BY <3>3, <3>4, <3>5 DEF Commands
    <3>8. \A i \in 1 .. Len(subq') : subq'[i].op = "unsubscribe" => ~subscribed'
      BY <2>1, <3>3, <3>5 DEF Commands
    <3>9. \A i, j \in 1 .. Len(subq') : subq'[i].op = "unsubscribe" /\ Awaited(j)' => i < j
      <4>1. ASSUME NEW i \in 1 .. Len(subq'), NEW j \in 1 .. Len(subq'),
                   subq'[i].op = "unsubscribe", Awaited(j)'
            PROVE  i < j
        <5>1. /\ i - 1 \in 1 .. Len(subq) /\ subq[i - 1].op = "unsubscribe"
              /\ j - 1 \in 1 .. Len(subq) /\ Awaited(j - 1)
          BY <3>3, <3>4, <3>5, <4>1
        <5>2. i - 1 < j - 1
          BY <5>1 DEF Commands
        <5> QED
          BY <5>2
      <4> QED
        BY <4>1
    <3> QED
      BY <3>6, <3>7, <3>8, <3>9 DEF Commands
  <2> QED
    BY <2>2, <2>3
<1>8. CASE Restarts \/ GivesUp
  <2>1. Len(subq') = 0
    BY <1>8 DEF Restarts, Restart, GivesUp
  <2> QED
    BY <2>1 DEF Commands
<1> QED
  BY <1>1, <1>2, <1>3, <1>4, <1>5, <1>6, <1>7, <1>8 DEF Step

LEMMA DecidedStep ==
    ASSUME Types, Registered, Decided, Step
    PROVE  Decided'
<1> /\ subq \in Seq(Command) /\ sent \in 0 .. Len(subq) /\ active \in BOOLEAN
    /\ confirmed \in BOOLEAN /\ subUp \in BOOLEAN /\ subscribed \in BOOLEAN
  BY DEF Types, Shapes, Numbers
<1>1. ASSUME UNCHANGED <<subUp, subq, sent, active, confirmed>>,
             registry' # {} <=> registry # {}
      PROVE  Decided'
  BY <1>1 DEF Decided
<1>2. CASE Unseen \/ PublishEvent \/ ReceiveMessage
  BY <1>1, <1>2 DEF Unseen, PublishEvent, ReceiveMessage, client
<1>3. ASSUME NEW f \in Fans, Outside(f)
      PROVE  Decided'
  BY <1>1, <1>3 DEF Outside, client
<1>4. ASSUME NEW f \in Fans, Register(f)
      PROVE  Decided'
  <2>1. CASE subscribed
    BY <1>1, <1>4, <2>1 DEF Register, Joined, Registered
  <2>2. CASE ~subscribed
    <3>1. /\ subUp /\ UNCHANGED <<subUp, sent>> /\ registry' # {}
          /\ subq' = Append(subq, Subscribe(f))
      BY <1>4, <2>2 DEF Register, Joined
    <3>2. Len(subq') = Len(subq) + 1 /\ subq'[Len(subq')].op = "subscribe"
      BY <3>1 DEF Subscribe
    <3> QED
      BY <3>1, <3>2 DEF Decided
  <2> QED
    BY <2>1, <2>2
<1>5. ASSUME NEW f \in Fans, Leave(f)
      PROVE  Decided'
  <2>1. CASE ~Listens(f)
    BY <1>1, <1>5, <2>1 DEF Leave
  <2>2. CASE Listens(f) /\ registry' # {}
    BY <1>1, <1>5, <2>2 DEF Leave, Unregister
  <2>3. CASE Listens(f) /\ registry' = {} /\ subUp
    <3>1. /\ UNCHANGED <<subUp, sent>> /\ subq' = Append(subq, Unsubscribe)
      BY <1>5, <2>3 DEF Leave, Unregister
    <3>2. Len(subq') = Len(subq) + 1 /\ subq'[Len(subq')].op # "subscribe"
      BY <3>1 DEF Unsubscribe
    <3> QED
      BY <2>3, <3>1, <3>2 DEF Decided
  <2>4. CASE Listens(f) /\ registry' = {} /\ ~subUp
    BY <1>5, <2>4 DEF Leave, Unregister, Decided
  <2> QED
    BY <2>1, <2>2, <2>3, <2>4
<1>6. CASE Execute
  <2>1. /\ UNCHANGED <<subUp, subq, confirmed, registry>> /\ sent' = sent + 1
        /\ active' <=> subq[sent + 1].op = "subscribe"
        /\ sent < Len(subq)
    BY <1>6 DEF Execute
  <2>2. Len(subq) > 0 /\ subUp
    BY <2>1 DEF Decided
  <2>3. sent' = Len(subq') => (active' <=> subq[Len(subq)].op = "subscribe")
    BY <2>1
  <2> QED
    BY <2>1, <2>2, <2>3 DEF Decided
<1>7. CASE ReceiveReply
  <2>1. /\ UNCHANGED <<subUp, active, registry>>
        /\ subq' = Tail(subq) /\ sent' = sent - 1 /\ sent > 0
        /\ confirmed' <=> subq[1].op = "subscribe"
    BY <1>7 DEF ReceiveReply, Answered
  <2>2. /\ Len(subq) > 0 /\ Len(subq') = Len(subq) - 1
        /\ Len(subq') > 0 => subq'[Len(subq')] = subq[Len(subq)]
    BY <2>1
  <2>3. subUp
    BY <2>2 DEF Decided
  <2> QED
    BY <2>1, <2>2, <2>3 DEF Decided
<1>8. CASE Drop
  <2>1. subUp /\ UNCHANGED <<subUp, registry, confirmed>> /\ sent' = 0 /\ active' = FALSE
    BY <1>8 DEF Drop
  <2>2. CASE ~confirmed
    <3>1. subq' = subq
      BY <1>8, <2>2 DEF Drop
    <3> QED
      BY <2>1, <2>2, <3>1 DEF Decided
  <2>3. CASE confirmed
    <3>1. <<Subscribe(NULL)>> \in Seq(Command) /\ Subscribe(NULL).op = "subscribe"
      BY DEF Subscribe, Command
    <3>2. subq' = <<Subscribe(NULL)>> \o subq
      BY <1>8, <2>3 DEF Drop
    <3>3. /\ Len(subq') = Len(subq) + 1
          /\ Len(subq) > 0 => subq'[Len(subq')] = subq[Len(subq)]
          /\ Len(subq) = 0 => subq'[Len(subq')] = Subscribe(NULL)
      BY <3>1, <3>2
    <3> QED
      BY <2>1, <2>3, <3>1, <3>3 DEF Decided
  <2> QED
    BY <2>2, <2>3
<1>9. CASE Restarts
  <2>1. Len(subq') = 0 /\ registry' = {} /\ confirmed' = FALSE /\ active' = FALSE /\ subUp' = TRUE
    BY <1>9 DEF Restarts, Restart
  <2> QED
    BY <2>1 DEF Decided
<1>10. CASE GivesUp
  <2>1. Len(subq') = 0 /\ active' = FALSE /\ subUp' = FALSE
    BY <1>10 DEF GivesUp
  <2> QED
    BY <2>1 DEF Decided
<1> QED
  BY <1>2, <1>3, <1>4, <1>5, <1>6, <1>7, <1>8, <1>9, <1>10 DEF Step

-----------------------------------------------------------------------------
(* The stream *)

\* The stream keeps its items, loses the first, gets one more, or is lost.
LEMMA OrderedStep ==
    ASSUME Types, Ordered, Step
    PROVE  Ordered'
<1> stream \in Seq(Item) /\ feed \in Nat
  BY BoundsAssumption DEF Types, Shapes, Numbers
<1>1. ASSUME UNCHANGED <<stream, feed>>
      PROVE  Ordered'
  BY <1>1 DEF Ordered
<1>2. ASSUME stream' = << >>
      PROVE  Ordered'
  <2>1. Len(stream') = 0
    BY <1>2
  <2> QED
    BY <2>1 DEF Ordered
<1>3. CASE ReceiveMessage \/ ReceiveReply
  <2>1. stream # << >> /\ stream' = Tail(stream) /\ feed' = feed
    BY <1>3 DEF ReceiveMessage, ReceiveReply, write
  <2>2. /\ Len(stream') = Len(stream) - 1
        /\ \A i \in 1 .. Len(stream') : stream'[i] = stream[i + 1] /\ i + 1 \in 1 .. Len(stream)
    BY <2>1
  <2>3. ASSUME NEW i \in 1 .. Len(stream'), NEW j \in 1 .. Len(stream'), i < j,
               stream'[i].op = "message", stream'[j].op = "message"
        PROVE  stream'[i].n < stream'[j].n
    <3>1. /\ i + 1 \in 1 .. Len(stream) /\ j + 1 \in 1 .. Len(stream) /\ i + 1 < j + 1
          /\ stream[i + 1].op = "message" /\ stream[j + 1].op = "message"
      BY <2>2, <2>3
    <3>2. stream[i + 1].n < stream[j + 1].n
      BY <3>1 DEF Ordered
    <3> QED
      BY <2>2, <3>2
  <2> QED
    BY <2>1, <2>2, <2>3 DEF Ordered
<1>4. ASSUME NEW item, stream' = Append(stream, item), feed' \in Nat,
             \/ item.op # "message" /\ feed' = feed
             \/ item.n = feed + 1 /\ feed' = feed + 1
      PROVE  Ordered'
  <2>1. /\ Len(stream') = Len(stream) + 1 /\ stream'[Len(stream) + 1] = item
        /\ \A i \in 1 .. Len(stream) : stream'[i] = stream[i]
    BY <1>4
  <2>2. \A i \in 1 .. Len(stream') : i \in 1 .. Len(stream) \/ i = Len(stream) + 1
    BY <2>1
  <2>3. \A i \in 1 .. Len(stream') : stream'[i].op = "message" => stream'[i].n \in 1 .. feed'
    BY <1>4, <2>1, <2>2 DEF Ordered
  <2>4. ASSUME NEW i \in 1 .. Len(stream'), NEW j \in 1 .. Len(stream'), i < j,
               stream'[i].op = "message", stream'[j].op = "message"
        PROVE  stream'[i].n < stream'[j].n
    <3>1. i \in 1 .. Len(stream)
      BY <2>1, <2>2, <2>4
    <3>2. CASE j \in 1 .. Len(stream)
      BY <2>1, <2>4, <3>1, <3>2 DEF Ordered
    <3>3. CASE j = Len(stream) + 1
      BY <1>4, <2>1, <2>4, <3>1, <3>3 DEF Ordered
    <3> QED
      BY <2>2, <3>2, <3>3
  <2> QED
    BY <2>3, <2>4 DEF Ordered
<1>5. CASE PublishEvent
  <2>1. CASE active
    BY <1>4, <1>5, <2>1 DEF PublishEvent, Publication
  <2>2. CASE ~active
    BY <1>5, <2>2 DEF PublishEvent, Ordered
  <2> QED
    BY <2>1, <2>2
<1>6. CASE Execute
  BY <1>4, <1>6 DEF Execute, Reply, write
<1>7. CASE Unseen
  BY <1>1, <1>7 DEF Unseen, client
<1>8. ASSUME NEW f \in Fans, Outside(f) \/ Register(f) \/ Leave(f)
      PROVE  Ordered'
  BY <1>1, <1>8 DEF Outside, Register, Leave, client, write
<1>9. CASE Drop \/ Restarts \/ GivesUp
  BY <1>2, <1>9 DEF Drop, Restarts, Restart, GivesUp
<1> QED
  BY <1>3, <1>5, <1>6, <1>7, <1>8, <1>9 DEF Step

\* The places of the messages in the stream.
LEMMA Streamed ==
    ASSUME stream \in Seq(Item), stream' \in Seq(Item)
    PROVE  /\ stream' = stream => InStream' = InStream
           /\ stream' = Append(stream, Reply) => InStream' = InStream
           /\ \A n : stream' = Append(stream, Publication(n)) => InStream' = InStream \cup {n}
           /\ stream # << >> /\ stream' = Tail(stream) =>
                InStream = IF Head(stream).op = "message"
                             THEN InStream' \cup {Head(stream).n} ELSE InStream'
           /\ stream' = << >> => InStream' = {}
<1>1. stream' = stream => InStream' = InStream
  BY DEF InStream
<1>2. ASSUME NEW item, stream' = Append(stream, item)
      PROVE  InStream' = InStream \cup (IF item.op = "message" THEN {item.n} ELSE {})
  <2>1. /\ Len(stream') = Len(stream) + 1 /\ stream'[Len(stream) + 1] = item
        /\ \A i \in 1 .. Len(stream) : stream'[i] = stream[i]
        /\ DOMAIN stream = 1 .. Len(stream) /\ DOMAIN stream' = 1 .. Len(stream')
    BY <1>2
  <2>2. \A i \in DOMAIN stream' : i \in DOMAIN stream \/ i = Len(stream) + 1
    BY <2>1
  <2>3. DOMAIN stream \subseteq DOMAIN stream' /\ Len(stream) + 1 \in DOMAIN stream'
    BY <2>1
  <2> QED
    BY <2>1, <2>2, <2>3 DEF InStream
<1>3. ASSUME stream' = Append(stream, Reply)
      PROVE  InStream' = InStream
  <2>1. Reply.op # "message"
    BY DEF Reply
  <2> QED
    BY <1>2, <1>3, <2>1
<1>4. \A n : stream' = Append(stream, Publication(n)) => InStream' = InStream \cup {n}
  BY <1>2 DEF Publication
<1>5. ASSUME stream # << >>, stream' = Tail(stream)
      PROVE  InStream = IF Head(stream).op = "message"
                          THEN InStream' \cup {Head(stream).n} ELSE InStream'
  <2>1. /\ Len(stream') = Len(stream) - 1 /\ 1 \in DOMAIN stream /\ Head(stream) = stream[1]
        /\ DOMAIN stream = 1 .. Len(stream) /\ DOMAIN stream' = 1 .. Len(stream')
        /\ \A i \in 1 .. Len(stream') : stream'[i] = stream[i + 1] /\ i + 1 \in 1 .. Len(stream)
    BY <1>5
  <2>2. \A i \in DOMAIN stream : i = 1 \/ (i - 1 \in DOMAIN stream' /\ stream'[i - 1] = stream[i])
    BY <2>1
  <2> QED
    BY <2>1, <2>2 DEF InStream
<1>6. stream' = << >> => InStream' = {}
  BY DEF InStream
<1> QED
  BY <1>1, <1>3, <1>4, <1>5, <1>6

LEMMA RepliesStep ==
    ASSUME Types, RepliesDue, Step, stream' \in Seq(Item)
    PROVE  RepliesDue'
<1> stream \in Seq(Item) /\ sent \in Nat /\ IsFiniteSet(Replies) /\ Cardinality(Replies) = sent
  BY DEF Types, Shapes, Numbers, RepliesDue
<1>1. ASSUME UNCHANGED <<stream, sent>>
      PROVE  RepliesDue'
  BY <1>1 DEF RepliesDue, Replies
<1>2. ASSUME NEW item, stream' = Append(stream, item)
      PROVE  Replies' = IF item.op = "reply" THEN Replies \cup {Len(stream) + 1} ELSE Replies
  <2>1. /\ stream'[Len(stream) + 1] = item
        /\ \A i \in 1 .. Len(stream) : stream'[i] = stream[i]
        /\ DOMAIN stream = 1 .. Len(stream) /\ DOMAIN stream' = 1 .. Len(stream) + 1
    BY <1>2
  <2>2. \A i : i \in DOMAIN stream' <=> i \in DOMAIN stream \/ i = Len(stream) + 1
    BY <2>1
  <2> QED
    BY <2>1, <2>2 DEF Replies
<1>3. CASE PublishEvent
  <2>1. Publication(feed + 1).op # "reply"
    BY DEF Publication
  <2>2. Replies' = Replies /\ sent' = sent
    BY <1>2, <1>3, <2>1 DEF PublishEvent, Replies
  <2> QED
    BY <2>2 DEF RepliesDue
<1>4. CASE Execute
  <2>1. Reply.op = "reply" /\ stream' = Append(stream, Reply) /\ sent' = sent + 1
    BY <1>4 DEF Execute, Reply
  <2>2. Replies' = Replies \cup {Len(stream) + 1}
    BY <1>2, <2>1
  <2>3. Len(stream) + 1 \notin Replies
    BY DEF Replies
  <2>4. IsFiniteSet(Replies') /\ Cardinality(Replies') = sent + 1
    BY <2>2, <2>3, FS_AddElement
  <2> QED
    BY <2>1, <2>4 DEF RepliesDue
<1>5. ASSUME stream # << >>, stream' = Tail(stream)
      PROVE  /\ IsFiniteSet(Replies')
             /\ Cardinality(Replies') = Cardinality(Replies \ {1})
             /\ 1 \in Replies <=> Head(stream).op = "reply"
  <2> DEFINE R == Replies \ {1}
             S == Replies'
             back == [i \in R |-> i - 1]
  <2>1. /\ DOMAIN stream = 1 .. Len(stream) /\ DOMAIN stream' = 1 .. Len(stream')
        /\ Len(stream') = Len(stream) - 1 /\ 1 \in DOMAIN stream /\ Head(stream) = stream[1]
        /\ \A i \in 1 .. Len(stream') : stream'[i] = stream[i + 1] /\ i + 1 \in 1 .. Len(stream)
    BY <1>5
  <2>2. \A i \in R : i \in Nat /\ i - 1 \in S
    BY <2>1 DEF Replies
  <2>3. \A j \in S : j \in Nat /\ j + 1 \in R
    BY <2>1 DEF Replies
  <2> HIDE DEF R, S
  <2>4. back \in [R -> S] /\ \A i, j \in R : back[i] = back[j] => i = j
    BY <2>2
  <2>5. \A j \in S : j + 1 \in R /\ back[j + 1] = j
    BY <2>3
  <2>6. back \in Bijection(R, S)
    BY <2>4, <2>5 DEF Bijection, Injection, Surjection, IsInjective
  <2>7. ExistsBijection(R, S)
    BY <2>6 DEF ExistsBijection
  <2>8. IsFiniteSet(R)
    BY FS_RemoveElement DEF R
  <2>9. IsFiniteSet(S) /\ Cardinality(S) = Cardinality(R)
    BY <2>7, <2>8, FS_Bijection
  <2>10. 1 \in Replies <=> Head(stream).op = "reply"
    BY <2>1 DEF Replies
  <2> QED
    BY <2>9, <2>10 DEF R, S
<1>6. CASE ReceiveReply
  <2>1. /\ stream # << >> /\ stream' = Tail(stream) /\ Head(stream).op = "reply"
        /\ sent' = sent - 1
    BY <1>6 DEF ReceiveReply
  <2>2. Cardinality(Replies \ {1}) = sent - 1
    BY <1>5, <2>1, FS_RemoveElement
  <2> QED
    BY <1>5, <2>1, <2>2 DEF RepliesDue
<1>7. CASE ReceiveMessage
  <2>1. /\ stream # << >> /\ stream' = Tail(stream) /\ Head(stream).op # "reply"
        /\ sent' = sent
    BY <1>7 DEF ReceiveMessage
  <2>2. Replies \ {1} = Replies
    BY <1>5, <2>1
  <2> QED
    BY <1>5, <2>1, <2>2 DEF RepliesDue
<1>8. CASE Drop \/ Restarts \/ GivesUp
  <2>1. stream' = << >> /\ sent' = 0
    BY <1>8 DEF Drop, Restarts, Restart, GivesUp
  <2>2. Replies' = {}
    BY <2>1 DEF Replies
  <2> QED
    BY <2>1, <2>2, FS_EmptySet DEF RepliesDue
<1>9. CASE Unseen
  BY <1>1, <1>9 DEF Unseen, client
<1>10. ASSUME NEW f \in Fans, Outside(f) \/ Register(f) \/ Leave(f)
       PROVE  RepliesDue'
  BY <1>1, <1>10 DEF Outside, Register, Leave, client
<1> QED
  BY <1>3, <1>4, <1>6, <1>7, <1>8, <1>9, <1>10 DEF Step

LEMMA HolesStep ==
    ASSUME Types, Types', Registered, Commands, StreamHasNoHoles, Step
    PROVE  StreamHasNoHoles'
<1> /\ stream \in Seq(Item) /\ stream' \in Seq(Item) /\ registry \subseteq Fans
    /\ feed \in 0 .. MaxMessages /\ since \in Nat
  BY BoundsAssumption DEF Types, Shapes, Numbers, Places
<1>1. ASSUME UNCHANGED <<active, feed>>, active => since' = since, InStream' = InStream,
             \A f \in registry' : f \in registry /\ f \in open' =>
                f \in open /\ conn'[f].got = conn[f].got /\ conn'[f].joined = conn[f].joined,
             \A f \in registry' : f \notin registry => conn'[f].joined = feed
      PROVE  StreamHasNoHoles'
  BY <1>1 DEF StreamHasNoHoles, Owed, Messages
<1>2. CASE Unseen
  BY <1>1, <1>2, Streamed DEF Unseen, client
<1>3. ASSUME NEW f \in Fans, Outside(f)
      PROVE  StreamHasNoHoles'
  <2>1. f \notin registry
    BY <1>3 DEF Outside, Registered
  <2> QED
    BY <1>1, <1>3, <2>1, Streamed DEF Outside, client
<1>4. ASSUME NEW f \in Fans, Register(f)
      PROVE  StreamHasNoHoles'
  <2>1. f \notin registry
    BY <1>4 DEF Register, CatchUpReady, Registered
  <2>2. /\ UNCHANGED <<active, feed, since, stream, open>> /\ registry' = registry \cup {f}
    BY <1>4 DEF Register, write
  <2> QED
    BY <1>1, <1>4, <2>1, <2>2, HandlersAfter, Streamed
<1>5. ASSUME NEW f \in Fans, Leave(f)
      PROVE  StreamHasNoHoles'
  <2>1. /\ UNCHANGED <<active, feed, since, stream, conn>> /\ open' = open \ {f}
        /\ registry' \subseteq registry
    BY <1>5 DEF Leave, Unregister, write
  <2> QED
    BY <1>1, <2>1, Streamed
<1>6. CASE PublishEvent
  <2>1. /\ UNCHANGED <<active, since, conn, open, registry>> /\ feed' = feed + 1
        /\ active => InStream' = InStream \cup {feed + 1}
    BY <1>6, Streamed DEF PublishEvent
  <2> QED
    BY <2>1 DEF StreamHasNoHoles, Owed, Messages
<1>7. CASE Execute
  <2>1. /\ UNCHANGED <<feed, conn, open, registry>> /\ InStream' = InStream
        /\ active' /\ ~active => since' = feed
        /\ active' /\ active => since' = since
    BY <1>7, Streamed DEF Execute, write
  <2> QED
    BY <2>1 DEF StreamHasNoHoles, Owed, Messages
<1>8. CASE ReceiveMessage
  <2>1. /\ UNCHANGED <<active, since, feed, open, registry>>
        /\ InStream = InStream' \cup {Head(stream).n}
    BY <1>8, Streamed DEF ReceiveMessage, write
  <2>2. \A f \in registry : f \in open =>
          conn'[f].joined = conn[f].joined /\ conn'[f].got = conn[f].got \cup {Head(stream).n}
    BY <1>8, HandlersAfter DEF Recipients
  <2> QED
    BY <2>1, <2>2 DEF StreamHasNoHoles, Owed, Messages
<1>9. CASE ReceiveReply
  <2>1. /\ UNCHANGED <<active, since, feed, open, registry>> /\ InStream' = InStream
    BY <1>9, Streamed DEF ReceiveReply, write
  <2>2. \A f \in Fans : conn'[f].got = conn[f].got /\ conn'[f].joined = conn[f].joined
    BY <1>9, ReplyResumes DEF ReceiveReply
  <2> QED
    BY <1>1, <2>1, <2>2
<1>10. CASE Drop \/ Restarts \/ GivesUp
  <2>1. active' = FALSE
    BY <1>10 DEF Drop, Restarts, Restart, GivesUp
  <2> QED
    BY <2>1 DEF StreamHasNoHoles
<1> QED
  BY <1>2, <1>3, <1>4, <1>5, <1>6, <1>7, <1>8, <1>9, <1>10 DEF Step

-----------------------------------------------------------------------------
(* The theorems *)

LEMMA ReadyInit ==
    ASSUME Init
    PROVE  Ready
<1> USE DEF Init
<1>1. \A f \in Fans : conn[f].pc = "away"
  BY DEF Away
<1>2. Registered
  BY <1>1 DEF Registered
<1>3. Commands /\ Decided /\ Ordered
  BY DEF Commands, Decided, Ordered
<1>4. StreamHasNoHoles
  BY DEF StreamHasNoHoles
<1>5. RepliesDue
  <2>1. Replies = {}
    BY DEF Replies
  <2> QED
    BY <2>1, FS_EmptySet DEF RepliesDue
<1> QED
  BY <1>2, <1>3, <1>4, <1>5, TypesInit DEF Ready

LEMMA ReadyStep ==
    ASSUME Ready, [Next]_vars
    PROVE  Ready'
<1>1. Types'
  BY NumbersStep, ShapesStep DEF Ready, Types
<1>2. Step
  BY WhatAStepIs DEF Ready
<1>3. RepliesDue'
  BY <1>1, <1>2, RepliesStep DEF Ready, Types, Shapes
<1> QED
  BY <1>1, <1>2, <1>3, RegisteredStep, CommandsStep, DecidedStep, OrderedStep, HolesStep
     DEF Ready

\* The inductive invariant holds in every state of the server.
THEOREM Readiness == Spec => []Ready
BY ReadyInit, ReadyStep, PTL DEF Spec

\* Every variable has its type, and as many replies are on their way as Redis
\* has executed commands.
THEOREM TypeCorrectness == Spec => []TypeOK
<1>1. ASSUME Ready
      PROVE  TypeOK
  <2>1. conn \in [Fans ->
         [pc: {"away", "catchup", "subscribing", "live", "over", "gone"},
          saw: {"nothing", "running", "over"},
          base: 0 .. MaxMessages \cup {NULL}, joined: 0 .. MaxMessages,
          got: SUBSET Messages]]
    BY <1>1 DEF Ready, Types, Shapes, Connection, Stages, Sights, Places
  <2>2. Cardinality({i \in DOMAIN stream : stream[i].op = "reply"}) = sent
    BY <1>1 DEF Ready, RepliesDue, Replies
  <2>3. Shapes
    BY <1>1 DEF Ready, Types
  <2>4. Numbers
    BY <1>1 DEF Ready, Types
  <2> QED
    BY <2>1, <2>2, <2>3, <2>4 DEF Shapes, Numbers, Places, TypeOK
<1> QED
  BY <1>1, Readiness, PTL

\* No registered fan is left without a subscription.
THEOREM RegistryIsServed == Spec => []RegisteredIsSubscribed
<1>1. Ready => RegisteredIsSubscribed
  BY DEF Ready, Decided, RegisteredIsSubscribed, WillBeActive, Types, Numbers, Shapes
<1> QED
  BY <1>1, Readiness, PTL

\* A channel that nobody is registered for is not delivered.
THEOREM ChannelIsLeft == Spec => []UnusedChannelIsLeft
<1>1. Ready => UnusedChannelIsLeft
  BY DEF Ready, Decided, UnusedChannelIsLeft, Types, Numbers, Shapes
<1> QED
  BY <1>1, Readiness, PTL

\* Registered open sockets miss nothing while the channel is active.
THEOREM NothingIsMissed == Spec => []StreamHasNoHoles
<1>1. Ready => StreamHasNoHoles
  BY DEF Ready
<1> QED
  BY <1>1, Readiness, PTL

-----------------------------------------------------------------------------
(* The server implements Feed *)

\* A handler that is through streams as long as its socket is open.
LEMMA StreamingInit ==
    ASSUME Init
    PROVE  Promise!Init
<1>1. Streaming = {} /\ InStream = {}
  BY DEF Init, Streaming, InStream
<1>2. [f \in Fans |-> conn[f].got] = [f \in Fans |-> {}]
  BY DEF Init, Away
<1> QED
  BY <1>1, <1>2 DEF Init, Promise!Init

\* While an UNSUBSCRIBE is under way nobody streams.
LEMMA NobodyStreams ==
    ASSUME Ready, NEW i \in 1 .. Len(subq), subq[i].op = "unsubscribe"
    PROVE  Streaming = {}
BY DEF Ready, Commands, Registered, Streaming

LEMMA FeedStep ==
    ASSUME Ready, Ready', [Next]_vars
    PROVE  [Promise!Next]_(Promise!vars)
<1> DEFINE heard == [f \in Fans |-> conn[f].got]
<1> /\ Types /\ Types' /\ Registered /\ Commands /\ Ordered
    /\ stream \in Seq(Item) /\ stream' \in Seq(Item) /\ registry \subseteq Fans
    /\ Streaming \subseteq Fans /\ open \subseteq Fans
    /\ conn \in [Fans -> Connection] /\ conn' \in [Fans -> Connection]
  BY DEF Ready, Types, Shapes, Streaming
<1>1. ASSUME UNCHANGED <<feed, active>>, InStream' = InStream, Streaming' = Streaming,
             \A f \in Fans : conn'[f].got = conn[f].got
      PROVE  UNCHANGED Promise!vars
  BY <1>1 DEF Promise!vars
<1>2. CASE Unseen
  BY <1>1, <1>2, Streamed DEF Unseen, client, Streaming
<1>3. ASSUME NEW f \in Fans, Outside(f)
      PROVE  UNCHANGED Promise!vars
  <2>1. Streaming' = Streaming
    BY <1>3 DEF Outside, Streaming
  <2>2. \A g \in Fans : conn'[g].got = conn[g].got
    BY <1>3 DEF Outside
  <2> QED
    BY <1>1, <1>3, <2>1, <2>2, Streamed DEF Outside, client
<1>4. CASE PublishEvent
  <2>1. /\ feed < MaxMessages /\ feed' = feed + 1 /\ UNCHANGED <<active, conn, open, registry>>
        /\ stream' = IF active THEN Append(stream, Publication(feed + 1)) ELSE stream
    BY <1>4, BoundsAssumption DEF PublishEvent, Types, Numbers
  <2>2. InStream' = IF active THEN InStream \cup {feed + 1} ELSE InStream
    BY <2>1, Streamed
  <2>3. UNCHANGED <<active, Streaming, heard>>
    BY <2>1 DEF Streaming
  <2> QED
    BY <2>1, <2>2, <2>3 DEF Promise!Next, Promise!Publish
<1>5. ASSUME NEW f \in Fans, Register(f)
      PROVE  [Promise!Next]_(Promise!vars)
  <2>1. /\ UNCHANGED <<feed, active, stream, open>> /\ registry' = registry \cup {f}
        /\ conn[f].pc = "catchup"
    BY <1>5 DEF Register, CatchUpReady, write
  <2>2. /\ \A g \in Fans : conn'[g].got = conn[g].got
        /\ \A g \in Fans \ {f} : conn'[g].pc = conn[g].pc
    BY <1>5, HandlersAfter
  <2>3. f \notin Streaming /\ Streaming' \in {Streaming, Streaming \cup {f}}
    BY <2>1, <2>2 DEF Streaming
  <2>4. UNCHANGED <<feed, active, InStream, heard>>
    BY <2>1, <2>2, Streamed
  <2> QED
    BY <2>3, <2>4 DEF Promise!Next, Promise!Join, Promise!vars
<1>6. ASSUME NEW f \in Fans, Leave(f)
      PROVE  [Promise!Next]_(Promise!vars)
  <2>1. UNCHANGED <<feed, active, stream, conn>> /\ open' = open \ {f}
    BY <1>6 DEF Leave, write
  <2>2. registry' = registry \/ registry' = registry \ {f}
    BY <1>6 DEF Leave, Unregister
  <2>3. Streaming' = Streaming \ {f}
    BY <2>1, <2>2 DEF Streaming
  <2>4. UNCHANGED <<feed, active, InStream, heard>>
    BY <2>1, Streamed
  <2> QED
    BY <2>3, <2>4 DEF Promise!Next, Promise!Leave, Promise!vars
<1>7. CASE Execute
  <2>1. /\ UNCHANGED <<feed, conn, open, registry>>
        /\ stream' = Append(stream, Reply)
        /\ active' <=> subq[sent + 1].op = "subscribe"
    BY <1>7 DEF Execute, write
  <2>6. sent + 1 \in 1 .. Len(subq)
    BY <1>7 DEF Execute, Types, Numbers
  <2>2. UNCHANGED <<feed, InStream, Streaming, heard>>
    BY <2>1, Streamed DEF Streaming
  <2>3. subq[sent + 1].op \in {"subscribe", "unsubscribe"}
    BY <2>6 DEF Types, Shapes, Command
  <2>4. active /\ ~active' => Streaming = {}
    BY <2>1, <2>3, <2>6, NobodyStreams
  <2>5. active \in BOOLEAN /\ active' \in BOOLEAN
    BY DEF Types, Shapes
  <2> QED
    BY <2>2, <2>4, <2>5 DEF Promise!Next, Promise!Raise, Promise!Lower, Promise!vars
<1>8. CASE ReceiveMessage
  <2> DEFINE m == Head(stream).n
             joining == Recipients \ Streaming
  <2>1. /\ UNCHANGED <<feed, active, open, registry>> /\ stream # << >>
        /\ stream' = Tail(stream) /\ Head(stream).op = "message"
    BY <1>8 DEF ReceiveMessage, write
  <2>2. InStream = InStream' \cup {m}
    BY <2>1, Streamed
  <2>3. \A k \in InStream' : k \in Nat /\ m < k
    <3>1. ASSUME NEW i \in 1 .. Len(stream'), stream'[i].op = "message"
          PROVE  stream'[i].n \in Nat /\ m < stream'[i].n
      <4>1. /\ 1 \in 1 .. Len(stream) /\ i + 1 \in 1 .. Len(stream) /\ 1 < i + 1
            /\ stream'[i] = stream[i + 1] /\ Head(stream) = stream[1]
        BY <2>1
      <4> QED
        BY <2>1, <3>1, <4>1, BoundsAssumption DEF Ordered, Types, Numbers
    <3> QED
      BY <3>1 DEF InStream
  <2>4. m \in Nat
    BY <2>1, BoundsAssumption DEF Ordered, Types, Numbers
  <2>5. m \in InStream /\ InStream' = InStream \ {m} /\ \A k \in InStream : m <= k
    BY <2>2, <2>3, <2>4
  <2>6. \A f \in Fans : conn'[f].pc = conn[f].pc
    BY <1>8, HandlersAfter
  <2>7. UNCHANGED Streaming
    BY <2>1, <2>6 DEF Streaming
  <2>8. Streaming \subseteq Recipients /\ Recipients \subseteq Fans
    BY DEF Streaming, Recipients
  <2>9. joining \in SUBSET (Fans \ Streaming) /\ Streaming \cup joining = Recipients
    BY <2>8
  <2>10. \A f \in Fans : conn'[f].got = IF f \in Recipients THEN conn[f].got \cup {m} ELSE conn[f].got
    BY <1>8, HandlersAfter
  <2>11. heard' = [f \in Fans |-> IF f \in Streaming \cup joining
                                   THEN heard[f] \cup {m} ELSE heard[f]]
    BY <2>9, <2>10
  <2> HIDE DEF m, joining
  <2> QED
    BY <2>1, <2>5, <2>7, <2>9, <2>11 DEF Promise!Next, Promise!Hear
<1>9. CASE ReceiveReply
  <2>1. /\ UNCHANGED <<feed, active, open, registry>> /\ stream # << >>
        /\ stream' = Tail(stream) /\ Head(stream).op # "message"
    BY <1>9 DEF ReceiveReply, write
  <2>2. CASE Resumes
    <3> DEFINE f == Answered.by
    <3>1. f \in Fans /\ conn[f].pc = "subscribing"
      BY <1>9, <2>2, ReplyResumes
    <3>2. \A g \in Fans : conn'[g].got = conn[g].got /\ (g # f => conn'[g].pc = conn[g].pc)
      BY <1>9, <2>2, ReplyResumes
    <3>3. f \notin Streaming /\ Streaming' \in {Streaming, Streaming \cup {f}}
      BY <2>1, <3>1, <3>2 DEF Streaming
    <3>4. UNCHANGED <<feed, active, InStream, heard>>
      BY <2>1, <3>2, Streamed
    <3> HIDE DEF f
    <3> QED
      BY <3>1, <3>3, <3>4 DEF Promise!Next, Promise!Join, Promise!vars
  <2>3. CASE ~Resumes
    <3>1. UNCHANGED <<InStream, conn>>
      BY <1>9, <2>1, <2>3, Streamed DEF ReceiveReply
    <3> QED
      BY <1>1, <2>1, <3>1 DEF Streaming
  <2> QED
    BY <2>2, <2>3
<1>10. CASE Drop \/ Restarts \/ GivesUp
  <2>1. UNCHANGED feed /\ active' = FALSE /\ stream' = << >>
    BY <1>10 DEF Drop, Restarts, Restart, GivesUp, write
  <2>2. \A f \in Fans : conn'[f].got = conn[f].got
    BY <1>10, HandlersAfter DEF Drop, Restarts, GivesUp
  <2>3. Streaming' \in {Streaming, {}}
    BY <1>10 DEF Drop, Restarts, Restart, GivesUp, Streaming
  <2>4. UNCHANGED heard /\ InStream' = {}
    BY <2>1, <2>2, Streamed
  <2> QED
    BY <2>1, <2>3, <2>4 DEF Promise!Next, Promise!Break
<1>11. Step
  BY WhatAStepIs
<1> QED
  BY <1>2, <1>3, <1>4, <1>5, <1>6, <1>7, <1>8, <1>9, <1>10, <1>11 DEF Step

\* For any fans, messages and faults the server is the one ordered line that
\* Feed promises.
THEOREM ServerImplementsFeed == Spec => ImplementsFeed
<1>1. Init => Promise!Init
  BY StreamingInit
<1>2. Ready /\ Ready' /\ [Next]_vars => [Promise!Next]_(Promise!vars)
  BY FeedStep
<1> QED
  BY <1>1, <1>2, Readiness, PTL DEF Spec, ImplementsFeed, Promise!Spec
=============================================================================
