------------------------------ MODULE WsServer ------------------------------
(***************************************************************************)
(* The WebSocket server of one API instance, for the fans of one game:     *)
(* ws-server.ts, ws-connection-registry.ts and ws-message-dispatcher.ts.   *)
(*                                                                         *)
(* A connection handler is cut at its awaits: the catch-up reads and the   *)
(* SUBSCRIBE.  The 'close' listener is only attached after both; a socket  *)
(* that closes earlier closes unobserved.                                  *)
(*                                                                         *)
(* redisSubscriber is one connection: commands go out in order and wait in *)
(* subq for their replies, which come back in one stream with the          *)
(* published messages.                                                     *)
(* The write path is external: it pushes an event to the catch-up list and *)
(* then publishes it (GameWrites models how).                              *)
(***************************************************************************)
EXTENDS Integers, Sequences, FiniteSets

CONSTANTS
    Fans,          \* connections; one that reconnects is another fan
    MaxMessages,   \* bound: events that are submitted
    Mishaps,       \* which faults may happen: "drop", "give_up"
    MaxMishaps,    \* bound: how many of them happen
    NULL

ASSUME FansAssumption == NULL \notin Fans
ASSUME BoundsAssumption ==
    MaxMessages \in Nat /\ MaxMishaps \in Nat /\ NULL \notin Nat
ASSUME MishapsAssumption == Mishaps \subseteq {"drop", "give_up"}

VARIABLES
    pushed,       \* events in the catch-up list so far
    feed,         \* events published on the channel so far
    over,         \* the game is final or cancelled
    conn,         \* conn[f]: the connection handler of fan f
    open,         \* the sockets that are open
    registry,     \* WsConnectionRegistry: the sockets of the game
    subscribed,   \* the channel is in subscribedChannels
    confirmed,    \* the channel is in ioredis's own set, for resubscribing
    subUp,        \* redisSubscriber has not given up reconnecting
    subq,         \* commands that have no reply yet
    sent,         \* how many of them Redis has executed
    stream,       \* replies and messages on their way back
    active,       \* Redis delivers the channel to this connection
    since,        \* feed when the channel last became active
    mishaps

write == <<pushed, feed, over>>
client == <<confirmed, subUp, subq, sent, stream, active, since>>
vars == <<pushed, feed, over, conn, open, registry, subscribed, confirmed,
          subUp, subq, sent, stream, active, since, mishaps>>

Messages == 1 .. MaxMessages

Away == [pc |-> "away", saw |-> "nothing", base |-> NULL, joined |-> 0, got |-> {}]

\* A command names the fan whose handler waits for its reply.
Subscribe(f) == [op |-> "subscribe", by |-> f]
Unsubscribe == [op |-> "unsubscribe", by |-> NULL]

\* What is in the stream; replies come in the order of the commands.
Reply == [op |-> "reply", n |-> NULL]
Publication(n) == [op |-> "message", n |-> n]

Init ==
    /\ pushed = 0 /\ feed = 0 /\ over = FALSE
    /\ conn = [f \in Fans |-> Away] /\ open = {}
    /\ registry = {}
    /\ subscribed = FALSE /\ confirmed = FALSE /\ subUp = TRUE
    /\ subq = << >> /\ sent = 0 /\ stream = << >>
    /\ active = FALSE /\ since = 0
    /\ mishaps = 0

-----------------------------------------------------------------------------
(* The write path, as far as a fan can tell *)

PushEvent ==
    /\ pushed < MaxMessages
    /\ pushed' = pushed + 1
    /\ UNCHANGED <<feed, over, conn, open, registry, subscribed, client, mishaps>>

\* Mutant: an event is published before it is pushed.
PublishEventFirst ==
    /\ feed < MaxMessages
    /\ feed' = feed + 1
    /\ stream' = IF active THEN Append(stream, Publication(feed + 1)) ELSE stream
    /\ UNCHANGED <<pushed, over, conn, open, registry, subscribed, confirmed, subUp,
                   subq, sent, active, since, mishaps>>

\* Redis hands a message to the connections that are subscribed right now.
PublishEvent ==
    /\ feed < pushed
    /\ feed' = feed + 1
    /\ stream' = IF active THEN Append(stream, Publication(feed + 1)) ELSE stream
    /\ UNCHANGED <<pushed, over, conn, open, registry, subscribed, confirmed, subUp,
                   subq, sent, active, since, mishaps>>

EndGame ==
    /\ ~over /\ over' = TRUE
    /\ UNCHANGED <<pushed, feed, conn, open, registry, subscribed, client, mishaps>>

-----------------------------------------------------------------------------
(* The connection handler *)

Goto(f, pc) == conn' = [conn EXCEPT ![f].pc = pc]

Connect(f) ==
    /\ conn[f].pc = "away"
    /\ Goto(f, "catchup")
    /\ open' = open \cup {f}
    /\ UNCHANGED <<write, registry, subscribed, client, mishaps>>

\* getGame and getRecentEvents are two of the reads of Promise.all, in any
\* order.  The cached game may still show a finished game as running.
ReadGame(f) ==
    /\ conn[f].pc = "catchup" /\ conn[f].saw = "nothing"
    /\ \E saw \in IF over THEN {"running", "over"} ELSE {"running"} :
         conn' = [conn EXCEPT ![f].saw = saw]
    /\ UNCHANGED <<write, open, registry, subscribed, client, mishaps>>

ReadRecent(f) ==
    /\ conn[f].pc = "catchup" /\ conn[f].base = NULL
    /\ conn' = [conn EXCEPT ![f].base = pushed]
    /\ UNCHANGED <<write, open, registry, subscribed, client, mishaps>>

\* A read fails or the game does not exist: an error message, close(1008).
CatchUpFails(f) ==
    /\ conn[f].pc = "catchup"
    /\ Goto(f, "gone")
    /\ open' = open \ {f}
    /\ UNCHANGED <<write, registry, subscribed, client, mishaps>>

CatchUpReady(f) ==
    conn[f].pc = "catchup" /\ conn[f].saw # "nothing" /\ conn[f].base # NULL

\* The game is over: the catch-up, the status, and a close in five seconds.
SendFinal(f) ==
    /\ CatchUpReady(f) /\ conn[f].saw = "over"
    /\ Goto(f, "over")
    /\ UNCHANGED <<write, open, registry, subscribed, client, mishaps>>

CloseFinal(f) ==
    /\ conn[f].pc = "over"
    /\ Goto(f, "gone")
    /\ open' = open \ {f}
    /\ UNCHANGED <<write, registry, subscribed, client, mishaps>>

\* The handler goes on with its subscription.
Joined(f) ==
    /\ conn' = [conn EXCEPT ![f].pc = IF subscribed THEN "live" ELSE "subscribing",
                            ![f].joined = feed]
    /\ subq' = IF subscribed THEN subq ELSE Append(subq, Subscribe(f))

\* The catch-up is sent (to a closed socket it is lost silently) and the socket
\* registered; without a subscription the handler waits for one.  The INCR and
\* DECR of fan_count, which nothing reads, are left out.
Register(f) ==
    /\ CatchUpReady(f) /\ conn[f].saw = "running"
    /\ subscribed \/ subUp
    /\ registry' = registry \cup {f}
    /\ Joined(f)
    /\ UNCHANGED <<write, open, subscribed, confirmed, subUp, sent, stream,
                   active, since, mishaps>>

\* Mutant: the last fan leaves the channel subscribed.
UnregisterKeepsChannel(f) ==
    /\ registry' = registry \ {f}
    /\ subscribed' = (subscribed /\ registry' # {})
    /\ UNCHANGED subq

\* What the 'close' listener does.  A client that has given up rejects the
\* UNSUBSCRIBE, and the rejection is logged.
Unregister(f) ==
    /\ registry' = registry \ {f}
    /\ IF registry' = {}
         THEN /\ subscribed' = FALSE
              /\ subq' = IF subUp THEN Append(subq, Unsubscribe) ELSE subq
         ELSE UNCHANGED <<subscribed, subq>>

\* Mutant: the listener is attached before the SUBSCRIBE is awaited.
ListensEarly(f) == conn[f].pc \in {"subscribing", "live"}

\* The listener is attached once the handler is past its awaits.
Listens(f) == conn[f].pc = "live"

\* The peer closes its socket, or the connection breaks.
Leave(f) ==
    /\ f \in open
    /\ open' = open \ {f}
    /\ IF Listens(f) THEN Unregister(f) ELSE UNCHANGED <<registry, subscribed, subq>>
    /\ UNCHANGED <<write, conn, confirmed, subUp, sent, stream, active, since, mishaps>>

-----------------------------------------------------------------------------
(* redisSubscriber *)

\* Redis executes the next command and replies.
Execute ==
    /\ sent < Len(subq)
    /\ active' = (subq[sent + 1].op = "subscribe")
    /\ since' = IF active' /\ ~active THEN feed ELSE since
    /\ sent' = sent + 1
    /\ stream' = Append(stream, Reply)
    /\ UNCHANGED <<write, conn, open, registry, subscribed, confirmed, subUp,
                   subq, mishaps>>

\* Mutant: a socket that is not open aborts the broadcast.
RecipientsAborted == IF registry \subseteq open THEN registry ELSE {}

\* dispatch: every registered socket that is open; the others are skipped.
Recipients == registry \cap open

ReceiveMessage ==
    /\ stream # << >> /\ Head(stream).op = "message"
    /\ conn' = [f \in Fans |-> IF f \in Recipients
                                 THEN [conn[f] EXCEPT !.got = @ \cup {Head(stream).n}]
                                 ELSE conn[f]]
    /\ stream' = Tail(stream)
    /\ UNCHANGED <<write, open, registry, subscribed, confirmed, subUp, subq,
                   sent, active, since, mishaps>>

\* The command whose reply is at the head of the stream.
Answered == subq[1]

\* Mutant: only the first handler that waits is resumed.
ResumesOnce == Answered.op = "subscribe" /\ Answered.by # NULL /\ ~subscribed

\* A handler waits for the reply.
Resumes == Answered.op = "subscribe" /\ Answered.by # NULL

\* The reply to a SUBSCRIBE resumes the handler that waits for it; messages
\* behind it in the stream find the socket registered already.
ReceiveReply ==
    /\ stream # << >> /\ Head(stream).op = "reply"
    /\ sent > 0
    /\ confirmed' = (Answered.op = "subscribe")
    /\ subscribed' = (subscribed \/ Resumes)
    /\ IF Resumes THEN Goto(Answered.by, "live") ELSE UNCHANGED conn
    /\ subq' = Tail(subq) /\ sent' = sent - 1
    /\ stream' = Tail(stream)
    /\ UNCHANGED <<write, open, registry, subUp, active, since, mishaps>>

Mishap(kind) ==
    /\ kind \in Mishaps
    /\ mishaps < MaxMishaps
    /\ mishaps' = mishaps + 1

\* The connection drops and comes back.  What was in the stream is lost;
\* ioredis subscribes again to what it had confirmed and then repeats the
\* commands that got no reply.
Drop ==
    /\ subUp
    /\ Mishap("drop")
    /\ subq' = IF confirmed THEN <<Subscribe(NULL)>> \o subq ELSE subq
    /\ sent' = 0 /\ stream' = << >>
    /\ active' = FALSE
    /\ UNCHANGED <<write, conn, open, registry, subscribed, confirmed, subUp, since>>

\* The process exits and a new one starts: every socket is gone.
Restart ==
    /\ conn' = [f \in Fans |-> IF conn[f].pc = "away" THEN conn[f]
                               ELSE [conn[f] EXCEPT !.pc = "gone"]]
    /\ open' = {} /\ registry' = {}
    /\ subscribed' = FALSE /\ confirmed' = FALSE /\ subUp' = TRUE
    /\ subq' = << >> /\ sent' = 0 /\ stream' = << >> /\ active' = FALSE

\* Three attempts to reconnect fail.  A SUBSCRIBE that a handler waits for is
\* rejected, nobody catches that, and the process exits.
GiveUp ==
    /\ subUp
    /\ Mishap("give_up")
    /\ IF \E f \in Fans : conn[f].pc = "subscribing"
         THEN Restart
         ELSE /\ subUp' = FALSE /\ subq' = << >> /\ sent' = 0 /\ stream' = << >>
              /\ active' = FALSE
              /\ UNCHANGED <<conn, open, registry, subscribed, confirmed>>
    /\ UNCHANGED <<write, since>>

\* The same for a fan who needs a subscription after that: it is registered
\* before the SUBSCRIBE is rejected.
RegisterRejected(f) ==
    /\ CatchUpReady(f) /\ conn[f].saw = "running"
    /\ ~subscribed /\ ~subUp
    /\ Restart
    /\ UNCHANGED <<write, since, mishaps>>

-----------------------------------------------------------------------------
Handler(f) == ReadGame(f) \/ ReadRecent(f) \/ SendFinal(f) \/ Register(f)
                \/ RegisterRejected(f) \/ CloseFinal(f)
Receive == ReceiveMessage \/ ReceiveReply

Next ==
    \/ PushEvent \/ PublishEvent \/ EndGame
    \/ \E f \in Fans : Connect(f) \/ Handler(f) \/ CatchUpFails(f) \/ Leave(f)
    \/ Execute \/ Receive \/ Drop \/ GiveUp

Spec == Init /\ [][Next]_vars

\* Reads return or fail, Redis executes what it received, and the event loop
\* reads its sockets.
Fairness ==
    /\ \A f \in Fans : WF_vars(Handler(f))
    /\ WF_vars(Execute) /\ WF_vars(Receive)

FairSpec == Spec /\ Fairness

-----------------------------------------------------------------------------
(* Properties *)

Command == [op: {"subscribe"}, by: Fans \cup {NULL}]
             \cup [op: {"unsubscribe"}, by: {NULL}]
Item == [op: {"reply"}, n: {NULL}] \cup [op: {"message"}, n: Messages]

\* Every variable has its type, and as many replies are on their way as Redis
\* has executed commands.
TypeOK ==
    /\ pushed \in 0 .. MaxMessages /\ feed \in 0 .. pushed /\ over \in BOOLEAN
    /\ conn \in [Fans ->
         [pc: {"away", "catchup", "subscribing", "live", "over", "gone"},
          saw: {"nothing", "running", "over"},
          base: 0 .. MaxMessages \cup {NULL}, joined: 0 .. MaxMessages,
          got: SUBSET Messages]]
    /\ open \subseteq Fans /\ registry \subseteq Fans
    /\ subscribed \in BOOLEAN /\ confirmed \in BOOLEAN /\ subUp \in BOOLEAN
    /\ subq \in Seq(Command) /\ sent \in 0 .. Len(subq)
    /\ stream \in Seq(Item)
    /\ Cardinality({i \in DOMAIN stream : stream[i].op = "reply"}) = sent
    /\ active \in BOOLEAN /\ since \in 0 .. MaxMessages
    /\ mishaps \in Nat

\* Where the subscription ends up once the commands on their way are executed.
WillBeActive ==
    IF sent = Len(subq) THEN active ELSE subq[Len(subq)].op = "subscribe"

\* No registered fan is left without a subscription: fans who come and go while
\* SUBSCRIBE and UNSUBSCRIBE are under way, and a reconnecting client, never end
\* with the channel unsubscribed and a fan waiting on it.
RegisteredIsSubscribed == subUp /\ registry # {} => WillBeActive

\* Nobody registered, nothing under way: Redis does not deliver the channel.
UnusedChannelIsLeft ==
    registry = {} /\ subq = << >> /\ stream = << >> => ~active

InStream == {stream[i].n : i \in {j \in DOMAIN stream : stream[j].op = "message"}}

\* What was published since fan f is registered and the channel active.
Owed(f) ==
    {m \in Messages : conn[f].joined < m /\ since < m /\ m <= feed}

\* A registered open socket has every message published since it is registered
\* and the channel active, or will get it from the stream: neither the sockets
\* of others nor their comings and goings cost it one.
StreamHasNoHoles ==
    \A f \in registry : active /\ f \in open => Owed(f) \subseteq conn[f].got \cup InStream

\* The registry's promise ("always call unregister"): a socket whose handler is
\* through is in the registry only while it is open.
NoDeadSocketRegistered ==
    \A f \in registry : conn[f].pc = "live" => f \in open

\* What a fan is told to expect ("event_update: each event submitted"): events
\* that its catch-up did not list arrive by the stream.
CatchUpMeetsStream ==
    \A f \in Fans : conn[f].pc = "live" /\ f \in open =>
      {m \in Messages : conn[f].base < m /\ m <= feed} \subseteq conn[f].got \cup InStream

\* Every connection is served or refused.
EveryConnectionSettles ==
    \A f \in Fans : conn[f].pc = "catchup" ~> conn[f].pc \in {"live", "gone"}

\* What a streaming fan is owed arrives, unless the fan leaves or the
\* subscription is interrupted first.
EveryMessageArrives ==
    \A f \in Fans, m \in Messages :
      (f \in registry /\ active /\ m \in Owed(f)) ~> (m \in conn[f].got \/ f \notin open \/ ~active)

-----------------------------------------------------------------------------
(* The server as an implementation of Feed *)

Streaming == {f \in registry \cap open : conn[f].pc = "live"}

Promise == INSTANCE Feed WITH
    told <- feed, up <- active, line <- InStream, streaming <- Streaming,
    heard <- [f \in Fans |-> conn[f].got]

\* Fans whose handlers are through hear one line: the same messages in the
\* published order, nothing left out while the line is up, and it is never
\* taken down under them by the comings and goings of others.
ImplementsFeed == Promise!Spec
=============================================================================
