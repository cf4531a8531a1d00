------------------------------ MODULE LiveFeed ------------------------------
(***************************************************************************)
(* The write path and the WebSocket server together: from a coach's        *)
(* request to what the fans of the game see.                               *)
(*                                                                         *)
(* The two meet at three points.  What Redis publishes goes to the         *)
(* subscriber's stream (Relay).  A fan's handler calls the getGame of      *)
(* GameWrites, so a fan is one of its Readers.  And it reads the catch-up  *)
(* list that submitEvent pushes to.                                        *)
(*                                                                         *)
(* A message is known by its place in the channel; a fan shows the score   *)
(* of the catch-up and then that of each event it hears of.                *)
(***************************************************************************)
EXTENDS GameWrites

CONSTANTS
    MaxMessages,  \* bound of WsServer: places in the channel
    LineMishaps   \* faults of the subscriber's connection

VARIABLES
    conn, open, registry, subscribed, confirmed, subUp, subq, sent, stream, active,
    since,      \* the variables of WsServer
    screen      \* screen[f]: the score fan f shows, NULL before the catch-up

line == <<conn, open, registry, subscribed, confirmed, subUp, subq, sent,
          stream, active, since>>
liveVars == <<vars, line, screen>>

Over == row # NULL /\ row.status \in Ended

\* The newest event in the catch-up list.
NewestListed == IF recent = << >> THEN 0 ELSE recent[1].n

S == INSTANCE WsServer WITH
    Fans <- Readers, Mishaps <- LineMishaps,
    pushed <- NewestListed, feed <- Len(published), over <- Over

ScoreOf(x) == [home |-> x.home, away |-> x.away]

LiveInit ==
    /\ Init
    /\ S!Init
    /\ screen = [f \in Readers |-> NULL]

-----------------------------------------------------------------------------
(* The write path; the line does not move *)

WriteStep(w) == Handle(w) /\ UNCHANGED <<line, screen>>
Ask(w, s) == Begin(w, s) /\ UNCHANGED <<line, screen>>
ReplyTo(s) == Reply(s) /\ UNCHANGED <<line, screen>>
Repeat(s) == Reconnect(s) /\ UNCHANGED <<line, screen>>
Forget == Expire /\ UNCHANGED <<line, screen>>

\* Mutant: messages are dropped until a handler knows of the subscription.
RelayToKnown(s) ==
    /\ Execute(s)
    /\ stream' = IF published' # published /\ active /\ subscribed
                   THEN Append(stream, S!Publication(Len(published'))) ELSE stream
    /\ UNCHANGED <<conn, open, registry, subscribed, confirmed, subUp, subq,
                   sent, active, since, screen>>

\* Redis executes a command of a server; a message goes to the line as well.
Relay(s) ==
    /\ Execute(s)
    /\ stream' = IF published' # published /\ active
                   THEN Append(stream, S!Publication(Len(published'))) ELSE stream
    /\ UNCHANGED <<conn, open, registry, subscribed, confirmed, subUp, subq,
                   sent, active, since, screen>>

-----------------------------------------------------------------------------
(* The fan's handler *)

ReadsGame(f) == conn[f].pc = "catchup" /\ conn[f].saw = "nothing"

\* getGame returns this game to the handler of fan f.
Saw(f, game) ==
    /\ ReadsGame(f)
    /\ conn' = [conn EXCEPT ![f].saw = IF game.status \in Ended THEN "over" ELSE "running"]
    /\ screen' = [screen EXCEPT ![f] = ScoreOf(game)]
    /\ UNCHANGED <<open, registry, subscribed, confirmed, subUp, subq, sent,
                   stream, active, since>>

AskGame(f, s) ==
    /\ ReadsGame(f)
    /\ ReadCache(f, s)
    /\ IF cache # NULL THEN Saw(f, cache.game) ELSE UNCHANGED <<line, screen>>

\* No such game: the read fails, and so does the catch-up.
MissGame(f) ==
    /\ ReadRow(f)
    /\ IF row = NULL /\ ReadsGame(f)
         THEN S!CatchUpFails(f) /\ UNCHANGED screen
         ELSE UNCHANGED <<line, screen>>

WarmGame(f) == Warm(f) /\ UNCHANGED <<line, screen>>

\* The handler may have failed meanwhile; then nobody takes the game.
GetGame(f) ==
    /\ Served(f)
    /\ IF ReadsGame(f) THEN Saw(f, r[f].seen) ELSE UNCHANGED <<line, screen>>

\* The other steps of the handler are those of WsServer.
Enter(f) == UNCHANGED <<vars, screen>> /\ S!Connect(f)
HandlerStep(f) ==
    /\ UNCHANGED <<vars, screen>>
    /\ S!ReadRecent(f) \/ S!SendFinal(f) \/ S!Register(f) \/ S!CloseFinal(f)
Disconnect(f) == UNCHANGED <<vars, screen>> /\ S!Leave(f)

-----------------------------------------------------------------------------
(* The subscriber *)

\* Mutant: messages are dispatched concurrently and overtake each other.
HearOvertaking ==
    /\ UNCHANGED vars
    /\ \E i \in DOMAIN stream :
         LET n == stream[i].n
         IN  /\ stream[i].op = "message"
             /\ stream' = SelectSeq(stream, LAMBDA item : item # stream[i])
             /\ conn' = [f \in Readers |-> IF f \in S!Recipients
                                             THEN [conn[f] EXCEPT !.got = @ \cup {n}] ELSE conn[f]]
             /\ screen' = [f \in Readers |->
                             IF f \in S!Recipients /\ published[n].type = "event_update"
                               THEN ScoreOf(published[n]) ELSE screen[f]]
    /\ UNCHANGED <<open, registry, subscribed, confirmed, subUp, subq, sent,
                   active, since>>

\* The dispatcher sends the message; the fans show an event's score.
HearMessage ==
    /\ UNCHANGED vars
    /\ S!ReceiveMessage
    /\ LET msg == published[Head(stream).n]
       IN  screen' = [f \in Readers |->
                        IF f \in S!Recipients /\ msg.type = "event_update"
                          THEN ScoreOf(msg) ELSE screen[f]]

SubscriberStep == UNCHANGED <<vars, screen>> /\ (S!Execute \/ S!ReceiveReply)

DropLine ==
    /\ UNCHANGED <<postgres, redis, clients, job, h, r, started, reads, screen>>
    /\ S!Drop

-----------------------------------------------------------------------------
GetGameStep(f) == MissGame(f) \/ WarmGame(f) \/ GetGame(f)

LiveNext ==
    \/ \E w \in Writers : WriteStep(w)
    \/ \E w \in Writers, s \in Servers : Ask(w, s)
    \/ \E s \in Servers : Relay(s) \/ ReplyTo(s) \/ Repeat(s)
    \/ Forget
    \/ \E f \in Readers, s \in Servers : AskGame(f, s)
    \/ \E f \in Readers : Enter(f) \/ GetGameStep(f) \/ HandlerStep(f) \/ Disconnect(f)
    \/ HearMessage \/ SubscriberStep \/ DropLine

\* As in the two modules.
LiveFairness ==
    /\ \A w \in Writers : WF_liveVars(WriteStep(w))
    /\ \A s \in Servers : WF_liveVars(Relay(s)) /\ WF_liveVars(ReplyTo(s))
    /\ \A f \in Readers :
         /\ WF_liveVars(\E s \in Servers : AskGame(f, s))
         /\ WF_liveVars(GetGameStep(f)) /\ WF_liveVars(HandlerStep(f))
    /\ WF_liveVars(HearMessage) /\ WF_liveVars(SubscriberStep)

LiveSpec == LiveInit /\ [][LiveNext]_liveVars /\ LiveFairness

-----------------------------------------------------------------------------
(* Properties *)

\* No fan ever shows a score that no transaction stored, whatever it pieced
\* together from the cache, a warm-up and the stream.
ScreenWasStored ==
    \A f \in Readers :
      screen[f] # NULL =>
        \/ screen[f] = [home |-> 0, away |-> 0]
        \/ \E m \in ToSet(commits) : m.type = "event_update" /\ screen[f] = ScoreOf(m)

\* The newest event was announced at place n of the channel.
NewestEventAt(n) ==
    published[n].type = "event_update" /\ LastOfType(published[n], commits)

\* A fan who heard of the newest event shows the row's score, also while older
\* events, which a reconnecting client published again, are still on their way
\* to it and to others.
HeardScreenIsRow ==
    \A f \in Readers :
      (\E n \in conn[f].got : NewestEventAt(n)) => screen[f] = ScoreOf(row)

\* Fan f streams, and place n of the channel was taken while it did.
Due(f, n) ==
    /\ f \in registry \cap open /\ active
    /\ conn[f].joined < n /\ since < n

\* A fan who streams and was due the newest event shows the row's score as soon
\* as nothing is on its way to it: no handler, queue, subscription or dispatch
\* between the coach's commit and the fan's socket loses it or turns it back.
ServedScreenIsRow ==
    \A f \in Readers :
      stream = << >> /\ (\E n \in DOMAIN published : Due(f, n) /\ NewestEventAt(n))
        => screen[f] = ScoreOf(row)

\* The n-th write is an event, committed and not announced yet.
Unannounced(n) ==
    /\ n <= Len(commits) /\ commits[n].type = "event_update"
    /\ \A i \in DOMAIN published : published[i].n # n

\* From the coach's commit to the fan's screen: an event that commits while a
\* fan streams is heard by that fan, across handler, client, Redis, subscriber
\* and dispatcher, unless the fan leaves or the line drops first.
EveryEventIsHeard ==
    \A f \in Readers, n \in 1 .. MaxRequests :
      (conn[f].pc = "live" /\ active /\ Unannounced(n)) ~>
         ((\E m \in conn[f].got : published[m].n = n) \/ f \notin open \/ ~active)
=============================================================================
