-------------------------------- MODULE Feed --------------------------------
(***************************************************************************)
(* What the WebSocket server promises the fans of a game: one line from    *)
(* which every streaming fan hears the same messages, in the order in      *)
(* which they were published.  While the line is up nothing published is   *)
(* left out; it only goes down under a streaming fan when it breaks.       *)
(* There are no handlers, no registry and no commands here; WsServer       *)
(* implements this.                                                        *)
(***************************************************************************)
EXTENDS Integers

CONSTANTS Fans, MaxMessages

VARIABLES
    told,        \* messages published so far
    up,          \* what is published goes on the line
    line,        \* the messages on the line
    streaming,   \* the fans who are promised what comes from it
    heard        \* heard[f]: what fan f has heard

vars == <<told, up, line, streaming, heard>>

Init ==
    /\ told = 0
    /\ up = FALSE /\ line = {}
    /\ streaming = {}
    /\ heard = [f \in Fans |-> {}]

Publish ==
    /\ told < MaxMessages
    /\ told' = told + 1
    /\ line' = IF up THEN line \cup {told + 1} ELSE line
    /\ UNCHANGED <<up, streaming, heard>>

Raise ==
    /\ ~up /\ up' = TRUE
    /\ UNCHANGED <<told, line, streaming, heard>>

\* The line is taken down when nobody needs it.
Lower ==
    /\ up /\ streaming = {}
    /\ up' = FALSE
    /\ UNCHANGED <<told, line, streaming, heard>>

\* It breaks: what is on it is lost, and perhaps every fan is.
Break ==
    /\ up' = FALSE /\ line' = {}
    /\ streaming' \in {streaming, {}}
    /\ UNCHANGED <<told, heard>>

\* Every streaming fan hears the oldest message; so may one who is joining.
Hear ==
    \E m \in line :
      /\ \A k \in line : m <= k
      /\ line' = line \ {m}
      /\ \E joining \in SUBSET (Fans \ streaming) :
           heard' = [f \in Fans |-> IF f \in streaming \cup joining
                                      THEN heard[f] \cup {m} ELSE heard[f]]
      /\ UNCHANGED <<told, up, streaming>>

Join(f) ==
    /\ f \notin streaming
    /\ streaming' = streaming \cup {f}
    /\ UNCHANGED <<told, up, line, heard>>

Leave(f) ==
    /\ f \in streaming
    /\ streaming' = streaming \ {f}
    /\ UNCHANGED <<told, up, line, heard>>

Next ==
    \/ Publish \/ Raise \/ Lower \/ Break \/ Hear
    \/ \E f \in Fans : Join(f) \/ Leave(f)

Spec == Init /\ [][Next]_vars
=============================================================================
