------------------------------ MODULE ScoreSheet ------------------------------
(***************************************************************************)
(* What the write path promises, as if there were one score keeper with a  *)
(* pencil: an entry is made in one step, on the game as it stands, in the  *)
(* order of the entries, and only entries are ever announced.  There are   *)
(* no reads, no transactions, no cache and no servers here; GameWrites     *)
(* implements this when one client keeps the score.                        *)
(***************************************************************************)
EXTENDS GameTypes

CONSTANT Requests   \* what may be asked for

VARIABLES
    row,     \* the game, NULL before it is created
    state,   \* its state
    log,     \* the entries, in order
    told     \* the entries that were announced

vars == <<row, state, log, told>>

Init ==
    /\ row = NULL
    /\ state = NoState
    /\ log = << >>
    /\ told = {}

Create(req) ==
    /\ req.kind = "create"
    /\ row = NULL
    /\ row' = NewGame
    /\ UNCHANGED <<state, log, told>>

\* An event: on an active game, by its own delta, within the columns' range.
Submit(req) ==
    /\ req.kind = "submit"
    /\ row # NULL /\ row.status = "active"
    /\ LET score == Scored(row, req.side, req.delta)
       IN  /\ score.home <= MaxScore /\ score.away <= MaxScore
           /\ row' = WithScore(row, score)
           /\ log' = Append(log, [n |-> Len(log) + 1, type |-> "event_update",
                                  side |-> req.side, delta |-> req.delta,
                                  home |-> score.home, away |-> score.away,
                                  status |-> "active"])
    /\ UNCHANGED <<state, told>>

\* A change of status, along the machine.
Transition(req) ==
    /\ req.kind = "transition"
    /\ row # NULL /\ req.to \in ValidTransitions[row.status]
    /\ row' = WithStatus(row, req.to)
    /\ log' = Append(log, [n |-> Len(log) + 1, type |-> "status_change", status |-> req.to])
    /\ UNCHANGED <<state, told>>

Patch(req) ==
    /\ req.kind = "patch"
    /\ row # NULL
    /\ state' = Merge(state, req.patch)
    /\ log' = Append(log, [n |-> Len(log) + 1, type |-> "state_update", state |-> state'])
    /\ UNCHANGED <<row, told>>

\* An entry is announced, perhaps late, perhaps never, perhaps again.
Announce ==
    /\ \E i \in DOMAIN log : told' = told \cup {log[i]}
    /\ UNCHANGED <<row, state, log>>

Next ==
    \/ \E req \in Requests : Create(req) \/ Submit(req) \/ Transition(req) \/ Patch(req)
    \/ Announce

Spec == Init /\ [][Next]_vars
=============================================================================
