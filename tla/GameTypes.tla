------------------------------ MODULE GameTypes ------------------------------
(***************************************************************************)
(* The vocabulary of one game: its row, its status machine, the requests a *)
(* client may send and the messages published on the game's channel.       *)
(* Source: domains/games/games.types.ts, domains/events/events.types.ts,   *)
(* migrations/003_games.sql, 004_events.sql and 006_game_state.sql.        *)
(*                                                                         *)
(* Games share no row, Redis key or channel, so one game is modelled.      *)
(***************************************************************************)
EXTENDS Integers, Sequences

CONSTANTS
    MaxScore,   \* the largest value of the score columns (PostgreSQL INTEGER)
    Fields,     \* the fields of the JSONB column "state"
    Values,     \* the values a field can be given
    NULL        \* no row, no cache entry, a field that is not set

ASSUME MaxScoreAssumption == MaxScore \in Nat

-----------------------------------------------------------------------------
(* The status machine *)

Status == {"scheduled", "active", "final", "cancelled"}
StatusTransition == {"active", "final", "cancelled"}
Ended == {"final", "cancelled"}

ValidTransitions ==
    [scheduled |-> {"active", "cancelled"},
     active    |-> {"final", "cancelled"},
     final     |-> {},
     cancelled |-> {}]

-----------------------------------------------------------------------------
(* The games row.  Timestamps are kept as "set or not": what the properties *)
(* need of ended_at's age is the variable stale of GameWrites.              *)

Score == 0 .. MaxScore
Game == [status: Status, home: Score, away: Score,
         started: BOOLEAN, ended: BOOLEAN]

NewGame == [status |-> "scheduled", home |-> 0, away |-> 0,
            started |-> FALSE, ended |-> FALSE]

ASSUME NullAssumption == NULL \notin Values /\ NULL \notin Game

\* The column "state": every field may still be unset.
GameState == [Fields -> Values \cup {NULL}]
NoState == [f \in Fields |-> NULL]

\* state || patch: a field the patch leaves out keeps its value.
Merge(state, patch) ==
    [f \in Fields |-> IF patch[f] = NULL THEN state[f] ELSE patch[f]]

-----------------------------------------------------------------------------
(* Requests.  The side of an event is the team its teamId names: "home",    *)
(* "away", a third team ("other"), or no teamId at all ("none").            *)

Side == {"home", "away", "other", "none"}

CreateRequest == [kind: {"create"}]
SubmitRequest == [kind: {"submit"}, side: Side, delta: Int]
TransitionRequest == [kind: {"transition"}, to: StatusTransition]
PatchRequest == [kind: {"patch"}, patch: GameState]

Request == CreateRequest \cup SubmitRequest \cup TransitionRequest
             \cup PatchRequest

-----------------------------------------------------------------------------
(* Messages of the channel lgf:v1:game:{id}:events.  The field n is not in  *)
(* the code: it is the place of the message's transaction in commit order.  *)

EventUpdate == [n: Nat, type: {"event_update"}, side: Side, delta: Int,
                home: Score, away: Score, status: Status]
StatusChange == [n: Nat, type: {"status_change"}, status: Status]
StateUpdate == [n: Nat, type: {"state_update"}, state: GameState]

Message == EventUpdate \cup StatusChange \cup StateUpdate

-----------------------------------------------------------------------------
(* What an event does to a score *)

AtLeastZero(x) == IF x < 0 THEN 0 ELSE x

\* The score that submitEvent computes from the game it read: a teamless
\* event counts for the home team, one of a third team counts for nobody.
\* Math.max(0, ..) is applied to both sides.
Scored(game, side, delta) ==
    [home |-> AtLeastZero(game.home + IF side \in {"home", "none"} THEN delta ELSE 0),
     away |-> AtLeastZero(game.away + IF side = "away" THEN delta ELSE 0)]

\* UPDATE games SET home_score, away_score: the rest of the row stays.
WithScore(game, score) ==
    [game EXCEPT !.home = score.home, !.away = score.away]

\* Mutant: ended_at is passed on every transition.
WithStatusAlwaysEnded(game, to) ==
    [game EXCEPT !.status = to, !.started = @ \/ to = "active", !.ended = TRUE]

\* UPDATE games SET status, with started_at or ended_at where the service
\* passes one.
WithStatus(game, to) ==
    [game EXCEPT !.status = to,
                 !.started = @ \/ to = "active",
                 !.ended = @ \/ to \in Ended]
=============================================================================
