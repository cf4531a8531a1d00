-------------------------------- MODULE Pages --------------------------------
(***************************************************************************)
(* Cursor pagination: a client walks through GET /games or through the     *)
(* events of a game, page by page, while other clients insert rows and     *)
(* move the status of games.                                               *)
(*                                                                         *)
(* created_at is DEFAULT NOW(): the start of the inserting transaction,    *)
(* which may commit after a later one.  Postgres keeps microseconds, the   *)
(* JavaScript Date that becomes the cursor keeps milliseconds: time is     *)
(* counted in ticks, Precision of which make a millisecond.                *)
(***************************************************************************)
EXTENDS Integers, Sequences, FiniteSets

CONSTANTS
    Precision,  \* ticks per millisecond
    MaxPage,    \* the largest page (100 in the code)
    Limits,     \* the values of ?limit=, NULL for one that is not a number
    MaxRows,    \* bound: rows that are inserted
    MaxNow,     \* bound: ticks of the clock
    NULL

ASSUME PrecisionAssumption == Precision \in Nat \ {0}
ASSUME PageAssumption == MaxPage \in Nat \ {0} /\ Limits \subseteq Int \cup {NULL}
ASSUME BoundsAssumption == MaxRows \in Nat /\ MaxNow \in Nat /\ NULL \notin Int

VARIABLES
    list,   \* what is listed: "games" or "events"
    now,    \* the clock of Postgres
    open,   \* rows of transactions that have not committed
    rows,   \* the rows of the table
    walk    \* the client's walk: its query, where it is, what it has seen

vars == <<list, now, open, rows, walk>>

GameStatus == {"scheduled", "active"}
Row == [id: 1 .. MaxRows, at: 0 .. MaxNow, status: GameStatus]

\* toISOString: the millisecond an instant lies in.
Millisecond(at) == (at \div Precision) * Precision

\* WHERE status = $1, where a status is asked for (games only).
Matches(row, filter) == filter = NULL \/ row.status = filter

NoWalk == [pc |-> "idle", limit |-> NULL, filter |-> NULL, cursor |-> NULL,
           listed |-> << >>, steady |-> {}, edges |-> {}]

Init ==
    /\ list \in {"games", "events"}
    /\ now = 0
    /\ open = {} /\ rows = {}
    /\ walk = NoWalk

-----------------------------------------------------------------------------
(* The writers *)

Tick ==
    /\ now < MaxNow
    /\ now' = now + 1
    /\ UNCHANGED <<list, open, rows, walk>>

BeginInsert ==
    LET id == Cardinality(open) + Cardinality(rows) + 1
    IN  /\ id <= MaxRows
        /\ open' = open \cup {[id |-> id, at |-> now, status |-> "scheduled"]}
        /\ UNCHANGED <<list, now, rows, walk>>

CommitInsert(row) ==
    /\ row \in open
    /\ open' = open \ {row}
    /\ rows' = rows \cup {row}
    /\ UNCHANGED <<list, now, walk>>

\* A game is started.  Once it has changed its status it is no longer one of
\* the rows that match all along.
Transition(row) ==
    /\ list = "games"
    /\ row \in rows /\ row.status = "scheduled"
    /\ rows' = (rows \ {row}) \cup {[row EXCEPT !.status = "active"]}
    /\ walk' = [walk EXCEPT !.steady = IF walk.filter = NULL THEN @ ELSE @ \ {row.id}]
    /\ UNCHANGED <<list, now, open>>

-----------------------------------------------------------------------------
(* The reader *)

\* The controller parses the query; the first page is asked for.
Ask(limit, filter) ==
    /\ walk.pc = "idle"
    /\ filter # NULL => list = "games"
    /\ walk' = [NoWalk EXCEPT !.pc = "asking", !.limit = limit, !.filter = filter,
                              !.steady = {row.id : row \in {x \in rows : Matches(x, filter)}}]
    /\ UNCHANGED <<list, now, open, rows>>

PageSize(limit) == IF limit < MaxPage THEN limit ELSE MaxPage

\* LIMIT: listGames asks for one row more than a page and findAll for one more
\* again, listEvents leaves that to findByGame.
Fetched(limit) == PageSize(limit) + (IF list = "games" THEN 2 ELSE 1)

\* Mutant: the comparison with the cursor is not strict.
AfterCursorOrAt(row, cursor) == cursor = NULL \/ row.at <= cursor

\* created_at < $cursor
AfterCursor(row, cursor) == cursor = NULL \/ row.at < cursor

Descending(s) == \A i, j \in DOMAIN s : i < j => s[i].at >= s[j].at

\* Mutant: ORDER BY is left out.
ResultsUnordered(S, n) ==
    UNION {{s \in [1 .. Cardinality(T) -> T] :
              \A i, j \in DOMAIN s : i # j => s[i] # s[j]} :
           T \in {T \in SUBSET S :
                    /\ Cardinality(T) <= n
                    /\ T = S \/ Cardinality(T) = n}}

\* The results of SELECT .. ORDER BY created_at DESC LIMIT n over the rows S:
\* rows of the same instant come in any order.
Results(S, n) ==
    UNION {{s \in [1 .. Cardinality(T) -> T] :
              /\ \A i, j \in DOMAIN s : i # j => s[i] # s[j]
              /\ Descending(s)} :
           T \in {T \in SUBSET S :
                    /\ Cardinality(T) <= n
                    /\ T = S \/ Cardinality(T) = n
                    /\ \A x \in T, y \in S \ T : x.at >= y.at}}

\* rows.slice(0, n): a negative n counts from the end.
Slice(s, n) ==
    IF n >= 0 THEN SubSeq(s, 1, IF n < Len(s) THEN n ELSE Len(s))
              ELSE SubSeq(s, 1, Len(s) + n)

\* Mutant: the cursor is that of the extra row.
CursorOfExtra(found, page) == Millisecond(found[Len(found)].at)

\* The cursor is that of the last row on the page.
CursorOf(found, page) == Millisecond(page[Len(page)].at)

\* One query and what the service makes of its result.  Without rows on the
\* page, or without an extra row, there is no cursor and the walk is over.
\* (Only a walk in circles would reach the bound on what it lists.)
NextPage ==
    /\ walk.pc = "asking" /\ walk.limit # NULL
    /\ Len(walk.listed) <= MaxRows
    /\ LET size == PageSize(walk.limit)
           S == {row \in rows : Matches(row, walk.filter) /\ AfterCursor(row, walk.cursor)}
       IN  /\ Fetched(walk.limit) >= 0
           /\ \E found \in Results(S, Fetched(walk.limit)) :
                LET more == Len(found) > size
                    page == IF more THEN Slice(found, size) ELSE found
                    on == more /\ page # << >>
                IN  walk' = [walk EXCEPT
                               !.pc = IF on THEN "asking" ELSE "done",
                               !.cursor = IF on THEN CursorOf(found, page) ELSE @,
                               !.listed = @ \o page,
                               !.edges = IF on THEN @ \cup {Millisecond(page[Len(page)].at)} ELSE @]
    /\ UNCHANGED <<list, now, open, rows>>

\* Postgres refuses a LIMIT that is negative or not a number: 500.
Refused ==
    /\ walk.pc = "asking"
    /\ walk.limit # NULL => Fetched(walk.limit) < 0
    /\ walk' = [walk EXCEPT !.pc = "failed"]
    /\ UNCHANGED <<list, now, open, rows>>

-----------------------------------------------------------------------------
Next ==
    \/ Tick
    \/ BeginInsert
    \/ \E row \in open : CommitInsert(row)
    \/ \E row \in rows : Transition(row)
    \/ \E limit \in Limits, filter \in GameStatus \cup {NULL} : Ask(limit, filter)
    \/ NextPage
    \/ Refused

Spec == Init /\ [][Next]_vars

\* The client asks for the next page as long as it is given a cursor, and a
\* query returns or fails (statement_timeout).
FairSpec == Spec /\ WF_vars(NextPage \/ Refused)

-----------------------------------------------------------------------------
(* Properties *)

\* Every variable has its type.
TypeOK ==
    /\ list \in {"games", "events"}
    /\ now \in 0 .. MaxNow
    /\ open \subseteq Row /\ rows \subseteq Row
    /\ walk \in [pc: {"idle", "asking", "done", "failed"}, limit: Limits \cup {NULL},
                 filter: GameStatus \cup {NULL}, cursor: 0 .. MaxNow \cup {NULL},
                 listed: Seq(Row), steady: SUBSET (1 .. MaxRows),
                 edges: SUBSET (0 .. MaxNow)]

\* No row is listed on two pages, or twice on one, though rows are inserted and
\* change their status between two pages.
NothingTwice ==
    \A i, j \in DOMAIN walk.listed :
      i # j => walk.listed[i].id # walk.listed[j].id

\* The pages, one after the other, are in reverse chronological order.
NewestFirst == Descending(walk.listed)

\* "Stable under concurrent inserts": a finished walk has listed every row that
\* was there when it began and matched all along, but for rows of the
\* millisecond in which a page ended (the cursor cannot tell those apart).
NothingSkipped ==
    walk.pc = "done" /\ walk.limit > 0 =>
      \A row \in rows :
        row.id \in walk.steady =>
          \/ \E i \in DOMAIN walk.listed : walk.listed[i].id = row.id
          \/ Millisecond(row.at) \in walk.edges

\* A walk comes to its end: every cursor lies before the last one.
WalkEnds == walk.pc = "asking" ~> walk.pc \in {"done", "failed"}
=============================================================================
