----------------------------- MODULE PagesProofs -----------------------------
(***************************************************************************)
(* Cursor pagination for any number of rows, any page size, any precision  *)
(* of the clock: what a walk lists, in which order, and what it may miss.  *)
(*                                                                         *)
(* The argument: every row listed lies at or after the cursor and the next *)
(* page strictly before it, so pages are disjoint and in order; a row that *)
(* is not on a page is either before the new cursor or of its millisecond. *)
(***************************************************************************)
EXTENDS Pages, TLAPS, FiniteSetTheorems, SequenceTheorems

-----------------------------------------------------------------------------
(* The inductive invariant *)

WalkState ==
    [pc: {"idle", "asking", "done", "failed"}, limit: Limits \cup {NULL},
     filter: GameStatus \cup {NULL}, cursor: 0 .. MaxNow \cup {NULL},
     listed: Seq(Row), steady: SUBSET (1 .. MaxRows), edges: SUBSET (0 .. MaxNow)]

Types ==
    /\ list \in {"games", "events"} /\ now \in 0 .. MaxNow
    /\ open \subseteq Row /\ rows \subseteq Row
    /\ walk \in WalkState

\* An id belongs to one row, and the next id to none.
Ids ==
    /\ IsFiniteSet(open) /\ IsFiniteSet(rows) /\ open \cap rows = {}
    /\ \A x, y \in open \cup rows : x.id = y.id => x = y
    /\ \A x \in open \cup rows : x.id <= Cardinality(open) + Cardinality(rows)

Listed(id) == \E k \in 1 .. Len(walk.listed) : walk.listed[k].id = id

\* What is listed are rows as they were; the next page starts before all of them.
Behind ==
    /\ \A k \in 1 .. Len(walk.listed) :
         \E row \in rows : row.id = walk.listed[k].id /\ row.at = walk.listed[k].at
    /\ walk.pc = "asking" /\ walk.cursor # NULL =>
         \A k \in 1 .. Len(walk.listed) : walk.listed[k].at >= walk.cursor
    /\ walk.pc = "asking" /\ walk.cursor = NULL => walk.listed = << >>

\* The rows a walk owes its client are there and match.
Owed ==
    /\ \A id \in walk.steady : \E row \in rows : row.id = id
    /\ \A row \in rows : row.id \in walk.steady => Matches(row, walk.filter)

\* Half-way, a row is listed, of a page's last millisecond, or yet to come.
ToCome ==
    walk.pc = "asking" /\ walk.limit # NULL /\ walk.limit > 0 =>
      \A row \in rows :
        row.id \in walk.steady =>
          \/ Listed(row.id)
          \/ Millisecond(row.at) \in walk.edges
          \/ AfterCursor(row, walk.cursor)

Walks == Types /\ Ids /\ Behind /\ NothingTwice /\ NewestFirst /\ Owed /\ ToCome /\ NothingSkipped

-----------------------------------------------------------------------------
(* The operators *)

\* The cursor is at or before its row, by less than a millisecond.
LEMMA MillisecondFacts ==
    ASSUME NEW t \in Nat
    PROVE  /\ Millisecond(t) \in 0 .. t
           /\ \A u \in Nat : u <= t /\ Millisecond(t) <= u => Millisecond(u) = Millisecond(t)
<1> DEFINE P == Precision  q == t \div P
<1>1. P \in Nat /\ P > 0
  BY PrecisionAssumption
<1>2. q \in Nat /\ q * P <= t /\ t < q * P + P
  BY <1>1
<1>3. ASSUME NEW u \in Nat, u <= t, q * P <= u
      PROVE  u \div P = q
  BY <1>1, <1>2, <1>3
<1> QED
  BY <1>1, <1>2, <1>3 DEF Millisecond

\* The rows of a query: in order, none twice, and those left out are the oldest.
LEMMA ResultsFacts ==
    ASSUME NEW S, IsFiniteSet(S), NEW n \in Nat, NEW s \in Results(S, n)
    PROVE  /\ s \in Seq(S) /\ Descending(s)
           /\ \A i, j \in 1 .. Len(s) : i # j => s[i] # s[j]
           /\ \A y \in S : \/ \E k \in 1 .. Len(s) : s[k] = y
                           \/ Len(s) = n /\ \A k \in 1 .. Len(s) : s[k].at >= y.at
<1>1. PICK T \in SUBSET S :
        /\ Cardinality(T) <= n
        /\ T = S \/ Cardinality(T) = n
        /\ \A x \in T, y \in S \ T : x.at >= y.at
        /\ s \in [1 .. Cardinality(T) -> T]
        /\ \A i, j \in DOMAIN s : i # j => s[i] # s[j]
        /\ Descending(s)
  BY DEF Results
<1> DEFINE m == Cardinality(T)
<1>2. IsFiniteSet(T) /\ m \in Nat
  BY FS_Subset, FS_CardinalityType
<1>3. s \in Seq(T) /\ Len(s) = m /\ DOMAIN s = 1 .. m
  BY <1>1, <1>2
<1>4. \A y \in T : \E k \in 1 .. m : s[k] = y
  <2>1. s \in Injection(1 .. m, T)
    BY <1>1, <1>3 DEF Injection, IsInjective
  <2>2. Cardinality(1 .. m) = m
    BY <1>2, FS_Interval
  <2>3. s \in Surjection(1 .. m, T)
    BY <1>2, <2>1, <2>2, FS_Injection
  <2> QED
    BY <2>3 DEF Surjection
<1> QED
  BY <1>1, <1>3, <1>4

\* slice(0, n) is a beginning, of length n where there is as much.
LEMMA SliceFacts ==
    ASSUME NEW S, NEW s \in Seq(S), NEW n \in Int
    PROVE  /\ Slice(s, n) \in Seq(S) /\ Len(Slice(s, n)) <= Len(s)
           /\ \A k \in 1 .. Len(Slice(s, n)) : Slice(s, n)[k] = s[k]
           /\ n >= 0 /\ n < Len(s) => Len(Slice(s, n)) = n
<1> DEFINE m == IF n >= 0 THEN IF n < Len(s) THEN n ELSE Len(s) ELSE Len(s) + n
<1>1. m \in Int /\ m <= Len(s) /\ Slice(s, n) = SubSeq(s, 1, m)
  BY DEF Slice
<1>2. \A k \in 1 .. m : s[k] \in S
  BY <1>1
<1>3. /\ SubSeq(s, 1, m) \in Seq(S)
      /\ Len(SubSeq(s, 1, m)) = IF 1 <= m THEN m - 1 + 1 ELSE 0
      /\ \A k \in 1 .. m - 1 + 1 : SubSeq(s, 1, m)[k] = s[1 + k - 1]
  <2> HIDE DEF m
  <2> QED
    BY <1>1, <1>2, SubSeqProperties
<1> QED
  BY <1>1, <1>3

-----------------------------------------------------------------------------
(* A page *)

Sought == {row \in rows : Matches(row, walk.filter) /\ AfterCursor(row, walk.cursor)}

\* The page is the last one.
Ends(page) ==
    /\ walk'.pc = "done" /\ walk'.cursor = walk.cursor /\ walk'.edges = walk.edges
    /\ walk.limit > 0 => \A y \in Sought : \E k \in 1 .. Len(page) : page[k] = y

\* The page has a cursor for the next one.
GoesOn(page) ==
    LET last == page[Len(page)]
    IN  /\ page # << >>
        /\ walk'.pc = "asking" /\ walk'.cursor = Millisecond(last.at)
        /\ walk'.edges = walk.edges \cup {Millisecond(last.at)}
        /\ walk.limit > 0 =>
             \A y \in Sought : (\E k \in 1 .. Len(page) : page[k] = y) \/ last.at >= y.at

IsPage(page) ==
    /\ page \in Seq(Sought) /\ Descending(page)
    /\ \A i, j \in 1 .. Len(page) : i # j => page[i] # page[j]
    /\ walk' = [walk EXCEPT !.pc = walk'.pc, !.cursor = walk'.cursor,
                            !.listed = @ \o page, !.edges = walk'.edges]
    /\ Ends(page) \/ GoesOn(page)

\* What a query and listGames or listEvents make of the rows sought.
LEMMA PageFacts ==
    ASSUME Types, Ids, NextPage
    PROVE  \E page : IsPage(page)
<1> DEFINE size == PageSize(walk.limit)
           n == Fetched(walk.limit)
<1>1. /\ walk.limit \in Int /\ walk.pc = "asking"
      /\ walk.cursor \in 0 .. MaxNow \cup {NULL}
  BY PageAssumption DEF NextPage, Types, WalkState
<1>2. /\ size \in Int /\ n \in Nat /\ size < n
      /\ walk.limit > 0 => size > 0
  BY <1>1, PageAssumption DEF PageSize, Fetched, NextPage
<1>3. IsFiniteSet(Sought)
  <2>1. Sought \subseteq rows
    BY DEF Sought
  <2> QED
    BY <2>1, FS_Subset DEF Ids
<1> DEFINE page(found) == IF Len(found) > size THEN Slice(found, size) ELSE found
           on(found) == Len(found) > size /\ page(found) # << >>
<1>4. PICK found \in Results(Sought, n) :
        walk' = [walk EXCEPT
                   !.pc = IF on(found) THEN "asking" ELSE "done",
                   !.cursor = IF on(found) THEN CursorOf(found, page(found)) ELSE @,
                   !.listed = @ \o page(found),
                   !.edges = IF on(found)
                               THEN @ \cup {Millisecond(page(found)[Len(page(found))].at)}
                               ELSE @]
  BY DEF NextPage, Sought
<1> DEFINE p == page(found)
<1>5. /\ found \in Seq(Sought) /\ Descending(found)
      /\ \A i, j \in 1 .. Len(found) : i # j => found[i] # found[j]
      /\ \A y \in Sought : \/ \E k \in 1 .. Len(found) : found[k] = y
                           \/ Len(found) = n /\ \A k \in 1 .. Len(found) : found[k].at >= y.at
  <2> HIDE DEF n
  <2> QED
    BY <1>2, <1>3, <1>4, ResultsFacts
<1>6. /\ p \in Seq(Sought) /\ Len(p) <= Len(found)
      /\ \A k \in 1 .. Len(p) : p[k] = found[k]
      /\ Len(found) <= size => p = found
      /\ size > 0 /\ Len(found) > size => Len(p) = size
  <2> HIDE DEF size
  <2>1. /\ Slice(found, size) \in Seq(Sought) /\ Len(Slice(found, size)) <= Len(found)
        /\ \A k \in 1 .. Len(Slice(found, size)) : Slice(found, size)[k] = found[k]
        /\ size >= 0 /\ size < Len(found) => Len(Slice(found, size)) = size
    BY <1>2, <1>5, SliceFacts
  <2>2. CASE Len(found) > size
    <3>1. p = Slice(found, size)
      BY <2>2
    <3>2. Len(found) \in Nat
      BY <1>5
    <3> QED
      BY <1>2, <2>1, <2>2, <3>1, <3>2
  <2>3. CASE ~(Len(found) > size)
    <3>1. p = found
      BY <2>3
    <3>2. Len(found) \in Nat
      BY <1>5
    <3> QED
      BY <1>2, <1>5, <2>3, <3>1, <3>2
  <2> QED
    BY <2>2, <2>3
<1>7. /\ walk'.pc = IF on(found) THEN "asking" ELSE "done"
      /\ walk'.cursor = IF on(found) THEN Millisecond(p[Len(p)].at) ELSE walk.cursor
      /\ walk'.edges = IF on(found) THEN walk.edges \cup {Millisecond(p[Len(p)].at)} ELSE walk.edges
      /\ walk' = [walk EXCEPT !.pc = walk'.pc, !.cursor = walk'.cursor,
                              !.listed = @ \o p, !.edges = walk'.edges]
  <2> HIDE DEF page, on
  <2> QED
    BY <1>4 DEF CursorOf, Types, WalkState
<1> HIDE DEF size, n, page
<1>8. /\ Descending(p) /\ \A i, j \in 1 .. Len(p) : i # j => p[i] # p[j]
  <2>1. DOMAIN p = 1 .. Len(p) /\ DOMAIN found = 1 .. Len(found)
        /\ Len(p) \in Nat /\ Len(found) \in Nat
    BY <1>5, <1>6
  <2>2. 1 .. Len(p) \subseteq 1 .. Len(found)
    BY <1>6, <2>1
  <2> QED
    BY <1>5, <1>6, <2>1, <2>2 DEF Descending
<1>9. CASE ~on(found)
  <2>1. walk.limit > 0 => Len(found) <= size
    BY <1>2, <1>5, <1>6, <1>9
  <2>2. walk.limit > 0 => \A y \in Sought : \E k \in 1 .. Len(p) : p[k] = y
    BY <1>2, <1>5, <1>6, <2>1
  <2> HIDE DEF on
  <2> QED
    BY <1>6, <1>7, <1>8, <1>9, <2>2 DEF IsPage, Ends
<1>10. CASE on(found)
  <2>1. p # << >> /\ Len(found) > size /\ Len(p) \in 1 .. Len(found)
    BY <1>5, <1>6, <1>10
  <2>2. ASSUME walk.limit > 0, NEW y \in Sought, ~\E k \in 1 .. Len(p) : p[k] = y
        PROVE  p[Len(p)].at >= y.at
    <3>1. CASE \E k \in 1 .. Len(found) : found[k] = y
      <4> PICK k \in 1 .. Len(found) : found[k] = y
        BY <3>1
      <4>1. Len(p) < k
        BY <1>5, <1>6, <2>1, <2>2
      <4> QED
        BY <1>5, <1>6, <2>1, <4>1 DEF Descending
    <3>2. CASE \A k \in 1 .. Len(found) : found[k].at >= y.at
      BY <1>6, <2>1, <3>2
    <3> QED
      BY <1>5, <3>1, <3>2
  <2> HIDE DEF on
  <2> QED
    BY <1>6, <1>7, <1>8, <1>10, <2>1, <2>2 DEF IsPage, GoesOn
<1> QED
  BY <1>9, <1>10

-----------------------------------------------------------------------------
(* The steps *)

LEMMA WalksInit ==
    ASSUME Init
    PROVE  Walks
<1>1. walk.listed = << >> /\ walk.pc = "idle" /\ walk.steady = {}
  BY DEF Init, NoWalk
<1>2. Types
  BY BoundsAssumption DEF Init, NoWalk, Types, WalkState, GameStatus
<1>3. Ids
  BY FS_EmptySet DEF Init, Ids
<1> QED
  BY <1>1, <1>2, <1>3 DEF Init, NoWalk, Walks, Behind, NothingTwice, NewestFirst, Descending,
                         Owed, ToCome, NothingSkipped

\* A step that the reader does not see.
LEMMA UnseenKeepsWalks ==
    ASSUME Walks, UNCHANGED <<rows, walk>>, Types', Ids'
    PROVE  Walks'
  BY DEF Walks, Behind, Listed, NothingTwice, NewestFirst, Descending, Owed, ToCome,
         NothingSkipped, Matches, AfterCursor, Millisecond

LEMMA BeginKeepsWalks ==
    ASSUME Walks, BeginInsert
    PROVE  Walks'
<1> DEFINE n == Cardinality(open) + Cardinality(rows)
           new == [id |-> n + 1, at |-> now, status |-> "scheduled"]
<1>1. /\ n \in Nat /\ n + 1 <= MaxRows
      /\ open' = open \cup {new} /\ UNCHANGED <<list, now, rows, walk>>
  BY FS_CardinalityType DEF BeginInsert, Walks, Ids
<1>2. new \in Row /\ new.id = n + 1
  BY <1>1, BoundsAssumption DEF Row, GameStatus, Walks, Types
<1>3. \A x \in open \cup rows : x.id \in Nat /\ x.id <= n
  BY DEF Walks, Ids, Types, Row
<1>4. new \notin open \cup rows
  BY <1>1, <1>2, <1>3
<1>5. Cardinality(open') = Cardinality(open) + 1 /\ IsFiniteSet(open')
  BY <1>1, <1>4, FS_AddElement DEF Walks, Ids
<1>6. Ids'
  <2>1. \A x \in open' \cup rows' : x.id <= n + 1
    BY <1>1, <1>2, <1>3
  <2>2. Cardinality(open') + Cardinality(rows') = n + 1
    BY <1>1, <1>5, FS_CardinalityType DEF Walks, Ids
  <2> HIDE DEF n, new
  <2>3. \A x, y \in open' \cup rows' : x.id = y.id => x = y
    BY <1>1, <1>2, <1>3 DEF Walks, Ids
  <2>4. IsFiniteSet(rows') /\ open' \cap rows' = {}
    BY <1>1, <1>4 DEF Walks, Ids
  <2> QED
    BY <1>5, <2>1, <2>2, <2>3, <2>4 DEF Ids
<1>7. Types'
  BY <1>1, <1>2 DEF Walks, Types
<1> QED
  BY <1>1, <1>6, <1>7, UnseenKeepsWalks

\* A row appears that the walk owes to nobody.
LEMMA CommitKeepsWalks ==
    ASSUME Walks, NEW row \in open, CommitInsert(row)
    PROVE  Walks'
<1>1. open' = open \ {row} /\ rows' = rows \cup {row} /\ UNCHANGED <<list, now, walk>>
  BY DEF CommitInsert
<1>2. row \notin rows /\ \A x \in rows : x.id # row.id
  BY DEF Walks, Ids
<1>3. Ids'
  <2>1. IsFiniteSet(open') /\ IsFiniteSet(rows')
        /\ Cardinality(open') = Cardinality(open) - 1
        /\ Cardinality(rows') = Cardinality(rows) + 1
    BY <1>1, <1>2, FS_AddElement, FS_RemoveElement DEF Walks, Ids
  <2>2. Cardinality(open') + Cardinality(rows') = Cardinality(open) + Cardinality(rows)
    BY <2>1, FS_CardinalityType DEF Walks, Ids
  <2>3. open' \cup rows' = open \cup rows /\ open' \cap rows' = {}
    BY <1>1 DEF Walks, Ids
  <2> QED
    BY <2>1, <2>2, <2>3 DEF Walks, Ids
<1>4. Types'
  BY <1>1 DEF Walks, Types
<1>5. row.id \notin walk.steady
  BY <1>2 DEF Walks, Owed
<1>6. Behind' /\ Owed'
  BY <1>1, <1>5 DEF Walks, Behind, Owed, Matches
<1>7. ToCome' /\ NothingSkipped'
  BY <1>1, <1>5 DEF Walks, ToCome, NothingSkipped, Listed, AfterCursor, Millisecond
<1> QED
  BY <1>1, <1>3, <1>4, <1>6, <1>7 DEF Walks, NothingTwice, NewestFirst, Descending

\* A row changes its status, and keeps its id and its instant.
LEMMA TransitionKeepsWalks ==
    ASSUME Walks, NEW row \in rows, Transition(row)
    PROVE  Walks'
<1> DEFINE new == [row EXCEPT !.status = "active"]
           steady == IF walk.filter = NULL THEN walk.steady ELSE walk.steady \ {row.id}
<1>1. /\ rows' = (rows \ {row}) \cup {new} /\ walk' = [walk EXCEPT !.steady = steady]
      /\ UNCHANGED <<list, now, open>>
  BY DEF Transition, Walks, Types, WalkState
<1>2. new \in Row /\ new.id = row.id /\ new.at = row.at /\ new # row
  BY DEF Transition, Walks, Types, Row, GameStatus
<1>3. new \notin open /\ new \notin rows
  BY <1>2 DEF Walks, Ids
<1> HIDE DEF new
<1>4. Ids'
  <2>1. IsFiniteSet(rows') /\ Cardinality(rows') = Cardinality(rows)
    <3>1. IsFiniteSet(rows \ {row}) /\ Cardinality(rows \ {row}) = Cardinality(rows) - 1
      BY FS_RemoveElement DEF Walks, Ids
    <3>2. IsFiniteSet(rows') /\ Cardinality(rows') = Cardinality(rows \ {row}) + 1
      BY <1>1, <1>3, <3>1, FS_AddElement
    <3> QED
      BY <3>1, <3>2, FS_CardinalityType DEF Walks, Ids
  <2>2. \A x \in open' \cup rows' :
          \E y \in open \cup rows : y.id = x.id /\ (x = new \/ x = y) /\ (x = new => y = row)
    BY <1>1, <1>2
  <2>3. \A x, y \in open' \cup rows' : x.id = y.id => x = y
    <3>1. \A x \in open' \cup rows' : x = new \/ (x \in open \cup rows /\ x # row)
      BY <1>1 DEF Walks, Ids
    <3> QED
      BY <1>2, <3>1 DEF Walks, Ids
  <2>4. \A x \in open' \cup rows' : x.id <= Cardinality(open) + Cardinality(rows)
    BY <2>2 DEF Walks, Ids
  <2>5. open' \cap rows' = {}
    BY <1>1, <1>3 DEF Walks, Ids
  <2> QED
    BY <1>1, <2>1, <2>3, <2>4, <2>5 DEF Walks, Ids
<1>5. /\ walk'.steady = steady /\ walk'.listed = walk.listed /\ walk'.pc = walk.pc
      /\ walk'.cursor = walk.cursor /\ walk'.filter = walk.filter /\ walk'.edges = walk.edges
      /\ walk'.limit = walk.limit
  BY <1>1 DEF Walks, Types, WalkState
<1>6. steady \subseteq walk.steady /\ (walk.filter # NULL => row.id \notin steady)
  OBVIOUS
<1>7. Types'
  <2>1. walk' \in WalkState
    BY <1>1, <1>6 DEF Walks, Types, WalkState
  <2> QED
    BY <1>1, <1>2, <2>1 DEF Walks, Types
<1> HIDE DEF steady
<1>8. Behind'
  BY <1>1, <1>2, <1>5 DEF Walks, Behind
<1>9. Owed'
  BY <1>1, <1>2, <1>5, <1>6 DEF Walks, Owed, Matches
<1>10. \A x \in rows' : \E y \in rows : x.id = y.id /\ x.at = y.at
  BY <1>1, <1>2
<1>11. ToCome'
  <2> SUFFICES ASSUME walk'.pc = "asking", walk'.limit # NULL, walk'.limit > 0,
                      NEW x \in rows', x.id \in walk'.steady
               PROVE  Listed(x.id)' \/ Millisecond(x.at) \in walk'.edges
                        \/ AfterCursor(x, walk'.cursor)
    BY DEF ToCome, Listed, AfterCursor, Millisecond
  <2> PICK y \in rows : x.id = y.id /\ x.at = y.at
    BY <1>10
  <2>1. Listed(y.id) \/ Millisecond(y.at) \in walk.edges \/ AfterCursor(y, walk.cursor)
    BY <1>5, <1>6 DEF Walks, ToCome
  <2> QED
    BY <1>5, <2>1 DEF Listed, AfterCursor
<1>12. NothingSkipped'
  <2> SUFFICES ASSUME walk'.pc = "done", walk'.limit > 0,
                      NEW x \in rows', x.id \in walk'.steady
               PROVE  (\E k \in DOMAIN walk'.listed : walk'.listed[k].id = x.id)
                        \/ Millisecond(x.at) \in walk'.edges
    BY DEF NothingSkipped, Millisecond
  <2> PICK y \in rows : x.id = y.id /\ x.at = y.at
    BY <1>10
  <2> QED
    BY <1>5, <1>6 DEF Walks, NothingSkipped
<1> QED
  BY <1>4, <1>5, <1>7, <1>8, <1>9, <1>11, <1>12 DEF Walks, NothingTwice, NewestFirst, Descending

LEMMA AskKeepsWalks ==
    ASSUME Walks, NEW limit \in Limits, NEW filter \in GameStatus \cup {NULL}, Ask(limit, filter)
    PROVE  Walks'
<1> DEFINE steady == {row.id : row \in {x \in rows : Matches(x, filter)}}
<1>1. /\ walk' = [NoWalk EXCEPT !.pc = "asking", !.limit = limit, !.filter = filter,
                                !.steady = steady]
      /\ UNCHANGED <<list, now, open, rows>>
  BY DEF Ask
<1>2. steady \subseteq 1 .. MaxRows
  BY DEF Walks, Types, Row
<1>3. /\ \A id \in steady : \E row \in rows : row.id = id
      /\ \A row \in rows : row.id \in steady => Matches(row, filter)
  BY DEF Walks, Ids
<1> HIDE DEF steady
<1>4. /\ walk'.pc = "asking" /\ walk'.listed = << >> /\ walk'.cursor = NULL
      /\ walk'.filter = filter /\ walk'.steady = steady /\ walk' \in WalkState
  <2>1. walk' = [pc |-> "asking", limit |-> limit, filter |-> filter, cursor |-> NULL,
                 listed |-> << >>, steady |-> steady, edges |-> {}]
    BY <1>1 DEF NoWalk
  <2> QED
    BY <1>2, <2>1 DEF WalkState
<1>5. Types' /\ Ids'
  BY <1>1, <1>4 DEF Walks, Types, Ids
<1>6. Behind' /\ NothingTwice' /\ NewestFirst' /\ NothingSkipped'
  BY <1>4 DEF Behind, NothingTwice, NewestFirst, Descending, NothingSkipped
<1>7. Owed'
  BY <1>1, <1>3, <1>4 DEF Owed, Matches
<1>8. ToCome'
  BY <1>4 DEF ToCome, AfterCursor
<1> QED
  BY <1>5, <1>6, <1>7, <1>8 DEF Walks

LEMMA RefusedKeepsWalks ==
    ASSUME Walks, Refused
    PROVE  Walks'
<1>1. /\ walk' = [walk EXCEPT !.pc = "failed"] /\ UNCHANGED <<list, now, open, rows>>
      /\ walk' \in WalkState
  BY DEF Refused, Walks, Types, WalkState
<1>2. /\ walk'.pc = "failed" /\ walk'.listed = walk.listed /\ walk'.cursor = walk.cursor
      /\ walk'.steady = walk.steady /\ walk'.filter = walk.filter
  BY <1>1 DEF Walks, Types, WalkState
<1>3. Types' /\ Ids'
  BY <1>1 DEF Walks, Types, Ids
<1>4. Behind' /\ Owed'
  BY <1>1, <1>2 DEF Walks, Behind, Owed, Matches
<1>5. NothingTwice' /\ NewestFirst'
  BY <1>2 DEF Walks, NothingTwice, NewestFirst, Descending
<1> QED
  BY <1>2, <1>3, <1>4, <1>5 DEF Walks, ToCome, NothingSkipped

\* A page is strictly before the cursor, what was listed is not.
LEMMA NextPageKeepsWalks ==
    ASSUME Walks, NextPage
    PROVE  Walks'
<1>1. PICK page : IsPage(page)
  BY PageFacts DEF Walks
<1> DEFINE old == walk.listed
           new == old \o page
           last == page[Len(page)]
<1>2. /\ walk.pc = "asking" /\ walk.limit \in Int /\ walk.limit # NULL
      /\ UNCHANGED <<list, now, open, rows>>
      /\ rows \subseteq Row
      /\ walk.cursor \in 0 .. MaxNow \cup {NULL}
      /\ old \in Seq(Row)
  BY PageAssumption, BoundsAssumption DEF NextPage, Walks, Types, WalkState
<1>3. page \in Seq(rows) /\ page \in Seq(Row)
      /\ \A k \in 1 .. Len(page) : page[k] \in Sought
  BY <1>1, <1>2 DEF IsPage, Sought
<1>4. \A k \in 1 .. Len(page) :
        /\ page[k] \in rows /\ page[k].at \in 0 .. MaxNow
        /\ walk.cursor # NULL => page[k].at < walk.cursor
  BY <1>2, <1>3 DEF Sought, AfterCursor, Row
<1>5. /\ new \in Seq(Row) /\ Len(new) = Len(old) + Len(page)
      /\ \A k \in 1 .. Len(old) : new[k] = old[k]
      /\ \A k \in 1 .. Len(page) : new[Len(old) + k] = page[k]
      /\ \A k \in 1 .. Len(new) :
           \/ k \in 1 .. Len(old)
           \/ k > Len(old) /\ \E l \in 1 .. Len(page) : k = Len(old) + l
  <2> HIDE DEF old
  <2>1. /\ new \in Seq(Row) /\ Len(new) = Len(old) + Len(page)
        /\ \A k \in 1 .. Len(old) : new[k] = old[k]
        /\ \A k \in 1 .. Len(page) : new[Len(old) + k] = page[k]
    BY <1>2, <1>3
  <2>2. ASSUME NEW k \in 1 .. Len(new), k \notin 1 .. Len(old)
        PROVE  k > Len(old) /\ k - Len(old) \in 1 .. Len(page) /\ k = Len(old) + (k - Len(old))
    <3>1. Len(old) \in Nat /\ Len(page) \in Nat
      BY <1>2, <1>3
    <3> HIDE DEF new
    <3> QED
      BY <2>1, <2>2, <3>1
  <2> QED
    BY <2>1, <2>2
<1>6. /\ walk'.listed = new /\ walk'.limit = walk.limit /\ walk'.filter = walk.filter
      /\ walk'.steady = walk.steady
  BY <1>1 DEF IsPage, Walks, Types, WalkState
<1>7. ASSUME GoesOn(page)
      PROVE  /\ last \in rows /\ last.at \in 0 .. MaxNow /\ walk'.cursor = Millisecond(last.at)
             /\ walk'.cursor \in 0 .. last.at
             /\ Len(page) \in 1 .. Len(page)
  <2>1. Len(page) \in 1 .. Len(page)
    BY <1>3, <1>7 DEF GoesOn
  <2>2. last \in rows /\ last.at \in 0 .. MaxNow
    BY <1>4, <2>1
  <2>3. Millisecond(last.at) \in 0 .. last.at
    BY <2>2, MillisecondFacts, BoundsAssumption
  <2> QED
    BY <1>7, <2>1, <2>2, <2>3 DEF GoesOn
<1>8. Ends(page) \/ GoesOn(page)
  BY <1>1 DEF IsPage
<1> HIDE DEF new, old, last
<1>9. Types'
  <2>1. walk'.pc \in {"asking", "done"} /\ walk'.cursor \in 0 .. MaxNow \cup {NULL}
        /\ walk'.edges \in SUBSET (0 .. MaxNow)
    <3>1. CASE Ends(page)
      BY <1>2, <3>1 DEF Ends, Walks, Types, WalkState
    <3>2. CASE GoesOn(page)
      BY <1>7, <3>2, BoundsAssumption DEF GoesOn, Walks, Types, WalkState, last
    <3> QED
      BY <1>8, <3>1, <3>2
  <2>2. walk' = [walk EXCEPT !.pc = walk'.pc, !.cursor = walk'.cursor,
                             !.listed = new, !.edges = walk'.edges]
    BY <1>1 DEF IsPage, new, old
  <2>3. walk' \in WalkState
    BY <1>5, <2>1, <2>2 DEF Walks, Types, WalkState
  <2> QED
    BY <1>2, <2>3 DEF Walks, Types
<1>10. Ids' /\ Owed'
  BY <1>2, <1>6 DEF Walks, Ids, Owed, Matches
<1>11. /\ \A k \in 1 .. Len(old) :
            /\ \E row \in rows : row.id = old[k].id /\ row.at = old[k].at
            /\ old[k].at \in 0 .. MaxNow
       /\ Len(old) > 0 => walk.cursor # NULL
       /\ walk.cursor # NULL => \A k \in 1 .. Len(old) : old[k].at >= walk.cursor
  <2>1. \A k \in 1 .. Len(old) : \E row \in rows : row.id = old[k].id /\ row.at = old[k].at
    BY DEF Walks, Behind, old
  <2>2. \A row \in rows : row.at \in 0 .. MaxNow
    BY <1>2 DEF Row
  <2>3. \A k \in 1 .. Len(old) : old[k].at \in 0 .. MaxNow
    BY <2>1, <2>2
  <2>4. Len(old) > 0 => walk.cursor # NULL
    BY <1>2 DEF Walks, Behind, old
  <2>5. walk.cursor # NULL => \A k \in 1 .. Len(old) : old[k].at >= walk.cursor
    BY <1>2 DEF Walks, Behind, old
  <2> QED
    BY <2>1, <2>3, <2>4, <2>5
\* A page lies before everything listed, and every row has one id.
<1>12. \A i \in 1 .. Len(old), j \in 1 .. Len(page) :
         page[j].at < old[i].at /\ page[j].id # old[i].id
  <2> SUFFICES ASSUME NEW i \in 1 .. Len(old), NEW j \in 1 .. Len(page)
               PROVE  page[j].at < old[i].at /\ page[j].id # old[i].id
    OBVIOUS
  <2>1. walk.cursor # NULL /\ walk.cursor \in Int
    BY <1>2, <1>11
  <2>2. page[j].at < old[i].at
    BY <1>4, <1>11, <2>1
  <2>3. PICK row \in rows : row.id = old[i].id /\ row.at = old[i].at
    BY <1>11
  <2>4. page[j].id = row.id => page[j] = row
    BY <1>4 DEF Walks, Ids
  <2>5. page[j].at # row.at
    BY <1>4, <1>11, <2>2, <2>3
  <2> QED
    BY <2>2, <2>3, <2>4, <2>5
<1>13. NothingTwice'
  <2>1. \A i, j \in 1 .. Len(page) : i # j => page[i].id # page[j].id
    BY <1>1, <1>4 DEF IsPage, Walks, Ids
  <2>2. \A i, j \in 1 .. Len(old) : i # j => old[i].id # old[j].id
    BY <1>2 DEF Walks, NothingTwice, old
  <2>3. Len(old) \in Nat /\ Len(page) \in Nat /\ DOMAIN new = 1 .. Len(new)
    BY <1>2, <1>3, <1>5
  <2> SUFFICES ASSUME NEW i \in 1 .. Len(new), NEW j \in 1 .. Len(new), i # j
               PROVE  new[i].id # new[j].id
    BY <1>6, <2>3 DEF NothingTwice
  <2>4. CASE i \in 1 .. Len(old) /\ j \in 1 .. Len(old)
    BY <1>5, <2>2, <2>4
  <2>5. CASE i \in 1 .. Len(old) /\ j \notin 1 .. Len(old)
    <3> PICK l \in 1 .. Len(page) : j = Len(old) + l
      BY <1>5, <2>5
    <3> QED
      BY <1>5, <1>12, <2>5
  <2>6. CASE i \notin 1 .. Len(old) /\ j \in 1 .. Len(old)
    <3> PICK l \in 1 .. Len(page) : i = Len(old) + l
      BY <1>5, <2>6
    <3> QED
      BY <1>5, <1>12, <2>6
  <2>7. CASE i \notin 1 .. Len(old) /\ j \notin 1 .. Len(old)
    <3> PICK k \in 1 .. Len(page), l \in 1 .. Len(page) : i = Len(old) + k /\ j = Len(old) + l
      BY <1>5, <2>7
    <3> QED
      BY <1>5, <2>1
  <2> QED
    BY <2>4, <2>5, <2>6, <2>7
<1>14. NewestFirst'
  <2>1. \A i, j \in 1 .. Len(page) : i < j => page[i].at >= page[j].at
    BY <1>1, <1>3 DEF IsPage, Descending
  <2>2. \A i, j \in 1 .. Len(old) : i < j => old[i].at >= old[j].at
    BY <1>2 DEF Walks, NewestFirst, Descending, old
  <2>3. Len(old) \in Nat /\ Len(page) \in Nat /\ DOMAIN new = 1 .. Len(new)
    BY <1>2, <1>3, <1>5
  <2> SUFFICES ASSUME NEW i \in 1 .. Len(new), NEW j \in 1 .. Len(new), i < j
               PROVE  new[i].at >= new[j].at
    BY <1>6, <2>3 DEF NewestFirst, Descending
  <2>4. CASE i \in 1 .. Len(old) /\ j \in 1 .. Len(old)
    BY <1>5, <2>2, <2>4
  <2>5. CASE i \in 1 .. Len(old) /\ j \notin 1 .. Len(old)
    <3> PICK l \in 1 .. Len(page) : j = Len(old) + l
      BY <1>5, <2>5
    <3>1. new[i] = old[i] /\ new[j] = page[l] /\ page[l].at < old[i].at
      BY <1>5, <1>12, <2>5
    <3>2. page[l].at \in Int /\ old[i].at \in Int
      BY <1>4, <1>11, <2>5
    <3> QED
      BY <3>1, <3>2
  <2>6. CASE i \notin 1 .. Len(old)
    <3>1. i > Len(old) /\ j > Len(old)
      BY <1>5, <2>3, <2>6
    <3>a. i \notin 1 .. Len(old) /\ j \notin 1 .. Len(old)
      BY <2>3, <3>1
    <3> PICK k \in 1 .. Len(page) : i = Len(old) + k
      BY <1>5, <3>a
    <3> PICK l \in 1 .. Len(page) : j = Len(old) + l
      BY <1>5, <3>a
    <3>2. k < l /\ new[i] = page[k] /\ new[j] = page[l]
      BY <1>5, <2>3
    <3> QED
      BY <2>1, <3>2
  <2> QED
    BY <2>4, <2>5, <2>6
<1>15. Behind'
  <2>1. \A k \in 1 .. Len(new) : \E row \in rows : row.id = new[k].id /\ row.at = new[k].at
    BY <1>4, <1>5, <1>11
  <2>2. CASE Ends(page)
    BY <1>2, <1>6, <2>1, <2>2 DEF Ends, Behind
  <2>3. CASE GoesOn(page)
    <3>1. \A k \in 1 .. Len(page) : page[k].at >= last.at
      BY <1>1, <1>3, <1>4, <1>7, <2>3 DEF IsPage, Descending, last
    <3>2. \A k \in 1 .. Len(old) : old[k].at >= last.at
      <4>1. Len(page) \in 1 .. Len(page)
        BY <1>7, <2>3
      <4>2. \A k \in 1 .. Len(old) : last.at < old[k].at
        BY <1>12, <4>1 DEF last
      <4>3. \A k \in 1 .. Len(old) : old[k].at \in Int /\ last.at \in Int
        BY <1>7, <1>11, <2>3
      <4> QED
        BY <4>2, <4>3
    <3>3. \A k \in 1 .. Len(new) : new[k].at >= last.at /\ new[k].at \in Nat
      <4>1. ASSUME NEW k \in 1 .. Len(new), k \in 1 .. Len(old)
            PROVE  new[k].at >= last.at /\ new[k].at \in Nat
        BY <1>5, <1>11, <3>2, <4>1, BoundsAssumption
      <4>2. ASSUME NEW k \in 1 .. Len(new), k \notin 1 .. Len(old)
            PROVE  new[k].at >= last.at /\ new[k].at \in Nat
        <5> PICK l \in 1 .. Len(page) : k = Len(old) + l
          BY <1>5, <4>2
        <5>1. new[k] = page[l]
          BY <1>5
        <5> QED
          BY <1>4, <3>1, <5>1, BoundsAssumption
      <4> QED
        BY <4>1, <4>2
    <3>4. /\ walk'.cursor # NULL
          /\ \A k \in 1 .. Len(new) : new[k].at >= walk'.cursor
      BY <1>7, <2>3, <3>3, BoundsAssumption
    <3> QED
      BY <1>2, <1>6, <2>1, <3>4 DEF Behind
  <2> QED
    BY <1>8, <2>2, <2>3
\* What has become of a row that is owed.
<1>16. ASSUME NEW row \in rows, row.id \in walk.steady, walk.limit > 0
       PROVE  \/ Listed(row.id)'
              \/ Millisecond(row.at) \in walk'.edges
              \/ GoesOn(page) /\ AfterCursor(row, walk'.cursor)
  <2>1. walk.edges \subseteq walk'.edges
    BY <1>8 DEF Ends, GoesOn
  <2>2. Listed(row.id) => Listed(row.id)'
    BY <1>2, <1>3, <1>5, <1>6 DEF Listed, old
  <2>3. ASSUME NEW k \in 1 .. Len(page), page[k] = row
        PROVE  Listed(row.id)'
    <3>1. Len(old) + k \in 1 .. Len(new) /\ new[Len(old) + k] = row
      BY <1>2, <1>3, <1>5, <2>3
    <3> QED
      BY <1>6, <3>1 DEF Listed
  <2>4. ASSUME AfterCursor(row, walk.cursor)
        PROVE  \/ \E k \in 1 .. Len(page) : page[k] = row
               \/ GoesOn(page) /\ last.at >= row.at
    <3>1. row \in Sought
      BY <1>16, <2>4 DEF Sought, Walks, Owed
    <3> QED
      BY <1>8, <1>16, <3>1 DEF Ends, GoesOn, last
  <2>5. ASSUME GoesOn(page), last.at >= row.at
        PROVE  AfterCursor(row, walk'.cursor) \/ Millisecond(row.at) \in walk'.edges
    <3>1. row.at \in Nat /\ last.at \in Nat
      BY <1>2, <1>7, <2>5, BoundsAssumption DEF Row
    <3>2. CASE row.at < walk'.cursor
      BY <3>2 DEF AfterCursor
    <3>3. CASE Millisecond(last.at) <= row.at
      BY <2>5, <3>1, <3>3, MillisecondFacts DEF GoesOn, last
    <3> QED
      BY <1>7, <2>5, <3>1, <3>2, <3>3
  <2>6. \/ Listed(row.id) \/ Millisecond(row.at) \in walk.edges
        \/ AfterCursor(row, walk.cursor)
    BY <1>2, <1>16 DEF Walks, ToCome
  <2> QED
    BY <2>1, <2>2, <2>3, <2>4, <2>5, <2>6
<1>17. ToCome'
  <2> SUFFICES ASSUME walk'.pc = "asking", walk'.limit # NULL, walk'.limit > 0,
                      NEW row \in rows', row.id \in walk'.steady
               PROVE  Listed(row.id)' \/ Millisecond(row.at) \in walk'.edges
                        \/ AfterCursor(row, walk'.cursor)
    BY DEF ToCome, Listed, AfterCursor, Millisecond
  <2> QED
    BY <1>2, <1>6, <1>16
<1>18. NothingSkipped'
  <2> SUFFICES ASSUME walk'.pc = "done", walk'.limit > 0,
                      NEW row \in rows', row.id \in walk'.steady
               PROVE  (\E k \in DOMAIN walk'.listed : walk'.listed[k].id = row.id)
                        \/ Millisecond(row.at) \in walk'.edges
    BY DEF NothingSkipped, Millisecond
  <2>1. ~GoesOn(page)
    BY DEF GoesOn
  <2>2. Listed(row.id)' \/ Millisecond(row.at) \in walk'.edges
    BY <1>2, <1>6, <1>16, <2>1
  <2> QED
    BY <1>5, <1>6, <2>2 DEF Listed
<1> QED
  BY <1>9, <1>10, <1>13, <1>14, <1>15, <1>17, <1>18 DEF Walks

LEMMA WalksNext ==
    ASSUME Walks, [Next]_vars
    PROVE  Walks'
<1>1. ASSUME UNCHANGED vars
      PROVE  Walks'
  BY <1>1, UnseenKeepsWalks DEF vars, Walks, Types, Ids
<1>2. ASSUME Tick
      PROVE  Walks'
  BY <1>2, UnseenKeepsWalks, BoundsAssumption DEF Tick, Walks, Types, Ids
<1> QED
  BY <1>1, <1>2, BeginKeepsWalks, CommitKeepsWalks, TransitionKeepsWalks, AskKeepsWalks,
     RefusedKeepsWalks, NextPageKeepsWalks DEF Next

-----------------------------------------------------------------------------
(* The theorems *)

\* The inductive invariant, for any page size, clock and number of rows.
THEOREM WalksAreSound == Spec => []Walks
<1>1. Init => Walks
  BY WalksInit
<1>2. Walks /\ [Next]_vars => Walks'
  BY WalksNext
<1> QED
  BY <1>1, <1>2, PTL DEF Spec

\* The state of writers and reader keeps its type.
THEOREM TypeCorrectness == Spec => []TypeOK
<1>1. Walks => TypeOK
  BY DEF Walks, Types, TypeOK, WalkState
<1> QED
  BY <1>1, WalksAreSound, PTL

\* Whatever is inserted or changed between two queries, the strict comparison
\* with the cursor keeps a row from being listed twice.
THEOREM NoRowTwice == Spec => []NothingTwice
<1>1. Walks => NothingTwice
  BY DEF Walks
<1> QED
  BY <1>1, WalksAreSound, PTL

\* The pages are in one order, though each is a query of its own.
THEOREM PagesAreInOrder == Spec => []NewestFirst
<1>1. Walks => NewestFirst
  BY DEF Walks
<1> QED
  BY <1>1, WalksAreSound, PTL

\* A finished walk has missed nothing but rows of the very millisecond in which
\* a page ended.
THEOREM OnlyEdgesAreSkipped == Spec => []NothingSkipped
<1>1. Walks => NothingSkipped
  BY DEF Walks
<1> QED
  BY <1>1, WalksAreSound, PTL
=============================================================================
