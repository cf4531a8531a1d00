--------------------------- MODULE ScoreSheetProofs ---------------------------
(***************************************************************************)
(* GameWrites implements ScoreSheet when one client keeps the score: for   *)
(* any number of servers, readers and other clients, and through every     *)
(* mishap.                                                                 *)
(*                                                                         *)
(* A write is an entry on the row as it stands, because what its handler   *)
(* read is still the row (SoloInv).  A PUBLISH announces an entry, because *)
(* whatever is in a client's queue was committed (Good).  Nothing else     *)
(* touches what the sheet shows.                                           *)
(***************************************************************************)
EXTENDS GameWritesProofs

-----------------------------------------------------------------------------
\* The sheet reads the operators of GameTypes as GameWrites does.
LEMMA SameWords ==
    /\ Sheet!NewGame = NewGame /\ Sheet!NoState = NoState
    /\ Sheet!ValidTransitions = ValidTransitions
    /\ \A g, side, delta : Sheet!Scored(g, side, delta) = Scored(g, side, delta)
    /\ \A g, score : Sheet!WithScore(g, score) = WithScore(g, score)
    /\ \A g, to : Sheet!WithStatus(g, to) = WithStatus(g, to)
    /\ \A a, b : Sheet!Merge(a, b) = Merge(a, b)
<1>1. Sheet!NewGame = NewGame /\ Sheet!NoState = NoState
  BY DEF Sheet!NewGame, NewGame, Sheet!NoState, NoState
<1>2. Sheet!ValidTransitions = ValidTransitions
  BY DEF Sheet!ValidTransitions, ValidTransitions
<1>3. \A g, side, delta : Sheet!Scored(g, side, delta) = Scored(g, side, delta)
  BY DEF Sheet!Scored, Scored, Sheet!AtLeastZero, AtLeastZero
<1>4. \A g, score : Sheet!WithScore(g, score) = WithScore(g, score)
  BY DEF Sheet!WithScore, WithScore
<1>5. \A g, to : Sheet!WithStatus(g, to) = WithStatus(g, to)
  BY DEF Sheet!WithStatus, WithStatus, Sheet!Ended, Ended
<1>6. \A a, b : Sheet!Merge(a, b) = Merge(a, b)
  BY DEF Sheet!Merge, Merge
<1> QED
  BY <1>1, <1>2, <1>3, <1>4, <1>5, <1>6

\* A step shows nothing, is a write, or lets Redis execute a command.
LEMMA WhatAStepShows ==
    ASSUME [Next]_vars
    PROVE  \/ UNCHANGED <<row, state, commits, published>>
           \/ \E w \in Writers : h[w].pc = "write" /\ Write(w) /\ UNCHANGED published
           \/ \E s \in Servers : Execute(s)
BY DEF Next, vars, Handle, Read, Commit, LoseReply, Abort, Fanout, Await, Begin,
       Serve, ReadRow, Warm, Served, ReadCache, Deliver, Reply, Reconnect,
       GiveUp, Crash, FindStale, EvictGame, Expire, Age, postgres, redis

\* A write of the one score keeper, or of a client that patches, is an entry.
LEMMA WriteIsEntry ==
    ASSUME Good, SoloInv, NEW w \in Writers, h[w].pc = "write", Write(w),
           UNCHANGED published
    PROVE  Sheet!Next
<1> DEFINE req == h[w].req
<1>1. req \in Asked
  BY DEF SoloInv, AskedInv, Asked
<1>2. req.kind # "create" => row \in Game /\ row # NULL
  BY NullAssumption DEF Good, GoodProcesses, GoodHandler, GoodGame
<1>3. req.kind \in {"submit", "transition"} => h[w].seen = row /\ Accepts(row, req)
  BY DEF SoloInv
<1>4. CASE WriteEvent(w)
  <2>1. /\ req.kind = "submit" /\ h[w].seen = row
        /\ row # NULL /\ row.status = "active"
    BY <1>3, <1>4 DEF WriteEvent, Accepts
  <2>2. /\ Fits(Scored(row, req.side, req.delta))
        /\ row' = WithScore(row, Scored(row, req.side, req.delta))
        /\ commits' = Append(commits, EventMessage(row, req))
        /\ UNCHANGED state
    BY <1>4, <2>1 DEF WriteEvent, ScoreFor
  <2>3. EventMessage(row, req) =
          [n |-> Len(commits) + 1, type |-> "event_update",
           side |-> req.side, delta |-> req.delta,
           home |-> Scored(row, req.side, req.delta).home,
           away |-> Scored(row, req.side, req.delta).away,
           status |-> "active"]
    BY <2>1 DEF EventMessage, ScoreFor
  <2>4. Sheet!Submit(req)
    BY <2>1, <2>2, <2>3, SameWords DEF Sheet!Submit, Fits
  <2> QED
    BY <1>1, <2>4 DEF Sheet!Next
<1>5. CASE WriteStatus(w)
  <2>1. req.kind = "transition" /\ row # NULL /\ req.to \in ValidTransitions[row.status]
    BY <1>3, <1>5 DEF WriteStatus, Accepts
  <2>2. Sheet!Transition(req)
    BY <1>5, <2>1, SameWords DEF Sheet!Transition, WriteStatus
  <2> QED
    BY <1>1, <2>2 DEF Sheet!Next
<1>6. CASE WriteState(w)
  <2>1. Sheet!Patch(req)
    BY <1>2, <1>6, SameWords DEF Sheet!Patch, WriteState
  <2> QED
    BY <1>1, <2>1 DEF Sheet!Next
<1>7. CASE WriteGame(w)
  <2>1. Sheet!Create(req)
    BY <1>7, SameWords DEF Sheet!Create, WriteGame
  <2> QED
    BY <1>1, <2>1 DEF Sheet!Next
<1> QED
  BY <1>4, <1>5, <1>6, <1>7 DEF Write

\* A command announces one entry, or shows nothing.
LEMMA ExecuteAnnounces ==
    ASSUME Good, NEW s \in Servers, Execute(s)
    PROVE  Sheet!Announce \/ UNCHANGED Sheet!vars
<1> DEFINE cmd == out[s][done[s] + 1]
<1>1. /\ UNCHANGED <<row, state, commits>>
      /\ published' = IF cmd.op = "publish" THEN Append(published, cmd.msg) ELSE published
  BY DEF Execute, postgres
<1>2. CASE cmd.op # "publish"
  BY <1>1, <1>2 DEF Sheet!vars
<1>3. CASE cmd.op = "publish"
  <2>1. out[s] \in Seq(GoodCommand(Committed)) /\ done[s] + 1 \in 1 .. Len(out[s])
    BY LenProperties DEF Good, GoodClients, Execute
  <2>2. cmd \in GoodCommand(Committed)
    BY <2>1, ElementOfSeq
  <2>3. cmd.msg \in Committed
    BY <1>3, <2>2 DEF GoodCommand
  <2>4. PICK i \in DOMAIN commits : commits[i] = cmd.msg
    BY <2>3 DEF Committed, ToSet
  <2>5. ToSet(published') = ToSet(published) \cup {commits[i]}
    <3>1. published \in Seq(Committed)
      BY DEF Good, GoodRedis
    <3>2. published' = Append(published, commits[i])
      BY <1>1, <1>3, <2>4
    <3>3. /\ Len(published') = Len(published) + 1
          /\ \A k \in 1 .. Len(published) : published'[k] = published[k]
          /\ published'[Len(published) + 1] = commits[i]
          /\ DOMAIN published = 1 .. Len(published)
          /\ DOMAIN published' = 1 .. Len(published) + 1
          /\ Len(published) \in Nat
      <4>1. commits[i] \in Committed
        BY <2>3, <2>4
      <4>2. published' \in Seq(Committed)
        BY <3>1, <3>2, <4>1, AppendProperties
      <4> QED
        BY <3>1, <3>2, <4>1, <4>2, AppendProperties, LenProperties
    <3>4. \A k \in 1 .. Len(published) + 1 : k \in 1 .. Len(published) \/ k = Len(published) + 1
      BY <3>3
    <3> QED
      BY <3>3, <3>4 DEF ToSet
  <2> QED
    BY <1>1, <2>5 DEF Sheet!Announce
<1> QED
  BY <1>2, <1>3

LEMMA StepIsEntry == Good /\ SoloInv /\ [Next]_vars => [Sheet!Next]_Sheet!vars
<1> SUFFICES ASSUME Good, SoloInv, [Next]_vars PROVE Sheet!Next \/ UNCHANGED Sheet!vars
  OBVIOUS
<1>1. CASE UNCHANGED <<row, state, commits, published>>
  BY <1>1 DEF Sheet!vars
<1>2. CASE \E w \in Writers : h[w].pc = "write" /\ Write(w) /\ UNCHANGED published
  BY <1>2, WriteIsEntry
<1>3. CASE \E s \in Servers : Execute(s)
  BY <1>3, ExecuteAnnounces DEF Sheet!Next
<1> QED
  BY <1>1, <1>2, <1>3, WhatAStepShows

LEMMA SheetStarts == Init => Sheet!Init
BY SameWords DEF Init, Sheet!Init, ToSet

\* One score keeper: handlers, transactions, retries and crashes are invisible;
\* the game is a sheet on which entries are made one at a time.
THEOREM SoloImplementsScoreSheet == ASSUME SoloScorer PROVE Spec => ImplementsScoreSheet
<1>1. Spec => Sheet!Init
  BY SheetStarts DEF Spec
<1>2. Spec => [][Sheet!Next]_Sheet!vars
  BY SoloStart, SoloStep, StepIsEntry, Goodness, PTL DEF Spec
<1> QED
  BY <1>1, <1>2, PTL DEF ImplementsScoreSheet, Sheet!Spec
=============================================================================
