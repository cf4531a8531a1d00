---------------------------- MODULE MCGameWrites ----------------------------
(* Small instances of GameWrites for TLC. *)
EXTENDS GameWrites

CONSTANTS c1, c2, p1, s1, s2, f1, f2, NULLVAL

Create == [kind |-> "create"]
Submit(side, delta) == [kind |-> "submit", side |-> side, delta |-> delta]
To(status) == [kind |-> "transition", to |-> status]
Patch(f, v) == [kind |-> "patch", patch |-> [g \in {f1, f2} |-> IF g = f THEN v ELSE NULLVAL]]

\* The coach: keeps the score and moves the status.
CoachAsks == {Create, Submit("home", 2), Submit("away", 1), Submit("none", -3),
              To("active"), To("final")}

\* The timekeeper only patches the state.
KeeperAsks == {Patch(f1, 1), Patch(f2, 2)}

CoachAndKeeper == (c1 :> CoachAsks) @@ (c2 :> KeeperAsks)

\* Two coaches who both keep the score and move the status.
TwoCoaches == (c1 :> {Create, To("active"), Submit("home", 2)})
                @@ (c2 :> {To("cancelled"), Submit("away", 3)})

\* The coach alone.
OneCoach == (c1 :> CoachAsks)

\* The servers are interchangeable (safety runs only).
ServerSymmetry == Permutations({s1, s2})
=============================================================================
