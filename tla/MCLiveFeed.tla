----------------------------- MODULE MCLiveFeed -----------------------------
(* A small instance of LiveFeed for TLC. *)
EXTENDS LiveFeed

CONSTANTS c1, p1, s1

\* The coach starts a game, scores and ends it.
Reporting ==
    c1 :> {[kind |-> "create"], [kind |-> "transition", to |-> "active"],
           [kind |-> "transition", to |-> "final"],
           [kind |-> "submit", side |-> "home", delta |-> 2]}
=============================================================================
