------------------------------- MODULE MCPages -------------------------------
(* Small instances of Pages for TLC. *)
EXTENDS Pages

\* Page sizes 1 and 2 (3 is cut down to 2), a LIMIT that is 0 for games and
\* that Postgres refuses for events, and "abc".
SomeLimits == {NULL, -2, 1, 3}
=============================================================================
