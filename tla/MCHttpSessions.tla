--------------------------- MODULE MCHttpSessions ---------------------------
(* HttpSessions, for TLC. *)
EXTENDS HttpSessions, TLC

\* Requests are interchangeable, and so are ids: every action treats them alike.
Symmetry == Permutations(Requests) \cup Permutations(Ids)
=============================================================================
