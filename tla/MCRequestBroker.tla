-------------------------- MODULE MCRequestBroker --------------------------
(* RequestBroker, for TLC. *)
EXTENDS RequestBroker, TLC

\* Workers are interchangeable: every action treats them alike.
Symmetry == Permutations(Workers)
=============================================================================
