----------------------------- MODULE MCSession -----------------------------
(* Session, for TLC: the configurations a session may run under. *)
EXTENDS Session

\* With deadlines, a client that may send anything and answer nothing; without
\* them, a worker that may get past its gate before its task was announced.
Timed ==
    [requireInit |-> FALSE, timeout |-> TRUE, garbage |-> TRUE, sinkFails |-> TRUE,
     slowReply |-> FALSE]
Patient == [Timed EXCEPT !.timeout = FALSE, !.garbage = FALSE, !.slowReply = TRUE]

TimedAndPatient == {Timed, Patient}
HandshakeFirst  == {[Timed EXCEPT !.requireInit = TRUE]}
Undisturbed     == {[Timed EXCEPT !.requireInit = TRUE, !.garbage = FALSE, !.sinkFails = FALSE]}

=============================================================================
