--------------------------- MODULE MCSocketClaim ---------------------------
(* Small instances of SocketClaim for TLC. *)
EXTENDS SocketClaim

CONSTANT d1

\* A first start; a daemon killed before and after it published its PID; one
\* killed between unlinking its socket and its PID file.
AfterCrash == {<<None, None>>, <<d1, None>>, <<d1, d1>>, <<None, d1>>}
FirstStart == {<<None, None>>}

Calm == {{}}
CalmAndStorm == {{}, Faults}
OnlyStops == {{"stop"}}
=============================================================================
