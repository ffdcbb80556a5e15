------------------------------ MODULE MCDaemon ------------------------------
(* A daemon on its socket and, in some launches, a port on every interface. *)
EXTENDS Daemon

CONSTANTS unix, tcp

TwoListeners == {unix, tcp}
Addresses == [l \in TwoListeners |-> IF l = unix THEN "path" ELSE "0.0.0.0"]

\* An idle exit the application may veto; one over two listeners, the ceiling
\* asked for being zero; and a resident service with a port, which never idles
\* out and keeps the default ceiling.
SomeLaunches ==
    {[ServeDaemon EXCEPT !.connections = 1, !.busy = TRUE],
     [ServeDaemon EXCEPT !.connections = 0, !.listeners = {tcp}],
     [DaemonOptions EXCEPT !.listeners = {tcp}]}
=============================================================================
