------------------------------- MODULE Daemon -------------------------------
(***************************************************************************)
(* The daemon's connection bookkeeping (transport/daemon_state.rs) and the *)
(* threads that share it (transport/unix_server.rs, transport/signals.rs): *)
(* one accept loop per listener, a thread per connection, the idle         *)
(* watcher, the signal watcher, and the main thread, which runs the        *)
(* primary listener's loop and then stops and joins everything else.       *)
(*                                                                         *)
(* Each critical section of the ConnState mutex is one step.  A panic in a *)
(* connection's thread and its return are the same step, because           *)
(* ActiveGuard runs on both.  No time is modelled: the idle window may be  *)
(* over whenever the watcher is waiting it out.                            *)
(***************************************************************************)
EXTENDS Integers, FiniteSets

CONSTANTS
    Listeners,      \* the listeners there are, the Unix socket among them
    Primary,        \* the Unix socket, served by the main thread
    BoundTo,        \* BoundTo[l]: the address the listener was bound to
    Clients,        \* the peers that connect, one connection each at a time
    MaxArrivals,    \* bound: nobody new connects after so many admissions
    Knock,          \* a connection made by Listener::wake
    Unset,          \* an option the application left alone
    DefaultMaxConnections,
    Launches,       \* the DaemonOptions applications launch with
    ThreadsFail     \* the platform may refuse a thread

ASSUME DaemonAssumption ==
    /\ Primary \in Listeners
    /\ IsFiniteSet(Listeners)
    /\ DOMAIN BoundTo = Listeners
    /\ IsFiniteSet(Clients)
    /\ Knock \notin Clients
    /\ DefaultMaxConnections \in Nat \ {0}
    /\ Launches \subseteq [connections : Nat \cup {Unset}, listeners : SUBSET Listeners,
                           idle : BOOLEAN, busy : BOOLEAN]
    /\ MaxArrivals \in Nat
    /\ ThreadsFail \in BOOLEAN

VARIABLES
    server,     \* the UnixServer being run
    active, generation, shutdown,   \* ConnState
    backlog,    \* backlog[l]: connections the kernel holds for the listener
    loop,       \* loop[l]: where its accept loop is
    holding,    \* holding[l]: the connections the loop has in hand
    served,     \* the clients whose thread is running
    main,       \* where UnixServer::run is
    watcher,    \* where the idle watcher is
    genAtIdle,  \* its gen_at_idle
    vetoed,     \* what is_busy answered it; a local of one round
    sig,        \* where the signal watcher is
    toWake,     \* toWake[a]: the listeners actor a has still to wake
    busy,       \* what the application's predicate, if it has one, would answer
    sinceIdle   \* history: clients admitted since the idle window began

connState == <<active, generation, shutdown>>
loopVars  == <<backlog, loop, holding>>
watchVars == <<watcher, genAtIdle, vetoed>>
daemonVars == <<server, connState, loopVars, served, main, watchVars, sig, toWake, busy, sinceIdle>>

\* The threads that go through request_shutdown.
Actors == {"main", "idle", "signal"}

LoopStates    == {"unstarted", "accepting", "admitting", "spawning", "backoff", "done"}
MainStates    == {"starting", "serving", "flagging", "knocking", "joining", "joinWatcher",
                  "cleanup", "dropGuard", "returned"}
WatcherStates == {"top", "window", "asking", "relock", "flagging", "knocking", "gone", "panicked"}
SigStates     == {"blocked", "flagging", "knocking", "gone"}

DaemonTypeOK ==
    /\ active \in 0 .. server.connections
    /\ generation \in Nat
    /\ shutdown \in BOOLEAN
    /\ backlog \in [Listeners -> SUBSET (Clients \cup {Knock})]
    /\ loop \in [Listeners -> LoopStates]
    /\ holding \in [Listeners -> SUBSET (Clients \cup {Knock})]
    /\ served \subseteq Clients
    /\ main \in MainStates
    /\ watcher \in WatcherStates
    /\ genAtIdle \in Nat
    /\ vetoed \in BOOLEAN
    /\ sig \in SigStates
    /\ toWake \in [Actors -> SUBSET Listeners]
    /\ busy \in BOOLEAN
    /\ sinceIdle \subseteq Clients
    /\ \A l \in Listeners : holding[l] # {} <=> loop[l] \in {"admitting", "spawning"}

-----------------------------------------------------------------------------
(* What an application can ask of a daemon *)

UnixServer ==
    [connections |-> DefaultMaxConnections, listeners |-> {Primary}, idle |-> FALSE, busy |-> FALSE]

\* UnixServer::max_connections: zero is raised to one.
MaxConnections(s, n) == [s EXCEPT !.connections = IF n = 0 THEN 1 ELSE n]

\* shared_listener and shared_busy_check
WithListener(s, l) == [s EXCEPT !.listeners = @ \cup {l}]
WithBusyCheck(s)   == [s EXCEPT !.busy = TRUE]
WithIdleTimeout(s) == [s EXCEPT !.idle = TRUE]

\* DaemonOptions::new; the builders only fill in fields.
DaemonOptions == [connections |-> Unset, listeners |-> {}, idle |-> FALSE, busy |-> FALSE]

\* serve_daemon, the three-argument form: it always idles out.
ServeDaemon == WithIdleTimeout(DaemonOptions)

\* DaemonOptions::configure: only what was asked for is handed over.
Configure(o, s) ==
    LET timed   == IF o.idle THEN WithIdleTimeout(s) ELSE s
        limited == IF o.connections = Unset THEN timed ELSE MaxConnections(timed, o.connections)
        vetoing == IF o.busy THEN WithBusyCheck(limited) ELSE limited
    IN  [vetoing EXCEPT !.listeners = @ \cup o.listeners]

-----------------------------------------------------------------------------
(* ConnState *)

MayAdmit == ~shutdown /\ active < server.connections

Admit ==
    /\ active' = active + 1
    /\ generation' = generation + 1
    /\ UNCHANGED shutdown

\* saturating_sub, in ActiveGuard::drop and in release
Release ==
    /\ active' = IF active = 0 THEN 0 ELSE active - 1
    /\ UNCHANGED <<generation, shutdown>>

\* request_shutdown puts the flag up first ...
Flag(a) ==
    /\ shutdown' = TRUE
    /\ toWake' = [toWake EXCEPT ![a] = server.listeners]
    /\ UNCHANGED <<active, generation>>

\* The addresses bind takes to mean every interface, and connect does not take.
Unspecified == {"0.0.0.0", "::"}

\* Mutation: the listener is knocked on where it was bound.
Connectable_AsBound(address) == address

\* connectable: every interface is reached on loopback, in the same family.
Connectable(address) ==
    CASE address = "0.0.0.0" -> "127.0.0.1" [] address = "::" -> "::1" [] OTHER -> address

\* ... and then knocks on every listener, which is a connection to oneself and
\* whose failure nobody hears of.
Wake(a, l) ==
    /\ l \in toWake[a]
    /\ toWake' = [toWake EXCEPT ![a] = @ \ {l}]
    /\ backlog' = IF Connectable(BoundTo[l]) \in Unspecified THEN backlog
                  ELSE [backlog EXCEPT ![l] = @ \cup {Knock}]
    /\ UNCHANGED <<connState, loop, holding, served, main, watchVars, sig, busy, sinceIdle>>

-----------------------------------------------------------------------------
(* Clients and the application *)

\* Until cleanup, the sockets are there to connect to.
Connect(c, l) ==
    /\ main \in {"starting", "serving", "flagging", "knocking", "joining", "joinWatcher"}
    /\ generation < MaxArrivals
    /\ l \in server.listeners
    /\ c \notin served
    /\ \A k \in Listeners : c \notin backlog[k] \cup holding[k]
    /\ backlog' = [backlog EXCEPT ![l] = @ \cup {c}]
    /\ UNCHANGED <<connState, loop, holding, served, main, watchVars, sig, toWake, busy, sinceIdle>>

Disconnect(c) ==
    /\ c \in served
    /\ served' = served \ {c}
    /\ Release
    /\ UNCHANGED <<loopVars, main, watchVars, sig, toWake, busy, sinceIdle>>

BusyChanges ==
    /\ server.busy
    /\ busy' = ~busy
    /\ UNCHANGED <<connState, loopVars, served, main, watchVars, sig, toWake, sinceIdle>>

-----------------------------------------------------------------------------
(* The accept loop of listener l *)

unlooped == <<main, watchVars, sig, toWake, busy>>

Goto(l, next) == loop' = [loop EXCEPT ![l] = next]

Accept(l, c) ==
    /\ loop[l] = "accepting"
    /\ c \in backlog[l]
    /\ backlog' = [backlog EXCEPT ![l] = @ \ {c}]
    /\ holding' = [holding EXCEPT ![l] = {c}]
    /\ Goto(l, "admitting")
    /\ UNCHANGED <<connState, served, sinceIdle, unlooped>>

\* The connection is taken and lost: a failed handshake, no descriptor for the
\* clone that UnixTransport and TcpTransport write through.
AcceptLoses(l, c) ==
    /\ loop[l] = "accepting"
    /\ c \in backlog[l]
    /\ backlog' = [backlog EXCEPT ![l] = @ \ {c}]
    /\ Goto(l, "backoff")
    /\ UNCHANGED <<connState, holding, served, sinceIdle, unlooped>>

\* accept() itself fails, and nothing was taken.
AcceptFails(l) ==
    /\ loop[l] = "accepting"
    /\ Goto(l, "backoff")
    /\ UNCHANGED <<connState, backlog, holding, served, sinceIdle, unlooped>>

\* Mutation: a failed accept is retried without a look at the flag.
BackOff_Retries(l) ==
    /\ loop[l] = "backoff"
    /\ Goto(l, "accepting")
    /\ UNCHANGED <<connState, backlog, holding, served, sinceIdle, unlooped>>

BackOff(l) ==
    /\ loop[l] = "backoff"
    /\ Goto(l, IF shutdown THEN "done" ELSE "accepting")
    /\ UNCHANGED <<connState, backlog, holding, served, sinceIdle, unlooped>>

Admitted(l) ==
    /\ loop[l] = "admitting"
    /\ MayAdmit
    /\ Admit
    /\ sinceIdle' = sinceIdle \cup (holding[l] \cap Clients)
    /\ Goto(l, "spawning")
    /\ UNCHANGED <<backlog, holding, served, unlooped>>

\* Full: the connection is closed.  ShuttingDown: the loop ends as well.
Refused(l) ==
    /\ loop[l] = "admitting"
    /\ ~MayAdmit
    /\ Goto(l, IF shutdown THEN "done" ELSE "accepting")
    /\ holding' = [holding EXCEPT ![l] = {}]
    /\ UNCHANGED <<connState, backlog, served, sinceIdle, unlooped>>

\* handle_connection, on a thread of its own, with its ActiveGuard.
SpawnConnection(l) ==
    /\ loop[l] = "spawning"
    /\ served' = served \cup (holding[l] \cap Clients)
    /\ holding' = [holding EXCEPT ![l] = {}]
    /\ Goto(l, "accepting")
    /\ UNCHANGED <<connState, backlog, sinceIdle, unlooped>>

\* Mutation: the slot of a connection without a thread is not given back.
SpawnConnectionFails_Leaks(l) ==
    /\ loop[l] = "spawning"
    /\ ThreadsFail
    /\ holding' = [holding EXCEPT ![l] = {}]
    /\ Goto(l, "accepting")
    /\ UNCHANGED <<connState, backlog, served, sinceIdle, unlooped>>

\* No thread, and so no ActiveGuard: the slot is given back here.
SpawnConnectionFails(l) ==
    /\ loop[l] = "spawning"
    /\ ThreadsFail
    /\ Release
    /\ holding' = [holding EXCEPT ![l] = {}]
    /\ Goto(l, "accepting")
    /\ UNCHANGED <<backlog, served, sinceIdle, unlooped>>

AcceptLoop(l) ==
    \/ \E c \in Clients \cup {Knock} : Accept(l, c)
    \/ BackOff(l) \/ Admitted(l) \/ Refused(l)
    \/ SpawnConnection(l)

-----------------------------------------------------------------------------
(* The idle watcher *)

unwatched == <<loopVars, served, main, sig, busy>>

\* Waits until idle, and remembers the generation.
WindowOpens ==
    /\ watcher = "top"
    /\ active = 0 \/ shutdown
    /\ watcher' = IF shutdown THEN "gone" ELSE "window"
    /\ genAtIdle' = generation
    /\ sinceIdle' = {}
    /\ UNCHANGED <<connState, unwatched, vetoed, toWake>>

\* wait_timeout returns: after the whole window, or because a connection or a
\* shutdown notified the condition variable.
WindowEnds(timedOut) ==
    /\ watcher = "window"
    /\ timedOut \/ shutdown \/ generation # genAtIdle
    /\ watcher' =
          CASE shutdown -> "gone"
            [] ~shutdown /\ ~(timedOut /\ active = 0 /\ generation = genAtIdle) -> "top"
            [] OTHER -> IF server.busy THEN "asking" ELSE "flagging"
    /\ UNCHANGED <<connState, unwatched, genAtIdle, vetoed, toWake, sinceIdle>>

\* The application's predicate runs with the lock released.
AskBusy ==
    /\ watcher = "asking"
    /\ vetoed' = busy
    /\ watcher' = "relock"
    /\ UNCHANGED <<connState, unwatched, genAtIdle, toWake, sinceIdle>>

\* A predicate that panics takes the watcher with it, and the daemon stays up.
BusyPanics ==
    /\ watcher = "asking"
    /\ watcher' = "panicked"
    /\ UNCHANGED <<connState, unwatched, genAtIdle, vetoed, toWake, sinceIdle>>

\* Mutations: who came and went during is_busy is not noticed; a veto ends the
\* watcher.
Relock_StaleGeneration ==
    /\ watcher = "relock"
    /\ watcher' =
          CASE shutdown -> "gone"
            [] ~shutdown /\ (vetoed \/ active # 0) -> "top"
            [] OTHER -> "flagging"
    /\ vetoed' = FALSE
    /\ UNCHANGED <<connState, unwatched, genAtIdle, toWake, sinceIdle>>

Relock_VetoIsFinal ==
    /\ watcher = "relock"
    /\ watcher' =
          CASE shutdown \/ vetoed -> "gone"
            [] ~shutdown /\ ~vetoed /\ (active # 0 \/ generation # genAtIdle) -> "top"
            [] OTHER -> "flagging"
    /\ vetoed' = FALSE
    /\ UNCHANGED <<connState, unwatched, genAtIdle, toWake, sinceIdle>>

Relock ==
    /\ watcher = "relock"
    /\ watcher' =
          CASE shutdown -> "gone"
            [] ~shutdown /\ (vetoed \/ active # 0 \/ generation # genAtIdle) -> "top"
            [] OTHER -> "flagging"
    /\ vetoed' = FALSE
    /\ UNCHANGED <<connState, unwatched, genAtIdle, toWake, sinceIdle>>

\* The lock is released between the decision and request_shutdown.
IdleFlags ==
    /\ watcher = "flagging"
    /\ Flag("idle")
    /\ watcher' = "knocking"
    /\ UNCHANGED <<unwatched, genAtIdle, vetoed, sinceIdle>>

IdleEnds ==
    /\ watcher = "knocking"
    /\ toWake["idle"] = {}
    /\ watcher' = "gone"
    /\ UNCHANGED <<connState, unwatched, genAtIdle, vetoed, toWake, sinceIdle>>

IdleWatcher ==
    \/ WindowOpens
    \/ \E timedOut \in BOOLEAN : WindowEnds(timedOut)
    \/ AskBusy \/ Relock \/ IdleFlags \/ IdleEnds
    \/ \E l \in Listeners : Wake("idle", l)

-----------------------------------------------------------------------------
(* The signal watcher *)

unsignalled == <<loopVars, served, main, watchVars, busy, sinceIdle>>

\* The handler has written its byte; or the guard has closed the pipe.
SignalArrives ==
    /\ sig = "blocked"
    /\ main # "returned"
    /\ sig' = "flagging"
    /\ UNCHANGED <<connState, unsignalled, toWake>>

PipeCloses ==
    /\ sig = "blocked"
    /\ main = "dropGuard"
    /\ sig' = "gone"
    /\ UNCHANGED <<connState, unsignalled, toWake>>

SignalFlags ==
    /\ sig = "flagging"
    /\ Flag("signal")
    /\ sig' = "knocking"
    /\ UNCHANGED unsignalled

SignalEnds ==
    /\ sig = "knocking"
    /\ toWake["signal"] = {}
    /\ sig' = "gone"
    /\ UNCHANGED <<connState, unsignalled, toWake>>

SignalWatcher ==
    \/ PipeCloses \/ SignalFlags \/ SignalEnds
    \/ \E l \in Listeners : Wake("signal", l)

-----------------------------------------------------------------------------
(* The main thread: serve_listeners and the end of run *)

unmain == <<served, watchVars, sig, busy, sinceIdle>>

StartLoop(l) ==
    /\ main = "starting"
    /\ l \in server.listeners \ {Primary}
    /\ loop[l] = "unstarted"
    /\ Goto(l, "accepting")
    /\ UNCHANGED <<connState, backlog, holding, main, toWake, unmain>>

\* One listener too many: none of the others is served either.
StartLoopFails ==
    /\ main = "starting"
    /\ ThreadsFail
    /\ \E l \in server.listeners \ {Primary} : loop[l] = "unstarted"
    /\ main' = "flagging"
    /\ UNCHANGED <<connState, loopVars, toWake, unmain>>

StartPrimary ==
    /\ main = "starting"
    /\ \A l \in server.listeners \ {Primary} : loop[l] # "unstarted"
    /\ Goto(Primary, "accepting")
    /\ main' = "serving"
    /\ UNCHANGED <<connState, backlog, holding, toWake, unmain>>

PrimaryEnds ==
    /\ main = "serving"
    /\ loop[Primary] = "done"
    /\ main' = "flagging"
    /\ UNCHANGED <<connState, loopVars, toWake, unmain>>

MainFlags ==
    /\ main = "flagging"
    /\ Flag("main")
    /\ main' = "knocking"
    /\ UNCHANGED <<loopVars, unmain>>

\* Mutation: the other listeners' threads are not joined.
LoopsJoined_Skipped == TRUE

LoopsJoined == \A l \in Listeners \ {Primary} : loop[l] \in {"unstarted", "done"}

\* The rest of run, one wait after the other.
MainProceeds ==
    /\ \/ /\ main = "knocking" /\ toWake["main"] = {} /\ main' = "joining"
       \/ /\ main = "joining"
          /\ LoopsJoined
          /\ main' = IF server.idle THEN "joinWatcher" ELSE "cleanup"
       \/ /\ main = "joinWatcher" /\ watcher \in {"gone", "panicked"} /\ main' = "cleanup"
       \/ /\ main = "cleanup" /\ main' = "dropGuard"
       \/ /\ main = "dropGuard" /\ sig = "gone" /\ main' = "returned"
    /\ UNCHANGED <<connState, loopVars, toWake, unmain>>

MainThread ==
    \/ \E l \in Listeners : StartLoop(l)
    \/ StartPrimary \/ PrimaryEnds \/ MainFlags \/ MainProceeds
    \/ \E l \in Listeners : Wake("main", l)

-----------------------------------------------------------------------------
DaemonInit ==
    /\ \E options \in Launches : server = Configure(options, UnixServer)
    /\ active = 0 /\ generation = 0 /\ shutdown = FALSE
    /\ backlog = [l \in Listeners |-> {}]
    /\ loop = [l \in Listeners |-> "unstarted"]
    /\ holding = [l \in Listeners |-> {}]
    /\ served = {}
    /\ main = "starting"
    /\ watcher = IF server.idle THEN "top" ELSE "gone"
    /\ genAtIdle = 0 /\ vetoed = FALSE
    /\ sig = "blocked"
    /\ toWake = [a \in Actors |-> {}]
    /\ busy \in {FALSE, server.busy}
    /\ sinceIdle = {}

Step ==
    \/ MainThread \/ StartLoopFails
    \/ IdleWatcher \/ BusyPanics
    \/ SignalWatcher \/ SignalArrives
    \/ \E l \in Listeners : \/ AcceptLoop(l) \/ AcceptFails(l) \/ SpawnConnectionFails(l)
                           \/ \E c \in Clients \cup {Knock} : AcceptLoses(l, c)
    \/ \E c \in Clients : Disconnect(c) \/ \E l \in Listeners : Connect(c, l)
    \/ BusyChanges

DaemonNext == Step /\ UNCHANGED server

DaemonSpec == DaemonInit /\ [][DaemonNext]_daemonVars

\* Every thread runs, and the idle window comes to its end.  Nothing is assumed
\* of clients, of the application or of signals.
DaemonFairness ==
    /\ WF_daemonVars(MainThread /\ UNCHANGED server)
    /\ WF_daemonVars(IdleWatcher /\ UNCHANGED server)
    /\ WF_daemonVars(SignalWatcher /\ UNCHANGED server)
    /\ \A l \in Listeners : WF_daemonVars(AcceptLoop(l) /\ UNCHANGED server)

DaemonFairSpec == DaemonSpec /\ DaemonFairness

-----------------------------------------------------------------------------
(* Properties *)

\* `active` is the number of connections that hold a slot, whatever the order of
\* accepts on several listeners, disconnects, panics and threads the platform
\* refuses: a count that drifted up would keep the daemon from ever idling out
\* and shrink its ceiling, one that drifted down would end it under a client.
\* All listeners together stay below the one ceiling.
ActiveExact ==
    /\ active = Cardinality(served) + Cardinality({l \in Listeners : loop[l] = "spawning"})
    /\ active <= server.connections

\* The socket is unlinked, and run returns, only after every accept loop that was
\* started and the idle watcher have ended: nothing is accepted by a daemon whose
\* socket another one may already be claiming.
QuietBeforeCleanup ==
    main \in {"cleanup", "dropGuard", "returned"} =>
        /\ watcher \in {"gone", "panicked"}
        /\ \A l \in Listeners : loop[l] \in {"unstarted", "done"}

\* The watcher decides to exit only if nobody is connected, nobody has come and
\* gone since the window opened - the lock is let go for is_busy, and a client
\* can do both meanwhile - and the application did not object.
IdleDecision ==
    [][watcher' = "flagging" /\ watcher # "flagging" =>
          active = 0 /\ sinceIdle = {} /\ (server.busy => ~vetoed)]_daemonVars

\* A daemon that was told to stop stops: no listener's thread stays parked in
\* accept, though an accept that fails may eat the connection that was to wake
\* it, and no connection that is still served is waited for.
ShutdownEnds == shutdown ~> main = "returned"

\* A daemon with an idle_timeout that nobody uses, and whose application has no
\* work left and did not panic when it was asked, exits.
IdleDaemonExits ==
    server.idle /\ <>[](active = 0 /\ ~busy /\ watcher # "panicked") => <>(main = "returned")

\* run returns when it should: told to stop, or left alone for good.
DaemonEnds == ShutdownEnds /\ IdleDaemonExits

\* "A new connection arriving during the window cancels the countdown": the
\* shutdown the idle watcher asks for finds nobody connected.
IdleExitIsIdle == [][watcher = "flagging" /\ watcher' = "knocking" => active = 0]_daemonVars
=============================================================================
