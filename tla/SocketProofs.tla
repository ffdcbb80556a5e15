---------------------------- MODULE SocketProofs ----------------------------
(***************************************************************************)
(* What TLAPS proves of the way from a client to a daemon, part by part:   *)
(* the socket and who may take it (SocketClaim), the daemon behind it      *)
(* (Daemon), the lines on it (Framing), and the shim's proxy (Bridge).     *)
(* The parts share no state, and each has its own specification.           *)
(***************************************************************************)
EXTENDS SocketClaim, Daemon, Framing, Bridge, FiniteSetTheorems, SequenceTheorems, TLAPS

-----------------------------------------------------------------------------
(* The claim, for any number of daemons and shims, with every kind of       *)
(* crash, refusal and timeout allowed.                                      *)
(*                                                                          *)
(* NeverOrphaned alone is not inductive: that whoever unlinks or binds      *)
(* cannot be facing another daemon's live socket follows from the claim,    *)
(* which excludes any other process from its states.                        *)

IInv == ClaimTypeOK /\ ClaimHeld /\ NeverOrphaned

\* It holds of whatever a crashed daemon left behind.
LEMMA InitIInv == ClaimInit => IInv
<1> SUFFICES ASSUME ClaimInit PROVE IInv
    OBVIOUS
<1> USE ClaimAssumption
<1>1. PICK left \in Leftovers :
          /\ socket = left[1]
          /\ pidFile = left[2]
          /\ daemon = [d \in Daemons |-> IF d \in {left[1], left[2]} THEN "gone" ELSE "unborn"]
    BY DEF ClaimInit
<1>2. left[1] \in Daemons \cup {None} /\ left[2] \in Publishers \cup {None}
    BY <1>1
<1>3. ClaimTypeOK
    BY <1>1, <1>2 DEF ClaimInit, ClaimTypeOK, DaemonStates, ShimStates
<1>4. \A d \in Daemons : daemon[d] \in {"gone", "unborn"}
    BY <1>1
<1>5. ClaimHeld
    BY <1>4 DEF ClaimInit, ClaimHeld, Claiming, Clearing
<1>6. NeverOrphaned
    BY <1>4 DEF NeverOrphaned, Owning
<1> QED
    BY <1>3, <1>5, <1>6 DEF IInv

\* No step of a daemon, its own failure and its crash included, breaks it.
LEMMA DaemonKeeps ==
    ASSUME IInv, NEW d \in Daemons,
           DaemonStep(d) \/ Start(d) \/ StartupFails(d) \/ Stop(d) \/ Crash(d)
    PROVE  IInv'
<1> USE ClaimAssumption DEF IInv, DaemonAt, Free, unshimmed
<1>1. CASE Start(d)
    BY <1>1 DEF Start, ClaimTypeOK, DaemonStates, ClaimHeld, Claiming, NeverOrphaned, Owning
<1>2. CASE ClaimSocketPath(d)
    BY <1>2 DEF ClaimSocketPath, ClaimTypeOK, DaemonStates, ClaimHeld, Claiming, NeverOrphaned, Owning
<1>3. CASE PrepareSocketPath(d)
    BY <1>3 DEF PrepareSocketPath, ClaimTypeOK, DaemonStates, ClaimHeld, Claiming, NeverOrphaned, Owning
<1>4. CASE RemoveStale(d)
    BY <1>4 DEF RemoveStale, ClaimTypeOK, DaemonStates, ClaimHeld, Claiming, NeverOrphaned, Owning
<1>5. CASE Bind(d)
    BY <1>5 DEF Bind, ClaimTypeOK, DaemonStates, ClaimHeld, Claiming, NeverOrphaned, Owning
<1>6. CASE Listen(d)
    BY <1>6 DEF Listen, ClaimTypeOK, DaemonStates, ClaimHeld, Claiming, NeverOrphaned, Owning
<1>7. CASE Publish(d)
    BY <1>7 DEF Publish, ClaimTypeOK, DaemonStates, ClaimHeld, Claiming, NeverOrphaned, Owning
<1>8. CASE StartupFails(d)
    BY <1>8 DEF StartupFails, ClaimTypeOK, DaemonStates, ClaimHeld, Claiming, NeverOrphaned, Owning
<1>9. CASE Stop(d)
    BY <1>9 DEF Stop, ClaimTypeOK, DaemonStates, ClaimHeld, Claiming, NeverOrphaned, Owning
<1>10. CASE UnlinkSocket(d)
    BY <1>10 DEF UnlinkSocket, ClaimTypeOK, DaemonStates, ClaimHeld, Claiming, NeverOrphaned, Owning
<1>11. CASE UnlinkPid(d)
    BY <1>11 DEF UnlinkPid, ClaimTypeOK, DaemonStates, ClaimHeld, Claiming, NeverOrphaned, Owning
<1>12. CASE Leave(d)
    BY <1>12 DEF Leave, ClaimTypeOK, DaemonStates, ClaimHeld, Claiming, NeverOrphaned, Owning
<1>13. CASE Crash(d)
    BY <1>13 DEF Crash, ClaimTypeOK, DaemonStates, ClaimHeld, Claiming, NeverOrphaned, Owning
<1> QED
    BY <1>1, <1>2, <1>3, <1>4, <1>5, <1>6, <1>7, <1>8, <1>9, <1>10, <1>11, <1>12, <1>13
    DEF DaemonStep

\* Nor does a step of a shim, in or out of clear_socket.
LEMMA ShimKeeps ==
    ASSUME IInv, NEW s \in Shims, ShimStep(s) \/ ShimFails(s) \/ ShimCrashes(s)
    PROVE  IInv'
<1> USE ClaimAssumption DEF IInv, DaemonAt, Move, Free, TryConnect
<1>1. CASE FastPath(s)
    BY <1>1 DEF FastPath, ClaimTypeOK, ShimStates, Clearing, ClaimHeld, Claiming, NeverOrphaned, Owning
<1>2. CASE LookForSocket(s)
    BY <1>2 DEF LookForSocket, ClaimTypeOK, ShimStates, Clearing, ClaimHeld, Claiming, NeverOrphaned, Owning
<1>3. CASE ReadPidBeside(s)
    BY <1>3 DEF ReadPidBeside, ClaimTypeOK, ShimStates, Clearing, ClaimHeld, Claiming, NeverOrphaned, Owning
<1>4. CASE ReadPidAlone(s)
    BY <1>4 DEF ReadPidAlone, ClaimTypeOK, ShimStates, Clearing, ClaimHeld, Claiming, NeverOrphaned, Owning
<1>5. CASE Grace(s)
    BY <1>5 DEF Grace, ClaimTypeOK, ShimStates, Clearing, ClaimHeld, Claiming, NeverOrphaned, Owning
<1>6. CASE ForgetPid(s)
    BY <1>6 DEF ForgetPid, ClaimTypeOK, ShimStates, Clearing, ClaimHeld, Claiming, NeverOrphaned, Owning
<1>7. CASE ClearSocket(s)
    BY <1>7 DEF ClearSocket, ClaimTypeOK, ShimStates, Clearing, ClaimHeld, Claiming, NeverOrphaned, Owning
<1>8. CASE ProbeSocket(s)
    BY <1>8 DEF ProbeSocket, ClaimTypeOK, ShimStates, Clearing, ClaimHeld, Claiming, NeverOrphaned, Owning
<1>9. CASE RemoveSocket(s)
    BY <1>9 DEF RemoveSocket, ClaimTypeOK, ShimStates, Clearing, ClaimHeld, Claiming, NeverOrphaned, Owning
<1>10. CASE RemovePid(s)
    BY <1>10 DEF RemovePid, ClaimTypeOK, ShimStates, Clearing, ClaimHeld, Claiming, NeverOrphaned, Owning
<1>11. ASSUME NEW d \in Daemons, SpawnDaemon(s, d)
      PROVE  IInv'
    BY <1>11 DEF SpawnDaemon, ClaimTypeOK, DaemonStates, ShimStates, Clearing, ClaimHeld, Claiming, NeverOrphaned, Owning
<1>12. CASE DaemonReady(s)
    BY <1>12 DEF DaemonReady, ClaimTypeOK, ShimStates, Clearing, ClaimHeld, Claiming, NeverOrphaned, Owning
<1>13. CASE ShimFails(s)
    BY <1>13 DEF ShimFails, ClaimTypeOK, ShimStates, Clearing, ClaimHeld, Claiming, NeverOrphaned, Owning
<1>14. CASE ShimCrashes(s)
    BY <1>14 DEF ShimCrashes, ClaimTypeOK, ShimStates, Clearing, ClaimHeld, Claiming, NeverOrphaned, Owning
<1> QED
    BY <1>1, <1>2, <1>3, <1>4, <1>5, <1>6, <1>7, <1>8, <1>9, <1>10, <1>11, <1>12, <1>13, <1>14 DEF ShimStep

\* It is inductive.
LEMMA StepIInv == IInv /\ [ClaimNext]_claimVars => IInv'
<1> SUFFICES ASSUME IInv, [ClaimNext]_claimVars PROVE IInv'
    OBVIOUS
<1>1. CASE ClaimNext
    BY <1>1, DaemonKeeps, ShimKeeps DEF ClaimNext
<1>2. CASE UNCHANGED claimVars
    BY <1>2 DEF IInv, claimVars, ClaimTypeOK, ClaimHeld, NeverOrphaned
<1> QED
    BY <1>1, <1>2

\* The claim is held by exactly the processes that act under it (SocketLock's
\* first rule), over every exit of run and clear_socket.
THEOREM ClaimDiscipline == ClaimSpec => []ClaimHeld
<1>1. IInv => ClaimHeld
    BY DEF IInv
<1> QED
    BY <1>1, InitIInv, StepIInv, PTL DEF ClaimSpec

\* No live daemon's socket is ever unlinked or replaced by somebody else, and so
\* no two daemons serve: a refused connect under the claim does mean a stale
\* socket (SocketLock, prepare_socket_path, clear_socket).
THEOREM SocketKept == ClaimSpec => []NeverOrphaned
<1>1. IInv => NeverOrphaned
    BY DEF IInv
<1> QED
    BY <1>1, InitIInv, StepIInv, PTL DEF ClaimSpec

-----------------------------------------------------------------------------
(* The daemon, for every set of listeners and clients, every launch and     *)
(* every ceiling: the slots are counted exactly, the cleanup finds every    *)
(* loop ended, and the idle watcher decides on facts.                       *)
(*                                                                          *)
(* ActiveExact is not inductive alone: it needs that a loop holds one       *)
(* connection at a time, that a client is in one place only, and that what  *)
(* is admitted is a client - a connection that was made to wake a listener  *)
(* is taken by nobody but a loop that finds the flag up.                    *)
(* QuietBeforeCleanup needs what each earlier stage of run has waited for,  *)
(* and IdleDecision that an unchanged generation means that nobody was      *)
(* admitted.                                                                *)

Spawning == {l \in Listeners : loop[l] = "spawning"}

ServerTyped ==
    server \in [connections : Nat \ {0}, listeners : SUBSET Listeners, idle : BOOLEAN, busy : BOOLEAN]

\* A loop has at most one connection in hand, and no client is in two places.
OnePlace ==
    /\ \A l \in Listeners : \A c, d \in holding[l] : c = d
    /\ \A l \in Listeners : served \cap (backlog[l] \cup holding[l]) = {}
    /\ \A l \in Listeners : Clients \cap backlog[l] \cap holding[l] = {}
    /\ \A k, l \in Listeners :
          k # l => Clients \cap (backlog[k] \cup holding[k]) \cap (backlog[l] \cup holding[l]) = {}

\* Listeners are woken only after the flag is up, so no wake-up call is admitted.
KnocksFollowFlag ==
    /\ \A a \in Actors : toWake[a] # {} => shutdown
    /\ \A l \in Listeners : Knock \in backlog[l] \cup holding[l] => shutdown
    /\ \A l \in Spawning : holding[l] \subseteq Clients

\* What each stage of run has behind it.
Stages ==
    /\ main = "starting" => loop[Primary] = "unstarted"
    /\ main \notin {"starting", "serving"} => loop[Primary] \in {"unstarted", "done"}
    /\ main \in {"joinWatcher", "cleanup", "dropGuard", "returned"} => LoopsJoined
    /\ main \in {"cleanup", "dropGuard", "returned"} => watcher \in {"gone", "panicked"}
    /\ ~server.idle => watcher = "gone"

\* While the watcher waits or asks, an unchanged generation means no arrival.
WindowHonest ==
    /\ genAtIdle <= generation
    /\ watcher \in {"window", "asking", "relock"} /\ genAtIdle = generation => sinceIdle = {}

DInv ==
    /\ DaemonTypeOK /\ ServerTyped
    /\ OnePlace /\ KnocksFollowFlag
    /\ ActiveExact
    /\ Stages
    /\ WindowHonest

\* However a daemon is configured, its ceiling is at least one connection.
LEMMA ConfigureType ==
    ASSUME DaemonAssumption, NEW options \in Launches
    PROVE  Configure(options, UnixServer)
              \in [connections : Nat \ {0}, listeners : SUBSET Listeners, idle : BOOLEAN, busy : BOOLEAN]
<1> DEFINE Typed(s) == s \in [connections : Nat \ {0}, listeners : SUBSET Listeners,
                              idle : BOOLEAN, busy : BOOLEAN]
<1>1. Typed(UnixServer)
  BY DEF DaemonAssumption, UnixServer
<1>2. options \in [connections : Nat \cup {Unset}, listeners : SUBSET Listeners,
                   idle : BOOLEAN, busy : BOOLEAN]
  BY DEF DaemonAssumption
<1>3. ASSUME NEW s, Typed(s)
      PROVE  /\ Typed(WithIdleTimeout(s)) /\ Typed(WithBusyCheck(s))
             /\ \A n \in Nat : Typed(MaxConnections(s, n))
             /\ \A more \in SUBSET Listeners : Typed([s EXCEPT !.listeners = @ \cup more])
  <2>1. Typed(WithIdleTimeout(s))
    BY <1>3 DEF WithIdleTimeout
  <2>2. Typed(WithBusyCheck(s))
    BY <1>3 DEF WithBusyCheck
  <2>3. ASSUME NEW n \in Nat PROVE Typed(MaxConnections(s, n))
    BY <1>3 DEF MaxConnections
  <2>4. ASSUME NEW more \in SUBSET Listeners PROVE Typed([s EXCEPT !.listeners = @ \cup more])
    BY <1>3
  <2> QED BY <2>1, <2>2, <2>3, <2>4
<1> DEFINE timed   == IF options.idle THEN WithIdleTimeout(UnixServer) ELSE UnixServer
           limited == IF options.connections = Unset THEN timed
                      ELSE MaxConnections(timed, options.connections)
           vetoing == IF options.busy THEN WithBusyCheck(limited) ELSE limited
<1> HIDE DEF Typed
<1>4. Typed(timed)
  BY <1>1, <1>3
<1> HIDE DEF timed
<1>5. Typed(limited)
  <2>1. options.connections # Unset => options.connections \in Nat
    BY <1>2
  <2> QED BY <1>3, <1>4, <2>1
<1> HIDE DEF limited
<1>6. Typed(vetoing)
  BY <1>3, <1>5
<1> HIDE DEF vetoing
<1>7. Typed([vetoing EXCEPT !.listeners = @ \cup options.listeners])
  BY <1>2, <1>3, <1>6
<1> QED
  BY <1>7 DEF Configure, Typed, vetoing, limited, timed

\* A daemon starts with no connection and nobody woken.
LEMMA InitInv == DaemonAssumption /\ DaemonInit => DInv
<1> SUFFICES ASSUME DaemonAssumption, DaemonInit PROVE DInv
  OBVIOUS
<1>1. ServerTyped
  BY ConfigureType DEF DaemonInit, ServerTyped
<1>2. DaemonTypeOK
  <2>1. server.connections \in Nat /\ server.idle \in BOOLEAN /\ server.busy \in BOOLEAN
    BY <1>1 DEF ServerTyped
  <2>2. watcher \in WatcherStates /\ busy \in BOOLEAN
    BY <2>1 DEF DaemonInit, WatcherStates
  <2>3. active \in 0 .. server.connections
    BY <2>1 DEF DaemonInit
  <2>4. \A l \in Listeners : holding[l] = {} /\ loop[l] = "unstarted"
    BY DEF DaemonInit
  <2>5. /\ generation \in Nat /\ shutdown \in BOOLEAN /\ genAtIdle \in Nat /\ vetoed \in BOOLEAN
        /\ main \in MainStates /\ sig \in SigStates /\ served \subseteq Clients /\ sinceIdle \subseteq Clients
    BY DEF DaemonInit, MainStates, SigStates
  <2>6. /\ backlog \in [Listeners -> SUBSET (Clients \cup {Knock})]
        /\ loop \in [Listeners -> LoopStates]
        /\ holding \in [Listeners -> SUBSET (Clients \cup {Knock})]
        /\ toWake \in [Actors -> SUBSET Listeners]
    BY DEF DaemonInit, LoopStates
  <2> QED
    BY <2>2, <2>3, <2>4, <2>5, <2>6 DEF DaemonTypeOK
<1>3. OnePlace /\ KnocksFollowFlag
  BY DEF DaemonInit, OnePlace, KnocksFollowFlag, Spawning
<1>4. ActiveExact
  <2>1. served = {} /\ {l \in Listeners : loop[l] = "spawning"} = {} /\ active = 0
    BY DEF DaemonInit
  <2>2. Cardinality(served) = 0 /\ Cardinality({l \in Listeners : loop[l] = "spawning"}) = 0
    BY <2>1, FS_EmptySet
  <2> QED BY <1>1, <2>1, <2>2 DEF ActiveExact, ServerTyped
<1>5. Stages /\ WindowHonest
  BY DEF DaemonInit, Stages, WindowHonest, DaemonAssumption
<1> QED BY <1>1, <1>2, <1>3, <1>4, <1>5 DEF DInv

-----------------------------------------------------------------------------
(* The steps *)

\* Every step keeps the types.
LEMMA TypeKept ==
    ASSUME DaemonAssumption, DInv, DaemonNext
    PROVE  DaemonTypeOK'
<1> USE DEF DInv, DaemonTypeOK
<1>1. server' = server /\ server \in [connections : Nat \ {0}, listeners : SUBSET Listeners,
                                     idle : BOOLEAN, busy : BOOLEAN]
  BY DEF DaemonNext, ServerTyped
<1>2. ASSUME NEW a \in Actors, NEW l \in Listeners, Wake(a, l) PROVE DaemonTypeOK'
  BY <1>1, <1>2 DEF Wake, connState, watchVars
<1>3. CASE MainThread \/ StartLoopFails
  <2>1. ASSUME NEW l \in Listeners, StartLoop(l) PROVE DaemonTypeOK'
    BY <1>1, <2>1 DEF StartLoop, Goto, connState, unmain, watchVars, LoopStates
  <2>2. CASE StartPrimary
    BY <1>1, <2>2 DEF StartPrimary, Goto, connState, unmain, watchVars, LoopStates, MainStates,
                      DaemonAssumption, Stages
  <2>3. CASE StartLoopFails \/ PrimaryEnds \/ MainProceeds
    BY <1>1, <2>3 DEF StartLoopFails, PrimaryEnds, MainProceeds, loopVars, connState, unmain,
                      watchVars, MainStates
  <2>4. CASE MainFlags
    BY <1>1, <2>4 DEF MainFlags, Flag, loopVars, unmain, watchVars, MainStates, Actors
  <2> QED BY <1>2, <1>3, <2>1, <2>2, <2>3, <2>4 DEF MainThread, Actors
<1>4. CASE IdleWatcher \/ BusyPanics
  <2>1. CASE WindowOpens
    BY <1>1, <2>1 DEF WindowOpens, connState, unwatched, loopVars, WatcherStates
  <2>2. ASSUME NEW timedOut \in BOOLEAN, WindowEnds(timedOut) PROVE DaemonTypeOK'
    <3>1. watcher' \in WatcherStates
      BY <2>2 DEF WindowEnds, WatcherStates
    <3> QED BY <1>1, <2>2, <3>1 DEF WindowEnds, connState, unwatched, loopVars
  <2>3. CASE AskBusy \/ BusyPanics \/ IdleEnds
    BY <1>1, <2>3 DEF AskBusy, BusyPanics, IdleEnds, connState, unwatched, loopVars, WatcherStates
  <2>4. CASE Relock
    <3>1. watcher' \in WatcherStates
      BY <2>4 DEF Relock, WatcherStates
    <3> QED BY <1>1, <2>4, <3>1 DEF Relock, connState, unwatched, loopVars
  <2>5. CASE IdleFlags
    BY <1>1, <2>5 DEF IdleFlags, Flag, unwatched, loopVars, WatcherStates, Actors
  <2> QED BY <1>2, <1>4, <2>1, <2>2, <2>3, <2>4, <2>5 DEF IdleWatcher, Actors
<1>5. CASE SignalWatcher \/ SignalArrives
  <2>1. CASE SignalFlags
    BY <1>1, <2>1 DEF SignalFlags, Flag, unsignalled, loopVars, watchVars, SigStates, Actors
  <2>2. CASE PipeCloses \/ SignalEnds \/ SignalArrives
    BY <1>1, <2>2 DEF PipeCloses, SignalEnds, SignalArrives, connState, unsignalled, loopVars,
                      watchVars, SigStates
  <2> QED BY <1>2, <1>5, <2>1, <2>2 DEF SignalWatcher, Actors
<1>6. ASSUME NEW l \in Listeners, AcceptLoop(l) \/ AcceptFails(l) PROVE DaemonTypeOK'
  <2>1. ASSUME NEW c \in Clients \cup {Knock}, Accept(l, c) PROVE DaemonTypeOK'
    BY <1>1, <2>1 DEF Accept, Goto, connState, unlooped, watchVars, LoopStates
  <2>2. CASE BackOff(l) \/ AcceptFails(l)
    BY <1>1, <2>2 DEF BackOff, AcceptFails, Goto, connState, unlooped, watchVars, LoopStates
  <2>3. CASE Admitted(l)
    BY <1>1, <2>3 DEF Admitted, MayAdmit, Admit, Goto, unlooped, watchVars, LoopStates
  <2>4. CASE Refused(l)
    BY <1>1, <2>4 DEF Refused, Goto, connState, unlooped, watchVars, LoopStates
  <2>5. CASE SpawnConnection(l)
    BY <1>1, <2>5 DEF SpawnConnection, Goto, connState, unlooped, watchVars, LoopStates
  <2> QED BY <1>6, <2>1, <2>2, <2>3, <2>4, <2>5 DEF AcceptLoop
<1>7. ASSUME NEW l \in Listeners, SpawnConnectionFails(l) PROVE DaemonTypeOK'
  BY <1>1, <1>7 DEF SpawnConnectionFails, Release, Goto, unlooped, watchVars, LoopStates
<1>8. ASSUME NEW l \in Listeners, NEW c \in Clients \cup {Knock}, AcceptLoses(l, c) PROVE DaemonTypeOK'
  BY <1>1, <1>8 DEF AcceptLoses, Goto, connState, unlooped, watchVars, LoopStates
<1>9. ASSUME NEW c \in Clients, Disconnect(c) PROVE DaemonTypeOK'
  BY <1>1, <1>9 DEF Disconnect, Release, loopVars, watchVars
<1>10. ASSUME NEW c \in Clients, NEW l \in Listeners, Connect(c, l) PROVE DaemonTypeOK'
  BY <1>1, <1>10 DEF Connect, connState, watchVars
<1>11. CASE BusyChanges
  BY <1>1, <1>11 DEF BusyChanges, connState, loopVars, watchVars
<1> QED
  BY <1>3, <1>4, <1>5, <1>6, <1>7, <1>8, <1>9, <1>10, <1>11 DEF DaemonNext, Step

\* A step that moves no connection: at most it puts the flag up and marks the
\* listeners to wake.
Bystander ==
    /\ UNCHANGED <<active, generation, backlog, holding, served, Spawning>>
    /\ shutdown => shutdown'
    /\ \A a \in Actors : toWake'[a] # toWake[a] => shutdown'

\* Every step moves no connection, or is one of the nine that do.
LEMMA ConnectionSteps ==
    ASSUME DaemonAssumption, DInv, DaemonNext
    PROVE  \/ Bystander
           \/ \E a \in Actors, l \in Listeners : Wake(a, l)
           \/ \E l \in Listeners : \/ Admitted(l) \/ Refused(l)
                                   \/ SpawnConnection(l) \/ SpawnConnectionFails(l)
                                   \/ \E c \in Clients \cup {Knock} : Accept(l, c) \/ AcceptLoses(l, c)
           \/ \E c \in Clients : Disconnect(c) \/ \E l \in Listeners : Connect(c, l)
<1> USE DEF Bystander, Spawning
<1>1. ASSUME NEW l \in Listeners, StartLoop(l) PROVE Bystander
  BY <1>1 DEF StartLoop, Goto, connState, unmain, DInv, DaemonTypeOK
<1>2. CASE StartPrimary
  BY <1>2 DEF StartPrimary, Goto, connState, unmain, DInv, DaemonTypeOK, Stages, DaemonAssumption
<1>3. CASE StartLoopFails \/ PrimaryEnds \/ MainProceeds
  BY <1>3 DEF StartLoopFails, PrimaryEnds, MainProceeds, loopVars, connState, unmain
<1>4. CASE MainFlags \/ IdleFlags \/ SignalFlags
  BY <1>4 DEF MainFlags, IdleFlags, SignalFlags, Flag, loopVars, unmain, unwatched, unsignalled
<1>5. CASE WindowOpens \/ AskBusy \/ BusyPanics \/ Relock \/ IdleEnds
  BY <1>5 DEF WindowOpens, AskBusy, BusyPanics, Relock, IdleEnds, connState, unwatched, loopVars
<1>6. ASSUME NEW timedOut \in BOOLEAN, WindowEnds(timedOut) PROVE Bystander
  BY <1>6 DEF WindowEnds, connState, unwatched, loopVars
<1>7. CASE PipeCloses \/ SignalEnds \/ SignalArrives
  BY <1>7 DEF PipeCloses, SignalEnds, SignalArrives, connState, unsignalled, loopVars
<1>8. ASSUME NEW l \in Listeners, BackOff(l) \/ AcceptFails(l) PROVE Bystander
  BY <1>8 DEF BackOff, AcceptFails, Goto, connState, unlooped, DInv, DaemonTypeOK
<1>9. CASE BusyChanges
  BY <1>9 DEF BusyChanges, connState, loopVars
<1> QED
  BY <1>1, <1>2, <1>3, <1>4, <1>5, <1>6, <1>7, <1>8, <1>9
     DEF DaemonNext, Step, MainThread, IdleWatcher, SignalWatcher, AcceptLoop, Actors

\* No step puts a client in two places or a second connection in a loop's hands.
LEMMA OnePlaceKept ==
    ASSUME DaemonAssumption, DInv, DaemonNext
    PROVE  OnePlace'
<1> USE DEF DInv, DaemonTypeOK, OnePlace
<1>1. CASE Bystander
  BY <1>1 DEF Bystander
<1>2. ASSUME NEW a \in Actors, NEW l \in Listeners, Wake(a, l) PROVE OnePlace'
  <2>1. /\ holding' = holding /\ served' = served
        /\ \A k \in Listeners : backlog'[k] \cap Clients = backlog[k] \cap Clients
    BY <1>2 DEF Wake, DaemonAssumption
  <2> QED BY <2>1
<1>3. ASSUME NEW l \in Listeners, Admitted(l) \/ Refused(l) PROVE OnePlace'
  BY <1>3 DEF Admitted, Refused
<1>4. ASSUME NEW l \in Listeners, SpawnConnection(l) PROVE OnePlace'
  BY <1>4 DEF SpawnConnection
<1>5. ASSUME NEW l \in Listeners, SpawnConnectionFails(l) PROVE OnePlace'
  BY <1>5 DEF SpawnConnectionFails
<1>6. ASSUME NEW l \in Listeners, NEW c \in Clients \cup {Knock}, Accept(l, c) PROVE OnePlace'
  BY <1>6 DEF Accept
<1>7. ASSUME NEW l \in Listeners, NEW c \in Clients \cup {Knock}, AcceptLoses(l, c) PROVE OnePlace'
  BY <1>7 DEF AcceptLoses
<1>8. ASSUME NEW c \in Clients, Disconnect(c) PROVE OnePlace'
  BY <1>8 DEF Disconnect, loopVars
<1>9. ASSUME NEW c \in Clients, NEW l \in Listeners, Connect(c, l) PROVE OnePlace'
  BY <1>9 DEF Connect
<1> QED
  BY <1>1, <1>2, <1>3, <1>4, <1>5, <1>6, <1>7, <1>8, <1>9, ConnectionSteps

\* No listener is woken, and no wake-up call waits anywhere, before the flag is up.
LEMMA KnocksKept ==
    ASSUME DaemonAssumption, DInv, DaemonNext
    PROVE  KnocksFollowFlag'
<1> USE DEF DInv, DaemonTypeOK, KnocksFollowFlag, Spawning
<1>1. CASE Bystander
  BY <1>1 DEF Bystander
<1>2. ASSUME NEW a \in Actors, NEW l \in Listeners, Wake(a, l) PROVE KnocksFollowFlag'
  BY <1>2 DEF Wake, connState
<1>3. ASSUME NEW l \in Listeners, Admitted(l) PROVE KnocksFollowFlag'
  BY <1>3 DEF Admitted, MayAdmit, Admit, Goto, unlooped
<1>4. ASSUME NEW l \in Listeners, Refused(l) \/ SpawnConnection(l) PROVE KnocksFollowFlag'
  BY <1>4 DEF Refused, SpawnConnection, Goto, connState, unlooped
<1>5. ASSUME NEW l \in Listeners, SpawnConnectionFails(l) PROVE KnocksFollowFlag'
  BY <1>5 DEF SpawnConnectionFails, Release, Goto, unlooped
<1>6. ASSUME NEW l \in Listeners, NEW c \in Clients \cup {Knock}, Accept(l, c) \/ AcceptLoses(l, c)
      PROVE  KnocksFollowFlag'
  BY <1>6 DEF Accept, AcceptLoses, Goto, connState, unlooped
<1>7. ASSUME NEW c \in Clients, Disconnect(c) PROVE KnocksFollowFlag'
  BY <1>7 DEF Disconnect, Release, loopVars
<1>8. ASSUME NEW c \in Clients, NEW l \in Listeners, Connect(c, l) PROVE KnocksFollowFlag'
  BY <1>8 DEF Connect, connState, DaemonAssumption
<1> QED
  BY <1>1, <1>2, <1>3, <1>4, <1>5, <1>6, <1>7, <1>8, ConnectionSteps

\* Every step keeps the count of slots exact.
LEMMA CountKept ==
    ASSUME DaemonAssumption, DInv, DaemonNext
    PROVE  ActiveExact'
<1> DEFINE Counted == active' = Cardinality(served') + Cardinality(Spawning')
<1>1. /\ IsFiniteSet(served) /\ IsFiniteSet(Spawning)
      /\ Cardinality(served) \in Nat /\ Cardinality(Spawning) \in Nat
  BY FS_Subset, FS_CardinalityType DEF DInv, DaemonTypeOK, Spawning, DaemonAssumption
<1>2. active = Cardinality(served) + Cardinality(Spawning)
  BY DEF DInv, ActiveExact, Spawning
<1>3. active' <= server'.connections
  <2>1. active' \in 0 .. server'.connections
    BY TypeKept DEF DaemonTypeOK
  <2>2. server'.connections \in Nat
    BY DEF DInv, ServerTyped, DaemonNext
  <2> QED BY <2>1, <2>2
<1>4. SUFFICES Counted
  BY <1>3 DEF ActiveExact, Spawning
<1>5. ASSUME NEW l \in Listeners, loop' = [loop EXCEPT ![l] = "accepting"], l \in Spawning
      PROVE  Cardinality(Spawning') = Cardinality(Spawning) - 1
  <2>1. Spawning' = Spawning \ {l}
    BY <1>5 DEF Spawning, DInv, DaemonTypeOK
  <2> QED BY <1>1, <1>5, <2>1, FS_RemoveElement
<1>6. CASE Bystander
  BY <1>2, <1>6 DEF Bystander
<1>7. ASSUME NEW a \in Actors, NEW l \in Listeners, Wake(a, l) PROVE Counted
  BY <1>2, <1>7 DEF Wake, connState, Spawning
<1>8. ASSUME NEW l \in Listeners, Admitted(l) PROVE Counted
  <2>1. l \notin Spawning /\ Spawning' = Spawning \cup {l}
    BY <1>8 DEF Admitted, Goto, Spawning, DInv, DaemonTypeOK
  <2>2. Cardinality(Spawning') = Cardinality(Spawning) + 1
    BY <1>1, <2>1, FS_AddElement
  <2> QED BY <1>1, <1>2, <1>8, <2>2 DEF Admitted, Admit
<1>9. ASSUME NEW l \in Listeners, Refused(l) PROVE Counted
  <2>1. Spawning' = Spawning
    BY <1>9 DEF Refused, Goto, Spawning, DInv, DaemonTypeOK
  <2> QED BY <1>2, <1>9, <2>1 DEF Refused, connState
<1>10. ASSUME NEW l \in Listeners, SpawnConnection(l) PROVE Counted
  <2>1. l \in Spawning /\ Cardinality(Spawning') = Cardinality(Spawning) - 1
    BY <1>5, <1>10 DEF SpawnConnection, Goto, Spawning
  <2>2. PICK c \in Clients : holding[l] = {c} /\ c \notin served
    BY <2>1 DEF DInv, DaemonTypeOK, OnePlace, KnocksFollowFlag, Spawning
  <2>3. served' = served \cup {c}
    BY <1>10, <2>2 DEF SpawnConnection
  <2>4. Cardinality(served') = Cardinality(served) + 1
    BY <1>1, <2>2, <2>3, FS_AddElement
  <2> QED BY <1>1, <1>2, <1>10, <2>1, <2>4 DEF SpawnConnection, connState
<1>11. ASSUME NEW l \in Listeners, SpawnConnectionFails(l) PROVE Counted
  <2>1. l \in Spawning /\ Cardinality(Spawning') = Cardinality(Spawning) - 1
    BY <1>5, <1>11 DEF SpawnConnectionFails, Goto, Spawning
  <2>2. Cardinality(Spawning) # 0
    BY <1>1, <2>1, FS_EmptySet
  <2> QED BY <1>1, <1>2, <1>11, <2>1, <2>2 DEF SpawnConnectionFails, Release
<1>12. ASSUME NEW l \in Listeners, NEW c \in Clients \cup {Knock}, Accept(l, c) \/ AcceptLoses(l, c)
       PROVE  Counted
  <2>1. Spawning' = Spawning
    BY <1>12 DEF Accept, AcceptLoses, Goto, Spawning, DInv, DaemonTypeOK
  <2> QED BY <1>2, <1>12, <2>1 DEF Accept, AcceptLoses, connState
<1>13. ASSUME NEW c \in Clients, Disconnect(c) PROVE Counted
  <2>1. Cardinality(served') = Cardinality(served) - 1 /\ Cardinality(served) # 0
    BY <1>1, <1>13, FS_RemoveElement, FS_EmptySet DEF Disconnect
  <2>2. Spawning' = Spawning
    BY <1>13 DEF Disconnect, loopVars, Spawning
  <2> QED BY <1>1, <1>2, <1>13, <2>1, <2>2 DEF Disconnect, Release
<1>14. ASSUME NEW c \in Clients, NEW l \in Listeners, Connect(c, l) PROVE Counted
  BY <1>2, <1>14 DEF Connect, connState, Spawning
<1> QED
  BY <1>6, <1>7, <1>8, <1>9, <1>10, <1>11, <1>12, <1>13, <1>14, ConnectionSteps

\* run moves to its next stage only with what that stage relies on, and no
\* thread that has ended starts again.
LEMMA StagesKept ==
    ASSUME DaemonAssumption, DInv, DaemonNext
    PROVE  Stages'
<1> USE DEF DInv, DaemonTypeOK, Stages, LoopsJoined
<1>1. server' = server
  BY DEF DaemonNext
<1>2. ASSUME NEW a \in Actors, NEW l \in Listeners, Wake(a, l) PROVE Stages'
  BY <1>1, <1>2 DEF Wake, watchVars
<1>3. CASE MainThread \/ StartLoopFails
  <2>1. ASSUME NEW l \in Listeners, StartLoop(l) PROVE Stages'
    BY <1>1, <2>1 DEF StartLoop, Goto, unmain, watchVars
  <2>2. CASE StartPrimary
    BY <1>1, <2>2 DEF StartPrimary, Goto, unmain, watchVars, DaemonAssumption
  <2>3. CASE StartLoopFails \/ PrimaryEnds \/ MainFlags
    BY <1>1, <2>3 DEF StartLoopFails, PrimaryEnds, MainFlags, loopVars, unmain, watchVars
  <2>4. CASE MainProceeds
    BY <1>1, <2>4 DEF MainProceeds, loopVars, unmain, watchVars
  <2> QED BY <1>2, <1>3, <2>1, <2>2, <2>3, <2>4 DEF MainThread, Actors
<1>4. CASE IdleWatcher \/ BusyPanics
  <2>1. CASE WindowOpens \/ AskBusy \/ BusyPanics \/ Relock \/ IdleFlags \/ IdleEnds
    <3>1. watcher \notin {"gone", "panicked"} /\ UNCHANGED <<main, loop>>
      BY <2>1 DEF WindowOpens, AskBusy, BusyPanics, Relock, IdleFlags, IdleEnds, unwatched, loopVars
    <3> QED BY <1>1, <3>1
  <2>2. ASSUME NEW timedOut \in BOOLEAN, WindowEnds(timedOut) PROVE Stages'
    <3>1. watcher = "window" /\ UNCHANGED <<main, loop>>
      BY <2>2 DEF WindowEnds, unwatched, loopVars
    <3> QED BY <1>1, <3>1
  <2> QED BY <1>2, <1>4, <2>1, <2>2 DEF IdleWatcher, Actors
<1>5. CASE SignalWatcher \/ SignalArrives
  BY <1>1, <1>2, <1>5 DEF SignalWatcher, PipeCloses, SignalFlags, SignalEnds, SignalArrives,
                          unsignalled, loopVars, watchVars, Actors
<1>6. ASSUME NEW l \in Listeners, NEW next \in LoopStates, loop[l] \notin {"unstarted", "done"},
             loop' = [loop EXCEPT ![l] = next], UNCHANGED unlooped
      PROVE  Stages'
  BY <1>1, <1>6 DEF unlooped, watchVars, DaemonAssumption
<1>7. ASSUME NEW l \in Listeners,
             \/ AcceptLoop(l) \/ AcceptFails(l) \/ SpawnConnectionFails(l)
             \/ \E c \in Clients \cup {Knock} : AcceptLoses(l, c)
      PROVE  Stages'
  <2>1. /\ loop[l] \notin {"unstarted", "done"} /\ UNCHANGED unlooped
        /\ \E next \in LoopStates : loop' = [loop EXCEPT ![l] = next]
    BY <1>7 DEF AcceptLoop, Accept, BackOff, Admitted, Refused, SpawnConnection, AcceptFails,
                SpawnConnectionFails, AcceptLoses, Goto, LoopStates
  <2> QED BY <1>6, <2>1
<1>8. ASSUME NEW c \in Clients, Disconnect(c) \/ \E l \in Listeners : Connect(c, l) PROVE Stages'
  BY <1>1, <1>8 DEF Disconnect, Connect, loopVars, watchVars
<1>9. CASE BusyChanges
  BY <1>1, <1>9 DEF BusyChanges, loopVars, watchVars
<1> QED
  BY <1>3, <1>4, <1>5, <1>7, <1>8, <1>9 DEF DaemonNext, Step

\* Nobody is admitted without the generation moving on.
LEMMA WindowKept ==
    ASSUME DaemonAssumption, DInv, DaemonNext
    PROVE  WindowHonest'
<1> USE DEF DInv, DaemonTypeOK, WindowHonest
<1>1. CASE WindowOpens
  BY <1>1 DEF WindowOpens, connState
<1>2. ASSUME NEW timedOut \in BOOLEAN, WindowEnds(timedOut) PROVE WindowHonest'
  BY <1>2 DEF WindowEnds, connState
<1>3. CASE AskBusy \/ BusyPanics \/ IdleEnds
  BY <1>3 DEF AskBusy, BusyPanics, IdleEnds, connState
<1>4. CASE Relock
  BY <1>4 DEF Relock, connState
<1>5. CASE IdleFlags
  BY <1>5 DEF IdleFlags, Flag
<1>6. ASSUME NEW l \in Listeners, Admitted(l) PROVE WindowHonest'
  BY <1>6 DEF Admitted, Admit, unlooped, watchVars
<1>7. ASSUME UNCHANGED <<generation, watchVars, sinceIdle>> PROVE WindowHonest'
  BY <1>7 DEF watchVars
<1>8. \/ UNCHANGED <<generation, watchVars, sinceIdle>>
      \/ IdleWatcher \/ BusyPanics
      \/ \E l \in Listeners : Admitted(l)
  <2>1. CASE MainThread \/ StartLoopFails
    BY <2>1 DEF MainThread, StartLoopFails, StartLoop, StartPrimary, PrimaryEnds, MainFlags, Flag,
                MainProceeds, Wake, connState, unmain
  <2>2. CASE SignalWatcher \/ SignalArrives
    BY <2>2 DEF SignalWatcher, SignalArrives, PipeCloses, SignalFlags, SignalEnds, Flag, Wake,
                connState, unsignalled
  <2>3. ASSUME NEW l \in Listeners,
               \/ AcceptLoop(l) \/ AcceptFails(l) \/ SpawnConnectionFails(l)
               \/ \E c \in Clients \cup {Knock} : AcceptLoses(l, c)
        PROVE  Admitted(l) \/ UNCHANGED <<generation, watchVars, sinceIdle>>
    BY <2>3 DEF AcceptLoop, Accept, BackOff, Refused, SpawnConnection, AcceptFails,
                SpawnConnectionFails, Release, AcceptLoses, connState, unlooped
  <2>4. ASSUME NEW c \in Clients, Disconnect(c) \/ \E l \in Listeners : Connect(c, l)
        PROVE  UNCHANGED <<generation, watchVars, sinceIdle>>
    BY <2>4 DEF Disconnect, Release, Connect, connState
  <2>5. CASE BusyChanges
    BY <2>5 DEF BusyChanges, connState
  <2> QED BY <2>1, <2>2, <2>3, <2>4, <2>5 DEF DaemonNext, Step
<1>9. ASSUME NEW l \in Listeners, Wake("idle", l) PROVE WindowHonest'
  BY <1>7, <1>9 DEF Wake, connState
<1> QED
  BY <1>1, <1>2, <1>3, <1>4, <1>5, <1>6, <1>7, <1>8, <1>9 DEF IdleWatcher

\* The invariant is inductive.
LEMMA NextInv == DaemonAssumption /\ DInv /\ [DaemonNext]_daemonVars => DInv'
<1> SUFFICES ASSUME DaemonAssumption, DInv, [DaemonNext]_daemonVars PROVE DInv'
  OBVIOUS
<1>1. CASE DaemonNext
  <2>1. ServerTyped'
    BY <1>1 DEF DaemonNext, DInv, ServerTyped
  <2> QED
    BY <1>1, <2>1, TypeKept, OnePlaceKept, KnocksKept, CountKept, StagesKept, WindowKept DEF DInv
<1>2. CASE UNCHANGED daemonVars
  BY <1>2 DEF daemonVars, connState, loopVars, watchVars, DInv, DaemonTypeOK, ServerTyped, OnePlace,
              KnocksFollowFlag, Spawning, ActiveExact, Stages, LoopsJoined, WindowHonest
<1> QED BY <1>1, <1>2

\* What the theorems below rest on holds in every reachable state.
THEOREM InvariantHolds == DaemonSpec => []DInv
BY DaemonAssumption, InitInv, NextInv, PTL DEF DaemonSpec

\* The daemon's count of connections is the number that hold a slot and stays
\* within its ceiling, for any number of listeners, clients and failed threads.
THEOREM CountIsExact == DaemonSpec => []ActiveExact
<1>1. DInv => ActiveExact
  BY DEF DInv
<1> QED BY <1>1, InvariantHolds, PTL

\* Whatever ends the daemon, its socket is unlinked only after the idle watcher
\* and every accept loop have ended.
THEOREM CleanupIsLast == DaemonSpec => []QuietBeforeCleanup
<1>1. DaemonAssumption /\ DInv => QuietBeforeCleanup
  BY DEF DInv, Stages, LoopsJoined, QuietBeforeCleanup, DaemonAssumption
<1> QED BY <1>1, DaemonAssumption, InvariantHolds, PTL

\* The idle watcher decides to exit only when nobody is connected, nobody came
\* since its window opened, and the application did not object.
THEOREM DecidesOnFacts == DaemonSpec => IdleDecision
<1> DEFINE Decides == watcher' = "flagging" /\ watcher # "flagging" =>
                         active = 0 /\ sinceIdle = {} /\ (server.busy => ~vetoed)
<1>1. DaemonAssumption /\ DInv /\ [DaemonNext]_daemonVars => [Decides]_daemonVars
  <2> SUFFICES ASSUME DaemonAssumption, DInv, DaemonNext, watcher' = "flagging", watcher # "flagging"
               PROVE  active = 0 /\ sinceIdle = {} /\ (server.busy => ~vetoed)
    OBVIOUS
  <2>1. ASSUME NEW timedOut \in BOOLEAN, WindowEnds(timedOut)
        PROVE  active = 0 /\ sinceIdle = {} /\ (server.busy => ~vetoed)
    BY <2>1 DEF WindowEnds, DInv, WindowHonest
  <2>2. CASE Relock
    BY <2>2 DEF Relock, DInv, WindowHonest
  <2>3. \/ Relock \/ \E timedOut \in BOOLEAN : WindowEnds(timedOut)
        \/ watcher' = watcher \/ watcher' # "flagging"
    <3>1. CASE IdleWatcher \/ BusyPanics
      BY <3>1 DEF IdleWatcher, BusyPanics, WindowOpens, AskBusy, IdleFlags, IdleEnds, Wake, watchVars
    <3>2. CASE MainThread \/ StartLoopFails
      BY <3>2 DEF MainThread, StartLoopFails, StartLoop, StartPrimary, PrimaryEnds, MainFlags,
                  MainProceeds, Wake, unmain, watchVars
    <3>3. CASE SignalWatcher \/ SignalArrives
      BY <3>3 DEF SignalWatcher, SignalArrives, PipeCloses, SignalFlags, SignalEnds, Wake,
                  unsignalled, watchVars
    <3>4. ASSUME NEW l \in Listeners,
                 \/ AcceptLoop(l) \/ AcceptFails(l) \/ SpawnConnectionFails(l)
                 \/ \E c \in Clients \cup {Knock} : AcceptLoses(l, c)
          PROVE  watcher' = watcher
      BY <3>4 DEF AcceptLoop, Accept, BackOff, Admitted, Refused, SpawnConnection, AcceptFails,
                  SpawnConnectionFails, AcceptLoses, unlooped, watchVars
    <3>5. ASSUME NEW c \in Clients, Disconnect(c) \/ \E l \in Listeners : Connect(c, l)
          PROVE  watcher' = watcher
      BY <3>5 DEF Disconnect, Connect, watchVars
    <3>6. CASE BusyChanges
      BY <3>6 DEF BusyChanges, watchVars
    <3> QED BY <3>1, <3>2, <3>3, <3>4, <3>5, <3>6 DEF DaemonNext, Step
  <2> QED BY <2>1, <2>2, <2>3
<1> QED BY <1>1, DaemonAssumption, InvariantHolds, PTL DEF DaemonSpec, IdleDecision

-----------------------------------------------------------------------------
(* The lines, for any script, any ceilings, any buffer and any writers.     *)
(*                                                                          *)
(* Framed needs that a line that is taken for too long exceeds one of the   *)
(* ceilings it has met; WholeLines that only the holder of the lock is      *)
(* between its message and its newline.                                     *)

Texts == {"message", "garbage", "latin"}

ScriptLine == [end : Nat \ {0}, text : Texts]
Result     == [what : Texts \cup {"too long"}, under : Seq(Nat)]

Ordered ==
    /\ script \in Seq(ScriptLine)
    /\ \A i, j \in DOMAIN script : i < j => script[i].end < script[j].end

LineTyped ==
    /\ Ordered
    /\ filled \in Nat /\ consumed \in Nat /\ sent \in Nat /\ consumed <= filled
    /\ maxBytes \in Nat /\ overflowed \in BOOLEAN /\ under \in Seq(Nat)
    /\ results \in Seq(Result)

\* A line overflows only a ceiling it met.
OverSomething ==
    overflowed => \E k \in DOMAIN under : under[k] < consumed - Begun

FInv == LineTyped /\ Framed /\ OverSomething

LEMMA Limited == FramingAssumption => \A max \in Limits : Clamped(max) \in Nat
    BY DEF FramingAssumption, Clamped

\* The lines as numbers.
LEMMA ScriptFacts ==
    ASSUME Ordered
    PROVE  /\ Len(script) \in Nat /\ DOMAIN script = 1..Len(script)
           /\ \A i \in 1..Len(script) :
                script[i].end \in Nat /\ script[i].end > 0 /\ script[i].text \in Texts
           /\ \A i, j \in 1..Len(script) : i < j => script[i].end < script[j].end
<1>1. \A line \in ScriptLine : line.end \in Nat /\ line.end > 0 /\ line.text \in Texts
    BY DEF ScriptLine
<1>2. Len(script) \in Nat /\ DOMAIN script = 1..Len(script)
    BY DEF Ordered
<1>3. \A i \in 1..Len(script) : script[i] \in ScriptLine
    BY DEF Ordered
<1> QED
    BY <1>1, <1>2, <1>3 DEF Ordered

LEMMA InitFInv == FramingAssumption /\ FramingInit => FInv
<1> SUFFICES ASSUME FramingAssumption, FramingInit PROVE FInv
    OBVIOUS
<1>1. /\ filled = 0 /\ consumed = 0 /\ partial = <<>> /\ overflowed = FALSE
      /\ results = <<>> /\ under = <<>> /\ sent = 0
      /\ \E max \in Limits : maxBytes = Clamped(max)
      /\ \E c \in Conversations : script = c.lines
    BY DEF FramingInit
<1>2. LineTyped
  <2>1. maxBytes \in Nat
    BY <1>1, Limited
  <2>2. Ordered
    BY <1>1 DEF FramingAssumption, Texts, ScriptLine, Ordered
  <2>3. under \in Seq(Nat) /\ results \in Seq(Result)
    BY <1>1
  <2>4. filled \in Nat /\ consumed \in Nat /\ sent \in Nat /\ consumed <= filled
    BY <1>1
  <2>5. overflowed \in BOOLEAN
    BY <1>1
  <2> QED
    BY <2>1, <2>2, <2>3, <2>4, <2>5 DEF LineTyped
<1>3. Begun = 0 /\ Len(results) = 0
    BY <1>1 DEF Begun, Begin
<1>4. Framed
  <2>1. Len(script) \in Nat /\ (Len(script) > 0 => script[1].end > 0)
    BY <1>2, ScriptFacts DEF LineTyped
  <2>2. partial = [k \in 1..0 |-> 0 + k]
    BY <1>1
  <2> QED
    BY <1>1, <1>3, <2>1, <2>2 DEF Framed, InLine, Judged, KeptWhole
<1> QED
    BY <1>1, <1>2, <1>4 DEF FInv, OverSomething

\* Nothing but a chunk taken from the buffer changes what has been made of it.
LEMMA QuietKeeps ==
    ASSUME FInv, UNCHANGED <<script, consumed, partial, overflowed, under, results>>,
           filled' \in Nat, filled <= filled', sent' \in Nat, maxBytes' \in Nat
    PROVE  FInv'
<1>1. LineTyped'
    BY DEF FInv, LineTyped, Ordered
<1>2. Framed'
  <2>1. InLine' /\ KeptWhole'
    BY DEF FInv, Framed, InLine, KeptWhole, Begun, Begin
  <2>2. Judged'
    BY DEF FInv, Framed, Judged, ReadAs, Begin, Size
  <2> QED
    BY <2>1, <2>2 DEF Framed
<1>3. OverSomething'
    BY DEF FInv, OverSomething, Begun, Begin
<1> QED
    BY <1>1, <1>2, <1>3 DEF FInv

\* What HeldTo adds.
LEMMA HeldToHas ==
    ASSUME LineTyped
    PROVE  /\ HeldTo \in Seq(Nat)
           /\ \E k \in DOMAIN HeldTo : HeldTo[k] = maxBytes
           /\ \A k \in DOMAIN under : k \in DOMAIN HeldTo /\ HeldTo[k] = under[k]
<1>1. under \in Seq(Nat) /\ maxBytes \in Nat
    BY DEF LineTyped
<1>2. CASE under # <<>> /\ under[Len(under)] = maxBytes
  <2>1. Len(under) \in DOMAIN under /\ under[Len(under)] = maxBytes
    BY <1>1, <1>2
  <2> QED
    BY <1>1, <1>2, <2>1 DEF HeldTo
<1>3. CASE ~(under # <<>> /\ under[Len(under)] = maxBytes)
  <2>1. HeldTo = Append(under, maxBytes)
    BY <1>3 DEF HeldTo
  <2>2. /\ HeldTo \in Seq(Nat) /\ DOMAIN HeldTo = 1..(Len(under) + 1)
        /\ HeldTo[Len(under) + 1] = maxBytes
        /\ \A k \in 1..Len(under) : HeldTo[k] = under[k]
        /\ DOMAIN under = 1..Len(under) /\ Len(under) \in Nat
    BY <1>1, <2>1
  <2> QED
    BY <2>2
<1> QED
    BY <1>2, <1>3

\* The next newline is that of the line the reader is in.
LEMMA NewlineIsNext ==
    ASSUME FInv, Newlines # {}
    PROVE  /\ Len(results) < Len(script)
           /\ FirstNewline = script[Len(results) + 1].end
           /\ FirstNewline \in (consumed + 1)..filled
<1> DEFINE d == Len(results)
<1>1. /\ d \in Nat /\ Len(script) \in Nat /\ DOMAIN script = 1..Len(script)
      /\ consumed \in Nat /\ filled \in Nat
      /\ \A i \in 1..Len(script) : script[i].end \in Nat
      /\ \A i, j \in 1..Len(script) : i < j => script[i].end < script[j].end
    BY ScriptFacts DEF FInv, LineTyped
<1>2. /\ d <= Len(script)
      /\ d < Len(script) => consumed < script[d + 1].end
      /\ d > 0 => script[d].end <= consumed
    BY <1>1 DEF FInv, Framed, InLine, Begun, Begin
<1> HIDE DEF d
<1>3. PICK i \in 1..Len(script) : script[i].end \in (consumed + 1)..filled
    BY <1>1 DEF Newlines, Ends
<1>4. i > d
  <2> SUFFICES ASSUME i <= d PROVE FALSE
    BY <1>1
  <2>1. script[i].end <= script[d].end
    BY <1>1, <1>2
  <2> QED
    BY <2>1, <1>1, <1>2, <1>3
<1>5. d + 1 \in 1..Len(script) /\ script[d + 1].end <= script[i].end
  <2>1. i \in 1..Len(script) /\ d + 1 \in 1..Len(script) /\ d + 1 <= i
    BY <1>1, <1>3, <1>4
  <2>2. CASE d + 1 = i
    BY <2>1, <2>2, <1>1
  <2>3. CASE d + 1 < i
    BY <2>1, <2>3, <1>1
  <2> QED
    BY <2>1, <2>2, <2>3, <1>1
<1>6. script[d + 1].end \in Newlines
  <2>1. script[d + 1].end \in (consumed + 1)..filled
    BY <1>1, <1>2, <1>3, <1>5
  <2> QED
    BY <2>1, <1>1, <1>5 DEF Newlines, Ends
<1>7. \A e \in Newlines : e \in Nat /\ script[d + 1].end <= e
  <2> SUFFICES ASSUME NEW e \in Newlines PROVE e \in Nat /\ script[d + 1].end <= e
    OBVIOUS
  <2>1. PICK j \in 1..Len(script) : e = script[j].end /\ e \in (consumed + 1)..filled
    BY <1>1 DEF Newlines, Ends
  <2>2. j > d
    <3> SUFFICES ASSUME j <= d PROVE FALSE
      BY <1>1
    <3>1. script[j].end <= script[d].end
      BY <1>1, <1>2
    <3> QED
      BY <3>1, <2>1, <1>1, <1>2
  <2> QED
    BY <2>1, <2>2, <1>1, <1>5
<1>8. FirstNewline = script[d + 1].end
  <2>1. \E end \in Newlines : \A e \in Newlines : end <= e
    BY <1>6, <1>7
  <2>2. FirstNewline \in Newlines /\ \A e \in Newlines : FirstNewline <= e
    BY <2>1 DEF FirstNewline
  <2> QED
    BY <2>2, <1>6, <1>7
<1> QED
    BY <1>6, <1>8, <1>5, <1>1 DEF d, Newlines

\* Two stretches of bytes that meet are one.
LEMMA Meet ==
    ASSUME NEW b \in Nat, NEW c \in Nat, NEW u \in Nat, b <= c, c <= u
    PROVE  [k \in 1..(c - b) |-> b + k] \o [k \in 1..(u - c) |-> c + k] = [k \in 1..(u - b) |-> b + k]
<1> DEFINE one == [k \in 1..(c - b) |-> b + k]
           two == [k \in 1..(u - c) |-> c + k]
           both == [k \in 1..(u - b) |-> b + k]
<1>1. c - b \in Nat /\ u - c \in Nat /\ u - b \in Nat
    OBVIOUS
<1>2. one \in Seq(Nat) /\ two \in Seq(Nat) /\ both \in Seq(Nat)
    BY <1>1
<1>3. Len(one) = c - b /\ Len(two) = u - c /\ Len(both) = u - b
    BY <1>1
<1>4. one \o two \in Seq(Nat) /\ Len(one \o two) = u - b
    BY <1>1, <1>2, <1>3
<1>5. ASSUME NEW k \in 1..(u - b) PROVE (one \o two)[k] = both[k]
  <2>1. CASE k <= c - b
    <3>1. (one \o two)[k] = one[k]
      BY <2>1, <1>1, <1>2, <1>3
    <3> QED
      BY <3>1, <2>1, <1>1
  <2>2. CASE k > c - b
    <3>1. (one \o two)[k] = two[k - (c - b)]
      BY <2>2, <1>1, <1>2, <1>3
    <3>2. k - (c - b) \in 1..(u - c)
      BY <2>2, <1>1
    <3>3. two[k - (c - b)] = c + (k - (c - b))
      BY <3>2
    <3> QED
      BY <3>1, <3>3
  <2> QED
    BY <2>1, <2>2, <1>1
<1> HIDE DEF one, two, both
<1>6. one \o two = both
    BY <1>2, <1>3, <1>4, <1>5, SeqEqual
<1> QED
    BY <1>6 DEF one, two, both

\* A whole line is recognised for what it is.
LEMMA WholeLine ==
    ASSUME Ordered, NEW i \in 1..Len(script)
    PROVE  Finished(BytesOf(i), FALSE) = script[i].text
<1>1. /\ Len(script) \in Nat /\ DOMAIN script = 1..Len(script)
      /\ \A j \in 1..Len(script) : script[j].end \in Nat /\ script[j].end > 0
      /\ \A j, m \in 1..Len(script) : j < m => script[j].end < script[m].end
    BY ScriptFacts
<1>2. \A j \in 1..Len(script) : Begin(j) \in Nat /\ Size(j) \in Nat /\ Size(j) > 0
                                /\ Begin(j) + Size(j) = script[j].end
  <2> SUFFICES ASSUME NEW j \in 1..Len(script)
               PROVE  Begin(j) \in Nat /\ Size(j) \in Nat /\ Size(j) > 0 /\ Begin(j) + Size(j) = script[j].end
    OBVIOUS
  <2>1. script[j].end \in Nat /\ script[j].end > 0
    BY <1>1
  <2>2. CASE j = 1
    BY <2>1, <2>2 DEF Begin, Size
  <2>3. CASE j # 1
    <3>1. j - 1 \in 1..Len(script) /\ j - 1 < j
      BY <2>3, <1>1
    <3>2. script[j - 1].end \in Nat /\ script[j - 1].end < script[j].end
      BY <3>1, <1>1
    <3> QED
      BY <2>1, <2>3, <3>2 DEF Begin, Size
  <2> QED
    BY <2>2, <2>3
<1>3. ASSUME NEW j \in 1..Len(script), BytesOf(j) = BytesOf(i) PROVE j = i
  <2>1. DOMAIN BytesOf(j) = 1 .. Size(j) /\ DOMAIN BytesOf(i) = 1 .. Size(i)
    BY DEF BytesOf
  <2>2. Size(j) = Size(i)
    BY <2>1, <1>2, <1>3
  <2>3. BytesOf(j)[Size(j)] = script[j].end /\ BytesOf(i)[Size(i)] = script[i].end
    BY <1>2 DEF BytesOf
  <2>4. script[j].end = script[i].end
    BY <2>2, <2>3, <1>3
  <2> QED
    BY <2>4, <1>1
<1>4. {j \in DOMAIN script : BytesOf(i) = BytesOf(j)} = {i}
    BY <1>1, <1>3
<1> QED
    BY <1>4 DEF Finished

\* A chunk is taken.
LEMMA ChunkKeeps == ASSUME FInv, TakeChunk PROVE FInv'
<1>1. PICK d \in Nat, b \in Nat, c \in Nat :
        /\ d = Len(results) /\ b = Begun /\ c = consumed /\ b <= c
        /\ d <= Len(script)
        /\ d < Len(script) => c < script[d + 1].end
        /\ partial = IF overflowed THEN <<>> ELSE [k \in 1..(c - b) |-> b + k]
  <2>1. Len(results) \in Nat /\ consumed \in Nat
    BY DEF FInv, LineTyped
  <2>2. Len(results) <= Len(script)
    BY DEF FInv, Framed, InLine
  <2>3. Begun \in Nat
    BY <2>1, <2>2, ScriptFacts DEF Begun, Begin, FInv, LineTyped
  <2> QED
    BY <2>1, <2>2, <2>3 DEF FInv, Framed, InLine, KeptWhole
<1> DEFINE ends  == Newlines # {}
           upto  == IF ends THEN FirstNewline ELSE filled
           chunk == [k \in 1..(upto - consumed) |-> consumed + k]
           over  == overflowed \/ ~Fits(partial, chunk)
           kept  == IF over THEN <<>> ELSE partial \o chunk
<1>2. /\ reader = "waiting" /\ filled > consumed
      /\ consumed' = upto
      /\ partial' = IF ends THEN <<>> ELSE kept
      /\ overflowed' = (over /\ ~ends)
      /\ under' = IF ends THEN <<>> ELSE HeldTo
      /\ results' = IF ends THEN Append(results, [what |-> Finished(kept, over), under |-> HeldTo])
                    ELSE results
      /\ UNCHANGED <<script, sent, filled, maxBytes>>
    BY DEF TakeChunk, peerVars
<1>3. /\ Ordered /\ LineTyped /\ results \in Seq(Result)
      /\ filled \in Nat /\ sent \in Nat /\ maxBytes \in Nat /\ overflowed \in BOOLEAN
    BY DEF FInv, LineTyped
<1>4. ends => d < Len(script) /\ upto = script[d + 1].end /\ upto \in (c + 1)..filled
    BY <1>1, NewlineIsNext
<1>5. PICK u \in Nat : u = upto /\ c < u /\ u <= filled /\ b <= u
    BY <1>1, <1>2, <1>3, <1>4
<1> HIDE DEF ends, upto
<1>6. chunk = [k \in 1..(u - c) |-> c + k] /\ Len(chunk) = u - c
    BY <1>1, <1>5
<1>7. /\ ~overflowed => partial \o chunk = [k \in 1..(u - b) |-> b + k]
      /\ ~overflowed => (Fits(partial, chunk) <=> u - b <= maxBytes)
  <2> SUFFICES ASSUME ~overflowed PROVE /\ partial \o chunk = [k \in 1..(u - b) |-> b + k]
                                        /\ Fits(partial, chunk) <=> u - b <= maxBytes
    OBVIOUS
  <2>1. partial = [k \in 1..(c - b) |-> b + k]
    BY <1>1
  <2>2. Len(partial) = c - b
    BY <2>1, <1>1
  <2>3. c - b + (u - c) = u - b
    BY <1>1
  <2>4. partial \o chunk = [k \in 1..(u - b) |-> b + k]
    <3> HIDE DEF chunk
    <3>1. [k \in 1..(c - b) |-> b + k] \o [k \in 1..(u - c) |-> c + k] = [k \in 1..(u - b) |-> b + k]
      <4>1. b \in Nat /\ c \in Nat /\ u \in Nat /\ b <= c /\ c <= u
        BY <1>1, <1>5
      <4> QED
        BY <4>1, Meet
    <3> QED
      BY <3>1, <1>6, <2>1
  <2>5. Len(partial) + Len(chunk) = u - b
    <3> HIDE DEF chunk
    <3> QED
      BY <1>6, <2>2, <2>3
  <2> HIDE DEF chunk
  <2> QED
    BY <2>4, <2>5 DEF Fits
<1> HIDE DEF chunk
<1>8. /\ ~over => kept = [k \in 1..(u - b) |-> b + k] /\ u - b <= maxBytes
      /\ over => kept = <<>>
    BY <1>7
<1>9. over => \E k \in DOMAIN HeldTo : HeldTo[k] < u - b
  <2>1. CASE overflowed
    <3>1. PICK k \in DOMAIN under : under[k] < c - b
      BY <2>1, <1>1 DEF FInv, OverSomething
    <3>2. k \in DOMAIN HeldTo /\ HeldTo[k] = under[k] /\ HeldTo[k] \in Nat
      BY <3>1, <1>3, HeldToHas
    <3> QED
      BY <3>1, <3>2, <1>1, <1>5
  <2>2. CASE ~overflowed /\ over
    <3>1. u - b > maxBytes
      BY <2>2, <1>1, <1>3, <1>7
    <3> QED
      BY <3>1, <1>3, HeldToHas
  <2> QED
    BY <2>1, <2>2
<1>10. over \in BOOLEAN
    BY <1>3 DEF over
<1> HIDE DEF over, kept
<1>11. CASE ~ends
  <2>1. /\ consumed' = u /\ partial' = kept /\ (overflowed' <=> over) /\ overflowed' \in BOOLEAN
        /\ under' = HeldTo /\ results' = results /\ upto = filled
    BY <1>2, <1>5, <1>10, <1>11 DEF upto
  <2>2. LineTyped'
    BY <2>1, <1>2, <1>3, <1>5, HeldToHas DEF LineTyped, Ordered
  <2>3. Begun' = b /\ Len(results') = d
    BY <2>1, <1>1, <1>2 DEF Begun, Begin
  <2>4. d < Len(script) => u < script[d + 1].end
    <3> SUFFICES ASSUME d < Len(script), script[d + 1].end <= u PROVE FALSE
      BY <1>1, <1>3, <1>5, ScriptFacts
    <3>1. d + 1 \in DOMAIN script /\ script[d + 1].end \in Nat
      BY <1>1, <1>3, ScriptFacts
    <3>2. script[d + 1].end \in (c + 1)..filled
      BY <3>1, <1>1, <1>3, <1>5
    <3>3. script[d + 1].end \in Newlines
      BY <3>1, <3>2, <1>1 DEF Newlines, Ends
    <3> QED
      BY <3>3, <1>11 DEF ends
  <2>5. partial' = IF overflowed' THEN <<>> ELSE [k \in 1..(u - b) |-> b + k]
    BY <2>1, <1>8
  <2>6. Judged'
    BY <2>1, <1>2 DEF FInv, Framed, Judged, ReadAs, Size, Begin
  <2>7. Framed'
    BY <2>1, <2>3, <2>4, <2>5, <2>6, <1>1, <1>2, <1>5 DEF Framed, InLine, KeptWhole
  <2>8. OverSomething'
    BY <2>1, <2>3, <1>9 DEF OverSomething
  <2> QED
    BY <2>2, <2>7, <2>8 DEF FInv
<1>12. CASE ends
  <2>1. /\ consumed' = u /\ partial' = <<>> /\ overflowed' = FALSE /\ under' = <<>>
        /\ results' = Append(results, [what |-> Finished(kept, over), under |-> HeldTo])
    BY <1>2, <1>5, <1>12
  <2>2. d < Len(script) /\ u = script[d + 1].end
    BY <1>4, <1>5, <1>12
  <2>3. d + 1 \in 1..Len(script) /\ Size(d + 1) = u - b /\ Begin(d + 1) = b
    BY <2>2, <1>1, <1>3, ScriptFacts DEF Size, Begun
  <2>4. BytesOf(d + 1) = [k \in 1..(u - b) |-> b + k]
    BY <2>3 DEF BytesOf
  <2>5. ~over => Finished(kept, over) = script[d + 1].text
    <3> SUFFICES ASSUME ~over PROVE Finished(kept, over) = script[d + 1].text
      OBVIOUS
    <3>1. kept = BytesOf(d + 1) /\ over = FALSE
      BY <2>4, <1>8, <1>10
    <3>2. Finished(BytesOf(d + 1), FALSE) = script[d + 1].text
      BY <2>3, <1>3, WholeLine
    <3> QED
      BY <3>1, <3>2
  <2>6. over => Finished(kept, over) = "too long"
    BY DEF Finished
  <2>7. PICK res \in Result : res = [what |-> Finished(kept, over), under |-> HeldTo]
    BY <2>3, <2>5, <2>6, <1>3, <1>10, HeldToHas, ScriptFacts DEF Result
  <2>8. \E k \in DOMAIN HeldTo : Finished(kept, over) = ReadAs(d + 1, HeldTo[k])
    <3>1. CASE over
      <4>1. PICK k \in DOMAIN HeldTo : HeldTo[k] < u - b
        BY <3>1, <1>9
      <4>2. HeldTo[k] \in Nat
        BY <4>1, <1>3, HeldToHas
      <4> QED
        BY <4>1, <4>2, <3>1, <2>3, <2>6 DEF ReadAs
    <3>2. CASE ~over
      <4>1. PICK k \in DOMAIN HeldTo : HeldTo[k] = maxBytes
        BY <1>3, HeldToHas
      <4>2. ~(u - b > maxBytes)
        BY <3>2, <1>1, <1>3, <1>5, <1>8
      <4> QED
        BY <4>1, <4>2, <3>2, <2>3, <2>5 DEF ReadAs
    <3> QED
      BY <3>1, <3>2, <1>10
  <2>9. /\ results' \in Seq(Result) /\ Len(results') = d + 1 /\ DOMAIN results' = 1..(d + 1)
        /\ DOMAIN results = 1..d
        /\ results'[d + 1] = res /\ \A i \in 1..d : results'[i] = results[i]
    BY <2>1, <2>7, <1>1, <1>3
  <2>10. LineTyped'
    BY <2>1, <2>9, <1>2, <1>3, <1>5 DEF LineTyped, Ordered
  <2>11. Begun' = u
    BY <2>1, <2>2, <2>9, <1>1, <1>2 DEF Begun, Begin
  <2>12. d + 1 < Len(script) => u < script[d + 2].end
    BY <2>2, <1>1, <1>3, ScriptFacts
  <2>14. Judged'
    <3> SUFFICES ASSUME NEW i \in 1..(d + 1)
                 PROVE  \E k \in DOMAIN results'[i].under :
                           results'[i].what = ReadAs(i, results'[i].under[k])
      BY <2>9, <1>2 DEF Judged, ReadAs, Size, Begin
    <3>1. CASE i = d + 1
      BY <3>1, <2>7, <2>8, <2>9
    <3>2. CASE i \in 1..d
      <4>1. \E k \in DOMAIN results[i].under : results[i].what = ReadAs(i, results[i].under[k])
        BY <3>2, <2>9 DEF FInv, Framed, Judged
      <4> QED
        BY <4>1, <3>2, <2>9
    <3> QED
      BY <3>1, <3>2, <1>1
  <2>15. partial' = [k \in 1..(u - u) |-> u + k]
    BY <2>1
  <2>16. Framed'
    BY <2>1, <2>2, <2>9, <2>11, <2>12, <2>14, <2>15, <1>1, <1>2 DEF Framed, InLine, KeptWhole
  <2> QED
    BY <2>1, <2>10, <2>16 DEF FInv, OverSomething
<1> QED
    BY <1>11, <1>12

LEMMA StepKeepsFInv == ASSUME FramingAssumption, FInv, [FramingNext]_framingVars PROVE FInv'
<1>1. /\ filled \in Nat /\ consumed \in Nat /\ sent \in Nat /\ maxBytes \in Nat /\ BufSize \in Nat
    BY DEF FInv, LineTyped, FramingAssumption
<1>2. ASSUME UNCHANGED <<script, sent, filled, consumed, partial, overflowed, under, results, maxBytes>>
      PROVE  FInv'
    BY <1>1, <1>2, QuietKeeps
<1>3. CASE UNCHANGED framingVars
    BY <1>2, <1>3 DEF framingVars, peerVars, lineVars, setVars
<1>4. CASE PeerSends
    BY <1>1, <1>4, QuietKeeps DEF PeerSends, lineVars, setVars
<1>5. CASE PeerHangsUp
    BY <1>2, <1>5 DEF PeerHangsUp, lineVars, setVars
<1>6. CASE SetReadTimeout
    BY <1>2, <1>6 DEF SetReadTimeout, peerVars, lineVars
<1>7. CASE Reading
  <2>1. CASE ReadMessage \/ DeadlinePasses \/ LoopExpires \/ LoopArms \/ ArmFails
    BY <2>1, <1>2 DEF ReadMessage, DeadlinePasses, LoopExpires, LoopArms, ArmFails,
                      peerVars, lineVars, setVars
  <2>2. CASE SourceExpires \/ ReadInterrupted \/ PollInterrupted \/ Disconnected
    BY <2>2, <1>2 DEF SourceExpires, ReadInterrupted, PollInterrupted, Disconnected,
                      peerVars, lineVars, setVars
  <2>3. CASE FillBuf
    <3>1. PICK n \in 1..BufSize : filled' = filled + n
      BY <2>3 DEF FillBuf
    <3>2. filled' \in Nat /\ filled <= filled'
      BY <3>1, <1>1
    <3> QED
      BY <3>2, <2>3, <1>1, QuietKeeps DEF FillBuf, peerVars, setVars
  <2>4. CASE TakeChunk
    BY <2>4, ChunkKeeps
  <2> QED
    BY <1>7, <2>1, <2>2, <2>3, <2>4 DEF Reading
<1>8. CASE Close
    BY <1>2, <1>8 DEF Close, lineVars, setVars
<1>9. CASE CloseWriteHalf
    BY <1>2, <1>9 DEF CloseWriteHalf, peerVars, lineVars, setVars
<1>10. ASSUME NEW max \in Limits, SetMaxMessageBytes(max) PROVE FInv'
  <2>1. maxBytes' \in Nat
    BY <1>10, Limited DEF SetMaxMessageBytes
  <2> QED
    BY <2>1, <1>1, <1>10, QuietKeeps DEF SetMaxMessageBytes, peerVars, lineVars
<1>11. ASSUME NEW w \in Writers, LockWriter(w) \/ Write(w) \/ WriteFails(w) PROVE FInv'
    BY <1>2, <1>11 DEF LockWriter, Write, WriteFails, peerVars, lineVars, setVars
<1> QED
    BY <1>3, <1>4, <1>5, <1>6, <1>7, <1>8, <1>9, <1>10, <1>11 DEF FramingNext

\* The reader's own state agrees with the bytes it has taken: the line it is in,
\* what it holds of it, and whether it overflowed under a ceiling it has met.
THEOREM FramingInvariant == FramingSpec => []FInv
BY FramingAssumption, InitFInv, StepKeepsFInv, PTL DEF FramingSpec

\* read_message and take_chunk, over any input, buffer size and deadlines, with
\* set_limit called between any two reads: every line is returned once and in
\* order, whole if it fits a ceiling it was read under and refused if it exceeds
\* one, and no byte of one line is taken for another's.
THEOREM LinesAreFramed == FramingSpec => []Framed
<1>1. FInv => Framed
    BY DEF FInv
<1> QED
    BY <1>1, FramingInvariant, PTL

-----------------------------------------------------------------------------
Written == [who : Writers, end : BOOLEAN]

WriteTyped ==
    /\ writing \in [Writers -> {"idle", "payload", "newline"}]
    /\ written \in Seq(Written) /\ writeOpen \in BOOLEAN

\* The lock: one writer at a time is inside a message.
OneWriter == \A v, w \in Writers : writing[v] # "idle" /\ writing[w] # "idle" => v = w

\* While the connection is open the last message is whole, but for the one being sent.
LastWhole ==
    writeOpen =>
        \/ /\ \A w \in Writers : writing[w] # "newline"
           /\ written # <<>> => written[Len(written)].end
        \/ \E w \in Writers : /\ writing[w] = "newline" /\ written # <<>>
                              /\ written[Len(written)] = [who |-> w, end |-> FALSE]

WInv == WriteTyped /\ OneWriter /\ LastWhole /\ WholeLines

LEMMA InitWInv == FramingInit => WInv
    BY DEF FramingInit, WInv, WriteTyped, OneWriter, LastWhole, WholeLines

LEMMA WriteKeepsWInv == ASSUME WInv, NEW w \in Writers, Write(w) PROVE WInv'
<1> DEFINE n == Len(written)
           part == [who |-> w, end |-> writing[w] = "newline"]
<1>1. /\ writing[w] # "idle" /\ writeOpen /\ written' = Append(written, part)
      /\ writing' = [writing EXCEPT ![w] = IF @ = "payload" THEN "newline" ELSE "idle"]
      /\ writeOpen' = writeOpen
    BY DEF Write
<1>2. /\ writing \in [Writers -> {"idle", "payload", "newline"}] /\ written \in Seq(Written)
      /\ writeOpen \in BOOLEAN
    BY DEF WInv, WriteTyped
<1>3. part \in Written
    BY DEF Written
<1>4. /\ n \in Nat /\ DOMAIN written = 1..n /\ written' \in Seq(Written) /\ Len(written') = n + 1
      /\ DOMAIN written' = 1..(n + 1) /\ written'[n + 1] = part /\ \A i \in 1..n : written'[i] = written[i]
      /\ written' # <<>> /\ (written # <<>> <=> n > 0)
    BY <1>1, <1>2, <1>3
<1>5. WriteTyped'
    BY <1>1, <1>2, <1>4 DEF WriteTyped
<1>6. \A v \in Writers : v # w => writing[v] = "idle" /\ writing'[v] = "idle"
    BY <1>1, <1>2 DEF WInv, OneWriter
<1>7. OneWriter'
    BY <1>6 DEF OneWriter
<1>8. CASE writing[w] = "payload"
  <2>1. writing'[w] = "newline" /\ part = [who |-> w, end |-> FALSE]
    BY <1>1, <1>2, <1>8
  <2>2. LastWhole'
    BY <2>1, <1>4 DEF LastWhole
  <2>3. n > 0 => written[n].end
    BY <1>1, <1>4, <1>6, <1>8 DEF WInv, LastWhole
  <2>4. WholeLines'
    BY <2>1, <2>3, <1>4 DEF WInv, WholeLines
  <2> QED
    BY <2>2, <2>4, <1>5, <1>7 DEF WInv
<1>9. CASE writing[w] = "newline"
  <2>1. writing'[w] = "idle" /\ part = [who |-> w, end |-> TRUE]
    BY <1>1, <1>2, <1>9
  <2>2. LastWhole'
    BY <2>1, <1>4, <1>6 DEF LastWhole
  <2>3. n > 0 /\ written[n] = [who |-> w, end |-> FALSE]
    BY <1>1, <1>4, <1>6, <1>9 DEF WInv, LastWhole
  <2>4. WholeLines'
    <3> HIDE DEF n, part
    <3> SUFFICES ASSUME NEW i \in 1..(n + 1)
                 PROVE  IF written'[i].end THEN i > 1 /\ written'[i - 1] = [who |-> written'[i].who, end |-> FALSE]
                        ELSE i < n + 1 => written'[i + 1] = [who |-> written'[i].who, end |-> TRUE]
      BY <1>4 DEF WholeLines
    <3>1. CASE i = n + 1
      BY <3>1, <2>1, <2>3, <1>4
    <3>2. CASE i = n
      <4>1. written'[i] = [who |-> w, end |-> FALSE] /\ i + 1 = n + 1
        BY <3>2, <2>3, <1>4
      <4>2. written'[i + 1] = [who |-> w, end |-> TRUE]
        BY <4>1, <2>1, <1>4
      <4>3. ~written'[i].end /\ written'[i].who = w
        BY <4>1
      <4> QED
        BY <4>2, <4>3
    <3>3. CASE i \in 1..n /\ i # n
      <4>1. i + 1 \in 1..n /\ (i > 1 => i - 1 \in 1..n)
        BY <3>3, <1>4
      <4>2. IF written[i].end THEN i > 1 /\ written[i - 1] = [who |-> written[i].who, end |-> FALSE]
            ELSE i < n => written[i + 1] = [who |-> written[i].who, end |-> TRUE]
        BY <3>3, <1>4 DEF WInv, WholeLines, n
      <4>3. /\ written'[i] = written[i] /\ written'[i + 1] = written[i + 1]
            /\ i > 1 => written'[i - 1] = written[i - 1]
        BY <4>1, <3>3, <1>4
      <4>4. i < n
        BY <3>3, <1>4
      <4>5. CASE written[i].end
        BY <4>2, <4>3, <4>5
      <4>6. CASE ~written[i].end
        BY <4>2, <4>3, <4>4, <4>6
      <4> QED
        BY <4>5, <4>6
    <3> QED
      BY <3>1, <3>2, <3>3, <1>4
  <2> QED
    BY <2>2, <2>4, <1>5, <1>7 DEF WInv
<1> QED
    BY <1>1, <1>2, <1>8, <1>9

LEMMA StepKeepsWInv == ASSUME WInv, [FramingNext]_framingVars PROVE WInv'
<1>1. ASSUME UNCHANGED writeVars PROVE WInv'
    BY <1>1 DEF writeVars, WInv, WriteTyped, OneWriter, LastWhole, WholeLines
<1>2. ASSUME writing' = writing, written' = written, writeOpen' = FALSE PROVE WInv'
    BY <1>2 DEF WInv, WriteTyped, OneWriter, LastWhole, WholeLines
<1>3. CASE UNCHANGED framingVars
    BY <1>1, <1>3 DEF framingVars
<1>4. CASE PeerSends \/ PeerHangsUp \/ SetReadTimeout
    BY <1>1, <1>4 DEF PeerSends, PeerHangsUp, SetReadTimeout
<1>5. CASE Reading
    BY <1>1, <1>5 DEF Reading, ReadMessage, DeadlinePasses, LoopExpires, LoopArms, ArmFails,
                      FillBuf, SourceExpires, ReadInterrupted, PollInterrupted, Disconnected, TakeChunk
<1>6. CASE Close \/ CloseWriteHalf
    BY <1>2, <1>6 DEF Close, CloseWriteHalf
<1>7. ASSUME NEW max \in Limits, SetMaxMessageBytes(max) PROVE WInv'
    BY <1>1, <1>7 DEF SetMaxMessageBytes
<1>8. ASSUME NEW w \in Writers, LockWriter(w) PROVE WInv'
    BY <1>8 DEF LockWriter, WInv, WriteTyped, OneWriter, LastWhole, WholeLines
<1>9. ASSUME NEW w \in Writers, Write(w) PROVE WInv'
    BY <1>9, WriteKeepsWInv
<1>10. ASSUME NEW w \in Writers, WriteFails(w) PROVE WInv'
    BY <1>10 DEF WriteFails, WInv, WriteTyped, OneWriter, LastWhole, WholeLines
<1> QED
    BY <1>3, <1>4, <1>5, <1>6, <1>7, <1>8, <1>9, <1>10 DEF FramingNext

\* The write lock, with any number of threads that write, fail or lose the
\* connection half-way: a message and its newline reach the peer together.
THEOREM LinesStayWhole == FramingSpec => []WholeLines
<1>1. FramingInit => WInv
    BY InitWInv
<1>2. WInv /\ [FramingNext]_framingVars => WInv'
    BY StepKeepsWInv
<1>3. WInv => WholeLines
    BY DEF WInv
<1> QED
    BY <1>1, <1>2, <1>3, PTL DEF FramingSpec

-----------------------------------------------------------------------------
(* The proxy, for any number of lines, with either peer allowed to stop     *)
(* reading, to close, or to break at any time.                              *)
(*                                                                          *)
(* Faithful needs, of each pump, which of its lines it has dealt with and   *)
(* where the one in hand is going; CleanEnd needs how a pump came to its    *)
(* end.                                                                     *)

Typed ==
    /\ source \in [Dirs -> Seq(Kinds)]
    /\ eof \in [Dirs -> BOOLEAN]
    /\ got \in [Dirs -> Nat]
    /\ pc \in [Dirs -> {"read", "write", "answer", "ended", "done"}]
    /\ sink \in [Dirs -> Seq([of : Dirs, n : Nat])]
    /\ closed \in [Dirs -> BOOLEAN]
    /\ gone \in [Dirs -> BOOLEAN]
    /\ broken \in [Dirs -> BOOLEAN]
    /\ refused \subseteq 1 .. got["c2u"]
    /\ \A p \in Dirs : got[p] <= Len(source[p]) /\ (closed[p] => pc[p] = "done")

\* Everything up to line k of direction p has been dealt with, and nothing else.
Relayed(p, k) == Holds(p, p, Welcome(p, k)) /\ Holds(Back(p), p, Rejected(p, k))

\* A line in hand is the next one, and on its way to the right sink.
Held(p) ==
    /\ pc[p] = "read" => Relayed(p, got[p])
    /\ pc[p] \in {"write", "answer"} => got[p] > 0 /\ Relayed(p, got[p] - 1)
    /\ pc[p] = "write" => got[p] \in Welcome(p, got[p]) \ Rejected(p, got[p])
    /\ pc[p] = "answer" => got[p] \in Rejected(p, got[p]) \ Welcome(p, got[p])
    /\ pc[p] \in {"ended", "done"} =>
         Relayed(p, got[p]) \/ (got[p] > 0 /\ Relayed(p, got[p] - 1))

InHand == \A p \in Dirs : Held(p)

\* How a pump came to its end.
Ending ==
    /\ pc["c2u"] \in {"ended", "done"} =>
         \/ eof["c2u"] /\ got["c2u"] = Len(source["c2u"])
         \/ \E p \in Dirs : gone[p] \/ closed["u2c"] \/ broken[p]
    /\ pc["u2c"] \in {"ended", "done"} =>
         \/ eof["u2c"] /\ got["u2c"] = Len(source["u2c"])
         \/ gone["u2c"] \/ broken["u2c"] \/ Contains(source["u2c"], "garbage")

RInv == Typed /\ InHand /\ Ending

LEMMA Sides == \A p \in Dirs : Back(p) \in Dirs /\ Back(p) # p
    BY DEF Dirs, Back

LEMMA InitRInv == ProxyInit => RInv
<1> SUFFICES ASSUME ProxyInit PROVE RInv
    OBVIOUS
<1>1. Typed
    BY DEF ProxyInit, Typed, Dirs
<1>2. \A p \in Dirs : Relayed(p, 0)
    BY Sides DEF ProxyInit, Relayed, Holds, Welcome, Rejected
<1>3. InHand
    BY <1>2 DEF ProxyInit, InHand, Held, Dirs
<1>4. Ending
    BY DEF ProxyInit, Ending, Dirs
<1> QED
    BY <1>1, <1>3, <1>4 DEF RInv

\* What a pump has dealt with changes with its lines and the sinks only.
LEMMA SameLines ==
    ASSUME Typed, NEW p \in Dirs, NEW k \in 0 .. got[p],
           sink' = sink,
           \A n \in 1 .. k : source'[p][n] = source[p][n],
           \A n \in 1 .. k : RefusedLine(p, n)' <=> RefusedLine(p, n)
    PROVE  /\ Relayed(p, k)' <=> Relayed(p, k)
           /\ Welcome(p, k)' = Welcome(p, k) /\ Rejected(p, k)' = Rejected(p, k)
<1>1. Welcome(p, k)' = Welcome(p, k) /\ Rejected(p, k)' = Rejected(p, k)
    BY DEF Welcome, Rejected, Typed
<1> QED
    BY <1>1 DEF Relayed, Holds

\* A pump that has not read, and has nothing left to do or the same as before.
LEMMA SameHeld ==
    ASSUME Typed, NEW p \in Dirs, Held(p), sink' = sink, got'[p] = got[p],
           \/ pc'[p] = pc[p]
           \/ pc'[p] \in {"ended", "done"},
           \A n \in 1 .. got[p] : source'[p][n] = source[p][n],
           \A n \in 1 .. got[p] : RefusedLine(p, n)' <=> RefusedLine(p, n)
    PROVE  Held(p)'
<1>1. PICK g \in Nat : g = got[p]
    BY DEF Typed
<1>2. /\ Relayed(p, g)' <=> Relayed(p, g)
      /\ Welcome(p, g)' = Welcome(p, g) /\ Rejected(p, g)' = Rejected(p, g)
    BY <1>1, SameLines
<1>3. g > 0 => (Relayed(p, g - 1)' <=> Relayed(p, g - 1))
  <2> SUFFICES ASSUME g > 0 PROVE Relayed(p, g - 1)' <=> Relayed(p, g - 1)
    OBVIOUS
  <2>1. g - 1 \in 0 .. got[p] /\ 1 .. (g - 1) \subseteq 1 .. got[p]
    BY <1>1
  <2> QED
    BY <2>1, SameLines
<1>4. /\ pc[p] = "read" => Relayed(p, g)
      /\ pc[p] \in {"write", "answer"} => g > 0 /\ Relayed(p, g - 1)
      /\ pc[p] = "write" => g \in Welcome(p, g) \ Rejected(p, g)
      /\ pc[p] = "answer" => g \in Rejected(p, g) \ Welcome(p, g)
      /\ pc[p] \in {"ended", "done"} => Relayed(p, g) \/ (g > 0 /\ Relayed(p, g - 1))
      /\ pc[p] \in {"read", "write", "answer", "ended", "done"}
    BY <1>1 DEF Held, Typed
<1> QED
    BY <1>1, <1>2, <1>3, <1>4 DEF Held

\* A line of another direction on the same sink is not its business.
LEMMA AppendOther ==
    ASSUME Typed, NEW s \in Dirs, NEW p \in Dirs, NEW line \in [of : Dirs, n : Nat],
           NEW numbers, line.of # p, Holds(s, p, numbers),
           sink'[s] = Append(sink[s], line)
    PROVE  Holds(s, p, numbers)'
<1> DEFINE at == {i \in DOMAIN sink[s] : sink[s][i].of = p}
           att == {i \in DOMAIN sink'[s] : sink'[s][i].of = p}
<1>1. sink[s] \in Seq([of : Dirs, n : Nat])
    BY DEF Typed
<1>2. /\ DOMAIN sink'[s] = 1 .. Len(sink[s]) + 1 /\ DOMAIN sink[s] = 1 .. Len(sink[s])
      /\ Len(sink[s]) \in Nat
      /\ \A i \in 1 .. Len(sink[s]) : sink'[s][i] = sink[s][i]
      /\ sink'[s][Len(sink[s]) + 1] = line
    BY <1>1
<1>3. att = at /\ \A i \in at : sink'[s][i] = sink[s][i]
    BY <1>2
<1> HIDE DEF at, att
<1>4. /\ {sink[s][i].n : i \in at} = numbers
      /\ \A i, j \in at : i < j => sink[s][i].n < sink[s][j].n
    BY DEF Holds, at
<1>5. /\ {sink'[s][i].n : i \in att} = numbers
      /\ \A i, j \in att : i < j => sink'[s][i].n < sink'[s][j].n
    BY <1>3, <1>4
<1> QED
    BY <1>5 DEF Holds, att

\* The next line of the direction goes behind the others.
LEMMA AppendOwn ==
    ASSUME Typed, NEW s \in Dirs, NEW line \in [of : Dirs, n : Nat],
           NEW numbers, Holds(s, line.of, numbers), \A m \in numbers : m < line.n,
           sink'[s] = Append(sink[s], line)
    PROVE  Holds(s, line.of, numbers \cup {line.n})'
<1> DEFINE p == line.of
           at == {i \in DOMAIN sink[s] : sink[s][i].of = p}
           att == {i \in DOMAIN sink'[s] : sink'[s][i].of = p}
           last == Len(sink[s]) + 1
<1>1. sink[s] \in Seq([of : Dirs, n : Nat])
    BY DEF Typed
<1>2. /\ DOMAIN sink'[s] = 1 .. last /\ DOMAIN sink[s] = 1 .. Len(sink[s])
      /\ Len(sink[s]) \in Nat
      /\ \A i \in 1 .. Len(sink[s]) : sink'[s][i] = sink[s][i]
      /\ sink'[s][last] = line
    BY <1>1
<1>3. /\ att = at \cup {last} /\ \A i \in at : sink'[s][i] = sink[s][i]
      /\ sink'[s][last] = line /\ \A i \in at : i \in Nat /\ i < last
    BY <1>2
<1> HIDE DEF at, att, last, p
<1>4. /\ {sink[s][i].n : i \in at} = numbers
      /\ \A i, j \in at : i < j => sink[s][i].n < sink[s][j].n
    BY DEF Holds, at, p
<1>5. {sink'[s][i].n : i \in att} = numbers \cup {line.n}
    BY <1>3, <1>4
<1>6. ASSUME NEW i \in att, NEW j \in att, i < j PROVE sink'[s][i].n < sink'[s][j].n
  <2>1. i \in at
    BY <1>3, <1>6, <1>2 DEF last
  <2>2. CASE j \in at
    BY <1>3, <1>4, <1>6, <2>1, <2>2
  <2>3. CASE j = last
    <3>1. sink[s][i].n \in numbers
      BY <1>4, <2>1
    <3> QED
      BY <3>1, <1>3, <2>1, <2>3
  <2> QED
    BY <1>3, <2>2, <2>3
<1> QED
    BY <1>5, <1>6 DEF Holds, att, p

\* Numbering a new last line.
LEMMA OneMore ==
    ASSUME NEW p \in Dirs, NEW n \in Nat, n > 0
    PROVE  /\ n \in Welcome(p, n) => Welcome(p, n) = Welcome(p, n - 1) \cup {n}
           /\ n \notin Welcome(p, n) => Welcome(p, n) = Welcome(p, n - 1)
           /\ n \in Rejected(p, n) => Rejected(p, n) = Rejected(p, n - 1) \cup {n}
           /\ n \notin Rejected(p, n) => Rejected(p, n) = Rejected(p, n - 1)
           /\ \A m \in Welcome(p, n - 1) \cup Rejected(p, n - 1) : m \in Nat /\ m < n
<1>1. 1 .. n = (1 .. (n - 1)) \cup {n}
    OBVIOUS
<1>2. \A m \in 1 .. (n - 1) : m \in Nat /\ m < n
    OBVIOUS
<1> QED
    BY <1>1, <1>2 DEF Welcome, Rejected

\* Reading the next line.
LEMMA ReadKeeps == ASSUME RInv, NEW p \in Dirs, Read(p) PROVE RInv'
<1>1. /\ pc[p] = "read" /\ got[p] < Len(source[p])
      /\ got' = [got EXCEPT ![p] = @ + 1]
      /\ UNCHANGED <<source, eof, gone, sink, closed, broken>>
    BY DEF Read, peers
<1>2. PICK n \in Nat : n = got[p] + 1
    BY DEF RInv, Typed
<1>3. PICK kind \in Kinds : kind = source[p][n]
    BY <1>1, <1>2 DEF RInv, Typed
<1>4. PICK fails \in BOOLEAN :
        /\ fails => p = "c2u" /\ kind # "garbage"
        /\ pc' = [pc EXCEPT ![p] = Verdict(kind, fails)]
        /\ refused' = IF fails THEN refused \cup {n} ELSE refused
    BY <1>2, <1>3 DEF Read, PumpAt
<1>5. /\ got[p] \in Nat /\ n > 0 /\ n \in 1 .. Len(source[p]) /\ Typed
      /\ got' = [got EXCEPT ![p] = n] /\ got'[p] = n /\ got[p] = n - 1
    BY <1>1, <1>2 DEF RInv, Typed
<1>6. Verdict(kind, fails) \in {"read", "write", "answer"}
    BY DEF Verdict, Kinds
<1>7. Typed'
  <2>1. refused' \subseteq 1 .. got'["c2u"]
    <3>1. CASE p = "c2u"
      BY <3>1, <1>4, <1>5 DEF Typed
    <3>2. CASE p # "c2u"
      BY <3>2, <1>4, <1>5 DEF Typed, Dirs
    <3> QED BY <3>1, <3>2
  <2>2. \A r \in Dirs : got'[r] <= Len(source'[r]) /\ (closed'[r] => pc'[r] = "done")
    BY <1>1, <1>4, <1>5 DEF Typed
  <2> QED
    BY <1>1, <1>4, <1>5, <1>6, <2>1, <2>2 DEF Typed
<1>8. /\ \A m \in 1 .. (n - 1) : RefusedLine(p, m)' <=> RefusedLine(p, m)
      /\ RefusedLine(p, n)' <=> fails
      /\ \A r \in Dirs \ {p} : \A m : RefusedLine(r, m)' <=> RefusedLine(r, m)
  <2>1. p = "c2u" => n \notin refused
    BY <1>5 DEF Typed
  <2> QED
    BY <2>1, <1>4, <1>5 DEF RefusedLine
<1>9. \A r \in Dirs \ {p} : got'[r] = got[r] /\ pc'[r] = pc[r]
    BY <1>4, <1>5 DEF Typed
<1>10. Relayed(p, n - 1)'
  <2>1. Relayed(p, n - 1)
    BY <1>1, <1>5 DEF RInv, InHand, Held
  <2>2. n - 1 \in 0 .. got[p]
    BY <1>5
  <2> QED
    BY <2>1, <2>2, <1>1, <1>5, <1>8, SameLines
<1>11. /\ n \in Welcome(p, n)' <=> (kind # "garbage" /\ ~fails)
       /\ n \in Rejected(p, n)' <=> (kind = "garbage" \/ (kind = "request" /\ fails))
    BY <1>1, <1>3, <1>5, <1>8 DEF Welcome, Rejected
<1>12. /\ pc'[p] = "write" => n \in Welcome(p, n)' /\ n \notin Rejected(p, n)'
       /\ pc'[p] = "answer" => n \in Rejected(p, n)' /\ n \notin Welcome(p, n)'
       /\ pc'[p] = "read" => Relayed(p, n)'
       /\ pc'[p] = Verdict(kind, fails)
  <2>1. pc'[p] = Verdict(kind, fails)
    BY <1>4, <1>5 DEF Typed
  <2>2. pc'[p] = "read" => kind = "notice" /\ fails
    BY <2>1, <1>3 DEF Verdict, Kinds
  <2>3. /\ pc'[p] = "write" => kind # "garbage" /\ ~fails
        /\ pc'[p] = "answer" => kind = "garbage" \/ (kind = "request" /\ fails)
    BY <2>1, <1>3 DEF Verdict, Kinds
  <2>4. ASSUME kind = "notice", fails
        PROVE  Welcome(p, n)' = Welcome(p, n - 1)' /\ Rejected(p, n)' = Rejected(p, n - 1)'
    <3>1. 1 .. n = (1 .. (n - 1)) \cup {n}
      BY <1>5
    <3>2. source'[p][n] = "notice" /\ RefusedLine(p, n)'
      BY <2>4, <1>1, <1>3, <1>8
    <3> QED
      BY <3>1, <3>2 DEF Welcome, Rejected
  <2>5. pc'[p] = "read" => Relayed(p, n)'
    BY <2>2, <2>4, <1>10 DEF Relayed
  <2> QED
    BY <2>1, <2>3, <2>5, <1>11
<1>13. InHand'
  <2>1. Held(p)'
    BY <1>5, <1>6, <1>10, <1>12 DEF Held
  <2>2. ASSUME NEW r \in Dirs \ {p} PROVE Held(r)'
    BY <1>1, <1>5, <1>8, <1>9, SameHeld DEF RInv, InHand
  <2> QED
    BY <2>1, <2>2 DEF InHand
<1>14. Ending'
  <2>1. \A r \in Dirs : pc'[r] \in {"ended", "done"} => got'[r] = got[r] /\ pc[r] = pc'[r]
    BY <1>6, <1>9, <1>12
  <2> QED
    BY <2>1, <1>1 DEF RInv, Ending, Dirs
<1> QED
    BY <1>7, <1>13, <1>14 DEF RInv

\* A pump that ends, for any reason, or that is done with its sink.
LEMMA EndKeeps ==
    ASSUME RInv, NEW p \in Dirs, ReadCloses(p) \/ ReadFails(p) \/ CloseWrite(p)
    PROVE  RInv'
<1>1. /\ UNCHANGED <<source, eof, got, gone, sink, refused>>
      /\ \E stage \in {"ended", "done"} : pc' = [pc EXCEPT ![p] = stage]
    BY DEF ReadCloses, ReadFails, CloseWrite, peers, PumpAt
<1>2. Typed'
  <2>1. CASE ReadCloses(p)
    BY <2>1 DEF RInv, Typed, ReadCloses, peers, PumpAt
  <2>2. CASE ReadFails(p)
    BY <2>2 DEF RInv, Typed, ReadFails, peers, PumpAt
  <2>3. CASE CloseWrite(p)
    BY <2>3 DEF RInv, Typed, CloseWrite, peers, PumpAt
  <2> QED
    BY <2>1, <2>2, <2>3
<1>3. InHand'
  <2>1. ASSUME NEW r \in Dirs PROVE pc'[r] = pc[r] \/ pc'[r] \in {"ended", "done"}
    BY <1>1 DEF RInv, Typed
  <2>2. \A r \in Dirs : \A n : RefusedLine(r, n)' <=> RefusedLine(r, n)
    BY <1>1 DEF RefusedLine
  <2> QED
    BY <1>1, <2>1, <2>2, SameHeld DEF RInv, InHand
<1>4. Ending'
  <2>1. CASE ReadCloses(p)
    BY <2>1 DEF RInv, Typed, Ending, ReadCloses, peers, PumpAt, Dirs
  <2>2. CASE ReadFails(p)
    BY <2>2 DEF RInv, Typed, Ending, ReadFails, peers, PumpAt, Dirs
  <2>3. CASE CloseWrite(p)
    BY <2>3 DEF RInv, Typed, Ending, CloseWrite, peers, PumpAt, Dirs
  <2> QED
    BY <2>1, <2>2, <2>3
<1> QED
    BY <1>2, <1>3, <1>4 DEF RInv

\* A line put on a sink, or given up because nobody reads there.
LEMMA PutKeeps ==
    ASSUME RInv, NEW p \in Dirs, Forward(p) \/ Answer(p)
    PROVE  RInv'
<1>1. PICK s \in Dirs :
        /\ Put(p, s)
        /\ \/ s = p /\ pc[p] = "write"
           \/ s = Back(p) /\ pc[p] = "answer"
    BY Sides DEF Forward, Answer
<1>2. /\ UNCHANGED <<source, eof, gone, got, closed, refused, broken>>
      /\ Typed
    BY <1>1 DEF Put, peers, RInv
<1>3. PICK n \in Nat : n = got[p]
    BY <1>2 DEF Typed
<1>4. /\ n > 0 /\ Relayed(p, n - 1)
      /\ s = p => n \in Welcome(p, n) \ Rejected(p, n)
      /\ s = Back(p) => n \in Rejected(p, n) \ Welcome(p, n)
    BY <1>1, <1>3, Sides DEF RInv, InHand, Held
<1>5. \A r \in Dirs : \A m : RefusedLine(r, m)' <=> RefusedLine(r, m)
    BY <1>2 DEF RefusedLine
<1>6. CASE Writable(s)
  <2>1. /\ sink' = [sink EXCEPT ![s] = Append(@, [of |-> p, n |-> n])]
        /\ pc' = [pc EXCEPT ![p] = "read"]
    BY <1>1, <1>3, <1>6 DEF Put, PumpAt
  <2>4. PICK line \in [of : Dirs, n : Nat] : line = [of |-> p, n |-> n]
    OBVIOUS
  <2>2. Typed'
    <3>1. sink' \in [Dirs -> Seq([of : Dirs, n : Nat])]
      <4>1. Append(sink[s], line) \in Seq([of : Dirs, n : Nat])
        <5>1. sink[s] \in Seq([of : Dirs, n : Nat])
          BY <1>2 DEF Typed
        <5> QED
          BY <5>1
      <4> QED
        BY <4>1, <2>1, <2>4, <1>2 DEF Typed
    <3>2. \A r \in Dirs : got'[r] <= Len(source'[r]) /\ (closed'[r] => pc'[r] = "done")
      BY <1>1, <1>2, <2>1 DEF Typed
    <3> QED
      BY <3>1, <3>2, <1>2, <2>1 DEF Typed
  <2>3. Ending'
    BY <1>2, <2>1 DEF RInv, Ending, Typed, Dirs
  <2>5. /\ sink'[s] = Append(sink[s], line)
        /\ \A t \in Dirs \ {s} : sink'[t] = sink[t]
    BY <2>1, <2>4, <1>2 DEF Typed
  <2>6. \A r, k : Welcome(r, k)' = Welcome(r, k) /\ Rejected(r, k)' = Rejected(r, k)
    BY <1>2 DEF Welcome, Rejected, RefusedLine
  <2>7. ASSUME NEW r \in Dirs \ {p}, NEW t \in Dirs, NEW numbers, Holds(t, r, numbers)
        PROVE  Holds(t, r, numbers)'
    <3>1. CASE t = s
      BY <3>1, <2>4, <2>5, <2>7, <1>2, AppendOther
    <3>2. CASE t # s
      BY <3>2, <2>5, <2>7 DEF Holds
    <3> QED
      BY <3>1, <3>2
  <2>8. ASSUME NEW r \in Dirs \ {p} PROVE Held(r)'
    <3>1. PICK g \in Nat : g = got[r]
      BY <1>2 DEF Typed
    <3>2. got'[r] = g /\ pc'[r] = pc[r]
      BY <3>1, <1>2, <2>1 DEF Typed
    <3>3. \A k : Relayed(r, k) => Relayed(r, k)'
      BY <2>6, <2>7, Sides DEF Relayed
    <3>4. Held(r)
      BY DEF RInv, InHand
    <3> QED
      BY <3>1, <3>2, <3>3, <3>4, <2>6 DEF Held
  <2>9. Relayed(p, n)'
    <3>1. /\ Holds(p, p, Welcome(p, n - 1)) /\ Holds(Back(p), p, Rejected(p, n - 1))
          /\ \A m \in Welcome(p, n - 1) \cup Rejected(p, n - 1) : m < n
      BY <1>4, OneMore DEF Relayed
    <3>2. CASE s = p
      <4>1. Welcome(p, n) = Welcome(p, n - 1) \cup {n} /\ Rejected(p, n) = Rejected(p, n - 1)
        BY <3>2, <1>4, OneMore
      <4>2. PICK W, R : W = Welcome(p, n - 1) /\ R = Rejected(p, n - 1)
        OBVIOUS
      <4>3. Holds(p, p, W \cup {n})'
        BY <3>1, <3>2, <4>2, <2>4, <2>5, <1>2, AppendOwn
      <4>4. Holds(Back(p), p, R)'
        BY <3>1, <3>2, <4>2, <2>5, Sides DEF Holds
      <4> QED
        BY <4>1, <4>2, <4>3, <4>4, <2>6 DEF Relayed
    <3>3. CASE s = Back(p)
      <4>1. Rejected(p, n) = Rejected(p, n - 1) \cup {n} /\ Welcome(p, n) = Welcome(p, n - 1)
        BY <3>3, <1>4, OneMore
      <4>2. PICK W, R : W = Welcome(p, n - 1) /\ R = Rejected(p, n - 1)
        OBVIOUS
      <4>3. Holds(Back(p), p, R \cup {n})'
        BY <3>1, <3>3, <4>2, <2>4, <2>5, <1>2, AppendOwn
      <4>4. Holds(p, p, W)'
        BY <3>1, <3>3, <4>2, <2>5, Sides DEF Holds
      <4> QED
        BY <4>1, <4>2, <4>3, <4>4, <2>6 DEF Relayed
    <3> QED
      BY <3>2, <3>3, <1>1
  <2>10. Held(p)'
    <3>1. got'[p] = n /\ pc'[p] = "read"
      BY <1>2, <1>3, <2>1 DEF Typed
    <3> QED
      BY <3>1, <2>9 DEF Held
  <2> QED
    BY <2>2, <2>3, <2>8, <2>10 DEF RInv, InHand
<1>7. CASE ~Writable(s)
  <2>1. sink' = sink /\ pc' = [pc EXCEPT ![p] = "ended"]
    BY <1>1, <1>7 DEF Put, PumpAt
  <2>2. Typed'
    BY <1>1, <1>2, <2>1 DEF Typed
  <2>3. InHand'
    BY <1>2, <1>5, <2>1, SameHeld DEF RInv, InHand, Typed
  <2>4. Ending'
    <3>1. closed[p] = FALSE
      BY <1>1, <1>2 DEF Typed
    <3>2. p = "c2u" => \E r \in Dirs : gone[r] \/ closed["u2c"] \/ broken[r]
      BY <3>1, <1>1, <1>7 DEF Writable, Back
    <3>3. p = "u2c" => gone["u2c"] \/ Contains(source["u2c"], "garbage")
      <4>1. CASE s = p
        BY <4>1, <3>1, <1>7 DEF Writable
      <4>2. CASE s = Back(p) /\ p = "u2c"
        <5>1. source["u2c"][n] = "garbage" /\ n \in 1 .. Len(source["u2c"])
          BY <4>2, <1>4, <1>2, <1>3 DEF Rejected, RefusedLine, Typed
        <5> QED
          BY <5>1 DEF Contains
      <4> QED
        BY <4>1, <4>2, <1>1
    <3> QED
      BY <3>2, <3>3, <1>2, <2>1 DEF RInv, Ending, Typed, Dirs
  <2> QED
    BY <2>2, <2>3, <2>4 DEF RInv
<1> QED
    BY <1>6, <1>7

\* What the peers do changes nothing that has been read.
LEMMA PeersKeep ==
    ASSUME RInv,
           \/ \E p \in Dirs, kind \in Kinds : PeerWrites(p, kind)
           \/ ClientHangsUp \/ ClientStopsReading \/ DaemonCloses
    PROVE  RInv'
<1>1. /\ UNCHANGED <<got, pc, sink, closed, refused, broken>>
      /\ Typed
    BY DEF PeerWrites, ClientHangsUp, ClientStopsReading, DaemonCloses, unpumped, RInv
<1>2. \A r \in Dirs : \A m : RefusedLine(r, m)' <=> RefusedLine(r, m)
    BY <1>1 DEF RefusedLine
<1>3. CASE \E p \in Dirs, kind \in Kinds : PeerWrites(p, kind)
  <2>1. PICK p \in Dirs, kind \in Kinds :
            ~eof[p] /\ source' = [source EXCEPT ![p] = Append(@, kind)] /\ UNCHANGED <<eof, gone>>
    BY <1>3 DEF PeerWrites
  <2>2. /\ source' \in [Dirs -> Seq(Kinds)]
        /\ \A r \in Dirs : Len(source'[r]) >= Len(source[r])
        /\ \A r \in Dirs : eof[r] => source'[r] = source[r]
    BY <2>1, <1>1 DEF Typed
  <2>6. \A r \in Dirs, m \in Nat : m \in 1 .. Len(source[r]) => source'[r][m] = source[r][m]
    BY <2>1, <1>1 DEF Typed
  <2>3. Typed'
    <3>1. \A r \in Dirs : got'[r] <= Len(source'[r]) /\ (closed'[r] => pc'[r] = "done")
      BY <1>1, <2>2 DEF Typed
    <3> QED
      BY <3>1, <1>1, <2>1, <2>2 DEF Typed
  <2>4. InHand'
    <3>1. ASSUME NEW r \in Dirs, NEW m \in 1 .. got[r] PROVE source'[r][m] = source[r][m]
      <4>1. got[r] \in Nat /\ Len(source[r]) \in Nat /\ got[r] <= Len(source[r])
        BY <1>1 DEF Typed
      <4>2. m \in 1 .. Len(source[r])
        BY <4>1
      <4> QED
        BY <4>2, <2>6
    <3> QED
      BY <3>1, <1>1, <1>2, SameHeld DEF RInv, InHand
  <2>5. Ending'
    <3>1. Contains(source["u2c"], "garbage") => Contains(source'["u2c"], "garbage")
      <4>1. /\ source["u2c"] \in Seq(Kinds) /\ source'["u2c"] \in Seq(Kinds)
            /\ Len(source'["u2c"]) >= Len(source["u2c"])
            /\ \A m \in Nat : m \in 1 .. Len(source["u2c"]) => source'["u2c"][m] = source["u2c"][m]
        BY <2>2, <2>6, <1>1 DEF Typed, Dirs
      <4> QED
        BY <4>1 DEF Contains
    <3> QED
      BY <3>1, <1>1, <2>1, <2>2 DEF RInv, Ending, Dirs
  <2> QED
    BY <2>3, <2>4, <2>5 DEF RInv
<1>4. CASE ClientHangsUp \/ ClientStopsReading \/ DaemonCloses
  <2>1. source' = source /\ Typed'
    BY <1>1, <1>4 DEF ClientHangsUp, ClientStopsReading, DaemonCloses, Typed, unpumped
  <2>2. InHand'
    BY <2>1, <1>1, <1>2, SameHeld DEF RInv, InHand
  <2>3. \A r \in Dirs : (eof[r] => eof'[r]) /\ (gone[r] => gone'[r])
    BY <1>1, <1>4 DEF ClientHangsUp, ClientStopsReading, DaemonCloses, Typed
  <2>4. Ending'
    BY <2>1, <2>3, <1>1 DEF RInv, Ending, Dirs
  <2> QED
    BY <2>1, <2>2, <2>4 DEF RInv
<1> QED
    BY <1>3, <1>4

\* Each pump's sink holds what it has read up to the line in hand, and no side is
\* told of an end of stream that has not come.
THEOREM RelayInvariant == ProxySpec => []RInv
<1>1. ProxyInit => RInv
    BY InitRInv
<1>2. RInv /\ [ProxyNext]_proxyVars => RInv'
  <2> SUFFICES ASSUME RInv, [ProxyNext]_proxyVars PROVE RInv'
    OBVIOUS
  <2>1. CASE UNCHANGED proxyVars
    <3>1. UNCHANGED <<source, eof, got, pc, sink, closed, gone, refused, broken>>
      BY <2>1 DEF proxyVars
    <3>2. Typed'
      BY <3>1 DEF RInv, Typed
    <3>3. InHand'
      BY <3>1, SameHeld DEF RInv, InHand, RefusedLine
    <3>4. Ending'
      BY <3>1 DEF RInv, Ending
    <3> QED
      BY <3>2, <3>3, <3>4 DEF RInv
  <2>2. CASE ProxyNext
    <3>1. ASSUME NEW p \in Dirs, Pump(p) \/ ReadFails(p) PROVE RInv'
      BY <3>1, ReadKeeps, EndKeeps, PutKeeps DEF Pump
    <3>2. CASE \/ \E p \in Dirs, kind \in Kinds : PeerWrites(p, kind)
               \/ ClientHangsUp \/ ClientStopsReading \/ DaemonCloses
      BY <3>2, PeersKeep
    <3> QED
      BY <2>2, <3>1, <3>2 DEF ProxyNext, DaemonFinishes, DaemonVanishes
  <2> QED
    BY <2>1, <2>2
<1> QED
    BY <1>1, <1>2, PTL DEF ProxySpec

\* pump and transform::apply, for any streams of lines in both directions and any
\* transform: each line is forwarded once, or refused once to the side it came
\* from, or is one that has no answer; and the order is kept, though both pumps
\* write to the client's side.
THEOREM ProxyIsFaithful == ProxySpec => []Faithful
<1>1. RInv => Faithful
  <2> SUFFICES ASSUME RInv, NEW p \in Dirs
               PROVE  \E k \in IF pc[p] = "read" \/ got[p] = 0 THEN {got[p]} ELSE {got[p] - 1, got[p]} :
                        Relayed(p, k)
    BY DEF Faithful, Relayed
  <2>1. Held(p) /\ got[p] \in Nat /\ pc[p] \in {"read", "write", "answer", "ended", "done"}
    BY DEF RInv, InHand, Typed
  <2> QED
    BY <2>1 DEF Held
<1> QED
    BY <1>1, RelayInvariant, PTL

\* run_inner's close_write: the daemon is told that the client has hung up only
\* after everything the client said, and the pump from the daemon ends only once
\* the daemon has said everything, unless a connection was lost first or the
\* daemon sent a line that cannot be read.
THEOREM HalfCloseIsClean == ProxySpec => []CleanEnd
<1>1. RInv => CleanEnd
    BY DEF RInv, Typed, Ending, CleanEnd, EofIsHonest, FullyDrained, AlwaysDrained, Dirs
<1> QED
    BY <1>1, RelayInvariant, PTL
=============================================================================
