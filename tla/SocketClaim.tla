---------------------------- MODULE SocketClaim ----------------------------
(***************************************************************************)
(* Who owns the daemon's socket path: daemons that claim it, clear what a  *)
(* dead one left, bind, serve and clean up (UnixServer::run), and shims    *)
(* that connect to a daemon or start one (Bridge::auto_start).  They are   *)
(* processes that share nothing but three files: the socket, the PID file, *)
(* and the .lock file whose flock is the claim (SocketLock).               *)
(*                                                                         *)
(* A step is one system call.  A crash may come anywhere; the kernel then  *)
(* releases the claim and closes the listener, and the files stay.         *)
(* Everybody here is one user; a path of another user's is refused before  *)
(* any of this.                                                            *)
(***************************************************************************)
EXTENDS Integers

CONSTANTS
    Daemons,    \* the daemon processes that can be started
    ByHand,     \* those that users start; shims start the others
    Publishers, \* those that write a PID file (serve_daemon; serve does not)
    Shims,      \* the shims, each in one call of auto_start
    None,       \* no file, no holder
    Leftovers,  \* what the last daemon may have left: pairs <<socket, PID file>>
    Weathers    \* what may go wrong, of Faults: one of these sets in a behaviour

\* A process may be killed; a daemon may be asked to stop, or idle out; a live
\* listener may refuse a connect, or a start-up fail; a shim's wait for its
\* daemon may run out.
Faults == {"crash", "stop", "refusal", "timeout"}

ASSUME ClaimAssumption ==
    /\ None \notin Daemons \cup Shims
    /\ Daemons \cap Shims = {}
    /\ ByHand \subseteq Daemons
    /\ Publishers \subseteq Daemons
    /\ Leftovers \subseteq (Daemons \cup {None}) \X (Publishers \cup {None})
    /\ Weathers \subseteq SUBSET Faults

VARIABLES
    socket,     \* whose socket is at the path
    pidFile,    \* whose PID is in the PID file
    claim,      \* the process that holds the flock
    daemon,     \* daemon[d]: where d is in UnixServer::run
    shim,       \* shim[s]: where s is in auto_start_inner
    withPid,    \* withPid[s]: clear_socket was given the PID file too
    weather     \* what may go wrong in this behaviour; it does not change

claimVars == <<socket, pidFile, claim, daemon, shim, withPid, weather>>

\* From the flock to its release.
Claiming == {"claimed", "stale", "vacant", "bound", "listening", "serving", "stopping",
             "unlinked", "leaving"}
\* The socket it bound is its own until it unlinks it.
Owning == {"bound", "listening", "serving", "stopping"}
DaemonStates == {"unborn", "starting", "gone"} \cup Claiming

\* Inside clear_socket, under the claim.
Clearing == {"probe", "unlink", "unlinkPid"}
ShimStates == {"fresh", "look", "pidBeside", "pidAlone", "grace", "graceAlone", "clear",
               "forgetPid", "spawn", "ready", "connected", "failed"} \cup Clearing

ClaimTypeOK ==
    /\ socket \in Daemons \cup {None}
    /\ pidFile \in Publishers \cup {None}
    /\ claim \in Daemons \cup Shims \cup {None}
    /\ daemon \in [Daemons -> DaemonStates]
    /\ shim \in [Shims -> ShimStates]
    /\ withPid \in [Shims -> BOOLEAN]
    /\ weather \in Weathers

-----------------------------------------------------------------------------
(* The files *)

\* A bound socket answers from listen() until its listener is closed.
Listening(d) == daemon[d] \in {"listening", "serving", "stopping", "unlinked", "leaving"}

Answers == socket # None /\ Listening(socket)

\* What connect() may say.
Connects == {Answers} \cup (IF "refusal" \in weather THEN {FALSE} ELSE {})

\* kill(pid, 0): the PID of a dead daemon may belong to another process by now.
LooksAlive(d) == {daemon[d] \notin {"unborn", "gone"}, TRUE}

Free(p) == claim' = IF claim = p THEN None ELSE claim

-----------------------------------------------------------------------------
(* A daemon *)

unshimmed == <<shim, withPid, weather>>

DaemonAt(d, next) == daemon' = [daemon EXCEPT ![d] = next]

\* Started by hand, or by a service manager.
Start(d) ==
    /\ d \in ByHand
    /\ daemon[d] = "unborn"
    /\ DaemonAt(d, "starting")
    /\ UNCHANGED <<socket, pidFile, claim, unshimmed>>

\* Mutation: a starting daemon does without the claim.
ClaimSocketPath_Unclaimed(d) ==
    /\ daemon[d] = "starting"
    /\ DaemonAt(d, "claimed")
    /\ claim' = IF claim = None THEN d ELSE claim
    /\ UNCHANGED <<socket, pidFile, unshimmed>>

\* A claim that is held is not waited for.
ClaimSocketPath(d) ==
    /\ daemon[d] = "starting"
    /\ IF claim = None
       THEN claim' = d /\ DaemonAt(d, "claimed")
       ELSE UNCHANGED claim /\ DaemonAt(d, "gone")
    /\ UNCHANGED <<socket, pidFile, unshimmed>>

\* prepare_socket_path: nothing there, a live server's socket, or a stale one.
PrepareSocketPath(d) ==
    /\ daemon[d] = "claimed"
    /\ \/ /\ socket = None
          /\ DaemonAt(d, "vacant")
          /\ UNCHANGED claim
       \/ /\ Answers
          /\ DaemonAt(d, "gone")
          /\ Free(d)
       \/ /\ socket # None
          /\ ~Answers
          /\ DaemonAt(d, "stale")
          /\ UNCHANGED claim
    /\ UNCHANGED <<socket, pidFile, unshimmed>>

\* Mutation: a stale socket that is still there is not noticed.
RemoveStale_Ignored(d) ==
    /\ daemon[d] = "stale"
    /\ DaemonAt(d, "vacant")
    /\ UNCHANGED <<socket, pidFile, claim, unshimmed>>

RemoveStale(d) ==
    /\ daemon[d] = "stale"
    /\ socket' = None
    /\ DaemonAt(d, "vacant")
    /\ UNCHANGED <<pidFile, claim, unshimmed>>

\* UnixListener::bind is bind, which fails if the name is taken ...
Bind(d) ==
    /\ daemon[d] = "vacant"
    /\ IF socket = None
       THEN socket' = d /\ DaemonAt(d, "bound") /\ UNCHANGED claim
       ELSE UNCHANGED socket /\ DaemonAt(d, "gone") /\ Free(d)
    /\ UNCHANGED <<pidFile, unshimmed>>

\* ... and then listen; a connect in between is refused.
Listen(d) ==
    /\ daemon[d] = "bound"
    /\ DaemonAt(d, "listening")
    /\ UNCHANGED <<socket, pidFile, claim, unshimmed>>

Publish(d) ==
    /\ daemon[d] = "listening"
    /\ pidFile' = IF d \in Publishers THEN d ELSE pidFile
    /\ DaemonAt(d, "serving")
    /\ UNCHANGED <<socket, claim, unshimmed>>

\* The handlers or the PID file cannot be installed: run returns, no cleanup.
StartupFails(d) ==
    /\ daemon[d] = "listening"
    /\ "refusal" \in weather
    /\ DaemonAt(d, "gone")
    /\ Free(d)
    /\ UNCHANGED <<socket, pidFile, unshimmed>>

Stop(d) ==
    /\ daemon[d] = "serving"
    /\ "stop" \in weather
    /\ DaemonAt(d, "stopping")
    /\ UNCHANGED <<socket, pidFile, claim, unshimmed>>

\* cleanup: the socket, then the PID file; the claim is dropped last.
UnlinkSocket(d) ==
    /\ daemon[d] = "stopping"
    /\ socket' = None
    /\ DaemonAt(d, "unlinked")
    /\ UNCHANGED <<pidFile, claim, unshimmed>>

UnlinkPid(d) ==
    /\ daemon[d] = "unlinked"
    /\ pidFile' = IF d \in Publishers THEN None ELSE pidFile
    /\ DaemonAt(d, "leaving")
    /\ UNCHANGED <<socket, claim, unshimmed>>

Leave(d) ==
    /\ daemon[d] = "leaving"
    /\ DaemonAt(d, "gone")
    /\ Free(d)
    /\ UNCHANGED <<socket, pidFile, unshimmed>>

Crash(d) ==
    /\ "crash" \in weather
    /\ daemon[d] \notin {"unborn", "gone"}
    /\ DaemonAt(d, "gone")
    /\ Free(d)
    /\ UNCHANGED <<socket, pidFile, unshimmed>>

DaemonStep(d) ==
    \/ ClaimSocketPath(d) \/ PrepareSocketPath(d) \/ RemoveStale(d) \/ Bind(d) \/ Listen(d)
    \/ Publish(d) \/ UnlinkSocket(d) \/ UnlinkPid(d) \/ Leave(d)

-----------------------------------------------------------------------------
(* A shim *)

Move(s, next) == shim' = [shim EXCEPT ![s] = next]

\* A connect, and where to go if it fails.
TryConnect(s, otherwise) ==
    \E up \in Connects : Move(s, IF up THEN "connected" ELSE otherwise)

FastPath(s) ==
    /\ shim[s] = "fresh"
    /\ TryConnect(s, "look")
    /\ UNCHANGED <<socket, pidFile, claim, daemon, withPid, weather>>

LookForSocket(s) ==
    /\ shim[s] = "look"
    /\ Move(s, IF socket = None THEN "pidAlone" ELSE "pidBeside")
    /\ UNCHANGED <<socket, pidFile, claim, daemon, withPid, weather>>

\* A socket that refused: wait for a daemon that may be starting, else clear it.
ReadPidBeside(s) ==
    /\ shim[s] = "pidBeside"
    /\ withPid' = [withPid EXCEPT ![s] = pidFile # None]
    /\ \/ pidFile = None /\ Move(s, "clear")
       \/ /\ pidFile # None
          /\ \E alive \in LooksAlive(pidFile) : Move(s, IF alive THEN "grace" ELSE "clear")
    /\ UNCHANGED <<socket, pidFile, claim, daemon, weather>>

\* No socket: wait for a daemon that may be binding, else forget its PID.
ReadPidAlone(s) ==
    /\ shim[s] = "pidAlone"
    /\ \/ pidFile = None /\ Move(s, "spawn")
       \/ /\ pidFile # None
          /\ \E alive \in LooksAlive(pidFile) : Move(s, IF alive THEN "graceAlone" ELSE "forgetPid")
    /\ UNCHANGED <<socket, pidFile, claim, daemon, withPid, weather>>

Grace(s) ==
    /\ \/ shim[s] = "grace" /\ TryConnect(s, "clear")
       \/ shim[s] = "graceAlone" /\ TryConnect(s, "forgetPid")
    /\ UNCHANGED <<socket, pidFile, claim, daemon, withPid, weather>>

\* Under no claim.
ForgetPid(s) ==
    /\ shim[s] = "forgetPid"
    /\ pidFile' = None
    /\ Move(s, "spawn")
    /\ UNCHANGED <<socket, claim, daemon, withPid, weather>>

\* Mutation: the claim is let go at once (`let _ =` for `let _claim =`).
ClearSocket_DropsClaim(s) ==
    /\ shim[s] = "clear"
    /\ IF claim = None THEN Move(s, "probe") ELSE TryConnect(s, "spawn")
    /\ UNCHANGED <<socket, pidFile, claim, daemon, withPid, weather>>

\* clear_socket; if the claim is held, whoever holds it may be listening.
ClearSocket(s) ==
    /\ shim[s] = "clear"
    /\ IF claim = None
       THEN claim' = s /\ Move(s, "probe")
       ELSE UNCHANGED claim /\ TryConnect(s, "spawn")
    /\ UNCHANGED <<socket, pidFile, daemon, withPid, weather>>

\* Live: connected.  Unknown: left alone.  Dead: unlinked.
ProbeSocket(s) ==
    /\ shim[s] = "probe"
    /\ \E up \in Connects :
          \/ /\ up
             /\ Move(s, "connected")
             /\ Free(s)
          \/ /\ ~up
             /\ Move(s, "unlink")
             /\ UNCHANGED claim
          \/ /\ "refusal" \in weather
             /\ Move(s, "spawn")
             /\ Free(s)
    /\ UNCHANGED <<socket, pidFile, daemon, withPid, weather>>

RemoveSocket(s) ==
    /\ shim[s] = "unlink"
    /\ socket' = None
    /\ Move(s, "unlinkPid")
    /\ UNCHANGED <<pidFile, claim, daemon, withPid, weather>>

RemovePid(s) ==
    /\ shim[s] = "unlinkPid"
    /\ pidFile' = IF withPid[s] THEN None ELSE pidFile
    /\ Move(s, "spawn")
    /\ Free(s)
    /\ UNCHANGED <<socket, daemon, withPid, weather>>

SpawnDaemon(s, d) ==
    /\ shim[s] = "spawn"
    /\ d \notin ByHand
    /\ daemon[d] = "unborn"
    /\ DaemonAt(d, "starting")
    /\ Move(s, "ready")
    /\ UNCHANGED <<socket, pidFile, claim, withPid, weather>>

\* wait_for_socket polls until its deadline.
DaemonReady(s) ==
    /\ shim[s] = "ready"
    /\ Answers
    /\ Move(s, "connected")
    /\ UNCHANGED <<socket, pidFile, claim, daemon, withPid, weather>>

\* The binary is not there, or its daemon is not in time.
ShimFails(s) ==
    /\ \/ shim[s] = "spawn" /\ "refusal" \in weather
       \/ shim[s] = "ready" /\ "timeout" \in weather
    /\ Move(s, "failed")
    /\ UNCHANGED <<socket, pidFile, claim, daemon, withPid, weather>>

ShimCrashes(s) ==
    /\ "crash" \in weather
    /\ shim[s] \notin {"connected", "failed"}
    /\ Move(s, "failed")
    /\ Free(s)
    /\ UNCHANGED <<socket, pidFile, daemon, withPid, weather>>

ShimStep(s) ==
    \/ FastPath(s) \/ LookForSocket(s) \/ ReadPidBeside(s) \/ ReadPidAlone(s) \/ Grace(s)
    \/ ForgetPid(s) \/ ClearSocket(s) \/ ProbeSocket(s) \/ RemoveSocket(s) \/ RemovePid(s)
    \/ \E d \in Daemons : SpawnDaemon(s, d)
    \/ DaemonReady(s)

-----------------------------------------------------------------------------
\* A daemon that has left something behind was killed.
ClaimInit ==
    /\ \E left \in Leftovers :
          /\ socket = left[1]
          /\ pidFile = left[2]
          /\ daemon = [d \in Daemons |-> IF d \in {left[1], left[2]} THEN "gone" ELSE "unborn"]
    /\ claim = None
    /\ shim = [s \in Shims |-> "fresh"]
    /\ withPid = [s \in Shims |-> FALSE]
    /\ weather \in Weathers

ClaimNext ==
    \/ \E d \in Daemons : DaemonStep(d) \/ Start(d) \/ StartupFails(d) \/ Stop(d) \/ Crash(d)
    \/ \E s \in Shims : ShimStep(s) \/ ShimFails(s) \/ ShimCrashes(s)

ClaimSpec == ClaimInit /\ [][ClaimNext]_claimVars

\* Every process runs.  Nobody need start a daemon by hand, or stop one.
ClaimFairSpec ==
    /\ ClaimSpec
    /\ \A d \in Daemons : WF_claimVars(DaemonStep(d))
    /\ \A s \in Shims : WF_claimVars(ShimStep(s))

-----------------------------------------------------------------------------
(* Properties *)

\* No live daemon loses its socket: from bind until it unlinks it itself, what
\* is at the path is its own, so it is reachable and no second daemon serves -
\* through any mixture of daemons and shims that clear, bind, crash and clean
\* up, a daemon between bind and listen included, which refuses a connect as a
\* dead one does.
NeverOrphaned == \A d \in Daemons : daemon[d] \in Owning => socket = d

\* The flock is held by whoever acts under it, and by nobody else: over all the
\* exits of run and clear_socket, errors and crashes, no claim outlives its
\* holder and none is let go early.
ClaimHeld ==
    /\ \A d \in Daemons : daemon[d] \in Claiming <=> claim = d
    /\ \A s \in Shims : shim[s] \in Clearing <=> claim = s

\* A shim that has started a daemon gets a connection, though its own daemon may
\* have lost the claim to another's, or to a shim that was clearing the path, and
\* whatever a daemon that was killed has left there - as long as no daemon stops
\* or is killed meanwhile.
Converges ==
    \A s \in Shims : weather = {} /\ shim[s] = "ready" ~> shim[s] = "connected"

\* "A refusal is not retried and not waited on: Bridge::auto_start ... polls the
\* socket, which the winner binds milliseconds later": the daemon that a starting
\* one stands down for has not already unlinked its socket on its way out.
LoserHasWinner ==
    [][\A d, holder \in Daemons :
          daemon[d] = "starting" /\ daemon'[d] = "gone" /\ claim = holder
             => daemon[holder] \notin {"unlinked", "leaving"}]_claimVars

\* "Dead, or alive-but-never-bound: clear the stale PID file": what a shim
\* clears is never the PID of a daemon that is serving.
PidFileKept ==
    [][\A d \in Daemons : daemon[d] = "serving" /\ pidFile = d /\ daemon'[d] = "serving"
          => pidFile' = d]_claimVars
=============================================================================
