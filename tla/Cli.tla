-------------------------------- MODULE Cli --------------------------------
(***************************************************************************)
(* Command-line processes of servers built on this crate, editing the same *)
(* MCP clients' configuration files: the dispatcher and its hooks          *)
(* (src/src/cli/mod.rs), install and uninstall (commands.rs), the staged   *)
(* write (install/mod.rs), the health probe (health.rs), and the launch of *)
(* a server by its own entry (src/src/daemon.rs).                          *)
(*                                                                         *)
(* Processes run one command line at a time, interleave, and may die       *)
(* between any two steps; a write to a file is not whole until it ends.    *)
(***************************************************************************)
EXTENDS Installer, CommandLine

CONSTANTS
    Processes,  \* command-line processes
    CliOf,      \* process -> the cli its program built
    RuntimeDirs,    \* the processes whose environment names a runtime directory
    Lines,      \* command lines a user may type
    Worlds,     \* [files, present, home]: the clients' files, what else of the
                \* clients is there, and whether there is a home at all
    MaxLines,   \* how many command lines are typed
    MaxEdits    \* how often a client may rewrite its own file

\* What the constants are: a file is a file, and one that is not there has no
\* mode of its own; an entry is registered under a server's name.
IsFile(f) ==
    /\ f = File(f.shape, f.servers, f.rest, f.mode)
    /\ f.shape \in Shapes /\ f.servers = [s \in Servers |-> f.servers[s]] /\ f.rest \in Nat
    /\ f.shape = "absent" => f.mode = "default"

ASSUME CliAssumption ==
    /\ ClientList \in Seq(Range(ClientList))
    /\ \A w \in Worlds :
         /\ w.files = [c \in Range(ClientList) |-> w.files[c]]
         /\ \A c \in Range(ClientList) : IsFile(w.files[c])
    /\ \A p \in Processes :
         /\ CliOf[p].entry.name \in Servers
         /\ CliOf[p].entry = [name |-> CliOf[p].entry.name, args |-> CliOf[p].entry.args,
              env |-> CliOf[p].entry.env, auto |-> CliOf[p].entry.auto,
              connect |-> CliOf[p].entry.connect]

VARIABLES
    home,       \* there is a home directory to look for clients in
    present,    \* client -> whether its directory, and the path of its own, are there
    config,     \* client -> its configuration file
    bak,        \* client -> the copy beside it, or Torn
    staging,    \* <<client, process>> -> the staged file, Torn, or Nothing
    proc,       \* process -> where its command is
    ledger,     \* client -> what the file ought to hold (history)
    raced,      \* clients two edits of whose file overlapped (history)
    edits,      \* rewrites by the clients themselves so far
    typed,      \* command lines typed so far
    daemons     \* the sockets a daemon that detached serves

vars == <<home, present, config, bak, staging, proc, ledger, raced, edits, typed, daemons>>
fileVars == <<home, present, config, bak, staging, ledger, raced, edits, typed>>

ClientSet == Range(ClientList)
Nothing == [shape |-> "nothing"]
Torn == [shape |-> "torn"]

\* A process: its phase, the plan it follows, the place in the client list, the
\* file read, the file to write and the mode for it, what went wrong, what it
\* touched, how a server was launched, the process it left behind, its exit.
Idle == [phase |-> "idle", plan |-> Planned("none", <<>>), addr |-> Nowhere,
         names |-> {}, at |-> 1, read |-> Nothing,
         write |-> Nothing, perms |-> "default", failed |-> FALSE, touched |-> {},
         answered |-> 0, mode |-> "none", child |-> "none", exit |-> "none"]

EntryOf(p) ==
    IF proc[p].addr = Nowhere THEN CliOf[p].entry
    ELSE WithConnect(CliOf[p].entry, proc[p].addr)

Go(p, to) == proc' = [proc EXCEPT ![p] = to]
Exit(p, how) == Go(p, [proc[p] EXCEPT !.phase = "done", !.exit = how])
Touches(p, what) == [proc[p] EXCEPT !.touched = @ \cup {what}]
Client(p) == ClientList[proc[p].at]
Format(p) == ClientOf[Client(p)].format

\* How install and uninstall went, once every client has been seen to.
Outcome(p) == IF proc[p].failed \/ ~home THEN "failure" ELSE "ok"

\* The type invariant.
TypeOK ==
    /\ \A c \in ClientSet : config[c].shape \in Shapes
    /\ \A p \in Processes :
         /\ proc[p].at \in 1..(Len(ClientList) + 1)
         /\ proc[p].exit \in {"none", "ok", "failure", "usage"}
    /\ raced \subseteq ClientSet /\ edits \in 0..MaxEdits

Init ==
    /\ \E w \in Worlds : home = w.home /\ present = w.present /\ config = w.files
    /\ bak = [c \in ClientSet |-> Nothing]
    /\ staging = [x \in ClientSet \X Processes |-> Nothing]
    /\ proc = [p \in Processes |-> Idle]
    /\ ledger = config
    /\ raced = {} /\ edits = 0 /\ typed = 0 /\ daemons = {}

----------------------------------------------------------------------------
(* Starting a command.                                                      *)

\* selector_error: a --client that names nothing known.
SelectorError(names) == home /\ ~(names \subseteq ClientSet)

Refuses(plan) ==
    \/ plan.what = "unknown"
    \/ plan.what \in {"install", "uninstall"}
         /\ (~HarnessArgs(plan.args).ok \/ SelectorError(HarnessArgs(plan.args).names))
    \/ plan.what = "health" /\ ~Connect(plan.args).ok

\* What starts each built-in command, on a line that was not refused: every
\* way it can be is settled before a hook runs.
InstallFrom(p) == IF CliOf[p].before THEN "hook" ELSE "clients"
UninstallFrom(p) == "clients"
HealthFrom(plan) == IF Connect(plan.args).addr = Nowhere THEN "handler" ELSE "dial"

FirstPhase(p, plan) ==
    CASE Refuses(plan)                             -> "refused"
      [] ~Refuses(plan) /\ plan.what = "install"   -> InstallFrom(p)
      [] ~Refuses(plan) /\ plan.what = "uninstall" -> UninstallFrom(p)
      [] ~Refuses(plan) /\ plan.what = "health"    -> HealthFrom(plan)
      [] OTHER -> plan.what

RunFrom(p, line) ==
    /\ proc[p].phase = "idle" /\ typed < MaxLines
    /\ typed' = typed + 1
    /\ LET plan  == Plan(CliOf[p], line)
           given == plan.what \in {"install", "uninstall"} /\ HarnessArgs(plan.args).ok
       IN  Go(p, [Idle EXCEPT !.phase = FirstPhase(p, plan), !.plan = plan,
                    !.names = IF given THEN HarnessArgs(plan.args).names ELSE {},
                    !.addr  = IF given /\ plan.what = "install" THEN HarnessArgs(plan.args).addr
                              ELSE Nowhere])
    /\ UNCHANGED <<home, present, config, bak, staging, ledger, raced, edits, daemons>>

\* Help prints and succeeds; a refused line exits with the usage status.
Answers(p) ==
    /\ proc[p].phase \in {"help", "refused"}
    /\ Exit(p, IF proc[p].phase = "help" THEN "ok" ELSE "usage")
    /\ UNCHANGED <<fileVars, daemons>>

\* An author's command or health check: its result is the exit status.
HandlerRuns(p) ==
    /\ proc[p].phase \in {"handler", "custom"}
    /\ \E how \in {"ok", "failure"} : Exit(p, how)
    /\ UNCHANGED <<fileVars, daemons>>

\* The author's hook: before install's first edit, after uninstall's last.
Hook(p) ==
    /\ proc[p].phase = "hook"
    /\ \E ok \in BOOLEAN :
         IF ok /\ proc[p].plan.what = "install"
         THEN Go(p, [Touches(p, "hook") EXCEPT !.phase = "clients"])
         ELSE Go(p, [Touches(p, "hook") EXCEPT !.phase = "done",
                                               !.exit = IF ok THEN Outcome(p) ELSE "failure"])
    /\ UNCHANGED <<fileVars, daemons>>

----------------------------------------------------------------------------
(* install and uninstall: one client after another.                         *)

NextClient(p, failed) ==
    Go(p, [proc[p] EXCEPT !.phase = "clients", !.at = @ + 1, !.read = Nothing, !.write = Nothing,
                          !.perms = "default", !.failed = @ \/ failed])

Selected(p) == proc[p].names = {} \/ Client(p) \in proc[p].names

ChecksClient(p) ==
    /\ proc[p].phase = "clients" /\ home /\ proc[p].at <= Len(ClientList)
    /\ LET c == Client(p)
           status == CheckExisting(ClientOf[c], config[c], present[c], EntryOf(p))
       IN  IF \/ ~Selected(p) \/ status = "client not found"
              \/ proc[p].plan.what = "install" /\ ~WantsInstall(status)
           THEN NextClient(p, FALSE)
           ELSE Go(p, [proc[p] EXCEPT !.phase = "read"])
    /\ UNCHANGED <<fileVars, daemons>>

\* The file is read again, and edited in memory.
ReadsConfig(p) ==
    /\ proc[p].phase = "read"
    /\ LET file == config[Client(p)]
           edit == IF proc[p].plan.what = "install"
                   THEN InstallEdit(Format(p), file, EntryOf(p))
                   ELSE UninstallEdit(file, EntryOf(p))
       IN  IF edit.did = "edit"
           THEN Go(p, [proc[p] EXCEPT !.phase = "copy", !.read = file, !.write = edit.file])
           ELSE NextClient(p, edit.did = "error")
    /\ UNCHANGED <<fileVars, daemons>>

\* q is in write_staged, past the start of its copy.
Writes(q, c) ==
    /\ proc[q].phase \in {"copying", "stage", "staging", "chmod", "commit"}
    /\ Client(q) = c

\* write_staged.  The mode is that of whatever is at the path now, and the copy
\* is made of it.
CopyBegins(p) ==
    /\ proc[p].phase = "copy"
    /\ LET absent == config[Client(p)].shape = "absent" IN
         /\ Go(p, [proc[p] EXCEPT !.phase = IF absent THEN "stage" ELSE "copying",
                                  !.perms = config[Client(p)].mode])
         /\ bak' = IF absent THEN bak ELSE [bak EXCEPT ![Client(p)] = Torn]
    /\ raced' = raced \cup {c \in {Client(p)} : \E q \in Processes \ {p} : Writes(q, c)}
    /\ UNCHANGED <<home, present, config, staging, ledger, edits, typed, daemons>>

CopyEnds(p) ==
    /\ proc[p].phase = "copying"
    /\ Go(p, [proc[p] EXCEPT !.phase = "stage"])
    /\ bak' = [bak EXCEPT ![Client(p)] = config[Client(p)]]
    /\ UNCHANGED <<home, present, config, staging, ledger, raced, edits, typed, daemons>>

StageBegins_InPlace(p) ==
    /\ proc[p].phase = "stage"
    /\ Go(p, [proc[p] EXCEPT !.phase = "staging"])
    /\ config' = [config EXCEPT ![Client(p)] = Torn]
    /\ UNCHANGED <<home, present, bak, staging, ledger, raced, edits, typed, daemons>>

StageBegins(p) ==
    /\ proc[p].phase = "stage"
    /\ Go(p, [proc[p] EXCEPT !.phase = "staging"])
    /\ staging' = [staging EXCEPT ![<<Client(p), p>>] = Torn]
    /\ UNCHANGED <<home, present, config, bak, ledger, raced, edits, typed, daemons>>

\* The new file has the default mode until it is given the old one's.
StageEnds(p) ==
    /\ proc[p].phase = "staging"
    /\ Go(p, [proc[p] EXCEPT !.phase = "chmod"])
    /\ staging' = [staging EXCEPT ![<<Client(p), p>>] = [proc[p].write EXCEPT !.mode = "default"]]
    /\ UNCHANGED <<home, present, config, bak, ledger, raced, edits, typed, daemons>>

ModeFor_Default(p) == "default"
ModeFor(p) == proc[p].perms

SetsMode(p) ==
    /\ proc[p].phase = "chmod"
    /\ Go(p, [proc[p] EXCEPT !.phase = "commit"])
    /\ staging' = [staging EXCEPT ![<<Client(p), p>>].mode = ModeFor(p)]
    /\ UNCHANGED <<home, present, config, bak, ledger, raced, edits, typed, daemons>>

\* The rename.  The ledger is told only what this command was asked to change.
Commit(p) ==
    /\ proc[p].phase = "commit"
    /\ LET c == Client(p) IN
         /\ config' = [config EXCEPT ![c] = staging[<<c, p>>]]
         /\ staging' = [staging EXCEPT ![<<c, p>>] = Nothing]
         /\ raced' = IF config[c] = proc[p].read THEN raced ELSE raced \cup {c}
         /\ ledger' = [ledger EXCEPT ![c] = [@ EXCEPT !.shape = "good",
              !.servers[EntryOf(p).name] = proc[p].write.servers[EntryOf(p).name]]]
    /\ Go(p, [Touches(p, "config") EXCEPT !.phase = "clients", !.at = @ + 1, !.read = Nothing,
                                          !.write = Nothing, !.perms = "default"])
    /\ UNCHANGED <<home, present, bak, edits, typed, daemons>>

\* Any step of the write may fail; the staged file is removed.
WriteFails_Kept(p) == NextClient(p, FALSE)
WriteFails(p) == NextClient(p, TRUE)

StepFails(p) ==
    /\ proc[p].phase \in {"copying", "staging", "chmod", "commit"}
    /\ WriteFails(p)
    /\ staging' = [staging EXCEPT ![<<Client(p), p>>] = Nothing]
    /\ UNCHANGED <<home, present, config, bak, ledger, raced, edits, typed, daemons>>

\* No home directory: nowhere to look, which is a failure.
Finishes(p) ==
    /\ proc[p].phase = "clients" /\ (proc[p].at > Len(ClientList) \/ ~home)
    /\ IF proc[p].plan.what = "uninstall" /\ CliOf[p].after
       THEN Go(p, [proc[p] EXCEPT !.phase = "hook"])
       ELSE Exit(p, Outcome(p))
    /\ UNCHANGED <<fileVars, daemons>>

----------------------------------------------------------------------------
(* health --connect: initialize, the initialized notification, one ping.    *)

\* A connector that cannot take a deadline is refused like one that cannot dial.
Dials(p) ==
    /\ proc[p].phase = "dial"
    /\ \E ok \in BOOLEAN :
         Go(p, [Touches(p, "network") EXCEPT !.phase = IF ok THEN "probe" ELSE "done",
                                             !.exit  = IF ok THEN @ ELSE "failure"])
    /\ UNCHANGED <<fileVars, daemons>>

\* Notifications are skipped; anything but a result ends the probe.
ProbeHears(p) ==
    /\ proc[p].phase = "probe"
    /\ \E what \in {"result", "notification", "error", "request", "closed", "timeout"} :
         CASE what = "notification" -> UNCHANGED proc
           [] what = "result" ->
                Go(p, [proc[p] EXCEPT !.answered = @ + 1,
                                      !.phase = IF proc[p].answered = 1 THEN "done" ELSE @,
                                      !.exit  = IF proc[p].answered = 1 THEN "ok" ELSE @])
           [] OTHER -> Exit(p, "failure")
    /\ UNCHANGED <<fileVars, daemons>>

----------------------------------------------------------------------------
(* serve: a server launched by the line its own entry names.  The author's  *)
(* handler is serve_daemon_with, which reads the whole line again.          *)

\* user_socket_path: the runtime directory, the home directory, or the
\* temporary one under this user's id.
SocketPathFrom(p) ==
    IF p \in RuntimeDirs THEN "runtime" ELSE IF home THEN "state" ELSE "temporary"

Serves(p) ==
    /\ proc[p].phase = "serve"
    /\ LET launch == LaunchMode(proc[p].plan.args)
       IN  IF ~launch.ok
           THEN Exit(p, IF CliOf[p].connector THEN "usage" ELSE "failure")
           ELSE Go(p, [proc[p] EXCEPT !.mode = launch.mode, !.addr = launch.addr,
                         !.phase = IF launch.mode = "remote" THEN "remote" ELSE "directory"])
    /\ UNCHANGED <<fileVars, daemons>>

\* remote_shim: one attempt, and nothing of this machine's.
RemoteShim(p) ==
    /\ proc[p].phase = "remote"
    /\ \E ok \in BOOLEAN :
         Go(p, [Touches(p, "network") EXCEPT !.phase = IF ok THEN "handler" ELSE "done",
                                             !.exit  = IF ok THEN @ ELSE "failure"])
    /\ UNCHANGED <<fileVars, daemons>>

\* ensure_private_parent_dir: before any fork, so that whoever ran the command
\* hears of a failure.
EnsureParentDir(p) ==
    /\ proc[p].phase = "directory"
    /\ \/ Exit(p, "failure")
       \/ Go(p, [Touches(p, SocketPathFrom(p)) EXCEPT
                    !.phase = CASE proc[p].mode = "shim"       -> "upstream"
                                [] proc[p].mode = "daemon"     -> "fork"
                                [] proc[p].mode = "foreground" -> "handler"])
    /\ UNCHANGED <<fileVars, daemons>>

\* A program's daemon has a socket of its own, and a process in the foreground
\* serves it as a detached one does.
Socket(p) == <<CliOf[p].entry.name, SocketPathFrom(p)>>
Served(p) ==
    \/ Socket(p) \in daemons
    \/ \E q \in Processes : Socket(q) = Socket(p) /\ proc[q].phase = "handler"
                            /\ proc[q].mode = "foreground"

\* The line start_upstream relaunches this executable with, which the program's
\* own cli plans like any other.  Only an author's command of that name takes it,
\* whose handler is then the one of serve.
Relaunch(p) == <<"--daemon", "--socket", SocketPathFrom(p)>>
TakesRelaunch(p) == Plan(CliOf[p], Relaunch(p)).what \in {"serve", "custom"}

\* start_upstream: a daemon is connected to, or started and waited for; one
\* whose paths cannot be passed on a command line is not started, one that is
\* started and exits is waited for in vain.
StartUpstream(p) ==
    /\ proc[p].phase = "upstream"
    /\ \/ /\ Exit(p, "failure")
          /\ UNCHANGED daemons
       \/ /\ Served(p)
          /\ Go(p, [Touches(p, "daemon") EXCEPT !.phase = "handler"])
          /\ UNCHANGED daemons
       \/ /\ ~Served(p) /\ TakesRelaunch(p)
          /\ Go(p, [Touches(p, "daemon") EXCEPT !.phase = "handler"])
          /\ daemons' = daemons \cup {Socket(p)}
       \/ /\ ~Served(p) /\ ~TakesRelaunch(p)
          /\ Go(p, [proc[p] EXCEPT !.phase = "done", !.exit = "failure", !.child = "refused"])
          /\ UNCHANGED daemons
    /\ UNCHANGED fileVars

\* daemonize_fork.  The process that was typed is gone with the first fork; a
\* session or a second fork that fails is known only to a child without a
\* terminal.
Detach(p) ==
    /\ proc[p].phase = "fork"
    /\ \/ Exit(p, "failure") /\ UNCHANGED daemons
       \/ \E child \in {"serving", "lost"} :
            /\ Go(p, [proc[p] EXCEPT !.phase = "done", !.exit = "ok", !.child = child])
            /\ daemons' = IF child = "serving" THEN daemons \cup {Socket(p)} ELSE daemons
    /\ UNCHANGED fileVars

----------------------------------------------------------------------------
(* The world.                                                               *)

\* A process dies between two steps; what it left in files stays.
Crash(p) ==
    /\ proc[p].phase \notin {"idle", "done", "dead"}
    /\ Go(p, [Idle EXCEPT !.phase = "dead"])
    /\ UNCHANGED <<fileVars, daemons>>

\* The user types the next line once the last command is over.  The new process
\* has an id of its own, so a file a dead one staged is not in its way.
Prompt(p) ==
    /\ proc[p].phase \in {"done", "dead"}
    /\ Go(p, Idle)
    /\ staging' = [x \in DOMAIN staging |-> IF x[2] = p THEN Nothing ELSE staging[x]]
    /\ UNCHANGED <<home, present, config, bak, ledger, raced, edits, typed, daemons>>

\* A client rewrites its own settings, whole.
ClientEdits(c) ==
    /\ edits < MaxEdits /\ config[c].shape = "good"
    /\ edits' = edits + 1
    /\ config' = [config EXCEPT ![c].rest = @ + 1]
    /\ ledger' = [ledger EXCEPT ![c].rest = @ + 1]
    /\ UNCHANGED <<home, present, bak, staging, proc, raced, typed, daemons>>

\* A daemon is idle for long enough, is stopped, or dies.
DaemonGoes(socket) ==
    /\ socket \in daemons
    /\ daemons' = daemons \ {socket}
    /\ UNCHANGED <<fileVars, proc>>

Step(p) ==
    \/ \E line \in Lines : RunFrom(p, line)
    \/ Answers(p) \/ HandlerRuns(p) \/ Hook(p) \/ ChecksClient(p) \/ ReadsConfig(p)
    \/ CopyBegins(p) \/ CopyEnds(p) \/ StageBegins(p) \/ StageEnds(p) \/ SetsMode(p)
    \/ Commit(p) \/ StepFails(p) \/ Finishes(p) \/ Dials(p) \/ ProbeHears(p)
    \/ Serves(p) \/ RemoteShim(p) \/ EnsureParentDir(p) \/ StartUpstream(p) \/ Detach(p)
    \/ Crash(p) \/ Prompt(p)

Next ==
    \/ \E p \in Processes : Step(p)
    \/ \E c \in ClientSet : ClientEdits(c)
    \/ \E socket \in daemons : DaemonGoes(socket)

Spec == Init /\ [][Next]_vars

----------------------------------------------------------------------------
(* Properties.                                                              *)

\* A client never finds half a file: its configuration is whole at every
\* moment, whoever dies when; one the installer cannot make sense of is never
\* touched; and unless two edits overlapped, the file about to be replaced is
\* in the .bak.
NeverTorn ==
    /\ \A c \in ClientSet :
         /\ config[c].shape # "torn"
         /\ ledger[c].shape \in {"broken", "odd"} => config[c] = ledger[c]
    /\ \A p \in Processes :
         LET c == Client(p) IN
         /\ proc[p].phase = "commit" /\ c \notin raced
         /\ config[c] = proc[p].read /\ config[c].shape # "absent"
         => bak[c] = config[c]

\* Everything the command did not put there survives - other servers' entries,
\* the client's own settings, the file's mode - unless the file changed between
\* the read and the rename.
OthersSurvive ==
    \A c \in ClientSet \ raced : config[c] = [ledger[c] EXCEPT !.servers = config[c].servers]
        /\ \A s \in Servers : config[c].servers[s] = ledger[c].servers[s]

\* A client's configuration file is safe with the installer: whole, and unchanged
\* but for the entry.
ConfigKept == NeverTorn /\ OthersSurvive

\* The same, whatever overlaps: the rule in the installer's documentation.
EverythingSurvives ==
    \A c \in ClientSet : config[c].rest = ledger[c].rest
        /\ \A s \in Servers : config[c].servers[s] = ledger[c].servers[s]

\* Install left an entry that a second install finds current and would not
\* rewrite; uninstall left none.
Done(p, c) ==
    \/ c \in raced \/ ~Detect(ClientOf[c], config[c], present[c])
    \/ proc[p].names # {} /\ c \notin proc[p].names
    \/ proc[p].plan.what = "install"
         /\ CheckExisting(ClientOf[c], config[c], present[c], EntryOf(p)) = "installed"
         /\ InstallEdit(ClientOf[c].format, config[c], EntryOf(p)).did = "nothing"
    \/ proc[p].plan.what = "uninstall" /\ ExistingEntry(config[c], EntryOf(p)) = NoEntry

EditsDone(p) ==
    proc[p].exit = "ok" /\ proc[p].plan.what \in {"install", "uninstall"} =>
        \A c \in ClientSet : Done(p, c)

\* Health heard two answers; a daemon's directory was there before its launcher
\* said so; a line that was refused did nothing, not even the hook; and a serve
\* that dials another machine touches nothing of this one.
TruthTold(p) ==
    /\ proc[p].exit = "ok" /\ proc[p].plan.what = "health" /\ proc[p].touched # {} =>
         proc[p].answered = 2
    /\ proc[p].child # "none" => SocketPathFrom(p) \in proc[p].touched
    /\ proc[p].exit = "usage" => proc[p].touched = {}
    /\ proc[p].mode = "remote" => proc[p].touched \subseteq {"network"}

\* A command that succeeded did what it says, and one that was refused nothing.
ExitHonest == \A p \in Processes : EditsDone(p) /\ TruthTold(p)

\* What install wrote into a client's file, the parsers of a later launch read as
\* serve: as a proxy to the address it was installed with, and to nothing local,
\* if it was given one, and as a local launch otherwise.  What a local launch
\* then finds, or starts, the line does not settle: see RelaunchTaken.
LineServes ==
    \A c \in ClientSet, p \in Processes :
        LET stored == ExistingEntry(config[c], CliOf[p].entry)
            plan   == Plan(CliOf[p], stored.args)
            mode   == LaunchMode(plan.args)
        IN  stored # NoEntry /\ stored.command = Command /\ CliOf[p].serve =>
                /\ plan.what = "serve" /\ mode.ok
                /\ mode.addr = IF "--connect" \in Range(stored.args) THEN Last(stored.args)
                               ELSE Nowhere

\* "relaunching this executable as one if none is up" (start_upstream): a shim
\* whose daemon is not there starts one.
RelaunchTaken == \A p \in Processes : proc[p].child # "refused"
============================================================================
