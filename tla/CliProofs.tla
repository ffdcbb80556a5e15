----------------------------- MODULE CliProofs -----------------------------
(***************************************************************************)
(* What TLAPS proves of the command line and the installer, for any number *)
(* of processes, clients and command lines, each process free to fail at   *)
(* any step or to die: a client's configuration file is whole at every     *)
(* moment, and keeps everything that is not the entry; and what a command  *)
(* says of itself as it ends is so.                                        *)
(*                                                                         *)
(* ConfigKept is not inductive.  A rename is only as good as the file it   *)
(* moves, so the invariant follows a write from the read on (Hands); and   *)
(* of a file that is not raced it says that at most one process is past    *)
(* the start of its copy (Orderly), without which one process could        *)
(* overwrite the copy another relies on, or rename over its work.  The     *)
(* client's own edits are told from the file that was read by `rest`,      *)
(* which only grows.  The mode a staged file is given is that of the file  *)
(* then at the path, not of the one that was read; that they agree (Moded) *)
(* is because nobody changes a file's mode, a rename included.             *)
(***************************************************************************)
EXTENDS Cli, SequenceTheorems, TLAPS

-----------------------------------------------------------------------------
(* The inductive invariant of the files *)

\* A process with an edited file in hand.
Editing == {"copy", "copying", "stage", "staging", "chmod", "commit"}

Fields == {"phase", "plan", "addr", "names", "at", "read", "write", "perms", "failed",
           "touched", "answered", "mode", "child", "exit"}
IsProc(r) == r = [f \in Fields |-> r[f]]

\* Where a process can be that is not editing.
Placed(r) ==
    /\ IsProc(r) /\ r.at \in Nat \ {0}
    /\ r.phase \in {"read"} \cup Editing => r.at <= Len(ClientList)
    /\ r.phase = "directory" => r.mode \in {"shim", "daemon", "foreground"}

FilesTyped ==
    /\ config = [c \in ClientSet |-> config[c]] /\ \A c \in ClientSet : IsFile(config[c])
    /\ ledger = [c \in ClientSet |-> ledger[c]] /\ \A c \in ClientSet : IsFile(ledger[c])
    /\ bak = [c \in ClientSet |-> bak[c]]
    /\ staging = [x \in ClientSet \X Processes |-> staging[x]]

ProcsTyped == proc = [p \in Processes |-> proc[p]] /\ \A p \in Processes : Placed(proc[p])

NameOf(p) == CliOf[p].entry.name

\* w is r, but for the entry of one server, and the installer could read r.
Rewrites(r, w, name) ==
    /\ IsFile(r) /\ IsFile(w) /\ r.shape \notin {"broken", "odd"}
    /\ w = [r EXCEPT !.shape = "good", !.servers[name] = w.servers[name]]

Edited(p) == Rewrites(proc[p].read, proc[p].write, NameOf(p))

\* What is staged is what is to be written.
Hands ==
    \A p \in Processes : proc[p].phase \in Editing =>
        /\ Edited(p)
        /\ proc[p].phase = "chmod" =>
             staging[<<Client(p), p>>] = [proc[p].write EXCEPT !.mode = "default"]
        /\ proc[p].phase = "commit" => staging[<<Client(p), p>>] = proc[p].write

\* The mode that was read, and the one that was taken for the staged file, is the
\* mode the file at the path has.
Moded ==
    \A p \in Processes : proc[p].phase \in Editing =>
        /\ proc[p].read.mode = config[Client(p)].mode
        /\ proc[p].phase # "copy" => proc[p].perms = proc[p].read.mode

\* Of a file two edits of which have overlapped nothing is said; of any other,
\* that it is what it ought to be, that it has not gone back, that one process
\* at most is in write_staged, and that this one's copy is good.
Orderly(c) ==
    /\ config[c] = ledger[c]
    /\ \A p \in Processes :
         proc[p].phase \in Editing /\ Client(p) = c => proc[p].read.rest <= config[c].rest
    /\ \A p, q \in Processes : Writes(p, c) /\ Writes(q, c) => p = q
    /\ \A p \in Processes :
         proc[p].phase \in Editing \ {"copy", "copying"} /\ Client(p) = c =>
            \/ config[c].shape = "absent"
            \/ bak[c] = config[c]
            \/ config[c].rest > proc[p].read.rest

\* A file the installer cannot read stays as it is.
LeftAlone ==
    \A c \in ClientSet : ledger[c].shape \in {"broken", "odd"} => config[c] = ledger[c]

CInv ==
    /\ FilesTyped /\ ProcsTyped /\ Hands /\ Moded /\ LeftAlone
    /\ \A c \in ClientSet \ raced : Orderly(c)

-----------------------------------------------------------------------------
LEMMA ClientListed ==
    ASSUME CliAssumption, NEW r, Placed(r), r.phase \in {"read"} \cup Editing
    PROVE  ClientList[r.at] \in ClientSet
    BY DEF CliAssumption, Placed, ClientSet, Range

LEMMA IdleIsProc == IsProc(Idle) /\ Idle.phase = "idle" /\ Idle.at = 1
    BY DEF IsProc, Fields, Idle

LEMMA InitCInv == CliAssumption /\ Init => CInv
<1> SUFFICES ASSUME CliAssumption, Init PROVE CInv
    OBVIOUS
<1>1. /\ ledger = config /\ raced = {}
      /\ bak = [c \in ClientSet |-> Nothing]
      /\ staging = [x \in ClientSet \X Processes |-> Nothing]
      /\ proc = [p \in Processes |-> Idle]
    BY DEF Init
<1>2. config = [c \in ClientSet |-> config[c]] /\ \A c \in ClientSet : IsFile(config[c])
    BY DEF Init, CliAssumption, ClientSet
<1>3. FilesTyped
    BY <1>1, <1>2 DEF FilesTyped
<1>4. Placed(Idle) /\ Idle.phase = "idle"
    BY IdleIsProc DEF Placed, Editing
<1>5. ProcsTyped
    BY <1>1, <1>4 DEF ProcsTyped
<1>6. \A p \in Processes : proc[p].phase = "idle"
    BY <1>1, <1>4
<1>7. Hands /\ Moded
    BY <1>6 DEF Hands, Moded, Editing
<1>8. \A c \in ClientSet : Orderly(c)
    BY <1>1, <1>6 DEF Orderly, Editing, Writes
<1> QED
    BY <1>1, <1>3, <1>5, <1>7, <1>8 DEF CInv, LeftAlone

\* No file's mode changes, and the process that moved has the right one in hand.
LEMMA ModesKeep ==
    ASSUME CInv, NEW p \in Processes, \A q \in Processes \ {p} : proc'[q] = proc[q],
           \A c \in ClientSet : config'[c].mode = config[c].mode,
           proc'[p].phase \in Editing =>
               /\ proc'[p].read.mode = config'[Client(p)'].mode
               /\ proc'[p].phase # "copy" => proc'[p].perms = proc'[p].read.mode
    PROVE  Moded'
<1> SUFFICES ASSUME NEW q \in Processes, q # p, proc'[q].phase \in Editing
             PROVE  /\ proc'[q].read.mode = config'[Client(q)'].mode
                    /\ proc'[q].phase # "copy" => proc'[q].perms = proc'[q].read.mode
    BY DEF Moded
<1>1. proc'[q] = proc[q]
    OBVIOUS
<1>2. Client(q)' = Client(q) /\ Client(q) \in ClientSet
    BY <1>1, CliAssumption, ClientListed DEF Client, CInv, ProcsTyped
<1> QED
    BY <1>1, <1>2 DEF CInv, Moded

\* A process that has no edited file in hand disturbs nobody.
LEMMA Aside ==
    ASSUME CInv, NEW p \in Processes, NEW to, Placed(to), to.phase \notin Editing,
           Go(p, to), UNCHANGED <<config, bak, ledger, raced>>,
           staging' = [x \in ClientSet \X Processes |-> staging'[x]],
           \A x \in ClientSet \X Processes : x[2] # p => staging'[x] = staging[x]
    PROVE  CInv'
<1>1. proc' = [proc EXCEPT ![p] = to]
    BY DEF Go
<1>2. proc'[p] = to /\ \A q \in Processes \ {p} : proc'[q] = proc[q]
    BY <1>1 DEF CInv, ProcsTyped
<1>3. FilesTyped'
    BY DEF CInv, FilesTyped
<1>4. ProcsTyped'
    BY <1>1, <1>2 DEF CInv, ProcsTyped
<1>5. \A q \in Processes : proc'[q].phase \in Editing => q # p /\ proc'[q] = proc[q]
    BY <1>2
<1>6. Hands'
  <2> SUFFICES ASSUME NEW q \in Processes, proc'[q].phase \in Editing
               PROVE  /\ Edited(q)'
                      /\ proc'[q].phase = "chmod" =>
                           staging'[<<Client(q)', q>>] = [proc'[q].write EXCEPT !.mode = "default"]
                      /\ proc'[q].phase = "commit" => staging'[<<Client(q)', q>>] = proc'[q].write
    BY DEF Hands
  <2>1. q # p /\ proc'[q] = proc[q]
    BY <1>5
  <2>2. Client(q)' = Client(q) /\ Client(q) \in ClientSet
    BY <2>1, CliAssumption, ClientListed DEF Client, CInv, ProcsTyped
  <2>3. staging'[<<Client(q), q>>] = staging[<<Client(q), q>>]
    BY <2>1, <2>2
  <2> QED
    BY <2>1, <2>2, <2>3 DEF CInv, Hands, Edited, NameOf
<1>7. \A c \in ClientSet \ raced' : Orderly(c)'
  <2> SUFFICES ASSUME NEW c \in ClientSet \ raced PROVE Orderly(c)'
    OBVIOUS
  <2>1. Orderly(c)
    BY DEF CInv
  <2>2. \A q \in Processes : Writes(q, c)' => Writes(q, c)
    BY <1>5 DEF Writes, Editing, Client
  <2> QED
    BY <2>1, <2>2, <1>5 DEF Orderly, Client
<1>8. Moded'
    BY <1>2, ModesKeep
<1> QED
    BY <1>3, <1>4, <1>6, <1>7, <1>8 DEF CInv, LeftAlone

LEMMA AsideQuietly ==
    ASSUME CInv, NEW p \in Processes, NEW to, Placed(to), to.phase \notin Editing,
           Go(p, to), UNCHANGED fileVars
    PROVE  CInv'
    BY Aside DEF CInv, FilesTyped, fileVars

-----------------------------------------------------------------------------
(* Steps of a process that is not in write_staged *)

Elsewhere == {"read", "directory"} \cup Editing

LEMMA PlanKinds ==
    ASSUME NEW cli, NEW line
    PROVE  Plan(cli, line).what \in
               {"serve", "help", "unknown", "custom", "install", "uninstall", "health"}
<1>1. \A word : Find(cli, word) \in
          {"serve", "unknown", "custom", "install", "uninstall", "health"}
    BY DEF Find, Builtins
<1>2. \A what, args : Planned(what, args).what = what
    BY DEF Planned
<1> QED
    BY <1>1, <1>2 DEF Plan

LEMMA FirstPhases ==
    ASSUME NEW p, NEW line
    PROVE  FirstPhase(p, Plan(CliOf[p], line)) \notin Elsewhere
<1> DEFINE plan == Plan(CliOf[p], line)
<1>1. plan.what \in {"serve", "help", "unknown", "custom", "install", "uninstall", "health"}
    BY PlanKinds
<1>2. InstallFrom(p) \in {"hook", "clients"} /\ UninstallFrom(p) = "clients"
      /\ HealthFrom(plan) \in {"handler", "dial"}
    BY DEF InstallFrom, UninstallFrom, HealthFrom
<1> HIDE DEF plan
<1>3. FirstPhase(p, plan) \in {"refused", "hook", "clients", "handler", "dial", plan.what}
    BY <1>2 DEF FirstPhase
<1>4. FirstPhase(p, plan) \notin Elsewhere
    BY <1>1, <1>3 DEF Elsewhere, Editing
<1> QED
    BY <1>4 DEF plan

LEMMA LaunchModes ==
    ASSUME NEW line, LaunchMode(line).ok
    PROVE  LaunchMode(line).mode \in {"shim", "daemon", "foreground", "remote"}
    BY DEF LaunchMode, Launch, Refused, ModeFromArgs

LEMMA RunFromKeeps ==
    ASSUME CInv, NEW p \in Processes, NEW line, RunFrom(p, line) PROVE CInv'
<1> DEFINE plan  == Plan(CliOf[p], line)
           given == plan.what \in {"install", "uninstall"} /\ HarnessArgs(plan.args).ok
           names == IF given THEN HarnessArgs(plan.args).names ELSE {}
           addr  == IF given /\ plan.what = "install" THEN HarnessArgs(plan.args).addr ELSE Nowhere
           first == FirstPhase(p, plan)
           to    == [Idle EXCEPT !.phase = first, !.plan = plan, !.names = names, !.addr = addr]
<1>1. Go(p, to) /\ UNCHANGED <<config, bak, staging, ledger, raced>>
    BY DEF RunFrom
<1>2. first \notin Elsewhere
    BY FirstPhases
<1> HIDE DEF plan, names, addr, first
<1>3. IsProc(to) /\ to.phase = first /\ to.at = 1
    BY IdleIsProc DEF IsProc, Fields
<1>4. Placed(to) /\ to.phase \notin Editing
    BY <1>2, <1>3 DEF Placed, Elsewhere
<1> QED
    BY <1>1, <1>4, Aside DEF CInv, FilesTyped

\* Any other change of place, outside the write: to where no file is in hand.
LEMMA MoveKeeps ==
    ASSUME CInv, NEW p \in Processes, NEW to, Go(p, to), UNCHANGED fileVars,
           IsProc(to), to.at \in Nat \ {0}, to.phase \notin Elsewhere
    PROVE  CInv'
<1>1. Placed(to) /\ to.phase \notin Editing
    BY DEF Placed, Elsewhere
<1> QED
    BY <1>1, AsideQuietly

LEMMA ProcIs ==
    ASSUME CInv, NEW p \in Processes
    PROVE  Placed(proc[p]) /\ IsProc(proc[p]) /\ proc[p].at \in Nat \ {0}
    BY DEF CInv, ProcsTyped, Placed

LEMMA ExitKeeps ==
    ASSUME CInv, NEW p \in Processes, NEW how, Exit(p, how), UNCHANGED fileVars PROVE CInv'
<1> DEFINE to == [proc[p] EXCEPT !.phase = "done", !.exit = how]
<1>1. IsProc(to) /\ to.phase = "done" /\ to.at = proc[p].at
    BY ProcIs DEF IsProc, Fields
<1>2. Go(p, to)
    BY DEF Exit
<1> HIDE DEF to
<1> QED
    BY <1>1, <1>2, ProcIs, MoveKeeps DEF Elsewhere, Editing

LEMMA NextClientKeeps ==
    ASSUME CInv, NEW p \in Processes, NEW failed, NextClient(p, failed),
           UNCHANGED <<config, bak, ledger, raced>>,
           staging' = [x \in ClientSet \X Processes |-> staging'[x]],
           \A x \in ClientSet \X Processes : x[2] # p => staging'[x] = staging[x]
    PROVE  CInv'
<1> DEFINE to == [proc[p] EXCEPT !.phase = "clients", !.at = @ + 1, !.read = Nothing,
                                 !.write = Nothing, !.perms = "default", !.failed = @ \/ failed]
<1>1. IsProc(to) /\ to.phase = "clients" /\ to.at = proc[p].at + 1
    BY ProcIs DEF IsProc, Fields
<1>2. Go(p, to)
    BY DEF NextClient
<1> HIDE DEF to
<1>3. Placed(to) /\ to.phase \notin Editing
    BY <1>1, ProcIs DEF Placed, Editing
<1> QED
    BY <1>2, <1>3, Aside

LEMMA NextClientQuietly ==
    ASSUME CInv, NEW p \in Processes, NEW failed, NextClient(p, failed), UNCHANGED fileVars
    PROVE  CInv'
    BY NextClientKeeps DEF CInv, FilesTyped, fileVars

LEMMA HookKeeps == ASSUME CInv, NEW p \in Processes, Hook(p) PROVE CInv'
<1>1. PICK ok \in BOOLEAN :
        IF ok /\ proc[p].plan.what = "install"
        THEN Go(p, [Touches(p, "hook") EXCEPT !.phase = "clients"])
        ELSE Go(p, [Touches(p, "hook") EXCEPT !.phase = "done",
                                              !.exit = IF ok THEN Outcome(p) ELSE "failure"])
    BY DEF Hook
<1>2. UNCHANGED fileVars
    BY DEF Hook
<1> DEFINE r == Touches(p, "hook")
           a == [r EXCEPT !.phase = "clients"]
           b == [r EXCEPT !.phase = "done", !.exit = IF ok THEN Outcome(p) ELSE "failure"]
<1>3. IsProc(r) /\ r.at = proc[p].at
    BY ProcIs DEF IsProc, Fields, Touches
<1>4. IsProc(a) /\ a.phase = "clients" /\ a.at = proc[p].at
    BY <1>3 DEF IsProc, Fields
<1>5. IsProc(b) /\ b.phase = "done" /\ b.at = proc[p].at
    BY <1>3 DEF IsProc, Fields
<1>6. Go(p, a) \/ Go(p, b)
    BY <1>1
<1> HIDE DEF a, b
<1> QED
    BY <1>2, <1>4, <1>5, <1>6, ProcIs, MoveKeeps DEF Elsewhere, Editing

LEMMA ChecksClientKeeps == ASSUME CInv, NEW p \in Processes, ChecksClient(p) PROVE CInv'
<1> DEFINE to == [proc[p] EXCEPT !.phase = "read"]
<1>1. UNCHANGED fileVars /\ proc[p].at <= Len(ClientList)
    BY DEF ChecksClient
<1>2. IsProc(to) /\ to.phase = "read" /\ to.at = proc[p].at
    BY ProcIs DEF IsProc, Fields
<1>3. NextClient(p, FALSE) \/ Go(p, to)
    BY DEF ChecksClient
<1> HIDE DEF to
<1>4. Placed(to) /\ to.phase \notin Editing
    BY <1>1, <1>2, ProcIs DEF Placed, Editing
<1> QED
    BY <1>1, <1>3, <1>4, NextClientQuietly, AsideQuietly

\* A step that touched something, and is over unless it went well.
Tries(p, what, ok, next) ==
    Go(p, [Touches(p, what) EXCEPT !.phase = IF ok THEN next ELSE "done",
                                   !.exit  = IF ok THEN @ ELSE "failure"])

LEMMA TriesKeeps ==
    ASSUME CInv, NEW p \in Processes, NEW what, NEW ok, NEW next, next \notin Elsewhere,
           Tries(p, what, ok, next), UNCHANGED fileVars
    PROVE  CInv'
<1> DEFINE r == Touches(p, what)
           to == [r EXCEPT !.phase = IF ok THEN next ELSE "done",
                           !.exit  = IF ok THEN @ ELSE "failure"]
<1>1. IsProc(r) /\ r.at = proc[p].at
    BY ProcIs DEF IsProc, Fields, Touches
<1>2. IsProc(to) /\ to.phase \in {next, "done"} /\ to.at = proc[p].at
    BY <1>1 DEF IsProc, Fields
<1>3. Go(p, to)
    BY DEF Tries
<1> HIDE DEF to
<1> QED
    BY <1>2, <1>3, ProcIs, MoveKeeps DEF Elsewhere, Editing

LEMMA ProbeHearsKeeps == ASSUME CInv, NEW p \in Processes, ProbeHears(p) PROVE CInv'
<1> DEFINE to == [proc[p] EXCEPT !.answered = @ + 1,
                                 !.phase = IF proc[p].answered = 1 THEN "done" ELSE @,
                                 !.exit  = IF proc[p].answered = 1 THEN "ok" ELSE @]
<1>1. UNCHANGED fileVars /\ proc[p].phase = "probe"
    BY DEF ProbeHears
<1>2. IsProc(to) /\ to.phase \in {"done", "probe"} /\ to.at = proc[p].at
    BY <1>1, ProcIs DEF IsProc, Fields
<1>3. UNCHANGED proc \/ Go(p, to) \/ Exit(p, "failure")
    BY DEF ProbeHears
<1> HIDE DEF to
<1>4. CASE UNCHANGED proc
  <2>1. Go(p, proc[p])
    BY <1>4 DEF Go, CInv, ProcsTyped
  <2> QED
    BY <1>1, <2>1, ProcIs, MoveKeeps DEF Elsewhere, Editing
<1> QED
    BY <1>1, <1>2, <1>3, <1>4, ProcIs, MoveKeeps, ExitKeeps DEF Elsewhere, Editing

LEMMA ServesKeeps == ASSUME CInv, NEW p \in Processes, Serves(p) PROVE CInv'
<1> DEFINE launch == LaunchMode(proc[p].plan.args)
           to == [proc[p] EXCEPT !.mode = launch.mode, !.addr = launch.addr,
                         !.phase = IF launch.mode = "remote" THEN "remote" ELSE "directory"]
<1>1. UNCHANGED fileVars
    BY DEF Serves
<1>2. (\E how : Exit(p, how)) \/ (launch.ok /\ Go(p, to))
    BY DEF Serves
<1>3. launch.ok => launch.mode \in {"shim", "daemon", "foreground", "remote"}
    BY LaunchModes
<1> HIDE DEF launch
<1>4. /\ IsProc(to) /\ to.mode = launch.mode /\ to.at = proc[p].at
      /\ to.phase = IF launch.mode = "remote" THEN "remote" ELSE "directory"
    BY ProcIs DEF IsProc, Fields
<1> HIDE DEF to
<1>5. launch.ok => Placed(to) /\ to.phase \notin Editing
    BY <1>3, <1>4, ProcIs DEF Placed, Editing
<1> QED
    BY <1>1, <1>2, <1>5, ExitKeeps, AsideQuietly

LEMMA EnsureParentDirKeeps == ASSUME CInv, NEW p \in Processes, EnsureParentDir(p) PROVE CInv'
<1> DEFINE r == Touches(p, SocketPathFrom(p))
           phase == CASE proc[p].mode = "shim"       -> "upstream"
                      [] proc[p].mode = "daemon"     -> "fork"
                      [] proc[p].mode = "foreground" -> "handler"
           to == [r EXCEPT !.phase = phase]
<1>1. UNCHANGED fileVars /\ (Exit(p, "failure") \/ Go(p, to)) /\ proc[p].phase = "directory"
    BY DEF EnsureParentDir
<1>2. phase \in {"upstream", "fork", "handler"}
    BY <1>1, ProcIs DEF Placed
<1> HIDE DEF phase
<1>3. IsProc(r) /\ r.at = proc[p].at
    BY ProcIs DEF IsProc, Fields, Touches
<1>4. IsProc(to) /\ to.phase = phase /\ to.at = proc[p].at
    BY <1>3 DEF IsProc, Fields
<1> HIDE DEF to
<1> QED
    BY <1>1, <1>2, <1>4, ProcIs, ExitKeeps, MoveKeeps DEF Elsewhere, Editing

LEMMA FinishesKeeps == ASSUME CInv, NEW p \in Processes, Finishes(p) PROVE CInv'
<1> DEFINE to == [proc[p] EXCEPT !.phase = "hook"]
<1>1. UNCHANGED fileVars /\ (Exit(p, Outcome(p)) \/ Go(p, to))
    BY DEF Finishes
<1>2. IsProc(to) /\ to.phase = "hook" /\ to.at = proc[p].at
    BY ProcIs DEF IsProc, Fields
<1> HIDE DEF to
<1> QED
    BY <1>1, <1>2, ProcIs, ExitKeeps, MoveKeeps DEF Elsewhere, Editing

LEMMA StartUpstreamKeeps == ASSUME CInv, NEW p \in Processes, StartUpstream(p) PROVE CInv'
<1> DEFINE r == Touches(p, "daemon")
           to == [r EXCEPT !.phase = "handler"]
           no == [proc[p] EXCEPT !.phase = "done", !.exit = "failure", !.child = "refused"]
<1>1. UNCHANGED fileVars /\ (Exit(p, "failure") \/ Go(p, to) \/ Go(p, no))
    BY DEF StartUpstream
<1>2. IsProc(r) /\ r.at = proc[p].at
    BY ProcIs DEF IsProc, Fields, Touches
<1>3. IsProc(to) /\ to.phase = "handler" /\ to.at = proc[p].at
    BY <1>2 DEF IsProc, Fields
<1>4. IsProc(no) /\ no.phase = "done" /\ no.at = proc[p].at
    BY ProcIs DEF IsProc, Fields
<1> HIDE DEF to, no
<1> QED
    BY <1>1, <1>3, <1>4, ProcIs, ExitKeeps, MoveKeeps DEF Elsewhere, Editing

LEMMA DetachKeeps == ASSUME CInv, NEW p \in Processes, Detach(p) PROVE CInv'
<1> DEFINE to(child) == [proc[p] EXCEPT !.phase = "done", !.exit = "ok", !.child = child]
<1>1. UNCHANGED fileVars /\ (Exit(p, "failure") \/ \E child : Go(p, to(child)))
    BY DEF Detach
<1>2. \A child : IsProc(to(child)) /\ to(child).phase = "done" /\ to(child).at = proc[p].at
    BY ProcIs DEF IsProc, Fields
<1> HIDE DEF to
<1> QED
    BY <1>1, <1>2, ProcIs, ExitKeeps, MoveKeeps DEF Elsewhere, Editing

LEMMA CrashKeeps == ASSUME CInv, NEW p \in Processes, Crash(p) PROVE CInv'
<1> DEFINE to == [Idle EXCEPT !.phase = "dead"]
<1>1. UNCHANGED fileVars /\ Go(p, to)
    BY DEF Crash
<1>2. IsProc(to) /\ to.phase = "dead" /\ to.at = 1
    BY IdleIsProc DEF IsProc, Fields
<1> HIDE DEF to
<1> QED
    BY <1>1, <1>2, MoveKeeps DEF Elsewhere, Editing

LEMMA PromptKeeps == ASSUME CInv, NEW p \in Processes, Prompt(p) PROVE CInv'
<1>1. Placed(Idle) /\ Idle.phase \notin Editing
    BY IdleIsProc DEF Placed, Editing
<1>2. /\ Go(p, Idle) /\ UNCHANGED <<config, bak, ledger, raced>>
      /\ staging' = [x \in DOMAIN staging |-> IF x[2] = p THEN Nothing ELSE staging[x]]
    BY DEF Prompt
<1>3. DOMAIN staging = ClientSet \X Processes
    BY DEF CInv, FilesTyped
<1> QED
    BY <1>1, <1>2, <1>3, Aside

LEMMA StepFailsKeeps == ASSUME CInv, NEW p \in Processes, StepFails(p) PROVE CInv'
<1>1. /\ NextClient(p, TRUE) /\ UNCHANGED <<config, bak, ledger, raced>>
      /\ staging' = [staging EXCEPT ![<<Client(p), p>>] = Nothing]
    BY DEF StepFails, WriteFails
<1>2. staging = [x \in ClientSet \X Processes |-> staging[x]]
    BY DEF CInv, FilesTyped
<1>3. staging' = [x \in ClientSet \X Processes |-> staging'[x]]
    BY <1>1, <1>2
<1>4. ASSUME NEW x \in ClientSet \X Processes, x[2] # p PROVE staging'[x] = staging[x]
  <2>1. x # <<Client(p), p>>
    BY <1>4
  <2> QED
    BY <1>1, <1>2, <2>1
<1> QED
    BY <1>1, <1>3, <1>4, NextClientKeeps

-----------------------------------------------------------------------------
(* The steps of write_staged *)

\* A process goes on with an edited file in hand.
LEMMA InHand ==
    ASSUME CInv, NEW p \in Processes, NEW to, Placed(to), to.phase \in Editing, Go(p, to),
           Rewrites(to.read, to.write, NameOf(p)),
           \A x \in ClientSet \X Processes : x[2] # p => staging'[x] = staging[x],
           to.phase = "chmod" =>
             staging'[<<ClientList[to.at], p>>] = [to.write EXCEPT !.mode = "default"],
           to.phase = "commit" => staging'[<<ClientList[to.at], p>>] = to.write
    PROVE  /\ ProcsTyped' /\ Hands'
           /\ proc'[p] = to /\ \A q \in Processes \ {p} : proc'[q] = proc[q]
<1>1. proc' = [proc EXCEPT ![p] = to]
    BY DEF Go
<1>2. proc'[p] = to /\ \A q \in Processes \ {p} : proc'[q] = proc[q]
    BY <1>1 DEF CInv, ProcsTyped
<1>3. ProcsTyped'
    BY <1>1, <1>2 DEF CInv, ProcsTyped
<1>4. Hands'
  <2> SUFFICES ASSUME NEW q \in Processes, proc'[q].phase \in Editing
               PROVE  /\ Edited(q)'
                      /\ proc'[q].phase = "chmod" =>
                           staging'[<<Client(q)', q>>] = [proc'[q].write EXCEPT !.mode = "default"]
                      /\ proc'[q].phase = "commit" => staging'[<<Client(q)', q>>] = proc'[q].write
    BY DEF Hands
  <2>1. CASE q = p
    BY <2>1, <1>2 DEF Edited, NameOf, Client
  <2>2. CASE q # p
    <3>1. proc'[q] = proc[q]
      BY <2>2, <1>2
    <3>2. Client(q)' = Client(q) /\ Client(q) \in ClientSet
      BY <3>1, CliAssumption, ClientListed DEF Client, CInv, ProcsTyped
    <3>3. staging'[<<Client(q), q>>] = staging[<<Client(q), q>>]
      BY <2>2, <3>2
    <3> QED
      BY <3>1, <3>2, <3>3 DEF CInv, Hands, Edited, NameOf
  <2> QED
    BY <2>1, <2>2
<1> QED
    BY <1>2, <1>3, <1>4

LEMMA EntryName ==
    ASSUME CliAssumption, NEW p \in Processes
    PROVE  EntryOf(p).name = NameOf(p) /\ NameOf(p) \in Servers
<1>1. \A addr : WithConnect(CliOf[p].entry, addr).name = NameOf(p)
    BY DEF CliAssumption, WithConnect, NameOf
<1> QED
    BY <1>1 DEF EntryOf, NameOf, CliAssumption

LEMMA EditIsFile ==
    ASSUME NEW f, IsFile(f), NEW n \in Servers, NEW e, NEW g,
           g = [f EXCEPT !.shape = "good", !.servers[n] = e]
    PROVE  IsFile(g) /\ g.shape = "good"
    BY DEF IsFile, File, Shapes

\* What an edit makes of a file: the file, with the entry changed.
LEMMA EditsEntry ==
    ASSUME NEW file, IsFile(file), NEW entry, entry.name \in Servers, NEW edit,
           edit.did = "edit",
           \/ \E format : edit = InstallEdit(format, file, entry)
           \/ edit = UninstallEdit(file, entry)
    PROVE  Rewrites(file, edit.file, entry.name)
<1>1. PICK e : edit.file = [file EXCEPT !.shape = "good", !.servers[entry.name] = e]
               /\ file.shape \notin {"broken", "odd"}
  <2>1. CASE \E format : edit = InstallEdit(format, file, entry)
    <3>1. PICK format : edit = InstallEdit(format, file, entry)
      BY <2>1
    <3> DEFINE stored == ExistingEntry(file, entry)
               theirs == IF stored = NoEntry THEN "none" ELSE stored.approval
               built  == BuildEntry(format, entry, theirs)
    <3>2. edit = IF file.shape \in {"broken", "odd"} THEN Unedited("error", file)
                 ELSE IF stored # NoEntry /\ MatchesEntry(format, stored, entry)
                      THEN Unedited("nothing", file)
                 ELSE [did |-> "edit",
                       file |-> [file EXCEPT !.shape = "good", !.servers[entry.name] = built]]
      BY <3>1 DEF InstallEdit
    <3> HIDE DEF stored, built
    <3> QED
      BY <3>2 DEF Unedited
  <2>2. CASE edit = UninstallEdit(file, entry)
    <3>1. file.shape = "good" /\ edit.file = [file EXCEPT !.servers[entry.name] = NoEntry]
      BY <2>2 DEF UninstallEdit, Removed, Unedited, ExistingEntry
    <3>2. [file EXCEPT !.servers[entry.name] = NoEntry]
            = [file EXCEPT !.shape = "good", !.servers[entry.name] = NoEntry]
      BY <3>1 DEF IsFile, File
    <3> QED
      BY <3>1, <3>2
  <2> QED
    BY <2>1, <2>2
<1>2. edit.file.servers[entry.name] = e
    BY <1>1 DEF IsFile, File
<1>3. IsFile(edit.file)
    BY <1>1 DEF IsFile, File, Shapes
<1> QED
    BY <1>1, <1>2, <1>3 DEF Rewrites

LEMMA ReadsConfigKeeps == ASSUME CInv, NEW p \in Processes, ReadsConfig(p) PROVE CInv'
<1> DEFINE file == config[Client(p)]
           edit == IF proc[p].plan.what = "install"
                   THEN InstallEdit(Format(p), file, EntryOf(p))
                   ELSE UninstallEdit(file, EntryOf(p))
           to == [proc[p] EXCEPT !.phase = "copy", !.read = file, !.write = edit.file]
<1>1. UNCHANGED fileVars /\ proc[p].phase = "read"
    BY DEF ReadsConfig
<1>2. Client(p) \in ClientSet
    BY <1>1, ProcIs, CliAssumption, ClientListed DEF Client
<1>3. CASE edit.did # "edit"
  <2>1. NextClient(p, edit.did = "error")
    BY <1>3 DEF ReadsConfig
  <2> QED
    BY <1>1, <2>1, NextClientQuietly
<1>4. CASE edit.did = "edit"
  <2>1. Go(p, to)
    BY <1>4 DEF ReadsConfig
  <2>2. IsFile(file)
    BY <1>2 DEF CInv, FilesTyped
  <2>3. EntryOf(p).name = NameOf(p) /\ NameOf(p) \in Servers
    BY CliAssumption, EntryName
  <2>4. Rewrites(file, edit.file, NameOf(p))
    <3>1. (\E format : edit = InstallEdit(format, file, EntryOf(p)))
            \/ edit = UninstallEdit(file, EntryOf(p))
      OBVIOUS
    <3> HIDE DEF edit, file
    <3> QED
      BY <1>4, <2>2, <2>3, <3>1, EditsEntry
  <2> HIDE DEF edit
  <2>5. /\ IsProc(to) /\ to.phase = "copy" /\ to.at = proc[p].at
        /\ to.read = file /\ to.write = edit.file
    BY ProcIs DEF IsProc, Fields
  <2> HIDE DEF to
  <2>6. Placed(to) /\ to.phase \in Editing
    BY <1>1, <2>5, ProcIs DEF Placed, Editing
  <2>7. staging' = staging
    BY <1>1 DEF fileVars
  <2>8. /\ ProcsTyped' /\ Hands'
        /\ proc'[p] = to /\ \A q \in Processes \ {p} : proc'[q] = proc[q]
    BY <2>1, <2>4, <2>5, <2>6, <2>7, InHand
  <2>9. ASSUME NEW c \in ClientSet \ raced PROVE Orderly(c)'
    <3>1. Orderly(c)
      BY DEF CInv
    <3>2. config' = config /\ ledger' = ledger /\ bak' = bak
      BY <1>1 DEF fileVars
    <3>3. \A q \in Processes : Writes(q, c)' => Writes(q, c)
      BY <2>5, <2>8 DEF Writes, Client
    <3>4. Client(p)' = Client(p)
      BY <2>5, <2>8 DEF Client
    <3>5. ASSUME NEW q \in Processes, proc'[q].phase \in Editing, Client(q)' = c
          PROVE  proc'[q].read.rest <= config[c].rest
      <4>1. CASE q = p
        BY <4>1, <3>4, <3>5, <2>2, <2>5, <2>8 DEF IsFile
      <4>2. CASE q # p
        BY <4>2, <3>1, <3>5, <2>8 DEF Orderly, Client
      <4> QED
        BY <4>1, <4>2
    <3>6. ASSUME NEW q \in Processes, proc'[q].phase \in Editing \ {"copy", "copying"},
                 Client(q)' = c
          PROVE  \/ config[c].shape = "absent"
                 \/ bak[c] = config[c]
                 \/ config[c].rest > proc'[q].read.rest
      <4>1. q # p
        BY <3>6, <2>5, <2>8
      <4> QED
        BY <4>1, <3>1, <3>6, <2>8 DEF Orderly, Client
    <3> QED
      BY <3>1, <3>2, <3>3, <3>5, <3>6 DEF Orderly
  <2>10. Moded'
    <3>1. config' = config /\ Client(p)' = Client(p)
      BY <1>1, <2>5, <2>8 DEF Client, fileVars
    <3> QED
      BY <2>5, <2>8, <3>1, ModesKeep
  <2> QED
    BY <1>1, <2>8, <2>9, <2>10 DEF CInv, FilesTyped, LeftAlone, fileVars
<1> QED
    BY <1>3, <1>4

\* A process that goes on from one step of the write to the next keeps its place,
\* what it read and means to write, and the mode it took.
LEMMA Onward ==
    ASSUME CInv, NEW p \in Processes, proc[p].phase \in Editing, NEW next \in Editing
    PROVE  LET to == [proc[p] EXCEPT !.phase = next]
           IN  /\ Placed(to) /\ to.phase = next /\ to.at = proc[p].at
               /\ to.read = proc[p].read /\ to.write = proc[p].write /\ to.perms = proc[p].perms
               /\ Client(p) \in ClientSet /\ Edited(p)
<1> DEFINE to == [proc[p] EXCEPT !.phase = next]
<1>1. /\ IsProc(to) /\ to.phase = next /\ to.at = proc[p].at
      /\ to.read = proc[p].read /\ to.write = proc[p].write /\ to.perms = proc[p].perms
    BY ProcIs DEF IsProc, Fields
<1>2. Client(p) \in ClientSet
    BY ProcIs, CliAssumption, ClientListed DEF Client
<1>3. Edited(p)
    BY DEF CInv, Hands
<1> HIDE DEF to
<1>4. Placed(to)
    BY <1>1, ProcIs DEF Placed, Editing
<1> QED
    BY <1>1, <1>2, <1>3, <1>4 DEF to

\* The steps that change no file a client looks at.
LEMMA StagesKeep ==
    ASSUME CInv, NEW p \in Processes, NEW next \in {"staging", "chmod", "commit"},
           proc[p].phase \in {"stage", "staging", "chmod"},
           Go(p, [proc[p] EXCEPT !.phase = next]), UNCHANGED <<config, bak, ledger, raced>>,
           NEW staged, staging' = [staging EXCEPT ![<<Client(p), p>>] = staged],
           next = "chmod" => staged = [proc[p].write EXCEPT !.mode = "default"],
           next = "commit" => staged = proc[p].write
    PROVE  CInv'
<1> DEFINE to == [proc[p] EXCEPT !.phase = next]
           x0 == <<Client(p), p>>
<1>1. proc[p].phase \in Editing /\ next \in Editing
    BY DEF Editing
<1>2. /\ Placed(to) /\ to.phase = next /\ to.at = proc[p].at
      /\ to.read = proc[p].read /\ to.write = proc[p].write /\ to.perms = proc[p].perms
      /\ Client(p) \in ClientSet /\ Edited(p)
    BY <1>1, Onward
<1>3. Go(p, to)
    OBVIOUS
<1> HIDE DEF to
<1>4. staging = [x \in ClientSet \X Processes |-> staging[x]]
    BY DEF CInv, FilesTyped
<1>5. /\ staging' = [x \in ClientSet \X Processes |-> staging'[x]]
      /\ staging'[x0] = staged /\ \A x \in ClientSet \X Processes : x # x0 => staging'[x] = staging[x]
    BY <1>2, <1>4
<1>6. \A x \in ClientSet \X Processes : x[2] # p => staging'[x] = staging[x]
  <2> SUFFICES ASSUME NEW x \in ClientSet \X Processes, x[2] # p PROVE staging'[x] = staging[x]
    OBVIOUS
  <2>1. x # x0
    OBVIOUS
  <2> QED
    BY <1>5, <2>1
<1>7. <<ClientList[to.at], p>> = x0
    BY <1>2 DEF Client
<1>8. /\ ProcsTyped' /\ Hands'
      /\ proc'[p] = to /\ \A q \in Processes \ {p} : proc'[q] = proc[q]
  <2>1. Rewrites(to.read, to.write, NameOf(p)) /\ to.phase \in Editing
    BY <1>1, <1>2 DEF Edited
  <2>2. to.phase = "chmod" =>
          staging'[<<ClientList[to.at], p>>] = [to.write EXCEPT !.mode = "default"]
    BY <1>2, <1>5, <1>7
  <2>3. to.phase = "commit" => staging'[<<ClientList[to.at], p>>] = to.write
    BY <1>2, <1>5, <1>7
  <2> HIDE DEF x0
  <2> QED
    BY <1>2, <1>3, <1>6, <2>1, <2>2, <2>3, InHand
<1>9. FilesTyped'
    BY <1>5 DEF CInv, FilesTyped
<1>10. ASSUME NEW c \in ClientSet \ raced PROVE Orderly(c)'
  <2>1. Orderly(c)
    BY DEF CInv
  <2>2. \A q \in Processes : /\ Client(q)' = Client(q) /\ proc'[q].read = proc[q].read
                             /\ proc'[q].phase \in Editing => proc[q].phase \in Editing
                             /\ proc'[q].phase \in Editing \ {"copy", "copying"} =>
                                  proc[q].phase \in Editing \ {"copy", "copying"}
    BY <1>1, <1>2, <1>8 DEF Client, Editing
  <2>3. \A q \in Processes : Writes(q, c)' => Writes(q, c)
    BY <1>2, <1>8 DEF Writes, Client
  <2> QED
    BY <2>1, <2>2, <2>3 DEF Orderly
<1>11. Moded'
  <2>1. /\ proc[p].phase # "copy" /\ Client(p)' = Client(p)
        /\ proc[p].read.mode = config[Client(p)].mode /\ proc[p].perms = proc[p].read.mode
    BY <1>1, <1>2, <1>8 DEF CInv, Moded, Client
  <2> QED
    BY <1>2, <1>8, <2>1, ModesKeep
<1> QED
    BY <1>8, <1>9, <1>10, <1>11 DEF CInv, LeftAlone

LEMMA StageBeginsKeeps == ASSUME CInv, NEW p \in Processes, StageBegins(p) PROVE CInv'
    BY StagesKeep DEF StageBegins

LEMMA StageEndsKeeps == ASSUME CInv, NEW p \in Processes, StageEnds(p) PROVE CInv'
    BY StagesKeep DEF StageEnds

\* The mode the staged file is given is that of the file it will replace.
LEMMA SetsModeKeeps == ASSUME CInv, NEW p \in Processes, SetsMode(p) PROVE CInv'
<1> DEFINE x0 == <<Client(p), p>>
           w == proc[p].write
           r == proc[p].read
<1>1. /\ proc[p].phase = "chmod" /\ Go(p, [proc[p] EXCEPT !.phase = "commit"])
      /\ staging' = [staging EXCEPT ![x0].mode = ModeFor(p)]
      /\ UNCHANGED <<config, bak, ledger, raced>>
    BY DEF SetsMode
<1>2. /\ Rewrites(r, w, NameOf(p))
      /\ staging[x0] = [w EXCEPT !.mode = "default"]
    BY <1>1 DEF CInv, Hands, Edited, Editing
<1>3. Client(p) \in ClientSet
    BY <1>1, Onward DEF Editing
<1>4. staging' = [staging EXCEPT ![x0] = [staging[x0] EXCEPT !.mode = ModeFor(p)]]
    BY <1>1
<1>5. ModeFor(p) = r.mode
    BY <1>1 DEF ModeFor, CInv, Moded, Editing
<1>6. w.mode = r.mode
    BY <1>2 DEF Rewrites, IsFile, File
<1>7. [staging[x0] EXCEPT !.mode = ModeFor(p)] = w
    BY <1>2, <1>5, <1>6 DEF Rewrites, IsFile, File
<1> QED
    BY <1>1, <1>4, <1>7, StagesKeep

\* Where the write is past its copy.
Copied == Editing \ {"copy", "copying"}

\* A file whose writes overlap is counted among the raced as the second begins.
LEMMA CopyBeginsKeeps == ASSUME CInv, NEW p \in Processes, CopyBegins(p) PROVE CInv'
<1> DEFINE next == IF config[Client(p)].shape = "absent" THEN "stage" ELSE "copying"
           mode == config[Client(p)].mode
           to == [proc[p] EXCEPT !.phase = next, !.perms = mode]
<1>1. /\ proc[p].phase = "copy" /\ Go(p, to)
      /\ raced' = raced \cup {c \in {Client(p)} : \E q \in Processes \ {p} : Writes(q, c)}
      /\ UNCHANGED <<config, staging, ledger>>
      /\ bak' = IF config[Client(p)].shape = "absent" THEN bak
                ELSE [bak EXCEPT ![Client(p)] = Torn]
    BY DEF CopyBegins
<1>2. /\ Placed(to) /\ to.phase = next /\ to.at = proc[p].at
      /\ to.read = proc[p].read /\ to.write = proc[p].write /\ to.perms = mode
      /\ Client(p) \in ClientSet /\ Edited(p)
  <2>1. proc[p].phase \in Editing /\ next \in Editing /\ next # "directory"
    BY <1>1 DEF Editing
  <2> HIDE DEF next, mode
  <2>2. /\ IsProc(to) /\ to.phase = next /\ to.at = proc[p].at
        /\ to.read = proc[p].read /\ to.write = proc[p].write /\ to.perms = mode
    BY ProcIs DEF IsProc, Fields
  <2>3. Client(p) \in ClientSet /\ Edited(p)
    BY <2>1, Onward
  <2> HIDE DEF to
  <2>4. Placed(to)
    BY <2>1, <2>2, ProcIs DEF Placed
  <2> QED
    BY <2>2, <2>3, <2>4
<1> HIDE DEF to
<1>3. /\ ProcsTyped' /\ Hands'
      /\ proc'[p] = to /\ \A q \in Processes \ {p} : proc'[q] = proc[q]
    BY <1>1, <1>2, InHand DEF Edited, Editing
<1>4. FilesTyped'
    BY <1>1 DEF CInv, FilesTyped
<1>5. \A q \in Processes : /\ Client(q)' = Client(q) /\ proc'[q].read = proc[q].read
                           /\ proc'[q].phase \in Editing => proc[q].phase \in Editing
                           /\ q # p => proc'[q].phase = proc[q].phase
    BY <1>1, <1>2, <1>3 DEF Client, Editing
<1>6. ASSUME NEW c \in ClientSet, c \notin raced' PROVE Orderly(c)'
  <2>1. Orderly(c)
    BY <1>1, <1>6 DEF CInv
  <2>2. CASE c # Client(p)
    <3>1. bak'[c] = bak[c]
      BY <1>1, <2>2 DEF CInv, FilesTyped
    <3>2. \A q \in Processes : Client(q)' = c => q # p
      BY <1>5, <2>2
    <3>3. \A q \in Processes : Writes(q, c)' => Writes(q, c)
      BY <1>5, <3>2 DEF Writes
    <3> QED
      BY <1>1, <1>5, <2>1, <3>1, <3>2, <3>3 DEF Orderly
  <2>3. CASE c = Client(p)
    <3>1. \A q \in Processes \ {p} : ~Writes(q, c)
      BY <1>1, <1>6, <2>3
    <3>2. \A q \in Processes : Writes(q, c)' => q = p
      BY <3>1, <1>5 DEF Writes
    <3>3. \A q \in Processes : proc'[q].phase \in Copied /\ Client(q)' = c => Writes(q, c)'
      BY DEF Copied, Editing, Writes
    <3>4. proc'[p].phase \in Copied => config[c].shape = "absent"
      BY <1>2, <1>3, <2>3 DEF Copied, Editing
    <3>5. \A q \in Processes :
            proc'[q].phase \in Copied /\ Client(q)' = c => config'[c].shape = "absent"
      BY <3>2, <3>3, <3>4, <1>1
    <3> QED
      BY <1>1, <1>5, <2>1, <3>2, <3>5 DEF Orderly, Copied
  <2> QED
    BY <2>2, <2>3
<1>7. Moded'
  <2>1. proc[p].read.mode = mode /\ Client(p)' = Client(p)
    BY <1>1, <1>5 DEF CInv, Moded, Editing
  <2> QED
    BY <1>1, <1>2, <1>3, <2>1, ModesKeep
<1> QED
    BY <1>1, <1>3, <1>4, <1>6, <1>7 DEF CInv, LeftAlone

LEMMA CopyEndsKeeps == ASSUME CInv, NEW p \in Processes, CopyEnds(p) PROVE CInv'
<1> DEFINE to == [proc[p] EXCEPT !.phase = "stage"]
<1>1. /\ proc[p].phase = "copying" /\ Go(p, to)
      /\ bak' = [bak EXCEPT ![Client(p)] = config[Client(p)]]
      /\ UNCHANGED <<config, staging, ledger, raced>>
    BY DEF CopyEnds
<1>2. /\ Placed(to) /\ to.phase = "stage" /\ to.at = proc[p].at
      /\ to.read = proc[p].read /\ to.write = proc[p].write /\ to.perms = proc[p].perms
      /\ Client(p) \in ClientSet /\ Edited(p)
    BY <1>1, Onward DEF Editing
<1> HIDE DEF to
<1>3. /\ ProcsTyped' /\ Hands'
      /\ proc'[p] = to /\ \A q \in Processes \ {p} : proc'[q] = proc[q]
    BY <1>1, <1>2, InHand DEF Edited, Editing
<1>4. FilesTyped'
    BY <1>1 DEF CInv, FilesTyped
<1>5. \A q \in Processes : /\ Client(q)' = Client(q) /\ proc'[q].read = proc[q].read
                           /\ proc'[q].phase \in Editing => proc[q].phase \in Editing
                           /\ q # p => proc'[q].phase = proc[q].phase
    BY <1>1, <1>2, <1>3 DEF Client, Editing
<1>6. ASSUME NEW c \in ClientSet \ raced PROVE Orderly(c)'
  <2>1. Orderly(c)
    BY DEF CInv
  <2>2. \A q \in Processes : Writes(q, c)' => Writes(q, c)
    BY <1>1, <1>5 DEF Writes
  <2>3. CASE c # Client(p)
    <3>1. bak'[c] = bak[c]
      BY <1>1, <2>3 DEF CInv, FilesTyped
    <3>2. \A q \in Processes : Client(q)' = c => q # p
      BY <1>5, <2>3
    <3> QED
      BY <1>1, <1>5, <2>1, <2>2, <3>1, <3>2 DEF Orderly
  <2>4. CASE c = Client(p)
    <3>1. bak'[c] = config[c]
      BY <1>1, <1>2, <2>4 DEF CInv, FilesTyped
    <3> QED
      BY <1>1, <1>5, <2>1, <2>2, <3>1 DEF Orderly
  <2> QED
    BY <2>3, <2>4
<1>7. Moded'
  <2>1. /\ Client(p)' = Client(p)
        /\ proc[p].read.mode = config[Client(p)].mode /\ proc[p].perms = proc[p].read.mode
    BY <1>1, <1>5 DEF CInv, Moded, Editing
  <2> QED
    BY <1>1, <1>2, <1>3, <2>1, ModesKeep
<1> QED
    BY <1>1, <1>3, <1>4, <1>6, <1>7 DEF CInv, LeftAlone

\* The rename: if the file is the one that was read, it becomes what it ought to be.
LEMMA CommitKeeps == ASSUME CInv, NEW p \in Processes, Commit(p) PROVE CInv'
<1> DEFINE c0 == Client(p)
           r == proc[p].read
           w == proc[p].write
           n == NameOf(p)
           due(f) == [f EXCEPT !.shape = "good", !.servers[n] = w.servers[n]]
           t == Touches(p, "config")
           to == [t EXCEPT !.phase = "clients", !.at = @ + 1, !.read = Nothing,
                           !.write = Nothing, !.perms = "default"]
<1>1. EntryOf(p).name = n /\ n \in Servers
    BY CliAssumption, EntryName
<1>2. proc[p].phase = "commit" /\ proc[p].phase \in Editing
    BY DEF Commit, Editing
<1>3. c0 \in ClientSet /\ Rewrites(r, w, n) /\ staging[<<c0, p>>] = w
    BY <1>2, ProcIs, CliAssumption, ClientListed DEF CInv, Hands, Edited, Client
<1>4. /\ config' = [config EXCEPT ![c0] = w] /\ UNCHANGED bak
      /\ staging' = [staging EXCEPT ![<<c0, p>>] = Nothing]
      /\ raced' = IF config[c0] = r THEN raced ELSE raced \cup {c0}
      /\ ledger' = [ledger EXCEPT ![c0] = due(ledger[c0])]
      /\ Go(p, to)
    BY <1>1, <1>3 DEF Commit
<1>5. IsProc(t) /\ t.at = proc[p].at
    BY ProcIs DEF IsProc, Fields, Touches
<1>6. IsProc(to) /\ to.phase = "clients" /\ to.at = proc[p].at + 1
    BY <1>5 DEF IsProc, Fields
<1> HIDE DEF to
<1>7. Placed(to) /\ to.phase \notin Editing
    BY <1>6, ProcIs DEF Placed, Editing
<1>8. /\ proc' = [proc EXCEPT ![p] = to] /\ proc'[p] = to
      /\ \A q \in Processes \ {p} : proc'[q] = proc[q]
    BY <1>4 DEF Go, CInv, ProcsTyped
<1>9. ProcsTyped'
    BY <1>7, <1>8 DEF CInv, ProcsTyped
<1>10. /\ config'[c0] = w /\ \A c \in ClientSet \ {c0} : config'[c] = config[c]
       /\ config' = [c \in ClientSet |-> config'[c]]
    BY <1>3, <1>4 DEF CInv, FilesTyped
<1> HIDE DEF due
<1>11. /\ ledger'[c0] = due(ledger[c0]) /\ \A c \in ClientSet \ {c0} : ledger'[c] = ledger[c]
       /\ ledger' = [c \in ClientSet |-> ledger'[c]]
    BY <1>3, <1>4 DEF CInv, FilesTyped
<1>12. \A f : IsFile(f) => IsFile(due(f)) /\ due(f).shape = "good"
    BY <1>1, EditIsFile DEF due
<1>13. w = due(r)
    BY <1>3 DEF Rewrites, due
<1>14. IsFile(w) /\ w.rest = r.rest /\ w.mode = r.mode
    BY <1>3 DEF Rewrites, IsFile, File
<1>15. FilesTyped'
  <2>1. staging' = [x \in ClientSet \X Processes |-> staging'[x]]
    BY <1>4 DEF CInv, FilesTyped
  <2> QED
    BY <1>3, <1>4, <1>10, <1>11, <1>12, <1>14, <2>1 DEF CInv, FilesTyped
<1>16. LeftAlone'
    BY <1>3, <1>10, <1>11, <1>12 DEF CInv, FilesTyped, LeftAlone
<1>17. \A q \in Processes : proc'[q].phase \in Editing => q # p /\ proc'[q] = proc[q]
    BY <1>7, <1>8
<1>18. Hands'
  <2> SUFFICES ASSUME NEW q \in Processes, proc'[q].phase \in Editing
               PROVE  /\ Edited(q)'
                      /\ proc'[q].phase = "chmod" =>
                           staging'[<<Client(q)', q>>] = [proc'[q].write EXCEPT !.mode = "default"]
                      /\ proc'[q].phase = "commit" => staging'[<<Client(q)', q>>] = proc'[q].write
    BY DEF Hands
  <2>1. q # p /\ proc'[q] = proc[q]
    BY <1>17
  <2>2. Client(q)' = Client(q) /\ Client(q) \in ClientSet
    BY <2>1, CliAssumption, ClientListed DEF Client, CInv, ProcsTyped
  <2>3. staging'[<<Client(q), q>>] = staging[<<Client(q), q>>]
    BY <1>4, <2>1, <2>2 DEF CInv, FilesTyped
  <2> QED
    BY <2>1, <2>2, <2>3 DEF CInv, Hands, Edited, NameOf
<1>19. ASSUME NEW c \in ClientSet, c \notin raced' PROVE Orderly(c)'
  <2>1. c \notin raced /\ Orderly(c)
    BY <1>4, <1>19 DEF CInv
  <2>2. \A q \in Processes : Writes(q, c)' => Writes(q, c) /\ q # p
    BY <1>17 DEF Writes, Editing, Client
  <2>3. CASE c # c0
    <3>1. config'[c] = config[c] /\ ledger'[c] = ledger[c] /\ bak'[c] = bak[c]
      BY <1>4, <1>10, <1>11, <2>3
    <3>2. \A q \in Processes : proc'[q].phase \in Editing =>
            Client(q)' = Client(q) /\ proc'[q] = proc[q]
      BY <1>17 DEF Client
    <3> QED
      BY <2>1, <2>2, <3>1, <3>2 DEF Orderly
  <2>4. CASE c = c0
    <3>1. config[c] = r /\ ledger[c] = r
      BY <1>4, <1>19, <2>1, <2>4 DEF Orderly
    <3>2. config'[c] = ledger'[c] /\ config'[c].rest = config[c].rest
      BY <3>1, <2>4, <1>10, <1>11, <1>13, <1>14
    <3>3. Writes(p, c)
      BY <1>2, <2>4 DEF Writes
    <3>4. \A q \in Processes : ~Writes(q, c)'
      BY <2>1, <2>2, <3>3 DEF Orderly
    <3>5. \A q \in Processes : proc'[q].phase \in Copied /\ Client(q)' = c => Writes(q, c)'
      BY DEF Copied, Editing, Writes
    <3> QED
      BY <1>17, <2>1, <3>2, <3>4, <3>5 DEF Orderly, Copied, Client
  <2> QED
    BY <2>3, <2>4
<1>20. Moded'
  <2>1. r.mode = config[c0].mode
    BY <1>2 DEF CInv, Moded
  <2>2. \A c \in ClientSet : config'[c].mode = config[c].mode
    BY <1>3, <1>10, <1>14, <2>1
  <2> QED
    BY <1>7, <1>8, <2>2, ModesKeep
<1> QED
    BY <1>9, <1>15, <1>16, <1>18, <1>19, <1>20 DEF CInv

LEMMA ClientEditsKeeps == ASSUME CInv, NEW c0 \in ClientSet, ClientEdits(c0) PROVE CInv'
<1> DEFINE on(f) == [f EXCEPT !.rest = @ + 1]
<1>1. /\ config[c0].shape = "good" /\ UNCHANGED <<bak, staging, proc, raced>>
      /\ config' = [config EXCEPT ![c0].rest = @ + 1]
      /\ ledger' = [ledger EXCEPT ![c0].rest = @ + 1]
    BY DEF ClientEdits
<1>2. /\ config'[c0] = on(config[c0]) /\ \A c \in ClientSet \ {c0} : config'[c] = config[c]
      /\ config' = [c \in ClientSet |-> config'[c]]
    BY <1>1 DEF CInv, FilesTyped
<1>3. /\ ledger'[c0] = on(ledger[c0]) /\ \A c \in ClientSet \ {c0} : ledger'[c] = ledger[c]
      /\ ledger' = [c \in ClientSet |-> ledger'[c]]
    BY <1>1 DEF CInv, FilesTyped
<1>4. ASSUME NEW f, IsFile(f)
      PROVE  /\ IsFile(on(f)) /\ on(f).shape = f.shape
             /\ on(f).rest = f.rest + 1 /\ f.rest \in Nat /\ on(f).mode = f.mode
    BY <1>4 DEF IsFile, File
<1> HIDE DEF on
<1>5. IsFile(config[c0]) /\ IsFile(ledger[c0])
    BY DEF CInv, FilesTyped
<1>6. FilesTyped'
    BY <1>1, <1>2, <1>3, <1>4, <1>5 DEF CInv, FilesTyped
<1>7. LeftAlone'
  <2>1. ledger[c0].shape \notin {"broken", "odd"}
    BY <1>1 DEF CInv, LeftAlone
  <2> QED
    BY <2>1, <1>2, <1>3, <1>4, <1>5 DEF CInv, LeftAlone
<1>8. Hands' /\ ProcsTyped'
    BY <1>1 DEF CInv, Hands, ProcsTyped, Edited, Client, NameOf
<1>9. ASSUME NEW c \in ClientSet \ raced PROVE Orderly(c)'
  <2>1. Orderly(c)
    BY DEF CInv
  <2>2. \A q \in Processes : Client(q)' = Client(q) /\ (Writes(q, c)' <=> Writes(q, c))
    BY <1>1 DEF Client, Writes
  <2>3. CASE c # c0
    BY <1>1, <1>2, <1>3, <2>1, <2>2, <2>3 DEF Orderly
  <2>4. CASE c = c0
    <3>1. config'[c] = ledger'[c] /\ config'[c].rest = config[c].rest + 1 /\ config[c].rest \in Nat
      BY <1>2, <1>3, <1>4, <1>5, <2>1, <2>4 DEF Orderly
    <3>2. \A q \in Processes : proc[q].phase \in Editing => proc[q].read.rest \in Nat
      BY DEF CInv, Hands, Edited, Rewrites, IsFile
    <3>3. \A q \in Processes : proc[q].phase \in Editing /\ Client(q) = c =>
            config'[c].rest > proc[q].read.rest
      BY <2>1, <3>1, <3>2 DEF Orderly
    <3> QED
      BY <1>1, <2>1, <2>2, <3>1, <3>2, <3>3 DEF Orderly
  <2> QED
    BY <2>3, <2>4
<1>10. Moded'
  <2>1. \A c \in ClientSet : config'[c].mode = config[c].mode
    BY <1>2, <1>4, <1>5
  <2>2. \A q \in Processes : proc[q].phase \in Editing => Client(q) \in ClientSet
    BY CliAssumption, ClientListed DEF Client, CInv, ProcsTyped
  <2> QED
    BY <1>1, <2>1, <2>2 DEF CInv, Moded, Client
<1> QED
    BY <1>1, <1>6, <1>7, <1>8, <1>9, <1>10 DEF CInv

-----------------------------------------------------------------------------
LEMMA StepKeeps == ASSUME CInv, NEW p \in Processes, Step(p) PROVE CInv'
<1>1. CASE \E line \in Lines : RunFrom(p, line)
    BY <1>1, RunFromKeeps
<1>2. CASE Answers(p) \/ HandlerRuns(p)
    BY <1>2, ExitKeeps DEF Answers, HandlerRuns
<1>3. CASE Dials(p)
  <2>1. UNCHANGED fileVars /\ \E ok \in BOOLEAN : Tries(p, "network", ok, "probe")
    BY <1>3 DEF Dials, Tries
  <2> QED
    BY <2>1, TriesKeeps DEF Elsewhere, Editing
<1>4. CASE RemoteShim(p)
  <2>1. UNCHANGED fileVars /\ \E ok \in BOOLEAN : Tries(p, "network", ok, "handler")
    BY <1>4 DEF RemoteShim, Tries
  <2> QED
    BY <2>1, TriesKeeps DEF Elsewhere, Editing
<1> QED
    BY <1>1, <1>2, <1>3, <1>4, HookKeeps, ChecksClientKeeps, ReadsConfigKeeps, CopyBeginsKeeps,
       CopyEndsKeeps, StageBeginsKeeps, StageEndsKeeps, SetsModeKeeps, CommitKeeps, StepFailsKeeps,
       FinishesKeeps, ProbeHearsKeeps, ServesKeeps, EnsureParentDirKeeps, StartUpstreamKeeps,
       DetachKeeps, CrashKeeps, PromptKeeps DEF Step

LEMMA NextCInv == CInv /\ [Next]_vars => CInv'
<1> SUFFICES ASSUME CInv, [Next]_vars PROVE CInv'
    OBVIOUS
<1>1. ASSUME UNCHANGED <<fileVars, proc>> PROVE CInv'
  <2>1. \A c, q : Client(q)' = Client(q) /\ (Writes(q, c)' <=> Writes(q, c))
    BY <1>1 DEF Client, Writes
  <2>2. \A c : Orderly(c)' <=> Orderly(c)
    BY <1>1, <2>1 DEF fileVars, Orderly
  <2>3. FilesTyped' /\ ProcsTyped' /\ LeftAlone' /\ raced' = raced
    BY <1>1 DEF fileVars, CInv, FilesTyped, ProcsTyped, LeftAlone
  <2>4. Hands' /\ Moded'
    BY <1>1, <2>1 DEF fileVars, CInv, Hands, Moded, Edited, NameOf
  <2> QED
    BY <2>2, <2>3, <2>4 DEF CInv
<1>2. CASE UNCHANGED vars \/ \E socket \in daemons : DaemonGoes(socket)
    BY <1>1, <1>2 DEF vars, fileVars, DaemonGoes
<1> QED
    BY <1>2, StepKeeps, ClientEditsKeeps DEF Next

\* Through every step of write_staged, and every way it can fail: what is staged is
\* what was read but for the entry, and a file that was not raced is what it ought
\* to be, with its copy good.
THEOREM InstallerInvariant == Spec => []CInv
    BY CliAssumption, InitCInv, NextCInv, PTL DEF Spec

LEMMA CInvKept == CInv => ConfigKept
<1> SUFFICES ASSUME CInv PROVE ConfigKept
    OBVIOUS
<1>1. ASSUME NEW c \in ClientSet
      PROVE  config[c].shape # "torn"
             /\ (ledger[c].shape \in {"broken", "odd"} => config[c] = ledger[c])
    BY DEF CInv, FilesTyped, IsFile, Shapes, LeftAlone
<1>2. ASSUME NEW p \in Processes, proc[p].phase = "commit", Client(p) \notin raced,
             config[Client(p)] = proc[p].read, config[Client(p)].shape # "absent"
      PROVE  bak[Client(p)] = config[Client(p)]
  <2>1. Client(p) \in ClientSet
    BY <1>2, ProcIs, CliAssumption, ClientListed DEF Client, Editing
  <2>2. Orderly(Client(p)) /\ IsFile(config[Client(p)])
    BY <1>2, <2>1 DEF CInv, FilesTyped
  <2>3. proc[p].phase \in Editing \ {"copy", "copying"}
    BY <1>2 DEF Editing
  <2>4. \/ bak[Client(p)] = config[Client(p)]
        \/ config[Client(p)].rest > proc[p].read.rest
    BY <1>2, <2>2, <2>3 DEF Orderly
  <2>5. config[Client(p)].rest \in Nat
    BY <2>2 DEF IsFile
  <2> QED
    BY <1>2, <2>4, <2>5
<1>3. NeverTorn
    BY <1>1, <1>2 DEF NeverTorn
<1>4. ASSUME NEW c \in ClientSet \ raced
      PROVE  config[c] = [ledger[c] EXCEPT !.servers = config[c].servers]
             /\ \A s \in Servers : config[c].servers[s] = ledger[c].servers[s]
  <2>1. config[c] = ledger[c] /\ IsFile(ledger[c])
    BY DEF CInv, FilesTyped, Orderly
  <2>2. ledger[c] = [ledger[c] EXCEPT !.servers = ledger[c].servers]
    BY <2>1 DEF IsFile, File
  <2> QED
    BY <2>1, <2>2
<1> QED
    BY <1>3, <1>4 DEF ConfigKept, OthersSurvive

\* For any number of command-line processes, each stopped or killed at any step
\* of write_staged, and clients that rewrite their own files: a configuration
\* file is never seen torn, one that cannot be read is never touched, the copy
\* in the .bak is good when the rename comes, and nothing but the entry changes
\* in a file no two writes of which overlapped.
THEOREM FilesAreKept == Spec => []ConfigKept
    BY InstallerInvariant, CInvKept, PTL

-----------------------------------------------------------------------------
(* What a command that is over says of itself *)

\* Where a command has touched nothing yet.
Early == {"idle", "refused", "help", "custom", "serve", "dial", "remote", "directory"}
Serving == {"serve", "remote", "directory", "upstream", "fork"}
Installing == {"hook", "clients", "read"} \cup Editing

\* One process, its place r and the directory of its socket.
Keeps(r, path) ==
    /\ IsProc(r)
    /\ r.exit # "none" \/ r.child # "none" => r.phase = "done"
    /\ r.phase \in Early => r.touched = {} /\ r.answered = 0
    /\ r.phase \in Serving => r.plan.what = "serve"
    /\ r.phase \in {"idle", "serve"} \cup Installing => r.mode = "none"
    /\ r.phase \in {"directory", "upstream", "fork"} => r.mode \in {"shim", "daemon", "foreground"}
    /\ r.phase \in Installing => r.plan.what \in {"install", "uninstall"}
    /\ r.mode # "none" => r.plan.what = "serve"
    /\ r.mode = "remote" => r.touched \subseteq {"network"}
    /\ r.phase \in {"upstream", "fork"} => path \in r.touched
    /\ r.phase \in {"dial", "probe"} => r.plan.what = "health"
    /\ r.plan.what = "health" =>
         /\ r.phase = "handler" => r.touched = {}
         /\ r.phase = "done" /\ r.exit = "ok" /\ r.touched # {} => r.answered = 2
    /\ r.exit = "usage" => r.touched = {}
    /\ r.child # "none" => path \in r.touched

TInv ==
    /\ proc = [p \in Processes |-> proc[p]]
    /\ \A p \in Processes : Keeps(proc[p], SocketPathFrom(p))

LEMMA IdleKeeps ==
    ASSUME NEW path PROVE Keeps(Idle, path)
<1>1. /\ Idle.exit = "none" /\ Idle.child = "none" /\ Idle.touched = {} /\ Idle.answered = 0
      /\ Idle.mode = "none" /\ Idle.plan.what = "none"
    BY DEF Idle, Planned
<1> QED
    BY <1>1, IdleIsProc DEF Keeps, Early, Serving, Installing, Editing

LEMMA GoKeeps ==
    ASSUME TInv, NEW p \in Processes, NEW to, Go(p, to), home' = home,
           Keeps(to, SocketPathFrom(p))
    PROVE  TInv'
<1>1. proc' = [proc EXCEPT ![p] = to]
    BY DEF Go
<1>2. \A q : SocketPathFrom(q)' = SocketPathFrom(q)
    BY DEF SocketPathFrom
<1>3. proc'[p] = to /\ \A q \in Processes \ {p} : proc'[q] = proc[q]
    BY <1>1 DEF TInv
<1> QED
    BY <1>1, <1>2, <1>3 DEF TInv

\* install and uninstall: no server was launched, and no line refused any more.
LEMMA InstallingKeeps ==
    ASSUME TInv, NEW p \in Processes, NEW to, Go(p, to), home' = home,
           proc[p].phase \in Installing, IsProc(to),
           to.plan = proc[p].plan, to.mode = proc[p].mode, to.child = proc[p].child,
           \/ to.phase \in Installing /\ to.exit = proc[p].exit
           \/ to.phase = "done" /\ to.exit \in {"ok", "failure"}
    PROVE  TInv'
<1>1. Keeps(proc[p], SocketPathFrom(p))
    BY DEF TInv
<1>2. Keeps(to, SocketPathFrom(p))
    BY <1>1 DEF Keeps, Early, Serving, Installing, Editing
<1> QED
    BY <1>2, GoKeeps

LEMMA ProcKept ==
    ASSUME TInv, NEW p \in Processes
    PROVE  Keeps(proc[p], SocketPathFrom(p)) /\ IsProc(proc[p])
    BY DEF TInv, Keeps

LEMMA InstallTold ==
    ASSUME TInv, NEW p \in Processes,
           \/ Hook(p) \/ ChecksClient(p) \/ ReadsConfig(p) \/ CopyBegins(p) \/ CopyEnds(p)
           \/ StageBegins(p) \/ StageEnds(p) \/ SetsMode(p) \/ Commit(p) \/ StepFails(p)
           \/ Finishes(p)
    PROVE  TInv'
<1> DEFINE Follows(to) ==
             /\ IsProc(to)
             /\ to.plan = proc[p].plan /\ to.mode = proc[p].mode /\ to.child = proc[p].child
             /\ \/ to.phase \in Installing /\ to.exit = proc[p].exit
                \/ to.phase = "done" /\ to.exit \in {"ok", "failure"}
<1>1. proc[p].phase \in Installing /\ home' = home
    BY DEF Hook, ChecksClient, ReadsConfig, CopyBegins, CopyEnds, StageBegins, StageEnds, SetsMode,
           Commit, StepFails, Finishes, Installing, Editing, fileVars
<1>2. ASSUME NEW next \in Installing, Go(p, [proc[p] EXCEPT !.phase = next])
      PROVE  \E to : Go(p, to) /\ Follows(to)
  <2>1. Follows([proc[p] EXCEPT !.phase = next])
    BY ProcKept DEF IsProc, Fields
  <2> QED
    BY <1>2, <2>1
<1>3. ASSUME NEW how \in {"ok", "failure"}, Exit(p, how)
      PROVE  \E to : Go(p, to) /\ Follows(to)
  <2>1. Follows([proc[p] EXCEPT !.phase = "done", !.exit = how])
    BY ProcKept DEF IsProc, Fields
  <2> QED
    BY <1>3, <2>1 DEF Exit
<1>4. ASSUME NEW failed, NextClient(p, failed)
      PROVE  \E to : Go(p, to) /\ Follows(to)
  <2> DEFINE to == [proc[p] EXCEPT !.phase = "clients", !.at = @ + 1, !.read = Nothing,
                                   !.write = Nothing, !.perms = "default",
                                   !.failed = @ \/ failed]
  <2>1. /\ IsProc(to) /\ to.phase = "clients" /\ to.exit = proc[p].exit
        /\ to.plan = proc[p].plan /\ to.mode = proc[p].mode /\ to.child = proc[p].child
    BY ProcKept DEF IsProc, Fields
  <2>2. Go(p, to)
    BY <1>4 DEF NextClient
  <2> HIDE DEF to
  <2> QED
    BY <2>1, <2>2 DEF Installing
<1>5. Outcome(p) \in {"ok", "failure"}
    BY DEF Outcome
<1>6. \A what : LET r == Touches(p, what) IN
        /\ IsProc(r) /\ r.plan = proc[p].plan /\ r.mode = proc[p].mode
        /\ r.child = proc[p].child /\ r.exit = proc[p].exit
    BY ProcKept DEF IsProc, Fields, Touches
<1>7. \E to : Go(p, to) /\ Follows(to)
  <2>1. CASE Hook(p)
    <3> DEFINE r == Touches(p, "hook")
               a == [r EXCEPT !.phase = "clients"]
               b(how) == [r EXCEPT !.phase = "done", !.exit = how]
    <3>1. Go(p, a) \/ \E how \in {"ok", "failure"} : Go(p, b(how))
      BY <2>1, <1>5 DEF Hook
    <3>2. Follows(a)
      BY <1>6 DEF IsProc, Fields, Installing
    <3>3. ASSUME NEW how \in {"ok", "failure"} PROVE Follows(b(how))
      <4>1. IsProc(r) /\ r.plan = proc[p].plan /\ r.mode = proc[p].mode /\ r.child = proc[p].child
        BY <1>6
      <4> HIDE DEF r
      <4> QED
        BY <4>1 DEF IsProc, Fields
    <3> HIDE DEF a, b, Follows
    <3> QED
      BY <3>1, <3>2, <3>3
  <2>2. CASE Commit(p)
    <3> DEFINE r == Touches(p, "config")
               to == [r EXCEPT !.phase = "clients", !.at = @ + 1, !.read = Nothing,
                               !.write = Nothing, !.perms = "default"]
    <3>1. Go(p, to)
      BY <2>2 DEF Commit
    <3>2. Follows(to)
      BY <1>6 DEF IsProc, Fields, Installing
    <3> HIDE DEF to, Follows
    <3> QED
      BY <3>1, <3>2
  <2>3. CASE ReadsConfig(p)
    <3> DEFINE to(f, g) == [proc[p] EXCEPT !.phase = "copy", !.read = f, !.write = g]
    <3>1. (\E f, g : Go(p, to(f, g))) \/ (\E failed : NextClient(p, failed))
      BY <2>3 DEF ReadsConfig
    <3>2. ASSUME NEW f, NEW g PROVE Follows(to(f, g))
      <4>1. "copy" \in Installing
        BY DEF Installing, Editing
      <4> QED
        BY <4>1, ProcKept DEF IsProc, Fields
    <3> HIDE DEF to, Follows
    <3> QED
      BY <3>1, <3>2, <1>4
  <2>4. CASE CopyBegins(p)
    <3> DEFINE to(next, mode) == [proc[p] EXCEPT !.phase = next, !.perms = mode]
    <3>1. \E next \in {"stage", "copying"} : \E mode : Go(p, to(next, mode))
      BY <2>4 DEF CopyBegins
    <3>2. ASSUME NEW next \in {"stage", "copying"}, NEW mode PROVE Follows(to(next, mode))
      <4>1. next \in Installing
        BY DEF Installing, Editing
      <4> QED
        BY <4>1, ProcKept DEF IsProc, Fields
    <3> HIDE DEF to, Follows
    <3> QED
      BY <3>1, <3>2
  <2>5. CASE CopyEnds(p) \/ StageBegins(p) \/ StageEnds(p) \/ SetsMode(p)
    BY <2>5, <1>2 DEF CopyEnds, StageBegins, StageEnds, SetsMode, Installing, Editing
  <2>6. CASE StepFails(p)
    BY <2>6, <1>4 DEF StepFails, WriteFails
  <2>7. CASE ChecksClient(p)
    <3>1. NextClient(p, FALSE) \/ Go(p, [proc[p] EXCEPT !.phase = "read"])
      BY <2>7 DEF ChecksClient
    <3> QED
      BY <3>1, <1>2, <1>4 DEF Installing
  <2>8. CASE Finishes(p)
    <3>1. Exit(p, Outcome(p)) \/ Go(p, [proc[p] EXCEPT !.phase = "hook"])
      BY <2>8 DEF Finishes
    <3> QED
      BY <3>1, <1>2, <1>3, <1>5 DEF Installing
  <2> QED
    BY <2>1, <2>2, <2>3, <2>4, <2>5, <2>6, <2>7, <2>8
<1> QED
    BY <1>1, <1>7, InstallingKeeps

LEMMA FirstPhaseTold ==
    ASSUME NEW p, NEW line
    PROVE  LET plan  == Plan(CliOf[p], line)
               first == FirstPhase(p, plan)
           IN  /\ first \in {"refused", "hook", "clients", "handler", "dial", "serve", "help",
                             "unknown", "custom"}
               /\ first = "serve" => plan.what = "serve"
               /\ first \in {"hook", "clients"} => plan.what \in {"install", "uninstall"}
               /\ first = "dial" => plan.what = "health"
<1> DEFINE plan == Plan(CliOf[p], line)
<1>1. plan.what \in {"serve", "help", "unknown", "custom", "install", "uninstall", "health"}
    BY PlanKinds
<1>2. InstallFrom(p) \in {"hook", "clients"} /\ UninstallFrom(p) = "clients"
      /\ HealthFrom(plan) \in {"handler", "dial"}
    BY DEF InstallFrom, UninstallFrom, HealthFrom
<1> HIDE DEF plan
<1>3. CASE Refuses(plan)
  <2>1. FirstPhase(p, plan) = "refused"
    BY <1>3 DEF FirstPhase
  <2> QED
    BY <2>1 DEF plan
<1>4. CASE ~Refuses(plan)
  <2>1. plan.what = "install" => FirstPhase(p, plan) = InstallFrom(p)
    BY <1>4 DEF FirstPhase
  <2>2. plan.what = "uninstall" => FirstPhase(p, plan) = UninstallFrom(p)
    BY <1>4 DEF FirstPhase
  <2>3. plan.what = "health" => FirstPhase(p, plan) = HealthFrom(plan)
    BY <1>4 DEF FirstPhase
  <2>4. plan.what \notin {"install", "uninstall", "health"} => FirstPhase(p, plan) = plan.what
    BY <1>4 DEF FirstPhase
  <2> DEFINE first == FirstPhase(p, plan)
  <2> HIDE DEF first
  <2>5. /\ first \in {"refused", "hook", "clients", "handler", "dial", "serve", "help",
                      "unknown", "custom"}
        /\ first = "serve" => plan.what = "serve"
        /\ first \in {"hook", "clients"} => plan.what \in {"install", "uninstall"}
        /\ first = "dial" => plan.what = "health"
    BY <1>1, <1>2, <2>1, <2>2, <2>3, <2>4 DEF first
  <2> QED
    BY <2>5 DEF plan, first
<1> QED
    BY <1>3, <1>4 DEF plan

LEMMA RunFromTold ==
    ASSUME TInv, NEW p \in Processes, NEW line, RunFrom(p, line) PROVE TInv'
<1> DEFINE plan  == Plan(CliOf[p], line)
           given == plan.what \in {"install", "uninstall"} /\ HarnessArgs(plan.args).ok
           names == IF given THEN HarnessArgs(plan.args).names ELSE {}
           addr  == IF given /\ plan.what = "install" THEN HarnessArgs(plan.args).addr ELSE Nowhere
           first == FirstPhase(p, plan)
           to    == [Idle EXCEPT !.phase = first, !.plan = plan, !.names = names, !.addr = addr]
<1>1. Go(p, to) /\ home' = home
    BY DEF RunFrom
<1>2. /\ first \in {"refused", "hook", "clients", "handler", "dial", "serve", "help",
                    "unknown", "custom"}
      /\ first = "serve" => plan.what = "serve"
      /\ first \in {"hook", "clients"} => plan.what \in {"install", "uninstall"}
      /\ first = "dial" => plan.what = "health"
    BY FirstPhaseTold
<1> HIDE DEF plan, names, addr, first
<1>3. IsProc(to) /\ to.phase = first /\ to.plan = plan
    BY IdleIsProc DEF IsProc, Fields
<1>4. to.exit = Idle.exit /\ to.child = Idle.child /\ to.touched = Idle.touched
      /\ to.answered = Idle.answered /\ to.mode = Idle.mode
    BY IdleIsProc DEF IsProc, Fields
<1>5. /\ Idle.exit = "none" /\ Idle.child = "none" /\ Idle.touched = {} /\ Idle.answered = 0
      /\ Idle.mode = "none"
    BY DEF Idle
<1> HIDE DEF to
<1>6. Keeps(to, SocketPathFrom(p))
    BY <1>2, <1>3, <1>4, <1>5 DEF Keeps, Early, Serving, Installing, Editing
<1> QED
    BY <1>1, <1>6, GoKeeps

\* A command that ends where it is: with what it touched, and no answer heard.
LEMMA ExitTold ==
    ASSUME TInv, NEW p \in Processes, NEW how, Exit(p, how), home' = home,
           proc[p].phase # "done",
           how = "usage" => proc[p].touched = {},
           how = "ok" /\ proc[p].plan.what = "health" => proc[p].touched = {}
    PROVE  TInv'
<1> DEFINE to == [proc[p] EXCEPT !.phase = "done", !.exit = how]
<1>1. Go(p, to)
    BY DEF Exit
<1>2. /\ IsProc(to) /\ to.phase = "done" /\ to.exit = how /\ to.plan = proc[p].plan
      /\ to.child = proc[p].child /\ to.touched = proc[p].touched /\ to.mode = proc[p].mode
    BY ProcKept DEF IsProc, Fields
<1>3. Keeps(proc[p], SocketPathFrom(p))
    BY ProcKept
<1> HIDE DEF to
<1>4. Keeps(to, SocketPathFrom(p))
    BY <1>2, <1>3 DEF Keeps, Early, Serving, Installing, Editing
<1> QED
    BY <1>1, <1>4, GoKeeps

LEMMA AnswersTold == ASSUME TInv, NEW p \in Processes, Answers(p) \/ HandlerRuns(p) PROVE TInv'
<1>1. Keeps(proc[p], SocketPathFrom(p)) /\ home' = home
    BY ProcKept DEF Answers, HandlerRuns, fileVars
<1>2. CASE Answers(p)
  <2>1. proc[p].touched = {} /\ proc[p].phase # "done"
    BY <1>1, <1>2 DEF Answers, Keeps, Early
  <2> QED
    BY <1>1, <1>2, <2>1, ExitTold DEF Answers
<1>3. CASE HandlerRuns(p)
  <2>1. proc[p].plan.what = "health" => proc[p].touched = {}
    BY <1>1, <1>3 DEF HandlerRuns, Keeps, Early
  <2> QED
    BY <1>1, <1>3, <2>1, ExitTold DEF HandlerRuns
<1> QED
    BY <1>2, <1>3

LEMMA TouchesProc ==
    ASSUME TInv, NEW p \in Processes, NEW what
    PROVE  LET r == Touches(p, what)
           IN  /\ IsProc(r) /\ r.touched = proc[p].touched \cup {what}
               /\ r.plan = proc[p].plan /\ r.mode = proc[p].mode /\ r.child = proc[p].child
               /\ r.exit = proc[p].exit /\ r.answered = proc[p].answered
    BY ProcKept DEF IsProc, Fields, Touches

\* The network: the first thing a health check, or a remote shim, touches.
LEMMA TriesTold ==
    ASSUME TInv, NEW p \in Processes, NEW ok, NEW next, Tries(p, "network", ok, next),
           home' = home,
           \/ proc[p].phase = "dial" /\ next = "probe"
           \/ proc[p].phase = "remote" /\ next = "handler"
    PROVE  TInv'
<1> DEFINE r == Touches(p, "network")
           to == [r EXCEPT !.phase = IF ok THEN next ELSE "done",
                           !.exit  = IF ok THEN @ ELSE "failure"]
<1>1. Go(p, to)
    BY DEF Tries
<1>2. /\ IsProc(r) /\ r.touched = proc[p].touched \cup {"network"}
      /\ r.plan = proc[p].plan /\ r.mode = proc[p].mode /\ r.child = proc[p].child
      /\ r.exit = proc[p].exit /\ r.answered = proc[p].answered
    BY TouchesProc
<1> HIDE DEF r
<1>3. /\ IsProc(to) /\ to.touched = r.touched /\ to.plan = r.plan /\ to.mode = r.mode
      /\ to.child = r.child /\ to.answered = r.answered
      /\ (to.phase = next /\ to.exit = r.exit) \/ (to.phase = "done" /\ to.exit = "failure")
    BY <1>2 DEF IsProc, Fields
<1>4. Keeps(proc[p], SocketPathFrom(p))
    BY ProcKept
<1> HIDE DEF to
<1>5. Keeps(to, SocketPathFrom(p))
    BY <1>2, <1>3, <1>4 DEF Keeps, Early, Serving, Installing, Editing
<1> QED
    BY <1>1, <1>5, GoKeeps

\* The second answer is the last the probe waits for.
LEMMA ProbeHearsTold == ASSUME TInv, NEW p \in Processes, ProbeHears(p) PROVE TInv'
<1> DEFINE to == [proc[p] EXCEPT !.answered = @ + 1,
                                 !.phase = IF proc[p].answered = 1 THEN "done" ELSE @,
                                 !.exit  = IF proc[p].answered = 1 THEN "ok" ELSE @]
<1>1. home' = home /\ proc[p].phase = "probe"
    BY DEF ProbeHears, fileVars
<1>2. Keeps(proc[p], SocketPathFrom(p))
    BY ProcKept
<1>3. UNCHANGED proc \/ Go(p, to) \/ Exit(p, "failure")
    BY DEF ProbeHears
<1>4. CASE UNCHANGED proc
  <2>1. \A q : SocketPathFrom(q)' = SocketPathFrom(q)
    BY <1>1 DEF SocketPathFrom
  <2> QED
    BY <1>4, <2>1 DEF TInv
<1>5. CASE Go(p, to)
  <2>1. /\ IsProc(to) /\ to.answered = proc[p].answered + 1 /\ to.plan = proc[p].plan
        /\ to.touched = proc[p].touched /\ to.mode = proc[p].mode /\ to.child = proc[p].child
        /\ IF proc[p].answered = 1 THEN to.phase = "done" /\ to.exit = "ok"
           ELSE to.phase = proc[p].phase /\ to.exit = proc[p].exit
    BY ProcKept DEF IsProc, Fields
  <2> HIDE DEF to
  <2>2. Keeps(to, SocketPathFrom(p))
    BY <1>1, <1>2, <2>1 DEF Keeps, Early, Serving, Installing, Editing
  <2> QED
    BY <1>1, <1>5, <2>2, GoKeeps
<1>6. CASE Exit(p, "failure")
    BY <1>1, <1>6, ExitTold
<1> QED
    BY <1>3, <1>4, <1>5, <1>6

LEMMA ServesTold == ASSUME TInv, NEW p \in Processes, Serves(p) PROVE TInv'
<1> DEFINE launch == LaunchMode(proc[p].plan.args)
           to == [proc[p] EXCEPT !.mode = launch.mode, !.addr = launch.addr,
                         !.phase = IF launch.mode = "remote" THEN "remote" ELSE "directory"]
<1>1. home' = home /\ proc[p].phase = "serve"
    BY DEF Serves, fileVars
<1>2. (\E how \in {"usage", "failure"} : Exit(p, how)) \/ (launch.ok /\ Go(p, to))
    BY DEF Serves
<1>3. launch.ok => launch.mode \in {"shim", "daemon", "foreground", "remote"}
    BY LaunchModes
<1> HIDE DEF launch
<1>4. /\ IsProc(to) /\ to.mode = launch.mode /\ to.plan = proc[p].plan
      /\ to.touched = proc[p].touched /\ to.answered = proc[p].answered
      /\ to.child = proc[p].child /\ to.exit = proc[p].exit
      /\ to.phase = IF launch.mode = "remote" THEN "remote" ELSE "directory"
    BY ProcKept DEF IsProc, Fields
<1>5. Keeps(proc[p], SocketPathFrom(p)) /\ proc[p].touched = {}
    BY <1>1, ProcKept DEF Keeps, Early
<1> HIDE DEF to
<1>6. launch.ok => Keeps(to, SocketPathFrom(p))
    BY <1>1, <1>3, <1>4, <1>5 DEF Keeps, Early, Serving, Installing, Editing
<1> QED
    BY <1>1, <1>2, <1>5, <1>6, ExitTold, GoKeeps

\* The directory is made before anything is forked.
LEMMA EnsureParentDirTold == ASSUME TInv, NEW p \in Processes, EnsureParentDir(p) PROVE TInv'
<1> DEFINE path == SocketPathFrom(p)
           r == Touches(p, path)
           phase == CASE proc[p].mode = "shim"       -> "upstream"
                      [] proc[p].mode = "daemon"     -> "fork"
                      [] proc[p].mode = "foreground" -> "handler"
           to == [r EXCEPT !.phase = phase]
<1>1. home' = home /\ (Exit(p, "failure") \/ Go(p, to)) /\ proc[p].phase = "directory"
    BY DEF EnsureParentDir, fileVars
<1>2. Keeps(proc[p], path)
    BY ProcKept
<1>3. phase \in {"upstream", "fork", "handler"}
    BY <1>1, <1>2 DEF Keeps
<1> HIDE DEF phase
<1>4. /\ IsProc(r) /\ r.touched = proc[p].touched \cup {path}
      /\ r.plan = proc[p].plan /\ r.mode = proc[p].mode /\ r.child = proc[p].child
      /\ r.exit = proc[p].exit /\ r.answered = proc[p].answered
    BY TouchesProc
<1> HIDE DEF r
<1>5. /\ IsProc(to) /\ to.phase = phase /\ to.touched = r.touched /\ to.plan = r.plan
      /\ to.mode = r.mode /\ to.child = r.child /\ to.exit = r.exit
    BY <1>4 DEF IsProc, Fields
<1> HIDE DEF to, path
<1>6. Keeps(to, path)
    BY <1>1, <1>2, <1>3, <1>4, <1>5 DEF Keeps, Early, Serving, Installing, Editing
<1> QED
    BY <1>1, <1>6, ExitTold, GoKeeps DEF path

LEMMA StartUpstreamTold == ASSUME TInv, NEW p \in Processes, StartUpstream(p) PROVE TInv'
<1> DEFINE r == Touches(p, "daemon")
           to == [r EXCEPT !.phase = "handler"]
           no == [proc[p] EXCEPT !.phase = "done", !.exit = "failure", !.child = "refused"]
<1>1. /\ home' = home /\ proc[p].phase = "upstream"
      /\ Exit(p, "failure") \/ Go(p, to) \/ Go(p, no)
    BY DEF StartUpstream, fileVars
<1>2. /\ IsProc(r) /\ r.plan = proc[p].plan /\ r.mode = proc[p].mode
      /\ r.child = proc[p].child /\ r.exit = proc[p].exit
    BY TouchesProc
<1> HIDE DEF r
<1>3. /\ IsProc(to) /\ to.phase = "handler" /\ to.plan = r.plan /\ to.mode = r.mode
      /\ to.child = r.child /\ to.exit = r.exit
    BY <1>2 DEF IsProc, Fields
<1>4. Keeps(proc[p], SocketPathFrom(p))
    BY ProcKept
<1> HIDE DEF to
<1>5. Keeps(to, SocketPathFrom(p))
    BY <1>1, <1>2, <1>3, <1>4 DEF Keeps, Early, Serving, Installing, Editing
<1>6. /\ IsProc(no) /\ no.phase = "done" /\ no.exit = "failure" /\ no.child = "refused"
      /\ no.plan = proc[p].plan /\ no.mode = proc[p].mode /\ no.touched = proc[p].touched
    BY ProcKept DEF IsProc, Fields
<1> HIDE DEF no
<1>7. Keeps(no, SocketPathFrom(p))
    BY <1>1, <1>4, <1>6 DEF Keeps, Early, Serving, Installing, Editing
<1> QED
    BY <1>1, <1>5, <1>7, ExitTold, GoKeeps

LEMMA DetachTold == ASSUME TInv, NEW p \in Processes, Detach(p) PROVE TInv'
<1> DEFINE to(child) == [proc[p] EXCEPT !.phase = "done", !.exit = "ok", !.child = child]
<1>1. /\ home' = home /\ proc[p].phase = "fork"
      /\ Exit(p, "failure") \/ \E child : Go(p, to(child))
    BY DEF Detach, fileVars
<1>2. Keeps(proc[p], SocketPathFrom(p))
    BY ProcKept
<1>3. ASSUME NEW child PROVE Keeps(to(child), SocketPathFrom(p))
  <2>1. /\ IsProc(to(child)) /\ to(child).phase = "done" /\ to(child).exit = "ok"
        /\ to(child).plan = proc[p].plan /\ to(child).mode = proc[p].mode
        /\ to(child).touched = proc[p].touched
    BY ProcKept DEF IsProc, Fields
  <2> HIDE DEF to
  <2> QED
    BY <1>1, <1>2, <2>1 DEF Keeps, Early, Serving, Installing, Editing
<1> HIDE DEF to
<1> QED
    BY <1>1, <1>3, ExitTold, GoKeeps

LEMMA CrashTold == ASSUME TInv, NEW p \in Processes, Crash(p) PROVE TInv'
<1> DEFINE to == [Idle EXCEPT !.phase = "dead"]
<1>1. home' = home /\ Go(p, to)
    BY DEF Crash, fileVars
<1>2. /\ IsProc(to) /\ to.phase = "dead" /\ to.exit = Idle.exit /\ to.child = Idle.child
      /\ to.mode = Idle.mode /\ to.plan = Idle.plan /\ to.touched = Idle.touched
    BY IdleIsProc DEF IsProc, Fields
<1>3. /\ Idle.exit = "none" /\ Idle.child = "none" /\ Idle.mode = "none"
      /\ Idle.plan.what = "none" /\ Idle.touched = {}
    BY DEF Idle, Planned
<1> HIDE DEF to
<1>4. Keeps(to, SocketPathFrom(p))
    BY <1>2, <1>3 DEF Keeps, Early, Serving, Installing, Editing
<1> QED
    BY <1>1, <1>4, GoKeeps

LEMMA NextTInv == TInv /\ [Next]_vars => TInv'
<1> SUFFICES ASSUME TInv, [Next]_vars PROVE TInv'
    OBVIOUS
<1>1. CASE \/ UNCHANGED vars \/ \E c \in ClientSet : ClientEdits(c)
           \/ \E socket \in daemons : DaemonGoes(socket)
  <2>1. UNCHANGED <<home, proc>>
    BY <1>1 DEF vars, fileVars, ClientEdits, DaemonGoes
  <2>2. \A q : SocketPathFrom(q)' = SocketPathFrom(q)
    BY <2>1 DEF SocketPathFrom
  <2> QED
    BY <2>1, <2>2 DEF TInv
<1>2. ASSUME NEW p \in Processes, Step(p) PROVE TInv'
  <2>1. CASE \E line \in Lines : RunFrom(p, line)
    BY <2>1, RunFromTold
  <2>2. CASE Dials(p)
    <3>1. /\ home' = home /\ proc[p].phase = "dial"
          /\ \E ok \in BOOLEAN : Tries(p, "network", ok, "probe")
      BY <2>2 DEF Dials, Tries, fileVars
    <3> QED
      BY <3>1, TriesTold
  <2>3. CASE RemoteShim(p)
    <3>1. /\ home' = home /\ proc[p].phase = "remote"
          /\ \E ok \in BOOLEAN : Tries(p, "network", ok, "handler")
      BY <2>3 DEF RemoteShim, Tries, fileVars
    <3> QED
      BY <3>1, TriesTold
  <2>4. CASE Prompt(p)
    BY <2>4, IdleKeeps, GoKeeps DEF Prompt
  <2> QED
    BY <1>2, <2>1, <2>2, <2>3, <2>4, InstallTold, AnswersTold, ProbeHearsTold, ServesTold,
       EnsureParentDirTold, StartUpstreamTold, DetachTold, CrashTold DEF Step
<1> QED
    BY <1>1, <1>2 DEF Next

\* For any command lines and any number of processes, hooks, handlers, answers
\* and forks that may each fail: a line the dispatcher refuses has run nothing,
\* not even the hook; a --connect serve touches nothing of this machine; health
\* succeeds only on the second answer; and whoever launched a daemon heard so
\* only once the directory of its socket was there.
THEOREM ExitsTellTheTruth == Spec => [](\A p \in Processes : TruthTold(p))
<1>1. Init => TInv
  <2> SUFFICES ASSUME Init PROVE TInv
    OBVIOUS
  <2>1. proc = [p \in Processes |-> Idle]
    BY DEF Init
  <2> QED
    BY <2>1, IdleKeeps DEF TInv
<1>2. TInv => \A p \in Processes : TruthTold(p)
    BY DEF TInv, Keeps, TruthTold, Early
<1> QED
    BY <1>1, <1>2, NextTInv, PTL DEF Spec

=============================================================================
