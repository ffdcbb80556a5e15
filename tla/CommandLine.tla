---------------------------- MODULE CommandLine ----------------------------
(***************************************************************************)
(* How command lines are read: the CLI harness's dispatcher                *)
(* (src/src/cli/mod.rs), the --connect flag it shares with the daemon      *)
(* (src/src/remote.rs), and the daemon's own mode flags                    *)
(* (src/src/daemon.rs).  A line is a sequence of words.                    *)
(***************************************************************************)
EXTENDS Integers, Sequences, SequencesExt, TLC

CONSTANTS
    Addresses   \* words RemoteAddr::parse accepts: a host, a colon and a port

Nowhere == "no address"
Refused == [ok |-> FALSE]

\* Words that carry their value: --connect=<value> and --client=<value>.
ConnectWord == ("--connect=h:1" :> "h:1") @@ ("--connect=" :> "")
ClientWord == ("--client=desktop" :> "desktop") @@ ("--client=" :> "")

IsConnectFlag(word) == word = "--connect" \/ word \in DOMAIN ConnectWord
IsHelpFlag(word) == word \in {"--help", "-h"}

\* What the --connect flags of a line give, in order; "" for one at the end of
\* the line.
ConnectFromArgs(line) ==
    LET from[i \in 1..(Len(line) + 1)] ==
            IF i > Len(line) THEN <<>>
            ELSE IF line[i] \in DOMAIN ConnectWord THEN <<ConnectWord[line[i]]>> \o from[i + 1]
            ELSE IF line[i] # "--connect" THEN from[i + 1]
            ELSE IF i = Len(line) THEN <<"">> ELSE <<line[i + 1]>> \o from[i + 2]
    IN  from[1]

\* A second --connect is an error, not an override.
Connect(line) ==
    LET values == ConnectFromArgs(line)
    IN  IF values = <<>> THEN [ok |-> TRUE, addr |-> Nowhere]
        ELSE IF Len(values) = 1 /\ values[1] \in Addresses THEN [ok |-> TRUE, addr |-> values[1]]
        ELSE Refused

\* The --client values of install and uninstall; "" for one that is missing,
\* and for any word that is no flag of theirs.
Selectors(line) ==
    LET from[i \in 1..(Len(line) + 2)] ==
            IF i > Len(line) THEN {}
            ELSE IF line[i] = "--connect" THEN from[i + 2]
            ELSE IF IsConnectFlag(line[i]) THEN from[i + 1]
            ELSE IF line[i] \in DOMAIN ClientWord THEN {ClientWord[line[i]]} \cup from[i + 1]
            ELSE IF line[i] = "--client" /\ i < Len(line) THEN {line[i + 1]} \cup from[i + 2]
            ELSE {""}
    IN  from[1]

HarnessArgs(line) ==
    LET connect == Connect(line) names == Selectors(line)
    IN  IF ~connect.ok \/ "" \in names THEN Refused
        ELSE [ok |-> TRUE, addr |-> connect.addr, names |-> names]

----------------------------------------------------------------------------
(* A cli, and what its builder methods give it: which commands it has,      *)
(* which hooks, the author's own commands, and the entry it installs.       *)

CliNew(entry) ==
    [entry |-> entry, serve |-> FALSE, health |-> FALSE, connector |-> FALSE,
     before |-> FALSE, after |-> FALSE, custom |-> {}]
OnServe(cli) == [cli EXCEPT !.serve = TRUE]
OnHealth(cli) == [cli EXCEPT !.health = TRUE]
RemoteConnector(cli) == [cli EXCEPT !.connector = TRUE]
OnInstall(cli) == [cli EXCEPT !.before = TRUE]
OnUninstall(cli) == [cli EXCEPT !.after = TRUE]
WithCommand(cli, name) == [cli EXCEPT !.custom = @ \cup {name}]

\* A command that would do nothing is not there.
Builtins(cli) ==
    {"install", "uninstall"} \cup {w \in {"serve"} : cli.serve} \cup {w \in {"health"} : cli.health}

\* The author's own commands come first, and so may replace a built-in.
Find(cli, word) ==
    IF word \in cli.custom THEN "custom" ELSE IF word \in Builtins(cli) THEN word ELSE "unknown"

Planned(what, args) == [what |-> what, args |-> args]

Plan_NoBareConnect(cli, line) ==
    IF line = <<>>
    THEN Planned(IF cli.entry.args = <<>> /\ cli.serve THEN "serve" ELSE "help", <<>>)
    ELSE Planned(Find(cli, line[1]), Tail(line))

\* The words after the program's name.  A server whose entry starts it bare
\* has bare mean serve, and a bare --connect too.
Plan(cli, line) ==
    LET bare == cli.entry.args = <<>> /\ cli.serve
    IN  IF line = <<>> THEN Planned(IF bare THEN "serve" ELSE "help", <<>>)
        ELSE IF bare /\ IsConnectFlag(line[1]) THEN Planned("serve", line)
        ELSE IF IsHelpFlag(line[1]) \/ line[1] = "help" THEN Planned("help", <<>>)
        ELSE IF Find(cli, line[1]) = "unknown" THEN Planned("unknown", <<>>)
        ELSE IF \E i \in 2..Len(line) : IsHelpFlag(line[i]) THEN Planned("help", <<>>)
        ELSE Planned(Find(cli, line[1]), Tail(line))

----------------------------------------------------------------------------
LocalFlags == {"--daemon", "--foreground", "--socket", "--socket=s"}

\* The first mode flag wins; none is the shim.
ModeFromArgs(line) ==
    LET flags == SelectSeq(line, LAMBDA word : word \in {"--daemon", "--foreground"})
    IN  IF flags = <<>> THEN "shim"
        ELSE IF flags[1] = "--daemon" THEN "daemon" ELSE "foreground"

Launch(mode, addr) == [ok |-> TRUE, mode |-> mode, addr |-> addr]

LaunchMode(line) ==
    LET connect == Connect(line)
    IN  IF ~connect.ok THEN Refused
        ELSE IF connect.addr = Nowhere THEN Launch(ModeFromArgs(line), Nowhere)
        ELSE IF \E i \in DOMAIN line : line[i] \in LocalFlags THEN Refused
        ELSE Launch("remote", connect.addr)

============================================================================
