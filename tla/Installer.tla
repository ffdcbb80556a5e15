----------------------------- MODULE Installer -----------------------------
(***************************************************************************)
(* What the installer knows about MCP clients and their configuration      *)
(* files: what an entry is, what a file says about it, and what editing    *)
(* the file makes of it (src/src/cli/install/).                            *)
(*                                                                         *)
(* A file is [shape, servers, rest, mode]: `servers` maps each server's    *)
(* name to its stored entry, `rest` stands for everything in the file that *)
(* is not a server entry, `shape` says how much of it the installer can    *)
(* make sense of.                                                          *)
(***************************************************************************)
EXTENDS Integers, Sequences, SequencesExt, FiniteSets

CONSTANTS
    ClientList, \* the clients of all_clients, in order
    ClientOf,   \* client -> what JsonClient::new, with_detect_path or CodexClient::new made
    Servers     \* names servers register under

NoEntry == [command |-> "none"]
NoAddr == "no address"

\* absent: no file.  empty: nothing but white space.  broken: does not parse.
\* odd: parses, but the server list is not a map.
Shapes == {"absent", "empty", "broken", "odd", "good"}

File(shape, servers, rest, mode) ==
    [shape |-> shape, servers |-> servers, rest |-> rest, mode |-> mode]
NoServers == [s \in Servers |-> NoEntry]

\* A client is there if its config file is, or its directory; one given a path
\* of its own to look for is there if that path is.
JsonClient == [format |-> "json", ownPath |-> FALSE]
WithDetectPath(client) == [client EXCEPT !.ownPath = TRUE]
CodexClient == [format |-> "toml", ownPath |-> FALSE]

----------------------------------------------------------------------------
(* Entries.  env is a list of <<key, value>> pairs, and may name a key      *)
(* twice; neither file format can, and the last value wins.                 *)

ServerEntry(name, args) ==
    [name |-> name, args |-> args, env |-> <<>>, auto |-> FALSE, connect |-> NoAddr]
WithEnv(entry, key, value) == [entry EXCEPT !.env = Append(@, <<key, value>>)]
WithConnect(entry, addr) == [entry EXCEPT !.connect = addr]
WithAutoApprove(entry) == [entry EXCEPT !.auto = TRUE]

\* The running binary; a config names the thing that wrote it.
Command == "this"

Arguments(entry) ==
    entry.args \o IF entry.connect = NoAddr THEN <<>>
                  ELSE <<"--connect", entry.connect>>

EnvMap(env) ==
    LET keys == {env[i][1] : i \in DOMAIN env}
    IN  [k \in keys |-> env[CHOOSE i \in DOMAIN env :
            /\ env[i][1] = k
            /\ \A j \in DOMAIN env : env[j][1] = k => j <= i][2]]

JsonEntry(entry) ==
    [command |-> Command, args |-> Arguments(entry), env |-> EnvMap(entry.env), approval |-> "none"]

\* Only Codex has anywhere to put an approval mode, and one that was not asked
\* for is kept as it was found.
ApprovalMode(entry, theirMode) == IF entry.auto THEN "auto" ELSE theirMode
CodexEntry(entry, theirMode) == [JsonEntry(entry) EXCEPT !.approval = ApprovalMode(entry, theirMode)]

BuildEntry(format, entry, theirMode) ==
    IF format = "json" THEN JsonEntry(entry) ELSE CodexEntry(entry, theirMode)

\* JSON entries are compared whole; Codex entries field by field, and an entry
\* that did not ask for an approval mode has no opinion about one.
MatchesJson(stored, entry) == stored = JsonEntry(entry)
MatchesCodex(stored, entry) ==
    /\ stored.command = Command /\ stored.args = Arguments(entry)
    /\ stored.env = EnvMap(entry.env)
    /\ entry.auto => stored.approval = "auto"

MatchesEntry(format, stored, entry) ==
    IF format = "json" THEN MatchesJson(stored, entry) ELSE MatchesCodex(stored, entry)

----------------------------------------------------------------------------
(* A client's configuration.                                                *)

ExistingEntry(file, entry) ==
    IF file.shape = "good" THEN file.servers[entry.name] ELSE NoEntry

Detect(client, file, present) ==
    file.shape # "absent" \/ IF client.ownPath THEN present.ownPath ELSE present.directory

\* An entry that names another binary is told from one that is merely stale.
EntryStatus(format, stored, entry) ==
    IF stored.command # Command THEN "needs update"
    ELSE IF MatchesEntry(format, stored, entry) THEN "installed"
    ELSE "needs refresh"

CheckExisting(client, file, present, entry) ==
    LET stored == ExistingEntry(file, entry)
    IN  CASE ~Detect(client, file, present) -> "client not found"
          [] Detect(client, file, present) /\ stored = NoEntry -> "not installed"
          [] OTHER -> EntryStatus(client.format, stored, entry)

WantsInstall(status) == status \in {"not installed", "needs refresh", "needs update"}

\* What install and uninstall make of the file they read: an error, nothing to
\* do, or the file to write.
Unedited(did, file) == [did |-> did, file |-> file]

InstallEdit(format, file, entry) ==
    LET stored == ExistingEntry(file, entry)
        theirs == IF stored = NoEntry THEN "none" ELSE stored.approval
        edited == [file EXCEPT !.shape = "good",
                               !.servers[entry.name] = BuildEntry(format, entry, theirs)]
    IN  IF file.shape \in {"broken", "odd"} THEN Unedited("error", file)
        ELSE IF stored # NoEntry /\ MatchesEntry(format, stored, entry)
             THEN Unedited("nothing", file)
        ELSE [did |-> "edit", file |-> edited]

\* No entry means no write.
Removed(file, entry) ==
    IF ExistingEntry(file, entry) = NoEntry THEN Unedited("nothing", file)
    ELSE [did |-> "edit", file |-> [file EXCEPT !.servers[entry.name] = NoEntry]]

UninstallEdit(file, entry) ==
    IF file.shape = "broken" THEN Unedited("error", file) ELSE Removed(file, entry)

============================================================================
