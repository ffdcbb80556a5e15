------------------------------- MODULE MCCli -------------------------------
(* Two servers' command lines over two clients, one of each file format.    *)
EXTENDS Cli

TwoClients == <<"desktop", "codex">>
ClientRecords == [desktop |-> WithDetectPath(JsonClient), codex |-> CodexClient]

\* One server is started by `serve`, pins a variable twice, wants approval
\* skipped and has hooks; the other is started bare, has a remote connector, and a
\* command of its own for the line its daemon is started with.
MyEntry == WithAutoApprove(WithEnv(WithEnv(ServerEntry("me", <<"serve">>), "A", "1"), "A", "2"))
Authored(entry) == WithCommand(OnHealth(OnServe(CliNew(entry))), "doctor")
TwoClis ==
    [p1 |-> OnInstall(OnUninstall(Authored(MyEntry))),
     p2 |-> WithCommand(RemoteConnector(Authored(ServerEntry("peer", <<>>))), "--daemon")]
OneRuntimeDir == {"p1"}

SmallLines ==
    {<<"install">>, <<"install", "--connect", "h:1">>, <<"install", "--client=desktop">>,
     <<"uninstall">>, <<"install", "--client", "nope">>, <<"install", "--clients">>,
     <<"health", "--connect=h:1">>, <<"serve", "--connect", "h:1", "--daemon">>,
     <<"serve">>, <<"serve", "--foreground">>, <<"serve", "--daemon">>, <<"--connect", "h:1">>, <<>>,
     <<"doctor">>}

Stored(command, approval) ==
    [command |-> command, args |-> <<"serve">>, env |-> [A |-> "2"], approval |-> approval]

Plain(shape) == File(shape, NoServers, 0, "default")
Private(entries) == File("good", entries @@ NoServers, 0, "private")
World(desktop, codex, there, atHome) ==
    [files |-> [desktop |-> desktop, codex |-> codex],
     present |-> [c \in {"desktop", "codex"} |-> [directory |-> TRUE, ownPath |-> there]],
     home |-> atHome]

SmallWorlds ==
    {World(Plain("absent"), Plain("broken"), FALSE, TRUE),
     World(Plain("odd"), Private([me |-> Stored("this", "prompt")]), TRUE, TRUE),
     World(Private([me |-> Stored("old", "none")]),
           Private([peer |-> Stored("old", "prompt")]), TRUE, TRUE),
     World(Plain("empty"), Plain("absent"), TRUE, FALSE)}
============================================================================
