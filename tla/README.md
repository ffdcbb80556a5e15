# sml_mcps: a TLA+ verification project

`sml_mcps` is a small, synchronous (thread-based, no async runtime) Rust
implementation of the server side of the Model Context Protocol. This directory
holds TLA+ models of it, from the bytes of a line to the command that installs a
server, the TLC runs that check them on small instances, and TLAPS proofs of nearly
all of their safety properties for every instance. Paths below are relative to the crate's
own `src/`.

## 1. The system

A *server* answers JSON-RPC requests of a client over a transport. Over standard
input or a Unix socket one session is one connection and one `Server`; over HTTP
a `Server` is built per request and the session's state is kept aside in a table.
A *daemon* serves many connections; a *shim* is the process an editor starts: it
finds or starts the daemon and proxies lines to and from it. A *command line*
installs a server into the configuration files of MCP clients, which later start
it by the line they were given.

| Component | State it keeps | Operations | Talks to |
|---|---|---|---|
| Task store, `tasks.rs` | a map of records behind a mutex, a condition variable, limits | create, get, list, cancel, try_result, await_result, set_status, set_status_message, finish, sweep, make_room | request handlers and one worker thread per task |
| Request broker, `broker.rs`; `ToolEnv::send_request`, `await_response` in `server.rs` | next id; waiters, parked, abandoned and deferred, a mutex each | allocate, register_waiter, deliver, take, abandon, defer | workers that wait, the one thread that reads |
| Server loop, `server.rs` | handshake done, task gates, the deferred queue | start, handle_message, tasks/result pump, Direct wait, shed_or_defer, notifications | broker, task store, transport |
| Request dispatch, `server.rs`, `types/`, `pagination.rs` | what is registered, the handshake's result, the log level | every method, tool environments, error answers, pages | the loop, workers, tools |
| Line transports, `transport/line.rs`, `socket_stream.rs`, `unix.rs`, `tcp.rs`, `stdio.rs`, `stream.rs` | partial line, resynchronising flag, ceiling, timeout | read_message, write, set limits, close | the peer; threads that write |
| Daemon lifecycle, `transport/daemon_state.rs`, `unix_server.rs`, `signals.rs` | active, generation, shutdown behind a mutex | try_admit, release, request_shutdown, accept loop, idle_watcher, signal watcher, run | the kernel's accept queues, connection threads |
| Socket claim and auto-start, `unix_server.rs`, `bridge.rs` | three files: socket, PID, `.lock` | claim, prepare, bind, publish, clean up; auto_start, clear_socket | other processes, through the file system only |
| Bridge proxy, `bridge.rs`, `bridge/transform.rs` | none but the streams | two pumps, transform, teardown | client and daemon |
| HTTP/1 connections, `transport/http1.rs` | connection slots, the refusal queue, a budget per request | accept, refuse, read head and body, answer, keep alive, close | peers that send in pieces or not at all; the handler |
| HTTP requests, `transport/http.rs`, `transport/origin.rs`, `auth/` | a buffer per request, which task workers may outlive | prechecks, token, session, dispatch, answer | HTTP/1 connections, sessions, `Server` |
| HTTP sessions, `transport/http.rs` | a table behind one mutex, each session behind another | checkout, restore, absorb, check_in, terminate | parallel requests of one session |
| Command line, `cli/mod.rs`, `cli/health.rs`, `daemon.rs`, `remote.rs` | none that lasts | read a line, run a hook, probe, start as shim, daemon or remote | the installer, the daemon |
| Client installer, `cli/install/` | clients' configuration files, a backup and a staged copy beside each | detect, read, edit, back up, stage, rename | other installers and the clients themselves |

### What is hard in it, and what correctness means

* **Task store.** A worker, a canceller, expiry and waiters meet on one record; a
  worker can outlive its record; time is the wall clock, which can be set back.
  Correct: one outcome per task told to everyone, nothing told to another
  requestor, nothing comes back after it was reported gone, the limits hold and
  never cost a running task its record, waiters return.
* **Request broker.** `abandon` and `deliver` take several locks one after the
  other; a timeout races the answer; the peer may answer twice or what was never
  asked. Correct: no waiter is left registered, no answer reaches the wrong place,
  what is kept is bounded, and a worker whose answer was read wakes.
* **Server loop.** One thread reads, and it may itself be waiting (`tasks/result`,
  a tool that asks the client) for something only it can read. Correct: each
  request is answered exactly once, in order where order is kept, eventually; no
  task is heard of before it was announced.
* **Dispatch.** A tool runs on the loop or in a worker, by two pieces of code that
  must agree; the client may shake hands again while workers run; lists change
  under a cursor. Correct: what was declared is what is done, a task returns what
  the call would have, nothing is asked of a client that cannot be asked, every
  answer names its request, every item is reached.
* **Line transports.** A line comes in any pieces, a deadline may end a read
  between any two of them, the ceiling may move, and a message is written in
  several system calls. Correct: one result per line, in order; no two writers'
  messages mix; a timed read ends.
* **Daemon.** Accept loops, an idle watcher, a signal watcher and connections that
  come and go share a counter and a flag. Correct: the count is exact, the ceiling
  holds, the socket goes only when all is quiet, a stop stops.
* **Socket claim.** Processes share only files and may be killed between any two
  system calls. Correct: a serving daemon keeps its socket; every shim ends up
  connected.
* **Bridge.** Two threads each read one stream and write to both sinks; either
  side may fail at any moment. Correct: each line is forwarded or answered once
  and in order, end of stream is passed on only when true, nothing flushed late is
  lost, `run` returns.
* **HTTP/1.** Slots are claimed by the listener and released by threads that may
  fail to start or panic; a body may be declined, cut short or spelt so that two
  readers disagree; a peer may send a byte now and then for ever. Correct: slots
  are exact, the next request never starts inside the last one's body, every
  request ends.
* **HTTP requests.** Checks in a fixed order, each on what a stranger spelt; a
  worker writes to a request's transport after its answer was built. Correct: only
  the entitled are processed, in their own session; an answer carries exactly what
  was acknowledged; everybody is answered, and a challenge leads somewhere.
* **HTTP sessions.** Parallel requests restore, run and absorb. Correct: one task
  store per session, a bounded table, no request erases what another established.
* **Command line and installer.** Two installers and a client may edit one file,
  and each may die between any two system calls. Correct: a file is always whole
  and keeps what is not ours, an exit code is true, and the line that was installed
  is read back as the server it was meant to start.

`PROJECT.json` lists the hazards at their lines, with the properties that cover
each one.

## 2. The modules

| Module | Models | Atomicity | Composition |
|---|---|---|---|
| `TaskLifecycle` | the protocol's life of a task | one step may move several tasks | abstract specification |
| `TaskStore` | `tasks.rs` and the worker of `start_tool_task` | a method is one action (one mutex from first read to last write); a turn of `await_result` is one | implements `TaskLifecycle` |
| `RequestBroker` | `broker.rs`, `send_request`, the Delegated and Direct waits | one lock is one step | stands alone |
| `Session` | `Server::start`, its pump and waits, worker gates | one message read and handled, one look of the pump | broker and store abstract; every record moves by `TaskLifecycle!MayFollow` |
| `Messages`, `Pagination`, `ClientAsks` | JSON-RPC classification and errors; cursors and pages; client capabilities, forms and conversations | functions | used by `Dispatch` |
| `Timestamps` | `iso8601` and its calendar | functions | its assumptions, which TLC evaluates in the `Dispatch` run, compare it with the Gregorian rules on each day of a 400-year cycle and at both ends of each minute of a day |
| `Dispatch` | registration, the handshake, each method, workers, `ToolEnv` | one message, one call of a tool's environment, one step of a worker | on `Messages`, `Pagination`, `ClientAsks`; reading is left to `Session` |
| `Framing` | the line reader over each stream transport, and writers | one system call, or one turn of the read loop | stands alone |
| `Daemon` | `ConnState` and all threads of `UnixServer::run` | one critical section, or one system call | stands alone |
| `SocketClaim` | the files, `UnixServer::run` and `auto_start_inner` as processes | one system call | stands alone |
| `Bridge` | `Bridge::run`, `pump`, `transform::apply` | one line read or written | stands alone |
| `Http1Head` | what a head's fields mean: framing, keep-alive, expectations | functions | used by `Http1` and `HttpPipeline` |
| `Http1` | listener, refuser and connection threads of `http1.rs` | one read, one write, one claim of a slot | on `Http1Head` |
| `HttpAuth` | origins, resource URIs, tokens, `path_of` | functions on sequences of parts | used by `HttpPipeline` |
| `HttpPipeline` | a request of `http.rs` from head to answer, and workers that outlive it | one stage of the handler, one write to the buffer | on `Http1Head` and `HttpAuth` |
| `HttpSessions` | the session table and `respond` | one lock | stands alone; `HttpPipeline` sees only its keys |
| `Installer`, `CommandLine` | what a configuration file says and becomes; what a line means | functions | used by `Cli` |
| `Cli` | processes that run command lines, with the staged write and the probe | one system call | on `Installer` and `CommandLine` |
| `MC*` | symmetry sets and small inputs for TLC, where an instance needs them | | extend the module they are named after |
| `TaskStoreProofs`, `RequestBrokerProofs`, `SessionProofs`, `DispatchProofs`, `HttpPipelineProofs`, `CliProofs` | theorems | | extend the module they are named after |
| `SocketProofs` | theorems about the way from a client to a daemon | | extends `SocketClaim`, `Daemon`, `Framing` and `Bridge` |
| `HttpProofs` | theorems about the HTTP transport | | extends `Http1` and `HttpSessions` |

The components of `SocketProofs`, and those of `HttpProofs`, share no state; their
proofs are kept together as their code is. A module that extends several components
needs their names to differ, so these say `ClaimSpec`, `DaemonSpec`, `FramingSpec`,
`ProxySpec`, `Http1Spec` and `SessionsSpec` where the others say `Spec`, and the same
for `Init`, `Next`, `TypeOK` and `vars`.

`PROJECT.json` maps each definition to the source lines it stands for. Variables
marked *history* in a module are not state of the program: they record what a
peer has been told, so that a property can compare it with what comes later.

### How the models abstract

* **`TaskStore`.** A record keeps owner, status, outcome, creation time, TTL and
  what kind of message it has. Ids are numbers; drawn ids never repeat (they are
  128 random bits). `ClockReads` sets the clock to any time in `0..Horizon`,
  backwards too. `told`, `lost`, `leaks` and `acked` are history. A worker whose
  record has gone goes on running, and its calls then do nothing, as in the code.
* **`RequestBroker`.** The four collections and the position of each thread
  between their locks. A response is its id. What the client sends is chosen when
  it is read; `Rogue` allows it ids that were never written or already answered,
  `Garbage` a line that is no message, `Deadlines` the timeout.
* **`Session`.** A request is its number and its kind: `initialize`; `ping`
  (answered from inside the pump too); `list` (answered at once, but deferred by a
  wait); `ask` (a tool that asks the client and reads for itself); `task`;
  `cancel`; `result`. The transport can be split and honours deadlines (standard
  input and sockets do). Writes fail for good once the sink breaks. `config`, fixed
  at the start, says what the server was configured with and what its peer may do.
* **`Dispatch`.** Names, URIs and ids are numbers in the order the code sorts them
  in. A schema is whether it compiles, a value whether it meets it; a run of a tool
  is how it ends and what structured content it has. A message of the wire is, for
  each key, absent, readable or neither. A form is built one call at a time
  (`BuildForm`), in any order and number; the conversations a tool draws up are
  sequences of turns. Messages and parameters are of their types
  (`DispatchAssumption`): what cannot be read as one is a damaged message. The params
  of a message a tool writes are whether there are any and they are an object, what
  their `_meta` is, and the task it names; `config.raws` are those of the messages a
  tool composes itself for `send_notification` and `send_request`.
* **`Framing`.** A byte is its position in the peer's script; a line is where its
  newline is, and whether it is a message, garbage or not UTF-8. `under`, the ceilings
  the parts of the current line were held to, is history. A transport is what it can do: honour a
  deadline, use `poll`, be split, be half-closed.
* **`Daemon`.** A connection is a client's name, or a knock made by `wake`. There
  is no clock: the idle window may end whenever the watcher waits in it. A panic in
  a connection thread is its return, since `ActiveGuard` runs on both. A launch is
  the options it was given, defaults applied as the code applies them.
* **`SocketClaim`.** A file names the process it belongs to. A crash can come
  before any step; the kernel then frees the lock and closes the listener, and the
  files stay. `Leftovers` are the files found at the start, and `weather` is what may
  go wrong in a behaviour. All processes belong to one user.
* **`Bridge`.** A line is its number and whether it is a request, a notice or
  garbage; a write is one line under the sink's lock. A peer that reads slowly is
  not modelled: it delays writes, and no decision in the code depends on how long.
* **`Http1`.** A stream is a sequence of items - a head, part of one, a chunk size,
  a byte, a line end - each at least one byte. Sizes count items. A budget is
  whether it has run out; a timeout of zero keeps its meaning to the kernel, never.
  `httparse` is external: an item is a head it accepts, or one it refuses. A peer
  frames its requests (`StreamsAssumption`): a body is as long as its head says, or
  the stream ends in it, and what follows is a head, or bytes no parser takes for
  one. Without that nobody could say where a request starts. `Expected` reads a
  stream as RFC 9112 has it; the thread has only its own state to go by.
* **`HttpPipeline`, `HttpAuth`.** A text (target, origin, resource, claim) is the
  sequence of its words and punctuation, so that what two spellings have in common
  is seen. A token is its claims and what its signature check will say. The session
  table is the set of keys in it.
* **`HttpSessions`.** One identity (it is part of every key). The table is a
  sequence in order of last use, and a sweep may find any prefix of it expired. A
  handler that panics is an action.
* **`Cli`.** A file is how much of it can be understood, its server entries, a
  number for everything else in it, and its mode. A write to a file is torn until it
  ends. `ledger` is what the file ought to hold if edits were made one at a time.
  The author's `on_serve` is `serve_daemon_with`, which the docs offer; `daemons` are
  the sockets that detached daemons serve. The line a shim relaunches its executable
  with is planned by the same `Cli`. How long a shim waits is `SocketClaim`'s.

## 3. The runs

`tlc -config <run>.cfg <module>` repeats one; none takes more than two minutes or so.
Deadlock is not checked: each of these systems may stop (a session ends, a daemon
exits, a command line returns, and the bounds themselves run out). What must not
get stuck is stated as a liveness property instead.

| Run, module | Checks | Shows |
|---|---|---|
| `TaskStore`, `TaskStore` | `ResultsAgree`, `Isolation`, `PurgeIsFinal`, `CapacityKept`, `AwaitReturns`, `ImplementsLifecycle` | two requestors race for the last record, and against each other's tasks, their workers, expiry and a clock that steps back: outcomes agree, nothing leaks or comes back, the limit costs no running task its record, a blocked `await_result` returns whatever the worker does, and the store implements the protocol's life cycle |
| `Broker`, `MCRequestBroker` | `Routed` | timeouts, cancellations and failed writes against answers that come late, twice or unasked: no waiter is leaked, no wake-up lost, no late answer kept, and what is kept is bounded |
| `Session`, `MCSession` | `Accounted`, `InOrder`, `EventuallyAnswered` | no request is lost or answered twice between loop, pump, waiting tool and deferred queue; order is kept; no task speaks before it was announced; all are answered - with deadlines even if the client answers nothing, without them if it answers what it is asked: pump and worker do not deadlock |
| `Dispatch`, `MCDispatch` | `Attributable`, `Honoured`, `TaskAgrees`, `SpokenSoundly`, `WalkCovers` | every method, with good and bad parameters, tools that end in every way on the loop and as tasks, second handshakes, forms and conversations of any shape, messages a tool composes itself, damaged messages, lists that change while they are walked |
| `Framing`, `MCFraming` | `Framed`, `WholeLines`, `TimedReadEnds` | lines under, at and over the ceiling in any pieces, under deadlines, signals and a moving ceiling, over each transport, while others write |
| `Daemon`, `MCDaemon` | `ActiveExact`, `QuietBeforeCleanup`, `IdleDecision`, `DaemonEnds` | two listeners at the ceiling, refused threads, idle watcher and a signal; told to stop it stops, left alone, and only then, it exits |
| `Claim`, `MCSocketClaim` | `NeverOrphaned`, `ClaimHeld`, `Converges` | starts, stops, failures and crashes in every order; and, in a behaviour where nothing goes wrong any more, every shim ends connected whatever a killed daemon left |
| `Bridge`, `Bridge` | `Faithful`, `CleanEnd`, `RunReturns` | failing transforms, garbage and lost connections, both ways; what the daemon flushes last is relayed; `run` returns when either side goes |
| `Http1`, `MCHttp1` | `InSync`, `SlotsExact`, `RequestEnds` | connections over the ceiling, requests that come in pieces, stop half-way or bring a body nobody reads, handlers that panic, threads that do not start, timeouts of zero |
| `HttpPipeline`, `MCHttpPipeline` | `Authorized`, `Settled`, `Unambiguous`, `Served` | requests in many spellings, with and without tokens, at five kinds of server; clients that know each other's session ids; workers that outlive their request |
| `HttpShared`, `MCHttpSessions` | `TableSound`, `HandshakeKept` | four parallel requests, eviction and expiry |
| `Cli`, `MCCli` | `ConfigKept`, `ExitHonest`, `LineServes` | two processes run any two of fourteen command lines against the files of two clients, found in four states, and may fail or die at each system call |

Each property of a run has a mutant in `PROJECT.json`, some have several: a
plausible slip in one definition under which TLC finds the property violated.

### Disagreements between the code and what is said of it

Each of these properties states what a comment in the repository claims; TLC
finds it violated under the configuration named, and its trace shows how the code
departs from it. A configuration that is a run of the table above is that run with
this property in place of its own and the constants given here, if any. All but one
are a race or a corner that the comment does not mention. The one is `RelaunchTaken`:
it is no race, and a local server built the way the docs allow never starts its daemon.

| Configuration, module | Property | What the trace shows | What is said |
|---|---|---|---|
| `TaskStore`, `TaskStore`, with `Requestors = {r1}`, `Blocking = {r1}`, `Horizon = 2` | `RunningTasksBounded` | an expired record frees the slot of a worker that still runs | `tasks.rs:179` "Ceiling on simultaneously running tasks" |
| `BrokerRace`, `MCRequestBroker` | `ParkedHasWaiter` | a response read between the locks of `abandon` is parked for nobody | `broker.rs:46` "Remembering them is what stops a late response being parked for a waiter that has gone" |
| the same with `Workers = {}` and `Garbage = TRUE` | `ParkedHasWaiter` | a Direct wait that ends in a read error is not abandoned, and its answer is parked | `server.rs:380` "Every exit where nobody will collect the answer any more" |
| `SessionWithdrawal`, `MCSession` | `WithdrawalHeard` | the pump defers the cancellation that its own worker is waiting for | `server.rs:2859` "Dropping this left the waiter blocked for the whole `request_timeout`" |
| the same with `Configs <- HandshakeFirst` | `GarbageAnswered` | a malformed line read in a Direct wait is never answered | `server.rs:1891` "JSON-RPC wants an error response" |
| `DaemonIdle`, `MCDaemon` | `IdleExitIsIdle` | a client admitted between the idle decision and the flag is cut off | `daemon_state.rs:174` "A new connection arriving during the window cancels the countdown" |
| `HttpTerminate`, `MCHttpSessions` | `TerminatedStaysGone` | a request in flight puts a deleted session back | `http.rs:1320` "MUST respond to requests containing that session ID with HTTP 404" |
| the same | `LevelAsLastSet` | setting the level back to the default is not recorded | `http.rs:221` "As last set by `logging/setLevel`" |
| `HttpTerminate` with `RequireInit = FALSE`, `Levels = {"debug", "error"}` | `LevelAsLastSet` | a request writes the level it was restored with over a newer one | the same |
| `HttpTerminate` with `RequireInit = FALSE` | `HandshakeNeverDropped` | a session found empty is removed after another request completed its handshake | `http.rs:289` "A client that handshakes keeps `initialized` forever" |
| `ClaimRestart`, `MCSocketClaim` | `LoserHasWinner` | a daemon stands down for one that is stopping, and nobody binds | `unix_server.rs:558` "polls the socket, which the winner binds milliseconds later" |
| the same with `Leftovers <- AfterCrash`, `Weathers <- Calm` | `PidFileKept` | a shim removes the PID file that a serving daemon has just published | `bridge.rs:396` "clear the stale PID file" |
| `Bridge`, `Bridge`, with `Breaks = FALSE` | `AlwaysDrained` | one over-long response after a half-close loses the rest of the drain | `bridge.rs:116` "once the upstream connection is fully drained and closed" |
| `Framing`, `MCFraming` | `BudgetKept` | a line begun under one ceiling is judged by the next | `line.rs:92` "a message already half-accumulated keeps the budget it started with" |
| `Framing`, `MCFraming` | `DeadlineHonoured` | after a signal during `poll` the read of standard input has no deadline any more | `stdio.rs:176` "the deadline check will stop it if the budget is gone" |
| `Dispatch`, `MCDispatch` | `AlwaysTagged` | a message a tool composes itself, with params or a `_meta` that is no object, leaves a task without its id | `server.rs:152` "All requests, notifications, and responses related to a task **MUST** include" |
| `CliRelaunch`, `MCCli` | `RelaunchTaken` | a server built on `Cli` whose `on_serve` calls `serve_daemon` starts as a shim, finds no daemon and relaunches itself as `--daemon --socket <path>`; its own `Cli` knows no such command and exits with 2 (`cli/mod.rs:749`), so the shim waits in vain. Only an author's command named `--daemon` would take the line | `daemon.rs:540` "relaunching this executable as one if none is up"; `cli/mod.rs:324` and `docs/plans/CLI_HARNESS.md:216` offer `serve_daemon` for `on_serve` |
| `CliOverlap`, `MCCli` | `EverythingSurvives` | what another process wrote between our read and our rename is lost | `cli/install/mod.rs:17` "Everything we did not put there survives" |

Noticed while modelling, and kept in the models as the code has it, without a
configuration of their own:

* `path_of` (`http.rs:156`) takes the slash of a query or fragment for the path of
  an absolute target that has none.
* A task's invalid arguments lack the "Invalid arguments: " that the synchronous
  call puts before them, and its panics are worded differently. Code and `isError`
  agree, which is what `TaskAgrees` compares.
* A worker keeps the log level of the moment its task was started; the doc of `log`
  (`server.rs:96`) speaks of the threshold the client set.
* The doc of `send_request` (`server.rs:286`) says that it fails inside a task
  worker; with a pump it is delegated and works.
* `tasks/list` is newest first and its cursor an offset, so a task created during a
  walk shows an item twice; `WalkCovers` asks only that none is missed.
* A sampling conversation whose tool results answer no tool use is accepted.
* Over HTTP a synchronous tool's elicitation stays in the buffered response although
  the call itself returned an error.
* `with_related_task_data` leaves the task id out when the error's data is no object.

### Bounds, and why they are enough

* **`TaskStore`.** With a TTL of one tick and a `Horizon` of one, a record can be
  fresh, expire, and be fresh again after the clock is set back. One record, two
  ids and two requestors: every creation after the first needs a sweep, an eviction
  or a refusal, and it is the other requestor's record that is in the way.
* **`Broker`.** Two requests: two workers at once, a worker and a Direct wait, or
  one after the other on the same thread. The client answers and withdraws without
  limit, and each queue has one place, so that it overflows.
* **`Session`.** Four requests: one in a wait, one in a deferred queue of one place,
  one over its limit, and one behind. The two configurations are a session with
  deadlines whose client may do anything, and one without them, where a worker may
  get past its gate before its task was announced.
* **`Dispatch`.** A configuration meets one kind of traffic (methods, outcomes,
  asking, composing, damaged messages, walking) and has what that needs: three tools
  of the three kinds of task support, pages of 0, 1, 2 and the empty list, at most
  three tasks, all conversations of up to three turns, forms built by any
  sequence of calls, and composed messages with each shape of params and `_meta`, the
  id of another task among them.
* **`Framing`.** Ceilings of 2 and 4 bytes, lines of 1 to 4 and a buffer of 2: a
  line may fit one ceiling and not the other, meet both before it ends, end at a buffer's edge, and be
  followed by another that must not be touched. Two writers of two messages each.
* **`Daemon`.** Ceilings of one with two listeners and two clients: each admission
  is at the ceiling; one launch asks for zero and gets what the code makes of it,
  one leaves the default (2). `MaxArrivals` stops new connections once somebody has
  been admitted, which bounds the generation counter; the other client may be in a
  backlog already, so two can be admitted, one after the other has gone.
* **`Claim`.** Four daemons (one started by hand, one that left files behind) and
  two shims: each shim can start a daemon while a third competes for the claim.
* **`Bridge`.** Two lines per direction: one in hand and one behind it.
* **`Http1`.** Three connections at a ceiling of one (zero was asked for) and a
  backlog of one: one is served, one waits for its refusal, one is dropped. Each
  stream has a request that ends in its own way and one behind it.
* **`HttpPipeline`.** Requests that differ from a good one in one or two respects,
  so that every check is reached by a request that fails only there; two slots and
  two ids for clients that use each other's session ids.
* **`HttpShared`.** One session in the table and two ids: handing out a session
  evicts the other. Four requests, so that two can overlap in each.
* **`Cli`.** Two processes, two command lines in all, one rewrite by a client, one
  client of each file format: enough for two edits to overlap. The program of `p2`
  has a command for the line its daemon is started with, that of `p1` has none.

Symmetry is used in two safety runs only, `Broker` (over the workers) and
`HttpShared` (over requests and ids).

### Fairness, and why the code justifies it

* `TaskStore`: weak fairness of a turn of `await_result` (the wait has a 100 ms
  limit, so a lost notification costs one turn) and of its deadline passing. None
  of the worker: a tool may run for ever.
* `RequestBroker` states no liveness: `WakeUpReaches`, a part of `Routed`, says that
  whenever the reader is done with an answer, the worker it is for has what it takes
  to wake.
* `Session`: weak fairness of the loop thread, always. With deadlines, also of a
  record's expiry (TTLs are finite and the pump's look sweeps), and nothing of the
  client. Without deadlines, that the client answers and its answer stays in the
  transport until it is read, and that tools return: with neither, a request may
  indeed wait for ever.
* `Framing`: weak fairness of the reading thread and of time. Nothing of the peer, of
  signals, or of the callers.
* `Daemon`: weak fairness of the daemon's own threads. None of the clients; a
  connection never has to end.
* `SocketClaim`: weak fairness of each process between its system calls. `Converges`
  speaks of the behaviours whose `weather` is empty.
* `Bridge`: weak fairness of both pumps, and of the daemon closing after it has been
  half-closed, which is what `Server::start` does at end of input.
* `Http1`: weak fairness of each connection's thread, of the listener, of the refuser
  and of deadlines; a handler returns. No peer owes a byte.
* `HttpPipeline`: weak fairness of each request's thread; its body is bounded by the
  deadlines of `Http1`.
* `HttpSessions`, `Dispatch` and `Cli` state safety only.

## 4. The proofs

`tlapm <module>.tla` checks a proof module. The theorems hold for every value of the
constants that satisfies the assumption named in the module that declares them;
`Spec` includes fairness, which no safety proof uses. Each inductive invariant was
checked by TLC on the run's instance before it was proved.

| Module, from | Theorem | States |
|---|---|---|
| `TaskStoreProofs`, `StoreAssumption`: ids and limits are naturals, the ids finitely many | `TypeCorrect` | `[]TypeOK` |
| | `OutcomesPresent` | `[]TerminalHasOutcome`: the "terminal but has no result" error is unreachable |
| | `OneResult` | `[]ResultsAgree`: nobody is given two outcomes of a task, nor a worker's after its cancellation was acknowledged |
| | `TasksIsolated` | `[]Isolation` |
| | `PurgedForGood` | `[]PurgeIsFinal`, with a clock that may step back |
| | `LimitsHold`, `ConcurrencyLimit` | neither limit is ever exceeded |
| | `CapacityIsKept` | `CapacityKept`: only the expired and the finished lose their record |
| | `StoreImplementsLifecycle` | `ImplementsLifecycle`: the store refines `TaskLifecycle` |
| `SocketProofs`, `ClaimAssumption`: daemons, shims and `None` are distinct | `ClaimDiscipline` | `[]ClaimHeld`: the claim is held by exactly the process that acts under it |
| | `SocketKept` | `[]NeverOrphaned`: a serving daemon keeps its socket |
| `SocketProofs`, `DaemonAssumption`: listeners and clients are finitely many, a knock is no client, the default ceiling is not zero | `CountIsExact` | `[]ActiveExact`: the count is the number of admitted connections and within the ceiling |
| | `CleanupIsLast` | `[]QuietBeforeCleanup` |
| | `DecidesOnFacts` | `IdleDecision`: the idle watcher decides to exit only if nobody is there and nobody has been |
| `HttpProofs`, `SessionsAssumption`: `MAX_SESSIONS` is not zero, `None` is nothing else | `TableIsSound` | `[]TableSound`: the table's limit, and one task store per session |
| | `HandshakeIsKept` | `HandshakeKept`: no request erases what another established |
| | `HandedOutIsListed` | making room for a session never evicts that session |
| `RequestBrokerProofs`, `BrokerAssumption`: limits are naturals | `BrokerRoutes` | `[]Routed`: no wrong, lost, leaked or late delivery; bounded queues |
| `SessionProofs`, `SessionAssumption`, `KindsAssumption`: limits are naturals, configurations and kinds are of their type | `RequestsAccounted` | `[]Accounted`: no request is lost or answered twice |
| | `ClientSeesOrder` | `[]InOrder`: requests are begun in order, a task is announced before it is heard |
| `HttpProofs`, `Http1Assumption` (limits are naturals, connections finitely many), `StreamsAssumption` (section 2) | `SlotsCounted` | `[]SlotsExact` |
| | `KeepAliveInSync` | `[]InSync`: a connection that is kept alive waits where a request starts |
| `HttpPipelineProofs`, `PipelineAssumption` (a request has a token, whose claims are texts), `AnswersAssumption` (`None` is no answer) | `AnswersAreSettled` | `[]Settled`: a 200 carries what was acknowledged |
| | `FramingIsUnambiguous` | `[]Unambiguous`, for any fields in any number |
| | `SessionsAreIsolated` | `[]Isolated`: nobody is processed in a session of somebody else |
| | `OnlyTheAuthorized` | `ReadAsMeant` implies `[]Authorized` |
| `SocketProofs`, `FramingAssumption`: newlines are at increasing positions, there is a buffer and a ceiling | `LinesAreFramed` | `[]Framed`: one result per line, in order, whatever the pieces, deadlines and ceilings |
| | `LinesStayWhole` | `[]WholeLines`: no writer's message is inside another's |
| `SocketProofs`, `BridgeAssumption`: the number of lines is a natural | `ProxyIsFaithful` | `[]Faithful`: the proxy is a queue |
| | `HalfCloseIsClean` | `[]CleanEnd` |
| `DispatchProofs`, `DispatchAssumption`: configurations and messages are of their types, a request's id is readable | `CapabilitiesHonoured` | `[]Honoured`: the methods do what `initialize` and `tools/list` declared |
| | `AnswersAttributed` | `[]Attributable`: every answer can be put with its request, a result with its task, and what a tool writes inside a task, with params and `_meta` that are objects or missing, with that task |
| | `TasksAgree` | `[]TaskAgrees`: a task ends as its call would have |
| | `SpeechIsSound` | `[]SpokenSoundly`: a client is told and asked only what it can be |
| `CliProofs`, `CliAssumption`: files and entries are of their types, a server's name is a registered one | `FilesAreKept` | `[]ConfigKept`, for any number of processes that may die anywhere |
| | `ExitsTellTheTruth` | the part `TruthTold` of `[]ExitHonest` |

### Along which argument

**Task store.** `ResultsAgree` compares what was told at different moments and is not
inductive: nothing in it says that the record an outcome is read from agrees with
what was told before. `IInv` adds `Consistent(tasks)` - a retained record still holds
every outcome told of it, its owner is its creator, a terminal record has its
outcome, and it stays cancelled once a cancellation was acknowledged - and
`HistoryOfDrawn`, that history speaks only of ids that were drawn, which is what
makes a new record safe. Lemmas say what sweeping, making room, moving and finishing
keep, and the per-action cases cite them. The limits are an argument on cardinalities:
a creation adds one record to a table that `make_room` has left below the limit or
does not happen. The refinement maps a record to its phase, and a record that has
gone to "purged"; each step moves each task by `MayFollow` or not at all.

**Socket claim.** A step that unlinks or binds is harmless only because the process
taking it holds the claim, so that no daemon is between its bind and its own unlink:
`IInv == TypeOK /\ ClaimHeld /\ NeverOrphaned`.

**Daemon.** `DInv` says that a loop has at most one connection in hand and a client is
in one place (`OnePlace`), that a knock is in a backlog only once the flag is up and
so is never admitted (`KnocksFollowFlag`), what each stage of `run` has behind it
(`Stages`), and that an unchanged generation means that nobody was admitted
(`WindowHonest`). The count is then a cardinality that each step changes by one.

**HTTP sessions.** What makes parallel requests harmless is that a session's task store
is chosen once and for good (`OneStoreForGood`); `HInv` adds that what is in flight
was drawn. Lemmas about the table (a sequence without repetitions) say what
forgetting, using and evicting an entry leave.

**Broker.** `BInv` says where each thread stands between two locks: who owns an id,
that a sender is in one place - the map or the reader's hand - and that it is kept as
long as its worker can still wake, what the reader has left to do, and that an id is
among the abandoned as soon as its waiter gave up. Two lemmas about sequences carry
the queues: removing the first occurrence, and dropping the oldest. Proving it showed
that an earlier form of `Routed` was true of small instances only: it remembered
abandoned ids for ever, while `broker.rs` forgets the oldest once `MAX_ABANDONED` is
reached. The history variable now records what was pushed out, and `Broker.cfg` has a
limit of one so that TLC sees it.

**Session.** Some thirty actions do only nine things to the requests: nothing, take one
from the queue, read one, put one off, refuse one, answer the current one... Each
action is classified as one of these moves (`RequestMove`), and each move keeps
`Queued` (what was put off came later than what was begun, and in order) and
`Ledger` (an unanswered request is owed by somebody). `Gates` says who may be past a
worker's gate.

**HTTP/1.** `InSync` speaks of one moment, the start of a request. `InStep` says for
every state of a thread what the rest of its stream must be framed as, `BodyBounded`
that what is left of a body is counted exactly, and each read moves both by one item.
A failed or declined body ends in `writing` without a claim about the stream, and
that is safe because such an answer closes the connection.

**HTTP requests.** `PInv` says of each connection what the stages it has passed have
shown: its head was accepted, `precheck` let it through, its claims are those of its
own token and that token is valid for this server, its key is made of those claims;
and that the buffer and the acknowledged writes agree, the answer being made of a
sealed buffer. Three lemmas about operators carry the rest: whatever `framing_of`
accepts every recipient reads alike (`FramingAlike`); two texts joined by a separator
that neither of the first ones holds are determined by the whole (`JoinedApart`), so
that `Sessions::key` tells owners apart; and what it means to have passed `precheck`
(`PrecheckPassed`). `ReadAsMeant`, the hypothesis of `OnlyTheAuthorized`, says that
`path_of` and `is_allowed` accept of a spelling only what was meant by it. It is not
true of every text: `path_of` takes the slash of a query for a path where there is
none (section 3). `MCHttpPipeline` states it as an assumption, so that TLC evaluates
it for each spelling of the instance.

**Framing.** `Framed` is nearly inductive: the reader is inside the line after the last
it returned, and keeps all of it or nothing. `FInv` adds that the ceilings met so far
are naturals and that a line overflowed only if it exceeds one of them
(`OverSomething`), which makes its refusal right however the ceiling moves later.
Lemmas say that the bytes of a line determine it, and that a chunk appended to a
beginning of a line is a longer beginning. Proving it showed that an earlier form was
true of small instances only: it allowed a line the verdict of the ceiling it began
under or of the last one, while a ceiling that is lowered and set back during a line
may refuse it for the one in between. Lines are now judged by any of the ceilings they
met, and the run's ceilings are far enough apart for a line to meet both. `WholeLines`
follows from who holds the writer's lock (`WInv`).

**Bridge.** `RInv` says where each line is: a pump that reads has relayed everything it
has read, one with a line in hand all but that line, and the line is on its way to the
sink it belongs to (`Held`). `Ending` says why a pump has ended. What was once stated
with filtered and sorted logs is stated by positions: the entries of one direction in a
sink are the expected numbers, ascending. Both pumps write to both sinks, so that a
write must also be shown to leave the other pump's entries alone.

**Dispatch.** `Knows` says that the environment of a tool, on the loop or in a worker,
holds the capabilities and level of the handshake it was made under, which later
handshakes do not change; with `FormSound`, kept by each call of the builder, it gives
`SpokenSoundly`. `Filed` says that a task's record and its worker are about the same
tool and run. `Answerable` says that registration is over once the capabilities are
declared (`add_tool` and its like need `&mut Server`, which `start` borrows), and that a
call on the loop is one that was not to be a task; on it rest `Honoured` and
`Attributable`, one lemma per method; that a message names its task is a lemma about
`tag_with_task` alone (`TagsWithTask`), for params of any shape. Two things changed on the way. "Unknown" in
`Honoured` had to be the server's own refusal, since a tool may raise the same error
code; and arms of a `CASE` that overlapped were made disjoint: TLC takes the first arm
that holds, as the code does, but the logic chooses any.

**Command line and installer.** A rename is as good as the file that is renamed, so
`Hands` follows a write from its read to its commit. Of a file whose edits did not
overlap, `Orderly` says that the file is what the ledger says, that at most one process
is past the start of its copy, and that the copy is of the present file unless the
client has rewritten it since, which is told by the number for everything else in the
file, as it only grows. `Moded` says that the mode a write took when it began is still
that of the file it replaces, since nobody else changes a mode. A crash leaves staged and copied files torn, and nothing else.
`TInv` says for each phase of a process what it may have touched and heard.

### Only model-checked

* Liveness: `AwaitReturns`, `EventuallyAnswered`, `DaemonEnds`, `Converges`,
  `RunReturns`, `RequestEnds`, `Served`, `TimedReadEnds`. The prover reaches neither
  fairness nor `ENABLED`.
* `WalkCovers` of `Dispatch`: what sorting a list, cutting it in pages and following
  their cursors adds up to needs induction over the list.
* `LineServes` of `Cli`: what reading a command line of any length yields is a recursion
  over its words.
* `EditsDone`, the other part of `ExitHonest`: it says that the files are as the command
  left them, and holds of processes that install different servers. Two processes of one
  server may undo each other's work, as they should; to say so needs a history of who
  edited last, which the exit code does not depend on.
* The spellings themselves: what `path_of`, `is_allowed` and `ResourceUri::parse` make
  of a text, and the calendar of `Timestamps`.

## 5. Not modelled

* Serialisation of single fields (derived code), JSON Schema validation itself (a
  schema is whether it compiles, a value whether it meets it), wording, logging and
  layout.
* What an application registers: a tool is how it may end and what it may ask.
* TLS, and the character syntax of HTTP heads, which `httparse` checks.
* Signatures of tokens: the check's outcome is a field of the token.
* Ownership and modes of directories, and socket options; all processes belong to
  one user.
* The bytes of a configuration file: comments and formatting that the TOML editor
  keeps are part of "everything else" in it.

## 6. Plan

Done: all components of section 1, in the order of the hazards they carry - tasks
and server-initiated requests, where threads meet, first; then the daemon, its claim,
sessions and bridge; then what those assume (framing, HTTP connections and requests,
dispatch) and what starts them (command line, installer). All safety properties of the
runs are proved but `WalkCovers`, `LineServes` and half of `ExitHonest`. What may come
next:

1. That the session keys of `HttpPipeline` are the table of `HttpSessions`, stated as
   a refinement.
2. The operators of `HttpAuth` on texts of any length, to make `ReadAsMeant` a lemma
   about the targets and origins for which it is true.
3. `EditsDone` for processes of different servers, with that condition as a hypothesis.
