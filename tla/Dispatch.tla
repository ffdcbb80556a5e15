------------------------------ MODULE Dispatch ------------------------------
(***************************************************************************)
(* What a Server answers (server.rs): registration, the handshake, each    *)
(* request handler, task workers, and what a running tool may do through   *)
(* its ToolEnv.  The loop handles one message at a time and task workers   *)
(* run beside it; reading, deferring and pumping are module Session, the   *)
(* task store's own rules are module TaskStore.                            *)
(*                                                                         *)
(* Names and URIs are numbers in the order sort_by puts them.              *)
(***************************************************************************)
EXTENDS Integers, Sequences, FiniteSets, Messages, Pagination, ClientAsks
LOCAL INSTANCE SequencesExt
LOCAL INSTANCE TLC

\* StderrLogging: where a record goes that the client does not receive.
StderrLogging == {"never", "fallback", "always"}

CONSTANTS
    Configs,        \* ServerConfig, what is registered, and what the peers will try
    MaxTasks        \* the most task-augmented calls a configuration allows over one behaviour

\* A block is what its kind says: text has no id, a tool's use and its result do.
Block(b) == (b.kind \in {"tool_use", "tool_result"}) <=> (b.id # Absent)

\* What the constants are: configurations of their types, and of what peers may
\* try, what the types of the wire let through.
ASSUME DispatchAssumption ==
    /\ MaxTasks \in Nat
    /\ RequestIds \cap {Missing, Null, Odd} = {}
    /\ Absent \notin {"optional", "required"}
    /\ \A c \in Configs :
         /\ c.pageSize \in Nat /\ c.stderr \in StderrLogging /\ c.budget \in 0..MaxTasks
         /\ {c.tasks, c.validate} \subseteq BOOLEAN
         /\ c.texts \subseteq Texts
         /\ \A tool \in c.offers.tools : tool.support \in {"forbidden", "optional", "required"}
         /\ \A req \in c.requests :
              req.method = "initialize" /\ req.params.given = "ok"
              /\ req.params.caps.elicitation # Absent
                => req.params.caps.elicitation \subseteq {"form", "url"}
         /\ \A f \in c.calls : f.op \in {"add", "required", "annotate"}
         /\ c.raws \subseteq [given : {Missing, "object", Odd}, meta : {Missing, "object", Odd}, task : Nat]
         /\ \A p \in c.forms : p.mode \in {Absent, "form", "url"}
         /\ \A p \in c.drafts :
              /\ DOMAIN p.messages = 1..Len(p.messages) /\ Len(p.messages) \in Nat
              /\ \A i \in DOMAIN p.messages :
                   \A b \in DOMAIN p.messages[i].blocks : Block(p.messages[i].blocks[b])

VARIABLES
    config,     \* the server's configuration, which Init chooses
    form,       \* the form its tools are putting together
    reg,        \* what has been registered: tools, resources, templates, prompts
    open,       \* the server is serving a connection
    session,    \* handshake, version, log level, client capabilities
    tasks,      \* the connection's task store, newest first
    made,       \* tasks created so far
    workers,    \* task workers still running
    call,       \* the synchronous tools/call the loop is in
    declared,   \* the ServerCapabilities last answered
    last,       \* the last message heard and what was answered
    out,        \* the last thing a tool wrote
    walk,       \* a client reading a list page by page
    told        \* history: what the client last had accepted

vars == <<config, form, reg, open, session, tasks, made, workers, call, declared, last, out, walk, told>>
connection == <<session, tasks, made, workers, call, declared, walk, told>>

Nothing == [kind |-> "nothing"]

-----------------------------------------------------------------------------
(* Configuration *)

SupportedProtocolVersions == <<"2025-11-25", "2025-06-18", "2025-03-26">>
ProtocolVersion           == SupportedProtocolVersions[1]

\* ServerConfig::default; the timeouts are Session's, the message size Framing's.
ServerConfig ==
    [pageSize |-> DefaultPageSize, versions |-> SupportedProtocolVersions, level |-> 2,
     stderr |-> "fallback", validate |-> TRUE, require |-> FALSE]

\* Server::new: no tasks, and every caller the same requestor.
ServerNew(c) == c @@ [tasks |-> FALSE, context |-> "single", maxConcurrent |-> 0]

\* TaskConfig::default, of what a single connection meets.
TaskConfig == [maxConcurrent |-> 16]

EnableTasks(server, taskConfig)  == taskConfig @@ [server EXCEPT !.tasks = TRUE]
SetTaskContext(server, context)  == [server EXCEPT !.context = context]

-----------------------------------------------------------------------------
(* Registration *)

\* The Tool trait: what a tool is when it overrides nothing.
Tool(name, schema) ==
    [name |-> name, length |-> 128, plain |-> TRUE, input |-> schema,
     output |-> "none", support |-> "forbidden"]

IsValidToolName(tool) == tool.length \in 1..128 /\ tool.plain

\* CompiledSchema::new: a schema that does not compile constrains nothing.
Compile(schema) == IF schema = "broken" THEN Absent ELSE "compiled"

\* OutputCheck::new: of a broken output schema, the promise of presence is left.
OutputCheck(schema) ==
    CASE schema = "none" -> "none" [] schema = "broken" -> "presence" [] OTHER -> "compiled"

ToolEntry(tool) ==
    [name |-> tool.name, support |-> tool.support,
     input |-> Compile(tool.input), output |-> OutputCheck(tool.output)]

Entry(name) == CHOOSE e \in reg.tools : e.name = name
Known(name) == \E e \in reg.tools : e.name = name

Registers(error) ==
    /\ last' = [Nothing EXCEPT !.kind = IF error THEN "refused" ELSE "registered"]
    /\ UNCHANGED <<config, form, open, out>> /\ UNCHANGED connection

AddTool(tool) ==
    /\ ~open
    /\ \/ /\ ~(~Known(tool.name) /\ IsValidToolName(tool))
          /\ Registers(TRUE) /\ UNCHANGED reg
       \/ /\ ~Known(tool.name) /\ IsValidToolName(tool)
          /\ reg' = [reg EXCEPT !.tools = @ \cup {ToolEntry(tool)}]
          /\ Registers(FALSE)

\* add_resource, add_resource_template, add_prompt: a duplicate is an error.
AddItem(list, item) ==
    /\ ~open
    /\ Registers(item \in reg[list])
    /\ reg' = [reg EXCEPT ![list] = @ \cup {item}]

FreshSession ==
    [initialized |-> FALSE, version |-> Missing, level |-> config.level, caps |-> NothingDeclared]
FreshTold == [caps |-> NothingDeclared, level |-> config.level]
NoWalk    == [at |-> "idle", list |-> "tools", cursor |-> NoCursor, seen |-> {}, start |-> {},
              shrunk |-> FALSE, pages |-> 0]

\* start, or a daemon's Blueprint applied to a connection: registrations are
\* carried over, what a session accumulates is not.
Serve ==
    /\ open' = TRUE
    /\ session' = FreshSession /\ told' = FreshTold
    /\ tasks' = <<>> /\ workers' = {} /\ call' = Nothing
    /\ declared' = Nothing /\ walk' = NoWalk
    /\ last' = Nothing /\ out' = Nothing
    /\ UNCHANGED <<config, form, reg, made>>

-----------------------------------------------------------------------------
(* Answers *)

Ok(body)        == [code |-> 0, body |-> body]
Fail(kind)      == [code |-> ToJsonRpcError(Error(kind)).code, body |-> Nothing]

\* handle_request: one answer, with the request's id.
Answer(req, answer) == last' = [kind |-> "request", req |-> req, answer |-> answer]

\* parse_params and parse_optional_params.
ParamsRead(req)   == req.params.given = "ok"
OptionalRead(req) == req.params.given # Odd

CheckInitialized(method) ==
    ~config.require \/ method = "ping"
    \/ (method = "initialize" /\ ~session.initialized)
    \/ (method # "initialize" /\ session.initialized)

-----------------------------------------------------------------------------
(* The handshake *)

\* handle_initialize: the version asked for, or the newest supported.
Negotiate(asked) ==
    IF \E i \in DOMAIN config.versions : config.versions[i] = asked THEN asked
    ELSE IF config.versions # <<>> THEN config.versions[1] ELSE ProtocolVersion

CanList == config.context # "anonymous"

\* tasks.list declared whenever tasks are.
ServerCapabilities_AlwaysList ==
    {"logging"} \cup (IF reg.tools # {} \/ config.tasks THEN {"tools"} ELSE {})
    \cup (IF reg.resources # {} \/ reg.templates # {} THEN {"resources"} ELSE {})
    \cup (IF reg.prompts # {} THEN {"prompts"} ELSE {})
    \cup (IF config.tasks THEN {"tasks", "tasks.list", "tasks.cancel"} ELSE {})

ServerCapabilities ==
    {c \in {"tools", "resources", "prompts", "logging", "tasks", "tasks.list", "tasks.cancel"} :
        CASE c = "tools"      -> reg.tools # {} \/ config.tasks
          [] c = "resources"  -> reg.resources # {} \/ reg.templates # {}
          [] c = "prompts"    -> reg.prompts # {}
          [] c = "logging"    -> TRUE
          [] c = "tasks.list" -> config.tasks /\ CanList
          [] OTHER            -> config.tasks}

Sparse == [version |-> "", caps |-> NothingDeclared]

HandleInitialize(req) ==
    /\ req.method = "initialize"
    /\ \/ /\ ~OptionalRead(req) /\ Answer(req, Fail("InvalidParams")) /\ UNCHANGED connection
       \/ /\ OptionalRead(req)
          /\ \E p \in {IF ParamsRead(req) THEN req.params ELSE Sparse} :
               /\ session' = [session EXCEPT !.initialized = TRUE, !.caps = p.caps,
                                             !.version = Negotiate(p.version)]
               /\ told' = [told EXCEPT !.caps = p.caps]
          /\ declared' = [kind |-> "declared", caps |-> ServerCapabilities]
          /\ Answer(req, Ok([kind |-> "initialize", version |-> session'.version]))
          /\ UNCHANGED <<tasks, made, workers, call, walk>>

\* LogLevel, by severity; from_wire knows the eight of RFC 5424.
Levels == 1..8

HandleSetLevel(req) ==
    /\ req.method = "logging/setLevel"
    /\ \/ /\ ~(ParamsRead(req) /\ req.params.level \in Levels)
          /\ Answer(req, Fail("InvalidParams")) /\ UNCHANGED connection
       \/ /\ ParamsRead(req) /\ req.params.level \in Levels
          /\ session' = [session EXCEPT !.level = req.params.level]
          /\ told' = [told EXCEPT !.level = req.params.level]
          /\ Answer(req, Ok(Nothing))
          /\ UNCHANGED <<tasks, made, workers, call, declared, walk>>

-----------------------------------------------------------------------------
(* Lists *)

Sorted(S) == SetToSortSeq(S, LAMBDA a, b : a < b)

\* as_protocol_tool, with execution dropped where no tasks capability is declared.
ProtocolTool(e) ==
    [name |-> e.name,
     execution |-> IF e.support = "forbidden" \/ ~config.tasks THEN Absent ELSE e.support]

ItemsOf(list) ==
    CASE list = "tools" -> Sorted({e.name : e \in reg.tools})
      [] list = "tasks" -> [i \in DOMAIN tasks |-> tasks[i].id]
      [] OTHER          -> Sorted(reg[list])

\* handle_list_tools, _resources, _resource_templates, _prompts and handle_task_list.
Listed(list, req) ==
    IF list = "tasks" /\ (~config.tasks \/ ~CanList) THEN Fail("MethodNotFound")
    ELSE IF ~OptionalRead(req) THEN Fail("InvalidParams")
    ELSE LET page == Paginate(ItemsOf(list), req.params.cursor, config.pageSize)
         IN  IF page.error THEN Fail("InvalidParams") ELSE Ok([kind |-> "page", page |-> page])

ListMethods ==
    [tools |-> "tools/list", resources |-> "resources/list", prompts |-> "prompts/list",
     templates |-> "resources/templates/list", tasks |-> "tasks/list"]

HandleList(req) ==
    /\ \E list \in DOMAIN ListMethods :
         /\ ListMethods[list] = req.method
         /\ Answer(req, Listed(list, req))
    /\ UNCHANGED connection

\* A Resource is its content.
ReadResource(uri) == IF uri \in reg.resources THEN Ok(Nothing) ELSE Fail("ResourceNotFound")

\* PromptDef::get_messages may refuse its arguments.
GetPrompt(name, args) ==
    CASE name \notin reg.prompts -> Fail("PromptNotFound")
      [] name \in reg.prompts /\ args = "unfit" -> Fail("InvalidParams")
      [] OTHER -> Ok(Nothing)

\* handle_read_resource, handle_get_prompt, ping, and a method nobody knows.
HandleRead(req) ==
    /\ req.method \in {"resources/read", "prompts/get", "ping", "unknown"}
    /\ Answer(req,
         CASE req.method = "ping"    -> Ok(Nothing)
           [] req.method = "unknown" -> Fail("MethodNotFound")
           [] req.method = "resources/read" ->
                 IF ParamsRead(req) THEN ReadResource(req.params.name) ELSE Fail("InvalidParams")
           [] req.method = "prompts/get" ->
                 IF ParamsRead(req) THEN GetPrompt(req.params.name, req.params.args)
                 ELSE Fail("InvalidParams"))
    /\ UNCHANGED connection

-----------------------------------------------------------------------------
(* Running a tool *)

\* How execute may end: a result with or without structured content, or an error.
Value(isError, structured) ==
    [code |-> 0, isError |-> isError, structured |-> structured, data |-> Missing]
Raises(error) ==
    [code |-> ToJsonRpcError(error).code, isError |-> FALSE, structured |-> "none",
     data |-> ToJsonRpcError(error).data]

\* A tool may hand on the error a client answered it with, whatever its data is.
ErrorOf(run) == IF run.how = "Passthrough" THEN Passthrough(-1, Odd) ELSE Error(run.how)

\* catch_unwind and panic_message: a panic is reported, on the loop and in a worker.
Panicked == Raises(Error("Internal"))

\* check_output: a result that is an error already is exempt.
OutputHolds(e, run) ==
    \/ run.how = "iserror" \/ e.output = "none"
    \/ e.output = "presence" /\ run.structured # "none"
    \/ e.output = "compiled" /\ run.structured = "fits"

\* handle_call_tool: tool failures are results, other errors propagate.
CallOutcome(e, run) ==
    CASE run.how \in {"ToolError", "InvalidParams"} -> Value(TRUE, "none")
      [] run.how = "panic"                          -> Panicked
      [] run.how \in {"ok", "iserror"}              ->
            IF OutputHolds(e, run) THEN Value(run.how = "iserror", run.structured)
            ELSE Raises(Error("Internal"))
      [] OTHER                                      -> Raises(ErrorOf(run))

\* A worker that does not hold the tool to its output schema.
WorkerOutcome_Unchecked(e, run) ==
    IF run.how = "ok" THEN Value(FALSE, run.structured)
    ELSE CallOutcome(e, run)

\* The worker's closure in start_tool_task, which classifies for itself.
WorkerOutcome(e, run) ==
    CASE run.how = "iserror" -> Value(TRUE, run.structured)
      [] run.how = "ok" ->
            IF OutputHolds(e, run) THEN Value(FALSE, run.structured) ELSE Raises(Error("Internal"))
      [] run.how \in {"ToolError", "InvalidParams"} -> Value(TRUE, "none")
      [] run.how = "panic" -> Panicked
      [] OTHER -> Raises(ErrorOf(run))

WorkerStatus(outcome) ==
    IF outcome.code = 0 /\ ~outcome.isError THEN "completed" ELSE "failed"

\* progress_token: a string or an integer in _meta.
ProgressToken(params) == IF params.token = "ok" THEN "ok" ELSE Absent

\* tool_env and tool_env_with: the loop's own thread reads its answers itself.
LoopEnv(token) ==
    [by |-> 0, mode |-> "direct", caps |-> session.caps, level |-> session.level,
     token |-> token, told |-> told]

\* A worker that starts with the level the server was configured with.
WorkerEnv_DefaultLevel(id, token) ==
    [by |-> id, mode |-> IF config.pump THEN "delegated" ELSE "forbidden",
     caps |-> IF config.pump THEN session.caps ELSE NothingDeclared,
     level |-> config.level, token |-> token, told |-> told]

\* The environment a worker takes with it: what the client declared is only of
\* use where the transport can be pumped.
WorkerEnv(id, token) ==
    [by |-> id, mode |-> IF config.pump THEN "delegated" ELSE "forbidden",
     caps |-> IF config.pump THEN session.caps ELSE NothingDeclared,
     level |-> session.level, token |-> token, told |-> told]

NoOutcome == [code |-> 0, isError |-> FALSE, structured |-> "none", data |-> Missing]
NoRun     == [how |-> "none", structured |-> "none"]
NoSpawn   == [how |-> "spawn", structured |-> "none"]
Terminal(status) == status \in {"completed", "failed", "cancelled"}
Running   == {i \in DOMAIN tasks : ~Terminal(tasks[i].status)}

NewTask(e, status, outcome, run) ==
    [id |-> made + 1, entry |-> e, status |-> status, outcome |-> outcome, run |-> run]

\* start_tool_task: the record exists before the answer, and fails with its worker.
StartToolTask(req, e) ==
    \/ /\ Cardinality(Running) >= config.maxConcurrent
       /\ Answer(req, Fail("Internal")) /\ UNCHANGED connection
    \/ /\ Cardinality(Running) < config.maxConcurrent /\ made < config.budget
       /\ made' = made + 1
       /\ \/ /\ tasks' = <<NewTask(e, "working", NoOutcome, NoRun)>> \o tasks
             /\ workers' = workers \cup
                    {[id |-> made + 1, entry |-> e,
                      env |-> WorkerEnv(made + 1, ProgressToken(req.params))]}
             /\ Answer(req, Ok([kind |-> "task", id |-> made + 1]))
          \/ /\ tasks' = <<NewTask(e, "failed", Raises(Error("Internal")), NoSpawn)>> \o tasks
             /\ Answer(req, Fail("Internal")) /\ UNCHANGED workers
       /\ UNCHANGED <<session, call, declared, walk, told>>

\* Arguments are checked against a schema that compiled.
ArgumentsFail(e, params) == config.validate /\ e.input # Absent /\ params.args = "unfit"

HandleCallTool(req) ==
    /\ req.method = "tools/call"
    /\ \/ /\ ~(ParamsRead(req) /\ Known(req.params.name))
          /\ Answer(req, Fail("InvalidParams")) /\ UNCHANGED connection
       \/ /\ ParamsRead(req) /\ Known(req.params.name)
          /\ \E e \in {Entry(req.params.name)} :
               \/ /\ ArgumentsFail(e, req.params)
                  /\ Answer(req, Ok([kind |-> "result", result |-> Value(TRUE, "none"), task |-> 0]))
                  /\ UNCHANGED connection
               \/ /\ ~ArgumentsFail(e, req.params) /\ config.tasks
                  /\ \/ req.params.task /\ e.support = "forbidden"
                     \/ ~req.params.task /\ e.support = "required"
                  /\ Answer(req, Fail("MethodNotFound")) /\ UNCHANGED connection
               \/ /\ ~ArgumentsFail(e, req.params) /\ config.tasks
                  /\ req.params.task /\ e.support # "forbidden"
                  /\ StartToolTask(req, e)
               \/ /\ ~ArgumentsFail(e, req.params)
                  /\ ~config.tasks \/ (~req.params.task /\ e.support # "required")
                  /\ call' = [kind |-> "call", req |-> req, entry |-> e,
                              env |-> LoopEnv(ProgressToken(req.params))]
                  /\ last' = Nothing
                  /\ UNCHANGED <<session, tasks, made, workers, declared, walk, told>>

\* The synchronous call ends and is answered.
CallReturns(run) ==
    /\ call # Nothing
    /\ \E outcome \in {CallOutcome(call.entry, run)} :
         Answer(call.req,
                [code |-> outcome.code,
                 body |-> [kind |-> "result", result |-> outcome, task |-> 0]])
    /\ call' = Nothing /\ out' = Nothing
    /\ UNCHANGED <<config, form, reg, open, session, tasks, made, workers, declared, walk, told>>

At(id) == CHOOSE i \in DOMAIN tasks : tasks[i].id = id
Has(id) == \E i \in DOMAIN tasks : tasks[i].id = id

\* The worker finishes, which a cancelled or swept task ignores, and says so.
WorkerReturns(w, run) ==
    /\ w \in workers /\ workers' = workers \ {w}
    /\ \/ /\ Has(w.id) /\ ~Terminal(tasks[At(w.id)].status)
          /\ \E outcome \in {WorkerOutcome(w.entry, run)} :
               tasks' = [tasks EXCEPT ![At(w.id)] =
                            [@ EXCEPT !.status = WorkerStatus(outcome), !.outcome = outcome,
                                      !.run = run]]
       \/ /\ ~(Has(w.id) /\ ~Terminal(tasks[At(w.id)].status))
          /\ UNCHANGED tasks
    /\ out' = IF Has(w.id) THEN [kind |-> "status", by |-> w.id] ELSE Nothing
    /\ last' = Nothing
    /\ UNCHANGED <<config, form, reg, open, session, made, call, declared, walk, told>>

-----------------------------------------------------------------------------
(* Tasks *)

\* handle_task_get and handle_task_cancel, of a task store that is there.
TaskRequest(req) ==
    IF ~config.tasks THEN Fail("MethodNotFound")
    ELSE IF ParamsRead(req) /\ Has(req.params.id) THEN Ok([kind |-> "task", id |-> req.params.id])
    ELSE Fail("InvalidParams")

HandleTaskGet(req) ==
    /\ req.method = "tasks/get"
    /\ Answer(req, TaskRequest(req)) /\ UNCHANGED connection

HandleTaskCancel(req) ==
    /\ req.method = "tasks/cancel"
    /\ \/ /\ TaskRequest(req).code # 0
          /\ Answer(req, TaskRequest(req)) /\ UNCHANGED connection
       \/ /\ TaskRequest(req).code = 0 /\ Terminal(tasks[At(req.params.id)].status)
          /\ Answer(req, Fail("InvalidParams")) /\ UNCHANGED connection
       \/ /\ TaskRequest(req).code = 0 /\ ~Terminal(tasks[At(req.params.id)].status)
          /\ tasks' = [tasks EXCEPT ![At(req.params.id)] =
                          [@ EXCEPT !.status = "cancelled", !.outcome = Raises(Error("Internal"))]]
          /\ Answer(req, TaskRequest(req))
          /\ UNCHANGED <<session, made, workers, call, declared, walk, told>>

\* The task an outcome is of goes into _meta or, for an error, into data; data
\* that is no object is left as it is.
RelatedTask(outcome, id) == IF outcome.code # 0 /\ outcome.data = Odd THEN 0 ELSE id

\* handle_task_result, once await_task returns.
HandleTaskResult(req) ==
    /\ req.method = "tasks/result"
    /\ \/ /\ TaskRequest(req).code # 0
          /\ Answer(req, TaskRequest(req))
       \/ /\ TaskRequest(req).code = 0 /\ Terminal(tasks[At(req.params.id)].status)
          /\ \E outcome \in {tasks[At(req.params.id)].outcome} :
               Answer(req, [code |-> outcome.code,
                            body |-> [kind |-> "result", result |-> outcome,
                                      task |-> RelatedTask(outcome, req.params.id)]])
    /\ UNCHANGED connection

\* A record's time to live runs out, or it is evicted to make room.
Expire(i) ==
    /\ open /\ i \in DOMAIN tasks
    /\ tasks' = SubSeq(tasks, 1, i - 1) \o SubSeq(tasks, i + 1, Len(tasks))
    /\ walk' = [walk EXCEPT !.shrunk = @ \/ walk.list = "tasks"]
    /\ last' = Nothing /\ out' = Nothing
    /\ UNCHANGED <<config, form, reg, open, session, made, workers, call, declared, told>>

-----------------------------------------------------------------------------
(* What the loop hears *)

\* dispatch_request.
Handle(req) ==
    /\ open /\ call = Nothing
    /\ out' = Nothing /\ UNCHANGED <<config, form, reg, open>>
    /\ \/ /\ ~CheckInitialized(req.method)
          /\ Answer(req, Fail("InvalidMessage")) /\ UNCHANGED connection
       \/ /\ CheckInitialized(req.method)
          /\ \/ HandleInitialize(req) \/ HandleSetLevel(req) \/ HandleList(req)
             \/ HandleRead(req) \/ HandleCallTool(req)
             \/ HandleTaskGet(req) \/ HandleTaskCancel(req) \/ HandleTaskResult(req)

\* Anything else on the wire: garbage is answered, what expects no answer is not.
\* A request this readable is a ping.
Hear(text) ==
    /\ open /\ call = Nothing
    /\ \E m \in {Parse(text)} :
         last' = [kind |-> "text", text |-> text,
                  reply |-> CASE m.kind = "bad" /\ IsMalformed(m.error) -> ErrorId(m.error)
                              [] m.kind = "request"                     -> m.id
                              [] OTHER                                  -> Missing]
    /\ out' = Nothing /\ UNCHANGED <<config, form, reg, open>> /\ UNCHANGED connection

\* A client reads a list, one page after another, from the first.
ReadPage(list) ==
    /\ open /\ call = Nothing /\ CheckInitialized(ListMethods[list])
    /\ walk.at = "walking" => walk.list = list
    /\ \E cursor \in {IF walk.at = "walking" THEN walk.cursor ELSE NoCursor} :
       \E answer \in {Listed(list, [params |-> [given |-> "ok", cursor |-> cursor]])} :
         /\ answer.code # ToJsonRpcError(Error("MethodNotFound")).code
         /\ walk' =
              IF answer.code # 0 THEN [walk EXCEPT !.at = "refused"]
              ELSE [at     |-> IF answer.body.page.next = NoCursor THEN "done" ELSE "walking",
                    list   |-> list, cursor |-> answer.body.page.next,
                    seen   |-> ToSet(answer.body.page.items)
                               \cup IF walk.at = "walking" THEN walk.seen ELSE {},
                    start  |-> IF walk.at = "walking" THEN walk.start ELSE ToSet(ItemsOf(list)),
                    shrunk |-> walk.at = "walking" /\ walk.shrunk,
                    pages  |-> IF walk.at = "walking" THEN walk.pages + 1 ELSE 1]
    /\ last' = Nothing /\ out' = Nothing
    /\ UNCHANGED <<config, form, reg, open, session, tasks, made, workers, call, declared, told>>

-----------------------------------------------------------------------------
(* What a running tool does *)

Envs == {w.env : w \in workers} \cup IF call = Nothing THEN {} ELSE {call.env}

\* The params of a message: whether there are any and they are an object, what
\* their _meta is, and the task it names, 0 for none.
EmptyObject == [given |-> "object", meta |-> Missing, task |-> 0]

\* A message without params is left without.
TagWithTask_NoParams(env, params) ==
    IF env.by = 0 \/ params.given # "object" \/ params.meta = Odd THEN params
    ELSE [params EXCEPT !.meta = "object", !.task = env.by]

\* tag_with_task: outside a task the identity; inside one, params and a _meta
\* that are missing are made, and those that are no object are left as they are.
TagWithTask(env, params) ==
    LET object == IF params.given = Missing THEN EmptyObject ELSE params
    IN  IF env.by = 0 THEN params
        ELSE IF object.given # "object" \/ object.meta = Odd THEN object
        ELSE [object EXCEPT !.meta = "object", !.task = env.by]

\* What send_notification and send_request_with_timeout write.
Writes(env, kind, params, said) ==
    /\ out' = [kind |-> kind, by |-> env.by, params |-> TagWithTask(env, params),
               told |-> env.told, said |-> said]
    /\ last' = Nothing
    /\ UNCHANGED <<config, form, reg, open>> /\ UNCHANGED connection

\* log_data: to the client above its threshold if the write succeeds, and to
\* stderr as StderrLogging says.
Log(env, level, writes) ==
    \E delivered \in {level >= env.level /\ writes} :
       Writes(env, "log", EmptyObject,
              [level |-> level, delivered |-> delivered,
               stderr |-> CASE config.stderr = "never"    -> FALSE
                            [] config.stderr = "fallback" -> ~delivered
                            [] config.stderr = "always"   -> TRUE])

\* report_progress: nothing without the client's own token.
Progress(env) == env.token # Absent /\ Writes(env, "progress", EmptyObject, Nothing)

\* send_request_with_timeout: refused where nobody would read the answer.
Asks(env, kind, params, said) == env.mode # "forbidden" /\ Writes(env, kind, params, said)

\* A tool's own message, of any method and with whatever params it likes; a
\* request's are not optional.
SendNotification(env, params) == Writes(env, "notification", params, Nothing)
SendRequest(env, params)      == params.given # Missing /\ Asks(env, "request", params, Nothing)

\* One call of the form builder.
BuildForm(c) ==
    /\ form' = SchemaCall(form, c)
    /\ last' = Nothing /\ out' = Nothing
    /\ UNCHANGED <<config, reg, open>> /\ UNCHANGED connection

Elicit(env, p) ==
    /\ SupportsElicitation(env.caps, ResolvedMode(p)) /\ ElicitValid(p)
    /\ Asks(env, "elicitation/create", EmptyObject, p)

NotifyElicitationComplete(env) == Writes(env, "elicitation/complete", EmptyObject, Nothing)

ListRoots(env) == SupportsRoots(env.caps) /\ Asks(env, "roots/list", EmptyObject, Nothing)

CreateMessage(env, p) ==
    /\ SupportsSampling(env.caps)
    /\ p.tools # {} => SupportsSamplingTools(env.caps)
    /\ WantsContext(p) => SupportsSamplingContext(env.caps)
    /\ SamplingValid(p.messages)
    /\ Asks(env, "sampling/createMessage", EmptyObject, p)

-----------------------------------------------------------------------------
Init ==
    /\ config \in Configs
    /\ reg = [tools |-> {}, resources |-> {}, templates |-> {}, prompts |-> {}]
    /\ open = FALSE /\ made = 0 /\ form = EmptyForm
    /\ session = FreshSession /\ told = FreshTold
    /\ tasks = <<>> /\ workers = {} /\ call = Nothing
    /\ declared = Nothing /\ walk = NoWalk
    /\ last = Nothing /\ out = Nothing

Next ==
    \/ \E tool \in config.offers.tools : AddTool(tool)
    \/ \E list \in {"resources", "templates", "prompts"} :
         \E item \in config.offers[list] : AddItem(list, item)
    \/ Serve
    \/ \E req \in config.requests : Handle(req)
    \/ \E text \in config.texts : Hear(text)
    \/ \E list \in config.walks : ReadPage(list)
    \/ \E run \in config.runs : CallReturns(run)
    \/ \E w \in workers, run \in config.runs : WorkerReturns(w, run)
    \/ \E i \in 1..MaxTasks : Expire(i)
    \/ \E env \in Envs :
         \/ \E level \in config.logs, writes \in BOOLEAN : Log(env, level, writes)
         \/ Progress(env)
         \/ ListRoots(env)
         \/ config.forms # {} /\ NotifyElicitationComplete(env)
         \/ \E c \in config.calls : BuildForm(c)
         \/ \E p \in config.forms : Elicit(env, Carrying(p, form))
         \/ \E p \in config.drafts : CreateMessage(env, p)
         \/ \E p \in config.raws : SendNotification(env, p) \/ SendRequest(env, p)

Spec == Init /\ [][Next]_vars

-----------------------------------------------------------------------------
(* Properties *)

\* A request whose id can be read is answered under that id however broken the
\* rest of it is, and the id of a message without a method, which is one of the
\* server's own, is never answered to (JsonRpcMessage::from_value, error_id).
TextAnswered ==
    last.kind = "text" /\ last.text.json = "object" =>
        /\ last.text.method # Missing /\ last.text.id \in RequestIds => last.reply = last.text.id
        /\ last.text.method = Missing => last.reply \in {Missing, Null}

\* tasks/result names its task unless the error it returns has data there is no
\* room in (handle_task_result, with_related_task_data).
ResultNamed(req, answer) ==
    req.method = "tasks/result" /\ answer.body.kind = "result" /\ answer.body.result.data # Odd
        => answer.body.task = req.params.id

\* A message a task's tool has written, other than the worker's own status.
OfTask == out.kind \notin {"nothing", "status"} /\ out.by # 0

\* An answer can be put with the request it answers and a result with its task;
\* and a message written inside a task names that task, whatever task its params
\* named before and though it had none, unless its params or their _meta are
\* something other than an object (error_id, handle_task_result, tag_with_task).
Attributable ==
    /\ TextAnswered
    /\ last.kind = "request" => ResultNamed(last.req, last.answer)
    /\ OfTask /\ out.params.given # Odd /\ out.params.meta # Odd => out.params.task = out.by

\* What tag_with_task quotes: every request and notification related to a task
\* MUST name it.  It fails for a tool's own message whose params, or their _meta,
\* are no object, which tag_with_task leaves as it is.
AlwaysTagged == OfTask => out.params.task = out.by

\* What a client reads off an answer: refused as no method of the server's, by
\* the server itself (a tool may raise the same error).
Unknown(answer) ==
    answer.code = ToJsonRpcError(Error("MethodNotFound")).code /\ answer.body.kind = "nothing"

\* A tool runs as a task, or not, as tools/list shows it.
RunsAsListed(req, answer, has) ==
    req.method = "tools/call" /\ req.params.given = "ok" =>
        \A e \in reg.tools : e.name = req.params.name =>
            CASE ProtocolTool(e).execution = "required" ->
                    answer.body.kind = "result" => ArgumentsFail(e, req.params)
              [] ProtocolTool(e).execution = "optional" -> ~Unknown(answer)
              [] OTHER -> /\ answer.body.kind # "task"
                          /\ Unknown(answer) => req.params.task /\ "tasks" \in has

\* An answer is what the declared capabilities have led to expect.
AsDeclared(req, answer, has) ==
    /\ req.method \in {"tasks/get", "tasks/result"} => (Unknown(answer) <=> "tasks" \notin has)
    /\ req.method = "tasks/cancel" => (Unknown(answer) <=> "tasks.cancel" \notin has)
    /\ req.method = "tasks/list" => (Unknown(answer) <=> "tasks.list" \notin has)
    /\ req.method = "prompts/get" /\ "prompts" \notin has => answer.code # 0
    /\ req.method = "resources/read" /\ "resources" \notin has => answer.code # 0
    /\ req.method = "tools/call" /\ "tools" \notin has => answer.code # 0
    /\ answer.body.kind = "task" => "tasks" \in has

\* What initialize declared and what tools/list shows is what the methods then
\* do: no method of an undeclared capability does anything, none of a declared
\* one is "method not found", and a tool runs as a task, or not, as listed
\* (handle_initialize against dispatch_request and each handler).
Honoured ==
    declared # Nothing /\ last.kind = "request" =>
        /\ AsDeclared(last.req, last.answer, declared.caps)
        /\ RunsAsListed(last.req, last.answer, declared.caps)

\* tasks/result returns what the call would have returned without the task: the
\* same error code, or a result with the same isError and structured content
\* (start_tool_task's own classification against handle_call_tool's).
TaskAgrees ==
    \A i \in DOMAIN tasks :
        tasks[i].run.how \notin {"none", "spawn"} =>
            tasks[i].outcome = CallOutcome(tasks[i].entry, tasks[i].run)

\* What the specification lets a server ask of a client that declared caps.
MayAsk(caps, kind, p) ==
    CASE kind = "roots/list" -> caps.roots # Absent
      [] kind = "elicitation/create" ->
            /\ caps.elicitation # Absent
            /\ (IF p.schema = Absent THEN {"url"} ELSE {"form"})
                 \subseteq (IF caps.elicitation = {} THEN {"form"} ELSE caps.elicitation)
      [] kind = "sampling/createMessage" ->
            /\ caps.sampling # Absent
            /\ p.tools # {} => "tools" \in caps.sampling
            /\ p.context \notin {Absent, "none"} => "context" \in caps.sampling

\* Whatever a tool asks of the client through elicit, list_roots or
\* create_message, on the loop or in a worker that outlived a second handshake,
\* is something the client had declared when the tool was called.  A request the
\* tool composes for send_request itself is not looked at.
Permitted ==
    out.kind \in {"elicitation/create", "roots/list", "sampling/createMessage"} =>
        MayAsk(out.told.caps, out.kind, out.said)

\* The turns with a block of a kind, and the ids in one.
TurnsWith(m, kind) == {i \in DOMAIN m : \E b \in DOMAIN m[i].blocks : m[i].blocks[b].kind = kind}
IdsIn(turn)   == {turn.blocks[b].id : b \in DOMAIN turn.blocks}

\* A conversation sent for sampling is one in which every assistant turn with
\* tool uses is followed by a user turn of nothing but their results
\* (CreateMessageParams::validate).
TurnsAnswered ==
    out.kind = "sampling/createMessage" =>
        LET m == out.said.messages
        IN  /\ m # <<>>
            /\ \A i \in TurnsWith(m, "tool_use") :
                  /\ m[i].role = "assistant"
                  /\ i + 1 \in TurnsWith(m, "tool_result")
                  /\ IdsIn(m[i]) \ {Absent} = IdsIn(m[i + 1])
            /\ \A i \in TurnsWith(m, "tool_result") :
                  m[i].role = "user" /\ i \notin TurnsWith(m, "tool_use") /\ Absent \notin IdsIn(m[i])

\* A log record is never below the level the client had set when the tool was
\* called, and with StderrLogging::Fallback is in exactly one of the two places
\* (ToolEnv::log_data, "no log ever vanishes silently").
LogKept ==
    out.kind = "log" =>
        /\ out.said.delivered => out.said.level >= out.told.level
        /\ config.stderr = "fallback" => (out.said.delivered # out.said.stderr)

\* A form that reaches the client asks only for fields it shows, each once, and
\* never for none of them, whatever calls have built it (ElicitSchema::required,
\* build: "a typo cannot produce a schema demanding a field the client never sees").
FormsShown ==
    out.kind = "elicitation/create" /\ out.said.schema # Absent =>
        LET asked == out.said.schema.required
        IN  asked # Absent =>
                /\ asked # <<>>
                /\ \A i \in DOMAIN asked : asked[i] \in DOMAIN out.said.schema.properties
                /\ \A i, j \in DOMAIN asked : asked[i] = asked[j] => i = j

\* Whatever a tool says to the client through elicit, list_roots, create_message
\* and log is something this client, in the state it was in when the tool was
\* called, can be told.
SpokenSoundly == Permitted /\ TurnsAnswered /\ FormsShown /\ LogKept

\* Following cursors to the end shows every item that was there throughout,
\* unless a task expired meanwhile; a cursor is only refused when one did; and
\* the end comes after no more pages than there are items (paginate,
\* handle_task_list).
WalkCovers ==
    /\ walk.at = "done" /\ ~walk.shrunk => walk.start \subseteq walk.seen
    /\ walk.at = "refused" => walk.shrunk
    /\ walk.pages <= Cardinality(walk.start) + MaxTasks + 1
=============================================================================
