----------------------------- MODULE MCDispatch -----------------------------
(* Servers that each meet one kind of traffic, with the other kinds left out. *)
EXTENDS Dispatch, Timestamps, TLC

Plain == Tool(1, "fine")
Sync  == [Tool(2, "fine") EXCEPT !.support = "optional", !.output = "strict"]
Must  == [Tool(3, "broken") EXCEPT !.support = "required", !.output = "broken"]

Ask(method, params) == [id |-> "7", method |-> method, params |-> params]
NoParams  == {[given |-> Missing, cursor |-> NoCursor], [given |-> Odd, cursor |-> NoCursor]}
With(params) == [given |-> "ok"] @@ params
Call(name, task) == Ask("tools/call", With([name |-> name, task |-> task, args |-> "fit", token |-> "ok"]))
Hello(version, caps) == Ask("initialize", With([version |-> version, caps |-> caps]))
Level(n) == Ask("logging/setLevel", With([level |-> n]))

Caps(e, s, r) == [elicitation |-> e, sampling |-> s, roots |-> r]

Base ==
    EnableTasks(ServerNew([ServerConfig EXCEPT !.pageSize = 1]), [TaskConfig EXCEPT !.maxConcurrent = 1])
    @@
    [pump |-> TRUE, budget |-> 1,
     offers |-> [tools |-> {Plain, Sync, Must}, resources |-> {}, templates |-> {}, prompts |-> {}],
     requests |-> {}, texts |-> {}, walks |-> {}, runs |-> {}, logs |-> {}, forms |-> {},
     calls |-> {}, drafts |-> {}, raws |-> {}]

\* Every method, good and bad parameters, with and without tasks and a handshake.
Methods ==
    {Ask(m, p) : m \in {"initialize", "ping", "unknown", "tools/list", "tools/call", "resources/list",
                        "resources/read", "resources/templates/list", "prompts/list", "prompts/get",
                        "logging/setLevel", "tasks/get", "tasks/result", "tasks/list",
                        "tasks/cancel"}, p \in NoParams} \cup
    {Ask(m, With([name |-> n, args |-> a])) : m \in {"resources/read", "prompts/get"},
                                              n \in {1, 2}, a \in {"fit", "unfit"}} \cup
    {Ask(m, With([id |-> i])) : m \in {"tasks/get", "tasks/result", "tasks/cancel"}, i \in {1, 2}} \cup
    {Ask(m, With([cursor |-> c])) : m \in {"tools/list", "tasks/list"}, c \in {<<1, 0>>, <<10>>, <<>>}} \cup
    {Ask("tools/call", With([name |-> n, task |-> t, args |-> a, token |-> Missing])) :
        n \in {1, 2, 3, 4}, t \in BOOLEAN, a \in {"fit", "unfit"}} \cup
    {Hello(v, Caps({}, Absent, Absent)) : v \in {"2025-03-26", "future"}} \cup {Level(9)}
Tasking ==
    {r \in Methods : r.method \in {"initialize", "tools/call", "tasks/get", "tasks/result", "tasks/list",
                                   "tasks/cancel"}}
Unfit ==
    {[Plain EXCEPT !.name = 4, !.length = n, !.plain = p] : n \in {0, 129}, p \in {TRUE}}
    \cup {[Plain EXCEPT !.name = 4, !.plain = FALSE]}
AllMethods ==
    {[SetTaskContext(Base, c) EXCEPT !.tasks = t, !.requests = Tasking,
                  !.runs = {[how |-> "ok", structured |-> "fits"]}] :
        t \in BOOLEAN, c \in {"single", "owner", "anonymous"}} \cup
    {[Base EXCEPT !.tasks = FALSE, !.require = r, !.versions = v, 
                  !.requests = {q \in Methods : q.method = "initialize"} \cup (Methods \ Tasking),
                  !.offers = [tools |-> Unfit, resources |-> {1}, templates |-> {2}, prompts |-> {1}]] :
        r \in BOOLEAN, v \in {SupportedProtocolVersions, <<>>}} \cup
    {[Base EXCEPT !.require = TRUE, !.validate = FALSE, !.requests = Methods, !.offers.tools = {Sync}]}

\* Every way a tool ends, called both ways.
Runs ==
    {[how |-> h, structured |-> "none"] : h \in {"ToolError", "InvalidParams", "panic", "Timeout",
                                                "ResourceNotFound", "TransportClosed", "Passthrough"}} \cup
    {[how |-> h, structured |-> s] : h \in {"ok", "iserror"}, s \in {"none", "fits", "odd"}}
Outcomes ==
    [Base EXCEPT !.requests = {Call(n, t) : n \in {2, 3}, t \in BOOLEAN} \cup
                              {Ask("tasks/result", With([id |-> 1]))},
                 !.runs = Runs]

\* Handshakes and levels that change while workers run.
Asking ==
    {[Base EXCEPT !.pump = p, !.require = r, !.stderr = s, !.offers.tools = {Sync},
                  !.requests = {Call(2, TRUE), Call(2, FALSE), Level(4), Level(1),
                                Hello("2025-03-26", Caps({}, Absent, {})),
                                Hello("2025-11-25", Caps({"url"}, {"context"}, Absent))},
                  !.runs = {[how |-> "ok", structured |-> "fits"]},
                  !.logs = {1, 3, 8},
                  !.forms = {ElicitForm(EmptyForm), ElicitUrl("ok", "e")},
                  !.drafts = {IncludeContext(WithTools(CreateMessageParams(<<Turn("user", <<Text>>)>>), t), c) :
                                t \in {{}, {"search"}}, c \in {Absent, "none", "thisServer"}}] :
        p \in BOOLEAN, r \in BOOLEAN, s \in {"never", "fallback", "always"}}

\* Every way to fill in an elicitation, and every conversation of up to three turns.
Forms ==
    [mode : {Absent, "form", "url"}, blank : BOOLEAN, schema : {Absent, EmptyForm},
     url : {Absent, "ok", "bad"}, id : {Absent, "e"}]
Turns ==
    {Turn(r, b) : r \in {"user", "assistant"},
                  b \in {<<Text>>, <<ToolUse(1)>>, <<Text, ToolUse(1), ToolUse(2)>>, <<ToolResult(1)>>,
                         <<ToolResult(1), ToolResult(2)>>, <<ToolResult(1), Text>>}}
Drafts == UNION {[1..n -> Turns] : n \in 0..3}
Composing ==
    [Base EXCEPT !.tasks = FALSE, !.offers.tools = {Plain}, !.forms = Forms,
                 !.requests = {Call(1, FALSE), Hello("2025-11-25", Caps({"form", "url"}, {"tools"}, Absent))},
                 !.drafts = {WithTools(CreateMessageParams(d), {"search"}) : d \in Drafts}]

\* A form of two fields, whatever calls have built it.
Calls ==
    {[op |-> "add", name |-> n, bound |-> b] : n \in {"a", "b"}, b \in {Absent, "finite", "nan"}} \cup
    {[op |-> o, name |-> n, bound |-> Absent] : o \in {"required", "annotate"}, n \in {"a", "b"}}
Building ==
    [Base EXCEPT !.tasks = FALSE, !.offers.tools = {Plain}, !.calls = Calls,
                 !.forms = {ElicitForm(EmptyForm)},
                 !.requests = {Call(1, FALSE), Hello("2025-11-25", Caps({}, Absent, Absent))}]

\* Messages a tool composes itself, from a task and from the loop.
Composed ==
    {[given |-> g, meta |-> Missing, task |-> 0] : g \in {Missing, "object", Odd}} \cup
    {[given |-> "object", meta |-> Odd, task |-> 0]} \cup
    {[given |-> "object", meta |-> "object", task |-> n] : n \in {0, 1, 9}}
Sending ==
    {[Base EXCEPT !.pump = p, !.offers.tools = {Sync}, !.raws = Composed, !.budget = 2, !.maxConcurrent = 2,
                  !.requests = {Call(2, TRUE), Call(2, FALSE)},
                  !.runs = {[how |-> "ok", structured |-> "fits"]}] : p \in BOOLEAN}

\* Everything a wire can carry.
Wire == [Base EXCEPT !.texts = Texts, !.offers.tools = {}]

\* Lists read page by page while tasks come and go.
Walking ==
    {[Base EXCEPT !.pageSize = n, !.requests = {Call(2, TRUE)}, !.maxConcurrent = 3, !.budget = 3,
                  !.offers.tools = {Sync, Must},
                  !.walks = {"tools", "tasks"}, !.runs = {[how |-> "ok", structured |-> "fits"]}] :
        n \in {0, 1, 2}} \cup
    {[Base EXCEPT !.pageSize = n, !.walks = {"resources", "templates", "prompts"},
                  !.offers = [tools |-> {}, resources |-> {1, 2, 3}, templates |-> {1, 2},
                              prompts |-> {1}]] : n \in {0, 2}}

SmallConfigs == AllMethods \cup {Outcomes, Composing, Building, Wire} \cup Asking \cup Sending \cup Walking
=============================================================================
