--------------------------- MODULE DispatchProofs ---------------------------
(***************************************************************************)
(* What TLAPS proves of the dispatcher, for every registry, configuration, *)
(* client, request text and task ceiling: answers can be put with their    *)
(* requests, the methods do what initialize and tools/list have declared,  *)
(* a task ends as its call would have, and a tool tells the client only    *)
(* what this client can be told.                                           *)
(*                                                                         *)
(* None of the four is inductive alone.  What a client is told rests on    *)
(* Knows: the environment of a running tool, on the loop or in a worker,   *)
(* holds the capabilities and the level of the handshake it was made       *)
(* under.  What a form asks for rests on FormSound, kept by every call of  *)
(* the builder.  How a task ends rests on Filed: its worker still runs the *)
(* tool it was created for.  The answers rest on Answerable: the registry  *)
(* is as it was when the capabilities were declared, and a call on the     *)
(* loop is one that was not to be a task.                                  *)
(***************************************************************************)
EXTENDS Dispatch, SequenceTheorems, TLAPS

\* What a handler may touch.
LEMMA HandleEffects ==
    ASSUME NEW req, Handle(req)
    PROVE  /\ open /\ call = Nothing /\ out' = Nothing /\ UNCHANGED <<config, reg, open>>
           /\ \/ UNCHANGED connection
              \/ HandleInitialize(req) \/ HandleSetLevel(req)
              \/ HandleCallTool(req) \/ HandleTaskCancel(req)
    BY DEF Handle, HandleList, HandleRead, HandleTaskGet, HandleTaskResult

\* A tool that runs writes, and nothing else.
LEMMA ToolWrites ==
    ASSUME NEW env, NEW p, NEW level, NEW writes,
           \/ Log(env, level, writes) \/ Progress(env) \/ ListRoots(env)
           \/ NotifyElicitationComplete(env) \/ BuildForm(p) \/ Elicit(env, p) \/ CreateMessage(env, p)
           \/ SendNotification(env, p) \/ SendRequest(env, p)
    PROVE  last' = Nothing /\ UNCHANGED <<config, reg, open>> /\ UNCHANGED connection
    BY DEF Log, Progress, ListRoots, NotifyElicitationComplete, BuildForm, Elicit, CreateMessage,
           SendNotification, SendRequest, Asks, Writes

LEMMA SeqWidens == ASSUME NEW S, NEW T, NEW s \in Seq(S), S \subseteq T PROVE s \in Seq(T)
<1>1. Len(s) \in Nat /\ s \in [1..Len(s) -> S]
    OBVIOUS
<1>2. s \in [1..Len(s) -> T]
    BY <1>1
<1> QED
    BY <1>1, <1>2, SeqDef

-----------------------------------------------------------------------------
(* What tools say *)

SessionShape ==
    /\ session = [initialized |-> session.initialized, version |-> session.version,
                  level |-> session.level, caps |-> session.caps]
    /\ told = [caps |-> told.caps, level |-> told.level]

CapsTyped(caps) == caps.elicitation # Absent => caps.elicitation \subseteq {"form", "url"}

\* The session is what the client last had accepted.
Shared == session.level = told.level /\ session.caps = told.caps /\ CapsTyped(told.caps)

\* A tool's environment is what the client had accepted when the tool was called.
EnvSound(env) ==
    /\ env.level = env.told.level
    /\ env.mode # "forbidden" => env.caps = env.told.caps
    /\ CapsTyped(env.told.caps)

EnvsSound == \A env \in Envs : EnvSound(env)

Knows == config \in Configs /\ SessionShape /\ Shared /\ EnvsSound

LEMMA InitKnows == Init => Knows
<1> SUFFICES ASSUME Init PROVE Knows
    OBVIOUS
<1>1. /\ session = FreshSession /\ told = FreshTold /\ workers = {} /\ call = Nothing
      /\ config \in Configs
    BY DEF Init
<1>2. SessionShape /\ Shared
    BY <1>1 DEF FreshSession, FreshTold, SessionShape, Shared, CapsTyped, NothingDeclared
<1> QED
    BY <1>1, <1>2 DEF Knows, EnvsSound, Envs

LEMMA EnvsMade ==
    ASSUME Shared, NEW id, NEW token
    PROVE  EnvSound(LoopEnv(token)) /\ EnvSound(WorkerEnv(id, token))
    BY DEF Shared, EnvSound, LoopEnv, WorkerEnv

LEMMA StepKeepsKnows == ASSUME DispatchAssumption, Knows, [Next]_vars PROVE Knows'
<1>1. ASSUME UNCHANGED <<config, session, told, workers, call>> PROVE Knows'
    BY <1>1 DEF Knows, SessionShape, Shared, EnvsSound, Envs
<1>2. CASE UNCHANGED vars
    BY <1>1, <1>2 DEF vars
<1>3. ASSUME NEW tool, AddTool(tool) PROVE Knows'
    BY <1>1, <1>3 DEF AddTool, Registers, connection
<1>4. ASSUME NEW list, NEW item, AddItem(list, item) PROVE Knows'
    BY <1>1, <1>4 DEF AddItem, Registers, connection
<1>5. CASE Serve
  <2>1. /\ session' = FreshSession /\ told' = FreshTold /\ workers' = {} /\ call' = Nothing
        /\ config' = config
    BY <1>5 DEF Serve
  <2>2. SessionShape' /\ Shared'
    BY <2>1 DEF FreshSession, FreshTold, SessionShape, Shared, CapsTyped, NothingDeclared
  <2> QED
    BY <2>1, <2>2 DEF Knows, EnvsSound, Envs
<1>6. ASSUME NEW req \in config.requests, Handle(req) PROVE Knows'
  <2>1. config' = config
    BY <1>6, HandleEffects
  <2>2. CASE UNCHANGED connection
    BY <2>1, <2>2, <1>1 DEF connection
  <2>3. CASE HandleInitialize(req)
    <3>1. CASE UNCHANGED connection
      BY <3>1, <2>2
    <3>2. CASE ~(UNCHANGED connection)
      <4>1. PICK p \in {IF ParamsRead(req) THEN req.params ELSE Sparse} :
               /\ session' = [session EXCEPT !.initialized = TRUE, !.caps = p.caps,
                                             !.version = Negotiate(p.version)]
               /\ told' = [told EXCEPT !.caps = p.caps]
        BY <2>3, <3>2 DEF HandleInitialize
      <4>2. UNCHANGED <<workers, call>>
        BY <2>3, <3>2 DEF HandleInitialize
      <4>3. CapsTyped(p.caps)
        <5>1. CASE ParamsRead(req)
          <6>1. req.method = "initialize" /\ req.params.given = "ok" /\ p = req.params
            BY <5>1, <4>1, <2>3 DEF HandleInitialize, ParamsRead
          <6>2. req.params.caps.elicitation # Absent
                   => req.params.caps.elicitation \subseteq {"form", "url"}
            BY <6>1, <1>6 DEF Knows, DispatchAssumption
          <6> QED
            BY <6>1, <6>2 DEF CapsTyped
        <5>2. CASE ~ParamsRead(req)
          <6>1. p = Sparse
            BY <5>2, <4>1
          <6>2. Sparse.caps.elicitation = Absent
            BY DEF Sparse, NothingDeclared
          <6> QED
            BY <6>1, <6>2 DEF CapsTyped
        <5> QED
          BY <5>1, <5>2
      <4>4. /\ session' = [initialized |-> TRUE, version |-> Negotiate(p.version),
                           level |-> session.level, caps |-> p.caps]
            /\ told' = [caps |-> p.caps, level |-> told.level]
        BY <4>1 DEF Knows, SessionShape
      <4>5. SessionShape' /\ Shared'
        BY <4>3, <4>4 DEF Knows, SessionShape, Shared
      <4> QED
        BY <4>2, <4>5, <2>1 DEF Knows, EnvsSound, Envs
    <3> QED
      BY <3>1, <3>2
  <2>4. CASE HandleSetLevel(req)
    <3>1. CASE UNCHANGED connection
      BY <3>1, <2>2
    <3>2. CASE ~(UNCHANGED connection)
      <4>1. /\ session' = [session EXCEPT !.level = req.params.level]
            /\ told' = [told EXCEPT !.level = req.params.level]
            /\ UNCHANGED <<workers, call>>
        BY <2>4, <3>2 DEF HandleSetLevel
      <4>2. /\ session' = [initialized |-> session.initialized, version |-> session.version,
                           level |-> req.params.level, caps |-> session.caps]
            /\ told' = [caps |-> told.caps, level |-> req.params.level]
        BY <4>1 DEF Knows, SessionShape
      <4>3. SessionShape' /\ Shared'
        BY <4>2 DEF Knows, SessionShape, Shared
      <4> QED
        BY <4>1, <4>3, <2>1 DEF Knows, EnvsSound, Envs
    <3> QED
      BY <3>1, <3>2
  <2>5. CASE HandleCallTool(req)
    <3>1. CASE UNCHANGED connection
      BY <3>1, <2>2
    <3>2. ASSUME NEW e, StartToolTask(req, e), ~(UNCHANGED connection) PROVE Knows'
      <4>1. /\ UNCHANGED <<session, call, told>>
            /\ \/ UNCHANGED workers
               \/ workers' = workers \cup {[id |-> made + 1, entry |-> e,
                                            env |-> WorkerEnv(made + 1, ProgressToken(req.params))]}
        BY <3>2 DEF StartToolTask
      <4>2. Envs' \subseteq Envs \cup {WorkerEnv(made + 1, ProgressToken(req.params))}
        BY <4>1 DEF Envs
      <4>3. EnvSound(WorkerEnv(made + 1, ProgressToken(req.params)))
        BY EnvsMade DEF Knows
      <4>4. EnvsSound'
        BY <4>2, <4>3 DEF Knows, EnvsSound
      <4> QED
        BY <4>1, <4>4, <2>1 DEF Knows, SessionShape, Shared
    <3>3. ASSUME NEW e, ~(UNCHANGED connection),
                 call' = [kind |-> "call", req |-> req, entry |-> e, env |-> LoopEnv(ProgressToken(req.params))],
                 UNCHANGED <<session, tasks, made, workers, declared, walk, told>>
          PROVE  Knows'
      <4>1. Envs' \subseteq Envs \cup {LoopEnv(ProgressToken(req.params))}
        BY <3>3 DEF Envs
      <4>2. EnvSound(LoopEnv(ProgressToken(req.params)))
        BY EnvsMade DEF Knows
      <4>3. EnvsSound'
        BY <4>1, <4>2 DEF Knows, EnvsSound
      <4> QED
        BY <4>3, <3>3, <2>1 DEF Knows, SessionShape, Shared
    <3> QED
      BY <2>5, <3>1, <3>2, <3>3 DEF HandleCallTool
  <2>6. CASE HandleTaskCancel(req)
    BY <2>1, <2>2, <2>6, <1>1 DEF HandleTaskCancel
  <2> QED
    BY <1>6, <2>2, <2>3, <2>4, <2>5, <2>6, HandleEffects
<1>7. ASSUME NEW text, Hear(text) PROVE Knows'
    BY <1>1, <1>7 DEF Hear, connection
<1>8. ASSUME NEW list, ReadPage(list) PROVE Knows'
    BY <1>1, <1>8 DEF ReadPage
<1>9. ASSUME NEW run, CallReturns(run) PROVE Knows'
    BY <1>9 DEF CallReturns, Knows, SessionShape, Shared, EnvsSound, Envs
<1>10. ASSUME NEW w, NEW run, WorkerReturns(w, run) PROVE Knows'
  <2>1. UNCHANGED <<config, session, told, call>> /\ workers' \subseteq workers
    BY <1>10 DEF WorkerReturns
  <2> QED
    BY <2>1 DEF Knows, SessionShape, Shared, EnvsSound, Envs
<1>11. ASSUME NEW i, Expire(i) PROVE Knows'
    BY <1>1, <1>11 DEF Expire
<1>12. ASSUME NEW env, NEW p, NEW level, NEW writes,
           \/ Log(env, level, writes) \/ Progress(env) \/ ListRoots(env)
           \/ NotifyElicitationComplete(env) \/ BuildForm(p) \/ Elicit(env, p) \/ CreateMessage(env, p)
           \/ SendNotification(env, p) \/ SendRequest(env, p)
       PROVE Knows'
    BY <1>1, <1>12, ToolWrites DEF connection
<1> QED
    BY <1>2, <1>3, <1>4, <1>5, <1>6, <1>7, <1>8, <1>9, <1>10, <1>11, <1>12 DEF Next

\* What is asked is allowed by what the environment holds.
LEMMA ElicitAllowed ==
    ASSUME NEW env, NEW p, CapsTyped(env.told.caps), env.caps = env.told.caps,
           p.mode \in {Absent, "form", "url"},
           SupportsElicitation(env.caps, ResolvedMode(p)), ElicitValid(p)
    PROVE  MayAsk(env.told.caps, "elicitation/create", p)
<1> DEFINE has == env.told.caps.elicitation
<1>1. has # Absent /\ has \subseteq {"form", "url"}
    BY DEF SupportsElicitation, CapsTyped
<1>2. CASE ResolvedMode(p) = "form"
  <2>1. p.schema # Absent /\ ("form" \in has \/ "url" \notin has)
    BY <1>2 DEF ElicitValid, SupportsElicitation
  <2>2. has = {} \/ "form" \in has
    BY <2>1, <1>1
  <2> QED
    BY <1>1, <2>1, <2>2 DEF MayAsk
<1>3. CASE ResolvedMode(p) = "url"
  <2>1. p.schema = Absent /\ "url" \in has
    BY <1>3 DEF ElicitValid, SupportsElicitation
  <2> QED
    BY <1>1, <2>1 DEF MayAsk
<1> QED
    BY <1>2, <1>3 DEF ResolvedMode

\* A conversation that validates is answered turn by turn.
LEMMA ValidTurns ==
    ASSUME NEW m, SamplingValid(m),
           \A i \in DOMAIN m : \A b \in DOMAIN m[i].blocks : Block(m[i].blocks[b]),
           DOMAIN m = 1..Len(m), Len(m) \in Nat
    PROVE  /\ m # <<>>
           /\ \A i \in TurnsWith(m, "tool_use") :
                 /\ m[i].role = "assistant"
                 /\ i + 1 \in TurnsWith(m, "tool_result")
                 /\ IdsIn(m[i]) \ {Absent} = IdsIn(m[i + 1])
           /\ \A i \in TurnsWith(m, "tool_result") :
                 m[i].role = "user" /\ i \notin TurnsWith(m, "tool_use") /\ Absent \notin IdsIn(m[i])
<1>1. \A i \in DOMAIN m : /\ i \in TurnsWith(m, "tool_use") <=> Uses(m[i]) # {}
                          /\ i \in TurnsWith(m, "tool_result") <=> Answered(m[i]) # {}
    BY DEF TurnsWith, Uses, Answered, IdsOf
<1>2. ASSUME NEW i \in TurnsWith(m, "tool_result")
      PROVE  /\ m[i].role = "user" /\ \A b \in DOMAIN m[i].blocks : m[i].blocks[b].kind = "tool_result"
             /\ i \notin TurnsWith(m, "tool_use") /\ Absent \notin IdsIn(m[i])
             /\ IdsIn(m[i]) = Answered(m[i])
  <2>1. i \in DOMAIN m /\ Answered(m[i]) # {}
    BY <1>1 DEF TurnsWith
  <2>2. /\ m[i].role = "user" /\ \A b \in DOMAIN m[i].blocks : m[i].blocks[b].kind = "tool_result"
    BY <2>1 DEF SamplingValid, TurnValid
  <2>3. i \notin TurnsWith(m, "tool_use")
    BY <2>2 DEF TurnsWith
  <2>4. Absent \notin IdsIn(m[i])
    BY <2>1, <2>2 DEF IdsIn, Block
  <2>5. IdsIn(m[i]) = Answered(m[i])
    BY <2>2 DEF IdsIn, Answered, IdsOf
  <2> QED
    BY <2>2, <2>3, <2>4, <2>5
<1>3. ASSUME NEW i \in TurnsWith(m, "tool_use")
      PROVE  /\ m[i].role = "assistant" /\ i + 1 \in TurnsWith(m, "tool_result")
             /\ IdsIn(m[i]) \ {Absent} = IdsIn(m[i + 1])
  <2>1. i \in DOMAIN m /\ Uses(m[i]) # {}
    BY <1>1 DEF TurnsWith
  <2>2. m[i].role = "assistant" /\ Answered(m[i]) = {}
    <3>1. m[i].role = "assistant"
      BY <2>1 DEF SamplingValid, TurnValid
    <3>2. i \notin TurnsWith(m, "tool_result")
      BY <3>1, <1>2
    <3> QED
      BY <3>1, <3>2, <2>1, <1>1
  <2>3. i < Len(m) /\ Answered(m[i + 1]) = Uses(m[i])
    BY <2>1 DEF SamplingValid, UsesAnswered
  <2>4. i + 1 \in TurnsWith(m, "tool_result")
    BY <2>1, <2>3, <1>1
  <2>5. IdsIn(m[i]) \ {Absent} = Uses(m[i])
    <3>1. \A b \in DOMAIN m[i].blocks : m[i].blocks[b].kind # "tool_result"
      BY <2>2 DEF Answered, IdsOf
    <3>2. \A b \in DOMAIN m[i].blocks :
             m[i].blocks[b].kind = "tool_use" <=> m[i].blocks[b].id # Absent
      BY <3>1, <2>1 DEF Block
    <3> QED
      BY <3>2 DEF IdsIn, Uses, IdsOf
  <2> QED
    BY <2>2, <2>3, <2>4, <2>5, <1>2
<1> QED
    BY <1>2, <1>3 DEF SamplingValid

\* The form under construction: it requires only fields it has, each once.
FormSound(f) ==
    /\ f = [properties |-> f.properties, required |-> f.required]
    /\ f.required \in Seq(DOMAIN f.properties)
    /\ \A i, j \in 1..Len(f.required) : f.required[i] = f.required[j] => i = j

LEMMA CallsKeepForms ==
    ASSUME NEW f, FormSound(f), NEW c, c.op \in {"add", "required", "annotate"}
    PROVE  FormSound(SchemaCall(f, c))
<1>1. CASE c.op = "add"
  <2> DEFINE g == SchemaAdd(f, c.name, FieldBuild("number", c.bound))
  <2>1. /\ g = [properties |-> g.properties, required |-> f.required]
        /\ DOMAIN g.properties = DOMAIN f.properties \cup {c.name}
    BY DEF SchemaAdd, FormSound
  <2> HIDE DEF g
  <2>2. f.required \in Seq(DOMAIN g.properties)
    BY <2>1, SeqWidens DEF FormSound
  <2>3. FormSound(g)
    BY <2>1, <2>2 DEF FormSound
  <2> QED
    BY <1>1, <2>3 DEF SchemaCall, g
<1>2. CASE c.op = "annotate"
  <2>1. CASE c.name \in DOMAIN f.properties
    <3> DEFINE g == SchemaAnnotate(f, c.name, "title")
    <3>1. /\ g = [properties |-> g.properties, required |-> f.required]
          /\ DOMAIN g.properties = DOMAIN f.properties
      BY <2>1 DEF SchemaAnnotate, FormSound
    <3> HIDE DEF g
    <3>2. FormSound(g)
      BY <3>1 DEF FormSound
    <3> QED
      BY <1>2, <3>2 DEF SchemaCall, g
  <2>2. CASE c.name \notin DOMAIN f.properties
    BY <1>2, <2>2 DEF SchemaCall, SchemaAnnotate
  <2> QED
    BY <2>1, <2>2
<1>3. CASE c.op = "required"
  <2>1. CASE c.name \in DOMAIN f.properties /\ \A i \in DOMAIN f.required : f.required[i] # c.name
    <3> DEFINE r == Append(f.required, c.name)
    <3>1. f.required \in Seq(DOMAIN f.properties) /\ DOMAIN f.required = 1..Len(f.required)
      BY DEF FormSound
    <3>2. r \in Seq(DOMAIN f.properties)
      BY <3>1, <2>1, AppendProperties
    <3>3. /\ Len(r) = Len(f.required) + 1 /\ r[Len(r)] = c.name
          /\ \A i \in 1..Len(f.required) : r[i] = f.required[i]
      BY <3>1, <2>1
    <3> HIDE DEF r
    <3>4. \A i, j \in 1..Len(r) : r[i] = r[j] => i = j
      BY <3>1, <3>3, <2>1 DEF FormSound
    <3>5. SchemaCall(f, c) = [properties |-> f.properties, required |-> r]
      BY <1>3, <2>1 DEF SchemaCall, SchemaRequired, FormSound, r
    <3> QED
      BY <3>2, <3>4, <3>5 DEF FormSound
  <2>2. CASE ~(c.name \in DOMAIN f.properties /\ \A i \in DOMAIN f.required : f.required[i] # c.name)
    BY <1>3, <2>2 DEF SchemaCall, SchemaRequired
  <2> QED
    BY <2>1, <2>2
<1> QED
    BY <1>1, <1>2, <1>3

LEMMA BuiltForms ==
    ASSUME NEW f, FormSound(f), SchemaBuild(f).required # Absent
    PROVE  LET asked == SchemaBuild(f).required
           IN  /\ asked # <<>>
               /\ \A i \in DOMAIN asked : asked[i] \in DOMAIN SchemaBuild(f).properties
               /\ \A i, j \in DOMAIN asked : asked[i] = asked[j] => i = j
<1>1. /\ SchemaBuild(f).required = IF f.required = <<>> THEN Absent ELSE f.required
      /\ SchemaBuild(f).properties = f.properties
    BY DEF SchemaBuild, FormSound
<1> QED
    BY <1>1 DEF FormSound

LEMMA StepBuilds == ASSUME DispatchAssumption, Knows, FormSound(form), [Next]_vars PROVE FormSound(form)'
<1>1. ASSUME NEW c \in config.calls, BuildForm(c) PROVE FormSound(form)'
  <2>1. c.op \in {"add", "required", "annotate"}
    BY <1>1 DEF Knows, DispatchAssumption
  <2>2. form' = SchemaCall(form, c)
    BY <1>1 DEF BuildForm
  <2> QED
    BY <2>1, <2>2, CallsKeepForms
<1>2. ASSUME form' = form PROVE FormSound(form)'
    BY <1>2
<1> QED
    BY <1>1, <1>2
       DEF Next, vars, AddTool, AddItem, Registers, Serve, Handle, Hear, ReadPage, CallReturns, WorkerReturns,
           Expire, Log, Progress, ListRoots, NotifyElicitationComplete, Elicit, CreateMessage,
           SendNotification, SendRequest, Asks, Writes

LEMMA StepSpeaks ==
    ASSUME DispatchAssumption, Knows, FormSound(form), SpokenSoundly, [Next]_vars PROVE SpokenSoundly'
<1>1. ASSUME out'.kind \notin {"elicitation/create", "roots/list", "sampling/createMessage", "log"}
      PROVE  SpokenSoundly'
    BY <1>1 DEF SpokenSoundly, Permitted, TurnsAnswered, FormsShown, LogKept
<1>2. ASSUME out' = Nothing PROVE SpokenSoundly'
    BY <1>1, <1>2 DEF Nothing
<1>3. ASSUME UNCHANGED <<config, out>> PROVE SpokenSoundly'
    BY <1>3 DEF SpokenSoundly, Permitted, TurnsAnswered, FormsShown, LogKept
<1>4. CASE UNCHANGED vars
    BY <1>3, <1>4 DEF vars
<1>5. ASSUME NEW tool, AddTool(tool) PROVE SpokenSoundly'
    BY <1>3, <1>5 DEF AddTool, Registers
<1>6. ASSUME NEW list, NEW item, AddItem(list, item) PROVE SpokenSoundly'
    BY <1>3, <1>6 DEF AddItem, Registers
<1>7. CASE Serve
    BY <1>2, <1>7 DEF Serve
<1>8. ASSUME NEW req, Handle(req) PROVE SpokenSoundly'
    BY <1>2, <1>8, HandleEffects
<1>9. ASSUME NEW text, Hear(text) PROVE SpokenSoundly'
    BY <1>2, <1>9 DEF Hear
<1>10. ASSUME NEW list, ReadPage(list) PROVE SpokenSoundly'
    BY <1>2, <1>10 DEF ReadPage
<1>11. ASSUME NEW run, CallReturns(run) PROVE SpokenSoundly'
    BY <1>2, <1>11 DEF CallReturns
<1>12. ASSUME NEW w, NEW run, WorkerReturns(w, run) PROVE SpokenSoundly'
  <2>1. out' = Nothing \/ out' = [kind |-> "status", by |-> w.id]
    BY <1>12 DEF WorkerReturns
  <2> QED
    BY <2>1, <1>1, <1>2
<1>13. ASSUME NEW i, Expire(i) PROVE SpokenSoundly'
    BY <1>2, <1>13 DEF Expire
<1>14. ASSUME NEW env \in Envs, NEW level, NEW writes, Log(env, level, writes) PROVE SpokenSoundly'
  <2>1. PICK delivered \in {level >= env.level /\ writes} :
           /\ out' = [kind |-> "log", by |-> env.by, params |-> TagWithTask(env, EmptyObject),
                      told |-> env.told,
                      said |-> [level |-> level, delivered |-> delivered,
                                stderr |-> CASE config.stderr = "never"    -> FALSE
                                             [] config.stderr = "fallback" -> ~delivered
                                             [] config.stderr = "always"   -> TRUE]]
           /\ config' = config
    BY <1>14 DEF Log, Writes
  <2>2. /\ out'.kind = "log" /\ out'.said.level = level /\ out'.told.level = env.level
        /\ out'.said.delivered <=> (level >= env.level /\ writes)
        /\ out'.said.delivered = delivered /\ delivered \in BOOLEAN
    BY <2>1, <1>14 DEF Knows, EnvsSound, EnvSound
  <2>3. config'.stderr = "fallback" => out'.said.stderr = ~delivered
    BY <2>1
  <2>4. LogKept'
    BY <2>2, <2>3 DEF LogKept
  <2> QED
    BY <2>2, <2>4 DEF SpokenSoundly, Permitted, TurnsAnswered, FormsShown
<1>15. ASSUME NEW env, NEW p,
              \/ Progress(env) \/ NotifyElicitationComplete(env)
              \/ SendNotification(env, p) \/ SendRequest(env, p)
       PROVE  SpokenSoundly'
  <2>1. out'.kind \in {"progress", "elicitation/complete", "notification", "request"}
    BY <1>15 DEF Progress, NotifyElicitationComplete, SendNotification, SendRequest, Asks, Writes
  <2> QED
    BY <2>1, <1>1
<1>16. ASSUME NEW env \in Envs, ListRoots(env) PROVE SpokenSoundly'
  <2>1. /\ out'.kind = "roots/list" /\ out'.told = env.told
        /\ env.mode # "forbidden" /\ env.caps.roots # Absent
    BY <1>16 DEF ListRoots, SupportsRoots, Asks, Writes
  <2>2. MayAsk(out'.told.caps, out'.kind, out'.said)
    BY <2>1, <1>16 DEF Knows, EnvsSound, EnvSound, MayAsk
  <2> QED
    BY <2>1, <2>2 DEF SpokenSoundly, Permitted, MayAsk, TurnsAnswered, FormsShown, LogKept
<1>17. ASSUME NEW env \in Envs, NEW p \in config.forms, Elicit(env, Carrying(p, form))
       PROVE  SpokenSoundly'
  <2> DEFINE q == Carrying(p, form)
  <2>1. /\ q.mode = p.mode
        /\ q.schema = IF p.schema = Absent THEN Absent ELSE SchemaBuild(form)
    BY DEF Carrying
  <2> HIDE DEF q
  <2>2. /\ out'.kind = "elicitation/create" /\ out'.told = env.told /\ out'.said = q
        /\ env.mode # "forbidden" /\ SupportsElicitation(env.caps, ResolvedMode(q)) /\ ElicitValid(q)
    BY <1>17 DEF Elicit, Asks, Writes, q
  <2>3. /\ CapsTyped(env.told.caps) /\ env.caps = env.told.caps
        /\ q.mode \in {Absent, "form", "url"}
    BY <2>1, <2>2, <1>17 DEF Knows, EnvsSound, EnvSound, DispatchAssumption
  <2>4. MayAsk(out'.told.caps, out'.kind, out'.said)
    BY <2>2, <2>3, ElicitAllowed
  <2>5. q.schema # Absent => q.schema = SchemaBuild(form)
    BY <2>1
  <2>6. FormsShown'
    BY <2>2, <2>5, BuiltForms DEF FormsShown
  <2> QED
    BY <2>2, <2>4, <2>6 DEF SpokenSoundly, Permitted, MayAsk, TurnsAnswered, LogKept
<1>18. ASSUME NEW c, BuildForm(c) PROVE SpokenSoundly'
    BY <1>2, <1>18 DEF BuildForm
<1>19. ASSUME NEW env \in Envs, NEW p \in config.drafts, CreateMessage(env, p) PROVE SpokenSoundly'
  <2>1. /\ out'.kind = "sampling/createMessage" /\ out'.told = env.told /\ out'.said = p
        /\ env.mode # "forbidden" /\ SamplingValid(p.messages)
        /\ SupportsSampling(env.caps)
        /\ p.tools # {} => SupportsSamplingTools(env.caps)
        /\ WantsContext(p) => SupportsSamplingContext(env.caps)
    BY <1>19 DEF CreateMessage, Asks, Writes
  <2>2. env.caps = env.told.caps
    BY <2>1, <1>19 DEF Knows, EnvsSound, EnvSound
  <2>3. MayAsk(out'.told.caps, out'.kind, out'.said)
    BY <2>1, <2>2 DEF MayAsk, SupportsSampling, SupportsSamplingTools, SupportsSamplingContext, WantsContext
  <2>4. /\ \A i \in DOMAIN p.messages : \A b \in DOMAIN p.messages[i].blocks : Block(p.messages[i].blocks[b])
        /\ DOMAIN p.messages = 1..Len(p.messages) /\ Len(p.messages) \in Nat
    BY <1>19 DEF Knows, DispatchAssumption
  <2>5. TurnsAnswered'
    <3> DEFINE m == p.messages
    <3> HIDE DEF m
    <3>1. /\ m # <<>>
          /\ \A i \in TurnsWith(m, "tool_use") :
                /\ m[i].role = "assistant"
                /\ i + 1 \in TurnsWith(m, "tool_result")
                /\ IdsIn(m[i]) \ {Absent} = IdsIn(m[i + 1])
          /\ \A i \in TurnsWith(m, "tool_result") :
                m[i].role = "user" /\ i \notin TurnsWith(m, "tool_use") /\ Absent \notin IdsIn(m[i])
      BY <2>1, <2>4, ValidTurns DEF m
    <3>2. out'.said.messages = m
      BY <2>1 DEF m
    <3> QED
      BY <3>1, <3>2 DEF TurnsAnswered
  <2> QED
    BY <2>1, <2>3, <2>5 DEF SpokenSoundly, Permitted, MayAsk, FormsShown, LogKept
<1> QED
    BY <1>4, <1>5, <1>6, <1>7, <1>8, <1>9, <1>10, <1>11, <1>12, <1>13, <1>14, <1>15, <1>16, <1>17, <1>18, <1>19
       DEF Next

-----------------------------------------------------------------------------
(* What a task returns *)

Statuses == {"working", "completed", "failed", "cancelled"}
Record(E, O, R) == [id : Nat, entry : E, status : Statuses, outcome : O, run : R]

\* A task that has not ended has not run; one that has ended as its call would
\* have; and its worker runs the tool it was created for.
RecordSound(r) ==
    /\ r.id <= made
    /\ ~Terminal(r.status) => r.run = NoRun
    /\ r.run.how \notin {"none", "spawn"} => r.outcome = CallOutcome(r.entry, r.run)
    /\ \A w \in workers : w.id = r.id => w.entry = r.entry

Filed ==
    /\ made \in Nat
    /\ \E E, O, R : tasks \in Seq(Record(E, O, R))
    /\ \A w \in workers : w.id \in Nat /\ w.id <= made
    /\ \A i \in DOMAIN tasks : RecordSound(tasks[i])

LEMMA OutcomesAgree == \A e, run : WorkerOutcome(e, run) = CallOutcome(e, run)
<1> SUFFICES ASSUME NEW e, NEW run PROVE WorkerOutcome(e, run) = CallOutcome(e, run)
    OBVIOUS
<1>1. CASE run.how = "iserror"
    BY <1>1 DEF WorkerOutcome, CallOutcome, OutputHolds
<1>2. CASE run.how = "ok"
    BY <1>2 DEF WorkerOutcome, CallOutcome
<1>3. CASE run.how \notin {"iserror", "ok"}
    BY <1>3 DEF WorkerOutcome, CallOutcome
<1> QED
    BY <1>1, <1>2, <1>3

LEMMA InitFiled == Init => Filed
<1> SUFFICES ASSUME Init PROVE Filed
    OBVIOUS
<1>1. tasks = <<>> /\ made = 0 /\ workers = {}
    BY DEF Init
<1>2. tasks \in Seq(Record({}, {}, {})) /\ DOMAIN tasks = {}
    BY <1>1
<1> QED
    BY <1>1, <1>2 DEF Filed

\* It is enough to look at the records that are new.
LEMMA Refiled ==
    ASSUME Filed, made' \in Nat, made <= made',
           \E E, O, R : tasks' \in Seq(Record(E, O, R)),
           workers' \subseteq workers,
           \A i \in DOMAIN tasks' : (\E j \in DOMAIN tasks : tasks'[i] = tasks[j]) \/ RecordSound(tasks'[i])
    PROVE  Filed'
<1>1. \A w \in workers' : w.id \in Nat /\ w.id <= made'
    BY DEF Filed
<1>2. ASSUME NEW i \in DOMAIN tasks' PROVE RecordSound(tasks[i])'
  <2>1. PICK E, O, R : tasks' \in Seq(Record(E, O, R))
    OBVIOUS
  <2>2. tasks'[i] \in Record(E, O, R)
    BY <2>1, <1>2
  <2>3. RecordSound(tasks'[i]) /\ tasks'[i].id \in Nat
    BY <1>2, <2>2 DEF Filed, Record
  <2>4. tasks'[i].id <= made'
    BY <2>3 DEF RecordSound, Filed
  <2> HIDE DEF Filed
  <2> QED
    BY <2>3, <2>4 DEF RecordSound
<1> QED
    BY <1>1, <1>2 DEF Filed

\* A task is filed, with or without its worker.
LEMMA TaskFiled ==
    ASSUME Filed, NEW e, made' = made + 1,
           NEW status \in Statuses, NEW outcome, NEW run,
           tasks' = <<[id |-> made + 1, entry |-> e, status |-> status, outcome |-> outcome, run |-> run]>>
                    \o tasks,
           run.how \in {"none", "spawn"}, ~Terminal(status) => run = NoRun,
           \A w \in workers' : w \in workers \/ (w.id = made + 1 /\ w.entry = e)
    PROVE  Filed'
<1>1. made \in Nat /\ made' \in Nat
    BY DEF Filed
<1>2. PICK E, O, R : tasks \in Seq(Record(E, O, R))
    BY DEF Filed
<1> DEFINE S == Record(E \cup {e}, O \cup {outcome}, R \cup {run})
           r == [id |-> made + 1, entry |-> e, status |-> status, outcome |-> outcome, run |-> run]
<1>3. /\ r \in S /\ r.id = made + 1 /\ r.entry = e /\ r.status = status /\ r.run = run
      /\ tasks' = <<r>> \o tasks
    BY <1>1 DEF Record
<1>4. tasks \in Seq(S)
  <2>1. Record(E, O, R) \subseteq S
    BY DEF Record
  <2> QED
    BY <1>2, <2>1, SeqWidens
<1> HIDE DEF S, r
<1>5. <<r>> \in Seq(S) /\ Len(<<r>>) = 1 /\ <<r>>[1] = r
    BY <1>3
<1>6. /\ tasks' \in Seq(S) /\ Len(tasks') = Len(tasks) + 1
      /\ \A i \in DOMAIN tasks' : tasks'[i] = IF i = 1 THEN r ELSE tasks[i - 1]
    BY <1>3, <1>4, <1>5
<1>7. Len(tasks) \in Nat /\ DOMAIN tasks = 1..Len(tasks) /\ DOMAIN tasks' = 1..Len(tasks')
    BY <1>4, <1>6
<1>8. \A w \in workers' : w.id \in Nat /\ w.id <= made'
    BY <1>1 DEF Filed
<1>9. ASSUME NEW i \in DOMAIN tasks' PROVE RecordSound(tasks[i])'
  <2>1. CASE i = 1
    <3>1. tasks'[i] = r
      BY <2>1, <1>6, <1>9
    <3>2. \A w \in workers' : w.id = r.id => w.entry = r.entry
      BY <1>1, <1>3 DEF Filed
    <3> QED
      BY <3>1, <3>2, <1>1, <1>3 DEF RecordSound, Terminal, NoRun
  <2>2. CASE i # 1
    <3>1. PICK j \in DOMAIN tasks : tasks'[i] = tasks[j]
      <4>1. i - 1 \in DOMAIN tasks
        BY <2>2, <1>6, <1>7, <1>9
      <4> QED
        BY <4>1, <2>2, <1>6, <1>9
    <3>2. RecordSound(tasks[j]) /\ tasks[j] \in S
      BY <3>1, <1>4 DEF Filed
    <3>3. tasks[j].id \in Nat
      BY <3>2 DEF S, Record
    <3>4. tasks[j].id <= made' /\ tasks[j].id # made + 1
      BY <3>2, <3>3, <1>1 DEF RecordSound
    <3>5. \A w \in workers' : w.id = tasks[j].id => w.entry = tasks[j].entry
      BY <3>2, <3>4 DEF RecordSound
    <3> QED
      BY <3>1, <3>2, <3>4, <3>5
         DEF RecordSound
  <2> QED
    BY <2>1, <2>2
<1> QED
    BY <1>1, <1>6, <1>8, <1>9 DEF Filed, S

\* One record is replaced by what became of it.
LEMMA RecordChanged ==
    ASSUME Filed, NEW k \in DOMAIN tasks, NEW status \in Statuses, NEW outcome, NEW run,
           tasks' = [tasks EXCEPT ![k] = [@ EXCEPT !.status = status, !.outcome = outcome, !.run = run]],
           made' = made, workers' \subseteq workers, Terminal(status),
           run.how \notin {"none", "spawn"} => outcome = CallOutcome(tasks[k].entry, run)
    PROVE  Filed'
<1>1. PICK E, O, R : tasks \in Seq(Record(E, O, R))
    BY DEF Filed
<1> DEFINE S == Record(E, O \cup {outcome}, R \cup {run})
           r == [tasks[k] EXCEPT !.status = status, !.outcome = outcome, !.run = run]
<1>2. tasks[k] \in Record(E, O, R)
    BY <1>1
<1>3. /\ r \in S /\ r.id = tasks[k].id /\ r.entry = tasks[k].entry /\ r.status = status
      /\ r.outcome = outcome /\ r.run = run
    BY <1>2 DEF Record
<1>4. tasks \in Seq(S)
  <2>1. Record(E, O, R) \subseteq S
    BY DEF Record
  <2> QED
    BY <1>1, <2>1, SeqWidens
<1>5. tasks' = [tasks EXCEPT ![k] = r]
    OBVIOUS
<1> HIDE DEF S, r
<1>6. tasks' \in Seq(S) /\ \A i \in DOMAIN tasks' : i \in DOMAIN tasks /\ tasks'[i] = IF i = k THEN r ELSE tasks[i]
    BY <1>3, <1>4, <1>5
<1>7. RecordSound(r)
  <2>1. RecordSound(tasks[k])
    BY DEF Filed
  <2> QED
    BY <1>3, <2>1 DEF RecordSound
<1>8. \E X, Y, Z : tasks' \in Seq(Record(X, Y, Z))
    BY <1>6 DEF S
<1>9. made' \in Nat /\ made <= made'
    BY DEF Filed
<1>10. \A i \in DOMAIN tasks' : (\E j \in DOMAIN tasks : tasks'[i] = tasks[j]) \/ RecordSound(tasks'[i])
    BY <1>6, <1>7
<1> QED
    BY <1>8, <1>9, <1>10, Refiled

LEMMA StepFiles == ASSUME Filed, [Next]_vars PROVE Filed'
<1>1. ASSUME UNCHANGED <<tasks, made, workers>> PROVE Filed'
    BY <1>1 DEF Filed, RecordSound
<1>2. CASE UNCHANGED vars
    BY <1>1, <1>2 DEF vars
<1>3. ASSUME NEW tool, AddTool(tool) PROVE Filed'
    BY <1>1, <1>3 DEF AddTool, Registers, connection
<1>4. ASSUME NEW list, NEW item, AddItem(list, item) PROVE Filed'
    BY <1>1, <1>4 DEF AddItem, Registers, connection
<1>5. CASE Serve
  <2>1. tasks' = <<>> /\ workers' = {} /\ made' = made
    BY <1>5 DEF Serve
  <2>2. tasks' \in Seq(Record({}, {}, {})) /\ DOMAIN tasks' = {}
    BY <2>1
  <2> QED
    BY <2>1, <2>2 DEF Filed
<1>6. ASSUME NEW req, Handle(req) PROVE Filed'
  <2>1. CASE UNCHANGED connection
    BY <2>1, <1>1 DEF connection
  <2>2. CASE HandleInitialize(req) \/ HandleSetLevel(req)
    BY <2>2, <1>1 DEF HandleInitialize, HandleSetLevel, connection
  <2>3. CASE HandleCallTool(req)
    <3>1. ASSUME NEW e, StartToolTask(req, e), ~(UNCHANGED connection) PROVE Filed'
      <4>1. CASE /\ made' = made + 1 /\ tasks' = <<NewTask(e, "working", NoOutcome, NoRun)>> \o tasks
                 /\ workers' = workers \cup
                        {[id |-> made + 1, entry |-> e,
                          env |-> WorkerEnv(made + 1, ProgressToken(req.params))]}
        <5>1. \A w \in workers' : w \in workers \/ (w.id = made + 1 /\ w.entry = e)
          BY <4>1
        <5>2. NoRun.how = "none" /\ "working" \in Statuses
          BY DEF NoRun, Statuses
        <5> QED
          BY <4>1, <5>1, <5>2, TaskFiled DEF NewTask
      <4>2. CASE /\ made' = made + 1 /\ UNCHANGED workers
                 /\ tasks' = <<NewTask(e, "failed", Raises(Error("Internal")), NoSpawn)>> \o tasks
        <5>1. NoSpawn.how = "spawn" /\ "failed" \in Statuses /\ Terminal("failed")
          BY DEF NoSpawn, Statuses, Terminal
        <5> QED
          BY <4>2, <5>1, TaskFiled DEF NewTask
      <4> QED
        BY <3>1, <4>1, <4>2 DEF StartToolTask
    <3>2. ASSUME UNCHANGED <<session, tasks, made, workers, declared, walk, told>> PROVE Filed'
      BY <3>2, <1>1
    <3> QED
      BY <2>1, <2>3, <3>1, <3>2 DEF HandleCallTool
  <2>4. CASE HandleTaskCancel(req) /\ ~(UNCHANGED connection)
    <3>1. /\ TaskRequest(req).code = 0 /\ ~Terminal(tasks[At(req.params.id)].status)
          /\ tasks' = [tasks EXCEPT ![At(req.params.id)] =
                          [@ EXCEPT !.status = "cancelled", !.outcome = Raises(Error("Internal"))]]
          /\ UNCHANGED <<made, workers>>
      BY <2>4 DEF HandleTaskCancel
    <3>2. Has(req.params.id)
      BY <3>1 DEF TaskRequest, Fail, Error, ToJsonRpcError
    <3>3. PICK k \in DOMAIN tasks : k = At(req.params.id)
      BY <3>2 DEF Has, At
    <3>4. RecordSound(tasks[k]) /\ tasks[k].run = NoRun
      BY <3>1, <3>3 DEF Filed, RecordSound
    <3> DEFINE out0 == Raises(Error("Internal"))
    <3>5. tasks' = [tasks EXCEPT ![k] = [@ EXCEPT !.status = "cancelled", !.outcome = out0, !.run = NoRun]]
      <4>1. PICK E, O, R : tasks \in Seq(Record(E, O, R))
        BY DEF Filed
      <4>2. tasks[k] \in Record(E, O, R)
        BY <4>1, <3>3
      <4> HIDE DEF out0
      <4>3. [tasks[k] EXCEPT !.status = "cancelled", !.outcome = out0] =
            [tasks[k] EXCEPT !.status = "cancelled", !.outcome = out0, !.run = NoRun]
        BY <4>2, <3>4 DEF Record
      <4> QED
        BY <4>3, <3>1, <3>3 DEF out0
    <3>6. "cancelled" \in Statuses /\ Terminal("cancelled") /\ NoRun.how = "none"
      BY DEF Statuses, Terminal, NoRun
    <3> HIDE DEF out0
    <3>7. NoRun.how \notin {"none", "spawn"} => out0 = CallOutcome(tasks[k].entry, NoRun)
      BY <3>6
    <3>8. made' = made /\ workers' \subseteq workers
      BY <3>1
    <3> QED
      BY <3>3, <3>5, <3>6, <3>7, <3>8, RecordChanged
  <2> QED
    BY <1>6, <2>1, <2>2, <2>3, <2>4, HandleEffects
<1>7. ASSUME NEW text, Hear(text) PROVE Filed'
    BY <1>1, <1>7 DEF Hear, connection
<1>8. ASSUME NEW list, ReadPage(list) PROVE Filed'
    BY <1>1, <1>8 DEF ReadPage
<1>9. ASSUME NEW run, CallReturns(run) PROVE Filed'
    BY <1>1, <1>9 DEF CallReturns
<1>10. ASSUME NEW w, NEW run, WorkerReturns(w, run) PROVE Filed'
  <2>1. w \in workers /\ workers' \subseteq workers /\ made' = made
    BY <1>10 DEF WorkerReturns
  <2>2. CASE UNCHANGED tasks
    BY <2>1, <2>2, Refiled DEF Filed
  <2>3. CASE /\ Has(w.id)
             /\ \E outcome \in {WorkerOutcome(w.entry, run)} :
                  tasks' = [tasks EXCEPT ![At(w.id)] =
                               [@ EXCEPT !.status = WorkerStatus(outcome), !.outcome = outcome, !.run = run]]
    <3>1. PICK k \in DOMAIN tasks : k = At(w.id) /\ tasks[k].id = w.id
      BY <2>3 DEF Has, At
    <3>2. PICK outcome : /\ outcome = WorkerOutcome(w.entry, run)
                         /\ tasks' = [tasks EXCEPT ![k] =
                               [@ EXCEPT !.status = WorkerStatus(outcome), !.outcome = outcome, !.run = run]]
      BY <2>3, <3>1
    <3>3. WorkerStatus(outcome) \in Statuses /\ Terminal(WorkerStatus(outcome))
      BY DEF WorkerStatus, Statuses, Terminal
    <3>4. tasks[k].entry = w.entry
      BY <2>1, <3>1 DEF Filed, RecordSound
    <3>5. outcome = CallOutcome(tasks[k].entry, run)
      BY <3>2, <3>4, OutcomesAgree
    <3> QED
      BY <2>1, <3>1, <3>2, <3>3, <3>5, RecordChanged
  <2> QED
    BY <1>10, <2>2, <2>3 DEF WorkerReturns
<1>11. ASSUME NEW i \in 1..MaxTasks, Expire(i) PROVE Filed'
  <2>1. /\ i \in DOMAIN tasks /\ tasks' = SubSeq(tasks, 1, i - 1) \o SubSeq(tasks, i + 1, Len(tasks))
        /\ UNCHANGED <<made, workers>>
    BY <1>11 DEF Expire
  <2>2. PICK E, O, R : tasks \in Seq(Record(E, O, R))
    BY DEF Filed
  <2> DEFINE S == Record(E, O, R)
             one == SubSeq(tasks, 1, i - 1)
             two == SubSeq(tasks, i + 1, Len(tasks))
  <2> HIDE DEF S
  <2>3. i \in 1..Len(tasks) /\ Len(tasks) \in Nat /\ tasks \in Seq(S)
    BY <2>1, <2>2 DEF S
  <2>4. /\ one \in Seq(S) /\ Len(one) = i - 1 /\ \A j \in 1..(i - 1) : one[j] = tasks[j]
    BY <2>3
  <2>5. /\ two \in Seq(S) /\ Len(two) = Len(tasks) - i
        /\ \A j \in 1..(Len(tasks) - i) : two[j] = tasks[j + i]
    BY <2>3
  <2> HIDE DEF one, two
  <2>6. tasks' = one \o two
    BY <2>1 DEF one, two
  <2>7. /\ tasks' \in Seq(S) /\ Len(tasks') = Len(tasks) - 1
        /\ \A j \in 1..(Len(tasks) - 1) : tasks'[j] = IF j < i THEN tasks[j] ELSE tasks[j + 1]
    <3>1. tasks' \in Seq(S) /\ Len(tasks') = Len(tasks) - 1
      <4>1. one \o two \in Seq(S) /\ Len(one \o two) = Len(one) + Len(two)
        BY <2>4, <2>5, ConcatProperties
      <4> QED
        BY <4>1, <2>3, <2>4, <2>5, <2>6
    <3>2. ASSUME NEW j \in 1..(Len(tasks) - 1), j < i PROVE tasks'[j] = tasks[j]
      BY <3>2, <2>3, <2>4, <2>5, <2>6
    <3>3. ASSUME NEW j \in 1..(Len(tasks) - 1), ~(j < i) PROVE tasks'[j] = tasks[j + 1]
      <4>1. tasks'[j] = two[j - (i - 1)]
        BY <3>3, <2>3, <2>4, <2>5, <2>6
      <4>2. j - (i - 1) \in 1..(Len(tasks) - i) /\ j - (i - 1) + i = j + 1
        BY <3>3, <2>3
      <4> QED
        BY <4>1, <4>2, <2>5
    <3> QED
      BY <3>1, <3>2, <3>3
  <2>8. \A j \in DOMAIN tasks' : \E m \in DOMAIN tasks : tasks'[j] = tasks[m]
    BY <2>3, <2>7
  <2>9. \E X, Y, Z : tasks' \in Seq(Record(X, Y, Z))
    BY <2>7 DEF S
  <2>10. made' \in Nat /\ made <= made' /\ workers' \subseteq workers
    BY <2>1 DEF Filed
  <2> QED
    BY <2>8, <2>9, <2>10, Refiled
<1>12. ASSUME NEW env, NEW p, NEW level, NEW writes,
           \/ Log(env, level, writes) \/ Progress(env) \/ ListRoots(env)
           \/ NotifyElicitationComplete(env) \/ BuildForm(p) \/ Elicit(env, p) \/ CreateMessage(env, p)
           \/ SendNotification(env, p) \/ SendRequest(env, p)
       PROVE Filed'
    BY <1>1, <1>12, ToolWrites DEF connection
<1> QED
    BY <1>2, <1>3, <1>4, <1>5, <1>6, <1>7, <1>8, <1>9, <1>10, <1>11, <1>12 DEF Next

-----------------------------------------------------------------------------
(* What is answered *)

\* What is registered has one entry per name; the registry is as it was when the
\* capabilities were declared; and the call the loop is in was let through.
Registry ==
    /\ reg = [tools |-> reg.tools, resources |-> reg.resources, templates |-> reg.templates,
              prompts |-> reg.prompts]
    /\ \A e, f \in reg.tools : e.name = f.name => e = f
    /\ \A e \in reg.tools : e.support \in {"forbidden", "optional", "required"}

Declared ==
    /\ open \in BOOLEAN
    /\ ~open => declared = Nothing /\ call = Nothing
    /\ declared # Nothing => declared.caps = ServerCapabilities /\ session.initialized

CallKept ==
    call # Nothing =>
        /\ call.req.method = "tools/call" /\ call.req.params.given = "ok"
        /\ call.entry \in reg.tools /\ call.entry.name = call.req.params.name
        /\ ~config.tasks \/ (~call.req.params.task /\ call.entry.support # "required")

Answerable == Registry /\ Declared /\ CallKept

LEMMA InitAnswerable == Init => Answerable
<1> SUFFICES ASSUME Init PROVE Answerable
    OBVIOUS
<1>1. /\ reg = [tools |-> {}, resources |-> {}, templates |-> {}, prompts |-> {}]
      /\ open = FALSE /\ call = Nothing /\ declared = Nothing
    BY DEF Init
<1>2. Registry
    BY <1>1 DEF Registry
<1> QED
    BY <1>1, <1>2 DEF Answerable, Declared, CallKept

\* The choice of an entry by its name.
LEMMA EntryFound ==
    ASSUME NEW name, Known(name) PROVE Entry(name) \in reg.tools /\ Entry(name).name = name
    BY DEF Known, Entry

LEMMA StepKeepsAnswerable == ASSUME DispatchAssumption, Knows, Answerable, [Next]_vars PROVE Answerable'
<1>1. ASSUME UNCHANGED <<config, reg, open, session, declared, call>> PROVE Answerable'
    BY <1>1 DEF Answerable, Registry, Declared, CallKept, ServerCapabilities, CanList
<1>2. CASE UNCHANGED vars
    BY <1>1, <1>2 DEF vars
<1>3. ASSUME NEW tool \in config.offers.tools, AddTool(tool) PROVE Answerable'
  <2>1. ~open /\ UNCHANGED <<config, open, session, declared, call>>
    BY <1>3 DEF AddTool, Registers, connection
  <2>2. CASE UNCHANGED reg
    BY <2>1, <2>2, <1>1
  <2>3. CASE ~Known(tool.name) /\ reg' = [reg EXCEPT !.tools = @ \cup {ToolEntry(tool)}]
    <3>1. /\ reg'.tools = reg.tools \cup {ToolEntry(tool)}
          /\ reg' = [tools |-> reg'.tools, resources |-> reg'.resources, templates |-> reg'.templates,
                     prompts |-> reg'.prompts]
      BY <2>3 DEF Answerable, Registry
    <3>2. ToolEntry(tool).name = tool.name /\ ToolEntry(tool).support = tool.support
      BY DEF ToolEntry
    <3>3. tool.support \in {"forbidden", "optional", "required"}
      BY <1>3 DEF Knows, DispatchAssumption
    <3>4. \A e \in reg.tools : e.name # tool.name
      BY <2>3 DEF Known
    <3>5. Registry'
      BY <3>1, <3>2, <3>3, <3>4 DEF Answerable, Registry
    <3>6. Declared' /\ CallKept'
      BY <2>1 DEF Answerable, Declared, CallKept
    <3> QED
      BY <3>5, <3>6 DEF Answerable
  <2> QED
    BY <1>3, <2>2, <2>3 DEF AddTool
<1>4. ASSUME NEW list \in {"resources", "templates", "prompts"}, NEW item, AddItem(list, item)
      PROVE  Answerable'
  <2>1. ~open /\ UNCHANGED <<config, open, session, declared, call>>
        /\ reg' = [reg EXCEPT ![list] = @ \cup {item}]
    BY <1>4 DEF AddItem, Registers, connection
  <2>2. /\ reg'.tools = reg.tools
        /\ reg' = [tools |-> reg'.tools, resources |-> reg'.resources, templates |-> reg'.templates,
                   prompts |-> reg'.prompts]
    BY <2>1, <1>4 DEF Answerable, Registry
  <2>3. Registry'
    BY <2>2 DEF Answerable, Registry
  <2>4. Declared' /\ CallKept'
    BY <2>1 DEF Answerable, Declared, CallKept
  <2> QED
    BY <2>3, <2>4 DEF Answerable
<1>5. CASE Serve
  <2>1. open' = TRUE /\ call' = Nothing /\ declared' = Nothing /\ UNCHANGED <<config, reg>>
    BY <1>5 DEF Serve
  <2> QED
    BY <2>1 DEF Answerable, Registry, Declared, CallKept
<1>6. ASSUME NEW req \in config.requests, Handle(req) PROVE Answerable'
  <2>1. open /\ call = Nothing /\ UNCHANGED <<config, reg, open>>
    BY <1>6, HandleEffects
  <2>2. CASE UNCHANGED connection
    BY <2>1, <2>2, <1>1 DEF connection
  <2>3. CASE HandleInitialize(req) /\ ~(UNCHANGED connection)
    <3>1. PICK p : session' = [session EXCEPT !.initialized = TRUE, !.caps = p.caps,
                                              !.version = Negotiate(p.version)]
      BY <2>3 DEF HandleInitialize
    <3>2. session'.initialized
      BY <3>1 DEF Knows, SessionShape
    <3>3. declared' = [kind |-> "declared", caps |-> ServerCapabilities] /\ UNCHANGED call
      BY <2>3 DEF HandleInitialize
    <3>4. ServerCapabilities' = ServerCapabilities
      BY <2>1 DEF ServerCapabilities, CanList
    <3>5. Declared'
      BY <2>1, <3>2, <3>3, <3>4 DEF Declared, Answerable
    <3> QED
      BY <2>1, <3>3, <3>5 DEF Answerable, Registry, CallKept
  <2>4. CASE HandleSetLevel(req) /\ ~(UNCHANGED connection)
    <3>1. session' = [session EXCEPT !.level = req.params.level] /\ UNCHANGED <<call, declared>>
      BY <2>4 DEF HandleSetLevel
    <3>2. session'.initialized = session.initialized
      BY <3>1 DEF Knows, SessionShape
    <3> QED
      BY <2>1, <3>1, <3>2 DEF Answerable, Registry, Declared, CallKept, ServerCapabilities, CanList
  <2>5. CASE HandleCallTool(req) /\ ~(UNCHANGED connection)
    <3>1. PICK e : /\ ParamsRead(req) /\ Known(req.params.name) /\ e = Entry(req.params.name)
                   /\ req.method = "tools/call"
                   /\ \/ StartToolTask(req, e)
                      \/ /\ ~config.tasks \/ (~req.params.task /\ e.support # "required")
                         /\ call' = [kind |-> "call", req |-> req, entry |-> e,
                                     env |-> LoopEnv(ProgressToken(req.params))]
                         /\ UNCHANGED <<session, tasks, made, workers, declared, walk, told>>
      BY <2>5 DEF HandleCallTool
    <3>2. CASE StartToolTask(req, e)
      BY <2>1, <2>5, <3>2, <1>1 DEF StartToolTask
    <3>3. CASE /\ ~config.tasks \/ (~req.params.task /\ e.support # "required")
               /\ call' = [kind |-> "call", req |-> req, entry |-> e,
                           env |-> LoopEnv(ProgressToken(req.params))]
               /\ UNCHANGED <<session, tasks, made, workers, declared, walk, told>>
      <4>1. e \in reg.tools /\ e.name = req.params.name /\ req.params.given = "ok"
        BY <3>1, EntryFound DEF ParamsRead
      <4>2. CallKept'
        BY <2>1, <3>1, <3>3, <4>1 DEF CallKept
      <4> QED
        BY <2>1, <3>3, <4>2 DEF Answerable, Registry, Declared, ServerCapabilities, CanList
    <3> QED
      BY <3>1, <3>2, <3>3
  <2>6. CASE HandleTaskCancel(req) /\ ~(UNCHANGED connection)
    BY <2>1, <2>6, <1>1 DEF HandleTaskCancel
  <2> QED
    BY <1>6, <2>2, <2>3, <2>4, <2>5, <2>6, HandleEffects
<1>7. ASSUME NEW text, Hear(text) PROVE Answerable'
    BY <1>1, <1>7 DEF Hear, connection
<1>8. ASSUME NEW list, ReadPage(list) PROVE Answerable'
    BY <1>1, <1>8 DEF ReadPage
<1>9. ASSUME NEW run, CallReturns(run) PROVE Answerable'
    BY <1>9 DEF CallReturns, Answerable, Registry, Declared, CallKept, ServerCapabilities, CanList
<1>10. ASSUME NEW w, NEW run, WorkerReturns(w, run) PROVE Answerable'
    BY <1>1, <1>10 DEF WorkerReturns
<1>11. ASSUME NEW i, Expire(i) PROVE Answerable'
    BY <1>1, <1>11 DEF Expire
<1>12. ASSUME NEW env, NEW p, NEW level, NEW writes,
           \/ Log(env, level, writes) \/ Progress(env) \/ ListRoots(env)
           \/ NotifyElicitationComplete(env) \/ BuildForm(p) \/ Elicit(env, p) \/ CreateMessage(env, p)
           \/ SendNotification(env, p) \/ SendRequest(env, p)
       PROVE Answerable'
    BY <1>1, <1>12, ToolWrites DEF connection
<1> QED
    BY <1>2, <1>3, <1>4, <1>5, <1>6, <1>7, <1>8, <1>9, <1>10, <1>11, <1>12 DEF Next

\* The server's own refusals.
LEMMA Refusals ==
    /\ \A kind : Fail(kind).body = Nothing
    /\ Fail("MethodNotFound").code = -32601 /\ Fail("InvalidParams").code = -32602
    /\ Fail("PromptNotFound").code = -32602 /\ Fail("ResourceNotFound").code = -32002
    /\ Fail("Internal").code = -32603 /\ Fail("InvalidMessage").code = -32600
    /\ ToJsonRpcError(Error("MethodNotFound")).code = -32601
    BY DEF Fail, ToJsonRpcError, Error

\* The capabilities, one by one.
LEMMA Capabilities ==
    /\ "tasks" \in ServerCapabilities <=> config.tasks
    /\ "tasks.cancel" \in ServerCapabilities <=> config.tasks
    /\ "tasks.list" \in ServerCapabilities <=> (config.tasks /\ CanList)
    /\ "prompts" \in ServerCapabilities <=> reg.prompts # {}
    /\ "resources" \in ServerCapabilities <=> (reg.resources # {} \/ reg.templates # {})
    /\ "tools" \in ServerCapabilities <=> (reg.tools # {} \/ config.tasks)
    BY DEF ServerCapabilities

\* An answer to what is not a tools/call.
Plain(req) ==
    /\ req.method \notin {"tasks/get", "tasks/result", "tasks/cancel", "tasks/list"}
    /\ req.method \notin {"prompts/get", "resources/read", "tools/call"}

LEMMA PlainAnswers ==
    ASSUME NEW req, NEW answer, NEW has, Plain(req), answer.body.kind # "task"
    PROVE  AsDeclared(req, answer, has) /\ RunsAsListed(req, answer, has) /\ ResultNamed(req, answer)
    BY DEF Plain, AsDeclared, RunsAsListed, ResultNamed

\* What a handler answers, with the registry as it was declared.
AnswersWell(req) ==
    last'.kind = "request" =>
        /\ last'.req = req
        /\ ResultNamed(req, last'.answer)
        /\ declared' # Nothing =>
             /\ AsDeclared(req, last'.answer, ServerCapabilities)
             /\ RunsAsListed(req, last'.answer, ServerCapabilities)

LEMMA Answered1 ==
    ASSUME NEW req, NEW answer, Answer(req, answer)
    PROVE  last'.kind = "request" /\ last'.req = req /\ last'.answer = answer
    BY DEF Answer

\* The session does not refuse what comes after the handshake.
LEMMA RefusesHandshake ==
    ASSUME NEW req, Answerable, ~CheckInitialized(req.method), Answer(req, Fail("InvalidMessage")),
           declared' = declared
    PROVE  AnswersWell(req)
<1>1. last'.kind = "request" /\ last'.req = req /\ last'.answer = Fail("InvalidMessage")
    BY Answered1
<1>2. last'.answer.body.kind = "nothing"
    BY <1>1, Refusals DEF Nothing
<1>3. ResultNamed(req, last'.answer)
    BY <1>2 DEF ResultNamed
<1>4. ASSUME declared' # Nothing
      PROVE  /\ AsDeclared(req, last'.answer, ServerCapabilities)
             /\ RunsAsListed(req, last'.answer, ServerCapabilities)
  <2>1. Plain(req)
    BY <1>4 DEF Answerable, Declared, CheckInitialized, Plain
  <2> QED
    BY <2>1, <1>2, PlainAnswers
<1> QED
    BY <1>1, <1>3, <1>4 DEF AnswersWell

LEMMA SettingsAnswerWell ==
    ASSUME NEW req, HandleInitialize(req) \/ HandleSetLevel(req)
    PROVE  AnswersWell(req)
<1>1. Plain(req)
    BY DEF HandleInitialize, HandleSetLevel, Plain
<1>2. PICK answer : Answer(req, answer) /\ answer.body.kind # "task"
  <2>1. \E answer \in {Fail("InvalidParams"), Ok(Nothing), Ok([kind |-> "initialize", version |-> session'.version])} :
           Answer(req, answer)
    BY DEF HandleInitialize, HandleSetLevel
  <2>2. /\ Fail("InvalidParams").body.kind = "nothing" /\ Ok(Nothing).body.kind = "nothing"
        /\ Ok([kind |-> "initialize", version |-> session'.version]).body.kind = "initialize"
    BY Refusals DEF Ok, Nothing
  <2> QED
    BY <2>1, <2>2
<1>3. last'.kind = "request" /\ last'.req = req /\ last'.answer = answer
    BY <1>2, Answered1
<1> QED
    BY <1>1, <1>2, <1>3, PlainAnswers DEF AnswersWell

LEMMA ListsAnswerWell ==
    ASSUME NEW req, HandleList(req)
    PROVE  AnswersWell(req)
<1>1. PICK list \in DOMAIN ListMethods : ListMethods[list] = req.method /\ Answer(req, Listed(list, req))
    BY DEF HandleList
<1>2. last'.kind = "request" /\ last'.req = req /\ last'.answer = Listed(list, req)
    BY <1>1, Answered1
<1>3. Listed(list, req).body.kind \in {"nothing", "page"}
    BY Refusals DEF Listed, Ok, Nothing
<1>4. CASE list # "tasks"
  <2>1. Plain(req)
    BY <1>1, <1>4 DEF ListMethods, Plain
  <2> QED
    BY <2>1, <1>2, <1>3, PlainAnswers DEF AnswersWell
<1>5. CASE list = "tasks"
  <2>1. req.method = "tasks/list"
    BY <1>1, <1>5 DEF ListMethods
  <2>2. Unknown(Listed(list, req)) <=> ~(config.tasks /\ CanList)
    <3>1. CASE ~config.tasks \/ ~CanList
      BY <3>1, <1>5, Refusals DEF Listed, Unknown, Nothing
    <3>2. CASE config.tasks /\ CanList
      BY <3>2, <1>5, Refusals DEF Listed, Unknown, Ok
    <3> QED
      BY <3>1, <3>2
  <2> QED
    BY <2>1, <2>2, <1>2, <1>3, Capabilities DEF AnswersWell, AsDeclared, RunsAsListed, ResultNamed
<1> QED
    BY <1>4, <1>5

LEMMA ReadsAnswerWell ==
    ASSUME NEW req, HandleRead(req)
    PROVE  AnswersWell(req)
<1> DEFINE answer ==
         CASE req.method = "ping"    -> Ok(Nothing)
           [] req.method = "unknown" -> Fail("MethodNotFound")
           [] req.method = "resources/read" ->
                 IF ParamsRead(req) THEN ReadResource(req.params.name) ELSE Fail("InvalidParams")
           [] req.method = "prompts/get" ->
                 IF ParamsRead(req) THEN GetPrompt(req.params.name, req.params.args)
                 ELSE Fail("InvalidParams")
<1>1. req.method \in {"resources/read", "prompts/get", "ping", "unknown"} /\ Answer(req, answer)
    BY DEF HandleRead
<1> HIDE DEF answer
<1>2. last'.kind = "request" /\ last'.req = req /\ last'.answer = answer
    BY <1>1, Answered1
<1>3. CASE req.method = "ping"
  <2>1. Plain(req) /\ answer = Ok(Nothing) /\ Ok(Nothing).body.kind = "nothing"
    BY <1>3 DEF Plain, Ok, Nothing, answer
  <2> QED
    BY <2>1, <1>2, PlainAnswers DEF AnswersWell
<1>4. CASE req.method = "unknown"
  <2>1. Plain(req) /\ answer = Fail("MethodNotFound") /\ Fail("MethodNotFound").body.kind = "nothing"
    BY <1>4, Refusals DEF Plain, Nothing, answer
  <2> QED
    BY <2>1, <1>2, PlainAnswers DEF AnswersWell
<1>5. CASE req.method = "resources/read"
  <2>1. answer \in {Fail("InvalidParams"), ReadResource(req.params.name)}
    BY <1>5 DEF answer
  <2>2. answer.body.kind = "nothing" /\ (reg.resources = {} => answer.code # 0)
    BY <2>1, Refusals DEF ReadResource, Ok, Nothing
  <2> QED
    BY <2>2, <1>2, <1>5, Capabilities DEF AnswersWell, AsDeclared, RunsAsListed, ResultNamed
<1>6. CASE req.method = "prompts/get"
  <2>1. answer \in {Fail("InvalidParams"), GetPrompt(req.params.name, req.params.args)}
    BY <1>6 DEF answer
  <2>2. GetPrompt(req.params.name, req.params.args) \in {Fail("PromptNotFound"), Fail("InvalidParams"), Ok(Nothing)}
    BY DEF GetPrompt
  <2>3. reg.prompts = {} => GetPrompt(req.params.name, req.params.args) = Fail("PromptNotFound")
    BY DEF GetPrompt
  <2>4. answer.body.kind = "nothing" /\ (reg.prompts = {} => answer.code # 0)
    BY <2>1, <2>2, <2>3, Refusals DEF Ok, Nothing
  <2> QED
    BY <2>4, <1>2, <1>6, Capabilities DEF AnswersWell, AsDeclared, RunsAsListed, ResultNamed
<1> QED
    BY <1>1, <1>3, <1>4, <1>5, <1>6

\* tasks/get, tasks/cancel and tasks/result.
LEMMA TaskRequests ==
    ASSUME NEW req, DispatchAssumption, Knows
    PROVE  /\ TaskRequest(req).code = 0 => config.tasks /\ TaskRequest(req).body.kind = "task"
           /\ TaskRequest(req).code # 0 => TaskRequest(req).body.kind = "nothing"
           /\ TaskRequest(req).code = -32601 <=> ~config.tasks
           /\ Unknown(TaskRequest(req)) <=> ~config.tasks
<1>1. CASE ~config.tasks
  <2>1. TaskRequest(req) = Fail("MethodNotFound")
    BY <1>1 DEF TaskRequest
  <2> QED
    BY <2>1, <1>1, Refusals DEF Nothing, Unknown
<1>2. CASE config.tasks /\ (~ParamsRead(req) \/ ~Has(req.params.id))
  <2>1. TaskRequest(req) = Fail("InvalidParams")
    BY <1>2 DEF TaskRequest
  <2> QED
    BY <2>1, <1>2, Refusals DEF Nothing, Unknown
<1>3. CASE config.tasks /\ ParamsRead(req) /\ Has(req.params.id)
  <2>1. TaskRequest(req) = Ok([kind |-> "task", id |-> req.params.id])
    BY <1>3 DEF TaskRequest
  <2>2. TaskRequest(req).code = 0 /\ TaskRequest(req).body.kind = "task"
    BY <2>1 DEF Ok
  <2> QED
    BY <2>2, <1>3, Refusals DEF Unknown
<1> QED
    BY <1>1, <1>2, <1>3

LEMMA TasksAnswerWell ==
    ASSUME NEW req, DispatchAssumption, Knows,
           HandleTaskGet(req) \/ HandleTaskCancel(req) \/ HandleTaskResult(req)
    PROVE  AnswersWell(req)
<1>1. req.method \in {"tasks/get", "tasks/cancel", "tasks/result"}
    BY DEF HandleTaskGet, HandleTaskCancel, HandleTaskResult
<1>2. CASE Answer(req, TaskRequest(req))
  <2>1. last'.kind = "request" /\ last'.req = req /\ last'.answer = TaskRequest(req)
    BY <1>2, Answered1
  <2> HIDE DEF Unknown
  <2> QED
    BY <2>1, <1>1, TaskRequests, Capabilities DEF AnswersWell, AsDeclared, RunsAsListed, ResultNamed
<1>3. CASE /\ req.method = "tasks/cancel" /\ TaskRequest(req).code = 0
           /\ Answer(req, Fail("InvalidParams"))
  <2>1. last'.kind = "request" /\ last'.req = req /\ last'.answer = Fail("InvalidParams")
    BY <1>3, Answered1
  <2>2. config.tasks /\ ~Unknown(Fail("InvalidParams")) /\ Fail("InvalidParams").body.kind = "nothing"
    BY <1>3, TaskRequests, Refusals DEF Unknown, Nothing
  <2> QED
    BY <2>1, <2>2, <1>3, Capabilities DEF AnswersWell, AsDeclared, RunsAsListed, ResultNamed
<1>4. CASE /\ req.method = "tasks/result" /\ TaskRequest(req).code = 0
           /\ \E outcome \in {tasks[At(req.params.id)].outcome} :
               Answer(req, [code |-> outcome.code,
                            body |-> [kind |-> "result", result |-> outcome,
                                      task |-> RelatedTask(outcome, req.params.id)]])
  <2>1. PICK outcome : Answer(req, [code |-> outcome.code,
                                    body |-> [kind |-> "result", result |-> outcome,
                                              task |-> RelatedTask(outcome, req.params.id)]])
    BY <1>4
  <2>2. /\ last'.kind = "request" /\ last'.req = req /\ last'.answer.body.kind = "result"
        /\ last'.answer.body.result = outcome
        /\ last'.answer.body.task = RelatedTask(outcome, req.params.id)
    BY <2>1, Answered1
  <2>3. config.tasks
    BY <1>4, TaskRequests
  <2>4. ResultNamed(req, last'.answer)
    BY <2>2 DEF ResultNamed, RelatedTask
  <2>5. ~Unknown(last'.answer)
    BY <2>2 DEF Unknown
  <2> QED
    BY <2>2, <2>3, <2>4, <2>5, <1>4, Capabilities DEF AnswersWell, AsDeclared, RunsAsListed
<1> QED
    BY <1>2, <1>3, <1>4 DEF HandleTaskGet, HandleTaskCancel, HandleTaskResult

LEMMA CallsAnswerWell ==
    ASSUME NEW req, DispatchAssumption, Knows, Answerable, HandleCallTool(req)
    PROVE  AnswersWell(req)
<1>1. req.method = "tools/call"
    BY DEF HandleCallTool
<1>2. CASE ~(ParamsRead(req) /\ Known(req.params.name)) /\ Answer(req, Fail("InvalidParams"))
  <2>1. last'.kind = "request" /\ last'.req = req /\ last'.answer = Fail("InvalidParams")
    BY <1>2, Answered1
  <2>2. /\ Fail("InvalidParams").code # 0 /\ Fail("InvalidParams").body.kind = "nothing"
        /\ ~Unknown(Fail("InvalidParams"))
    BY Refusals DEF Nothing, Unknown
  <2>3. RunsAsListed(req, Fail("InvalidParams"), ServerCapabilities)
    BY <2>2 DEF RunsAsListed
  <2> QED
    BY <2>1, <2>2, <2>3, <1>1 DEF AnswersWell, AsDeclared, ResultNamed
<1>3. CASE ParamsRead(req) /\ Known(req.params.name)
  <2> DEFINE e == Entry(req.params.name)
             params == req.params
  <2>1. e \in reg.tools /\ e.name = params.name /\ \A f \in reg.tools : f.name = params.name => f = e
    BY <1>3, EntryFound DEF Answerable, Registry
  <2>2. e.support \in {"forbidden", "optional", "required"}
    BY <2>1 DEF Answerable, Registry
  <2>3. "tools" \in ServerCapabilities
    BY <2>1, Capabilities
  <2>4. /\ ProtocolTool(e).execution = "required" <=> (config.tasks /\ e.support = "required")
        /\ ProtocolTool(e).execution = "optional" <=> (config.tasks /\ e.support = "optional")
    BY <2>2 DEF ProtocolTool, DispatchAssumption
  <2> HIDE DEF e
  <2>5. ASSUME NEW answer, Answer(req, answer),
               answer.body.kind = "task" => config.tasks,
               CASE ProtocolTool(e).execution = "required" ->
                       answer.body.kind = "result" => ArgumentsFail(e, params)
                 [] ProtocolTool(e).execution = "optional" -> ~Unknown(answer)
                 [] OTHER -> /\ answer.body.kind # "task"
                             /\ Unknown(answer) => params.task /\ config.tasks
        PROVE  AnswersWell(req)
    <3>1. last'.kind = "request" /\ last'.req = req /\ last'.answer = answer
      BY <2>5, Answered1
    <3>2. AsDeclared(req, answer, ServerCapabilities)
      BY <2>3, <2>5, <1>1, Capabilities DEF AsDeclared
    <3>3. "tasks" \in ServerCapabilities <=> config.tasks
      BY Capabilities
    <3>4. RunsAsListed(req, answer, ServerCapabilities)
      BY <2>1, <2>5, <3>3 DEF RunsAsListed
    <3> QED
      BY <3>1, <3>2, <3>4, <1>1 DEF AnswersWell, ResultNamed
  <2>6. CASE /\ ArgumentsFail(e, params)
             /\ Answer(req, Ok([kind |-> "result", result |-> Value(TRUE, "none"), task |-> 0]))
    <3> DEFINE answer == Ok([kind |-> "result", result |-> Value(TRUE, "none"), task |-> 0])
    <3>1. answer.body.kind = "result" /\ ~Unknown(answer)
      BY DEF Ok, Unknown
    <3> HIDE DEF answer
    <3>2. Answer(req, answer)
      BY <2>6 DEF answer
    <3> QED
      BY <3>1, <3>2, <2>5, <2>6
  <2>7. CASE /\ config.tasks
             /\ \/ params.task /\ e.support = "forbidden"
                \/ ~params.task /\ e.support = "required"
             /\ Answer(req, Fail("MethodNotFound"))
    <3>1. Fail("MethodNotFound").body.kind = "nothing"
      BY Refusals DEF Nothing
    <3> QED
      BY <3>1, <2>4, <2>5, <2>7
  <2>8. CASE config.tasks /\ params.task /\ e.support # "forbidden" /\ StartToolTask(req, e)
    <3>1. CASE Answer(req, Fail("Internal"))
      <4>1. Fail("Internal").body.kind = "nothing" /\ ~Unknown(Fail("Internal"))
        BY Refusals DEF Nothing, Unknown
      <4> QED
        BY <4>1, <3>1, <2>5
    <3>2. CASE Answer(req, Ok([kind |-> "task", id |-> made + 1]))
      <4> DEFINE answer == Ok([kind |-> "task", id |-> made + 1])
      <4>1. answer.body.kind = "task" /\ ~Unknown(answer)
        BY DEF Ok, Unknown
      <4> HIDE DEF answer
      <4>2. Answer(req, answer)
        BY <3>2 DEF answer
      <4> QED
        BY <4>1, <4>2, <2>2, <2>4, <2>5, <2>8
    <3> QED
      BY <2>8, <3>1, <3>2 DEF StartToolTask
  <2>9. CASE last' = Nothing
    BY <2>9 DEF AnswersWell, Nothing
  <2> QED
    BY <1>3, <2>6, <2>7, <2>8, <2>9 DEF HandleCallTool, e
<1> QED
    BY <1>2, <1>3 DEF HandleCallTool

LEMMA HandlersAnswerWell ==
    ASSUME NEW req, DispatchAssumption, Knows, Answerable, Handle(req)
    PROVE  AnswersWell(req)
    BY RefusesHandshake, SettingsAnswerWell, ListsAnswerWell, ReadsAnswerWell, TasksAnswerWell,
       CallsAnswerWell DEF Handle, connection

\* The call the loop was in is answered.
LEMMA ReturnsAnswerWell ==
    ASSUME NEW run, DispatchAssumption, Knows, Answerable, CallReturns(run)
    PROVE  AnswersWell(call.req)
<1>1. PICK outcome : /\ call # Nothing
                     /\ Answer(call.req, [code |-> outcome.code,
                                          body |-> [kind |-> "result", result |-> outcome, task |-> 0]])
    BY DEF CallReturns
<1>2. last'.kind = "request" /\ last'.req = call.req /\ last'.answer.body.kind = "result"
    BY <1>1, Answered1
<1>3. /\ call.req.method = "tools/call" /\ call.entry \in reg.tools
      /\ call.entry.name = call.req.params.name
      /\ ~config.tasks \/ (~call.req.params.task /\ call.entry.support # "required")
    BY <1>1 DEF Answerable, CallKept
<1>4. \A f \in reg.tools : f.name = call.req.params.name =>
         /\ f = call.entry /\ ProtocolTool(f).execution # "required"
    BY <1>3 DEF Answerable, Registry, ProtocolTool, DispatchAssumption
<1>5. ~Unknown(last'.answer)
    BY <1>2 DEF Unknown
<1>6. RunsAsListed(call.req, last'.answer, ServerCapabilities)
    BY <1>2, <1>4, <1>5 DEF RunsAsListed
<1>7. "tools" \in ServerCapabilities
    BY <1>3, Capabilities
<1>8. AsDeclared(call.req, last'.answer, ServerCapabilities)
    BY <1>2, <1>3, <1>7 DEF AsDeclared
<1> QED
    BY <1>2, <1>3, <1>6, <1>8 DEF AnswersWell, ResultNamed

\* Any text of the wire is answered under its own id, or under none.
LEMMA HearAnswers ==
    ASSUME DispatchAssumption, Knows, NEW text \in config.texts, Hear(text) PROVE TextAnswered'
<1> DEFINE m == Parse(text)
<1>1. /\ last'.kind = "text" /\ last'.text = text
      /\ last'.reply = CASE m.kind = "bad" /\ IsMalformed(m.error) -> ErrorId(m.error)
                         [] m.kind = "request"                     -> m.id
                         [] OTHER                                  -> Missing
    BY DEF Hear
<1>2. text \in Texts /\ RequestIds \cap {Missing, Null, Odd} = {}
    BY DEF Knows, DispatchAssumption
<1>3. CASE text.json # "object"
    BY <1>1, <1>3 DEF TextAnswered
<1>4. CASE text.json = "object"
  <2>1. m = FromValue(text)
    BY <1>4 DEF Parse
  <2>2. CASE text.method # Missing /\ text.id \in RequestIds
    <3>1. m = Message("request", text.id) \/ m = Bad(InvalidRequest(text.id))
      BY <2>1, <2>2, <1>2, <1>4 DEF FromValue, Missing, Null, Odd
    <3> HIDE DEF m
    <3>2. CASE m = Message("request", text.id)
      <4>1. m.kind = "request" /\ m.id = text.id
        BY <3>2 DEF Message
      <4> QED
        BY <4>1, <1>1, <2>2 DEF TextAnswered
    <3>3. CASE m = Bad(InvalidRequest(text.id))
      <4>1. m.kind = "bad" /\ m.error = InvalidRequest(text.id)
        BY <3>3 DEF Bad
      <4>2. InvalidRequest(text.id).kind = "InvalidRequest" /\ InvalidRequest(text.id).id = text.id
        BY DEF InvalidRequest, Error
      <4>3. last'.reply = text.id
        BY <4>1, <4>2, <1>1 DEF IsMalformed, ErrorId
      <4> QED
        BY <4>3, <1>1, <2>2 DEF TextAnswered
    <3> QED
      BY <3>1, <3>2, <3>3
  <2>3. CASE text.method = Missing
    <3>1. m = Message("response", text.id) \/ m = Bad(Error("InvalidMessage"))
      BY <2>1, <2>3, <1>4 DEF FromValue
    <3> HIDE DEF m
    <3>2. m.kind = "response" \/ (m.kind = "bad" /\ m.error.kind = "InvalidMessage")
      BY <3>1 DEF Message, Bad, Error
    <3>3. last'.reply \in {Missing, Null}
      BY <3>2, <1>1 DEF ErrorId, IsMalformed
    <3> QED
      BY <3>3, <1>1, <2>3 DEF TextAnswered
  <2>4. CASE text.method # Missing /\ text.id \notin RequestIds
    BY <2>4, <1>1 DEF TextAnswered
  <2> QED
    BY <2>2, <2>3, <2>4
<1> QED
    BY <1>3, <1>4

\* Inside a task, what has room for the task's id carries it, though it carried
\* another's before.
LEMMA TagsWithTask ==
    ASSUME NEW env, NEW params, params.given \in {Missing, "object", Odd},
           params = [given |-> params.given, meta |-> params.meta, task |-> params.task], env.by # 0
    PROVE  LET tagged == TagWithTask(env, params)
           IN  tagged.given = Odd \/ tagged.meta = Odd \/ tagged.task = env.by
<1> DEFINE object == IF params.given = Missing THEN EmptyObject ELSE params
<1>1. /\ object = [given |-> object.given, meta |-> object.meta, task |-> object.task]
      /\ object.given \in {"object", Odd}
    BY DEF EmptyObject, Missing
<1>2. TagWithTask(env, params) = IF object.given # "object" \/ object.meta = Odd THEN object
                                 ELSE [object EXCEPT !.meta = "object", !.task = env.by]
    BY DEF TagWithTask
<1> HIDE DEF object
<1> QED
    BY <1>1, <1>2

LEMMA StepAnswers ==
    ASSUME DispatchAssumption, Knows, Answerable, Answerable', Attributable, Honoured, [Next]_vars
    PROVE  Attributable' /\ Honoured'
<1>1. ASSUME UNCHANGED <<config, reg, last, out, declared>> PROVE Attributable' /\ Honoured'
    BY <1>1 DEF Attributable, OfTask, TextAnswered, ResultNamed, Honoured, AsDeclared, RunsAsListed,
                ProtocolTool, ArgumentsFail
<1>2. ASSUME last'.kind \notin {"text", "request"},
             \/ out' = out \/ out'.kind \in {"nothing", "status"} \/ out'.by = 0
             \/ out'.params.given = Odd \/ out'.params.meta = Odd \/ out'.params.task = out'.by
      PROVE  Attributable' /\ Honoured'
    BY <1>2 DEF Attributable, OfTask, TextAnswered, Honoured
<1>3. Nothing.kind = "nothing"
    BY DEF Nothing
<1>4. CASE UNCHANGED vars
    BY <1>1, <1>4 DEF vars
<1>5. ASSUME NEW tool, AddTool(tool) PROVE Attributable' /\ Honoured'
  <2>1. last'.kind \in {"refused", "registered"} /\ out' = out
    BY <1>5 DEF AddTool, Registers, Nothing
  <2> QED
    BY <2>1, <1>2
<1>6. ASSUME NEW list, NEW item, AddItem(list, item) PROVE Attributable' /\ Honoured'
  <2>1. last'.kind \in {"refused", "registered"} /\ out' = out
    BY <1>6 DEF AddItem, Registers, Nothing
  <2> QED
    BY <2>1, <1>2
<1>7. CASE Serve
    BY <1>2, <1>3, <1>7 DEF Serve
<1>8. ASSUME NEW req, AnswersWell(req), out' = Nothing, UNCHANGED <<config, reg>>,
             last'.kind \in {"request", "nothing"}
      PROVE  Attributable' /\ Honoured'
  <2>1. CASE last'.kind = "nothing"
    BY <2>1, <1>2, <1>3, <1>8
  <2>2. CASE last'.kind = "request"
    <3>1. Attributable'
      BY <2>2, <1>3, <1>8 DEF AnswersWell, Attributable, OfTask, TextAnswered
    <3>2. ASSUME declared' # Nothing
          PROVE  /\ AsDeclared(last'.req, last'.answer, declared'.caps)
                 /\ RunsAsListed(last'.req, last'.answer, declared'.caps)
      <4>1. declared'.caps = ServerCapabilities'
        BY <3>2 DEF Answerable, Declared
      <4>2. ServerCapabilities' = ServerCapabilities
        BY <1>8 DEF ServerCapabilities, CanList
      <4> QED
        BY <4>1, <4>2, <2>2, <1>8, <3>2 DEF AnswersWell
    <3>3. Honoured'
      BY <3>2, <1>8 DEF Honoured, AsDeclared, RunsAsListed, ProtocolTool, ArgumentsFail
    <3> QED
      BY <3>1, <3>3
  <2> QED
    BY <1>8, <2>1, <2>2
<1>9. ASSUME NEW req, Handle(req) PROVE Attributable' /\ Honoured'
  <2>1. AnswersWell(req) /\ out' = Nothing /\ UNCHANGED <<config, reg>>
    BY <1>9, HandlersAnswerWell, HandleEffects
  <2>2. last'.kind \in {"request", "nothing"}
    <3>1. ASSUME NEW answer, Answer(req, answer) PROVE last'.kind = "request"
      BY <3>1 DEF Answer
    <3>2. ASSUME NEW e, StartToolTask(req, e) PROVE last'.kind = "request"
      BY <3>1, <3>2 DEF StartToolTask
    <3>3. CASE HandleCallTool(req)
      BY <3>1, <3>2, <3>3 DEF HandleCallTool, Nothing
    <3>4. CASE HandleInitialize(req) \/ HandleSetLevel(req) \/ HandleList(req) \/ HandleRead(req)
      BY <3>1, <3>4 DEF HandleInitialize, HandleSetLevel, HandleList, HandleRead
    <3>5. CASE HandleTaskGet(req) \/ HandleTaskCancel(req) \/ HandleTaskResult(req)
      BY <3>1, <3>5 DEF HandleTaskGet, HandleTaskCancel, HandleTaskResult
    <3> QED
      BY <3>1, <3>3, <3>4, <3>5, <1>9 DEF Handle
  <2> QED
    BY <2>1, <2>2, <1>8
<1>10. ASSUME NEW text \in config.texts, Hear(text) PROVE Attributable' /\ Honoured'
  <2>1. TextAnswered' /\ last'.kind = "text" /\ out' = Nothing
    BY <1>10, HearAnswers DEF Hear
  <2> QED
    BY <2>1, <1>3 DEF Attributable, OfTask, Honoured
<1>11. ASSUME NEW list, ReadPage(list) PROVE Attributable' /\ Honoured'
    BY <1>2, <1>3, <1>11 DEF ReadPage
<1>12. ASSUME NEW run, CallReturns(run) PROVE Attributable' /\ Honoured'
  <2>1. AnswersWell(call.req) /\ out' = Nothing /\ UNCHANGED <<config, reg>>
    BY <1>12, ReturnsAnswerWell DEF CallReturns
  <2>2. last'.kind = "request"
    BY <1>12 DEF CallReturns, Answer
  <2> QED
    BY <2>1, <2>2, <1>8
<1>13. ASSUME NEW w, NEW run, WorkerReturns(w, run) PROVE Attributable' /\ Honoured'
  <2>1. last' = Nothing /\ (out' = Nothing \/ out'.kind = "status")
    BY <1>13 DEF WorkerReturns
  <2> QED
    BY <2>1, <1>2, <1>3
<1>14. ASSUME NEW i, Expire(i) PROVE Attributable' /\ Honoured'
    BY <1>2, <1>3, <1>14 DEF Expire
<1>15. ASSUME NEW env, NEW p, NEW level, NEW writes,
           \/ Log(env, level, writes) \/ Progress(env) \/ ListRoots(env)
           \/ NotifyElicitationComplete(env) \/ BuildForm(p) \/ Elicit(env, p) \/ CreateMessage(env, p)
           \/ p \in config.raws /\ (SendNotification(env, p) \/ SendRequest(env, p))
       PROVE Attributable' /\ Honoured'
  <2>1. last' = Nothing
    BY <1>15, ToolWrites
  <2>2. CASE BuildForm(p)
    BY <2>2, <1>2, <1>3 DEF BuildForm
  <2>3. CASE ~BuildForm(p)
    <3>1. PICK params \in config.raws \cup {EmptyObject} : \E kind, said : Writes(env, kind, params, said)
      BY <1>15, <2>3
         DEF Log, Progress, ListRoots, NotifyElicitationComplete, Elicit, CreateMessage, SendNotification,
             SendRequest, Asks
    <3>2. /\ params.given \in {Missing, "object", Odd}
          /\ params = [given |-> params.given, meta |-> params.meta, task |-> params.task]
      BY DEF Knows, DispatchAssumption, EmptyObject
    <3>3. out'.by = env.by /\ out'.params = TagWithTask(env, params)
      BY <3>1 DEF Writes
    <3>4. \/ out'.by = 0 \/ out'.params.given = Odd \/ out'.params.meta = Odd
          \/ out'.params.task = out'.by
      BY <3>2, <3>3, TagsWithTask
    <3> QED
      BY <2>1, <3>4, <1>2, <1>3
  <2> QED
    BY <2>2, <2>3
<1> QED
    BY <1>4, <1>5, <1>6, <1>7, <1>9, <1>10, <1>11, <1>12, <1>13, <1>14, <1>15 DEF Next

-----------------------------------------------------------------------------

\* ToolEnv::elicit, list_roots, create_message and log_data, from any tool on the
\* loop or in a worker, across handshakes: a client is asked only what it had
\* declared, a conversation for sampling answers every tool use, a form requires
\* only fields it shows, and a log record is at the client's level or above and
\* is not lost.
THEOREM SpeechIsSound == Spec => []SpokenSoundly
<1> DEFINE Inv == Knows /\ FormSound(form) /\ SpokenSoundly
<1>1. Init => Inv
  <2> SUFFICES ASSUME Init PROVE Inv
    OBVIOUS
  <2>1. out = Nothing /\ form = EmptyForm
    BY DEF Init
  <2>2. FormSound(form)
    BY <2>1 DEF FormSound, EmptyForm
  <2> QED
    BY <2>1, <2>2, InitKnows DEF SpokenSoundly, Permitted, TurnsAnswered, FormsShown, LogKept, Nothing
<1>2. Inv /\ [Next]_vars => Inv'
    BY DispatchAssumption, StepKeepsKnows, StepBuilds, StepSpeaks
<1>3. Inv => SpokenSoundly
    OBVIOUS
<1> HIDE DEF Inv
<1> QED
    BY <1>1, <1>2, <1>3, PTL DEF Spec

\* start_tool_task: however a tool ends, its task ends with the outcome that
\* handle_call_tool would have answered.
THEOREM TasksAgree == Spec => []TaskAgrees
<1>1. Init => Filed
    BY InitFiled
<1>2. Filed /\ [Next]_vars => Filed'
    BY StepFiles
<1>3. Filed => TaskAgrees
    BY DEF Filed, RecordSound, TaskAgrees
<1> QED
    BY <1>1, <1>2, <1>3, PTL DEF Spec

\* Every answer follows from what was registered when the server was initialized
\* and from what it then declared.
THEOREM AnswersInvariant == Spec => [](Knows /\ Answerable /\ Attributable /\ Honoured)
<1> DEFINE Inv == Knows /\ Answerable /\ Attributable /\ Honoured
<1>1. Init => Inv
  <2>1. Init => last = Nothing /\ out = Nothing
    BY DEF Init
  <2> QED
    BY <2>1, InitKnows, InitAnswerable DEF Attributable, OfTask, TextAnswered, Honoured, Nothing
<1>2. Inv /\ [Next]_vars => Inv'
    BY DispatchAssumption, StepKeepsKnows, StepKeepsAnswerable, StepAnswers
<1> HIDE DEF Inv
<1>3. Spec => []Inv
    BY <1>1, <1>2, PTL DEF Spec
<1> QED
    BY <1>3 DEF Inv

\* process_one and error_id, over any text: a request whose id can be read is
\* answered under it, a response never; and what a tool writes inside a task names
\* the task, from whatever params, as long as they and their _meta are an object
\* or missing (tag_with_task).
THEOREM AnswersAttributed == Spec => []Attributable
    BY AnswersInvariant, PTL

\* handle_initialize against every handler: no method of an undeclared capability
\* does anything, none of a declared one is unknown, and a tool runs as a task or
\* not as tools/list shows it.
THEOREM CapabilitiesHonoured == Spec => []Honoured
    BY AnswersInvariant, PTL

=============================================================================
