----------------------------- MODULE ClientAsks -----------------------------
(***************************************************************************)
(* What a server may ask of a client (types/elicitation.rs,                *)
(* types/sampling.rs, the client capabilities of types/protocol.rs):       *)
(* elicitation in two modes, sampling, roots; and the form builder.        *)
(***************************************************************************)
LOCAL INSTANCE Naturals
LOCAL INSTANCE Sequences

CONSTANTS Absent

-----------------------------------------------------------------------------
(* Capabilities: each is Absent or the set of sub-capabilities declared *)

NothingDeclared == [elicitation |-> Absent, sampling |-> Absent, roots |-> Absent]

\* Any elicitation capability is taken for both modes.
SupportsElicitation_Any(caps, mode) == caps.elicitation # Absent

\* ElicitationCapability::supports: {} means form only.
SupportsElicitation(caps, mode) ==
    /\ caps.elicitation # Absent
    /\ mode = "form" => "form" \in caps.elicitation \/ "url" \notin caps.elicitation
    /\ mode = "url"  => "url" \in caps.elicitation

SupportsSampling(caps)        == caps.sampling # Absent
SupportsSamplingTools(caps)   == SupportsSampling(caps) /\ "tools" \in caps.sampling
SupportsSamplingContext(caps) == SupportsSampling(caps) /\ "context" \in caps.sampling
SupportsRoots(caps)           == caps.roots # Absent

-----------------------------------------------------------------------------
(* The form builder *)

\* ElicitSchema::new
EmptyForm == [properties |-> <<>>, required |-> <<>>]

\* number(): NaN and the infinities have no JSON form, so such a bound is dropped.
Number(value) == IF value = "finite" THEN {"number"} ELSE {}

\* StringField, NumberField and BooleanField: the type, and the options that were set.
FieldBuild(type, bound) ==
    [type |-> type, keys |-> {"type"} \cup IF bound = Absent THEN {} ELSE Number(bound)]

\* Adding a property a second time replaces it.
SchemaAdd(form, name, field) ==
    [form EXCEPT !.properties = [n \in DOMAIN @ \cup {name} |-> IF n = name THEN field ELSE @[n]]]

SchemaAnnotate(form, name, key) ==
    IF name \in DOMAIN form.properties THEN [form EXCEPT !.properties[name].keys = @ \cup {key}]
    ELSE form

\* A name that was never added is ignored, and one that is there already.
SchemaRequired(form, name) ==
    IF name \in DOMAIN form.properties /\ \A i \in DOMAIN form.required : form.required[i] # name
    THEN [form EXCEPT !.required = Append(@, name)] ELSE form

SchemaCall(form, c) ==
    CASE c.op = "add"      -> SchemaAdd(form, c.name, FieldBuild("number", c.bound))
      [] c.op = "required" -> SchemaRequired(form, c.name)
      [] c.op = "annotate" -> SchemaAnnotate(form, c.name, "title")

\* ElicitSchema::build: no "required" at all rather than an empty one.
SchemaBuild(form) == [form EXCEPT !.required = IF @ = <<>> THEN Absent ELSE @]

-----------------------------------------------------------------------------
(* Elicitation *)

ElicitForm(schema) ==
    [mode |-> "form", blank |-> FALSE, schema |-> schema, url |-> Absent, id |-> Absent]
ElicitUrl(url, id) ==
    [mode |-> "url", blank |-> FALSE, schema |-> Absent, url |-> url, id |-> id]

\* ElicitParams as an application fills them in: with the form it has built, if any.
Carrying(p, form) ==
    [mode |-> p.mode, blank |-> p.blank, url |-> p.url, id |-> p.id,
     schema |-> IF p.schema = Absent THEN Absent ELSE SchemaBuild(form)]

ResolvedMode(p) == IF p.mode = Absent THEN "form" ELSE p.mode

\* ElicitParams::validate; a url is "ok" when it has a scheme before its "://".
ElicitValid(p) ==
    /\ ~p.blank
    /\ ResolvedMode(p) = "form" => p.schema # Absent /\ p.url = Absent
    /\ ResolvedMode(p) = "url"  => p.url = "ok" /\ p.id # Absent /\ p.schema = Absent

-----------------------------------------------------------------------------
(* Sampling: a message is a role and its blocks, a block a kind and an id *)

Turn(role, blocks) == [role |-> role, blocks |-> blocks]
Text         == [kind |-> "text", id |-> Absent]
ToolUse(i)   == [kind |-> "tool_use", id |-> i]
ToolResult(i) == [kind |-> "tool_result", id |-> i]

IdsOf(turn, kind) ==
    {turn.blocks[b].id : b \in {c \in DOMAIN turn.blocks : turn.blocks[c].kind = kind}}
Uses(turn)        == IdsOf(turn, "tool_use")
Answered(turn)    == IdsOf(turn, "tool_result")

\* The first loop of validate: what a single message may hold.
TurnValid(turn) ==
    /\ Answered(turn) # {} => /\ \A b \in DOMAIN turn.blocks : turn.blocks[b].kind = "tool_result"
                              /\ turn.role = "user"
    /\ turn.role # "assistant" => Uses(turn) = {}

\* The second: tool uses are answered by the next message, and nothing else is.
UsesAnswered(messages, i) ==
    Uses(messages[i]) = {} \/ (i < Len(messages) /\ Answered(messages[i + 1]) = Uses(messages[i]))

SamplingValid(messages) ==
    /\ messages # <<>>
    /\ \A i \in DOMAIN messages : TurnValid(messages[i])
    /\ \A i \in DOMAIN messages : UsesAnswered(messages, i)

\* CreateMessageParams::new and the builders a capability is needed for.
CreateMessageParams(messages) == [messages |-> messages, tools |-> {}, context |-> Absent]
WithTools(p, tools)           == [p EXCEPT !.tools = tools]
IncludeContext(p, context)    == [p EXCEPT !.context = context]

\* includeContext "none" asks for nothing.
WantsContext(p) == p.context \notin {Absent, "none"}

\* CreateMessageResult: what the model said, and whether it waits for tools.
WantsTools(turn) == Uses(turn) # {}
AsMessage(turn)  == turn
=============================================================================
