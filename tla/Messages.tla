------------------------------ MODULE Messages ------------------------------
(***************************************************************************)
(* JSON-RPC messages as they come off the wire and the errors they turn    *)
(* into (types/jsonrpc.rs, types/error.rs, and the four helpers of         *)
(* server.rs that read an error).  A text is what parse looks at: whether  *)
(* it is JSON at all, and, of each key, whether it is absent, readable or  *)
(* neither.  Identifiers are model values.                                 *)
(***************************************************************************)
LOCAL INSTANCE Integers

CONSTANT RequestIds     \* what an id can be read as, strings

\* A key that is not there, that is null, that is not what its type wants.
Missing == "missing"
Null    == "null"
Odd     == "odd"

Texts ==
    [json : {"no", "array", "scalar"}] \cup
    [json : {"object"}, method : {Missing, Odd, "known"}, id : {Missing, Null, Odd} \cup RequestIds,
     jsonrpc : {Missing, "2.0", "1.0"}, rest : {"ok", Odd}]

\* JsonRpcVersion: strict about the value, lenient about the field.
VersionReads(t) == t.jsonrpc \in {Missing, "2.0"}

-----------------------------------------------------------------------------
(* Errors *)

Error(kind)            == [kind |-> kind, id |-> Missing, code |-> 0, data |-> Missing]
InvalidRequest(id)     == [Error("InvalidRequest") EXCEPT !.id = id]
Passthrough(code, data) == [Error("Passthrough") EXCEPT !.code = code, !.data = data]

\* McpError::to_jsonrpc_error, by code; data carries a reason, what was not
\* found, or what an error of the client's own carried.
ToJsonRpcError(e) ==
    [code |-> CASE e.kind = "Json"                                  -> -32700
                [] e.kind \in {"InvalidMessage", "InvalidRequest"}  -> -32600
                [] e.kind = "MethodNotFound"                        -> -32601
                [] e.kind \in {"InvalidParams", "PromptNotFound"}   -> -32602
                [] e.kind = "ResourceNotFound"                      -> -32002
                [] e.kind = "ToolError"                             -> -32000
                [] e.kind = "Auth"                                  -> -32003
                [] e.kind = "Passthrough"                           -> e.code
                [] OTHER                                            -> -32603,
     data |-> CASE e.kind = "ResourceNotFound" -> "uri"
                [] e.kind = "PromptNotFound"   -> "name"
                [] e.kind = "Timeout"          -> "timeout"
                [] OTHER                       -> e.data]

IsMalformed(e) == e.kind \in {"Json", "InvalidMessage", "InvalidRequest"}

\* An error that forgets the id it read.
ErrorId_Null(e) == Null

\* error_id: the id an unreadable message carried, null when it could not be read.
ErrorId(e) == IF e.kind = "InvalidRequest" THEN e.id ELSE Null

-----------------------------------------------------------------------------
(* Parsing *)

Bad(error)        == [kind |-> "bad", id |-> Missing, error |-> error]
Message(kind, id) == [kind |-> kind, id |-> id, error |-> Missing]

\* from_value: method and id, not the first variant that fits, say what it is.
FromValue(t) ==
    IF t.json # "object" THEN Bad(Error("InvalidMessage"))
    ELSE CASE t.method # Missing /\ t.id \in {Null, Odd} -> Bad(Error("InvalidMessage"))
           [] t.method # Missing /\ t.id \in RequestIds ->
                IF t.method # Odd /\ VersionReads(t) THEN Message("request", t.id)
                ELSE Bad(InvalidRequest(t.id))
           [] t.method # Missing /\ t.id = Missing ->
                IF t.method # Odd /\ VersionReads(t) THEN Message("notification", Missing)
                ELSE Bad(Error("InvalidMessage"))
           [] t.method = Missing /\ t.id # Missing ->
                IF t.id # Odd /\ t.rest = "ok" /\ VersionReads(t) THEN Message("response", t.id)
                ELSE Bad(Error("InvalidMessage"))
           [] OTHER -> Bad(Error("InvalidMessage"))

Parse(t) ==
    CASE t.json = "array" -> Bad(Error("InvalidMessage"))
      [] t.json = "no"    -> Bad(Error("Json"))
      [] OTHER            -> FromValue(t)
=============================================================================
