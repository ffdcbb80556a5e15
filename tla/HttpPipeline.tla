---------------------------- MODULE HttpPipeline ----------------------------
(***************************************************************************)
(* How HttpServer answers one request (transport/http.rs): the head is     *)
(* framed, the transport-level checks run, the token is validated, the     *)
(* session is looked up, the body is read, a Server answers into an        *)
(* HttpTransport, and what was buffered becomes the response.  Requests    *)
(* run on threads of their own, and a task worker a request started writes *)
(* to that request's transport whenever it likes.                          *)
(*                                                                         *)
(* The session table is the set of keys it holds: what a session holds and *)
(* when it is kept is module HttpSessions.                                 *)
(***************************************************************************)
EXTENDS Http1Head, HttpAuth, TLC

CONSTANTS
    Slots,          \* connection threads, each with one request
    Offered,        \* <<r, t>>: r may arrive at a server that is to meet traffic t
    Configs,        \* the configurations a server may be built with
    Ids,            \* session ids random_hex_id draws, each once
    MaxNotes,       \* notifications a handler or worker writes
    None            \* absent

ASSUME PipelineAssumption ==
    /\ \A c \in Configs : c.connections \subseteq Slots
    /\ MaxNotes \in Nat \ {0}
    /\ \A o \in Offered :
          o[1].token # None /\ {o[1].token.sub, o[1].token.tenant} \subseteq Seq(STRING)

VARIABLES
    config,     \* the HttpServer's configuration
    serving,    \* "new", "up" or "refused"
    req,        \* req[q]: the request, None before it arrives
    at,         \* at[q]: where its thread is
    who,        \* who[q]: the claims its token carried, None without one
    key,        \* key[q]: the key of its session
    buf,        \* buf[q]: what its HttpTransport has buffered
    worker,     \* worker[q]: a task worker still holds the transport
    answer,     \* answer[q]: the response, None before there is one
    sessions,   \* Sessions::live, the keys in it
    drawn,      \* session ids drawn so far
    openers,    \* history: <<key, identity>> of every session begun
    acked       \* history: acked[q], writes that returned Ok, in order

vars == <<config, serving, req, at, who, key, buf, worker, answer, sessions, drawn, openers, acked>>

-----------------------------------------------------------------------------
(* What a client asks for, and how it is spelt *)

\* A target: an authority for the absolute form, a path, and what follows it.
SpellTarget(t) ==
    (IF t.authority = <<>> THEN <<>> ELSE <<"http", "://">> \o t.authority) \o t.path \o t.rest

\* An origin: user information, host, port; "null" is the opaque origin.
SpellOrigin(o) ==
    IF o.host = "null" THEN <<"null">>
    ELSE <<o.scheme, "://">> \o o.user \o <<o.host>> \o o.port \o o.rest

\* What goes on the wire for what was meant.
Spelt(r) ==
    r @@ [target |-> SpellTarget(r.asked),
          origin |-> IF r.page = None THEN None ELSE SpellOrigin(r.page)]

-----------------------------------------------------------------------------
(* HttpServer as it is built: new, and what may be called on it *)

NewServer(supported) ==
    [auth |-> FALSE, audiences |-> Unbound, policy |-> Loopback, published |-> None,
     required |-> {}, supported |-> supported]
OriginPolicy(server, policy)           == [server EXCEPT !.policy = policy]
ProtectedResource(server, metadata)    == [server EXCEPT !.published = metadata]
RequireScopes(server, scopes)          == [server EXCEPT !.required = scopes]
ServePlain(server)                     == server
ServeWithAuth(server, validator)       == [server EXCEPT !.auth = TRUE, !.audiences = validator]

-----------------------------------------------------------------------------
(* Responses *)

Response(status) ==
    [status |-> status, sent |-> <<>>, challenge |-> None, session |-> None, close |-> FALSE]

\* error_response: a JSON-RPC error object is the body.
ErrorResponse(status) == [Response(status) EXCEPT !.sent = <<"error">>]
Closing(response)     == [response EXCEPT !.close = TRUE]

\* challenge: only where metadata is published.
Challenged(response, challenge) ==
    IF config.published = None THEN response ELSE [response EXCEPT !.challenge = challenge]

Unauthorized ==
    Challenged(ErrorResponse(401),
               UnauthorizedChallenge(config.published.url, config.published.scopes))
Forbidden ==
    Challenged(ErrorResponse(403),
               InsufficientScopeChallenge(config.published.url, config.required))

\* The answer to a body that could not be read.
BodyErrors == [large |-> 413, malformed |-> 400, short |-> 400, slow |-> 408]

\* finish: what a processing error is answered with.
Finished(error) ==
    CASE error \in {"Json", "InvalidMessage", "InvalidRequest"} -> ErrorResponse(400)
      [] OTHER -> ErrorResponse(500)

-----------------------------------------------------------------------------
(* The transport-level checks *)

\* protected_resource_response: discovery needs no token.
ProtectedResourceResponse(r) ==
    IF r.method \in {"GET", "HEAD"} THEN [Response(200) EXCEPT !.sent = <<"metadata">>]
    ELSE ErrorResponse(405)

Endpoint == <<"/", "mcp">>

\* path_of and is_allowed of everything that may arrive, tabulated once.
Arriving == {o[1] : o \in Offered}
Targets  == {r.target : r \in Arriving} \cup
            UNION {{c.published.url, SubSeq(c.published.url, 4, Len(c.published.url))} :
                      c \in {d \in Configs : d.published # None}}
Paths    == [t \in Targets |-> PathOf(t)]
Allowed  == [policy \in {c.policy : c \in Configs} |->
                [o \in {r.origin : r \in Arriving} \ {None} |-> IsAllowed(policy, o)]]

\* None is none of the answers.
ASSUME AnswersAssumption ==
    None \notin {ErrorResponse(status) : status \in {400, 403, 404, 405}} \cup
                {[Response(200) EXCEPT !.sent = <<"metadata">>]}

\* precheck: the first check that fails answers; None passes.  No version
\* header means ASSUMED_PROTOCOL_VERSION.
Assumed == "2025-03-26"
Precheck(r) ==
    LET path    == Paths[r.target]
        version == IF r.version = None THEN Assumed ELSE r.version
    IN  IF config.published # None /\ path = config.published.path THEN ProtectedResourceResponse(r)
        ELSE IF path # Endpoint THEN ErrorResponse(404)
        ELSE IF r.method \notin {"POST", "DELETE"} THEN ErrorResponse(405)
        ELSE IF version \notin config.supported THEN ErrorResponse(400)
        ELSE IF r.origin # None /\ ~Allowed[config.policy][r.origin]
        THEN ErrorResponse(403)
        ELSE None

-----------------------------------------------------------------------------
(* Steps *)

Goto(q, stage)  == at' = [at EXCEPT ![q] = stage]
Reply(q, given) == answer' = [answer EXCEPT ![q] = given] /\ Goto(q, "answered")

Init ==
    /\ config \in Configs
    /\ serving = "new"
    /\ req = [q \in Slots |-> None]
    /\ at = [q \in Slots |-> "idle"]
    /\ who = [q \in Slots |-> None]
    /\ key = [q \in Slots |-> <<>>]
    /\ buf = [q \in Slots |-> [notes |-> <<>>, response |-> FALSE]]
    /\ worker = [q \in Slots |-> FALSE]
    /\ answer = [q \in Slots |-> None]
    /\ sessions = {}
    /\ drawn = {}
    /\ openers = {}
    /\ acked = [q \in Slots |-> <<>>]

\* serve_with_auth refuses a validator that is bound to no audience.
Serve ==
    /\ serving = "new"
    /\ serving' = IF config.auth /\ ~BindsAudience(config.audiences) THEN "refused" ELSE "up"
    /\ UNCHANGED <<config, req, at, who, key, buf, worker, answer, sessions, drawn, openers, acked>>

\* A request arrives; the session it names is any id that was ever handed out.
Arrive(q, r) ==
    /\ serving = "up" /\ at[q] = "idle"
    /\ r.session = None \/ r.session \in drawn
    /\ req' = [req EXCEPT ![q] = r]
    /\ Goto(q, "head")
    /\ UNCHANGED <<config, serving, who, key, buf, worker, answer, sessions, drawn, openers, acked>>

\* read_head: the framing is settled before the handler sees the request.
Frame(q) ==
    LET head == HeadFrom(req[q].method, "1.1", req[q].headers) IN
    /\ at[q] = "head"
    /\ IF head.ok THEN Goto(q, "precheck") /\ UNCHANGED answer
       ELSE Reply(q, Closing(Response(head.is)))
    /\ UNCHANGED <<config, serving, req, who, key, buf, worker, sessions, drawn, openers, acked>>

RunPrecheck(q) ==
    /\ at[q] = "precheck"
    /\ \E rejection \in {Precheck(req[q])} :
          IF rejection # None THEN Reply(q, rejection)
          ELSE Goto(q, IF config.auth THEN "auth" ELSE "route") /\ UNCHANGED answer
    /\ UNCHANGED <<config, serving, req, who, key, buf, worker, sessions, drawn, openers, acked>>

\* authenticated_response: 401 without a valid token, 403 without the scopes.
Authenticate(q) ==
    LET token == req[q].token IN
    /\ at[q] = "auth"
    /\ IF ~ExtractToken(req[q].scheme) \/ ~ValidateToken(config.audiences, token)
       THEN Reply(q, Unauthorized) /\ UNCHANGED who
       ELSE IF MissingScopes(token, config.required) # {}
       THEN Reply(q, Forbidden) /\ UNCHANGED who
       ELSE who' = [who EXCEPT ![q] = token] /\ Goto(q, "route") /\ UNCHANGED answer
    /\ UNCHANGED <<config, serving, req, key, buf, worker, sessions, drawn, openers, acked>>

Owner(q) == IF who[q] = None THEN <<>> ELSE OwnerOf(who[q])

\* end_session_for: DELETE.
EndSession(q) ==
    LET k == Key(Owner(q), req[q].session) IN
    /\ at[q] = "route" /\ req[q].method = "DELETE"
    /\ Reply(q, IF req[q].session = None THEN ErrorResponse(400)
                ELSE IF k \in sessions THEN Response(204) ELSE ErrorResponse(404))
    /\ sessions' = sessions \ {k}
    /\ UNCHANGED <<config, serving, req, who, key, buf, worker, drawn, openers, acked>>

\* respond: the session named, a new one, or 404.
Checkout(q) ==
    /\ at[q] = "route" /\ req[q].method = "POST"
    /\ IF req[q].session = None
       THEN \E id \in Ids \ drawn :
               /\ drawn' = drawn \cup {id}
               /\ key' = [key EXCEPT ![q] = Key(Owner(q), id)]
               /\ openers' = openers \cup {<<Key(Owner(q), id), who[q]>>}
               /\ Goto(q, "body") /\ UNCHANGED answer
       ELSE LET k == Key(Owner(q), req[q].session) IN
            /\ IF k \in sessions
               THEN key' = [key EXCEPT ![q] = k] /\ Goto(q, "body") /\ UNCHANGED answer
               ELSE Reply(q, ErrorResponse(404)) /\ UNCHANGED key
            /\ UNCHANGED <<drawn, openers>>
    /\ UNCHANGED <<config, serving, req, who, buf, worker, sessions, acked>>

\* Mutation: a body that does not arrive is waited for.
ReadBody_Waits(q) ==
    /\ at[q] = "body" /\ req[q].body # "slow"
    /\ IF req[q].body \in DOMAIN BodyErrors
       THEN Reply(q, Closing(ErrorResponse(BodyErrors[req[q].body])))
       ELSE Goto(q, "dispatch") /\ UNCHANGED answer
    /\ UNCHANGED <<config, serving, req, who, key, buf, worker, sessions, drawn, openers, acked>>

\* read_body: every failure ends the connection, the new session with it.
ReadBody(q) ==
    /\ at[q] = "body"
    /\ IF req[q].body \in DOMAIN BodyErrors
       THEN Reply(q, Closing(ErrorResponse(BodyErrors[req[q].body])))
       ELSE Goto(q, "dispatch") /\ UNCHANGED answer
    /\ UNCHANGED <<config, serving, req, who, key, buf, worker, sessions, drawn, openers, acked>>

-----------------------------------------------------------------------------
(* The HttpTransport *)

\* A message as the buffer keeps it: the response apart from the others.
Buffered(b, m) ==
    IF m = "response" THEN [b EXCEPT !.response = TRUE] ELSE [b EXCEPT !.notes = Append(@, m)]

\* Mutation: a response does not seal the buffer.
Write_Unsealed(q, m) ==
    /\ buf' = [buf EXCEPT ![q] = Buffered(@, m)]
    /\ acked' = [acked EXCEPT ![q] = Append(@, m)]

\* HttpTransport::write: after the response nothing can travel any more.
Write(q, m) ==
    IF buf[q].response THEN UNCHANGED <<buf, acked>>
    ELSE /\ buf' = [buf EXCEPT ![q] = Buffered(@, m)]
         /\ acked' = [acked EXCEPT ![q] = Append(@, m)]

\* A tool notifies or logs while the request is dispatched.
HandlerNotifies(q) ==
    /\ at[q] = "dispatch" /\ req[q].body \in {"request", "task"}
    /\ Len(buf[q].notes) < MaxNotes
    /\ Write(q, "note")
    /\ UNCHANGED <<config, serving, req, at, who, key, worker, answer, sessions, drawn, openers>>

\* The response is written; a task's worker is let go by it.
HandlerResponds(q) ==
    /\ at[q] = "dispatch" /\ req[q].body \in {"request", "task"}
    /\ Write(q, "response")
    /\ worker' = [worker EXCEPT ![q] = req[q].body = "task"]
    /\ Goto(q, "processed")
    /\ UNCHANGED <<config, serving, req, who, key, answer, sessions, drawn, openers>>

\* A notification or a response of the client produces nothing.
HandlerAccepts(q) ==
    /\ at[q] = "dispatch" /\ req[q].body = "notification"
    /\ Goto(q, "processed")
    /\ UNCHANGED <<config, serving, req, who, key, buf, worker, answer, sessions, drawn, openers, acked>>

\* The body does not parse, or setup, the context factory or the handler fails
\* or panics; guarded makes all of them an error of this request.
HandlerFails(q) ==
    /\ at[q] = "dispatch"
    /\ Goto(q, "settled")
    /\ answer' = [answer EXCEPT ![q] =
                     CASE req[q].body = "garbage" -> Finished("Json")
                       [] req[q].body = "batch" -> Finished("InvalidRequest")
                       [] OTHER -> Finished("Internal")]
    /\ UNCHANGED <<config, serving, req, who, key, buf, worker, sessions, drawn, openers, acked>>

WorkerWrites(q) ==
    /\ worker[q]
    /\ Write(q, "late")
    /\ worker' = [worker EXCEPT ![q] = FALSE]
    /\ UNCHANGED <<config, serving, req, at, who, key, answer, sessions, drawn, openers>>

\* take_sse_response: one event for each message, the response last.
HasNotifications(b) == b.notes # <<>>
TakeSseResponse(b)  == Append(b.notes, "response")

\* answer_from and finish: no response is 202, one with company is a stream.
AnswerFrom(q) ==
    /\ at[q] = "processed"
    /\ Goto(q, "settled")
    /\ answer' = [answer EXCEPT ![q] =
                     IF ~buf[q].response THEN Response(202)
                     ELSE [Response(200) EXCEPT !.sent =
                              IF HasNotifications(buf[q]) THEN TakeSseResponse(buf[q])
                              ELSE <<"response">>]]
    /\ UNCHANGED <<config, serving, req, who, key, buf, worker, sessions, drawn, openers, acked>>

\* check_in: the session is kept, and advertised, or forgotten.
CheckIn(q, keep) ==
    /\ at[q] = "settled"
    /\ sessions' = IF keep THEN sessions \cup {key[q]} ELSE sessions \ {key[q]}
    /\ answer' = [answer EXCEPT ![q].session = IF keep THEN Last(key[q]) ELSE None]
    /\ Goto(q, "answered")
    /\ UNCHANGED <<config, serving, req, who, key, buf, worker, drawn, openers, acked>>

\* contained: a panic anywhere on the way is an answer as well.
Panics(q) ==
    /\ at[q] \in {"precheck", "auth", "route", "body", "settled"}
    /\ Reply(q, Closing(ErrorResponse(500)))
    /\ UNCHANGED <<config, serving, req, who, key, buf, worker, sessions, drawn, openers, acked>>

\* sweep and evict_oldest forget sessions.
Expire(k) ==
    /\ k \in sessions
    /\ sessions' = sessions \ {k}
    /\ UNCHANGED <<config, serving, req, at, who, key, buf, worker, answer, drawn, openers, acked>>

Step(q) ==
    \/ Frame(q) \/ RunPrecheck(q) \/ Authenticate(q) \/ EndSession(q) \/ Checkout(q)
    \/ ReadBody(q) \/ HandlerResponds(q) \/ HandlerAccepts(q) \/ HandlerFails(q)
    \/ AnswerFrom(q) \/ (\E keep \in BOOLEAN : CheckIn(q, keep))

Next ==
    \/ Serve
    \/ \E q \in Slots : Step(q) \/ HandlerNotifies(q) \/ WorkerWrites(q) \/ Panics(q)
    \/ /\ serving = "up"
       /\ \E q \in config.connections : at[q] = "idle"
       /\ \E o \in Offered : o[2] = config.traffic /\ \E q \in config.connections : Arrive(q, o[1])
    \/ \E k \in sessions : Expire(k)

\* A connection thread runs, and read_body is bounded by the read deadline.
Spec == Init /\ [][Next]_vars /\ \A q \in Slots : WF_vars(Step(q))

-----------------------------------------------------------------------------
(* Properties *)

\* What the client meant names a loopback host: the reading of RFC 6454, by
\* which what precedes an "@" is no part of the host.
Trusted(policy, o) ==
    CASE policy.kind = "any" -> TRUE
      [] policy.kind = "loopback" ->
            o.host # "null" /\ o.host \in {"localhost", "LOCALHOST", "app.localhost", "127.0.0.1", "[::1]"}
      [] OTHER -> \E a \in policy.list : a = Lower(<<o.scheme, "://", o.host>> \o o.port)

\* What path_of and is_allowed accept of what may arrive, the client also meant.
ReadAsMeant ==
    \A r \in Arriving, c \in Configs :
        /\ PathOf(r.target) = Endpoint => r.asked.path = Endpoint
        /\ r.page # None => r.origin # None
        /\ r.page # None /\ IsAllowed(c.policy, r.origin) => Trusted(c.policy, r.page)

Past == {"body", "dispatch", "processed", "settled"}

\* Whatever the spelling, a request is processed only if it asked for the
\* endpoint, in a supported version, from an acceptable page, and carried a live
\* signed token that was issued for this server with the scopes it needs.
Entitled ==
    \A q \in Slots : at[q] \in Past =>
        LET r == req[q] IN
        /\ r.asked.path = Endpoint
        /\ r.method = "POST"
        /\ (IF r.version = None THEN Assumed ELSE r.version) \in config.supported
        /\ r.page # None => Trusted(config.policy, r.page)
        /\ config.auth => /\ r.token.signed /\ ~r.token.expired /\ ~r.token.early
                          /\ r.token.aud \cap config.audiences # {}
                          /\ config.required \subseteq r.token.scopes

\* A session belongs to whoever opened it: no request is processed in a session
\* another subject or tenant began, whatever ids it knows and however its claims
\* are spelt.
Isolated ==
    \A q \in Slots : at[q] \in Past /\ config.auth =>
        \A o \in openers : o[1] = key[q] =>
            o[2].sub = who[q].sub /\ TenantId(o[2]) = TenantId(who[q])

\* No request is processed without the right to be, in itself and in its session.
Authorized == Entitled /\ Isolated

\* A 200 carries exactly the messages whose writes were acknowledged, in order,
\* the response last; a task worker that is late is told so instead of changing
\* what is sent.
Settled ==
    \A q \in Slots : answer[q] # None /\ answer[q].status = 200 /\ answer[q].sent # <<"metadata">> =>
        answer[q].sent = acked[q]

\* The URL the challenge to q names is served: asked for over GET, without a
\* token, in the absolute or the origin form, it gets the metadata document.
Discoverable(q) ==
    answer[q].challenge # None =>
        LET url == answer[q].challenge.url
            get == [req[q] EXCEPT !.method = "GET", !.target = url]
        IN  /\ Precheck(get).sent = <<"metadata">>
            /\ Precheck([get EXCEPT !.target = SubSeq(url, 4, Len(url))]).sent = <<"metadata">>

\* A request whose framing was accepted is read the same way by every recipient:
\* no two ways of reading its length disagree about where its body ends.
Unambiguous ==
    \A q \in Slots : at[q] \notin {"idle", "head", "answered"} =>
        LET head == HeadFrom(req[q].method, "1.1", req[q].headers) IN
        Readings("1.1", req[q].headers) = {head.is.framing}

\* Every request that arrives is answered, panics and unreadable bodies included,
\* and a refusal that says where to get a token says something that helps: its URL
\* is served.
Served == \A q \in Slots : (at[q] # "idle") ~> (answer[q] # None /\ Discoverable(q))
=============================================================================
