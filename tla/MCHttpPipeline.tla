--------------------------- MODULE MCHttpPipeline ---------------------------
(* Requests that differ from a good one in one or two respects, and servers  *)
(* with and without authentication.                                          *)
EXTENDS HttpPipeline

Here  == ParseResource(<<"HTTP", "://", "host", "/", "mcp", "/">>)
There == ParseResource(<<"http", "://", "evil">>)
Token(sub, tenant) == Claims(sub, tenant, {Here}, {"read"})
Good ==
    [asked |-> [authority |-> <<>>, path |-> Endpoint, rest |-> <<>>],
     method |-> "POST", headers |-> <<<<"content-length", "1">>>>, version |-> "2025-06-18",
     page |-> None, scheme |-> <<"Bearer", "t">>, token |-> Token(<<"a">>, <<>>),
     session |-> None, body |-> "request"]

Page(scheme, user, host, port, rest) ==
    [scheme |-> scheme, user |-> user, host |-> host, port |-> port, rest |-> rest]
Target(authority, path, rest) == [authority |-> authority, path |-> path, rest |-> rest]

OddTargets ==
    {[Good EXCEPT !.asked = t] : t \in
        {Target(<<>>, <<>>, <<>>)} \cup
        {Target(a, p, r) : a \in {<<>>, <<"host">>},
                           p \in {Endpoint, <<"/", "MCP">>, <<"/", ".well-known", "/", "mcp">>},
                           r \in {<<>>, <<"?", "http", "://", "x", "/", "x">>, <<"#", "/", "mcp">>}}}
Origins ==
    {[Good EXCEPT !.page = Page(s, u, h, p, r)] :
        s \in {"http", "80"}, u \in {<<>>, <<"localhost", "@">>, <<"localhost", ":", "80", "@">>},
        h \in {"LOCALHOST", "127.0.0.1", "evil", "null"}, p \in {<<>>, <<":", "80">>, <<":", "99999">>},
        r \in {<<>>, <<"/">>, <<"/", "x">>}}
Tokens ==
    {[Good EXCEPT !.token = t] : t \in
        {[Token(<<"a">>, <<>>) EXCEPT !.signed = FALSE],
         [Token(<<"a">>, <<>>) EXCEPT !.expired = TRUE],
         [Token(<<"a">>, <<>>) EXCEPT !.early = TRUE],
         [Token(<<"a">>, <<>>) EXCEPT !.aud = {Here, There}],
         [Token(<<"a">>, <<>>) EXCEPT !.aud = {There}],
         [Token(<<"a">>, <<>>) EXCEPT !.aud = {}],
         [Token(<<"a">>, <<>>) EXCEPT !.scopes = {"write"}]}}
Others ==
    {[Good EXCEPT !.version = v] : v \in {None, "1999-01-01"}} \cup
    {[Good EXCEPT !.method = m] : m \in {"GET", "HEAD", "OTHER"}} \cup
    {[Good EXCEPT !.method = m, !.asked.path = <<"/", ".well-known", "/", "mcp">>] : m \in {"GET", "HEAD"}} \cup
    {[Good EXCEPT !.scheme = s] : s \in {<<>>, <<"Basic", "t">>, <<"bearer", "t">>, <<"Bearer">>}} \cup
    {[Good EXCEPT !.body = b] : b \in {"task", "notification", "garbage", "batch", "large",
                                       "malformed", "short", "slow"}}
Framings == {[Good EXCEPT !.headers = <<f, g>>] : f, g \in Fields}

\* Clients that know of each other's sessions, and claims that try to read alike.
Sub2 == <<"b", Sep, "a", Sep, "b">>
Peers ==
    {[Good EXCEPT !.token = Token(c[1], c[2]), !.method = m, !.session = id] :
        c \in {<<<<"a">>, <<>>>>, <<<<"a">>, <<"b">>>>, <<<<"a", Sep, "b">>, <<>>>>, <<<<"a">>, Sub2>>},
        m \in {"POST", "DELETE"}, id \in Ids \cup {None}}

SmallOffered ==
    {<<Spelt(r), "odd">> : r \in OddTargets \cup Origins \cup Tokens \cup Others \cup Framings} \cup
    {<<Spelt(r), "peers">> : r \in Peers}

Both     == {"2025-06-18", Assumed}
Asked    == RequireScopes(NewServer(Both), {"read"})
Public(server) == ProtectedResource(server, Metadata(Here, {"read"}))
Locked   == ServeWithAuth(Asked, ForResource(Unbound, Here))
\* The resource as published may be one that does not parse.
Published(server, uri) ==
    IF ParseResource(uri) = <<>> THEN server
    ELSE ProtectedResource(server, Metadata(ParseResource(uri), {"read"}))
Meets(server, traffic, slots) == server @@ [traffic |-> traffic, connections |-> slots]
SmallConfigs ==
    {Meets(server, "odd", {1}) : server \in
        {ServePlain(Asked),
         OriginPolicy(Public(NewServer({"2025-06-18"})), Allowlist({<<"HTTP", "://", "evil", ":", "80", "/">>})),
         Public(Locked),
         OriginPolicy(Published(Locked, <<"http", "://", "host", "/", "mcp", "?", "x">>), AnyOrigin),
         Public(ServeWithAuth(Asked, Unbound))}} \cup
    {Meets(Public(Locked), "peers", Slots)}

ASSUME SpellingsAssumption == ReadAsMeant
=============================================================================
