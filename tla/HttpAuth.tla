------------------------------ MODULE HttpAuth ------------------------------
(***************************************************************************)
(* The checks of auth/jwt.rs, auth/resource.rs and transport/origin.rs,    *)
(* and http.rs's path_of.  A text is the sequence of its parts: "http",    *)
(* "://", "localhost", "/", "?", ...; a part is either punctuation or a    *)
(* word with no punctuation in it.  An absent value is <<>>.               *)
(***************************************************************************)
EXTENDS Integers, Sequences, SequencesExt

Sep == "SOH"        \* IDENTITY_SEPARATOR, a control character

\* to_ascii_lowercase, on the words the model spells in two ways.
Lower(text) ==
    LET lower == [HTTP |-> "http", LOCALHOST |-> "localhost", MCP |-> "mcp", Bearer |-> "bearer"]
    IN  [i \in DOMAIN text |-> IF text[i] \in DOMAIN lower THEN lower[text[i]] ELSE text[i]]

At(text, part)     == SelectInSeq(text, LAMBDA p : p = part)
Before(text, part) == IF At(text, part) = 0 THEN text ELSE SubSeq(text, 1, At(text, part) - 1)
After(text, part)  == SubSeq(text, At(text, part) + 1, Len(text))
StripSlash(text)   == IF text # <<>> /\ Last(text) = "/" THEN Front(text) ELSE text

Words == {"http", "HTTP", "mcp", "MCP", "host", "localhost", "LOCALHOST", "app.localhost",
          "127.0.0.1", "[::1]", "evil", "null", "id", "x", "80", "99999", ".well-known"}
AlphaWords == Words \ {"127.0.0.1", "[::1]", "80", "99999", ".well-known"}

\* path_of: only a target that does not open with a slash can have an authority.
PathOf(target) ==
    LET rest == After(target, "://")
        path == IF (target # <<>> /\ target[1] = "/") \/ At(target, "://") = 0 THEN target
                ELSE IF At(rest, "/") = 0 THEN <<"/">>
                ELSE SubSeq(rest, At(rest, "/"), Len(rest))
    IN  Before(Before(path, "?"), "#")

-----------------------------------------------------------------------------
(* transport/origin.rs *)

Hosts == {"host", "localhost", "app.localhost", "127.0.0.1", "[::1]", "evil"}

\* normalize_origin: scheme, host and port, or <<>> for what is no origin.  Of the
\* ports the model spells only "80" is digits that fit a u16.
NormalizeOrigin(origin) ==
    LET scheme    == Before(origin, "://")
        authority == StripSlash(After(origin, "://"))
        host      == Before(authority, ":")
        port      == After(authority, ":")
    IN  IF \/ At(origin, "://") = 0
           \/ Len(scheme) # 1 \/ scheme[1] \notin AlphaWords
           \/ \E p \in {"/", "?", "#", "@"} : At(authority, p) # 0
           \/ host = <<>>
           \/ At(authority, ":") # 0 /\ port \notin {<<"80">>}
        THEN <<>>
        ELSE Lower(scheme) \o <<"://">> \o Lower(host) \o
             (IF At(authority, ":") = 0 THEN <<>> ELSE <<":">> \o port)

\* host_of and is_loopback_host.
IsLoopbackHost(host) == host \in {"localhost", "app.localhost", "127.0.0.1", "[::1]"}
HostOf(normalized)   == Before(After(normalized, "://"), ":")[1]

\* An OriginPolicy; an entry of an allowlist that is no origin stays as it is.
Loopback  == [kind |-> "loopback", list |-> {}]
AnyOrigin == [kind |-> "any", list |-> {}]
Allowlist(origins) ==
    [kind |-> "allowlist",
     list |-> {IF NormalizeOrigin(o) = <<>> THEN o ELSE NormalizeOrigin(o) : o \in origins}]

IsAllowed(policy, origin) ==
    LET n == NormalizeOrigin(origin) IN
    \/ policy.kind = "any"
    \/ n # <<>> /\ \/ policy.kind = "allowlist" /\ n \in policy.list
                   \/ policy.kind = "loopback" /\ IsLoopbackHost(HostOf(n))

-----------------------------------------------------------------------------
(* auth/resource.rs *)

\* Mutation: a query string is part of the canonical form.
ParseResource_KeepsQuery(uri) ==
    LET scheme    == Before(uri, "://")
        rest      == After(uri, "://")
        authority == Before(rest, "/")
        path      == StripSlash(SubSeq(rest, Len(authority) + 1, Len(rest)))
    IN  IF At(uri, "#") # 0 \/ At(uri, "://") = 0
           \/ scheme = <<>> \/ scheme[1] \notin AlphaWords \/ authority = <<>>
        THEN <<>>
        ELSE Lower(scheme) \o <<"://">> \o Lower(authority) \o path

\* ResourceUri::parse: the canonical form, or <<>> for a refusal.
ParseResource(uri) ==
    LET scheme    == Before(uri, "://")
        rest      == After(uri, "://")
        authority == Before(rest, "/")
        path      == StripSlash(SubSeq(rest, Len(authority) + 1, Len(rest)))
    IN  IF At(uri, "#") # 0 \/ At(uri, "?") # 0 \/ At(uri, "://") = 0
           \/ scheme = <<>> \/ scheme[1] \notin AlphaWords \/ authority = <<>>
        THEN <<>>
        ELSE Lower(scheme) \o <<"://">> \o Lower(authority) \o path

\* ResourceUri::origin and path, of a canonical URI.
OriginOf(resource) ==
    Before(resource, "://") \o <<"://">> \o Before(After(resource, "://"), "/")
ResourcePath(resource) == SubSeq(resource, Len(OriginOf(resource)) + 1, Len(resource))

WellKnown == <<"/", ".well-known">>
MetadataUrl(resource)  == OriginOf(resource) \o WellKnown \o ResourcePath(resource)
MetadataPath(resource) == WellKnown \o ResourcePath(resource)

\* ProtectedResourceMetadata, and the challenges that point at it.
Metadata(resource, scopes) ==
    [resource |-> resource, scopes |-> scopes, url |-> MetadataUrl(resource), path |-> MetadataPath(resource)]
UnauthorizedChallenge(url, scopes) == [error |-> "", url |-> url, scopes |-> scopes]
InsufficientScopeChallenge(url, scopes) ==
    [error |-> "insufficient_scope", url |-> url, scopes |-> scopes]

-----------------------------------------------------------------------------
(* auth/jwt.rs *)

\* jsonwebtoken::decode under base_validation: no audience is looked at.
Decodes(token) == token.signed /\ ~token.expired /\ ~token.early

\* extract_token: the scheme in any case, one space, a token.
ExtractToken(header) == Len(header) = 2 /\ Lower(header)[1] = "bearer"

\* Claims, of a token that is as it should be: an aud of one string, of several
\* or of none is a set, and a scope string the set of its words.
Claims(sub, tenant, aud, scopes) ==
    [signed |-> TRUE, expired |-> FALSE, early |-> FALSE, sub |-> sub, tenant |-> tenant,
     aud |-> aud, scopes |-> scopes]

\* tenant_id falls back to the subject.
TenantId(claims) == IF claims.tenant = <<>> THEN claims.sub ELSE claims.tenant
HasScope(claims, scope)         == scope \in claims.scopes
MissingScopes(claims, required) == {s \in required : ~HasScope(claims, s)}

\* Audience::contains, of any of these.
IsFor(claims, audiences) == audiences \cap claims.aud # {}

\* JwtValidator: unbound as constructed, bound by each audience it is given.
Unbound                           == {}
WithAudience(audiences, audience) == audiences \cup {audience}
ForResource(audiences, resource)  == WithAudience(audiences, resource)
BindsAudience(audiences)          == audiences # {}

\* Mutation: a token with no audience is let through, as jsonwebtoken does.
ValidateToken_NoAudience(audiences, token) ==
    /\ Decodes(token)
    /\ Sep \notin Range(token.sub) \cup Range(token.tenant)
    /\ token.aud = {} \/ audiences \cap token.aud # {}

\* Mutation: a claim may carry the separator.
ValidateToken_AnyClaim(audiences, token) ==
    /\ Decodes(token)
    /\ audiences = {} \/ audiences \cap token.aud # {}

\* JwtValidator::validate, of a token that could be extracted.
ValidateToken(audiences, token) ==
    /\ Decodes(token)
    /\ Sep \notin Range(token.sub) \cup Range(token.tenant)
    /\ ~BindsAudience(audiences) \/ IsFor(token, audiences)

\* owner_of and Sessions::key.
OwnerOf(claims) == claims.sub \o <<Sep>> \o TenantId(claims)
Key(owner, id)  == IF owner = <<>> THEN <<id>> ELSE owner \o <<Sep, id>>
=============================================================================
