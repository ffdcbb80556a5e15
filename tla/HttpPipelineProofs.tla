------------------------ MODULE HttpPipelineProofs ------------------------
(***************************************************************************)
(* What TLAPS proves of HttpPipeline, for any number of connections, any   *)
(* configurations and any requests: who is processed and in which session, *)
(* what an answer carries, and that its framing is read one way only.      *)
(***************************************************************************)
EXTENDS HttpPipeline, SequenceTheorems, TLAPS

-----------------------------------------------------------------------------
(* Framing *)

\* A number this server accepts is the number every recipient reads.
LEMMA DeclaredAlike ==
    ASSUME NEW text, ByDeclared(text).ok
    PROVE  ByDeclared(text).is = ByLength(text)
<1>1. CASE text \in {"0", "1", "01", "9"}
  BY <1>1 DEF ByDeclared, Declared, ByLength, Lenient, Ok, Refuse
<1>2. CASE text \notin {"0", "1", "01", "9"}
  <2>1. Declared(text) = Refuse(400)
    BY <1>2 DEF Declared
  <2> QED BY <2>1 DEF ByDeclared, Refuse
<1> QED BY <1>1, <1>2

\* framing_of accepts only what every recipient reads alike.
LEMMA FramingAlike ==
    ASSUME NEW headers, FramingOf(headers).ok
    PROVE  Readings("1.1", headers) = {FramingOf(headers).is}
<1> DEFINE te == Named(headers, "transfer-encoding")
           tv == Values(headers, "transfer-encoding")
           cl == Values(headers, "content-length")
           twice == (\E i, j \in te : i # j) \/ (\E v, w \in cl : v # w)
<1>1. te = {} <=> tv = {}
  BY DEF Values
<1>2. ~Refuse(400).ok /\ ~Refuse(501).ok
  BY DEF Refuse
<1>3. ~(twice \/ (te # {} /\ cl # {}))
  <2>1. twice \/ (te # {} /\ cl # {}) => FramingOf(headers) = Refuse(400)
    BY DEF FramingOf
  <2> QED BY <1>2, <2>1
<1>4. CASE te # {}
  <2>1. cl = {} /\ FramingOf(headers) = ByCoding(HeaderOf(headers, "transfer-encoding"))
    BY <1>3, <1>4 DEF FramingOf
  <2>2. FramingOf(headers).is = Chunked
    BY <1>2, <2>1 DEF ByCoding, Ok
  <2>3. Readings("1.1", headers) = {Chunked}
    BY <1>1, <1>4, <2>1 DEF Readings
  <2> QED BY <2>2, <2>3
<1>5. CASE te = {} /\ cl # {}
  <2> DEFINE v == CHOOSE v \in cl : TRUE
  <2>1. v \in cl
    BY <1>5
  <2>2. cl = {v}
    BY <1>3, <2>1
  <2>3. FramingOf(headers) = ByDeclared(v)
    BY <1>3, <1>5 DEF FramingOf
  <2> HIDE DEF v
  <2>4. FramingOf(headers).is = ByLength(v)
    BY <2>3, DeclaredAlike
  <2>5. Readings("1.1", headers) = {ByLength(w) : w \in cl}
    BY <1>1, <1>5 DEF Readings
  <2> QED BY <2>2, <2>4, <2>5
<1>6. CASE te = {} /\ cl = {}
  <2>1. FramingOf(headers) = Ok(Empty)
    BY <1>3, <1>6 DEF FramingOf
  <2>2. Readings("1.1", headers) = {Empty}
    BY <1>1, <1>6 DEF Readings
  <2> QED BY <2>1, <2>2 DEF Ok
<1> QED BY <1>4, <1>5, <1>6

\* A head that is accepted has its framing from framing_of; one that is not gets
\* an error.
LEMMA HeadFraming ==
    ASSUME NEW method, NEW version, NEW headers
    PROVE  LET head == HeadFrom(method, version, headers) IN
           /\ head.ok => FramingOf(headers).ok /\ head.is.framing = FramingOf(headers).is
           /\ ~head.ok => head.is \in {400, 417, 501}
<1> DEFINE framing  == FramingOf(headers)
           head     == HeadFrom(method, version, headers)
           expect   == HeaderOf(headers, "expect")
           conn     == HeaderOf(headers, "connection")
           good     == Ok([method  |-> method,
                           version |-> version,
                           framing |-> framing.is,
                           expects |-> expect = "100-continue" /\ version = "1.1",
                           close   |-> IF version = "1.1" THEN conn = "close"
                                       ELSE conn # "keep-alive"])
<1>1. \/ head = Refuse(400) \/ head = Refuse(417)
      \/ head = framing /\ ~framing.ok
      \/ head = good /\ framing.ok
  <2> HIDE DEF framing, expect, conn
  <2> QED BY DEF HeadFrom, framing, expect, conn
<1>2. ~framing.ok => framing.is \in {400, 501}
  <2> DEFINE coding   == HeaderOf(headers, "transfer-encoding")
             declared == CHOOSE v \in Values(headers, "content-length") : TRUE
  <2>1. ~ByDeclared(declared).ok => ByDeclared(declared).is = 400
    <3>1. ~Declared(declared).ok => Declared(declared).is = 400
      BY DEF Declared, Ok, Refuse
    <3> HIDE DEF declared
    <3> QED BY <3>1 DEF ByDeclared, Ok
  <2>2. ~ByCoding(coding).ok => ByCoding(coding).is = 501
    <3> HIDE DEF coding
    <3> QED BY DEF ByCoding, Ok, Refuse
  <2>3. framing = Refuse(400) \/ framing = Ok(Empty) \/ framing = ByCoding(coding)
        \/ framing = ByDeclared(declared)
    BY DEF FramingOf
  <2> HIDE DEF framing, coding, declared
  <2> QED BY <2>1, <2>2, <2>3 DEF Ok, Refuse
<1>3. good.ok /\ good.is.framing = framing.is
  BY DEF Ok
<1> HIDE DEF framing, head, good
<1>4. head.ok => framing.ok /\ head.is.framing = framing.is
  BY <1>1, <1>3 DEF Refuse
<1>5. ~head.ok => head.is \in {400, 417, 501}
  BY <1>1, <1>2, <1>3 DEF Refuse
<1> QED BY <1>4, <1>5 DEF framing, head

-----------------------------------------------------------------------------
(* Session keys *)

\* Claims a validator has let through.
Sound(t) ==
    /\ t.sub \in Seq(STRING) /\ t.tenant \in Seq(STRING)
    /\ Sep \notin Range(t.sub) \cup Range(t.tenant)

\* Two texts joined by a separator, with an id behind them, part by part.
Joined(a, s, b, id) == ((a \o <<s>>) \o b) \o <<s, id>>
HasParts(k, a, s, b) ==
    /\ Len(k) = Len(a) + Len(b) + 3
    /\ \A i \in 1 .. Len(a) : k[i] = a[i]
    /\ k[Len(a) + 1] = s
    /\ \A i \in 1 .. Len(b) : k[Len(a) + 1 + i] = b[i]
Lacks(a, s) == \A i \in 1 .. Len(a) : a[i] # s

LEMMA JoinedParts ==
    ASSUME NEW S, NEW a \in Seq(S), NEW b \in Seq(S), NEW s \in S, NEW id \in S
    PROVE  HasParts(Joined(a, s, b, id), a, s, b) /\ (a \o <<s>>) \o b # <<>>
<1> DEFINE x == a \o <<s>>
           o == x \o b
           k == Joined(a, s, b, id)
<1>1. Len(a) \in Nat /\ Len(b) \in Nat
  OBVIOUS
<1>2. /\ x \in Seq(S) /\ Len(x) = Len(a) + 1
      /\ \A i \in 1 .. Len(a) : x[i] = a[i]
      /\ x[Len(a) + 1] = s
  OBVIOUS
<1> HIDE DEF x
<1>3. /\ o \in Seq(S) /\ Len(o) = Len(x) + Len(b)
      /\ \A i \in 1 .. Len(x) : o[i] = x[i]
      /\ \A i \in 1 .. Len(b) : o[Len(x) + i] = b[i]
  <2>1. /\ o \in Seq(S) /\ Len(o) = Len(x) + Len(b)
        /\ \A i \in 1 .. Len(x) + Len(b) : o[i] = IF i <= Len(x) THEN x[i] ELSE b[i - Len(x)]
    BY <1>2, ConcatProperties
  <2> HIDE DEF o
  <2>2. ASSUME NEW i \in 1 .. Len(b) PROVE o[Len(x) + i] = b[i]
    <3>1. /\ Len(x) + i \in 1 .. Len(x) + Len(b) /\ ~(Len(x) + i <= Len(x))
          /\ (Len(x) + i) - Len(x) = i
      BY <1>1, <1>2
    <3> QED BY <2>1, <3>1
  <2> QED BY <1>1, <1>2, <2>1, <2>2
<1>4. k = o \o <<s, id>>
  BY DEF Joined, x
<1> HIDE DEF o, k
<1>5. Len(k) = Len(o) + 2 /\ \A i \in 1 .. Len(o) : k[i] = o[i]
  <2>1. <<s, id>> \in Seq(S) /\ Len(<<s, id>>) = 2
    OBVIOUS
  <2>2. /\ Len(k) = Len(o) + 2
        /\ \A i \in 1 .. Len(o) + 2 : k[i] = IF i <= Len(o) THEN o[i] ELSE <<s, id>>[i - Len(o)]
    BY <1>3, <1>4, <2>1, ConcatProperties
  <2> QED BY <1>1, <1>2, <1>3, <2>2
<1>6. \A i \in 1 .. Len(a) + 1 : k[i] = x[i]
  BY <1>1, <1>2, <1>3, <1>5
<1>7. ASSUME NEW i \in 1 .. Len(b) PROVE k[Len(a) + 1 + i] = b[i]
  <2>1. Len(a) + 1 + i \in 1 .. Len(o) /\ Len(a) + 1 + i = Len(x) + i
    BY <1>1, <1>2, <1>3
  <2> QED BY <1>3, <1>5, <2>1
<1>8. Len(k) = Len(a) + Len(b) + 3 /\ Len(o) # 0
  BY <1>1, <1>2, <1>3, <1>5
<1>9. \A i \in 1 .. Len(a) : k[i] = a[i]
  BY <1>1, <1>2, <1>6
<1>10. k[Len(a) + 1] = s
  BY <1>1, <1>2, <1>6
<1>11. o # <<>>
  BY <1>8
<1> QED BY <1>7, <1>8, <1>9, <1>10, <1>11 DEF HasParts, k, o, x

\* The separator is in neither of the first texts, so they end at the same place.
LEMMA JoinedApart ==
    ASSUME NEW S, NEW s \in S, NEW i \in S, NEW j \in S,
           NEW a \in Seq(S), NEW b \in Seq(S), NEW c \in Seq(S), NEW d \in Seq(S),
           Lacks(a, s), Lacks(c, s),
           Joined(a, s, b, i) = Joined(c, s, d, j)
    PROVE  a = c /\ b = d
<1> DEFINE k == Joined(a, s, b, i)
<1>1. Len(a) \in Nat /\ Len(b) \in Nat /\ Len(c) \in Nat /\ Len(d) \in Nat
  OBVIOUS
<1>2. HasParts(k, a, s, b)
  BY JoinedParts
<1>3. HasParts(k, c, s, d)
  BY JoinedParts
<1> HIDE DEF k
<1>4. Len(a) = Len(c)
  <2>1. ASSUME Len(a) < Len(c) PROVE FALSE
    <3>1. Len(a) + 1 \in 1 .. Len(c)
      BY <1>1, <2>1
    <3> QED BY <1>2, <1>3, <3>1 DEF HasParts, Lacks
  <2>2. ASSUME Len(c) < Len(a) PROVE FALSE
    <3>1. Len(c) + 1 \in 1 .. Len(a)
      BY <1>1, <2>2
    <3> QED BY <1>2, <1>3, <3>1 DEF HasParts, Lacks
  <2> QED BY <1>1, <2>1, <2>2
<1>5. a = c
  <2>1. \A n \in 1 .. Len(a) : a[n] = c[n]
    BY <1>2, <1>3, <1>4 DEF HasParts
  <2> QED BY <1>4, <2>1, SeqEqual
<1>6. b = d
  <2>1. Len(b) = Len(d)
    BY <1>1, <1>2, <1>3, <1>4 DEF HasParts
  <2>2. \A n \in 1 .. Len(b) : b[n] = d[n]
    BY <1>2, <1>3, <1>4, <2>1 DEF HasParts
  <2> QED BY <2>1, <2>2, SeqEqual
<1> QED BY <1>5, <1>6

\* Sessions::key is injective on claims that do not carry the separator: whoever
\* has the same key has the same subject and the same tenant.
LEMMA KeyTellsApart ==
    ASSUME NEW t, NEW u, Sound(t), Sound(u), NEW i \in Ids, NEW j \in Ids,
           Key(OwnerOf(t), i) = Key(OwnerOf(u), j)
    PROVE  t.sub = u.sub /\ TenantId(t) = TenantId(u)
<1> DEFINE S == STRING \cup Ids \cup {Sep}
<1>1. \A text : text \in Seq(STRING) => text \in Seq(S)
  OBVIOUS
<1>2. Sep \in S /\ i \in S /\ j \in S
  OBVIOUS
<1> HIDE DEF S
<1>3. ASSUME NEW v, Sound(v), NEW id \in S
      PROVE  /\ v.sub \in Seq(S) /\ TenantId(v) \in Seq(S) /\ Lacks(v.sub, Sep)
             /\ Key(OwnerOf(v), id) = Joined(v.sub, Sep, TenantId(v), id)
  <2>1. v.sub \in Seq(S) /\ TenantId(v) \in Seq(S)
    BY <1>1, <1>3 DEF Sound, TenantId
  <2>2. Lacks(v.sub, Sep)
    BY <1>3 DEF Sound, Range, Lacks
  <2>3. OwnerOf(v) # <<>>
    BY <1>2, <2>1, JoinedParts DEF OwnerOf
  <2> QED BY <2>1, <2>2, <2>3 DEF Key, OwnerOf, Joined
<1>4. Joined(t.sub, Sep, TenantId(t), i) = Joined(u.sub, Sep, TenantId(u), j)
  BY <1>2, <1>3
<1> QED BY <1>2, <1>3, <1>4, JoinedApart

-----------------------------------------------------------------------------
(* The invariant *)

Domains ==
    /\ DOMAIN req = Slots /\ DOMAIN at = Slots /\ DOMAIN who = Slots /\ DOMAIN key = Slots
    /\ DOMAIN buf = Slots /\ DOMAIN worker = Slots /\ DOMAIN answer = Slots /\ DOMAIN acked = Slots

\* What there is one of: the server, and the sessions' ids.  A server that checks
\* tokens has an audience to check them for, and a session that was begun is kept
\* under the key of whoever began it.
ServerInv ==
    /\ config \in Configs
    /\ drawn \subseteq Ids
    /\ serving = "up" /\ config.auth => BindsAudience(config.audiences)
    /\ config.auth => \A o \in openers : Sound(o[2]) /\ \E id \in Ids : o[1] = Key(OwnerOf(o[2]), id)

Met(q) == at[q] # "idle" =>
    /\ serving = "up"
    /\ req[q] \in Arriving
    /\ req[q].session = None \/ req[q].session \in drawn

Stages == {"idle", "head", "precheck", "auth", "route", "answered"} \cup Past

HeadAccepted(q) == at[q] \notin {"idle", "head", "answered"} =>
    HeadFrom(req[q].method, "1.1", req[q].headers).ok

Checked(q) == at[q] \in {"auth", "route"} \cup Past => Precheck(req[q]) = None

\* The claims a request goes on with are those of its own token, and that token
\* was valid, for this server, with the scopes asked for.
Admitted(q) == at[q] \in {"route"} \cup Past /\ config.auth =>
    /\ who[q] = req[q].token
    /\ ValidateToken(config.audiences, who[q])
    /\ MissingScopes(who[q], config.required) = {}

InSession(q) == at[q] \in Past =>
    /\ req[q].method = "POST"
    /\ config.auth => \E id \in Ids : key[q] = Key(OwnerOf(who[q]), id)

\* The buffer and the writes it acknowledged agree.
Buffers == [notes : Seq({"note", "late"}), response : BOOLEAN]
Acknowledged(q) ==
    /\ buf[q] \in Buffers
    /\ acked[q] = IF buf[q].response THEN Append(buf[q].notes, "response") ELSE buf[q].notes

\* A response that carries messages is made of a buffer that is sealed.
Carries(q, a) ==
    /\ {"status", "sent"} \subseteq DOMAIN a
    /\ a.status = 200 /\ a.sent # <<"metadata">> => buf[q].response /\ a.sent = acked[q]
Answered(q) ==
    /\ at[q] \in {"settled", "answered"} => Carries(q, answer[q])
    /\ at[q] \notin {"settled", "answered"} => answer[q] = None

SlotInv(q) ==
    /\ at[q] \in Stages
    /\ Met(q) /\ HeadAccepted(q) /\ Checked(q) /\ Admitted(q) /\ InSession(q)
    /\ Acknowledged(q) /\ Answered(q)

\* Everything together; TLC checks it on the instance of HttpPipeline.cfg.
PInv == Domains /\ ServerInv /\ \A q \in Slots : SlotInv(q)

-----------------------------------------------------------------------------
(* Steps *)

\* What a step leaves of the server, and of a connection it is not about.
Kept ==
    /\ config' = config
    /\ serving = "up" => serving' = "up"
    /\ drawn \subseteq drawn'
Same(q) ==
    /\ at'[q] = at[q] /\ req'[q] = req[q] /\ who'[q] = who[q] /\ key'[q] = key[q]
    /\ buf'[q] = buf[q] /\ answer'[q] = answer[q] /\ acked'[q] = acked[q]

\* The checks depend on the configuration and the request alone.
LEMMA PrecheckKept ==
    ASSUME NEW q \in Slots, config' = config, req'[q] = req[q]
    PROVE  Precheck(req[q])' = Precheck(req[q])
BY DEF Precheck

LEMMA SameKept ==
    ASSUME NEW q \in Slots, SlotInv(q), Same(q), Kept
    PROVE  SlotInv(q)'
<1>1. Precheck(req[q])' = Precheck(req[q])
  BY PrecheckKept DEF Same, Kept
<1>2. (at[q] \in Stages)' /\ Met(q)' /\ HeadAccepted(q)'
  BY DEF SlotInv, Same, Kept, Met, HeadAccepted
<1>3. Checked(q)'
  BY <1>1 DEF SlotInv, Same, Checked
<1>4. Admitted(q)' /\ InSession(q)'
  BY DEF SlotInv, Same, Kept, Admitted, InSession
<1>5. Acknowledged(q)' /\ Answered(q)'
  BY DEF SlotInv, Same, Acknowledged, Answered, Carries
<1> QED BY <1>2, <1>3, <1>4, <1>5 DEF SlotInv

\* An answer with no messages of a Server in it.
Plain(a) ==
    /\ {"status", "sent"} \subseteq DOMAIN a
    /\ a.status # 200 \/ a.sent = <<"metadata">>

LEMMA Refusals ==
    /\ \A s : s # 200 => /\ Plain(Response(s)) /\ Plain(Closing(Response(s)))
                         /\ Plain(ErrorResponse(s)) /\ Plain(Closing(ErrorResponse(s)))
    /\ Plain(Unauthorized) /\ Plain(Forbidden)
    /\ \A error : Plain(Finished(error))
    /\ \A r : Plain(ProtectedResourceResponse(r))
<1> USE DEF Plain, Response, ErrorResponse, Closing
<1>1. ASSUME NEW s, s # 200
      PROVE  /\ Plain(Response(s)) /\ Plain(Closing(Response(s)))
             /\ Plain(ErrorResponse(s)) /\ Plain(Closing(ErrorResponse(s)))
  BY <1>1
<1>2. Plain(Unauthorized) /\ Plain(Forbidden)
  <2>1. ASSUME NEW s, s # 200, NEW challenge PROVE Plain(Challenged(ErrorResponse(s), challenge))
    BY <2>1 DEF Challenged
  <2> QED BY <2>1 DEF Unauthorized, Forbidden
<1>3. ASSUME NEW error PROVE Plain(Finished(error))
  <2>1. Finished(error) = ErrorResponse(400) \/ Finished(error) = ErrorResponse(500)
    BY DEF Finished
  <2> QED BY <1>1, <2>1
<1>4. ASSUME NEW r PROVE Plain(ProtectedResourceResponse(r))
  BY DEF ProtectedResourceResponse
<1> QED BY <1>1, <1>2, <1>3, <1>4

\* A connection whose request has been answered has nothing left to keep.
LEMMA AnsweredKept ==
    ASSUME NEW q \in Slots, SlotInv(q), Kept, at[q] # "idle", at'[q] = "answered",
           req'[q] = req[q], buf'[q] = buf[q], acked'[q] = acked[q], Plain(answer'[q])
    PROVE  SlotInv(q)'
<1>1. (at[q] \in Stages)' /\ Met(q)' /\ HeadAccepted(q)'
  BY DEF SlotInv, Kept, Met, HeadAccepted, Stages
<1>2. Checked(q)' /\ Admitted(q)' /\ InSession(q)'
  BY DEF Checked, Admitted, InSession, Past
<1>3. Acknowledged(q)' /\ Answered(q)'
  BY DEF SlotInv, Plain, Acknowledged, Answered, Carries
<1> QED BY <1>1, <1>2, <1>3 DEF SlotInv

\* From the body on, the same checks go on holding.
LEMMA OnwardKept ==
    ASSUME NEW q \in Slots, SlotInv(q), Kept, at[q] \in Past, at'[q] \in Past, req'[q] = req[q],
           who'[q] = who[q], key'[q] = key[q], Acknowledged(q)', Answered(q)'
    PROVE  SlotInv(q)'
<1>1. (at[q] \in Stages)' /\ Met(q)' /\ HeadAccepted(q)'
  BY DEF SlotInv, Kept, Met, HeadAccepted, Stages, Past
<1>2. Checked(q)'
  BY PrecheckKept DEF SlotInv, Kept, Checked
<1>3. Admitted(q)' /\ InSession(q)'
  BY DEF SlotInv, Kept, Admitted, InSession
<1> QED BY <1>1, <1>2, <1>3 DEF SlotInv

\* What is to be shown of a step of one connection.
LEMMA OneSlot ==
    ASSUME PInv, NEW p \in Slots, Kept, ServerInv', Domains', SlotInv(p)',
           \A q \in Slots : q # p => Same(q)
    PROVE  PInv'
<1>1. ASSUME NEW q \in Slots PROVE SlotInv(q)'
  BY SameKept DEF PInv
<1> QED BY <1>1 DEF PInv

\* Steps that leave the server, and the sessions begun, as they are.
LEMMA ServerKept ==
    ASSUME ServerInv, UNCHANGED <<config, serving, drawn, openers>>
    PROVE  ServerInv' /\ Kept
BY DEF ServerInv, Kept

LEMMA FrameKept ==
    ASSUME PInv, NEW p \in Slots, Frame(p)
    PROVE  PInv'
<1> DEFINE head == HeadFrom(req[p].method, "1.1", req[p].headers)
<1>1. /\ at[p] = "head" /\ UNCHANGED <<config, serving, drawn, openers, req, who, key, buf, acked>>
      /\ Domains' /\ \A q \in Slots : q # p => Same(q)
  BY DEF Frame, PInv, Domains, Same, Goto, Reply
<1>2. ServerInv' /\ Kept /\ SlotInv(p)
  BY <1>1, ServerKept DEF PInv
<1>3. CASE head.ok
  <2>1. at'[p] = "precheck" /\ answer' = answer
    BY <1>3 DEF Frame, PInv, Domains, Goto
  <2>2. (at[p] \in Stages)' /\ Met(p)' /\ HeadAccepted(p)'
    BY <1>1, <1>2, <1>3, <2>1 DEF SlotInv, Kept, Met, HeadAccepted, Stages
  <2>3. Checked(p)' /\ Admitted(p)' /\ InSession(p)'
    BY <2>1 DEF Checked, Admitted, InSession, Past
  <2>4. Acknowledged(p)' /\ Answered(p)'
    BY <1>1, <1>2, <2>1 DEF SlotInv, Acknowledged, Answered
  <2>5. SlotInv(p)'
    BY <2>2, <2>3, <2>4 DEF SlotInv
  <2> QED BY <1>1, <1>2, <2>5, OneSlot
<1>4. CASE ~head.ok
  <2>1. at'[p] = "answered" /\ answer'[p] = Closing(Response(head.is))
    BY <1>4 DEF Frame, PInv, Domains, Goto, Reply
  <2>2. head.is # 200
    BY <1>4, HeadFraming
  <2> HIDE DEF head
  <2>3. Plain(answer'[p])
    BY <2>1, <2>2, Refusals
  <2>4. SlotInv(p)'
    BY <1>1, <1>2, <2>1, <2>3, AnsweredKept
  <2> QED BY <1>1, <1>2, <2>4, OneSlot
<1> QED BY <1>3, <1>4

\* Whatever precheck answers carries no messages.
LEMMA PrecheckPlain ==
    ASSUME NEW r, Precheck(r) # None
    PROVE  Plain(Precheck(r))
<1>1. \/ Precheck(r) = ProtectedResourceResponse(r)
      \/ \E s \in {400, 403, 404, 405} : Precheck(r) = ErrorResponse(s)
  BY DEF Precheck
<1> QED BY <1>1, Refusals

LEMMA RunPrecheckKept ==
    ASSUME PInv, NEW p \in Slots, RunPrecheck(p)
    PROVE  PInv'
<1> DEFINE rejection == Precheck(req[p])
<1>1. /\ at[p] = "precheck" /\ UNCHANGED <<config, serving, drawn, openers, req, who, key, buf, acked>>
      /\ Domains' /\ \A q \in Slots : q # p => Same(q)
  BY DEF RunPrecheck, PInv, Domains, Same, Goto, Reply
<1>2. ServerInv' /\ Kept /\ SlotInv(p)
  BY <1>1, ServerKept DEF PInv
<1>3. CASE rejection = None
  <2>1. /\ at'[p] = (IF config.auth THEN "auth" ELSE "route") /\ answer' = answer
        /\ Precheck(req[p])' = None
    BY <1>1, <1>3, PrecheckKept DEF RunPrecheck, PInv, Domains, Goto
  <2>2. (at[p] \in Stages)' /\ Met(p)' /\ HeadAccepted(p)'
    BY <1>1, <1>2, <2>1 DEF SlotInv, Kept, Met, HeadAccepted, Stages
  <2>3. Checked(p)'
    BY <2>1 DEF Checked
  <2>4. Admitted(p)' /\ InSession(p)'
    BY <1>1, <2>1 DEF Admitted, InSession, Past
  <2>5. Acknowledged(p)' /\ Answered(p)'
    BY <1>1, <1>2, <2>1 DEF SlotInv, Acknowledged, Answered
  <2>6. SlotInv(p)'
    BY <2>2, <2>3, <2>4, <2>5 DEF SlotInv
  <2> QED BY <1>1, <1>2, <2>6, OneSlot
<1>4. CASE rejection # None
  <2>1. at'[p] = "answered" /\ answer'[p] = rejection
    BY <1>4 DEF RunPrecheck, PInv, Domains, Goto, Reply
  <2>2. SlotInv(p)'
    BY <1>1, <1>2, <1>4, <2>1, PrecheckPlain, AnsweredKept
  <2> QED BY <1>1, <1>2, <2>2, OneSlot
<1> QED BY <1>3, <1>4

LEMMA AuthenticateKept ==
    ASSUME PInv, NEW p \in Slots, Authenticate(p)
    PROVE  PInv'
<1> DEFINE token == req[p].token
<1>1. /\ at[p] = "auth" /\ UNCHANGED <<config, serving, drawn, openers, req, key, buf, acked>>
      /\ Domains' /\ \A q \in Slots : q # p => Same(q)
  BY DEF Authenticate, PInv, Domains, Same, Goto, Reply
<1>2. ServerInv' /\ Kept /\ SlotInv(p)
  BY <1>1, ServerKept DEF PInv
<1>3. CASE /\ ValidateToken(config.audiences, token) /\ MissingScopes(token, config.required) = {}
           /\ who'[p] = token /\ at'[p] = "route" /\ answer' = answer
  <2>1. (at[p] \in Stages)' /\ Met(p)' /\ HeadAccepted(p)'
    BY <1>1, <1>2, <1>3 DEF SlotInv, Kept, Met, HeadAccepted, Stages
  <2>2. Checked(p)'
    BY <1>1, <1>2, <1>3, PrecheckKept DEF SlotInv, Checked
  <2>3. Admitted(p)' /\ InSession(p)'
    BY <1>1, <1>3 DEF Admitted, InSession, Past
  <2>4. Acknowledged(p)' /\ Answered(p)'
    BY <1>1, <1>2, <1>3 DEF SlotInv, Acknowledged, Answered
  <2>5. SlotInv(p)'
    BY <2>1, <2>2, <2>3, <2>4 DEF SlotInv
  <2> QED BY <1>1, <1>2, <2>5, OneSlot
<1>4. CASE at'[p] = "answered" /\ answer'[p] \in {Unauthorized, Forbidden}
  <2>1. SlotInv(p)'
    BY <1>1, <1>2, <1>4, Refusals, AnsweredKept
  <2> QED BY <1>1, <1>2, <2>1, OneSlot
<1>5. \/ /\ ValidateToken(config.audiences, token) /\ MissingScopes(token, config.required) = {}
         /\ who'[p] = token /\ at'[p] = "route" /\ answer' = answer
      \/ at'[p] = "answered" /\ answer'[p] \in {Unauthorized, Forbidden}
  BY DEF Authenticate, PInv, Domains, Goto, Reply
<1> QED BY <1>3, <1>4, <1>5

LEMMA EndSessionKept ==
    ASSUME PInv, NEW p \in Slots, EndSession(p)
    PROVE  PInv'
<1>1. /\ at[p] = "route" /\ UNCHANGED <<config, serving, drawn, openers, req, who, key, buf, acked>>
      /\ Domains' /\ \A q \in Slots : q # p => Same(q)
      /\ at'[p] = "answered"
      /\ \E s \in {400, 404, 204} : answer'[p] \in {ErrorResponse(s), Response(s)}
  BY DEF EndSession, PInv, Domains, Same, Goto, Reply
<1>2. ServerInv' /\ Kept /\ SlotInv(p)
  BY <1>1, ServerKept DEF PInv
<1>3. Plain(answer'[p])
  BY <1>1, Refusals
<1>4. SlotInv(p)'
  BY <1>1, <1>2, <1>3, AnsweredKept
<1> QED BY <1>1, <1>2, <1>4, OneSlot

\* Past the check of its token a request has claims, and they carry no separator.
LEMMA ClaimsSound ==
    ASSUME NEW p \in Slots, SlotInv(p), at[p] \in {"route"} \cup Past, config.auth
    PROVE  Sound(who[p]) /\ Owner(p) = OwnerOf(who[p])
<1>1. who[p] = req[p].token /\ ValidateToken(config.audiences, who[p]) /\ req[p] \in Arriving
  BY DEF SlotInv, Admitted, Met, Past
<1>2. /\ who[p] # None
      /\ who[p].sub \in Seq(STRING) /\ who[p].tenant \in Seq(STRING)
  BY <1>1, PipelineAssumption DEF Arriving
<1>3. Sound(who[p])
  BY <1>1, <1>2 DEF Sound, ValidateToken
<1> QED BY <1>2, <1>3 DEF Owner

LEMMA CheckoutKept ==
    ASSUME PInv, NEW p \in Slots, Checkout(p)
    PROVE  PInv'
<1>1. /\ at[p] = "route" /\ req[p].method = "POST"
      /\ UNCHANGED <<config, serving, req, who, buf, acked>>
      /\ Domains' /\ \A q \in Slots : q # p => Same(q)
  BY DEF Checkout, PInv, Domains, Same, Goto, Reply
<1>2. SlotInv(p) /\ ServerInv
  BY DEF PInv
<1>3. /\ config.auth => Sound(who[p]) /\ Owner(p) = OwnerOf(who[p])
      /\ req[p].session # None => req[p].session \in Ids
  BY <1>1, <1>2, ClaimsSound DEF SlotInv, Met, ServerInv
<1>4. ASSUME NEW id \in Ids, key'[p] = Key(Owner(p), id), at'[p] = "body", answer' = answer, Kept
      PROVE  SlotInv(p)'
  <2>1. (at[p] \in Stages)' /\ Met(p)' /\ HeadAccepted(p)'
    BY <1>1, <1>2, <1>4 DEF SlotInv, Kept, Met, HeadAccepted, Stages, Past
  <2>2. Checked(p)'
    BY <1>1, <1>2, <1>4, PrecheckKept DEF SlotInv, Checked
  <2>3. Admitted(p)'
    BY <1>1, <1>2, <1>4 DEF SlotInv, Admitted
  <2>4. InSession(p)'
    BY <1>1, <1>3, <1>4 DEF InSession
  <2>5. Acknowledged(p)' /\ Answered(p)'
    BY <1>1, <1>2, <1>4 DEF SlotInv, Acknowledged, Answered
  <2> QED BY <2>1, <2>2, <2>3, <2>4, <2>5 DEF SlotInv
<1>5. CASE \E id \in Ids \ drawn :
               /\ drawn' = drawn \cup {id}
               /\ key' = [key EXCEPT ![p] = Key(Owner(p), id)]
               /\ openers' = openers \cup {<<Key(Owner(p), id), who[p]>>}
               /\ Goto(p, "body") /\ UNCHANGED answer
  <2>1. PICK id \in Ids \ drawn :
               /\ drawn' = drawn \cup {id}
               /\ key' = [key EXCEPT ![p] = Key(Owner(p), id)]
               /\ openers' = openers \cup {<<Key(Owner(p), id), who[p]>>}
               /\ Goto(p, "body") /\ UNCHANGED answer
    BY <1>5
  <2>2. /\ Kept /\ key'[p] = Key(Owner(p), id) /\ at'[p] = "body"
        /\ answer' = answer
    BY <1>1, <2>1 DEF PInv, Domains, Kept, Goto
  <2>3. ASSUME config.auth, NEW o \in openers'
        PROVE  Sound(o[2]) /\ \E i \in Ids : o[1] = Key(OwnerOf(o[2]), i)
    <3>1. CASE o \in openers
      BY <1>2, <2>3, <3>1 DEF ServerInv
    <3>2. CASE o = <<Key(Owner(p), id), who[p]>>
      <4>1. o[2] = who[p] /\ o[1] = Key(OwnerOf(who[p]), id)
        BY <1>3, <2>3, <3>2
      <4> QED BY <1>3, <2>3, <4>1
    <3> QED BY <2>1, <2>3, <3>1, <3>2
  <2>4. ServerInv'
    BY <1>1, <1>2, <2>1, <2>3 DEF ServerInv
  <2> QED BY <1>1, <1>4, <2>2, <2>4, OneSlot
<1>6. CASE /\ req[p].session # None /\ key' = [key EXCEPT ![p] = Key(Owner(p), req[p].session)]
           /\ Goto(p, "body") /\ UNCHANGED <<answer, drawn, openers>>
  <2>1. /\ ServerInv' /\ Kept /\ answer' = answer
        /\ at'[p] = "body" /\ key'[p] = Key(Owner(p), req[p].session)
    BY <1>1, <1>2, <1>6, ServerKept DEF PInv, Domains, Goto
  <2> QED BY <1>1, <1>3, <1>4, <1>6, <2>1, OneSlot
<1>7. CASE Reply(p, ErrorResponse(404)) /\ UNCHANGED <<key, drawn, openers>>
  <2>1. /\ ServerInv' /\ Kept
        /\ at'[p] = "answered" /\ answer'[p] = ErrorResponse(404)
    BY <1>1, <1>2, <1>7, ServerKept DEF PInv, Domains, Goto, Reply
  <2>2. Plain(answer'[p])
    BY <2>1, Refusals
  <2>3. SlotInv(p)'
    BY <1>1, <1>2, <2>1, <2>2, AnsweredKept
  <2> QED BY <1>1, <2>1, <2>3, OneSlot
<1> QED BY <1>5, <1>6, <1>7 DEF Checkout

LEMMA ReadBodyKept ==
    ASSUME PInv, NEW p \in Slots, ReadBody(p)
    PROVE  PInv'
<1>1. /\ at[p] = "body" /\ UNCHANGED <<config, serving, drawn, openers, req, who, key, buf, acked>>
      /\ Domains' /\ \A q \in Slots : q # p => Same(q)
  BY DEF ReadBody, PInv, Domains, Same, Goto, Reply
<1>2. ServerInv' /\ Kept /\ SlotInv(p)
  BY <1>1, ServerKept DEF PInv
<1>3. CASE req[p].body \in DOMAIN BodyErrors
  <2>1. at'[p] = "answered" /\ answer'[p] = Closing(ErrorResponse(BodyErrors[req[p].body]))
    BY <1>3 DEF ReadBody, PInv, Domains, Goto, Reply
  <2>2. BodyErrors[req[p].body] # 200
    BY <1>3 DEF BodyErrors
  <2>3. SlotInv(p)'
    BY <1>1, <1>2, <2>1, <2>2, Refusals, AnsweredKept
  <2> QED BY <1>1, <1>2, <2>3, OneSlot
<1>4. CASE req[p].body \notin DOMAIN BodyErrors
  <2>1. at'[p] = "dispatch" /\ answer' = answer
    BY <1>4 DEF ReadBody, PInv, Domains, Goto
  <2>2. Acknowledged(p)' /\ Answered(p)'
    BY <1>1, <1>2, <2>1 DEF SlotInv, Acknowledged, Answered
  <2>3. SlotInv(p)'
    BY <1>1, <1>2, <2>1, <2>2, OnwardKept DEF Past
  <2> QED BY <1>1, <1>2, <2>3, OneSlot
<1> QED BY <1>3, <1>4

\* HttpTransport::write: what is acknowledged is in the buffer, and a sealed
\* buffer stays as it is.
LEMMA WriteKept ==
    ASSUME Domains, NEW p \in Slots, Acknowledged(p), NEW m \in {"note", "late", "response"}, Write(p, m)
    PROVE  /\ Acknowledged(p)'
           /\ buf[p].response => buf'[p] = buf[p] /\ acked'[p] = acked[p]
           /\ \A q \in Slots : q # p => buf'[q] = buf[q] /\ acked'[q] = acked[q]
           /\ DOMAIN buf' = Slots /\ DOMAIN acked' = Slots
<1>1. buf[p] \in Buffers /\ buf[p].notes \in Seq({"note", "late"}) /\ buf[p].response \in BOOLEAN
  BY DEF Acknowledged, Buffers
<1>2. CASE buf[p].response
  BY <1>2 DEF Write, Acknowledged, Domains
<1>3. CASE ~buf[p].response
  <2>1. /\ acked'[p] = Append(acked[p], m) /\ acked[p] = buf[p].notes
        /\ buf'[p] = Buffered(buf[p], m)
        /\ \A q \in Slots : q # p => buf'[q] = buf[q] /\ acked'[q] = acked[q]
        /\ DOMAIN buf' = Slots /\ DOMAIN acked' = Slots
    BY <1>3 DEF Write, Acknowledged, Domains
  <2>2. CASE m = "response"
    <3>1. buf'[p] = [buf[p] EXCEPT !.response = TRUE]
      BY <2>1, <2>2 DEF Buffered
    <3>2. buf'[p] \in Buffers /\ buf'[p].response = TRUE /\ buf'[p].notes = buf[p].notes
      BY <1>1, <3>1 DEF Buffers
    <3> QED BY <1>3, <2>1, <2>2, <3>2 DEF Acknowledged
  <2>3. CASE m # "response"
    <3>1. buf'[p] = [buf[p] EXCEPT !.notes = Append(buf[p].notes, m)]
      BY <2>1, <2>3 DEF Buffered
    <3>2. Append(buf[p].notes, m) \in Seq({"note", "late"})
      BY <1>1, <2>3
    <3>3. /\ buf'[p] \in Buffers /\ buf'[p].response = buf[p].response
          /\ buf'[p].notes = Append(buf[p].notes, m)
      BY <1>1, <3>1, <3>2 DEF Buffers
    <3> QED BY <1>3, <2>1, <3>3 DEF Acknowledged
  <2> QED BY <2>2, <2>3
<1> QED BY <1>2, <1>3

\* A write that leaves the connection where it is, whoever makes it and when.
LEMMA WrittenKept ==
    ASSUME PInv, NEW p \in Slots, NEW m \in {"note", "late"}, Write(p, m), DOMAIN worker' = Slots,
           UNCHANGED <<config, serving, req, at, who, key, answer, drawn, openers>>
    PROVE  PInv'
<1>1. SlotInv(p) /\ Domains /\ ServerInv
  BY DEF PInv
<1>2. /\ Acknowledged(p)'
      /\ buf[p].response => buf'[p] = buf[p] /\ acked'[p] = acked[p]
      /\ \A q \in Slots : q # p => buf'[q] = buf[q] /\ acked'[q] = acked[q]
      /\ DOMAIN buf' = Slots /\ DOMAIN acked' = Slots
  BY <1>1, WriteKept DEF SlotInv
<1>3. /\ ServerInv' /\ Kept /\ Domains' /\ \A q \in Slots : q # p => Same(q)
  BY <1>1, <1>2, ServerKept DEF Domains, Same
<1>4. (at[p] \in Stages)' /\ Met(p)' /\ HeadAccepted(p)'
  BY <1>1 DEF SlotInv, Met, HeadAccepted
<1>5. Checked(p)'
  BY <1>1, PrecheckKept DEF SlotInv, Checked
<1>6. Admitted(p)' /\ InSession(p)'
  BY <1>1 DEF SlotInv, Admitted, InSession
<1>7. Answered(p)'
  BY <1>1, <1>2 DEF SlotInv, Answered, Carries
<1>8. SlotInv(p)'
  BY <1>2, <1>4, <1>5, <1>6, <1>7 DEF SlotInv
<1> QED BY <1>3, <1>8, OneSlot

LEMMA HandlerRespondsKept ==
    ASSUME PInv, NEW p \in Slots, HandlerResponds(p)
    PROVE  PInv'
<1>1. SlotInv(p) /\ Domains /\ ServerInv
  BY DEF PInv
<1>2. /\ at[p] = "dispatch" /\ at'[p] = "processed" /\ Write(p, "response")
      /\ UNCHANGED <<config, serving, req, who, key, answer, drawn, openers>>
      /\ \A q \in Slots : q # p => at'[q] = at[q]
      /\ DOMAIN worker' = Slots /\ DOMAIN at' = Slots
  BY <1>1 DEF HandlerResponds, Domains, Goto
<1>3. /\ Acknowledged(p)'
      /\ \A q \in Slots : q # p => buf'[q] = buf[q] /\ acked'[q] = acked[q]
      /\ DOMAIN buf' = Slots /\ DOMAIN acked' = Slots
  BY <1>1, <1>2, WriteKept DEF SlotInv
<1>4. /\ ServerInv' /\ Kept /\ Domains' /\ \A q \in Slots : q # p => Same(q)
  BY <1>1, <1>2, <1>3, ServerKept DEF Domains, Same
<1>5. Answered(p)'
  BY <1>1, <1>2 DEF SlotInv, Answered
<1>6. SlotInv(p)'
  BY <1>1, <1>2, <1>3, <1>4, <1>5, OnwardKept DEF Past
<1> QED BY <1>4, <1>6, OneSlot

LEMMA HandlerAcceptsKept ==
    ASSUME PInv, NEW p \in Slots, HandlerAccepts(p)
    PROVE  PInv'
<1>1. /\ at[p] = "dispatch" /\ at'[p] = "processed"
      /\ UNCHANGED <<config, serving, drawn, openers, req, who, key, buf, answer, acked>>
      /\ Domains' /\ \A q \in Slots : q # p => Same(q)
  BY DEF HandlerAccepts, PInv, Domains, Same, Goto
<1>2. ServerInv' /\ Kept /\ SlotInv(p)
  BY <1>1, ServerKept DEF PInv
<1>3. Acknowledged(p)' /\ Answered(p)'
  BY <1>1, <1>2 DEF SlotInv, Acknowledged, Answered
<1>4. SlotInv(p)'
  BY <1>1, <1>2, <1>3, OnwardKept DEF Past
<1> QED BY <1>1, <1>2, <1>4, OneSlot

LEMMA HandlerFailsKept ==
    ASSUME PInv, NEW p \in Slots, HandlerFails(p)
    PROVE  PInv'
<1>1. /\ at[p] = "dispatch" /\ at'[p] = "settled"
      /\ UNCHANGED <<config, serving, drawn, openers, req, who, key, buf, acked>>
      /\ Domains' /\ \A q \in Slots : q # p => Same(q)
  BY DEF HandlerFails, PInv, Domains, Same, Goto
<1>2. ServerInv' /\ Kept /\ SlotInv(p)
  BY <1>1, ServerKept DEF PInv
<1>3. answer'[p] \in {Finished("Json"), Finished("InvalidRequest"), Finished("Internal")}
  BY DEF HandlerFails, PInv, Domains
<1>4. Plain(answer'[p])
  BY <1>3, Refusals
<1>5. Acknowledged(p)' /\ Answered(p)'
  BY <1>1, <1>2, <1>4 DEF SlotInv, Acknowledged, Answered, Carries, Plain
<1>6. SlotInv(p)'
  BY <1>1, <1>2, <1>5, OnwardKept DEF Past
<1> QED BY <1>1, <1>2, <1>6, OneSlot

\* What answer_from sends is what was acknowledged: one event for each message,
\* or the response by itself.
LEMMA AnswerFromKept ==
    ASSUME PInv, NEW p \in Slots, AnswerFrom(p)
    PROVE  PInv'
<1> DEFINE sent == IF HasNotifications(buf[p]) THEN TakeSseResponse(buf[p]) ELSE <<"response">>
<1>1. /\ at[p] = "processed" /\ at'[p] = "settled"
      /\ UNCHANGED <<config, serving, drawn, openers, req, who, key, buf, acked>>
      /\ Domains' /\ \A q \in Slots : q # p => Same(q)
      /\ answer'[p] = IF ~buf[p].response THEN Response(202) ELSE [Response(200) EXCEPT !.sent = sent]
  BY DEF AnswerFrom, PInv, Domains, Same, Goto
<1>2. ServerInv' /\ Kept /\ SlotInv(p)
  BY <1>1, ServerKept DEF PInv
<1>3. buf[p].response => sent = acked[p]
  <2>1. Append(<<>>, "response") = <<"response">>
    OBVIOUS
  <2> QED BY <1>2, <2>1 DEF SlotInv, Acknowledged, HasNotifications, TakeSseResponse
<1> HIDE DEF sent
<1>4. Carries(p, answer[p])'
  <2>1. CASE ~buf[p].response
    BY <1>1, <2>1 DEF Carries, Response
  <2>2. CASE buf[p].response
    <3>1. {"status", "sent"} \subseteq DOMAIN answer'[p] /\ answer'[p].sent = sent
      BY <1>1, <2>2 DEF Response
    <3> QED BY <1>1, <1>3, <2>2, <3>1 DEF Carries
  <2> QED BY <2>1, <2>2
<1>5. Acknowledged(p)' /\ Answered(p)'
  BY <1>1, <1>2, <1>4 DEF SlotInv, Acknowledged, Answered
<1>6. SlotInv(p)'
  BY <1>1, <1>2, <1>5, OnwardKept DEF Past
<1> QED BY <1>1, <1>2, <1>6, OneSlot

LEMMA CheckInKept ==
    ASSUME PInv, NEW p \in Slots, NEW keep \in BOOLEAN, CheckIn(p, keep)
    PROVE  PInv'
<1>1. /\ at[p] = "settled" /\ at'[p] = "answered"
      /\ UNCHANGED <<config, serving, drawn, openers, req, who, key, buf, acked>>
      /\ Domains' /\ \A q \in Slots : q # p => Same(q)
      /\ \E id : answer'[p] = [answer[p] EXCEPT !.session = id]
  BY DEF CheckIn, PInv, Domains, Same, Goto
<1>2. ServerInv' /\ Kept /\ SlotInv(p)
  BY <1>1, ServerKept DEF PInv
<1>3. Carries(p, answer[p])
  BY <1>1, <1>2 DEF SlotInv, Answered
<1>4. /\ {"status", "sent"} \subseteq DOMAIN answer'[p]
      /\ answer'[p].status = answer[p].status /\ answer'[p].sent = answer[p].sent
  BY <1>1, <1>3 DEF Carries
<1>5. (at[p] \in Stages)' /\ Met(p)' /\ HeadAccepted(p)'
  BY <1>1, <1>2 DEF SlotInv, Kept, Met, HeadAccepted, Stages
<1>6. Checked(p)' /\ Admitted(p)' /\ InSession(p)'
  BY <1>1 DEF Checked, Admitted, InSession, Past
<1>7. Acknowledged(p)' /\ Answered(p)'
  BY <1>1, <1>2, <1>3, <1>4 DEF SlotInv, Acknowledged, Answered, Carries
<1>8. SlotInv(p)'
  BY <1>5, <1>6, <1>7 DEF SlotInv
<1> QED BY <1>1, <1>2, <1>8, OneSlot

LEMMA PanicsKept ==
    ASSUME PInv, NEW p \in Slots, Panics(p)
    PROVE  PInv'
<1>1. /\ at[p] # "idle" /\ at'[p] = "answered" /\ answer'[p] = Closing(ErrorResponse(500))
      /\ UNCHANGED <<config, serving, drawn, openers, req, who, key, buf, acked>>
      /\ Domains' /\ \A q \in Slots : q # p => Same(q)
  BY DEF Panics, PInv, Domains, Same, Goto, Reply
<1>2. ServerInv' /\ Kept /\ SlotInv(p)
  BY <1>1, ServerKept DEF PInv
<1>3. SlotInv(p)'
  BY <1>1, <1>2, Refusals, AnsweredKept
<1> QED BY <1>1, <1>2, <1>3, OneSlot

LEMMA ArriveKept ==
    ASSUME PInv, NEW p \in Slots, NEW r \in Arriving, Arrive(p, r)
    PROVE  PInv'
<1>1. /\ serving = "up" /\ at[p] = "idle" /\ at'[p] = "head" /\ req'[p] = r
      /\ r.session = None \/ r.session \in drawn
      /\ UNCHANGED <<config, serving, drawn, openers, who, key, buf, answer, acked>>
      /\ Domains' /\ \A q \in Slots : q # p => Same(q)
  BY DEF Arrive, PInv, Domains, Same, Goto
<1>2. ServerInv' /\ Kept /\ SlotInv(p)
  BY <1>1, ServerKept DEF PInv
<1>3. (at[p] \in Stages)' /\ Met(p)' /\ HeadAccepted(p)'
  BY <1>1, <1>2 DEF Met, HeadAccepted, Stages
<1>4. Checked(p)' /\ Admitted(p)' /\ InSession(p)'
  BY <1>1 DEF Checked, Admitted, InSession, Past
<1>5. Acknowledged(p)' /\ Answered(p)'
  BY <1>1, <1>2 DEF SlotInv, Acknowledged, Answered
<1>6. SlotInv(p)'
  BY <1>3, <1>4, <1>5 DEF SlotInv
<1> QED BY <1>1, <1>2, <1>6, OneSlot

\* serve_with_auth's refusal is what makes an audience certain.
LEMMA ServeKept ==
    ASSUME PInv, Serve
    PROVE  PInv'
<1>1. ServerInv' /\ Kept /\ Domains'
  BY DEF Serve, PInv, ServerInv, Kept, Domains
<1>2. \A q \in Slots : Same(q)
  BY DEF Serve, Same
<1> QED BY <1>1, <1>2, SameKept DEF PInv

LEMMA Initially == Init => PInv
<1> SUFFICES ASSUME Init PROVE PInv
  OBVIOUS
<1>1. Domains
  BY DEF Init, Domains
<1>2. ServerInv
  BY DEF Init, ServerInv
<1>3. ASSUME NEW q \in Slots PROVE SlotInv(q)
  <2>1. /\ at[q] = "idle" /\ answer[q] = None /\ acked[q] = <<>>
        /\ buf[q] = [notes |-> <<>>, response |-> FALSE]
    BY DEF Init
  <2>2. Met(q) /\ HeadAccepted(q) /\ Checked(q) /\ Admitted(q) /\ InSession(q)
    BY <2>1 DEF Met, HeadAccepted, Checked, Admitted, InSession, Past
  <2>3. Acknowledged(q) /\ Answered(q)
    BY <2>1 DEF Acknowledged, Answered, Buffers
  <2> QED BY <2>1, <2>2, <2>3 DEF SlotInv, Stages
<1> QED BY <1>1, <1>2, <1>3 DEF PInv

LEMMA Inductive == PInv /\ [Next]_vars => PInv'
<1> SUFFICES ASSUME PInv, [Next]_vars PROVE PInv'
  OBVIOUS
<1>1. ASSUME NEW q \in Slots, Step(q) PROVE PInv'
  <2>1. CASE Frame(q) \/ RunPrecheck(q) \/ Authenticate(q)
    BY <2>1, FrameKept, RunPrecheckKept, AuthenticateKept
  <2>2. CASE EndSession(q) \/ Checkout(q) \/ ReadBody(q)
    BY <2>2, EndSessionKept, CheckoutKept, ReadBodyKept
  <2>3. CASE HandlerResponds(q) \/ HandlerAccepts(q) \/ HandlerFails(q)
    BY <2>3, HandlerRespondsKept, HandlerAcceptsKept, HandlerFailsKept
  <2>4. CASE AnswerFrom(q) \/ \E keep \in BOOLEAN : CheckIn(q, keep)
    BY <2>4, AnswerFromKept, CheckInKept
  <2> QED BY <1>1, <2>1, <2>2, <2>3, <2>4 DEF Step
<1>2. ASSUME NEW q \in Slots, HandlerNotifies(q) PROVE PInv'
  <2>1. Write(q, "note") /\ worker' = worker
        /\ UNCHANGED <<config, serving, req, at, who, key, answer, drawn, openers>>
    BY <1>2 DEF HandlerNotifies
  <2> QED BY <2>1, WrittenKept DEF PInv, Domains
<1>3. ASSUME NEW q \in Slots, WorkerWrites(q) PROVE PInv'
  <2>1. Write(q, "late") /\ DOMAIN worker' = Slots
        /\ UNCHANGED <<config, serving, req, at, who, key, answer, drawn, openers>>
    BY <1>3 DEF WorkerWrites, PInv, Domains
  <2> QED BY <2>1, WrittenKept
<1>4. ASSUME NEW o \in Offered, NEW q \in config.connections, Arrive(q, o[1]) PROVE PInv'
  <2>1. q \in Slots /\ o[1] \in Arriving
    BY PipelineAssumption DEF PInv, ServerInv, Arriving
  <2> QED BY <1>4, <2>1, ArriveKept
<1>5. ASSUME NEW k \in sessions, Expire(k) PROVE PInv'
  <2>1. ServerInv' /\ Kept /\ Domains' /\ \A q \in Slots : Same(q)
    BY <1>5, ServerKept DEF Expire, PInv, Domains, Same
  <2> QED BY <2>1, SameKept DEF PInv
<1>6. CASE UNCHANGED vars
  <2>1. ServerInv' /\ Kept /\ Domains' /\ \A q \in Slots : Same(q)
    BY <1>6, ServerKept DEF vars, PInv, Domains, Same
  <2> QED BY <2>1, SameKept DEF PInv
<1> QED BY <1>1, <1>2, <1>3, <1>4, <1>5, <1>6, ServeKept, PanicsKept DEF Next

\* The invariant holds of every behaviour.
THEOREM InvariantHolds == Spec => []PInv
<1>1. Init => PInv
  BY Initially
<1>2. PInv /\ [Next]_vars => PInv'
  BY Inductive
<1> QED BY <1>1, <1>2, PTL DEF Spec

-----------------------------------------------------------------------------
(* What follows *)

\* A 200 carries exactly what HttpTransport::write acknowledged: nothing a late
\* task worker writes changes what a sealed buffer sends.
THEOREM AnswersAreSettled == Spec => []Settled
<1>1. PInv => Settled
  <2> SUFFICES ASSUME PInv, NEW q \in Slots,
                      answer[q] # None, answer[q].status = 200, answer[q].sent # <<"metadata">>
               PROVE  answer[q].sent = acked[q]
    BY DEF Settled
  <2> QED BY DEF PInv, SlotInv, Answered, Carries
<1> QED BY <1>1, InvariantHolds, PTL

\* framing_of lets a request through only if every recipient ends its body at the
\* same place, whatever fields it carries.
THEOREM FramingIsUnambiguous == Spec => []Unambiguous
<1>1. PInv => Unambiguous
  <2> SUFFICES ASSUME PInv, NEW q \in Slots, at[q] \notin {"idle", "head", "answered"}
               PROVE  Readings("1.1", req[q].headers)
                        = {HeadFrom(req[q].method, "1.1", req[q].headers).is.framing}
    BY DEF Unambiguous
  <2>1. HeadFrom(req[q].method, "1.1", req[q].headers).ok
    BY DEF PInv, SlotInv, HeadAccepted
  <2> QED BY <2>1, HeadFraming, FramingAlike
<1> QED BY <1>1, InvariantHolds, PTL

\* No request is processed in a session that another subject or tenant began:
\* Sessions::key tells owners apart as soon as validate has refused claims that
\* carry the separator.
THEOREM SessionsAreIsolated == Spec => []Isolated
<1>1. PInv => Isolated
  <2> SUFFICES ASSUME PInv, NEW q \in Slots, at[q] \in Past, config.auth,
                      NEW o \in openers, o[1] = key[q]
               PROVE  o[2].sub = who[q].sub /\ TenantId(o[2]) = TenantId(who[q])
    BY DEF Isolated
  <2>1. Sound(who[q])
    BY ClaimsSound DEF PInv
  <2>2. \E i \in Ids : key[q] = Key(OwnerOf(who[q]), i)
    BY DEF PInv, SlotInv, InSession
  <2>3. Sound(o[2]) /\ \E j \in Ids : o[1] = Key(OwnerOf(o[2]), j)
    BY DEF PInv, ServerInv
  <2> QED BY <2>1, <2>2, <2>3, KeyTellsApart
<1> QED BY <1>1, InvariantHolds, PTL

\* What a request that is past precheck has shown.
LEMMA PrecheckPassed ==
    ASSUME config \in Configs, NEW r \in Arriving, Precheck(r) = None
    PROVE  /\ PathOf(r.target) = Endpoint
           /\ (IF r.version = None THEN Assumed ELSE r.version) \in config.supported
           /\ r.origin # None => IsAllowed(config.policy, r.origin)
<1>1. Paths[r.target] = PathOf(r.target)
  BY DEF Paths, Targets
<1>2. r.origin # None => Allowed[config.policy][r.origin] = IsAllowed(config.policy, r.origin)
  BY DEF Allowed
<1>3. /\ \A s \in {400, 403, 404, 405} : ErrorResponse(s) # None
      /\ ProtectedResourceResponse(r) # None
  BY AnswersAssumption DEF ProtectedResourceResponse
<1> DEFINE path    == Paths[r.target]
           version == IF r.version = None THEN Assumed ELSE r.version
           barred  == r.origin # None /\ ~Allowed[config.policy][r.origin]
<1>4. path = Endpoint /\ version \in config.supported /\ ~barred
  <2> HIDE DEF path, version, barred
  <2> QED BY <1>3 DEF Precheck, path, version, barred
<1> QED BY <1>1, <1>2, <1>4

\* No request is processed without the right to be.  What path_of and is_allowed
\* make of a spelling is the hypothesis, which TLC evaluates on the spellings of
\* the instance; all else is for any requests and configurations.
THEOREM OnlyTheAuthorized == ASSUME ReadAsMeant PROVE Spec => []Authorized
<1>1. PInv => Entitled
  <2> SUFFICES ASSUME PInv, NEW q \in Slots, at[q] \in Past
               PROVE  LET r == req[q] IN
                      /\ r.asked.path = Endpoint
                      /\ r.method = "POST"
                      /\ (IF r.version = None THEN Assumed ELSE r.version) \in config.supported
                      /\ r.page # None => Trusted(config.policy, r.page)
                      /\ config.auth => /\ r.token.signed /\ ~r.token.expired /\ ~r.token.early
                                        /\ r.token.aud \cap config.audiences # {}
                                        /\ config.required \subseteq r.token.scopes
    BY DEF Entitled
  <2> DEFINE r == req[q]
  <2>1. /\ config \in Configs /\ r \in Arriving /\ r.method = "POST" /\ Precheck(r) = None
        /\ serving = "up"
    BY DEF PInv, ServerInv, SlotInv, Met, InSession, Checked, Past
  <2>2. config.auth => /\ ValidateToken(config.audiences, r.token) /\ MissingScopes(r.token, config.required) = {}
                       /\ BindsAudience(config.audiences)
    BY <2>1 DEF PInv, ServerInv, SlotInv, Admitted
  <2>3. config.auth => /\ r.token.signed /\ ~r.token.expired /\ ~r.token.early
                       /\ r.token.aud \cap config.audiences # {}
                       /\ config.required \subseteq r.token.scopes
    BY <2>2 DEF ValidateToken, Decodes, IsFor, MissingScopes, HasScope
  <2> HIDE DEF r
  <2>4. /\ PathOf(r.target) = Endpoint
        /\ (IF r.version = None THEN Assumed ELSE r.version) \in config.supported
        /\ r.origin # None => IsAllowed(config.policy, r.origin)
    BY <2>1, PrecheckPassed
  <2>5. r.asked.path = Endpoint /\ (r.page # None => Trusted(config.policy, r.page))
    BY <2>1, <2>4 DEF ReadAsMeant
  <2> QED BY <2>1, <2>3, <2>4, <2>5 DEF r
<1>2. Spec => []Isolated
  BY SessionsAreIsolated
<1> QED BY <1>1, <1>2, InvariantHolds, PTL DEF Authorized

=============================================================================
