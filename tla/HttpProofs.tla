----------------------------- MODULE HttpProofs -----------------------------
(***************************************************************************)
(* What TLAPS proves of the HTTP transport, part by part: its connections  *)
(* (Http1) and its session table (HttpSessions).  The parts share no       *)
(* state, and each has its own specification.                              *)
(*                                                                         *)
(* For any number of connections, any limits and any streams peers that    *)
(* speak HTTP may send: slots are counted exactly, and a kept-alive        *)
(* connection never loses its place.  For every set of requests, ids and   *)
(* levels and every ceiling: the table is well formed and bounded, a       *)
(* session has one task store however its requests overlap, and no request *)
(* erases what another established.                                        *)
(***************************************************************************)
EXTENDS Http1, HttpSessions, FiniteSetTheorems, SequenceTheorems, TLAPS

-----------------------------------------------------------------------------
(* Connections: the inductive invariant *)

Framings == {Empty, Chunked} \cup {Length(n) : n \in Nat \ {0}}
Whys     == {"none", "TooLarge", "TimedOut", "Malformed", "Incomplete"}
Bodies   == [started : BOOLEAN, finished : BOOLEAN, left : 0 .. MaxBody, got : 0 .. MaxBody,
             why : Whys, text : BOOLEAN, trailers : Nat, invited : BOOLEAN]

\* What is known of one connection's own state.
OwnTypes(c) ==
    /\ conn[c] \in States
    /\ wire[c] \in Seq(Items)
    /\ gone[c] \in BOOLEAN /\ spent[c] \in BOOLEAN
    /\ raw[c] \in 0 .. MaxHead /\ blanks[c] \in 0 .. MaxBlank + 1
    /\ head[c].framing \in Framings /\ head[c].expects \in BOOLEAN
    /\ body[c] \in Bodies

\* The empty lines a head may start with are counted from none, up to one too
\* many, which ends the connection.
BlanksCounted(c) == conn[c] # "writing" => blanks[c] <= MaxBlank

\* What has been read of a body, and what is left of it or of its chunk, is within
\* the limit; there is some left where bytes are read; a body that is being read is
\* not done with.
BodyBounded(c) ==
    /\ body[c].got + body[c].left <= MaxBody
    /\ conn[c] \in {"length", "data", "drain"} => body[c].left >= 1
    /\ conn[c] = "handler" /\ ~body[c].started =>
          /\ body[c].left = 0 /\ body[c].got = 0
          /\ body[c].finished => head[c].framing = Empty
    /\ conn[c] \in {"size", "dataEnd", "trailers"} => body[c].left = 0
    /\ conn[c] \in Reading => body[c].started /\ ~body[c].finished

\* What is still on the wire is framed, from expecting e on.
Aligned(items, e) == \E es : Framed(items, es, e)

\* Where the thread is in the request is where the stream is in it.
InStep(c) ==
    /\ conn[c] \in {"waiting", "heading"} => Aligned(wire[c], AtHead)
    /\ conn[c] = "handler" =>
          /\ body[c].finished => Aligned(wire[c], AtHead)
          /\ ~body[c].started => Aligned(wire[c], AtBody(head[c].framing))
    /\ conn[c] \in {"length", "drain"} => Aligned(wire[c], Expect("length", body[c].left))
    /\ conn[c] = "data" => Aligned(wire[c], Expect("data", body[c].left))
    /\ conn[c] \in {"size", "dataEnd", "trailers"} => Aligned(wire[c], Expect(conn[c], 0))
    /\ conn[c] = "writing" /\ body[c].finished /\ ~answer[c].close => Aligned(wire[c], AtHead)

OwnInv(c) == OwnTypes(c) /\ BlanksCounted(c) /\ BodyBounded(c) /\ InStep(c)

Domains ==
    /\ DOMAIN conn = Conns /\ DOMAIN wire = Conns /\ DOMAIN gone = Conns /\ DOMAIN raw = Conns
    /\ DOMAIN blanks = Conns /\ DOMAIN spent = Conns /\ DOMAIN head = Conns
    /\ DOMAIN body = Conns /\ DOMAIN answer = Conns

\* The Refuser's channel holds each connection it is to refuse once.
RefusedOnce ==
    /\ queue \in Seq(Conns)
    /\ \A i \in 1 .. Len(queue) : conn[queue[i]] = "refused"
    /\ \A i, j \in 1 .. Len(queue) : queue[i] = queue[j] => i = j

HInv1 ==
    /\ Domains
    /\ \A c \in Conns : OwnInv(c)
    /\ RefusedOnce
    /\ live \in Nat /\ SlotsExact

-----------------------------------------------------------------------------
(* Streams *)

\* A peer that has hung up leaves nothing that could be misread.
LEMMA AlignedEmpty ==
    ASSUME NEW e
    PROVE  Aligned(<<>>, e)
<1> DEFINE es == [i \in 1 .. 1 |-> e]
<1>1. Len(<<>>) = 0
  OBVIOUS
<1>2. DOMAIN es = 1 .. 1 /\ es[1] = e
  OBVIOUS
<1> HIDE DEF es
<1>3. Framed(<<>>, es, e)
  BY <1>1, <1>2 DEF Framed
<1> QED BY <1>3 DEF Aligned

\* Taking one item moves the expectation on by one; where a head is expected, the
\* item is one.
LEMMA AlignedNext ==
    ASSUME NEW items \in Seq(Items), items # <<>>, NEW e, Aligned(items, e)
    PROVE  /\ Aligned(Tail(items), AfterItem(e, Head(items)))
           /\ e = AtHead => HeadItem(Head(items))
<1>1. PICK es : Framed(items, es, e)
  BY DEF Aligned
<1>2. /\ Len(items) \in Nat /\ Len(items) # 0
      /\ Head(items) = items[1]
      /\ Len(Tail(items)) = Len(items) - 1
      /\ \A i \in 1 .. Len(items) - 1 : Tail(items)[i] = items[i + 1]
  OBVIOUS
<1> DEFINE rest == Tail(items)
           fs   == [i \in 1 .. Len(items) |-> es[i + 1]]
<1>3. /\ DOMAIN fs = 1 .. Len(items)
      /\ \A i \in 1 .. Len(items) : fs[i] = es[i + 1]
  OBVIOUS
<1>4. Len(rest) = Len(items) - 1 /\ \A i \in 1 .. Len(items) - 1 : rest[i] = items[i + 1]
  BY <1>2
<1> HIDE DEF rest, fs
<1>5. 1 .. Len(rest) + 1 = 1 .. Len(items) /\ 1 \in 1 .. Len(items)
  BY <1>2, <1>4
<1>6. /\ es[1] = e
      /\ \A i \in 1 .. Len(items) : /\ es[i + 1] = AfterItem(es[i], items[i])
                                    /\ es[i] = AtHead => HeadItem(items[i])
  BY <1>1 DEF Framed
<1>7. fs[1] = AfterItem(e, items[1])
  BY <1>3, <1>5, <1>6
<1>8. ASSUME NEW i \in 1 .. Len(rest)
      PROVE  /\ fs[i + 1] = AfterItem(fs[i], rest[i])
             /\ fs[i] = AtHead => HeadItem(rest[i])
  <2>1. i \in 1 .. Len(items) - 1 /\ i \in 1 .. Len(items) /\ i + 1 \in 1 .. Len(items)
    BY <1>2, <1>4
  <2>2. fs[i] = es[i + 1] /\ fs[i + 1] = es[(i + 1) + 1] /\ rest[i] = items[i + 1]
    BY <1>3, <1>4, <2>1
  <2> QED BY <1>6, <2>1, <2>2
<1>9. Framed(rest, fs, AfterItem(e, items[1]))
  BY <1>3, <1>5, <1>7, <1>8 DEF Framed
<1>10. Aligned(rest, AfterItem(e, items[1]))
  BY <1>9 DEF Aligned
<1> QED BY <1>2, <1>5, <1>6, <1>10 DEF rest

\* Every stream starts with a head, and its items are items.
LEMMA StreamAligned ==
    ASSUME NEW s \in Streams
    PROVE  s \in Seq(Items) /\ Aligned(s, AtHead)
BY StreamsAssumption DEF Aligned

\* Whatever a head declares, its body is framed in one of three ways.
LEMMA HeadTyped ==
    ASSUME NEW method, NEW version, NEW headers, HeadFrom(method, version, headers).ok
    PROVE  /\ HeadFrom(method, version, headers).is.framing \in Framings
           /\ HeadFrom(method, version, headers).is.expects \in BOOLEAN
<1> DEFINE framing == FramingOf(headers)
<1>1. framing.ok => framing.is \in Framings
  <2> DEFINE coding   == HeaderOf(headers, "transfer-encoding")
             declared == CHOOSE v \in Values(headers, "content-length") : TRUE
  <2>1. ByDeclared(declared).ok => ByDeclared(declared).is \in Framings
    <3>1. Declared(declared).ok => Declared(declared).is \in Nat
      BY DEF Declared, Ok, Refuse
    <3> HIDE DEF declared
    <3> QED BY <3>1 DEF ByDeclared, Ok, Framings
  <2>2. ByCoding(coding).ok => ByCoding(coding).is \in Framings
    <3> HIDE DEF coding
    <3> QED BY DEF ByCoding, Ok, Refuse, Framings
  <2>3. framing = Refuse(400) \/ framing = Ok(Empty) \/ framing = ByCoding(coding)
        \/ framing = ByDeclared(declared)
    BY DEF FramingOf
  <2> HIDE DEF framing, coding, declared
  <2> QED BY <2>1, <2>2, <2>3 DEF Ok, Refuse, Framings
<1> HIDE DEF framing
<1> DEFINE expect == HeaderOf(headers, "expect")
           conn_  == HeaderOf(headers, "connection")
           good   == Ok([method  |-> method,
                         version |-> version,
                         framing |-> framing.is,
                         expects |-> expect = "100-continue" /\ version = "1.1",
                         close   |-> IF version = "1.1" THEN conn_ = "close"
                                     ELSE conn_ # "keep-alive"])
<1>2. \/ HeadFrom(method, version, headers) \in {Refuse(400), Refuse(417)}
      \/ HeadFrom(method, version, headers) = framing /\ ~framing.ok
      \/ HeadFrom(method, version, headers) = good /\ framing.ok
  BY DEF HeadFrom, framing
<1>3. HeadFrom(method, version, headers) = good /\ framing.ok
  BY <1>2 DEF Refuse
<1>4. good.is.framing = framing.is
  BY DEF Ok
<1>5. good.is.expects = (expect = "100-continue" /\ version = "1.1")
  BY DEF Ok
<1>6. good.is.expects \in BOOLEAN
  BY <1>5
<1> QED BY <1>1, <1>3, <1>4, <1>6

\* What each item of a body is followed by.
LEMMA AfterBody ==
    ASSUME NEW item, NEW n \in Nat
    PROVE  /\ ByteItem(item) => /\ AfterItem(Expect("length", 1), item) = AtHead
                                /\ AfterItem(Expect("data", 1), item) = Expect("dataEnd", 0)
                                /\ n # 1 => /\ AfterItem(Expect("length", n), item) = Expect("length", n - 1)
                                            /\ AfterItem(Expect("data", n), item) = Expect("data", n - 1)
           /\ item[1] = "size" /\ item[3] /\ ParseChunkSize(item[2]).ok =>
                AfterItem(Expect("size", 0), item) =
                    IF ParseChunkSize(item[2]).is = 0 THEN Expect("trailers", 0)
                    ELSE Expect("data", ParseChunkSize(item[2]).is)
           /\ item = <<"crlf">> => /\ AfterItem(Expect("dataEnd", 0), item) = Expect("size", 0)
                                   /\ AfterItem(Expect("trailers", 0), item) = AtHead
           /\ item = <<"trailer">> => AfterItem(Expect("trailers", 0), item) = Expect("trailers", 0)
<1>1. \A what, left : Expect(what, left).at = what /\ Expect(what, left).left = left
  BY DEF Expect
<1>2. ByteItem(item) => /\ AfterItem(Expect("length", 1), item) = AtHead
                        /\ AfterItem(Expect("data", 1), item) = Expect("dataEnd", 0)
                        /\ n # 1 => /\ AfterItem(Expect("length", n), item) = Expect("length", n - 1)
                                    /\ AfterItem(Expect("data", n), item) = Expect("data", n - 1)
  BY <1>1 DEF AfterItem
<1>3. item[1] = "size" /\ item[3] /\ ParseChunkSize(item[2]).ok =>
        AfterItem(Expect("size", 0), item) =
            IF ParseChunkSize(item[2]).is = 0 THEN Expect("trailers", 0)
            ELSE Expect("data", ParseChunkSize(item[2]).is)
  BY <1>1 DEF AfterItem
<1>4. item = <<"crlf">> => /\ AfterItem(Expect("dataEnd", 0), item) = Expect("size", 0)
                           /\ AfterItem(Expect("trailers", 0), item) = AtHead
  BY <1>1 DEF AfterItem
<1>5. item = <<"trailer">> => AfterItem(Expect("trailers", 0), item) = Expect("trailers", 0)
  BY <1>1 DEF AfterItem
<1> QED BY <1>2, <1>3, <1>4, <1>5

\* What follows the items of a head.
LEMMA AfterHead ==
    ASSUME NEW item
    PROVE  /\ item[1] \in {"blank", "part"} => AfterItem(AtHead, item) = AtHead
           /\ item[1] = "head" /\ HeadFrom(item[2], item[3], item[4]).ok =>
                AfterItem(AtHead, item) = AtBody(HeadFrom(item[2], item[3], item[4]).is.framing)
<1>1. AtHead.at = "head"
  BY DEF AtHead, Expect
<1> HIDE DEF AtHead
<1> QED BY <1>1 DEF AfterItem

\* Where the body of each framing begins.
LEMMA BodyStarts ==
    /\ AtBody(Empty) = AtHead
    /\ AtBody(Chunked) = Expect("size", 0)
    /\ \A n \in Nat : AtBody(Length(n)) = Expect("length", n)
    /\ Empty # Chunked
<1>1. /\ Empty.kind = "empty" /\ Chunked.kind = "chunked"
      /\ \A n \in Nat : Length(n).kind = "length" /\ Length(n).size = n
  BY DEF Empty, Chunked, Length
<1>2. Empty # Chunked /\ \A n \in Nat : Length(n) # Empty /\ Length(n) # Chunked
  BY <1>1
<1> HIDE DEF Empty, Chunked, Length
<1>3. AtBody(Empty) = AtHead /\ AtBody(Chunked) = Expect("size", 0)
  BY <1>2 DEF AtBody
<1>4. ASSUME NEW n \in Nat PROVE AtBody(Length(n)) = Expect("length", n)
  BY <1>1, <1>2 DEF AtBody
<1> QED BY <1>2, <1>3, <1>4

\* The body of a head that was just read.
LEMMA FreshBody ==
    ASSUME NEW b \in BOOLEAN
    PROVE  /\ [NoBody EXCEPT !.finished = b] \in Bodies
           /\ [NoBody EXCEPT !.finished = b].got = 0 /\ [NoBody EXCEPT !.finished = b].left = 0
           /\ [NoBody EXCEPT !.finished = b].started = FALSE
           /\ [NoBody EXCEPT !.finished = b].finished = b
<1>1. 0 \in 0 .. MaxBody
  BY Http1Assumption
<1> QED BY <1>1 DEF NoBody, Bodies, Whys

\* The limits are numbers.
LEMMA LimitsNat ==
    MaxHead \in Nat /\ MaxBlank \in Nat /\ MaxBody \in Nat
BY Http1Assumption

-----------------------------------------------------------------------------
(* Every step keeps it *)

\* Nothing of d's own changes.
Same(d) ==
    /\ conn'[d] = conn[d] /\ wire'[d] = wire[d] /\ gone'[d] = gone[d] /\ raw'[d] = raw[d]
    /\ blanks'[d] = blanks[d] /\ spent'[d] = spent[d] /\ head'[d] = head[d]
    /\ body'[d] = body[d] /\ answer'[d] = answer[d]

\* Some step of connection c, its peer's or the listener's with it.
StepOf(c) ==
    \/ Connect(c) \/ HangUp(c) \/ Listener(c) \/ ThreadStep(c) \/ PeerFeeds(c)
    \/ HeadEnds(c) \/ DeadlinePasses(c)

LEMMA SameKept ==
    ASSUME NEW d \in Conns, OwnInv(d), Same(d)
    PROVE  OwnInv(d)'
BY DEF OwnInv, Same, OwnTypes, BlanksCounted, BodyBounded, InStep

\* One connection at a time.
LEMMA OthersSame ==
    ASSUME Domains, NEW c \in Conns, StepOf(c)
    PROVE  Domains' /\ \A d \in Conns \ {c} : Same(d)
<1> USE DEF Domains, Same, ConnAt, own, elsewhere, unread
<1>1. CASE Connect(c) \/ HangUp(c)
  BY <1>1 DEF Connect, HangUp
<1>2. CASE Listener(c)
  BY <1>2 DEF Listener, Claim, Spawn, SpawnFails, AcceptorFails, Refuse_, RefuserEnds
<1>3. CASE HeadOverrun(c) \/ BodyTimesOut(c) \/ BodyStops(c)
  BY <1>3 DEF HeadOverrun, BodyTimesOut, BodyStops, Reject, Fails, SetBody
<1>4. CASE HandlerReads(c) \/ HandlerAnswers(c)
  BY <1>4 DEF HandlerReads, HandlerAnswers, SetBody
<1>5. CASE WriteResponse(c) \/ LingerClose(c) \/ HeadEnds(c) \/ DeadlinePasses(c)
  BY <1>5 DEF WriteResponse, LingerClose, HeadEnds, Leave, DeadlinePasses
<1>6. CASE ReadHead(c)
  BY <1>6 DEF ReadHead, Reject
<1>7. CASE ReadByte(c)
  BY <1>7 DEF ReadByte, SetBody
<1>8. CASE ChunkLine(c) \/ ChunkEnd(c)
  BY <1>8 DEF ChunkLine, ChunkEnd, Fails, SetBody
<1> QED BY <1>1, <1>2, <1>3, <1>4, <1>5, <1>6, <1>7, <1>8 DEF StepOf, ThreadStep, PeerFeeds

\* Outside a request nothing is asked of the stream.
LEMMA OutsideKept ==
    ASSUME NEW c \in Conns, OwnInv(c),
           conn'[c] \in {"backlog", "claimed", "refused", "refusing", "closed"},
           blanks'[c] \in {0, blanks[c]}, blanks'[c] <= MaxBlank,
           raw'[c] \in {0, raw[c]}, gone'[c] \in BOOLEAN, wire'[c] \in {<<>>, wire[c]},
           spent'[c] = spent[c], head'[c] = head[c], body'[c] = body[c]
    PROVE  OwnInv(c)'
<1>1. OwnTypes(c)'
  <2>1. /\ <<>> \in Seq(Items) /\ 0 \in 0 .. MaxHead /\ 0 \in 0 .. MaxBlank + 1
        /\ {"backlog", "claimed", "refused", "refusing", "closed"} \subseteq States
    BY Http1Assumption DEF States, Holding
  <2>2. conn'[c] \in States /\ wire'[c] \in Seq(Items)
    BY <2>1 DEF OwnInv, OwnTypes
  <2>3. raw'[c] \in 0 .. MaxHead /\ blanks'[c] \in 0 .. MaxBlank + 1
    BY <2>1 DEF OwnInv, OwnTypes
  <2> QED BY <2>2, <2>3 DEF OwnInv, OwnTypes
<1>2. BlanksCounted(c)' /\ BodyBounded(c)' /\ InStep(c)'
  BY DEF OwnInv, BlanksCounted, BodyBounded, InStep, Reading
<1> QED BY <1>1, <1>2 DEF OwnInv

\* The accept loop, and the end of a connection's thread.
LEMMA ListenerKept ==
    ASSUME Domains, NEW c \in Conns, OwnInv(c),
           Connect(c) \/ Listener(c) \/ LingerClose(c) \/ HeadEnds(c)
    PROVE  OwnInv(c)'
<1>1. CASE Spawn(c)
  <2>1. PICK stream \in Streams : wire' = [wire EXCEPT ![c] = stream]
    BY <1>1 DEF Spawn
  <2>2. /\ conn[c] = "claimed" /\ conn'[c] = "waiting" /\ wire'[c] = stream
        /\ gone'[c] = gone[c] /\ raw'[c] = raw[c] /\ blanks'[c] = blanks[c] /\ spent'[c] = spent[c]
        /\ head'[c] = head[c] /\ body'[c] = body[c]
    BY <1>1, <2>1 DEF Spawn, ConnAt, Domains
  <2>3. stream \in Seq(Items) /\ Aligned(stream, AtHead)
    BY StreamAligned
  <2>4. OwnTypes(c)'
    BY <2>2, <2>3 DEF OwnInv, OwnTypes, States, Holding
  <2>5. BlanksCounted(c)' /\ BodyBounded(c)' /\ InStep(c)'
    BY <2>2, <2>3 DEF OwnInv, BlanksCounted, BodyBounded, InStep, Reading
  <2> QED BY <2>4, <2>5 DEF OwnInv
<1>2. CASE Connect(c) \/ Claim(c) \/ SpawnFails(c) \/ AcceptorFails(c) \/ Refuse_(c) \/ RefuserEnds(c)
  <2>1. /\ conn'[c] \in {"backlog", "claimed", "refused", "closed"}
        /\ conn[c] # "writing"
        /\ UNCHANGED own
    BY <1>2 DEF Connect, Claim, SpawnFails, AcceptorFails, Refuse_, RefuserEnds, ConnAt, Domains
  <2>2. blanks[c] <= MaxBlank /\ gone[c] \in BOOLEAN
    BY <2>1 DEF OwnInv, OwnTypes, BlanksCounted
  <2> QED BY <2>1, <2>2, OutsideKept DEF own
<1>3. CASE LingerClose(c) \/ HeadEnds(c)
  <2>1. /\ conn'[c] = "closed" /\ wire'[c] = <<>> /\ gone'[c] = FALSE /\ raw'[c] = 0 /\ blanks'[c] = 0
        /\ spent'[c] = spent[c] /\ head'[c] = head[c] /\ body'[c] = body[c]
    BY <1>3 DEF LingerClose, HeadEnds, Leave, ConnAt, Domains
  <2>2. 0 <= MaxBlank
    BY Http1Assumption
  <2> QED BY <2>1, <2>2, OutsideKept
<1> QED BY <1>1, <1>2, <1>3 DEF Listener

\* A hangup takes what was on its way or leaves it; a deadline is only noted.
LEMMA PeerKept ==
    ASSUME Domains, NEW c \in Conns, OwnInv(c), HangUp(c) \/ DeadlinePasses(c)
    PROVE  OwnInv(c)'
<1>1. /\ wire'[c] \in {wire[c], <<>>} /\ gone'[c] \in BOOLEAN /\ spent'[c] \in BOOLEAN
      /\ conn'[c] = conn[c] /\ raw'[c] = raw[c] /\ blanks'[c] = blanks[c]
      /\ head'[c] = head[c] /\ body'[c] = body[c] /\ answer'[c] = answer[c]
  BY DEF HangUp, DeadlinePasses, Domains, OwnInv, OwnTypes, own
<1>2. OwnTypes(c)' /\ BlanksCounted(c)' /\ BodyBounded(c)'
  <2>1. wire'[c] \in Seq(Items)
    <3>1. <<>> \in Seq(Items)
      OBVIOUS
    <3> QED BY <1>1, <3>1 DEF OwnInv, OwnTypes
  <2>2. OwnTypes(c)'
    BY <1>1, <2>1 DEF OwnInv, OwnTypes
  <2> QED BY <1>1, <2>2 DEF OwnInv, BlanksCounted, BodyBounded
<1>3. InStep(c)'
  BY <1>1, AlignedEmpty DEF OwnInv, InStep
<1> QED BY <1>2, <1>3 DEF OwnInv

\* A tail of a sequence of items is one.
LEMMA TailTyped ==
    ASSUME NEW items \in Seq(Items), items # <<>>
    PROVE  Tail(items) \in Seq(Items)
OBVIOUS

\* An answer is about to be written: a connection that may be kept is aligned.
LEMMA ToWriting ==
    ASSUME NEW c \in Conns, OwnInv(c),
           conn'[c] = "writing", wire'[c] \in Seq(Items), gone'[c] = gone[c], spent'[c] = spent[c],
           raw'[c] \in 0 .. MaxHead, blanks'[c] \in 0 .. MaxBlank + 1, head'[c] = head[c],
           body'[c] \in Bodies, body'[c].got + body'[c].left <= MaxBody,
           body'[c].finished /\ ~answer'[c].close => Aligned(wire'[c], AtHead)
    PROVE  OwnInv(c)'
<1>1. OwnTypes(c)'
  BY DEF OwnInv, OwnTypes, States, Holding, InRequest
<1>2. BlanksCounted(c)' /\ BodyBounded(c)'
  BY DEF BlanksCounted, BodyBounded, Reading
<1>3. InStep(c)'
  BY DEF InStep
<1> QED BY <1>1, <1>2, <1>3 DEF OwnInv

\* read_head: a head is read where one is expected, and leaves the stream where the
\* body it declares begins.
LEMMA HeadKept ==
    ASSUME Domains, NEW c \in Conns, OwnInv(c), HeadOverrun(c) \/ ReadHead(c)
    PROVE  OwnInv(c)'
<1>1. CASE HeadOverrun(c)
  <2>1. /\ conn'[c] = "writing" /\ answer'[c].close = TRUE
        /\ UNCHANGED <<wire, gone, raw, blanks, spent, head, body>>
    BY <1>1 DEF HeadOverrun, Reject, ConnAt, Domains
  <2>2. /\ wire[c] \in Seq(Items) /\ raw[c] \in 0 .. MaxHead /\ blanks[c] \in 0 .. MaxBlank + 1
        /\ body[c] \in Bodies /\ body[c].got + body[c].left <= MaxBody
    BY DEF OwnInv, OwnTypes, BodyBounded
  <2> QED BY <2>1, <2>2, ToWriting
<1>2. CASE ReadHead(c)
  <2> DEFINE item   == Head(wire[c])
             lead   == IF item[1] = "blank" /\ raw[c] = blanks[c] THEN blanks[c] + 1 ELSE blanks[c]
             parsed == HeadFrom(item[2], item[3], item[4])
  <2>1. /\ conn[c] \in {"waiting", "heading"} /\ wire[c] # <<>> /\ raw[c] < MaxHead
        /\ wire'[c] = Tail(wire[c]) /\ raw'[c] = raw[c] + 1 /\ blanks'[c] = lead
        /\ gone'[c] = gone[c] /\ spent'[c] = spent[c]
    BY <1>2 DEF ReadHead, Domains
  <2>2. \/ /\ conn'[c] = "writing" /\ answer'[c].close = TRUE
           /\ head'[c] = head[c] /\ body'[c] = body[c]
        \/ /\ lead <= MaxBlank /\ item[1] \in {"blank", "part"}
           /\ conn'[c] = "heading" /\ head'[c] = head[c] /\ body'[c] = body[c]
        \/ /\ lead <= MaxBlank /\ item[1] = "head" /\ parsed.ok
           /\ conn'[c] = "handler" /\ head'[c] = parsed.is
           /\ body'[c] = [NoBody EXCEPT !.finished = parsed.is.framing = Empty]
    <3>1. \/ (\E s : Reject(c, s)) /\ UNCHANGED <<head, body>>
          \/ /\ lead <= MaxBlank /\ item[1] \in {"blank", "part"}
             /\ ConnAt(c, "heading") /\ UNCHANGED <<head, body>>
          \/ /\ lead <= MaxBlank /\ item[1] = "head" /\ parsed.ok /\ ConnAt(c, "handler")
             /\ head' = [head EXCEPT ![c] = parsed.is]
             /\ body' = [body EXCEPT ![c] = [NoBody EXCEPT !.finished = parsed.is.framing = Empty]]
      BY <1>2 DEF ReadHead
    <3>2. ASSUME NEW s, Reject(c, s) PROVE conn'[c] = "writing" /\ answer'[c].close = TRUE
      BY <3>2 DEF Reject, ConnAt, Domains
    <3> HIDE DEF parsed, item, lead
    <3> QED BY <3>1, <3>2 DEF ConnAt, Domains
  <2>3. /\ wire[c] \in Seq(Items) /\ raw[c] \in 0 .. MaxHead /\ blanks[c] \in 0 .. MaxBlank
        /\ body[c] \in Bodies /\ body[c].got + body[c].left <= MaxBody
        /\ gone[c] \in BOOLEAN /\ spent[c] \in BOOLEAN
        /\ head[c].framing \in Framings /\ head[c].expects \in BOOLEAN
    BY <2>1 DEF OwnInv, OwnTypes, BodyBounded, BlanksCounted
  <2>4. /\ wire'[c] \in Seq(Items) /\ Aligned(wire'[c], AfterItem(AtHead, item))
    <3>1. Aligned(wire[c], AtHead)
      BY <2>1 DEF OwnInv, InStep
    <3> QED BY <2>1, <2>3, <3>1, AlignedNext, TailTyped
  <2>5. raw'[c] \in 0 .. MaxHead /\ lead \in 0 .. MaxBlank + 1 /\ blanks'[c] \in 0 .. MaxBlank + 1
    <3>1. lead \in {blanks[c], blanks[c] + 1}
      OBVIOUS
    <3> HIDE DEF lead
    <3> QED BY <2>1, <2>3, <3>1, LimitsNat
  <2> HIDE DEF item, lead, parsed
  <2>6. CASE conn'[c] = "writing" /\ answer'[c].close = TRUE /\ head'[c] = head[c] /\ body'[c] = body[c]
    BY <2>1, <2>3, <2>4, <2>5, <2>6, ToWriting
  <2>7. CASE /\ lead <= MaxBlank /\ item[1] \in {"blank", "part"}
             /\ conn'[c] = "heading" /\ head'[c] = head[c] /\ body'[c] = body[c]
    <3>1. Aligned(wire'[c], AtHead)
      BY <2>4, <2>7, AfterHead
    <3>2. OwnTypes(c)'
      BY <2>1, <2>3, <2>4, <2>5, <2>7 DEF OwnTypes, States, Holding, InRequest
    <3>3. BlanksCounted(c)' /\ BodyBounded(c)'
      BY <2>1, <2>3, <2>7 DEF BlanksCounted, BodyBounded, Reading
    <3>4. InStep(c)'
      BY <2>7, <3>1 DEF InStep
    <3> QED BY <3>2, <3>3, <3>4 DEF OwnInv
  <2>8. CASE /\ lead <= MaxBlank /\ item[1] = "head" /\ parsed.ok
             /\ conn'[c] = "handler" /\ head'[c] = parsed.is
             /\ body'[c] = [NoBody EXCEPT !.finished = parsed.is.framing = Empty]
    <3>1. Aligned(wire'[c], AtBody(parsed.is.framing))
      BY <2>4, <2>8, AfterHead DEF parsed
    <3>2. parsed.is.framing \in Framings /\ parsed.is.expects \in BOOLEAN
      BY <2>8, HeadTyped DEF parsed
    <3>3. /\ body'[c] \in Bodies
          /\ body'[c].got = 0 /\ body'[c].left = 0 /\ body'[c].started = FALSE
          /\ body'[c].finished => head'[c].framing = Empty
      <4>1. CASE parsed.is.framing = Empty
        <5>1. body'[c] = [NoBody EXCEPT !.finished = TRUE]
          BY <2>8, <4>1
        <5> QED BY <2>8, <4>1, <5>1, FreshBody
      <4>2. CASE parsed.is.framing # Empty
        <5>1. body'[c] = [NoBody EXCEPT !.finished = FALSE]
          BY <2>8, <4>2
        <5> QED BY <5>1, FreshBody
      <4> QED BY <4>1, <4>2
    <3>4. OwnTypes(c)'
      BY <2>1, <2>3, <2>4, <2>5, <2>8, <3>2, <3>3 DEF OwnTypes, States, Holding, InRequest
    <3>5. BlanksCounted(c)' /\ BodyBounded(c)'
      BY <2>1, <2>8, <3>3, LimitsNat DEF BlanksCounted, BodyBounded, Reading
    <3>7. InStep(c)'
      <4>1. body'[c].finished => Aligned(wire'[c], AtHead)
        BY <2>8, <3>1, <3>3, BodyStarts
      <4> QED BY <2>8, <3>1, <4>1 DEF InStep
    <3> QED BY <3>4, <3>5, <3>7 DEF OwnInv
  <2> QED BY <2>2, <2>6, <2>7, <2>8
<1> QED BY <1>1, <1>2

\* The body cannot be had, wherever it was being read: it is not finished, so
\* nothing is asked of the stream any more.
LEMMA FailsKept ==
    ASSUME Domains, NEW c \in Conns, OwnInv(c), NEW why \in Whys, conn[c] \in Reading,
           Fails(c, why), wire'[c] \in Seq(Items)
    PROVE  OwnInv(c)'
<1>1. /\ body'[c] = [body[c] EXCEPT !.why = why]
      /\ conn'[c] = IF conn[c] = "drain" THEN "writing" ELSE "handler"
      /\ UNCHANGED <<gone, raw, blanks, spent, head>>
  BY DEF Fails, SetBody, ConnAt, unread, Domains
<1>2. /\ body[c] \in Bodies /\ body[c].got + body[c].left <= MaxBody
      /\ body[c].started = TRUE /\ body[c].finished = FALSE
      /\ raw[c] \in 0 .. MaxHead /\ blanks[c] \in 0 .. MaxBlank + 1 /\ blanks[c] <= MaxBlank
  BY DEF OwnInv, OwnTypes, BodyBounded, BlanksCounted, Reading, Bodies
<1>3. /\ body'[c] \in Bodies /\ body'[c].got = body[c].got /\ body'[c].left = body[c].left
      /\ body'[c].started = TRUE /\ body'[c].finished = FALSE
  BY <1>1, <1>2 DEF Bodies
<1>4. CASE conn'[c] = "writing"
  BY <1>1, <1>2, <1>3, <1>4, ToWriting
<1>5. CASE conn'[c] = "handler"
  <2>1. OwnTypes(c)'
    BY <1>1, <1>3, <1>5 DEF OwnInv, OwnTypes, States, Holding, InRequest
  <2>2. BlanksCounted(c)' /\ BodyBounded(c)'
    BY <1>1, <1>2, <1>3, <1>5 DEF BlanksCounted, BodyBounded, Reading
  <2>3. InStep(c)'
    BY <1>3, <1>5 DEF InStep
  <2> QED BY <2>1, <2>2, <2>3 DEF OwnInv
<1> QED BY <1>1, <1>4, <1>5

\* A body starts to be read where the head's framing says it begins.
LEMMA HandlerReadsKept ==
    ASSUME Domains, NEW c \in Conns, OwnInv(c), HandlerReads(c)
    PROVE  OwnInv(c)'
<1> DEFINE framing == head[c].framing
           begun   == [body[c] EXCEPT !.started = TRUE, !.left = framing.size,
                                      !.invited = head[c].expects]
<1>1. /\ conn[c] = "handler" /\ ~body[c].started
      /\ UNCHANGED <<wire, gone, raw, blanks, spent, head, answer>>
  BY DEF HandlerReads, unread
<1>2. /\ body[c] \in Bodies /\ body[c].got = 0 /\ body[c].left = 0
      /\ body[c].finished => framing = Empty
      /\ blanks[c] <= MaxBlank /\ framing \in Framings
      /\ head[c].expects \in BOOLEAN
      /\ Aligned(wire[c], AtBody(framing))
  BY <1>1 DEF OwnInv, OwnTypes, BodyBounded, BlanksCounted, InStep
<1>3. \/ /\ framing = Empty /\ conn'[c] = "handler"
         /\ body'[c] = [begun EXCEPT !.finished = TRUE, !.invited = FALSE]
      \/ conn'[c] = "handler" /\ body'[c] = [body[c] EXCEPT !.started = TRUE, !.why = "TooLarge"]
         /\ framing.kind = "length"
      \/ /\ framing # Empty /\ framing.size <= MaxBody /\ conn'[c] = "handler"
         /\ body'[c] = [begun EXCEPT !.why = "Incomplete"]
      \/ /\ framing # Empty /\ framing.size <= MaxBody
         /\ conn'[c] = (IF framing = Chunked THEN "size" ELSE "length") /\ body'[c] = begun
  BY <1>1 DEF HandlerReads, SetBody, ConnAt, Domains
<1>4. /\ framing.size \in Nat /\ (framing = Empty \/ framing = Chunked => framing.size = 0)
      /\ framing.kind = "length" => framing # Empty
      /\ framing # Empty /\ framing # Chunked => framing = Length(framing.size) /\ framing.size >= 1
  BY <1>2 DEF Framings, Empty, Chunked, Length
<1> HIDE DEF framing
<1>5. OwnTypes(c)' /\ BodyBounded(c)' /\ (body'[c].finished => framing = Empty) /\ body'[c].started = TRUE
  <2>1. CASE framing = Empty /\ conn'[c] = "handler"
             /\ body'[c] = [begun EXCEPT !.finished = TRUE, !.invited = FALSE]
    <3>1. /\ body'[c] \in Bodies /\ body'[c].got = 0 /\ body'[c].left = 0 /\ body'[c].started = TRUE
      BY <1>2, <1>4, <2>1, LimitsNat DEF Bodies
    <3>2. OwnTypes(c)'
      BY <1>1, <2>1, <3>1 DEF OwnInv, OwnTypes
    <3> QED BY <2>1, <3>1, <3>2, LimitsNat DEF BodyBounded, Reading
  <2>2. CASE conn'[c] = "handler" /\ body'[c] = [body[c] EXCEPT !.started = TRUE, !.why = "TooLarge"]
             /\ framing.kind = "length"
    <3>1. /\ body'[c] \in Bodies /\ body'[c].got = 0 /\ body'[c].left = 0 /\ body'[c].started = TRUE
          /\ body'[c].finished = body[c].finished
      BY <1>2, <2>2 DEF Bodies, Whys
    <3>2. OwnTypes(c)'
      BY <1>1, <2>2, <3>1 DEF OwnInv, OwnTypes
    <3> QED BY <1>2, <2>2, <3>1, <3>2, LimitsNat DEF BodyBounded, Reading
  <2>3. CASE /\ framing # Empty /\ framing.size <= MaxBody /\ conn'[c] = "handler"
             /\ body'[c] = [begun EXCEPT !.why = "Incomplete"]
    <3>1. /\ body'[c] \in Bodies /\ body'[c].got = 0 /\ body'[c].left = framing.size
          /\ body'[c].started = TRUE /\ body'[c].finished = body[c].finished
      <4>1. framing.size \in 0 .. MaxBody
        BY <1>4, <2>3, LimitsNat
      <4> QED BY <1>2, <2>3, <4>1 DEF Bodies, Whys
    <3>2. OwnTypes(c)'
      BY <1>1, <2>3, <3>1 DEF OwnInv, OwnTypes
    <3> QED BY <1>2, <1>4, <2>3, <3>1, <3>2, LimitsNat DEF BodyBounded, Reading
  <2>4. CASE /\ framing # Empty /\ framing.size <= MaxBody
             /\ conn'[c] = (IF framing = Chunked THEN "size" ELSE "length") /\ body'[c] = begun
    <3>1. /\ body'[c] \in Bodies /\ body'[c].got = 0 /\ body'[c].left = framing.size
          /\ body'[c].started = TRUE /\ body'[c].finished = body[c].finished
      <4>1. framing.size \in 0 .. MaxBody
        BY <1>4, <2>4, LimitsNat
      <4> QED BY <1>2, <2>4, <4>1 DEF Bodies
    <3>2. OwnTypes(c)'
      BY <1>1, <2>4, <3>1 DEF OwnInv, OwnTypes, States, Holding, InRequest, Reading
    <3> QED BY <1>2, <1>4, <2>4, <3>1, <3>2, LimitsNat DEF BodyBounded, Reading
  <2> QED BY <1>3, <2>1, <2>2, <2>3, <2>4
<1>6. BlanksCounted(c)'
  BY <1>1, <1>2 DEF BlanksCounted
<1>7. InStep(c)'
  <2>1. CASE conn'[c] = "handler"
    BY <1>1, <1>2, <1>5, <2>1, BodyStarts DEF InStep
  <2>2. CASE conn'[c] = (IF framing = Chunked THEN "size" ELSE "length") /\ body'[c] = begun /\ framing # Empty
    <3>1. body'[c].left = framing.size
      BY <1>2, <2>2 DEF Bodies
    <3>2. CASE framing = Chunked
      BY <1>1, <1>2, <2>2, <3>2, BodyStarts DEF InStep
    <3>3. CASE framing # Chunked
      <4>1. Aligned(wire[c], Expect("length", framing.size))
        BY <1>2, <1>4, <2>2, <3>3, BodyStarts
      <4> QED BY <1>1, <2>2, <3>1, <3>3, <4>1 DEF InStep
    <3> QED BY <3>2, <3>3
  <2> QED BY <1>3, <2>1, <2>2
<1> QED BY <1>5, <1>6, <1>7 DEF OwnInv

\* The handler returns; a body nobody asked for is drained, from where it begins.
LEMMA HandlerAnswersKept ==
    ASSUME Domains, NEW c \in Conns, OwnInv(c), HandlerAnswers(c)
    PROVE  OwnInv(c)'
<1>1. /\ conn[c] = "handler"
      /\ UNCHANGED <<wire, gone, raw, blanks, spent, head>>
      /\ \/ /\ CheapToDrain(c) /\ conn'[c] = "drain"
            /\ body'[c] = [body[c] EXCEPT !.started = TRUE, !.left = head[c].framing.size]
         \/ conn'[c] = "writing" /\ body'[c] = body[c]
  BY DEF HandlerAnswers, SetBody, ConnAt, unread, Domains
<1>2. /\ body[c] \in Bodies /\ body[c].got + body[c].left <= MaxBody
      /\ blanks[c] <= MaxBlank /\ head[c].framing \in Framings
      /\ raw[c] \in 0 .. MaxHead /\ blanks[c] \in 0 .. MaxBlank + 1 /\ wire[c] \in Seq(Items)
      /\ ~body[c].started => /\ body[c].got = 0 /\ Aligned(wire[c], AtBody(head[c].framing))
      /\ body[c].finished => Aligned(wire[c], AtHead)
  BY <1>1 DEF OwnInv, OwnTypes, BodyBounded, BlanksCounted, InStep
<1>3. CASE conn'[c] = "writing" /\ body'[c] = body[c]
  BY <1>1, <1>2, <1>3, ToWriting
<1>4. CASE /\ CheapToDrain(c) /\ conn'[c] = "drain"
           /\ body'[c] = [body[c] EXCEPT !.started = TRUE, !.left = head[c].framing.size]
  <2> DEFINE size == head[c].framing.size
  <2>1. /\ ~body[c].started /\ ~body[c].finished
        /\ head[c].framing.kind = "length" /\ size <= MaxBody
    BY <1>4 DEF CheapToDrain
  <2>2. size \in Nat /\ size >= 1 /\ head[c].framing = Length(size)
    BY <1>2, <2>1 DEF Framings, Empty, Chunked, Length
  <2>3. /\ body'[c] \in Bodies /\ body'[c].got = 0 /\ body'[c].left = size
        /\ body'[c].started = TRUE /\ body'[c].finished = FALSE
    <3>1. size \in 0 .. MaxBody
      BY <2>1, <2>2, LimitsNat
    <3>2. /\ body[c].got = 0 /\ body[c].finished = FALSE
      BY <1>2, <2>1 DEF Bodies
    <3> QED BY <1>2, <1>4, <3>1, <3>2 DEF Bodies
  <2>4. Aligned(wire[c], Expect("length", size))
    BY <1>2, <2>1, <2>2, BodyStarts
  <2> HIDE DEF size
  <2>5. OwnTypes(c)'
    BY <1>1, <1>4, <2>3 DEF OwnInv, OwnTypes, States, Holding, InRequest, Reading
  <2>6. BlanksCounted(c)' /\ BodyBounded(c)'
    BY <1>1, <1>2, <1>4, <2>1, <2>2, <2>3, LimitsNat DEF BlanksCounted, BodyBounded, Reading, size
  <2>7. InStep(c)'
    BY <1>1, <1>4, <2>3, <2>4 DEF InStep
  <2> QED BY <2>5, <2>6, <2>7 DEF OwnInv
<1> QED BY <1>1, <1>3, <1>4

\* read_exactly: a byte less is left, here and in the stream.
LEMMA ReadByteKept ==
    ASSUME Domains, NEW c \in Conns, OwnInv(c), ReadByte(c)
    PROVE  OwnInv(c)'
<1> DEFINE item == Head(wire[c])
           b == [body[c] EXCEPT !.left = @ - 1, !.got = @ + 1, !.text = @ /\ item[1] = "byte"]
           n == body[c].left
<1>1. /\ conn[c] \in {"length", "data", "drain"} /\ wire[c] # <<>> /\ ByteItem(item)
      /\ wire'[c] = Tail(wire[c])
      /\ UNCHANGED <<gone, raw, blanks, spent, head, answer>>
  BY DEF ReadByte, unread, Domains, ByteItem
<1>2. \/ b.left > 0 /\ body'[c] = b /\ conn'[c] = conn[c]
      \/ b.left = 0 /\ conn[c] = "length" /\ body'[c] = Complete(b) /\ conn'[c] = "handler"
      \/ b.left = 0 /\ conn[c] = "data" /\ body'[c] = b /\ conn'[c] = "dataEnd"
      \/ b.left = 0 /\ conn[c] = "drain" /\ body'[c] = Complete(b) /\ conn'[c] = "writing"
  BY DEF ReadByte, SetBody, ConnAt, Domains
<1>3. /\ body[c] \in Bodies /\ body[c].got + n <= MaxBody /\ n >= 1
      /\ body[c].started = TRUE /\ body[c].finished = FALSE
      /\ wire[c] \in Seq(Items) /\ blanks[c] <= MaxBlank
      /\ raw[c] \in 0 .. MaxHead /\ blanks[c] \in 0 .. MaxBlank + 1
      /\ conn[c] \in {"length", "drain"} => Aligned(wire[c], Expect("length", n))
      /\ conn[c] = "data" => Aligned(wire[c], Expect("data", n))
  BY <1>1 DEF OwnInv, OwnTypes, BodyBounded, BlanksCounted, InStep, Reading, Bodies
<1>4. /\ b \in Bodies /\ b.left = n - 1 /\ b.got = body[c].got + 1
      /\ b.started = TRUE /\ b.finished = FALSE
  <2>1. /\ n \in Nat /\ body[c].got \in Nat
        /\ n - 1 \in 0 .. MaxBody /\ body[c].got + 1 \in 0 .. MaxBody
    <3>1. n \in Nat /\ body[c].got \in Nat
      BY <1>3 DEF Bodies
    <3>2. body[c].got + n <= MaxBody /\ n >= 1
      BY <1>3
    <3> HIDE DEF b, n, item
    <3> QED BY <3>1, <3>2, LimitsNat
  <2>2. (body[c].text /\ item[1] = "byte") \in BOOLEAN
    BY <1>3 DEF Bodies
  <2> HIDE DEF item
  <2> QED BY <1>3, <2>1, <2>2 DEF Bodies
<1>5. /\ Complete(b) \in Bodies /\ Complete(b).left = n - 1 /\ Complete(b).got = body[c].got + 1
      /\ Complete(b).started = TRUE /\ Complete(b).finished = TRUE
  <2> HIDE DEF b, n
  <2> QED BY <1>4 DEF Complete, Bodies, Whys
<1>6. n \in Nat /\ body[c].got \in Nat
  BY <1>3 DEF Bodies
<1>7. /\ conn[c] \in {"length", "drain"} =>
            Aligned(wire'[c], IF n = 1 THEN AtHead ELSE Expect("length", n - 1))
      /\ conn[c] = "data" =>
            Aligned(wire'[c], IF n = 1 THEN Expect("dataEnd", 0) ELSE Expect("data", n - 1))
      /\ wire'[c] \in Seq(Items)
  <2> HIDE DEF item, n
  <2>1. conn[c] \in {"length", "drain"} => Aligned(wire'[c], AfterItem(Expect("length", n), item))
    BY <1>1, <1>3, AlignedNext DEF item
  <2>2. conn[c] = "data" => Aligned(wire'[c], AfterItem(Expect("data", n), item))
    BY <1>1, <1>3, AlignedNext DEF item
  <2>3. /\ AfterItem(Expect("length", n), item) = IF n = 1 THEN AtHead ELSE Expect("length", n - 1)
        /\ AfterItem(Expect("data", n), item) = IF n = 1 THEN Expect("dataEnd", 0) ELSE Expect("data", n - 1)
    BY <1>1, <1>6, AfterBody
  <2> QED BY <1>1, <1>3, <2>1, <2>2, <2>3, TailTyped
<1> HIDE DEF b, n, item
<1>8. CASE b.left > 0 /\ body'[c] = b /\ conn'[c] = conn[c]
  <2>1. n # 1
    BY <1>4, <1>8
  <2>2. OwnTypes(c)'
    BY <1>1, <1>4, <1>7, <1>8 DEF OwnInv, OwnTypes
  <2>3. BlanksCounted(c)' /\ BodyBounded(c)'
    <3>1. b.got + b.left <= MaxBody /\ b.left >= 1
      BY <1>3, <1>4, <1>6, <1>8, LimitsNat
    <3>2. BlanksCounted(c)'
      BY <1>1, <1>3 DEF BlanksCounted
    <3>3. BodyBounded(c)'
      BY <1>1, <1>4, <1>8, <3>1 DEF BodyBounded, Reading
    <3> QED BY <3>2, <3>3
  <2>4. InStep(c)'
    BY <1>1, <1>4, <1>7, <1>8, <2>1 DEF InStep
  <2> QED BY <2>2, <2>3, <2>4 DEF OwnInv
<1>9. CASE b.left = 0 /\ conn[c] = "length" /\ body'[c] = Complete(b) /\ conn'[c] = "handler"
  <2>1. n = 1
    BY <1>4, <1>6, <1>9
  <2>2. OwnTypes(c)'
    BY <1>1, <1>5, <1>7, <1>9 DEF OwnInv, OwnTypes, States, Holding, InRequest
  <2>3. BlanksCounted(c)' /\ BodyBounded(c)'
    <3>1. Complete(b).got + Complete(b).left <= MaxBody
      BY <1>3, <1>5, <1>6, LimitsNat
    <3>2. BlanksCounted(c)'
      BY <1>1, <1>3 DEF BlanksCounted
    <3>3. BodyBounded(c)'
      BY <1>5, <1>9, <3>1 DEF BodyBounded, Reading
    <3> QED BY <3>2, <3>3
  <2>4. InStep(c)'
    BY <1>5, <1>7, <1>9, <2>1 DEF InStep
  <2> QED BY <2>2, <2>3, <2>4 DEF OwnInv
<1>10. CASE b.left = 0 /\ conn[c] = "data" /\ body'[c] = b /\ conn'[c] = "dataEnd"
  <2>1. n = 1
    BY <1>4, <1>6, <1>10
  <2>2. OwnTypes(c)'
    BY <1>1, <1>4, <1>7, <1>10 DEF OwnInv, OwnTypes, States, Holding, InRequest, Reading
  <2>3. BlanksCounted(c)' /\ BodyBounded(c)'
    <3>1. b.got + b.left <= MaxBody
      BY <1>3, <1>4, <1>6, LimitsNat
    <3>2. BlanksCounted(c)'
      BY <1>1, <1>3 DEF BlanksCounted
    <3>3. BodyBounded(c)'
      BY <1>4, <1>10, <3>1 DEF BodyBounded, Reading
    <3> QED BY <3>2, <3>3
  <2>4. InStep(c)'
    BY <1>7, <1>10, <2>1 DEF InStep
  <2> QED BY <2>2, <2>3, <2>4 DEF OwnInv
<1>11. CASE b.left = 0 /\ conn[c] = "drain" /\ body'[c] = Complete(b) /\ conn'[c] = "writing"
  <2>1. n = 1
    BY <1>4, <1>6, <1>11
  <2>2. body'[c].got + body'[c].left <= MaxBody
    BY <1>3, <1>5, <1>6, <1>11, LimitsNat
  <2> QED BY <1>1, <1>3, <1>5, <1>7, <1>11, <2>1, <2>2, ToWriting
<1> QED BY <1>2, <1>8, <1>9, <1>10, <1>11

\* read_chunked's size line.
LEMMA ChunkLineKept ==
    ASSUME Domains, NEW c \in Conns, OwnInv(c), ChunkLine(c)
    PROVE  OwnInv(c)'
<1> DEFINE item == Head(wire[c])
           size == ParseChunkSize(item[2])
<1>1. /\ conn[c] = "size" /\ wire[c] # <<>> /\ item[1] = "size" /\ wire'[c] = Tail(wire[c])
      /\ \/ Fails(c, "Malformed") \/ Fails(c, "TooLarge")
         \/ /\ item[3] /\ size.ok /\ size.is <= MaxBody - body[c].got
            /\ body'[c] = [body[c] EXCEPT !.left = size.is]
            /\ conn'[c] = (IF size.is = 0 THEN "trailers" ELSE "data")
            /\ UNCHANGED <<gone, raw, blanks, spent, head, answer>>
  BY DEF ChunkLine, SetBody, ConnAt, unread, Domains
<1>2. /\ wire[c] \in Seq(Items) /\ Aligned(wire[c], Expect("size", 0))
      /\ body[c] \in Bodies /\ body[c].started = TRUE /\ body[c].finished = FALSE
      /\ blanks[c] <= MaxBlank
  BY <1>1 DEF OwnInv, OwnTypes, BodyBounded, BlanksCounted, InStep, Reading, Bodies
<1>3. wire'[c] \in Seq(Items) /\ Aligned(wire'[c], AfterItem(Expect("size", 0), item))
  BY <1>1, <1>2, AlignedNext, TailTyped
<1>4. size.ok => size.is \in Nat
  BY DEF ParseChunkSize, Ok, Refuse
<1> HIDE DEF item
<1>5. CASE Fails(c, "Malformed") \/ Fails(c, "TooLarge")
  BY <1>1, <1>3, <1>5, FailsKept DEF Whys, Reading
<1>6. CASE /\ item[3] /\ size.ok /\ size.is <= MaxBody - body[c].got
           /\ body'[c] = [body[c] EXCEPT !.left = size.is]
           /\ conn'[c] = (IF size.is = 0 THEN "trailers" ELSE "data")
           /\ UNCHANGED <<gone, raw, blanks, spent, head, answer>>
  <2>1. AfterItem(Expect("size", 0), item)
            = IF size.is = 0 THEN Expect("trailers", 0) ELSE Expect("data", size.is)
    BY <1>1, <1>6, AfterBody
  <2> DEFINE k == size.is
  <2>2. k \in Nat /\ k <= MaxBody - body[c].got
    BY <1>4, <1>6
  <2> HIDE DEF size, k
  <2>3. k \in 0 .. MaxBody /\ body[c].got \in Nat /\ body[c].got + k <= MaxBody
    BY <1>2, <2>2, LimitsNat DEF Bodies
  <2>4. /\ body'[c] \in Bodies /\ body'[c].left = k /\ body'[c].got = body[c].got
        /\ body'[c].started = TRUE /\ body'[c].finished = FALSE
    BY <1>2, <1>6, <2>3 DEF Bodies, k
  <2>5. conn'[c] = (IF k = 0 THEN "trailers" ELSE "data")
    BY <1>6 DEF k
  <2>6. Aligned(wire'[c], IF k = 0 THEN Expect("trailers", 0) ELSE Expect("data", k))
    BY <1>3, <2>1 DEF k
  <2>7. OwnTypes(c)'
    BY <1>3, <1>6, <2>4, <2>5 DEF OwnInv, OwnTypes, States, Holding, InRequest, Reading
  <2>8. BlanksCounted(c)' /\ BodyBounded(c)'
    BY <1>2, <1>6, <2>2, <2>3, <2>4, <2>5, LimitsNat DEF BlanksCounted, BodyBounded, Reading
  <2>9. InStep(c)'
    BY <2>4, <2>5, <2>6 DEF InStep
  <2> QED BY <2>7, <2>8, <2>9 DEF OwnInv
<1> QED BY <1>1, <1>5, <1>6

\* The lines that end a chunk and a chunked body.
LEMMA ChunkEndKept ==
    ASSUME Domains, NEW c \in Conns, OwnInv(c), ChunkEnd(c)
    PROVE  OwnInv(c)'
<1> DEFINE item == Head(wire[c])
<1>1. /\ conn[c] \in {"dataEnd", "trailers"} /\ wire[c] # <<>> /\ wire'[c] = Tail(wire[c])
      /\ \/ Fails(c, "Malformed")
         \/ /\ UNCHANGED <<gone, raw, blanks, spent, head, answer>>
            /\ \/ /\ item = <<"crlf">> /\ conn[c] = "dataEnd"
                  /\ conn'[c] = "size" /\ body'[c] = body[c]
               \/ /\ item = <<"crlf">> /\ conn[c] = "trailers"
                  /\ conn'[c] = "handler" /\ body'[c] = Complete(body[c])
               \/ /\ item = <<"trailer">> /\ conn[c] = "trailers"
                  /\ conn'[c] = conn[c] /\ body'[c] = [body[c] EXCEPT !.trailers = @ + 1]
  BY DEF ChunkEnd, SetBody, ConnAt, unread, Domains
<1>2. /\ wire[c] \in Seq(Items) /\ Aligned(wire[c], Expect(conn[c], 0))
      /\ body[c] \in Bodies /\ body[c].started = TRUE /\ body[c].finished = FALSE
      /\ blanks[c] <= MaxBlank /\ body[c].got + body[c].left <= MaxBody /\ body[c].left = 0
  BY <1>1 DEF OwnInv, OwnTypes, BodyBounded, BlanksCounted, InStep, Reading, Bodies
<1>3. wire'[c] \in Seq(Items) /\ Aligned(wire'[c], AfterItem(Expect(conn[c], 0), item))
  BY <1>1, <1>2, AlignedNext, TailTyped
<1> HIDE DEF item
<1>4. CASE Fails(c, "Malformed")
  BY <1>1, <1>3, <1>4, FailsKept DEF Whys, Reading
<1>5. CASE /\ UNCHANGED <<gone, raw, blanks, spent, head, answer>>
           /\ item = <<"crlf">> /\ conn[c] = "dataEnd"
           /\ conn'[c] = "size" /\ body'[c] = body[c]
  <2>1. Aligned(wire'[c], Expect("size", 0))
    BY <1>3, <1>5, AfterBody
  <2>2. OwnTypes(c)'
    BY <1>3, <1>5 DEF OwnInv, OwnTypes, States, Holding, InRequest, Reading
  <2>3. BlanksCounted(c)' /\ BodyBounded(c)'
    BY <1>2, <1>5 DEF BlanksCounted, BodyBounded, Reading
  <2>4. InStep(c)'
    BY <1>5, <2>1 DEF InStep
  <2> QED BY <2>2, <2>3, <2>4 DEF OwnInv
<1>6. CASE /\ UNCHANGED <<gone, raw, blanks, spent, head, answer>>
           /\ item = <<"crlf">> /\ conn[c] = "trailers"
           /\ conn'[c] = "handler" /\ body'[c] = Complete(body[c])
  <2>1. Aligned(wire'[c], AtHead)
    BY <1>3, <1>6, AfterBody
  <2>2. /\ body'[c] \in Bodies /\ body'[c].got = body[c].got /\ body'[c].left = body[c].left
        /\ body'[c].started = TRUE
    BY <1>2, <1>6 DEF Complete, Bodies, Whys
  <2>3. OwnTypes(c)'
    BY <1>3, <1>6, <2>2 DEF OwnInv, OwnTypes, States, Holding, InRequest
  <2>4. BlanksCounted(c)' /\ BodyBounded(c)'
    BY <1>2, <1>6, <2>2 DEF BlanksCounted, BodyBounded, Reading
  <2>5. InStep(c)'
    BY <1>6, <2>1, <2>2 DEF InStep
  <2> QED BY <2>3, <2>4, <2>5 DEF OwnInv
<1>7. CASE /\ UNCHANGED <<gone, raw, blanks, spent, head, answer>>
           /\ item = <<"trailer">> /\ conn[c] = "trailers"
           /\ conn'[c] = conn[c] /\ body'[c] = [body[c] EXCEPT !.trailers = @ + 1]
  <2>1. Aligned(wire'[c], Expect("trailers", 0))
    BY <1>3, <1>7, AfterBody
  <2>2. /\ body'[c] \in Bodies /\ body'[c].got = body[c].got /\ body'[c].left = body[c].left
        /\ body'[c].started = TRUE /\ body'[c].finished = FALSE
    BY <1>2, <1>7 DEF Bodies
  <2>3. OwnTypes(c)'
    BY <1>3, <1>7, <2>2 DEF OwnInv, OwnTypes, States, Holding, InRequest
  <2>4. BlanksCounted(c)' /\ BodyBounded(c)'
    BY <1>2, <1>7, <2>2 DEF BlanksCounted, BodyBounded, Reading
  <2>5. InStep(c)'
    BY <1>7, <2>1 DEF InStep
  <2> QED BY <2>3, <2>4, <2>5 DEF OwnInv
<1> QED BY <1>1, <1>4, <1>5, <1>6, <1>7

\* The connection waits for the next request only with its stream at a head.
LEMMA WriteResponseKept ==
    ASSUME Domains, NEW c \in Conns, OwnInv(c), WriteResponse(c)
    PROVE  OwnInv(c)'
<1>1. /\ conn[c] = "writing"
      /\ \/ conn'[c] = "waiting" /\ body[c].finished /\ ~answer[c].close
         \/ conn'[c] = "linger"
      /\ raw'[c] = 0 /\ blanks'[c] = 0 /\ spent'[c] = FALSE /\ head'[c] = NoHead /\ body'[c] = NoBody
      /\ UNCHANGED <<wire, gone>>
  BY DEF WriteResponse, Reusable, ConnAt, Domains
<1>2. conn'[c] = "waiting" => Aligned(wire[c], AtHead)
  BY <1>1 DEF OwnInv, InStep
<1>3. /\ NoHead.framing \in Framings /\ NoHead.expects \in BOOLEAN
      /\ 0 \in 0 .. MaxHead /\ 0 \in 0 .. MaxBlank + 1
  BY LimitsNat DEF NoHead, Framings
<1>4. NoBody \in Bodies /\ NoBody.got = 0 /\ NoBody.left = 0
  <2>1. 0 \in 0 .. MaxBody
    BY LimitsNat
  <2> QED BY <2>1 DEF NoBody, Bodies, Whys
<1>5. OwnTypes(c)'
  BY <1>1, <1>3, <1>4 DEF OwnInv, OwnTypes, States, Holding, InRequest
<1>6. BlanksCounted(c)' /\ BodyBounded(c)'
  BY <1>1, <1>4, LimitsNat DEF BlanksCounted, BodyBounded, Reading
<1>7. InStep(c)'
  BY <1>1, <1>2 DEF InStep
<1> QED BY <1>5, <1>6, <1>7 DEF OwnInv

\* What one connection's step does to that connection.
LEMMA StepKept ==
    ASSUME Domains, NEW c \in Conns, OwnInv(c), StepOf(c)
    PROVE  OwnInv(c)'
<1>1. CASE BodyTimesOut(c) \/ BodyStops(c)
  <2>1. /\ conn[c] \in Reading /\ wire' = wire
        /\ Fails(c, "TimedOut") \/ Fails(c, "Incomplete")
    BY <1>1 DEF BodyTimesOut, BodyStops
  <2>2. wire'[c] \in Seq(Items)
    BY <2>1 DEF OwnInv, OwnTypes
  <2> QED BY <2>1, <2>2, FailsKept DEF Whys
<1> QED BY <1>1, ListenerKept, PeerKept, HeadKept, HandlerReadsKept, HandlerAnswersKept,
           ReadByteKept, ChunkLineKept, ChunkEndKept, WriteResponseKept
    DEF StepOf, ThreadStep, PeerFeeds

-----------------------------------------------------------------------------
(* Slots, and the queue of refusals *)

\* The steps as the slot counter and the Refuser's channel see them.
Admits(c) ==
    /\ conn[c] = "backlog" /\ conn'[c] = "claimed"
    /\ live < Limits.connections /\ live' = live + 1 /\ queue' = queue
Releases(c) ==
    conn[c] \in Holding /\ conn'[c] = "closed" /\ live' = live - 1 /\ queue' = queue
Keeps(c) ==
    conn[c] \in Holding /\ conn'[c] \in Holding /\ live' = live /\ queue' = queue
Outside(c) ==
    /\ conn[c] \in {"absent", "backlog", "refusing"}
    /\ live' = live
    /\ \/ conn'[c] \in {"backlog", "closed"} /\ queue' = queue
       \/ conn'[c] = "refused" /\ queue' = Append(queue, c)

LEMMA SlotMoves ==
    ASSUME Domains, NEW c \in Conns, StepOf(c)
    PROVE  Admits(c) \/ Releases(c) \/ Keeps(c) \/ Outside(c)
<1> USE DEF Domains, ConnAt, own, elsewhere, unread, Holding, InRequest, Reading
<1>1. CASE Connect(c) \/ HangUp(c) \/ DeadlinePasses(c)
  BY <1>1 DEF Connect, HangUp, DeadlinePasses, Keeps, Outside
<1>2. CASE Claim(c) \/ Spawn(c) \/ SpawnFails(c) \/ AcceptorFails(c)
  BY <1>2 DEF Claim, Spawn, SpawnFails, AcceptorFails, Admits, Releases, Keeps
<1>3. CASE Refuse_(c) \/ RefuserEnds(c)
  BY <1>3 DEF Refuse_, RefuserEnds, Outside
<1>4. CASE LingerClose(c) \/ HeadEnds(c)
  BY <1>4 DEF LingerClose, HeadEnds, Leave, Releases
<1>5. CASE HeadOverrun(c) \/ ReadHead(c)
  BY <1>5 DEF HeadOverrun, ReadHead, Reject, Keeps
<1>6. CASE BodyTimesOut(c) \/ BodyStops(c)
  BY <1>6 DEF BodyTimesOut, BodyStops, Fails, Keeps
<1>7. CASE HandlerReads(c) \/ HandlerAnswers(c) \/ WriteResponse(c)
  BY <1>7 DEF HandlerReads, HandlerAnswers, WriteResponse, Keeps
<1>8. CASE ReadByte(c)
  BY <1>8 DEF ReadByte, Keeps
<1>9. CASE ChunkLine(c) \/ ChunkEnd(c)
  BY <1>9 DEF ChunkLine, ChunkEnd, Fails, Keeps
<1> QED BY <1>1, <1>2, <1>3, <1>4, <1>5, <1>6, <1>7, <1>8, <1>9
    DEF StepOf, Listener, ThreadStep, PeerFeeds

\* The counter moves with the set of connections that hold a slot.
LEMMA SlotsKept ==
    ASSUME NEW c \in Conns, live \in Nat, SlotsExact,
           Admits(c) \/ Releases(c) \/ Keeps(c) \/ Outside(c),
           \A d \in Conns \ {c} : conn'[d] = conn[d]
    PROVE  live' \in Nat /\ SlotsExact'
<1> DEFINE holders == {d \in Conns : conn[d] \in Holding}
<1>1. IsFiniteSet(holders)
  BY Http1Assumption, FS_Subset
<1>2. Cardinality(holders) \in Nat /\ live = Cardinality(holders) /\ live <= Limits.connections
  BY <1>1, FS_CardinalityType DEF SlotsExact
<1>3. Limits.connections \in Nat
  <2>1. Limits.connections = AtLeast(1, Connections)
    BY DEF Limits
  <2> QED BY <2>1, Http1Assumption DEF AtLeast
<1>4. /\ {"absent", "backlog", "refusing", "refused", "closed"} \cap Holding = {}
      /\ "claimed" \in Holding
  BY DEF Holding, InRequest, Reading
<1>5. ASSUME live' \in Nat, live' <= Limits.connections,
             live' = Cardinality({d \in Conns : conn'[d] \in Holding})
      PROVE  live' \in Nat /\ SlotsExact'
  BY <1>5 DEF SlotsExact, Limits
<1>6. CASE Admits(c)
  <2>1. c \notin holders /\ {d \in Conns : conn'[d] \in Holding} = holders \cup {c}
    BY <1>4, <1>6 DEF Admits
  <2>2. Cardinality(holders \cup {c}) = Cardinality(holders) + 1
    BY <1>1, <2>1, FS_AddElement
  <2>3. live' = live + 1 /\ live < Limits.connections
    BY <1>6 DEF Admits
  <2>4. live' \in Nat /\ live' <= Limits.connections
    BY <1>3, <2>3
  <2> QED BY <1>2, <1>5, <2>1, <2>2, <2>3, <2>4
<1>7. CASE Releases(c)
  <2>1. c \in holders /\ {d \in Conns : conn'[d] \in Holding} = holders \ {c}
    BY <1>4, <1>7 DEF Releases
  <2>2. /\ Cardinality(holders \ {c}) = Cardinality(holders) - 1
        /\ Cardinality(holders \ {c}) \in Nat
    BY <1>1, <2>1, FS_RemoveElement, FS_CardinalityType
  <2>3. live' = live - 1
    BY <1>7 DEF Releases
  <2>4. live' \in Nat /\ live' <= Limits.connections
    BY <1>2, <1>3, <2>2, <2>3
  <2> QED BY <1>2, <1>5, <2>1, <2>2, <2>3, <2>4
<1>8. CASE Keeps(c) \/ Outside(c)
  <2>1. {d \in Conns : conn'[d] \in Holding} = holders
    BY <1>4, <1>8 DEF Keeps, Outside
  <2>2. live' = live
    BY <1>8 DEF Keeps, Outside
  <2> QED BY <1>2, <1>5, <2>1, <2>2
<1> QED BY <1>6, <1>7, <1>8

\* A connection is queued as it is refused, and stays refused while it is queued.
LEMMA RefusalsKept ==
    ASSUME NEW c \in Conns, RefusedOnce,
           Admits(c) \/ Releases(c) \/ Keeps(c) \/ Outside(c),
           \A d \in Conns \ {c} : conn'[d] = conn[d]
    PROVE  RefusedOnce'
<1>1. queue \in Seq(Conns) /\ Len(queue) \in Nat /\ \A i \in 1 .. Len(queue) : queue[i] \in Conns
  BY DEF RefusedOnce
<1>2. conn[c] # "refused"
  BY DEF Admits, Releases, Keeps, Outside, Holding, InRequest, Reading
<1>3. \A i \in 1 .. Len(queue) : queue[i] # c /\ conn'[queue[i]] = "refused"
  BY <1>1, <1>2 DEF RefusedOnce
<1>4. CASE queue' = queue
  BY <1>3, <1>4 DEF RefusedOnce
<1>5. CASE conn'[c] = "refused" /\ queue' = Append(queue, c)
  <2>1. /\ queue' \in Seq(Conns) /\ Len(queue') = Len(queue) + 1
        /\ queue'[Len(queue) + 1] = c
        /\ \A i \in 1 .. Len(queue) : queue'[i] = queue[i]
    BY <1>1, <1>5
  <2>2. \A i \in 1 .. Len(queue') : i \in 1 .. Len(queue) \/ i = Len(queue) + 1
    BY <1>1, <2>1
  <2>3. \A i \in 1 .. Len(queue') : conn'[queue'[i]] = "refused"
    BY <1>3, <1>5, <2>1, <2>2
  <2>4. ASSUME NEW i \in 1 .. Len(queue'), NEW j \in 1 .. Len(queue'), queue'[i] = queue'[j]
        PROVE  i = j
    BY <1>3, <2>1, <2>2, <2>4 DEF RefusedOnce
  <2> QED BY <2>1, <2>3, <2>4 DEF RefusedOnce
<1> QED BY <1>4, <1>5 DEF Admits, Releases, Keeps, Outside

\* The Refuser takes the connection at the head of its channel, and no other
\* entry is that connection's.
LEMMA RefuserKept ==
    ASSUME HInv1, RefuserTakes
    PROVE  HInv1'
<1>0. queue \in Seq(Conns) /\ queue # <<>>
  BY DEF HInv1, RefusedOnce, RefuserTakes
<1> PICK c \in Conns : c = Head(queue)
  BY <1>0
<1>1. /\ Len(queue) \in Nat /\ Len(queue) >= 1
      /\ c = queue[1] /\ 1 \in 1 .. Len(queue)
      /\ Len(Tail(queue)) = Len(queue) - 1 /\ Tail(queue) \in Seq(Conns)
      /\ \A i \in 1 .. Len(queue) - 1 : Tail(queue)[i] = queue[i + 1]
  BY <1>0
<1>2. conn[c] = "refused"
  BY <1>1 DEF HInv1, RefusedOnce
<1>3. conn' = [conn EXCEPT ![c] = "refusing"] /\ queue' = Tail(queue) /\ UNCHANGED <<own, live, server>>
  BY DEF RefuserTakes, ConnAt
<1>4. Domains' /\ conn'[c] = "refusing" /\ \A d \in Conns \ {c} : conn'[d] = conn[d]
  BY <1>1, <1>3 DEF HInv1, Domains, own
<1>5. \A d \in Conns : OwnInv(d)'
  <2>1. ASSUME NEW d \in Conns \ {c} PROVE OwnInv(d)'
    BY <1>3, <1>4, SameKept DEF Same, own, HInv1
  <2>2. OwnInv(c)'
    <3>1. OwnInv(c)
      BY <1>1 DEF HInv1
    <3>2. blanks[c] <= MaxBlank /\ gone[c] \in BOOLEAN
      BY <1>2, <3>1 DEF OwnInv, OwnTypes, BlanksCounted
    <3> QED BY <1>1, <1>3, <1>4, <3>1, <3>2, OutsideKept DEF own
  <2> QED BY <2>1, <2>2
<1>6. RefusedOnce'
  <2>1. \A i \in 1 .. Len(queue') : /\ i + 1 \in 1 .. Len(queue) /\ i + 1 # 1
                                    /\ queue'[i] = queue[i + 1] /\ i \in Nat
    BY <1>1, <1>3
  <2>2. \A i, j \in 1 .. Len(queue) : queue[i] = queue[j] => i = j
    BY DEF HInv1, RefusedOnce
  <2>3. ASSUME NEW i \in 1 .. Len(queue') PROVE conn'[queue'[i]] = "refused"
    <3>1. queue'[i] # c /\ queue'[i] \in Conns
      BY <1>1, <2>1, <2>2
    <3> QED BY <1>4, <2>1, <3>1 DEF HInv1, RefusedOnce
  <2>4. ASSUME NEW i \in 1 .. Len(queue'), NEW j \in 1 .. Len(queue'), queue'[i] = queue'[j]
        PROVE  i = j
    <3>1. i + 1 = j + 1
      BY <2>1, <2>2, <2>4
    <3> QED BY <2>1, <3>1
  <2> QED BY <1>1, <1>3, <2>3, <2>4 DEF RefusedOnce
<1>7. live' \in Nat /\ SlotsExact'
  <2>1. "refused" \notin Holding /\ "refusing" \notin Holding
    BY DEF Holding, InRequest, Reading
  <2>2. {d \in Conns : conn'[d] \in Holding} = {d \in Conns : conn[d] \in Holding}
    BY <1>2, <1>4, <2>1
  <2> QED BY <1>3, <2>2 DEF HInv1, SlotsExact, Limits
<1> QED BY <1>4, <1>5, <1>6, <1>7 DEF HInv1

-----------------------------------------------------------------------------
(* Theorems *)

LEMMA InitHInv1 == Http1Init => HInv1
<1> SUFFICES ASSUME Http1Init PROVE HInv1
  OBVIOUS
<1>1. Domains
  BY DEF Http1Init, Domains
<1>2. ASSUME NEW c \in Conns PROVE OwnInv(c)
  <2>1. /\ conn[c] = "absent" /\ wire[c] = <<>> /\ gone[c] = FALSE /\ raw[c] = 0 /\ blanks[c] = 0
        /\ spent[c] = FALSE /\ head[c] = NoHead /\ body[c] = NoBody
    BY DEF Http1Init
  <2>2. /\ NoHead.framing \in Framings /\ NoHead.expects \in BOOLEAN /\ <<>> \in Seq(Items)
        /\ 0 \in 0 .. MaxHead /\ 0 \in 0 .. MaxBlank + 1 /\ 0 \in 0 .. MaxBody
    BY LimitsNat DEF NoHead, Framings
  <2>3. NoBody \in Bodies /\ NoBody.got = 0 /\ NoBody.left = 0
    BY <2>2 DEF NoBody, Bodies, Whys
  <2>4. OwnTypes(c)
    BY <2>1, <2>2, <2>3 DEF OwnTypes, States
  <2>5. BlanksCounted(c) /\ BodyBounded(c) /\ InStep(c)
    BY <2>1, <2>3, LimitsNat DEF BlanksCounted, BodyBounded, InStep, Reading
  <2> QED BY <2>4, <2>5 DEF OwnInv
<1>3. RefusedOnce
  BY DEF Http1Init, RefusedOnce
<1>4. live \in Nat /\ SlotsExact
  <2>1. live = 0 /\ \A c \in Conns : conn[c] = "absent"
    BY DEF Http1Init
  <2>2. {c \in Conns : conn[c] \in Holding} = {}
    BY <2>1 DEF Holding, InRequest, Reading
  <2>3. Limits.connections \in Nat
    <3>1. Limits.connections = AtLeast(1, Connections)
      BY DEF Limits
    <3> QED BY <3>1, Http1Assumption DEF AtLeast
  <2> QED BY <2>1, <2>2, <2>3, FS_EmptySet DEF SlotsExact
<1> QED BY <1>1, <1>2, <1>3, <1>4 DEF HInv1

LEMMA StepInv == HInv1 /\ [Http1Next]_http1Vars => HInv1'
<1> SUFFICES ASSUME HInv1, [Http1Next]_http1Vars PROVE HInv1'
  OBVIOUS
<1>1. CASE UNCHANGED http1Vars \/ Listen
  <2>1. UNCHANGED <<conn, own, live, queue>>
    BY <1>1 DEF http1Vars, Listen
  <2>2. Domains' /\ RefusedOnce' /\ live' \in Nat /\ SlotsExact'
    BY <2>1 DEF HInv1, Domains, own, RefusedOnce, SlotsExact, Limits
  <2>3. ASSUME NEW d \in Conns PROVE OwnInv(d)'
    BY <2>1, SameKept DEF HInv1, Same, own
  <2> QED BY <2>2, <2>3 DEF HInv1
<1>2. CASE RefuserTakes
  BY <1>2, RefuserKept
<1>3. ASSUME NEW c \in Conns, StepOf(c) PROVE HInv1'
  <2>1. Domains' /\ \A d \in Conns \ {c} : Same(d)
    BY <1>3, OthersSame DEF HInv1
  <2>2. \A d \in Conns : OwnInv(d)'
    BY <1>3, <2>1, StepKept, SameKept DEF HInv1
  <2>3. Admits(c) \/ Releases(c) \/ Keeps(c) \/ Outside(c)
    BY <1>3, SlotMoves DEF HInv1
  <2>4. \A d \in Conns \ {c} : conn'[d] = conn[d]
    BY <2>1 DEF Same
  <2>5. live' \in Nat /\ SlotsExact'
    BY <2>3, <2>4, SlotsKept DEF HInv1
  <2>6. RefusedOnce'
    BY <2>3, <2>4, RefusalsKept DEF HInv1
  <2> QED BY <2>1, <2>2, <2>5, <2>6 DEF HInv1
<1> QED BY <1>1, <1>2, <1>3 DEF Http1Next, StepOf

\* The invariant holds throughout: each connection's thread is where its stream
\* is, within its limits, and slots and refusals are kept.
THEOREM Http1Invariant == Http1Spec => []HInv1
BY InitHInv1, StepInv, PTL DEF Http1Spec

\* Slot: however threads fail to start and however they end, the counter is the
\* number of connections that hold a slot, and never above max_connections.
THEOREM SlotsCounted == Http1Spec => []SlotsExact
<1>1. HInv1 => SlotsExact
  BY DEF HInv1
<1> QED BY <1>1, Http1Invariant, PTL

\* serve_connection: a connection that is kept waits for a request with the stream
\* of a peer that speaks HTTP at the start of one, whatever the handler did with
\* the body before.
THEOREM KeepAliveInSync == Http1Spec => []InSync
<1>1. HInv1 => InSync
  <2> SUFFICES ASSUME HInv1, NEW c \in Conns, conn[c] \in {"waiting", "heading"}, wire[c] # <<>>
               PROVE  HeadItem(Head(wire[c]))
    BY DEF InSync
  <2>1. wire[c] \in Seq(Items) /\ Aligned(wire[c], AtHead)
    BY DEF HInv1, OwnInv, OwnTypes, InStep
  <2> QED BY <2>1, AlignedNext
<1> QED BY <1>1, Http1Invariant, PTL

-----------------------------------------------------------------------------
(* The session table *)

\* A table as the HashMap of Sessions has it: one entry per id, in order of use.
IsTable(t) == t \in Seq(Ids) /\ IsInjective(t)

\* Forgetting a session takes out that entry and no other.
LEMMA RemovedTable ==
    ASSUME NEW t, IsTable(t), NEW s \in Ids
    PROVE  /\ IsTable(Removed(t, s))
           /\ ~Listed(Removed(t, s), s)
           /\ \A o \in Ids : o # s => (Listed(Removed(t, s), o) <=> Listed(t, o))
           /\ Len(Removed(t, s)) = IF Listed(t, s) THEN Len(t) - 1 ELSE Len(t)
<1>1. CASE ~Listed(t, s)
  BY <1>1 DEF Removed
<1>2. CASE Listed(t, s)
  <2> DEFINE p == Place(t, s)
             r == Removed(t, s)
  <2>1. p \in 1 .. Len(t) /\ t[p] = s
    BY <1>2 DEF Listed, Contains, Place, IsTable
  <2>2. r = SubSeq(t, 1, p - 1) \o SubSeq(t, p + 1, Len(t))
    BY <1>2 DEF Removed, RemoveAt
  <2> HIDE DEF p, r
  <2>3. /\ Len(t) \in Nat /\ p \in Nat
        /\ t \in Seq(Ids)
        /\ \A i \in 1 .. Len(t) : t[i] \in Ids
        /\ \A i, j \in 1 .. Len(t) : t[i] = t[j] => i = j
    BY <2>1 DEF IsTable, IsInjective
  <2>4. /\ r \in Seq(Ids) /\ Len(r) = Len(t) - 1
        /\ \A i \in 1 .. Len(t) - 1 : r[i] = IF i < p THEN t[i] ELSE t[i + 1]
    <3> DEFINE a == SubSeq(t, 1, p - 1)
               b == SubSeq(t, p + 1, Len(t))
    <3>1. /\ a \in Seq(Ids) /\ Len(a) = p - 1
          /\ \A i \in 1 .. p - 1 : a[i] = t[i]
      BY <2>1, <2>3
    <3>2. /\ b \in Seq(Ids) /\ Len(b) = Len(t) - p
          /\ \A i \in 1 .. Len(t) - p : b[i] = t[i + p]
      BY <2>1, <2>3
    <3>3. r = a \o b
      BY <2>2
    <3> HIDE DEF a, b
    <3>4. r \in Seq(Ids) /\ Len(r) = Len(t) - 1
      <4>1. r \in Seq(Ids) /\ Len(r) = Len(a) + Len(b)
        BY <3>1, <3>2, <3>3, ConcatProperties
      <4> QED BY <2>1, <2>3, <3>1, <3>2, <4>1
    <3>5. ASSUME NEW i \in 1 .. Len(t) - 1 PROVE r[i] = IF i < p THEN t[i] ELSE t[i + 1]
      <4>1. CASE i < p
        BY <2>1, <2>3, <3>1, <3>2, <3>3, <4>1
      <4>2. CASE ~(i < p)
        <5>1. r[i] = b[i - (p - 1)]
          <6>1. i \in Len(a) + 1 .. Len(a) + Len(b)
            BY <2>1, <2>3, <3>1, <3>2, <4>2
          <6>2. r[i] = b[i - Len(a)]
            BY <3>1, <3>2, <3>3, <6>1, ConcatProperties
          <6> QED BY <3>1, <6>2
        <5>2. i - (p - 1) \in 1 .. Len(t) - p /\ i - (p - 1) + p = i + 1
          BY <2>1, <2>3, <4>2
        <5> QED BY <3>2, <4>2, <5>1, <5>2
      <4> QED BY <4>1, <4>2
    <3> QED BY <3>4, <3>5
  <2>5. IsTable(r)
    <3>1. ASSUME NEW i \in 1 .. Len(r), NEW j \in 1 .. Len(r), r[i] = r[j] PROVE i = j
      <4> DEFINE from(k) == IF k < p THEN k ELSE k + 1
      <4>1. ASSUME NEW k \in 1 .. Len(r) PROVE from(k) \in 1 .. Len(t) /\ r[k] = t[from(k)]
        <5>1. k \in 1 .. Len(t) - 1
          BY <2>4
        <5>2. from(k) \in 1 .. Len(t)
          BY <2>1, <2>3, <5>1
        <5> QED BY <2>4, <5>1, <5>2
      <4>2. t[from(i)] = t[from(j)]
        BY <3>1, <4>1
      <4>3. from(i) = from(j)
        BY <2>3, <4>1, <4>2
      <4> QED BY <2>3, <2>4, <4>3
    <3> QED BY <2>4, <3>1 DEF IsTable, IsInjective
  <2>6. ~Listed(r, s)
    BY <2>1, <2>3, <2>4 DEF Listed, Contains
  <2>7. ASSUME NEW o \in Ids, o # s PROVE Listed(r, o) <=> Listed(t, o)
    <3>1. ASSUME NEW i \in 1 .. Len(r), r[i] = o PROVE \E j \in 1 .. Len(t) : t[j] = o
      BY <2>1, <2>3, <2>4, <3>1
    <3>2. ASSUME NEW j \in 1 .. Len(t), t[j] = o PROVE \E i \in 1 .. Len(r) : r[i] = o
      <4>1. CASE j < p
        BY <2>1, <2>3, <2>4, <3>2, <4>1
      <4>2. CASE j > p
        <5>1. j - 1 \in 1 .. Len(r) /\ r[j - 1] = o
          BY <2>1, <2>3, <2>4, <3>2, <4>2
        <5> QED BY <5>1
      <4> QED BY <2>1, <2>3, <2>7, <3>2, <4>1, <4>2
    <3> QED BY <3>1, <3>2 DEF Listed, Contains
  <2> QED BY <1>2, <2>4, <2>5, <2>6, <2>7 DEF r
<1> QED BY <1>1, <1>2

\* Using a session makes it the last entry of a table with the same others.
LEMMA UsedTable ==
    ASSUME NEW t, IsTable(t), NEW s \in Ids
    PROVE  /\ IsTable(Used(t, s))
           /\ Len(Used(t, s)) = IF Listed(t, s) THEN Len(t) ELSE Len(t) + 1
           /\ Used(t, s)[Len(Used(t, s))] = s
<1> DEFINE r == Removed(t, s)
<1>1. IsTable(r) /\ ~Listed(r, s) /\ Len(r) = IF Listed(t, s) THEN Len(t) - 1 ELSE Len(t)
  BY RemovedTable
<1> HIDE DEF r
<1>2. r \in Seq(Ids) /\ Len(r) \in Nat /\ Len(t) \in Nat
  BY <1>1 DEF IsTable
<1>3. /\ Append(r, s) \in Seq(Ids) /\ Len(Append(r, s)) = Len(r) + 1
      /\ \A i \in 1 .. Len(r) : Append(r, s)[i] = r[i]
      /\ Append(r, s)[Len(r) + 1] = s
  BY <1>2
<1>4. IsInjective(Append(r, s))
  BY <1>1, <1>2, <1>3 DEF IsTable, IsInjective, Listed, Contains
<1> QED BY <1>1, <1>2, <1>3, <1>4 DEF Used, IsTable, r

\* What is left of a table when the oldest entries go is a table.
LEMMA SuffixTable ==
    ASSUME NEW t, IsTable(t), NEW n \in 0 .. Len(t)
    PROVE  /\ IsTable(SubSeq(t, n + 1, Len(t)))
           /\ Len(SubSeq(t, n + 1, Len(t))) = Len(t) - n
           /\ n < Len(t) => SubSeq(t, n + 1, Len(t))[Len(t) - n] = t[Len(t)]
<1> DEFINE u == SubSeq(t, n + 1, Len(t))
<1>1. t \in Seq(Ids) /\ Len(t) \in Nat /\ n \in Nat /\ n <= Len(t)
  BY DEF IsTable
<1>2. /\ u \in Seq(Ids) /\ Len(u) = Len(t) - n
      /\ \A i \in 1 .. Len(t) - n : u[i] = t[i + n]
  BY <1>1
<1> HIDE DEF u
<1>3. IsInjective(u)
  <2> SUFFICES ASSUME NEW i \in 1 .. Len(u), NEW j \in 1 .. Len(u), u[i] = u[j] PROVE i = j
    BY SMTT(40), <1>2 DEF IsInjective
  <2>1. i + n \in 1 .. Len(t) /\ j + n \in 1 .. Len(t) /\ t[i + n] = t[j + n]
    BY <1>1, <1>2
  <2>2. i + n = j + n
    BY <1>1, <2>1 DEF IsTable, IsInjective
  <2> QED BY <1>1, <1>2, <2>2
<1> QED BY <1>1, <1>2, <1>3 DEF IsTable, u

\* evict_oldest leaves at most max_sessions entries, and the newest among them.
LEMMA EvictedTable ==
    ASSUME SessionsAssumption, NEW t, IsTable(t)
    PROVE  /\ IsTable(Evicted(t))
           /\ Len(Evicted(t)) <= MaxSessions
           /\ t # <<>> => Listed(Evicted(t), t[Len(t)])
<1>1. Len(t) \in Nat /\ MaxSessions \in Nat /\ MaxSessions > 0 /\ t \in Seq(Ids)
  BY DEF IsTable, SessionsAssumption
<1>2. CASE Len(t) <= MaxSessions
  BY <1>1, <1>2 DEF Evicted, Listed, Contains
<1>3. CASE Len(t) > MaxSessions
  <2> DEFINE n == Len(t) - MaxSessions
             u == SubSeq(t, n + 1, Len(t))
  <2>1. n \in 0 .. Len(t) /\ n < Len(t) /\ Len(t) - n = MaxSessions
    BY <1>1, <1>3
  <2>2. IsTable(u) /\ Len(u) = MaxSessions /\ u[MaxSessions] = t[Len(t)]
    BY <2>1, SuffixTable
  <2>3. Evicted(t) = u
    BY <1>1, <1>3 DEF Evicted
  <2> HIDE DEF u
  <2> QED BY <1>1, <2>2, <2>3 DEF Listed, Contains
<1> QED BY <1>1, <1>2, <1>3

-----------------------------------------------------------------------------
(***************************************************************************)
(* The inductive invariant.  TableSound needs that a request in flight     *)
(* holds a session that was drawn, and that a store once donated stays:    *)
(* of two first requests that overlap, the second finds the first's.       *)
(***************************************************************************)
HoldsDrawn == \A q \in Requests : InFlight(q) => cur[q] \in drawn

OneStoreForGood ==
    \A q \in Requests :
        at[q] \in {"restored", "dispatched"} =>
            /\ serverOf[q].store = session[cur[q]].store
            /\ session[cur[q]].store # None

HInv == SessionsTypeOK /\ HoldsDrawn /\ OneStoreForGood

\* No session is in the table before the first request.
LEMMA InitHInv == SessionsAssumption /\ SessionsInit => HInv
<1> SUFFICES ASSUME SessionsAssumption, SessionsInit PROVE HInv
  OBVIOUS
<1>1. table \in Seq(Ids) /\ IsInjective(table) /\ Len(table) <= MaxSessions
  BY DEF SessionsInit, IsInjective, SessionsAssumption
<1>2. /\ Default \in SessionState
      /\ \A q \in Requests : Fresh(q) \in ServerState
  BY DEF Default, Fresh, SessionState, ServerState
<1>3. SessionsTypeOK
  BY <1>1, <1>2 DEF SessionsInit, SessionsTypeOK, Stages
<1>4. HoldsDrawn /\ OneStoreForGood
  BY DEF SessionsInit, HoldsDrawn, InFlight, OneStoreForGood
<1> QED BY <1>3, <1>4 DEF HInv

\* Restoring gives the server what the session has, and a store for certain.
LEMMA RestoreTypes ==
    ASSUME SessionsAssumption, NEW q \in Requests, NEW s \in SessionState
    PROVE  /\ Restored(q, s) \in ServerState
           /\ Donated(q, s) \in SessionState
           /\ Donated(q, s).store # None
           /\ Donated(q, s).store = Restored(q, s).store
           /\ s.store # None => Donated(q, s).store = s.store
           /\ Donated(q, s).level = s.level /\ Donated(q, s).caps = s.caps
           /\ Donated(q, s).initialized = s.initialized
<1>1. Restored(q, s) \in ServerState
  BY DEF Restored, ServerState, SessionState
<1>2. Donated(q, s) \in SessionState
  BY DEF Donated, SessionState
<1>3. q # None
  BY DEF SessionsAssumption
<1> QED BY <1>1, <1>2, <1>3 DEF Restored, Donated, SessionState

\* Absorbing adds to what the session has, and leaves its store alone.
LEMMA AbsorbTypes ==
    ASSUME SessionsAssumption, NEW s \in SessionState, NEW srv \in ServerState
    PROVE  /\ Absorbed(s, srv) \in SessionState
           /\ Absorbed(s, srv).store = s.store
           /\ s.initialized => Absorbed(s, srv).initialized
           /\ s.caps # None => Absorbed(s, srv).caps # None
           /\ s.level # None => Absorbed(s, srv).level # None
<1>1. srv.level # None
  BY DEF SessionsAssumption, ServerState
<1>2. Absorbed(s, srv) \in SessionState
  BY DEF Absorbed, SessionState, ServerState
<1> QED BY <1>1, <1>2 DEF Absorbed, SessionState

\* A visit to the table leaves a table within the ceiling.
LEMMA TableKept ==
    ASSUME SessionsAssumption, HInv, NEW q \in Requests, RequestStep(q)
    PROVE  table' \in Seq(Ids) /\ IsInjective(table') /\ Len(table') <= MaxSessions
<1> DEFINE Bounded(t) == IsTable(t) /\ Len(t) <= MaxSessions
<1> SUFFICES Bounded(table')
  BY DEF IsTable
<1>1. Bounded(table) /\ MaxSessions \in Nat /\ Len(table) \in Nat
  BY DEF HInv, SessionsTypeOK, IsTable, SessionsAssumption
<1>2. ASSUME NEW expired \in 0 .. Len(table) PROVE Bounded(Swept(table, expired))
  <2>1. IsTable(Swept(table, expired)) /\ Len(Swept(table, expired)) = Len(table) - expired
    BY <1>1, <1>2, SuffixTable DEF Swept
  <2>2. Len(table) - expired <= Len(table)
    BY <1>1, <1>2
  <2> QED
    BY <1>1, <1>2, <2>1, <2>2
<1>3. ASSUME NEW t, Bounded(t), NEW s \in Ids PROVE Bounded(Removed(t, s))
  <2>1. IsTable(t) /\ Len(t) \in Nat /\ Len(t) <= MaxSessions
    BY <1>3 DEF IsTable
  <2>2. IsTable(Removed(t, s)) /\ Len(Removed(t, s)) = IF Listed(t, s) THEN Len(t) - 1 ELSE Len(t)
    BY <2>1, RemovedTable
  <2> QED BY <1>1, <2>1, <2>2
<1>4. ASSUME NEW s \in Ids, CheckoutNew(q, s) PROVE Bounded(table')
  BY <1>2, <1>4 DEF CheckoutNew
<1>5. ASSUME NEW s \in Ids, Checkout(q, s) PROVE Bounded(table')
  <2>1. PICK expired \in 0 .. Len(table) :
            \/ Listed(Swept(table, expired), s) /\ table' = Used(Swept(table, expired), s)
            \/ table' = Swept(table, expired)
    BY <1>5 DEF Checkout
  <2>2. Bounded(Swept(table, expired))
    BY <1>2
  <2> QED BY <2>1, <2>2, UsedTable
<1>6. ASSUME NEW s \in Ids, Terminate(q, s) PROVE Bounded(table')
  BY <1>1, <1>3, <1>6 DEF Terminate
<1>7. CASE Keep(q)
  <2>1. cur[q] \in Ids
    BY <1>7 DEF Keep, HInv, SessionsTypeOK, HoldsDrawn, InFlight
  <2>2. IsTable(Used(table, cur[q]))
    BY <1>1, <2>1, UsedTable
  <2> QED BY <1>7, <2>2, EvictedTable DEF Keep
<1>8. CASE Drop(q)
  <2>1. cur[q] \in Ids
    BY <1>8 DEF Drop, HInv, SessionsTypeOK, HoldsDrawn, InFlight
  <2> QED BY <1>1, <1>3, <1>8, <2>1 DEF Drop
<1>9. CASE BodyRejected(q) \/ Restore(q) \/ Dispatch(q) \/ Panic(q) \/ Absorb(q) \/ Decide(q)
  BY <1>1, <1>9 DEF BodyRejected, Restore, Dispatch, Panic, Absorb, Decide
<1> HIDE DEF Bounded
<1> QED BY <1>4, <1>5, <1>6, <1>7, <1>8, <1>9 DEF RequestStep

\* Every step of a request keeps the rest of the invariant.
LEMMA RequestInv ==
    ASSUME SessionsAssumption, HInv, NEW q \in Requests, RequestStep(q)
    PROVE  HInv'
<1> USE DEF HInv, RequestAt, history
<1>1. table' \in Seq(Ids) /\ IsInjective(table') /\ Len(table') <= MaxSessions
  BY TableKept
<1>2. ASSUME NEW s \in Ids, CheckoutNew(q, s) PROVE HInv'
  BY <1>1, <1>2 DEF CheckoutNew, SessionsTypeOK, Stages, HoldsDrawn, InFlight, OneStoreForGood
<1>3. ASSUME NEW s \in Ids, Checkout(q, s) PROVE HInv'
  <2>1. /\ s \in known /\ at[q] = "new"
        /\ UNCHANGED <<session, drawn, serverOf, recording, history>>
        /\ \/ cur' = [cur EXCEPT ![q] = s] /\ at' = [at EXCEPT ![q] = "out"]
           \/ cur' = cur /\ at' = [at EXCEPT ![q] = "done"]
    BY <1>3 DEF Checkout
  <2>2. s \in drawn
    BY <2>1 DEF SessionsTypeOK
  <2>3. SessionsTypeOK'
    BY <1>1, <2>1 DEF SessionsTypeOK, Stages
  <2>4. HoldsDrawn'
    BY <2>1, <2>2 DEF SessionsTypeOK, HoldsDrawn, InFlight
  <2>5. OneStoreForGood'
    BY <2>1 DEF SessionsTypeOK, OneStoreForGood
  <2> QED BY <2>3, <2>4, <2>5
<1>4. ASSUME NEW s \in Ids, Terminate(q, s) PROVE HInv'
  BY <1>1, <1>4 DEF Terminate, SessionsTypeOK, Stages, HoldsDrawn, InFlight, OneStoreForGood
<1>5. CASE BodyRejected(q) \/ Panic(q) \/ Decide(q)
  BY <1>1, <1>5 DEF BodyRejected, Panic, Decide, SessionsTypeOK, Stages, HoldsDrawn, InFlight, OneStoreForGood
<1>6. CASE Restore(q)
  <2> DEFINE c == cur[q]
  <2>1. /\ at[q] = "out" /\ c \in Ids /\ session[c] \in SessionState
        /\ serverOf' = [serverOf EXCEPT ![q] = Restored(q, session[c])]
        /\ session' = [session EXCEPT ![c] = Donated(q, session[c])]
        /\ at' = [at EXCEPT ![q] = "restored"]
        /\ UNCHANGED <<table, drawn, cur, recording, history>>
    BY <1>6 DEF Restore, SessionsTypeOK, HoldsDrawn, InFlight
  <2>2. /\ Restored(q, session[c]) \in ServerState
        /\ Donated(q, session[c]) \in SessionState
        /\ Donated(q, session[c]).store # None
        /\ Donated(q, session[c]).store = Restored(q, session[c]).store
        /\ session[c].store # None => Donated(q, session[c]).store = session[c].store
    BY <2>1, RestoreTypes
  <2> HIDE DEF c
  <2>3. SessionsTypeOK'
    BY <1>1, <2>1, <2>2 DEF SessionsTypeOK, Stages
  <2>4. HoldsDrawn'
    BY <2>1 DEF HoldsDrawn, InFlight, SessionsTypeOK
  <2>5. OneStoreForGood'
    <3> SUFFICES ASSUME NEW o \in Requests, at'[o] \in {"restored", "dispatched"}
                 PROVE  /\ serverOf'[o].store = session'[cur[o]].store
                        /\ session'[cur[o]].store # None
      BY <2>1 DEF OneStoreForGood
    <3>1. CASE o = q
      BY <2>1, <2>2, <3>1 DEF SessionsTypeOK, c
    <3>2. CASE o # q
      <4>1. /\ serverOf'[o] = serverOf[o] /\ at[o] \in {"restored", "dispatched"}
            /\ cur[o] \in Ids
        BY <2>1, <3>2 DEF SessionsTypeOK, HoldsDrawn, InFlight
      <4>2. CASE cur[o] = c
        BY <2>1, <2>2, <4>1, <4>2 DEF OneStoreForGood, SessionsTypeOK
      <4>3. CASE cur[o] # c
        BY <2>1, <4>1, <4>3 DEF OneStoreForGood, SessionsTypeOK
      <4> QED BY <4>2, <4>3
    <3> QED BY <3>1, <3>2
  <2> QED BY <2>3, <2>4, <2>5
<1>7. CASE Dispatch(q)
  <2>1. /\ at[q] = "restored" /\ at' = [at EXCEPT ![q] = "dispatched"]
        /\ UNCHANGED <<table, session, drawn, cur, known, ended, promised, lastSet>>
    BY <1>7 DEF Dispatch
  <2>2. /\ serverOf' \in [Requests -> ServerState]
        /\ \A o \in Requests : serverOf'[o].store = serverOf[o].store
    <3>1. serverOf[q] \in ServerState /\ serverOf \in [Requests -> ServerState]
      BY DEF SessionsTypeOK
    <3>2. CASE serverOf' = serverOf
      BY <3>1, <3>2
    <3>3. ASSUME NEW caps \in Capabilities \cup {None},
                 serverOf' = [serverOf EXCEPT ![q] = [@ EXCEPT !.caps = caps, !.initialized = TRUE]]
          PROVE  /\ serverOf' \in [Requests -> ServerState]
                 /\ \A o \in Requests : serverOf'[o].store = serverOf[o].store
      BY <3>1, <3>3 DEF ServerState
    <3>4. ASSUME NEW level \in Levels,
                 serverOf' = [serverOf EXCEPT ![q] = [@ EXCEPT !.level = level]]
          PROVE  /\ serverOf' \in [Requests -> ServerState]
                 /\ \A o \in Requests : serverOf'[o].store = serverOf[o].store
      BY <3>1, <3>4 DEF ServerState
    <3> QED BY <1>7, <3>2, <3>3, <3>4 DEF Dispatch
  <2>3. recording' \subseteq Requests /\ setting' \in [Requests -> Levels \cup {None}]
    <3>1. serverOf[q].store \in Requests
      BY DEF SessionsTypeOK, ServerState
    <3>2. recording' = recording \/ recording' = recording \cup {serverOf[q].store}
      BY <1>7 DEF Dispatch
    <3>3. setting' = setting \/ \E level \in Levels : setting' = [setting EXCEPT ![q] = level]
      BY <1>7 DEF Dispatch
    <3>4. setting \in [Requests -> Levels \cup {None}] /\ recording \subseteq Requests
      BY DEF SessionsTypeOK
    <3>5. setting' \in [Requests -> Levels \cup {None}]
      BY <3>3, <3>4
    <3> QED BY <3>1, <3>2, <3>4, <3>5
  <2> QED
    BY <1>1, <2>1, <2>2, <2>3 DEF SessionsTypeOK, Stages, HoldsDrawn, InFlight, OneStoreForGood
<1>8. CASE Absorb(q)
  <2> DEFINE c == cur[q]
             a == Absorbed(session[c], serverOf[q])
  <2>1. /\ at[q] = "dispatched" /\ c \in Ids /\ session[c] \in SessionState
        /\ serverOf[q] \in ServerState
        /\ session' = [session EXCEPT ![c] = a]
        /\ at' = [at EXCEPT ![q] = "deciding"]
        /\ UNCHANGED <<drawn, cur, serverOf, recording, known, ended, promised, setting>>
    BY <1>8 DEF Absorb, SessionsTypeOK, HoldsDrawn, InFlight
  <2>2. a \in SessionState /\ a.store = session[c].store
    BY <2>1, AbsorbTypes
  <2>3. lastSet' \in [Ids -> Levels \cup {DefaultLevel}]
    BY <1>8, <2>1 DEF Absorb, SessionsTypeOK
  <2> HIDE DEF a, c
  <2>4. session' \in [Ids -> SessionState] /\ \A s \in Ids : session'[s].store = session[s].store
    BY <2>1, <2>2 DEF SessionsTypeOK
  <2> QED
    BY <1>1, <2>1, <2>3, <2>4 DEF SessionsTypeOK, Stages, HoldsDrawn, InFlight, OneStoreForGood
<1>9. CASE Keep(q)
  <2>1. cur[q] \in drawn
    BY <1>9 DEF Keep, HoldsDrawn, InFlight
  <2> QED BY <1>1, <1>9, <2>1 DEF Keep, SessionsTypeOK, Stages, HoldsDrawn, InFlight, OneStoreForGood
<1>10. CASE Drop(q)
  BY <1>1, <1>10 DEF Drop, SessionsTypeOK, Stages, HoldsDrawn, InFlight, OneStoreForGood
<1> QED
  BY <1>2, <1>3, <1>4, <1>5, <1>6, <1>7, <1>8, <1>9, <1>10 DEF RequestStep

\* The invariant is inductive.
LEMMA NextInv == SessionsAssumption /\ HInv /\ [SessionsNext]_sessionsVars => HInv'
<1> SUFFICES ASSUME SessionsAssumption, HInv, [SessionsNext]_sessionsVars PROVE HInv'
  OBVIOUS
<1>1. ASSUME NEW q \in Requests, TasksExpire(q) PROVE HInv'
  BY <1>1 DEF TasksExpire, history, HInv, SessionsTypeOK, HoldsDrawn, InFlight, OneStoreForGood
<1>2. CASE UNCHANGED sessionsVars
  BY <1>2 DEF sessionsVars, HInv, SessionsTypeOK, HoldsDrawn, InFlight, OneStoreForGood
<1> QED BY <1>1, <1>2, RequestInv DEF SessionsNext

\* What the theorems below rest on holds in every reachable state.
THEOREM SessionsInvariant == SessionsSpec => []HInv
BY SessionsAssumption, InitHInv, NextInv, PTL DEF SessionsSpec

\* However many requests check sessions in at once, the table stays within
\* max_sessions, and all requests of a session use its one task store.
THEOREM TableIsSound == SessionsSpec => []TableSound
<1>1. HInv => TableSound
  BY DEF HInv, SessionsTypeOK, OneStoreForGood, TableSound, OneStore
<1> QED BY <1>1, SessionsInvariant, PTL

\* No request erases the handshake, the capabilities or the level that another
\* request of its session established, in whatever order they are absorbed.
THEOREM HandshakeIsKept == SessionsSpec => HandshakeKept
<1> DEFINE Grows(s) == /\ session[s].initialized => session'[s].initialized
                       /\ session[s].caps # None => session'[s].caps # None
                       /\ session[s].level # None => session'[s].level # None
<1>1. ASSUME SessionsAssumption, HInv, [SessionsNext]_sessionsVars, NEW s \in Ids PROVE Grows(s)
  <2>1. CASE UNCHANGED session
    BY <2>1
  <2>2. ASSUME NEW q \in Requests, Restore(q) PROVE Grows(s)
    <3>1. cur[q] \in Ids /\ session[cur[q]] \in SessionState
      BY <1>1, <2>2 DEF Restore, HInv, SessionsTypeOK, HoldsDrawn, InFlight
    <3>2. session' = [session EXCEPT ![cur[q]] = Donated(q, session[cur[q]])]
      BY <2>2 DEF Restore
    <3>3. CASE s # cur[q]
      BY <3>2, <3>3 DEF HInv, SessionsTypeOK
    <3>4. CASE s = cur[q]
      BY <1>1, <3>1, <3>2, <3>4, RestoreTypes DEF HInv, SessionsTypeOK
    <3> QED BY <3>3, <3>4
  <2>3. ASSUME NEW q \in Requests, Absorb(q) PROVE Grows(s)
    <3>1. cur[q] \in Ids /\ session[cur[q]] \in SessionState /\ serverOf[q] \in ServerState
      BY <1>1, <2>3 DEF Absorb, HInv, SessionsTypeOK, HoldsDrawn, InFlight
    <3>2. session' = [session EXCEPT ![cur[q]] = Absorbed(session[cur[q]], serverOf[q])]
      BY <2>3 DEF Absorb
    <3>3. CASE s # cur[q]
      BY <3>2, <3>3 DEF HInv, SessionsTypeOK
    <3>4. CASE s = cur[q]
      BY <1>1, <3>1, <3>2, <3>4, AbsorbTypes DEF HInv, SessionsTypeOK
    <3> QED BY <3>3, <3>4
  <2>4. \/ UNCHANGED session
        \/ \E q \in Requests : Restore(q) \/ Absorb(q)
    BY <1>1 DEF SessionsNext, RequestStep, CheckoutNew, Checkout, Terminate, BodyRejected, Dispatch, Panic,
                Decide, Keep, Drop, TasksExpire, sessionsVars
  <2> QED BY <2>1, <2>2, <2>3, <2>4
<1>2. SessionsAssumption /\ HInv /\ [SessionsNext]_sessionsVars => [\A s \in Ids : Grows(s)]_sessionsVars
  BY <1>1
<1> QED BY <1>2, SessionsAssumption, SessionsInvariant, PTL DEF SessionsSpec, HandshakeKept

\* The session a client is handed is one its next request finds: making room for
\* it never evicts it.
THEOREM HandedOutIsListed ==
    SessionsSpec => [][\A q \in Requests : at[q] = "keep" /\ at'[q] # "keep" => Listed(table', cur[q])]_sessionsVars
<1>1. ASSUME SessionsAssumption, HInv, [SessionsNext]_sessionsVars, NEW q \in Requests,
             at[q] = "keep", at'[q] # "keep"
      PROVE  Listed(table', cur[q])
  <2>1. Keep(q)
    <3>1. PICK o \in Requests : RequestStep(o) /\ at' # at
      BY <1>1 DEF SessionsNext, TasksExpire, sessionsVars
    <3>2. \E stage \in Stages : at' = [at EXCEPT ![o] = stage]
      BY <3>1 DEF RequestStep, CheckoutNew, Checkout, Terminate, BodyRejected, Restore, Dispatch,
                  Panic, Absorb, Decide, Keep, Drop, RequestAt, Stages
    <3>3. o = q
      BY <1>1, <3>2 DEF HInv, SessionsTypeOK
    <3> QED
      BY <1>1, <3>1, <3>3 DEF RequestStep, CheckoutNew, Checkout, Terminate, BodyRejected, Restore,
                              Dispatch, Panic, Absorb, Decide, Drop
  <2>2. cur[q] \in Ids /\ IsTable(table)
    BY <1>1 DEF HInv, SessionsTypeOK, HoldsDrawn, InFlight, IsTable
  <2> DEFINE t == Used(table, cur[q])
  <2>3. IsTable(t) /\ Len(t) \in Nat /\ Len(t) # 0 /\ t[Len(t)] = cur[q]
    <3>1. Len(table) \in Nat
      BY <2>2 DEF IsTable
    <3>2. IsTable(t) /\ t[Len(t)] = cur[q]
      BY <2>2, UsedTable
    <3>3. Len(t) # 0
      <4>1. Len(t) = IF Listed(table, cur[q]) THEN Len(table) ELSE Len(table) + 1
        BY <2>2, UsedTable
      <4>2. Listed(table, cur[q]) => Len(table) # 0
        BY <3>1 DEF Listed, Contains
      <4> HIDE DEF t
      <4> QED BY <3>1, <4>1, <4>2
    <3> HIDE DEF t
    <3> QED BY <3>2, <3>3 DEF IsTable
  <2>4. table' = Evicted(t)
    BY <2>1 DEF Keep
  <2> HIDE DEF t
  <2> QED BY <1>1, <2>3, <2>4, EvictedTable
<1>2. SessionsAssumption /\ HInv /\ [SessionsNext]_sessionsVars
        => [\A q \in Requests : at[q] = "keep" /\ at'[q] # "keep" => Listed(table', cur[q])]_sessionsVars
  BY <1>1
<1> QED BY <1>2, SessionsAssumption, SessionsInvariant, PTL DEF SessionsSpec
=============================================================================
