------------------------------- MODULE Http1 -------------------------------
(***************************************************************************)
(* The HTTP/1.1 server of transport/http1.rs: the accept loop and its      *)
(* connection slots, the thread that refuses, and one thread per           *)
(* connection, which reads requests and answers them in turn.              *)
(*                                                                         *)
(* A peer's stream is a sequence of items, each at least one byte; one     *)
(* read takes one item.  A peer need never send, and may hang up anywhere. *)
(* The handler is transport/http.rs: it reads the body or declines it,     *)
(* and closes when the body failed or it panicked.                         *)
(***************************************************************************)
EXTENDS Http1Head, FiniteSets
LOCAL INSTANCE SequencesExt

CONSTANTS
    Conns,          \* the connections peers make
    Streams,        \* what a peer may send on one: sequences of items
    Connections, ReadTimeout, IdleTimeout,  \* what HttpServer was asked for
    Backlog,        \* REFUSAL_BACKLOG
    MaxHead,        \* Limits::max_head_bytes, in items
    MaxBlank,       \* MAX_LEADING_BLANK_LINES
    MaxBody,        \* Limits::max_body_bytes, in items
    MaxTrailers     \* MAX_TRAILERS

ASSUME Http1Assumption ==
    /\ IsFiniteSet(Conns)
    /\ {Connections, ReadTimeout, IdleTimeout} \subseteq Nat
    /\ {Backlog, MaxHead, MaxBlank, MaxBody, MaxTrailers} \subseteq Nat

\* max_connections, read_timeout and idle_timeout: a zero is raised.
MinTimeout == 1
AtLeast(least, n) == IF n < least THEN least ELSE n
Limits == [connections |-> AtLeast(1, Connections),
           read        |-> AtLeast(MinTimeout, ReadTimeout),
           idle        |-> AtLeast(MinTimeout, IdleTimeout)]

\* Mutation: the socket is given what is left of the budget as it is.
ArmRead_AsGiven(timeout) == timeout

\* arm_read; and what the kernel makes of SO_RCVTIMEO, to which zero is never.
ArmRead(timeout) == AtLeast(MinTimeout, timeout)
Wakes(timeout)   == timeout > 0

\* Items: a blank line, part of a head, the line that ends one, one that
\* httparse refuses; body bytes; the lines of chunked framing.
HeadItem(item) == item[1] \in {"blank", "part", "head", "bad"}
ByteItem(item) == item[1] \in {"byte", "octet"}

-----------------------------------------------------------------------------
(* What a peer may send: a request begins where the one before has ended.  *)
(* This is the framing of RFC 9112, read off the stream alone; "lost" is    *)
(* past what no recipient can find the end of.                              *)

Expect(what, left) == [at |-> what, left |-> left]
AtHead == Expect("head", 0)
AtBody(framing) ==
    CASE framing = Empty -> AtHead
      [] framing = Chunked -> Expect("size", 0)
      [] OTHER -> Expect("length", framing.size)

AfterItem(e, item) ==
    CASE e.at = "head" /\ item[1] \in {"blank", "part"} -> AtHead
      [] e.at = "head" /\ item[1] = "head" ->
            LET parsed == HeadFrom(item[2], item[3], item[4])
            IN  IF parsed.ok THEN AtBody(parsed.is.framing) ELSE Expect("lost", 0)
      [] e.at = "length" /\ ByteItem(item) ->
            IF e.left = 1 THEN AtHead ELSE Expect("length", e.left - 1)
      [] e.at = "size" /\ item[1] = "size" /\ item[3] /\ ParseChunkSize(item[2]).ok ->
            LET size == ParseChunkSize(item[2]).is
            IN  IF size = 0 THEN Expect("trailers", 0) ELSE Expect("data", size)
      [] e.at = "data" /\ ByteItem(item) ->
            IF e.left = 1 THEN Expect("dataEnd", 0) ELSE Expect("data", e.left - 1)
      [] e.at = "dataEnd" /\ item = <<"crlf">> -> Expect("size", 0)
      [] e.at = "trailers" /\ item = <<"crlf">> -> AtHead
      [] e.at = "trailers" /\ item = <<"trailer">> -> e
      [] OTHER -> Expect("lost", 0)

\* es[i] is what is expected at the i-th item, the first being e, and a head is
\* sent wherever one is.
Framed(items, es, e) ==
    /\ DOMAIN es = 1 .. Len(items) + 1
    /\ es[1] = e
    /\ \A i \in 1 .. Len(items) :
          /\ es[i + 1] = AfterItem(es[i], items[i])
          /\ es[i] = AtHead => HeadItem(items[i])

Expected(items) ==
    FoldLeft(LAMBDA es, item : Append(es, AfterItem(Last(es), item)), <<AtHead>>, items)

Items == UNION {{s[i] : i \in DOMAIN s} : s \in Streams}

ASSUME StreamsAssumption ==
    \A s \in Streams : s \in Seq(Items) /\ Framed(s, Expected(s), AtHead)

-----------------------------------------------------------------------------
(* State *)

VARIABLES
    conn,       \* conn[c]: where its thread, or the listener, is with it
    wire,       \* wire[c]: what the peer will still send
    gone,       \* gone[c]: the peer has hung up
    raw,        \* raw[c]: read_head's accumulator, in items
    blanks,     \* blanks[c]: the empty lines it starts with
    spent,      \* spent[c]: the Deadline of the request is past
    head,       \* head[c]: the request's Head
    body,       \* body[c]: its Body
    answer,     \* answer[c]: the Response to write
    live,       \* the Slot counter
    queue,      \* the Refuser's channel
    server      \* the listener: how far it has come, tls, and whether the Refuser has a thread

own  == <<wire, gone, raw, blanks, spent, head, body, answer>>
http1Vars == <<conn, own, live, queue, server>>

NoHead == [method |-> "GET", version |-> "1.1", framing |-> Empty, expects |-> FALSE,
           close |-> TRUE]
NoBody == [started |-> FALSE, finished |-> FALSE, left |-> 0, got |-> 0, why |-> "none",
           text |-> TRUE, trailers |-> 0, invited |-> FALSE]
NoAnswer == [status |-> 0, close |-> FALSE]

\* Reading a body, wanted or drained.
Reading  == {"length", "size", "data", "dataEnd", "trailers", "drain"}
InRequest == {"heading", "handler"} \cup Reading \cup {"writing", "linger"}
Holding  == {"claimed", "waiting"} \cup InRequest
States   == {"absent", "backlog", "refused", "refusing", "closed"} \cup Holding

Http1TypeOK ==
    /\ conn \in [Conns -> States]
    /\ gone \in [Conns -> BOOLEAN]
    /\ spent \in [Conns -> BOOLEAN]
    /\ raw \in [Conns -> 0 .. MaxHead]
    /\ blanks \in [Conns -> 0 .. MaxBlank + 1]
    /\ \A c \in Conns : body[c].got \in 0 .. MaxBody /\ body[c].left \in 0 .. MaxBody
    /\ live \in 0 .. Limits.connections
    /\ Len(queue) <= Backlog

ConnAt(c, next) == conn' = [conn EXCEPT ![c] = next]

-----------------------------------------------------------------------------
(* Peers *)

Connect(c) ==
    /\ server.state = "up"
    /\ conn[c] = "absent"
    /\ ConnAt(c, "backlog")
    /\ UNCHANGED <<own, live, queue, server>>

\* The peer hangs up, with or without what is on its way; it matters to a read.
HangUp(c) ==
    /\ conn[c] \in {"waiting", "heading"} \cup Reading
    /\ ~gone[c]
    /\ gone' = [gone EXCEPT ![c] = TRUE]
    /\ \E kept \in {wire[c], <<>>} : wire' = [wire EXCEPT ![c] = kept]
    /\ UNCHANGED <<conn, raw, blanks, spent, head, body, answer, live, queue, server>>

-----------------------------------------------------------------------------
(* serve: the accept loop, and the Refuser *)

\* The address is bound and, for TLS, the certificate and key are read; either
\* may fail, and serve returns.  The Refuser may be refused a thread.
Listen ==
    /\ server.state = "new"
    /\ \/ server' = [server EXCEPT !.state = "failed"]
       \/ \E had \in BOOLEAN : server' = [server EXCEPT !.state = "up", !.refuser = had]
    /\ UNCHANGED <<conn, own, live, queue>>

NoClaim == \A c \in Conns : conn[c] # "claimed"

\* accept() and Slot::claim; the loop has one connection in hand.
Claim(c) ==
    /\ conn[c] = "backlog"
    /\ NoClaim
    /\ live < Limits.connections
    /\ live' = live + 1
    /\ ConnAt(c, "claimed")
    /\ UNCHANGED <<own, queue, server>>

\* The slot moves into the thread, and goes with the closure if there is none.
\* What the peer sends is chosen here, where it begins to matter.
Spawn(c) ==
    /\ conn[c] = "claimed"
    /\ ConnAt(c, "waiting")
    /\ \E stream \in Streams : wire' = [wire EXCEPT ![c] = stream]
    /\ UNCHANGED <<gone, raw, blanks, spent, head, body, answer, live, queue, server>>

\* Mutation: the slot of a thread that was never started is kept.
SpawnFails_Leaks(c) ==
    /\ conn[c] = "claimed"
    /\ ConnAt(c, "closed")
    /\ UNCHANGED <<own, live, queue, server>>

SpawnFails(c) ==
    /\ conn[c] = "claimed"
    /\ live' = live - 1
    /\ ConnAt(c, "closed")
    /\ UNCHANGED <<own, queue, server>>

\* Acceptor::accept has no TLS connection to give; the handshake itself happens
\* in the first reads, and its failure is theirs.
AcceptorFails(c) ==
    /\ conn[c] = "claimed"
    /\ server.tls
    /\ live' = live - 1
    /\ ConnAt(c, "closed")
    /\ UNCHANGED <<own, queue, server>>

\* No slot: closed over TLS, and when the Refuser's queue is full or its
\* thread was never had; else queued to be told.
Refuse_(c) ==
    /\ conn[c] = "backlog"
    /\ NoClaim
    /\ live >= Limits.connections
    /\ IF server.tls \/ ~server.refuser \/ Len(queue) >= Backlog
       THEN ConnAt(c, "closed") /\ UNCHANGED queue
       ELSE ConnAt(c, "refused") /\ queue' = Append(queue, c)
    /\ UNCHANGED <<own, live, server>>

\* The 503 is written and the connection lingered over, one at a time.
RefuserTakes ==
    /\ queue # <<>>
    /\ \A c \in Conns : conn[c] # "refusing"
    /\ ConnAt(Head(queue), "refusing")
    /\ queue' = Tail(queue)
    /\ UNCHANGED <<own, live, server>>

RefuserEnds(c) ==
    /\ conn[c] = "refusing"
    /\ ConnAt(c, "closed")
    /\ UNCHANGED <<own, live, queue, server>>

-----------------------------------------------------------------------------
(* read_head *)

elsewhere == <<live, queue, server>>

\* Slot::drop, when the connection's thread returns; nobody reads the rest.
Leave(c) ==
    /\ ConnAt(c, "closed")
    /\ live' = live - 1
    /\ wire' = [wire EXCEPT ![c] = <<>>]
    /\ gone' = [gone EXCEPT ![c] = FALSE]
    /\ raw' = [raw EXCEPT ![c] = 0]
    /\ blanks' = [blanks EXCEPT ![c] = 0]
    /\ UNCHANGED <<spent, head, body, answer, queue, server>>

\* A refusal by read_head: written, and the connection is finished.
Reject(c, status) ==
    /\ answer' = [answer EXCEPT ![c] = [status |-> status, close |-> TRUE]]
    /\ ConnAt(c, "writing")
    /\ UNCHANGED elsewhere

\* One round that brought an item, with the checks made before the read and
\* after it.  The first item starts the clock.
ReadHead(c) ==
    LET item == Head(wire[c])
        lead == IF item[1] = "blank" /\ raw[c] = blanks[c] THEN blanks[c] + 1 ELSE blanks[c]
    IN
    /\ conn[c] \in {"waiting", "heading"}
    /\ wire[c] # <<>>
    /\ raw[c] < MaxHead
    /\ ~spent[c]
    /\ HeadItem(item)
    /\ wire' = [wire EXCEPT ![c] = Tail(@)]
    /\ raw' = [raw EXCEPT ![c] = @ + 1]
    /\ blanks' = [blanks EXCEPT ![c] = lead]
    /\ \/ /\ lead > MaxBlank
          /\ Reject(c, 400)
          /\ UNCHANGED <<head, body>>
       \/ /\ lead <= MaxBlank
          /\ item[1] \in {"blank", "part"}
          /\ ConnAt(c, "heading")
          /\ UNCHANGED <<head, body, answer, elsewhere>>
       \/ /\ lead <= MaxBlank
          /\ item[1] = "bad"
          /\ Reject(c, Rejection(item[2]))
          /\ UNCHANGED <<head, body>>
       \/ /\ lead <= MaxBlank
          /\ item[1] = "head"
          /\ LET parsed == HeadFrom(item[2], item[3], item[4]) IN
             IF ~parsed.ok THEN Reject(c, parsed.is) /\ UNCHANGED <<head, body>>
             ELSE /\ head' = [head EXCEPT ![c] = parsed.is]
                  /\ body' = [body EXCEPT ![c] = [NoBody EXCEPT
                                 !.finished = parsed.is.framing = Empty]]
                  /\ ConnAt(c, "handler")
                  /\ UNCHANGED <<answer, elsewhere>>
    /\ UNCHANGED <<gone, spent>>

\* Deadline::arm: a spent budget is seen between two reads, or inside one that
\* brings nothing, by the timeout the socket was given.
Overdue(c) == spent[c] /\ (wire[c] # <<>> \/ Wakes(ArmRead(0)))

\* The accumulator is full, or the budget is spent.
HeadOverrun(c) ==
    /\ conn[c] = "heading"
    /\ \/ raw[c] >= MaxHead /\ Reject(c, 431)
       \/ raw[c] < MaxHead /\ Overdue(c) /\ Reject(c, 408)
    /\ UNCHANGED <<wire, gone, raw, blanks, spent, head, body>>

\* A hangup or a broken socket, at any point of a head, is not answered; nor is
\* a connection that idles too long between requests.
HeadEnds(c) ==
    /\ \/ conn[c] \in {"waiting", "heading"} /\ wire[c] = <<>> /\ gone[c]
       \/ conn[c] = "waiting" /\ Wakes(ArmRead(Limits.idle))
    /\ ~spent[c]
    /\ Leave(c)

\* Deadline::expired: it starts with the first byte and nothing renews it.
DeadlinePasses(c) ==
    /\ conn[c] \in {"heading", "handler"} \cup Reading
    /\ ~spent[c]
    /\ spent' = [spent EXCEPT ![c] = TRUE]
    /\ UNCHANGED <<conn, wire, gone, raw, blanks, head, body, answer, elsewhere>>

-----------------------------------------------------------------------------
(* The handler, and Body *)

unread == <<gone, raw, blanks, spent, head, elsewhere>>

SetBody(c, b) == body' = [body EXCEPT ![c] = b]

\* The body cannot be had: the handler is told why; a drain only gives up.
Fails(c, why) ==
    /\ SetBody(c, [body[c] EXCEPT !.why = why])
    /\ ConnAt(c, IF conn[c] = "drain" THEN "writing" ELSE "handler")
    /\ UNCHANGED <<unread, answer>>

\* Body::read up to its first read of the socket; 100 Continue is sent only for
\* a body that is wanted, and may fail.
HandlerReads(c) ==
    LET framing == head[c].framing
        begun   == [body[c] EXCEPT !.started = TRUE, !.left = framing.size,
                                   !.invited = head[c].expects]
    IN
    /\ conn[c] = "handler"
    /\ ~body[c].started
    /\ \/ /\ framing = Empty
          /\ SetBody(c, [begun EXCEPT !.finished = TRUE, !.invited = FALSE])
          /\ UNCHANGED conn
       \/ /\ framing.kind = "length"
          /\ framing.size > MaxBody
          /\ SetBody(c, [body[c] EXCEPT !.started = TRUE, !.why = "TooLarge"])
          /\ UNCHANGED conn
       \/ /\ framing # Empty
          /\ framing.size <= MaxBody
          /\ \/ SetBody(c, begun) /\ ConnAt(c, IF framing = Chunked THEN "size" ELSE "length")
             \/ head[c].expects /\ SetBody(c, [begun EXCEPT !.why = "Incomplete"]) /\ UNCHANGED conn
    /\ UNCHANGED <<wire, answer, unread>>

\* A body that is complete but not UTF-8 is malformed all the same.
Complete(b) == [b EXCEPT !.finished = TRUE, !.why = IF b.text THEN "none" ELSE "Malformed"]

\* read_exactly takes one byte.
ReadByte(c) ==
    LET b == [body[c] EXCEPT !.left = @ - 1, !.got = @ + 1,
                             !.text = @ /\ Head(wire[c])[1] = "byte"]
    IN
    /\ conn[c] \in {"length", "data", "drain"}
    /\ wire[c] # <<>> /\ ~spent[c]
    /\ Head(wire[c])[1] \in {"byte", "octet"}
    /\ wire' = [wire EXCEPT ![c] = Tail(@)]
    /\ \/ b.left > 0 /\ SetBody(c, b) /\ UNCHANGED conn
       \/ b.left = 0 /\ conn[c] = "length" /\ SetBody(c, Complete(b)) /\ ConnAt(c, "handler")
       \/ b.left = 0 /\ conn[c] = "data" /\ SetBody(c, b) /\ ConnAt(c, "dataEnd")
       \/ b.left = 0 /\ conn[c] = "drain" /\ SetBody(c, Complete(b)) /\ ConnAt(c, "writing")
    /\ UNCHANGED <<answer, unread>>

\* read_chunked: a size line, held to CRLF.
ChunkLine(c) ==
    LET item == Head(wire[c])
        size == ParseChunkSize(item[2])
    IN
    /\ conn[c] = "size"
    /\ wire[c] # <<>> /\ ~spent[c]
    /\ item[1] = "size"
    /\ wire' = [wire EXCEPT ![c] = Tail(@)]
    /\ \/ (~item[3] \/ ~size.ok) /\ Fails(c, "Malformed")
       \/ /\ item[3] /\ size.ok /\ size.is > MaxBody - body[c].got
          /\ Fails(c, "TooLarge")
       \/ /\ item[3] /\ size.ok /\ size.is <= MaxBody - body[c].got
          /\ SetBody(c, [body[c] EXCEPT !.left = size.is])
          /\ ConnAt(c, IF size.is = 0 THEN "trailers" ELSE "data")
          /\ UNCHANGED <<answer, unread>>

\* The CRLF after a chunk, a trailer, and the CRLF after the last one.
ChunkEnd(c) ==
    LET item == Head(wire[c]) IN
    /\ conn[c] \in {"dataEnd", "trailers"}
    /\ wire[c] # <<>> /\ ~spent[c]
    /\ wire' = [wire EXCEPT ![c] = Tail(@)]
    /\ \/ /\ item = <<"crlf">> /\ conn[c] = "dataEnd"
          /\ ConnAt(c, "size")
          /\ UNCHANGED <<body, answer, unread>>
       \/ /\ item = <<"crlf">> /\ conn[c] = "trailers"
          /\ SetBody(c, Complete(body[c])) /\ ConnAt(c, "handler")
          /\ UNCHANGED <<answer, unread>>
       \/ /\ item = <<"trailer">> /\ conn[c] = "trailers" /\ body[c].trailers < MaxTrailers
          /\ SetBody(c, [body[c] EXCEPT !.trailers = @ + 1])
          /\ UNCHANGED <<conn, answer, unread>>
       \/ /\ item # <<"crlf">>
          /\ ~(item = <<"trailer">> /\ conn[c] = "trailers" /\ body[c].trailers < MaxTrailers)
          /\ Fails(c, "Malformed")

BodyTimesOut(c) ==
    /\ conn[c] \in Reading
    /\ Overdue(c)
    /\ Fails(c, "TimedOut")
    /\ UNCHANGED wire

BodyStops(c) ==
    /\ conn[c] \in Reading
    /\ wire[c] = <<>> /\ gone[c]
    /\ Fails(c, "Incomplete")
    /\ UNCHANGED wire

\* drain_if_cheap: a body nobody asked for, and nobody was told to hold back.
CheapToDrain(c) ==
    /\ ~body[c].started /\ ~body[c].finished
    /\ ~head[c].expects
    /\ head[c].framing.kind = "length"
    /\ head[c].framing.size <= MaxBody

Status(why) ==
    CASE why = "TooLarge" -> 413
      [] why = "TimedOut" -> 408
      [] OTHER -> 400

\* The handler returns: it read the body, or declined to, or panicked.
HandlerAnswers(c) ==
    /\ conn[c] = "handler"
    /\ \E panics \in BOOLEAN :
          answer' = [answer EXCEPT ![c] =
              CASE panics -> [status |-> 500, close |-> TRUE]
                [] ~panics /\ body[c].why # "none" -> [status |-> Status(body[c].why), close |-> TRUE]
                [] ~panics /\ body[c].why = "none" -> [status |-> IF body[c].started THEN 200 ELSE 401,
                                                      close |-> FALSE]]
    /\ IF CheapToDrain(c)
       THEN /\ SetBody(c, [body[c] EXCEPT !.started = TRUE, !.left = head[c].framing.size])
            /\ ConnAt(c, "drain")
       ELSE UNCHANGED body /\ ConnAt(c, "writing")
    /\ UNCHANGED <<wire, unread>>

-----------------------------------------------------------------------------
(* The end of a request *)

\* Mutation: whether the body was consumed is not asked.
Reusable_AnyBody(c) ==
    head[c].version = "1.1" /\ ~head[c].close /\ ~answer[c].close

\* The peer asked for it, the answer allows it, and the next byte is the first
\* of a request.
Reusable(c) ==
    /\ head[c].version = "1.1" /\ ~head[c].close
    /\ ~answer[c].close
    /\ body[c].finished

\* write_response, which may fail.
WriteResponse(c) ==
    /\ conn[c] = "writing"
    /\ \E sent \in BOOLEAN : ConnAt(c, IF sent /\ Reusable(c) THEN "waiting" ELSE "linger")
    /\ raw' = [raw EXCEPT ![c] = 0]
    /\ blanks' = [blanks EXCEPT ![c] = 0]
    /\ spent' = [spent EXCEPT ![c] = FALSE]
    /\ head' = [head EXCEPT ![c] = NoHead]
    /\ body' = [body EXCEPT ![c] = NoBody]
    /\ answer' = [answer EXCEPT ![c] = NoAnswer]
    /\ UNCHANGED <<wire, gone, elsewhere>>

\* linger_close reads on for a while, within its own budget.
LingerClose(c) ==
    /\ conn[c] = "linger"
    /\ Leave(c)

-----------------------------------------------------------------------------
Http1Init ==
    /\ conn = [c \in Conns |-> "absent"]
    /\ wire = [c \in Conns |-> <<>>]
    /\ gone = [c \in Conns |-> FALSE]
    /\ raw = [c \in Conns |-> 0]
    /\ blanks = [c \in Conns |-> 0]
    /\ spent = [c \in Conns |-> FALSE]
    /\ head = [c \in Conns |-> NoHead]
    /\ body = [c \in Conns |-> NoBody]
    /\ answer = [c \in Conns |-> NoAnswer]
    /\ live = 0
    /\ queue = <<>>
    /\ server \in [state : {"new"}, tls : BOOLEAN, refuser : {FALSE}]

Listener(c) == Claim(c) \/ Spawn(c) \/ SpawnFails(c) \/ AcceptorFails(c) \/ Refuse_(c) \/ RefuserEnds(c)

\* What a connection's thread does by itself, and what the peer must feed it.
ThreadStep(c) ==
    \/ HeadOverrun(c) \/ HandlerReads(c) \/ BodyTimesOut(c) \/ BodyStops(c)
    \/ HandlerAnswers(c) \/ WriteResponse(c) \/ LingerClose(c)
PeerFeeds(c) == ReadHead(c) \/ ReadByte(c) \/ ChunkLine(c) \/ ChunkEnd(c)

Http1Next ==
    \/ Listen
    \/ \E c \in Conns : Connect(c) \/ HangUp(c)
    \/ \E c \in Conns : Listener(c)
    \/ RefuserTakes
    \/ \E c \in Conns : ThreadStep(c)
    \/ \E c \in Conns : PeerFeeds(c)
    \/ \E c \in Conns : HeadEnds(c) \/ DeadlinePasses(c)

Http1Spec == Http1Init /\ [][Http1Next]_http1Vars

\* Threads run and clocks advance; a handler returns.  No peer owes a byte.
Fairness ==
    /\ \A c \in Conns :
          WF_http1Vars(ThreadStep(c)) /\ WF_http1Vars(HeadEnds(c)) /\ WF_http1Vars(DeadlinePasses(c))
    /\ \A c \in Conns : WF_http1Vars(Listener(c))
    /\ WF_http1Vars(RefuserTakes)

Http1FairSpec == Http1Spec /\ Fairness

-----------------------------------------------------------------------------
(* Properties *)

\* Keep-alive never loses its place: a connection that waits for a request is
\* never fed the rest of an earlier one's body (serve_connection's three yeses),
\* whether the handler read it, declined it, failed on it or panicked.
InSync ==
    \A c \in Conns : conn[c] \in {"waiting", "heading"} /\ wire[c] # <<>> => HeadItem(Head(wire[c]))

\* Slots are held by exactly the connections the listener has admitted and not
\* closed, over every failure to start a thread and every way a thread ends.
SlotsExact ==
    live <= Limits.connections /\ live = Cardinality({c \in Conns : conn[c] \in Holding})

\* A request, once begun, ends - however slowly its bytes come, or not at all
\* (the budget a peer cannot renew) - and so does a refusal, and the wait of a
\* kept-alive connection, whatever timeouts were asked for.
RequestEnds ==
    \A c \in Conns :
        /\ (conn[c] = "waiting") ~> (conn[c] # "waiting")
        /\ (conn[c] \in InRequest) ~> (conn[c] \in {"waiting", "closed"})
        /\ (conn[c] \in {"refused", "refusing"}) ~> (conn[c] = "closed")
=============================================================================
