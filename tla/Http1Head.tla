----------------------------- MODULE Http1Head -----------------------------
(***************************************************************************)
(* What transport/http1.rs decides about one request head, once httparse   *)
(* has split it into a request line and header fields, and what it writes  *)
(* back.  Values are their spelling; httparse itself is external.          *)
(***************************************************************************)
EXTENDS Integers, Sequences

Methods  == {"GET", "HEAD", "POST", "DELETE", "OTHER"}
Versions == {"1.0", "1.1"}

\* A field: its name, lower case, and its value as spelt; "bytes" is not text.
Fields ==
    {<<"transfer-encoding", v>> : v \in {"chunked", "gzip"}} \cup
    {<<"content-length", v>> : v \in {"", "0", "1", "01", "+1", "9", "huge"}} \cup
    {<<"connection", v>> : v \in {"close", "keep-alive"}} \cup
    {<<"expect", v>> : v \in {"100-continue", "other"}} \cup
    {<<"x", "bytes">>}

Empty     == [kind |-> "empty", size |-> 0]
Length(n) == [kind |-> "length", size |-> n]
Chunked   == [kind |-> "chunked", size |-> 0]

Ok(x)        == [ok |-> TRUE, is |-> x]
Refuse(code) == [ok |-> FALSE, is |-> code]

\* The fields of that name, by their places, and their values.
Named(headers, name)  == {i \in DOMAIN headers : headers[i][1] = name}
Values(headers, name) == {headers[i][2] : i \in Named(headers, name)}

\* header_of: the first field of that name decides, and "" is none.
HeaderOf(headers, name) ==
    LET places == Named(headers, name)
    IN  IF places = {} THEN "" ELSE headers[CHOOSE i \in places : \A j \in places : i <= j][2]

\* A Content-Length is digits and nothing else, and fits a usize.
Declared(text) ==
    CASE text = "0" -> Ok(0)
      [] text \in {"1", "01"} -> Ok(1)
      [] text = "9" -> Ok(9)
      [] OTHER -> Refuse(400)

ByDeclared(text) ==
    LET n == Declared(text)
    IN  IF ~n.ok THEN n ELSE Ok(IF n.is = 0 THEN Empty ELSE Length(n.is))
ByCoding(coding) == IF coding = "chunked" THEN Ok(Chunked) ELSE Refuse(501)

\* Mutation: with two lengths the first is taken.
FramingOf_FirstLength(headers) ==
    LET te == Named(headers, "transfer-encoding")
        cl == Values(headers, "content-length")
    IN  IF \E i, j \in te : i # j THEN Refuse(400)
        ELSE CASE te # {} -> ByCoding(HeaderOf(headers, "transfer-encoding"))
               [] te = {} /\ cl # {} -> ByDeclared(HeaderOf(headers, "content-length"))
               [] te = {} /\ cl = {} -> Ok(Empty)

\* framing_of: every shape two parsers could read differently is refused.
FramingOf(headers) ==
    LET te == Named(headers, "transfer-encoding")
        cl == Values(headers, "content-length")
        twice == (\E i, j \in te : i # j) \/ (\E v, w \in cl : v # w)
    IN  IF twice \/ (te # {} /\ cl # {}) THEN Refuse(400)
        ELSE CASE te # {} -> ByCoding(HeaderOf(headers, "transfer-encoding"))
               [] cl # {} -> ByDeclared(CHOOSE v \in cl : TRUE)
               [] OTHER -> Ok(Empty)

\* head_from: what the connection loop needs to know of a head, or its refusal.
HeadFrom(method, version, headers) ==
    LET framing == FramingOf(headers)
        expect  == HeaderOf(headers, "expect")
        conn    == HeaderOf(headers, "connection")
    IN  CASE \E i \in DOMAIN headers : headers[i][2] = "bytes" -> Refuse(400)
          [] (\A i \in DOMAIN headers : headers[i][2] # "bytes") /\ ~framing.ok -> framing
          [] framing.ok /\ framing.is = Chunked /\ version = "1.0" -> Refuse(400)
          [] expect = "other" -> Refuse(417)
          [] OTHER -> Ok([method  |-> method,
                          version |-> version,
                          framing |-> framing.is,
                          expects |-> expect = "100-continue" /\ version = "1.1",
                          close   |-> IF version = "1.1" THEN conn = "close"
                                      ELSE conn # "keep-alive"])

\* rejection: a head httparse would not accept.
ParseErrors == {"Version", "TooManyHeaders", "HeaderName", "HeaderValue", "Token", "NewLine"}
Rejection(error) ==
    CASE error = "Version" -> 505
      [] error = "TooManyHeaders" -> 431
      [] OTHER -> 400

\* parse_chunk_size: the size opens with a hex digit; httparse alone would read
\* a blank line, a leading space and a bare extension as the last chunk.
ParseChunkSize(line) ==
    CASE line \in {"0", "0;x"} -> Ok(0)
      [] line \in {"1", "1;x"} -> Ok(1)
      [] line = "9" -> Ok(9)
      [] OTHER -> Refuse(400)

\* render: what goes out for a response that holds `length` bytes.
Render(method, response, length) ==
    LET bodiless == response.status \in {204, 304}
    IN  [declared  |-> IF bodiless THEN {} ELSE {length},
         sent      |-> IF bodiless \/ method = "HEAD" THEN 0 ELSE length,
         keepAlive |-> ~response.close]

-----------------------------------------------------------------------------
(* Reference *)

\* Where other parsers may think the body ends: a recipient that lets the
\* transfer coding win, one that lets a length win, whichever it picks of several;
\* and one that takes any spelling of a number for a number.  An HTTP/1.0
\* recipient knows no transfer coding.
Lenient(text) ==
    CASE text \in {"", "0"} -> 0
      [] text \in {"1", "01", "+1"} -> 1
      [] text = "9" -> 9
      [] OTHER -> 99
ByLength(text) == IF Lenient(text) = 0 THEN Empty ELSE Length(Lenient(text))
Readings(version, headers) ==
    LET te == IF version = "1.0" THEN {} ELSE Values(headers, "transfer-encoding")
        cl == Values(headers, "content-length")
        lengths == IF cl = {} THEN {Empty} ELSE {ByLength(v) : v \in cl}
    IN  (IF te = {} THEN lengths ELSE {Chunked}) \cup
        (IF cl = {} /\ te # {} THEN {Chunked} ELSE lengths)
=============================================================================
