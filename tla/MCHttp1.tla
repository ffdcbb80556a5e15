------------------------------ MODULE MCHttp1 ------------------------------
(* What the peers of a small instance of Http1 may send. *)
EXTENDS Http1

Get        == <<<<"head", "GET", "1.1", <<>>>>>>
Post(n)    == <<"head", "POST", "1.1", <<<<"content-length", n>>>>>>
ChunkedOn(version) == <<"head", "POST", version, <<<<"transfer-encoding", "chunked">>>>>>
Expecting  == <<"head", "POST", "1.1", <<<<"expect", "100-continue">>, <<"content-length", "1">>>>>>
Closing    == <<"head", "POST", "1.1", <<<<"connection", "close">>, <<"content-length", "1">>>>>>

\* A whole body; one over the limit; one that is not UTF-8; chunks, with a
\* trailer too many, a bare LF, a blank size, and more than the limit; a peer
\* that waits to be told; heads that are refused, too long or all blank.
SmallStreams == {
    <<Post("1"), <<"byte">>>> \o Get,
    <<Post("9"), <<"byte">>, <<"byte">>>> \o Get,
    <<Post("1"), <<"octet">>>> \o Get,
    <<ChunkedOn("1.1"), <<"size", "1", TRUE>>, <<"byte">>, <<"crlf">>, <<"size", "0", TRUE>>, <<"crlf">>>> \o Get,
    <<ChunkedOn("1.1"), <<"size", "1", TRUE>>, <<"byte">>, <<"crlf">>, <<"size", "1", TRUE>>, <<"byte">>>> \o Get,
    <<ChunkedOn("1.1"), <<"size", "0", TRUE>>, <<"trailer">>, <<"trailer">>, <<"crlf">>>> \o Get,
    <<ChunkedOn("1.1"), <<"size", "1", FALSE>>, <<"byte">>, <<"crlf">>>> \o Get,
    <<ChunkedOn("1.1"), <<"size", "", TRUE>>, <<"byte">>>> \o Get,
    <<ChunkedOn("1.1"), <<"size", "1", TRUE>>, <<"byte">>, <<"byte">>>> \o Get,
    <<ChunkedOn("1.0"), <<"size", "1", TRUE>>>> \o Get,
    <<Expecting, <<"byte">>>> \o Get,
    <<Closing, <<"byte">>>> \o Get,
    <<<<"bad", "NewLine">>>>,
    <<<<"part">>, <<"part">>, <<"part">>>>,
    <<<<"blank">>, <<"blank">>>> \o Get }
=============================================================================
