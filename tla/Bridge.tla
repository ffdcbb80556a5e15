------------------------------- MODULE Bridge -------------------------------
(***************************************************************************)
(* The shim's proxy (Bridge::run, pump and transform::apply in bridge.rs   *)
(* and bridge/transform.rs).  Two threads run pump(), one per direction:   *)
(* "c2u" forwards what the client says to the daemon, through the          *)
(* transform, and "u2c" what the daemon says to the client.  Each answers  *)
(* what it cannot read on the sink the other one writes to.  run returns   *)
(* when "u2c" does.                                                        *)
(*                                                                         *)
(* Lines are numbered per direction.  Both transports can be split, or run *)
(* returns before either thread starts.  A write is one line under the     *)
(* sink's lock, and a peer that reads slowly is not modelled.              *)
(***************************************************************************)
EXTENDS Naturals, Sequences, SequencesExt

CONSTANTS
    MaxLines,       \* bound: lines each peer writes
    DaemonGarbage,  \* whether the daemon writes lines the shim refuses to read
    Breaks          \* whether a read may fail for good

ASSUME BridgeAssumption ==
    /\ MaxLines \in Nat
    /\ {DaemonGarbage, Breaks} \subseteq BOOLEAN

Dirs == {"c2u", "u2c"}
Back(p) == IF p = "c2u" THEN "u2c" ELSE "c2u"

\* A notice is whatever has no id to answer: a notification, or a response.
Kinds == {"request", "notice", "garbage"}

\* The ways in: whether there is a ShimTransform, and whether the client is the
\* process's own standard streams.
RunInner(transform, stdio) == [transform |-> transform, stdio |-> stdio]
Run(stdio)              == RunInner(FALSE, stdio)
RunStdio                == Run(TRUE)
RunWithTransform(stdio) == RunInner(TRUE, stdio)

VARIABLES
    proxy,      \* how the bridge was run
    source,     \* source[p]: the kinds of the lines p's peer has written
    eof,        \* eof[p]: that peer has closed its side
    got,        \* got[p]: how many of those lines pump has read
    pc,         \* pc[p]: where pump is
    sink,       \* sink[p]: the lines p's sink took, forwarded or answered
    closed,     \* closed[p]: close_write was called on p's sink
    gone,       \* gone[p]: nobody reads p's sink any more
    refused,    \* history: the client's lines whose transform failed
    broken      \* history: broken[p], a read failed for good

proxyVars == <<proxy, source, eof, got, pc, sink, closed, gone, refused, broken>>
peers == <<proxy, source, eof, gone>>

\* A line of direction `of`, on the sink of that direction when it was forwarded
\* and on the other one's when it was answered.
Line == [of : Dirs, n : 1 .. MaxLines]

ProxyTypeOK ==
    /\ source \in [Dirs -> Seq(Kinds)]
    /\ eof \in [Dirs -> BOOLEAN]
    /\ got \in [Dirs -> 0 .. MaxLines]
    /\ pc \in [Dirs -> {"read", "write", "answer", "ended", "done"}]
    /\ sink \in [Dirs -> Seq(Line)]
    /\ closed \in [Dirs -> BOOLEAN]
    /\ gone \in [Dirs -> BOOLEAN]
    /\ refused \subseteq 1 .. got["c2u"]
    /\ broken \in [Dirs -> BOOLEAN]
    /\ \A p \in Dirs : closed[p] => pc[p] = "done"

-----------------------------------------------------------------------------
(* pump *)

PumpAt(p, stage) == pc' = [pc EXCEPT ![p] = stage]

Writable(p) == ~closed[p] /\ ~gone[p]

\* Mutation: a request whose transform failed is dropped like anything else.
Verdict_Silent(kind, fails) ==
    IF kind = "garbage" THEN "answer" ELSE IF fails THEN "read" ELSE "write"

\* Mutation: one malformed line ends the pump.
Verdict_TearsDown(kind, fails) ==
    CASE kind = "garbage" -> "ended"
      [] kind = "request" /\ fails -> "answer"
      [] kind = "notice" /\ fails -> "read"
      [] OTHER -> "write"

\* What becomes of a line: transform::apply, and the answer to an unreadable one.
Verdict(kind, fails) ==
    CASE kind = "garbage" -> "answer"
      [] kind = "request" /\ fails -> "answer"
      [] kind = "notice" /\ fails -> "read"
      [] OTHER -> "write"

\* reader.read() and, for the client's messages, the transform: it may return an
\* error or panic, and it never sees a line that is not a message.
Read(p) ==
    /\ pc[p] = "read"
    /\ got[p] < Len(source[p])
    /\ got' = [got EXCEPT ![p] = @ + 1]
    /\ LET n == got[p] + 1
           kind == source[p][n] IN
       \E fails \in BOOLEAN :
          /\ fails => proxy.transform /\ p = "c2u" /\ kind # "garbage"
          /\ PumpAt(p, Verdict(kind, fails))
          /\ refused' = IF fails THEN refused \cup {n} ELSE refused
    /\ UNCHANGED <<peers, sink, closed, broken>>

\* Mutation: the pump ends with whichever side hangs up first.
ReadCloses_EitherSide(p) ==
    /\ pc[p] = "read"
    /\ got[p] = Len(source[p])
    /\ eof[p] \/ eof[Back(p)]
    /\ PumpAt(p, "ended")
    /\ UNCHANGED <<peers, got, sink, closed, refused, broken>>

\* TransportClosed.
ReadCloses(p) ==
    /\ pc[p] = "read"
    /\ got[p] = Len(source[p])
    /\ eof[p]
    /\ PumpAt(p, "ended")
    /\ UNCHANGED <<peers, got, sink, closed, refused, broken>>

\* The connection is lost with what was still in it.
ReadFails(p) ==
    /\ Breaks
    /\ pc[p] = "read"
    /\ PumpAt(p, "ended")
    /\ broken' = [broken EXCEPT ![p] = TRUE]
    /\ UNCHANGED <<peers, got, sink, closed, refused>>

\* Put the line in hand on sink s, or give up.
Put(p, s) ==
    /\ \/ /\ Writable(s)
          /\ sink' = [sink EXCEPT ![s] = Append(@, [of |-> p, n |-> got[p]])]
          /\ PumpAt(p, "read")
       \/ /\ ~Writable(s)
          /\ PumpAt(p, "ended")
          /\ UNCHANGED sink
    /\ UNCHANGED <<peers, got, closed, refused, broken>>

Forward(p) == pc[p] = "write" /\ Put(p, p)
Answer(p)  == pc[p] = "answer" /\ Put(p, Back(p))

\* Mutation: the daemon is not told that the client hung up.
CloseWrite_Forgotten(p) ==
    /\ pc[p] = "ended"
    /\ PumpAt(p, "done")
    /\ UNCHANGED <<closed, peers, got, sink, refused, broken>>

\* Mutation: run joins both threads.
CloseWrite_JoinsBoth(p) ==
    /\ pc[p] = "ended"
    /\ p = "u2c" => pc["c2u"] = "done"
    /\ PumpAt(p, "done")
    /\ closed' = [closed EXCEPT ![p] = ~(proxy.stdio /\ p = "u2c")]
    /\ UNCHANGED <<peers, got, sink, refused, broken>>

\* run_inner, after either pump: a half-close of the sink it wrote to, which
\* stdout cannot do.  For "u2c", run returns.
CloseWrite(p) ==
    /\ pc[p] = "ended"
    /\ PumpAt(p, "done")
    /\ closed' = [closed EXCEPT ![p] = ~(proxy.stdio /\ p = "u2c")]
    /\ UNCHANGED <<peers, got, sink, refused, broken>>

-----------------------------------------------------------------------------
(* The peers *)

unpumped == <<proxy, got, pc, sink, closed, refused, broken>>

PeerWrites(p, kind) ==
    /\ ~eof[p]
    /\ Len(source[p]) < MaxLines
    /\ p = "u2c" /\ kind = "garbage" => DaemonGarbage
    /\ source' = [source EXCEPT ![p] = Append(@, kind)]
    /\ UNCHANGED <<unpumped, eof, gone>>

\* The client closes its standard input, and may go on reading ...
ClientHangsUp ==
    /\ ~eof["c2u"]
    /\ eof' = [eof EXCEPT !["c2u"] = TRUE]
    /\ UNCHANGED <<unpumped, source, gone>>

\* ... or stop.
ClientStopsReading ==
    /\ ~gone["u2c"]
    /\ gone' = [gone EXCEPT !["u2c"] = TRUE]
    /\ UNCHANGED <<unpumped, source, eof>>

\* The daemon's end of the connection is closed both ways.
DaemonCloses ==
    /\ ~eof["u2c"]
    /\ eof' = [eof EXCEPT !["u2c"] = TRUE]
    /\ gone' = [gone EXCEPT !["c2u"] = TRUE]
    /\ UNCHANGED <<unpumped, source>>

\* Having read the end of the stream, it says what it still has to say and closes.
DaemonFinishes == closed["c2u"] /\ DaemonCloses

\* It may also stop or die at any time.
DaemonVanishes == ~closed["c2u"] /\ DaemonCloses

-----------------------------------------------------------------------------
ProxyInit ==
    /\ proxy \in {Run(FALSE), RunStdio, RunWithTransform(TRUE)}
    /\ source = [p \in Dirs |-> <<>>]
    /\ got = [p \in Dirs |-> 0]
    /\ pc = [p \in Dirs |-> "read"]
    /\ sink = [p \in Dirs |-> <<>>]
    /\ eof = [p \in Dirs |-> FALSE]
    /\ closed = [p \in Dirs |-> FALSE]
    /\ gone = [p \in Dirs |-> FALSE]
    /\ broken = [p \in Dirs |-> FALSE]
    /\ refused = {}

Pump(p) == Read(p) \/ ReadCloses(p) \/ Forward(p) \/ Answer(p) \/ CloseWrite(p)

ProxyNext ==
    \/ \E p \in Dirs : Pump(p) \/ ReadFails(p) \/ \E kind \in Kinds : PeerWrites(p, kind)
    \/ ClientHangsUp \/ ClientStopsReading
    \/ DaemonFinishes \/ DaemonVanishes

ProxySpec == ProxyInit /\ [][ProxyNext]_proxyVars

\* Both threads run, and Server::start returns once it reads the end of the
\* stream.  Nobody need write, hang up or stop reading.
ProxyFairSpec ==
    /\ ProxySpec
    /\ \A p \in Dirs : WF_proxyVars(Pump(p))
    /\ WF_proxyVars(DaemonFinishes)

-----------------------------------------------------------------------------
(* Properties *)

\* Of direction p's lines, sink s has taken those of these numbers, each once and
\* in the order they came.
Holds(s, p, numbers) ==
    LET at == {i \in DOMAIN sink[s] : sink[s][i].of = p} IN
    /\ {sink[s][i].n : i \in at} = numbers
    /\ \A i, j \in at : i < j => sink[s][i].n < sink[s][j].n

RefusedLine(p, n)  == p = "c2u" /\ n \in refused
Welcome(p, k)  == {n \in 1 .. k : source[p][n] # "garbage" /\ ~RefusedLine(p, n)}
Rejected(p, k) == {n \in 1 .. k : source[p][n] = "garbage" \/ (source[p][n] = "request" /\ RefusedLine(p, n))}

\* The proxy is a queue.  A message reaches the other side exactly once and in
\* the order it was read; a line that cannot be read, and a request the transform
\* failed on, is answered exactly once instead and never forwarded; what has no
\* answer is dropped.  Only the line in hand when a connection was lost may be
\* missing.
Faithful ==
    \A p \in Dirs :
        \E k \in IF pc[p] = "read" \/ got[p] = 0 THEN {got[p]} ELSE {got[p] - 1, got[p]} :
            Holds(p, p, Welcome(p, k)) /\ Holds(Back(p), p, Rejected(p, k))

\* "Teardown is reserved for the connection actually failing": the daemon is told
\* the client has hung up only once everything the client said has been dealt
\* with, unless one of the connections is lost.
EofIsHonest ==
    closed["c2u"] =>
        \/ eof["c2u"] /\ got["c2u"] = Len(source["c2u"])
        \/ \E p \in Dirs : gone[p] \/ closed["u2c"] \/ broken[p]

\* run returns "once the upstream connection is fully drained and closed": while
\* the client reads and the connection holds, what the daemon still flushes after
\* the client hung up reaches the client.
AlwaysDrained ==
    pc["u2c"] = "done" /\ ~gone["u2c"] /\ ~broken["u2c"] =>
        eof["u2c"] /\ got["u2c"] = Len(source["u2c"])

\* The same, as long as the shim can read every line the daemon flushes.
FullyDrained == ~Contains(source["u2c"], "garbage") => AlwaysDrained

\* A half-close is clean: the client's end of stream is passed on after all it
\* said, and what the daemon says until it closes is still relayed.
CleanEnd == EofIsHonest /\ FullyDrained

\* When the client hangs up, run returns.
HangUpEnds == eof["c2u"] ~> pc["u2c"] = "done"

\* When the daemon vanishes, run returns, though the client is still talking.
VanishingEnds == eof["u2c"] ~> pc["u2c"] = "done"

\* run returns, whichever side goes first.
RunReturns == HangUpEnds /\ VanishingEnds
=============================================================================
