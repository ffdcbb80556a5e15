------------------------------ MODULE Framing ------------------------------
(***************************************************************************)
(* The line transports: newline-delimited JSON-RPC over a socket, over the *)
(* process's standard streams, or over a stream somebody else opened       *)
(* (src/src/transport/line.rs, socket_stream.rs, unix.rs, tcp.rs, stdio.rs,*)
(* stream.rs and the Transport trait of mod.rs).                           *)
(*                                                                         *)
(* A peer sends the lines of a script; byte positions stand for the bytes. *)
(* One thread reads messages under an optional deadline, others write to   *)
(* the same connection.  The peer sends, stalls, or hangs up at any byte,  *)
(* and one read of the source returns any part of what has arrived.        *)
(***************************************************************************)
EXTENDS Integers, Sequences

\* What tells one transport from another: whether a read can be given a
\* deadline, whether poll enforces it, whether close can shut a direction down,
\* and whether a second write handle can be had.
Transport       == [timed |-> FALSE, polls |-> FALSE, shuts |-> FALSE, clones |-> FALSE]
SocketTransport == [Transport EXCEPT !.timed = TRUE, !.shuts = TRUE, !.clones = TRUE]
UnixTransport   == SocketTransport
TcpTransport    == SocketTransport
StdioTransport  == [Transport EXCEPT !.timed = TRUE, !.polls = TRUE, !.clones = TRUE]
StreamTransport == Transport
Boxed(t) == t
Transports      == {UnixTransport, TcpTransport, StdioTransport, StreamTransport}

CONSTANTS
    Sources,    \* what the transport sits on: a subset of Transports
    Conversations, \* [lines, todo]: the lines a peer may send, as [end, text] with
                \* the position of the newline, and how many messages each
                \* writer has to send meanwhile
    Limits,     \* ceilings a caller may ask for, in bytes
    BufSize,    \* the reader's buffer, in bytes
    Writers     \* threads that write messages

\* What the constants are.
ASSUME FramingAssumption ==
    /\ Sources \subseteq Transports
    /\ BufSize \in Nat \ {0}
    /\ Limits \subseteq Nat /\ Limits # {}
    /\ \A c \in Conversations :
         /\ c.todo \in [Writers -> Nat]
         /\ c.lines \in Seq([end : Nat \ {0}, text : {"message", "garbage", "latin"}])
         /\ \A i, j \in DOMAIN c.lines : i < j => c.lines[i].end < c.lines[j].end

VARIABLES
    transport,  \* what the line transport sits on, of Sources
    script,     \* the lines the peer will send
    sent,       \* bytes that have arrived at this end
    hungUp,     \* nothing more arrives: the peer closed its side, or close this one
    filled,     \* bytes read from the source into the buffer
    consumed,   \* bytes taken from the buffer
    partial,    \* positions of the bytes kept of the unfinished line
    overflowed, \* the current line blew the ceiling
    maxBytes,   \* the ceiling
    under,      \* the ceilings the parts of the current line were held to (history)
    timeout,    \* read_timeout is set
    armed,      \* a deadline is applied to the source
    reader,     \* where read_message is: see ReaderStates
    due,        \* the deadline of this read has passed
    results,    \* what was returned for each line, in order (history)
    writing,    \* per writer: idle, or the part of its message to send next
    writeOpen,  \* the write direction is open
    written,    \* what was written: [who, end], end for the newline
    todo        \* messages each writer has still to send

\* idle: not called.  top: at the head of the loop.  waiting: in the source's
\* read.  stuck: in a read of stdin that no deadline bounds.  over: closed.
ReaderStates == {"idle", "top", "waiting", "stuck", "over"}

peerVars == <<transport, script, sent, hungUp>>
lineVars == <<filled, consumed, partial, overflowed, under, results>>
callVars == <<armed, reader, due>>
setVars == <<maxBytes, timeout>>
writeVars == <<writing, writeOpen, written, todo>>
framingVars == <<peerVars, lineVars, callVars, setVars, writeVars>>

----------------------------------------------------------------------------
(* The script's lines as byte positions; the last byte is the newline.      *)

Begin(i)   == IF i = 1 THEN 0 ELSE script[i - 1].end
Size(i)    == script[i].end - Begin(i)
BytesOf(i) == [k \in 1..Size(i) |-> Begin(i) + k]
Ends       == {script[i].end : i \in DOMAIN script}

\* The newlines among the bytes in the buffer, and the first if there is one.
Newlines     == Ends \cap (consumed + 1)..filled
FirstNewline == CHOOSE end \in Newlines : \A e \in Newlines : end <= e

----------------------------------------------------------------------------
\* A zero ceiling would refuse every message.
Clamped(max) == IF max < 1 THEN 1 ELSE max

\* set_read_timeout: a stream this crate did not open cannot take a deadline.
Timed == timeout /\ transport.timed

\* The type invariant.
FramingTypeOK ==
    /\ transport \in Sources /\ \E c \in Conversations : script = c.lines
    /\ consumed <= filled /\ filled <= sent /\ filled - consumed <= BufSize
    /\ maxBytes \in {Clamped(n) : n \in Limits}
    /\ overflowed \in BOOLEAN /\ armed \in BOOLEAN /\ due \in BOOLEAN
    /\ reader \in ReaderStates
    /\ writing \in [Writers -> {"idle", "payload", "newline"}]

FramingInit ==
    /\ transport \in Sources /\ sent = 0 /\ hungUp = FALSE
    /\ \E c \in Conversations : script = c.lines /\ todo = c.todo
    /\ filled = 0 /\ consumed = 0 /\ partial = <<>> /\ overflowed = FALSE
    /\ results = <<>>
    /\ armed = FALSE /\ reader = "idle" /\ due = FALSE
    /\ under = <<>> /\ timeout = FALSE /\ \E max \in Limits : maxBytes = Clamped(max)
    /\ writing = [w \in Writers |-> "idle"] /\ writeOpen = TRUE /\ written = <<>>

----------------------------------------------------------------------------
(* The peer.                                                                *)

PeerSends ==
    /\ ~hungUp /\ \E end \in Ends : sent < end
    /\ sent' = sent + 1
    /\ UNCHANGED <<transport, script, hungUp, lineVars, callVars, setVars, writeVars>>

PeerHangsUp ==
    /\ ~hungUp
    /\ hungUp' = TRUE
    /\ UNCHANGED <<transport, script, sent, lineVars, callVars, setVars, writeVars>>

----------------------------------------------------------------------------
(* Reading.                                                                 *)

SetReadTimeout ==
    /\ reader = "idle"
    /\ timeout' = ~timeout
    /\ UNCHANGED <<peerVars, lineVars, callVars, maxBytes, writeVars>>

SetMaxMessageBytes(max) ==
    /\ reader = "idle" /\ maxBytes # Clamped(max)
    /\ maxBytes' = Clamped(max)
    /\ UNCHANGED <<peerVars, lineVars, callVars, timeout, writeVars>>

\* try_clone_writer: writers with a handle of their own and the reader do not
\* wait for each other; without one they share the transport and its lock.
TryCloneWriter == Boxed(transport).clones

ReadMessage ==
    /\ reader = "idle"
    /\ TryCloneWriter \/ \A w \in Writers : writing[w] = "idle"
    /\ reader' = "top" /\ due' = FALSE
    /\ UNCHANGED <<peerVars, lineVars, armed, setVars, writeVars>>

DeadlinePasses ==
    /\ reader \in {"top", "waiting", "stuck"} /\ Timed /\ ~due
    /\ due' = TRUE
    /\ UNCHANGED <<peerVars, lineVars, armed, reader, setVars, writeVars>>

\* Every pass starts with the budget that is left, then arms the source.
LoopExpires ==
    /\ reader = "top" /\ Timed /\ due
    /\ reader' = "idle"
    /\ UNCHANGED <<peerVars, lineVars, armed, due, setVars, writeVars>>

Arm_Never == armed' = FALSE
Arm == armed' = Timed

LoopArms ==
    /\ reader = "top" /\ ~(Timed /\ due)
    /\ Arm
    /\ reader' = "waiting"
    /\ UNCHANGED <<peerVars, lineVars, due, setVars, writeVars>>

\* Setting a deadline on a socket whose peer closed fails on some platforms.
ArmFails ==
    /\ reader = "top" /\ Timed /\ ~due /\ transport.shuts /\ hungUp
    /\ reader' = "idle"
    /\ UNCHANGED <<peerVars, lineVars, armed, due, setVars, writeVars>>

\* fill_buf reads the source only when the buffer is empty, and gets any part
\* of what has arrived.
FillBuf ==
    /\ reader \in {"waiting", "stuck"} /\ filled = consumed
    /\ \E n \in 1..BufSize : filled + n <= sent /\ filled' = filled + n
    /\ reader' = "waiting"
    /\ UNCHANGED <<peerVars, consumed, partial, overflowed, under, results, armed, due,
                   setVars, writeVars>>

\* The armed source gives up.
SourceExpires ==
    /\ reader = "waiting" /\ filled = consumed /\ armed /\ due
    /\ reader' = "idle"
    /\ UNCHANGED <<peerVars, lineVars, armed, due, setVars, writeVars>>

\* A signal.  A read that was interrupted is retried from the head of the loop.
ReadInterrupted ==
    /\ reader = "waiting" /\ filled = consumed
    /\ ~(transport.polls /\ armed)
    /\ reader' = "top"
    /\ UNCHANGED <<peerVars, lineVars, armed, due, setVars, writeVars>>

\* poll_readable calls an interrupted poll readable, and Stdin::read goes on
\* to a read that blocks until the peer does something.
PollInterrupted ==
    /\ reader = "waiting" /\ filled = consumed
    /\ transport.polls /\ armed
    /\ reader' = "stuck"
    /\ UNCHANGED <<peerVars, lineVars, armed, due, setVars, writeVars>>

\* End of stream, or a reset that loses what had not been read.
Disconnected ==
    /\ reader \in {"waiting", "stuck"} /\ filled = consumed /\ hungUp
    /\ sent > filled => transport.shuts
    /\ reader' = "over"
    /\ UNCHANGED <<peerVars, lineVars, armed, due, setVars, writeVars>>

\* What a finished line is: too long, not UTF-8, not a message, or a message.
Finished(bytes, over) ==
    LET whole == {i \in DOMAIN script : bytes = BytesOf(i)}
    IN  IF over THEN "too long"
        ELSE IF whole = {} THEN "garbage"
        ELSE script[CHOOSE i \in whole : TRUE].text

Fits(bytes, chunk) == Len(bytes) + Len(chunk) <= maxBytes

\* The ceilings this line has met, the present one included (history).
HeldTo == IF under # <<>> /\ under[Len(under)] = maxBytes THEN under ELSE Append(under, maxBytes)

\* The chunk up to and including the first newline, or all of the buffer.
TakeChunk_KeepsFlag ==
    /\ reader = "waiting" /\ filled > consumed
    /\ LET ends  == Newlines # {}
           upto  == IF ends THEN FirstNewline ELSE filled
           chunk == [k \in 1..(upto - consumed) |-> consumed + k]
           over  == overflowed \/ ~Fits(partial, chunk)
           kept  == IF over THEN <<>> ELSE partial \o chunk
       IN  /\ consumed' = upto
           /\ partial' = IF ends THEN <<>> ELSE kept
           /\ overflowed' = over
           /\ under' = IF ends THEN <<>> ELSE HeldTo
           /\ results' = IF ends THEN Append(results, [what |-> Finished(kept, over), under |-> HeldTo])
                         ELSE results
           /\ reader' = IF ends THEN "idle" ELSE "top"
    /\ UNCHANGED <<peerVars, filled, armed, due, maxBytes, timeout, writeVars>>

TakeChunk ==
    /\ reader = "waiting" /\ filled > consumed
    /\ LET ends  == Newlines # {}
           upto  == IF ends THEN FirstNewline ELSE filled
           chunk == [k \in 1..(upto - consumed) |-> consumed + k]
           over  == overflowed \/ ~Fits(partial, chunk)
           kept  == IF over THEN <<>> ELSE partial \o chunk
       IN  /\ consumed' = upto
           /\ partial' = IF ends THEN <<>> ELSE kept
           /\ overflowed' = (over /\ ~ends)
           /\ under' = IF ends THEN <<>> ELSE HeldTo
           /\ results' = IF ends THEN Append(results, [what |-> Finished(kept, over), under |-> HeldTo])
                         ELSE results
           /\ reader' = IF ends THEN "idle" ELSE "top"
    /\ UNCHANGED <<peerVars, filled, armed, due, maxBytes, timeout, writeVars>>

----------------------------------------------------------------------------
(* Writing.  A message is several writes - the serializer's, then the       *)
(* newline - to a handle the writers share under a lock: stdout's own, or   *)
(* the mutex the server keeps the write handle in.                          *)

LockWriter_Unlocked(w) ==
    /\ writing[w] = "idle" /\ todo[w] > 0
    /\ writing' = [writing EXCEPT ![w] = "payload"]
    /\ todo' = [todo EXCEPT ![w] = @ - 1]
    /\ UNCHANGED <<peerVars, lineVars, callVars, setVars, writeOpen, written>>

LockWriter(w) ==
    /\ \A v \in Writers : writing[v] = "idle"
    /\ todo[w] > 0 /\ (TryCloneWriter \/ reader \in {"idle", "over"})
    /\ writing' = [writing EXCEPT ![w] = "payload"]
    /\ todo' = [todo EXCEPT ![w] = @ - 1]
    /\ UNCHANGED <<peerVars, lineVars, callVars, setVars, writeOpen, written>>

Write(w) ==
    /\ writing[w] # "idle" /\ writeOpen
    /\ written' = Append(written, [who |-> w, end |-> writing[w] = "newline"])
    /\ writing' = [writing EXCEPT ![w] = IF @ = "payload" THEN "newline" ELSE "idle"]
    /\ UNCHANGED <<peerVars, lineVars, callVars, setVars, writeOpen, todo>>

\* The error is returned at once, whatever part of the message is out.
WriteFails(w) ==
    /\ writing[w] # "idle" /\ (~writeOpen \/ hungUp)
    /\ writing' = [writing EXCEPT ![w] = "idle"]
    /\ writeOpen' = FALSE
    /\ UNCHANGED <<peerVars, lineVars, callVars, setVars, written, todo>>

\* close shuts a socket down in both directions, close_write in one; the other
\* transports only flush.
Close ==
    /\ transport.shuts /\ ~(hungUp /\ ~writeOpen)
    /\ writeOpen' = FALSE /\ hungUp' = TRUE
    /\ UNCHANGED <<transport, script, sent, lineVars, callVars, setVars, writing, written, todo>>

CloseWriteHalf ==
    /\ writeOpen /\ transport.shuts
    /\ writeOpen' = FALSE
    /\ UNCHANGED <<peerVars, lineVars, callVars, setVars, writing, written, todo>>

----------------------------------------------------------------------------
Reading ==
    \/ ReadMessage \/ DeadlinePasses \/ LoopExpires \/ LoopArms \/ ArmFails
    \/ FillBuf \/ SourceExpires \/ ReadInterrupted \/ PollInterrupted
    \/ Disconnected \/ TakeChunk

FramingNext ==
    \/ PeerSends \/ PeerHangsUp \/ SetReadTimeout \/ Reading \/ Close \/ CloseWriteHalf
    \/ \E max \in Limits : SetMaxMessageBytes(max)
    \/ \E w \in Writers : LockWriter(w) \/ Write(w) \/ WriteFails(w)

\* Time passes, and a thread that can run does.  Nothing is asked of the peer,
\* of signals, or of who calls the transport.
FramingFairness ==
    /\ WF_framingVars(DeadlinePasses) /\ WF_framingVars(LoopExpires) /\ WF_framingVars(LoopArms)
    /\ WF_framingVars(SourceExpires) /\ WF_framingVars(TakeChunk)

FramingSpec == FramingInit /\ [][FramingNext]_framingVars /\ FramingFairness

----------------------------------------------------------------------------
(* Properties.                                                              *)

ReadAs(i, ceiling) == IF Size(i) > ceiling THEN "too long" ELSE script[i].text

\* The first byte of the line the reader is in.
Begun == Begin(Len(results) + 1)

\* The reader is inside the line after the last one it returned.
InLine ==
    /\ Len(results) <= Len(script) /\ Begun <= consumed
    /\ Len(results) < Len(script) => consumed < script[Len(results) + 1].end

\* Each line was judged by a ceiling it was read under.
Judged ==
    \A i \in DOMAIN results :
        \E k \in DOMAIN results[i].under : results[i].what = ReadAs(i, results[i].under[k])

\* What is kept of the unfinished line is all of it, or nothing.
KeptWhole ==
    partial = IF overflowed THEN <<>> ELSE [k \in 1..(consumed - Begun) |-> Begun + k]

\* However the bytes arrive, and wherever deadlines expire, the reads return
\* one result per line, in order: the line itself if it fits, its refusal if
\* it does not; and what is kept of the unfinished line is all of it or, once
\* it overflowed, nothing.  A line during which the ceiling was changed is
\* judged by one of those it was read under.
Framed == InLine /\ Judged /\ KeptWhole

\* A line already begun when the ceiling changes keeps the ceiling it started
\* with: the comment on set_limit.
BudgetKept ==
    \A i \in DOMAIN results : results[i].what = ReadAs(i, results[i].under[1])

\* What reaches the peer is whole messages, except that a connection that
\* breaks may cut the last one short: two threads' messages never mix.
WholeLines ==
    \A i \in DOMAIN written :
        IF written[i].end THEN i > 1 /\ written[i - 1] = [who |-> written[i].who, end |-> FALSE]
        ELSE i < Len(written) => written[i + 1] = [who |-> written[i].who, end |-> TRUE]

\* A read under a deadline returns, whatever the peer does or does not send,
\* unless a signal moved a read of stdin past its poll.
TimedReadEnds ==
    (reader \in {"top", "waiting"} /\ Timed) ~> (reader \in {"idle", "stuck", "over"})

\* A read under a deadline returns: the comment on poll_readable.
DeadlineHonoured ==
    (reader \in {"top", "waiting", "stuck"} /\ Timed) ~> (reader \in {"idle", "over"})

============================================================================
