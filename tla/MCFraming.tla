----------------------------- MODULE MCFraming -----------------------------
(* Small conversations for Framing: lines under, at and over the ceilings,  *)
(* blank ones, ones that are not UTF-8 or not messages, each followed by    *)
(* another; and a quiet peer two threads write to.                          *)
EXTENDS Framing

AllTransports == Transports

Line(end, text) == [end |-> end, text |-> text]
Heard(lines) == [lines |-> lines, todo |-> [w \in Writers |-> 0]]

SmallConversations ==
    {Heard(<<Line(a, "message"), Line(a + b, "message")>>) : a \in 1..4, b \in {1, 3}}
        \cup {Heard(<<Line(4, "message"), Line(6, t), Line(8, "message")>>) :
                t \in {"garbage", "latin"}}
        \cup {[lines |-> <<Line(1, "garbage")>>, todo |-> [w \in Writers |-> 2]]}
============================================================================
