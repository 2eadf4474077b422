-------------------------- MODULE MCWebSocketsFrame --------------------------
(* WebSocketsFrame on small instances: every form of a length and the limits *)
(* between them, messages in fragments, masked frames and control frames.    *)
EXTENDS WebSocketsFrame

Key == <<1, 0, 1, 1>>
MCKeys == {Key}

Frame(op, len, fin, mask) ==
    [op |-> op, len |-> len, fin |-> fin, mask |-> mask, key |-> IF mask THEN Key ELSE NoKey]

MCIncoming ==
    {Frame("binary", n, TRUE, FALSE) : n \in {2, 7, 8}}
    \cup {Frame("text", 3, FALSE, FALSE), Frame("continuation", 0, TRUE, FALSE),
          Frame("text", 3, TRUE, TRUE), Frame("ping", 2, TRUE, FALSE),
          Frame("close", 2, TRUE, FALSE), Frame("unknown", 0, TRUE, FALSE)}

MCOutgoing ==
    {[op |-> "text", len |-> n, toPayload |-> n = 3] : n \in {0, 2, 3, 7, 8, 9}}
    \cup {[op |-> "ping", len |-> 2, toPayload |-> FALSE]}
=============================================================================
