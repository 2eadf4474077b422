-------------------------- MODULE WebSocketsFrame --------------------------
(***************************************************************************)
(* The frames of one connected WSclient_t (WebSockets.cpp): sendFrame puts *)
(* them on the connection, handleWebsocketCb takes them off it, as the     *)
(* bytes arrive.  Reading and writing block the one task of the client;    *)
(* meanwhile the server may send and the connection may be lost.           *)
(*                                                                         *)
(* The numbers are scaled.  The 7-bit length field holds a length below    *)
(* Esc, or Esc (126) or Esc + 1 (127) where two or eight bytes follow; a   *)
(* byte of a length is a digit of base Base (256), so that Base^2 - 1 is   *)
(* 0xFFFF; MaxData is WEBSOCKETS_MAX_DATA_SIZE.  The two first bytes of a  *)
(* header are records of their fields, and the other bytes of a frame are  *)
(* bits, which a mask key changes as XOR does.                             *)
(***************************************************************************)
EXTENDS Integers, Sequences, FiniteSets

CONSTANTS Esc, Base, MaxData,
          Incoming,     \* frames of the server: records [op, len, fin, mask, key]
          Outgoing,     \* what the application sends: records [op, len, toPayload]
          Keys,         \* mask keys: sequences of four bits
          BigHeap,      \* what "GET_FREE_HEAP > 6000" and malloc say: a set of booleans
          MaxFrames,    \* bound on the frames of a connection, in both directions, that
                        \* the server and the application cause
          MaxTrouble    \* bound on short writes and lost connections

VARIABLES
    tcp,        \* "up", "lost" (connected() is false) or "NULL"
    inbox,      \* bytes that were sent to the client and not read
    header,     \* cWsHeader: the bytes of the header read so far (cWsRXsize of them)
    payload,    \* the bytes of the payload read so far
    block,      \* whether there is a malloc for the payload
    want,       \* bytes the readCb under way still waits for; 0: none
    into,       \* what readCb reads: "header" or "payload"
    wire,       \* bytes the client has written
    trouble,    \* how much may still go wrong
    sent,       \* history: the frames the server sent
    delivered,  \* history: the messages the application was told of
    said,       \* history: the frames sendFrame returned true for
    failed      \* history: sendFrame returned false

link == <<tcp, inbox>>
reading == <<header, payload, block, want, into>>
writing == <<wire, said, failed>>
vars == <<link, reading, writing, trouble, sent, delivered>>

Control == {"ping", "pong", "close"}
Opcodes == {"text", "binary", "continuation", "unknown"} \cup Control
NoKey == <<0, 0, 0, 0>>

\* A payload of n bytes; its contents are those bits.
Content(n) == [i \in 1..n |-> IF i % 3 = 1 THEN 1 ELSE 0]
\* XOR of the bits with the key.
Masked(bits, key) == [i \in DOMAIN bits |-> (bits[i] + key[((i - 1) % 4) + 1]) % 2]

\* n shifted to the right by i digits.
Shifted(n, i) ==
    LET After[j \in 0..i] == IF j = 0 THEN n ELSE After[j - 1] \div Base
    IN  After[i]
Digit(n, i) == Shifted(n, i) % Base
\* The n digits of a length, the highest first, and the number they make.
Bytes(length, n) == [i \in 1..n |-> Digit(length, n - i)]
Number(bytes) ==
    LET Of[i \in 0..Len(bytes)] == IF i = 0 THEN 0 ELSE Of[i - 1] * Base + bytes[i]
    IN  Of[Len(bytes)]

\* A length has eight digits in a frame; those of the client and MaxData are
\* numbers of size_t, which has four.
ASSUME FrameAssumption ==
    /\ Esc \in Nat /\ Base \in Nat \ {0, 1} /\ Esc < Base * Base
    /\ MaxData \in Nat /\ Shifted(MaxData, 4) = 0
    /\ Keys \subseteq [1..4 -> 0..1] /\ BigHeap \subseteq BOOLEAN
    /\ Incoming \subseteq [op : Opcodes, len : Nat, fin : BOOLEAN, mask : BOOLEAN, key : [1..4 -> 0..1]]
    /\ \A f \in Incoming : Shifted(f.len, 8) = 0
    /\ Outgoing \subseteq [op : {"text", "binary", "ping"}, len : Nat, toPayload : BOOLEAN]
    /\ \A m \in Outgoing : Shifted(m.len, 4) = 0
    /\ MaxFrames \in Nat /\ MaxTrouble \in Nat

---------------------------------------------------------------------------
\* RFC 6455, 5.2: the header of a frame and how a stream of frames is read.
\* It is the server's side, written without a look at the code.

RfcLength(n) ==
    IF n < Esc THEN [field |-> n, more |-> <<>>]
    ELSE IF n < Base * Base THEN [field |-> Esc, more |-> Bytes(n, 2)]
    ELSE [field |-> Esc + 1, more |-> Bytes(n, 8)]
RfcEncode(f) ==
    <<[fin |-> f.fin, op |-> f.op], [mask |-> f.mask, len |-> RfcLength(f.len).field]>>
    \o RfcLength(f.len).more
    \o (IF f.mask THEN f.key \o Masked(Content(f.len), f.key) ELSE Content(f.len))

\* The frame at the start of bytes: where its key and its payload begin, and
\* the length of the payload.
RfcExtra(bytes) == IF bytes[2].len = Esc THEN 2 ELSE IF bytes[2].len = Esc + 1 THEN 8 ELSE 0
RfcStart(bytes) == 2 + RfcExtra(bytes) + (IF bytes[2].mask THEN 4 ELSE 0)
RfcSize(bytes) ==
    IF RfcExtra(bytes) = 0 THEN bytes[2].len ELSE Number(SubSeq(bytes, 3, 2 + RfcExtra(bytes)))
RfcComplete(bytes) ==
    /\ Len(bytes) >= 2 /\ Len(bytes) >= RfcStart(bytes)
    /\ Len(bytes) >= RfcStart(bytes) + RfcSize(bytes)
RfcFrame(bytes) ==
    LET start == RfcStart(bytes)
        key == IF bytes[2].mask THEN SubSeq(bytes, 3 + RfcExtra(bytes), start) ELSE NoKey
    IN  [fin |-> bytes[1].fin, op |-> bytes[1].op,
         data |-> Masked(SubSeq(bytes, start + 1, start + RfcSize(bytes)), key)]

\* The frames of a stream of bytes, up to the first that is not complete.
RfcNext(r) ==
    IF RfcComplete(r.left)
    THEN [left |-> SubSeq(r.left, RfcStart(r.left) + RfcSize(r.left) + 1, Len(r.left)),
          frames |-> Append(r.frames, RfcFrame(r.left))]
    ELSE r
RfcDecode(bytes) ==
    LET After[k \in 0..Len(bytes)] ==
            IF k = 0 THEN [left |-> bytes, frames |-> <<>>] ELSE RfcNext(After[k - 1])
    IN  After[Len(bytes)].frames

---------------------------------------------------------------------------
\* createHeader.

\* Slip: a length of Esc is taken for a short one.
HeaderSizeAtMost(length) ==
    (IF length <= Esc THEN 2 ELSE IF length < Base * Base - 1 THEN 4 ELSE 10) + 4

HeaderSize(length) ==
    (IF length < Esc THEN 2 ELSE IF length < Base * Base - 1 THEN 4 ELSE 10) + 4

CreateHeader(op, length, key, fin) ==
    <<[fin |-> fin, op |-> op]>>
    \o (IF length < Esc THEN <<[mask |-> TRUE, len |-> length]>>
        ELSE IF length < Base * Base - 1
        THEN <<[mask |-> TRUE, len |-> Esc]>> \o Bytes(length, 2)
        ELSE <<[mask |-> TRUE, len |-> Esc + 1], 0, 0, 0, 0>> \o Bytes(length, 4))
    \o key

Costs(n) == trouble >= n /\ trouble' = trouble - n

\* write: all of the bytes, or fewer when the connection is lost or takes no
\* more for WEBSOCKETS_TCP_TIMEOUT; nothing tells one place to stop from
\* another, so only two are kept.  writes are the calls of write() that one
\* sendFrame makes: each is tried whatever came of the one before.
Counts(writes) == {n \in [1..Len(writes) -> {0, 1} \cup {Len(writes[i]) : i \in 1..Len(writes)}] :
                      \A i \in 1..Len(writes) : n[i] \in {0, 1, Len(writes[i])}}
Whole(writes, n) == \A i \in 1..Len(writes) : n[i] = Len(writes[i])

\* The bytes that were written.
Written(writes, n) ==
    LET Upto[i \in 0..Len(writes)] ==
            IF i = 0 THEN <<>> ELSE Upto[i - 1] \o SubSeq(writes[i], 1, n[i])
    IN  Upto[Len(writes)]

\* The calls of write() of sendFrame, which writes as many bytes of the header
\* as it has computed: the frame in one buffer, masked, when
\* there is memory for it or when the caller left room for the header, else
\* the header and the payload with a key of zeros.
Writes(op, data, fin, toPayload, intern, key) ==
    LET k == IF intern THEN key ELSE NoKey
        h == SubSeq(CreateHeader(op, Len(data), k, fin), 1, HeaderSize(Len(data)))
    IN  CASE intern -> <<h \o Masked(data, key)>>
          [] toPayload /\ ~intern -> <<h \o data>>
          [] ~toPayload /\ ~intern -> IF data = <<>> THEN <<h>> ELSE <<h, data>>

\* sendFrame.  ok is what it returns.
SendFrame(op, data, fin, toPayload) ==
    \E big \in BigHeap, key \in Keys :
       LET intern == big /\ ~toPayload /\ Len(data) > 0
           writes == Writes(op, data, fin, toPayload, intern, key)
       IN  \E n \in Counts(writes) :
              /\ wire' = wire \o Written(writes, n)
              /\ IF Whole(writes, n)
                 THEN /\ said' = Append(said, [fin |-> fin, op |-> op, data |-> data])
                      /\ UNCHANGED <<failed, trouble>>
                 ELSE Costs(1) /\ failed' = TRUE /\ UNCHANGED said

NoFrame == UNCHANGED <<wire, said, failed, trouble>>
---------------------------------------------------------------------------
Quiet == want = 0 /\ header = <<>>
MoreFrames == Len(sent) + Len(said) < MaxFrames

Init ==
    /\ tcp = "up" /\ inbox = <<>>
    /\ header = <<>> /\ payload = <<>> /\ block = FALSE /\ want = 0 /\ into = "header"
    /\ wire = <<>> /\ trouble = MaxTrouble
    /\ sent = <<>> /\ delivered = <<>> /\ said = <<>> /\ failed = FALSE

\* The server sends a frame.  Servers do not mask, but masked frames are read.
ServerSends(f) ==
    /\ tcp = "up" /\ MoreFrames
    /\ inbox' = inbox \o RfcEncode(f)
    /\ sent' = Append(sent, [fin |-> f.fin, op |-> f.op, data |-> Content(f.len)])
    /\ UNCHANGED <<tcp, reading, writing, trouble, delivered>>

\* A frame of 2^32 bytes and more: only its header matters.
ServerSendsHuge ==
    /\ tcp = "up" /\ MoreFrames
    /\ inbox' = inbox \o <<[fin |-> TRUE, op |-> "binary"], [mask |-> FALSE, len |-> Esc + 1],
                           0, 0, 0, 1, 0, 0, 0, 1>>
    /\ sent' = Append(sent, [fin |-> TRUE, op |-> "huge", data |-> <<>>])
    /\ UNCHANGED <<tcp, reading, writing, trouble, delivered>>

ConnectionLost ==
    /\ tcp = "up" /\ Costs(1) /\ tcp' = "lost"
    /\ UNCHANGED <<inbox, reading, writing, sent, delivered>>

\* clientDisconnect(client, code): a close frame, then the socket is gone.
CloseData == Content(2)
ClientDisconnect ==
    /\ \/ tcp = "up" /\ SendFrame("close", CloseData, TRUE, FALSE)
       \/ tcp # "up" /\ NoFrame
    /\ tcp' = "NULL" /\ inbox' = <<>>
    /\ UNCHANGED sent

---------------------------------------------------------------------------
\* Receiving.

\* handleWebsocketCb: what it makes of the header bytes it has: how many it
\* waits for (handleWebsocketWaitFor), and, when it has them all, the length
\* of the payload.  TooBig stands for 0xFFFFFFFF.
LengthBytes(h) == IF h[2].len = Esc THEN 2 ELSE IF h[2].len = Esc + 1 THEN 8 ELSE 0
HeaderLen(h) ==
    IF Len(h) < 2 THEN 2
    ELSE 2 + LengthBytes(h)
         + (IF Len(h) >= 2 + LengthBytes(h) /\ h[2].mask THEN 4 ELSE 0)
TooBig == MaxData + 1
\* Slip: the low byte of a length of two bytes first.
PayloadLenLowFirst(h) ==
    CASE LengthBytes(h) = 0 -> h[2].len
      [] LengthBytes(h) = 2 -> Number(<<h[4], h[3]>>)
      [] LengthBytes(h) = 8 -> IF SubSeq(h, 3, 6) # <<0, 0, 0, 0>> THEN TooBig
                               ELSE Number(SubSeq(h, 7, 10))
PayloadLen(h) ==
    CASE LengthBytes(h) = 0 -> h[2].len
      [] LengthBytes(h) = 2 -> Number(SubSeq(h, 3, 4))
      [] LengthBytes(h) = 8 -> IF SubSeq(h, 3, 6) # <<0, 0, 0, 0>> THEN TooBig
                               ELSE Number(SubSeq(h, 7, 10))
LengthKnown(h) == Len(h) >= 2 /\ Len(h) >= 2 + LengthBytes(h)
Refused(h) == LengthKnown(h) /\ PayloadLen(h) > MaxData
MaskKey(h) == IF h[2].mask THEN SubSeq(h, 3 + LengthBytes(h), 6 + LengthBytes(h)) ELSE NoKey

\* handleWebsocket: a message has begun to arrive.
Begin ==
    /\ Quiet /\ tcp = "up" /\ inbox # <<>>
    /\ want' = 2 /\ into' = "header"
    /\ UNCHANGED <<link, header, payload, block, writing, trouble, sent, delivered>>

\* tcp->read returns a byte and readCb waits for more; a read that returns
\* several is as many of these steps.
ReadSome ==
    /\ want > 1 /\ tcp = "up" /\ inbox # <<>>
    /\ IF into = "header"
       THEN header' = Append(header, Head(inbox)) /\ UNCHANGED payload
       ELSE payload' = Append(payload, Head(inbox)) /\ UNCHANGED header
    /\ inbox' = Tail(inbox)
    /\ want' = want - 1
    /\ UNCHANGED <<tcp, block, into, writing, trouble, sent, delivered>>

\* The message is read: the switch of handleWebsocketPayloadCb.  A message
\* ends with its payload freed and cWsRXsize = 0.
Dispatch(h, raw, rest) ==
    LET data == Masked(raw, MaskKey(h))
        message == [fin |-> h[1].fin, op |-> h[1].op, data |-> data]
    IN  /\ \/ /\ h[1].op \in {"text", "binary", "continuation", "pong"}
              /\ delivered' = Append(delivered, message)
              /\ NoFrame /\ inbox' = rest /\ UNCHANGED <<tcp, sent>>
           \/ /\ h[1].op = "ping"
              /\ SendFrame("pong", data, TRUE, FALSE)
              /\ delivered' = Append(delivered, message)
              /\ inbox' = rest /\ UNCHANGED <<tcp, sent>>
           \/ /\ h[1].op \in {"close", "unknown"}
              /\ ClientDisconnect
              /\ UNCHANGED delivered
        /\ header' = <<>> /\ payload' = <<>> /\ block' = FALSE /\ want' = 0 /\ into' = "header"

\* The last bytes of a part of the header: handleWebsocketCb starts again
\* with what it has now.
HeaderRead ==
    /\ want > 0 /\ into = "header" /\ tcp = "up" /\ want <= Len(inbox)
    /\ LET h == header \o SubSeq(inbox, 1, want)
           rest == SubSeq(inbox, want + 1, Len(inbox))
       IN  \/ /\ Refused(h)
              /\ ClientDisconnect
              /\ want' = 0 /\ header' = h
              /\ UNCHANGED <<payload, block, into, delivered>>
           \/ /\ ~Refused(h) /\ Len(h) < HeaderLen(h)
              /\ header' = h /\ want' = HeaderLen(h) - Len(h) /\ inbox' = rest
              /\ UNCHANGED <<tcp, payload, block, into, writing, trouble, sent, delivered>>
           \/ /\ ~Refused(h) /\ Len(h) = HeaderLen(h) /\ PayloadLen(h) = 0
              /\ Dispatch(h, <<>>, rest)
           \/ /\ ~Refused(h) /\ Len(h) = HeaderLen(h) /\ PayloadLen(h) > 0
              /\ header' = h /\ block' = TRUE /\ inbox' = rest
              /\ want' = PayloadLen(h) /\ into' = "payload"
              /\ UNCHANGED <<tcp, payload, writing, trouble, sent, delivered>>

\* malloc failed: 1011.
NoMemory ==
    /\ want > 0 /\ into = "header" /\ tcp = "up" /\ want <= Len(inbox)
    /\ LET h == header \o SubSeq(inbox, 1, want)
       IN  /\ ~Refused(h) /\ Len(h) = HeaderLen(h) /\ PayloadLen(h) > 0
           /\ ClientDisconnect
           /\ want' = 0 /\ header' = h
           /\ UNCHANGED <<payload, block, into, delivered>>

PayloadRead ==
    /\ want > 0 /\ into = "payload" /\ tcp = "up" /\ want <= Len(inbox)
    /\ Dispatch(header, payload \o SubSeq(inbox, 1, want), SubSeq(inbox, want + 1, Len(inbox)))

\* Slip: the payload is not freed.
ReadFailsKeeps ==
    /\ want > 0
    /\ ClientDisconnect
    /\ want' = 0
    /\ header' = IF into = "header" THEN <<>> ELSE header
    /\ UNCHANGED <<payload, block, into, delivered>>

\* readCb gives up: the connection is gone, or no byte came in time.
ReadFails ==
    /\ want > 0
    /\ ClientDisconnect
    /\ want' = 0 /\ block' = FALSE
    /\ header' = IF into = "header" THEN <<>> ELSE header
    /\ UNCHANGED <<payload, into, delivered>>

---------------------------------------------------------------------------
\* sendTXT, sendBIN and sendPing, between two calls of loop().
AppSend(m) ==
    /\ Quiet /\ tcp = "up" /\ MoreFrames
    /\ SendFrame(m.op, Content(m.len), TRUE, m.toPayload)
    /\ UNCHANGED <<link, reading, sent, delivered>>

AppDisconnect ==
    /\ Quiet /\ tcp = "up"
    /\ ClientDisconnect
    /\ UNCHANGED <<reading, delivered>>

\* loop() finds the connection lost.
LoopLost ==
    /\ want = 0 /\ tcp = "lost"
    /\ ClientDisconnect
    /\ UNCHANGED <<reading, delivered>>

\* A new connection: headerDone leaves cWsRXsize = 0.
Reconnect ==
    /\ tcp = "NULL" /\ want = 0
    /\ tcp' = "up" /\ inbox' = <<>>
    /\ header' = <<>> /\ payload' = <<>> /\ into' = "header"
    /\ wire' = <<>> /\ said' = <<>> /\ failed' = FALSE /\ sent' = <<>> /\ delivered' = <<>>
    /\ UNCHANGED <<block, want, trouble>>

Server == (\E f \in Incoming : ServerSends(f)) \/ ServerSendsHuge
App == (\E m \in Outgoing : AppSend(m)) \/ AppDisconnect
Receive == Begin \/ ReadSome \/ HeaderRead \/ NoMemory
           \/ PayloadRead \/ ReadFails

Next == Server \/ ConnectionLost \/ App \/ Receive \/ LoopLost \/ Reconnect

Spec == Init /\ [][Next]_vars

---------------------------------------------------------------------------
(* Properties *)

\* The bytes a read still has to fill are those of the header, which cWsHeader
\* has room for, or those of the payload, which the header announced.
TypeOK ==
    /\ tcp \in {"up", "lost", "NULL"}
    /\ want \in Nat /\ into \in {"header", "payload"} /\ block \in BOOLEAN
    /\ Len(header) + (IF into = "header" THEN want ELSE 0) <= 14
    /\ into = "payload" /\ want > 0 => Len(payload) + want = PayloadLen(header)
    /\ trouble \in 0..MaxTrouble /\ failed \in BOOLEAN

\* There is memory for a payload exactly while one is read, and never for more
\* than WEBSOCKETS_MAX_DATA_SIZE, whichever way the read ends.
PayloadKept ==
    /\ TypeOK
    /\ block = (want > 0 /\ into = "payload")
    /\ block => PayloadLen(header) <= MaxData

\* However the bytes are cut into reads, the application gets what the server
\* sent: the same messages, unmasked, in the order of the frames, and none
\* that the server did not send or that came after a frame that was refused.
\* Between two messages the client stands at the first byte of a frame: what
\* is still unread is what the server sent after the last message.
ReadInOrder ==
    /\ Len(delivered) <= Len(sent) /\ delivered = SubSeq(sent, 1, Len(delivered))
    /\ Quiet /\ tcp = "up" =>
         \/ RfcDecode(inbox) = SubSeq(sent, Len(delivered) + 1, Len(sent))
         \/ \E i \in 1..Len(sent) : sent[i].op = "huge"

\* The data of the messages of a kind, in order.
Of(op, messages) ==
    LET Upto[i \in 0..Len(messages)] ==
            IF i = 0 THEN <<>>
            ELSE IF messages[i].op = op THEN Append(Upto[i - 1], messages[i].data)
            ELSE Upto[i - 1]
    IN  Upto[Len(messages)]

\* What the server decodes is what sendFrame said it sent, and every ping that
\* was delivered is answered with its own data, in order, unless sendFrame said
\* that a frame failed.
ServerReads ==
    ~failed => RfcDecode(wire) = said /\ Of("pong", said) = Of("ping", delivered)
=============================================================================
