-------------------------- MODULE WebSocketsClient --------------------------
(***************************************************************************)
(* WebSocketsClient of src/websockets as it is built                       *)
(* (WEBSOCKETS_NETWORK_TYPE = NETWORK_ESP32: a WiFiClient or               *)
(* WiFiClientSecure).  One task calls loop() and the other methods; the    *)
(* network may fail between any two looks at tcp->connected().             *)
(*                                                                         *)
(* A time that the code keeps is modelled by its age, how long ago it was, *)
(* cut where no comparison can tell more.  What can go wrong costs one     *)
(* unit of trouble; the rest of the time the server answers as it should   *)
(* and loop() is called often enough.                                      *)
(***************************************************************************)
EXTENDS Naturals, Sequences

CONSTANTS
    TcpTimeout,         \* WEBSOCKETS_TCP_TIMEOUT, in ticks like all times
    ReconnectInterval,  \* setReconnectInterval
    PingInterval, PongTimeout, DisconnectTimeoutCount,  \* enableHeartbeat
    Modes,              \* sets of "ssl" and "socketio": the begin* methods
    MaxTrouble          \* bound: how often something goes wrong

ASSUME TimesAssumption ==
    /\ {TcpTimeout, ReconnectInterval, PingInterval, PongTimeout} \subseteq Nat \ {0}
    /\ DisconnectTimeoutCount \in 0..255 /\ MaxTrouble \in Nat
    /\ Modes \subseteq SUBSET {"ssl", "socketio"}

VARIABLES
    begun, mode,  \* begin* was called (_port # 0), and which
    status,       \* _client.status
    tcp,          \* "NULL", or what connected() says of *_client.tcp
    hs,           \* the handshake: cCode, cIsUpgrade, cIsWebsocket, ...
    rx,           \* cWsRXsize # 0
    pinging,      \* pingInterval # 0
    pongReceived, pongTimeoutCount,
    age,          \* of lastPing, _lastConnectionFail, _lastHeaderSent, boot
    inbox,        \* what the server sent and the client has not read
    peer,         \* "open": the server answers pings; "silent": no longer; "shut"
    pc,           \* where loop() is
    ran,          \* loop() was called in this tick and left nothing to read
    view,         \* the application's last news: CONNECTED "up", else "down"
    trouble,      \* how much may still go wrong
    got,          \* history: the lines read on this connection
    calm,         \* history: ticks since an attempt or a connection ended
    hurry,        \* history: the last attempt ended in a certificate mismatch
    renewed,      \* history: begin() since an attempt or a connection ended
    pinged,       \* history: a ping of this connection is not answered
    missed,       \* history: timeouts of pings of this connection in a row
    tainted,      \* history: some counted timeout is not among those
    again         \* history: begin() while there was a connection

link     == <<status, tcp, hs, rx>>
net      == <<inbox, peer>>
beat     == <<pinging, pongReceived, pongTimeoutCount>>
missing  == <<pinged, missed, tainted>>
waited   == <<calm, hurry, renewed>>
history  == <<got, waited, missing, again>>
vars == <<begun, mode, link, net, beat, age, pc, ran, view, trouble, history>>

Least(a, b) == IF a < b THEN a ELSE b
Most(a, b)  == IF a < b THEN b ELSE a
Cap == [ping |-> PingInterval + 1, fail |-> ReconnectInterval, header |-> TcpTimeout + 1,
        boot |-> Most(Most(PingInterval, TcpTimeout) + 1, ReconnectInterval)]
Grown(n) == [k \in DOMAIN age |-> Least(age[k] + n, Cap[k])]
(* _last... = 0: as long ago as the boot. *)
Zero(k) == Least(age.boot, Cap[k])
Now(k) == [age EXCEPT ![k] = 0]

socketio == "socketio" \in mode

NoHandshake == [code |-> "", upgrade |-> FALSE, websocket |-> FALSE, accept |-> "", session |-> FALSE]

(* What the server may answer, line by line.  A good answer to a request   *)
(* for polling has the session in a cookie or in the body.                 *)
Upgrade   == <<"101", "upgrade", "websocket", "accept", "blank">>
Polling   == {<<"200", "blank", "sid">>, <<"200", "cookie", "blank", "body">>}
BadLine   == [i \in 1..5 |-> IF i = 1 THEN {"200", "other"}
                             ELSE IF i = 4 THEN {"wrong", "other"} ELSE {"other"}]
BadAnswers == {<<>>} \cup UNION {{[Upgrade EXCEPT ![i] = l] : l \in BadLine[i]} : i \in 1..5}

Costs == trouble > 0 /\ trouble' = trouble - 1
Free  == UNCHANGED trouble

Init ==
    /\ begun = FALSE /\ mode = {}
    /\ status = "NOT_CONNECTED" /\ tcp = "NULL" /\ hs = NoHandshake /\ rx = FALSE
    /\ pinging = FALSE /\ pongReceived = FALSE /\ pongTimeoutCount = 0
    /\ age = [k \in DOMAIN Cap |-> 0]
    /\ inbox = <<>> /\ peer = "shut"
    /\ pc = "idle" /\ ran = TRUE /\ view = "down" /\ trouble = MaxTrouble
    /\ got = {} /\ calm = ReconnectInterval /\ hurry = FALSE /\ renewed = FALSE
    /\ pinged = FALSE /\ missed = 0 /\ tainted = FALSE /\ again = FALSE

-----------------------------------------------------------------------------
(* Slip: DISCONNECTED is reported only when connected() still says so. *)
DisconnectToQuiet(s) ==
    /\ status' = s /\ tcp' = "NULL" /\ hs' = NoHandshake
    /\ inbox' = <<>> /\ peer' = "shut"
    /\ view' = IF tcp = "up" THEN "down" ELSE view
    /\ calm' = 0 /\ hurry' = FALSE /\ renewed' = FALSE

(* Slip: the flags of the handshake are kept for the next connection. *)
DisconnectToKeeps(s) ==
    /\ status' = s /\ tcp' = "NULL" /\ hs' = hs
    /\ inbox' = <<>> /\ peer' = "shut"
    /\ view' = IF tcp = "NULL" THEN view ELSE "down"
    /\ calm' = 0 /\ hurry' = FALSE /\ renewed' = FALSE

(* clientDisconnect(client).  With a code it sends a close frame before,   *)
(* which changes nothing here.  DISCONNECTED is reported when there was a  *)
(* socket, connected or not.  s is the status it is left with.             *)
DisconnectTo(s) ==
    /\ status' = s /\ tcp' = "NULL" /\ hs' = NoHandshake
    /\ inbox' = <<>> /\ peer' = "shut"
    /\ view' = IF tcp = "NULL" THEN view ELSE "down"
    /\ calm' = 0 /\ hurry' = FALSE /\ renewed' = FALSE

ClientDisconnect == DisconnectTo("NOT_CONNECTED")

(* clientIsConnected; when it is false and tcp is not NULL it disconnects. *)
ClientIsConnected == tcp = "up" /\ status # "NOT_CONNECTED"

(* sendHeader: a new key, and the request of a websocket or, in Socket.IO, *)
(* of a session.  An Accept line read earlier belongs to another key.      *)
SendHeader(h, rest, ws) ==
    /\ hs' = [h EXCEPT !.accept = IF @ = "" THEN "" ELSE "wrong"]
    /\ \/ /\ Free
          /\ inbox' \in {rest \o a : a \in IF ws THEN {Upgrade} ELSE Polling}
          /\ peer' = IF ws THEN "open" ELSE "shut"
       \/ /\ Costs
          /\ inbox' \in {rest \o a : a \in BadAnswers}
          /\ peer' = "shut"

-----------------------------------------------------------------------------
(* loop() without a connection *)

(* Slip: the time at which the connection was found lost is not kept. *)
LoopLostUntimed ==
    /\ pc = "idle" /\ begun /\ tcp # "NULL" /\ ~ClientIsConnected
    /\ ClientDisconnect
    /\ ran' = TRUE
    /\ UNCHANGED <<begun, mode, rx, beat, age, pc, trouble, got, missing, again>>

(* A socket is left that is not connected, or was never in use.            *)
LoopLost ==
    /\ pc = "idle" /\ begun /\ tcp # "NULL" /\ ~ClientIsConnected
    /\ ClientDisconnect
    /\ age' = Now("fail") /\ ran' = TRUE
    /\ UNCHANGED <<begun, mode, rx, beat, pc, trouble, got, missing, again>>

LoopWait ==
    /\ pc = "idle" /\ begun /\ tcp = "NULL" /\ age.fail < ReconnectInterval
    /\ ran' = TRUE
    /\ UNCHANGED <<begun, mode, link, net, beat, age, pc, view, trouble, history>>

MayConnect == pc = "idle" /\ begun /\ tcp = "NULL" /\ age.fail >= ReconnectInterval

(* The new socket stays in tcp when connect() fails.                       *)
ConnectFails ==
    /\ MayConnect /\ Costs
    /\ tcp' = "down" /\ ran' = TRUE
    /\ age' = Now("fail") /\ calm' = 0 /\ hurry' = FALSE /\ renewed' = FALSE
    /\ UNCHANGED <<begun, mode, status, hs, rx, net, beat, pc, view, got, missing, again>>

(* connectedCb, and then _lastConnectionFail = 0. *)
Connects ==
    /\ MayConnect
    /\ tcp' = "up" /\ status' = "HEADER"
    /\ SendHeader(hs, <<>>, socketio => hs.session)
    /\ age' = [age EXCEPT !.fail = Zero("fail"), !.header = 0]
    /\ ran' = FALSE /\ got' = {}
    /\ UNCHANGED <<begun, mode, rx, beat, pc, view, waited, missing, again>>

(* connectedCb disconnects, and then _lastConnectionFail = 0 all the same. *)
Mismatch ==
    /\ MayConnect /\ Costs /\ "ssl" \in mode
    /\ status' = "NOT_CONNECTED" /\ hs' = NoHandshake
    /\ age' = [age EXCEPT !.fail = Zero("fail")]
    /\ view' = "down" /\ calm' = 0 /\ hurry' = TRUE /\ renewed' = FALSE /\ ran' = TRUE
    /\ UNCHANGED <<begun, mode, tcp, rx, net, beat, pc, got, missing, again>>

-----------------------------------------------------------------------------
(* loop() with a connection: handleClientData *)

LoopData ==
    /\ pc = "idle" /\ begun /\ ClientIsConnected
    /\ pc' = "data"
    /\ UNCHANGED <<begun, mode, link, net, beat, age, ran, view, trouble, history>>

(* Slip: the time of the body is not limited. *)
AskingHeader == status = "HEADER"

Asking == status \in {"HEADER", "BODY"}

(* Where the time of the header + TIMEOUT exceeds the range of millis(),   *)
(* the answer is late at once.                                             *)
HeaderTimeout ==
    /\ pc = "data" /\ Asking
    /\ IF age.header > TcpTimeout THEN Free ELSE Costs
    /\ ClientDisconnect
    /\ age' = Now("fail") /\ pc' = "idle"
    /\ UNCHANGED <<begun, mode, rx, beat, ran, got, missing, again>>

Readable == pc = "data" /\ ~(Asking /\ age.header > TcpTimeout)

(* available() is 0: what was sent may not have arrived. *)
NoData ==
    /\ Readable
    /\ pc' = IF status = "CONNECTED" THEN "hb" ELSE "idle"
    /\ ran' = (inbox = <<>>)
    /\ UNCHANGED <<begun, mode, link, net, beat, age, view, trouble, history>>

(* handleHeader of a line that is not empty. *)
ParseLine(h, l) ==
    CASE l \in {"101", "200"}  -> [h EXCEPT !.code = l]
      [] l = "upgrade"         -> [h EXCEPT !.upgrade = TRUE]
      [] l = "websocket"       -> [h EXCEPT !.websocket = TRUE]
      [] l = "accept"          -> [h EXCEPT !.accept = "right"]
      [] l = "wrong"           -> [h EXCEPT !.accept = "wrong"]
      [] l \in {"cookie", "sid"} -> [h EXCEPT !.session = TRUE]
      [] OTHER                 -> h

(* The body has no end of line: it swallows the line that follows.         *)
Rest(l) == IF l = "body" /\ Len(inbox) > 1 THEN Tail(Tail(inbox)) ELSE Tail(inbox)

ReadLine ==
    /\ Readable /\ status = "HEADER" /\ inbox # <<>> /\ Head(inbox) # "blank"
    /\ hs' = ParseLine(hs, Head(inbox))
    /\ got' = got \cup {Head(inbox)}
    /\ inbox' = Rest(Head(inbox))
    /\ pc' = "idle" /\ ran' = FALSE
    /\ UNCHANGED <<begun, mode, status, tcp, rx, peer, beat, age, view, trouble,
                   waited, missing, again>>

(* Slip: what an interrupted message left in the header buffer stays. *)
HeaderDoneNoReset(h) ==
    /\ status' = "CONNECTED" /\ hs' = h /\ view' = "up" /\ pc' = "event"
    /\ pinged' = FALSE /\ missed' = 0
    /\ tainted' = (pongTimeoutCount # 0 \/ (~pongReceived /\ age.ping <= PingInterval))
    /\ inbox' = Tail(inbox)
    /\ UNCHANGED <<tcp, rx, peer, age, trouble, waited>>

(* headerDone, CONNECTED.  The counts of the heartbeat stay as they are.   *)
HeaderDone(h) ==
    /\ status' = "CONNECTED" /\ hs' = h /\ rx' = FALSE /\ view' = "up" /\ pc' = "event"
    /\ pinged' = FALSE /\ missed' = 0
    /\ tainted' = (pongTimeoutCount # 0 \/ (~pongReceived /\ age.ping <= PingInterval))
    /\ inbox' = Tail(inbox)
    /\ UNCHANGED <<tcp, peer, age, trouble, waited>>

(* Socket.IO has no session yet and looks for it in the body; when the     *)
(* connection is lost just now, the status is left at HEADER.              *)
AwaitBody(h) ==
    /\ status' = "BODY" /\ hs' = h /\ inbox' = Tail(inbox)
    /\ UNCHANGED <<tcp, rx, peer, view, age, trouble, waited, missing>>

(* Socket.IO has its session: drain what has arrived, ask for a websocket. *)
AskAgain(h) ==
    /\ \E k \in 2..Len(inbox) + 1 : SendHeader(h, SubSeq(inbox, k, Len(inbox)), TRUE)
    /\ status' = "HEADER" /\ age' = Now("header")
    /\ UNCHANGED <<tcp, rx, view, waited, missing>>

(* clientDisconnect in handleHeader. *)
Refuse(s) ==
    /\ DisconnectTo(s) /\ age' = Now("fail")
    /\ UNCHANGED <<rx, trouble, missing>>

Idle == pc' = "idle"

(* handleHeader of an empty line: is this the connection that was wanted?  *)
(* read: the lines read; an Accept answers one request only.               *)
HeaderEnd(h, read) ==
    LET lost    == tcp # "up"
        upgrade == h.upgrade /\ h.websocket
        code    == h.code = "101" \/ (h.code = "200" /\ socketio)
        done    == upgrade /\ code /\ h.accept = "right"
        asks  == socketio /\ h.session /\ ~lost /\ (upgrade => code) /\ ~done
    IN
    /\ got' = IF asks THEN read \ {"accept"} ELSE read
    /\ \/ socketio /\ ~h.session /\ ~lost /\ AwaitBody(h) /\ Idle
       \/ socketio /\ ~h.session /\ lost /\ Refuse("HEADER") /\ Idle
       \/ (socketio => h.session) /\ done /\ HeaderDone(h)
       \/ (socketio => h.session) /\ upgrade /\ ~code /\ Refuse("NOT_CONNECTED") /\ Idle
       \/ (socketio => h.session) /\ (upgrade => code) /\ ~done /\ ~asks /\ Refuse("NOT_CONNECTED") /\ Idle
       \/ asks /\ AskAgain(h) /\ Idle

ReadBlank ==
    /\ Readable /\ status = "HEADER" /\ inbox # <<>> /\ Head(inbox) = "blank"
    /\ HeaderEnd(hs, got)
    /\ ran' = FALSE
    /\ UNCHANGED <<begun, mode, beat, again>>

ReadBody ==
    /\ Readable /\ status = "BODY" /\ inbox # <<>>
    /\ HeaderEnd(ParseLine(hs, Head(inbox)), got \cup {Head(inbox)})
    /\ ran' = FALSE
    /\ UNCHANGED <<begun, mode, beat, again>>

-----------------------------------------------------------------------------
(* handleWebsocket: frames *)

CanReceive == Readable /\ status = "CONNECTED" /\ tcp = "up" /\ ~rx /\ inbox # <<>>

(* Text, binary, fragments, and a ping, which is answered. *)
ReceiveMessage ==
    /\ CanReceive /\ Head(inbox) = "text"
    /\ inbox' = Tail(inbox) /\ pc' = "event" /\ ran' = FALSE
    /\ UNCHANGED <<begun, mode, link, peer, beat, age, view, trouble, history>>

ReceivePong ==
    /\ CanReceive /\ Head(inbox) = "pong"
    /\ pongReceived' = TRUE /\ pinged' = FALSE /\ missed' = 0
    /\ inbox' = Tail(inbox) /\ pc' = "event" /\ ran' = FALSE
    /\ UNCHANGED <<begun, mode, link, peer, pinging, pongTimeoutCount, age, view, trouble,
                   got, waited, tainted, again>>

(* A close or an unknown opcode; a message too big or without memory for   *)
(* it, which leaves the header in the buffer; one that stops half way, for *)
(* which readCb waits until its timeout.                                   *)
ReceiveBad ==
    /\ CanReceive /\ Head(inbox) \in {"close", "big", "partial"}
    /\ ClientDisconnect
    /\ rx' \in (CASE Head(inbox) = "close" -> {FALSE}
                 [] Head(inbox) = "big" -> {TRUE}
                 [] Head(inbox) = "partial" -> BOOLEAN)
    /\ age' = [Grown(IF Head(inbox) = "partial" THEN TcpTimeout + 1 ELSE 0) EXCEPT !.fail = 0]
    /\ pc' = "event" /\ ran' = FALSE
    /\ UNCHANGED <<begun, mode, beat, trouble, got, missing, again>>

(* The application's callback returns. *)
EventEnd ==
    /\ pc = "event"
    /\ pc' = IF status = "CONNECTED" THEN "hb" ELSE "idle"
    /\ UNCHANGED <<begun, mode, link, net, beat, age, ran, view, trouble, history>>

-----------------------------------------------------------------------------
(* loop() with a connection: the heartbeat *)

Due == pinging /\ age.ping > PingInterval

(* The server answers a ping. *)
Pong == inbox' = IF peer = "open" THEN Append(inbox, "pong") ELSE inbox

(* handleHBPing, after which handleHBTimeout has nothing to do.  A pong    *)
(* read in this very call of loop() is forgotten before it is counted.     *)
HandleHBPing ==
    /\ pc = "hb" /\ Due /\ tcp = "up"
    /\ age' = Now("ping") /\ pongReceived' = FALSE /\ Pong
    /\ pinged' = TRUE /\ tainted' = (tainted \/ (pongReceived /\ pongTimeoutCount # 0))
    /\ pc' = "idle"
    /\ UNCHANGED <<begun, mode, link, peer, pinging, pongTimeoutCount, ran, view, trouble,
                   got, waited, missed, again>>

(* The connection is lost, or the ping cannot be written until the timeout. *)
HBPingFails ==
    /\ pc = "hb" /\ Due
    /\ \/ tcp = "down" /\ Free /\ age' = Now("fail")
       \/ tcp = "up" /\ Costs /\ age' = [Grown(TcpTimeout + 1) EXCEPT !.fail = 0]
    /\ ClientDisconnect
    /\ pc' = "timeout"
    /\ UNCHANGED <<begun, mode, rx, beat, ran, got, missing, again>>

(* handleHBTimeout, when no ping was due or it failed.                     *)
AtTimeout == (pc = "hb" /\ ~Due) \/ pc = "timeout"

HBAnswered ==
    /\ AtTimeout /\ pc' = "idle"
    /\ pinging /\ pongReceived
    /\ pongTimeoutCount' = 0 /\ tainted' = FALSE
    /\ UNCHANGED <<begun, mode, link, net, pinging, pongReceived, age, ran, view, trouble,
                   got, waited, pinged, missed, again>>

HBNothing ==
    /\ AtTimeout /\ pc' = "idle"
    /\ ~pinging \/ (~pongReceived /\ age.ping <= PongTimeout)
    /\ UNCHANGED <<begun, mode, link, net, beat, age, ran, view, trouble, history>>

(* Slip: the connection is dropped one timeout too early. *)
EnoughSoon(n) == DisconnectTimeoutCount # 0 /\ n >= DisconnectTimeoutCount - 1

Enough(n) == DisconnectTimeoutCount # 0 /\ n >= DisconnectTimeoutCount

(* The time of the ping is set so far back that the next call of loop()    *)
(* sends another.                                                          *)
HandleHBTimeout ==
    /\ AtTimeout /\ pc' = "idle"
    /\ pinging /\ ~pongReceived /\ age.ping > PongTimeout
    /\ pongTimeoutCount' = (pongTimeoutCount + 1) % 256
    /\ missed' = IF pinged THEN missed + 1 ELSE missed
    /\ LET forced == [age EXCEPT !.ping = Cap.ping]
       IN IF Enough(pongTimeoutCount')
            THEN ClientDisconnect /\ age' = [forced EXCEPT !.fail = 0]
            ELSE age' = forced /\ UNCHANGED <<status, tcp, hs, net, view, waited>>
    /\ UNCHANGED <<begun, mode, rx, pinging, pongReceived, ran, trouble, got, pinged, tainted, again>>

LoopStep ==
    \/ LoopLost \/ LoopWait \/ ConnectFails \/ Connects \/ Mismatch
    \/ LoopData \/ HeaderTimeout \/ NoData
    \/ ReadLine \/ ReadBlank \/ ReadBody \/ ReceiveMessage \/ ReceivePong \/ ReceiveBad
    \/ EventEnd \/ HandleHBPing \/ HBPingFails
    \/ HBAnswered \/ HBNothing \/ HandleHBTimeout

-----------------------------------------------------------------------------
(* The application, between two calls of loop() or in a callback *)

InApp == pc \in {"idle", "event"}

(* begin, beginSSL, beginSocketIO, ...  A connection there is, is          *)
(* forgotten, but neither closed nor reported.  So is the time at which    *)
(* the last one ended: the next attempt may come at once.                  *)
AppBegin ==
    /\ InApp
    /\ IF begun THEN Costs ELSE Free
    /\ begun' = TRUE /\ mode' \in Modes
    /\ status' = "NOT_CONNECTED" /\ tcp' = "NULL"
    /\ hs' = [NoHandshake EXCEPT !.websocket = TRUE, !.session = hs.session]
    /\ inbox' = <<>> /\ peer' = "shut"
    /\ pongReceived' = FALSE /\ pongTimeoutCount' = 0
    /\ age' = [age EXCEPT !.ping = Zero("ping"), !.fail = Zero("fail"), !.header = Zero("header")]
    /\ renewed' = TRUE /\ again' = (again \/ tcp # "NULL")
    /\ UNCHANGED <<rx, pinging, pc, ran, view, got, calm, hurry, missing>>

(* disconnect(); any of the other calls when the connection is lost.       *)
AppDisconnect ==
    /\ InApp /\ tcp # "NULL"
    /\ IF ClientIsConnected THEN Costs ELSE Free
    /\ ClientDisconnect /\ age' = Now("fail")
    /\ UNCHANGED <<begun, mode, rx, beat, pc, ran, got, missing, again>>

(* sendPing() *)
AppPing ==
    /\ InApp /\ ClientIsConnected /\ status = "CONNECTED" /\ Costs
    /\ age' = Now("ping") /\ Pong /\ pinged' = TRUE
    /\ UNCHANGED <<begun, mode, link, peer, beat, pc, ran, view,
                   got, waited, missed, tainted, again>>

(* enableHeartbeat(), the first time or again, always with the same times. *)
(* A pong that was read is forgotten.  What it answered, or what was sent  *)
(* before the connection, may then be counted as a timeout.                *)
AppEnableHeartbeat ==
    /\ InApp
    /\ IF pinging THEN Costs ELSE Free
    /\ pinging' = TRUE /\ pongReceived' = FALSE
    /\ tainted' = (tainted \/ (~pinged /\ age.ping <= PingInterval)
                           \/ (pongReceived /\ pongTimeoutCount # 0))
    /\ UNCHANGED <<begun, mode, link, net, pongTimeoutCount, age, pc, ran, view,
                   got, waited, pinged, missed, again>>

AppDisableHeartbeat ==
    /\ InApp /\ pinging /\ Costs
    /\ pinging' = FALSE
    /\ UNCHANGED <<begun, mode, link, net, pongReceived, pongTimeoutCount, age, pc, ran, view, history>>

-----------------------------------------------------------------------------
(* The network, the server, time *)

LinkLost ==
    /\ tcp = "up" /\ Costs
    /\ tcp' = "down" /\ peer' = "shut"
    /\ UNCHANGED <<begun, mode, status, hs, rx, inbox, beat, age, pc, ran, view, history>>

ServerSilent ==
    /\ peer = "open" /\ Costs
    /\ peer' = "silent"
    /\ UNCHANGED <<begun, mode, link, inbox, beat, age, pc, ran, view, history>>

ServerSends ==
    /\ peer = "open" /\ Len(inbox) < 2
    /\ \/ inbox' = Append(inbox, "text") /\ Free
       \/ \E f \in {"close", "big", "partial"} : inbox' = Append(inbox, f) /\ Costs
    /\ UNCHANGED <<begun, mode, link, peer, beat, age, pc, ran, view, history>>

(* loop() has been called and nothing is left to read, or time passes      *)
(* nevertheless: the application is slow, the network is late.             *)
Tick ==
    /\ pc = "idle"
    /\ IF ran THEN Free ELSE Costs
    /\ age' = Grown(1) /\ calm' = Least(calm + 1, ReconnectInterval)
    /\ ran' = ~begun
    /\ UNCHANGED <<begun, mode, link, net, beat, pc, view, got, hurry, renewed, missing, again>>

App == AppBegin \/ AppDisconnect \/ AppPing \/ AppEnableHeartbeat \/ AppDisableHeartbeat

Next == LoopStep \/ App \/ LinkLost \/ ServerSilent \/ ServerSends \/ Tick

(* loop() is called, goes on, and reads in the end what is there to read;  *)
(* time does not stop.                                                     *)
Fairness ==
    /\ WF_vars(LoopStep)
    /\ SF_vars(ReadLine \/ ReadBlank \/ ReadBody \/ ReceiveMessage \/ ReceivePong \/ ReceiveBad)
    /\ SF_vars(Tick)

Spec == Init /\ [][Next]_vars /\ Fairness

-----------------------------------------------------------------------------
(* Properties *)

(* What the application was told last agrees with the status, in every     *)
(* callback and between the calls: no way out of a reported connection     *)
(* forgets DISCONNECTED, except begin() while there is a connection.       *)
ToldTruth == again \/ (view = "up" <=> status = "CONNECTED")

(* A connection that is reported starts with an empty header buffer and    *)
(* has a socket, whatever an earlier connection was interrupted in.        *)
ReadyToReceive == status = "CONNECTED" => ~rx /\ tcp # "NULL"

(* CONNECTED means that the server switched: on this connection it sent a  *)
(* status, Upgrade and the Accept of the last key.                         *)
ServerSwitched ==
    [][status # "CONNECTED" /\ status' = "CONNECTED" =>
         /\ {"upgrade", "accept"} \subseteq got'
         /\ "101" \in got' \/ (socketio /\ "200" \in got')]_vars

(* The heartbeat drops a connection only after as many pings of this       *)
(* connection in a row stayed unanswered as the application asked for.     *)
HeartbeatDrops ==
    AtTimeout /\ status = "CONNECTED" /\ status' = "NOT_CONNECTED"
DropNeedsMisses == [][HeartbeatDrops => missed' >= DisconnectTimeoutCount]_vars

(* The same, unless timeouts were counted that began before the connection *)
(* or that a pong answered which was forgotten: the next ping was sent, or *)
(* enableHeartbeat() was called (again), before it was taken into account. *)
DropNeedsMissesUnlessTainted ==
    [][HeartbeatDrops => tainted \/ missed' >= DisconnectTimeoutCount]_vars

(* The server is not flooded: a connection is attempted ReconnectInterval  *)
(* after the last one ended, except after a certificate mismatch and when  *)
(* the application called begin() since: both set _lastConnectionFail = 0. *)
NoFloodUnlessMismatchOrBegin ==
    [][tcp = "NULL" /\ tcp' # "NULL" => hurry \/ renewed \/ calm >= ReconnectInterval]_vars

(* Whatever went wrong, in the end the client is connected to a server     *)
(* that answers; without a heartbeat it may not notice a silent one.  Here *)
(* PongTimeout < PingInterval, else every ping hides the missing pong.     *)
Recovers == begun ~> (status = "CONNECTED" /\ (peer = "open" \/ ~pinging))
=============================================================================
