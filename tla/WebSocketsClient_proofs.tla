----------------------- MODULE WebSocketsClient_proofs -----------------------
(***************************************************************************)
(* For any times, modes and amount of trouble: what the application is     *)
(* told agrees with the status; a connection that is reported has a socket *)
(* and an empty header buffer, and the server switched; the heartbeat      *)
(* drops it only for pings that stayed unanswered.                         *)
(***************************************************************************)
EXTENDS WebSocketsClient, TLAPS

(* Inside handleClientData there is a socket: loop() made sure, and only   *)
(* the application, which has no turn there, could forget it.              *)
DataHasSocket == pc = "data" => tcp # "NULL"

(* ToldTruth alone is not inductive: DISCONNECTED is reported only when    *)
(* there is a socket, so CONNECTED must imply one.                         *)
SessionInv == ToldTruth /\ ReadyToReceive /\ DataHasSocket

USE DEF SessionInv, ToldTruth, ReadyToReceive, DataHasSocket

LEMMA InitSession == Init => SessionInv
  BY DEF Init

(* clientDisconnect leaves the application told and nothing connected.     *)
LEMMA DisconnectSession ==
  ASSUME SessionInv, NEW s, s # "CONNECTED", DisconnectTo(s), UNCHANGED again, pc' # "data"
  PROVE  SessionInv'
  BY DEF DisconnectTo

(* handleHeader of an empty line, whatever the answer was.                 *)
LEMMA HeaderEndSession ==
  ASSUME SessionInv, NEW h, NEW read, pc = "data", status # "CONNECTED",
         UNCHANGED again, HeaderEnd(h, read)
  PROVE  SessionInv'
<1>1. CASE AwaitBody(h) /\ Idle
  BY <1>1 DEF AwaitBody, Idle
<1>2. CASE HeaderDone(h)
  BY <1>2 DEF HeaderDone
<1>3. CASE AskAgain(h) /\ Idle
  BY <1>3 DEF AskAgain, Idle
<1>4. ASSUME NEW s \in {"HEADER", "NOT_CONNECTED"}, Refuse(s), Idle
      PROVE  SessionInv'
  BY <1>4, DisconnectSession DEF Refuse, Idle
<1> QED BY <1>1, <1>2, <1>3, <1>4 DEF HeaderEnd

LEMMA LoopSession == ASSUME SessionInv, LoopStep PROVE SessionInv'
<1>1. ASSUME LoopLost PROVE SessionInv'
  BY <1>1, DisconnectSession DEF LoopLost, ClientDisconnect
<1>2. ASSUME LoopWait PROVE SessionInv'
  BY <1>2 DEF LoopWait, link, history
<1>3. ASSUME ConnectFails PROVE SessionInv'
  BY <1>3 DEF ConnectFails, MayConnect
<1>4. ASSUME Connects PROVE SessionInv'
  BY <1>4 DEF Connects, MayConnect
<1>5. ASSUME Mismatch PROVE SessionInv'
  BY <1>5 DEF Mismatch, MayConnect
<1>6. ASSUME LoopData PROVE SessionInv'
  BY <1>6 DEF LoopData, ClientIsConnected, link, history
<1>7. ASSUME HeaderTimeout PROVE SessionInv'
  BY <1>7, DisconnectSession DEF HeaderTimeout, ClientDisconnect
<1>8. ASSUME NoData PROVE SessionInv'
  BY <1>8 DEF NoData, link, history
<1>9. ASSUME ReadLine PROVE SessionInv'
  BY <1>9 DEF ReadLine
<1>10. ASSUME ReadBlank \/ ReadBody PROVE SessionInv'
  BY <1>10, HeaderEndSession DEF ReadBlank, ReadBody, Readable
<1>11. ASSUME ReceiveMessage \/ ReceivePong PROVE SessionInv'
  BY <1>11 DEF ReceiveMessage, ReceivePong, link, history
<1>12. ASSUME ReceiveBad PROVE SessionInv'
  BY <1>12, DisconnectSession DEF ReceiveBad, ClientDisconnect
<1>13. ASSUME EventEnd PROVE SessionInv'
  BY <1>13 DEF EventEnd, link, history
<1>14. ASSUME HandleHBPing PROVE SessionInv'
  BY <1>14 DEF HandleHBPing, link
<1>15. ASSUME HBPingFails PROVE SessionInv'
  BY <1>15, DisconnectSession DEF HBPingFails, ClientDisconnect
<1>16. ASSUME HBAnswered \/ HBNothing PROVE SessionInv'
  BY <1>16 DEF HBAnswered, HBNothing, link, history
<1>17. ASSUME HandleHBTimeout PROVE SessionInv'
  <2>1. CASE ClientDisconnect
    BY <1>17, <2>1, DisconnectSession DEF HandleHBTimeout, ClientDisconnect
  <2>2. CASE UNCHANGED <<status, tcp, view>>
    BY <1>17, <2>2 DEF HandleHBTimeout
  <2> QED BY <1>17, <2>1, <2>2 DEF HandleHBTimeout
<1> QED BY <1>1, <1>2, <1>3, <1>4, <1>5, <1>6, <1>7, <1>8, <1>9, <1>10, <1>11, <1>12,
           <1>13, <1>14, <1>15, <1>16, <1>17 DEF LoopStep

LEMMA NextSession == ASSUME SessionInv, [Next]_vars PROVE SessionInv'
<1>1. ASSUME LoopStep PROVE SessionInv'
  BY <1>1, LoopSession
<1>2. ASSUME AppBegin PROVE SessionInv'
  BY <1>2 DEF AppBegin, InApp
<1>3. ASSUME AppDisconnect PROVE SessionInv'
  BY <1>3, DisconnectSession DEF AppDisconnect, ClientDisconnect, InApp
<1>4. ASSUME AppPing PROVE SessionInv'
  BY <1>4 DEF AppPing, link
<1>5. ASSUME AppEnableHeartbeat \/ AppDisableHeartbeat PROVE SessionInv'
  BY <1>5 DEF AppEnableHeartbeat, AppDisableHeartbeat, link, history
<1>6. ASSUME LinkLost PROVE SessionInv'
  BY <1>6 DEF LinkLost, history
<1>7. ASSUME ServerSilent \/ ServerSends \/ Tick PROVE SessionInv'
  BY <1>7 DEF ServerSilent, ServerSends, Tick, link, history
<1>8. ASSUME UNCHANGED vars PROVE SessionInv'
  BY <1>8 DEF vars, link, history
<1> QED BY <1>1, <1>2, <1>3, <1>4, <1>5, <1>6, <1>7, <1>8 DEF Next, App

(* What a session keeps, it keeps always. *)
THEOREM SessionInvariant == Spec => []SessionInv
<1>1. Init => SessionInv BY InitSession
<1>2. SessionInv /\ [Next]_vars => SessionInv' BY NextSession
<1> QED BY <1>1, <1>2, PTL DEF Spec

(* What the application was told last is true: every reported connection   *)
(* that ended was reported as ended.                                       *)
THEOREM ToldTruthAlways == Spec => []ToldTruth
<1>1. SessionInv => ToldTruth BY DEF SessionInv
<1> QED BY <1>1, SessionInvariant, PTL

(* No message is lost to what an earlier connection left behind, and no    *)
(* null pointer is used for a connection that was reported.                *)
THEOREM ReadyToReceiveAlways == Spec => []ReadyToReceive
<1>1. SessionInv => ReadyToReceive BY DEF SessionInv
<1> QED BY <1>1, SessionInvariant, PTL

-----------------------------------------------------------------------------
(* Ages stay inside their caps. *)
AgeType(a) == DOMAIN a = DOMAIN Cap /\ \A k \in DOMAIN Cap : a[k] \in 0 .. Cap[k]

LEMMA CapFacts ==
  /\ DOMAIN Cap = {"ping", "fail", "header", "boot"}
  /\ Cap["ping"] = PingInterval + 1 /\ PingInterval \in Nat /\ PongTimeout \in Nat
  /\ \A k \in DOMAIN Cap : Cap[k] \in Nat
<1>1. TcpTimeout \in Nat /\ ReconnectInterval \in Nat /\ PingInterval \in Nat /\ PongTimeout \in Nat
  BY TimesAssumption, SMT
<1>2. DOMAIN Cap = {"ping", "fail", "header", "boot"}
  BY SMT DEF Cap
<1>3. /\ Cap["ping"] = PingInterval + 1 /\ Cap["fail"] = ReconnectInterval
      /\ Cap["header"] = TcpTimeout + 1
      /\ Cap["boot"] = Most(Most(PingInterval, TcpTimeout) + 1, ReconnectInterval)
  BY SMT DEF Cap
<1>4. Cap["boot"] \in Nat
  BY <1>1, <1>3, SMT DEF Most
<1> QED BY <1>1, <1>2, <1>3, <1>4, SMT

LEMMA AgeSet ==
  ASSUME NEW a, AgeType(a), NEW k \in DOMAIN Cap, NEW x \in 0 .. Cap[k]
  PROVE  AgeType([a EXCEPT ![k] = x])
BY Zenon DEF AgeType

LEMMA AgeNow == ASSUME AgeType(age), NEW k \in DOMAIN Cap PROVE AgeType(Now(k))
<1>1. 0 \in 0 .. Cap[k]
  BY CapFacts, SMT
<1> QED BY <1>1, AgeSet, Zenon DEF Now

LEMMA AgeZero == ASSUME AgeType(age), NEW k \in DOMAIN Cap PROVE Zero(k) \in 0 .. Cap[k]
<1>1. age["boot"] \in Nat /\ Cap[k] \in Nat
  BY CapFacts, SMT DEF AgeType
<1> QED BY <1>1, SMT DEF Zero, Least

LEMMA AgeGrown ==
  ASSUME AgeType(age), NEW n \in Nat
  PROVE  AgeType(Grown(n)) /\ Grown(n)["ping"] >= age["ping"]
<1>1. \A k \in DOMAIN Cap : age[k] \in 0 .. Cap[k] /\ Cap[k] \in Nat
  BY CapFacts, Zenon DEF AgeType
<1>2. \A k \in DOMAIN Cap : Grown(n)[k] = Least(age[k] + n, Cap[k])
  BY Zenon DEF Grown, AgeType
<1>3. \A k \in DOMAIN Cap : Grown(n)[k] \in 0 .. Cap[k] /\ Grown(n)[k] >= age[k]
  BY <1>1, <1>2, SMT DEF Least
<1>4. DOMAIN Grown(n) = DOMAIN Cap /\ "ping" \in DOMAIN Cap
  BY CapFacts, Zenon DEF Grown, AgeType
<1> QED BY <1>3, <1>4, Zenon DEF AgeType

-----------------------------------------------------------------------------
(* The heartbeat counts no more timeouts than there were pings of this     *)
(* connection that stayed unanswered, unless some were tainted: a count    *)
(* that a pong answered is cleared before the next ping, and a timeout is  *)
(* only counted of a ping of this connection.                              *)
Answered == pongReceived \/ missed >= pongTimeoutCount
OnlyOwnPings == pinging /\ ~pongReceived /\ ~pinged => age["ping"] > PingInterval

BeatInv ==
  /\ AgeType(age) /\ pongTimeoutCount \in Nat /\ missed \in Nat
  /\ pc = "timeout" => status # "CONNECTED"
  /\ status = "CONNECTED" /\ ~tainted => Answered /\ OnlyOwnPings

LEMMA BeatInit == Init => BeatInv
<1> SUFFICES ASSUME Init PROVE BeatInv
  OBVIOUS
<1>1. AgeType(age)
  <2>1. age = [k \in DOMAIN Cap |-> 0]
    BY Zenon DEF Init
  <2>2. \A k \in DOMAIN Cap : 0 \in 0 .. Cap[k]
    BY CapFacts, SMT
  <2> QED BY <2>1, <2>2, Zenon DEF AgeType
<1> QED BY <1>1, SMT DEF Init, BeatInv

(* Steps after which there is no connection. *)
LEMMA BeatDown ==
  ASSUME BeatInv, AgeType(age'), UNCHANGED <<pongTimeoutCount, missed>>, status' # "CONNECTED"
  PROVE  BeatInv'
BY Zenon DEF BeatInv

(* Steps that touch neither the heartbeat nor its time. *)
LEMMA BeatSame ==
  ASSUME BeatInv, AgeType(age'), age'["ping"] >= age["ping"],
         UNCHANGED <<status, beat, missing>>, pc' = pc \/ pc' # "timeout"
  PROVE  BeatInv'
<1>1. pongTimeoutCount' = pongTimeoutCount /\ missed' = missed /\ pongReceived' = pongReceived
      /\ pinging' = pinging /\ pinged' = pinged /\ tainted' = tainted /\ status' = status
  BY DEF beat, missing
<1>2. age["ping"] \in Nat /\ age'["ping"] \in Nat /\ PingInterval \in Nat
  <2>1. \A a : AgeType(a) => a["ping"] \in Nat
    BY CapFacts, SMT DEF AgeType
  <2> QED BY <2>1, CapFacts, Zenon DEF BeatInv
<1>3. OnlyOwnPings => OnlyOwnPings'
  BY <1>1, <1>2, SMT DEF OnlyOwnPings
<1>4. Answered => Answered'
  BY <1>1, Zenon DEF Answered
<1> QED BY <1>1, <1>3, <1>4, Zenon DEF BeatInv

LEMMA AgeUnchanged ==
  ASSUME BeatInv, UNCHANGED age PROVE AgeType(age') /\ age'["ping"] >= age["ping"]
<1>1. AgeType(age) /\ age["ping"] \in Nat
  BY CapFacts, SMT DEF AgeType, BeatInv
<1> QED BY <1>1, SMT

LEMMA BeatHeaderEnd ==
  ASSUME BeatInv, NEW h, NEW read, status \in {"HEADER", "BODY"}, UNCHANGED beat, HeaderEnd(h, read)
  PROVE  BeatInv'
<1>1. AgeType(age)
  BY DEF BeatInv
<1>2. ASSUME HeaderDone(h) PROVE BeatInv'
  <2>1. /\ UNCHANGED age /\ missed' = 0 /\ pc' = "event"
        /\ tainted' = (pongTimeoutCount # 0 \/ (~pongReceived /\ age["ping"] <= PingInterval))
    BY <1>2 DEF HeaderDone
  <2>2. UNCHANGED <<pongTimeoutCount, pongReceived, pinging>>
    BY DEF beat
  <2>3. age["ping"] \in Nat /\ PingInterval \in Nat
    BY <1>1, CapFacts, SMT DEF AgeType
  <2>4. ~tainted' => pongTimeoutCount = 0 /\ (pongReceived \/ ~(age["ping"] <= PingInterval))
    BY <2>1, Zenon
  <2>5. pongTimeoutCount = 0 => missed' >= pongTimeoutCount'
    BY <2>1, <2>2, SMT
  <2>6. ~(age["ping"] <= PingInterval) => age'["ping"] > PingInterval
    BY <2>1, <2>3, SMT
  <2>7. AgeType(age') /\ pongTimeoutCount' \in Nat /\ missed' \in Nat /\ pc' # "timeout"
    BY <1>1, <2>1, <2>2, SMT DEF BeatInv
  <2> QED BY <2>2, <2>4, <2>5, <2>6, <2>7, Zenon DEF BeatInv, Answered, OnlyOwnPings
<1>3. ASSUME AwaitBody(h) \/ AskAgain(h) \/ \E s \in {"HEADER", "NOT_CONNECTED"} : Refuse(s)
      PROVE BeatInv'
  <2>1. status' # "CONNECTED" /\ UNCHANGED <<pongTimeoutCount, missed>>
    BY <1>3, Zenon DEF AwaitBody, AskAgain, Refuse, DisconnectTo, beat, missing
  <2>2. AgeType(age')
    BY <1>1, <1>3, AgeNow, CapFacts, Zenon DEF AwaitBody, AskAgain, Refuse
  <2> QED BY <2>1, <2>2, BeatDown
<1> QED BY <1>2, <1>3, Zenon DEF HeaderEnd

(* Ages after a step that times itself. *)
LEMMA AgesAfter ==
  ASSUME BeatInv
  PROVE  /\ AgeType(age)
         /\ \A k \in {"ping", "fail", "header"} : AgeType(Now(k))
         /\ \A n \in Nat : AgeType([Grown(n) EXCEPT !["fail"] = 0])
         /\ AgeType([age EXCEPT !["fail"] = Zero("fail")])
         /\ AgeType([age EXCEPT !["fail"] = Zero("fail"), !["header"] = 0])
         /\ AgeType([age EXCEPT !["ping"] = Zero("ping"), !["fail"] = Zero("fail"),
                                !["header"] = Zero("header")])
         /\ AgeType([age EXCEPT !["ping"] = Cap["ping"]])
         /\ AgeType([[age EXCEPT !["ping"] = Cap["ping"]] EXCEPT !["fail"] = 0])
<1>1. AgeType(age)
  BY DEF BeatInv
<1>2. /\ "ping" \in DOMAIN Cap /\ "fail" \in DOMAIN Cap /\ "header" \in DOMAIN Cap
      /\ \A k \in DOMAIN Cap : 0 \in 0 .. Cap[k] /\ Cap[k] \in 0 .. Cap[k]
  BY CapFacts, SMT
<1>3. \A k \in DOMAIN Cap : Zero(k) \in 0 .. Cap[k]
  BY <1>1, AgeZero, Zenon
<1>4. \A n \in Nat : AgeType([Grown(n) EXCEPT !["fail"] = 0])
  BY <1>1, <1>2, AgeGrown, AgeSet, Zenon
<1>5. AgeType([age EXCEPT !["fail"] = Zero("fail")])
  BY <1>1, <1>2, <1>3, AgeSet, Zenon
<1>6. AgeType([age EXCEPT !["fail"] = Zero("fail"), !["header"] = 0])
  BY <1>2, <1>5, AgeSet, Zenon
<1>7. AgeType([age EXCEPT !["ping"] = Zero("ping"), !["fail"] = Zero("fail"),
                          !["header"] = Zero("header")])
  <2>1. AgeType([age EXCEPT !["ping"] = Zero("ping")])
    BY <1>1, <1>2, <1>3, AgeSet, Zenon
  <2>2. AgeType([age EXCEPT !["ping"] = Zero("ping"), !["fail"] = Zero("fail")])
    BY <1>2, <1>3, <2>1, AgeSet, Zenon
  <2> QED BY <1>2, <1>3, <2>2, AgeSet, Zenon
<1>8. AgeType([age EXCEPT !["ping"] = Cap["ping"]])
  BY <1>1, <1>2, AgeSet, Zenon
<1>9. AgeType([[age EXCEPT !["ping"] = Cap["ping"]] EXCEPT !["fail"] = 0])
  BY <1>2, <1>8, AgeSet, Zenon
<1>10. \A k \in {"ping", "fail", "header"} : AgeType(Now(k))
  BY <1>1, <1>2, AgeNow, Zenon
<1> QED BY <1>1, <1>4, <1>5, <1>6, <1>7, <1>8, <1>9, <1>10

LEMMA BeatTimeout == ASSUME BeatInv, HandleHBTimeout PROVE
  BeatInv' /\ (HeartbeatDrops => tainted \/ missed' >= DisconnectTimeoutCount)
<1> DEFINE forced == [age EXCEPT !["ping"] = Cap["ping"]]
<1>1. /\ AtTimeout /\ pc' = "idle" /\ pinging /\ ~pongReceived /\ age["ping"] > PongTimeout
      /\ pongTimeoutCount' = (pongTimeoutCount + 1) % 256
      /\ missed' = (IF pinged THEN missed + 1 ELSE missed)
      /\ UNCHANGED <<pinging, pongReceived, pinged, tainted>>
  BY DEF HandleHBTimeout
<1>2. \/ /\ pongTimeoutCount' >= DisconnectTimeoutCount /\ ClientDisconnect
         /\ age' = [forced EXCEPT !["fail"] = 0]
      \/ age' = forced /\ status' = status
  BY Zenon DEF HandleHBTimeout, Enough
<1>3. AgeType(age') /\ age["ping"] \in Nat /\ PingInterval \in Nat /\ AgeType(age)
  <2>1. AgeType(age')
    BY <1>2, AgesAfter, Zenon
  <2> QED BY <2>1, CapFacts, SMT DEF BeatInv, AgeType
<1>4. /\ pongTimeoutCount \in Nat /\ missed \in Nat /\ pongTimeoutCount' \in Nat /\ missed' \in Nat
      /\ pongTimeoutCount' <= pongTimeoutCount + 1
  <2>1. pongTimeoutCount \in Nat /\ missed \in Nat
    BY DEF BeatInv
  <2>2. \A n \in Nat : (n + 1) % 256 \in Nat /\ (n + 1) % 256 <= n + 1
    BY SMT
  <2>3. missed' = missed \/ missed' = missed + 1
    BY <1>1, Zenon
  <2> QED BY <1>1, <2>1, <2>2, <2>3, SMT
<1>5. ASSUME status = "CONNECTED", ~tainted PROVE missed' >= pongTimeoutCount'
  <2>1. pc = "hb" /\ ~(age["ping"] > PingInterval)
    BY <1>1, <1>5, Zenon DEF AtTimeout, BeatInv, Due
  <2>2. pinged
    BY <1>1, <1>5, <2>1, Zenon DEF BeatInv, OnlyOwnPings
  <2>3. missed >= pongTimeoutCount
    BY <1>1, <1>5, Zenon DEF BeatInv, Answered
  <2> QED BY <1>1, <1>4, <2>2, <2>3, SMT
<1>6. status' = "CONNECTED" => status = "CONNECTED" /\ age' = forced
  BY <1>2, SMT DEF ClientDisconnect, DisconnectTo
<1>7. age' = forced => age'["ping"] > PingInterval
  <2>1. forced["ping"] = Cap["ping"]
    BY <1>3, CapFacts, SMT DEF AgeType
  <2>2. Cap["ping"] > PingInterval
    BY CapFacts, SMT
  <2> QED BY <2>1, <2>2, Zenon
<1>8. BeatInv'
  BY <1>1, <1>3, <1>4, <1>5, <1>6, <1>7, Zenon DEF BeatInv, Answered, OnlyOwnPings
<1>9. ASSUME HeartbeatDrops, ~tainted PROVE missed' >= DisconnectTimeoutCount
  <2>1. status = "CONNECTED" /\ status' = "NOT_CONNECTED"
    BY <1>9 DEF HeartbeatDrops
  <2>2. pongTimeoutCount' >= DisconnectTimeoutCount
    BY <1>2, <2>1, SMT
  <2>3. missed' >= pongTimeoutCount' /\ DisconnectTimeoutCount \in Nat
    BY <1>5, <1>9, <2>1, TimesAssumption, SMT
  <2> QED BY <1>4, <2>2, <2>3, SMT
<1> QED BY <1>8, <1>9, Zenon

(* Steps of loop() that end the connection, or wait for none. *)
LEMMA BeatEnds ==
  ASSUME SessionInv, BeatInv,
                  \/ LoopLost \/ ConnectFails \/ Connects \/ Mismatch \/ HeaderTimeout
                  \/ ReceiveBad \/ HBPingFails \/ AppBegin \/ AppDisconnect
  PROVE  BeatInv'
<1>1. TcpTimeout + 1 \in Nat /\ 0 \in Nat
  BY TimesAssumption, SMT
<1>2. status' # "CONNECTED" /\ AgeType(age') /\ missed' = missed
      /\ pongTimeoutCount' \in {pongTimeoutCount, 0}
  <2> USE AgesAfter DEF ClientDisconnect, DisconnectTo, beat, missing
  <2>1. ASSUME LoopLost \/ HeaderTimeout \/ AppDisconnect
        PROVE  status' # "CONNECTED" /\ AgeType(age') /\ missed' = missed /\ pongTimeoutCount' = pongTimeoutCount
    BY <2>1, Zenon DEF LoopLost, HeaderTimeout, AppDisconnect
  <2>2. ASSUME Connects \/ Mismatch
        PROVE  status' # "CONNECTED" /\ AgeType(age') /\ missed' = missed /\ pongTimeoutCount' = pongTimeoutCount
    BY <2>2, Zenon DEF Connects, Mismatch
  <2>3. ASSUME ConnectFails
        PROVE  status' # "CONNECTED" /\ AgeType(age') /\ missed' = missed /\ pongTimeoutCount' = pongTimeoutCount
    BY <2>3, Zenon DEF ConnectFails, MayConnect
  <2>4. ASSUME ReceiveBad \/ HBPingFails
        PROVE  status' # "CONNECTED" /\ AgeType(age') /\ missed' = missed /\ pongTimeoutCount' = pongTimeoutCount
    <3>1. CASE ReceiveBad
      BY <1>1, <3>1, Zenon DEF ReceiveBad
    <3>2. CASE HBPingFails
      BY <1>1, <3>2, Zenon DEF HBPingFails
    <3> QED BY <2>4, <3>1, <3>2
  <2>5. ASSUME AppBegin
        PROVE  status' # "CONNECTED" /\ AgeType(age') /\ missed' = missed /\ pongTimeoutCount' = 0
    BY <2>5, Zenon DEF AppBegin
  <2> QED BY <2>1, <2>2, <2>3, <2>4, <2>5, Zenon
<1>3. pongTimeoutCount \in Nat /\ missed \in Nat /\ 0 \in Nat
  BY SMT DEF BeatInv
<1> QED BY <1>2, <1>3, Zenon DEF BeatInv

(* Steps of loop() with a connection that lasts. *)
LEMMA BeatGoesOn ==
  ASSUME BeatInv, \/ LoopWait \/ LoopData \/ NoData \/ ReadLine \/ ReceiveMessage \/ EventEnd
                  \/ HBNothing \/ LinkLost \/ ServerSilent \/ ServerSends \/ Tick
                  \/ UNCHANGED vars
  PROVE  BeatInv'
<1>1. UNCHANGED <<status, beat, missing>> /\ (pc' = pc \/ pc' # "timeout")
  BY Zenon DEF LoopWait, LoopData, NoData, ReadLine, ReceiveMessage, EventEnd, HBNothing,
     LinkLost, ServerSilent, ServerSends, Tick, vars, link, history
<1>2. AgeType(age') /\ age'["ping"] >= age["ping"]
  <2>1. CASE Tick
    <3>1. AgeType(age) /\ 1 \in Nat
      BY SMT DEF BeatInv
    <3> QED BY <2>1, <3>1, AgeGrown, Zenon DEF Tick
  <2>2. CASE ~Tick
    <3>1. UNCHANGED age
      BY <2>2, Zenon DEF LoopWait, LoopData, NoData, ReadLine, ReceiveMessage, EventEnd, HBNothing,
         LinkLost, ServerSilent, ServerSends, vars
    <3> QED BY <3>1, AgeUnchanged, Zenon
  <2> QED BY <2>1, <2>2
<1> QED BY <1>1, <1>2, BeatSame, Zenon

LEMMA BeatPong == ASSUME BeatInv, ReceivePong \/ HBAnswered PROVE BeatInv'
<1>1. /\ UNCHANGED <<age, pinging>> /\ pc' # "timeout" /\ pongReceived'
      /\ pongTimeoutCount' \in {pongTimeoutCount, 0} /\ missed' \in {missed, 0}
  <2>1. CASE ReceivePong
    BY <2>1, Zenon DEF ReceivePong
  <2>2. CASE HBAnswered
    BY <2>2, Zenon DEF HBAnswered
  <2> QED BY <2>1, <2>2
<1>2. pongTimeoutCount \in Nat /\ missed \in Nat /\ 0 \in Nat /\ AgeType(age)
  BY SMT DEF BeatInv
<1> QED BY <1>1, <1>2, Zenon DEF BeatInv, Answered, OnlyOwnPings

LEMMA BeatPing == ASSUME BeatInv, HandleHBPing \/ AppPing PROVE BeatInv'
<1>1. /\ age' = Now("ping") /\ pinged' /\ pc' # "timeout"
      /\ UNCHANGED <<pongTimeoutCount, missed, status>>
      /\ \/ pongReceived' = FALSE /\ tainted' = (tainted \/ (pongReceived /\ pongTimeoutCount # 0))
         \/ UNCHANGED <<pongReceived, tainted>>
  <2>1. CASE HandleHBPing
    BY <2>1, Zenon DEF HandleHBPing, link
  <2>2. CASE AppPing
    BY <2>2, Zenon DEF AppPing, InApp, link, beat
  <2> QED BY <2>1, <2>2
<1>2. AgeType(age') /\ pongTimeoutCount \in Nat /\ missed \in Nat
  BY <1>1, AgesAfter, Zenon DEF BeatInv
<1>3. pongTimeoutCount = 0 => missed >= pongTimeoutCount
  BY <1>2, SMT
<1>4. status' = "CONNECTED" /\ ~tainted' => Answered'
  <2>1. pongTimeoutCount' = pongTimeoutCount /\ missed' = missed /\ status' = status
    BY <1>1
  <2>2. ~tainted' => ~tainted
    BY <1>1, Zenon
  <2>3. CASE pongReceived' = FALSE /\ tainted' = (tainted \/ (pongReceived /\ pongTimeoutCount # 0))
    BY <1>3, <2>1, <2>2, <2>3, Zenon DEF BeatInv, Answered
  <2>4. CASE UNCHANGED <<pongReceived, tainted>>
    BY <2>1, <2>2, <2>4, Zenon DEF BeatInv, Answered
  <2> QED BY <1>1, <2>3, <2>4
<1>5. pongTimeoutCount' \in Nat /\ missed' \in Nat
  BY <1>1, <1>2, Zenon
<1> QED BY <1>1, <1>2, <1>4, <1>5, Zenon DEF BeatInv, OnlyOwnPings

LEMMA BeatApp == ASSUME BeatInv, AppEnableHeartbeat \/ AppDisableHeartbeat PROVE BeatInv'
<1>1. /\ UNCHANGED <<age, pongTimeoutCount, missed, status, pinged>> /\ pc' = pc
      /\ \/ /\ pinging' /\ ~pongReceived'
            /\ tainted' = (tainted \/ (~pinged /\ age["ping"] <= PingInterval)
                              \/ (pongReceived /\ pongTimeoutCount # 0))
         \/ pinging' = FALSE /\ UNCHANGED <<pongReceived, tainted>>
  <2>1. CASE AppEnableHeartbeat
    BY <2>1, Zenon DEF AppEnableHeartbeat, link
  <2>2. CASE AppDisableHeartbeat
    BY <2>2, Zenon DEF AppDisableHeartbeat, link, history, missing
  <2> QED BY <2>1, <2>2
<1>2. AgeType(age) /\ age["ping"] \in Nat /\ PingInterval \in Nat /\ pongTimeoutCount \in Nat /\ missed \in Nat
  BY CapFacts, SMT DEF BeatInv, AgeType
<1>3. ~(age["ping"] <= PingInterval) => age["ping"] > PingInterval
  BY <1>2, SMT
<1>4. pongTimeoutCount = 0 => missed >= pongTimeoutCount
  BY <1>2, SMT
<1>5. status' = "CONNECTED" /\ ~tainted' => Answered'
  BY <1>1, <1>4, Zenon DEF BeatInv, Answered
<1>6. ~tainted' => OnlyOwnPings'
  BY <1>1, <1>3, Zenon DEF OnlyOwnPings
<1> QED BY <1>1, <1>2, <1>5, <1>6, Zenon DEF BeatInv

LEMMA BeatNext == ASSUME SessionInv, BeatInv, [Next]_vars PROVE BeatInv'
<1>1. ASSUME ReadBlank \/ ReadBody PROVE BeatInv'
  <2>1. CASE ReadBlank
    <3>1. status \in {"HEADER", "BODY"} /\ UNCHANGED beat /\ HeaderEnd(hs, got)
      BY <2>1 DEF ReadBlank
    <3> QED BY <3>1, BeatHeaderEnd
  <2>2. CASE ReadBody
    <3>1. /\ status \in {"HEADER", "BODY"} /\ UNCHANGED beat
          /\ HeaderEnd(ParseLine(hs, Head(inbox)), got \cup {Head(inbox)})
      BY <2>2 DEF ReadBody
    <3> QED BY <3>1, BeatHeaderEnd
  <2> QED BY <1>1, <2>1, <2>2
<1>2. ASSUME HandleHBTimeout PROVE BeatInv'
  BY <1>2, BeatTimeout
<1> QED BY <1>1, <1>2, BeatEnds, BeatGoesOn, BeatPong, BeatPing, BeatApp, Zenon DEF Next, LoopStep, App

(* Only HandleHBTimeout drops a connection at the end of the heartbeat. *)
LEMMA DropsInTimeout ==
  ASSUME SessionInv, BeatInv, [Next]_vars, HeartbeatDrops
  PROVE  tainted \/ missed' >= DisconnectTimeoutCount
<1>1. status' # status /\ status = "CONNECTED" /\ pc \in {"hb", "timeout"} /\ (pc = "hb" => ~Due)
  BY Zenon DEF HeartbeatDrops, AtTimeout
<1>2. HandleHBTimeout
  <2>1. ~(LoopLost \/ LoopWait \/ ConnectFails \/ Connects \/ Mismatch \/ LoopData \/ HeaderTimeout \/ NoData)
    BY <1>1, Zenon DEF LoopLost, LoopWait, ConnectFails, Connects, Mismatch, MayConnect, LoopData,
       HeaderTimeout, NoData, Readable
  <2>2. ~(ReadLine \/ ReadBlank \/ ReadBody \/ ReceiveMessage \/ ReceivePong \/ ReceiveBad \/ EventEnd)
    BY <1>1, Zenon DEF ReadLine, ReadBlank, ReadBody, ReceiveMessage, ReceivePong, ReceiveBad, CanReceive,
       Readable, EventEnd
  <2>3. ~(HandleHBPing \/ HBPingFails \/ HBAnswered \/ HBNothing)
    BY <1>1, Zenon DEF HandleHBPing, HBPingFails, HBAnswered, HBNothing, link
  <2>4. ~(AppBegin \/ AppDisconnect \/ AppPing \/ AppEnableHeartbeat \/ AppDisableHeartbeat)
    BY <1>1, Zenon DEF AppBegin, AppDisconnect, AppPing, AppEnableHeartbeat, AppDisableHeartbeat, InApp, link
  <2>5. ~(LinkLost \/ ServerSilent \/ ServerSends \/ Tick \/ UNCHANGED vars)
    BY <1>1, Zenon DEF LinkLost, ServerSilent, ServerSends, Tick, link, vars
  <2> QED BY <2>1, <2>2, <2>3, <2>4, <2>5, Zenon DEF Next, LoopStep, App
<1> QED BY <1>2, BeatTimeout

(* For any times and any count the heartbeat drops a connection only after *)
(* as many pings of that connection in a row stayed unanswered as the      *)
(* application asked for, unless a tainted timeout was counted.            *)
THEOREM DropNeedsMissesAlways == Spec => DropNeedsMissesUnlessTainted
<1>1. Init => BeatInv
  BY BeatInit
<1>2. SessionInv /\ BeatInv /\ [Next]_vars => BeatInv'
  BY BeatNext
<1>3. SessionInv /\ BeatInv /\ [Next]_vars
      => [HeartbeatDrops => tainted \/ missed' >= DisconnectTimeoutCount]_vars
  BY DropsInTimeout
<1> QED BY <1>1, <1>2, <1>3, SessionInvariant, PTL DEF Spec, DropNeedsMissesUnlessTainted

-----------------------------------------------------------------------------
(* What the flags of the handshake stand for: lines that were read on this *)
(* connection, the Accept since the last request.                          *)
Handshakes == [code : {"", "101", "200"}, upgrade : BOOLEAN, websocket : BOOLEAN,
               accept : {"", "right", "wrong"}, session : BOOLEAN]

Noted(h, lines) ==
  /\ h \in Handshakes
  /\ h.upgrade => "upgrade" \in lines
  /\ h.accept = "right" => "accept" \in lines
  /\ h.code = "" \/ h.code \in lines

Unset(h) == ~h.upgrade /\ h.accept = "" /\ h.code = ""

HandshakeInv == Noted(hs, got) /\ (tcp = "NULL" => Unset(hs))

LEMMA NoHandshakeNoted == \A lines : Noted(NoHandshake, lines) /\ Unset(NoHandshake)
BY Zenon DEF Noted, Unset, NoHandshake, Handshakes

LEMMA UnsetNoted == ASSUME NEW h \in Handshakes, Unset(h), NEW lines PROVE Noted(h, lines)
BY Zenon DEF Noted, Unset

(* handleHeader notes the line that it reads. *)
LEMMA ParsedNoted ==
  ASSUME NEW h, NEW lines, Noted(h, lines), NEW l
  PROVE  Noted(ParseLine(h, l), lines \cup {l})
<1>1. /\ h \in Handshakes /\ (h.upgrade => "upgrade" \in lines)
      /\ (h.accept = "right" => "accept" \in lines) /\ (h.code = "" \/ h.code \in lines)
  BY DEF Noted
<1>2. CASE l \in {"101", "200"}
  BY <1>1, <1>2, Zenon DEF ParseLine, Noted, Handshakes
<1>3. CASE l = "upgrade"
  BY <1>1, <1>3, Zenon DEF ParseLine, Noted, Handshakes
<1>4. CASE l = "websocket"
  BY <1>1, <1>4, Zenon DEF ParseLine, Noted, Handshakes
<1>5. CASE l \in {"accept", "wrong"}
  BY <1>1, <1>5, Zenon DEF ParseLine, Noted, Handshakes
<1>6. CASE l \in {"cookie", "sid"}
  BY <1>1, <1>6, Zenon DEF ParseLine, Noted, Handshakes
<1>7. CASE l \notin {"101", "200", "upgrade", "websocket", "accept", "wrong", "cookie", "sid"}
  <2>1. ParseLine(h, l) = h
    BY <1>7, Zenon DEF ParseLine
  <2> QED BY <1>1, <2>1, Zenon DEF Noted
<1> QED BY <1>2, <1>3, <1>4, <1>5, <1>6, <1>7, Zenon

(* A request starts without an Accept. *)
LEMMA SentNoted ==
  ASSUME NEW h, NEW lines, Noted(h, lines), NEW rest, NEW ws, SendHeader(h, rest, ws)
  PROVE  Noted(hs', lines \ {"accept"})
<1>1. hs' = [h EXCEPT !.accept = IF @ = "" THEN "" ELSE "wrong"]
  BY DEF SendHeader
<1> QED BY <1>1, Zenon DEF Noted, Handshakes

LEMMA HandshakeHeaderEnd ==
  ASSUME NEW h, NEW read, Noted(h, read), tcp # "NULL", HeaderEnd(h, read)
  PROVE  /\ HandshakeInv'
         /\ status' = "CONNECTED" =>
              /\ {"upgrade", "accept"} \subseteq got'
              /\ "101" \in got' \/ (socketio /\ "200" \in got')
<1> DEFINE done == /\ h.upgrade /\ h.websocket /\ h.accept = "right"
                   /\ h.code = "101" \/ (h.code = "200" /\ socketio)
<1>1. ASSUME got' = read, hs' = h, UNCHANGED tcp PROVE HandshakeInv'
  BY <1>1, Zenon DEF HandshakeInv
<1>2. ASSUME hs' = NoHandshake PROVE HandshakeInv'
  BY <1>2, NoHandshakeNoted, Zenon DEF HandshakeInv
<1>3. ASSUME AskAgain(h), got' = read \ {"accept"} PROVE HandshakeInv' /\ status' # "CONNECTED"
  <2>1. PICK k \in 2 .. Len(inbox) + 1 : SendHeader(h, SubSeq(inbox, k, Len(inbox)), TRUE)
    BY <1>3, Zenon DEF AskAgain
  <2>2. Noted(hs', read \ {"accept"})
    BY <2>1, SentNoted, Zenon
  <2>3. status' = "HEADER" /\ UNCHANGED tcp
    BY <1>3, Zenon DEF AskAgain
  <2> QED BY <1>3, <2>2, <2>3, Zenon DEF HandshakeInv
<1>4. \/ AwaitBody(h) /\ got' = read
      \/ HeaderDone(h) /\ got' = read /\ done
      \/ Refuse("HEADER") \/ Refuse("NOT_CONNECTED")
      \/ AskAgain(h) /\ got' = read \ {"accept"}
  BY Zenon DEF HeaderEnd
<1>5. CASE AwaitBody(h) /\ got' = read
  BY <1>1, <1>5, Zenon DEF AwaitBody
<1>6. CASE HeaderDone(h) /\ got' = read /\ done
  <2>1. HandshakeInv'
    BY <1>1, <1>6, Zenon DEF HeaderDone
  <2>2. "upgrade" \in read /\ "accept" \in read /\ ("101" \in read \/ (socketio /\ "200" \in read))
    <3>1. h.code # "" => h.code \in read
      BY Zenon DEF Noted
    <3> QED BY <1>6, <3>1, Zenon DEF Noted
  <2> QED BY <1>6, <2>1, <2>2, Zenon
<1>7. CASE Refuse("HEADER") \/ Refuse("NOT_CONNECTED")
  BY <1>2, <1>7, Zenon DEF Refuse, DisconnectTo
<1>8. CASE AskAgain(h) /\ got' = read \ {"accept"}
  BY <1>3, <1>8, Zenon
<1> QED BY <1>4, <1>5, <1>6, <1>7, <1>8, Zenon

LEMMA HandshakeInit == Init => HandshakeInv
BY NoHandshakeNoted, Zenon DEF Init, HandshakeInv

(* Reading the line that ends the header or the body is the only step to   *)
(* CONNECTED.                                                              *)
Switches ==
  status # "CONNECTED" /\ status' = "CONNECTED" =>
    /\ {"upgrade", "accept"} \subseteq got'
    /\ "101" \in got' \/ (socketio /\ "200" \in got')

LEMMA HandshakeNext ==
  ASSUME SessionInv, HandshakeInv, [Next]_vars PROVE HandshakeInv' /\ Switches
<1>1. CASE ReadBlank
  <2>1. Noted(hs, got) /\ tcp # "NULL" /\ HeaderEnd(hs, got)
    BY <1>1, Zenon DEF ReadBlank, Readable, HandshakeInv
  <2> QED BY <2>1, HandshakeHeaderEnd, Zenon DEF Switches
<1>2. CASE ReadBody
  <2> DEFINE h == ParseLine(hs, Head(inbox))
             read == got \cup {Head(inbox)}
  <2>1. Noted(h, read) /\ tcp # "NULL" /\ HeaderEnd(h, read)
    BY <1>2, ParsedNoted, Zenon DEF ReadBody, Readable, HandshakeInv
  <2> HIDE DEF h, read
  <2> QED BY <2>1, HandshakeHeaderEnd, Zenon DEF Switches
<1>3. CASE ReadLine
  <2>1. Noted(hs', got') /\ tcp # "NULL" /\ UNCHANGED <<status, tcp>>
    BY <1>3, ParsedNoted, Zenon DEF ReadLine, Readable, HandshakeInv
  <2> QED BY <2>1, Zenon DEF HandshakeInv, Switches
<1>4. CASE Connects
  <2>1. SendHeader(hs, <<>>, socketio => hs.session) /\ tcp' = "up" /\ status' = "HEADER" /\ got' = {}
        /\ hs \in Handshakes /\ Unset(hs)
    BY <1>4, Zenon DEF Connects, MayConnect, HandshakeInv, Noted
  <2>2. Noted(hs, {})
    BY <2>1, UnsetNoted, Zenon
  <2>3. Noted(hs', {} \ {"accept"}) /\ {} \ {"accept"} = {}
    BY <2>1, <2>2, SentNoted, Zenon
  <2> QED BY <2>1, <2>3, Zenon DEF HandshakeInv, Switches
<1>5. CASE LoopLost \/ Mismatch \/ HeaderTimeout \/ ReceiveBad \/ HBPingFails \/ AppDisconnect
  <2>1. hs' = NoHandshake /\ status' = "NOT_CONNECTED"
    BY <1>5, Zenon DEF LoopLost, Mismatch, HeaderTimeout, ReceiveBad, HBPingFails, AppDisconnect,
       ClientDisconnect, DisconnectTo
  <2> QED BY <2>1, NoHandshakeNoted, Zenon DEF HandshakeInv, Switches
<1>6. CASE HandleHBTimeout
  <2>1. (hs' = NoHandshake /\ status' = "NOT_CONNECTED") \/ UNCHANGED <<hs, status, tcp, got>>
    BY <1>6, Zenon DEF HandleHBTimeout, ClientDisconnect, DisconnectTo
  <2> QED BY <2>1, NoHandshakeNoted, Zenon DEF HandshakeInv, Switches
<1>7. CASE AppBegin
  <2>1. status' = "NOT_CONNECTED"
        /\ hs' = [NoHandshake EXCEPT !.websocket = TRUE, !.session = hs.session]
    BY <1>7, Zenon DEF AppBegin
  <2>2. hs.session \in BOOLEAN
    BY Zenon DEF HandshakeInv, Noted, Handshakes
  <2>3. hs' \in Handshakes /\ Unset(hs')
    BY <2>1, <2>2, Zenon DEF NoHandshake, Handshakes, Unset
  <2> QED BY <2>1, <2>3, UnsetNoted, Zenon DEF HandshakeInv, Switches
<1>8. CASE ConnectFails
  <2>1. UNCHANGED <<status, hs, got>> /\ tcp = "NULL" /\ tcp' = "down"
    BY <1>8, Zenon DEF ConnectFails, MayConnect
  <2> QED BY <2>1, Zenon DEF HandshakeInv, Switches
<1>9. CASE LinkLost
  <2>1. UNCHANGED <<status, hs, got>> /\ tcp' = "down"
    BY <1>9, Zenon DEF LinkLost, history
  <2> QED BY <2>1, Zenon DEF HandshakeInv, Switches
<1>10. CASE \/ LoopWait \/ LoopData \/ NoData \/ ReceiveMessage \/ ReceivePong \/ EventEnd
            \/ HandleHBPing \/ HBAnswered \/ HBNothing
            \/ AppPing \/ AppEnableHeartbeat \/ AppDisableHeartbeat
            \/ ServerSilent \/ ServerSends \/ Tick \/ UNCHANGED vars
  <2>1. UNCHANGED <<status, tcp, hs, got>>
    BY <1>10, Zenon DEF LoopWait, LoopData, NoData, ReceiveMessage, ReceivePong, EventEnd, HandleHBPing,
       HBAnswered, HBNothing, AppPing, AppEnableHeartbeat, AppDisableHeartbeat, ServerSilent, ServerSends,
       Tick, vars, link, history
  <2> QED BY <2>1, Zenon DEF HandshakeInv, Switches
<1> QED BY <1>1, <1>2, <1>3, <1>4, <1>5, <1>6, <1>7, <1>8, <1>9, <1>10, Zenon DEF Next, LoopStep, App

(* CONNECTED is only reported when the server switched: on this connection *)
(* it sent a status, Upgrade and the Accept of the last request.           *)
THEOREM ServerSwitchedAlways == Spec => ServerSwitched
<1>1. Init => HandshakeInv
  BY HandshakeInit
<1>2. SessionInv /\ HandshakeInv /\ [Next]_vars => HandshakeInv'
  BY HandshakeNext
<1>3. SessionInv /\ HandshakeInv /\ [Next]_vars
      => [status # "CONNECTED" /\ status' = "CONNECTED" =>
            /\ {"upgrade", "accept"} \subseteq got'
            /\ "101" \in got' \/ (socketio /\ "200" \in got')]_vars
  BY HandshakeNext DEF Switches
<1> QED BY <1>1, <1>2, <1>3, SessionInvariant, PTL DEF Spec, ServerSwitched

-----------------------------------------------------------------------------
(* While there is no socket the wait for the next attempt is as long as    *)
(* the calm since the last one ended, except after a mismatch and begin(): *)
(* every other way out of a connection sets _lastConnectionFail.           *)
CalmInv ==
  /\ calm \in Nat
  /\ tcp = "NULL" /\ ~hurry /\ ~renewed => age["fail"] <= calm

(* Initially neither has begun. *)
LEMMA CalmInit == Init => CalmInv
<1> SUFFICES ASSUME Init PROVE CalmInv
  OBVIOUS
<1>1. ReconnectInterval \in Nat
  BY TimesAssumption, SMT
<1>2. "fail" \in DOMAIN Cap /\ age = [k \in DOMAIN Cap |-> 0]
  BY CapFacts, Zenon DEF Init
<1>3. age["fail"] = 0 /\ calm = ReconnectInterval
  BY <1>2, Zenon DEF Init
<1> QED BY <1>1, <1>3, SMT DEF CalmInv

(* The end of a connection starts both. *)
LEMMA CalmEnds == ASSUME calm' = 0, age'["fail"] = 0 PROVE CalmInv'
BY SMT DEF CalmInv

(* Steps that leave both alone, or have a socket. *)
LEMMA CalmSame ==
  ASSUME CalmInv, UNCHANGED waited,
         tcp' # "NULL" \/ (tcp' = tcp /\ age'["fail"] = age["fail"])
  PROVE  CalmInv'
BY Zenon DEF CalmInv, waited

(* Other entries of the ages leave that of the last connection alone.      *)
LEMMA FailKept ==
  ASSUME AgeType(age), NEW k \in DOMAIN Cap, k # "fail", NEW x
  PROVE  [age EXCEPT ![k] = x]["fail"] = age["fail"] /\ "fail" \in DOMAIN age
BY CapFacts, Zenon DEF AgeType

(* What sets the time of the last connection. *)
LEMMA FailZero ==
  ASSUME NEW a, AgeType(a)
  PROVE  [a EXCEPT !["fail"] = 0]["fail"] = 0
BY CapFacts, Zenon DEF AgeType

(* The end of the header. *)
LEMMA CalmHeaderEnd ==
  ASSUME BeatInv, CalmInv, NEW h, NEW read, HeaderEnd(h, read)
  PROVE  CalmInv'
<1>1. AgeType(age) /\ "header" \in DOMAIN Cap
  BY CapFacts, Zenon DEF BeatInv
<1>2. ASSUME NEW st, Refuse(st) PROVE CalmInv'
  BY <1>1, <1>2, CalmEnds, FailZero, Zenon DEF Refuse, DisconnectTo, Now
<1>3. ASSUME HeaderDone(h) \/ AwaitBody(h) PROVE CalmInv'
  BY <1>3, CalmSame, Zenon DEF HeaderDone, AwaitBody
<1>4. ASSUME AskAgain(h) PROVE CalmInv'
  BY <1>1, <1>4, CalmSame, FailKept, Zenon DEF AskAgain, Now
<1> QED BY <1>2, <1>3, <1>4, Zenon DEF HeaderEnd

LEMMA CalmNext == ASSUME BeatInv, CalmInv, [Next]_vars PROVE CalmInv'
<1>1. /\ AgeType(age) /\ {"ping", "header", "fail"} \subseteq DOMAIN Cap
      /\ \A k \in DOMAIN Cap : AgeType(Now(k))
  BY CapFacts, AgeNow, Zenon DEF BeatInv
<1>2. ASSUME LoopLost \/ HeaderTimeout \/ AppDisconnect PROVE CalmInv'
  BY <1>1, <1>2, CalmEnds, FailZero, Zenon
  DEF LoopLost, HeaderTimeout, AppDisconnect, ClientDisconnect, DisconnectTo, Now
<1>3. ASSUME ReceiveBad PROVE CalmInv'
  <2>1. PICK n \in Nat : age' = [Grown(n) EXCEPT !["fail"] = 0]
    BY <1>3, TimesAssumption, SMT DEF ReceiveBad
  <2> QED
    BY <1>1, <1>3, <2>1, AgeGrown, CalmEnds, FailZero, Zenon
    DEF ReceiveBad, ClientDisconnect, DisconnectTo
<1>4. ASSUME HBPingFails PROVE CalmInv'
  <2>1. TcpTimeout + 1 \in Nat
    BY TimesAssumption, SMT
  <2> QED
    BY <1>1, <1>4, <2>1, AgeGrown, CalmEnds, FailZero, Zenon
    DEF HBPingFails, ClientDisconnect, DisconnectTo, Now
<1>5. ASSUME HandleHBTimeout PROVE CalmInv'
  <2> DEFINE forced == [age EXCEPT !["ping"] = Cap["ping"]]
  <2>1. AgeType(forced) /\ forced["fail"] = age["fail"]
    <3>1. Cap["ping"] \in 0 .. Cap["ping"]
      BY CapFacts, SMT
    <3> QED BY <1>1, <3>1, AgeSet, FailKept, Zenon
  <2> HIDE DEF forced
  <2>2. \/ ClientDisconnect /\ age' = [forced EXCEPT !["fail"] = 0]
        \/ age' = forced /\ UNCHANGED <<tcp, waited>>
    BY <1>5, Zenon DEF HandleHBTimeout, forced
  <2> QED
    BY <2>1, <2>2, CalmEnds, CalmSame, FailZero, Zenon DEF ClientDisconnect, DisconnectTo
<1>6. ASSUME ReadBlank \/ ReadBody PROVE CalmInv'
  BY <1>6, CalmHeaderEnd, Zenon DEF ReadBlank, ReadBody
<1>7. ASSUME ConnectFails PROVE CalmInv'
  BY <1>7, SMT DEF ConnectFails, CalmInv
<1>8. ASSUME Mismatch PROVE CalmInv'
  BY <1>8, SMT DEF Mismatch, CalmInv
<1>9. ASSUME AppBegin PROVE CalmInv'
  BY <1>9, Zenon DEF AppBegin, CalmInv
<1>10. ASSUME Tick PROVE CalmInv'
  <2>1. /\ age' = Grown(1) /\ calm' = Least(calm + 1, ReconnectInterval)
        /\ UNCHANGED <<tcp, hurry, renewed>>
    BY <1>10, Zenon DEF Tick, link
  <2>2. age'["fail"] = Least(age["fail"] + 1, ReconnectInterval)
    BY <1>1, <2>1, Zenon DEF Grown, AgeType, Cap
  <2>3. age["fail"] \in Nat /\ ReconnectInterval \in Nat
    BY <1>1, CapFacts, TimesAssumption, SMT DEF AgeType
  <2> QED BY <2>1, <2>2, <2>3, SMT DEF CalmInv, Least
<1>11. ASSUME Connects \/ LinkLost \/ HandleHBPing \/ AppPing PROVE CalmInv'
  <2>1. tcp' \in {"up", "down"} /\ UNCHANGED waited
    BY <1>11, SMT DEF Connects, LinkLost, HandleHBPing, AppPing, ClientIsConnected, link, history
  <2> QED BY <2>1, SMT, CalmSame
<1>12. ASSUME LoopWait \/ LoopData \/ NoData \/ ReadLine \/ ReceiveMessage \/ ReceivePong
              \/ EventEnd \/ HBAnswered \/ HBNothing PROVE CalmInv'
  BY <1>12, CalmSame, Zenon DEF LoopWait, LoopData, NoData, ReadLine, ReceiveMessage, ReceivePong,
     EventEnd, HBAnswered, HBNothing, link, history
<1>13. ASSUME AppEnableHeartbeat \/ AppDisableHeartbeat \/ ServerSilent \/ ServerSends \/ UNCHANGED vars
       PROVE  CalmInv'
  BY <1>13, CalmSame, Zenon DEF AppEnableHeartbeat, AppDisableHeartbeat, ServerSilent, ServerSends,
     link, history, vars
<1> QED
  BY <1>2, <1>3, <1>4, <1>5, <1>6, <1>7, <1>8, <1>9, <1>10, <1>11, <1>12, <1>13, Zenon
  DEF Next, LoopStep, App

(* Only an attempt gets a socket. *)
LEMMA SocketFromAttempt ==
  ASSUME BeatInv, CalmInv, [Next]_vars, tcp = "NULL", tcp' # "NULL"
  PROVE  hurry \/ renewed \/ calm >= ReconnectInterval
<1>1. MayConnect
  <2>1. ~(LoopLost \/ LoopWait \/ Mismatch \/ LoopData \/ HeaderTimeout \/ NoData
          \/ ReadLine \/ ReceiveMessage \/ ReceivePong \/ ReceiveBad \/ EventEnd)
    BY Zenon DEF LoopLost, LoopWait, Mismatch, LoopData, HeaderTimeout, NoData, ReadLine,
       ReceiveMessage, ReceivePong, ReceiveBad, EventEnd, ClientDisconnect, DisconnectTo, link
  <2>2. ~(ReadBlank \/ ReadBody)
    BY Zenon DEF ReadBlank, ReadBody, HeaderEnd, AwaitBody, Refuse, HeaderDone, AskAgain, DisconnectTo
  <2>3. ~(HandleHBPing \/ HBPingFails \/ HBAnswered \/ HBNothing \/ HandleHBTimeout)
    BY Zenon DEF HandleHBPing, HBPingFails, HBAnswered, HBNothing, HandleHBTimeout,
       ClientDisconnect, DisconnectTo, link
  <2>4. ~(App \/ LinkLost \/ ServerSilent \/ ServerSends \/ Tick \/ UNCHANGED vars)
    BY Zenon DEF App, AppBegin, AppDisconnect, AppPing, AppEnableHeartbeat, AppDisableHeartbeat,
       LinkLost, ServerSilent, ServerSends, Tick, ClientDisconnect, DisconnectTo, link, vars
  <2> QED BY <2>1, <2>2, <2>3, <2>4, Zenon DEF Next, LoopStep, ConnectFails, Connects
<1>2. age["fail"] \in Nat /\ ReconnectInterval \in Nat
  BY CapFacts, TimesAssumption, SMT DEF AgeType, BeatInv
<1> QED BY <1>1, <1>2, SMT DEF MayConnect, CalmInv

(* For any times, the server is not flooded: an attempt to connect comes   *)
(* ReconnectInterval after the last one ended, except after a certificate  *)
(* mismatch and when the application called begin() since.                 *)
THEOREM NoFloodAlways == Spec => NoFloodUnlessMismatchOrBegin
<1>1. Init => BeatInv /\ CalmInv
  BY BeatInit, CalmInit
<1>2. SessionInv /\ BeatInv /\ CalmInv /\ [Next]_vars => BeatInv' /\ CalmInv'
  BY BeatNext, CalmNext
<1>3. BeatInv /\ CalmInv /\ [Next]_vars
      => [tcp = "NULL" /\ tcp' # "NULL" => hurry \/ renewed \/ calm >= ReconnectInterval]_vars
  BY SocketFromAttempt
<1> QED BY <1>1, <1>2, <1>3, SessionInvariant, PTL DEF Spec, NoFloodUnlessMismatchOrBegin
=============================================================================
