------------------------- MODULE AsyncClient_proofs -------------------------
(***************************************************************************)
(* For any number of connections and any traffic: what the application may *)
(* rely on while it waits, before it connects again, until everything of   *)
(* the last connection is dispatched, while no FIN overtakes CONNECTED and *)
(* no event is posted into a rotation for another client (Calm).  The      *)
(* connection made last is then the only one that matters.                 *)
(***************************************************************************)
EXTENDS AsyncClient, SequenceTheorems, TLAPS

Conn == [state : States, hooked : BOOLEAN]

(***************************************************************************)
(* Sequences as queues, and connections.                                   *)
(***************************************************************************)

(* An event put in its place among those of the queue. *)
LEMMA InsertedProperties ==
    ASSUME queue \in Seq(Packet), NEW e \in Packet, NEW i \in 0..Len(queue)
    PROVE  /\ Inserted(i, e) \in Seq(Packet) /\ Len(Inserted(i, e)) = Len(queue) + 1
           /\ i = 0 => Inserted(i, e) = <<e>> \o queue
           /\ i = Len(queue) => Inserted(i, e) = Append(queue, e)
<1> DEFINE s == SubSeq(queue, 1, i)  t == SubSeq(queue, i + 1, Len(queue))
<1>1. s \in Seq(Packet) /\ t \in Seq(Packet) /\ Len(s) = i /\ Len(t) = Len(queue) - i
  OBVIOUS
<1>2. Inserted(i, e) = (s \o <<e>>) \o t
  BY DEF Inserted
<1>3. i = 0 => s = <<>> /\ t = queue
  OBVIOUS
<1>4. i = Len(queue) => s = queue /\ t = <<>>
  OBVIOUS
<1> HIDE DEF s, t
<1>5. (s \o <<e>>) \o t \in Seq(Packet) /\ Len((s \o <<e>>) \o t) = Len(queue) + 1
  BY <1>1
<1>6. ASSUME i = 0 PROVE Inserted(i, e) = <<e>> \o queue
  BY <1>2, <1>3, <1>6
<1>7. ASSUME i = Len(queue) PROVE Inserted(i, e) = Append(queue, e)
  <2>1. (queue \o <<e>>) \o <<>> = Append(queue, e)
    OBVIOUS
  <2> QED BY <1>2, <1>4, <1>7, <2>1
<1> QED BY <1>2, <1>5, <1>6, <1>7

(* Unless it is posted into a rotation an event comes first or last.       *)
LEMMA SentInOrder ==
    ASSUME TypeOK, NEW e \in Packet, ~mixed'
    PROVE  /\ SendFront(e) => queue' = <<e>> \o queue
           /\ SendBack(e) => queue' = Append(queue, e)
<1>1. /\ queue \in Seq(Packet) /\ Len(queue) \in Nat
      /\ moved \in Nat /\ hand \in {0, 1} /\ moved + hand <= Len(queue)
  BY DEF TypeOK
<1>2. ASSUME SendFront(e) PROVE queue' = <<e>> \o queue
  <2>1. moved + hand = 0 /\ queue' = Inserted(0, e)
    BY <1>2 DEF SendFront
  <2> QED BY <1>1, <2>1, InsertedProperties
<1>3. ASSUME SendBack(e) PROVE queue' = Append(queue, e)
  <2>1. queue' = Inserted(Len(queue), e)
    BY <1>3 DEF SendBack
  <2>2. \A i \in 0..Len(queue) : i = Len(queue) => Inserted(i, e) = Append(queue, e)
    BY <1>1, InsertedProperties
  <2>3. Len(queue) \in 0..Len(queue)
    BY <1>1
  <2> QED BY <2>1, <2>2, <2>3
<1> QED BY <1>2, <1>3

(* An event put in front of the queue. *)
LEMMA FrontProperties ==
    ASSUME queue \in Seq(Packet), NEW e \in Packet, queue' = <<e>> \o queue
    PROVE  /\ queue' \in Seq(Packet) /\ queue' # <<>> /\ queue'[1] = e
           /\ Len(queue) \in Nat /\ Len(queue') = Len(queue) + 1
           /\ DOMAIN queue = 1..Len(queue) /\ DOMAIN queue' = 1..Len(queue')
           /\ \A i \in DOMAIN queue' : i # 1 => i - 1 \in DOMAIN queue /\ queue'[i] = queue[i - 1]
           /\ Range(queue') = Range(queue) \cup {e}
<1>1. /\ queue' \in Seq(Packet) /\ queue' # <<>> /\ queue'[1] = e
      /\ Len(queue) \in Nat /\ Len(queue') = Len(queue) + 1
      /\ DOMAIN queue = 1..Len(queue) /\ DOMAIN queue' = 1..Len(queue')
      /\ \A i \in DOMAIN queue' : i # 1 => i - 1 \in DOMAIN queue /\ queue'[i] = queue[i - 1]
      /\ \A i \in DOMAIN queue : i + 1 \in DOMAIN queue' /\ queue'[i + 1] = queue[i]
  OBVIOUS
<1>2. 1 \in DOMAIN queue'
  BY <1>1
<1>3. Range(queue') = Range(queue) \cup {e}
  BY ONLY <1>1, <1>2 DEF Range
<1> QED BY <1>1, <1>3

(* An event put behind the queue. *)
LEMMA BackProperties ==
    ASSUME queue \in Seq(Packet), NEW e \in Packet, queue' = Append(queue, e)
    PROVE  /\ queue' \in Seq(Packet) /\ queue' # <<>>
           /\ Len(queue) \in Nat /\ Len(queue') = Len(queue) + 1
           /\ DOMAIN queue = 1..Len(queue) /\ DOMAIN queue' = 1..Len(queue')
           /\ queue'[Len(queue')] = e
           /\ \A i \in DOMAIN queue : i \in DOMAIN queue' /\ queue'[i] = queue[i]
           /\ Range(queue') = Range(queue) \cup {e}
  BY DEF Range

(* The head taken from the queue. *)
LEMMA TailProperties ==
    ASSUME queue \in Seq(Packet), queue # <<>>, queue' = Tail(queue)
    PROVE  /\ Head(queue) \in Packet /\ queue' \in Seq(Packet) /\ Head(queue) = queue[1]
           /\ 1 \in DOMAIN queue /\ Len(queue) = Len(queue') + 1 /\ Len(queue') \in Nat
           /\ DOMAIN queue = 1..Len(queue) /\ DOMAIN queue' = 1..Len(queue')
           /\ \A i \in DOMAIN queue' : i + 1 \in DOMAIN queue /\ queue'[i] = queue[i + 1]
           /\ Range(queue) = Range(queue') \cup {Head(queue)}
<1>1. /\ Head(queue) \in Packet /\ queue' \in Seq(Packet) /\ Head(queue) = queue[1]
      /\ 1 \in DOMAIN queue /\ Len(queue) = Len(queue') + 1 /\ Len(queue') \in Nat
      /\ DOMAIN queue = 1..Len(queue) /\ DOMAIN queue' = 1..Len(queue')
      /\ \A i \in DOMAIN queue' : i + 1 \in DOMAIN queue /\ queue'[i] = queue[i + 1]
      /\ \A i \in DOMAIN queue : i # 1 => i - 1 \in DOMAIN queue' /\ queue[i] = queue'[i - 1]
  OBVIOUS
<1>2. Range(queue) = Range(queue') \cup {Head(queue)}
  BY ONLY <1>1 DEF Range
<1> QED BY <1>1, <1>2

(* What is done to one connection leaves the others alone. *)
LEMMA ConnProperties ==
    ASSUME conns \in Seq(Conn), NEW p \in Conns
    PROVE  /\ conns[p] \in Conn
           /\ \A c \in Conn : LET r == [conns EXCEPT ![p] = c] IN
                /\ r \in Seq(Conn) /\ Len(r) = Len(conns) /\ r[p] = c
                /\ \A q \in Conns : q # p => r[q] = conns[q]
           /\ \A s \in States : /\ State(p, s) \in Seq(Conn) /\ Len(State(p, s)) = Len(conns)
                                /\ State(p, s)[p] = [state |-> s, hooked |-> conns[p].hooked]
                                /\ \A q \in Conns : q # p => State(p, s)[q] = conns[q]
           /\ Unhook(p) \in Seq(Conn) /\ Len(Unhook(p)) = Len(conns)
           /\ Unhook(p)[p] = [state |-> conns[p].state, hooked |-> FALSE]
           /\ \A q \in Conns : q # p => Unhook(p)[q] = conns[q]
<1>1. conns[p] \in Conn /\ DOMAIN conns = Conns
  BY DEF Conns
<1>2. ASSUME NEW c \in Conn, NEW r, r = [conns EXCEPT ![p] = c]
      PROVE  /\ r \in Seq(Conn) /\ Len(r) = Len(conns) /\ r[p] = c
             /\ \A q \in Conns : q # p => r[q] = conns[q]
  BY <1>2 DEF Conns
<1>3. ASSUME NEW s \in States
      PROVE  /\ [state |-> s, hooked |-> conns[p].hooked] \in Conn
             /\ State(p, s) = [conns EXCEPT ![p] = [state |-> s, hooked |-> conns[p].hooked]]
  <2> DEFINE c == conns[p]
  <2>1. c \in [state : States, hooked : BOOLEAN]
    BY <1>1 DEF Conn
  <2> HIDE DEF c
  <2>2. [c EXCEPT !.state = s] = [state |-> s, hooked |-> c.hooked]
    BY <2>1
  <2>3. [state |-> s, hooked |-> c.hooked] \in Conn
    BY <2>1 DEF Conn
  <2>4. State(p, s) = [conns EXCEPT ![p] = [c EXCEPT !.state = s]]
    BY DEF State, c
  <2> QED BY <2>2, <2>3, <2>4 DEF c
<1>4. /\ [state |-> conns[p].state, hooked |-> FALSE] \in Conn
      /\ Unhook(p) = [conns EXCEPT ![p] = [state |-> conns[p].state, hooked |-> FALSE]]
  <2> DEFINE c == conns[p]
  <2>1. c \in [state : States, hooked : BOOLEAN]
    BY <1>1 DEF Conn
  <2> HIDE DEF c
  <2>2. [c EXCEPT !.hooked = FALSE] = [state |-> c.state, hooked |-> FALSE]
    <3>1. ASSUME NEW h PROVE [c EXCEPT !.hooked = h] = [state |-> c.state, hooked |-> h]
      BY <2>1
    <3> QED BY <3>1, Zenon
  <2>3. [state |-> c.state, hooked |-> FALSE] \in Conn
    BY <2>1 DEF Conn
  <2>4. Unhook(p) = [conns EXCEPT ![p] = [c EXCEPT !.hooked = FALSE]]
    BY DEF Unhook, c
  <2> QED BY <2>2, <2>3, <2>4 DEF c
<1> QED BY <1>1, <1>2, <1>3, <1>4

-----------------------------------------------------------------------------
(***************************************************************************)
(* Types                                                                   *)
(***************************************************************************)

(* What E makes is an event packet.                                       *)
LEMMA PacketType ==
    ASSUME NEW k \in Events, NEW p \in {0} \cup Conns
    PROVE  E(k, p) \in Packet /\ E(k, p).event = k /\ E(k, p).conn = p
BY DEF E, Packet

(* The parts of an event packet.                                          *)
LEMMA PacketFields ==
    ASSUME NEW e \in Packet
    PROVE  e.event \in Events /\ e.conn \in {0} \cup Conns
BY DEF Packet

(* Events and connections stay what they are when the client opens another.*)
LEMMA MoreConns ==
    ASSUME TypeOK, conns' \in Seq(Conn), Len(conns') >= Len(conns)
    PROVE  /\ Conns \subseteq Conns' /\ Packet \subseteq Packet'
           /\ Seq(Packet) \subseteq Seq(Packet')
<1>1. Conns \subseteq Conns'
  BY DEF TypeOK, Conns
<1>2. Packet \subseteq Packet'
  BY <1>1 DEF Packet
<1>3. Seq(Packet) \subseteq Seq(Packet')
  BY <1>2, SeqMonotonic
<1> QED BY <1>1, <1>2, <1>3

(* How far a rotation is; _close is called in a handler.                  *)
Turning ==
    /\ turns \in Nat
    /\ moved \in Nat /\ hand \in {0, 1} /\ moved + hand <= Len(queue)
    /\ task = "first" => moved = 0
    /\ ~(task \in {"first", "turn"}) => moved = 0 /\ hand = 0
    /\ closing["task"] # "no" => task = "handle"

(* The types of TypeOK, one variable at a time.                           *)
LEMMA TypeParts ==
    ASSUME TypeOK
    PROVE  /\ conns \in Seq(Conn) /\ Len(conns) \in Nat /\ pcb \in {0} \cup Conns
           /\ queue \in Seq(Packet) /\ posting \in {<<>>} \cup {<<e>> : e \in Packet}
           /\ task \in {"get", "first", "turn", "clear", "handle"} /\ event \in Packet
           /\ Turning /\ closing \in [Threads -> {"no", "api", "end"}]
           /\ dns \in BOOLEAN /\ view \in {"down", "wait", "up"}
           /\ early \subseteq Conns /\ left \subseteq {0} \cup Conns
           /\ lost \in BOOLEAN /\ hasty \in BOOLEAN /\ mixed \in BOOLEAN
           /\ stale \in BOOLEAN
BY DEF TypeOK, Conn, Turning

(* Where a rotation is stays possible when it does not move, or there is   *)
(* none.                                                                   *)
LEMMA TurningKept ==
    ASSUME TypeOK, UNCHANGED rotation, Len(queue') \in Nat,
           UNCHANGED <<queue, task>> \/ ~(task \in {"first", "turn"}),
           closing'["task"] # "no" => closing["task"] # "no" /\ task' = task
    PROVE  Turning'
BY DEF TypeOK, Turning, rotation

(* A step that keeps the connections' types, the queue's and the posted    *)
(* event's keeps every type, if the small variables do.                    *)
LEMMA TypeFrame ==
    ASSUME TypeOK, conns' \in Seq(Conn), Len(conns') >= Len(conns),
           queue' \in Seq(Packet), posting' \in {<<>>} \cup {<<e>> : e \in Packet},
           event' \in Packet, pcb' \in {0} \cup Conns,
           task' \in {"get", "first", "turn", "clear", "handle"}, Turning',
           closing' \in [Threads -> {"no", "api", "end"}],
           dns' \in BOOLEAN, view' \in {"down", "wait", "up"},
           early' \subseteq Conns, left' \subseteq {0} \cup Conns,
           lost' \in BOOLEAN, hasty' \in BOOLEAN, mixed' \in BOOLEAN, stale' \in BOOLEAN
    PROVE  TypeOK'
<1>1. /\ Conns \subseteq Conns' /\ Packet \subseteq Packet'
      /\ Seq(Packet) \subseteq Seq(Packet')
  BY MoreConns
<1>2. {<<e>> : e \in Packet} \subseteq {<<e>> : e \in Packet'}
  BY <1>1
<1> QED BY <1>1, <1>2 DEF TypeOK, Conn, Turning

(* Sending an event keeps the types of what it changes.                   *)
LEMMA SentType ==
    ASSUME TypeOK, NEW e \in Packet, SendFront(e) \/ SendBack(e),
           task' = task \/ (~(task \in {"first", "turn"}) /\ SendFront(e)),
           closing'["task"] # "no" => task' = "handle"
    PROVE  queue' \in Seq(Packet) /\ Turning' /\ mixed' \in BOOLEAN
<1>1. /\ queue \in Seq(Packet) /\ Len(queue) \in Nat /\ turns \in Nat
      /\ moved \in Nat /\ hand \in {0, 1} /\ moved + hand <= Len(queue)
      /\ task = "first" => moved = 0
      /\ ~(task \in {"first", "turn"}) => moved = 0 /\ hand = 0
  BY DEF TypeOK
<1>2. \A i \in 0..Len(queue) :
         Inserted(i, e) \in Seq(Packet) /\ Len(Inserted(i, e)) = Len(queue) + 1
  BY <1>1, InsertedProperties
<1>3. moved \in 0..Len(queue) /\ moved + hand \in 0..Len(queue) /\ Len(queue) \in 0..Len(queue)
  BY <1>1
<1>4. CASE SendFront(e)
  <2>1. queue' = Inserted(moved + hand, e) /\ UNCHANGED <<moved, hand, turns>>
        /\ mixed' \in BOOLEAN
    BY <1>4 DEF SendFront, rotation
  <2>2. queue' \in Seq(Packet) /\ Len(queue') = Len(queue) + 1
    BY <1>2, <1>3, <2>1
  <2> QED BY <1>1, <2>1, <2>2 DEF Turning
<1>5. CASE SendBack(e) /\ task' = task
  <2>1. /\ queue' = IF task = "turn" THEN Inserted(moved, e) ELSE Inserted(Len(queue), e)
        /\ moved' = IF task = "turn" THEN moved + 1 ELSE moved
        /\ hand' = hand /\ turns' = turns /\ mixed' \in BOOLEAN
    BY <1>5 DEF SendBack
  <2>2. queue' \in Seq(Packet) /\ Len(queue') = Len(queue) + 1
    BY <1>2, <1>3, <2>1
  <2> QED BY <1>1, <1>5, <2>1, <2>2 DEF Turning
<1> QED BY <1>4, <1>5

(* Detaching the callbacks keeps the types.                               *)
LEMMA DetachType ==
    ASSUME TypeOK, NEW t \in Threads, Detach(t), t = "task" => task = "handle"
    PROVE  TypeOK'
<1>0. conns \in Seq(Conn) /\ Len(conns) \in Nat /\ pcb \in Conns /\ Nothing \in Packet
  BY PacketType DEF TypeOK, Conn, Nothing, Events, Detach
<1>1. conns' \in Seq(Conn) /\ Len(conns') = Len(conns)
  BY <1>0, ConnProperties DEF Detach
<1>3. /\ closing' \in [Threads -> {"no", "api", "end"}]
      /\ closing'["task"] # "no" => task' = "handle"
  BY DEF Detach, TypeOK, Threads
<1>2. queue' \in Seq(Packet) /\ Turning' /\ mixed' \in BOOLEAN
  BY <1>0, <1>3, SentType DEF Detach
<1> QED BY <1>0, <1>1, <1>2, <1>3, TypeFrame, TypeParts, TurningKept DEF Detach, history

(* Aborting a connection keeps the types of what it changes.              *)
LEMMA AbortType ==
    ASSUME TypeOK, NEW p \in Conns, Abort(p)
    PROVE  /\ conns' \in Seq(Conn) /\ Len(conns') = Len(conns) /\ pcb' = 0
           /\ posting' \in {<<>>} \cup {<<e>> : e \in Packet}
<1>1. conns' \in Seq(Conn) /\ Len(conns') = Len(conns)
  BY ConnProperties DEF Abort, TypeOK, Conn, States
<1>2. E("ERROR", p) \in Packet
  BY PacketType DEF Events
<1> QED BY <1>1, <1>2 DEF Abort

(* connect, close and abort keep the types.                               *)
LEMMA CallsOfTheApplicationType ==
    ASSUME TypeOK, AppConnect \/ AppClose \/ AppAbort
    PROVE  TypeOK'
<1>0. conns \in Seq(Conn) /\ Len(conns) \in Nat /\ (pcb # 0 => pcb \in Conns)
      /\ Nothing \in Packet
  BY PacketType DEF TypeOK, Conn, Nothing, Events
<1>1. CASE AppConnect
  <2>1. conns' \in Seq(Conn) /\ Len(conns') >= Len(conns)
    <3>1. CASE UNCHANGED conns
      BY <1>0, <3>1
    <3>2. CASE conns' = Append(conns, [state |-> "syn", hooked |-> TRUE])
      <4>1. [state |-> "syn", hooked |-> TRUE] \in Conn
        BY DEF Conn, States
      <4> QED BY <1>0, <3>2, <4>1
    <3> QED BY <1>1, <3>1, <3>2 DEF AppConnect, Connecting
  <2>2. lost' \in BOOLEAN /\ dns' \in BOOLEAN /\ hasty' \in BOOLEAN
    BY <1>1 DEF AppConnect, Connecting, TypeOK
  <2> QED BY <1>1, <2>1, <2>2, TypeFrame, TypeParts, TurningKept DEF AppConnect
<1>2. CASE AppClose
  BY <1>2, DetachType DEF AppClose, Threads
<1>3. CASE AppAbort
  <2>1. /\ conns' \in Seq(Conn) /\ Len(conns') = Len(conns) /\ pcb' = 0
        /\ posting' \in {<<>>} \cup {<<e>> : e \in Packet}
    BY <1>0, <1>3, AbortType DEF AppAbort
  <2> QED BY <1>3, <2>1, TypeFrame, TypeParts, TurningKept DEF AppAbort, history
<1> QED BY <1>1, <1>2, <1>3

(* Both parts of _close keep the types.                                   *)
LEMMA CloseType ==
    ASSUME TypeOK, NEW t \in Threads, CloseApi(t) \/ CloseEnd(t)
    PROVE  TypeOK'
<1>0. conns \in Seq(Conn) /\ Len(conns) \in Nat /\ (pcb # 0 => pcb \in Conns)
  BY DEF TypeOK, Conn
<1>1. closing' \in [Threads -> {"no", "api", "end"}]
  BY DEF CloseApi, CloseEnd, TypeOK
<1>2. CASE CloseApi(t)
  <2>1. /\ conns' \in Seq(Conn) /\ Len(conns') = Len(conns) /\ pcb' \in {0} \cup Conns
        /\ posting' \in {<<>>} \cup {<<e>> : e \in Packet}
    <3>1. CASE pcb = 0 /\ UNCHANGED <<conns, pcb, posting>>
      BY <1>0, <3>1 DEF TypeOK
    <3>2. CASE pcb # 0 /\ conns' = State(pcb, "gone") /\ UNCHANGED <<pcb, posting>>
      BY <1>0, <3>2, ConnProperties DEF TypeOK, States
    <3>3. CASE pcb # 0 /\ Abort(pcb)
      BY <1>0, <3>3, AbortType
    <3> QED BY <1>2, <3>1, <3>2, <3>3 DEF CloseApi
  <2> QED BY <1>1, <1>2, <2>1, TypeFrame, TypeParts, TurningKept DEF CloseApi, Threads, history
<1>3. CASE CloseEnd(t)
  <2>1. /\ task' \in {"get", "first", "turn", "clear", "handle"} /\ left' \subseteq {0} \cup Conns
        /\ Turning'
    BY <1>3, PacketFields DEF CloseEnd, TypeOK, Turning, rotation, Threads
  <2> QED BY <1>0, <1>1, <1>3, <2>1, TypeFrame, TypeParts, TurningKept DEF CloseEnd
<1> QED BY <1>2, <1>3

(* The steps of the lwIP thread keep the types.                           *)
LEMMA LwipType ==
    ASSUME TypeOK, (\E p \in Conns : Lwip(p)) \/ DnsFound \/ Post
    PROVE  TypeOK'
<1>0. conns \in Seq(Conn) /\ Len(conns) \in Nat
  BY DEF TypeOK, Conn
<1>1. ASSUME NEW p \in Conns, SynAck(p) PROVE TypeOK'
  <2>1. conns' \in Seq(Conn) /\ Len(conns') = Len(conns)
    BY <1>0, <1>1, ConnProperties DEF SynAck, States
  <2>2. E("CONNECTED", p) \in Packet
    BY PacketType DEF Events
  <2> QED BY <1>1, <2>1, <2>2, TypeFrame, TypeParts, TurningKept DEF SynAck, Callback, history
<1>2. ASSUME NEW p \in Conns, Report(p) PROVE TypeOK'
  <2>1. E("RECV", p) \in Packet /\ E("POLL", p) \in Packet
    BY PacketType DEF Events
  <2> QED BY <1>0, <1>2, <2>1, TypeFrame, TypeParts, TurningKept DEF Report, Callback, history
<1>3. ASSUME NEW p \in Conns, Fin(p) PROVE TypeOK'
  <2>1. conns' \in Seq(Conn) /\ Len(conns') = Len(conns)
    <3>1. [state |-> "gone", hooked |-> FALSE] \in Conn
      BY DEF Conn, States
    <3>2. CASE conns' = [conns EXCEPT ![p] = [state |-> "gone", hooked |-> FALSE]]
      BY <1>0, <3>1, <3>2, ConnProperties
    <3>3. CASE conns' = State(p, "gone") \/ conns' = State(p, "half")
      <4>1. {"gone", "half"} \subseteq States
        BY DEF States
      <4>2. \A t \in States : State(p, t) \in Seq(Conn) /\ Len(State(p, t)) = Len(conns)
        BY <1>0, <1>3, ConnProperties
      <4> QED BY <3>3, <4>1, <4>2
    <3> QED BY <1>3, <3>2, <3>3 DEF Fin
  <2>2. E("FIN", p) \in Packet
    BY PacketType DEF Events
  <2>3. posting' \in {<<>>} \cup {<<e>> : e \in Packet}
    BY <1>3, <2>2 DEF Fin, Callback, TypeOK
  <2>4. pcb' \in {0} \cup Conns /\ early' \subseteq Conns
    BY <1>3 DEF Fin, TypeOK
  <2> QED BY <1>3, <2>1, <2>3, <2>4, TypeFrame, TypeParts, TurningKept DEF Fin
<1>4. ASSUME NEW p \in Conns, Reset(p) PROVE TypeOK'
  <2>1. conns' \in Seq(Conn) /\ Len(conns') = Len(conns)
    BY <1>0, <1>4, ConnProperties DEF Reset, States
  <2>2. E("ERROR", p) \in Packet
    BY PacketType DEF Events
  <2>3. posting' \in {<<>>} \cup {<<e>> : e \in Packet}
    BY <1>4, <2>2 DEF Reset, Callback, TypeOK
  <2> QED BY <1>4, <2>1, <2>3, TypeFrame, TypeParts, TurningKept DEF Reset, history
<1>5. CASE DnsFound
  <2>1. E("DNS", 0) \in Packet
    BY PacketType DEF Events
  <2>2. posting' \in {<<>>} \cup {<<e>> : e \in Packet}
    BY <1>5, <2>1 DEF DnsFound, Callback
  <2>3. dns' \in BOOLEAN
    BY <1>5 DEF DnsFound
  <2> QED BY <1>0, <1>5, <2>2, <2>3, TypeFrame, TypeParts, TurningKept DEF DnsFound, history
<1>6. CASE Post
  <2>1. posting[1] \in Packet
    BY <1>6 DEF Post, TypeOK
  <2>2. queue' \in Seq(Packet) /\ Turning' /\ mixed' \in BOOLEAN
    <3>1. PICK e \in Packet : SendFront(e) \/ SendBack(e)
      BY <1>6, <2>1 DEF Post
    <3>2. task' = task /\ (closing'["task"] # "no" => task' = "handle")
      BY <1>6 DEF Post, TypeOK
    <3> QED BY <3>1, <3>2, SentType
  <2> QED BY <1>0, <1>6, <2>2, TypeFrame, TypeParts, TurningKept DEF Post, history
<1> QED BY <1>1, <1>2, <1>3, <1>4, <1>5, <1>6 DEF Lwip

(* The steps of the service task keep the types.                          *)
LEMMA ServiceType ==
    ASSUME TypeOK, Service
    PROVE  TypeOK'
<1>0. conns \in Seq(Conn) /\ Len(conns) \in Nat /\ (pcb # 0 => pcb \in Conns)
      /\ event.conn \in {0} \cup Conns
  BY PacketFields DEF TypeOK, Conn
<1>1. CASE Get
  <2>1. Head(queue) \in Packet /\ Tail(queue) \in Seq(Packet) /\ <<>> \in Seq(Packet)
    BY <1>1 DEF Get, TypeOK
  <2>2. queue' \in Seq(Packet) /\ stale' \in BOOLEAN
        /\ task' \in {"get", "first", "turn", "clear", "handle"}
    BY <1>1, <2>1 DEF Get, TypeOK
  <2>3. Turning'
    <3>1. Len(queue') \in Nat /\ UNCHANGED rotation /\ task = "get" /\ closing'["task"] = "no"
      BY <1>1, <2>2 DEF Get, TypeOK
    <3> QED BY <3>1, TurningKept
  <2> QED BY <1>0, <1>1, <2>1, <2>2, <2>3, TypeFrame, TypeParts DEF Get
<1>2. CASE ClearDrop
  <2>1. Tail(queue) \in Seq(Packet)
    BY <1>2 DEF ClearDrop, TypeOK
  <2> QED BY <1>0, <1>2, <2>1, TypeFrame, TypeParts, TurningKept DEF ClearDrop, history
<1>3. CASE ClearEnd \/ Seen
  <2>1. /\ closing["task"] = "no" /\ task \in {"clear", "handle"} /\ Len(queue) \in Nat
        /\ UNCHANGED <<queue, rotation, closing>>
    BY <1>3 DEF ClearEnd, Seen, Handle, TypeOK
  <2>2. Turning'
    BY <2>1, TurningKept
  <2> QED BY <1>0, <1>3, <2>2, TypeFrame, TypeParts DEF ClearEnd, Seen, history
<1>4. CASE Connected
  BY <1>0, <1>4, TypeFrame, TypeParts, TurningKept DEF Connected, Handle, history
<1>5. CASE TaskClose
  BY <1>5, DetachType DEF TaskClose, Threads, Handle
<1>6. CASE Error
  <2>1. conns' \in Seq(Conn) /\ Len(conns') = Len(conns)
    BY <1>0, <1>6, ConnProperties DEF Error
  <2> QED BY <1>0, <1>6, <2>1, TypeFrame, TypeParts, TurningKept DEF Error, Handle
<1>7. CASE FinSeen
  <2>1. Nothing \in Packet
    BY PacketType DEF Nothing, Events
  <2>2. queue' \in Seq(Packet) /\ Turning' /\ mixed' \in BOOLEAN
    BY <1>7, <2>1, SentType DEF FinSeen, Handle
  <2> QED BY <1>0, <1>7, <2>2, TypeFrame, TypeParts, TurningKept DEF FinSeen
<1>8. CASE Dns
  <2>1. conns' \in Seq(Conn) /\ Len(conns') >= Len(conns)
    <3>1. CASE UNCHANGED conns
      BY <1>0, <3>1
    <3>2. CASE conns' = Append(conns, [state |-> "syn", hooked |-> TRUE])
      <4>1. [state |-> "syn", hooked |-> TRUE] \in Conn
        BY DEF Conn, States
      <4> QED BY <1>0, <3>2, <4>1
    <3> QED BY <1>8, <3>1, <3>2 DEF Dns, Connecting
  <2>2. lost' \in BOOLEAN /\ view' \in {"down", "wait", "up"}
    BY <1>8 DEF Dns, Connecting, TypeOK
  <2> QED BY <1>8, <2>1, <2>2, TypeFrame, TypeParts, TurningKept DEF Dns, Handle
<1>9. CASE CloseApi("task") \/ CloseEnd("task")
  BY <1>9, CloseType DEF Threads
<1>10. CASE Rotate
  <2>1. Turning' /\ task' \in {"get", "first", "turn"} /\ UNCHANGED queue
    BY <1>10, TypeParts DEF Rotate, RotateBegin, RotateFirst, RotateTake, RotateSend, RotateEnd,
       Turning
  <2> QED BY <1>0, <1>10, <2>1, TypeFrame, TypeParts DEF Rotate, RotateBegin, RotateFirst,
          RotateTake, RotateSend, RotateEnd, history
<1> QED BY <1>1, <1>2, <1>3, <1>4, <1>5, <1>6, <1>7, <1>8, <1>9, <1>10 DEF Service

(* Every step keeps every type. *)
LEMMA TypeStep == TypeOK /\ [Next]_vars => TypeOK'
<1> SUFFICES ASSUME TypeOK, [Next]_vars PROVE TypeOK'
  OBVIOUS
<1>1. CASE CloseApi("app") \/ CloseEnd("app")
  BY <1>1, CloseType DEF Threads
<1>2. CASE UNCHANGED vars
  BY <1>2 DEF vars, history, rotation, TypeOK, Packet, Conns
<1> QED BY <1>1, <1>2, CallsOfTheApplicationType, LwipType, ServiceType DEF Next

-----------------------------------------------------------------------------
(***************************************************************************)
(* The inductive invariant of an application that waits.                   *)
(***************************************************************************)

(* The application waited before it connected, no FIN was early, and no    *)
(* event was posted out of its order.                                      *)
Calm == early = {} /\ ~hasty /\ ~mixed

Last == Len(conns)
Dead == \A p \in Conns : conns[p].state = "gone"
InFlight == Range(queue) \cup Range(posting) \cup (IF task = "handle" THEN {event} ELSE {})
Some(k) == \E e \in InFlight : e.event = k
Final == {"ERROR", "FIN"}
Clearing == Some("CLEAR") \/ task = "clear"

(* Only the last connection can be alive, and every event is of it.        *)
Single ==
    /\ \A p \in Conns : conns[p].state # "half" /\ (p # Last => conns[p].state = "gone")
    /\ pcb \in {0, Last}
    /\ \A e \in InFlight :
         IF e.event \in {"DNS", "CLEAR"} THEN e.conn = 0 ELSE e.conn = Last /\ Last # 0

(* What the application was told agrees with _pcb: nothing is being closed *)
(* or cleared while it waits, and nothing is alive when it is down.        *)
Told ==
    /\ view = "wait" => pcb = 0 /\ ~Closing /\ ~Clearing
    /\ view = "down" => pcb = 0 /\ Dead

(* Until SYN is acknowledged the connection is only polled.                *)
Starting ==
    Last # 0 /\ conns[Last].state = "syn" =>
        /\ conns[Last].hooked /\ view = "wait" /\ ~dns
        /\ \A e \in InFlight : e.event = "POLL"

(* CONNECTED is reported once, ahead of all else, and is not cleared; if   *)
(* the connection is gone by then, ERROR follows.                          *)
Accepted ==
    /\ Some("CONNECTED") =>
         /\ view = "wait" /\ conns[Last].hooked
         /\ conns[Last].state = "gone" => Some("ERROR")
    /\ \A i \in DOMAIN queue : queue[i].event = "CONNECTED" => i = 1
    /\ \A e \in Range(posting) : e.event = "CONNECTED" =>
         /\ \A f \in Range(queue) : f.event # "CONNECTED"
         /\ task = "handle" => event.event # "CONNECTED"
    /\ task = "handle" /\ event.event = "CONNECTED" =>
         \A f \in Range(queue) : f.event # "CONNECTED"

(* A connection that is the client's is hooked and, when gone, about to be *)
(* reported, unless it is being closed; an open one is the client's or     *)
(* about to be.                                                            *)
Held ==
    /\ pcb # 0 =>
         /\ view = "up" /\ conns[pcb].state # "syn"
         /\ conns[pcb].hooked \/ Closing
         /\ conns[pcb].state = "gone" => Some("ERROR") \/ Closing
         /\ Clearing => Closing
    /\ Last # 0 /\ conns[Last].state = "open" => pcb = Last \/ Some("CONNECTED")

(* ERROR and FIN are the last that is heard of a connection.               *)
Ended ==
    /\ \A e \in InFlight : e.event \in Final => Dead
    /\ Some("FIN") => view = "up" /\ pcb = 0 /\ ~Closing
    /\ \A i \in DOMAIN queue : queue[i].event \in Final => i = Len(queue) /\ posting = <<>>
    /\ task = "handle" /\ event.event \in Final =>
         posting = <<>> /\ \A f \in Range(queue) : f.event = "CLEAR"

(* While a task is in _close the connection is unhooked, and closed when   *)
(* its API call was run; the service task has its CLEAR still before it.   *)
InClose ==
    /\ \A t \in Threads : closing[t] # "no" => Last # 0 /\ ~conns[Last].hooked
    /\ \A t \in Threads : closing[t] = "api" => Dead \/ pcb = Last
    /\ \A t \in Threads : closing[t] = "end" => Dead
    /\ closing["task"] # "no" =>
         /\ task = "handle" /\ event.event \in {"RECV", "POLL"}
         /\ queue # <<>> /\ queue[1].event = "CLEAR"
    /\ closing["task"] = "end" => posting = <<>>

(* A name is looked up when nothing else goes on. *)
Resolving ==
    /\ dns => view = "wait" /\ Dead /\ InFlight = {}
    /\ Some("DNS") => /\ view = "wait" /\ Dead /\ ~dns
                      /\ \A e \in InFlight : e.event = "DNS"
    /\ \A i \in DOMAIN queue : queue[i].event = "DNS" =>
         Len(queue) = 1 /\ posting = <<>> /\ Waiting
    /\ \A e \in Range(posting) : e.event = "DNS" => queue = <<>> /\ Waiting
    /\ task = "handle" /\ event.event = "DNS" => queue = <<>> /\ posting = <<>>

(* Of a connection the service task reported there is no event, or only    *)
(* such that a CLEAR is about to remove.                                   *)
Silent ==
    /\ ~stale
    /\ left \subseteq Conns
    /\ Last \in left =>
         /\ Dead
         /\ \A e \in Range(posting) : e.conn = 0
         /\ \/ task # "clear" /\ queue # <<>> /\ queue[1].event = "CLEAR"
            \/ \A f \in Range(queue) : f.conn = 0

Core ==
    /\ Single /\ Told /\ Starting /\ Accepted /\ Held /\ Ended
    /\ InClose /\ Resolving /\ Silent

IInv == TypeOK /\ (Calm => Core)

-----------------------------------------------------------------------------

(* The properties follow. *)
LEMMA CoreImplies ==
    ASSUME TypeOK, Calm => Core
    PROVE  /\ PcbSound /\ SilentAfterDisconnect
           /\ ~mixed => Reachable /\ DisconnectedUnlessEarly /\ OneConnection
<1>0. CASE ~Calm
  BY <1>0 DEF Calm, PcbSound, PcbLive, Reachable, DisconnectedUnlessEarly, OneConnection,
              SilentAfterDisconnect
<1>1. CASE Calm
  <2>1. Core
    BY <1>1
  <2>2. \A k \in {"ERROR", "CONNECTED"} : Some(k) => Pending(k, Last)
    <3> SUFFICES ASSUME NEW k \in {"ERROR", "CONNECTED"}, NEW e \in InFlight, e.event = k
                 PROVE  Pending(k, Last)
      BY DEF Some
    <3>1. e \in Packet
      BY DEF InFlight, Range, TypeOK
    <3>2. e = E(k, Last)
      BY <2>1, <3>1 DEF Core, Single, Packet, E
    <3> QED BY <3>2 DEF InFlight, Pending
  <2>3. PcbSound
    BY <2>1, <2>2 DEF PcbSound, PcbLive, Core, Held, Single
  <2>4. Reachable
    <3> SUFFICES ASSUME NEW p \in Conns, conns[p].state \in {"open", "half"}
                 PROVE  pcb = p \/ Pending("CONNECTED", p)
      BY DEF Reachable
    <3>1. p = Last /\ Last # 0 /\ conns[Last].state = "open"
      BY <2>1 DEF Core, Single, Conns
    <3> QED BY <2>1, <2>2, <3>1 DEF Core, Held
  <2>5. DisconnectedUnlessEarly
    BY <2>1 DEF DisconnectedUnlessEarly, Disconnected, Core, Told, Dead, Alive
  <2>6. OneConnection
    <3> SUFFICES ASSUME NEW p \in Conns, NEW q \in Conns,
                        {conns[p].state, conns[q].state} \subseteq Alive
                 PROVE  p = q
      BY DEF OneConnection
    <3>1. p = Last /\ q = Last
      BY <2>1 DEF Core, Single, Alive
    <3> QED BY <3>1
  <2>7. SilentAfterDisconnect
    BY <2>1 DEF SilentAfterDisconnect, Core, Silent
  <2> QED BY <2>3, <2>4, <2>5, <2>6, <2>7
<1> QED BY <1>0, <1>1

(* At first there is no connection. *)
LEMMA IInvInit == Init => IInv
<1> SUFFICES ASSUME Init PROVE IInv
  OBVIOUS
<1>1. Conns = {} /\ Last = 0 /\ Range(queue) = {} /\ Range(posting) = {}
  BY DEF Init, Conns, Last, Range
<1>2. InFlight = {}
  BY <1>1 DEF InFlight, Init
<1>3. TypeOK
  <2>1. Nothing \in Packet
    BY PacketType DEF Nothing, Events
  <2>2. <<>> \in Seq([state : States, hooked : BOOLEAN]) /\ <<>> \in Seq(Packet)
    OBVIOUS
  <2>3. Turning
    BY DEF Init, Turning, Threads
  <2> QED BY <2>1, <2>2, <2>3 DEF Init, TypeOK, Turning
<1>4. DOMAIN queue = {} /\ Nothing.event = "CLEAR"
  BY DEF Init, Nothing, E
<1>5. \A t \in Threads : closing[t] = "no"
  BY DEF Init
<1>6. Core
  BY <1>1, <1>2, <1>4, <1>5 DEF Init, Threads, Core, Single, Told, Starting, Accepted, Held,
     Ended, InClose,
                    Resolving, Silent, Some, Dead, Closing, Clearing
<1> QED BY <1>3, <1>6 DEF IInv

(* The application connects when all is quiet. *)
LEMMA AppConnectStep ==
    ASSUME TypeOK, Core, AppConnect, Calm'
    PROVE  Core'
<1>1. /\ Quiet /\ view = "down" /\ view' = "wait" /\ Dead /\ pcb = 0
  BY DEF AppConnect, Calm, Core, Told, TypeOK
<1>2. /\ Waiting /\ queue = <<>> /\ posting = <<>> /\ ~dns
      /\ Range(queue) = {} /\ Range(posting) = {} /\ DOMAIN queue = {}
  BY <1>1 DEF Quiet, Range
<1>3. InFlight = {} /\ InFlight' = {}
  BY <1>2 DEF InFlight, AppConnect, Waiting
<1>4. ~Closing /\ ~Closing'
  BY <1>2 DEF AppConnect, Closing, Threads, Core, InClose
<1>5. CASE UNCHANGED conns
  <2>1. Last' = Last /\ Conns' = Conns /\ Dead'
    BY <1>1, <1>5 DEF Last, Conns, Dead
  <2>2. dns' => InFlight' = {}
    BY <1>3
  <2> QED
    BY <1>2, <1>3, <1>4, <1>5
    DEF AppConnect, Core, Single, Told, Starting, Accepted, Held, Ended, InClose, Resolving,
        Silent, Some, Clearing, Closing, Dead, Conns, Last, Waiting, TypeOK
<1>6. CASE conns' = Append(conns, [state |-> "syn", hooked |-> TRUE]) /\ UNCHANGED dns
  <2>1. /\ Last' = Last + 1 /\ Last \in Nat /\ Conns' = Conns \cup {Last'}
        /\ conns'[Last'].state = "syn" /\ conns'[Last'].hooked
        /\ \A p \in Conns : p # Last' /\ conns'[p] = conns[p]
    BY <1>6, TypeParts DEF Last, Conns
  <2>2. Last' \notin left' /\ left' \subseteq Conns'
    BY <2>1 DEF AppConnect, Core, Silent
  <2>3. /\ pcb' = 0 /\ ~dns' /\ view' = "wait"
        /\ \A p \in Conns' : p # Last' => conns'[p].state = "gone"
        /\ \A p \in Conns' : conns'[p].state # "half"
    BY <1>1, <1>2, <1>6, <2>1 DEF Dead, AppConnect
  <2>4. Single'
    BY <1>3, <2>3 DEF Single
  <2>5. Told'
    BY <1>1, <1>2, <1>3, <1>4 DEF Told, AppConnect, Some, Clearing, Waiting
  <2>6. Starting'
    BY <1>1, <1>2, <1>3, <1>6, <2>1 DEF Starting
  <2>7. Accepted'
    BY <1>2, <2>1 DEF Accepted, AppConnect
  <2>8. Held'
    BY <2>1, <2>3 DEF Held
  <2>9. Ended'
    BY <1>2, <1>3 DEF Ended, AppConnect, Some
  <2>10. InClose'
    BY <1>4 DEF Core, InClose, AppConnect, Closing
  <2>11. Resolving'
    BY <1>2, <1>3, <1>6 DEF Resolving, AppConnect, Some
  <2>12. Silent'
    BY <2>1 DEF Core, Silent, AppConnect
  <2> QED BY <2>4, <2>5, <2>6, <2>7, <2>8, <2>9, <2>10, <2>11, <2>12 DEF Core
<1> QED BY <1>5, <1>6 DEF AppConnect, Connecting

(* Unhooking the client's connection changes nothing else about it. *)
LEMMA UnhookStep ==
    ASSUME TypeOK, Core, pcb # 0, conns' = Unhook(pcb)
    PROVE  /\ pcb = Last /\ Last # 0 /\ Last \in Conns /\ Last' = Last /\ Conns' = Conns
           /\ \A p \in Conns : conns'[p].state = conns[p].state
           /\ \A p \in Conns : p # Last => conns'[p] = conns[p]
           /\ ~conns'[Last].hooked /\ Dead' = Dead
<1>1. pcb = Last /\ Last # 0 /\ Last \in Conns
  BY DEF TypeOK, Core, Single, Conns, Last
<1>2. conns \in Seq(Conn)
  BY DEF TypeOK, Conn
<1>3. /\ Last' = Last /\ \A p \in Conns : p # Last => conns'[p] = conns[p]
      /\ conns'[Last] = [state |-> conns[Last].state, hooked |-> FALSE]
  BY <1>1, <1>2, ConnProperties DEF Last
<1>4. Conns' = Conns
  BY <1>3 DEF Conns, Last
<1>5. \A p \in Conns : conns'[p].state = conns[p].state
  BY <1>3
<1> QED BY <1>1, <1>3, <1>4, <1>5 DEF Dead

(* A CLEAR is an event of no connection. *)
LEMMA NothingProperties == Nothing \in Packet /\ Nothing.event = "CLEAR" /\ Nothing.conn = 0
BY PacketType DEF Nothing, Events

(* _close begins, in the application or when the service task handles an   *)
(* event that closes the client.                                           *)
LEMMA DetachStep ==
    ASSUME TypeOK, Core, NEW t \in Threads, Detach(t), Calm',
           t = "task" => task = "handle" /\ event.event \in {"RECV", "POLL"}
    PROVE  Core'
<1>1. /\ pcb = Last /\ Last # 0 /\ Last \in Conns /\ Last' = Last /\ Conns' = Conns
      /\ \A p \in Conns : conns'[p].state = conns[p].state
      /\ \A p \in Conns : p # Last => conns'[p] = conns[p]
      /\ ~conns'[Last].hooked /\ Dead' = Dead
  BY UnhookStep DEF Detach
<1>2. /\ queue' # <<>> /\ queue'[1] = Nothing /\ Len(queue') = Len(queue) + 1
      /\ DOMAIN queue' = 1..Len(queue') /\ DOMAIN queue = 1..Len(queue) /\ Len(queue) \in Nat
      /\ \A i \in DOMAIN queue' : i # 1 => i - 1 \in DOMAIN queue /\ queue'[i] = queue[i - 1]
      /\ Range(queue') = Range(queue) \cup {Nothing}
  BY NothingProperties, TypeParts, SentInOrder, FrontProperties DEF Detach, Calm
<1>3. /\ pcb' = pcb /\ posting' = posting /\ task' = task /\ event' = event
      /\ dns' = dns /\ view' = view /\ left' = left /\ stale' = stale
  BY DEF Detach, history
<1>4. InFlight' = InFlight \cup {Nothing} /\ Range(posting') = Range(posting)
  BY <1>2, <1>3 DEF InFlight
<1>5. /\ view = "up" /\ conns[Last].state # "syn" /\ ~dns
      /\ \A e \in InFlight : e.event \notin {"CONNECTED", "DNS", "FIN"}
      /\ (conns[Last].state = "gone" => Dead)
  BY <1>1 DEF Core, Held, Accepted, Resolving, Ended, Single, Some, Dead
<1>6. /\ \A i \in DOMAIN queue : queue[i] \in InFlight
      /\ task = "handle" => event \in InFlight
      /\ \A e \in Range(posting) : e \in InFlight
  BY DEF InFlight, Range
<1>7. /\ closing'[t] = "api" /\ closing[t] = "no"
      /\ \A u \in Threads : u # t => closing'[u] = closing[u]
      /\ Nothing.event = "CLEAR" /\ Nothing.conn = 0
  BY NothingProperties DEF Detach, TypeOK
<1>8. Single'
  BY <1>1, <1>3, <1>4, <1>7 DEF Core, Single
<1>9. Told'
  BY <1>3, <1>5 DEF Told
<1>10. Starting'
  BY <1>1, <1>5 DEF Starting
<1>11. Accepted'
  BY <1>2, <1>3, <1>4, <1>5, <1>6, <1>7 DEF Accepted, Some
<1>12. Held'
  BY <1>1, <1>3, <1>5, <1>7 DEF Held, Closing
<1>13. Ended'
  <2>1. \A i \in DOMAIN queue' : queue'[i].event \in Final => i = Len(queue') /\ posting' = <<>>
    <3> SUFFICES ASSUME NEW i \in DOMAIN queue', queue'[i].event \in Final
                 PROVE  i = Len(queue') /\ posting' = <<>>
      OBVIOUS
    <3>1. i # 1 /\ i - 1 \in DOMAIN queue /\ queue'[i] = queue[i - 1]
      BY <1>2, <1>7 DEF Final
    <3>2. i - 1 = Len(queue) /\ posting = <<>>
      BY <3>1 DEF Core, Ended
    <3> QED BY <1>2, <1>3, <3>1, <3>2
  <2>2. \A e \in InFlight' : e.event \in Final => Dead'
    BY <1>1, <1>4, <1>7 DEF Core, Ended, Final
  <2>3. ~Some("FIN")'
    BY <1>4, <1>5, <1>7 DEF Some
  <2>4. task' = "handle" /\ event'.event \in Final =>
          posting' = <<>> /\ \A f \in Range(queue') : f.event = "CLEAR"
    BY <1>2, <1>3, <1>7 DEF Core, Ended
  <2> QED BY <2>1, <2>2, <2>3, <2>4 DEF Ended
<1>14. InClose'
  BY <1>1, <1>2, <1>3, <1>7 DEF Core, InClose, Threads
<1>15. Resolving'
  BY <1>2, <1>3, <1>4, <1>5, <1>6, <1>7 DEF Resolving, Waiting, Some
<1>16. Silent'
  BY <1>1, <1>2, <1>3, <1>7 DEF Core, Silent
<1> QED BY <1>8, <1>9, <1>10, <1>11, <1>12, <1>13, <1>14, <1>15, <1>16 DEF Core

(* Where the events in flight are. *)
LEMMA Members ==
    /\ \A e \in InFlight : \/ e \in Range(queue) \/ e \in Range(posting)
                           \/ task = "handle" /\ e = event
    /\ Range(queue) \subseteq InFlight /\ Range(posting) \subseteq InFlight
    /\ \A i \in DOMAIN queue : queue[i] \in Range(queue)
    /\ task = "handle" => event \in InFlight
BY DEF InFlight, Range

(* What a callback posts is in flight. *)
LEMMA CallbackProperties ==
    ASSUME NEW e, Callback(e), UNCHANGED <<queue, task, event>>
    PROVE  /\ posting = <<>> /\ Range(posting) = {} /\ Range(posting') = {e} /\ posting' # <<>>
           /\ Range(queue') = Range(queue) /\ InFlight' = InFlight \cup {e}
<1>1. Range(posting) = {} /\ Range(posting') = {e} /\ posting' # <<>>
  BY DEF Callback, Range
<1> QED BY <1>1 DEF Callback, InFlight

(* What happens to a live connection happens to the last one. *)
LEMMA LastStep ==
    ASSUME TypeOK, Core, NEW p \in Conns, conns[p].state # "gone" \/ p = Last, NEW c \in Conn,
           conns' = [conns EXCEPT ![p] = c]
    PROVE  /\ p = Last /\ Last # 0 /\ Last \in Conns /\ Last' = Last /\ Conns' = Conns
           /\ conns'[Last] = c
           /\ \A q \in Conns : q # Last => conns'[q] = conns[q] /\ conns'[q].state = "gone"
           /\ Dead' <=> c.state = "gone"
<1>1. p = Last /\ Last # 0 /\ Last \in Conns
  BY DEF Core, Single, Conns, Last, TypeOK
<1>2. conns \in Seq(Conn)
  BY DEF TypeOK, Conn
<1>3. Last' = Last /\ conns'[Last] = c /\ \A q \in Conns : q # Last => conns'[q] = conns[q]
  BY <1>1 DEF Last
<1>4. Conns' = Conns
  BY <1>3 DEF Conns, Last
<1>5. \A q \in Conns : q # Last => conns'[q].state = "gone"
  BY <1>3 DEF Core, Single
<1> QED BY <1>1, <1>3, <1>4, <1>5 DEF Dead

(* Only the last connection can change its state, and it stays the last.  *)
LEMMA StateStep ==
    ASSUME TypeOK, Core, NEW p \in Conns, conns[p].state # "gone" \/ p = Last, NEW s \in States,
           conns' = State(p, s)
    PROVE  /\ p = Last /\ Last # 0 /\ Last \in Conns /\ Last' = Last /\ Conns' = Conns
           /\ conns'[Last].state = s /\ conns'[Last].hooked = conns[Last].hooked
           /\ \A q \in Conns : q # Last => conns'[q] = conns[q] /\ conns'[q].state = "gone"
           /\ Dead' <=> s = "gone"
<1>1. p = Last /\ Last # 0 /\ Last \in Conns
  BY DEF Core, Single, Conns, Last, TypeOK
<1>2. conns \in Seq(Conn)
  BY DEF TypeOK, Conn
<1>3. /\ Len(State(p, s)) = Len(conns)
      /\ State(p, s)[p] = [state |-> s, hooked |-> conns[p].hooked]
      /\ \A q \in Conns : q # p => State(p, s)[q] = conns[q]
  BY <1>2, ConnProperties
<1>6. /\ Last' = Last /\ conns'[Last] = [state |-> s, hooked |-> conns[Last].hooked]
      /\ \A q \in Conns : q # Last => conns'[q] = conns[q]
  BY <1>1, <1>3 DEF Last
<1>4. Conns' = Conns
  BY <1>6 DEF Conns, Last
<1>5. \A q \in Conns : q # Last => conns'[q].state = "gone"
  BY <1>6 DEF Core, Single
<1> QED BY <1>1, <1>6, <1>4, <1>5 DEF Dead

(* The connection is made: nothing but polls went before. *)
LEMMA SynAckStep ==
    ASSUME TypeOK, Core, NEW p \in Conns, SynAck(p), Calm'
    PROVE  Core'
<1>1. /\ p = Last /\ Last # 0 /\ Last \in Conns /\ Last' = Last /\ Conns' = Conns
      /\ conns'[Last].state = "open" /\ conns'[Last].hooked = conns[Last].hooked
      /\ \A q \in Conns : q # Last => conns'[q] = conns[q] /\ conns'[q].state = "gone"
      /\ conns[Last].state = "syn" /\ ~Dead
  BY StateStep DEF SynAck, States, Dead
<1>2. /\ posting = <<>> /\ Range(posting) = {} /\ Range(posting') = {E("CONNECTED", Last)}
      /\ posting' # <<>> /\ Range(queue') = Range(queue)
      /\ InFlight' = InFlight \cup {E("CONNECTED", Last)}
  BY <1>1, CallbackProperties DEF SynAck
<1>3. /\ pcb' = pcb /\ queue' = queue /\ task' = task /\ event' = event /\ closing' = closing
      /\ dns' = dns /\ view' = view /\ left' = left /\ stale' = stale
  BY DEF SynAck, history
<1>4. /\ conns[Last].hooked /\ view = "wait" /\ ~dns /\ pcb = 0 /\ ~Closing /\ ~Clearing
      /\ \A e \in InFlight : e.event = "POLL"
  BY <1>1 DEF Core, Starting, Told
<1>5. E("CONNECTED", Last).event = "CONNECTED" /\ E("CONNECTED", Last).conn = Last
  BY DEF E
<1>6. /\ \A i \in DOMAIN queue : queue[i].event = "POLL"
      /\ \A e \in Range(queue) : e.event = "POLL"
      /\ task = "handle" => event.event = "POLL"
  BY <1>4, Members
<1>7. Single'
  BY <1>1, <1>2, <1>3, <1>5 DEF Core, Single
<1>8. Told'
  BY <1>2, <1>3, <1>4, <1>5 DEF Told, Some, Clearing, Closing
<1>9. Starting'
  BY <1>1 DEF Starting
<1>10. Accepted'
  BY <1>1, <1>3, <1>4, <1>6 DEF Accepted
<1>11. Held'
  BY <1>2, <1>3, <1>4, <1>5 DEF Held, Some
<1>12. Ended'
  BY <1>2, <1>3, <1>4, <1>5, <1>6 DEF Ended, Final, Some
<1>13. InClose'
  BY <1>1, <1>3 DEF Core, InClose, Threads
<1>14. Resolving'
  BY <1>2, <1>3, <1>4, <1>5, <1>6 DEF Resolving, Waiting, Some
<1>15. Silent'
  BY <1>1, <1>3 DEF Core, Silent
<1> QED BY <1>7, <1>8, <1>9, <1>10, <1>11, <1>12, <1>13, <1>14, <1>15 DEF Core

(* Data or a poll is reported of the live connection. *)
LEMMA ReportStep ==
    ASSUME TypeOK, Core, NEW p \in Conns, Report(p), Calm'
    PROVE  Core'
<1>1. p = Last /\ Last # 0 /\ conns[Last].state \in {"syn", "open"} /\ conns[Last].hooked /\ ~Dead
  BY DEF Report, Core, Single, Dead, Conns
<1>2. PICK e : /\ Callback(e) /\ e.event \in {"RECV", "POLL"} /\ e.conn = Last
               /\ (conns[Last].state = "syn" => e.event = "POLL")
  BY <1>1 DEF Report, E
<1>3. /\ posting = <<>> /\ Range(posting) = {} /\ Range(posting') = {e} /\ posting' # <<>>
      /\ Range(queue') = Range(queue) /\ InFlight' = InFlight \cup {e}
  BY <1>2, CallbackProperties DEF Report
<1>4. /\ pcb' = pcb /\ queue' = queue /\ task' = task /\ event' = event /\ closing' = closing
      /\ dns' = dns /\ view' = view /\ left' = left /\ stale' = stale /\ conns' = conns
      /\ Conns' = Conns /\ Last' = Last /\ Dead' = Dead
  BY DEF Report, history, Conns, Last, Dead
<1>5. /\ ~dns /\ \A f \in InFlight : f.event \notin {"ERROR", "FIN", "DNS"}
      /\ Last \notin left
  BY <1>1 DEF Core, Ended, Resolving, Silent, Final, Some
<1>6. /\ \A i \in DOMAIN queue : queue[i].event \notin {"ERROR", "FIN", "DNS"}
      /\ task = "handle" => event.event \notin {"ERROR", "FIN", "DNS"}
  BY <1>5, Members
<1>7. Single'
  BY <1>1, <1>2, <1>3, <1>4 DEF Core, Single
<1>8. Told'
  BY <1>2, <1>3, <1>4 DEF Core, Told, Some, Clearing, Closing
<1>9. Starting'
  BY <1>2, <1>3, <1>4 DEF Core, Starting
<1>10. Accepted'
  BY <1>2, <1>3, <1>4 DEF Core, Accepted, Some
<1>11. Held'
  BY <1>2, <1>3, <1>4 DEF Core, Held, Some, Clearing, Closing
<1>12. Ended'
  BY <1>2, <1>3, <1>4, <1>5, <1>6 DEF Ended, Final, Some
<1>13. InClose'
  BY <1>1, <1>4 DEF Core, InClose, Threads
<1>14. Resolving'
  BY <1>2, <1>3, <1>4, <1>5, <1>6 DEF Resolving, Waiting, Some
<1>15. Silent'
  BY <1>1, <1>4 DEF Core, Silent
<1> QED BY <1>7, <1>8, <1>9, <1>10, <1>11, <1>12, <1>13, <1>14, <1>15 DEF Core

(* The peer closes a connection whose callbacks are gone: it is being closed. *)
LEMMA FinUnhookedStep ==
    ASSUME TypeOK, Core, NEW p \in Conns, Fin(p), ~conns[p].hooked, Calm'
    PROVE  Core'
<1>1. /\ p = Last /\ Last # 0 /\ Last \in Conns /\ Last' = Last /\ Conns' = Conns
      /\ conns'[Last].state = "gone" /\ conns'[Last].hooked = conns[Last].hooked
      /\ \A q \in Conns : q # Last => conns'[q] = conns[q] /\ conns'[q].state = "gone"
      /\ conns[Last].state = "open" /\ ~Dead /\ Dead' /\ ~conns[Last].hooked
  BY StateStep DEF Fin, States, Dead
<1>2. /\ pcb' = pcb /\ posting' = posting /\ queue' = queue /\ task' = task /\ event' = event
      /\ closing' = closing /\ dns' = dns /\ view' = view /\ left' = left /\ stale' = stale
  BY DEF Fin
<1>3. InFlight' = InFlight
  BY <1>2 DEF InFlight
<1>4. /\ pcb = Last /\ Closing /\ view = "up" /\ Last \notin left
      /\ \A e \in InFlight : e.event \notin {"CONNECTED", "ERROR", "FIN", "DNS"}
  BY <1>1 DEF Core, Accepted, Ended, Resolving, Silent, Held, Final, Some
<1>5. /\ \A i \in DOMAIN queue : queue[i].event \notin {"CONNECTED", "ERROR", "FIN", "DNS"}
      /\ task = "handle" => event.event \notin {"CONNECTED", "ERROR", "FIN", "DNS"}
  BY <1>4, Members
<1>6. Single'
  BY <1>1, <1>2, <1>3 DEF Core, Single
<1>7. Told'
  BY <1>2, <1>4 DEF Told
<1>8. Starting'
  BY <1>1 DEF Starting
<1>9. Accepted'
  BY <1>1, <1>2, <1>3 DEF Core, Accepted, Some
<1>10. Held'
  BY <1>1, <1>2, <1>4 DEF Held, Closing
<1>11. Ended'
  BY <1>1, <1>2, <1>3, <1>4 DEF Core, Ended, Some
<1>12. InClose'
  BY <1>1, <1>2 DEF Core, InClose
<1>13. Resolving'
  BY <1>1, <1>2, <1>3 DEF Core, Resolving, Waiting, Some
<1>14. Silent'
  BY <1>1, <1>2 DEF Core, Silent
<1> QED BY <1>6, <1>7, <1>8, <1>9, <1>10, <1>11, <1>12, <1>13, <1>14 DEF Core

(* The peer closes the client's connection: _lwip_fin closes it and forgets it. *)
LEMMA FinHookedStep ==
    ASSUME TypeOK, Core, NEW p \in Conns, Fin(p), conns[p].hooked, Calm'
    PROVE  Core'
<1>1. pcb = p /\ conns[p].state = "open" /\ early' = early
  BY DEF Fin, Calm
<1>2. /\ p = Last /\ Last # 0 /\ Last \in Conns /\ Last' = Last /\ Conns' = Conns
      /\ conns'[Last].state = "gone" /\ ~conns'[Last].hooked
      /\ \A q \in Conns : q # Last => conns'[q] = conns[q] /\ conns'[q].state = "gone"
      /\ conns[Last].state = "open" /\ ~Dead /\ Dead' /\ conns[Last].hooked
  <2> DEFINE c == [state |-> "gone", hooked |-> FALSE]
  <2>1. c \in Conn /\ c.state = "gone" /\ c.hooked = FALSE
    BY DEF Conn, States
  <2>2. conns' = [conns EXCEPT ![p] = c] /\ conns[p].state = "open" /\ conns[p].hooked
    BY <1>1 DEF Fin
  <2> HIDE DEF c
  <2>3. p = Last /\ Dead' /\ conns'[Last] = c
    BY <2>1, <2>2, LastStep
  <2> QED BY <2>1, <2>2, <2>3, LastStep DEF Dead
<1>3. /\ queue' = queue /\ task' = task /\ event' = event /\ closing' = closing /\ dns' = dns
      /\ view' = view /\ left' = left /\ stale' = stale /\ pcb' = 0
  BY <1>1 DEF Fin
<1>4. /\ posting = <<>> /\ Range(posting) = {} /\ Range(posting') = {E("FIN", Last)}
      /\ posting' # <<>> /\ Range(queue') = Range(queue)
      /\ InFlight' = InFlight \cup {E("FIN", Last)}
  BY <1>2, CallbackProperties DEF Fin
<1>5. E("FIN", Last).event = "FIN" /\ E("FIN", Last).conn = Last
  BY DEF E
<1>6. /\ ~Closing /\ view = "up" /\ Last \notin left
      /\ \A e \in InFlight : e.event \notin {"CONNECTED", "ERROR", "FIN", "DNS", "CLEAR"}
  BY <1>1, <1>2 DEF Core, Accepted, Ended, Resolving, Silent, Held, InClose, Final, Some,
     Closing, Clearing
<1>7. /\ \A i \in DOMAIN queue : queue[i].event \notin {"CONNECTED", "ERROR", "FIN", "DNS"}
      /\ task = "handle" => event.event \notin {"CONNECTED", "ERROR", "FIN", "DNS"}
  BY <1>6, Members
<1>8. Single'
  BY <1>2, <1>3, <1>4, <1>5 DEF Core, Single
<1>9. Told'
  BY <1>3, <1>6 DEF Told
<1>10. Starting'
  BY <1>2 DEF Starting
<1>11. Accepted'
  BY <1>3, <1>4, <1>5, <1>6, <1>7 DEF Accepted, Some
<1>12. Held'
  BY <1>2, <1>3 DEF Held
<1>13. Ended'
  BY <1>2, <1>3, <1>6, <1>7 DEF Ended, Final, Closing
<1>14. InClose'
  BY <1>2, <1>3 DEF Core, InClose, Threads
<1>15. Resolving'
  BY <1>2, <1>3, <1>4, <1>5, <1>7 DEF Core, Resolving, Waiting, Some
<1>16. Silent'
  BY <1>2, <1>3 DEF Core, Silent
<1> QED BY <1>8, <1>9, <1>10, <1>11, <1>12, <1>13, <1>14, <1>15, <1>16 DEF Core

(* The live connection is reset or refused: ERROR is posted if it has callbacks. *)
LEMMA ResetStep ==
    ASSUME TypeOK, Core, NEW p \in Conns, Reset(p), Calm'
    PROVE  Core'
<1>1. /\ p = Last /\ Last # 0 /\ Last \in Conns /\ Last' = Last /\ Conns' = Conns
      /\ conns'[Last].state = "gone" /\ conns'[Last].hooked = conns[Last].hooked
      /\ \A q \in Conns : q # Last => conns'[q] = conns[q] /\ conns'[q].state = "gone"
      /\ conns[Last].state \in {"syn", "open"} /\ ~Dead /\ Dead'
  BY StateStep DEF Reset, States, Dead, Core, Single
<1>2. /\ pcb' = pcb /\ queue' = queue /\ task' = task /\ event' = event /\ closing' = closing
      /\ dns' = dns /\ view' = view /\ left' = left /\ stale' = stale
  BY DEF Reset, history
<1>3. posting = <<>> /\ Range(posting) = {} /\ Range(queue') = Range(queue)
  BY <1>2 DEF Reset, LwipFree, Range
<1>4. IF conns[Last].hooked
        THEN /\ posting' # <<>> /\ Range(posting') = {E("ERROR", Last)}
             /\ InFlight' = InFlight \cup {E("ERROR", Last)}
        ELSE posting' = posting /\ InFlight' = InFlight
  BY <1>1, CallbackProperties DEF Reset, InFlight
<1>5. E("ERROR", Last).event = "ERROR" /\ E("ERROR", Last).conn = Last
  BY DEF E
<1>6. /\ view # "down" /\ ~dns /\ Last \notin left
      /\ \A e \in InFlight : e.event \notin {"ERROR", "FIN", "DNS"}
  BY <1>1 DEF Core, Told, Ended, Resolving, Silent, Final, Some
<1>7. /\ \A i \in DOMAIN queue : queue[i].event \notin {"ERROR", "FIN", "DNS"}
      /\ task = "handle" => event.event \notin {"ERROR", "FIN", "DNS"}
  BY <1>6, Members
<1>8. Single'
  BY <1>1, <1>2, <1>4, <1>5 DEF Core, Single
<1>9. Told'
  BY <1>1, <1>2, <1>4, <1>5 DEF Core, Told, Some, Clearing, Closing
<1>10. Starting'
  BY <1>1 DEF Starting
<1>11. Accepted'
  BY <1>1, <1>2, <1>4, <1>5 DEF Core, Accepted, Some
<1>12. Held'
  BY <1>1, <1>2, <1>4, <1>5 DEF Core, Held, Single, Some, Clearing, Closing
<1>13. Ended'
  BY <1>1, <1>2, <1>4, <1>5, <1>6, <1>7 DEF Ended, Final, Some
<1>14. InClose'
  BY <1>1, <1>2 DEF Core, InClose, Threads
<1>15. Resolving'
  BY <1>2, <1>3, <1>4, <1>5, <1>6, <1>7 DEF Resolving, Waiting, Some
<1>16. Silent'
  BY <1>1, <1>2 DEF Core, Silent
<1> QED BY <1>8, <1>9, <1>10, <1>11, <1>12, <1>13, <1>14, <1>15, <1>16 DEF Core

(* The name was found: nothing else was going on. *)
LEMMA DnsFoundStep ==
    ASSUME TypeOK, Core, DnsFound, Calm'
    PROVE  Core'
<1>1. /\ conns' = conns /\ pcb' = pcb /\ queue' = queue /\ task' = task /\ event' = event
      /\ closing' = closing /\ view' = view /\ left' = left /\ stale' = stale /\ dns /\ ~dns'
  BY DEF DnsFound, history
<1>2. Last' = Last /\ Conns' = Conns /\ Dead' = Dead
  BY <1>1 DEF Last, Conns, Dead
<1>3. /\ posting = <<>> /\ Range(posting') = {E("DNS", 0)} /\ Range(queue') = Range(queue)
      /\ InFlight' = InFlight \cup {E("DNS", 0)}
  BY <1>1, CallbackProperties DEF DnsFound
<1>4. InFlight = {} /\ view = "wait" /\ Dead /\ ~Closing /\ ~Clearing /\ pcb = 0
  BY <1>1 DEF Core, Resolving, Told
<1>5. Range(queue) = {} /\ Waiting /\ DOMAIN queue = {} /\ queue = <<>>
  BY <1>4, Members, TypeParts DEF Clearing, Waiting
<1>6. E("DNS", 0).event = "DNS" /\ E("DNS", 0).conn = 0
  BY DEF E
<1>7. Single'
  BY <1>1, <1>2, <1>3, <1>6 DEF Core, Single
<1>8. Told'
  BY <1>1, <1>3, <1>4, <1>6 DEF Told, Some, Clearing, Closing
<1>9. Starting'
  BY <1>1, <1>2 DEF Core, Starting
<1>10. Accepted'
  BY <1>1, <1>3, <1>4, <1>5, <1>6 DEF Accepted, Some
<1>11. Held'
  BY <1>1, <1>2, <1>4 DEF Core, Held, Some
<1>12. Ended'
  BY <1>1, <1>2, <1>3, <1>4, <1>5, <1>6 DEF Ended, Some, Waiting
<1>13. InClose'
  BY <1>1, <1>2, <1>5 DEF Core, InClose, Waiting
<1>14. Resolving'
  BY <1>1, <1>2, <1>3, <1>4, <1>5, <1>6 DEF Resolving, Waiting
<1>15. Silent'
  BY <1>1, <1>2, <1>3, <1>6 DEF Core, Silent
<1> QED BY <1>7, <1>8, <1>9, <1>10, <1>11, <1>12, <1>13, <1>14, <1>15 DEF Core

(* CONNECTED is put in front of the queue. *)
LEMMA PostFrontStep ==
    ASSUME TypeOK, Core, Post, NEW e, posting = <<e>>, e.event = "CONNECTED", Calm'
    PROVE  Core'
<1>1. /\ conns' = conns /\ pcb' = pcb /\ task' = task /\ event' = event /\ closing' = closing
      /\ dns' = dns /\ view' = view /\ left' = left /\ stale' = stale /\ posting' = <<>>
         /\ SendFront(e)
  BY DEF Post, history
<1>2. Last' = Last /\ Conns' = Conns /\ Dead' = Dead
  BY <1>1 DEF Last, Conns, Dead
<1>3. Range(posting) = {e} /\ Range(posting') = {} /\ posting # <<>>
  BY <1>1 DEF Range
<1>4. e \in Packet
  BY TypeParts
<1>5. /\ queue' # <<>> /\ queue'[1] = e /\ Len(queue') = Len(queue) + 1
      /\ DOMAIN queue' = 1..Len(queue') /\ DOMAIN queue = 1..Len(queue) /\ Len(queue) \in Nat
      /\ \A i \in DOMAIN queue' : i # 1 => i - 1 \in DOMAIN queue /\ queue'[i] = queue[i - 1]
      /\ Range(queue') = Range(queue) \cup {e}
  BY <1>1, <1>4, TypeParts, SentInOrder, FrontProperties DEF Calm
<1>6. InFlight' = InFlight /\ e \in InFlight
  BY <1>1, <1>3, <1>5 DEF InFlight
<1>7. /\ view = "wait" /\ ~Closing /\ pcb = 0 /\ e.conn = Last /\ Last \notin left
      /\ ~dns /\ \A f \in InFlight : f.event \notin {"DNS", "FIN", "CLEAR"}
  BY <1>3, <1>6 DEF Core, Single, Accepted, Told, Resolving, Silent, Ended, Some, Clearing
<1>8. /\ \A f \in Range(queue) : f.event # "CONNECTED"
      /\ \A i \in DOMAIN queue : queue[i].event \notin Final \cup {"CONNECTED", "DNS"}
      /\ task = "handle" => event.event \notin Final \cup {"CONNECTED", "DNS"}
  BY <1>3, <1>7, Members DEF Core, Accepted, Ended
<1>9. Single'
  BY <1>1, <1>2, <1>6 DEF Core, Single
<1>10. Told'
  BY <1>1, <1>2, <1>6 DEF Core, Told, Some, Clearing, Closing
<1>11. Starting'
  BY <1>1, <1>2, <1>6 DEF Core, Starting
<1>12. Accepted'
  BY <1>1, <1>2, <1>3, <1>5, <1>6, <1>8 DEF Core, Accepted, Some
<1>13. Held'
  BY <1>1, <1>6, <1>7 DEF Held, Some
<1>14. Ended'
  BY <1>1, <1>2, <1>5, <1>6, <1>7 DEF Core, Ended, Final, Some
<1>15. InClose'
  BY <1>1, <1>7 DEF InClose, Closing, Threads
<1>16. Resolving'
  BY <1>1, <1>3, <1>5, <1>6, <1>7, <1>8 DEF Resolving, Waiting, Some
<1>17. Silent'
  BY <1>1, <1>2, <1>7 DEF Core, Silent
<1> QED BY <1>9, <1>10, <1>11, <1>12, <1>13, <1>14, <1>15, <1>16, <1>17 DEF Core

(* Any other event is put behind the queue. *)
LEMMA PostBackStep ==
    ASSUME TypeOK, Core, Post, NEW e, posting = <<e>>, e.event # "CONNECTED", Calm'
    PROVE  Core'
<1>1. /\ conns' = conns /\ pcb' = pcb /\ task' = task /\ event' = event /\ closing' = closing
      /\ dns' = dns /\ view' = view /\ left' = left /\ stale' = stale /\ posting' = <<>>
         /\ SendBack(e)
  BY DEF Post, history
<1>2. Last' = Last /\ Conns' = Conns /\ Dead' = Dead
  BY <1>1 DEF Last, Conns, Dead
<1>3. Range(posting) = {e} /\ Range(posting') = {} /\ posting # <<>>
  BY <1>1 DEF Range
<1>4. e \in Packet
  BY TypeParts
<1>5. /\ queue' # <<>> /\ Len(queue') = Len(queue) + 1 /\ queue'[Len(queue')] = e
      /\ DOMAIN queue' = 1..Len(queue') /\ DOMAIN queue = 1..Len(queue) /\ Len(queue) \in Nat
      /\ \A i \in DOMAIN queue : queue'[i] = queue[i]
      /\ Range(queue') = Range(queue) \cup {e}
  BY <1>1, <1>4, TypeParts, SentInOrder, BackProperties DEF Calm
<1>6. InFlight' = InFlight /\ e \in InFlight
  BY <1>1, <1>3, <1>5 DEF InFlight
<1>7. /\ \A i \in DOMAIN queue : queue[i].event \notin Final \cup {"DNS"}
      /\ task = "handle" => event.event \notin Final
  BY <1>3 DEF Core, Ended, Resolving
<1>8. \A i \in DOMAIN queue' :
         (i = Len(queue') /\ queue'[i] = e) \/ (i \in DOMAIN queue /\ queue'[i] = queue[i])
  <2> SUFFICES ASSUME NEW i \in DOMAIN queue', i # Len(queue')
               PROVE  i \in DOMAIN queue
    BY <1>5
  <2> QED BY <1>5
<1>9. queue # <<>> => queue'[1] = queue[1]
  <2>1. queue \in Seq(Packet)
    BY TypeParts
  <2>2. queue # <<>> => 1 \in DOMAIN queue
    BY <2>1
  <2> QED BY <1>5, <2>2
<1>10. Single'
  BY <1>1, <1>2, <1>6 DEF Core, Single
<1>11. Told'
  BY <1>1, <1>2, <1>6 DEF Core, Told, Some, Clearing, Closing
<1>12. Starting'
  BY <1>1, <1>2, <1>6 DEF Core, Starting
<1>13. Accepted'
  BY <1>1, <1>2, <1>3, <1>5, <1>6 DEF Core, Accepted, Some
<1>14. Held'
  BY <1>1, <1>2, <1>6 DEF Core, Held, Some, Clearing, Closing
<1>15. Ended'
  BY <1>1, <1>2, <1>5, <1>6 DEF Core, Ended, Some, Closing
<1>16. InClose'
  BY <1>1, <1>2, <1>5 DEF Core, InClose
<1>17. Resolving'
  BY <1>1, <1>2, <1>3, <1>5, <1>6 DEF Core, Resolving, Waiting, Some
<1>18. Silent'
  BY <1>1, <1>2, <1>3, <1>5 DEF Core, Silent
<1> QED BY <1>10, <1>11, <1>12, <1>13, <1>14, <1>15, <1>16, <1>17, <1>18 DEF Core

(* The service task takes a CLEAR and empties the queue. *)
LEMMA GetClearStep ==
    ASSUME TypeOK, Core, Get, Head(queue).event = "CLEAR", Calm'
    PROVE  Core'
<1>1. /\ conns' = conns /\ pcb' = pcb /\ posting' = posting /\ closing' = closing /\ dns' = dns
      /\ view' = view /\ left' = left
  BY DEF Get
<1>2. Last' = Last /\ Conns' = Conns /\ Dead' = Dead
  BY <1>1 DEF Last, Conns, Dead
<1>3. /\ task = "get" /\ task' = "clear" /\ queue' = <<>> /\ queue # <<>> /\ event' = Head(queue)
  BY DEF Get
<1>4. Head(queue) \in Range(queue) /\ Range(queue') = {} /\ Range(posting') = Range(posting)
      /\ DOMAIN queue' = {}
  BY <1>1, <1>3 DEF Range
<1>5. InFlight' \subseteq InFlight /\ InFlight' = Range(posting) /\ Head(queue) \in InFlight
  BY <1>3, <1>4 DEF InFlight
<1>6. view # "wait" /\ ~dns /\ (pcb # 0 => Closing) /\ Head(queue).conn = 0
      /\ \A f \in InFlight : f.event \notin {"CONNECTED", "DNS"}
  BY <1>5 DEF Core, Single, Told, Held, Accepted, Resolving, Some, Clearing
<1>7. stale' = FALSE
  BY <1>6, TypeParts DEF Get, Core, Silent, Conns
<1>8. Single'
  BY <1>1, <1>2, <1>5 DEF Core, Single
<1>9. Told'
  BY <1>1, <1>2, <1>6 DEF Core, Told
<1>10. Starting'
  BY <1>1, <1>2, <1>5 DEF Core, Starting
<1>11. Accepted'
  BY <1>1, <1>3, <1>5, <1>6 DEF Accepted, Some
<1>12. Held'
  BY <1>1, <1>2, <1>6 DEF Core, Held, Some, Closing
<1>13. Ended'
  BY <1>1, <1>2, <1>3, <1>5 DEF Core, Ended, Some, Closing
<1>14. InClose'
  BY <1>1, <1>2, <1>3 DEF Core, InClose
<1>15. Resolving'
  BY <1>1, <1>3, <1>5, <1>6 DEF Resolving, Waiting, Some
<1>16. Silent'
  BY <1>1, <1>2, <1>4, <1>7 DEF Core, Silent
<1> QED BY <1>8, <1>9, <1>10, <1>11, <1>12, <1>13, <1>14, <1>15, <1>16 DEF Core

(* The service task takes an event to dispatch. *)
LEMMA GetHandleStep ==
    ASSUME TypeOK, Core, Get, Head(queue).event # "CLEAR", Calm'
    PROVE  Core'
<1>1. /\ conns' = conns /\ pcb' = pcb /\ posting' = posting /\ closing' = closing /\ dns' = dns
      /\ view' = view /\ left' = left
  BY DEF Get
<1>2. Last' = Last /\ Conns' = Conns /\ Dead' = Dead
  BY <1>1 DEF Last, Conns, Dead
<1>3. /\ task = "get" /\ task' = "handle" /\ queue # <<>> /\ event' = Head(queue)
         /\ queue' = Tail(queue)
  BY DEF Get
<1>4. /\ Head(queue) = queue[1] /\ 1 \in DOMAIN queue /\ Len(queue) = Len(queue') + 1
         /\ Len(queue') \in Nat
      /\ DOMAIN queue = 1..Len(queue) /\ DOMAIN queue' = 1..Len(queue')
      /\ \A i \in DOMAIN queue' : i + 1 \in DOMAIN queue /\ queue'[i] = queue[i + 1]
      /\ Range(queue) = Range(queue') \cup {Head(queue)}
  BY <1>3, TypeParts, TailProperties
<1>5. InFlight' = InFlight /\ Head(queue) \in InFlight /\ Range(posting') = Range(posting)
  BY <1>1, <1>3, <1>4 DEF InFlight
<1>6. closing["task"] = "no" /\ ~(task = "clear")
  BY <1>3, TypeParts DEF Core, InClose
<1>7. Last \in left => Head(queue).conn = 0 /\ \A f \in Range(queue) : f.conn = 0
  BY <1>3, <1>4 DEF Core, Silent
<1>8. stale' = FALSE /\ ~stale
  BY <1>5, <1>7, TypeParts DEF Get, Core, Silent, Single, Conns
<1>9. \A f \in Range(queue') : f.event # "CONNECTED" /\ f.event # "DNS"
  <2> SUFFICES ASSUME NEW i \in DOMAIN queue'
               PROVE  queue'[i].event \notin {"CONNECTED", "DNS"}
    BY DEF Range
  <2>1. i + 1 \in DOMAIN queue /\ i + 1 # 1 /\ Len(queue) # 1 /\ queue'[i] = queue[i + 1]
    BY <1>4
  <2> QED BY <2>1 DEF Core, Accepted, Resolving
<1>10. \A i \in DOMAIN queue' : queue'[i].event \in Final => i = Len(queue') /\ posting = <<>>
  <2> SUFFICES ASSUME NEW i \in DOMAIN queue', queue'[i].event \in Final
               PROVE  i = Len(queue') /\ posting = <<>>
    OBVIOUS
  <2>1. i + 1 \in DOMAIN queue /\ queue'[i] = queue[i + 1]
    BY <1>4
  <2>2. i + 1 = Len(queue) /\ posting = <<>>
    BY <2>1 DEF Core, Ended
  <2> QED BY <1>4, <2>2
<1>11. Head(queue).event \in Final => posting = <<>> /\ Range(queue') = {}
  <2> SUFFICES ASSUME Head(queue).event \in Final
               PROVE  posting = <<>> /\ Range(queue') = {}
    OBVIOUS
  <2>1. 1 = Len(queue) /\ posting = <<>>
    BY <1>4 DEF Core, Ended
  <2>2. DOMAIN queue' = {}
    BY <1>4, <2>1
  <2> QED BY <2>1, <2>2 DEF Range
<1>12. \A i \in DOMAIN queue' : queue'[i] \in Range(queue')
  BY DEF Range
<1>13. Single'
  BY <1>1, <1>2, <1>5 DEF Core, Single
<1>14. Told'
  BY <1>1, <1>2, <1>3, <1>5 DEF Core, Told, Some, Clearing, Closing
<1>15. Starting'
  BY <1>1, <1>2, <1>5 DEF Core, Starting
<1>16. Accepted'
  BY <1>1, <1>2, <1>3, <1>4, <1>5, <1>9 DEF Core, Accepted, Some
<1>17. Held'
  BY <1>1, <1>2, <1>3, <1>5 DEF Core, Held, Some, Clearing, Closing
<1>18. Ended'
  BY <1>1, <1>2, <1>3, <1>5, <1>11 DEF Core, Ended, Some, Closing
<1>19. InClose'
  BY <1>1, <1>2 DEF Core, InClose
<1>20. Resolving'
  BY <1>1, <1>2, <1>3, <1>5 DEF Core, Resolving, Waiting, Some
<1>21. Silent'
  BY <1>1, <1>2, <1>4, <1>8 DEF Core, Silent
<1> QED BY <1>13, <1>14, <1>15, <1>16, <1>17, <1>18, <1>19, <1>20, <1>21 DEF Core

(* A posted event is dropped while the queue is cleared. *)
LEMMA ClearDropStep ==
    ASSUME TypeOK, Core, ClearDrop, Calm'
    PROVE  Core'
<1>1. /\ conns' = conns /\ pcb' = pcb /\ posting' = posting /\ task' = task /\ event' = event
      /\ closing' = closing /\ dns' = dns /\ view' = view /\ left' = left /\ stale' = stale
  BY DEF ClearDrop, history
<1>2. Last' = Last /\ Conns' = Conns /\ Dead' = Dead
  BY <1>1 DEF Last, Conns, Dead
<1>3. /\ task = "clear" /\ queue # <<>> /\ queue' = Tail(queue)
  BY DEF ClearDrop
<1>4. /\ Head(queue) = queue[1] /\ 1 \in DOMAIN queue /\ Len(queue) = Len(queue') + 1
         /\ Len(queue') \in Nat
      /\ DOMAIN queue = 1..Len(queue) /\ DOMAIN queue' = 1..Len(queue')
      /\ \A i \in DOMAIN queue' : i + 1 \in DOMAIN queue /\ queue'[i] = queue[i + 1]
      /\ Range(queue) = Range(queue') \cup {Head(queue)}
  BY <1>3, TypeParts, TailProperties
<1>5. InFlight' \subseteq InFlight /\ Range(posting') = Range(posting)
  BY <1>1, <1>4 DEF InFlight
<1>6. view # "wait" /\ ~dns /\ (pcb # 0 => Closing) /\ closing["task"] = "no"
      /\ \A f \in InFlight : f.event \notin {"CONNECTED", "DNS"}
  BY <1>3 DEF Core, Told, Held, Accepted, Resolving, InClose, Some, Clearing
<1>7. Single'
  BY <1>1, <1>2, <1>5 DEF Core, Single
<1>8. Told'
  BY <1>1, <1>2, <1>6 DEF Core, Told
<1>9. Starting'
  BY <1>1, <1>2, <1>5 DEF Core, Starting
<1>10. Accepted'
  BY <1>1, <1>4, <1>5, <1>6 DEF Core, Accepted, Some
<1>11. Held'
  BY <1>1, <1>2, <1>6 DEF Core, Held, Some, Closing
<1>12. Ended'
  BY <1>1, <1>2, <1>4, <1>5 DEF Core, Ended, Some, Closing
<1>13. InClose'
  BY <1>1, <1>2, <1>3 DEF Core, InClose
<1>14. Resolving'
  BY <1>1, <1>2, <1>3, <1>5 DEF Core, Resolving, Waiting, Some
<1>15. Silent'
  BY <1>1, <1>2, <1>3, <1>4 DEF Core, Silent
<1> QED BY <1>7, <1>8, <1>9, <1>10, <1>11, <1>12, <1>13, <1>14, <1>15 DEF Core

(* The queue is cleared. *)
LEMMA ClearEndStep ==
    ASSUME TypeOK, Core, ClearEnd, Calm'
    PROVE  Core'
<1>1. /\ conns' = conns /\ pcb' = pcb /\ queue' = queue /\ posting' = posting /\ event' = event
      /\ closing' = closing /\ dns' = dns /\ view' = view /\ left' = left /\ stale' = stale
  BY DEF ClearEnd, history
<1>2. Last' = Last /\ Conns' = Conns /\ Dead' = Dead
  BY <1>1 DEF Last, Conns, Dead
<1>3. /\ task = "clear" /\ task' = "get"
  BY DEF ClearEnd
<1>4. InFlight' = InFlight /\ Range(posting') = Range(posting) /\ Range(queue') = Range(queue)
  BY <1>1, <1>3 DEF InFlight
<1>5. closing["task"] = "no" /\ \A f \in InFlight : f.event # "DNS"
  BY <1>3 DEF Core, InClose, Resolving, Told, Some, Clearing
<1>6. Single'
  BY <1>1, <1>2, <1>4 DEF Core, Single
<1>7. Told'
  BY <1>1, <1>2, <1>3 DEF Core, Told, Clearing
<1>8. Starting'
  BY <1>1, <1>2, <1>4 DEF Core, Starting
<1>9. Accepted'
  BY <1>1, <1>2, <1>3, <1>4 DEF Core, Accepted, Some
<1>10. Held'
  BY <1>1, <1>2, <1>3, <1>4 DEF Core, Held, Some, Clearing, Closing
<1>11. Ended'
  BY <1>1, <1>2, <1>3, <1>4 DEF Core, Ended, Some, Closing
<1>12. InClose'
  BY <1>1, <1>2, <1>3 DEF Core, InClose
<1>13. Resolving'
  BY <1>1, <1>2, <1>3, <1>4 DEF Core, Resolving, Waiting, Some
<1>14. Silent'
  BY <1>1, <1>2, <1>3 DEF Core, Silent
<1> QED BY <1>6, <1>7, <1>8, <1>9, <1>10, <1>11, <1>12, <1>13, <1>14 DEF Core

(* CONNECTED is dispatched: the connection is the client's now. *)
LEMMA ConnectedStep ==
    ASSUME TypeOK, Core, Connected, Calm'
    PROVE  Core'
<1>1. /\ conns' = conns /\ queue' = queue /\ posting' = posting /\ event' = event
         /\ closing' = closing
      /\ dns' = dns /\ left' = left /\ stale' = stale
      /\ task' = "get" /\ view' = "up" /\ pcb' = event.conn
  BY DEF Connected, history
<1>2. Last' = Last /\ Conns' = Conns /\ Dead' = Dead
  BY <1>1 DEF Last, Conns, Dead
<1>3. task = "handle" /\ event.event = "CONNECTED" /\ closing["task"] = "no" /\ event \in InFlight
  BY Members DEF Connected, Handle
<1>4. event.conn = Last /\ Last # 0 /\ Last \in Conns /\ conns[Last].hooked /\ view = "wait"
      /\ ~Closing /\ ~Clearing
  BY <1>3 DEF Core, Single, Accepted, Told, Some, Conns, Last
<1>5. InFlight' = Range(queue) \cup Range(posting) /\ InFlight' \subseteq InFlight
      /\ InFlight \subseteq InFlight' \cup {event}
  BY <1>1, <1>3 DEF InFlight
<1>6. /\ \A f \in InFlight : f.event \notin {"FIN", "DNS", "CLEAR"}
      /\ \A f \in InFlight' : f.event # "CONNECTED"
  BY <1>3, <1>4, <1>5 DEF Core, Accepted, Ended, Resolving, Some, Clearing
<1>7. conns[Last].state # "syn"
      /\ (conns[Last].state = "gone" => \E f \in InFlight' : f.event = "ERROR")
  BY <1>3, <1>4, <1>5 DEF Core, Starting, Accepted, Some
<1>8. ~dns /\ Last \notin left
  <2>1. ~dns
    BY <1>3 DEF Core, Resolving
  <2>2. ASSUME Last \in left
        PROVE  FALSE
    <3>1. conns[Last].state = "gone"
      BY <1>4, <2>2 DEF Core, Silent, Dead
    <3>2. PICK f \in Range(queue) \cup Range(posting) : f.event = "ERROR"
      BY <1>5, <1>7, <3>1
    <3>3. f.conn = Last
      BY <1>5, <3>2 DEF Core, Single
    <3>4. queue # <<>> => queue[1] \in Range(queue)
      BY TypeParts, Members
    <3>5. queue # <<>> => queue[1].event # "CLEAR"
      BY <3>4, <1>6, Members
    <3> QED BY <1>4, <2>2, <3>2, <3>3, <3>5 DEF Core, Silent
  <2> QED BY <2>1, <2>2
<1>9. Single'
  BY <1>1, <1>2, <1>3, <1>5 DEF Core, Single
<1>10. Told'
  BY <1>1 DEF Told
<1>11. Starting'
  BY <1>1, <1>2, <1>7 DEF Starting
<1>12. Accepted'
  BY <1>1, <1>3, <1>5 DEF Core, Accepted, Some
<1>13. Held'
  BY <1>1, <1>2, <1>4, <1>5, <1>7 DEF Held, Some, Clearing
<1>14. Ended'
  BY <1>1, <1>2, <1>4, <1>5 DEF Core, Ended, Some
<1>15. InClose'
  BY <1>1, <1>3, <1>4 DEF Core, InClose
<1>16. Resolving'
  BY <1>1, <1>3, <1>5 DEF Core, Resolving, Waiting, Some
<1>17. Silent'
  BY <1>1, <1>2 DEF Core, Silent
<1> QED BY <1>9, <1>10, <1>11, <1>12, <1>13, <1>14, <1>15, <1>16, <1>17 DEF Core

(* Data or a poll is dispatched and the client stays as it is. *)
LEMMA SeenStep ==
    ASSUME TypeOK, Core, Seen, Calm'
    PROVE  Core'
<1>1. /\ conns' = conns /\ pcb' = pcb /\ queue' = queue /\ posting' = posting /\ event' = event
      /\ closing' = closing /\ dns' = dns /\ view' = view /\ left' = left /\ stale' = stale
         /\ task' = "get"
  BY DEF Seen, history
<1>2. Last' = Last /\ Conns' = Conns /\ Dead' = Dead
  BY <1>1 DEF Last, Conns, Dead
<1>3. task = "handle" /\ event.event \in {"RECV", "POLL"} /\ closing["task"] = "no"
      /\ event \in InFlight
  BY Members DEF Seen, Handle
<1>4. InFlight' = Range(queue) \cup Range(posting) /\ InFlight' \subseteq InFlight
      /\ InFlight \subseteq InFlight' \cup {event}
  BY <1>1, <1>3 DEF InFlight
<1>5. \A k \in {"ERROR", "CONNECTED", "CLEAR"} : Some(k)' <=> Some(k)
  BY <1>3, <1>4 DEF Some
<1>6. ~dns /\ \A f \in InFlight : f.event # "DNS"
  BY <1>3 DEF Core, Resolving, Some
<1>7. Single'
  BY <1>1, <1>2, <1>4 DEF Core, Single
<1>8. Told'
  BY <1>1, <1>2, <1>5 DEF Core, Told, Clearing, Closing
<1>9. Starting'
  BY <1>1, <1>2, <1>4 DEF Core, Starting
<1>10. Accepted'
  BY <1>1, <1>2, <1>5 DEF Core, Accepted
<1>11. Held'
  BY <1>1, <1>2, <1>5 DEF Core, Held, Clearing, Closing
<1>12. Ended'
  BY <1>1, <1>2, <1>4 DEF Core, Ended, Some, Closing
<1>13. InClose'
  BY <1>1, <1>2, <1>3 DEF Core, InClose
<1>14. Resolving'
  BY <1>1, <1>2, <1>4 DEF Core, Resolving, Waiting, Some
<1>15. Silent'
  BY <1>1, <1>2 DEF Core, Silent
<1> QED BY <1>7, <1>8, <1>9, <1>10, <1>11, <1>12, <1>13, <1>14, <1>15 DEF Core

(* ERROR is dispatched: it was the last event of the connection. *)
LEMMA ErrorStep ==
    ASSUME TypeOK, Core, Error, Calm'
    PROVE  Core'
<1>1. /\ queue' = queue /\ posting' = posting /\ event' = event /\ closing' = closing
         /\ dns' = dns
      /\ stale' = stale
      /\ task' = "get" /\ view' = "down" /\ pcb' = 0 /\ left' = left \cup {event.conn}
  BY DEF Error
<1>2. task = "handle" /\ event.event = "ERROR" /\ closing["task"] = "no" /\ event \in InFlight
  BY Members DEF Error, Handle
<1>3. /\ event.conn = Last /\ Last # 0 /\ Last \in Conns /\ Dead
      /\ posting = <<>> /\ Range(posting) = {} /\ \A f \in Range(queue) : f.event = "CLEAR"
  BY <1>2 DEF Core, Single, Ended, Final, Conns, Last, Range
<1>4. /\ Last' = Last /\ Conns' = Conns /\ Dead'
      /\ \A p \in Conns : conns'[p].state = "gone" /\ (~conns[p].hooked => ~conns'[p].hooked)
  <2>1. CASE pcb = 0
    BY <1>3, <2>1 DEF Error, Last, Conns, Dead
  <2>2. CASE pcb # 0
    <3>1. conns' = Unhook(pcb)
      BY <2>2 DEF Error
    <3>2. /\ Last' = Last /\ Conns' = Conns /\ Dead' = Dead /\ ~conns'[Last].hooked
          /\ \A p \in Conns : p # Last => conns'[p] = conns[p]
      BY <2>2, <3>1, UnhookStep
    <3> QED BY <1>3, <3>2 DEF Dead
  <2> QED BY <2>1, <2>2
<1>5. InFlight' = Range(queue) /\ InFlight' \subseteq InFlight
  BY <1>1, <1>3 DEF InFlight
<1>6. /\ \A f \in InFlight' : f.event = "CLEAR" /\ f.conn = 0
      /\ \A i \in DOMAIN queue : queue[i].event = "CLEAR"
  BY <1>3, <1>5, Members DEF Core, Single
<1>7. ~dns /\ (Closing => ~Closing \/ ~conns[Last].hooked)
  BY <1>2 DEF Core, Resolving, InClose, Closing
<1>8. Single'
  BY <1>1, <1>4, <1>6 DEF Single
<1>9. Told'
  BY <1>1, <1>4 DEF Told
<1>10. Starting'
  BY <1>3, <1>4 DEF Starting
<1>11. Accepted'
  BY <1>1, <1>3, <1>6 DEF Accepted, Some
<1>12. Held'
  BY <1>1, <1>3, <1>4 DEF Held
<1>13. Ended'
  BY <1>1, <1>3, <1>4, <1>5 DEF Core, Ended, Some
<1>14. InClose'
  BY <1>1, <1>2, <1>3, <1>4 DEF Core, InClose
<1>15. Resolving'
  BY <1>1, <1>3, <1>6, <1>7 DEF Resolving, Waiting, Some
<1>16. Silent'
  BY <1>1, <1>3, <1>4, <1>5, <1>6 DEF Core, Silent
<1> QED BY <1>8, <1>9, <1>10, <1>11, <1>12, <1>13, <1>14, <1>15, <1>16 DEF Core

(* FIN is dispatched: it was the last event of the connection. *)
LEMMA FinSeenStep ==
    ASSUME TypeOK, Core, FinSeen, Calm'
    PROVE  Core'
<1>1. /\ conns' = conns /\ pcb' = pcb /\ posting' = posting /\ event' = event
         /\ closing' = closing
      /\ dns' = dns /\ stale' = stale
      /\ task' = "get" /\ view' = "down" /\ left' = left \cup {event.conn} /\ SendFront(Nothing)
  BY DEF FinSeen
<1>2. Last' = Last /\ Conns' = Conns /\ Dead' = Dead
  BY <1>1 DEF Last, Conns, Dead
<1>3. task = "handle" /\ event.event = "FIN" /\ closing["task"] = "no" /\ event \in InFlight
  BY Members DEF FinSeen, Handle
<1>4. /\ event.conn = Last /\ Last # 0 /\ Last \in Conns /\ Dead /\ pcb = 0 /\ ~Closing
      /\ posting = <<>> /\ Range(posting) = {} /\ \A f \in Range(queue) : f.event = "CLEAR"
  BY <1>3 DEF Core, Single, Ended, Final, Some, Conns, Last, Range
<1>5. /\ queue' # <<>> /\ queue'[1] = Nothing
      /\ Range(queue') = Range(queue) \cup {Nothing}
  BY <1>1, NothingProperties, TypeParts, SentInOrder, FrontProperties DEF Calm
<1>6. InFlight' = Range(queue) \cup {Nothing} /\ InFlight' \subseteq InFlight \cup {Nothing}
  BY <1>1, <1>4, <1>5 DEF InFlight
<1>7. /\ \A f \in InFlight' : f.event = "CLEAR" /\ f.conn = 0
      /\ Nothing.event = "CLEAR" /\ Nothing.conn = 0
  BY <1>4, <1>6, NothingProperties DEF Core, Single
<1>8. \A i \in DOMAIN queue' : queue'[i].event = "CLEAR"
  BY <1>5, <1>7, <1>4 DEF Range
<1>9. ~dns /\ Range(posting') = {}
  BY <1>1, <1>3, <1>4 DEF Core, Resolving
<1>10. Single'
  BY <1>1, <1>2, <1>7 DEF Core, Single
<1>11. Told'
  BY <1>1, <1>2, <1>4 DEF Told
<1>12. Starting'
  BY <1>1, <1>2, <1>3 DEF Core, Starting
<1>13. Accepted'
  BY <1>1, <1>4, <1>7, <1>8 DEF Accepted, Some
<1>14. Held'
  BY <1>1, <1>2, <1>4 DEF Held, Dead
<1>15. Ended'
  BY <1>1, <1>7, <1>8 DEF Ended, Final, Some
<1>16. InClose'
  BY <1>1, <1>2, <1>3 DEF Core, InClose
<1>17. Resolving'
  BY <1>1, <1>7, <1>8, <1>9 DEF Resolving, Waiting, Some
<1>18. Silent'
  BY <1>1, <1>2, <1>4, <1>5, <1>7 DEF Core, Silent
<1> QED BY <1>10, <1>11, <1>12, <1>13, <1>14, <1>15, <1>16, <1>17, <1>18 DEF Core

(* The application aborts the connection: ERROR is posted if it has callbacks. *)
LEMMA AppAbortStep ==
    ASSUME TypeOK, Core, AppAbort, Calm'
    PROVE  Core'
<1>1. /\ queue' = queue /\ task' = task /\ event' = event /\ closing' = closing /\ dns' = dns
      /\ view' = view /\ left' = left /\ stale' = stale /\ pcb' = 0 /\ pcb # 0
  BY DEF AppAbort, Abort, history
<1>2. /\ pcb = Last /\ Last # 0 /\ Last \in Conns /\ Last' = Last /\ Conns' = Conns
      /\ conns'[Last].state = "gone" /\ conns'[Last].hooked = conns[Last].hooked
      /\ \A q \in Conns : q # Last => conns'[q] = conns[q] /\ conns'[q].state = "gone" /\ Dead'
  <2>1. pcb \in Conns /\ pcb = Last /\ conns' = State(pcb, "gone") /\ "gone" \in States
    BY TypeParts DEF Core, Single, AppAbort, Abort, States
  <2> QED BY <2>1, StateStep
<1>3. posting = <<>> /\ Range(posting) = {} /\ Range(queue') = Range(queue)
  BY <1>1 DEF AppAbort, LwipFree, Range
<1>4. IF conns[Last].hooked /\ conns[Last].state # "gone"
        THEN /\ posting' # <<>> /\ Range(posting') = {E("ERROR", Last)}
             /\ InFlight' = InFlight \cup {E("ERROR", Last)}
        ELSE posting' = posting /\ InFlight' = InFlight
  <2>1. posting' = IF conns[Last].hooked
        /\ conns[Last].state # "gone" THEN <<E("ERROR", Last)>> ELSE <<>>
    BY <1>2 DEF AppAbort, Abort
  <2>2. ASSUME posting' = <<E("ERROR", Last)>>
        PROVE  posting' # <<>> /\ Range(posting') = {E("ERROR", Last)}
    BY <2>2 DEF Range
  <2> QED BY <1>1, <1>3, <2>1, <2>2 DEF InFlight
<1>5. E("ERROR", Last).event = "ERROR" /\ E("ERROR", Last).conn = Last
  BY DEF E
<1>6. /\ view = "up" /\ ~dns
      /\ \A e \in InFlight : e.event \notin {"CONNECTED", "FIN", "DNS"}
      /\ conns[Last].state # "gone" => Last \notin left /\ \A e \in InFlight : e.event # "ERROR"
  BY <1>2 DEF Core, Accepted, Held, Ended, Resolving, Silent, Final, Some, Dead
<1>7. /\ \A i \in DOMAIN queue : queue[i].event \notin {"CONNECTED", "FIN", "DNS"}
      /\ \A i \in DOMAIN queue : conns[Last].state # "gone" => queue[i].event # "ERROR"
      /\ task = "handle" => event.event \notin {"CONNECTED", "FIN", "DNS"}
      /\ task = "handle" /\ conns[Last].state # "gone" => event.event # "ERROR"
  BY <1>6, Members
<1>8. Single'
  BY <1>1, <1>2, <1>4, <1>5 DEF Core, Single
<1>9. Told'
  BY <1>1, <1>6 DEF Told
<1>10. Starting'
  BY <1>2 DEF Starting
<1>11. Accepted'
  BY <1>1, <1>3, <1>4, <1>5, <1>6, <1>7 DEF Accepted, Some
<1>12. Held'
  BY <1>1, <1>2 DEF Held
<1>13. Ended'
  <2>1. CASE conns[Last].hooked /\ conns[Last].state # "gone"
    BY <1>1, <1>2, <1>4, <1>5, <1>6, <1>7, <2>1 DEF Ended, Final, Some, Dead
  <2>2. CASE ~(conns[Last].hooked /\ conns[Last].state # "gone")
    BY <1>1, <1>2, <1>4, <2>2 DEF Core, Ended, Some, Dead
  <2> QED BY <2>1, <2>2
<1>14. InClose'
  <2>1. CASE conns[Last].hooked /\ conns[Last].state # "gone"
    BY <1>1, <2>1 DEF Core, InClose, Threads
  <2>2. CASE ~(conns[Last].hooked /\ conns[Last].state # "gone")
    BY <1>1, <1>2, <1>4, <2>2 DEF Core, InClose, Dead
  <2> QED BY <2>1, <2>2
<1>15. Resolving'
  BY <1>1, <1>3, <1>4, <1>5, <1>6, <1>7 DEF Resolving, Waiting, Some
<1>16. Silent'
  <2>1. CASE conns[Last].hooked /\ conns[Last].state # "gone"
    BY <1>1, <1>2, <1>6, <2>1 DEF Core, Silent
  <2>2. CASE ~(conns[Last].hooked /\ conns[Last].state # "gone")
    BY <1>1, <1>2, <1>4 DEF Core, Silent, Dead
  <2> QED BY <2>1, <2>2
<1> QED BY <1>8, <1>9, <1>10, <1>11, <1>12, <1>13, <1>14, <1>15, <1>16 DEF Core

(* The address arrives and the client connects. *)
LEMMA DnsOpenStep ==
    ASSUME TypeOK, Core, Dns, view' = view, Calm',
           conns' = Append(conns, [state |-> "syn", hooked |-> TRUE])
    PROVE  Core'
<1>1. /\ pcb' = pcb /\ queue' = queue /\ posting' = posting /\ event' = event
         /\ closing' = closing
      /\ dns' = dns /\ left' = left /\ stale' = stale /\ task' = "get"
  BY DEF Dns
<1>2. task = "handle" /\ event.event = "DNS" /\ closing["task"] = "no" /\ event \in InFlight
  BY Members DEF Dns, Handle
<1>3. /\ view = "wait" /\ pcb = 0 /\ ~Closing /\ ~Clearing /\ Dead /\ ~dns
      /\ queue = <<>> /\ posting = <<>>
  BY <1>2 DEF Core, Told, Resolving, Some
<1>4. InFlight' = {} /\ Range(queue) = {} /\ Range(posting) = {} /\ DOMAIN queue = {}
  BY <1>1, <1>3 DEF InFlight, Range
<1>5. /\ Last' = Last + 1 /\ Last \in Nat /\ Conns' = Conns \cup {Last'}
        /\ conns'[Last'].state = "syn" /\ conns'[Last'].hooked
        /\ \A p \in Conns : p # Last' /\ conns'[p] = conns[p]
  BY DEF Last, Conns, TypeOK
<1>6. Last' \notin left' /\ left' \subseteq Conns' /\ ~stale
  BY <1>1, <1>5 DEF Core, Silent
<1>7. /\ \A p \in Conns' : p # Last' => conns'[p].state = "gone"
      /\ \A p \in Conns' : conns'[p].state # "half"
  BY <1>3, <1>5 DEF Dead
<1>8. Single'
  BY <1>1, <1>3, <1>4, <1>7 DEF Single
<1>9. Told'
  BY <1>1, <1>3, <1>4 DEF Told, Some, Clearing, Closing
<1>10. Starting'
  BY <1>1, <1>3, <1>4, <1>5 DEF Starting
<1>11. Accepted'
  BY <1>1, <1>3, <1>4, <1>5 DEF Accepted
<1>12. Held'
  BY <1>1, <1>3, <1>5 DEF Held
<1>13. Ended'
  BY <1>1, <1>4 DEF Ended, Some
<1>14. InClose'
  BY <1>1, <1>2, <1>3 DEF InClose, Closing
<1>15. Resolving'
  BY <1>1, <1>3, <1>4 DEF Resolving, Waiting, Some
<1>16. Silent'
  BY <1>1, <1>6 DEF Silent
<1> QED BY <1>8, <1>9, <1>10, <1>11, <1>12, <1>13, <1>14, <1>15, <1>16 DEF Core

(* The address arrives and connect() fails, or there is none. *)
LEMMA DnsElseStep ==
    ASSUME TypeOK, Core, Dns, conns' = conns, Calm'
    PROVE  Core'
<1>1. /\ pcb' = pcb /\ queue' = queue /\ posting' = posting /\ event' = event
         /\ closing' = closing
      /\ dns' = dns /\ left' = left /\ stale' = stale /\ task' = "get"
  BY DEF Dns
<1>2. task = "handle" /\ event.event = "DNS" /\ closing["task"] = "no" /\ event \in InFlight
  BY Members DEF Dns, Handle
<1>3. /\ view = "wait" /\ pcb = 0 /\ ~Closing /\ ~Clearing /\ Dead /\ ~dns
      /\ queue = <<>> /\ posting = <<>>
  BY <1>2 DEF Core, Told, Resolving, Some
<1>4. InFlight' = {} /\ Range(queue) = {} /\ Range(posting) = {} /\ DOMAIN queue = {}
  BY <1>1, <1>3 DEF InFlight, Range
<1>5. Last' = Last /\ Conns' = Conns /\ Dead' = Dead
  BY DEF Last, Conns, Dead
<1>6. view' \in {"wait", "down"} /\ (Last # 0 => Last \in Conns)
  BY <1>3 DEF Dns, Last, Conns
<1>7. Single'
  BY <1>1, <1>4, <1>5 DEF Core, Single
<1>8. Told'
  BY <1>1, <1>3, <1>4, <1>5 DEF Told, Some, Clearing, Closing
<1>9. Starting'
  BY <1>2, <1>5 DEF Core, Starting
<1>10. Accepted'
  BY <1>1, <1>4 DEF Accepted, Some
<1>11. Held'
  BY <1>1, <1>3, <1>5, <1>6 DEF Held, Dead
<1>12. Ended'
  BY <1>1, <1>4 DEF Ended, Some
<1>13. InClose'
  BY <1>1, <1>2, <1>5 DEF Core, InClose
<1>14. Resolving'
  BY <1>1, <1>3, <1>4 DEF Resolving, Waiting, Some
<1>15. Silent'
  BY <1>1, <1>5 DEF Core, Silent
<1> QED BY <1>7, <1>8, <1>9, <1>10, <1>11, <1>12, <1>13, <1>14, <1>15 DEF Core

(* The API call of _close: the connection is closed or aborted, nothing is posted. *)
LEMMA CloseApiStep ==
    ASSUME TypeOK, Core, NEW t \in Threads, CloseApi(t), Calm'
    PROVE  Core'
<1>1. /\ queue' = queue /\ task' = task /\ event' = event /\ dns' = dns /\ view' = view
      /\ left' = left /\ stale' = stale
      /\ closing[t] = "api" /\ closing'[t] = "end"
         /\ \A u \in Threads : u # t => closing'[u] = closing[u]
  BY TypeParts DEF CloseApi, history
<1>2. Last # 0 /\ Last \in Conns /\ ~conns[Last].hooked /\ (pcb # 0 => pcb = Last)
      /\ (pcb = 0 => Dead)
  BY <1>1 DEF Core, Single, InClose, Conns, Last
<1>3. /\ Last' = Last /\ Conns' = Conns /\ conns'[Last].hooked = conns[Last].hooked
      /\ \A q \in Conns : q # Last => conns'[q] = conns[q] /\ conns'[q].state = "gone"
      /\ conns'[Last].state = "gone" /\ Dead' /\ pcb' \in {0, pcb}
  <2>1. CASE pcb = 0
    <3>1. conns' = conns /\ pcb' = 0
      BY <2>1 DEF CloseApi
    <3> QED BY <1>2, <2>1, <3>1 DEF Dead, Last, Conns
  <2>2. CASE pcb # 0
    <3>1. conns' = State(Last, "gone") /\ pcb' \in {0, pcb} /\ "gone" \in States
      BY <1>2, <2>2 DEF CloseApi, Abort, States
    <3> QED BY <1>2, <3>1, StateStep
  <2> QED BY <2>1, <2>2
<1>4. posting = <<>> /\ posting' = <<>> /\ Range(posting) = {}
  BY <1>2 DEF CloseApi, Abort, LwipFree, Range
<1>5. InFlight' = InFlight /\ Range(queue') = Range(queue) /\ Range(posting') = {}
  BY <1>1, <1>4 DEF InFlight
<1>6. /\ view # "wait" /\ ~dns /\ (pcb # 0 => view = "up")
      /\ \A e \in InFlight : e.event \notin {"CONNECTED", "DNS", "FIN"}
  BY <1>1 DEF Core, Told, Held, Accepted, Resolving, Ended, Closing, Some
<1>7. Closing /\ Closing'
  BY <1>1 DEF Closing
<1>8. view = "down" => pcb = 0
  BY DEF Core, Told
<1>9. Single'
  BY <1>3, <1>5 DEF Core, Single
<1>10. Told'
  BY <1>1, <1>3, <1>6 DEF Told
<1>11. Starting'
  BY <1>3 DEF Starting
<1>12. Accepted'
  BY <1>1, <1>2, <1>5 DEF Core, Accepted, Some
<1>13. Held'
  BY <1>1, <1>2, <1>3, <1>6, <1>7 DEF Held
<1>14. Ended'
  BY <1>1, <1>3, <1>4, <1>5, <1>6 DEF Core, Ended, Some
<1>15. InClose'
  BY <1>1, <1>3, <1>4 DEF Core, InClose, Threads
<1>16. Resolving'
  BY <1>1, <1>3, <1>4, <1>5 DEF Core, Resolving, Waiting, Some
<1>17. Silent'
  BY <1>1, <1>3, <1>4 DEF Core, Silent
<1> QED BY <1>9, <1>10, <1>11, <1>12, <1>13, <1>14, <1>15, <1>16, <1>17 DEF Core

(* _close ends: the application is told. *)
LEMMA CloseEndStep ==
    ASSUME TypeOK, Core, NEW t \in Threads, CloseEnd(t), Calm'
    PROVE  Core'
<1>1. /\ conns' = conns /\ queue' = queue /\ posting' = posting /\ event' = event /\ dns' = dns
      /\ stale' = stale /\ pcb' = 0 /\ view' = "down"
      /\ closing[t] = "end" /\ closing'[t] = "no"
         /\ \A u \in Threads : u # t => closing'[u] = closing[u]
  BY TypeParts DEF CloseEnd
<1>2. Last' = Last /\ Conns' = Conns /\ Dead' = Dead
  BY <1>1 DEF Last, Conns, Dead
<1>3. Last # 0 /\ Last \in Conns /\ ~conns[Last].hooked /\ Dead
  BY <1>1 DEF Core, InClose, Conns, Last
<1>4. IF t = "task"
        THEN /\ task = "handle" /\ task' = "get" /\ left' = left \cup {event.conn}
             /\ event.event \in {"RECV", "POLL"} /\ event.conn = Last /\ posting = <<>>
             /\ queue # <<>> /\ queue[1].event = "CLEAR"
        ELSE task' = task /\ left' = left
  <2>1. CASE t = "task"
    <3>1. /\ task = "handle" /\ event.event \in {"RECV", "POLL"} /\ posting = <<>>
          /\ queue # <<>> /\ queue[1].event = "CLEAR"
      BY <1>1, <2>1 DEF Core, InClose
    <3>2. event.conn = Last
      BY <3>1, Members DEF Core, Single
    <3> QED BY <2>1, <3>1, <3>2 DEF CloseEnd
  <2> QED BY <2>1 DEF CloseEnd
<1>5. InFlight' \subseteq InFlight /\ Range(queue') = Range(queue)
      /\ Range(posting') = Range(posting)
  BY <1>1, <1>4 DEF InFlight
<1>6. /\ view # "wait" /\ ~dns
      /\ \A e \in InFlight : e.event \notin {"CONNECTED", "DNS", "FIN"}
  BY <1>1 DEF Core, Told, Accepted, Resolving, Ended, Closing, Some
<1>7. /\ \A i \in DOMAIN queue : queue[i].event \notin {"CONNECTED", "DNS", "FIN"}
      /\ task = "handle" => event.event \notin {"CONNECTED", "DNS", "FIN"}
      /\ \A f \in Range(posting) : f.event \notin {"CONNECTED", "DNS", "FIN"}
  BY <1>6, Members
<1>8. posting = <<>> => Range(posting) = {}
  BY DEF Range
<1>9. Single'
  BY <1>1, <1>2, <1>5 DEF Core, Single
<1>10. Told'
  BY <1>1, <1>2, <1>3 DEF Told
<1>11. Starting'
  BY <1>1, <1>2, <1>3 DEF Core, Starting
<1>12. Accepted'
  BY <1>1, <1>4, <1>5, <1>6, <1>7 DEF Accepted, Some
<1>13. Held'
  BY <1>1, <1>2, <1>3 DEF Held, Dead
<1>14. Ended'
  BY <1>1, <1>2, <1>4, <1>5, <1>6 DEF Core, Ended, Some
<1>15. InClose'
  BY <1>1, <1>2, <1>4 DEF Core, InClose, Threads
<1>16. Resolving'
  BY <1>1, <1>4, <1>5, <1>6, <1>7 DEF Resolving, Waiting, Some
<1>17. Silent'
  BY <1>1, <1>2, <1>3, <1>4, <1>8 DEF Core, Silent
<1> QED BY <1>9, <1>10, <1>11, <1>12, <1>13, <1>14, <1>15, <1>16, <1>17 DEF Core


(* A rotation for another client moves the events and keeps their order.   *)
LEMMA RotateStep ==
    ASSUME TypeOK, Core, Rotate
    PROVE  Core'
<1>1. /\ conns' = conns /\ pcb' = pcb /\ queue' = queue /\ posting' = posting
      /\ event' = event /\ closing' = closing /\ dns' = dns /\ view' = view /\ left' = left
      /\ stale' = stale /\ task \in {"get", "first", "turn"}
      /\ task' \in {"get", "first", "turn"}
  BY DEF Rotate, RotateBegin, RotateFirst, RotateTake, RotateSend, RotateEnd, history
<1>2. InFlight' = InFlight
  BY <1>1 DEF InFlight
<1>3. /\ Last' = Last /\ Conns' = Conns /\ Dead' = Dead /\ Waiting /\ Waiting'
      /\ Closing' = Closing /\ Clearing' = Clearing /\ \A k : Some(k)' = Some(k)
  BY <1>1, <1>2 DEF Last, Conns, Dead, Closing, Clearing, Some, Waiting
<1>4. Single' /\ Told' /\ Starting' /\ Held'
  BY <1>1, <1>2, <1>3 DEF Core, Single, Told, Starting, Held
<1>5. Accepted' /\ Ended'
  BY <1>1, <1>2, <1>3 DEF Core, Accepted, Ended
<1>6. InClose' /\ Silent'
  BY <1>1, <1>2, <1>3 DEF Core, InClose, Silent
<1>7. Resolving'
  BY <1>1, <1>2, <1>3 DEF Core, Resolving, Waiting
<1> QED BY <1>4, <1>5, <1>6, <1>7 DEF Core

(* Nothing happens. *)
LEMMA StutterStep ==
    ASSUME Core, UNCHANGED vars
    PROVE  Core'
<1>1. /\ conns' = conns /\ pcb' = pcb /\ queue' = queue /\ posting' = posting /\ task' = task
      /\ event' = event /\ closing' = closing /\ dns' = dns /\ view' = view /\ left' = left
      /\ stale' = stale
  BY DEF vars, history
<1>2. /\ Last' = Last /\ Conns' = Conns /\ Dead' = Dead /\ InFlight' = InFlight
      /\ Closing' = Closing /\ Clearing' = Clearing /\ \A k : Some(k)' = Some(k)
      /\ Waiting' = Waiting
  BY <1>1 DEF Last, Conns, Dead, InFlight, Closing, Clearing, Some, Waiting
<1> QED
  BY <1>1, <1>2 DEF Core, Single, Told, Starting, Accepted, Held, Ended, InClose, Resolving,
     Silent

(* Every step keeps the invariant: while the application waits and no FIN  *)
(* was early, one step per action.                                         *)
LEMMA IInvStep == IInv /\ [Next]_vars => IInv'
<1> SUFFICES ASSUME IInv, [Next]_vars PROVE IInv'
  OBVIOUS
<1>1. TypeOK /\ TypeOK'
  BY TypeStep DEF IInv
<1>2. ASSUME Calm' PROVE Core'
  <2>1. Calm
    <3>1. hasty' = FALSE /\ early' = {} /\ mixed' = FALSE /\ mixed \in BOOLEAN
      BY <1>1, <1>2 DEF Calm, TypeOK
    <3>2. ASSUME NEW p \in Conns, Lwip(p) PROVE Calm
      BY <3>1, <3>2 DEF Calm, Lwip, SynAck, Report, Fin, Reset, history
    <3>3. ASSUME NEW t \in Threads, CloseApi(t) \/ CloseEnd(t) \/ Detach(t) PROVE Calm
      BY <3>1, <3>3 DEF Calm, CloseApi, CloseEnd, Detach, SendFront, history
    <3>4. CASE AppConnect \/ AppAbort \/ DnsFound \/ Post \/ UNCHANGED vars
      BY <3>1, <3>4 DEF Calm, AppConnect, AppAbort, DnsFound, Post, SendFront, SendBack, vars,
         history
    <3>5. CASE Rotate
      BY <3>1, <3>5 DEF Calm, Rotate, RotateBegin, RotateFirst, RotateTake, RotateSend,
         RotateEnd, history
    <3>6. CASE Get \/ ClearDrop \/ ClearEnd \/ Connected \/ Seen \/ Error \/ FinSeen \/ Dns
      BY <3>1, <3>6 DEF Calm, Get, ClearDrop, ClearEnd, Connected, Seen, Error, FinSeen, Dns,
         SendFront, history
    <3> QED BY <3>2, <3>3, <3>4, <3>5, <3>6 DEF Next, Service, AppClose, TaskClose, Threads
  <2>2. Core
    BY <2>1 DEF IInv
  <2>3. ASSUME NEW t \in Threads, CloseApi(t) \/ CloseEnd(t) PROVE Core'
    BY <1>1, <1>2, <2>2, <2>3, CloseApiStep, CloseEndStep
  <2>4. CASE AppConnect
    BY <1>1, <1>2, <2>2, <2>4, AppConnectStep
  <2>5. CASE AppClose
    BY <1>1, <1>2, <2>2, <2>5, DetachStep DEF AppClose, Threads
  <2>6. CASE AppAbort
    BY <1>1, <1>2, <2>2, <2>6, AppAbortStep
  <2>7. CASE Get
    BY <1>1, <1>2, <2>2, <2>7, GetClearStep, GetHandleStep
  <2>8. CASE ClearDrop
    BY <1>1, <1>2, <2>2, <2>8, ClearDropStep
  <2>9. CASE ClearEnd
    BY <1>1, <1>2, <2>2, <2>9, ClearEndStep
  <2>10. CASE Connected
    BY <1>1, <1>2, <2>2, <2>10, ConnectedStep
  <2>11. CASE Seen
    BY <1>1, <1>2, <2>2, <2>11, SeenStep
  <2>12. CASE TaskClose
    <3>1. Detach("task") /\ task = "handle" /\ event.event \in {"RECV", "POLL"}
      BY <2>12 DEF TaskClose, Handle
    <3> QED BY <1>1, <1>2, <2>2, <3>1, DetachStep DEF Threads
  <2>13. CASE Error
    BY <1>1, <1>2, <2>2, <2>13, ErrorStep
  <2>14. CASE FinSeen
    BY <1>1, <1>2, <2>2, <2>14, FinSeenStep
  <2>15. CASE Dns
    <3>1. \/ conns' = conns
          \/ conns' = Append(conns, [state |-> "syn", hooked |-> TRUE]) /\ view' = view
      BY <2>15 DEF Dns, Connecting
    <3> QED BY <1>1, <1>2, <2>2, <2>15, <3>1, DnsOpenStep, DnsElseStep
  <2>16. ASSUME NEW p \in Conns, Lwip(p) PROVE Core'
    <3>1. CASE SynAck(p)
      BY <1>1, <1>2, <2>2, <3>1, SynAckStep
    <3>2. CASE Report(p)
      BY <1>1, <1>2, <2>2, <3>2, ReportStep
    <3>3. CASE Fin(p)
      BY <1>1, <1>2, <2>2, <3>3, FinHookedStep, FinUnhookedStep
    <3>4. CASE Reset(p)
      BY <1>1, <1>2, <2>2, <3>4, ResetStep
    <3> QED BY <2>16, <3>1, <3>2, <3>3, <3>4 DEF Lwip
  <2>17. CASE DnsFound
    BY <1>1, <1>2, <2>2, <2>17, DnsFoundStep
  <2>18. CASE Post
    <3>1. PICK e : posting = <<e>>
      BY <1>1, <2>18 DEF Post, TypeOK
    <3>2. CASE e.event = "CONNECTED"
      BY <1>1, <1>2, <2>2, <2>18, <3>1, <3>2, PostFrontStep
    <3>3. CASE e.event # "CONNECTED"
      BY <1>1, <1>2, <2>2, <2>18, <3>1, <3>3, PostBackStep
    <3> QED BY <3>2, <3>3
  <2>19. CASE UNCHANGED vars
    BY <2>2, <2>19, StutterStep
  <2>20. "app" \in Threads /\ "task" \in Threads
    BY DEF Threads
  <2>21. CASE Rotate
    BY <1>1, <2>2, <2>21, RotateStep
  <2>22. CASE Service
    BY <2>22, <2>3, <2>7, <2>8, <2>9, <2>10, <2>11, <2>12, <2>13, <2>14, <2>15, <2>20, <2>21
    DEF Service
  <2> QED
    BY <2>3, <2>4, <2>5, <2>6, <2>16, <2>17, <2>18, <2>19, <2>20, <2>22 DEF Next
<1> QED BY <1>1, <1>2 DEF IInv

(* IInv holds in every state of every behaviour.                          *)
LEMMA Invariant == Spec => []IInv
<1>1. Init => IInv
  BY IInvInit
<1>2. IInv /\ [Next]_vars => IInv'
  BY IInvStep
<1> QED BY <1>1, <1>2, PTL DEF Spec

-----------------------------------------------------------------------------
(***************************************************************************)
(* The properties, for every number of connections.                        *)
(***************************************************************************)

(* The variables are well-formed, and _pcb points to a freed pcb only      *)
(* while its ERROR is under way or the client is being closed, if the      *)
(* application waits, no FIN overtakes CONNECTED and no event is posted    *)
(* into the rotation for another client.                                   *)
THEOREM PcbAlwaysSound == Spec => []PcbSound
<1>1. IInv => PcbSound
  BY CoreImplies DEF IInv
<1> QED BY <1>1, Invariant, PTL

(* Under the same condition no established connection is forgotten.        *)
THEOREM NoneForgotten == Spec => [](~mixed => Reachable)
<1>1. IInv => (~mixed => Reachable)
  BY CoreImplies DEF IInv
<1> QED BY <1>1, Invariant, PTL

(* Under the same condition no connection is alive when the application    *)
(* was told that it is disconnected and all is dispatched.                 *)
THEOREM DownMeansClosed == Spec => [](~mixed => DisconnectedUnlessEarly)
<1>1. IInv => (~mixed => DisconnectedUnlessEarly)
  BY CoreImplies DEF IInv
<1> QED BY <1>1, Invariant, PTL

(* Under the same condition a client never has two connections at once.    *)
THEOREM AtMostOneConnection == Spec => [](~mixed => OneConnection)
<1>1. IInv => (~mixed => OneConnection)
  BY CoreImplies DEF IInv
<1> QED BY <1>1, Invariant, PTL

(* Under the same condition no event of a connection is dispatched after   *)
(* the service task called onDisconnect for it.                            *)
THEOREM NothingAfterDisconnect == Spec => []SilentAfterDisconnect
<1>1. IInv => SilentAfterDisconnect
  BY CoreImplies DEF IInv
<1> QED BY <1>1, Invariant, PTL

=============================================================================
