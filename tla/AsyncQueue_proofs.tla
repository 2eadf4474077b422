-------------------------- MODULE AsyncQueue_proofs --------------------------
(***************************************************************************)
(* For any clients, queue length and events: no packet is lost, queued     *)
(* twice or freed twice; a rotation leaves no packet of its client that    *)
(* was queued when it began, whatever is posted meanwhile; and it keeps    *)
(* the order if nothing is.                                                *)
(***************************************************************************)
EXTENDS AsyncQueue, SequenceTheorems, TLAPS

(***************************************************************************)
(* Sequences as queues.                                                    *)
(***************************************************************************)

(* Sending p to the back or to the front of q adds p to what q holds, and  *)
(* repeats nothing if p was not there.                                     *)
LEMMA SendProperties ==
    ASSUME NEW S, NEW q \in Seq(S), NEW p \in S
    PROVE  /\ Append(q, p) \in Seq(S) /\ <<p>> \o q \in Seq(S)
           /\ Range(Append(q, p)) = Range(q) \cup {p}
           /\ Range(<<p>> \o q) = Range(q) \cup {p}
           /\ IsInjective(q) /\ p \notin Range(q)
                => IsInjective(Append(q, p)) /\ IsInjective(<<p>> \o q)
<1>1. Append(q, p) \in Seq(S) /\ <<p>> \o q \in Seq(S)
  OBVIOUS
<1>2. Range(Append(q, p)) = Range(q) \cup {p}
  BY DEF Range
<1>3. Range(<<p>> \o q) = Range(q) \cup {p}
  <2> DEFINE r == <<p>> \o q
  <2>1. /\ DOMAIN r = 1..(Len(q) + 1)
        /\ r[1] = p
        /\ \A i \in DOMAIN q : i + 1 \in DOMAIN r /\ r[i + 1] = q[i]
        /\ \A i \in DOMAIN r : i # 1 => i - 1 \in DOMAIN q /\ r[i] = q[i - 1]
    OBVIOUS
  <2> HIDE DEF r
  <2>2. Range(r) = Range(q) \cup {p}
    BY <2>1 DEF Range
  <2> QED BY <2>2 DEF r
<1>4. ASSUME IsInjective(q), p \notin Range(q)
      PROVE  IsInjective(Append(q, p)) /\ IsInjective(<<p>> \o q)
  BY <1>4 DEF IsInjective, Range
<1> QED BY <1>1, <1>2, <1>3, <1>4

(* Receiving takes the head out of what q holds. *)
LEMMA ReceiveProperties ==
    ASSUME NEW S, NEW q \in Seq(S), q # <<>>
    PROVE  /\ Head(q) \in S /\ Tail(q) \in Seq(S)
           /\ Range(q) = Range(Tail(q)) \cup {Head(q)}
           /\ IsInjective(q) => IsInjective(Tail(q)) /\ Head(q) \notin Range(Tail(q))
<1>1. Head(q) \in S /\ Tail(q) \in Seq(S)
  OBVIOUS
<1>2. Range(q) = Range(Tail(q)) \cup {Head(q)}
  <2>1. ASSUME NEW i \in DOMAIN q PROVE q[i] \in Range(Tail(q)) \cup {Head(q)}
    <3>1. CASE i = 1 BY <3>1
    <3>2. CASE i # 1
      <4>1. i - 1 \in DOMAIN Tail(q) /\ Tail(q)[i - 1] = q[i]
        BY <3>2
      <4> QED BY <4>1 DEF Range
    <3> QED BY <3>1, <3>2
  <2>2. ASSUME NEW i \in DOMAIN Tail(q) PROVE Tail(q)[i] \in Range(q)
    <3>1. i + 1 \in DOMAIN q /\ Tail(q)[i] = q[i + 1]
      OBVIOUS
    <3> QED BY <3>1 DEF Range
  <2>3. Head(q) \in Range(q)
    BY DEF Range
  <2> QED BY <2>1, <2>2, <2>3 DEF Range
<1>3. ASSUME IsInjective(q)
      PROVE  IsInjective(Tail(q)) /\ Head(q) \notin Range(Tail(q))
  BY <1>3 DEF IsInjective, Range
<1> QED BY <1>1, <1>2, <1>3

-----------------------------------------------------------------------------
(***************************************************************************)
(* The inductive invariant: the types, what the service task holds at each *)
(* of its steps, and the conservation of packets.                          *)
(***************************************************************************)

Holding ==
    /\ pc = "get" <=> event = 0
    /\ pc \in {"putFirst", "put"} <=> packet # 0

IInv == TypeOK /\ Holding /\ Conservation

(* Allocating a packet keeps the old ones and adds one pointer. *)
LEMMA AllocateProperties ==
    ASSUME TypeOK, NEW k \in BackEvents \cup FrontEvents \cup {"CLEAR"}, NEW c \in Clients,
           Allocate(k, c)
    PROVE  /\ heap' \in Seq(Packet) /\ Len(heap') = Len(heap) + 1
           /\ Len(heap) + 1 \in Pointers' /\ Len(heap) + 1 \notin Pointers
           /\ Pointers' = Pointers \cup {Len(heap) + 1}
           /\ Seq(Pointers) \subseteq Seq(Pointers')
<1>1. [event |-> k, arg |-> c] \in Packet
  BY DEF Packet
<1>2. heap' \in Seq(Packet) /\ Len(heap') = Len(heap) + 1
  BY <1>1 DEF Allocate, TypeOK
<1>3. Len(heap) \in Nat
  BY DEF TypeOK
<1>4. Pointers' = Pointers \cup {Len(heap) + 1}
  BY <1>2, <1>3 DEF Pointers
<1>5. Len(heap) + 1 \notin Pointers
  BY <1>3 DEF Pointers
<1>6. Seq(Pointers) \subseteq Seq(Pointers')
  BY <1>4, SeqMonotonic
<1> QED BY <1>2, <1>4, <1>5, <1>6

(* No pointer is NULL. *)
LEMMA PointersPositive == TypeOK => 0 \notin Pointers /\ Len(heap) + 1 # 0
BY DEF TypeOK, Pointers

(* At first there is no packet. *)
LEMMA IInvInit == Init => IInv
<1> SUFFICES ASSUME Init PROVE IInv
  OBVIOUS
<1>1. Pointers = {} /\ Range(queue) = {} /\ InHand = {}
  BY DEF Init, Pointers, Range, InHand
<1>2. TypeOK
  <2>1. <<>> \in Seq(Packet) /\ <<>> \in Seq(Pointers) /\ <<>> \in Seq({"clear", "api"})
    OBVIOUS
  <2> QED BY <2>1 DEF Init, TypeOK
<1>3. Holding
  BY DEF Init, Holding
<1>4. Conservation
  BY <1>1 DEF Init, Conservation, IsInjective
<1> QED BY <1>2, <1>3, <1>4 DEF IInv

(* A lwIP callback allocates its packet. *)
LEMMA LwipCallbackStep ==
    ASSUME IInv, NEW k \in LwipEvents, NEW c \in Clients, LwipCallback(k, c)
    PROVE  IInv'
<1> USE DEF IInv
<1>1. k \in BackEvents \cup FrontEvents \cup {"CLEAR"}
  BY QueueAssumption
<1>2. /\ heap' \in Seq(Packet) /\ Len(heap) + 1 \in Pointers' /\ Len(heap) + 1 \notin Pointers
      /\ Pointers' = Pointers \cup {Len(heap) + 1}
      /\ Seq(Pointers) \subseteq Seq(Pointers')
  BY <1>1, AllocateProperties DEF LwipCallback
<1>3. 0 \notin Pointers /\ Len(heap) + 1 # 0
  BY PointersPositive
<1>4. TypeOK'
  BY <1>2 DEF TypeOK, LwipCallback, svars
<1>5. Holding'
  BY DEF Holding, LwipCallback, svars
<1>6. Range(queue) \subseteq Pointers
  BY DEF TypeOK, Range
<1>7. InHand' = InHand \cup {Len(heap) + 1}
  BY <1>3 DEF InHand, LwipCallback, svars
<1>8. Conservation'
  BY <1>2, <1>3, <1>6, <1>7 DEF Conservation, LwipCallback, svars, TypeOK
<1> QED BY <1>4, <1>5, <1>8

(* Sending a pointer the queue does not hold moves it into the queue. *)
LEMMA SendStep ==
    ASSUME queue \in Seq(Pointers'), IsInjective(queue), NEW p \in Pointers',
           p \notin Range(queue), SendFront(p) \/ SendBack(p)
    PROVE  /\ queue' \in Seq(Pointers')
           /\ Range(queue') = Range(queue) \cup {p}
           /\ IsInjective(queue')
<1> DEFINE S == Pointers'
<1>1. queue \in Seq(S) /\ p \in S
  OBVIOUS
<1> HIDE DEF S
<1>2. /\ Append(queue, p) \in Seq(S) /\ <<p>> \o queue \in Seq(S)
      /\ Range(Append(queue, p)) = Range(queue) \cup {p}
      /\ Range(<<p>> \o queue) = Range(queue) \cup {p}
      /\ IsInjective(Append(queue, p)) /\ IsInjective(<<p>> \o queue)
  BY <1>1, SendProperties
<1>3. queue' = Append(queue, p) \/ queue' = <<p>> \o queue
  BY DEF SendFront, SendBack
<1> QED BY <1>2, <1>3 DEF S

(* A lwIP callback posts its packet. *)
LEMMA LwipPostStep ==
    ASSUME IInv, LwipPost
    PROVE  IInv'
<1> USE DEF IInv
<1>1. lwip \in Pointers /\ lwip \notin Range(queue) /\ Pointers' = Pointers
  BY DEF LwipPost, TypeOK, Conservation, InHand, Pointers
<1>2. /\ queue' \in Seq(Pointers')
      /\ Range(queue') = Range(queue) \cup {lwip}
      /\ IsInjective(queue')
  BY <1>1, SendStep DEF LwipPost, TypeOK, Conservation
<1>3. disturbed' \in BOOLEAN
  BY DEF LwipPost
<1>4. TypeOK'
  BY <1>1, <1>2, <1>3 DEF TypeOK, LwipPost, svars
<1>5. Holding'
  BY DEF Holding, LwipPost, svars
<1>6. InHand' = InHand \ {lwip}
  BY DEF InHand, LwipPost, svars, Conservation
<1>7. Conservation'
  BY <1>1, <1>2, <1>6 DEF Conservation, LwipPost, svars, InHand
<1> QED BY <1>4, <1>5, <1>7

(* The application posts a CLEAR. *)
LEMMA AppClearStep ==
    ASSUME IInv, NEW c \in Clients, AppClear(c)
    PROVE  IInv'
<1> USE DEF IInv
<1> DEFINE p == Len(heap) + 1
<1>1. /\ heap' \in Seq(Packet) /\ p \in Pointers' /\ p \notin Pointers
      /\ Pointers' = Pointers \cup {p}
      /\ Seq(Pointers) \subseteq Seq(Pointers')
  BY AllocateProperties DEF AppClear
<1>2. p # 0 /\ 0 \notin Pointers
  BY PointersPositive
<1> HIDE DEF p
<1>3. Range(queue) \subseteq Pointers
  BY DEF TypeOK, Range
<1>4. SendFront(p)
  BY DEF AppClear, p
<1>5. /\ queue' \in Seq(Pointers')
      /\ Range(queue') = Range(queue) \cup {p}
      /\ IsInjective(queue')
  BY <1>1, <1>3, <1>4, SendStep DEF TypeOK, Conservation
<1>6. disturbed' \in BOOLEAN
  BY DEF AppClear
<1>7. TypeOK'
  BY <1>1, <1>5, <1>6 DEF TypeOK, AppClear, svars
<1>8. Holding'
  BY DEF Holding, AppClear, svars
<1>9. InHand' = InHand /\ InHand \subseteq Pointers
  BY DEF InHand, AppClear, svars, TypeOK
<1>10. Conservation'
  BY <1>1, <1>2, <1>3, <1>5, <1>9 DEF Conservation, AppClear, svars, TypeOK
<1> QED BY <1>7, <1>8, <1>10

-----------------------------------------------------------------------------

(* The service task receives a packet to dispatch. *)
LEMMA GetStep ==
    ASSUME IInv, Get
    PROVE  IInv'
<1> USE DEF IInv
<1> DEFINE h == Head(queue)
<1>1. /\ h \in Pointers /\ Tail(queue) \in Seq(Pointers)
      /\ Range(queue) = Range(Tail(queue)) \cup {h}
      /\ IsInjective(Tail(queue)) /\ h \notin Range(Tail(queue))
  BY ReceiveProperties DEF Get, TypeOK, Conservation
<1>2. event' = h /\ queue' = Tail(queue) /\ event = 0 /\ pc = "get"
  BY DEF Get, Holding
<1> HIDE DEF h
<1>3. 0 \notin Pointers /\ Pointers' = Pointers
  BY PointersPositive DEF Get, Pointers
<1>4. work' \in Seq({"clear", "api"})
  <2>1. ASSUME NEW k PROVE Calls(k) \subseteq Seq({"clear", "api"})
    <3>1. /\ <<>> \in Seq({"clear", "api"})
          /\ <<"api">> \in Seq({"clear", "api"})
          /\ <<"clear">> \in Seq({"clear", "api"})
          /\ <<"clear", "api">> \in Seq({"clear", "api"})
          /\ <<"api", "clear", "api">> \in Seq({"clear", "api"})
      OBVIOUS
    <3>2. \/ Calls(k) = {<<"api">>, <<"api", "clear", "api">>}
          \/ Calls(k) = {<<>>, <<"clear", "api">>}
          \/ Calls(k) = {<<"clear">>}
          \/ Calls(k) = {<<>>, <<"api">>}
          \/ Calls(k) = {<<>>}
      BY DEF Calls
    <3> QED BY <3>1, <3>2
  <2> QED BY <2>1 DEF Get, TypeOK
<1>5. marked' \subseteq Pointers
  <2>1. Range(Tail(queue)) \subseteq Pointers
    BY <1>1 DEF TypeOK, Range
  <2> QED BY <2>1 DEF Get, TypeOK
<1>6. TypeOK'
  BY <1>1, <1>2, <1>3, <1>4, <1>5 DEF TypeOK, Get
<1>7. Holding'
  BY <1>1, <1>2, <1>3 DEF Holding, Get
<1>8. InHand' = InHand \cup {h}
  BY <1>1, <1>2, <1>3 DEF InHand, Get
<1>9. Conservation'
  BY <1>1, <1>2, <1>3, <1>8 DEF Conservation, Get, InHand
<1> QED BY <1>6, <1>7, <1>9

(* A handler posts a CLEAR for its client. *)
LEMMA HandlerClearStep ==
    ASSUME IInv, HandlerClear
    PROVE  IInv'
<1> USE DEF IInv
<1> DEFINE p == Len(heap) + 1
<1>0. heap[event].arg \in Clients
  <2>1. event \in DOMAIN heap
    BY DEF HandlerClear, Holding, TypeOK, Pointers
  <2>2. heap[event] \in Packet
    BY <2>1 DEF TypeOK
  <2> QED BY <2>2 DEF Packet
<1>1. /\ heap' \in Seq(Packet) /\ p \in Pointers' /\ p \notin Pointers
      /\ Pointers' = Pointers \cup {p}
      /\ Seq(Pointers) \subseteq Seq(Pointers')
  BY <1>0, AllocateProperties DEF HandlerClear
<1>2. p # 0 /\ 0 \notin Pointers
  BY PointersPositive
<1> HIDE DEF p
<1>3. Range(queue) \subseteq Pointers
  BY DEF TypeOK, Range
<1>4. SendFront(p)
  BY DEF HandlerClear, p
<1>5. /\ queue' \in Seq(Pointers')
      /\ Range(queue') = Range(queue) \cup {p}
      /\ IsInjective(queue')
  BY <1>1, <1>3, <1>4, SendStep DEF TypeOK, Conservation
<1>6. work' \in Seq({"clear", "api"})
  BY DEF HandlerClear, TypeOK
<1>7. TypeOK'
  BY <1>1, <1>5, <1>6 DEF TypeOK, HandlerClear
<1>8. Holding'
  BY DEF Holding, HandlerClear
<1>9. InHand' = InHand /\ InHand \subseteq Pointers
  BY DEF InHand, HandlerClear, TypeOK
<1>10. Conservation'
  BY <1>1, <1>2, <1>3, <1>5, <1>9 DEF Conservation, HandlerClear, TypeOK
<1> QED BY <1>7, <1>8, <1>10

(* A handler's API call runs in the tcpip thread. *)
LEMMA HandlerApiStep ==
    ASSUME IInv, HandlerApi
    PROVE  IInv'
<1> USE DEF IInv
<1>1. work' \in Seq({"clear", "api"}) /\ Pointers' = Pointers
  BY DEF HandlerApi, TypeOK, Pointers
<1> QED BY <1>1 DEF TypeOK, Holding, Conservation, InHand, HandlerApi

(* The end of a dispatch frees the dispatched packet. *)
LEMMA EndStep ==
    ASSUME IInv, End, pc # "get", packet = 0,
           UNCHANGED <<heap, queue, lwip, work, packet, marked, disturbed>>
    PROVE  IInv'
<1> USE DEF IInv
<1>1. event # 0 /\ event \in Pointers /\ Pointers' = Pointers
  BY DEF Holding, TypeOK, Pointers
<1>2. TypeOK'
  BY <1>1 DEF TypeOK, End
<1>3. Holding'
  BY DEF Holding, End
<1>4. InHand' = InHand \ {event}
  BY DEF InHand, End, Conservation
<1>5. Conservation'
  BY <1>1, <1>4 DEF Conservation, End, InHand
<1> QED BY <1>2, <1>3, <1>5

(* Dropping the head of the queue frees it. *)
LEMMA DropStep ==
    ASSUME IInv, Drop, pc \in {"scan", "take"}, pc' \in {"scan", "peek"},
           UNCHANGED <<heap, lwip, event, work, packet, first, marked, disturbed>>
    PROVE  IInv'
<1> USE DEF IInv
<1> DEFINE h == Head(queue)
<1>1. /\ h \in Pointers /\ Tail(queue) \in Seq(Pointers)
      /\ Range(queue) = Range(Tail(queue)) \cup {h}
      /\ IsInjective(Tail(queue)) /\ h \notin Range(Tail(queue))
  BY ReceiveProperties DEF Drop, TypeOK, Conservation
<1>2. freed' = freed \cup {h} /\ queue' = Tail(queue) /\ Pointers' = Pointers
  BY DEF Drop, Pointers
<1> HIDE DEF h
<1>3. TypeOK'
  BY <1>1, <1>2 DEF TypeOK
<1>4. Holding'
  BY DEF Holding
<1>5. Conservation'
  BY <1>1, <1>2 DEF Conservation, InHand
<1> QED BY <1>3, <1>4, <1>5

(* Holding the head of the queue moves it into the service task's hand. *)
LEMMA HoldStep ==
    ASSUME IInv, Hold, pc \in {"scan", "take"}, pc' \in {"putFirst", "put"},
           UNCHANGED <<heap, freed, lwip, event, work, first, marked, disturbed>>
    PROVE  IInv'
<1> USE DEF IInv
<1> DEFINE h == Head(queue)
<1>1. /\ h \in Pointers /\ Tail(queue) \in Seq(Pointers)
      /\ Range(queue) = Range(Tail(queue)) \cup {h}
      /\ IsInjective(Tail(queue)) /\ h \notin Range(Tail(queue))
  BY ReceiveProperties DEF Hold, TypeOK, Conservation
<1>2. packet' = h /\ queue' = Tail(queue) /\ Pointers' = Pointers
  BY DEF Hold, Pointers
<1>3. packet = 0 /\ 0 \notin Pointers
  BY PointersPositive DEF Holding
<1> HIDE DEF h
<1>4. TypeOK'
  BY <1>1, <1>2 DEF TypeOK
<1>5. Holding'
  BY <1>1, <1>2, <1>3 DEF Holding
<1>6. InHand' = InHand \cup {h}
  BY <1>1, <1>2, <1>3 DEF InHand
<1>7. Conservation'
  BY <1>1, <1>2, <1>3, <1>6 DEF Conservation, InHand
<1> QED BY <1>4, <1>5, <1>7

(* The held packet is sent back to the queue. *)
LEMMA PutStep ==
    ASSUME IInv, SendBack(packet), packet' = 0, pc \in {"putFirst", "put"}, pc' = "peek",
           first' \in {first, packet},
           UNCHANGED <<heap, freed, lwip, event, work, marked, disturbed>>
    PROVE  IInv'
<1> USE DEF IInv
<1>1. packet \in Pointers /\ packet # 0 /\ packet \notin Range(queue) /\ Pointers' = Pointers
  BY DEF Holding, TypeOK, Conservation, InHand, Pointers
<1>2. /\ queue' \in Seq(Pointers')
      /\ Range(queue') = Range(queue) \cup {packet}
      /\ IsInjective(queue')
  BY <1>1, SendStep DEF TypeOK, Conservation
<1>3. TypeOK'
  BY <1>1, <1>2 DEF TypeOK
<1>4. Holding'
  BY DEF Holding
<1>5. InHand' = InHand \ {packet}
  BY DEF InHand, Conservation
<1>6. Conservation'
  BY <1>1, <1>2, <1>5 DEF Conservation, InHand
<1> QED BY <1>3, <1>4, <1>6

(* Every step of the queue preserves the inductive invariant. *)
LEMMA IInvStep == IInv /\ [Next]_vars => IInv'
<1> SUFFICES ASSUME IInv, [Next]_vars PROVE IInv'
  OBVIOUS
<1>0. pc \notin {"putFirst", "put"} => packet = 0
  BY DEF IInv, Holding
<1>1. ASSUME NEW k \in LwipEvents, NEW c \in Clients, LwipCallback(k, c) PROVE IInv'
  BY <1>1, LwipCallbackStep
<1>2. CASE LwipPost BY <1>2, LwipPostStep
<1>3. ASSUME NEW c \in Clients, AppClear(c) PROVE IInv'
  BY <1>3, AppClearStep
<1>4. CASE Get BY <1>4, GetStep
<1>5. CASE HandlerClear BY <1>5, HandlerClearStep
<1>6. CASE HandlerApi BY <1>6, HandlerApiStep
<1>7. CASE HandlerDone BY <1>0, <1>7, EndStep DEF HandlerDone
<1>8. CASE ScanDrop BY <1>8, DropStep DEF ScanDrop, svars
<1>9. CASE ScanHold BY <1>9, HoldStep DEF ScanHold
<1>10. CASE ScanEmpty BY <1>0, <1>10, EndStep DEF ScanEmpty
<1>11. CASE PutFirst BY <1>11, PutStep DEF PutFirst
<1>12. CASE PeekOn
  <2>1. Pointers' = Pointers BY <1>12 DEF PeekOn, Pointers
  <2> QED BY <2>1, <1>12 DEF PeekOn, IInv, TypeOK, Holding, Conservation, InHand
<1>13. CASE PeekEnd BY <1>0, <1>13, EndStep DEF PeekEnd
<1>14. CASE TakeDrop BY <1>14, DropStep DEF TakeDrop
<1>15. CASE TakeHold BY <1>15, HoldStep DEF TakeHold
<1>16. CASE Put BY <1>16, PutStep DEF Put
<1>17. CASE UNCHANGED vars
  <2>1. Pointers' = Pointers BY <1>17 DEF vars, Pointers
  <2> QED BY <2>1, <1>17 DEF vars, svars, IInv, TypeOK, Holding, Conservation, InHand
<1> QED
  BY <1>1, <1>2, <1>3, <1>4, <1>5, <1>6, <1>7, <1>8, <1>9, <1>10, <1>11, <1>12,
     <1>13, <1>14, <1>15, <1>16, <1>17 DEF Next, Service

(* The inductive invariant holds in every reachable state. *)
LEMMA Invariant == Spec => []IInv
BY IInvInit, IInvStep, PTL DEF Spec

(* Every variable keeps its type. *)
THEOREM TypeCorrect == Spec => []TypeOK
<1>1. IInv => TypeOK
  BY DEF IInv
<1> QED BY <1>1, Invariant, PTL

(* No packet is ever lost, queued twice or freed twice, whatever the       *)
(* number of clients, the length of the queue and the interleaving.        *)
THEOREM PacketsConserved == Spec => []Conservation
<1>1. IInv => Conservation
  BY DEF IInv
<1> QED BY <1>1, Invariant, PTL

-----------------------------------------------------------------------------
(***************************************************************************)
(* What a rotation has done so far.  It looks at the queue from the packet *)
(* first, which it sent to the back; turn is where that packet is now.     *)
(***************************************************************************)

Looping == pc \in {"peek", "take", "put"}
Turn(k) == k \in DOMAIN queue /\ queue[k] = first /\ (pc = "take" => k # 1)

(* No packet behind k was queued when the rotation began and is of its     *)
(* client.                                                                 *)
Ahead(k) == \A i \in DOMAIN queue : i > k /\ Matches(queue[i]) => queue[i] \notin marked

(* What was queued when the rotation began and is of its client is ahead   *)
(* of first, where it will be taken; what is posted was not queued then.   *)
Swept ==
    /\ Rotating => lwip \notin marked
    /\ packet # 0 => ~Matches(packet)
    /\ Looping => ~Matches(first) /\ \E k \in DOMAIN queue : Turn(k) /\ Ahead(k)

(* p may leave the queue before r. *)
Agree(p, r) ==
    heap[p].arg = heap[r].arg =>
        /\ {heap[p].event, heap[r].event} \subseteq BackEvents => p < r
        /\ heap[r].event = "CLEAR" => heap[p].event \notin BackEvents

(* With first at k, what is from k on leaves before what is ahead of k.    *)
Before(k, i, j) == IF i < k <=> j < k THEN i < j ELSE j < k
Ordered(k) == \A i, j \in DOMAIN queue : Before(k, i, j) => Agree(queue[i], queue[j])

(* The event the lwIP thread is about to post is the last that happened.   *)
Latest ==
    lwip # 0 =>
        /\ heap[lwip].event # "CLEAR"
        /\ \A p \in Range(queue) \cup {packet} :
             p # 0 /\ heap[p].event \in BackEvents => p < lwip

(* The packets agree with the order in which they will be when the         *)
(* rotation ends.                                                          *)
InTurn ==
    /\ ~Looping => Ordered(1)
    /\ pc = "putFirst" => \A r \in Range(queue) : Agree(packet, r)
    /\ Looping => \A k \in DOMAIN queue : Turn(k) =>
         /\ Ordered(k)
         /\ pc = "put" => \A i \in DOMAIN queue :
              IF i < k THEN Agree(packet, queue[i]) ELSE Agree(queue[i], packet)

(* Where the packets are after a send or a receive. *)
LEMMA FrontIndex ==
    ASSUME NEW S, queue \in Seq(S), NEW p, SendFront(p)
    PROVE  /\ Len(queue) \in Nat /\ Len(queue') = Len(queue) + 1
           /\ DOMAIN queue = 1..Len(queue) /\ DOMAIN queue' = 1..Len(queue') /\ queue'[1] = p
           /\ \A i \in DOMAIN queue : i + 1 \in DOMAIN queue' /\ queue'[i + 1] = queue[i]
           /\ \A i \in DOMAIN queue' : i # 1 => i - 1 \in DOMAIN queue /\ queue'[i] = queue[i - 1]
BY DEF SendFront

LEMMA BackIndex ==
    ASSUME NEW S, queue \in Seq(S), NEW p, SendBack(p)
    PROVE  /\ Len(queue) \in Nat /\ Len(queue') = Len(queue) + 1
           /\ DOMAIN queue = 1..Len(queue) /\ DOMAIN queue' = 1..Len(queue')
           /\ queue'[Len(queue')] = p /\ Len(queue') \notin DOMAIN queue /\ Len(queue') \in DOMAIN queue'
           /\ \A i \in DOMAIN queue : i \in DOMAIN queue' /\ queue'[i] = queue[i]
           /\ \A i \in DOMAIN queue' : i # Len(queue') => i \in DOMAIN queue
BY DEF SendBack

LEMMA TailIndex ==
    ASSUME NEW S, queue \in Seq(S), queue # <<>>, queue' = Tail(queue)
    PROVE  /\ Len(queue') \in Nat /\ Len(queue) = Len(queue') + 1
           /\ DOMAIN queue = 1..Len(queue) /\ DOMAIN queue' = 1..Len(queue') /\ queue[1] = Head(queue)
           /\ \A i \in DOMAIN queue' : i + 1 \in DOMAIN queue /\ queue'[i] = queue[i + 1]
           /\ \A i \in DOMAIN queue : i # 1 => i - 1 \in DOMAIN queue' /\ queue[i] = queue'[i - 1]
OBVIOUS

(* The pointers in use point into the heap. *)
LEMMA InHeap ==
    ASSUME IInv
    PROVE  /\ DOMAIN heap = Pointers /\ Pointers \subseteq Nat \ {0} /\ Len(heap) \in Nat
           /\ \A i \in DOMAIN queue : queue[i] \in Pointers /\ queue[i] \in Range(queue)
           /\ DOMAIN queue = 1..Len(queue) /\ Len(queue) \in Nat
           /\ Range(queue) \subseteq Pointers
           /\ pc # "get" => event \in Pointers
           /\ pc \in {"putFirst", "put"} => packet \in Pointers
           /\ pc \notin {"putFirst", "put"} => packet = 0
           /\ lwip # 0 => lwip \in Pointers /\ lwip \notin Range(queue)
           /\ packet \notin Range(queue) /\ marked \subseteq Pointers
<1>1. /\ DOMAIN heap = Pointers /\ Pointers \subseteq Nat \ {0} /\ Len(heap) \in Nat
      /\ DOMAIN queue = 1..Len(queue) /\ Len(queue) \in Nat
      /\ \A i \in DOMAIN queue : queue[i] \in Pointers
  BY DEF IInv, TypeOK, Pointers
<1>2. Range(queue) \subseteq Pointers /\ \A i \in DOMAIN queue : queue[i] \in Range(queue)
  BY <1>1 DEF Range
<1> QED BY <1>1, <1>2 DEF IInv, TypeOK, Holding, Conservation, InHand

(* A packet stays what it is. *)
LEMMA HeapKept ==
    ASSUME IInv, heap' = heap \/ \E k, c : Allocate(k, c)
    PROVE  \A p \in Pointers : heap'[p] = heap[p]
<1>1. ASSUME NEW k, NEW c, Allocate(k, c), NEW p \in Pointers
      PROVE  heap'[p] = heap[p]
  <2>1. heap \in Seq(Packet) /\ p \in 1..Len(heap)
    BY DEF IInv, TypeOK, Pointers
  <2> QED BY <1>1, <2>1 DEF Allocate
<1> QED BY <1>1

-----------------------------------------------------------------------------

(* A step that leaves the queue alone changes nothing of this. *)
LEMMA SweptKept ==
    ASSUME IInv, Swept, pc # "get", heap' = heap \/ \E k, c : Allocate(k, c),
           UNCHANGED <<queue, event, packet, first, marked>>,
           lwip' \notin marked, Looping' => Looping, pc' = "take" => Head(queue) # first
    PROVE  Swept'
<1>1. \A p \in Pointers : Matches(p)' <=> Matches(p)
  BY HeapKept, InHeap DEF Matches
<1>2. packet # 0 => ~Matches(packet)'
  BY <1>1, InHeap DEF Swept
<1>3. ASSUME Looping PROVE ~Matches(first)' /\ \E k \in DOMAIN queue : Turn(k)' /\ Ahead(k)'
  <2>1. PICK k \in DOMAIN queue : Turn(k) /\ Ahead(k)
    BY <1>3 DEF Swept
  <2>2. k # 1 \/ pc' # "take"
    BY <2>1, InHeap DEF Turn
  <2>3. Turn(k)'
    BY <2>1, <2>2 DEF Turn
  <2>4. Ahead(k)'
    BY <1>1, <2>1, InHeap DEF Ahead
  <2>5. ~Matches(first)'
    BY <1>1, <1>3, <2>1, InHeap DEF Swept, Turn
  <2> QED BY <2>3, <2>4, <2>5
<1> QED BY <1>2, <1>3 DEF Swept

(* A packet that was not queued when the rotation began is posted. *)
LEMMA PostSwept ==
    ASSUME IInv, Swept, pc # "get", heap' = heap \/ \E k, c : Allocate(k, c),
           NEW p, p \notin marked, SendFront(p) \/ SendBack(p),
           UNCHANGED <<pc, event, packet, first, marked>>, lwip' \notin marked
    PROVE  Swept'
<1>1. \A r \in Pointers : Matches(r)' <=> Matches(r)
  BY HeapKept, InHeap DEF Matches
<1>2. packet # 0 => ~Matches(packet)'
  BY <1>1, InHeap DEF Swept
<1>3. ASSUME Looping PROVE ~Matches(first)' /\ \E k \in DOMAIN queue' : Turn(k)' /\ Ahead(k)'
  <2>1. PICK k \in DOMAIN queue : Turn(k) /\ Ahead(k)
    BY <1>3 DEF Swept
  <2>2. ~Matches(first)'
    BY <1>1, <1>3, <2>1, InHeap DEF Swept, Turn
  <2>3. CASE SendFront(p)
    <3>1. /\ k + 1 \in DOMAIN queue' /\ queue'[k + 1] = queue[k] /\ k + 1 # 1 /\ queue'[1] = p
          /\ k \in Nat
          /\ \A i \in DOMAIN queue' : i # 1 => i - 1 \in DOMAIN queue /\ queue'[i] = queue[i - 1]
                                               /\ (i > k + 1 => i - 1 > k)
      BY <2>3, FrontIndex, SMTT(60) DEF IInv, TypeOK
    <3>2. Turn(k + 1)'
      BY <2>1, <3>1 DEF Turn
    <3>3. Ahead(k + 1)'
      <4> SUFFICES ASSUME NEW i \in DOMAIN queue', i > k + 1, Matches(queue[i])'
                   PROVE  queue'[i] \notin marked
        BY DEF Ahead
      <4>1. i # 1
        BY <2>3, <3>1, FrontIndex DEF IInv, TypeOK
      <4> QED BY <1>1, <2>1, <3>1, <4>1, InHeap DEF Ahead
    <3> QED BY <2>2, <3>1, <3>2, <3>3
  <2>4. CASE SendBack(p)
    <3>1. /\ k \in DOMAIN queue' /\ queue'[k] = queue[k] /\ queue'[Len(queue')] = p
          /\ \A i \in DOMAIN queue' : i # Len(queue') => i \in DOMAIN queue /\ queue'[i] = queue[i]
      BY <2>4, BackIndex DEF IInv, TypeOK
    <3>2. Turn(k)'
      BY <2>1, <3>1 DEF Turn
    <3>3. Ahead(k)'
      <4> SUFFICES ASSUME NEW i \in DOMAIN queue', i > k, Matches(queue[i])'
                   PROVE  queue'[i] \notin marked
        BY DEF Ahead
      <4>1. CASE i = Len(queue')
        BY <3>1, <4>1
      <4>2. CASE i # Len(queue')
        BY <1>1, <2>1, <3>1, <4>2, InHeap DEF Ahead
      <4> QED BY <4>1, <4>2
    <3> QED BY <2>2, <3>1, <3>2, <3>3
  <2> QED BY <2>3, <2>4
<1> QED BY <1>2, <1>3 DEF Swept, Rotating, Looping

(* The loop takes the head of the queue, which is not first, and drops or  *)
(* holds it.                                                               *)
LEMMA TakeSwept ==
    ASSUME IInv, Swept, pc = "take", pc' \in {"peek", "put"}, queue # <<>>, queue' = Tail(queue),
           UNCHANGED <<heap, lwip, event, first, marked>>,
           packet' # 0 => ~Matches(packet)'
    PROVE  Swept'
<1>1. \A r : Matches(r)' <=> Matches(r)
  BY DEF Matches
<1>2. PICK k \in DOMAIN queue : Turn(k) /\ Ahead(k)
  BY DEF Swept, Looping
<1>3. /\ k - 1 \in DOMAIN queue' /\ queue'[k - 1] = queue[k]
      /\ \A i \in DOMAIN queue' : /\ i + 1 \in DOMAIN queue /\ queue'[i] = queue[i + 1]
                                  /\ i > k - 1 => i + 1 > k
  BY <1>2, TailIndex DEF Turn, IInv, TypeOK
<1>4. Turn(k - 1)'
  BY <1>2, <1>3 DEF Turn
<1>5. Ahead(k - 1)'
  BY <1>1, <1>2, <1>3 DEF Ahead
<1>6. ~Matches(first)' /\ lwip \notin marked /\ (packet' # 0 => ~Matches(packet)')
  BY <1>1 DEF Swept, Looping, Rotating, Matches
<1> QED BY <1>3, <1>4, <1>5, <1>6 DEF Swept, Looping, Rotating

(* The held packet goes to the back. *)
LEMMA PutSwept ==
    ASSUME IInv, Swept, SendBack(packet), packet' = 0, pc' = "peek",
           \/ pc = "putFirst" /\ first' = packet
           \/ pc = "put" /\ first' = first,
           UNCHANGED <<heap, lwip, event, marked>>
    PROVE  Swept'
<1>1. \A r : Matches(r)' <=> Matches(r)
  BY DEF Matches
<1>2. packet \in Pointers /\ ~Matches(packet)
  BY InHeap DEF Swept
<1>0. PICK n : n = Len(queue) + 1
  OBVIOUS
<1>3. /\ n \in DOMAIN queue' /\ queue'[n] = packet
      /\ \A i \in DOMAIN queue : i \in DOMAIN queue' /\ queue'[i] = queue[i]
      /\ \A i \in DOMAIN queue' : ~(i > n) /\ (i # n => i \in DOMAIN queue)
  BY <1>0, BackIndex DEF IInv, TypeOK
<1>4. CASE pc = "putFirst" /\ first' = packet
  <2>1. Turn(n)' /\ Ahead(n)'
    BY <1>3, <1>4 DEF Turn, Ahead
  <2>2. ~Matches(first)'
    BY <1>2, <1>4 DEF Matches
  <2> QED BY <1>3, <2>1, <2>2, InHeap DEF Swept, Looping, Rotating
<1>5. CASE pc = "put" /\ first' = first
  <2>1. PICK k \in DOMAIN queue : Turn(k) /\ Ahead(k)
    BY <1>5 DEF Swept, Looping
  <2>2. Turn(k)'
    BY <1>3, <1>5, <2>1 DEF Turn
  <2>3. Ahead(k)'
    BY <1>1, <1>2, <1>3, <2>1 DEF Ahead
  <2> QED BY <1>1, <1>3, <1>5, <2>1, <2>2, <2>3 DEF Swept, Looping, Rotating
<1> QED BY <1>4, <1>5

(* Between rotations nothing is held. *)
LEMMA IdleSwept ==
    ASSUME pc' \notin {"scan", "putFirst", "peek", "take", "put"}, packet' = 0
    PROVE  Swept'
BY DEF Swept, Rotating, Looping

-----------------------------------------------------------------------------

(* Nothing but a lwIP callback makes an event that may go to the back.     *)
LEMMA LatestKept ==
    ASSUME IInv, Latest, heap' = heap \/ \E k, c : Allocate(k, c),
           \/ lwip' = 0
           \/ /\ lwip' = lwip
              /\ \A p \in Range(queue') \cup {packet'} :
                   \/ p \in Range(queue) \cup {packet}
                   \/ heap'[p].event = "CLEAR"
    PROVE  Latest'
<1>1. \A p \in Pointers : heap'[p] = heap[p]
  BY HeapKept
<1>2. ASSUME lwip' # 0, NEW p \in Range(queue') \cup {packet'}, p # 0, heap'[p].event \in BackEvents
      PROVE  p < lwip'
  <2>1. p \in Range(queue) \cup {packet} /\ lwip' = lwip
    BY <1>2 DEF BackEvents
  <2>2. p \in Pointers
    BY <1>2, <2>1, InHeap
  <2> QED BY <1>1, <1>2, <2>1, <2>2 DEF Latest
<1>3. lwip' # 0 => heap'[lwip'].event # "CLEAR"
  BY <1>1, InHeap DEF Latest
<1> QED BY <1>2, <1>3 DEF Latest

(* The event of a callback is the last that happened. *)
LEMMA LatestNew ==
    ASSUME IInv, NEW k \in LwipEvents, NEW c \in Clients, LwipCallback(k, c)
    PROVE  Latest'
<1>1. lwip' = Len(heap) + 1 /\ queue' = queue /\ packet' = packet
  BY DEF LwipCallback, svars
<1>2. heap'[lwip'].event = k /\ k # "CLEAR"
  BY <1>1, QueueAssumption DEF LwipCallback, Allocate, IInv, TypeOK, BackEvents, FrontEvents
<1>3. \A p \in Range(queue) \cup {packet} : p # 0 => p < lwip'
  BY <1>1, InHeap DEF Pointers
<1> QED BY <1>1, <1>2, <1>3 DEF Latest

(* Two packets agree as long as they are what they are. *)
LEMMA AgreeKept ==
    ASSUME IInv, heap' = heap \/ \E k, c : Allocate(k, c)
    PROVE  \A p, r \in Pointers : Agree(p, r)' <=> Agree(p, r)
BY HeapKept DEF Agree

(* What a send, a receive and a step that leaves the queue alone do to the *)
(* order.                                                                  *)
LEMMA OrderKeptByAlloc ==
    ASSUME IInv, heap' = heap \/ \E k, c : Allocate(k, c), queue' = queue, NEW k \in Nat, Ordered(k)
    PROVE  Ordered(k)'
BY AgreeKept, InHeap DEF Ordered

LEMMA OrderAfterFront ==
    ASSUME IInv, heap' = heap \/ \E k, c : Allocate(k, c), NEW p, SendFront(p), Ordered(1),
           \A r \in Range(queue) : Agree(p, r)'
    PROVE  Ordered(1)'
<1>1. /\ Len(queue) \in Nat /\ Len(queue') = Len(queue) + 1
      /\ DOMAIN queue = 1..Len(queue) /\ DOMAIN queue' = 1..Len(queue') /\ queue'[1] = p
      /\ \A i \in DOMAIN queue' : i # 1 => i - 1 \in DOMAIN queue /\ queue'[i] = queue[i - 1]
  BY FrontIndex DEF IInv, TypeOK
<1> SUFFICES ASSUME NEW i \in DOMAIN queue', NEW j \in DOMAIN queue', i < j
             PROVE  Agree(queue[i], queue[j])'
  BY <1>1 DEF Ordered, Before
<1>2. j - 1 \in DOMAIN queue /\ queue'[j] = queue[j - 1]
  BY <1>1
<1>3. CASE i = 1
  BY <1>1, <1>2, <1>3, InHeap
<1>4. CASE i # 1
  <2>1. i - 1 \in DOMAIN queue /\ queue'[i] = queue[i - 1] /\ i - 1 < j - 1
    BY <1>1, <1>4
  <2>2. Before(1, i - 1, j - 1)
    BY <1>1, <1>2, <2>1 DEF Before
  <2> QED BY <1>2, <2>1, <2>2, AgreeKept, InHeap DEF Ordered
<1> QED BY <1>3, <1>4

LEMMA OrderAfterTail ==
    ASSUME IInv, queue # <<>>, queue' = Tail(queue), heap' = heap, NEW k \in DOMAIN queue, Ordered(k)
    PROVE  /\ k = 1 => Ordered(1)'
           /\ k # 1 => Ordered(k - 1)'
<1>1. /\ Len(queue') \in Nat /\ DOMAIN queue = 1..Len(queue) /\ DOMAIN queue' = 1..Len(queue')
      /\ \A i \in DOMAIN queue' : i + 1 \in DOMAIN queue /\ queue'[i] = queue[i + 1]
  BY TailIndex DEF IInv, TypeOK
<1>2. ASSUME NEW n, n = IF k = 1 THEN 1 ELSE k - 1,
             NEW i \in DOMAIN queue', NEW j \in DOMAIN queue', Before(n, i, j)
      PROVE  Agree(queue[i], queue[j])'
  <2>1. Before(k, i + 1, j + 1)
    BY <1>1, <1>2 DEF Before
  <2> QED BY <1>1, <2>1, AgreeKept, InHeap DEF Ordered
<1> QED BY <1>2 DEF Ordered

LEMMA OrderAfterBack ==
    ASSUME IInv, UNCHANGED heap, NEW p, SendBack(p), NEW k \in 1..(Len(queue) + 1), Ordered(k),
           \A i \in DOMAIN queue : IF i < k THEN Agree(p, queue[i]) ELSE Agree(queue[i], p)
    PROVE  Ordered(k)'
<1>0. PICK n : n = Len(queue) + 1
  OBVIOUS
<1>1. /\ Len(queue) \in Nat /\ DOMAIN queue = 1..Len(queue) /\ DOMAIN queue' = 1..n /\ queue'[n] = p
      /\ \A i \in DOMAIN queue : queue'[i] = queue[i]
  BY <1>0, BackIndex DEF IInv, TypeOK
<1> SUFFICES ASSUME NEW i \in DOMAIN queue', NEW j \in DOMAIN queue', Before(k, i, j)
             PROVE  Agree(queue'[i], queue'[j])
  BY DEF Ordered, Agree
<1>2. CASE i # n /\ j # n
  BY <1>0, <1>1, <1>2 DEF Ordered
<1>3. CASE i # n /\ j = n
  BY <1>0, <1>1, <1>3 DEF Before
<1>4. CASE i = n
  BY <1>0, <1>1, <1>4 DEF Before
<1> QED BY <1>2, <1>3, <1>4

-----------------------------------------------------------------------------

(* The lwIP thread posts between rotations.                                *)
LEMMA LwipPostInTurn ==
    ASSUME IInv, Latest, InTurn, LwipPost, ~Rotating
    PROVE  InTurn'
<1>1. lwip \in Pointers /\ heap' = heap /\ pc' = pc /\ heap[lwip].event # "CLEAR" /\ lwip # 0
  BY InHeap DEF LwipPost, svars, Latest
<1>2. heap[lwip].event \in BackEvents \cup FrontEvents
  <2>1. heap[lwip] \in Packet
    BY <1>1, InHeap DEF IInv, TypeOK
  <2> QED BY <1>1, <2>1 DEF Packet
<1>3. Ordered(1)
  BY DEF InTurn, Looping, Rotating
<1>4. CASE heap[lwip].event \in FrontEvents
  <2>1. SendFront(lwip) /\ heap[lwip].event \notin BackEvents
    BY <1>4 DEF LwipPost, FrontEvents, BackEvents
  <2>2. PICK p : p = lwip
    OBVIOUS
  <2>3. \A r : Agree(p, r)'
    BY <1>1, <2>1, <2>2 DEF Agree
  <2> QED BY <1>1, <1>3, <2>1, <2>2, <2>3, OrderAfterFront DEF InTurn, Looping, Rotating
<1>5. CASE heap[lwip].event \notin FrontEvents
  <2>1. SendBack(lwip)
    BY <1>5 DEF LwipPost
  <2>2. \A i \in DOMAIN queue : Agree(queue[i], lwip)
    BY <1>1, InHeap DEF Agree, Latest
  <2>3. 1 \in 1..(Len(queue) + 1) /\ \A i \in DOMAIN queue : ~(i < 1)
    BY InHeap
  <2>4. Ordered(1)'
    BY <1>1, <1>3, <2>1, <2>2, <2>3, OrderAfterBack
  <2> QED BY <1>1, <2>4 DEF InTurn, Looping, Rotating
<1> QED BY <1>4, <1>5

(* A CLEAR is put in front between rotations. *)
LEMMA ClearInTurn ==
    ASSUME IInv, InTurn, ~Rotating, pc' = pc, NEW c, Allocate("CLEAR", c),
           SendFront(Len(heap) + 1)
    PROVE  InTurn'
<1>1. Ordered(1)
  BY DEF InTurn, Looping, Rotating
<1>2. heap'[Len(heap) + 1].event = "CLEAR"
  BY DEF Allocate, IInv, TypeOK
<1>3. PICK p : p = Len(heap) + 1
  OBVIOUS
<1>4. \A r : Agree(p, r)'
  BY <1>2, <1>3 DEF Agree, BackEvents
<1>5. Ordered(1)'
  BY <1>1, <1>3, <1>4, OrderAfterFront
<1> QED BY <1>5 DEF InTurn, Looping, Rotating

(* A step that leaves the queue alone. *)
LEMMA KeptInTurn ==
    ASSUME IInv, InTurn, heap' = heap \/ \E k, c : Allocate(k, c),
           UNCHANGED <<queue, first, packet>>,
           pc' = pc \/ (pc = "peek" /\ pc' = "take") \/ (pc = "handle" /\ pc' = "get")
    PROVE  InTurn'
<1>1. \A k \in Nat : Ordered(k) => Ordered(k)'
  BY OrderKeptByAlloc
<1>2. \A p, r \in Pointers : Agree(p, r)' <=> Agree(p, r)
  BY AgreeKept
<1>3. CASE ~Looping
  <2>1. pc' = "putFirst" => \A r \in Range(queue) : Agree(packet, r)'
    BY <1>2, InHeap DEF InTurn
  <2> QED BY <1>1, <1>3, <2>1 DEF InTurn, Looping
<1>4. CASE Looping
  <2>1. Looping' /\ (pc' = "put" => pc = "put")
    BY <1>4 DEF Looping
  <2>2. ASSUME NEW k \in DOMAIN queue, Turn(k)'
        PROVE  /\ Ordered(k)'
               /\ pc' = "put" => \A i \in DOMAIN queue :
                    IF i < k THEN Agree(packet, queue[i])' ELSE Agree(queue[i], packet)'
    <3>1. Turn(k)
      BY <1>4, <2>2 DEF Turn, Looping
    <3>2. Ordered(k)'
      BY <1>1, <1>4, <3>1, InHeap DEF InTurn
    <3>3. pc' = "put" => \A i \in DOMAIN queue :
            IF i < k THEN Agree(packet, queue[i])' ELSE Agree(queue[i], packet)'
      BY <1>2, <1>4, <2>1, <3>1, InHeap DEF InTurn
    <3> QED BY <3>2, <3>3
  <2> QED BY <2>1, <2>2 DEF InTurn, Looping
<1> QED BY <1>3, <1>4

(* When the rotation ends, first is at the head. *)
LEMMA EndInTurn ==
    ASSUME IInv, InTurn, pc = "scan" \/ (pc = "peek" /\ (queue # <<>> => Head(queue) = first)),
           pc' = "get", UNCHANGED <<heap, queue>>
    PROVE  InTurn'
<1>1. Ordered(1)
  <2>1. CASE pc = "scan"
    BY <2>1 DEF InTurn, Looping
  <2>2. CASE pc = "peek" /\ queue = <<>>
    BY <2>2 DEF Ordered
  <2>3. CASE pc = "peek" /\ queue # <<>> /\ Head(queue) = first
    <3>1. 1 \in DOMAIN queue /\ Turn(1)
      BY <2>3, InHeap DEF Turn, IInv, TypeOK
    <3> QED BY <2>3, <3>1 DEF InTurn, Looping
  <2> QED BY <2>1, <2>2, <2>3
<1> QED BY <1>1 DEF InTurn, Looping, Ordered, Agree

(* The head is taken by a dispatch or at the start of a rotation. *)
LEMMA HeadInTurn ==
    ASSUME IInv, InTurn, pc \in {"get", "scan"}, queue # <<>>, queue' = Tail(queue), heap' = heap,
           pc' \in {"scan", "handle", "putFirst"}, pc' = "putFirst" => packet' = Head(queue)
    PROVE  InTurn'
<1>1. /\ 1 \in DOMAIN queue /\ queue[1] = Head(queue) /\ DOMAIN queue = 1..Len(queue)
      /\ \A i \in DOMAIN queue' : i + 1 \in DOMAIN queue /\ queue'[i] = queue[i + 1] /\ 1 < i + 1
  BY TailIndex DEF IInv, TypeOK
<1>2. Ordered(1)
  BY DEF InTurn, Looping
<1>3. Ordered(1)'
  BY <1>1, <1>2, OrderAfterTail
<1>4. \A i \in DOMAIN queue' : Agree(Head(queue), queue'[i])
  BY <1>1, <1>2 DEF Ordered, Before
<1>5. pc' = "putFirst" => \A r \in Range(queue') : Agree(packet', r)
  BY <1>4 DEF Range
<1> QED BY <1>3, <1>5 DEF InTurn, Looping, Agree

(* The loop takes the head, which is not first, and drops or holds it. *)
LEMMA TakeInTurn ==
    ASSUME IInv, InTurn, pc = "take", queue # <<>>, queue' = Tail(queue), UNCHANGED <<heap, first>>,
           pc' \in {"peek", "put"}, pc' = "put" => packet' = Head(queue)
    PROVE  InTurn'
<1>1. /\ 1 \in DOMAIN queue /\ queue[1] = Head(queue) /\ DOMAIN queue = 1..Len(queue)
      /\ Len(queue) \in Nat
      /\ \A i \in DOMAIN queue' : i + 1 \in DOMAIN queue /\ queue'[i] = queue[i + 1] /\ i + 1 # 1
      /\ DOMAIN queue' \subseteq Nat
  BY TailIndex DEF IInv, TypeOK
<1> SUFFICES ASSUME NEW k \in DOMAIN queue', Turn(k)'
             PROVE  /\ Ordered(k)'
                    /\ pc' = "put" => \A i \in DOMAIN queue' :
                         IF i < k THEN Agree(packet', queue'[i]) ELSE Agree(queue'[i], packet')
  BY DEF InTurn, Looping, Agree
<1>2. PICK n \in DOMAIN queue : n = k + 1
  BY <1>1
<1>3. Turn(n)
  BY <1>1, <1>2 DEF Turn
<1>4. Ordered(n)
  BY <1>3 DEF InTurn, Looping
<1>5. Ordered(k)'
  <2>1. n # 1 /\ n - 1 = k
    BY <1>1, <1>2
  <2> QED BY <1>4, <2>1, OrderAfterTail
<1>6. ASSUME NEW i \in DOMAIN queue'
      PROVE  IF i < k THEN Agree(Head(queue), queue'[i]) ELSE Agree(queue'[i], Head(queue))
  <2>1. IF i < k THEN Before(n, 1, i + 1) ELSE Before(n, i + 1, 1)
    BY <1>1, <1>2 DEF Before
  <2> QED BY <1>1, <1>4, <2>1 DEF Ordered
<1> QED BY <1>5, <1>6

(* The held packet goes to the back; the first one of a rotation marks its *)
(* end there.                                                              *)
LEMMA PutInTurn ==
    ASSUME IInv, Swept, InTurn, SendBack(packet), pc' = "peek", UNCHANGED heap,
           \/ pc = "putFirst" /\ first' = packet
           \/ pc = "put" /\ first' = first
    PROVE  InTurn'
<1>0. PICK n : n = Len(queue) + 1
  OBVIOUS
<1>1. /\ Len(queue) \in Nat /\ DOMAIN queue = 1..Len(queue) /\ DOMAIN queue' = 1..n
      /\ queue'[n] = packet /\ \A i \in DOMAIN queue : queue'[i] = queue[i] /\ i < n
  BY <1>0, BackIndex DEF IInv, TypeOK
<1>2. packet \notin Range(queue) /\ \A i \in DOMAIN queue : queue[i] \in Range(queue)
  BY InHeap
<1>3. PICK p : p = packet
  OBVIOUS
<1> SUFFICES ASSUME NEW k \in DOMAIN queue', Turn(k)'
             PROVE  Ordered(k)'
  BY DEF InTurn, Looping
<1>4. CASE pc = "putFirst" /\ first' = packet
  <2>1. k = n
    BY <1>0, <1>1, <1>2, <1>4 DEF Turn
  <2>2. Ordered(n)
    BY <1>1, <1>4 DEF InTurn, Looping, Ordered, Before
  <2>3. \A i \in DOMAIN queue : Agree(p, queue[i])
    BY <1>2, <1>3, <1>4 DEF InTurn
  <2>4. n \in 1..(Len(queue) + 1) /\ SendBack(p)
    BY <1>0, <1>1, <1>3
  <2> QED BY <1>1, <2>1, <2>2, <2>3, <2>4, OrderAfterBack
<1>5. CASE pc = "put" /\ first' = first
  <2>1. first \in Range(queue)
    BY <1>2, <1>5 DEF Swept, Looping, Turn
  <2>2. k \in DOMAIN queue
    BY <1>0, <1>1, <1>2, <1>5, <2>1 DEF Turn
  <2>3. Turn(k)
    BY <1>1, <1>5, <2>2 DEF Turn
  <2>4. Ordered(k) /\ \A i \in DOMAIN queue : IF i < k THEN Agree(p, queue[i]) ELSE Agree(queue[i], p)
    BY <1>3, <1>5, <2>2, <2>3 DEF InTurn, Looping
  <2>5. k \in 1..(Len(queue) + 1) /\ SendBack(p)
    BY <1>0, <1>1, <1>3
  <2> QED BY <2>4, <2>5, OrderAfterBack
<1> QED BY <1>4, <1>5

-----------------------------------------------------------------------------

QInv == IInv /\ Swept /\ Latest /\ (~disturbed => InTurn)

(* What is put in front is all that is new in the queue. *)
LEMMA FrontRange ==
    ASSUME IInv, NEW p, SendFront(p)
    PROVE  Range(queue') \subseteq Range(queue) \cup {p}
<1>1. /\ queue'[1] = p
      /\ \A i \in DOMAIN queue' : i # 1 => i - 1 \in DOMAIN queue /\ queue'[i] = queue[i - 1]
  BY FrontIndex DEF IInv, TypeOK
<1> QED BY <1>1 DEF Range

(* The lwIP thread and the application. *)
LEMMA PostStep ==
    ASSUME QInv, \/ \E k \in LwipEvents, c \in Clients : LwipCallback(k, c)
                 \/ LwipPost
                 \/ \E c \in Clients : AppClear(c)
    PROVE  Swept' /\ Latest' /\ (~disturbed' => InTurn')
<1>1. IInv /\ Swept /\ Latest /\ (~disturbed => InTurn)
  BY DEF QInv
<1>2. ASSUME NEW k \in LwipEvents, NEW c \in Clients, LwipCallback(k, c)
      PROVE  Swept' /\ Latest' /\ (~disturbed' => InTurn')
  <2>1. /\ UNCHANGED <<queue, pc, event, packet, first, marked, disturbed>>
        /\ lwip' = Len(heap) + 1 /\ Allocate(k, c)
    BY <1>2 DEF LwipCallback, svars
  <2>2. lwip' \notin marked
    BY <1>1, <2>1, InHeap DEF Pointers
  <2>3. Swept'
    <3>1. CASE pc = "get"
      BY <1>1, <2>1, <3>1, IdleSwept, InHeap
    <3>2. CASE pc # "get"
      <4>1. pc = "take" => Head(queue) # first
        <5> SUFFICES ASSUME pc = "take" PROVE Head(queue) # first
          OBVIOUS
        <5>1. PICK k1 \in DOMAIN queue : Turn(k1)
          BY <1>1 DEF Swept, Looping
        <5>2. 1 \in DOMAIN queue /\ k1 # 1 /\ queue[1] = Head(queue)
          BY <1>1, <5>1, InHeap DEF Turn, IInv, TypeOK
        <5> QED BY <1>1, <5>1, <5>2 DEF Turn, IInv, Conservation, IsInjective
      <4> QED BY <1>1, <2>1, <2>2, <3>2, <4>1, SweptKept DEF Looping
    <3> QED BY <3>1, <3>2
  <2>4. Latest'
    BY <1>1, <1>2, LatestNew
  <2>5. ~disturbed' => InTurn'
    BY <1>1, <2>1, KeptInTurn
  <2> QED BY <2>3, <2>4, <2>5
<1>3. ASSUME LwipPost PROVE Swept' /\ Latest' /\ (~disturbed' => InTurn')
  <2>1. /\ UNCHANGED <<heap, pc, event, packet, first, marked>> /\ lwip' = 0 /\ lwip # 0
        /\ disturbed' = (disturbed \/ Rotating) /\ (SendFront(lwip) \/ SendBack(lwip))
    BY <1>3 DEF LwipPost, svars
  <2>2. Swept'
    <3>1. PICK p : p = lwip
      OBVIOUS
    <3>2. CASE ~Rotating
      BY <1>1, <2>1, <3>2, IdleSwept, InHeap DEF Rotating
    <3>3. CASE Rotating
      <4>1. p \notin marked /\ lwip' \notin marked /\ pc # "get"
        BY <1>1, <2>1, <3>1, <3>3, InHeap DEF Swept, Rotating
      <4> QED BY <1>1, <2>1, <3>1, <4>1, PostSwept
    <3> QED BY <3>2, <3>3
  <2>3. Latest'
    BY <2>1 DEF Latest
  <2>4. ~disturbed' => InTurn'
    BY <1>1, <1>3, <2>1, LwipPostInTurn
  <2> QED BY <2>2, <2>3, <2>4
<1>4. ASSUME NEW c \in Clients, AppClear(c) PROVE Swept' /\ Latest' /\ (~disturbed' => InTurn')
  <2>1. /\ UNCHANGED <<lwip, pc, event, packet, first, marked>> /\ Allocate("CLEAR", c)
        /\ disturbed' = (disturbed \/ Rotating) /\ SendFront(Len(heap) + 1)
    BY <1>4 DEF AppClear, svars
  <2>2. PICK p : p = Len(heap) + 1
    OBVIOUS
  <2>3. p \notin marked /\ p \notin Pointers
    BY <1>1, <2>2, InHeap DEF Pointers
  <2>4. Swept'
    <3>1. CASE ~Rotating
      BY <1>1, <2>1, <3>1, IdleSwept, InHeap DEF Rotating
    <3>2. CASE Rotating
      BY <1>1, <2>1, <2>2, <2>3, <3>2, PostSwept DEF Swept, Rotating
    <3> QED BY <3>1, <3>2
  <2>5. Latest'
    <3>1. Range(queue') \subseteq Range(queue) \cup {p}
      BY <1>1, <2>1, <2>2, FrontRange
    <3>2. heap'[p].event = "CLEAR"
      BY <1>1, <2>1, <2>2 DEF Allocate, IInv, TypeOK
    <3> QED BY <1>1, <2>1, <3>1, <3>2, LatestKept
  <2>6. ~disturbed' => InTurn'
    BY <1>1, <2>1, ClearInTurn
  <2> QED BY <2>4, <2>5, <2>6
<1> QED BY <1>2, <1>3, <1>4

(* The service task. *)
LEMMA ServiceStep ==
    ASSUME QInv, IInv', Service
    PROVE  Swept' /\ Latest' /\ (~disturbed' => InTurn')
<1>1. IInv /\ Swept /\ Latest /\ (~disturbed => InTurn)
  BY DEF QInv
<1>2. lwip' = lwip /\ disturbed' = disturbed
  BY DEF Service, Get, HandlerClear, HandlerApi, HandlerDone, ScanDrop, ScanHold, ScanEmpty, PutFirst,
         PeekOn, PeekEnd, TakeDrop, TakeHold, Put, svars, End, Drop, Hold
<1>3. ASSUME queue # <<>>, queue' = Tail(queue)
      PROVE  Head(queue) \in Range(queue) /\ Range(queue') \subseteq Range(queue)
  BY <1>1, <1>3, ReceiveProperties DEF IInv, TypeOK
<1>4. CASE Get
  <2>1. /\ pc = "get" /\ queue # <<>> /\ queue' = Tail(queue) /\ UNCHANGED <<heap, packet>>
        /\ pc' = "handle" \/ (pc' = "scan" /\ marked' = Range(Tail(queue)))
    BY <1>4 DEF Get
  <2>2. Swept'
    <3>1. packet' = 0 /\ lwip' \notin Range(queue')
      BY <1>1, <1>2, <1>3, <2>1, InHeap DEF IInv, TypeOK
    <3> QED BY <2>1, <3>1 DEF Swept, Rotating, Looping
  <2>3. Latest'
    BY <1>1, <1>2, <1>3, <2>1, LatestKept
  <2>4. ~disturbed' => InTurn'
    BY <1>1, <1>2, <2>1, HeadInTurn
  <2> QED BY <2>2, <2>3, <2>4
<1>5. CASE HandlerClear
  <2>1. /\ pc = "handle" /\ pc' = pc /\ packet' = packet /\ Allocate("CLEAR", heap[event].arg)
        /\ SendFront(Len(heap) + 1)
    BY <1>5 DEF HandlerClear
  <2>2. PICK c : c = heap[event].arg
    OBVIOUS
  <2>3. PICK p : p = Len(heap) + 1
    OBVIOUS
  <2>4. Swept'
    BY <1>1, <2>1, IdleSwept, InHeap
  <2>5. Latest'
    <3>1. Range(queue') \subseteq Range(queue) \cup {p} /\ heap'[p].event = "CLEAR"
      BY <1>1, <2>1, <2>3, FrontRange DEF Allocate, IInv, TypeOK
    <3> QED BY <1>1, <1>2, <2>1, <2>2, <3>1, LatestKept
  <2>6. ~disturbed' => InTurn'
    BY <1>1, <1>2, <2>1, <2>2, ClearInTurn DEF Rotating
  <2> QED BY <2>4, <2>5, <2>6
<1>6. CASE HandlerApi \/ HandlerDone
  <2>1. /\ pc = "handle" /\ pc' \in {"handle", "get"} /\ UNCHANGED <<heap, queue, packet>>
    BY <1>6 DEF HandlerApi, HandlerDone, End
  <2>2. Swept'
    BY <1>1, <2>1, IdleSwept, InHeap
  <2>3. Latest'
    BY <1>1, <1>2, <2>1, LatestKept
  <2>4. InTurn => InTurn'
    BY <2>1 DEF InTurn, Looping, Ordered, Agree
  <2> QED BY <1>1, <1>2, <2>2, <2>3, <2>4
<1>7. CASE ScanDrop \/ ScanHold
  <2>1. /\ pc = "scan" /\ queue # <<>> /\ queue' = Tail(queue) /\ UNCHANGED <<heap, event, marked>>
        /\ \/ pc' = "scan" /\ packet' = packet
           \/ pc' = "putFirst" /\ packet' = Head(queue) /\ ~Matches(Head(queue))
    BY <1>7 DEF ScanDrop, ScanHold, Drop, Hold, svars
  <2>2. Swept'
    BY <1>1, <1>2, <2>1, InHeap DEF Swept, Rotating, Looping, Matches
  <2>3. Latest'
    BY <1>1, <1>2, <1>3, <2>1, LatestKept
  <2>4. ~disturbed' => InTurn'
    BY <1>1, <1>2, <2>1, HeadInTurn
  <2> QED BY <2>2, <2>3, <2>4
<1>8. CASE ScanEmpty \/ PeekEnd
  <2>1. /\ pc = "scan" \/ (pc = "peek" /\ (queue # <<>> => Head(queue) = first))
        /\ pc' = "get" /\ UNCHANGED <<heap, queue, packet>>
    BY <1>8 DEF ScanEmpty, PeekEnd, End
  <2>2. Swept'
    BY <1>1, <2>1, IdleSwept, InHeap
  <2>3. Latest'
    BY <1>1, <1>2, <2>1, LatestKept
  <2>4. ~disturbed' => InTurn'
    BY <1>1, <1>2, <2>1, EndInTurn
  <2> QED BY <2>2, <2>3, <2>4
<1>9. CASE PeekOn
  <2>1. /\ pc = "peek" /\ pc' = "take" /\ Head(queue) # first
        /\ UNCHANGED <<heap, queue, event, packet, first, marked>>
    BY <1>9 DEF PeekOn
  <2>2. Swept'
    BY <1>1, <1>2, <2>1, SweptKept DEF Swept, Rotating, Looping
  <2>3. Latest'
    BY <1>1, <1>2, <2>1, LatestKept
  <2>4. ~disturbed' => InTurn'
    BY <1>1, <1>2, <2>1, KeptInTurn
  <2> QED BY <2>2, <2>3, <2>4
<1>10. CASE TakeDrop \/ TakeHold
  <2>1. /\ pc = "take" /\ queue # <<>> /\ queue' = Tail(queue) /\ UNCHANGED <<heap, event, first, marked>>
        /\ \/ pc' = "peek" /\ packet' = packet
           \/ pc' = "put" /\ packet' = Head(queue) /\ ~Matches(Head(queue))
    BY <1>10 DEF TakeDrop, TakeHold, Drop, Hold
  <2>2. packet' # 0 => ~Matches(packet)'
    BY <1>1, <2>1, InHeap DEF Matches
  <2>3. Swept'
    BY <1>1, <1>2, <2>1, <2>2, TakeSwept
  <2>4. Latest'
    BY <1>1, <1>2, <1>3, <2>1, LatestKept
  <2>5. ~disturbed' => InTurn'
    BY <1>1, <1>2, <2>1, TakeInTurn
  <2> QED BY <2>3, <2>4, <2>5
<1>11. CASE PutFirst \/ Put
  <2>1. /\ SendBack(packet) /\ packet' = 0 /\ pc' = "peek" /\ UNCHANGED <<heap, event, marked>>
        /\ \/ pc = "putFirst" /\ first' = packet
           \/ pc = "put" /\ first' = first
    BY <1>11 DEF PutFirst, Put
  <2>2. Swept'
    BY <1>1, <1>2, <2>1, PutSwept
  <2>3. Latest'
    <3>1. Range(queue') \subseteq Range(queue) \cup {packet}
      BY <1>1, <2>1, BackIndex DEF Range, IInv, TypeOK
    <3> QED BY <1>1, <1>2, <2>1, <3>1, LatestKept DEF Latest
  <2>4. ~disturbed' => InTurn'
    BY <1>1, <1>2, <2>1, PutInTurn
  <2> QED BY <2>2, <2>3, <2>4
<1> QED BY <1>4, <1>5, <1>6, <1>7, <1>8, <1>9, <1>10, <1>11 DEF Service

(* All this holds in every reachable state. *)
LEMMA QInvariant == Spec => []QInv
<1>1. Init => QInv
  <2> SUFFICES ASSUME Init PROVE QInv
    OBVIOUS
  <2>1. Range(queue) = {} /\ DOMAIN queue = {}
    BY DEF Init, Range
  <2> QED BY <2>1, IInvInit DEF Init, QInv, Swept, Latest, InTurn, Rotating, Looping, Ordered
<1>2. QInv /\ [Next]_vars => QInv'
  <2> SUFFICES ASSUME QInv, [Next]_vars PROVE QInv'
    OBVIOUS
  <2>1. IInv'
    BY IInvStep DEF QInv
  <2>2. CASE UNCHANGED vars
    <3>1. Swept' /\ Latest' /\ (~disturbed' => InTurn')
      BY <2>2 DEF QInv, Swept, Latest, InTurn, Rotating, Looping, Ordered, Turn, Ahead, Agree, Matches,
                  vars, svars
    <3> QED BY <2>1, <3>1 DEF QInv
  <2>3. CASE Next
    BY <2>1, <2>3, PostStep, ServiceStep DEF QInv, Next
  <2> QED BY <2>2, <2>3
<1> QED BY <1>1, <1>2, PTL DEF Spec

(* A rotation that returns has met first again: no packet of its client is *)
(* left of those that were queued when it began.                           *)
LEMMA ClearedStep ==
    ASSUME QInv, [Next]_vars, Rotating, pc' = "get"
    PROVE  \A p \in marked : Matches(p) => p \notin Range(queue')
<1>1. CASE ScanEmpty
  BY <1>1 DEF ScanEmpty, Range
<1>2. CASE PeekEnd
  <2>1. PICK k \in DOMAIN queue : Turn(k) /\ Ahead(k)
    BY <1>2 DEF QInv, Swept, Looping, PeekEnd
  <2>2. /\ queue' = queue /\ 1 \in DOMAIN queue /\ queue[1] = first /\ ~Matches(first)
        /\ DOMAIN queue \subseteq Nat \ {0}
    BY <1>2, <2>1, InHeap, SMTT(60) DEF PeekEnd, QInv, Swept, Looping, IInv, TypeOK
  <2>3. k = 1
    BY <2>1, <2>2 DEF Turn, QInv, IInv, Conservation, IsInjective
  <2>4. \A i \in DOMAIN queue : Matches(queue[i]) => queue[i] \notin marked
    BY <2>1, <2>2, <2>3 DEF Ahead
  <2> QED BY <2>2, <2>4 DEF Range
<1>3. CASE ~(ScanEmpty \/ PeekEnd)
  BY <1>3 DEF Rotating, Next, Service, vars, svars, LwipCallback, LwipPost, AppClear, Get, HandlerClear,
              HandlerApi, HandlerDone, ScanDrop, ScanHold, PutFirst, PeekOn, TakeDrop, TakeHold, Put
<1> QED BY <1>1, <1>2, <1>3

(* However many events are posted meanwhile, a rotation that returns left  *)
(* no packet of its client that was queued before it began.                *)
THEOREM RotationClearsAlways == Spec => RotationClears
<1>1. QInv /\ [Next]_vars
        => [Rotating /\ pc' = "get" =>
              \A p \in marked : Matches(p) => p \notin Range(queue')]_vars
  BY ClearedStep
<1> QED BY <1>1, QInvariant, PTL DEF Spec, RotationClears

(* As long as nothing is posted during a rotation the events of a client   *)
(* are dispatched in the order they were reported, and after its CLEAR.    *)
THEOREM OrderKeptAlone == Spec => []OrderKeptWhenAlone
<1>1. QInv => OrderKeptWhenAlone
  <2> SUFFICES ASSUME QInv, ~disturbed, pc = "get" PROVE DataInOrder(queue) /\ ClearAhead(queue)
    BY DEF OrderKeptWhenAlone
  <2>1. Ordered(1) /\ DOMAIN queue \subseteq Nat \ {0}
    BY InHeap DEF QInv, InTurn, Looping
  <2>2. ASSUME NEW i \in DOMAIN queue, NEW j \in DOMAIN queue, i < j
        PROVE  Agree(queue[i], queue[j])
    BY <2>1, <2>2 DEF Ordered, Before
  <2> QED BY <2>2 DEF DataInOrder, ClearAhead, Agree
<1> QED BY <1>1, QInvariant, PTL
=============================================================================
