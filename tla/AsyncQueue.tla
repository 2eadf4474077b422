------------------------------ MODULE AsyncQueue ------------------------------
(***************************************************************************)
(* The event queue of src/ZZAsyncTCP.cpp: lwIP callbacks and application   *)
(* tasks post pointers to event packets, one service task takes and        *)
(* dispatches them.  A CLEAR packet makes the service task rotate the      *)
(* whole queue, packet by packet and without a lock, to drop the events of *)
(* one client (_remove_events_with_arg) while the others go on posting.    *)
(*                                                                         *)
(* A packet is a pointer: its index in heap.  Pointer 0 is NULL.           *)
(***************************************************************************)
EXTENDS Naturals, Sequences, Functions

CONSTANTS
    Clients,       \* the arg of a packet: the client (or server) object
    QueueLength,   \* length given to xQueueCreate: 32 in the code
    LwipEvents,    \* the event types lwIP callbacks post in this instance
    MaxEvents      \* bound: packets allocated by lwIP and the application

BackEvents  == {"SENT", "RECV", "FIN", "ERROR", "POLL", "DNS"}
FrontEvents == {"CONNECTED", "ACCEPT"}

ASSUME QueueAssumption ==
    /\ Clients # {}
    /\ QueueLength \in Nat \ {0}
    /\ LwipEvents \subseteq BackEvents \cup FrontEvents
    /\ MaxEvents \in Nat

VARIABLES
    heap,       \* every packet ever allocated: [event, arg]
    queue,      \* _async_queue: pointers, head first
    freed,      \* pointers given to free()
    lwip,       \* packet a lwIP callback is about to post; 0: the thread is free
    pc,         \* where the service task is
    event,      \* packet being dispatched by the service task
    work,       \* calls its handler still has to make
    packet,     \* packet held between receive and send of the rotation
    first,      \* first_packet of the rotation
    marked,     \* history: queue content when the current rotation began
    disturbed   \* history: something was posted during some rotation

svars == <<pc, event, work, packet, first, marked>>
vars  == <<heap, queue, freed, lwip, disturbed, svars>>

Packet   == [event : BackEvents \cup FrontEvents \cup {"CLEAR"}, arg : Clients]
Pointers == 1..Len(heap)
Rotating == pc \in {"scan", "putFirst", "peek", "take", "put"}
Room     == Len(queue) < QueueLength

Init ==
    /\ heap = <<>>
    /\ queue = <<>>
    /\ freed = {}
    /\ lwip = 0
    /\ pc = "get"
    /\ event = 0
    /\ work = <<>>
    /\ packet = 0
    /\ first = 0
    /\ marked = {}
    /\ disturbed = FALSE

-----------------------------------------------------------------------------
(* Posting.  xQueueSend and xQueueSendToFront wait for room without limit. *)

SendBack(p)  == Room /\ queue' = Append(queue, p)
SendFront(p) == Room /\ queue' = <<p>> \o queue
Allocate(k, c) == heap' = Append(heap, [event |-> k, arg |-> c])

(* A lwIP callback allocates its packet; until it is posted the tcpip      *)
(* thread is inside the callback and runs no API call.                     *)
LwipCallback(k, c) ==
    /\ lwip = 0
    /\ Len(heap) < MaxEvents
    /\ Allocate(k, c)
    /\ lwip' = Len(heap) + 1
    /\ UNCHANGED <<queue, freed, disturbed, svars>>

(* Slip: every event is put in front, as CONNECTED is. *)
LwipPostInFront ==
    /\ lwip # 0
    /\ SendFront(lwip)
    /\ lwip' = 0
    /\ disturbed' = (disturbed \/ Rotating)
    /\ UNCHANGED <<heap, freed, svars>>

LwipPost ==
    /\ lwip # 0
    /\ IF heap[lwip].event \in FrontEvents THEN SendFront(lwip) ELSE SendBack(lwip)
    /\ lwip' = 0
    /\ disturbed' = (disturbed \/ Rotating)
    /\ UNCHANGED <<heap, freed, svars>>

(* close() called from an application task: _tcp_clear_events(this). *)
AppClear(c) ==
    /\ Len(heap) < MaxEvents
    /\ Allocate("CLEAR", c)
    /\ SendFront(Len(heap) + 1)
    /\ disturbed' = (disturbed \/ Rotating)
    /\ UNCHANGED <<freed, lwip, svars>>

-----------------------------------------------------------------------------
(* The service task. *)

(* What a handler does to the queue and to the tcpip thread: "clear" posts *)
(* a CLEAR for the client, "api" waits for the tcpip thread to run a call. *)
(* _close is clear, then api; _recv acks by an api call unless the user's  *)
(* callback closed the client (close() acks first); _poll may time out.    *)
Calls(k) ==
    CASE k = "RECV" -> {<<"api">>, <<"api", "clear", "api">>}
      [] k = "POLL" -> {<<>>, <<"clear", "api">>}
      [] k = "FIN"  -> {<<"clear">>}
      [] k = "DNS"  -> {<<>>, <<"api">>}
      [] OTHER      -> {<<>>}

Get ==
    /\ pc = "get" /\ queue # <<>>
    /\ event' = Head(queue)
    /\ queue' = Tail(queue)
    /\ IF heap[Head(queue)].event = "CLEAR"
         THEN /\ pc' = "scan"
              /\ marked' = Range(Tail(queue))
              /\ UNCHANGED work
         ELSE /\ pc' = "handle"
              /\ work' \in Calls(heap[Head(queue)].event)
              /\ UNCHANGED marked
    /\ UNCHANGED <<heap, freed, lwip, packet, first, disturbed>>

HandlerClear ==
    /\ pc = "handle" /\ work # <<>> /\ Head(work) = "clear"
    /\ Allocate("CLEAR", heap[event].arg)
    /\ SendFront(Len(heap) + 1)
    /\ work' = Tail(work)
    /\ UNCHANGED <<freed, lwip, pc, event, packet, first, marked, disturbed>>

HandlerApi ==
    /\ pc = "handle" /\ work # <<>> /\ Head(work) = "api"
    /\ lwip = 0
    /\ work' = Tail(work)
    /\ UNCHANGED <<heap, queue, freed, lwip, pc, event, packet, first, marked, disturbed>>

(* Slip: the dispatched packet is not freed. *)
EndWithoutFree ==
    /\ freed' = freed
    /\ event' = 0
    /\ first' = 0
    /\ pc' = "get"

(* The end of _handle_async_event: free(e), back to xQueueReceive. *)
End ==
    /\ freed' = freed \cup {event}
    /\ event' = 0
    /\ first' = 0
    /\ pc' = "get"

HandlerDone ==
    /\ pc = "handle" /\ work = <<>>
    /\ End
    /\ UNCHANGED <<heap, queue, lwip, work, packet, marked, disturbed>>

(* _remove_events_with_arg(heap[event].arg) *)

Matches(p) == heap[p].arg = heap[event].arg

Drop ==
    /\ queue # <<>> /\ Matches(Head(queue))
    /\ freed' = freed \cup {Head(queue)}
    /\ queue' = Tail(queue)

Hold ==
    /\ queue # <<>> /\ ~Matches(Head(queue))
    /\ packet' = Head(queue)
    /\ queue' = Tail(queue)

ScanDrop ==
    /\ pc = "scan" /\ Drop
    /\ UNCHANGED <<heap, lwip, disturbed, svars>>

ScanHold ==
    /\ pc = "scan" /\ Hold
    /\ pc' = "putFirst"
    /\ UNCHANGED <<heap, freed, lwip, event, work, first, marked, disturbed>>

ScanEmpty ==
    /\ pc = "scan" /\ queue = <<>>
    /\ End
    /\ UNCHANGED <<heap, queue, lwip, work, packet, marked, disturbed>>

(* Slip: the first packet goes back to the front, where the loop stops.    *)
PutFirstInFront ==
    /\ pc = "putFirst" /\ SendFront(packet)
    /\ first' = packet /\ packet' = 0
    /\ pc' = "peek"
    /\ UNCHANGED <<heap, freed, lwip, event, work, marked, disturbed>>

PutFirst ==
    /\ pc = "putFirst" /\ SendBack(packet)
    /\ first' = packet /\ packet' = 0
    /\ pc' = "peek"
    /\ UNCHANGED <<heap, freed, lwip, event, work, marked, disturbed>>

PeekOn ==
    /\ pc = "peek" /\ queue # <<>> /\ Head(queue) # first
    /\ pc' = "take"
    /\ UNCHANGED <<heap, queue, freed, lwip, event, work, packet, first, marked, disturbed>>

PeekEnd ==
    /\ pc = "peek" /\ (queue # <<>> => Head(queue) = first)
    /\ End
    /\ UNCHANGED <<heap, queue, lwip, work, packet, marked, disturbed>>

(* The receive that follows the peek: what was posted to the front in      *)
(* between is what it gets.                                                *)
TakeDrop ==
    /\ pc = "take" /\ Drop
    /\ pc' = "peek"
    /\ UNCHANGED <<heap, lwip, event, work, packet, first, marked, disturbed>>

TakeHold ==
    /\ pc = "take" /\ Hold
    /\ pc' = "put"
    /\ UNCHANGED <<heap, freed, lwip, event, work, first, marked, disturbed>>

Put ==
    /\ pc = "put" /\ SendBack(packet)
    /\ packet' = 0
    /\ pc' = "peek"
    /\ UNCHANGED <<heap, freed, lwip, event, work, first, marked, disturbed>>

-----------------------------------------------------------------------------

Service ==
    \/ Get \/ HandlerClear \/ HandlerApi \/ HandlerDone
    \/ ScanDrop \/ ScanHold \/ ScanEmpty \/ PutFirst
    \/ PeekOn \/ PeekEnd \/ TakeDrop \/ TakeHold \/ Put

Next ==
    \/ \E k \in LwipEvents, c \in Clients : LwipCallback(k, c)
    \/ LwipPost
    \/ \E c \in Clients : AppClear(c)
    \/ Service

Spec == Init /\ [][Next]_vars

(* The two threads are scheduled; the tcpip thread serves its mailbox in   *)
(* order, so an API call that is again and again possible is served.       *)
Fairness ==
    /\ WF_vars(Service)
    /\ SF_vars(HandlerApi)
    /\ WF_vars(LwipPost)

FairSpec == Spec /\ Fairness

-----------------------------------------------------------------------------
(* Properties *)

(* Every variable keeps its type; pointers point into the heap. *)
TypeOK ==
    /\ heap \in Seq(Packet)
    /\ queue \in Seq(Pointers)
    /\ freed \subseteq Pointers
    /\ lwip \in {0} \cup Pointers
    /\ pc \in {"get", "handle", "scan", "putFirst", "peek", "take", "put"}
    /\ event \in {0} \cup Pointers
    /\ work \in Seq({"clear", "api"})
    /\ packet \in {0} \cup Pointers
    /\ first \in {0} \cup Pointers
    /\ marked \subseteq Pointers
    /\ disturbed \in BOOLEAN

InHand == {lwip, event, packet} \ {0}

(* No packet is lost, queued twice or freed twice: whatever the            *)
(* interleaving of posts with the lock-free rotation, every allocated      *)
(* packet is in exactly one of: the queue (once), one thread's hand, freed. *)
Conservation ==
    /\ IsInjective(queue)
    /\ Range(queue) \cap (InHand \cup freed) = {}
    /\ InHand \cap freed = {}
    /\ lwip # 0 => lwip \notin {event, packet}
    /\ event # 0 => event # packet
    /\ Pointers = Range(queue) \cup InHand \cup freed

(* When a rotation returns, no packet of the cleared client that was       *)
(* queued before it began is still queued, however many events were posted *)
(* meanwhile: a client deleted after CLEAR gets no event from before it.   *)
RotationClears ==
    [][Rotating /\ pc' = "get" =>
         \A p \in marked : Matches(p) => p \notin Range(queue')]_vars

(* The order handlers rely on: the events of one client leave in the order *)
(* lwIP reported them ...                                                  *)
DataInOrder(q) ==
    \A i, j \in DOMAIN q :
        /\ i < j /\ heap[q[i]].arg = heap[q[j]].arg
        /\ {heap[q[i]].event, heap[q[j]].event} \subseteq BackEvents
        => q[i] < q[j]

(* ... and no event is ahead of a CLEAR of its client, unless it was       *)
(* posted to the front after it.                                           *)
ClearAhead(q) ==
    \A i, j \in DOMAIN q :
        /\ i < j /\ heap[q[i]].arg = heap[q[j]].arg
        /\ heap[q[j]].event = "CLEAR"
        => heap[q[i]].event \notin BackEvents

(* "figure out which is the first packet so we can keep the order"         *)
(* (src/ZZAsyncTCP.cpp:125): between dispatches the events of each client  *)
(* are queued in the order they were reported.                             *)
OrderKept == pc = "get" => DataInOrder(queue)

(* As long as nothing was posted while a rotation was running, the         *)
(* rotation keeps both orders: alone, it does what the comment says.       *)
OrderKeptWhenAlone ==
    ~disturbed /\ pc = "get" => DataInOrder(queue) /\ ClearAhead(queue)

(* Unless the queue fills, every packet posted is eventually dispatched or *)
(* dropped and freed: neither the rotation nor a handler waits for ever.   *)
(* With the queue full nothing is promised: the service task may wait for  *)
(* a place, or for a tcpip thread that waits for one.                      *)
EveryPacketFreed ==
    \A p \in 1..(2 * MaxEvents) : p \in Pointers ~> p \in freed \/ ~Room

=============================================================================
