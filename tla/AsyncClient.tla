----------------------------- MODULE AsyncClient -----------------------------
(***************************************************************************)
(* One ZZAsyncClient of src/ZZAsyncTCP.cpp over its life: the application  *)
(* connects, closes and aborts it, the lwIP thread reports what happens to *)
(* its connections and the service task dispatches the reports.  The three *)
(* share _pcb and the event queue and nothing locks them.                  *)
(*                                                                         *)
(* conns holds every connection the client ever opened; a tcp_pcb is its   *)
(* index there, 0 is NULL.  The queue holds the events of this client      *)
(* only, the packets of the others come and go between them.  When another *)
(* client is cleared, _remove_events_with_arg takes these events out and   *)
(* sends them back too; AsyncQueue models that packet by packet.  Here     *)
(* queue is the order they will have when it is done, and moved and hand   *)
(* say how far it is, which decides where an event posted meanwhile will   *)
(* stand.                                                                  *)
(***************************************************************************)
EXTENDS Naturals, Sequences, Functions

CONSTANTS
    MaxConns,    \* bound: connections the client opens
    MaxQueue,    \* bound: events waiting when lwIP reports data or polls
    MaxTurns,    \* bound: rotations for other clients that move events of this one
    AppCalls     \* the calls the application task makes, besides connect()

ASSUME ClientAssumption ==
    /\ MaxConns \in Nat /\ MaxQueue \in Nat /\ MaxTurns \in Nat
    /\ AppCalls \subseteq {"close", "abort"}

VARIABLES
    conns,     \* the connections: [state, hooked]
    pcb,       \* _pcb
    queue,     \* events of this client in _async_queue: [event, conn]
    moved,     \* how many of them a rotation has put behind its first_packet
    hand,      \* 1 while the rotation holds the next one, which is in no queue
    turns,     \* rotations that began, for the bound
    posting,   \* <<e>> while the lwIP thread is inside a callback posting e
    task,      \* where the service task is: "get"; "clear", it removes this client's
               \* events; "first" and "turn", another's; "handle"
    event,     \* the event being dispatched
    closing,   \* the next step of _close in the application and service task
    dns,       \* a name lookup is under way
    view,      \* what the application was told: "down", "wait" or "up"
    lost,      \* history: a connection attempt ended and nobody was told
    hasty,     \* history: connect() did not wait until all was dispatched
    early,     \* history: connections whose FIN came while _pcb was another
    mixed,     \* history: an event was posted out of its order, into a rotation
    left,      \* history: connections the service task reported disconnected
    stale      \* history: an event of a connection in left was dispatched

history == <<lost, hasty, early, mixed, left, stale>>
rotation == <<moved, hand, turns>>
vars == <<conns, pcb, queue, rotation, posting, task, event, closing, dns, view, history>>

(* The states of a tcp_pcb the code tells apart: half is CLOSE_WAIT, gone  *)
(* is freed.                                                               *)
States == {"syn", "open", "half", "gone"}
Alive  == {"syn", "open", "half"}
Events == {"CONNECTED", "RECV", "POLL", "FIN", "ERROR", "DNS", "CLEAR"}
Conns  == 1..Len(conns)
Threads == {"app", "task"}
E(k, p) == [event |-> k, conn |-> p]
Nothing == E("CLEAR", 0)

Init ==
    /\ conns = <<>> /\ pcb = 0
    /\ queue = <<>> /\ moved = 0 /\ hand = 0 /\ turns = 0 /\ posting = <<>>
    /\ task = "get" /\ event = Nothing
    /\ closing = [t \in Threads |-> "no"]
    /\ dns = FALSE
    /\ view = "down"
    /\ lost = FALSE /\ hasty = FALSE /\ early = {} /\ mixed = FALSE
    /\ left = {} /\ stale = FALSE

(* An API call is run by the lwIP thread, between two of its callbacks.    *)
LwipFree == posting = <<>>

State(p, s) == [conns EXCEPT ![p].state = s]
Unhook(p)   == [conns EXCEPT ![p].hooked = FALSE]

Inserted(i, e) == SubSeq(queue, 1, i) \o <<e>> \o SubSeq(queue, i + 1, Len(queue))

(* xQueueSend and xQueueSendToFront.  Once first_packet is sent back, what *)
(* is sent to the back comes after the events moved and before the others; *)
(* what is sent to the front comes after the event in hand as well.        *)
SendBack(e) ==
    LET behind == IF task = "turn" THEN moved ELSE Len(queue) IN
    /\ queue' = Inserted(behind, e)
    /\ moved' = IF task = "turn" THEN moved + 1 ELSE moved
    /\ mixed' = (mixed \/ behind # Len(queue))
    /\ UNCHANGED <<hand, turns>>

SendFront(e) ==
    /\ queue' = Inserted(moved + hand, e)
    /\ mixed' = (mixed \/ moved + hand # 0)
    /\ UNCHANGED rotation

-----------------------------------------------------------------------------
(* Calls of the application *)

(* Nothing of this client is being dispatched or removed. *)
Waiting == task \in {"get", "first", "turn"}
Quiet == queue = <<>> /\ posting = <<>> /\ Waiting /\ ~dns

(* connect(ip).  It does not store the pcb, and it returns true whatever   *)
(* tcp_connect returned; that pcb is then neither connecting nor freed.    *)
Connecting ==
    /\ pcb = 0 /\ LwipFree /\ Len(conns) < MaxConns
    /\ \/ conns' = Append(conns, [state |-> "syn", hooked |-> TRUE]) /\ UNCHANGED lost
       \/ lost' = TRUE /\ UNCHANGED conns

(* connect(host): the address is known, or a lookup begins.  The           *)
(* application calls it while it is told that it is not connected: at      *)
(* once, or, as ZZTCPLog does, after a time.                               *)
AppConnect ==
    /\ view = "down" /\ closing.app = "no"
    /\ \/ Connecting /\ UNCHANGED dns
       \/ dns' = TRUE /\ LwipFree /\ UNCHANGED <<conns, lost>>
    /\ view' = "wait"
    /\ hasty' = (hasty \/ ~Quiet)
    /\ UNCHANGED <<pcb, queue, rotation, posting, task, event,
                   closing, early, mixed, left, stale>>

(* Slip: CLEAR goes behind the events it is to remove. *)
DetachClearLast(t) ==
    /\ pcb # 0 /\ closing[t] = "no"
    /\ conns' = Unhook(pcb)
    /\ SendBack(Nothing)
    /\ closing' = [closing EXCEPT ![t] = "api"]
    /\ UNCHANGED <<pcb, posting, task, event, dns, view, lost, hasty, early, left, stale>>

(* _close in thread t: unhook the callbacks and post CLEAR ...             *)
Detach(t) ==
    /\ pcb # 0 /\ closing[t] = "no"
    /\ conns' = Unhook(pcb)
    /\ SendFront(Nothing)
    /\ closing' = [closing EXCEPT ![t] = "api"]
    /\ UNCHANGED <<pcb, posting, task, event, dns, view, lost, hasty, early, left, stale>>

(* tcp_abort(p) reports an error if the callback is still there.           *)
Abort(p) ==
    /\ conns' = State(p, "gone")
    /\ posting' = IF conns[p].hooked /\ conns[p].state # "gone"
                    THEN <<E("ERROR", p)>> ELSE <<>>
    /\ pcb' = 0

(* Slip: nothing is done when tcp_close fails. *)
CloseApiOnly(t) ==
    /\ closing[t] = "api" /\ LwipFree
    /\ closing' = [closing EXCEPT ![t] = "end"]
    /\ \/ UNCHANGED conns
       \/ pcb # 0 /\ conns' = State(pcb, "gone")
    /\ UNCHANGED <<pcb, queue, rotation, posting, task, event, dns, view, history>>

(* ... then tcp_close, abort() if that fails ...                           *)
CloseApi(t) ==
    /\ closing[t] = "api" /\ LwipFree
    /\ closing' = [closing EXCEPT ![t] = "end"]
    /\ \/ pcb = 0 /\ UNCHANGED <<conns, pcb, posting>>
       \/ pcb # 0 /\ conns' = State(pcb, "gone") /\ UNCHANGED <<pcb, posting>>
       \/ pcb # 0 /\ Abort(pcb)
    /\ UNCHANGED <<queue, rotation, task, event, dns, view, history>>

(* ... then forget the pcb and call onDisconnect.                          *)
CloseEnd(t) ==
    /\ closing[t] = "end"
    /\ closing' = [closing EXCEPT ![t] = "no"]
    /\ pcb' = 0
    /\ IF t = "task" THEN /\ task' = "get"
                          /\ left' = left \cup {event.conn}
                     ELSE UNCHANGED <<task, left>>
    /\ view' = "down"
    /\ UNCHANGED <<conns, queue, rotation, posting, event, dns, lost, hasty, early, mixed, stale>>

AppClose == "close" \in AppCalls /\ Detach("app")

AppAbort ==
    /\ "abort" \in AppCalls
    /\ closing.app = "no" /\ pcb # 0 /\ LwipFree
    /\ Abort(pcb)
    /\ UNCHANGED <<queue, rotation, task, event, closing, dns, view, history>>

-----------------------------------------------------------------------------
(* The lwIP thread *)

Callback(e) == posting = <<>> /\ posting' = <<e>>

SynAck(p) ==
    /\ conns[p].state = "syn"
    /\ conns' = State(p, "open")
    /\ Callback(E("CONNECTED", p))
    /\ UNCHANGED <<pcb, queue, rotation, task, event, closing, dns, view, history>>

(* Received data and the periodic poll; a connection is polled in any state. *)
Report(p) ==
    /\ conns[p].hooked /\ Len(queue) < MaxQueue
    /\ \/ conns[p].state = "open" /\ Callback(E("RECV", p))
       \/ conns[p].state \in {"syn", "open", "half"} /\ Callback(E("POLL", p))
    /\ UNCHANGED <<conns, pcb, queue, rotation, task, event, closing, dns, view, history>>

(* Slip: _lwip_fin leaves _pcb to the service task. *)
FinKeepsPcb(p) ==
    /\ conns[p].state = "open" /\ LwipFree
    /\ IF ~conns[p].hooked
         THEN conns' = State(p, "gone") /\ UNCHANGED posting
         ELSE /\ Callback(E("FIN", p))
              /\ conns' = [conns EXCEPT ![p] = [state |-> "gone", hooked |-> FALSE]]
    /\ UNCHANGED <<pcb, queue, rotation, task, event, closing, dns, view, history>>

(* Slip: _lwip_fin forgets the pcb without closing it. *)
FinLeavesOpen(p) ==
    /\ conns[p].state = "open" /\ LwipFree
    /\ IF ~conns[p].hooked
         THEN conns' = State(p, "gone") /\ UNCHANGED <<pcb, posting, early>>
         ELSE /\ Callback(E("FIN", p))
              /\ conns' = [conns EXCEPT ![p] = [state |-> "half", hooked |-> FALSE]]
              /\ IF pcb = p THEN pcb' = 0 /\ UNCHANGED early
                            ELSE early' = early \cup {p} /\ UNCHANGED pcb
    /\ UNCHANGED <<queue, rotation, task, event, closing, dns, view,
                   lost, hasty, mixed, left, stale>>

(* The peer closes: _lwip_fin closes the pcb in the lwIP thread if it is   *)
(* the client's, and FIN is posted in any case.  Without callbacks lwIP    *)
(* closes it by itself.                                                    *)
Fin(p) ==
    /\ conns[p].state = "open" /\ LwipFree
    /\ IF ~conns[p].hooked
         THEN conns' = State(p, "gone") /\ UNCHANGED <<pcb, posting, early>>
         ELSE /\ Callback(E("FIN", p))
              /\ IF pcb = p
                   THEN /\ conns' = [conns EXCEPT ![p] = [state |-> "gone", hooked |-> FALSE]]
                        /\ pcb' = 0
                        /\ UNCHANGED early
                   ELSE /\ conns' = State(p, "half")
                        /\ early' = early \cup {p}
                        /\ UNCHANGED pcb
    /\ UNCHANGED <<queue, rotation, task, event, closing, dns, view,
                   lost, hasty, mixed, left, stale>>

(* Reset by the peer, refused or given up: lwIP frees the pcb, then tells. *)
Reset(p) ==
    /\ conns[p].state \in {"syn", "open", "half"} /\ LwipFree
    /\ conns' = State(p, "gone")
    /\ IF conns[p].hooked THEN Callback(E("ERROR", p)) ELSE UNCHANGED posting
    /\ UNCHANGED <<pcb, queue, rotation, task, event, closing, dns, view, history>>

DnsFound ==
    /\ dns /\ dns' = FALSE
    /\ Callback(E("DNS", 0))
    /\ UNCHANGED <<conns, pcb, queue, rotation, task, event, closing, view, history>>

Post ==
    /\ posting # <<>> /\ posting' = <<>>
    /\ IF posting[1].event = "CONNECTED" THEN SendFront(posting[1]) ELSE SendBack(posting[1])
    /\ UNCHANGED <<conns, pcb, task, event, closing, dns, view, lost, hasty, early, left, stale>>

-----------------------------------------------------------------------------
(* The service task *)

Get ==
    /\ task = "get" /\ queue # <<>>
    /\ event' = Head(queue)
    /\ IF Head(queue).event = "CLEAR" THEN task' = "clear" /\ queue' = <<>>
                                      ELSE task' = "handle" /\ queue' = Tail(queue)
    /\ stale' = (stale \/ Head(queue).conn \in left)
    /\ UNCHANGED <<conns, pcb, rotation, posting, closing, dns, view,
                   lost, hasty, early, mixed, left>>

(* What is posted while the rotation runs it may drop or leave.            *)
ClearDrop ==
    /\ task = "clear" /\ queue # <<>>
    /\ queue' = Tail(queue)
    /\ UNCHANGED <<conns, pcb, rotation, posting, task, event, closing, dns, view, history>>

ClearEnd ==
    /\ task = "clear"
    /\ task' = "get"
    /\ UNCHANGED <<conns, pcb, queue, rotation, posting, event, closing, dns, view, history>>

(* CLEAR of another client: its rotation takes first_packet, which may be  *)
(* of this client, ...  While there is no event of this one a rotation     *)
(* does nothing to it, and may as well begin when there is.                *)
RotateBegin ==
    /\ task = "get" /\ queue # <<>> /\ turns < MaxTurns
    /\ task' = "first" /\ turns' = turns + 1
    /\ hand' \in {0, 1} /\ hand' <= Len(queue)
    /\ UNCHANGED <<conns, pcb, queue, moved, posting, event, closing, dns, view, history>>

(* ... sends it back ...                                                   *)
RotateFirst ==
    /\ task = "first" /\ task' = "turn"
    /\ moved' = hand /\ hand' = 0 /\ UNCHANGED turns
    /\ UNCHANGED <<conns, pcb, queue, posting, event, closing, dns, view, history>>

(* ... and does the same with every packet until it comes to first_packet. *)
RotateTake ==
    /\ task = "turn" /\ hand = 0 /\ moved < Len(queue)
    /\ hand' = 1
    /\ UNCHANGED <<conns, pcb, queue, moved, turns, posting, task,
                   event, closing, dns, view, history>>

RotateSend ==
    /\ task = "turn" /\ hand = 1
    /\ moved' = moved + 1 /\ hand' = 0 /\ UNCHANGED turns
    /\ UNCHANGED <<conns, pcb, queue, posting, task, event, closing, dns, view, history>>

RotateEnd ==
    /\ task = "turn" /\ hand = 0 /\ moved = Len(queue)
    /\ task' = "get" /\ moved' = 0 /\ UNCHANGED turns
    /\ UNCHANGED <<conns, pcb, queue, hand, posting, event, closing, dns, view, history>>

Rotate == RotateBegin \/ RotateFirst \/ RotateTake \/ RotateSend \/ RotateEnd

Handle(k) == task = "handle" /\ event.event = k /\ closing.task = "no"

(* _connected *)
Connected ==
    /\ Handle("CONNECTED")
    /\ pcb' = event.conn
    /\ view' = "up"
    /\ task' = "get"
    /\ UNCHANGED <<conns, queue, rotation, posting, event, closing, dns, history>>

(* _recv acknowledges by an API call, _poll does nothing ...               *)
Seen ==
    /\ \/ Handle("RECV") /\ (pcb # 0 => LwipFree)
       \/ Handle("POLL")
    /\ task' = "get"
    /\ UNCHANGED <<conns, pcb, queue, rotation, posting, event, closing, dns, view, history>>

(* ... unless onData closes the client, or the receive timeout is over.    *)
TaskClose ==
    /\ \/ Handle("RECV") /\ LwipFree
       \/ Handle("POLL") /\ event.conn = pcb
    /\ Detach("task")

(* Slip: nothing is reported when there is no _pcb. *)
ErrorNeedsPcb ==
    /\ Handle("ERROR")
    /\ IF pcb # 0
         THEN /\ conns' = Unhook(pcb)
              /\ pcb' = 0
              /\ view' = "down"
              /\ left' = left \cup {event.conn}
         ELSE UNCHANGED <<conns, pcb, view, left>>
    /\ task' = "get"
    /\ UNCHANGED <<queue, rotation, posting, event, closing, dns,
                   lost, hasty, early, mixed, stale>>

(* _error: it unhooks whatever connection is the client's now.             *)
Error ==
    /\ Handle("ERROR")
    /\ conns' = IF pcb # 0 THEN Unhook(pcb) ELSE conns
    /\ pcb' = 0
    /\ view' = "down"
    /\ left' = left \cup {event.conn}
    /\ task' = "get"
    /\ UNCHANGED <<queue, rotation, posting, event, closing, dns,
                   lost, hasty, early, mixed, stale>>

(* _fin *)
FinSeen ==
    /\ Handle("FIN")
    /\ SendFront(Nothing)
    /\ view' = "down"
    /\ left' = left \cup {event.conn}
    /\ task' = "get"
    /\ UNCHANGED <<conns, pcb, posting, event, closing, dns, lost, hasty, early, stale>>

(* _dns_found: connect(ip), which may also return false, or onError and    *)
(* onDisconnect.                                                           *)
Dns ==
    /\ Handle("DNS")
    /\ \/ Connecting /\ UNCHANGED view
       \/ lost' = TRUE /\ UNCHANGED <<conns, view>>
       \/ view' = "down" /\ UNCHANGED <<conns, lost>>
    /\ task' = "get"
    /\ UNCHANGED <<pcb, queue, rotation, posting, event, closing, dns,
                   hasty, early, mixed, left, stale>>

-----------------------------------------------------------------------------

Service ==
    \/ Get \/ ClearDrop \/ ClearEnd \/ Rotate
    \/ Connected \/ Seen \/ TaskClose \/ Error \/ FinSeen \/ Dns
    \/ CloseApi("task") \/ CloseEnd("task")

Lwip(p) == SynAck(p) \/ Report(p) \/ Fin(p) \/ Reset(p)

Next ==
    \/ AppConnect \/ AppClose \/ AppAbort \/ CloseApi("app") \/ CloseEnd("app")
    \/ Service
    \/ \E p \in Conns : Lwip(p)
    \/ DnsFound \/ Post

Spec == Init /\ [][Next]_vars

(* The service task runs, and comes to this client's events between the    *)
(* rotations for other clients, which are not closed again and again; the  *)
(* lwIP thread finishes its callbacks, serves API calls in the order they  *)
(* come, so one that is again and again possible is served, and gives      *)
(* every connection attempt and every lookup an end: it limits their       *)
(* retransmissions.                                                        *)
Answer(p) == p \in Conns /\ conns[p].state = "syn" /\ (SynAck(p) \/ Reset(p))

(* What the service task may have to wait for; it does one thing at a time. *)
Progress == Get \/ Seen \/ Dns \/ ClearEnd \/ CloseApi("task")

Fairness ==
    /\ WF_vars(Service) /\ WF_vars(Post)
    /\ SF_vars(Progress) /\ SF_vars(CloseApi("app")) /\ WF_vars(CloseEnd("app"))
    /\ SF_vars(DnsFound)
    /\ \A p \in 1..MaxConns : SF_vars(Answer(p))

FairSpec == Spec /\ Fairness

-----------------------------------------------------------------------------
(* Properties *)

Packet == [event : Events, conn : {0} \cup Conns]

(* Every variable keeps its type; _pcb and the pcbs in events are          *)
(* connections the client opened.                                          *)
TypeOK ==
    /\ conns \in Seq([state : States, hooked : BOOLEAN])
    /\ pcb \in {0} \cup Conns
    /\ queue \in Seq(Packet)
    /\ turns \in Nat
    /\ moved \in Nat /\ hand \in {0, 1} /\ moved + hand <= Len(queue)
    /\ task = "first" => moved = 0
    /\ ~(task \in {"first", "turn"}) => moved = 0 /\ hand = 0
    /\ posting \in {<<>>} \cup {<<e>> : e \in Packet}
    /\ task \in {"get", "first", "turn", "clear", "handle"}
    /\ event \in Packet
    /\ closing \in [Threads -> {"no", "api", "end"}]
    /\ closing["task"] # "no" => task = "handle"
    /\ dns \in BOOLEAN
    /\ view \in {"down", "wait", "up"}
    /\ early \subseteq Conns /\ left \subseteq {0} \cup Conns
    /\ lost \in BOOLEAN /\ hasty \in BOOLEAN /\ mixed \in BOOLEAN /\ stale \in BOOLEAN

Pending(k, p) ==
    \/ E(k, p) \in Range(queue) \cup Range(posting)
    \/ task = "handle" /\ event = E(k, p)

Closing == \E t \in Threads : closing[t] # "no"

(* The API calls of space(), add(), ack() and close() use _pcb without     *)
(* asking lwIP whether it still exists.  It may point to a freed pcb only  *)
(* while the ERROR that will reset it is on its way or while the client is *)
(* being closed - unless a FIN overtook CONNECTED, or the application      *)
(* connected again while events of the last connection were still queued,  *)
(* or the rotation for another client that is closed changed the order of  *)
(* this one's events: with ERROR before CONNECTED _pcb is freed from the   *)
(* start.                                                                  *)
PcbLive ==
    early = {} /\ ~hasty /\ ~mixed /\ pcb # 0 /\ conns[pcb].state = "gone" =>
      Pending("ERROR", pcb) \/ Closing

(* The variables are well-formed and _pcb may be used. *)
PcbSound == TypeOK /\ PcbLive

(* No connection is forgotten: an established one is the client's, will    *)
(* be when its CONNECTED is dispatched, or is being closed.                *)
Reachable ==
    early = {} /\ ~hasty =>
      \A p \in Conns : conns[p].state \in {"open", "half"} =>
        pcb = p \/ Pending("CONNECTED", p) \/ Closing

(* "onDisconnect ... //disconnected" (include/ZZAsyncTCP.h:113): when the  *)
(* application was told so and nothing is left to dispatch, no connection  *)
(* of the client is alive.                                                 *)
Disconnected == view = "down" /\ Quiet => \A p \in Conns : conns[p].state \notin Alive

(* It is so unless a FIN came before its CONNECTED was dispatched:         *)
(* _lwip_fin then finds another _pcb and leaves the connection open; or    *)
(* the application was hasty.                                              *)
DisconnectedUnlessEarly == early = {} /\ ~hasty => Disconnected

(* An application that reconnects when it is told of the disconnect and    *)
(* all is dispatched never has two connections at once.  A hasty one has:  *)
(* the service task may report the last disconnect once more while the     *)
(* next connection is being made, and the application connects again.      *)
OneConnection ==
    early = {} /\ ~hasty =>
      \A p, q \in Conns : {conns[p].state, conns[q].state} \subseteq Alive => p = q

(* After onDisconnect, called by the service task for a connection, no     *)
(* event of that connection is dispatched: the client may be deleted there *)
(* or in a callback that closed it.  CLEAR, sent by _close before the API  *)
(* call that waits for the lwIP thread, removes what that thread posted.   *)
(* With a hasty application an event of the last connection may close the  *)
(* next one instead; and the rotation for another client that is closed    *)
(* may put ERROR, or what is posted behind CLEAR, before an earlier event. *)
SilentAfterDisconnect == early = {} /\ ~hasty /\ ~mixed => ~stale

(* "onError ... //unsuccessful connect or error" (include/ZZAsyncTCP.h:115) *)
(* and "onConnect ... //on successful connect": a connect() that returned  *)
(* true is followed by a callback that tells how it ended.  Two things may *)
(* prevent it: connect() or _dns_found ignored a failure of tcp_connect or *)
(* connect(), or a CLEAR of the last connection was still queued.          *)
AnsweredUnlessHasty == view = "wait" ~> view # "wait" \/ lost \/ hasty
=============================================================================
