----------------------------- MODULE ClosedSlots -----------------------------
(***************************************************************************)
(* The closed slots of src/ZZAsyncTCP.cpp.  An accepted client gets a slot *)
(* of _closed_slots, holding 0 while its connection lives.  When the peer  *)
(* closes, the lwIP thread frees the pcb and stamps the slot, so that an   *)
(* API call another task began with the old _pcb finds out, when the lwIP  *)
(* thread comes to run it, and leaves the pcb alone.  The slot with the    *)
(* oldest stamp is the next to be given away.                              *)
(***************************************************************************)
EXTENDS Integers, Sequences, FiniteSets

CONSTANTS
    NumSlots,    \* _number_of_closed_slots: CONFIG_LWIP_MAX_ACTIVE_TCP
    Pcbs,        \* addresses of the pcbs lwIP has: as many, and reused
    Tasks,       \* tasks that call the client: service task, application
    MaxAccepts,  \* bound: clients accepted
    MaxOutgoing  \* bound: FINs of outgoing clients, which have slot -1

ASSUME SlotsAssumption ==
    /\ NumSlots \in Nat \ {0}
    /\ 0 \notin Pcbs /\ IsFiniteSet(Pcbs) /\ Cardinality(Pcbs) <= NumSlots
    /\ MaxAccepts \in Nat /\ MaxOutgoing \in Nat

VARIABLES
    slots,      \* _closed_slots
    index,      \* _closed_index
    clients,    \* accepted clients: [pcb, slot, addr, hooked, how]
    call,       \* the API call each task waits for: [client, pcb, op]
    released,   \* history: the slots in the order they were stamped
    outside,    \* history: _closed_slots[-1] was written
    touched     \* history: clients whose call used a pcb not theirs any more

vars == <<slots, index, clients, call, released, outside, touched>>

Slots   == 0..(NumSlots - 1)
Clients == 1..Len(clients)
NoCall  == [client |-> 0, pcb |-> 0, op |-> "none"]

(* Slip: _closed_index starts at 0, which marks a slot as in use. *)
InitIndexZero ==
    /\ slots = [s \in Slots |-> 1]
    /\ index = 0
    /\ clients = <<>>
    /\ call = [t \in Tasks |-> NoCall]
    /\ released = <<>> /\ outside = FALSE /\ touched = {}

Init ==
    /\ slots = [s \in Slots |-> 1]
    /\ index = 1
    /\ clients = <<>>
    /\ call = [t \in Tasks |-> NoCall]
    /\ released = <<>> /\ outside = FALSE /\ touched = {}

-----------------------------------------------------------------------------
(* The constructor's search, run in the lwIP thread by _accept *)

Free == {s \in Slots : slots[s] # 0}

(* Slip: the first free slot. *)
FirstFree(s) == s \in Free /\ \A r \in Free : s <= r

Chosen(s) ==
    s \in Free /\ \A r \in Free : slots[s] < slots[r] \/ (slots[s] = slots[r] /\ r <= s)

(* The loop itself: _closed_slot and closed_slot_min_index after n slots. *)
LoopStepStrict(acc, s) ==
    IF (acc.slot = -1 \/ slots[s] < acc.min) /\ slots[s] # 0
      THEN [slot |-> s, min |-> slots[s]] ELSE acc
LoopStep(acc, s) ==
    IF (acc.slot = -1 \/ slots[s] <= acc.min) /\ slots[s] # 0
      THEN [slot |-> s, min |-> slots[s]] ELSE acc
Searched[n \in 0..NumSlots] ==
    IF n = 0 THEN [slot |-> -1, min |-> 0] ELSE LoopStep(Searched[n - 1], n - 1)
Loop == Searched[NumSlots].slot

Open(c) == clients[c].how = "open"
Owner(p) == {c \in Clients : Open(c) /\ clients[c].addr = p}

Client(p, s) == [pcb |-> p, slot |-> s, addr |-> p, hooked |-> TRUE, how |-> "open"]

(* Slip: the slot is taken without being marked. *)
AcceptUnmarked(p) ==
    /\ Len(clients) < MaxAccepts /\ Owner(p) = {}
    /\ \E s \in Slots : Chosen(s) /\ clients' = Append(clients, Client(p, s))
    /\ UNCHANGED <<slots, index, call, released, outside, touched>>

(* Without a free slot the constructor writes _closed_slots[-1]. *)
Accept(p) ==
    /\ Len(clients) < MaxAccepts /\ Owner(p) = {}
    /\ \/ \E s \in Slots :
            /\ Chosen(s)
            /\ slots' = [slots EXCEPT ![s] = 0]
            /\ clients' = Append(clients, Client(p, s))
            /\ UNCHANGED outside
       \/ /\ Free = {}
          /\ outside' = TRUE
          /\ clients' = Append(clients, Client(p, -1))
          /\ UNCHANGED slots
    /\ UNCHANGED <<index, call, released, touched>>

-----------------------------------------------------------------------------
(* The end of a connection, in the lwIP thread *)

End(c, how) == [clients EXCEPT ![c].how = how]

(* The end of _lwip_fin for a client with slot s. *)
Stamp(s) ==
    /\ index' = index + 1
    /\ IF s = -1
         THEN outside' = TRUE /\ UNCHANGED <<slots, released>>
         ELSE /\ slots' = [slots EXCEPT ![s] = index]
              /\ released' = Append(released, s)
              /\ UNCHANGED outside

(* The peer closes: _lwip_fin. *)
Fin(c) ==
    /\ Open(c) /\ clients[c].hooked
    /\ clients' = [End(c, "fin") EXCEPT ![c].pcb = 0]
    /\ Stamp(clients[c].slot)
    /\ UNCHANGED <<call, touched>>

(* _lwip_fin of a client that connect() made: it never gets a slot. *)
FinOutgoing ==
    /\ MaxOutgoing > index - 1 - Len(released)
    /\ Stamp(-1)
    /\ UNCHANGED <<clients, call, touched>>

(* Reset: lwIP frees the pcb; _error, dispatched later, forgets it.        *)
(* Neither stamps the slot.                                                *)
Reset(c) ==
    /\ Open(c)
    /\ clients' = End(c, "reset")
    /\ UNCHANGED <<slots, index, call, released, outside, touched>>

Error(c) ==
    /\ clients[c].how = "reset" /\ clients[c].hooked
    /\ clients' = [clients EXCEPT ![c].pcb = 0, ![c].hooked = FALSE]
    /\ UNCHANGED <<slots, index, call, released, outside, touched>>

-----------------------------------------------------------------------------
(* API calls: a task reads _pcb and then waits for the lwIP thread. *)

Use(t, c) ==
    /\ call[t] = NoCall /\ clients[c].pcb # 0
    /\ call' = [call EXCEPT ![t] = [client |-> c, pcb |-> clients[c].pcb, op |-> "use"]]
    /\ UNCHANGED <<slots, index, clients, released, outside, touched>>

(* _close unhooks the callbacks first. *)
Close(t, c) ==
    /\ call[t] = NoCall /\ clients[c].pcb # 0
    /\ clients' = [clients EXCEPT ![c].hooked = FALSE]
    /\ call' = [call EXCEPT ![t] = [client |-> c, pcb |-> clients[c].pcb, op |-> "close"]]
    /\ UNCHANGED <<slots, index, released, outside, touched>>

(* Slip: no guard. *)
AlwaysRun(s) == TRUE
(* The guard of _tcp_write_api and the others. *)
Guard(s) == s = -1 \/ slots[s] = 0

(* The lwIP thread runs the call; a close, refused or not, ends with       *)
(* _pcb = NULL, and frees the pcb (or whatever lives at its address).      *)
Run(t) ==
    LET m == call[t]
        c == m.client
        run == Guard(clients[c].slot)
    IN /\ m # NoCall
       /\ call' = [call EXCEPT ![t] = NoCall]
       /\ touched' = IF run /\ c \notin Owner(m.pcb) THEN touched \cup {c} ELSE touched
       /\ clients' = IF m.op = "use" THEN clients
                     ELSE [d \in Clients |->
                        [clients[d] EXCEPT
                           !.how = IF run /\ d \in Owner(m.pcb) THEN "closed" ELSE @,
                           !.pcb = IF d = c THEN 0 ELSE @]]
       /\ UNCHANGED <<slots, index, released, outside>>

-----------------------------------------------------------------------------

Next ==
    \/ \E p \in Pcbs : Accept(p)
    \/ \E c \in Clients : Fin(c) \/ Reset(c) \/ Error(c)
    \/ FinOutgoing
    \/ \E t \in Tasks, c \in Clients : Use(t, c) \/ Close(t, c)
    \/ \E t \in Tasks : Run(t)

Spec == Init /\ [][Next]_vars

-----------------------------------------------------------------------------
(* Properties *)

(* Every variable keeps its type; slots hold 0 or a stamp already given.   *)
TypeOK ==
    /\ slots \in [Slots -> 0..index]
    /\ index \in Nat
    /\ clients \in Seq([pcb : {0} \cup Pcbs, slot : {-1} \cup Slots, addr : Pcbs,
                        hooked : BOOLEAN, how : {"open", "fin", "closed", "reset"}])
    /\ call \in [Tasks -> [client : {0} \cup Clients, pcb : {0} \cup Pcbs,
                           op : {"none", "use", "close"}]]
    /\ released \in Seq(Slots)
    /\ outside \in BOOLEAN
    /\ touched \subseteq Clients

(* The clients whose slot is theirs for good or until a FIN. *)
Holds(c, s) == clients[c].slot = s /\ clients[c].how # "fin"

(* No two clients share a slot before a FIN has ended one of them: a stamp *)
(* speaks of one connection.                                               *)
SlotExclusive ==
    \A c, d \in Clients, s \in Slots : Holds(c, s) /\ Holds(d, s) => c = d

(* A slot is marked as in use exactly while a client holds it.  A client   *)
(* that was closed here or reset holds it for ever: only FIN gives a slot  *)
(* back.                                                                   *)
SlotAccounting ==
    \A s \in Slots : slots[s] = 0 <=> \E c \in Clients : Holds(c, s)

(* lwIP has no more connections than there are slots, so _closed_slots is  *)
(* only written outside its bounds after a slot was lost that way, or for  *)
(* an outgoing client.                                                     *)
InsideUnlessLost ==
    outside => \/ \E c \in Clients : clients[c].how \in {"closed", "reset"}
               \/ index - 1 > Len(released)

(* The order of the loop: among the free slots the one with the oldest     *)
(* stamp, the last of several.                                             *)
LoopFindsOldest == \A s \in {-1} \cup Slots : Loop = s <=> IF s = -1 THEN Free = {} ELSE Chosen(s)

(* The variables are well-formed, Chosen is what the loop finds, and the    *)
(* array is written inside its bounds unless a slot was lost.              *)
SlotsSound == TypeOK /\ LoopFindsOldest /\ InsideUnlessLost

(* When a slot was last released: 0 if never. *)
LastRelease(s) ==
    LET at == {i \in DOMAIN released : released[i] = s}
    IN IF at = {} THEN 0 ELSE CHOOSE i \in at : \A j \in at : j <= i

(* The slot given away is the one released longest ago: a released slot    *)
(* stays stamped until all slots free at that time were given away.  Only  *)
(* the first release ever does not: its stamp, 1, is the one slots are     *)
(* born with.                                                              *)
ReuseOldest ==
    [][\A s \in Slots : slots[s] # 0 /\ slots'[s] = 0 =>
         \A r \in Free : LastRelease(s) <= LastRelease(r) \/ slots[s] = 1]_vars

(* What the stamps are for: when the lwIP thread runs a call begun before  *)
(* the peer closed, the freed pcb, or the connection that has its address  *)
(* now, is not touched - as long as the slot was not given away in between *)
(* (and the client was not reset: then nothing protects the pcb).          *)
GuardCoversFin ==
    [][\A c \in touched' \ touched :
         \/ clients[c].how # "fin"
         \/ clients[c].slot = -1
         \/ \E d \in Clients : d > c /\ clients[d].slot = clients[c].slot]_vars
=============================================================================
