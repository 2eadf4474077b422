-------------------------- MODULE ClosedSlots_proofs --------------------------
(***************************************************************************)
(* Proofs about ClosedSlots, for any number of slots, pcbs, tasks and      *)
(* clients.  A slot and the clients that hold it change together in Accept *)
(* and in Fin only; every other step is quiet: it keeps slots, stamps and  *)
(* the relation Holds.                                                     *)
(***************************************************************************)
EXTENDS ClosedSlots, FiniteSetTheorems, SequenceTheorems, WellFoundedInduction, TLAPS

(* The type invariant, with an index that is never 0.                      *)
Record == [pcb : {0} \cup Pcbs, slot : {-1} \cup Slots, addr : Pcbs,
           hooked : BOOLEAN, how : {"open", "fin", "closed", "reset"}]

SlotsOK ==
    /\ slots \in [Slots -> 0..index]
    /\ index \in Nat \ {0}
    /\ clients \in Seq(Record)
    /\ released \in Seq(Slots)
    /\ outside \in BOOLEAN

(* A waiting call is one of an accepted client. *)
CallOK ==
    /\ call \in [Tasks -> [client : {0} \cup Clients, pcb : {0} \cup Pcbs,
                           op : {"none", "use", "close"}]]
    /\ \A t \in Tasks : call[t] # NoCall => call[t].client \in Clients
    /\ touched \subseteq Clients

(* Open connections have different pcbs. *)
Distinct ==
    \A c, d \in Clients : Open(c) /\ Open(d) /\ clients[c].addr = clients[d].addr => c = d

(* The holder of a slot is the last client that got it. *)
Later == \A c, d \in Clients, s \in Slots : Holds(d, s) /\ clients[c].slot = s => c <= d

(* Every release took a stamp. *)
Counted == index - 1 >= Len(released)

(* i is when s was last released, 0 if never. *)
IsLast(s, i) ==
    /\ i \in 0..Len(released) /\ (i # 0 => released[i] = s)
    /\ \A j \in 1..Len(released) : released[j] = s => j <= i

(* The stamps are in the order of the releases, but for the first stamp of *)
(* all, which is the one slots are born with.                              *)
Stamped ==
    /\ \A s \in Slots : \E i \in 0..Len(released) : IsLast(s, i)
    /\ \A s \in Free : slots[s] < index \/ slots[s] = 1
    /\ \A r, s \in Free : \A i, j \in 0..Len(released) :
         IsLast(r, i) /\ IsLast(s, j) /\ i < j => slots[r] < slots[s] \/ slots[s] = 1

IInv ==
    /\ SlotsOK /\ CallOK
    /\ SlotExclusive /\ SlotAccounting
    /\ Distinct /\ Later /\ Counted /\ Stamped
    /\ InsideUnlessLost

-----------------------------------------------------------------------------
(* The search: Loop is what the code's loop leaves in _closed_slot. *)

(* A set of natural numbers that is not empty has a least one.             *)
LEMMA Least ==
    ASSUME NEW T \in SUBSET Nat, T # {}
    PROVE  \E k \in T : \A j \in T : k <= j
<1> DEFINE R == {ss \in Nat \X Nat : ss[1] < ss[2]}
<1>1. IsWellFoundedOn(R, Nat)
  BY NatLessThanWellFounded DEF OpToRel
<1>2. PICK k \in T : \A j \in T : <<j, k>> \notin R
  <2> HIDE DEF R
  <2> QED
    BY <1>1, WFMin
<1>3. \A i, j \in Nat : i < j => <<i, j>> \in R
  OBVIOUS
<1> HIDE DEF R
<1>4. \A j \in T : ~(j < k)
  BY <1>2, <1>3
<1>5. k \in T /\ T \subseteq Nat
  BY <1>2
<1> QED
  BY <1>4, <1>5

(* g is what the recursive definition asks for, up to n. *)
SearchedTo(n, g) ==
    g = [i \in 0..n |-> IF i = 0 THEN [slot |-> -1, min |-> 0] ELSE LoopStep(g[i - 1], i - 1)]

(* The recursive definition defines a function: no bound is the first one  *)
(* up to which there is none.                                              *)
LEMMA SearchedIs ==
    Searched = [i \in 0..NumSlots |->
                  IF i = 0 THEN [slot |-> -1, min |-> 0] ELSE LoopStep(Searched[i - 1], i - 1)]
<1> DEFINE None == {n \in Nat : \A g : ~SearchedTo(n, g)}
<1>1. None = {}
  <2> SUFFICES ASSUME None # {} PROVE FALSE
    OBVIOUS
  <2>1. PICK k \in None : \A j \in None : k <= j
    BY Least
  <2>2. CASE k = 0
    <3>1. SearchedTo(0, [i \in 0..0 |-> [slot |-> -1, min |-> 0]])
      BY DEF SearchedTo
    <3> QED
      BY <2>1, <2>2, <3>1
  <2>3. CASE k # 0
    <3>1. k - 1 \in Nat /\ k - 1 \notin None
      BY <2>1, <2>3
    <3>2. PICK g : SearchedTo(k - 1, g)
      BY <3>1
    <3> DEFINE h == [i \in 0..k |-> IF i = k THEN LoopStep(g[k - 1], k - 1) ELSE g[i]]
    <3>3. \A i \in 0..k :
            h[i] = IF i = 0 THEN [slot |-> -1, min |-> 0] ELSE LoopStep(h[i - 1], i - 1)
      BY <2>1, <2>3, <3>1, <3>2 DEF SearchedTo
    <3>4. SearchedTo(k, h)
      BY <3>3 DEF SearchedTo
    <3> QED
      BY <2>1, <3>4
  <2> QED
    BY <2>2, <2>3
<1>2. PICK g : SearchedTo(NumSlots, g)
  BY <1>1, SlotsAssumption
<1> QED
  BY <1>2 DEF SearchedTo, Searched

(* The free slots among the first n. *)
FreeBelow(n) == {r \in Free : r < n}
(* What the loop has found among the first n slots. *)
Best(n, acc) ==
    \/ FreeBelow(n) = {} /\ acc = [slot |-> -1, min |-> 0]
    \/ /\ acc.slot \in FreeBelow(n) /\ acc.min = slots[acc.slot]
       /\ \A r \in FreeBelow(n) : acc.min < slots[r] \/ (acc.min = slots[r] /\ r <= acc.slot)

LEMMA SearchedBest ==
    ASSUME slots \in [Slots -> Nat], NEW n \in 0..NumSlots
    PROVE  Best(n, Searched[n])
<1> DEFINE Bad == {i \in 0..NumSlots : ~Best(i, Searched[i])}
<1> SUFFICES ASSUME Bad # {} PROVE FALSE
  OBVIOUS
<1>1. PICK k \in Bad : \A j \in Bad : k <= j
  <2>1. Bad \in SUBSET Nat
    BY SlotsAssumption
  <2> HIDE DEF Bad
  <2> QED
    BY <2>1, Least
<1>2. k \in 0..NumSlots /\ ~Best(k, Searched[k])
  BY <1>1
<1>3. CASE k = 0
  <2>1. Searched[0] = [slot |-> -1, min |-> 0] /\ FreeBelow(0) = {}
    BY SearchedIs, SlotsAssumption DEF FreeBelow, Free, Slots
  <2> QED
    BY <1>2, <1>3, <2>1 DEF Best
<1>4. CASE k # 0
  <2> DEFINE acc == Searched[k - 1]
  <2>1. k - 1 \in Slots /\ Best(k - 1, acc)
    BY <1>1, <1>2, <1>4, SlotsAssumption DEF Slots
  <2>2. Searched[k] = LoopStep(acc, k - 1)
    BY <1>2, <1>4, SearchedIs, SlotsAssumption
  <2> HIDE DEF acc
  <2>3. FreeBelow(k) = FreeBelow(k - 1) \cup (IF slots[k - 1] # 0 THEN {k - 1} ELSE {})
    BY <1>2, <2>1 DEF FreeBelow, Free, Slots
  <2>4. \A r \in FreeBelow(k - 1) : r \in Nat /\ r < k - 1 /\ slots[r] \in Nat
    BY DEF FreeBelow, Free, Slots
  <2>5. CASE (acc.slot = -1 \/ slots[k - 1] <= acc.min) /\ slots[k - 1] # 0
    <3>1. Searched[k] = [slot |-> k - 1, min |-> slots[k - 1]]
      BY <2>2, <2>5 DEF LoopStep
    <3>2. Best(k, Searched[k])
      BY <2>1, <2>3, <2>4, <2>5, <3>1 DEF Best
    <3> QED
      BY <1>2, <3>2
  <2>6. CASE ~((acc.slot = -1 \/ slots[k - 1] <= acc.min) /\ slots[k - 1] # 0)
    <3>1. Searched[k] = acc
      BY <2>2, <2>6 DEF LoopStep
    <3>2. Best(k, acc)
      BY <1>2, <2>1, <2>3, <2>4, <2>6 DEF Best
    <3> QED
      BY <1>2, <3>1, <3>2
  <2> QED
    BY <2>5, <2>6
<1> QED
  BY <1>3, <1>4

LEMMA LoopFinds == slots \in [Slots -> Nat] => LoopFindsOldest
<1> SUFFICES ASSUME slots \in [Slots -> Nat] PROVE LoopFindsOldest
  OBVIOUS
<1>1. Best(NumSlots, Searched[NumSlots]) /\ FreeBelow(NumSlots) = Free
  BY SearchedBest, SlotsAssumption DEF FreeBelow, Free, Slots
<1> DEFINE acc == Searched[NumSlots]
<1>2. CASE Free = {} /\ acc = [slot |-> -1, min |-> 0]
  BY <1>2, SlotsAssumption DEF LoopFindsOldest, Loop, Chosen, Slots
<1>3. CASE /\ acc.slot \in Free /\ acc.min = slots[acc.slot]
           /\ \A r \in Free : acc.min < slots[r] \/ (acc.min = slots[r] /\ r <= acc.slot)
  <2>1. Chosen(acc.slot) /\ Free # {} /\ acc.slot # -1
    BY <1>3 DEF Chosen, Free, Slots
  <2>2. \A s \in Slots : Chosen(s) => s = acc.slot
    BY <1>3, <2>1 DEF Chosen, Free, Slots
  <2> QED
    BY <2>1, <2>2, SlotsAssumption DEF LoopFindsOldest, Loop, Slots
<1> QED
  BY <1>1, <1>2, <1>3 DEF Best
-----------------------------------------------------------------------------
(* The steps *)

(* What the steps other than Accept and Fin do to the clients: none comes, *)
(* and one that is closed or reset was open.                               *)
Quiet ==
    /\ clients' \in Seq(Record) /\ Len(clients') = Len(clients)
    /\ \A c \in Clients :
         /\ clients'[c].slot = clients[c].slot /\ clients'[c].addr = clients[c].addr
         /\ \/ clients'[c].how = clients[c].how
            \/ clients[c].how = "open" /\ clients'[c].how \in {"closed", "reset"}

(* Growing the clients by one. *)
LEMMA AppendClient ==
    ASSUME NEW cs \in Seq(Record), NEW r \in Record
    PROVE  /\ Append(cs, r) \in Seq(Record)
           /\ Len(Append(cs, r)) = Len(cs) + 1
           /\ \A c \in 1..Len(cs) : Append(cs, r)[c] = cs[c]
           /\ Append(cs, r)[Len(cs) + 1] = r
  BY AppendProperties

(* A client changed in place stays a client. *)
LEMMA Changed ==
    ASSUME SlotsOK, NEW c \in Clients, NEW r \in Record, clients' = [clients EXCEPT ![c] = r]
    PROVE  /\ clients' \in Seq(Record) /\ Len(clients') = Len(clients)
           /\ clients'[c] = r
           /\ \A d \in Clients : d # c => clients'[d] = clients[d]
  BY ExceptSeq DEF SlotsOK, Clients

LEMMA ClientsTyped ==
    ASSUME SlotsOK
    PROVE  Len(clients) \in Nat /\ \A c \in Clients : clients[c] \in Record
  BY LenProperties DEF SlotsOK, Clients

(* Without a free slot and without a client closed or reset, every slot is *)
(* held by an open client: as many connections as lwIP has pcbs.           *)
LEMMA NoPcbLeft ==
    ASSUME IInv, NEW p \in Pcbs, Owner(p) = {}, Free = {},
           \A c \in Clients : clients[c].how \notin {"closed", "reset"}
    PROVE  FALSE
<1>1. \A c \in Clients : clients[c] \in Record
  BY ClientsTyped DEF IInv
<1>2. \A s \in Slots : \E c \in Clients : Holds(c, s)
  BY DEF IInv, SlotAccounting, Free
<1> DEFINE holder == [s \in Slots |-> CHOOSE c \in Clients : Holds(c, s)]
           f == [s \in Slots |-> clients[holder[s]].addr]
<1>3. \A s \in Slots : holder[s] \in Clients /\ Holds(holder[s], s)
  BY <1>2
<1> HIDE DEF holder
<1>4. \A s \in Slots : Open(holder[s]) /\ clients[holder[s]].slot = s
  BY <1>1, <1>3 DEF Open, Holds, Record
<1>5. f \in [Slots -> Pcbs \ {p}]
  BY <1>1, <1>3, <1>4 DEF Owner, Record
<1>6. \A r, s \in Slots : f[r] = f[s] => r = s
  <2> SUFFICES ASSUME NEW r \in Slots, NEW s \in Slots, f[r] = f[s] PROVE r = s
    OBVIOUS
  <2>1. holder[r] = holder[s]
    BY <1>3, <1>4 DEF IInv, Distinct
  <2> QED
    BY <1>4, <2>1
<1> HIDE DEF f
<1>7. IsFiniteSet(Pcbs \ {p}) /\ Cardinality(Pcbs \ {p}) = Cardinality(Pcbs) - 1
  BY FS_RemoveElement, SlotsAssumption
<1>8. IsFiniteSet(Slots) /\ Cardinality(Slots) = NumSlots
  <2>1. 0 \in Int /\ NumSlots - 1 \in Int /\ ~(0 > NumSlots - 1)
    BY SlotsAssumption
  <2>2. IsFiniteSet(Slots) /\ Cardinality(Slots) = NumSlots - 1 - 0 + 1
    BY <2>1, FS_Interval DEF Slots
  <2> QED
    BY <2>2, SlotsAssumption
<1>9. Cardinality(Pcbs) \in Nat
  BY FS_CardinalityType, SlotsAssumption
<1>10. Cardinality(Pcbs \ {p}) < Cardinality(Slots)
  BY <1>7, <1>8, <1>9, SlotsAssumption
<1> QED
  BY <1>5, <1>6, <1>7, <1>8, <1>10, FS_PigeonHole

(* A FIN that writes _closed_slots[-1] counts one stamp more.              *)
LEMMA StampOutside ==
    ASSUME SlotsOK, Counted, Stamped, index' = index + 1, slots' = slots, released' = released
    PROVE  Counted' /\ Stamped' /\ InsideUnlessLost'
<1>1. index \in Nat /\ Len(released) \in Nat
  BY LenProperties DEF SlotsOK
<1>2. \A s \in Free : slots[s] \in Nat
  BY DEF SlotsOK, Free
<1>3. \A r \in Slots, i \in 0..Len(released) : IsLast(r, i)' <=> IsLast(r, i)
  BY DEF IsLast
<1>4. Counted' /\ InsideUnlessLost'
  BY <1>1 DEF Counted, InsideUnlessLost
<1>5. Free' = Free /\ Free \subseteq Slots
  BY DEF Free
<1>6. Stamped'
  BY <1>1, <1>2, <1>3, <1>5 DEF Stamped
<1> QED
  BY <1>4, <1>6

(* A FIN that stamps a slot makes it the last of all.                      *)
LEMMA StampInside ==
    ASSUME SlotsOK, Counted, Stamped, NEW s \in Slots, index' = index + 1,
           slots' = [slots EXCEPT ![s] = index], released' = Append(released, s)
    PROVE  Counted' /\ Stamped'
<1>1. index \in Nat \ {0} /\ Len(released) \in Nat
  BY LenProperties DEF SlotsOK
<1>0. PICK n : n = Len(released) + 1
  OBVIOUS
<1>2. /\ Len(released') = n /\ n \in Nat /\ released'[n] = s
      /\ \A i \in 1..Len(released) : released'[i] = released[i]
  BY <1>0, <1>1, AppendProperties DEF SlotsOK
<1>3. /\ Free' = Free \cup {s} /\ Free \subseteq Slots
      /\ slots'[s] = index
      /\ \A r \in Slots : r # s => slots'[r] = slots[r]
      /\ \A r \in Slots : slots[r] \in 0..index
  BY <1>1 DEF SlotsOK, Free
<1>4. \A i \in 0..n : IsLast(s, i)' <=> i = n
  BY <1>0, <1>1, <1>2 DEF IsLast
<1>5. \A r \in Slots, i \in 0..n : r # s => (IsLast(r, i)' <=> i # n /\ IsLast(r, i))
  BY <1>0, <1>1, <1>2 DEF IsLast
<1>6. Counted'
  BY <1>0, <1>1, <1>2 DEF Counted
<1>7. \A r \in Slots : \E i \in 0..Len(released') : IsLast(r, i)'
  <2> SUFFICES ASSUME NEW r \in Slots PROVE \E i \in 0..n : IsLast(r, i)'
    BY <1>2
  <2>1. CASE r = s
    BY <1>2, <1>4, <2>1
  <2>2. CASE r # s
    <3>1. PICK i \in 0..Len(released) : IsLast(r, i)
      BY DEF Stamped
    <3>2. i \in 0..n /\ i # n
      BY <1>0, <1>1
    <3> QED
      BY <1>5, <2>2, <3>1, <3>2
  <2> QED
    BY <2>1, <2>2
<1>8. \A r \in Free' : slots'[r] < index' \/ slots'[r] = 1
  BY <1>1, <1>3
<1>9. ASSUME NEW q \in Free', NEW r \in Free', NEW i \in 0..n, NEW j \in 0..n,
             IsLast(q, i)', IsLast(r, j)', i < j
      PROVE  slots'[q] < slots'[r] \/ slots'[r] = 1
  <2>1. q # s
    BY <1>2, <1>4, <1>9
  <2>2. CASE r = s
    <3>1. q \in Free /\ slots'[q] = slots[q] /\ slots[q] \in Nat
      BY <1>3, <2>1
    <3> QED
      BY <1>1, <1>3, <2>2, <3>1 DEF Stamped
  <2>3. CASE r # s
    <3>1. i \in 0..Len(released) /\ j \in 0..Len(released) /\ IsLast(q, i) /\ IsLast(r, j)
      BY <1>0, <1>1, <1>3, <1>5, <1>9, <2>1, <2>3
    <3>2. q \in Free /\ r \in Free /\ slots'[q] = slots[q] /\ slots'[r] = slots[r]
      BY <1>3, <2>1, <2>3
    <3> QED
      BY <1>9, <3>1, <3>2 DEF Stamped
  <2> QED
    BY <2>2, <2>3
<1>10. Stamped'
  BY <1>2, <1>7, <1>8, <1>9 DEF Stamped
<1> QED
  BY <1>6, <1>10

LEMMA AcceptStep ==
    ASSUME IInv, NEW p \in Pcbs, Accept(p)
    PROVE  IInv'
<1>1. Len(clients) \in Nat /\ \A c \in Clients : clients[c] \in Record
  BY ClientsTyped DEF IInv
<1>0. PICK n : n = Len(clients) + 1
  OBVIOUS
<1>2. PICK s \in {-1} \cup Slots :
        /\ clients' = Append(clients, Client(p, s))
        /\ \/ /\ s \in Slots /\ Chosen(s)
              /\ slots' = [slots EXCEPT ![s] = 0] /\ outside' = outside
           \/ /\ s = -1 /\ Free = {}
              /\ slots' = slots /\ outside' = TRUE
  BY DEF Accept
<1>3. /\ index' = index /\ call' = call /\ released' = released /\ touched' = touched
      /\ Owner(p) = {}
  BY DEF Accept
<1>4. /\ Client(p, s) \in Record /\ Client(p, s).slot = s /\ Client(p, s).addr = p
      /\ Client(p, s).how = "open"
  BY DEF Client, Record
<1>5. /\ clients' \in Seq(Record)
      /\ Clients' = Clients \cup {n}
      /\ \A c \in Clients : clients'[c] = clients[c]
      /\ clients'[n] = Client(p, s)
  BY <1>0, <1>1, <1>2, <1>4, AppendClient DEF Clients, IInv, SlotsOK
<1>6. n \notin Clients /\ \A c \in Clients : c \in Nat /\ c < n
  BY <1>0, <1>1 DEF Clients
<1>7. \A c \in Clients, r \in Slots : Holds(c, r)' <=> Holds(c, r)
  BY <1>5 DEF Holds
<1>8. \A r \in Slots : Holds(n, r)' <=> r = s
  BY <1>4, <1>5 DEF Holds
<1>9. s \in Slots => slots[s] # 0 /\ \A c \in Clients : ~Holds(c, s)
  <2>1. SUFFICES ASSUME s \in Slots PROVE slots[s] # 0 /\ \A c \in Clients : ~Holds(c, s)
    OBVIOUS
  <2>2. slots[s] # 0
    BY <1>2, <2>1, SlotsAssumption DEF Chosen, Free, Slots
  <2> QED
    BY <2>1, <2>2 DEF IInv, SlotAccounting
<1>10. /\ slots' \in [Slots -> 0..index]
       /\ \A r \in Slots : slots'[r] = IF r = s THEN 0 ELSE slots[r]
  <2>1. -1 \notin Slots
    BY SlotsAssumption DEF Slots
  <2>2. slots \in [Slots -> 0..index] /\ 0 \in 0..index
    BY DEF IInv, SlotsOK
  <2> QED
    BY <1>2, <2>1, <2>2
<1>11. SlotsOK'
  BY <1>2, <1>3, <1>5, <1>10 DEF IInv, SlotsOK
<1>12. CallOK'
  <2>1. Clients \subseteq Clients'
    BY <1>5
  <2> QED
    BY <1>3, <2>1 DEF IInv, CallOK, NoCall
<1>13. SlotExclusive'
  BY <1>5, <1>7, <1>8, <1>9 DEF IInv, SlotExclusive
<1>14. SlotAccounting'
  BY <1>5, <1>7, <1>8, <1>9, <1>10 DEF IInv, SlotAccounting
<1>15. Distinct'
  <2>1. \A c \in Clients : Open(c)' => Open(c) /\ clients'[c].addr # p
    BY <1>3, <1>5 DEF Open, Owner
  <2>2. clients'[n].addr = p
    BY <1>4, <1>5
  <2> QED
    BY <1>5, <2>1, <2>2 DEF IInv, Distinct
<1>16. Later'
  <2>1. \A c \in Clients, r \in Slots : clients'[c].slot = clients[c].slot
    BY <1>5
  <2>2. n \in Nat /\ n <= n
    BY <1>0, <1>1
  <2> QED
    BY <1>4, <1>5, <1>6, <1>7, <1>8, <1>9, <2>1, <2>2 DEF IInv, Later
<1>17. Counted' /\ Stamped'
  <2>1. Free' \subseteq Free /\ \A r \in Free' : slots'[r] = slots[r]
    BY <1>10 DEF Free
  <2>2. \A r \in Slots, i \in 0..Len(released) : IsLast(r, i)' <=> IsLast(r, i)
    BY <1>3 DEF IsLast
  <2> QED
    BY <1>3, <2>1, <2>2 DEF IInv, Counted, Stamped, Free
<1>18. InsideUnlessLost'
  <2>1. CASE outside' = outside
    BY <1>3, <1>5, <2>1 DEF IInv, InsideUnlessLost
  <2>2. CASE Free = {}
    <3>1. \E c \in Clients : clients[c].how \in {"closed", "reset"}
      BY <1>3, <2>2, NoPcbLeft
    <3> QED
      BY <1>5, <3>1 DEF InsideUnlessLost
  <2> QED
    BY <1>2, <2>1, <2>2
<1> QED
  BY <1>11, <1>12, <1>13, <1>14, <1>15, <1>16, <1>17, <1>18 DEF IInv

(* A FIN: the slot, if the client has one, is stamped, and its one holder  *)
(* lets go of it.                                                          *)
LEMMA FinStep ==
    ASSUME IInv, NEW c \in Clients, Fin(c)
    PROVE  IInv'
<1>0. PICK s : s = clients[c].slot
  OBVIOUS
<1>1. Len(clients) \in Nat /\ \A d \in Clients : clients[d] \in Record
  BY ClientsTyped DEF IInv
<1>2. /\ clients' = [clients EXCEPT ![c] = [[clients[c] EXCEPT !.how = "fin"] EXCEPT !.pcb = 0]]
      /\ Stamp(s) /\ index' = index + 1
      /\ clients[c].how = "open"
      /\ call' = call /\ touched' = touched
  BY <1>0 DEF Fin, End, Open, Clients, Stamp
<1>3. /\ clients' \in Seq(Record)
      /\ Clients' = Clients
      /\ \A d \in Clients : d # c => clients'[d] = clients[d]
      /\ clients'[c].how = "fin" /\ clients'[c].slot = s /\ clients'[c].addr = clients[c].addr
  <2> DEFINE r == [[clients[c] EXCEPT !.how = "fin"] EXCEPT !.pcb = 0]
  <2>1. r \in Record /\ r.how = "fin" /\ r.slot = s /\ r.addr = clients[c].addr
    BY <1>0, <1>1 DEF Record
  <2> HIDE DEF r
  <2>2. clients' = [clients EXCEPT ![c] = r]
    BY <1>2 DEF r
  <2>3. /\ clients' \in Seq(Record) /\ Len(clients') = Len(clients)
        /\ clients'[c] = r
        /\ \A d \in Clients : d # c => clients'[d] = clients[d]
    BY <2>1, <2>2, Changed DEF IInv
  <2> QED
    BY <2>1, <2>3 DEF Clients
<1>4. \A d \in Clients, r \in Slots : Holds(d, r)' <=> Holds(d, r) /\ d # c
  BY <1>3 DEF Holds
<1>5. SlotExclusive'
  BY <1>3, <1>4 DEF IInv, SlotExclusive
<1>6. Later'
  BY <1>0, <1>3, <1>4 DEF IInv, Later
<1>7. Distinct'
  <2>1. \A d \in Clients : Open(d)' => Open(d)
    BY <1>2, <1>3 DEF Open
  <2>2. \A d \in Clients : clients'[d].addr = clients[d].addr
    BY <1>3
  <2> QED
    BY <1>3, <2>1, <2>2 DEF IInv, Distinct
<1>8. CallOK'
  BY <1>2, <1>3 DEF IInv, CallOK, NoCall
<1>9. \A d \in Clients :
        clients[d].how \in {"closed", "reset"} => clients'[d].how \in {"closed", "reset"}
  BY <1>2, <1>3
<1>10. CASE s = -1
  <2>1. slots' = slots /\ released' = released /\ outside' = TRUE
    BY <1>2, <1>10 DEF Stamp
  <2>2. \A r \in Slots : ~Holds(c, r)
    BY <1>0, <1>10, SlotsAssumption DEF Holds, Slots
  <2>3. SlotsOK'
    BY <1>2, <1>3, <2>1 DEF IInv, SlotsOK
  <2>4. SlotAccounting'
    BY <1>3, <1>4, <2>1, <2>2 DEF IInv, SlotAccounting
  <2>5. Counted' /\ Stamped' /\ InsideUnlessLost'
    BY <1>2, <2>1, StampOutside DEF IInv
  <2> QED
    BY <1>5, <1>6, <1>7, <1>8, <2>3, <2>4, <2>5 DEF IInv
<1>11. CASE s # -1
  <2>1. /\ s \in Slots /\ slots' = [slots EXCEPT ![s] = index]
        /\ released' = Append(released, s) /\ outside' = outside
    BY <1>0, <1>1, <1>2, <1>11 DEF Stamp, Record
  <2>2. Holds(c, s) /\ \A r \in Slots : Holds(c, r) => r = s
    BY <1>0, <1>2 DEF Holds
  <2>3. \A d \in Clients : Holds(d, s) => d = c
    BY <2>1, <2>2 DEF IInv, SlotExclusive
  <2>4. slots'[s] = index /\ index # 0 /\ \A r \in Slots : r # s => slots'[r] = slots[r]
    BY <2>1 DEF IInv, SlotsOK
  <2>5. SlotsOK'
    BY <1>2, <1>3, <2>1, AppendProperties DEF IInv, SlotsOK
  <2>6. SlotAccounting'
    BY <1>3, <1>4, <2>1, <2>2, <2>3, <2>4 DEF IInv, SlotAccounting
  <2>7. Counted' /\ Stamped'
    BY <1>2, <2>1, StampInside DEF IInv
  <2>8. InsideUnlessLost'
    <3>1. index' - 1 > Len(released') <=> index - 1 > Len(released)
      BY <1>2, <2>1, AppendProperties DEF IInv, SlotsOK
    <3> QED
      BY <1>3, <1>9, <2>1, <3>1 DEF IInv, InsideUnlessLost
  <2> QED
    BY <1>5, <1>6, <1>7, <1>8, <2>5, <2>6, <2>7, <2>8 DEF IInv
<1> QED
  BY <1>10, <1>11

(* A quiet step keeps everything but, perhaps, the calls and who was       *)
(* touched.                                                                *)
LEMMA QuietStep ==
    ASSUME IInv, Quiet, CallOK',
           slots' = slots, index' = index, released' = released, outside' = outside
    PROVE  IInv'
<1>1. /\ Clients' = Clients
      /\ \A c \in Clients, s \in Slots : Holds(c, s)' <=> Holds(c, s)
      /\ \A c \in Clients : Open(c)' => Open(c)
  BY DEF Quiet, Clients, Holds, Open
<1>2. SlotsOK'
  BY DEF IInv, SlotsOK, Quiet
<1>3. SlotExclusive' /\ SlotAccounting'
  BY <1>1 DEF IInv, SlotExclusive, SlotAccounting
<1>4. Distinct'
  BY <1>1 DEF IInv, Distinct, Quiet
<1>5. Later'
  BY <1>1 DEF IInv, Later, Quiet
<1>6. Counted'
  BY DEF IInv, Counted
<1>7. Stamped'
  BY DEF IInv, Stamped, Free, IsLast
<1>8. InsideUnlessLost'
  BY <1>1 DEF IInv, InsideUnlessLost, Quiet
<1> QED
  BY <1>2, <1>3, <1>4, <1>5, <1>6, <1>7, <1>8 DEF IInv

LEMMA IInvInit == Init => IInv
<1> SUFFICES ASSUME Init PROVE IInv
  OBVIOUS
<1>1. SlotsOK /\ Len(released) = 0 /\ index = 1
  <2>1. index = 1 /\ index \in Nat \ {0}
    BY DEF Init
  <2>2. slots \in [Slots -> 0..index]
    BY <2>1 DEF Init
  <2>3. clients \in Seq(Record) /\ released \in Seq(Slots) /\ Len(released) = 0
    BY EmptySeq DEF Init
  <2>4. outside \in BOOLEAN
    BY Zenon DEF Init
  <2>5. SlotsOK
    BY <2>1, <2>2, <2>3, <2>4, Zenon DEF SlotsOK
  <2> QED
    BY <2>1, <2>3, <2>5
<1>2. Clients = {} /\ \A s \in Slots : slots[s] = 1
  BY EmptySeq DEF Init, Clients
<1>3. CallOK
  BY <1>2 DEF Init, CallOK, NoCall
<1>4. Stamped
  BY <1>1, <1>2 DEF Stamped, IsLast, Free
<1> QED
  BY <1>1, <1>2, <1>3, <1>4
  DEF Init, IInv, SlotExclusive, SlotAccounting, Distinct, Later, Counted, InsideUnlessLost

LEMMA IInvStep == IInv /\ [Next]_vars => IInv'
<1> SUFFICES ASSUME IInv, [Next]_vars PROVE IInv'
  OBVIOUS
<1>0. Len(clients) \in Nat /\ \A d \in Clients : clients[d] \in Record
  BY ClientsTyped DEF IInv
<1>1. ASSUME NEW p \in Pcbs, Accept(p) PROVE IInv'
  BY <1>1, AcceptStep
<1>2. ASSUME NEW c \in Clients, Fin(c) PROVE IInv'
  BY <1>2, FinStep
<1>3. ASSUME FinOutgoing PROVE IInv'
  <2>1. /\ slots' = slots /\ index' = index + 1 /\ clients' = clients /\ released' = released
        /\ outside' = TRUE /\ call' = call /\ touched' = touched
    BY <1>3 DEF FinOutgoing, Stamp
  <2>2. Clients' = Clients
    BY <2>1 DEF Clients
  <2>3. SlotsOK' /\ CallOK'
    BY <2>1, <2>2 DEF IInv, SlotsOK, CallOK
  <2>4. SlotExclusive' /\ SlotAccounting' /\ Distinct' /\ Later'
    BY <2>1, <2>2 DEF IInv, SlotExclusive, SlotAccounting, Distinct, Later, Holds, Open
  <2>5. Counted' /\ Stamped' /\ InsideUnlessLost'
    BY <2>1, StampOutside DEF IInv
  <2> QED
    BY <2>3, <2>4, <2>5 DEF IInv
<1>4. ASSUME NEW c \in Clients, Reset(c) \/ Error(c) PROVE IInv'
  <2> DEFINE r == IF Reset(c) THEN [clients[c] EXCEPT !.how = "reset"]
                  ELSE [clients[c] EXCEPT !.pcb = 0, !.hooked = FALSE]
  <2>1. /\ slots' = slots /\ index' = index /\ released' = released /\ outside' = outside
        /\ call' = call /\ touched' = touched
        /\ clients' = [clients EXCEPT ![c] = r]
    BY <1>4 DEF Reset, Error, End
  <2>2. /\ r \in Record /\ r.slot = clients[c].slot /\ r.addr = clients[c].addr
        /\ (r.how = clients[c].how \/ (clients[c].how = "open" /\ r.how \in {"closed", "reset"}))
    BY <1>0, <1>4 DEF Record, Reset, Error, Open
  <2> HIDE DEF r
  <2>3. Quiet
    BY <2>1, <2>2, Changed DEF IInv, Quiet
  <2>4. CallOK'
    BY <2>1, <2>3 DEF IInv, CallOK, Quiet, Clients
  <2> QED
    BY <2>1, <2>3, <2>4, QuietStep
<1>5. ASSUME NEW t \in Tasks, NEW c \in Clients, Use(t, c) \/ Close(t, c) PROVE IInv'
  <2>1. /\ slots' = slots /\ index' = index /\ released' = released /\ outside' = outside
        /\ touched' = touched
    BY <1>5 DEF Use, Close
  <2>2. Quiet
    <3>1. CASE Use(t, c)
      BY <3>1 DEF Use, Quiet, IInv, SlotsOK
    <3>2. CASE Close(t, c)
      <4> DEFINE r == [clients[c] EXCEPT !.hooked = FALSE]
      <4>1. clients' = [clients EXCEPT ![c] = r]
        BY <3>2 DEF Close
      <4>2. /\ r \in Record /\ r.slot = clients[c].slot /\ r.addr = clients[c].addr
            /\ r.how = clients[c].how
        BY <1>0 DEF Record
      <4> HIDE DEF r
      <4> QED
        BY <4>1, <4>2, Changed DEF IInv, Quiet
    <3> QED
      BY <1>5, <3>1, <3>2
  <2>3. PICK o \in {"use", "close"} :
          call' = [call EXCEPT ![t] = [client |-> c, pcb |-> clients[c].pcb, op |-> o]]
    BY <1>5 DEF Use, Close
  <2>4. Clients' = Clients /\ clients[c].pcb \in {0} \cup Pcbs
    BY <1>0, <2>2 DEF Quiet, Clients, Record
  <2>5. CallOK'
    BY <2>1, <2>3, <2>4 DEF IInv, CallOK, NoCall
  <2> QED
    BY <2>1, <2>2, <2>5, QuietStep
<1>6. ASSUME NEW t \in Tasks, Run(t) PROVE IInv'
  <2> DEFINE m == call[t]
             c == m.client
             run == Guard(clients[c].slot)
             After(d) == [clients[d] EXCEPT
                            !.how = IF run /\ d \in Owner(m.pcb) THEN "closed" ELSE @,
                            !.pcb = IF d = c THEN 0 ELSE @]
  <2>1. /\ slots' = slots /\ index' = index /\ released' = released /\ outside' = outside
        /\ call' = [call EXCEPT ![t] = NoCall] /\ touched' \subseteq touched \cup {c}
        /\ m # NoCall
    BY <1>6 DEF Run
  <2>2. Quiet
    <3>1. CASE m.op = "use"
      <4>1. clients' = clients
        BY <1>6, <3>1 DEF Run
      <4> QED
        BY <4>1 DEF Quiet, IInv, SlotsOK
    <3>2. CASE m.op # "use"
      <4>1. clients' = [d \in Clients |-> After(d)]
        BY <1>6, <3>2 DEF Run
      <4>2. ASSUME NEW d \in Clients
            PROVE  /\ After(d) \in Record
                   /\ After(d).slot = clients[d].slot /\ After(d).addr = clients[d].addr
                   /\ \/ After(d).how = clients[d].how
                      \/ clients[d].how = "open" /\ After(d).how = "closed"
        BY <1>0 DEF Record, Owner, Open
      <4> HIDE DEF After
      <4>3. clients' \in Seq(Record) /\ Len(clients') = Len(clients)
        BY <1>0, <4>1, <4>2, IsASeq, LenProperties DEF Clients
      <4>4. \A d \in Clients : clients'[d] = After(d)
        BY <4>1
      <4> QED
        BY <4>2, <4>3, <4>4 DEF Quiet
    <3> QED
      BY <3>1, <3>2
  <2>3. Clients' = Clients /\ c \in Clients
    BY <2>1, <2>2 DEF Quiet, Clients, IInv, CallOK
  <2>4. CallOK'
    <3> HIDE DEF c
    <3> QED
      BY <2>1, <2>3 DEF IInv, CallOK, NoCall
  <2> QED
    BY <2>1, <2>2, <2>4, QuietStep
<1>7. ASSUME UNCHANGED vars PROVE IInv'
  BY <1>7
  DEF vars, IInv, SlotsOK, CallOK, SlotExclusive, SlotAccounting, Distinct, Later, Counted,
      Stamped, InsideUnlessLost, Clients, Holds, Open, Free, IsLast
<1> QED
  BY <1>1, <1>2, <1>3, <1>4, <1>5, <1>6, <1>7 DEF Next

(* The slots, the stamps, the clients and the calls are well-formed and    *)
(* agree.                                                                  *)
THEOREM Invariant == Spec => []IInv
<1>1. Init => IInv
  BY IInvInit
<1>2. IInv /\ [Next]_vars => IInv'
  BY IInvStep
<1> QED
  BY <1>1, <1>2, PTL DEF Spec

(* However connections come and go, no two clients share a slot before a   *)
(* FIN has ended one of them.                                              *)
THEOREM SlotsExclusive == Spec => []SlotExclusive
<1>1. IInv => SlotExclusive
  BY DEF IInv
<1> QED
  BY <1>1, Invariant, PTL

(* A slot reads 0 exactly while some client holds it: only a FIN gives it  *)
(* back, a close or a reset never does.                                    *)
THEOREM SlotsAccounted == Spec => []SlotAccounting
<1>1. IInv => SlotAccounting
  BY DEF IInv
<1> QED
  BY <1>1, Invariant, PTL

(* The variables keep their types, the loop of the constructor leaves the  *)
(* free slot with the oldest stamp, or -1 if there is none, and then some  *)
(* slot was lost before or an outgoing client ended: nothing else makes    *)
(* _closed_slots be written outside its bounds.                            *)
THEOREM ArrayKept == Spec => []SlotsSound
<1>1. IInv => SlotsSound
  <2> SUFFICES ASSUME IInv PROVE SlotsSound
    OBVIOUS
  <2>1. slots \in [Slots -> Nat]
    BY DEF IInv, SlotsOK
  <2>2. LoopFindsOldest
    BY <2>1, LoopFinds
  <2>3. TypeOK
    BY DEF IInv, SlotsOK, CallOK, TypeOK, Record
  <2> QED
    BY <2>2, <2>3 DEF IInv, SlotsSound
<1> QED
  BY <1>1, Invariant, PTL

(* The release an invariant speaks of is the one the property names. *)
LEMMA LastIs ==
    ASSUME SlotsOK, NEW s \in Slots, NEW i \in 0..Len(released), IsLast(s, i)
    PROVE  LastRelease(s) = i
<1> DEFINE at == {j \in DOMAIN released : released[j] = s}
<1>1. DOMAIN released = 1..Len(released) /\ Len(released) \in Nat
  BY LenProperties DEF SlotsOK
<1>2. CASE i = 0
  <2>1. at = {}
    BY <1>1, <1>2 DEF IsLast
  <2> QED
    BY <1>2, <2>1 DEF LastRelease
<1>3. CASE i # 0
  <2>1. i \in at /\ \A j \in at : j \in Nat /\ j <= i
    BY <1>1, <1>3 DEF IsLast
  <2> HIDE DEF at
  <2>2. \A k \in at : (\A j \in at : j <= k) => k = i
    BY <2>1
  <2>3. (CHOOSE k \in at : \A j \in at : j <= k) = i
    BY <2>1, <2>2
  <2> QED
    BY <2>1, <2>3 DEF LastRelease, at
<1> QED
  BY <1>2, <1>3

(* Slots are given away in the order they were released: a slot stays      *)
(* stamped until all that were free before it were given away, so that a   *)
(* call begun long ago still finds its stamp.                              *)
THEOREM OldestReused == Spec => ReuseOldest
<1> DEFINE A == \A s \in Slots : slots[s] # 0 /\ slots'[s] = 0 =>
                  \A r \in Free : LastRelease(s) <= LastRelease(r) \/ slots[s] = 1
<1>1. IInv /\ [Next]_vars => [A]_vars
  <2> SUFFICES ASSUME IInv, [Next]_vars, NEW s \in Slots, slots[s] # 0, slots'[s] = 0,
                      NEW r \in Free
               PROVE  LastRelease(s) <= LastRelease(r) \/ slots[s] = 1
    OBVIOUS
  <2>1. \E p \in Pcbs : Accept(p)
    <3>1. slots' # slots
      OBVIOUS
    <3>2. ASSUME NEW c \in Clients, Fin(c) PROVE FALSE
      <4>1. slots' = [slots EXCEPT ![clients[c].slot] = index]
        BY <3>1, <3>2 DEF Fin, Stamp
      <4> QED
        BY <4>1 DEF IInv, SlotsOK
    <3> QED
      BY <3>1, <3>2 DEF Next, vars, FinOutgoing, Stamp, Reset, Error, Use, Close, Run
  <2>2. Chosen(s)
    <3>1. PICK r0 \in Slots : Chosen(r0) /\ slots' = [slots EXCEPT ![r0] = 0]
      BY <2>1 DEF Accept
    <3>2. slots'[s] = IF s = r0 THEN 0 ELSE slots[s]
      BY <3>1 DEF IInv, SlotsOK
    <3> QED
      BY <3>1, <3>2
  <2>3. s \in Free /\ r \in Slots /\ slots[s] \in Nat /\ slots[r] \in Nat
    BY <2>2 DEF Chosen, Free, IInv, SlotsOK
  <2>4. PICK i \in 0..Len(released) : IsLast(s, i)
    BY DEF IInv, Stamped
  <2>5. PICK j \in 0..Len(released) : IsLast(r, j)
    BY <2>3 DEF IInv, Stamped
  <2>6. LastRelease(s) = i /\ LastRelease(r) = j
    BY <2>3, <2>4, <2>5, LastIs DEF IInv
  <2>7. j < i => slots[r] < slots[s] \/ slots[s] = 1
    BY <2>3, <2>4, <2>5 DEF IInv, Stamped
  <2> QED
    BY <2>2, <2>3, <2>6, <2>7 DEF Chosen
<1> QED
  BY <1>1, Invariant, PTL DEF Spec, ReuseOldest

(* A call that was begun before the peer closed touches no pcb when the    *)
(* lwIP thread comes to run it, unless another client got the slot in the  *)
(* meantime.                                                               *)
THEOREM StaleCallsRefused == Spec => GuardCoversFin
<1> DEFINE A == \A c \in touched' \ touched :
                  \/ clients[c].how # "fin"
                  \/ clients[c].slot = -1
                  \/ \E d \in Clients : d > c /\ clients[d].slot = clients[c].slot
<1>1. IInv /\ [Next]_vars => [A]_vars
  <2> SUFFICES ASSUME IInv, [Next]_vars, NEW c \in touched' \ touched,
                      clients[c].how = "fin", clients[c].slot # -1
               PROVE  \E d \in Clients : d > c /\ clients[d].slot = clients[c].slot
    OBVIOUS
  <2>1. PICK t \in Tasks : Run(t)
    BY DEF Next, vars, Accept, Fin, FinOutgoing, Reset, Error, Use, Close
  <2>2. c = call[t].client /\ Guard(clients[c].slot) /\ call[t] # NoCall
    BY <2>1 DEF Run
  <2>3. c \in Clients
    BY <2>2 DEF IInv, CallOK
  <2>4. PICK s \in Slots : s = clients[c].slot
    BY <2>3, ClientsTyped DEF IInv, Record
  <2>5. PICK d \in Clients : Holds(d, s)
    BY <2>2, <2>4 DEF Guard, IInv, SlotAccounting
  <2>6. c <= d /\ d # c /\ c \in Nat /\ d \in Nat
    BY <2>3, <2>4, <2>5, ClientsTyped DEF IInv, Later, Holds, Clients
  <2> QED
    BY <2>4, <2>5, <2>6 DEF Holds
<1> QED
  BY <1>1, Invariant, PTL DEF Spec, GuardCoversFin
=============================================================================
