----------------------------- MODULE JsonObject -----------------------------
(***************************************************************************)
(* Who owns what in a tree of json_objects: the reference counts of        *)
(* json_object.c through adding, replacing, deleting, freeing and deep     *)
(* copying.  An object has a slot per key, an array one per index; how a   *)
(* slot is found and stored is in LinkHash and ArrayList.  Freeing a tree  *)
(* and copying one are modelled one json_object per step; while either is  *)
(* going on nothing else runs, the library has no locks.                   *)
(*                                                                         *)
(* The application keeps the contract of json_object.h: it puts only the   *)
(* references it owns, gives one away with every value it adds, and makes  *)
(* no loops, except that it may add an object to itself, which the code    *)
(* refuses.                                                                *)
(***************************************************************************)
EXTENDS Integers, Sequences, FiniteSets, SequencesExt

CONSTANTS
    Nodes,          \* bound: the json_objects that exist at once, copies included
    MaxTree,        \* bound: the json_objects that exist when the application makes one,
                    \* adds one to another, or marks or changes one
    MaxCopied,      \* bound: the json_objects that exist when a deep copy begins
    Keys,           \* the keys of objects
    MaxLength,      \* bound: the length of arrays
    MaxHeld,        \* bound: the references the application owns to one json_object
    MaxData,        \* bound: the json_objects with user data that a call begins with
    Null            \* a NULL json_object, which is JSON's null

\* What the constants have to be; the modules that use this one assume it.
TreeAssumption ==
    /\ IsFiniteSet(Nodes) /\ IsFiniteSet(Keys) /\ Null \notin Nodes
    /\ {MaxTree, MaxCopied, MaxLength, MaxData} \subseteq Nat /\ MaxHeld \in Nat \ {0}

VARIABLES
    kind,       \* "free", "object", "array", "leaf"
    leaf,       \* the value of a boolean, number or string
    slots,      \* the values in an object (by key) or an array (by index)
    ref,        \* _ref_count
    data,       \* _userdata: "none", "known" (json-c's serializer), "own" (the application's)
    held,       \* references the application owns
    puts,       \* json_object_put calls that a deletion or a failed copy still has to make
    copy,       \* frames of json_object_deep_copy_recursive: src, dst, the slots to do
    done        \* the last deep copy: <<source, copy>>

vars == <<kind, leaf, slots, ref, data, held, puts, copy, done>>

Live == {n \in Nodes : kind[n] # "free"}
Containers == {n \in Live : kind[n] \in {"object", "array"}}
Values == Nodes \cup {Null}
Indexes == 0 .. MaxLength - 1

Children(n) == {slots[n][s] : s \in DOMAIN slots[n]} \ {Null}

\* what can be reached from a set of json_objects: the least set around it that
\* holds the values of every container in it
Closed(C) == \A n \in C : Children(n) \subseteq C
Reachable(S) ==
    LET around == {C \in SUBSET Nodes : S \subseteq C /\ Closed(C)} IN
    {n \in Nodes : \A C \in around : n \in C}

\* the application uses json_objects it can get to
Known == Reachable({n \in Live : held[n] > 0})
Owned == {n \in Live : held[n] > 0}

MoreData == Cardinality({n \in Nodes : data[n] # "none"}) < MaxData
Quiet == puts = <<>> /\ copy = <<>>
Small == Quiet /\ Cardinality(Live) <= MaxTree

Times(s, n) == Cardinality({i \in DOMAIN s : s[i] = n})

\* the puts of the values that are removed from slots, NULLs left out
Putting(f) ==
    LET order == SetToSeq({s \in DOMAIN f : f[s] # Null}) IN [i \in DOMAIN order |-> f[order[i]]]
Given(c) == IF c = Null THEN held ELSE [held EXCEPT ![c] = @ - 1]

\* the slots of a container, in order
Order(n) == IF kind[n] = "array" THEN [i \in 1 .. Cardinality(DOMAIN slots[n]) |-> i - 1]
                                 ELSE SetToSeq(DOMAIN slots[n])

\* a container with another value in its last slot
With(f, s, v) == [x \in DOMAIN f \cup {s} |-> IF x = s THEN v ELSE f[x]]
-----------------------------------------------------------------------------
Init ==
    /\ kind = [n \in Nodes |-> "free"]
    /\ leaf = [n \in Nodes |-> 0]
    /\ slots = [n \in Nodes |-> <<>>]
    /\ ref = [n \in Nodes |-> 0]
    /\ data = [n \in Nodes |-> "none"]
    /\ held = [n \in Nodes |-> 0]
    /\ puts = <<>>
    /\ copy = <<>>
    /\ done = <<>>

\* json_object_new: one reference, which the caller owns
Create(n, k, v, ser) ==
    /\ kind[n] = "free"
    /\ kind' = [kind EXCEPT ![n] = k]
    /\ leaf' = [leaf EXCEPT ![n] = v]
    /\ slots' = [slots EXCEPT ![n] = <<>>]
    /\ ref' = [ref EXCEPT ![n] = 1]
    /\ data' = [data EXCEPT ![n] = ser]

\* json_object_new_object, _array, _boolean and the others; json_object_new_double_s
\* keeps the text of the number as user data
New(n) ==
    /\ Quiet
    /\ Cardinality(Live) < MaxTree
    /\ \/ \E k \in {"object", "array"} : Create(n, k, 0, "none")
       \/ \E v \in {0, 1} : Create(n, "leaf", v, "none")
       \/ MoreData /\ Create(n, "leaf", 0, "known")
    /\ held' = [held EXCEPT ![n] = 1]
    /\ done' = <<>>
    /\ UNCHANGED <<puts, copy>>

\* json_object_set_userdata: what was there is deleted first
SetUserdata(n) ==
    /\ Small /\ n \in Known /\ MoreData
    /\ data' = [data EXCEPT ![n] = "own"]
    /\ done' = <<>>
    /\ UNCHANGED <<kind, leaf, slots, ref, held, puts, copy>>

\* json_object_set_boolean, _set_int and the others; json_object_set_double drops
\* the text that the number was read from
SetLeaf(n) ==
    /\ Small /\ n \in Known /\ kind[n] = "leaf"
    /\ leaf' = [leaf EXCEPT ![n] = 1 - @]
    /\ data' = [data EXCEPT ![n] = IF @ = "known" THEN "none" ELSE @]
    /\ done' = <<>>
    /\ UNCHANGED <<kind, slots, ref, held, puts, copy>>

\* json_object_get, on any json_object the application can get to
Get(n) ==
    /\ Quiet /\ n \in Known
    /\ held[n] < MaxHeld
    /\ ref' = [ref EXCEPT ![n] = @ + 1]
    /\ held' = [held EXCEPT ![n] = @ + 1]
    /\ done' = <<>>
    /\ UNCHANGED <<kind, leaf, slots, data, puts, copy>>

\* the application calls json_object_put
Put(n) ==
    /\ Quiet /\ n \in Owned
    /\ puts' = <<n>>
    /\ held' = [held EXCEPT ![n] = @ - 1]
    /\ done' = <<>>
    /\ UNCHANGED <<kind, leaf, slots, ref, data, copy>>

\* the body of json_object_put: the last reference deletes the user data, the
\* values in the slots and the json_object
PutStep ==
    /\ puts # <<>>
    /\ LET n == Head(puts) IN
       IF ref[n] > 1
       THEN /\ ref' = [ref EXCEPT ![n] = @ - 1]
            /\ puts' = Tail(puts)
            /\ UNCHANGED <<kind, leaf, slots, data>>
       ELSE /\ ref' = [ref EXCEPT ![n] = 0]
            /\ data' = [data EXCEPT ![n] = "none"]
            /\ puts' = Putting(slots[n]) \o Tail(puts)
            /\ kind' = [kind EXCEPT ![n] = "free"]
            /\ leaf' = [leaf EXCEPT ![n] = 0]
            /\ slots' = [slots EXCEPT ![n] = <<>>]
    /\ UNCHANGED <<held, copy, done>>

\* the contract of adding c to p: c is owned, and p is not inside it
MayAdd(p, c) == c # Null => c \in Owned /\ p \notin Reachable(Children(c))

\* json_object_object_add: the value of an existing key is put, then replaced;
\* the value's reference passes to the object.  Nothing happens when the object
\* is added to itself, or memory runs out.
ObjectAdd(p, key, c) ==
    /\ Small /\ p \in Known /\ kind[p] = "object"
    /\ MayAdd(p, c)
    /\ p # c
    /\ slots' = [slots EXCEPT ![p] = With(@, key, c)]
    /\ puts' = IF key \in DOMAIN slots[p] THEN Putting(<<slots[p][key]>>) ELSE <<>>
    /\ held' = Given(c)
    /\ done' = <<>>
    /\ UNCHANGED <<kind, leaf, ref, data, copy>>

\* json_object_object_del
ObjectDel(p, key) ==
    /\ Quiet /\ p \in Known /\ kind[p] = "object" /\ key \in DOMAIN slots[p]
    /\ slots' = [slots EXCEPT ![p] = [k \in DOMAIN @ \ {key} |-> @[k]]]
    /\ puts' = Putting(<<slots[p][key]>>)
    /\ done' = <<>>
    /\ UNCHANGED <<kind, leaf, ref, data, held, copy>>

\* json_object_array_put_idx and, at the length, json_object_array_add
ArrayPutIdx(p, i, c) ==
    /\ Small /\ p \in Known /\ kind[p] = "array"
    /\ MayAdd(p, c) /\ p # c
    /\ i <= MaxLength - 1
    /\ slots' = [slots EXCEPT ![p] =
                   [j \in DOMAIN @ \cup 0 .. i |-> IF j = i THEN c ELSE IF j \in DOMAIN @ THEN @[j] ELSE Null]]
    /\ puts' = IF i \in DOMAIN slots[p] THEN Putting(<<slots[p][i]>>) ELSE <<>>
    /\ held' = Given(c)
    /\ done' = <<>>
    /\ UNCHANGED <<kind, leaf, ref, data, copy>>

\* json_object_array_del_idx
ArrayDelIdx(p, i, count) ==
    /\ Quiet /\ p \in Known /\ kind[p] = "array"
    /\ i + count <= Cardinality(DOMAIN slots[p])
    /\ slots' = [slots EXCEPT ![p] =
                   [j \in 0 .. Cardinality(DOMAIN @) - count - 1 |-> IF j < i THEN @[j] ELSE @[j + count]]]
    /\ puts' = Putting([j \in 1 .. count |-> slots[p][i + j - 1]])
    /\ done' = <<>>
    /\ UNCHANGED <<kind, leaf, ref, data, held, copy>>

Frame(s, d) == [src |-> s, dst |-> d, todo |-> Order(s)]
Top == copy[1]

\* Slip: the copy of a leaf does not get its value.
CopyBeginEmpty(s, d) ==
    /\ Quiet /\ s \in Known
    /\ Cardinality(Live) <= MaxCopied
    /\ Create(d, kind[s], 0, "none")
    /\ copy' = <<Frame(s, d)>>
    /\ done' = <<>>
    /\ UNCHANGED <<held, puts>>

\* json_object_deep_copy: json_c_shallow_copy_default makes the root
CopyBegin(s, d) ==
    /\ Quiet /\ s \in Known
    /\ Cardinality(Live) <= MaxCopied
    /\ Create(d, kind[s], leaf[s], "none")
    /\ copy' = <<Frame(s, d)>>
    /\ done' = <<>>
    /\ UNCHANGED <<held, puts>>

\* a NULL is added to the copy as it is
CopyNull ==
    /\ copy # <<>> /\ Top.todo # <<>>
    /\ slots[Top.src][Head(Top.todo)] = Null
    /\ slots' = [slots EXCEPT ![Top.dst] = With(@, Head(Top.todo), Null)]
    /\ copy' = [copy EXCEPT ![1].todo = Tail(@)]
    /\ UNCHANGED <<kind, leaf, ref, data, held, puts, done>>

\* another value is copied first
CopyChild(d) ==
    /\ copy # <<>> /\ Top.todo # <<>>
    /\ LET c == slots[Top.src][Head(Top.todo)] IN
       /\ c # Null
       /\ Create(d, kind[c], leaf[c], "none")
       /\ copy' = <<Frame(c, d)>> \o copy
    /\ UNCHANGED <<held, puts, done>>

\* json_object_copy_serializer_data, then the copy is added to the one above it
CopyUp ==
    /\ copy # <<>> /\ Top.todo = <<>>
    /\ data[Top.src] # "own"
    /\ data' = [data EXCEPT ![Top.dst] = data[Top.src]]
    /\ IF Len(copy) = 1
       THEN /\ held' = [held EXCEPT ![Top.dst] = 1]
            /\ done' = <<Top.src, Top.dst>>
            /\ copy' = <<>>
            /\ UNCHANGED slots
       ELSE /\ slots' = [slots EXCEPT ![copy[2].dst] = With(@, Head(copy[2].todo), Top.dst)]
            /\ copy' = [Tail(copy) EXCEPT ![1].todo = Tail(@)]
            /\ UNCHANGED <<held, done>>
    /\ UNCHANGED <<kind, leaf, ref, puts>>

\* Slip: only the level that failed puts its copy.
CopyFailTop ==
    /\ copy # <<>>
    /\ Top.todo # <<>> \/ data[Top.src] # "none" \/ Len(copy) > 1
    /\ puts' = <<Top.dst>>
    /\ copy' = <<>>
    /\ UNCHANGED <<kind, leaf, slots, ref, data, held, done>>

\* memory runs out, or user data that json-c does not know: every level puts
\* the copy it was making
CopyFail ==
    /\ copy # <<>>
    /\ Top.todo # <<>> \/ data[Top.src] # "none" \/ Len(copy) > 1
    /\ puts' = [i \in DOMAIN copy |-> copy[i].dst]
    /\ copy' = <<>>
    /\ UNCHANGED <<kind, leaf, slots, ref, data, held, done>>

Next ==
    \/ \E n \in Nodes : New(n) \/ Get(n) \/ Put(n) \/ SetUserdata(n) \/ SetLeaf(n) \/ CopyChild(n)
    \/ PutStep
    \/ \E p \in Nodes, key \in Keys : ObjectDel(p, key) \/ \E c \in Values : ObjectAdd(p, key, c)
    \/ \E p \in Nodes, i \in Indexes, c \in Values : ArrayPutIdx(p, i, c)
    \/ \E p \in Nodes, i \in Indexes, count \in 1 .. MaxLength : ArrayDelIdx(p, i, count)
    \/ \E s, d \in Nodes : CopyBegin(s, d)
    \/ CopyNull \/ CopyUp \/ CopyFail

Spec == Init /\ [][Next]_vars
-----------------------------------------------------------------------------
(***************************************************************************)
(* Properties                                                              *)
(***************************************************************************)
\* The type of the state.
TypeOK ==
    /\ kind \in [Nodes -> {"free", "object", "array", "leaf"}]
    /\ leaf \in [Nodes -> {0, 1}]
    /\ \A n \in Nodes :
         /\ DOMAIN slots[n] \in IF kind[n] = "object" THEN SUBSET Keys
                                ELSE IF kind[n] = "array" THEN {0 .. l - 1 : l \in 0 .. MaxLength} ELSE {{}}
         /\ \A s \in DOMAIN slots[n] : slots[n][s] \in Values
    /\ ref \in [Nodes -> Nat]
    /\ data \in [Nodes -> {"none", "known", "own"}]
    /\ held \in [Nodes -> 0 .. MaxHeld]
    /\ puts \in Seq(Nodes)
    /\ done \in {<<>>} \cup (Nodes \X Nodes)

\* The references to a json_object: the application's, one per slot that holds
\* it, one per put that is still to be made, and the copy in progress's.
References(n) ==
    held[n] + Times(puts, n) + Cardinality({i \in DOMAIN copy : copy[i].dst = n})
    + Cardinality({ps \in Nodes \X (Keys \cup Indexes) :
                     ps[2] \in DOMAIN slots[ps[1]] /\ slots[ps[1]][ps[2]] = n})

\* The reference count is the number of references, at every moment of every
\* deletion and copy, so nothing is freed early; and no freed json_object is
\* in a slot, in the application's hands, or about to be put.
RefsExact == \A n \in Nodes : ref[n] = References(n) /\ (ref[n] = 0) = (kind[n] = "free")

\* Nothing is forgotten: a json_object that exists can be reached from a
\* reference of the application's, or is about to be put, or is in a copy that
\* is being made; so a copy that fails half way leaves nothing behind.
NothingLost ==
    Live = Reachable(Owned \cup {puts[i] : i \in DOMAIN puts} \cup {copy[i].dst : i \in DOMAIN copy})

\* no tree is deeper
Depth == Cardinality(Nodes)

\* The value of a json_object, as a tree of depth i at most.
Shape[i \in 0 .. Depth] == [n \in Values |->
    IF n = Null \/ i = 0 THEN <<"null">>
    ELSE IF kind[n] = "leaf" THEN <<"leaf", leaf[n]>>
    ELSE <<kind[n], [s \in DOMAIN slots[n] |-> Shape[i - 1][slots[n][s]]]>>]

\* A deep copy that succeeds has the value of its source and shares nothing
\* with it, even when the source holds the same json_object twice.
CopyIsEqualAndApart ==
    done # <<>> => /\ Shape[Depth][done[1]] = Shape[Depth][done[2]]
                   /\ Reachable({done[1]}) \cap Reachable({done[2]}) = {}

\* json_object_equal
Equal[i \in 0 .. Depth] == [ab \in Values \X Values |->
    LET a == ab[1]
        b == ab[2]
    IN
    \/ a = b
    \/ /\ i # 0 /\ a # Null /\ b # Null
       /\ kind[a] = kind[b]
       /\ kind[a] = "leaf" => leaf[a] = leaf[b]
       /\ kind[a] = "object" =>
            /\ \A k \in DOMAIN slots[a] : k \in DOMAIN slots[b] /\ Equal[i - 1][<<slots[a][k], slots[b][k]>>]
            /\ \A k \in DOMAIN slots[b] : k \in DOMAIN slots[a]
       /\ kind[a] = "array" =>
            /\ Cardinality(DOMAIN slots[a]) = Cardinality(DOMAIN slots[b])
            /\ \A k \in DOMAIN slots[a] : Equal[i - 1][<<slots[a][k], slots[b][k]>>]]

\* json_object_equal says whether two trees have the same value.
EqualIsSameValue ==
    \A a, b \in Live : Equal[Depth][<<a, b>>] = (Shape[Depth][a] = Shape[Depth][b])
=============================================================================
