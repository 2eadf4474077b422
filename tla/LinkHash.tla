------------------------------ MODULE LinkHash ------------------------------
(***************************************************************************)
(* The table that holds the fields of a JSON object: linkhash.c and the    *)
(* calls json_object.c makes on it.  Open addressing with linear probing;  *)
(* a deleted place is marked FREED so that the searches that stepped over  *)
(* it still do; the entries are linked in the order they were added.  When *)
(* the table is 66 % full, an insertion first copies every entry into a    *)
(* table of twice the size, one step of this module per entry, so that     *)
(* what holds half way through the copy is checked too.                    *)
(*                                                                         *)
(* The places are 0 .. size - 1.  A foreach loop is in progress while iter *)
(* is not Idle: the application may then replace values and delete keys,   *)
(* which json_object.h allows, but adds none, which it forbids.            *)
(***************************************************************************)
EXTENDS Sequences, Integers

CONSTANTS
    Keys, Vals,
    Hash,           \* the hash of every key
    DefaultSize,    \* JSON_OBJECT_DEF_HASH_ENTRIES
    IntMax,         \* INT_MAX
    MaxFailures,    \* bound: additions that are refused
    EMPTY, FREED    \* the marks of a place without a key

\* What the constants have to be; the modules that use this one assume it.
LinkHashAssumption ==
    /\ Hash \in [Keys -> Nat]
    /\ IntMax \in Nat /\ DefaultSize \in 1 .. IntMax
    /\ MaxFailures \in Nat
    /\ {EMPTY, FREED} \cap Keys = {} /\ EMPTY # FREED

VARIABLES
    t,          \* the table: its size, its places k and v, list: places in the order of the links
    new,        \* the table that a resize fills, or NoTable
    copied,     \* entries of t that are in new
    adding,     \* the <<key, value>> that waits for the resize, or Nothing
    iter,       \* the foreach loop: next (a place or Nowhere), start (the keys when it
                \* began), spoiled (the body deleted the entry that comes next); or Idle
    seen,       \* the keys the loop gave to its body
    ret,        \* the result of the last operation
    failures,   \* additions that were refused
    strings     \* copies of keys (strdup) that are not freed

vars == <<t, new, copied, adding, iter, seen, ret, failures, strings>>

NoTable == [size |-> 0]
Nothing == <<>>
Idle == [on |-> FALSE]
Nowhere == IntMax + 1

Table(size, count, list, k, v) ==
    [size |-> size, count |-> count, list |-> list, k |-> k, v |-> v]

\* lh_table_new
NewTable(n) == Table(n, 0, <<>>, [s \in 0 .. n - 1 |-> EMPTY], [s \in 0 .. n - 1 |-> Nothing])

Places(tb) == 0 .. tb.size - 1

\* the place that the search for a key examines in its i-th step
Probe(tb, key, i) == (Hash[key] + i) % tb.size

\* Slip: the search stops at a deleted place too.
FoundAtStops(tb, key, i) ==
    /\ tb.k[Probe(tb, key, i)] = key
    /\ \A j \in 0 .. i - 1 : tb.k[Probe(tb, key, j)] \notin {EMPTY, FREED, key}

\* lh_table_lookup_entry_w_hash returns the place of step i
FoundAt(tb, key, i) ==
    /\ tb.k[Probe(tb, key, i)] = key
    /\ \A j \in 0 .. i - 1 : tb.k[Probe(tb, key, j)] \notin {EMPTY, key}

Finds(tb, key) == \E i \in Places(tb) : FoundAt(tb, key, i)

IsFree(tb, s) == tb.k[s] \in {EMPTY, FREED}

\* the loop of lh_table_insert_w_hash stops at step i
FreeAt(tb, key, i) ==
    /\ IsFree(tb, Probe(tb, key, i))
    /\ \A j \in 0 .. i - 1 : ~ IsFree(tb, Probe(tb, key, j))

\* Slip: the entry is linked at the head.
FillFirst(tb, s, key, val) ==
    Table(tb.size, tb.count + 1, <<s>> \o tb.list, [tb.k EXCEPT ![s] = key], [tb.v EXCEPT ![s] = val])

\* the rest of lh_table_insert_w_hash, with the entry linked at the tail
Fill(tb, s, key, val) ==
    Table(tb.size, tb.count + 1, Append(tb.list, s), [tb.k EXCEPT ![s] = key], [tb.v EXCEPT ![s] = val])

\* LH_LOAD_FACTOR is 0.66
Full(tb) == tb.count * 100 >= tb.size * 66
Grown(n) == IF n > IntMax \div 2 THEN IntMax ELSE 2 * n

\* the links without the p-th entry
Without(list, p) == [i \in 1 .. Len(list) - 1 |-> IF i < p THEN list[i] ELSE list[i + 1]]

\* lh_table_delete_entry, for the entry at the p-th link
Clear(tb, p) ==
    Table(tb.size, tb.count - 1, Without(tb.list, p),
          [tb.k EXCEPT ![tb.list[p]] = FREED], [tb.v EXCEPT ![tb.list[p]] = Nothing])

Ready == adding = Nothing
Refused == failures < MaxFailures /\ failures' = failures + 1 /\ ret' = -1
-----------------------------------------------------------------------------
Init ==
    /\ t = NewTable(DefaultSize)
    /\ new = NoTable
    /\ copied = 0
    /\ adding = Nothing
    /\ iter = Idle
    /\ seen = <<>>
    /\ ret = 0
    /\ failures = 0
    /\ strings = 0

\* json_object_object_add_ex finds the key: the value is replaced in its place
AddExisting(key, val) ==
    /\ Ready
    /\ \E i \in Places(t) :
         /\ FoundAt(t, key, i)
         /\ t' = Table(t.size, t.count, t.list, t.k, [t.v EXCEPT ![Probe(t, key, i)] = val])
    /\ ret' = 0
    /\ UNCHANGED <<new, copied, adding, iter, seen, failures, strings>>

\* ... does not, and there is room: strdup, then lh_table_insert_w_hash
AddNew(key, val) ==
    /\ Ready /\ iter = Idle
    /\ ~ Finds(t, key)
    /\ ~ Full(t)
    /\ \E i \in Places(t) :
         /\ FreeAt(t, key, i)
         /\ t' = Fill(t, Probe(t, key, i), key, val)
    /\ strings' = strings + 1
    /\ ret' = 0
    /\ UNCHANGED <<new, copied, adding, iter, seen, failures>>

\* ... strdup fails
AddNoString(key) ==
    /\ Ready /\ iter = Idle
    /\ ~ Finds(t, key)
    /\ Refused
    /\ UNCHANGED <<t, new, copied, adding, iter, seen, strings>>

\* ... the table is full and cannot grow, or the larger one is not allocated:
\* the copy of the key is not freed
AddRefused(key) ==
    /\ Ready /\ iter = Idle
    /\ ~ Finds(t, key)
    /\ Full(t)
    /\ Refused
    /\ strings' = strings + 1
    /\ UNCHANGED <<t, new, copied, adding, iter, seen>>

\* ... the table is full: lh_table_resize begins
AddResizes(key, val) ==
    /\ Ready /\ iter = Idle
    /\ ~ Finds(t, key)
    /\ Full(t) /\ t.size # IntMax
    /\ adding' = <<key, val>>
    /\ strings' = strings + 1
    /\ new' = NewTable(Grown(t.size))
    /\ copied' = 0
    /\ UNCHANGED <<t, iter, seen, ret, failures>>

\* one turn of lh_table_resize's loop
Copy ==
    /\ ~ Ready
    /\ copied < Len(t.list)
    /\ ~ Full(new)
    /\ LET s == t.list[copied + 1] IN
       \E i \in Places(new) :
         /\ FreeAt(new, t.k[s], i)
         /\ new' = Fill(new, Probe(new, t.k[s], i), t.k[s], t.v[s])
    /\ copied' = copied + 1
    /\ UNCHANGED <<t, adding, iter, seen, ret, failures, strings>>

\* the rest of lh_table_resize, then of the insertion that called it
Resized ==
    /\ ~ Ready
    /\ copied = Len(t.list)
    /\ \E i \in Places(new) :
         LET grown == Table(new.size, t.count, new.list, new.k, new.v) IN
         /\ FreeAt(grown, adding[1], i)
         /\ t' = Fill(grown, Probe(grown, adding[1], i), adding[1], adding[2])
    /\ new' = NoTable
    /\ copied' = 0
    /\ adding' = Nothing
    /\ ret' = 0
    /\ UNCHANGED <<iter, seen, failures, strings>>

\* json_object_object_del: lh_table_delete frees the key and unlinks the entry
Del(key) ==
    /\ Ready
    /\ \E i \in Places(t), p \in DOMAIN t.list :
         /\ FoundAt(t, key, i)
         /\ t.list[p] = Probe(t, key, i)
         /\ t' = Clear(t, p)
         /\ iter' = IF iter.on /\ iter.next = Probe(t, key, i)
                    THEN [iter EXCEPT !.spoiled = TRUE] ELSE iter
    /\ strings' = strings - 1
    /\ ret' = 0
    /\ UNCHANGED <<new, copied, adding, seen, failures>>

DelMissing(key) ==
    /\ Ready
    /\ ~ Finds(t, key)
    /\ ret' = -1
    /\ UNCHANGED <<t, new, copied, adding, iter, seen, failures, strings>>

\* the link that follows an entry: a place without a key has no link
NextOf(s) == IF \E p \in DOMAIN t.list : t.list[p] = s /\ p < Len(t.list)
             THEN LET p == CHOOSE p \in DOMAIN t.list : t.list[p] = s IN t.list[p + 1]
             ELSE Nowhere

\* json_object_object_foreach: what follows an entry is read before the body runs
ForeachBegin ==
    /\ Ready /\ iter = Idle
    /\ t.list # <<>>
    /\ iter' = [on |-> TRUE, next |-> NextOf(t.list[1]), spoiled |-> FALSE,
                start |-> [i \in DOMAIN t.list |-> t.k[t.list[i]]]]
    /\ seen' = <<t.k[t.list[1]]>>
    /\ UNCHANGED <<t, new, copied, adding, ret, failures, strings>>

ForeachNext ==
    /\ Ready /\ iter.on
    /\ iter.next # Nowhere
    /\ iter' = [iter EXCEPT !.next = NextOf(iter.next)]
    /\ seen' = Append(seen, t.k[iter.next])
    /\ UNCHANGED <<t, new, copied, adding, ret, failures, strings>>

ForeachEnd ==
    /\ Ready /\ iter.on
    /\ iter.next = Nowhere
    /\ iter' = Idle
    /\ seen' = <<>>
    /\ UNCHANGED <<t, new, copied, adding, ret, failures, strings>>

Next ==
    \/ \E key \in Keys, val \in Vals :
         AddExisting(key, val) \/ AddNew(key, val) \/ AddResizes(key, val)
    \/ \E key \in Keys : AddNoString(key) \/ AddRefused(key) \/ Del(key) \/ DelMissing(key)
    \/ Copy \/ Resized
    \/ ForeachBegin \/ ForeachNext \/ ForeachEnd

Spec == Init /\ [][Next]_vars
-----------------------------------------------------------------------------
(***************************************************************************)
(* Properties                                                              *)
(***************************************************************************)
Tables(n) == [size : {n}, count : Nat, list : Seq(0 .. n - 1),
              k : [0 .. n - 1 -> Keys \cup {EMPTY, FREED}],
              v : [0 .. n - 1 -> Vals \cup {Nothing}]]

\* The type of the state.
TypeOK ==
    /\ t.size \in 1 .. IntMax
    /\ t \in Tables(t.size)
    /\ new = NoTable \/ (new.size \in 1 .. IntMax /\ new \in Tables(new.size))
    /\ copied \in Nat
    /\ adding \in (Keys \X Vals) \cup {Nothing}
    /\ (adding = Nothing) = (new = NoTable)
    /\ ret \in {0, -1}
    /\ failures \in 0 .. MaxFailures

\* The search for a key that is in the table steps over no EMPTY place before
\* it: an insertion may reuse the place of a deleted key, and a deletion must
\* not cut the way of another key (linkhash.c, LH_FREED).
Reachable(tb) ==
    \A s \in Places(tb) : tb.k[s] \in Keys =>
        \E i \in Places(tb) :
            /\ Probe(tb, tb.k[s], i) = s
            /\ \A j \in 0 .. i - 1 : tb.k[Probe(tb, tb.k[s], j)] # EMPTY

\* Every key that is in the table is found, whatever was added, deleted and
\* moved before; so it is in the table that a resize fills.
LookupComplete == Reachable(t) /\ (new # NoTable => Reachable(new))

\* The links go through every place that holds a key once, count counts them,
\* and no key is there twice: lookup, iteration and length agree.
Linked(tb) ==
    /\ tb.count = Len(tb.list)
    /\ {tb.list[i] : i \in DOMAIN tb.list} = {s \in Places(tb) : tb.k[s] \in Keys}
    /\ \A i, j \in DOMAIN tb.list : tb.k[tb.list[i]] = tb.k[tb.list[j]] => i = j
ListIsTable == Linked(t) /\ (new # NoTable => Linked(new))

\* The loop of an insertion ends: there is a free place, and the table that a
\* resize fills never has to grow itself, which would leave it with a size
\* that lh_table_resize does not know.
RoomToInsert ==
    /\ ~ Full(t) => \E s \in Places(t) : IsFree(t, s)
    /\ adding # Nothing =>
         /\ copied < Len(t.list) => ~ Full(new)
         /\ copied = Len(t.list) => \E s \in Places(new) : IsFree(new, s)

\* The only copies of keys that are never freed are those of refused additions
\* (json_object_object_add_ex returns the result of the insertion, with k).
KeysFreedUnlessRefused ==
    strings - t.count - (IF Ready THEN 0 ELSE 1) \in 0 .. failures

\* A foreach loop whose body deletes keys, its own included, but not the next,
\* gives every key that is still there, in order and once.  json_object.h:473
\* promises more: "Deleting an existing key, or replacing an existing key with
\* a new value IS allowed"; when the next one is deleted the loop goes on in a
\* place that is FREED and without links, and gives the mark as a key.
VisitedAll ==
    /\ \E at \in [DOMAIN seen -> DOMAIN iter.start] :
         /\ \A i \in DOMAIN seen : iter.start[at[i]] = seen[i]
         /\ \A i, j \in DOMAIN seen : i < j => at[i] < at[j]
    /\ \A s \in Places(t) : t.k[s] \in Keys => \E i \in DOMAIN seen : seen[i] = t.k[s]
ForeachVisitsAllUnlessSpoiled ==
    [][iter.on /\ ~ iter'.on /\ ~ iter.spoiled => VisitedAll]_vars

\* What holds between the steps of every operation, half way through a resize
\* included.
TableSound == TypeOK /\ LookupComplete /\ ListIsTable /\ RoomToInsert /\ KeysFreedUnlessRefused

\* The table with its links is an ordered map.
Map == INSTANCE OrderedMap WITH
         fields <- [i \in DOMAIN t.list |-> <<t.k[t.list[i]], t.v[t.list[i]]>>]
ImplementsMap == Map!Spec
=============================================================================
