------------------------------ MODULE ArrayList -----------------------------
(***************************************************************************)
(* The array under a JSON array: arraylist.c, as json_object.c uses it.    *)
(* Memory is modelled place by place: what malloc and realloc give is      *)
(* Junk, and what a deletion leaves beyond the length stays there, so that *)
(* a place that is exposed without being written is seen.  A value belongs *)
(* to the application, is in the list, or is freed; the arithmetic of      *)
(* size_t wraps.                                                           *)
(***************************************************************************)
EXTENDS Sequences, Integers, FiniteSets

CONSTANTS
    Elems, Null,
    Junk,           \* the content of memory that was never written
    InitialSize,    \* the size that json_object_new_array_ext asks for
    SizeMax,        \* SIZE_T_MAX
    PtrSize         \* sizeof(void *)

\* What the constants have to be; the module that uses this one assumes it.
ArrayListAssumption ==
    /\ PtrSize \in Nat \ {0} /\ SizeMax \in Nat
    /\ InitialSize \in 0 .. SizeMax \div PtrSize - 1
    /\ {Null, Junk} \cap Elems = {} /\ Null # Junk

VARIABLES
    array,      \* the allocated places: a function on 0 .. size - 1
    length,
    owner,      \* who has each value: "app", "list" or "freed"
    twice,      \* a value was freed that was not in the list
    ret         \* the result of the last call

vars == <<array, length, owner, twice, ret>>

Wrap(x) == x % (SizeMax + 1)
size == Cardinality(DOMAIN array)

\* realloc keeps what fits
Resize(mem, n) == [i \in 0 .. n - 1 |-> IF i \in DOMAIN mem THEN mem[i] ELSE Junk]

\* array_list_expand_internal: the size it asks for
NewSize(max) ==
    IF size >= SizeMax \div 2 THEN max
    ELSE IF Wrap(2 * size) < max THEN max ELSE Wrap(2 * size)

\* ... and the memory it leaves: the allocation may fail
Expand(max, mem) ==
    \/ max < size /\ mem = array
    \/ ~ max < size /\ NewSize(max) <= SizeMax \div PtrSize /\ mem = Resize(array, NewSize(max))

ExpandFails(max) == ~ max < size

Fail == ret' = -1 /\ UNCHANGED <<array, length, owner, twice>>

\* arr->free_fn on the values of some places
Owners(freed) == [e \in Elems |-> IF \E i \in freed : array[i] = e THEN "freed" ELSE owner[e]]
Twice(freed) == twice \/ \E i \in freed : array[i] # Null /\ (array[i] = Junk \/ owner[array[i]] # "list")
-----------------------------------------------------------------------------
\* array_list_new2
Init ==
    /\ array = [i \in 0 .. InitialSize - 1 |-> Junk]
    /\ length = 0
    /\ owner = [e \in Elems |-> "app"]
    /\ twice = FALSE
    /\ ret = 0

\* Slip: the place at the old length is taken for a value's.
GapAfter(idx) == length + 1 .. idx - 1

\* the places that array_list_put_idx sets to NULL
Gap(idx) == length .. idx - 1

\* array_list_put_idx
PutIdx(idx, e) ==
    /\ owner[e] = "app"
    /\ idx <= SizeMax - 1
    /\ \E mem \in {array, Resize(array, NewSize(Wrap(idx + 1)))} :
         /\ Expand(Wrap(idx + 1), mem)
         /\ idx \in DOMAIN mem
         /\ array' = [i \in DOMAIN mem |-> IF i = idx THEN e
                                           ELSE IF i \in Gap(idx) THEN Null ELSE mem[i]]
    /\ LET freed == IF idx < length /\ array[idx] # Null THEN {idx} ELSE {} IN
       /\ owner' = [Owners(freed) EXCEPT ![e] = "list"]
       /\ twice' = Twice(freed)
    /\ length' = IF length <= idx THEN idx + 1 ELSE length
    /\ ret' = 0

PutIdxFails(idx, e) ==
    /\ owner[e] = "app"
    /\ idx > SizeMax - 1 \/ ExpandFails(Wrap(idx + 1))
    /\ Fail

\* array_list_add
Add(e) ==
    /\ owner[e] = "app"
    /\ length <= SizeMax - 1
    /\ \E mem \in {array, Resize(array, NewSize(Wrap(length + 1)))} :
         /\ Expand(Wrap(length + 1), mem)
         /\ array' = [mem EXCEPT ![length] = e]
    /\ owner' = [owner EXCEPT ![e] = "list"]
    /\ length' = length + 1
    /\ ret' = 0
    /\ UNCHANGED twice

\* array_list_del_idx: the places behind the last value keep their old content
DelIdx(idx, count) ==
    LET stop == Wrap(idx + count) IN
    /\ idx <= SizeMax - count
    /\ idx < length /\ stop <= length
    /\ owner' = Owners(idx .. stop - 1)
    /\ twice' = Twice(idx .. stop - 1)
    /\ array' = [i \in DOMAIN array |-> IF i \in idx .. idx + (length - stop) - 1
                                        THEN array[i + count] ELSE array[i]]
    /\ length' = length - count
    /\ ret' = 0

DelIdxFails(idx, count) ==
    /\ idx > SizeMax - count \/ idx >= length \/ Wrap(idx + count) > length
    /\ Fail

\* array_list_shrink
Shrink(slots) ==
    LET want == length + slots IN
    /\ slots < SizeMax \div PtrSize - length
    /\ \/ want = size /\ UNCHANGED array
       \/ want > size /\ \E mem \in {array, Resize(array, NewSize(want))} :
                             Expand(want, mem) /\ array' = mem
       \/ want < size /\ array' = Resize(array, IF want = 0 THEN 1 ELSE want)
    /\ ret' = 0
    /\ UNCHANGED <<length, owner, twice>>

\* the memory of a refused or failed request is not touched
ShrinkFails(slots) ==
    /\ slots # size - length \/ slots >= SizeMax \div PtrSize - length
    /\ Fail

\* the application makes a value again from one that was freed
Reuse(e) ==
    /\ owner[e] = "freed"
    /\ owner' = [owner EXCEPT ![e] = "app"]
    /\ UNCHANGED <<array, length, twice, ret>>

Next ==
    \/ \E e \in Elems : Add(e) \/ Reuse(e) \/ \E idx \in 0 .. SizeMax : PutIdx(idx, e) \/ PutIdxFails(idx, e)
    \/ \E idx, count \in 0 .. SizeMax : DelIdx(idx, count) \/ DelIdxFails(idx, count)
    \/ \E slots \in 0 .. SizeMax : Shrink(slots) \/ ShrinkFails(slots)

Spec == Init /\ [][Next]_vars
-----------------------------------------------------------------------------
(***************************************************************************)
(* Properties                                                              *)
(***************************************************************************)
\* The type of the state.
TypeOK ==
    /\ array \in [0 .. size - 1 -> Elems \cup {Null, Junk}]
    /\ size <= SizeMax \div PtrSize
    /\ length \in 0 .. size
    /\ owner \in [Elems -> {"app", "list", "freed"}]
    /\ twice \in BOOLEAN
    /\ ret \in {0, -1}

\* What the list shows was put there: no place below the length is memory that
\* was never written, or the leftover of a deletion.  A value of the list is at
\* one place, and it is not freed while it is there.
OwnedOnce ==
    /\ \A i \in 0 .. length - 1 : array[i] # Null => array[i] \in Elems /\ owner[array[i]] = "list"
    /\ \A e \in Elems : owner[e] = "list" =>
         Cardinality({i \in 0 .. length - 1 : array[i] = e}) = 1
    /\ ~ twice

\* The places of the list are the sequence that a JSON array promises, gaps and
\* deletions included, whichever calls fail between.
List == INSTANCE ValueList WITH
          items <- [i \in 1 .. length |-> array[i - 1]], MaxLength <- SizeMax \div PtrSize
ImplementsList == List!Spec
=============================================================================
