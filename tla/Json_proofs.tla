----------------------------- MODULE Json_proofs -----------------------------
(***************************************************************************)
(* libjson, for every value of the constants.  The parts share no state,   *)
(* so each is proved alone and SpecOfParts says that it does in libjson    *)
(* what it does alone.  The values of json_object.c, the part with the     *)
(* longest proof, are in JsonObject_proofs.                                *)
(***************************************************************************)
EXTENDS Json, FiniteSetTheorems, SequenceTheorems, WellFoundedInduction, TLAPS

-----------------------------------------------------------------------------
(* The hash table (LinkHash). *)

(* Every place that holds a key is the one where a search for it stops:    *)
(* this is inductive, Reachable alone does not say that the key is missing *)
(* when a search fails.                                                    *)
KeysFound(tb) ==
    \A s \in Places(tb) : tb.k[s] \in Keys =>
        \E i \in Places(tb) :
            /\ Probe(tb, tb.k[s], i) = s
            /\ \A j \in 0 .. i - 1 : tb.k[Probe(tb, tb.k[s], j)] \notin {EMPTY, tb.k[s]}

Typed(tb) == tb.size \in 1 .. IntMax /\ tb \in Tables(tb.size)

Sound(tb) == Typed(tb) /\ KeysFound(tb) /\ Linked(tb)

Lacks(tb, key) == \A s \in Places(tb) : tb.k[s] # key

-----------------------------------------------------------------------------
(* Searches. *)

LEMMA ProbeIsPlace ==
    ASSUME LinkHashAssumption, NEW tb, tb.size \in 1 .. IntMax, NEW key \in Keys, NEW i \in Nat
    PROVE  Probe(tb, key, i) \in Places(tb)
<1>1. Hash[key] \in Nat /\ tb.size \in Nat /\ tb.size > 0
  BY SMT DEF LinkHashAssumption
<1>2. ASSUME NEW x \in Nat, NEW n \in Nat, n > 0 PROVE x % n \in 0 .. n - 1
  BY <1>2, SMT
<1> QED BY <1>1, <1>2, SMT DEF Probe, Places

LEMMA NotFoundLacks ==
    ASSUME NEW tb, Sound(tb), NEW key \in Keys, ~ Finds(tb, key)
    PROVE  Lacks(tb, key)
BY Zenon DEF Sound, KeysFound, Finds, FoundAt, Lacks

LEMMA SoundReachable == ASSUME NEW tb, Sound(tb) PROVE Reachable(tb)
BY Zenon DEF Sound, KeysFound, Reachable

(* Where the links of a sound table lead. *)
LEMMA LinksToKeys ==
    ASSUME NEW tb, Sound(tb)
    PROVE  /\ \A p \in DOMAIN tb.list : tb.list[p] \in Places(tb) /\ tb.k[tb.list[p]] \in Keys
           /\ \A s \in Places(tb) : tb.k[s] \in Keys => \E p \in DOMAIN tb.list : tb.list[p] = s
BY Zenon DEF Sound, Linked

LEMMA TypedParts ==
    ASSUME NEW tb, Typed(tb)
    PROVE  /\ tb.size \in 1 .. IntMax /\ tb.count \in Nat
           /\ tb.list \in Seq(Places(tb)) /\ DOMAIN tb.list = 1 .. Len(tb.list) /\ Len(tb.list) \in Nat
           /\ tb.k \in [Places(tb) -> Keys \cup {EMPTY, FREED}]
           /\ tb.v \in [Places(tb) -> Vals \cup {Nothing}]
<1>1. tb \in [size : {tb.size}, count : Nat, list : Seq(Places(tb)),
              k : [Places(tb) -> Keys \cup {EMPTY, FREED}],
              v : [Places(tb) -> Vals \cup {Nothing}]] /\ tb.size \in 1 .. IntMax
  BY Zenon DEF Typed, Tables, Places
<1>2. tb.count \in Nat /\ tb.list \in Seq(Places(tb))
      /\ tb.k \in [Places(tb) -> Keys \cup {EMPTY, FREED}]
      /\ tb.v \in [Places(tb) -> Vals \cup {Nothing}]
  BY <1>1, SMT
<1>3. DOMAIN tb.list = 1 .. Len(tb.list) /\ Len(tb.list) \in Nat
  BY <1>2, SMT
<1> QED BY <1>1, <1>2, <1>3

LEMMA TableTyped ==
    ASSUME NEW u, u = Table(u.size, u.count, u.list, u.k, u.v),
           u.size \in 1 .. IntMax, u.count \in Nat, u.list \in Seq(Places(u)),
           u.k \in [Places(u) -> Keys \cup {EMPTY, FREED}],
           u.v \in [Places(u) -> Vals \cup {Nothing}]
    PROVE  Typed(u)
<1>1. Places(u) = 0 .. u.size - 1
  BY DEF Places
<1> DEFINE T(n) == [size : {n}, count : Nat, list : Seq(Places(u)),
                    k : [Places(u) -> Keys \cup {EMPTY, FREED}],
                    v : [Places(u) -> Vals \cup {Nothing}]]
<1>2. Table(u.size, u.count, u.list, u.k, u.v) \in T(u.size)
  BY SMT DEF Table
<1>3. u \in Tables(u.size)
  BY <1>1, <1>2, Zenon DEF Tables
<1> QED BY <1>3, Zenon DEF Typed

(* A key or a mark: what tells the places apart. *)
LEMMA MarksAreNoKeys == LinkHashAssumption => EMPTY \notin Keys /\ FREED \notin Keys
BY Zenon DEF LinkHashAssumption

-----------------------------------------------------------------------------
(* A new table holds nothing. *)
LEMMA NewSound ==
    ASSUME LinkHashAssumption, NEW n \in 1 .. IntMax
    PROVE  /\ Sound(NewTable(n)) /\ NewTable(n).size = n /\ NewTable(n).count = 0
           /\ NewTable(n).list = <<>>
<1> DEFINE u == NewTable(n)
<1>1. [s \in 0 .. n - 1 |-> EMPTY] \in [0 .. n - 1 -> Keys \cup {EMPTY, FREED}]
  BY Zenon
<1>2. [s \in 0 .. n - 1 |-> Nothing] \in [0 .. n - 1 -> Vals \cup {Nothing}]
  BY Zenon
<1>3. <<>> \in Seq(0 .. n - 1) /\ 0 \in Nat
  BY SMT
<1> DEFINE k == [s \in 0 .. n - 1 |-> EMPTY]
           v == [s \in 0 .. n - 1 |-> Nothing]
<1>0. u = Table(n, 0, <<>>, k, v)
  BY DEF NewTable
<1> HIDE DEF k, v, u
<1>4. /\ Typed(u) /\ Places(u) = 0 .. n - 1 /\ u.size = n /\ u.count = 0 /\ u.list = <<>>
      /\ u.k = k
  <2>1. u.size = n /\ u.count = 0 /\ u.list = <<>> /\ u.k = k /\ u.v = v
    BY <1>0, SMT DEF Table
  <2>2. Places(u) = 0 .. n - 1
    BY <2>1, Zenon DEF Places
  <2> QED BY <1>0, <1>1, <1>2, <1>3, <2>1, <2>2, TableTyped, Zenon DEF k, v
<1>5. \A s \in Places(u) : u.k[s] \notin Keys
  BY <1>4, MarksAreNoKeys, Zenon DEF k
<1>6. KeysFound(u)
  BY <1>5, Zenon DEF KeysFound
<1>7. Len(<<>>) = 0 /\ DOMAIN <<>> = {}
  BY SMT
<1>8. Linked(u)
  BY <1>4, <1>5, <1>7, Zenon DEF Linked
<1> QED BY <1>4, <1>6, <1>8, Zenon DEF Sound, u

(* Replacing values disturbs nothing. *)
LEMMA SameKeysSound ==
    ASSUME NEW tb, Sound(tb), NEW v \in [Places(tb) -> Vals \cup {Nothing}]
    PROVE  LET u == Table(tb.size, tb.count, tb.list, tb.k, v)
           IN  Sound(u) /\ u.size = tb.size /\ u.count = tb.count /\ u.list = tb.list /\ u.k = tb.k
<1> DEFINE u == Table(tb.size, tb.count, tb.list, tb.k, v)
<1>1. Typed(tb) /\ u = Table(tb.size, tb.count, tb.list, tb.k, v) /\ Places(tb) = 0 .. tb.size - 1
  BY DEF Sound, Places
<1> HIDE DEF u
<1>2. /\ Typed(u) /\ Places(u) = Places(tb)
      /\ u.size = tb.size /\ u.count = tb.count /\ u.list = tb.list /\ u.k = tb.k
  <2>1. /\ u.size = tb.size /\ u.count = tb.count /\ u.list = tb.list
        /\ u.k = tb.k /\ u.v = v
    BY <1>1, SMT DEF Table
  <2>2. Places(u) = Places(tb)
    BY <2>1, Zenon DEF Places
  <2> QED BY <1>1, <2>1, <2>2, TypedParts, TableTyped, Zenon
<1>3. \A key, i : Probe(u, key, i) = Probe(tb, key, i)
  BY <1>2, Zenon DEF Probe
<1>4. KeysFound(u)
  BY <1>2, <1>3, SMT DEF KeysFound, Sound
<1>5. Linked(u)
  BY <1>2, SMT DEF Linked, Sound
<1> QED BY <1>2, <1>4, <1>5, Zenon DEF Sound, u

-----------------------------------------------------------------------------
(* An insertion in a free place that the search comes to, of a key that    *)
(* the table lacks.                                                        *)
LEMMA FillFields ==
    ASSUME LinkHashAssumption, NEW tb, Typed(tb), NEW s \in Places(tb), NEW key \in Keys, NEW val \in Vals \cup {Nothing}
    PROVE  LET u == Fill(tb, s, key, val)
           IN  /\ Typed(u) /\ Places(u) = Places(tb)
               /\ u.size = tb.size /\ u.count = tb.count + 1
               /\ u.list = Append(tb.list, s) /\ u.k = [tb.k EXCEPT ![s] = key]
<1> DEFINE u == Fill(tb, s, key, val)
           k == [tb.k EXCEPT ![s] = key]
           v == [tb.v EXCEPT ![s] = val]
<1>1. u = Table(tb.size, tb.count + 1, Append(tb.list, s), k, v)
  BY DEF Fill
<1>2. k \in [Places(tb) -> Keys \cup {EMPTY, FREED}] /\ v \in [Places(tb) -> Vals \cup {Nothing}]
  BY TypedParts, SMT
<1>3. tb.count + 1 \in Nat /\ Append(tb.list, s) \in Seq(Places(tb))
  BY TypedParts, SMT
<1> HIDE DEF u, k, v
<1>4. /\ u.size = tb.size /\ u.count = tb.count + 1 /\ u.list = Append(tb.list, s)
      /\ u.k = k /\ u.v = v
  BY <1>1, SMT DEF Table
<1>5. Places(u) = Places(tb)
  BY <1>4, Zenon DEF Places
<1>6. u.size \in 1 .. IntMax
  BY <1>4, TypedParts, Zenon
<1>7. Typed(u)
  BY <1>1, <1>2, <1>3, <1>4, <1>5, <1>6, TableTyped, Zenon
<1> QED BY <1>4, <1>5, <1>7, Zenon DEF u, k

LEMMA FillKeysFound ==
    ASSUME LinkHashAssumption, NEW tb, Sound(tb), NEW key \in Keys, NEW val \in Vals \cup {Nothing}, Lacks(tb, key),
           NEW i \in Places(tb), FreeAt(tb, key, i)
    PROVE  KeysFound(Fill(tb, Probe(tb, key, i), key, val))
<1> DEFINE s == Probe(tb, key, i)
           u == Fill(tb, s, key, val)
<1>1. tb.size \in 1 .. IntMax /\ tb.k \in [Places(tb) -> Keys \cup {EMPTY, FREED}] /\ Typed(tb)
  BY TypedParts, Zenon DEF Sound
<1>2. s \in Places(tb) /\ i \in Nat
  BY <1>1, ProbeIsPlace, SMT DEF Places
<1>3. tb.k[s] \in {EMPTY, FREED} /\ EMPTY \notin Keys /\ FREED \notin Keys
  BY MarksAreNoKeys, Zenon DEF FreeAt, IsFree
<1> HIDE DEF s
<1>4. Places(u) = Places(tb) /\ u.size = tb.size /\ u.k = [tb.k EXCEPT ![s] = key]
  BY <1>1, <1>2, FillFields, SMT
<1>5. ASSUME NEW q \in Places(tb) PROVE u.k[q] = IF q = s THEN key ELSE tb.k[q]
  BY <1>1, <1>4, <1>5, Zenon
<1> HIDE DEF u
<1>6. \A x, j : Probe(u, x, j) = Probe(tb, x, j)
  BY <1>4, Zenon DEF Probe
<1>7. ASSUME NEW x \in Keys, NEW j \in Nat PROVE Probe(tb, x, j) \in Places(tb)
  BY <1>1, <1>7, ProbeIsPlace, Zenon
<1>8. \A j \in 0 .. i - 1 : Probe(tb, key, j) \in Places(tb) /\ tb.k[Probe(tb, key, j)] \in Keys
  <2>1. ASSUME NEW j \in 0 .. i - 1 PROVE Probe(tb, key, j) \in Places(tb)
    BY <1>2, <1>7, <2>1, SMT
  <2>2. \A j \in 0 .. i - 1 : tb.k[Probe(tb, key, j)] \notin {EMPTY, FREED}
    BY Zenon DEF FreeAt, IsFree
  <2> QED BY <1>1, <2>1, <2>2, Zenon
<1>9. ASSUME NEW p \in Places(tb), u.k[p] \in Keys
      PROVE  \E m \in Places(tb) :
               /\ Probe(tb, u.k[p], m) = p
               /\ \A j \in 0 .. m - 1 : u.k[Probe(tb, u.k[p], j)] \notin {EMPTY, u.k[p]}
  <2>1. CASE p = s
    <3>1. u.k[p] = key /\ Probe(tb, key, i) = p
      BY <1>5, <2>1, Zenon DEF s
    <3>2. ASSUME NEW j \in 0 .. i - 1 PROVE u.k[Probe(tb, key, j)] \notin {EMPTY, key}
      <4>1. Probe(tb, key, j) \in Places(tb) /\ tb.k[Probe(tb, key, j)] \in Keys
        BY <1>8, <3>2, Zenon
      <4>2. u.k[Probe(tb, key, j)] = tb.k[Probe(tb, key, j)]
        BY <1>5, <1>3, <4>1, Zenon
      <4> QED BY <1>3, <4>1, <4>2, Zenon DEF Lacks
    <3> QED BY <3>1, <3>2, Zenon
  <2>2. CASE p # s
    <3>1. u.k[p] = tb.k[p] /\ tb.k[p] # key /\ tb.k[p] \in Keys
      BY <1>5, <1>9, <2>2, Zenon DEF Lacks
    <3>2. PICK m \in Places(tb) :
            /\ Probe(tb, tb.k[p], m) = p
            /\ \A j \in 0 .. m - 1 : tb.k[Probe(tb, tb.k[p], j)] \notin {EMPTY, tb.k[p]}
      BY <3>1, Zenon DEF Sound, KeysFound
    <3>3. ASSUME NEW j \in 0 .. m - 1 PROVE u.k[Probe(tb, tb.k[p], j)] \notin {EMPTY, tb.k[p]}
      <4>1. j \in Nat
        BY <3>3, SMT
      <4>2. Probe(tb, tb.k[p], j) \in Places(tb)
        BY <1>7, <3>1, <4>1, Zenon
      <4> QED BY <1>5, <1>3, <3>1, <3>2, <3>3, <4>2, Zenon
    <3> QED BY <3>1, <3>2, <3>3, Zenon
  <2> QED BY <2>1, <2>2
<1>10. KeysFound(u)
  BY <1>4, <1>6, <1>9, SMT DEF KeysFound
<1> QED BY <1>10 DEF u, s

LEMMA FillLinked ==
    ASSUME LinkHashAssumption, NEW tb, Sound(tb), NEW key \in Keys, NEW val \in Vals \cup {Nothing}, Lacks(tb, key),
           NEW s \in Places(tb), IsFree(tb, s)
    PROVE  Linked(Fill(tb, s, key, val))
<1> DEFINE u == Fill(tb, s, key, val)
           n == Len(tb.list)
<1>1. /\ Typed(tb) /\ tb.k \in [Places(tb) -> Keys \cup {EMPTY, FREED}]
      /\ tb.list \in Seq(Places(tb)) /\ DOMAIN tb.list = 1 .. n /\ n \in Nat
  BY TypedParts, Zenon DEF Sound
<1>2. /\ Places(u) = Places(tb) /\ u.count = tb.count + 1
      /\ u.list = Append(tb.list, s) /\ u.k = [tb.k EXCEPT ![s] = key]
  BY <1>1, FillFields, SMT
<1>3. tb.k[s] \notin Keys
  BY MarksAreNoKeys, Zenon DEF IsFree
<1>4. ASSUME NEW q \in Places(tb) PROVE u.k[q] = IF q = s THEN key ELSE tb.k[q]
  BY <1>1, <1>2, <1>4, Zenon
<1> HIDE DEF u
<1>5. /\ DOMAIN u.list = 1 .. n + 1 /\ Len(u.list) = n + 1
      /\ u.list[n + 1] = s /\ \A p \in 1 .. n : u.list[p] = tb.list[p]
  BY <1>1, <1>2, SMT
<1>6. \A p \in 1 .. n : tb.list[p] \in Places(tb) /\ tb.k[tb.list[p]] \in Keys /\ tb.list[p] # s
  BY <1>1, <1>3, LinksToKeys, Zenon
<1>7. \A p \in 1 .. n : u.k[u.list[p]] = tb.k[tb.list[p]] /\ u.k[u.list[p]] # key
  BY <1>4, <1>5, <1>6, ZenonT(60) DEF Lacks
<1>8. u.k[u.list[n + 1]] = key
  BY <1>4, <1>5, Zenon
<1>9. u.count = Len(u.list)
  BY <1>2, <1>5, Zenon DEF Sound, Linked
<1>10. \A i, j \in DOMAIN u.list : u.k[u.list[i]] = u.k[u.list[j]] => i = j
  <2>1. \A i, j \in 1 .. n : tb.k[tb.list[i]] = tb.k[tb.list[j]] => i = j
    BY <1>1, Zenon DEF Sound, Linked
  <2>2. \A i \in DOMAIN u.list : i \in 1 .. n \/ i = n + 1
    BY <1>1, <1>5, SMT
  <2> QED BY <1>7, <1>8, <2>1, <2>2, Zenon
<1>11. {u.list[i] : i \in DOMAIN u.list} = {q \in Places(u) : u.k[q] \in Keys}
  <2>1. ASSUME NEW i \in DOMAIN u.list PROVE u.list[i] \in Places(tb) /\ u.k[u.list[i]] \in Keys
    <3>1. i \in 1 .. n \/ i = n + 1
      BY <1>1, <1>5, <2>1, SMT
    <3> QED BY <1>5, <1>6, <1>7, <1>8, <3>1, Zenon
  <2>2. ASSUME NEW q \in Places(tb), u.k[q] \in Keys PROVE \E i \in DOMAIN u.list : u.list[i] = q
    <3>1. CASE q = s
      <4>1. n + 1 \in DOMAIN u.list
        BY <1>1, <1>5, SMT
      <4> QED BY <1>5, <3>1, <4>1, Zenon
    <3>2. CASE q # s
      <4>0. tb.k[q] \in Keys
        BY <1>4, <2>2, <3>2, Zenon
      <4>1. PICK i \in DOMAIN tb.list : tb.list[i] = q
        BY <4>0, LinksToKeys, SMT
      <4>2. i \in DOMAIN u.list
        BY <1>1, <1>5, <4>1, SMT
      <4> QED BY <1>1, <1>5, <4>1, <4>2, Zenon
    <3> QED BY <3>1, <3>2
  <2> QED BY <1>2, <2>1, <2>2, SMT
<1>12. Linked(u)
  BY <1>9, <1>10, <1>11, Zenon DEF Linked
<1> QED BY <1>12 DEF u

LEMMA FillSound ==
    ASSUME LinkHashAssumption, NEW tb, Sound(tb), NEW key \in Keys, NEW val \in Vals \cup {Nothing}, Lacks(tb, key),
           NEW i \in Places(tb), FreeAt(tb, key, i)
    PROVE  /\ Probe(tb, key, i) \in Places(tb)
           /\ Sound(Fill(tb, Probe(tb, key, i), key, val))
<1> DEFINE s == Probe(tb, key, i)
<1>1. Typed(tb) /\ tb.size \in 1 .. IntMax /\ i \in Nat
  BY TypedParts, SMT DEF Sound, Places
<1>2. s \in Places(tb) /\ IsFree(tb, s)
  BY <1>1, ProbeIsPlace, Zenon DEF FreeAt
<1>3. KeysFound(Fill(tb, s, key, val))
  BY FillKeysFound
<1> HIDE DEF s
<1>4. Typed(Fill(tb, s, key, val))
  BY <1>1, <1>2, FillFields
<1>5. Linked(Fill(tb, s, key, val))
  BY <1>2, FillLinked
<1> QED BY <1>2, <1>3, <1>4, <1>5, Zenon DEF Sound, s

-----------------------------------------------------------------------------
(* A deletion leaves a mark that no search stops at. *)
LEMMA ClearSound ==
    ASSUME LinkHashAssumption, NEW tb, Sound(tb), NEW p \in DOMAIN tb.list
    PROVE  Sound(Clear(tb, p)) /\ Clear(tb, p).size = tb.size /\ Clear(tb, p).count = tb.count - 1
<1> DEFINE u == Clear(tb, p)
           n == Len(tb.list)
           s == tb.list[p]
           list == Without(tb.list, p)
           k == [tb.k EXCEPT ![s] = FREED]
           v == [tb.v EXCEPT ![s] = Nothing]
           Back(i) == IF i < p THEN i ELSE i + 1
<1>1. /\ tb.size \in 1 .. IntMax /\ tb.count \in Nat
      /\ tb.k \in [Places(tb) -> Keys \cup {EMPTY, FREED}]
      /\ tb.v \in [Places(tb) -> Vals \cup {Nothing}]
      /\ tb.list \in Seq(Places(tb)) /\ DOMAIN tb.list = 1 .. n /\ n \in Nat
  BY TypedParts, Zenon DEF Sound
<1>2. p \in 1 .. n /\ s \in Places(tb) /\ tb.k[s] \in Keys /\ tb.count = n
  BY <1>1, LinksToKeys, Zenon DEF Sound, Linked
<1>3. u = Table(tb.size, tb.count - 1, list, k, v)
  BY DEF Clear
<1>4. \A i \in 1 .. n - 1 : Back(i) \in 1 .. n /\ Back(i) # p
  BY <1>1, <1>2, SMT
<1>5. /\ list \in Seq(Places(tb)) /\ Len(list) = n - 1 /\ DOMAIN list = 1 .. n - 1
      /\ \A i \in 1 .. n - 1 : list[i] = tb.list[Back(i)]
  BY <1>1, <1>2, <1>4, SMT DEF Without
<1>6. k \in [Places(tb) -> Keys \cup {EMPTY, FREED}] /\ v \in [Places(tb) -> Vals \cup {Nothing}]
  BY <1>1, <1>2, Zenon
<1>7. \A q \in Places(tb) : k[q] = IF q = s THEN FREED ELSE tb.k[q]
  BY <1>1, Zenon
<1> HIDE DEF u, k, v, list
<1>8. /\ u.size = tb.size /\ u.count = tb.count - 1 /\ u.list = list /\ u.k = k /\ u.v = v
  BY <1>3, SMT DEF Table
<1>9. Places(u) = Places(tb) /\ \A x, j : Probe(u, x, j) = Probe(tb, x, j)
  BY <1>8, Zenon DEF Places, Probe
<1>10. tb.count - 1 \in Nat
  BY <1>1, <1>2, SMT
<1>11. Typed(u)
  BY <1>1, <1>3, <1>5, <1>6, <1>8, <1>9, <1>10, TableTyped, Zenon
<1>12. KeysFound(u)
  <2>1. ASSUME NEW q \in Places(tb), k[q] \in Keys
        PROVE  \E m \in Places(tb) :
                 /\ Probe(tb, k[q], m) = q
                 /\ \A j \in 0 .. m - 1 : k[Probe(tb, k[q], j)] \notin {EMPTY, k[q]}
    <3>1. FREED \notin Keys /\ EMPTY # FREED
      BY Zenon DEF LinkHashAssumption
    <3>2. k[q] = tb.k[q] /\ tb.k[q] \in Keys
      BY <1>7, <2>1, <3>1, Zenon
    <3>3. PICK m \in Places(tb) :
            /\ Probe(tb, tb.k[q], m) = q
            /\ \A j \in 0 .. m - 1 : tb.k[Probe(tb, tb.k[q], j)] \notin {EMPTY, tb.k[q]}
      BY <3>2, Zenon DEF Sound, KeysFound
    <3>4. ASSUME NEW j \in 0 .. m - 1 PROVE k[Probe(tb, tb.k[q], j)] \notin {EMPTY, tb.k[q]}
      <4>1. Probe(tb, tb.k[q], j) \in Places(tb)
        <5>1. j \in Nat
          BY <3>4, SMT
        <5> QED BY <1>1, <3>2, <5>1, ProbeIsPlace, Zenon
      <4> QED BY <1>7, <3>1, <3>2, <3>3, <3>4, <4>1, Zenon
    <3> QED BY <3>2, <3>3, <3>4, Zenon
  <2> QED BY <1>8, <1>9, <2>1, SMT DEF KeysFound
<1> HIDE DEF s, Back
<1>13. \A i, j \in 1 .. n : tb.k[tb.list[i]] = tb.k[tb.list[j]] => i = j
  BY <1>1, Zenon DEF Sound, Linked
<1>14. \A i \in 1 .. n : tb.list[i] = s => i = p
  BY <1>2, <1>13, Zenon DEF s
<1>15. \A i \in 1 .. n - 1 : /\ list[i] \in Places(tb) /\ list[i] # s /\ tb.k[list[i]] \in Keys
                             /\ k[list[i]] = tb.k[list[i]]
  <2> TAKE i \in 1 .. n - 1
  <2>1. list[i] = tb.list[Back(i)] /\ Back(i) \in DOMAIN tb.list /\ list[i] # s
    BY <1>1, <1>4, <1>5, <1>14, Zenon
  <2>2. list[i] \in Places(tb) /\ tb.k[list[i]] \in Keys
    BY <2>1, LinksToKeys, Zenon
  <2> QED BY <1>7, <2>1, <2>2, Zenon
<1>16. \A i, j \in 1 .. n - 1 : k[list[i]] = k[list[j]] => i = j
  <2> TAKE i, j \in 1 .. n - 1
  <2>1. list[i] = tb.list[Back(i)] /\ list[j] = tb.list[Back(j)] /\ Back(i) \in 1 .. n /\ Back(j) \in 1 .. n
    BY <1>4, <1>5, Zenon
  <2>2. k[list[i]] = k[list[j]] => Back(i) = Back(j)
    <3>1. k[list[i]] = tb.k[list[i]] /\ k[list[j]] = tb.k[list[j]]
      BY <1>15, Zenon
    <3>2. tb.k[tb.list[Back(i)]] = tb.k[tb.list[Back(j)]] => Back(i) = Back(j)
      BY <1>13, <2>1, Zenon
    <3> QED BY <2>1, <3>1, <3>2, Zenon
  <2>3. Back(i) = Back(j) => i = j
    BY <1>2, SMT DEF Back
  <2> QED BY <2>2, <2>3
<1>17. ASSUME NEW q \in Places(tb), k[q] \in Keys PROVE \E i \in 1 .. n - 1 : list[i] = q
  <2>1. q # s /\ tb.k[q] \in Keys
    BY <1>7, <1>17, MarksAreNoKeys, Zenon
  <2>2. PICK j \in 1 .. n : tb.list[j] = q
    BY <1>1, <2>1, LinksToKeys, SMT
  <2>3. j # p
    BY <2>1, <2>2 DEF s
  <2>4. \E i \in 1 .. n - 1 : Back(i) = j
    <3>1. CASE j < p
      BY <1>2, <3>1, SMT DEF Back
    <3>2. CASE j > p
      <4>1. j - 1 \in 1 .. n - 1 /\ Back(j - 1) = j
        BY <1>2, <3>2, SMT DEF Back
      <4> QED BY <4>1
    <3> QED BY <1>2, <2>2, <2>3, <3>1, <3>2, SMT
  <2> QED BY <1>5, <2>2, <2>4, Zenon
<1>18. {u.list[i] : i \in DOMAIN u.list} = {q \in Places(u) : u.k[q] \in Keys}
  <2>1. \A i \in 1 .. n - 1 : list[i] \in Places(tb) /\ k[list[i]] \in Keys
    BY <1>15, Zenon
  <2>2. {list[i] : i \in 1 .. n - 1} = {q \in Places(tb) : k[q] \in Keys}
    BY <1>17, <2>1, Zenon
  <2> QED BY <1>5, <1>8, <1>9, <2>2, ZenonT(60)
<1>19. u.count = Len(u.list)
  BY <1>2, <1>5, <1>8, SMT
<1>20. Linked(u)
  BY <1>5, <1>8, <1>16, <1>18, <1>19, SMT DEF Linked
<1> QED BY <1>8, <1>11, <1>12, <1>20, Zenon DEF Sound, u

-----------------------------------------------------------------------------
(* A table with fewer keys than places has a free one: otherwise the links *)
(* would go through all of them.                                           *)
LEMMA RoomLeft ==
    ASSUME LinkHashAssumption, NEW tb, Sound(tb), tb.count < tb.size
    PROVE  \E s \in Places(tb) : IsFree(tb, s)
<1> SUFFICES ASSUME \A s \in Places(tb) : ~ IsFree(tb, s) PROVE FALSE
  OBVIOUS
<1> DEFINE n == Len(tb.list)
<1>1. /\ tb.size \in 1 .. IntMax /\ tb.count = n
      /\ tb.k \in [Places(tb) -> Keys \cup {EMPTY, FREED}]
      /\ tb.list \in Seq(Places(tb)) /\ DOMAIN tb.list = 1 .. n /\ n \in Nat
  BY TypedParts, Zenon DEF Sound, Linked
<1>2. \A s \in Places(tb) : \E p \in 1 .. n : tb.list[p] = s
  <2>1. \A s \in Places(tb) : tb.k[s] \in Keys
    BY <1>1, Zenon DEF IsFree
  <2> QED BY <1>1, <2>1, LinksToKeys, SMT
<1>3. tb.list \in [1 .. n -> Places(tb)]
  BY <1>1, SMT
<1>4. tb.list \in Surjection(1 .. n, Places(tb))
  BY <1>2, <1>3, Zenon DEF Surjection
<1>5. IsFiniteSet(1 .. n) /\ Cardinality(1 .. n) = n
  BY <1>1, FS_Interval, SMT
<1>6. Cardinality(Places(tb)) <= n
  BY <1>4, <1>5, FS_Surjection, SMT
<1>7. Cardinality(Places(tb)) = tb.size
  <2>1. 0 \in Int /\ tb.size - 1 \in Int /\ ~ (0 > tb.size - 1) /\ tb.size - 1 - 0 + 1 = tb.size
    BY <1>1, SMT DEF LinkHashAssumption
  <2>2. Cardinality(0 .. tb.size - 1) = tb.size - 1 - 0 + 1
    BY <2>1, FS_Interval, Zenon
  <2> QED BY <2>1, <2>2, Zenon DEF Places
<1> QED BY <1>1, <1>6, <1>7, SMT DEF LinkHashAssumption

-----------------------------------------------------------------------------
(* What holds between the steps.  Half way through a resize, the new table *)
(* holds the first entries of the old one, in the same order, and neither  *)
(* has the key that waits.                                                 *)
Resizing ==
    /\ adding # Nothing /\ adding \in Keys \X Vals
    /\ Sound(new) /\ new.size = Grown(t.size) /\ t.size # IntMax
    /\ copied \in 0 .. Len(t.list) /\ new.count = copied
    /\ \A i \in 1 .. copied : /\ new.k[new.list[i]] = t.k[t.list[i]]
                             /\ new.v[new.list[i]] = t.v[t.list[i]]
    /\ Lacks(t, adding[1])
NotResizing == adding = Nothing /\ new = NoTable /\ copied = 0

(* The load before the last insertion; only a table that cannot grow passes it. *)
Loaded == t.size # IntMax => (t.count - 1) * 100 < t.size * 66

Counted ==
    /\ ret \in {0, -1} /\ failures \in 0 .. MaxFailures /\ strings \in Int
    /\ KeysFreedUnlessRefused

IInv == Sound(t) /\ (NotResizing \/ Resizing) /\ Loaded /\ Counted

LEMMA GrownLarger ==
    ASSUME LinkHashAssumption, NEW n \in 1 .. IntMax, n # IntMax
    PROVE  /\ Grown(n) \in 1 .. IntMax /\ Grown(n) >= n + 1
           /\ Grown(n) = IntMax \/ Grown(n) = 2 * n
<1> DEFINE half == IntMax \div 2
<1>1. IntMax \in Nat
  BY DEF LinkHashAssumption
<1>2. half \in Nat /\ 2 * half <= IntMax
  BY <1>1, SMT
<1>3. Grown(n) = IF n > half THEN IntMax ELSE 2 * n
  BY DEF Grown
<1> HIDE DEF half
<1> QED BY <1>1, <1>2, <1>3, SMT

LEMMA InitIInv == LinkHashAssumption /\ Init => IInv
<1> SUFFICES ASSUME LinkHashAssumption, Init PROVE IInv
  OBVIOUS
<1>1. DefaultSize \in 1 .. IntMax /\ IntMax \in Nat /\ MaxFailures \in Nat
  BY DEF LinkHashAssumption
<1>2. Sound(t) /\ t.count = 0 /\ t.size = DefaultSize
  BY <1>1, NewSound, Zenon DEF Init
<1>3. Loaded
  BY <1>1, <1>2, SMT DEF Loaded
<1>4. Counted
  BY <1>1, <1>2, SMT DEF Init, Counted, KeysFreedUnlessRefused, Ready
<1> QED BY <1>2, <1>3, <1>4, Zenon DEF IInv, NotResizing, Init

(* The facts about t that every action starts from. *)
LEMMA SoundParts ==
    ASSUME LinkHashAssumption, NEW tb, Sound(tb)
    PROVE  /\ Typed(tb) /\ tb.size \in Nat /\ 1 <= tb.size /\ tb.size <= IntMax
           /\ tb.count \in Nat /\ tb.count = Len(tb.list)
           /\ tb.list \in Seq(Places(tb)) /\ DOMAIN tb.list = 1 .. Len(tb.list)
           /\ tb.k \in [Places(tb) -> Keys \cup {EMPTY, FREED}]
           /\ tb.v \in [Places(tb) -> Vals \cup {Nothing}]
           /\ IntMax \in Nat
<1>1. Typed(tb) /\ tb.count = Len(tb.list)
  BY Zenon DEF Sound, Linked
<1>2. IntMax \in Nat
  BY DEF LinkHashAssumption
<1>3. /\ tb.size \in 1 .. IntMax /\ tb.count \in Nat
      /\ tb.list \in Seq(Places(tb)) /\ DOMAIN tb.list = 1 .. Len(tb.list)
      /\ tb.k \in [Places(tb) -> Keys \cup {EMPTY, FREED}]
      /\ tb.v \in [Places(tb) -> Vals \cup {Nothing}]
  BY <1>1, TypedParts, Zenon
<1>4. tb.size \in Nat /\ 1 <= tb.size /\ tb.size <= IntMax
  BY <1>2, <1>3, SMT
<1> QED BY <1>1, <1>2, <1>3, <1>4, Zenon

(* Steps that leave the table and the resize alone. *)
LEMMA CountedKept ==
    ASSUME LinkHashAssumption, IInv, UNCHANGED <<t, adding>>,
           \/ UNCHANGED <<failures, strings>> /\ ret' \in {0, -1}
           \/ Refused /\ strings' \in {strings, strings + 1}
    PROVE  Counted'
<1>1. strings \in Int /\ t.count \in Nat /\ MaxFailures \in Nat /\ failures \in 0 .. MaxFailures
  BY SoundParts, Zenon DEF IInv, Counted, LinkHashAssumption
<1>2. strings - t.count - (IF Ready THEN 0 ELSE 1) \in 0 .. failures
  BY Zenon DEF IInv, Counted, KeysFreedUnlessRefused
<1>3. t'.count = t.count /\ (Ready' <=> Ready)
  BY Zenon DEF Ready
<1>4. CASE UNCHANGED <<failures, strings>> /\ ret' \in {0, -1}
  BY <1>1, <1>2, <1>3, <1>4, SMT DEF Counted, KeysFreedUnlessRefused
<1>5. CASE Refused /\ strings' \in {strings, strings + 1}
  <2>1. failures' \in 0 .. MaxFailures /\ failures' = failures + 1 /\ ret' \in {0, -1} /\ strings' \in Int
    BY <1>1, <1>5, SMT DEF Refused
  <2> QED BY <1>1, <1>2, <1>3, <1>5, <2>1, SMT DEF Counted, KeysFreedUnlessRefused
<1> QED BY <1>4, <1>5

LEMMA TableKept ==
    ASSUME IInv, UNCHANGED <<t, new, copied, adding>>, Counted'
    PROVE  IInv'
<1>1. Sound(t)' /\ (NotResizing \/ Resizing)' /\ Loaded'
  BY Zenon DEF IInv, NotResizing, Resizing, Loaded
<1> QED BY <1>1, Zenon DEF IInv

(* The additions. *)
LEMMA AddExistingStep ==
    ASSUME LinkHashAssumption, IInv, NEW key \in Keys, NEW val \in Vals, AddExisting(key, val)
    PROVE  IInv'
<1>1. PICK i \in Places(t) :
        t' = Table(t.size, t.count, t.list, t.k, [t.v EXCEPT ![Probe(t, key, i)] = val])
  BY Zenon DEF AddExisting
<1> DEFINE s == Probe(t, key, i)
           v == [t.v EXCEPT ![s] = val]
<1>2. Sound(t) /\ t.v \in [Places(t) -> Vals \cup {Nothing}] /\ s \in Places(t)
  <2>1. Sound(t) /\ t.v \in [Places(t) -> Vals \cup {Nothing}] /\ t.size \in 1 .. IntMax
    BY SoundParts, TypedParts, Zenon DEF IInv
  <2>2. i \in Nat
    BY <2>1, SMT DEF Places, LinkHashAssumption
  <2> QED BY <2>1, <2>2, ProbeIsPlace, Zenon
<1> HIDE DEF s
<1>3. v \in [Places(t) -> Vals \cup {Nothing}]
  BY <1>2, SMT
<1> HIDE DEF v
<1>4. Sound(t') /\ t'.size = t.size /\ t'.count = t.count /\ t'.list = t.list /\ t'.k = t.k
  BY <1>1, <1>2, <1>3, SameKeysSound, SMT DEF s, v
<1>5. /\ UNCHANGED <<new, copied, adding, failures, strings>> /\ ret' = 0 /\ Ready
      /\ adding = Nothing
  BY Zenon DEF AddExisting, Ready
<1>6. NotResizing'
  BY <1>5, Zenon DEF IInv, NotResizing, Resizing
<1>7. Loaded'
  BY <1>4, Zenon DEF IInv, Loaded
<1>8. Counted'
  BY <1>4, <1>5, SMT DEF IInv, Counted, KeysFreedUnlessRefused, Ready
<1> QED BY <1>4, <1>6, <1>7, <1>8, Zenon DEF IInv

LEMMA AddNewStep ==
    ASSUME LinkHashAssumption, IInv, NEW key \in Keys, NEW val \in Vals, AddNew(key, val)
    PROVE  IInv'
<1>1. PICK i \in Places(t) : FreeAt(t, key, i) /\ t' = Fill(t, Probe(t, key, i), key, val)
  BY Zenon DEF AddNew
<1>2. Sound(t) /\ Typed(t) /\ Lacks(t, key)
  BY NotFoundLacks, Zenon DEF IInv, AddNew, Sound
<1>3. Probe(t, key, i) \in Places(t) /\ Sound(t')
  BY <1>1, <1>2, FillSound, SMT
<1> DEFINE s == Probe(t, key, i)
<1>4. t'.size = t.size /\ t'.count = t.count + 1
  <2>1. s \in Places(t) /\ t' = Fill(t, s, key, val)
    BY <1>1, <1>3
  <2> HIDE DEF s
  <2>2. Fill(t, s, key, val).size = t.size /\ Fill(t, s, key, val).count = t.count + 1
    BY SMT DEF Fill, Table
  <2> QED BY <2>1, <2>2, Zenon
<1>5. /\ UNCHANGED <<new, copied, adding, failures>> /\ ret' = 0 /\ adding = Nothing
      /\ strings' = strings + 1 /\ ~ Full(t)
  BY Zenon DEF AddNew, Ready
<1>6. NotResizing'
  BY <1>5, Zenon DEF IInv, NotResizing, Resizing
<1>7. Loaded'
  BY <1>2, <1>4, <1>5, SoundParts, SMT DEF Loaded, Full
<1>8. Counted'
  BY <1>2, <1>4, <1>5, SoundParts, SMT DEF IInv, Counted, KeysFreedUnlessRefused, Ready
<1> QED BY <1>3, <1>6, <1>7, <1>8, Zenon DEF IInv

LEMMA AddResizesStep ==
    ASSUME LinkHashAssumption, IInv, NEW key \in Keys, NEW val \in Vals, AddResizes(key, val)
    PROVE  IInv'
<1>1. /\ adding' = <<key, val>> /\ new' = NewTable(Grown(t.size)) /\ copied' = 0
      /\ strings' = strings + 1 /\ UNCHANGED <<t, ret, failures>> /\ t.size # IntMax /\ Ready
  BY Zenon DEF AddResizes
<1>2. Sound(t) /\ t.size \in 1 .. IntMax /\ Lacks(t, key)
  BY NotFoundLacks, TypedParts, Zenon DEF IInv, AddResizes, Sound
<1>3. Sound(new') /\ new'.size = Grown(t.size) /\ new'.count = 0
  BY <1>1, <1>2, GrownLarger, NewSound, Zenon
<1>4. adding' # Nothing /\ adding' \in Keys \X Vals /\ adding'[1] = key
  BY <1>1, SMT DEF Nothing
<1>5. copied' \in 0 .. Len(t.list) /\ 1 .. copied' = {} /\ t.count \in Nat
  BY <1>1, <1>2, SoundParts, SMT
<1>6. Resizing'
  BY <1>1, <1>2, <1>3, <1>4, <1>5, SMT DEF Resizing
<1>7. Counted'
  BY <1>1, <1>4, <1>5, SMT DEF IInv, Counted, KeysFreedUnlessRefused, Ready
<1> QED BY <1>1, <1>2, <1>6, <1>7, Zenon DEF IInv, Loaded

(* One entry goes to the new table: no other there has its key. *)
LEMMA NewLacks ==
    ASSUME LinkHashAssumption, IInv, Resizing, NEW key \in Keys,
           \A i \in 1 .. copied : t.k[t.list[i]] # key
    PROVE  Lacks(new, key)
<1>1. Sound(new) /\ DOMAIN new.list = 1 .. copied
  BY SoundParts, Zenon DEF Resizing
<1>2. \A s \in Places(new) : new.k[s] \in Keys => \E i \in 1 .. copied : new.list[i] = s
  BY <1>1, LinksToKeys, Zenon
<1>3. \A i \in 1 .. copied : new.k[new.list[i]] # key
  BY Zenon DEF Resizing
<1> QED BY <1>2, <1>3, Zenon DEF Lacks

LEMMA CopyStep == ASSUME LinkHashAssumption, IInv, Copy PROVE IInv'
<1> DEFINE s == t.list[copied + 1]
           key == t.k[s]
<1>1. /\ Resizing /\ Sound(t) /\ Sound(new) /\ copied < Len(t.list)
      /\ copied \in 0 .. Len(t.list)
  BY Zenon DEF IInv, Copy, Ready, NotResizing, Resizing
<1>2. PICK i \in Places(new) : FreeAt(new, key, i) /\ new' = Fill(new, Probe(new, key, i), key, t.v[s])
  BY Zenon DEF Copy
<1>3. copied + 1 \in DOMAIN t.list /\ copied \in Nat /\ copied + 1 \in 0 .. Len(t.list)
  BY <1>1, SoundParts, SMT
<1>4. s \in Places(t) /\ key \in Keys
  BY <1>1, <1>3, LinksToKeys, Zenon
<1>5. \A j \in 1 .. copied : t.k[t.list[j]] # key
  <2>1. \A j, m \in DOMAIN t.list : t.k[t.list[j]] = t.k[t.list[m]] => j = m
    BY <1>1, Zenon DEF Sound, Linked
  <2>2. \A j \in 1 .. copied : j \in DOMAIN t.list /\ j # copied + 1
    BY <1>1, <1>3, SoundParts, SMT
  <2> QED BY <1>3, <2>1, <2>2, Zenon
<1>6. Lacks(new, key) /\ t.v[s] \in Vals \cup {Nothing}
  BY <1>1, <1>4, <1>5, NewLacks, SoundParts, Zenon
<1> HIDE DEF s, key
<1> DEFINE r == Probe(new, key, i)
           val == t.v[s]
<1>7. r \in Places(new) /\ Sound(new') /\ new' = Fill(new, r, key, val)
  <2>1. Sound(Fill(new, Probe(new, key, i), key, val)) /\ Probe(new, key, i) \in Places(new)
    <3> HIDE DEF val, r
    <3>1. val \in Vals \cup {Nothing}
      BY <1>6 DEF val
    <3> QED BY <1>1, <1>2, <1>4, <1>6, <3>1, FillSound, Zenon
  <2> QED BY <1>2, <2>1
<1> HIDE DEF r, val
<1>8. new'.size = new.size /\ new'.count = copied + 1 /\ new'.list = Append(new.list, r)
  <2>1. /\ Fill(new, r, key, val).size = new.size /\ Fill(new, r, key, val).count = new.count + 1
        /\ Fill(new, r, key, val).list = Append(new.list, r)
    BY SMT DEF Fill, Table
  <2> QED BY <1>1, <1>7, <2>1, Zenon DEF Resizing
<1>9. new'.k = [new.k EXCEPT ![r] = key] /\ new'.v = [new.v EXCEPT ![r] = val]
  <2>1. /\ Fill(new, r, key, val).k = [new.k EXCEPT ![r] = key]
        /\ Fill(new, r, key, val).v = [new.v EXCEPT ![r] = val]
    BY SMT DEF Fill, Table
  <2> QED BY <1>7, <2>1, Zenon
<1>10. copied' = copied + 1 /\ UNCHANGED <<t, adding, ret, failures, strings>>
  BY Zenon DEF Copy
<1>11. /\ new.list \in Seq(Places(new)) /\ Len(new.list) = copied /\ DOMAIN new.list = 1 .. copied
       /\ new.k \in [Places(new) -> Keys \cup {EMPTY, FREED}]
       /\ new.v \in [Places(new) -> Vals \cup {Nothing}]
  BY <1>1, SoundParts, Zenon DEF Resizing
<1>12. new.k[r] \notin Keys
  <2>1. IsFree(new, r)
    BY <1>2, Zenon DEF FreeAt, r
  <2> QED BY <2>1, MarksAreNoKeys, Zenon DEF IsFree
<1>13. \A j \in 1 .. copied + 1 : /\ new'.k[new'.list[j]] = t.k[t.list[j]]
                                  /\ new'.v[new'.list[j]] = t.v[t.list[j]]
  <2>1. ASSUME NEW j \in 1 .. copied
        PROVE new'.k[new'.list[j]] = t.k[t.list[j]] /\ new'.v[new'.list[j]] = t.v[t.list[j]]
    <3>1. new'.list[j] = new.list[j]
      BY <1>3, <1>8, <1>11, <2>1, SMT
    <3>2. new.list[j] \in Places(new) /\ new.list[j] # r
      BY <1>1, <1>11, <1>12, <2>1, LinksToKeys, Zenon
    <3>3. new'.k[new.list[j]] = new.k[new.list[j]] /\ new'.v[new.list[j]] = new.v[new.list[j]]
      BY <1>9, <1>11, <3>2, Zenon
    <3>4. new.k[new.list[j]] = t.k[t.list[j]] /\ new.v[new.list[j]] = t.v[t.list[j]]
      BY <1>1, <2>1, Zenon DEF Resizing
    <3> QED BY <3>1, <3>3, <3>4, Zenon
  <2>2. /\ new'.k[new'.list[copied + 1]] = t.k[t.list[copied + 1]]
        /\ new'.v[new'.list[copied + 1]] = t.v[t.list[copied + 1]]
    <3>1. new'.list[copied + 1] = r
      BY <1>3, <1>8, <1>11, SMT
    <3>2. new'.k[r] = key /\ new'.v[r] = val
      BY <1>7, <1>9, <1>11, Zenon
    <3> QED BY <3>1, <3>2, Zenon DEF key, val, s
  <2>3. \A j \in 1 .. copied + 1 : j \in 1 .. copied \/ j = copied + 1
    BY <1>3, SMT
  <2> QED BY <2>1, <2>2, <2>3, Zenon
<1>14. Resizing'
  <2>1. /\ adding' # Nothing /\ adding' \in Keys \X Vals
        /\ t'.size # IntMax /\ Lacks(t, adding[1])' /\ new'.size = Grown(t'.size)
    BY <1>1, <1>8, <1>10, Zenon DEF Resizing, Lacks
  <2>2. copied' \in 0 .. Len(t'.list) /\ new'.count = copied'
    BY <1>3, <1>8, <1>10, Zenon
  <2>3. \A j \in 1 .. copied' : /\ new'.k[new'.list[j]] = t'.k[t'.list[j]]
                                /\ new'.v[new'.list[j]] = t'.v[t'.list[j]]
    BY <1>10, <1>13, Zenon
  <2> QED BY <1>7, <2>1, <2>2, <2>3, Zenon DEF Resizing
<1>15. Sound(t)' /\ Loaded' /\ Counted'
  <2>1. ret \in {0, -1}
    BY Zenon DEF IInv, Counted
  <2>2. Counted'
    BY <1>10, <2>1, CountedKept, Zenon
  <2> QED BY <1>1, <1>10, <2>2, Zenon DEF IInv, Loaded
<1> QED BY <1>14, <1>15, Zenon DEF IInv

(* The new table takes the place of the old one, with the key that waited. *)
LEMMA ResizedStep == ASSUME LinkHashAssumption, IInv, Resized PROVE IInv'
<1> DEFINE key == adding[1]
           val == adding[2]
           grown == Table(new.size, t.count, new.list, new.k, new.v)
<1>1. Resizing /\ Sound(t) /\ Sound(new) /\ copied = Len(t.list)
  BY Zenon DEF IInv, Resized, Ready, NotResizing, Resizing
<1>2. PICK i \in Places(new) : FreeAt(grown, key, i) /\ t' = Fill(grown, Probe(grown, key, i), key, val)
  BY Zenon DEF Resized
<1>3. key \in Keys /\ val \in Vals \cup {Nothing}
  BY <1>1, SMT DEF Resizing
<1> HIDE DEF key, val
<1>4. t.count = Len(t.list) /\ new.count = t.count /\ new.v \in [Places(new) -> Vals \cup {Nothing}]
  BY <1>1, SoundParts, Zenon DEF Resizing
<1>5. grown = Table(new.size, new.count, new.list, new.k, new.v)
  BY <1>4, Zenon
<1> HIDE DEF grown
<1>6. /\ Sound(grown) /\ grown.size = new.size /\ grown.count = t.count /\ grown.k = new.k
      /\ Places(grown) = Places(new)
  <2>1. Sound(grown) /\ grown.size = new.size /\ grown.count = t.count /\ grown.k = new.k
    BY <1>1, <1>4, <1>5, SameKeysSound, SMT
  <2> QED BY <2>1, Zenon DEF Places
<1>7. Lacks(grown, key)
  <2>1. \A j \in 1 .. copied : t.list[j] \in Places(t)
    BY <1>1, SoundParts, LinksToKeys, Zenon
  <2>2. \A j \in 1 .. copied : t.k[t.list[j]] # key
    BY <1>1, <2>1, Zenon DEF Resizing, Lacks, key
  <2>3. Lacks(new, key)
    BY <1>1, <1>3, <2>2, NewLacks, Zenon
  <2> QED BY <1>6, <2>3, Zenon DEF Lacks
<1> DEFINE r == Probe(grown, key, i)
<1>8. r \in Places(grown) /\ Sound(t')
  <2>1. i \in Places(grown)
    BY <1>6
  <2>2. Sound(Fill(grown, Probe(grown, key, i), key, val)) /\ Probe(grown, key, i) \in Places(grown)
    BY <1>2, <1>3, <1>6, <1>7, <2>1, FillSound, Zenon
  <2> QED BY <1>2, <2>2
<1>9. t'.size = new.size /\ t'.count = t.count + 1
  <2>1. t' = Fill(grown, r, key, val)
    BY <1>2
  <2> HIDE DEF r
  <2>2. Fill(grown, r, key, val).size = grown.size /\ Fill(grown, r, key, val).count = grown.count + 1
    BY SMT DEF Fill, Table
  <2> QED BY <1>6, <2>1, <2>2, Zenon
<1>10. /\ new' = NoTable /\ copied' = 0 /\ adding' = Nothing /\ ret' = 0
       /\ UNCHANGED <<failures, strings>>
  BY Zenon DEF Resized
<1>11. NotResizing'
  BY <1>10, Zenon DEF NotResizing
<1>12. Loaded'
  <2>1. t.size \in 1 .. IntMax /\ t.size # IntMax /\ new.size = Grown(t.size) /\ IntMax \in Nat /\ t.count \in Nat
    BY <1>1, SoundParts, TypedParts, Zenon DEF Resizing
  <2>2. t'.size = IntMax \/ t'.size = 2 * t.size
    BY <1>9, <2>1, GrownLarger, Zenon
  <2>3. (t.count - 1) * 100 < t.size * 66
    BY <2>1, Zenon DEF IInv, Loaded
  <2> QED BY <1>9, <2>1, <2>2, <2>3, SMT DEF Loaded
<1>13. Counted'
  <2>1. ~ Ready /\ Ready' /\ t.count \in Nat
    BY <1>1, <1>10, SoundParts, Zenon DEF Ready, Resizing
  <2>2. /\ failures \in 0 .. MaxFailures /\ strings \in Int /\ MaxFailures \in Nat
        /\ strings - t.count - 1 \in 0 .. failures
    BY <2>1, Zenon DEF IInv, Counted, KeysFreedUnlessRefused, LinkHashAssumption
  <2>3. strings' - t'.count - 0 \in 0 .. failures'
    BY <1>9, <1>10, <2>1, <2>2, SMT
  <2> QED BY <1>10, <2>1, <2>2, <2>3, Zenon DEF Counted, KeysFreedUnlessRefused
<1> QED BY <1>8, <1>11, <1>12, <1>13, Zenon DEF IInv

LEMMA DelStep == ASSUME LinkHashAssumption, IInv, NEW key \in Keys, Del(key) PROVE IInv'
<1>1. PICK p \in DOMAIN t.list : t' = Clear(t, p)
  BY Zenon DEF Del
<1>2. Sound(t)
  BY DEF IInv
<1>3. Sound(t') /\ t'.size = t.size /\ t'.count = t.count - 1
  BY <1>1, <1>2, ClearSound, Zenon
<1>4. /\ adding = Nothing /\ UNCHANGED <<new, copied, adding, failures>> /\ ret' = 0
      /\ strings' = strings - 1
  BY Zenon DEF Del, Ready
<1>5. NotResizing'
  BY <1>4, Zenon DEF IInv, NotResizing, Resizing
<1>6. t.count \in Nat /\ t.size \in Nat
  BY <1>2, SoundParts, Zenon
<1>7. Loaded'
  <2>1. t'.size # IntMax => (t.count - 1) * 100 < t.size * 66
    BY <1>3, Zenon DEF IInv, Loaded
  <2> QED BY <1>3, <1>6, <2>1, SMT DEF Loaded
<1>8. Counted'
  <2>1. Ready /\ Ready'
    BY <1>4, Zenon DEF Ready
  <2>2. /\ failures \in 0 .. MaxFailures /\ strings \in Int /\ MaxFailures \in Nat
        /\ strings - t.count - 0 \in 0 .. failures
    BY <2>1, Zenon DEF IInv, Counted, KeysFreedUnlessRefused, LinkHashAssumption
  <2>3. strings' - t'.count - 0 \in 0 .. failures' /\ strings' \in Int
    BY <1>3, <1>4, <1>6, <2>2, SMT
  <2> QED BY <1>4, <2>1, <2>2, <2>3, Zenon DEF Counted, KeysFreedUnlessRefused
<1> QED BY <1>3, <1>5, <1>7, <1>8, Zenon DEF IInv

(* The actions that leave the table alone. *)
LEMMA OtherSteps ==
    ASSUME LinkHashAssumption, IInv,
           \/ \E key \in Keys : AddNoString(key) \/ AddRefused(key) \/ DelMissing(key)
           \/ ForeachBegin \/ ForeachNext \/ ForeachEnd
           \/ UNCHANGED vars
    PROVE  IInv'
<1>1. UNCHANGED <<t, new, copied, adding>>
  BY Zenon DEF AddNoString, AddRefused, DelMissing, ForeachBegin, ForeachNext, ForeachEnd, vars
<1>2. \/ UNCHANGED <<failures, strings>> /\ ret' \in {0, -1}
      \/ Refused /\ strings' \in {strings, strings + 1}
  <2>1. ret \in {0, -1}
    BY Zenon DEF IInv, Counted
  <2> QED
    BY <2>1, Zenon DEF AddNoString, AddRefused, DelMissing, ForeachBegin, ForeachNext, ForeachEnd, vars
<1>3. Counted'
  BY <1>1, <1>2, CountedKept, Zenon
<1> QED BY <1>1, <1>3, TableKept, Zenon

LEMMA NextIInv == ASSUME LinkHashAssumption, IInv, [Next]_vars PROVE IInv'
BY AddExistingStep, AddNewStep, AddResizesStep, CopyStep, ResizedStep, DelStep, OtherSteps, Zenon DEF Next

(* What the invariant is for. *)
LEMMA IInvSound == ASSUME LinkHashAssumption, IInv PROVE TableSound
<1>1. /\ Sound(t) /\ Typed(t) /\ t.size \in 1 .. IntMax /\ t \in Tables(t.size)
      /\ t.size \in Nat /\ t.count \in Nat /\ IntMax \in Nat /\ t.count = Len(t.list)
  BY SoundParts, TypedParts, Zenon DEF IInv, Typed
<1>2. /\ ret \in {0, -1} /\ failures \in 0 .. MaxFailures /\ KeysFreedUnlessRefused
  BY Zenon DEF IInv, Counted
<1>3. CASE NotResizing
  <2>1. TypeOK
    <3>1. 0 \in Nat
      BY SMT
    <3> QED BY <1>1, <1>2, <1>3, <3>1, Zenon DEF TypeOK, NotResizing
  <2>2. LookupComplete /\ ListIsTable
    BY <1>1, <1>3, SoundReachable, Zenon DEF LookupComplete, ListIsTable, Sound, NotResizing
  <2>3. RoomToInsert
    <3>1. ~ Full(t) => t.count < t.size
      BY <1>1, SMT DEF Full
    <3> QED BY <1>1, <1>3, <3>1, RoomLeft, Zenon DEF RoomToInsert, NotResizing
  <2> QED BY <1>2, <2>1, <2>2, <2>3 DEF TableSound
<1>4. CASE Resizing
  <2>1. Sound(new) /\ Typed(new) /\ new.size \in 1 .. IntMax /\ new \in Tables(new.size) /\ new.size \in Nat
    BY <1>4, SoundParts, TypedParts, Zenon DEF Typed, Resizing
  <2>2. new # NoTable
    <3>1. new.size # 0 /\ NoTable.size = 0
      BY <2>1, SMT DEF NoTable
    <3> QED BY <3>1
  <2>3. TypeOK
    <3>1. copied \in Nat
      BY <1>1, <1>4, SMT DEF Resizing
    <3> QED BY <1>1, <1>2, <1>4, <2>1, <2>2, <3>1, Zenon DEF TypeOK, Resizing
  <2>4. LookupComplete /\ ListIsTable
    BY <1>1, <2>1, SoundReachable, Zenon DEF LookupComplete, ListIsTable, Sound
  <2>5. RoomToInsert
    <3>1. new.size >= t.size + 1 /\ (t.count - 1) * 100 < t.size * 66
      BY <1>1, <1>4, GrownLarger, Zenon DEF IInv, Loaded, Resizing
    <3>2. new.count = copied /\ copied \in 0 .. t.count
      BY <1>1, <1>4, Zenon DEF Resizing
    <3>3. ~ Full(t) => t.count < t.size
      BY <1>1, SMT DEF Full
    <3>4. copied < t.count => ~ Full(new)
      BY <1>1, <2>1, <3>1, <3>2, SMT DEF Full
    <3>5. new.count < new.size
      BY <1>1, <2>1, <3>1, <3>2, SMT
    <3>6. (\E s \in Places(new) : IsFree(new, s)) /\ (~ Full(t) => \E s \in Places(t) : IsFree(t, s))
      BY <1>1, <2>1, <3>3, <3>5, RoomLeft, Zenon
    <3> QED BY <1>1, <3>4, <3>6, Zenon DEF RoomToInsert
  <2> QED BY <1>2, <2>3, <2>4, <2>5 DEF TableSound
<1> QED BY <1>3, <1>4 DEF IInv

(* For any keys, any hash function and any sizes, whatever is added,       *)
(* deleted and moved: every key in the table is found, the links go        *)
(* through every key once, an insertion finds a place, the table that a    *)
(* resize fills never has to grow, and only refused additions keep a copy  *)
(* of a key (linkhash.c, json_object_object_add_ex).                       *)
THEOREM TableAlwaysSound == ASSUME LinkHashAssumption PROVE Spec => []TableSound
<1>1. Init => IInv
  BY InitIInv
<1>2. IInv /\ [Next]_vars => IInv'
  BY NextIInv
<1>3. IInv => TableSound
  BY IInvSound
<1> QED BY <1>1, <1>2, <1>3, PTL DEF Spec

-----------------------------------------------------------------------------
(* The keys and values along the links are the fields of an OrderedMap.    *)
Row(tb, i) == <<tb.k[tb.list[i]], tb.v[tb.list[i]]>>
Rows(tb) == [i \in DOMAIN tb.list |-> Row(tb, i)]

(* The rows of a sound table, and which of them has a key. *)
LEMMA RowsOfTable ==
    ASSUME LinkHashAssumption, NEW tb, Sound(tb)
    PROVE  /\ Rows(tb) \in Seq(Keys \X (Vals \cup {Nothing}))
           /\ DOMAIN Rows(tb) = 1 .. Len(tb.list) /\ Len(Rows(tb)) = Len(tb.list) /\ Len(tb.list) \in Nat
           /\ DOMAIN tb.list = 1 .. Len(tb.list)
           /\ \A i \in 1 .. Len(tb.list) : Rows(tb)[i] = Row(tb, i) /\ Rows(tb)[i][1] = tb.k[tb.list[i]]
<1> DEFINE n == Len(tb.list)
           D == Keys \X (Vals \cup {Nothing})
<1>1. /\ DOMAIN tb.list = 1 .. n /\ n \in Nat /\ tb.v \in [Places(tb) -> Vals \cup {Nothing}]
  BY TypedParts, SoundParts, Zenon DEF Sound
<1>2. \A i \in 1 .. n : tb.list[i] \in Places(tb) /\ tb.k[tb.list[i]] \in Keys
  BY <1>1, LinksToKeys, Zenon
<1>3. \A i \in 1 .. n : Row(tb, i) \in D /\ Row(tb, i)[1] = tb.k[tb.list[i]]
  BY <1>1, <1>2, SMT DEF Row
<1> HIDE DEF n, D
<1>4. Rows(tb) = [i \in 1 .. n |-> Row(tb, i)]
  BY <1>1, Zenon DEF Rows
<1>5. Rows(tb) \in Seq(D) /\ Len(Rows(tb)) = n /\ DOMAIN Rows(tb) = 1 .. n
  BY <1>1, <1>3, <1>4, SMT
<1>6. \A i \in 1 .. n : Rows(tb)[i] = Row(tb, i)
  BY <1>4, Zenon
<1> QED BY <1>1, <1>3, <1>5, <1>6, Zenon DEF n, D

(* An insertion appends a row. *)
LEMMA FillRows ==
    ASSUME LinkHashAssumption, NEW tb, Sound(tb), NEW s \in Places(tb), IsFree(tb, s),
           NEW key \in Keys, NEW val \in Vals
    PROVE  Rows(Fill(tb, s, key, val)) = Append(Rows(tb), <<key, val>>)
<1> DEFINE u == Fill(tb, s, key, val)
           n == Len(tb.list)
<1>1. /\ u.list = Append(tb.list, s)
      /\ u.k = [tb.k EXCEPT ![s] = key] /\ u.v = [tb.v EXCEPT ![s] = val]
  BY SMT DEF Fill, Table
<1>2. /\ tb.list \in Seq(Places(tb)) /\ DOMAIN tb.list = 1 .. n /\ n \in Nat
      /\ tb.k \in [Places(tb) -> Keys \cup {EMPTY, FREED}]
      /\ tb.v \in [Places(tb) -> Vals \cup {Nothing}]
  BY TypedParts, Zenon DEF Sound
<1>3. tb.k[s] \notin Keys
  BY MarksAreNoKeys, Zenon DEF IsFree
<1> HIDE DEF u, n
<1>4. /\ DOMAIN u.list = 1 .. n + 1 /\ u.list[n + 1] = s
      /\ \A i \in 1 .. n : u.list[i] = tb.list[i]
  BY <1>1, <1>2, SMT DEF n
<1>5. ASSUME NEW i \in 1 .. n PROVE Row(u, i) = Row(tb, i)
  <2>1. tb.list[i] \in Places(tb) /\ tb.list[i] # s
    BY <1>2, <1>3, LinksToKeys, Zenon
  <2>2. u.k[tb.list[i]] = tb.k[tb.list[i]] /\ u.v[tb.list[i]] = tb.v[tb.list[i]]
    BY <1>1, <1>2, <2>1, Zenon
  <2> QED BY <1>4, <2>2, Zenon DEF Row
<1>6. Row(u, n + 1) = <<key, val>>
  <2>1. u.k[s] = key /\ u.v[s] = val
    BY <1>1, <1>2, Zenon
  <2> QED BY <1>4, <2>1, Zenon DEF Row
<1>7. /\ Rows(tb) \in Seq(Keys \X (Vals \cup {Nothing})) /\ Len(Rows(tb)) = n
      /\ \A i \in 1 .. n : Rows(tb)[i] = Row(tb, i)
  BY RowsOfTable, Zenon DEF n
<1>8. Rows(u) = [i \in 1 .. n + 1 |-> Row(u, i)]
  BY <1>4, Zenon DEF Rows
<1> DEFINE R == Rows(tb)
           e == <<key, val>>
<1> HIDE DEF R, e
<1>9. Append(R, e) = [i \in 1 .. n + 1 |-> IF i = n + 1 THEN e ELSE R[i]]
  <2> DEFINE D == Keys \X (Vals \cup {Nothing})
             A == Append(R, e)
  <2>1. R \in Seq(D) /\ Len(R) = n
    BY <1>7 DEF R
  <2>2. e \in D
    BY SMT DEF e
  <2> HIDE DEF D
  <2>3. A \in Seq(D) /\ Len(A) = n + 1 /\ \A i \in 1 .. n + 1 : A[i] = IF i = n + 1 THEN e ELSE R[i]
    BY <1>2, <2>1, <2>2, SMT
  <2> HIDE DEF A
  <2>4. A = [i \in 1 .. n + 1 |-> A[i]]
    BY <2>3, LenProperties, Zenon
  <2> QED BY <2>3, <2>4, Zenon DEF A
<1>10. \A i \in 1 .. n + 1 : Row(u, i) = IF i = n + 1 THEN e ELSE R[i]
  <2>1. \A i \in 1 .. n + 1 : i = n + 1 \/ i \in 1 .. n
    BY <1>2, SMT
  <2> QED BY <1>5, <1>6, <1>7, <2>1, Zenon DEF R, e
<1> QED BY <1>8, <1>9, <1>10, Zenon DEF u, R, e

(* A replaced value changes its row only. *)
LEMMA ReplaceRows ==
    ASSUME LinkHashAssumption, NEW tb, Sound(tb), NEW s \in Places(tb), NEW key \in Keys,
           tb.k[s] = key, NEW val \in Vals,
           NEW u, u.list = tb.list, u.k = tb.k, u.v = [tb.v EXCEPT ![s] = val]
    PROVE  /\ \E i \in DOMAIN Rows(tb) : Rows(tb)[i][1] = key
           /\ Rows(u) = [i \in DOMAIN Rows(tb) |->
                           IF Rows(tb)[i][1] = key THEN <<key, val>> ELSE Rows(tb)[i]]
<1> DEFINE v == [tb.v EXCEPT ![s] = val]
           n == Len(tb.list)
<1>1. /\ DOMAIN tb.list = 1 .. n /\ tb.v \in [Places(tb) -> Vals \cup {Nothing}]
  BY TypedParts, Zenon DEF Sound
<1>2. v[s] = val /\ \A q \in Places(tb) : q # s => v[q] = tb.v[q]
  BY <1>1, Zenon
<1> HIDE DEF v
<1>3. u.list = tb.list /\ u.k = tb.k /\ u.v = v
  BY Zenon DEF v
<1> HIDE DEF n
<1>4. PICK p \in 1 .. n : tb.list[p] = s
  BY <1>1, LinksToKeys, Zenon
<1>5. \A i \in 1 .. n : tb.k[tb.list[i]] = key <=> tb.list[i] = s
  BY <1>1, <1>4, Zenon DEF Sound, Linked
<1>6. /\ DOMAIN Rows(tb) = 1 .. n
      /\ \A i \in 1 .. n : Rows(tb)[i] = Row(tb, i) /\ Rows(tb)[i][1] = tb.k[tb.list[i]]
  BY RowsOfTable, Zenon DEF n
<1>7. ASSUME NEW i \in 1 .. n PROVE Row(u, i) = IF Rows(tb)[i][1] = key THEN <<key, val>> ELSE Rows(tb)[i]
  <2>1. tb.list[i] \in Places(tb)
    BY <1>1, LinksToKeys, Zenon
  <2>2. CASE tb.list[i] = s
    BY <1>2, <1>3, <1>6, <2>2, Zenon DEF Row
  <2>3. CASE tb.list[i] # s
    <3>1. Rows(tb)[i] = Row(tb, i) /\ Rows(tb)[i][1] # key
      BY <1>5, <1>6, <2>3, Zenon
    <3>2. Row(u, i) = Row(tb, i)
      BY <1>2, <1>3, <2>1, <2>3, Zenon DEF Row
    <3> QED BY <3>1, <3>2, Zenon
  <2> QED BY <2>2, <2>3
<1>8. Rows(u) = [i \in 1 .. n |-> Row(u, i)]
  BY <1>1, <1>3, Zenon DEF Rows
<1>9. \E i \in 1 .. n : Rows(tb)[i][1] = key
  BY <1>4, <1>6, Zenon
<1> QED BY <1>6, <1>7, <1>8, <1>9, ZenonT(60)

(* A deletion takes a row out. *)
LEMMA ClearRows ==
    ASSUME LinkHashAssumption, NEW tb, Sound(tb), NEW p \in DOMAIN tb.list
    PROVE  Rows(Clear(tb, p)) =
             [i \in 1 .. Len(Rows(tb)) - 1 |-> Rows(tb)[IF i < p THEN i ELSE i + 1]]
<1> DEFINE u == Clear(tb, p)
           n == Len(tb.list)
           s == tb.list[p]
           list == Without(tb.list, p)
           Back(i) == IF i < p THEN i ELSE i + 1
<1>1. /\ DOMAIN tb.list = 1 .. n /\ n \in Nat /\ p \in 1 .. n
      /\ tb.k \in [Places(tb) -> Keys \cup {EMPTY, FREED}]
      /\ tb.v \in [Places(tb) -> Vals \cup {Nothing}]
  BY TypedParts, Zenon DEF Sound
<1>2. u.list = list /\ u.k = [tb.k EXCEPT ![s] = FREED] /\ u.v = [tb.v EXCEPT ![s] = Nothing]
  BY SMT DEF Clear, Table
<1>3. \A i \in 1 .. n - 1 : Back(i) \in 1 .. n /\ Back(i) # p
  BY <1>1, SMT
<1>4. list = [i \in 1 .. n - 1 |-> tb.list[Back(i)]]
  <2>1. \A i \in 1 .. n - 1 : (IF i < p THEN tb.list[i] ELSE tb.list[i + 1]) = tb.list[Back(i)]
    BY Zenon
  <2> QED BY <2>1, Zenon DEF Without
<1> HIDE DEF u, n, s, list, Back
<1>5. \A i, j \in 1 .. n : tb.k[tb.list[i]] = tb.k[tb.list[j]] => i = j
  BY <1>1, Zenon DEF Sound, Linked
<1>6. /\ Len(Rows(tb)) = n /\ \A i \in 1 .. n : Rows(tb)[i] = Row(tb, i)
  BY RowsOfTable, Zenon DEF n
<1>7. ASSUME NEW i \in 1 .. n - 1 PROVE Row(u, i) = Rows(tb)[Back(i)]
  <2>1. tb.list[Back(i)] \in Places(tb) /\ tb.list[Back(i)] # s /\ Back(i) \in 1 .. n
    BY <1>1, <1>3, <1>5, LinksToKeys, Zenon DEF s
  <2>2. u.list[i] = tb.list[Back(i)]
    BY <1>2, <1>4, Zenon
  <2>3. u.k[tb.list[Back(i)]] = tb.k[tb.list[Back(i)]] /\ u.v[tb.list[Back(i)]] = tb.v[tb.list[Back(i)]]
    BY <1>1, <1>2, <2>1, Zenon
  <2> QED BY <1>6, <2>1, <2>2, <2>3, Zenon DEF Row
<1>8. Rows(u) = [i \in 1 .. n - 1 |-> Row(u, i)]
  <2>1. DOMAIN u.list = 1 .. n - 1
    BY <1>2, <1>4, Zenon
  <2> QED BY <2>1, Zenon DEF Rows
<1> QED BY <1>6, <1>7, <1>8, Zenon DEF u, Back

(* At the end of a resize the new table has the rows of the old one. *)
LEMMA CopiedRows ==
    ASSUME LinkHashAssumption, Sound(t), Resizing, copied = Len(t.list), NEW tb,
           tb.list = new.list, tb.k = new.k, tb.v = new.v
    PROVE  Rows(tb) = Rows(t)
<1>1. DOMAIN new.list = 1 .. copied /\ DOMAIN t.list = 1 .. copied
  <2>1. DOMAIN t.list = 1 .. Len(t.list)
    BY SoundParts, Zenon
  <2>2. DOMAIN new.list = 1 .. Len(new.list) /\ new.count = Len(new.list) /\ new.count = copied
    BY SoundParts, Zenon DEF Resizing
  <2> QED BY <2>1, <2>2, Zenon
<1>2. \A i \in 1 .. copied : Row(tb, i) = Row(t, i)
  BY Zenon DEF Resizing, Row
<1> QED BY <1>1, <1>2, Zenon DEF Rows

-----------------------------------------------------------------------------
(* Every step of the table is a step of the map, or leaves it alone: what  *)
(* a resize does is not seen.                                              *)
LEMMA MapInit == LinkHashAssumption /\ Init => Map!Init
<1> SUFFICES ASSUME LinkHashAssumption, Init PROVE [i \in DOMAIN t.list |-> <<t.k[t.list[i]], t.v[t.list[i]]>>] = <<>>
  BY DEF Map!Init
<1>1. t.list = <<>>
  BY SMT DEF Init, NewTable, Table
<1> QED BY <1>1, SMT

LEMMA AppendsRow ==
    ASSUME LinkHashAssumption, Sound(t), NEW key \in Keys, NEW val \in Vals, Lacks(t, key),
           Rows(t)' = Append(Rows(t), <<key, val>>)
    PROVE  Map!Next
<1>1. \A i \in DOMAIN Rows(t) : Rows(t)[i][1] # key
  <2>1. /\ DOMAIN Rows(t) = 1 .. Len(t.list) /\ DOMAIN t.list = 1 .. Len(t.list)
        /\ \A i \in 1 .. Len(t.list) : Rows(t)[i][1] = t.k[t.list[i]]
    BY RowsOfTable, Zenon
  <2> QED BY <2>1, LinksToKeys, Zenon DEF Lacks
<1>2. Map!Append1(key, val)
  BY <1>1, Zenon DEF Map!Append1, Map!Has, Rows, Row
<1> QED BY <1>2, Zenon DEF Map!Next

LEMMA MapAddExisting ==
    ASSUME LinkHashAssumption, IInv, NEW key \in Keys, NEW val \in Vals, AddExisting(key, val)
    PROVE  Map!Next
<1>1. PICK i \in Places(t) :
        /\ t.k[Probe(t, key, i)] = key
        /\ t' = Table(t.size, t.count, t.list, t.k, [t.v EXCEPT ![Probe(t, key, i)] = val])
  BY Zenon DEF AddExisting, FoundAt
<1> DEFINE s == Probe(t, key, i)
<1>2. Sound(t) /\ s \in Places(t)
  <2>1. Sound(t) /\ t.size \in 1 .. IntMax
    BY TypedParts, Zenon DEF IInv, Sound
  <2>2. i \in Nat
    BY <2>1, SMT DEF Places, LinkHashAssumption
  <2> QED BY <2>1, <2>2, ProbeIsPlace, Zenon
<1>3. t.k[s] = key /\ t' = Table(t.size, t.count, t.list, t.k, [t.v EXCEPT ![s] = val])
  BY <1>1
<1> HIDE DEF s
<1>4. /\ \E j \in DOMAIN Rows(t) : Rows(t)[j][1] = key
      /\ Rows(t') = [j \in DOMAIN Rows(t) |-> IF Rows(t)[j][1] = key THEN <<key, val>> ELSE Rows(t)[j]]
  <2> DEFINE v == [t.v EXCEPT ![s] = val]
  <2>1. t' = Table(t.size, t.count, t.list, t.k, v)
    BY <1>3
  <2> HIDE DEF v
  <2>2. t'.list = t.list /\ t'.k = t.k /\ t'.v = v
    BY <2>1, SMT DEF Table
  <2> QED BY <1>2, <1>3, <2>2, ReplaceRows, SMTT(60) DEF v
<1>5. Map!Replace(key, val)
  BY <1>4, Zenon DEF Map!Replace, Map!Has, Rows, Row
<1> QED BY <1>5, Zenon DEF Map!Next

LEMMA MapAddNew ==
    ASSUME LinkHashAssumption, IInv, NEW key \in Keys, NEW val \in Vals, AddNew(key, val)
    PROVE  Map!Next
<1>1. PICK i \in Places(t) : FreeAt(t, key, i) /\ t' = Fill(t, Probe(t, key, i), key, val)
  BY Zenon DEF AddNew
<1>2. Sound(t) /\ Lacks(t, key)
  BY NotFoundLacks, Zenon DEF IInv, AddNew
<1> DEFINE s == Probe(t, key, i)
<1>3. s \in Places(t) /\ IsFree(t, s) /\ t' = Fill(t, s, key, val)
  BY <1>1, <1>2, FillSound, Zenon DEF FreeAt
<1> HIDE DEF s
<1>4. Rows(t') = Append(Rows(t), <<key, val>>)
  BY <1>2, <1>3, FillRows, Zenon
<1>5. Rows(t)' = Rows(t')
  BY DEF Rows, Row
<1> QED BY <1>2, <1>4, <1>5, AppendsRow, Zenon

LEMMA MapResized == ASSUME LinkHashAssumption, IInv, Resized PROVE Map!Next
<1> DEFINE key == adding[1]
           val == adding[2]
           grown == Table(new.size, t.count, new.list, new.k, new.v)
<1>1. Resizing /\ Sound(t) /\ Sound(new) /\ copied = Len(t.list)
  BY Zenon DEF IInv, Resized, Ready, NotResizing, Resizing
<1>2. PICK i \in Places(new) : FreeAt(grown, key, i) /\ t' = Fill(grown, Probe(grown, key, i), key, val)
  BY Zenon DEF Resized
<1>3. key \in Keys /\ val \in Vals
  BY <1>1, SMT DEF Resizing
<1> HIDE DEF key, val
<1>4. new.count = t.count /\ new.v \in [Places(new) -> Vals \cup {Nothing}]
  BY <1>1, SoundParts, Zenon DEF Resizing
<1>5. grown = Table(new.size, new.count, new.list, new.k, new.v)
  BY <1>4, Zenon
<1> HIDE DEF grown
<1>6. Sound(grown) /\ grown.size = new.size /\ grown.list = new.list /\ grown.k = new.k /\ grown.v = new.v
  <2>1. Sound(grown)
    BY <1>1, <1>4, <1>5, SameKeysSound, SMT
  <2>2. grown.size = new.size /\ grown.list = new.list /\ grown.k = new.k /\ grown.v = new.v
    BY <1>5, SMT DEF Table
  <2> QED BY <2>1, <2>2
<1> DEFINE r == Probe(grown, key, i)
<1>7. r \in Places(grown) /\ IsFree(grown, r) /\ t' = Fill(grown, r, key, val)
  <2>1. grown.size \in 1 .. IntMax /\ i \in Nat
    <3>1. grown.size \in 1 .. IntMax
      BY <1>6, TypedParts, Zenon DEF Sound
    <3> QED BY <1>6, <3>1, SMT DEF Places, LinkHashAssumption
  <2>2. r \in Places(grown)
    BY <1>3, <2>1, ProbeIsPlace, Zenon
  <2> QED BY <1>2, <2>2, Zenon DEF FreeAt
<1> HIDE DEF r
<1>8. Rows(t') = Append(Rows(grown), <<key, val>>)
  BY <1>3, <1>6, <1>7, FillRows, Zenon
<1>9. Rows(grown) = Rows(t)
  BY <1>1, <1>6, CopiedRows, Zenon
<1>10. Lacks(t, key)
  BY <1>1, Zenon DEF Resizing, key
<1>11. Rows(t)' = Rows(t')
  BY DEF Rows, Row
<1> QED BY <1>1, <1>3, <1>8, <1>9, <1>10, <1>11, AppendsRow, Zenon

LEMMA MapDel ==
    ASSUME LinkHashAssumption, IInv, NEW key \in Keys, Del(key) PROVE Map!Next
<1>1. PICK p \in DOMAIN t.list : t.k[t.list[p]] = key /\ t' = Clear(t, p)
  BY Zenon DEF Del, FoundAt
<1>2. Sound(t)
  BY DEF IInv
<1>3. Rows(t') = [i \in 1 .. Len(Rows(t)) - 1 |-> Rows(t)[IF i < p THEN i ELSE i + 1]]
  BY <1>1, <1>2, ClearRows, Zenon
<1>4. p \in DOMAIN Rows(t) /\ Rows(t)[p][1] = key
  BY <1>1, <1>2, RowsOfTable, Zenon
<1>5. Map!Delete(key)
  BY <1>3, <1>4, Zenon DEF Map!Delete, Rows, Row
<1> QED BY <1>5, Zenon DEF Map!Next

LEMMA MapStep ==
    ASSUME LinkHashAssumption, IInv, [Next]_vars
    PROVE  Map!Next \/ UNCHANGED [i \in DOMAIN t.list |-> <<t.k[t.list[i]], t.v[t.list[i]]>>]
<1>1. ASSUME UNCHANGED t
      PROVE  UNCHANGED [i \in DOMAIN t.list |-> <<t.k[t.list[i]], t.v[t.list[i]]>>]
  BY <1>1
<1>2. ASSUME NEW key \in Keys, NEW val \in Vals, AddResizes(key, val) PROVE UNCHANGED t
  BY <1>2 DEF AddResizes
<1>3. ASSUME NEW key \in Keys, AddNoString(key) \/ AddRefused(key) \/ DelMissing(key) PROVE UNCHANGED t
  BY <1>3 DEF AddNoString, AddRefused, DelMissing
<1>4. ASSUME Copy \/ ForeachBegin \/ ForeachNext \/ ForeachEnd \/ UNCHANGED vars PROVE UNCHANGED t
  BY <1>4 DEF Copy, ForeachBegin, ForeachNext, ForeachEnd, vars
<1> QED
  BY <1>1, <1>2, <1>3, <1>4, MapAddExisting, MapAddNew, MapResized, MapDel, Zenon DEF Next

(* The table is an ordered map: a new key goes to the end, a replaced      *)
(* value stays in its place, a deletion and a resize keep the order of the *)
(* others, and no operation does anything else to the fields.              *)
THEOREM TableIsOrderedMap == ASSUME LinkHashAssumption PROVE Spec => ImplementsMap
<1>1. Init => IInv /\ Map!Init
  BY InitIInv, MapInit
<1>2. IInv /\ [Next]_vars => IInv'
  BY NextIInv
<1>3. IInv /\ [Next]_vars => [Map!Next]_([i \in DOMAIN t.list |-> <<t.k[t.list[i]], t.v[t.list[i]]>>])
  BY MapStep
<1> QED BY <1>1, <1>2, <1>3, PTL DEF Spec, ImplementsMap, Map!Spec
-----------------------------------------------------------------------------
(* The foreach loop.                                                       *)

\* the key at a link
KeyAt(p) == t.k[t.list[p]]
\* the loop has given the key
WasSeen(key) == \E i \in DOMAIN seen : seen[i] = key

\* The keys that are left are keys that the loop began with, in their order.
Left ==
    /\ \E n \in Nat : iter.start \in [1 .. n -> Keys]
    /\ \A a, b \in DOMAIN iter.start : iter.start[a] = iter.start[b] => a = b
    /\ \A p \in DOMAIN t.list : \E a \in DOMAIN iter.start : iter.start[a] = KeyAt(p)
    /\ \A p, q \in DOMAIN t.list : \A a, b \in DOMAIN iter.start :
         p < q /\ iter.start[a] = KeyAt(p) /\ iter.start[b] = KeyAt(q) => a < b

\* What the loop has given came in order.
InOrder ==
    /\ seen \in Seq(Keys)
    /\ \E at \in [DOMAIN seen -> DOMAIN iter.start] :
         /\ \A i \in DOMAIN seen : iter.start[at[i]] = seen[i]
         /\ \A i, j \in DOMAIN seen : i < j => at[i] < at[j]

\* The loop has given all that is left before the link q, and nothing from q on.
Before(q) ==
    /\ \A p \in DOMAIN t.list : p < q => WasSeen(KeyAt(p))
    /\ \A i \in DOMAIN seen : \A a, b \in DOMAIN iter.start :
         iter.start[a] = seen[i] /\ iter.start[b] = KeyAt(q) => a < b

\* While a loop runs: unless spoiled, it has given what is left before its next link.
LoopRunning ==
    /\ iter.on = TRUE /\ DOMAIN iter = {"on", "next", "spoiled", "start"}
    /\ iter.spoiled \in BOOLEAN
    /\ Ready /\ Left
    /\ ~ iter.spoiled =>
         /\ InOrder
         /\ \/ iter.next = Nowhere /\ \A p \in DOMAIN t.list : WasSeen(KeyAt(p))
            \/ \E q \in DOMAIN t.list : iter.next = t.list[q] /\ Before(q)

\* The invariant of the loop.
LoopInv == iter = Idle \/ LoopRunning

(* No place is Nowhere, and the links of a sound table go to each place    *)
(* and to each key once.                                                   *)
LEMMA LinksOnce ==
    ASSUME LinkHashAssumption, Sound(t)
    PROVE  /\ \A p \in DOMAIN t.list : t.list[p] # Nowhere /\ KeyAt(p) \in Keys
           /\ \A p, q \in DOMAIN t.list : t.list[p] = t.list[q] \/ KeyAt(p) = KeyAt(q) => p = q
           /\ DOMAIN t.list = 1 .. Len(t.list) /\ Len(t.list) \in Nat
           /\ \A s \in Places(t) : t.k[s] \in Keys => \E p \in DOMAIN t.list : KeyAt(p) = t.k[s]
<1>1. /\ t.size \in Nat /\ t.size <= IntMax /\ IntMax \in Nat
      /\ t.list \in Seq(Places(t)) /\ DOMAIN t.list = 1 .. Len(t.list)
  BY SoundParts
<1>2. \A p \in DOMAIN t.list : t.list[p] \in Places(t) /\ t.k[t.list[p]] \in Keys
  BY LinksToKeys
<1>3. \A s \in Places(t) : s # Nowhere
  BY <1>1, SMT DEF Places, Nowhere
<1>4. \A p, q \in DOMAIN t.list : KeyAt(p) = KeyAt(q) => p = q
  BY DEF Sound, Linked, KeyAt
<1>5. \A p, q \in DOMAIN t.list : t.list[p] = t.list[q] => p = q
  BY <1>4 DEF KeyAt
<1>6. \A s \in Places(t) : t.k[s] \in Keys => \E p \in DOMAIN t.list : KeyAt(p) = t.k[s]
  BY LinksToKeys, Zenon DEF KeyAt
<1>7. Len(t.list) \in Nat
  BY <1>1, LenProperties
<1> QED BY <1>1, <1>2, <1>3, <1>4, <1>5, <1>6, <1>7 DEF KeyAt

(* What follows a link is the next link, or nothing.                       *)
LEMMA NextLink ==
    ASSUME LinkHashAssumption, Sound(t), NEW p \in DOMAIN t.list
    PROVE  NextOf(t.list[p]) = IF p + 1 \in DOMAIN t.list THEN t.list[p + 1] ELSE Nowhere
<1>1. /\ DOMAIN t.list = 1 .. Len(t.list) /\ Len(t.list) \in Nat
      /\ \A i, j \in DOMAIN t.list : t.list[i] = t.list[j] => i = j
  BY LinksOnce
<1>2. p + 1 \in DOMAIN t.list <=> p < Len(t.list)
  BY <1>1, SMT
<1>3. (CHOOSE i \in DOMAIN t.list : t.list[i] = t.list[p]) = p
  BY <1>1
<1>4. (\E i \in DOMAIN t.list : t.list[i] = t.list[p] /\ i < Len(t.list)) <=> p < Len(t.list)
  BY <1>1
<1> QED BY <1>2, <1>3, <1>4, Zenon DEF NextOf

\* The first turn.
LEMMA LoopBegins == ASSUME LinkHashAssumption, IInv, ForeachBegin PROVE LoopInv'
<1>1. Sound(t)
  BY DEF IInv
<1> DEFINE n == Len(t.list)
<1>2. /\ DOMAIN t.list = 1 .. n /\ n \in Nat
      /\ \A p \in DOMAIN t.list : KeyAt(p) \in Keys
      /\ \A p, q \in DOMAIN t.list : KeyAt(p) = KeyAt(q) => p = q
  BY <1>1, LinksOnce
<1>3. /\ Ready /\ t.list # <<>> /\ UNCHANGED <<t, adding>> /\ seen' = <<KeyAt(1)>>
      /\ iter' = [on |-> TRUE, next |-> NextOf(t.list[1]), spoiled |-> FALSE,
                  start |-> [i \in DOMAIN t.list |-> KeyAt(i)]]
  BY Zenon DEF ForeachBegin, KeyAt
<1>4. 1 \in DOMAIN t.list
  <2>1. t.list \in Seq(Places(t))
    BY <1>1, SoundParts
  <2>2. n # 0
    BY <1>3, <2>1, EmptySeq
  <2> QED BY <1>2, <2>2, SMT
<1>5. /\ iter'.on = TRUE /\ iter'.next = NextOf(t.list[1]) /\ iter'.spoiled = FALSE
      /\ iter'.start = [i \in 1 .. n |-> KeyAt(i)]
  BY <1>2, <1>3
<1>6. iter'.on = TRUE /\ DOMAIN iter' = {"on", "next", "spoiled", "start"}
  BY <1>2, <1>3, <1>5
<1> HIDE DEF n
<1>7. DOMAIN iter'.start = 1 .. n /\ \A i \in 1 .. n : iter'.start[i] = KeyAt(i)
  BY <1>5
<1>8. \A p : KeyAt(p)' = KeyAt(p)
  BY <1>3 DEF KeyAt
<1>9. Left'
  <2>1. \E m \in Nat : iter'.start \in [1 .. m -> Keys]
    BY <1>2, <1>5
  <2>2. t'.list = t.list /\ DOMAIN t'.list = 1 .. n
    BY <1>2, <1>3
  <2>3. \A a, b \in 1 .. n : iter'.start[a] = iter'.start[b] => a = b
    BY <1>2, <1>7
  <2>4. \A p \in 1 .. n : \E a \in 1 .. n : iter'.start[a] = KeyAt(p)
    BY <1>7
  <2>5. \A p, q \in 1 .. n : \A a, b \in 1 .. n :
          p < q /\ iter'.start[a] = KeyAt(p) /\ iter'.start[b] = KeyAt(q) => a < b
    BY <1>2, <1>7
  <2> QED BY <1>7, <1>8, <2>1, <2>2, <2>3, <2>4, <2>5, Zenon DEF Left
<1>10. InOrder'
  <2>1. seen' \in Seq(Keys) /\ DOMAIN seen' = {1} /\ seen'[1] = KeyAt(1)
    BY <1>2, <1>3, <1>4
  <2> DEFINE at == [i \in {1} |-> 1]
  <2>2. at \in [DOMAIN seen' -> DOMAIN iter'.start] /\ at[1] = 1
    BY <1>2, <1>4, <1>7, <2>1
  <2>3. \A i \in DOMAIN seen' : iter'.start[at[i]] = seen'[i]
    BY <1>2, <1>4, <1>7, <2>1, <2>2
  <2>4. \A i, j \in DOMAIN seen' : ~ (i < j)
    BY <2>1
  <2> QED BY <2>1, <2>2, <2>3, <2>4, Zenon DEF InOrder
<1>11. DOMAIN seen' = {1} /\ seen'[1] = KeyAt(1)
  BY <1>3
<1>12. CASE 2 \in DOMAIN t.list
  <2>1. iter'.next = t.list[2]
    BY <1>1, <1>4, <1>5, <1>12, NextLink
  <2>2. \A p \in DOMAIN t.list : p < 2 => p = 1
    BY <1>2
  <2>3. \A a, b \in 1 .. n : KeyAt(a) = KeyAt(1) /\ KeyAt(b) = KeyAt(2) => a < b
    BY <1>2, <1>4, <1>12
  <2>4. Before(2)'
    BY <1>2, <1>3, <1>7, <1>8, <1>11, <2>2, <2>3 DEF Before, WasSeen
  <2> QED BY <1>3, <1>5, <1>6, <1>9, <1>10, <1>12, <2>1, <2>4, Zenon DEF LoopInv, LoopRunning, Ready
<1>13. CASE 2 \notin DOMAIN t.list
  <2>1. iter'.next = Nowhere
    <3>1. NextOf(t.list[1]) = IF 1 + 1 \in DOMAIN t.list THEN t.list[1 + 1] ELSE Nowhere
      BY <1>1, <1>4, NextLink
    <3>2. 1 + 1 = 2
      OBVIOUS
    <3> QED BY <1>5, <1>13, <3>1, <3>2, Zenon
  <2>2. \A p \in DOMAIN t.list : p = 1
    BY <1>2, <1>4, <1>13, SMT
  <2>3. (\A p \in DOMAIN t.list : WasSeen(KeyAt(p)))'
    BY <1>3, <1>8, <1>11, <2>2 DEF WasSeen
  <2> QED BY <1>3, <1>5, <1>6, <1>9, <1>10, <2>1, <2>3, Zenon DEF LoopInv, LoopRunning, Ready, Nowhere
<1> QED BY <1>12, <1>13

(* A step that leaves the links and the keys leaves what is left.          *)
LEMMA LeftKept ==
    ASSUME Left, t'.list = t.list, iter'.start = iter.start, \A p : KeyAt(p)' = KeyAt(p)
    PROVE  Left'
<1>1. /\ \E n \in Nat : iter'.start \in [1 .. n -> Keys]
      /\ \A a, b \in DOMAIN iter'.start : iter'.start[a] = iter'.start[b] => a = b
  BY Zenon DEF Left
<1>2. \A p \in DOMAIN t'.list : \E a \in DOMAIN iter'.start : iter'.start[a] = KeyAt(p)'
  <2>1. \A p \in DOMAIN t.list : \E a \in DOMAIN iter.start : iter.start[a] = KeyAt(p)
    BY Zenon DEF Left
  <2> QED BY <2>1
<1>3. \A p, q \in DOMAIN t'.list : \A a, b \in DOMAIN iter'.start :
        p < q /\ iter'.start[a] = KeyAt(p)' /\ iter'.start[b] = KeyAt(q)' => a < b
  <2>1. \A p, q \in DOMAIN t.list : \A a, b \in DOMAIN iter.start :
          p < q /\ iter.start[a] = KeyAt(p) /\ iter.start[b] = KeyAt(q) => a < b
    BY Zenon DEF Left
  <2> QED BY <2>1
<1> QED BY <1>1, <1>2, <1>3, Zenon DEF Left

(* A turn of the loop.                                                     *)
LEMMA LoopGoesOn ==
    ASSUME LinkHashAssumption, IInv, LoopRunning, ForeachNext, ~ iter.spoiled,
           NEW q \in DOMAIN t.list, iter.next = t.list[q], Before(q)
    PROVE  /\ InOrder'
           /\ q + 1 \in DOMAIN t.list => iter'.next = t.list[q + 1] /\ Before(q + 1)'
           /\ q + 1 \notin DOMAIN t.list =>
                iter'.next = Nowhere /\ (\A p \in DOMAIN t.list : WasSeen(KeyAt(p)))'
<1> DEFINE m == Len(seen)
<1>1. /\ DOMAIN t.list = 1 .. Len(t.list) /\ Len(t.list) \in Nat
      /\ \A p \in DOMAIN t.list : KeyAt(p) \in Keys
  BY LinksOnce DEF IInv
<1>2. /\ UNCHANGED t /\ seen' = Append(seen, KeyAt(q)) /\ iter'.start = iter.start
      /\ iter'.next = NextOf(t.list[q])
  BY DEF ForeachNext, LoopRunning, KeyAt
<1>3. seen \in Seq(Keys) /\ DOMAIN seen = 1 .. m /\ m \in Nat
  BY DEF LoopRunning, InOrder
<1>4. /\ seen' \in Seq(Keys) /\ DOMAIN seen' = 1 .. m + 1 /\ seen'[m + 1] = KeyAt(q)
      /\ \A i \in 1 .. m : seen'[i] = seen[i]
  BY <1>1, <1>2, <1>3, SMT
<1>5. PICK c \in DOMAIN iter.start : iter.start[c] = KeyAt(q)
  BY DEF LoopRunning, Left
<1>6. \A p : KeyAt(p)' = KeyAt(p)
  BY <1>2 DEF KeyAt
<1>7. \A i \in 1 .. m : \A a, b \in DOMAIN iter.start :
        iter.start[a] = seen[i] /\ iter.start[b] = KeyAt(q) => a < b
  BY <1>3 DEF Before
<1>8. /\ \A p \in DOMAIN t.list : p < q => \E i \in 1 .. m : seen[i] = KeyAt(p)
  BY <1>3, Zenon DEF Before, WasSeen
<1>9. \E k \in Nat : iter.start \in [1 .. k -> Keys]
  BY DEF LoopRunning, Left
<1>10. \A a \in DOMAIN iter.start : a \in Int
  BY <1>9, SMT
<1>11. \A p, r \in DOMAIN t.list : \A a, b \in DOMAIN iter.start :
         p < r /\ iter.start[a] = KeyAt(p) /\ iter.start[b] = KeyAt(r) => a < b
  BY Zenon DEF LoopRunning, Left
<1>12. PICK at \in [1 .. m -> DOMAIN iter.start] :
         /\ \A i \in 1 .. m : iter.start[at[i]] = seen[i]
         /\ \A i, j \in 1 .. m : i < j => at[i] < at[j]
  BY <1>3, Zenon DEF LoopRunning, InOrder
<1> HIDE DEF m
<1>13. InOrder'
  <2> DEFINE to == [i \in 1 .. m + 1 |-> IF i = m + 1 THEN c ELSE at[i]]
  <2>1. to \in [1 .. m + 1 -> DOMAIN iter.start]
    BY <1>3, SMT
  <2>2. to[m + 1] = c /\ \A i \in 1 .. m : to[i] = at[i] /\ i # m + 1
    BY <1>3, SMT
  <2> HIDE DEF to
  <2>3. \A i \in 1 .. m + 1 : i \in 1 .. m \/ i = m + 1
    BY <1>3, SMT
  <2>4. \A i \in 1 .. m + 1 : iter.start[to[i]] = seen'[i]
    BY <1>4, <1>5, <1>12, <2>2, <2>3, Zenon
  <2>5. ASSUME NEW i \in 1 .. m + 1, NEW j \in 1 .. m + 1, i < j PROVE to[i] < to[j]
    <3>1. i \in 1 .. m
      BY <1>3, <2>5, SMT
    <3>2. CASE j = m + 1
      BY <1>5, <1>7, <1>12, <2>2, <3>1, <3>2, Zenon
    <3>3. CASE j \in 1 .. m
      BY <1>12, <2>2, <2>5, <3>1, <3>3, Zenon
    <3> QED BY <2>3, <3>2, <3>3
  <2>6. to \in [DOMAIN seen' -> DOMAIN iter'.start]
    BY <1>2, <1>4, <2>1
  <2>7. \A i \in DOMAIN seen' : iter'.start[to[i]] = seen'[i]
    BY <1>2, <1>4, <2>4
  <2>8. \A i, j \in DOMAIN seen' : i < j => to[i] < to[j]
    BY <1>4, <2>5
  <2> QED BY <1>4, <2>6, <2>7, <2>8, Zenon DEF InOrder
<1>14. NextOf(t.list[q]) = IF q + 1 \in DOMAIN t.list THEN t.list[q + 1] ELSE Nowhere
  BY NextLink DEF IInv
<1>15. \A p \in DOMAIN t.list : p < q + 1 => p < q \/ p = q
  BY <1>1, SMT
<1>16. m + 1 \in 1 .. m + 1 /\ \A i \in 1 .. m : i \in 1 .. m + 1
  BY <1>3, SMT
<1>17. \A p \in DOMAIN t.list : p < q + 1 => WasSeen(KeyAt(p))'
  <2>1. ASSUME NEW p \in DOMAIN t.list, p < q PROVE \E i \in 1 .. m + 1 : seen'[i] = KeyAt(p)
    BY <1>4, <1>8, <1>16, <2>1, Zenon
  <2>2. \E i \in 1 .. m + 1 : seen'[i] = KeyAt(q)
    BY <1>4, <1>16, Zenon
  <2> QED BY <1>4, <1>6, <1>15, <2>1, <2>2, Zenon DEF WasSeen
<1>18. ASSUME q + 1 \in DOMAIN t.list PROVE Before(q + 1)'
  <2>1. q < q + 1 /\ \A i \in 1 .. m + 1 : i \in 1 .. m \/ i = m + 1
    BY <1>1, <1>3, SMT
  <2>2. ASSUME NEW i \in 1 .. m + 1, NEW a \in DOMAIN iter.start, NEW b \in DOMAIN iter.start,
               iter.start[a] = seen'[i], iter.start[b] = KeyAt(q + 1)
        PROVE  a < b
    <3>1. c < b
      BY <1>5, <1>11, <1>18, <2>1, <2>2, Zenon
    <3>2. CASE i \in 1 .. m
      <4>1. a < c
        BY <1>4, <1>5, <1>7, <2>2, <3>2, Zenon
      <4> QED BY <1>10, <3>1, <4>1, SMT
    <3>3. CASE i = m + 1
      BY <1>4, <1>11, <1>18, <2>1, <2>2, <3>3, Zenon
    <3> QED BY <2>1, <3>2, <3>3
  <2>3. ((\A p \in DOMAIN t.list : p < q + 1 => WasSeen(KeyAt(p))))'
    BY <1>2, <1>17, Zenon
  <2>4. (\A i \in DOMAIN seen : \A a, b \in DOMAIN iter.start :
           iter.start[a] = seen[i] /\ iter.start[b] = KeyAt(q + 1) => a < b)'
    <3>1. \A i \in DOMAIN seen' : \A a, b \in DOMAIN iter.start :
            iter.start[a] = seen'[i] /\ iter.start[b] = KeyAt(q + 1) => a < b
      BY <1>4, <2>2, Zenon
    <3>2. KeyAt(q + 1)' = KeyAt(q + 1) /\ iter'.start = iter.start
      BY <1>2, <1>6, Zenon
    <3> QED BY <3>1, <3>2, Zenon
  <2> QED BY <2>3, <2>4, Zenon DEF Before
<1>19. ASSUME q + 1 \notin DOMAIN t.list PROVE (\A p \in DOMAIN t.list : WasSeen(KeyAt(p)))'
  <2>1. \A p \in DOMAIN t.list : p < q + 1
    BY <1>1, <1>19, SMT
  <2> QED BY <1>2, <1>17, <2>1, Zenon
<1> QED BY <1>2, <1>13, <1>14, <1>18, <1>19, Zenon

\* A turn keeps the invariant, spoiled or not.
LEMMA LoopNext == ASSUME LinkHashAssumption, IInv, LoopRunning, ForeachNext PROVE LoopInv'
<1>1. /\ UNCHANGED <<t, adding>>
      /\ iter'.on = TRUE /\ DOMAIN iter' = {"on", "next", "spoiled", "start"}
      /\ iter'.spoiled = iter.spoiled /\ iter'.start = iter.start /\ iter.next # Nowhere
  BY DEF ForeachNext, LoopRunning
<1>2. \A p : KeyAt(p)' = KeyAt(p)
  BY <1>1 DEF KeyAt
<1>3. Left'
  BY <1>1, <1>2, LeftKept, Zenon DEF LoopRunning
<1>4. Ready' /\ iter'.spoiled \in BOOLEAN
  BY <1>1, Zenon DEF LoopRunning, Ready
<1>5. CASE iter.spoiled
  BY <1>1, <1>3, <1>4, <1>5, Zenon DEF LoopInv, LoopRunning
<1>6. CASE ~ iter.spoiled
  <2>1. PICK q \in DOMAIN t.list : iter.next = t.list[q] /\ Before(q)
    BY <1>1, <1>6, Zenon DEF LoopRunning
  <2>2. /\ InOrder'
        /\ q + 1 \in DOMAIN t.list => iter'.next = t.list[q + 1] /\ Before(q + 1)'
        /\ q + 1 \notin DOMAIN t.list =>
             iter'.next = Nowhere /\ (\A p \in DOMAIN t.list : WasSeen(KeyAt(p)))'
    BY <1>6, <2>1, LoopGoesOn
  <2>3. CASE q + 1 \in DOMAIN t.list
    <3>1. (\E r \in DOMAIN t.list : iter.next = t.list[r] /\ Before(r))'
      BY <1>1, <2>2, <2>3, Zenon
    <3> QED BY <1>1, <1>3, <1>4, <2>2, <3>1, Zenon DEF LoopInv, LoopRunning
  <2>4. CASE q + 1 \notin DOMAIN t.list
    <3>1. (iter.next = Nowhere /\ \A p \in DOMAIN t.list : WasSeen(KeyAt(p)))'
      BY <2>2, <2>4, Zenon DEF Nowhere
    <3> QED BY <1>1, <1>3, <1>4, <2>2, <3>1, Zenon DEF LoopInv, LoopRunning
  <2> QED BY <2>3, <2>4
<1> QED BY <1>5, <1>6

(* What a deletion does to the links: those behind it move up.             *)
LEMMA LinksMove ==
    ASSUME LinkHashAssumption, Sound(t), NEW d \in DOMAIN t.list, t' = Clear(t, d)
    PROVE  \E Back \in [DOMAIN t'.list -> DOMAIN t.list] :
             /\ \A i \in DOMAIN t'.list : /\ t'.list[i] = t.list[Back[i]]
                                          /\ KeyAt(i)' = KeyAt(Back[i])
             /\ \A i, j \in DOMAIN t'.list : i < j <=> Back[i] < Back[j]
             /\ \A p \in DOMAIN t.list : p # d => \E i \in DOMAIN t'.list : Back[i] = p
<1> DEFINE n == Len(t.list)
           To(i) == IF i < d THEN i ELSE i + 1
           Back == [i \in 1 .. n - 1 |-> To(i)]
<1>1. /\ DOMAIN t.list = 1 .. n /\ n \in Nat /\ d \in 1 .. n
      /\ t.k \in [Places(t) -> Keys \cup {EMPTY, FREED}]
      /\ \A p \in 1 .. n : t.list[p] \in Places(t)
  BY TypedParts, LinksToKeys, Zenon DEF Sound
<1>2. t'.list = Without(t.list, d) /\ t'.k = [t.k EXCEPT ![t.list[d]] = FREED]
  BY SMT DEF Clear, Table
<1>3. \A i \in 1 .. n - 1 : To(i) \in 1 .. n /\ To(i) # d
  BY <1>1, SMT
<1>4. \A i, j \in 1 .. n - 1 : i < j <=> To(i) < To(j)
  BY <1>1, SMT
<1>5. \A p \in 1 .. n : p # d => \E i \in 1 .. n - 1 : To(i) = p
  <2> SUFFICES ASSUME NEW p \in 1 .. n, p # d PROVE \E i \in 1 .. n - 1 : To(i) = p
    OBVIOUS
  <2>1. CASE p < d
    <3>1. p \in 1 .. n - 1 /\ To(p) = p
      BY <1>1, <2>1, SMT
    <3> QED BY <3>1, Zenon
  <2>2. CASE ~ (p < d)
    <3>1. p - 1 \in 1 .. n - 1 /\ To(p - 1) = p
      BY <1>1, <2>2, SMT
    <3> QED BY <3>1, Zenon
  <2> QED BY <2>1, <2>2
<1>6. \A i \in 1 .. n - 1 : (IF i < d THEN t.list[i] ELSE t.list[i + 1]) = t.list[To(i)]
  BY Zenon
<1>7. DOMAIN t'.list = 1 .. n - 1 /\ \A i \in 1 .. n - 1 : t'.list[i] = t.list[To(i)]
  BY <1>2, <1>6, Zenon DEF Without
<1>8. \A p, q \in 1 .. n : t.list[p] = t.list[q] => p = q
  BY <1>1, LinksOnce, Zenon
<1> HIDE DEF To
<1>9. ASSUME NEW i \in 1 .. n - 1 PROVE KeyAt(i)' = KeyAt(To(i))
  <2>1. t.list[To(i)] # t.list[d] /\ t.list[To(i)] \in Places(t)
    BY <1>1, <1>3, <1>8, Zenon
  <2>2. t'.k[t.list[To(i)]] = t.k[t.list[To(i)]]
    BY <1>1, <1>2, <2>1, Zenon
  <2> QED BY <1>7, <2>2, Zenon DEF KeyAt
<1>10. Back \in [DOMAIN t'.list -> DOMAIN t.list] /\ \A i \in 1 .. n - 1 : Back[i] = To(i)
  BY <1>1, <1>3, <1>7, Zenon
<1> HIDE DEF Back
<1>11. \A i \in DOMAIN t'.list : t'.list[i] = t.list[Back[i]] /\ KeyAt(i)' = KeyAt(Back[i])
  BY <1>7, <1>9, <1>10, Zenon
<1>12. \A i, j \in DOMAIN t'.list : i < j <=> Back[i] < Back[j]
  BY <1>4, <1>7, <1>10
<1>13. \A p \in DOMAIN t.list : p # d => \E i \in DOMAIN t'.list : Back[i] = p
  BY <1>1, <1>5, <1>7, <1>10, Zenon
<1> QED BY <1>10, <1>11, <1>12, <1>13, Zenon

\* A deletion inside the loop keeps it, or spoils the loop.
LEMMA LoopDel ==
    ASSUME LinkHashAssumption, IInv, LoopRunning, NEW key \in Keys, Del(key) PROVE LoopInv'
<1>1. PICK d \in DOMAIN t.list :
        /\ t' = Clear(t, d)
        /\ iter' = IF iter.next = t.list[d] THEN [iter EXCEPT !.spoiled = TRUE] ELSE iter
  <2>1. iter.on
    BY DEF LoopRunning
  <2>2. PICK i \in Places(t), d \in DOMAIN t.list :
         /\ t.list[d] = Probe(t, key, i)
         /\ t' = Clear(t, d)
         /\ iter' = IF iter.on /\ iter.next = Probe(t, key, i)
                    THEN [iter EXCEPT !.spoiled = TRUE] ELSE iter
    BY Zenon DEF Del
  <2>3. iter' = IF iter.next = t.list[d] THEN [iter EXCEPT !.spoiled = TRUE] ELSE iter
    BY <2>1, <2>2, Zenon
  <2> QED BY <2>2, <2>3, Zenon
<1>2. Sound(t)
  BY DEF IInv
<1>3. PICK Back \in [DOMAIN t'.list -> DOMAIN t.list] :
         /\ \A i \in DOMAIN t'.list : /\ t'.list[i] = t.list[Back[i]]
                                      /\ KeyAt(i)' = KeyAt(Back[i])
         /\ \A i, j \in DOMAIN t'.list : i < j <=> Back[i] < Back[j]
         /\ \A p \in DOMAIN t.list : p # d => \E i \in DOMAIN t'.list : Back[i] = p
  BY <1>1, <1>2, LinksMove, Zenon
<1>4. \A i \in DOMAIN t'.list : Back[i] \in DOMAIN t.list
  BY <1>3
<1>5. /\ iter'.start = iter.start /\ iter'.next = iter.next /\ iter'.spoiled \in BOOLEAN
      /\ iter'.on = TRUE /\ DOMAIN iter' = {"on", "next", "spoiled", "start"}
  <2>1. /\ iter.on = TRUE /\ DOMAIN iter = {"on", "next", "spoiled", "start"}
        /\ iter.spoiled \in BOOLEAN
    BY Zenon DEF LoopRunning
  <2>2. CASE iter' = [iter EXCEPT !.spoiled = TRUE]
    BY <2>1, <2>2
  <2>3. CASE iter' = iter
    BY <2>1, <2>3, Zenon
  <2> QED BY <1>1, <2>2, <2>3, Zenon
<1>6. UNCHANGED <<seen, adding>> /\ Ready'
  BY DEF Del, Ready
<1>7. Left'
  <2>1. \A p \in DOMAIN t'.list : \E a \in DOMAIN iter.start : iter.start[a] = KeyAt(p)'
    <3>1. \A p \in DOMAIN t.list : \E a \in DOMAIN iter.start : iter.start[a] = KeyAt(p)
      BY Zenon DEF LoopRunning, Left
    <3> QED BY <1>3, <1>4, <3>1
  <2>2. \A p, q \in DOMAIN t'.list : \A a, b \in DOMAIN iter.start :
         p < q /\ iter.start[a] = KeyAt(p)' /\ iter.start[b] = KeyAt(q)' => a < b
    <3>1. \A p, q \in DOMAIN t.list : \A a, b \in DOMAIN iter.start :
            p < q /\ iter.start[a] = KeyAt(p) /\ iter.start[b] = KeyAt(q) => a < b
      BY Zenon DEF LoopRunning, Left
    <3> QED BY <1>3, <1>4, <3>1
  <2>3. Left
    BY Zenon DEF LoopRunning
  <2> QED BY <1>5, <2>1, <2>2, <2>3 DEF Left
<1>8. CASE iter'.spoiled
  BY <1>5, <1>6, <1>7, <1>8, Zenon DEF LoopInv, LoopRunning
<1>9. CASE ~ iter'.spoiled
  <2>1. iter.next # t.list[d] /\ iter' = iter
    BY <1>1, <1>9 DEF LoopRunning
  <2>2. InOrder'
    BY <1>5, <1>6, <1>9, <2>1, Zenon DEF LoopRunning, InOrder
  <2>3. CASE iter.next = Nowhere /\ \A p \in DOMAIN t.list : WasSeen(KeyAt(p))
    <3>1. (iter.next = Nowhere /\ \A p \in DOMAIN t.list : WasSeen(KeyAt(p)))'
      <4>1. \A p \in DOMAIN t'.list : \E i \in DOMAIN seen : seen[i] = KeyAt(p)'
        BY <1>3, <1>4, <2>3 DEF WasSeen
      <4>2. \A p \in DOMAIN t'.list : \E i \in DOMAIN seen' : seen'[i] = KeyAt(p)'
        BY <1>6, <4>1
      <4> QED BY <1>5, <2>3, <4>2, Zenon DEF WasSeen, Nowhere
    <3> QED BY <1>5, <1>6, <1>7, <2>2, <3>1, Zenon DEF LoopInv, LoopRunning
  <2>4. CASE \E q \in DOMAIN t.list : iter.next = t.list[q] /\ Before(q)
    <3>1. PICK q \in DOMAIN t.list : iter.next = t.list[q] /\ Before(q)
      BY <2>4
    <3>2. PICK r \in DOMAIN t'.list : Back[r] = q
      BY <1>3, <2>1, <3>1, Zenon
    <3>3. (\A p \in DOMAIN t.list : p < r => WasSeen(KeyAt(p)))'
      <4>1. \A p \in DOMAIN t.list : p < q => \E i \in DOMAIN seen : seen[i] = KeyAt(p)
        BY <3>1, Zenon DEF Before, WasSeen
      <4>2. \A p \in DOMAIN t'.list : p < r => \E i \in DOMAIN seen : seen[i] = KeyAt(p)'
        BY <1>3, <1>4, <3>2, <4>1
      <4>3. \A p \in DOMAIN t'.list : p < r => \E i \in DOMAIN seen' : seen'[i] = KeyAt(p)'
        BY <1>6, <4>2
      <4> QED BY <4>3, Zenon DEF WasSeen
    <3>4. (\A i \in DOMAIN seen : \A a, b \in DOMAIN iter.start :
             iter.start[a] = seen[i] /\ iter.start[b] = KeyAt(r) => a < b)'
      <4>1. \A i \in DOMAIN seen : \A a, b \in DOMAIN iter.start :
              iter.start[a] = seen[i] /\ iter.start[b] = KeyAt(q) => a < b
        BY <3>1, Zenon DEF Before
      <4>2. KeyAt(r)' = KeyAt(q)
        BY <1>3, <3>2, Zenon
      <4>3. \A i \in DOMAIN seen' : \A a, b \in DOMAIN iter'.start :
              iter'.start[a] = seen'[i] /\ iter'.start[b] = KeyAt(r)' => a < b
        BY <1>5, <1>6, <4>1, <4>2
      <4> QED BY <4>3
    <3>5. (iter.next = t.list[r] /\ Before(r))'
      BY <1>3, <1>5, <3>1, <3>2, <3>3, <3>4, Zenon DEF Before
    <3>6. (\E p \in DOMAIN t.list : iter.next = t.list[p] /\ Before(p))'
      BY <3>5, Zenon
    <3> QED BY <1>5, <1>6, <1>7, <2>2, <3>6, Zenon DEF LoopInv, LoopRunning
  <2> QED BY <1>5, <1>9, <2>1, <2>3, <2>4, Zenon DEF LoopRunning
<1> QED BY <1>8, <1>9

(* A replaced value moves no link; nothing is added while a loop runs.     *)
LEMMA LoopKept ==
    ASSUME LoopRunning, UNCHANGED <<iter, seen, adding>>, t'.list = t.list, t'.k = t.k
    PROVE  LoopInv'
<1>1. \A p : KeyAt(p)' = KeyAt(p)
  BY DEF KeyAt
<1>2. \A key : WasSeen(key)' <=> WasSeen(key)
  BY DEF WasSeen
<1>3. Left' /\ Ready' /\ (InOrder' <=> InOrder)
  <2>1. Left'
    BY <1>1, LeftKept, Zenon DEF LoopRunning
  <2>2. Ready'
    BY Zenon DEF LoopRunning, Ready
  <2>3. InOrder' <=> InOrder
    <3>1. seen' = seen /\ iter' = iter
      OBVIOUS
    <3> QED BY <3>1 DEF InOrder
  <2> QED BY <2>1, <2>2, <2>3
<1>4. \A q : Before(q)' <=> Before(q)
  BY <1>1, <1>2, Zenon DEF Before
<1>5. iter.next = Nowhere /\ (\A p \in DOMAIN t.list : WasSeen(KeyAt(p)))
        => (iter.next = Nowhere /\ (\A p \in DOMAIN t.list : WasSeen(KeyAt(p))))'
  BY <1>1, <1>2, Zenon DEF Nowhere
<1>6. (\E q \in DOMAIN t.list : iter.next = t.list[q] /\ Before(q))
        => (\E q \in DOMAIN t.list : iter.next = t.list[q] /\ Before(q))'
  BY <1>4, Zenon
<1> QED BY <1>3, <1>5, <1>6, Zenon DEF LoopInv, LoopRunning

\* No loop, none after.
LEMMA LoopIdle == ASSUME iter = Idle, UNCHANGED iter PROVE LoopInv'
BY DEF LoopInv, Idle

\* Every step keeps the invariant of the loop.
LEMMA LoopStep == ASSUME LinkHashAssumption, IInv, LoopInv, [Next]_vars PROVE LoopInv'
<1>1. LoopRunning => iter.on = TRUE /\ iter # Idle /\ Ready
  BY DEF LoopRunning, Idle
<1>2. iter = Idle => iter.on = FALSE
  BY DEF Idle
<1>3. ASSUME NEW key \in Keys, NEW val \in Vals, AddExisting(key, val) PROVE LoopInv'
  <2>1. t'.list = t.list /\ t'.k = t.k /\ UNCHANGED <<iter, seen, adding>>
    BY <1>3 DEF AddExisting, Table
  <2> QED BY <2>1, LoopKept, LoopIdle, Zenon DEF LoopInv
<1>4. ASSUME NEW key \in Keys, NEW val \in Vals, AddNew(key, val) \/ AddResizes(key, val) PROVE LoopInv'
  BY <1>4, LoopIdle, Zenon DEF AddNew, AddResizes
<1>5. ASSUME NEW key \in Keys, AddNoString(key) \/ AddRefused(key) PROVE LoopInv'
  BY <1>5, LoopIdle, Zenon DEF AddNoString, AddRefused
<1>6. ASSUME NEW key \in Keys, DelMissing(key) PROVE LoopInv'
  <2>1. t'.list = t.list /\ t'.k = t.k /\ UNCHANGED <<iter, seen, adding>>
    BY <1>6 DEF DelMissing
  <2> QED BY <2>1, LoopKept, LoopIdle, Zenon DEF LoopInv
<1>7. ASSUME NEW key \in Keys, Del(key) PROVE LoopInv'
  <2>1. CASE iter = Idle
    <3>1. iter' = iter
      BY <1>2, <1>7, <2>1, Zenon DEF Del
    <3> QED BY <2>1, <3>1, LoopIdle
  <2> QED BY <1>7, <2>1, LoopDel, Zenon DEF LoopInv
<1>8. ASSUME Copy \/ Resized PROVE LoopInv'
  BY <1>1, <1>8, LoopIdle, Zenon DEF Copy, Resized, LoopInv
<1>9. ForeachBegin => LoopInv'
  BY LoopBegins
<1>10. ForeachNext => LoopInv'
  <2>1. ForeachNext => iter # Idle
    BY <1>2, Zenon DEF ForeachNext
  <2> QED BY <2>1, LoopNext, Zenon DEF LoopInv
<1>11. ForeachEnd => LoopInv'
  BY Zenon DEF ForeachEnd, LoopInv, Idle
<1>12. ASSUME UNCHANGED vars PROVE LoopInv'
  <2>1. t'.list = t.list /\ t'.k = t.k /\ UNCHANGED <<iter, seen, adding>>
    BY <1>12 DEF vars
  <2> QED BY <2>1, LoopKept, LoopIdle, Zenon DEF LoopInv
<1> QED BY <1>3, <1>4, <1>5, <1>6, <1>7, <1>8, <1>9, <1>10, <1>11, <1>12, Zenon DEF Next

(* Where a loop ends: at Nowhere, with all that is left given.             *)
LEMMA LoopEnds ==
    ASSUME LinkHashAssumption, IInv, LoopInv, [Next]_vars, iter.on, ~ iter'.on, ~ iter.spoiled
    PROVE  VisitedAll
<1>1. iter # Idle
  BY DEF Idle
<1>2. LoopRunning
  BY <1>1 DEF LoopInv
<1>3. ASSUME NEW key \in Keys, Del(key) PROVE FALSE
  <2>1. \/ iter' = [iter EXCEPT !.spoiled = TRUE] \/ iter' = iter
    BY <1>3, Zenon DEF Del
  <2> QED BY <1>2, <2>1 DEF LoopRunning
<1>4. ~ ForeachNext
  BY <1>2 DEF ForeachNext, LoopRunning
<1>5. ForeachEnd
  <2>1. ASSUME UNCHANGED iter PROVE FALSE
    BY <2>1
  <2>2. UNCHANGED vars => UNCHANGED iter
    BY DEF vars
  <2> QED BY <1>1, <1>3, <1>4, <2>1, <2>2, Zenon DEF Next, AddExisting, AddNew, AddResizes, AddNoString,
            AddRefused, DelMissing, Copy, Resized, ForeachBegin
<1>6. InOrder /\ \A p \in DOMAIN t.list : WasSeen(KeyAt(p))
  <2>1. iter.next = Nowhere
    BY <1>5 DEF ForeachEnd
  <2>2. \A q \in DOMAIN t.list : t.list[q] # Nowhere
    BY LinksOnce DEF IInv
  <2> QED BY <1>2, <2>1, <2>2, Zenon DEF LoopRunning
<1>7. \A s \in Places(t) : t.k[s] \in Keys => \E p \in DOMAIN t.list : KeyAt(p) = t.k[s]
  BY LinksOnce DEF IInv
<1>8. ASSUME NEW s \in Places(t), t.k[s] \in Keys PROVE \E i \in DOMAIN seen : seen[i] = t.k[s]
  <2>1. PICK p \in DOMAIN t.list : KeyAt(p) = t.k[s]
    BY <1>7, <1>8
  <2>2. PICK i \in DOMAIN seen : seen[i] = KeyAt(p)
    BY <1>6 DEF WasSeen
  <2> QED BY <2>1, <2>2
<1> QED BY <1>6, <1>8, Zenon DEF VisitedAll, InOrder

(* A foreach loop whose body deletes keys, but not the one that comes      *)
(* next, gives every key that is still there, in order and once: by the    *)
(* invariant, at every turn what it has given and what the links have left *)
(* cover the table, in the order of the beginning.                         *)
THEOREM LoopsVisitAll == ASSUME LinkHashAssumption PROVE Spec => ForeachVisitsAllUnlessSpoiled
<1>1. Init => IInv /\ LoopInv
  BY InitIInv, Zenon DEF Init, LoopInv
<1>2. IInv /\ [Next]_vars => IInv'
  BY NextIInv
<1>3. IInv /\ LoopInv /\ [Next]_vars => LoopInv'
  BY LoopStep
<1>4. IInv /\ LoopInv /\ [Next]_vars => (iter.on /\ ~ iter'.on /\ ~ iter.spoiled => VisitedAll)
  BY LoopEnds, Zenon
<1> QED BY <1>1, <1>2, <1>3, <1>4, PTL DEF Spec, ForeachVisitsAllUnlessSpoiled

(* What an extension that is not refused gives: at least what was asked    *)
(* for, and an int.  Doubling is safe up to half of INT_MAX.               *)
LEMMA ExtendedSound ==
    ASSUME Buffer!PrintBufAssumption, Buffer!TypeOK, NEW min \in Nat, ~ Buffer!ExtendRefuses(min)
    PROVE  /\ Buffer!Extended(min) \in Int /\ min <= Buffer!Extended(min) /\ Buffer!Fits(Buffer!Extended(min))
           /\ allocated <= Buffer!Extended(min)
<1> DEFINE half == BufferMax \div 2
<1>1. BufferMax \in Nat /\ Slack \in Nat /\ allocated \in 1 .. BufferMax
  BY DEF Buffer!PrintBufAssumption, Buffer!TypeOK
<1>2. half \in Nat /\ 2 * half <= BufferMax
  BY <1>1, SMT
<1> HIDE DEF half
<1>3. CASE allocated >= min
  BY <1>1, <1>3, SMT DEF Buffer!Extended, Buffer!Fits
<1>4. CASE allocated < min /\ allocated > half
  <2>1. Buffer!Extended(min) = min + Slack
    BY <1>1, <1>2, <1>4, SMT DEF Buffer!Extended, half
  <2>2. min <= BufferMax - Slack
    BY <1>1, <1>4, SMT DEF Buffer!ExtendRefuses
  <2> QED BY <1>1, <1>4, <2>1, <2>2, SMT DEF Buffer!Fits
<1>5. CASE allocated < min /\ ~ (allocated > half)
  <2>1. Buffer!Extended(min) = Buffer!Biggest(2 * allocated, min + Slack)
    BY <1>1, <1>2, <1>5, SMT DEF Buffer!Extended, half
  <2>2. min <= BufferMax - Slack /\ 2 * allocated <= BufferMax
    BY <1>1, <1>2, <1>5, SMT DEF Buffer!ExtendRefuses
  <2> QED BY <1>1, <1>5, <2>1, <2>2, SMT DEF Buffer!Fits, Buffer!Biggest
<1> QED BY <1>1, <1>2, <1>3, <1>4, <1>5, SMT

-----------------------------------------------------------------------------
(* Where the buffer stands between two calls. *)
BufferInside == Buffer!TypeOK /\ Buffer!WritesInside

\* The invariant of the buffer: begun with, and kept.
LEMMA BufferInsideInit == Buffer!PrintBufAssumption /\ Buffer!Init => BufferInside
BY SMT DEF Buffer!PrintBufAssumption, Buffer!Init, BufferInside, Buffer!TypeOK, Buffer!WritesInside

LEMMA BufferInsideNext == ASSUME Buffer!PrintBufAssumption, BufferInside, [Buffer!Next]_(Buffer!vars) PROVE BufferInside'
<1> USE DEF BufferInside
<1>1. BufferMax \in Nat /\ Slack \in Nat
  BY DEF Buffer!PrintBufAssumption
<1>2. ASSUME NEW n \in 0 .. BufferMax, Buffer!Memappend(n) PROVE BufferInside'
  <2> DEFINE min == bpos + n + 1
  <2>1. min \in Nat /\ min <= BufferMax /\ bpos' = bpos + n /\ top' = min /\ ended' = TRUE /\ printed' = TRUE
    BY <1>1, <1>2, SMT DEF Buffer!Memappend, Buffer!AppendRefuses, Buffer!TypeOK
  <2>2. allocated' \in 1 .. BufferMax /\ min <= allocated'
    <3>1. CASE allocated > min /\ UNCHANGED allocated
      BY <2>1, <3>1, SMT DEF Buffer!TypeOK
    <3>2. CASE ~ Buffer!ExtendRefuses(min) /\ allocated' = Buffer!Extended(min)
      BY <1>1, <2>1, <3>2, ExtendedSound, SMT DEF Buffer!TypeOK, Buffer!Fits
    <3> QED BY <1>2, <3>1, <3>2, Zenon DEF Buffer!Memappend
  <2> QED BY <1>1, <2>1, <2>2, SMT DEF Buffer!TypeOK, Buffer!WritesInside
<1>3. ASSUME NEW offset \in 0 .. BufferMax, NEW len \in 0 .. BufferMax, Buffer!Memset(offset, len) PROVE BufferInside'
  <2> DEFINE needed == offset + len
  <2>1. /\ needed \in Nat /\ needed <= BufferMax /\ top' = needed /\ printed' = TRUE
        /\ bpos' = Buffer!Biggest(bpos, needed) /\ ended' = (ended /\ needed <= bpos)
    BY <1>1, <1>3, SMT DEF Buffer!Memset, Buffer!MemsetRefuses
  <2>2. allocated' \in 1 .. BufferMax /\ needed <= allocated' /\ allocated <= allocated'
    <3>1. CASE allocated >= needed /\ UNCHANGED allocated
      BY <2>1, <3>1, SMT DEF Buffer!TypeOK
    <3>2. CASE ~ Buffer!ExtendRefuses(needed) /\ allocated' = Buffer!Extended(needed)
      BY <1>1, <2>1, <3>2, ExtendedSound, SMT DEF Buffer!TypeOK, Buffer!Fits
    <3> QED BY <1>3, <3>1, <3>2, Zenon DEF Buffer!Memset
  <2>3. ended' \in BOOLEAN /\ printed' \in BOOLEAN /\ (ended' => ended /\ needed <= bpos)
    BY <2>1, Zenon
  <2>4. /\ bpos' \in 0 .. BufferMax /\ top' \in Nat /\ top' <= allocated' /\ bpos' <= allocated'
        /\ ended /\ needed <= bpos => bpos' < allocated'
    BY <1>1, <2>1, <2>2, SMT DEF Buffer!TypeOK, Buffer!WritesInside, Buffer!Biggest
  <2> QED BY <2>2, <2>3, <2>4, Zenon DEF Buffer!TypeOK, Buffer!WritesInside
<1>4. ASSUME Buffer!Fail PROVE BufferInside'
  <2>1. allocated' = allocated /\ bpos' = bpos /\ ended' = ended /\ top' = 0 /\ printed' \in BOOLEAN
    BY <1>4, Zenon DEF Buffer!Fail
  <2>2. top' \in Nat /\ top' <= allocated'
    BY <2>1, SMT DEF Buffer!TypeOK
  <2> QED BY <2>1, <2>2, Zenon DEF Buffer!TypeOK, Buffer!WritesInside
<1>5. ASSUME Buffer!Reset PROVE BufferInside'
  BY <1>5, <1>1, SMT DEF Buffer!Reset, Buffer!TypeOK, Buffer!WritesInside
<1>6. ASSUME UNCHANGED Buffer!vars PROVE BufferInside'
  BY <1>6, SMT DEF Buffer!vars, Buffer!TypeOK, Buffer!WritesInside
<1> QED
  BY <1>2, <1>3, <1>4, <1>5, <1>6, Zenon DEF Buffer!Next, Buffer!MemappendFails, Buffer!MemsetFails

(* That no sum overflows follows from where the buffer stands. *)
LEMMA BufferNoOverflow == ASSUME Buffer!PrintBufAssumption, BufferInside PROVE Buffer!NoOverflow
<1> SUFFICES ASSUME NEW n \in 0 .. BufferMax, NEW offset \in 0 .. BufferMax
             PROVE  /\ ~ Buffer!AppendRefuses(n) => Buffer!Fits(bpos + n + 1)
                    /\ ~ Buffer!AppendRefuses(n) /\ ~ Buffer!ExtendRefuses(bpos + n + 1) => Buffer!Fits(Buffer!Extended(bpos + n + 1))
                    /\ ~ Buffer!MemsetRefuses(offset, n) /\ ~ Buffer!ExtendRefuses(offset + n) => Buffer!Fits(Buffer!Extended(offset + n))
  BY DEF Buffer!NoOverflow
<1>1. BufferMax \in Nat /\ Buffer!TypeOK
  BY DEF Buffer!PrintBufAssumption, BufferInside
<1>2. bpos + n + 1 \in Nat /\ offset + n \in Nat
  BY <1>1, SMT DEF Buffer!TypeOK
<1>3. ~ Buffer!AppendRefuses(n) => Buffer!Fits(bpos + n + 1)
  BY <1>1, SMT DEF Buffer!AppendRefuses, Buffer!Fits, Buffer!TypeOK
<1>4. ~ Buffer!ExtendRefuses(bpos + n + 1) => Buffer!Fits(Buffer!Extended(bpos + n + 1))
  BY <1>1, <1>2, ExtendedSound
<1>5. ~ Buffer!ExtendRefuses(offset + n) => Buffer!Fits(Buffer!Extended(offset + n))
  BY <1>1, <1>2, ExtendedSound
<1> QED BY <1>3, <1>4, <1>5

(* No call writes past the allocated bytes, the zero byte that ends the    *)
(* text is inside them, and no sum passes INT_MAX (printbuf.c: "Prevent    *)
(* signed integer overflows with large buffers").                          *)
THEOREM BufferAlwaysSafe == ASSUME Buffer!PrintBufAssumption PROVE Buffer!Spec => []Buffer!BufferSafe
<1>1. Buffer!Init => BufferInside
  BY BufferInsideInit
<1>2. BufferInside /\ [Buffer!Next]_(Buffer!vars) => BufferInside'
  BY BufferInsideNext
<1>3. BufferInside => Buffer!BufferSafe
  BY BufferNoOverflow DEF BufferInside, Buffer!BufferSafe
<1> QED BY <1>1, <1>2, <1>3, PTL DEF Buffer!Spec
-----------------------------------------------------------------------------
(* Numbers. *)

\* A number of one of the kinds, with a value its kind has.
NumberTyped ==
    \/ Numbers!Kind = "int64" /\ Numbers!Val \in Numbers!Int64
    \/ Numbers!Kind = "uint64" /\ Numbers!Val \in Numbers!Uint64
    \/ Numbers!Kind = "double" /\ Numbers!Val \in Int
    \/ Numbers!Kind = "nan"
    \/ Numbers!Kind = "boolean" /\ Numbers!Val \in {0, 1}
    \/ Numbers!Kind = "string" /\ Numbers!Val \in Numbers!Text

\* What holds of the number between the calls.
NumberInv == NumberTyped /\ Numbers!IncSaturates

(* What json_object_int_inc leaves, whatever the signs.                    *)
LEMMA IncClamps ==
    ASSUME Numbers!WidthAssumption, NEW v \in Int, NEW val \in Numbers!Int64,
           NEW k \in {"int64", "uint64"},
           k = "int64" => v \in Numbers!Int64, k = "uint64" => v \in Numbers!Uint64
    PROVE  /\ Numbers!Inc(k, v, val)[2] = Numbers!Clamp(Numbers!I64Min, v + val, Numbers!U64Max)
           /\ \/ Numbers!Inc(k, v, val)[1] = "int64" /\ Numbers!Inc(k, v, val)[2] \in Numbers!Int64
              \/ Numbers!Inc(k, v, val)[1] = "uint64" /\ Numbers!Inc(k, v, val)[2] \in Numbers!Uint64
<1>1. NumberMax \in Nat /\ val \in Int /\ -NumberMax - 1 <= val /\ val <= NumberMax
  BY SMT DEF Numbers!WidthAssumption, Numbers!Int64, Numbers!I64Min
<1>2. CASE k = "int64"
  <2>1. v \in Int /\ -NumberMax - 1 <= v /\ v <= NumberMax
    BY <1>1, <1>2, SMT DEF Numbers!Int64, Numbers!I64Min
  <2>2. CASE val > 0 /\ v > NumberMax - val
    <3>1. v + val \in 0 .. 2 * NumberMax + 1
      BY <1>1, <2>1, <2>2, SMT
    <3>2. (v + val) % (2 * NumberMax + 2) = v + val
      BY <1>1, <3>1, SMT
    <3>3. Numbers!Inc(k, v, val) = <<"uint64", v + val>>
      BY <1>1, <1>2, <2>1, <2>2, <3>2, SMT DEF Numbers!Inc, Numbers!ToUnsigned, Numbers!U64Max
    <3> QED BY <1>1, <3>1, <3>3, SMT DEF Numbers!Clamp, Numbers!I64Min, Numbers!U64Max, Numbers!Uint64
  <2>3. CASE ~ (val > 0 /\ v > NumberMax - val)
    BY <1>1, <1>2, <2>1, <2>3, SMT DEF Numbers!Inc, Numbers!Clamp, Numbers!I64Min, Numbers!U64Max, Numbers!Int64
  <2> QED BY <2>2, <2>3
<1>3. CASE k = "uint64"
  <2>1. v \in Int /\ 0 <= v /\ v <= 2 * NumberMax + 1
    BY <1>1, <1>3, SMT DEF Numbers!Uint64, Numbers!U64Max
  <2>2. val >= 0 => Numbers!ToUnsigned(val) = val
    BY <1>1, SMT DEF Numbers!ToUnsigned
  <2>3. val < 0 => Numbers!ToUnsigned(-val) = -val
    BY <1>1, SMT DEF Numbers!ToUnsigned
  <2>4. v <= NumberMax => Numbers!ToSigned(v) = v
    BY <1>1, <2>1, SMT DEF Numbers!ToSigned
  <2>5. CASE val < 0 /\ v < -val
    BY <1>1, <1>3, <2>1, <2>3, <2>4, <2>5, SMT
       DEF Numbers!Inc, Numbers!Clamp, Numbers!I64Min, Numbers!U64Max, Numbers!Int64
  <2>6. CASE val < 0 /\ ~ (v < -val)
    BY <1>1, <1>3, <2>1, <2>3, <2>6, SMT
       DEF Numbers!Inc, Numbers!Clamp, Numbers!I64Min, Numbers!U64Max, Numbers!Uint64
  <2>7. CASE val >= 0
    BY <1>1, <1>3, <2>1, <2>2, <2>7, SMT
       DEF Numbers!Inc, Numbers!Clamp, Numbers!I64Min, Numbers!U64Max, Numbers!Uint64
  <2> QED BY <1>1, <2>1, <2>5, <2>6, <2>7, SMT
<1> QED BY <1>2, <1>3

\* The invariant of the number: begun with, and kept.
LEMMA NumberInit == ASSUME Numbers!WidthAssumption, Numbers!Init PROVE NumberInv
<1>1. num \in Numbers!News /\ last = <<>>
  BY DEF Numbers!Init
<1>2. NumberTyped
  <2>1. PICK x : num = x /\ x \in Numbers!News
    BY <1>1
  <2>2. CASE \E v \in Numbers!Int64 : num = <<"int64", v>>
    BY <2>2 DEF NumberTyped, Numbers!Kind, Numbers!Val
  <2>3. CASE \E v \in Numbers!Uint64 : num = <<"uint64", v>>
    BY <2>3 DEF NumberTyped, Numbers!Kind, Numbers!Val
  <2>4. CASE \E d \in Doubles : num = <<"double", d>>
    BY <2>4 DEF NumberTyped, Numbers!Kind, Numbers!Val, Numbers!WidthAssumption
  <2>5. CASE num = <<"nan", 0>>
    BY <2>5 DEF NumberTyped, Numbers!Kind, Numbers!Val
  <2>6. CASE \E b \in {0, 1} : num = <<"boolean", b>>
    BY <2>6 DEF NumberTyped, Numbers!Kind, Numbers!Val
  <2>7. CASE \E s \in Texts : num = <<"string", s>>
    BY <2>7 DEF NumberTyped, Numbers!Kind, Numbers!Val, Numbers!WidthAssumption
  <2> QED BY <1>1, <2>2, <2>3, <2>4, <2>5, <2>6, <2>7, Zenon DEF Numbers!News
<1> QED BY <1>1, <1>2, Zenon DEF NumberInv, Numbers!IncSaturates

\* Every call keeps it.
LEMMA NumberNext ==
    ASSUME Numbers!WidthAssumption, NumberInv, [Numbers!Next]_(Numbers!vars) PROVE NumberInv'
<1>1. ASSUME NEW v \in Numbers!Int64, Numbers!SetInt64(v) PROVE NumberInv'
  BY <1>1, SMT DEF NumberInv, NumberTyped, Numbers!SetInt64, Numbers!IncSaturates, Numbers!Kind, Numbers!Val
<1>2. ASSUME NEW v \in Numbers!Uint64, Numbers!SetUint64(v) PROVE NumberInv'
  BY <1>2, SMT DEF NumberInv, NumberTyped, Numbers!SetUint64, Numbers!IncSaturates, Numbers!Kind, Numbers!Val
<1>3. ASSUME NEW new1 \in {<<"double", d>> : d \in Doubles} \cup {<<"nan", 0>>}, Numbers!SetDouble(new1)
      PROVE NumberInv'
  <2>1. num' = new1 /\ last' = <<>>
    BY <1>3 DEF Numbers!SetDouble
  <2>2. (new1[1] = "double" /\ new1[2] \in Int) \/ new1[1] = "nan"
    BY <1>3 DEF Numbers!WidthAssumption
  <2> QED BY <2>1, <2>2, Zenon DEF NumberInv, NumberTyped, Numbers!IncSaturates, Numbers!Kind, Numbers!Val
<1>4. ASSUME NEW b \in {0, 1}, Numbers!SetBoolean(b) PROVE NumberInv'
  BY <1>4, SMT DEF NumberInv, NumberTyped, Numbers!SetBoolean, Numbers!IncSaturates, Numbers!Kind, Numbers!Val
<1>5. ASSUME NEW val \in Numbers!Int64, Numbers!IntInc(val) PROVE NumberInv'
  <2> DEFINE r == Numbers!Inc(Numbers!Kind, Numbers!Val, val)
  <2>1. num' = r /\ last' = <<Numbers!Val, val>> /\ Numbers!Kind \in {"int64", "uint64"}
    BY <1>5 DEF Numbers!IntInc
  <2>2. /\ Numbers!Kind = "int64" => Numbers!Val \in Numbers!Int64
        /\ Numbers!Kind = "uint64" => Numbers!Val \in Numbers!Uint64
    BY <2>1, SMT DEF NumberInv, NumberTyped
  <2>3. Numbers!Val \in Int
    BY <2>1, <2>2, SMT
       DEF Numbers!Int64, Numbers!Uint64, Numbers!I64Min, Numbers!U64Max, Numbers!WidthAssumption
  <2>4. /\ r[2] = Numbers!Clamp(Numbers!I64Min, Numbers!Val + val, Numbers!U64Max)
        /\ \/ r[1] = "int64" /\ r[2] \in Numbers!Int64
           \/ r[1] = "uint64" /\ r[2] \in Numbers!Uint64
    BY <1>5, <2>1, <2>2, <2>3, IncClamps, Zenon
  <2> HIDE DEF r
  <2>5. NumberTyped'
    BY <2>1, <2>4, SMT DEF NumberTyped, Numbers!Kind, Numbers!Val, Numbers!Int64, Numbers!Uint64
  <2>6. Numbers!IncSaturates'
    BY <2>1, <2>4, Zenon
       DEF Numbers!IncSaturates, Numbers!Kind, Numbers!Val, Numbers!Clamp, Numbers!I64Min, Numbers!U64Max
  <2> QED BY <2>5, <2>6 DEF NumberInv
<1>6. ASSUME UNCHANGED Numbers!vars PROVE NumberInv'
  BY <1>6, SMT DEF Numbers!vars, NumberInv, NumberTyped, Numbers!IncSaturates, Numbers!Kind, Numbers!Val
<1> QED BY <1>1, <1>2, <1>3, <1>4, <1>5, <1>6, Zenon DEF Numbers!Next

(* A whole number in half units is itself; casts go towards zero.          *)
LEMMA CastBounds ==
    ASSUME NEW d \in Int
    PROVE  /\ Numbers!Cast(d) \in Int
           /\ d >= 0 => 2 * Numbers!Cast(d) <= d /\ d <= 2 * Numbers!Cast(d) + 1
           /\ d < 0 => d <= 2 * Numbers!Cast(d) /\ 2 * Numbers!Cast(d) - 1 <= d
<1>1. \A x \in Nat : x \div 2 \in Int /\ 2 * (x \div 2) <= x /\ x <= 2 * (x \div 2) + 1
  BY SMT
<1>2. CASE d < 0
  <2>1. -d \in Nat
    BY <1>2, SMT
  <2>2. (-d) \div 2 \in Int /\ 2 * ((-d) \div 2) <= -d /\ -d <= 2 * ((-d) \div 2) + 1
    BY <1>1, <2>1
  <2> QED BY <1>2, <2>2, SMT DEF Numbers!Cast
<1>3. CASE d >= 0
  BY <1>1, <1>3, SMT DEF Numbers!Cast
<1> QED BY <1>2, <1>3, SMT

\* A whole double, counted in halves, is cast to its value.
LEMMA CastOfWhole == ASSUME NEW x \in Int PROVE Numbers!Cast(2 * x) = x
<1> DEFINE c == Numbers!Cast(2 * x)
<1>1. 2 * x \in Int
  BY SMT
<1>2. /\ c \in Int
      /\ 2 * x >= 0 => 2 * c <= 2 * x /\ 2 * x <= 2 * c + 1
      /\ 2 * x < 0 => 2 * x <= 2 * c /\ 2 * c - 1 <= 2 * x
  BY <1>1, CastBounds
<1> HIDE DEF c
<1>3. c = x
  BY <1>2, SMT
<1> QED BY <1>3 DEF c

\* What the text of a string starts with.
LEMMA TextIsTyped ==
    ASSUME NEW v \in [blank : {"", "space", "tab"}, digits : BOOLEAN, value : Int, rest : BOOLEAN]
    PROVE  v.digits \in BOOLEAN /\ v.value \in Int
OBVIOUS

(* Each way to read a number gives the nearest number of its type.         *)
LEMMA ReadsAreNearest ==
    ASSUME Numbers!WidthAssumption, NumberTyped PROVE Numbers!ReadsNearest
<1> DEFINE k == Numbers!Kind
           v == Numbers!Val
           cast == Numbers!Cast(Numbers!Meaning)
<1>1. /\ I32Max \in Nat /\ NumberMax \in Nat /\ I32Max < NumberMax
      /\ Numbers!I32Min = -I32Max - 1 /\ Numbers!I64Min = -NumberMax - 1 /\ Numbers!U64Max = 2 * NumberMax + 1
  BY DEF Numbers!WidthAssumption, Numbers!I32Min, Numbers!I64Min, Numbers!U64Max
\* an int is read by way of an int64
<1>2. ASSUME k \notin {"nan", "double"}, NEW x \in Int, Numbers!GetInt64 = {x},
             x = Numbers!Clamp(Numbers!I64Min, cast, NumberMax), cast \in Int
      PROVE  Numbers!GetInt = {Numbers!Clamp(Numbers!I32Min, cast, I32Max)}
  <2>1. Numbers!GetInt = {IF y <= Numbers!I32Min THEN Numbers!I32Min ELSE IF y >= I32Max THEN I32Max ELSE y :
                             y \in Numbers!GetInt64}
    BY <1>2, Zenon DEF Numbers!GetInt
  <2>2. Numbers!GetInt = {IF x <= Numbers!I32Min THEN Numbers!I32Min ELSE IF x >= I32Max THEN I32Max ELSE x}
    BY <1>2, <2>1, Zenon
  <2>3. (IF x <= Numbers!I32Min THEN Numbers!I32Min ELSE IF x >= I32Max THEN I32Max ELSE x)
          = Numbers!Clamp(Numbers!I32Min, cast, I32Max)
    BY <1>1, <1>2, SMT DEF Numbers!Clamp
  <2> QED BY <2>2, <2>3
<1>3. CASE k \in {"int64", "uint64", "boolean"}
  <2>1. v \in Int /\ (k = "int64" => -NumberMax - 1 <= v /\ v <= NumberMax)
        /\ (k = "uint64" => 0 <= v /\ v <= 2 * NumberMax + 1) /\ (k = "boolean" => v \in {0, 1})
    BY <1>1, <1>3, SMT DEF NumberTyped, Numbers!Int64, Numbers!Uint64
  <2>2. Numbers!Meaning = 2 * v /\ Numbers!GetDouble = 2 * v /\ Numbers!GetBoolean = (v # 0)
    <3>1. k # "double" /\ k # "string" /\ k # "nan"
      BY <1>3
    <3> QED BY <3>1, Zenon DEF Numbers!Meaning, Numbers!GetDouble, Numbers!GetBoolean
  <2>3. cast = v
    BY <2>1, <2>2, CastOfWhole
  <2>4. Numbers!GetInt64 = {IF k = "uint64" /\ v >= NumberMax THEN NumberMax ELSE v}
    BY <1>3, SMT DEF Numbers!GetInt64
  <2>5. Numbers!GetUint64 = {IF k = "int64" /\ v < 0 THEN 0 ELSE v}
    BY <1>3, SMT DEF Numbers!GetUint64
  <2> DEFINE x == IF k = "uint64" /\ v >= NumberMax THEN NumberMax ELSE v
  <2>6. x \in Int /\ x = Numbers!Clamp(Numbers!I64Min, cast, NumberMax)
    BY <1>1, <1>3, <2>1, <2>3, SMT DEF Numbers!Clamp
  <2>7. Numbers!GetInt = {Numbers!Clamp(Numbers!I32Min, cast, I32Max)}
    BY <1>2, <1>3, <2>1, <2>3, <2>4, <2>6
  <2>8. (IF k = "int64" /\ v < 0 THEN 0 ELSE v) = Numbers!Clamp(0, cast, Numbers!U64Max)
    BY <1>1, <1>3, <2>1, <2>3, SMT DEF Numbers!Clamp
  <2>9. (v # 0) = (Numbers!Meaning # 0)
    BY <2>1, <2>2, SMT
  <2>10. k # "string" /\ Numbers!GetBoolean = (Numbers!Meaning # 0) /\ Numbers!GetDouble = Numbers!Meaning
    BY <1>3, <2>2, <2>9
  <2>11. Numbers!GetInt64 = {Numbers!Clamp(Numbers!I64Min, cast, NumberMax)}
         /\ Numbers!GetUint64 = {Numbers!Clamp(0, cast, Numbers!U64Max)}
    BY <2>4, <2>5, <2>6, <2>8
  <2> QED BY <2>7, <2>10, <2>11, Zenon DEF Numbers!ReadsNearest
<1>4. CASE k = "double"
  <2>1. v \in Int /\ Numbers!Meaning = v
    BY <1>4, SMT DEF NumberTyped, Numbers!Meaning
  <2>2. /\ cast \in Int
        /\ v >= 0 => 2 * cast <= v /\ v <= 2 * cast + 1
        /\ v < 0 => v <= 2 * cast /\ 2 * cast - 1 <= v
    BY <2>1, CastBounds
  <2>3. Numbers!GetInt64 = IF v >= 2 * (NumberMax + 1) THEN {NumberMax}
                           ELSE IF v <= 2 * Numbers!I64Min THEN {Numbers!I64Min} ELSE {cast}
    BY <1>4, <2>1, Zenon DEF Numbers!GetInt64
  <2>4. Numbers!GetInt = IF v <= 2 * Numbers!I32Min THEN {Numbers!I32Min}
                         ELSE IF v >= 2 * I32Max THEN {I32Max} ELSE {cast}
    BY <1>4, <2>1, Zenon DEF Numbers!GetInt
  <2>5. Numbers!GetUint64 = IF v >= 2 * (Numbers!U64Max + 1) THEN {Numbers!U64Max}
                            ELSE IF v < 0 THEN {0} ELSE {cast}
    BY <1>4, <2>1, Zenon DEF Numbers!GetUint64
  <2>6. Numbers!GetDouble = v /\ Numbers!GetBoolean = (v # 0)
    BY <1>4, Zenon DEF Numbers!GetDouble, Numbers!GetBoolean
  <2> HIDE DEF cast, v
  <2>7. Numbers!GetInt64 = {Numbers!Clamp(Numbers!I64Min, cast, NumberMax)}
    BY <1>1, <2>1, <2>2, <2>3, SMT DEF Numbers!Clamp
  <2>8. Numbers!GetInt = {Numbers!Clamp(Numbers!I32Min, cast, I32Max)}
    BY <1>1, <2>1, <2>2, <2>4, SMT DEF Numbers!Clamp
  <2>9. Numbers!GetUint64 = {Numbers!Clamp(0, cast, Numbers!U64Max)}
    BY <1>1, <2>1, <2>2, <2>5, SMT DEF Numbers!Clamp
  <2>10. k # "string" /\ Numbers!GetBoolean = (Numbers!Meaning # 0) /\ Numbers!GetDouble = Numbers!Meaning
    BY <1>4, <2>1, <2>6 DEF v
  <2> QED BY <2>7, <2>8, <2>9, <2>10, Zenon DEF v, cast, Numbers!ReadsNearest
<1>5. CASE k = "string"
  <2>1. v \in [blank : {"", "space", "tab"}, digits : BOOLEAN, value : Int, rest : BOOLEAN]
    BY <1>5, Zenon DEF NumberTyped, Numbers!Text
  <2>2. v.digits \in BOOLEAN /\ v.value \in Int
    BY <2>1, TextIsTyped, Zenon
  <2>3. Numbers!Meaning = IF ~ v.digits THEN 0 ELSE 2 * v.value
    BY <1>5, Zenon DEF Numbers!Meaning
  <2> DEFINE w == IF v.digits THEN v.value ELSE 0
  <2>4. w \in Int /\ Numbers!Meaning = 2 * w
    BY <2>2, <2>3, SMT
  <2>5. cast = w
    BY <2>4, CastOfWhole
  <2>6. Numbers!GetInt64 = {Numbers!ParsedInt64(v)}
    BY <1>5, Zenon DEF Numbers!GetInt64
  <2>7. Numbers!GetUint64 = {Numbers!ParsedUint64(v)}
    BY <1>5, Zenon DEF Numbers!GetUint64
  <2>8. Numbers!ParsedInt64(v) = Numbers!Clamp(Numbers!I64Min, w, NumberMax)
        /\ Numbers!Clamp(Numbers!I64Min, w, NumberMax) \in Int
    BY <1>1, <2>2, SMT DEF Numbers!ParsedInt64, Numbers!Clamp
  <2>9. v.blank # "tab" => Numbers!ParsedUint64(v) = Numbers!Clamp(0, w, Numbers!U64Max)
    BY <1>1, <2>2, SMT DEF Numbers!ParsedUint64, Numbers!Clamp
  <2>10. ~ v.rest => Numbers!GetDouble = Numbers!Meaning
    <3>1. Numbers!GetDouble = IF ~ v.digits \/ v.rest THEN 0 ELSE 2 * v.value
      BY <1>5, Zenon DEF Numbers!GetDouble
    <3> QED BY <2>3, <3>1
  <2>11. Numbers!GetInt = {Numbers!Clamp(Numbers!I32Min, cast, I32Max)}
    BY <1>2, <1>5, <2>4, <2>5, <2>6, <2>8
  <2>12. Numbers!GetInt64 = {Numbers!Clamp(Numbers!I64Min, cast, NumberMax)}
         /\ (v.blank # "tab" => Numbers!GetUint64 = {Numbers!Clamp(0, cast, Numbers!U64Max)})
    BY <2>5, <2>6, <2>7, <2>8, <2>9
  <2> QED BY <1>5, <2>10, <2>11, <2>12, Zenon DEF Numbers!ReadsNearest
<1>6. k \in {"int64", "uint64", "boolean", "double", "string", "nan"}
  BY Zenon DEF NumberTyped
<1>7. k = "nan" => Numbers!ReadsNearest
  BY Zenon DEF Numbers!ReadsNearest
<1> QED BY <1>3, <1>4, <1>5, <1>6, <1>7

(* Numbers stay in the memory of their kind, increments stop at the        *)
(* limits, and what is read is the nearest number of its type.             *)
LEMMA NumberInvKept == ASSUME Numbers!WidthAssumption, NumberInv PROVE Numbers!NumbersKept
<1>1. Numbers!TypeOK
  BY SMT DEF NumberInv, NumberTyped, Numbers!TypeOK
<1> QED BY <1>1, ReadsAreNearest DEF NumberInv, Numbers!NumbersKept

\* Increments saturate and reads give the nearest number, whatever the widths.
LEMMA NumbersAlwaysKept == ASSUME Numbers!WidthAssumption PROVE Numbers!Spec => []Numbers!NumbersKept
<1>1. Numbers!Init => NumberInv
  BY NumberInit
<1>2. NumberInv /\ [Numbers!Next]_(Numbers!vars) => NumberInv'
  BY NumberNext
<1>3. NumberInv => Numbers!NumbersKept
  BY NumberInvKept
<1> QED BY <1>1, <1>2, <1>3, PTL DEF Numbers!Spec
-----------------------------------------------------------------------------
(* The array. *)

(* A module's own Cardinality is the one of FiniteSets.                    *)
LEMMA ListCardinality == \A S : List!Cardinality(S) = Cardinality(S)
BY Zenon DEF List!Cardinality, Cardinality, List!IsFiniteSet, IsFiniteSet

\* What the memory of an array of n places holds.
Memory(mem, n) == mem \in [0 .. n - 1 -> Elems \cup {Null, Junk}]

\* The values of the list are the application's gift, each at one place, and
\* every value that is given is at a place.
Owned ==
    /\ \A i \in 0 .. length - 1 : array[i] # Null => array[i] \in Elems /\ owner[array[i]] = "list"
    /\ \A i, j \in 0 .. length - 1 : array[i] = array[j] /\ array[i] # Null => i = j
    /\ \A e \in Elems : owner[e] = "list" => \E i \in 0 .. length - 1 : array[i] = e
    /\ ~ twice

\* The memory of the array, and its values: each there once.
ListInv == (\E n \in Nat : Memory(array, n)) /\ List!TypeOK /\ Owned

\* What the assumption says of the constants.
LEMMA ListConstants ==
    ASSUME List!ArrayListAssumption
    PROVE  /\ PtrSize \in Nat \ {0} /\ SizeMax \in Nat /\ SizeMax \div PtrSize \in Nat
           /\ SizeMax \div PtrSize <= SizeMax
           /\ ListSize \in Nat /\ ListSize <= SizeMax \div PtrSize
           /\ Null \notin Elems /\ Junk \notin Elems /\ Null # Junk
<1>1. PtrSize \in Nat \ {0} /\ SizeMax \in Nat /\ ListSize \in 0 .. SizeMax \div PtrSize - 1
      /\ {Null, Junk} \cap Elems = {} /\ Null # Junk
  BY DEF List!ArrayListAssumption
<1>2. SizeMax \div PtrSize \in Nat /\ SizeMax \div PtrSize <= SizeMax
  <2>1. \A a \in Nat : \A b \in Nat \ {0} : a \div b \in Nat /\ a \div b <= a
    BY SMT
  <2> QED BY <1>1, <2>1
<1> QED BY <1>1, <1>2, SMT

(* size is the number of places.                                           *)
LEMMA SizeOfMemory ==
    ASSUME NEW n \in Nat, NEW mem, Memory(mem, n)
    PROVE  Cardinality(DOMAIN mem) = n
<1>1. DOMAIN mem = 0 .. n - 1
  BY DEF Memory
<1>2. Cardinality(0 .. n - 1) = n
  BY FS_Interval, SMT
<1> QED BY <1>1, <1>2

\* What the type says of the array.
LEMMA ListTyped ==
    ASSUME ListInv
    PROVE  /\ Memory(array, List!size) /\ DOMAIN array = 0 .. List!size - 1
           /\ List!size \in Nat /\ List!size <= SizeMax \div PtrSize
           /\ length \in Nat /\ length <= List!size
           /\ owner \in [Elems -> {"app", "list", "freed"}]
           /\ \A i \in 0 .. length - 1 : i \in DOMAIN array
<1>1. /\ List!size <= SizeMax \div PtrSize /\ length \in 0 .. List!size
      /\ owner \in [Elems -> {"app", "list", "freed"}]
  BY DEF List!TypeOK, ListInv
<1>2. PICK n \in Nat : Memory(array, n)
  BY DEF ListInv
<1>3. List!size = n
  BY <1>2, SizeOfMemory, ListCardinality DEF List!size
<1>4. DOMAIN array = 0 .. n - 1
  BY <1>2 DEF Memory
<1> HIDE DEF List!size
<1>5. length \in Nat /\ length <= List!size /\ \A i \in 0 .. length - 1 : i \in DOMAIN array
  BY <1>1, <1>3, <1>4, SMT
<1> QED BY <1>1, <1>2, <1>3, <1>4, <1>5

(* The places of the list after a step, once the memory is known.          *)
LEMMA ListTypedBy ==
    ASSUME NEW n \in Nat, Memory(array', n), n <= SizeMax \div PtrSize,
           length' \in 0 .. n, owner' \in [Elems -> {"app", "list", "freed"}],
           twice' \in BOOLEAN, stored' \in {0, -1}
    PROVE  (\E m \in Nat : Memory(array, m))' /\ List!TypeOK'
<1>1. Cardinality(DOMAIN (array')) = n
  BY SizeOfMemory
<1>2. (List!size)' = n
  BY <1>1, ListCardinality DEF List!size
<1>3. array' \in [0 .. (List!size)' - 1 -> Elems \cup {Null, Junk}]
  BY <1>2 DEF Memory
<1> HIDE DEF List!size
<1>4. (List!size)' <= SizeMax \div PtrSize /\ length' \in 0 .. (List!size)'
  BY <1>2
<1>5. List!TypeOK'
  BY <1>3, <1>4, Zenon DEF List!TypeOK
<1>6. (\E m \in Nat : Memory(array, m))'
  <2>1. \E m \in Nat : Memory(array', m)
    OBVIOUS
  <2> QED BY <2>1 DEF Memory
<1> QED BY <1>5, <1>6

(* What realloc gives.                                                     *)
LEMMA ResizeKeeps ==
    ASSUME NEW m \in Nat, NEW n \in Nat, Memory(array, m)
    PROVE  /\ Memory(List!Resize(array, n), n)
           /\ \A i \in 0 .. n - 1 : i < m => List!Resize(array, n)[i] = array[i]
<1>1. DOMAIN array = 0 .. m - 1 /\ \A i \in 0 .. m - 1 : array[i] \in Elems \cup {Null, Junk}
  BY DEF Memory
<1> DEFINE r == List!Resize(array, n)
<1>2. r = [i \in 0 .. n - 1 |-> IF i \in 0 .. m - 1 THEN array[i] ELSE Junk]
  BY <1>1 DEF List!Resize
<1> HIDE DEF r
<1>3. Memory(r, n)
  BY <1>1, <1>2 DEF Memory
<1>4. \A i \in 0 .. n - 1 : i < m => r[i] = array[i]
  BY <1>2, SMT
<1> QED BY <1>3, <1>4 DEF r

(* What array_list_expand_internal leaves when it succeeds: room for max   *)
(* places, and those that were there.                                      *)
LEMMA ExpandKeeps ==
    ASSUME List!ArrayListAssumption, ListInv, NEW max \in Nat, max <= SizeMax,
           NEW mem \in {array, List!Resize(array, List!NewSize(max))}, List!Expand(max, mem)
    PROVE  \E m \in Nat :
             /\ Memory(mem, m) /\ max <= m /\ List!size <= m /\ m <= SizeMax \div PtrSize
             /\ \A i \in 0 .. List!size - 1 : mem[i] = array[i]
<1> DEFINE n == List!size
<1>1. Memory(array, n) /\ n \in Nat /\ n <= SizeMax \div PtrSize
  BY ListTyped
<1>2. SizeMax \in Nat /\ SizeMax \div PtrSize \in Nat /\ SizeMax \div PtrSize <= SizeMax
  BY ListConstants
<1>3. CASE max < n /\ mem = array
  BY <1>1, <1>3, SMT
<1>4. CASE ~ max < n /\ List!NewSize(max) <= SizeMax \div PtrSize /\ mem = List!Resize(array, List!NewSize(max))
  <2> DEFINE s == List!NewSize(max)
             w == List!Wrap(2 * n)
  <2>1. w \in Nat
    <3>1. \A a \in Nat : \A b \in Nat : a % (b + 1) \in Nat
      BY SMT
    <3> QED BY <1>1, <1>2, <3>1 DEF List!Wrap
  <2>2. s = max \/ (s = w /\ ~ w < max)
    BY Zenon DEF List!NewSize
  <2> HIDE DEF s, w, n
  <2>3. s \in Nat /\ max <= s /\ n <= s
    BY <1>1, <1>4, <2>1, <2>2, SMT
  <2>4. Memory(mem, s) /\ \A i \in 0 .. s - 1 : i < n => mem[i] = array[i]
    BY <1>1, <1>4, <2>3, ResizeKeeps DEF s
  <2>5. \A i \in 0 .. n - 1 : mem[i] = array[i]
    BY <1>1, <2>3, <2>4, SMT
  <2>6. s <= SizeMax \div PtrSize
    BY <1>4 DEF s
  <2> QED BY <2>3, <2>4, <2>5, <2>6 DEF n
<1> QED BY <1>3, <1>4, Zenon DEF List!Expand

(* The first list of an application.                                       *)
LEMMA ListInit == ASSUME List!ArrayListAssumption, List!Init PROVE ListInv
<1>1. /\ array = [i \in 0 .. ListSize - 1 |-> Junk] /\ length = 0
      /\ owner = [e \in Elems |-> "app"] /\ twice = FALSE /\ stored = 0
  BY DEF List!Init
<1>2. ListSize \in Nat /\ ListSize <= SizeMax \div PtrSize
  BY ListConstants
<1>3. Memory(array, ListSize)
  BY <1>1 DEF Memory
<1>4. List!size = ListSize
  BY <1>2, <1>3, SizeOfMemory, ListCardinality DEF List!size
<1>5. List!TypeOK
  <2>1. array \in [0 .. List!size - 1 -> Elems \cup {Null, Junk}] /\ List!size <= SizeMax \div PtrSize
    BY <1>2, <1>3, <1>4 DEF Memory
  <2>2. length \in 0 .. List!size
    BY <1>1, <1>2, <1>4, SMT
  <2>3. owner \in [Elems -> {"app", "list", "freed"}] /\ twice \in BOOLEAN /\ stored \in {0, -1}
    BY <1>1
  <2> QED BY <2>1, <2>2, <2>3, Zenon DEF List!TypeOK
<1>6. Owned
  <2>1. \A i : i \notin 0 .. length - 1
    BY <1>1, SMT
  <2>2. \A e \in Elems : owner[e] # "list"
    BY <1>1
  <2> QED BY <1>1, <2>1, <2>2, Zenon DEF Owned
<1> QED BY <1>2, <1>3, <1>5, <1>6 DEF ListInv

(* A step that keeps the values of the list at their places, and who has   *)
(* what, keeps them owned.                                                 *)
LEMMA OwnedKept ==
    ASSUME Owned, length' = length, owner' = owner, twice' = twice,
           \A i \in 0 .. length - 1 : array'[i] = array[i]
    PROVE  Owned'
BY SMT DEF Owned

\* A call that fails changes nothing.
LEMMA ListFails == ASSUME ListInv, List!Fail PROVE ListInv'
<1>1. UNCHANGED <<array, length, owner, twice>> /\ stored' = -1
  BY Zenon DEF List!Fail
<1>2. List!TypeOK'
  BY <1>1, Zenon DEF ListInv, List!TypeOK, List!size
<1>3. Owned' /\ (\E m \in Nat : Memory(array, m))'
  BY <1>1, Zenon DEF ListInv, Owned, Memory
<1> QED BY <1>2, <1>3 DEF ListInv

\* A value that was freed is used again.
LEMMA ListReuse ==
    ASSUME ListInv, NEW e \in Elems, List!Reuse(e) PROVE ListInv'
<1>1. /\ owner[e] = "freed" /\ owner' = [owner EXCEPT ![e] = "app"]
      /\ UNCHANGED <<array, length, twice, stored>>
  BY DEF List!Reuse
<1>2. owner \in [Elems -> {"app", "list", "freed"}]
  BY DEF ListInv, List!TypeOK
<1>3. owner' \in [Elems -> {"app", "list", "freed"}]
  BY <1>1, <1>2
<1>4. \A x \in Elems : (owner'[x] = "list") = (owner[x] = "list")
  BY <1>1, <1>2
<1>5. List!TypeOK' /\ (\E m \in Nat : Memory(array, m))'
  BY <1>1, <1>3, Zenon DEF ListInv, List!TypeOK, List!size, Memory
<1>6. Owned'
  <2>1. \A i \in 0 .. length - 1 : array[i] # Null => array[i] \in Elems /\ owner'[array[i]] = "list"
    BY <1>4 DEF ListInv, Owned
  <2>2. \A x \in Elems : owner'[x] = "list" => \E i \in 0 .. length - 1 : array[i] = x
    BY <1>4 DEF ListInv, Owned
  <2> QED BY <1>1, <2>1, <2>2, Zenon DEF ListInv, Owned
<1> QED BY <1>5, <1>6 DEF ListInv

(* Values that are at places of the list are freed, and nothing else is.   *)
LEMMA FreedOnce ==
    ASSUME List!ArrayListAssumption, ListInv, NEW freed \in SUBSET (0 .. length - 1)
    PROVE  /\ List!Twice(freed) = FALSE
           /\ List!Owners(freed) \in [Elems -> {"app", "list", "freed"}]
           /\ \A e \in Elems : List!Owners(freed)[e] = IF \E i \in freed : array[i] = e THEN "freed" ELSE owner[e]
<1>1. \A i \in freed : array[i] # Null => array[i] \in Elems /\ owner[array[i]] = "list"
  BY DEF ListInv, Owned
<1>2. ~ (\E i \in freed : array[i] # Null /\ (array[i] = Junk \/ owner[array[i]] # "list"))
  BY <1>1, ListConstants
<1>3. owner \in [Elems -> {"app", "list", "freed"}] /\ ~ twice
  BY DEF ListInv, List!TypeOK, Owned
<1> QED BY <1>2, <1>3, Zenon DEF List!Twice, List!Owners

(* A value e is put at the place idx of a memory that has it.              *)
Puts(idx, e, mem, m) ==
    /\ owner[e] = "app" /\ idx \in Nat /\ idx < m
    /\ m \in Nat /\ Memory(mem, m) /\ List!size <= m /\ m <= SizeMax \div PtrSize
    /\ \A i \in 0 .. List!size - 1 : mem[i] = array[i]
    /\ array' = [i \in 0 .. m - 1 |-> IF i = idx THEN e ELSE IF i \in length .. idx - 1 THEN Null ELSE mem[i]]
    /\ LET freed == IF idx < length /\ array[idx] # Null THEN {idx} ELSE {} IN
       /\ owner' = [List!Owners(freed) EXCEPT ![e] = "list"]
       /\ twice' = List!Twice(freed)
    /\ length' = IF length <= idx THEN idx + 1 ELSE length
    /\ stored' = 0

\* What json_object_array_put_idx and _add do to the places.
LEMMA PutIdxPuts ==
    ASSUME List!ArrayListAssumption, ListInv, NEW e \in Elems, NEW idx \in 0 .. SizeMax, List!PutIdx(idx, e)
    PROVE  \E mem, m : Puts(idx, e, mem, m)
<1> DEFINE max == List!Wrap(idx + 1)
<1>1. idx \in Nat /\ idx <= SizeMax - 1 /\ SizeMax \in Nat
  BY ListConstants, SMT DEF List!PutIdx
<1>2. max = idx + 1
  <2>1. \A a \in Nat : \A b \in Nat : a <= b => a % (b + 1) = a
    BY SMT
  <2>2. idx + 1 \in Nat /\ idx + 1 <= SizeMax
    BY <1>1, SMT
  <2> QED BY <1>1, <2>1, <2>2 DEF List!Wrap
<1>3. PICK mem \in {array, List!Resize(array, List!NewSize(max))} :
         /\ List!Expand(max, mem) /\ idx \in DOMAIN mem
         /\ array' = [i \in DOMAIN mem |-> IF i = idx THEN e
                                           ELSE IF i \in List!Gap(idx) THEN Null ELSE mem[i]]
  BY Zenon DEF List!PutIdx
<1>4. max \in Nat /\ max <= SizeMax
  BY <1>1, <1>2, SMT
<1> HIDE DEF max
<1>5. PICK m \in Nat :
         /\ Memory(mem, m) /\ max <= m /\ List!size <= m /\ m <= SizeMax \div PtrSize
         /\ \A i \in 0 .. List!size - 1 : mem[i] = array[i]
  BY <1>3, <1>4, ExpandKeeps
<1>6. DOMAIN mem = 0 .. m - 1 /\ List!Gap(idx) = length .. idx - 1
  BY <1>5 DEF Memory, List!Gap
<1>7. idx < m
  BY <1>1, <1>2, <1>5, SMT
<1>8. /\ owner[e] = "app" /\ stored' = 0 /\ length' = IF length <= idx THEN idx + 1 ELSE length
      /\ LET freed == IF idx < length /\ array[idx] # Null THEN {idx} ELSE {} IN
         /\ owner' = [List!Owners(freed) EXCEPT ![e] = "list"]
         /\ twice' = List!Twice(freed)
  BY Zenon DEF List!PutIdx
<1>9. Puts(idx, e, mem, m)
  BY <1>1, <1>3, <1>5, <1>6, <1>7, <1>8, Zenon DEF Puts
<1> QED BY <1>9

\* An addition puts behind the last place.
LEMMA AddPuts ==
    ASSUME List!ArrayListAssumption, ListInv, NEW e \in Elems, List!Add(e)
    PROVE  \E mem, m : Puts(length, e, mem, m)
<1> DEFINE max == List!Wrap(length + 1)
<1>1. length \in Nat /\ length <= List!size /\ List!size <= SizeMax \div PtrSize /\ List!size \in Nat
  BY ListTyped
<1>2. SizeMax \in Nat /\ SizeMax \div PtrSize \in Nat /\ SizeMax \div PtrSize <= SizeMax
  BY ListConstants
<1>3. PICK mem \in {array, List!Resize(array, List!NewSize(max))} :
         List!Expand(max, mem) /\ array' = [mem EXCEPT ![length] = e]
  BY Zenon DEF List!Add
<1>4. max \in Nat /\ max <= SizeMax /\ max = length + 1
  <2>1. \A a \in Nat : \A b \in Nat : a <= b => a % (b + 1) = a
    BY SMT
  <2>2. length <= SizeMax - 1
    BY DEF List!Add
  <2>3. length + 1 \in Nat /\ length + 1 <= SizeMax
    BY <1>1, <1>2, <2>2, SMT
  <2> QED BY <1>2, <2>1, <2>3 DEF List!Wrap
<1> HIDE DEF max
<1>5. PICK m \in Nat :
         /\ Memory(mem, m) /\ max <= m /\ List!size <= m /\ m <= SizeMax \div PtrSize
         /\ \A i \in 0 .. List!size - 1 : mem[i] = array[i]
  BY <1>3, <1>4, ExpandKeeps DEF max
<1>6. length < m
  BY <1>1, <1>4, <1>5, SMT
<1>7. array' = [i \in 0 .. m - 1 |-> IF i = length THEN e
                                    ELSE IF i \in length .. length - 1 THEN Null ELSE mem[i]]
  <2>1. DOMAIN mem = 0 .. m - 1 /\ length \in 0 .. m - 1 /\ mem \in [0 .. m - 1 -> Elems \cup {Null, Junk}]
    BY <1>1, <1>5, <1>6, SMT DEF Memory
  <2>2. \A i : i \notin length .. length - 1
    BY <1>1, SMT
  <2> QED BY <1>3, <2>1, <2>2
<1>8. owner[e] = "app" /\ owner' = [owner EXCEPT ![e] = "list"] /\ length' = length + 1 /\ stored' = 0
      /\ twice' = twice
  BY DEF List!Add
<1>9. List!Owners({}) = owner /\ List!Twice({}) = twice
  <2>1. owner \in [Elems -> {"app", "list", "freed"}] /\ twice \in BOOLEAN
    BY DEF ListInv, List!TypeOK
  <2> QED BY <2>1 DEF List!Owners, List!Twice
<1>10. /\ (IF length < length /\ array[length] # Null THEN {length} ELSE {}) = {}
       /\ length' = IF length <= length THEN length + 1 ELSE length
       /\ owner' = [List!Owners({}) EXCEPT ![e] = "list"] /\ twice' = List!Twice({})
  <2>1. ~ (length < length) /\ length <= length
    BY <1>1, SMT
  <2> QED BY <1>8, <1>9, <2>1
<1>11. Puts(length, e, mem, m)
  BY <1>1, <1>5, <1>6, <1>7, <1>8, <1>9, <1>10, Zenon DEF Puts
<1> QED BY <1>11

\* A put keeps every other value where it is.
LEMMA PutsKeeps ==
    ASSUME List!ArrayListAssumption, ListInv, NEW e \in Elems, NEW idx, NEW mem, NEW m, Puts(idx, e, mem, m)
    PROVE  ListInv'
<1> DEFINE freed == IF idx < length /\ array[idx] # Null THEN {idx} ELSE {}
           Frees(i) == i = idx /\ idx < length /\ array[idx] # Null
<1>1. /\ owner[e] = "app" /\ idx \in Nat /\ idx < m /\ stored' = 0
      /\ m \in Nat /\ Memory(mem, m) /\ List!size <= m /\ m <= SizeMax \div PtrSize
      /\ \A i \in 0 .. List!size - 1 : mem[i] = array[i]
      /\ array' = [i \in 0 .. m - 1 |-> IF i = idx THEN e ELSE IF i \in length .. idx - 1 THEN Null ELSE mem[i]]
      /\ owner' = [List!Owners(freed) EXCEPT ![e] = "list"] /\ twice' = List!Twice(freed)
      /\ length' = IF length <= idx THEN idx + 1 ELSE length
  BY Zenon DEF Puts
<1>2. length \in Nat /\ List!size \in Nat /\ length <= List!size
  BY ListTyped
<1>3. freed \in SUBSET (0 .. length - 1) /\ \A i : i \in freed <=> Frees(i)
  BY <1>1, <1>2, SMT
<1>4. /\ List!Twice(freed) = FALSE
      /\ List!Owners(freed) \in [Elems -> {"app", "list", "freed"}]
      /\ \A x \in Elems : List!Owners(freed)[x] = IF \E i \in freed : array[i] = x THEN "freed" ELSE owner[x]
  <2> HIDE DEF freed
  <2> QED BY <1>3, FreedOnce
<1> HIDE DEF freed
<1>5. owner' \in [Elems -> {"app", "list", "freed"}] /\ owner'[e] = "list"
      /\ \A x \in Elems \ {e} : owner'[x] = IF \E i \in freed : array[i] = x THEN "freed" ELSE owner[x]
  BY <1>1, <1>4
<1>6. Memory(array', m)
  BY <1>1 DEF Memory
<1>7. (\E k \in Nat : Memory(array, k))' /\ List!TypeOK'
  <2>1. length' \in 0 .. m
    BY <1>1, <1>2, SMT
  <2> QED BY <1>1, <1>4, <1>5, <1>6, <2>1, ListTypedBy
\* what is seen at each place of the list afterwards
<1>8. \A i \in 0 .. length' - 1 :
         /\ i = idx => array'[i] = e
         /\ i # idx /\ i < length => array'[i] = array[i]
         /\ i # idx /\ ~ i < length => array'[i] = Null
  <2> TAKE i \in 0 .. length' - 1
  <2>1. i \in 0 .. m - 1 /\ (i < length => i \in 0 .. List!size - 1) /\ (i # idx /\ ~ i < length => i \in length .. idx - 1)
        /\ (i < length => i \notin length .. idx - 1)
    BY <1>1, <1>2, SMT
  <2> QED BY <1>1, <2>1
<1>9. /\ \A i \in 0 .. length - 1 : array[i] # Null => array[i] \in Elems /\ owner[array[i]] = "list"
      /\ \A i, j \in 0 .. length - 1 : array[i] = array[j] /\ array[i] # Null => i = j
      /\ \A x \in Elems : owner[x] = "list" => \E i \in 0 .. length - 1 : array[i] = x
  BY DEF ListInv, Owned
<1>10. \A i \in 0 .. length - 1 : array[i] # e
  BY <1>1, <1>9, ListConstants
<1>11. \A i \in 0 .. length' - 1 : i = idx \/ (i \in 0 .. length - 1 /\ i < length) \/ array'[i] = Null
  <2>1. \A i \in 0 .. length' - 1 : i < length => i \in 0 .. length - 1
    BY <1>1, <1>2, SMT
  <2> QED BY <1>8, <2>1
<1>12. \A i \in 0 .. length' - 1 : array'[i] # Null => array'[i] \in Elems /\ owner'[array'[i]] = "list"
  <2> SUFFICES ASSUME NEW i \in 0 .. length' - 1, array'[i] # Null
               PROVE  array'[i] \in Elems /\ owner'[array'[i]] = "list"
    OBVIOUS
  <2>1. CASE i = idx
    BY <1>5, <1>8, <2>1
  <2>2. CASE i # idx
    <3>1. i \in 0 .. length - 1 /\ i < length /\ array'[i] = array[i]
      BY <1>8, <1>11, <2>2
    <3>2. array[i] \in Elems \ {e} /\ owner[array[i]] = "list"
      BY <1>9, <1>10, <3>1
    <3>3. ~ \E j \in freed : array[j] = array[i]
      BY <1>3, <1>9, <2>2, <3>1
    <3> QED BY <1>5, <3>1, <3>2, <3>3
  <2> QED BY <2>1, <2>2
<1>13. \A i, j \in 0 .. length' - 1 : array'[i] = array'[j] /\ array'[i] # Null => i = j
  BY <1>8, <1>9, <1>10, <1>11
<1>14. \A x \in Elems : owner'[x] = "list" => \E i \in 0 .. length' - 1 : array'[i] = x
  <2> SUFFICES ASSUME NEW x \in Elems, owner'[x] = "list" PROVE \E i \in 0 .. length' - 1 : array'[i] = x
    OBVIOUS
  <2>0. idx \in 0 .. length' - 1 /\ 0 .. length - 1 \subseteq 0 .. length' - 1
    BY <1>1, <1>2, SMT
  <2>1. CASE x = e
    BY <1>8, <2>0, <2>1
  <2>2. CASE x # e
    <3>1. owner[x] = "list" /\ ~ \E i \in freed : array[i] = x
      BY <1>5, <2>2
    <3>2. PICK i \in 0 .. length - 1 : array[i] = x
      BY <1>9, <3>1
    <3>3. i \notin freed /\ i < length /\ x # Null
      BY <1>2, <3>1, <3>2, ListConstants, SMT
    <3>4. i # idx
      BY <1>3, <3>2, <3>3
    <3> QED BY <1>8, <2>0, <3>2, <3>3, <3>4
  <2> QED BY <2>1, <2>2
<1>15. Owned'
  BY <1>1, <1>4, <1>12, <1>13, <1>14, Zenon DEF Owned
<1> QED BY <1>7, <1>15, Zenon DEF ListInv

\* A deletion frees what it takes out, and nothing else.
LEMMA ListDelIdx ==
    ASSUME List!ArrayListAssumption, ListInv, NEW idx \in 0 .. SizeMax, NEW count \in 0 .. SizeMax,
           List!DelIdx(idx, count)
    PROVE  ListInv'
<1> DEFINE stop == idx + count
           n == List!size
<1>1. SizeMax \in Nat /\ idx \in Nat /\ count \in Nat /\ idx <= SizeMax - count
  BY ListConstants, SMT DEF List!DelIdx
<1>2. List!Wrap(idx + count) = stop
  <2>1. \A a \in Nat : \A b \in Nat : a <= b => a % (b + 1) = a
    BY SMT
  <2>2. stop \in Nat /\ stop <= SizeMax
    BY <1>1, SMT
  <2> QED BY <1>1, <2>1, <2>2 DEF List!Wrap
<1>3. /\ idx < length /\ stop <= length /\ stored' = 0 /\ length' = length - count
      /\ owner' = List!Owners(idx .. stop - 1) /\ twice' = List!Twice(idx .. stop - 1)
      /\ array' = [i \in DOMAIN array |-> IF i \in idx .. idx + (length - stop) - 1
                                          THEN array[i + count] ELSE array[i]]
  BY <1>2, Zenon DEF List!DelIdx
<1>4. /\ Memory(array, n) /\ DOMAIN array = 0 .. n - 1 /\ n \in Nat /\ n <= SizeMax \div PtrSize
      /\ length \in Nat /\ length <= n /\ \A i \in 0 .. length - 1 : i \in DOMAIN array
  BY ListTyped
<1> DEFINE freed == idx .. stop - 1
<1>5. freed \in SUBSET (0 .. length - 1)
  BY <1>1, <1>3, <1>4, SMT
<1>6. /\ List!Twice(freed) = FALSE
      /\ List!Owners(freed) \in [Elems -> {"app", "list", "freed"}]
      /\ \A x \in Elems : List!Owners(freed)[x] = IF \E i \in freed : array[i] = x THEN "freed" ELSE owner[x]
  <2> HIDE DEF freed
  <2> QED BY <1>5, FreedOnce
<1> HIDE DEF n
\* where what is at a place afterwards came from
<1> DEFINE From(i) == IF i < idx THEN i ELSE i + count
<1>7. \A i \in 0 .. length' - 1 :
         From(i) \in 0 .. length - 1 /\ From(i) \notin freed /\ array'[i] = array[From(i)]
  <2> TAKE i \in 0 .. length' - 1
  <2>1. From(i) \in 0 .. length - 1 /\ From(i) \notin freed /\ i \in 0 .. n - 1
    BY <1>1, <1>3, <1>4, SMT
  <2>2. i \in idx .. idx + (length - stop) - 1 <=> ~ i < idx
    BY <1>1, <1>3, <1>4, SMT
  <2>3. array'[i] = IF i \in idx .. idx + (length - stop) - 1 THEN array[i + count] ELSE array[i]
    BY <1>3, <1>4, <2>1
  <2> QED BY <2>1, <2>2, <2>3
<1>8. \A i, j \in 0 .. length' - 1 : From(i) = From(j) => i = j
  BY <1>1, <1>3, <1>4, SMT
<1>9. \A j \in (0 .. length - 1) \ freed : \E i \in 0 .. length' - 1 : From(i) = j
  <2> TAKE j \in (0 .. length - 1) \ freed
  <2> DEFINE i == IF j < idx THEN j ELSE j - count
  <2>1. i \in 0 .. length' - 1 /\ From(i) = j
    BY <1>1, <1>3, <1>4, SMT
  <2> QED BY <2>1
<1>10. Memory(array', n)
  <2>1. \A i \in 0 .. n - 1 : i \in idx .. idx + (length - stop) - 1 => i + count \in 0 .. n - 1
    BY <1>1, <1>3, <1>4, SMT
  <2> QED BY <1>3, <1>4, <2>1 DEF Memory
<1>11. (\E k \in Nat : Memory(array, k))' /\ List!TypeOK'
  <2>1. length' \in 0 .. n
    BY <1>1, <1>3, <1>4, SMT
  <2> QED BY <1>3, <1>4, <1>6, <1>10, <2>1, ListTypedBy
<1>12. /\ \A i \in 0 .. length - 1 : array[i] # Null => array[i] \in Elems /\ owner[array[i]] = "list"
       /\ \A i, j \in 0 .. length - 1 : array[i] = array[j] /\ array[i] # Null => i = j
       /\ \A x \in Elems : owner[x] = "list" => \E i \in 0 .. length - 1 : array[i] = x
  BY DEF ListInv, Owned
<1> HIDE DEF From, freed
<1>13. \A i \in 0 .. length' - 1 : array'[i] # Null => array'[i] \in Elems /\ owner'[array'[i]] = "list"
  <2> SUFFICES ASSUME NEW i \in 0 .. length' - 1, array'[i] # Null
               PROVE  array'[i] \in Elems /\ owner'[array'[i]] = "list"
    OBVIOUS
  <2>1. array[From(i)] \in Elems /\ owner[array[From(i)]] = "list" /\ array'[i] = array[From(i)]
    BY <1>7, <1>12
  <2>2. ~ \E j \in freed : array[j] = array[From(i)]
    BY <1>5, <1>7, <1>12
  <2> QED BY <1>3, <1>6, <2>1, <2>2 DEF freed
<1>14. \A i, j \in 0 .. length' - 1 : array'[i] = array'[j] /\ array'[i] # Null => i = j
  BY <1>7, <1>8, <1>12
<1>15. \A x \in Elems : owner'[x] = "list" => \E i \in 0 .. length' - 1 : array'[i] = x
  <2> SUFFICES ASSUME NEW x \in Elems, owner'[x] = "list" PROVE \E i \in 0 .. length' - 1 : array'[i] = x
    OBVIOUS
  <2>1. owner[x] = "list" /\ ~ \E i \in freed : array[i] = x
    BY <1>3, <1>6 DEF freed
  <2>2. PICK j \in 0 .. length - 1 : array[j] = x
    BY <1>12, <2>1
  <2>3. j \notin freed
    BY <2>1, <2>2
  <2> QED BY <1>7, <1>9, <2>2, <2>3
<1>16. Owned'
  BY <1>3, <1>6, <1>13, <1>14, <1>15, Zenon DEF Owned, freed
<1> QED BY <1>11, <1>16, Zenon DEF ListInv

\* Shrinking moves nothing.
LEMMA ListShrink ==
    ASSUME List!ArrayListAssumption, ListInv, NEW room \in 0 .. SizeMax, List!Shrink(room)
    PROVE  ListInv' /\ length' = length /\ \A i \in 0 .. length - 1 : array'[i] = array[i]
<1> DEFINE want == length + room
           n == List!size
<1>1. /\ Memory(array, n) /\ n \in Nat /\ n <= SizeMax \div PtrSize
      /\ length \in Nat /\ length <= n /\ owner \in [Elems -> {"app", "list", "freed"}]
  BY ListTyped
<1>2. SizeMax \in Nat /\ SizeMax \div PtrSize \in Nat /\ SizeMax \div PtrSize <= SizeMax
  BY ListConstants
<1>3. /\ room < SizeMax \div PtrSize - length /\ stored' = 0 /\ UNCHANGED <<length, owner, twice>>
      /\ \/ want = n /\ UNCHANGED array
         \/ want > n /\ \E mem \in {array, List!Resize(array, List!NewSize(want))} :
                               List!Expand(want, mem) /\ array' = mem
         \/ want < n /\ array' = List!Resize(array, IF want = 0 THEN 1 ELSE want)
  BY Zenon DEF List!Shrink
<1>4. want \in Nat /\ want <= SizeMax /\ length <= want
  BY <1>1, <1>2, <1>3, SMT
<1> HIDE DEF n, want
<1>5. \E m \in Nat : /\ Memory(array', m) /\ length <= m /\ m <= SizeMax \div PtrSize
                      /\ \A i \in 0 .. length - 1 : array'[i] = array[i]
  <2>1. CASE want = n /\ UNCHANGED array
    BY <1>1, <2>1
  <2>2. CASE \E mem \in {array, List!Resize(array, List!NewSize(want))} :
                 List!Expand(want, mem) /\ array' = mem
    <3>1. PICK m \in Nat : /\ Memory(array', m) /\ n <= m /\ m <= SizeMax \div PtrSize
                           /\ \A i \in 0 .. n - 1 : array'[i] = array[i]
      BY <1>4, <2>2, ExpandKeeps DEF n
    <3>2. length <= m /\ \A i \in 0 .. length - 1 : i \in 0 .. n - 1
      BY <1>1, <3>1, SMT
    <3> QED BY <3>1, <3>2
  <2>3. CASE want < n /\ array' = List!Resize(array, IF want = 0 THEN 1 ELSE want)
    <3> DEFINE m == IF want = 0 THEN 1 ELSE want
    <3>1. m \in Nat /\ length <= m /\ m <= n
      BY <1>1, <1>4, <2>3, SMT
    <3>2. Memory(array', m) /\ \A i \in 0 .. m - 1 : i < n => array'[i] = array[i]
      <4>1. array' = List!Resize(array, m)
        BY <2>3
      <4> HIDE DEF m
      <4> QED BY <1>1, <3>1, <4>1, ResizeKeeps
    <3> HIDE DEF m
    <3>3. \A i \in 0 .. length - 1 : i \in 0 .. m - 1 /\ i < n
      BY <1>1, <3>1, SMT
    <3>4. m <= SizeMax \div PtrSize
      BY <1>1, <1>2, <3>1, SMT
    <3> QED BY <3>1, <3>2, <3>3, <3>4
  <2> QED BY <1>3, <2>1, <2>2, <2>3
<1>6. PICK m \in Nat : /\ Memory(array', m) /\ length <= m /\ m <= SizeMax \div PtrSize
                       /\ \A i \in 0 .. length - 1 : array'[i] = array[i]
  BY <1>5
<1>7. Owned'
  BY <1>3, <1>6, OwnedKept DEF ListInv
<1>8. (\E k \in Nat : Memory(array, k))' /\ List!TypeOK'
  <2>1. length' \in 0 .. m /\ twice' \in BOOLEAN /\ owner' \in [Elems -> {"app", "list", "freed"}]
        /\ stored' \in {0, -1}
    <3>1. twice \in BOOLEAN
      BY DEF ListInv, List!TypeOK
    <3> QED BY <1>1, <1>3, <1>6, <3>1, SMT
  <2> QED BY <1>6, <2>1, ListTypedBy
<1> QED BY <1>3, <1>6, <1>7, <1>8, Zenon DEF ListInv

\* Every call keeps the invariant.
LEMMA ListNext == ASSUME List!ArrayListAssumption, ListInv, [List!Next]_(List!vars) PROVE ListInv'
<1>1. ASSUME NEW e \in Elems, List!Add(e) PROVE ListInv'
  BY <1>1, AddPuts, PutsKeeps
<1>2. ASSUME NEW e \in Elems, NEW idx \in 0 .. SizeMax, List!PutIdx(idx, e) PROVE ListInv'
  BY <1>2, PutIdxPuts, PutsKeeps
<1>3. ASSUME List!Fail PROVE ListInv'
  BY <1>3, ListFails
<1>4. ASSUME UNCHANGED List!vars PROVE ListInv'
  <2>1. UNCHANGED <<array, length, owner, twice, stored>>
    BY <1>4 DEF List!vars
  <2> QED BY <2>1, Zenon DEF ListInv, List!TypeOK, List!size, Owned, Memory
<1> QED
  BY <1>1, <1>2, <1>3, <1>4, ListReuse, ListDelIdx, ListShrink, Zenon
     DEF List!Next, List!PutIdxFails, List!DelIdxFails, List!ShrinkFails

(* One place each is what a count of one says.                             *)
LEMMA ListInvOwned == ASSUME List!ArrayListAssumption, ListInv PROVE List!TypeOK /\ List!OwnedOnce
<1>1. /\ \A i \in 0 .. length - 1 : array[i] # Null => array[i] \in Elems /\ owner[array[i]] = "list"
      /\ \A i, j \in 0 .. length - 1 : array[i] = array[j] /\ array[i] # Null => i = j
      /\ \A x \in Elems : owner[x] = "list" => \E i \in 0 .. length - 1 : array[i] = x
      /\ ~ twice
  BY DEF ListInv, Owned
<1>2. ASSUME NEW e \in Elems, owner[e] = "list"
      PROVE  List!Cardinality({i \in 0 .. length - 1 : array[i] = e}) = 1
  <2>1. PICK i \in 0 .. length - 1 : array[i] = e
    BY <1>1, <1>2
  <2>2. e # Null
    BY ListConstants
  <2>3. {j \in 0 .. length - 1 : array[j] = e} = {i}
    BY <1>1, <2>1, <2>2
  <2> QED BY <2>3, FS_Singleton, ListCardinality
<1>3. List!OwnedOnce
  BY <1>1, <1>2 DEF List!OwnedOnce
<1> QED BY <1>3 DEF ListInv

\* A value in an array is there once and is not freed there.
LEMMA ListAlwaysOwned ==
    ASSUME List!ArrayListAssumption PROVE List!Spec => [](List!TypeOK /\ List!OwnedOnce)
<1>1. List!Init => ListInv
  BY ListInit
<1>2. ListInv /\ [List!Next]_(List!vars) => ListInv'
  BY ListNext
<1>3. ListInv => List!TypeOK /\ List!OwnedOnce
  BY ListInvOwned
<1> QED BY <1>1, <1>2, <1>3, PTL DEF List!Spec

-----------------------------------------------------------------------------
(* The array is the sequence of its values. *)

\* The array as a sequence: the abstract state.
Items == [i \in 1 .. length |-> array[i - 1]]

\* Its length.
LEMMA ItemsLen ==
    ASSUME ListInv
    PROVE  Items \in Seq(Elems \cup {Null, Junk}) /\ Len(Items) = length /\ DOMAIN Items = 1 .. length
<1>1. length \in Nat /\ \A i \in 0 .. length - 1 : array[i] \in Elems \cup {Null, Junk}
  BY ListTyped DEF Memory
<1>2. \A i \in 1 .. length : i - 1 \in 0 .. length - 1
  BY <1>1, SMT
<1>3. Items \in [1 .. length -> Elems \cup {Null, Junk}]
  BY <1>1, <1>2 DEF Items
<1> QED BY <1>1, <1>3, IsASeq, LenProperties

\* Calls that leave the places leave the sequence.
LEMMA ItemsKept ==
    ASSUME ListInv, length' = length, \A i \in 0 .. length - 1 : array'[i] = array[i]
    PROVE  Items' = Items
<1>1. \A i \in 1 .. length : i - 1 \in 0 .. length - 1
  BY ListTyped, SMT
<1>2. Items' = [i \in 1 .. length' |-> array'[i - 1]]
  BY Zenon DEF Items
<1> QED BY <1>1, <1>2 DEF Items

\* A put is a put of the sequence, with gaps.
LEMMA PutsPutsItem ==
    ASSUME List!ArrayListAssumption, ListInv, NEW e \in Elems, NEW idx, NEW mem, NEW m, Puts(idx, e, mem, m)
    PROVE  idx \in 0 .. SizeMax \div PtrSize /\ List!List!Put(idx, e)
<1>1. /\ idx \in Nat /\ idx < m /\ m \in Nat /\ m <= SizeMax \div PtrSize /\ List!size <= m
      /\ \A i \in 0 .. List!size - 1 : mem[i] = array[i]
      /\ array' = [i \in 0 .. m - 1 |-> IF i = idx THEN e ELSE IF i \in length .. idx - 1 THEN Null ELSE mem[i]]
      /\ length' = IF length <= idx THEN idx + 1 ELSE length
  BY Zenon DEF Puts
<1>2. length \in Nat /\ length <= List!size /\ List!size \in Nat /\ SizeMax \div PtrSize \in Nat
  BY ListTyped, ListConstants
<1>3. Len(Items) = length
  BY ItemsLen
<1>4. length' = IF idx + 1 > length THEN idx + 1 ELSE length
  BY <1>1, <1>2, SMT
<1>5. ASSUME NEW j \in 1 .. length'
      PROVE  array'[j - 1] = IF j = idx + 1 THEN e ELSE IF j <= length THEN array[j - 1] ELSE Null
  <2>1. /\ j - 1 \in 0 .. m - 1 /\ (j = idx + 1 <=> j - 1 = idx)
        /\ (j <= length => j - 1 \in 0 .. List!size - 1 /\ j - 1 \notin length .. idx - 1)
        /\ (~ j <= length /\ j # idx + 1 => j - 1 \in length .. idx - 1)
    BY <1>1, <1>2, <1>4, <1>5, SMT
  <2> QED BY <1>1, <2>1
<1>6. Items' = [j \in 1 .. (IF idx + 1 > length THEN idx + 1 ELSE length) |->
                  IF j = idx + 1 THEN e ELSE IF j <= length THEN Items[j] ELSE Null]
  <2>1. Items' = [j \in 1 .. length' |-> array'[j - 1]]
    BY Zenon DEF Items
  <2>2. \A j \in 1 .. length' : j <= length => Items[j] = array[j - 1]
    <3>1. \A j \in 1 .. length' : j <= length => j \in 1 .. length
      BY <1>2, <1>4, SMT
    <3> QED BY <3>1 DEF Items
  <2> QED BY <1>4, <1>5, <2>1, <2>2
<1>7. List!List!Put(idx, e)
  BY <1>3, <1>6, Zenon DEF List!List!Put, Items
<1> QED BY <1>1, <1>2, <1>7, SMT

\* A deletion is a deletion of the sequence.
LEMMA DelDeletesItems ==
    ASSUME List!ArrayListAssumption, ListInv, NEW idx \in 0 .. SizeMax, NEW count \in 0 .. SizeMax,
           List!DelIdx(idx, count)
    PROVE  idx \in 0 .. SizeMax \div PtrSize /\ count \in 0 .. SizeMax \div PtrSize /\ List!List!Delete(idx, count)
<1> DEFINE stop == idx + count
           n == List!size
           T == Elems \cup {Null, Junk}
           L == SubSeq(Items, 1, idx)
           R == SubSeq(Items, idx + count + 1, Len(Items))
<1>1. SizeMax \in Nat /\ idx \in Nat /\ count \in Nat /\ idx <= SizeMax - count
  BY ListConstants, SMT DEF List!DelIdx
<1>2. List!Wrap(idx + count) = stop
  <2>1. \A a \in Nat : \A b \in Nat : a <= b => a % (b + 1) = a
    BY SMT
  <2>2. stop \in Nat /\ stop <= SizeMax
    BY <1>1, SMT
  <2> QED BY <1>1, <2>1, <2>2 DEF List!Wrap
<1>3. /\ idx < length /\ stop <= length /\ length' = length - count
      /\ array' = [i \in DOMAIN array |-> IF i \in idx .. idx + (length - stop) - 1
                                          THEN array[i + count] ELSE array[i]]
  BY <1>2, Zenon DEF List!DelIdx
<1>4. /\ DOMAIN array = 0 .. n - 1 /\ n \in Nat /\ n <= SizeMax \div PtrSize
      /\ length \in Nat /\ length <= n
  BY ListTyped
<1>5. Items \in Seq(T) /\ Len(Items) = length /\ DOMAIN Items = 1 .. length
  BY ItemsLen
<1> HIDE DEF n
<1>6. \A m \in 1 .. Len(Items) + 1, k \in 0 .. Len(Items) :
        /\ SubSeq(Items, m, k) \in Seq(T)
        /\ Len(SubSeq(Items, m, k)) = IF m <= k THEN k - m + 1 ELSE 0
        /\ \A j \in 1 .. k - m + 1 : SubSeq(Items, m, k)[j] = Items[m + j - 1]
  <2> HIDE DEF T
  <2> SUFFICES ASSUME NEW m \in 1 .. Len(Items) + 1, NEW k \in 0 .. Len(Items)
               PROVE  /\ SubSeq(Items, m, k) \in Seq(T)
                      /\ Len(SubSeq(Items, m, k)) = IF m <= k THEN k - m + 1 ELSE 0
                      /\ \A j \in 1 .. k - m + 1 : SubSeq(Items, m, k)[j] = Items[m + j - 1]
    BY Zenon
  <2>1. m \in Int /\ k \in Int
    BY <1>4, <1>5, SMT
  <2>2. \A i \in m .. k : i \in 1 .. Len(Items)
    BY <1>4, <1>5, SMT
  <2>3. \A i \in m .. k : Items[i] \in T
    BY <2>2, <1>5, ElementOfSeq, Zenon
  <2> QED BY <2>1, <2>3, SubSeqProperties
<1>7. L \in Seq(T) /\ Len(L) = idx /\ \A j \in 1 .. idx : L[j] = Items[j]
  <2>1. 1 \in 1 .. Len(Items) + 1 /\ idx \in 0 .. Len(Items) /\ idx - 1 + 1 = idx
    BY <1>1, <1>3, <1>4, <1>5, SMT
  <2>2. /\ L \in Seq(T)
        /\ Len(L) = IF 1 <= idx THEN idx - 1 + 1 ELSE 0
        /\ \A j \in 1 .. idx - 1 + 1 : L[j] = Items[1 + j - 1]
    BY <1>6, <2>1, Zenon
  <2>3. \A j \in 1 .. idx : 1 + j - 1 = j
    BY SMT
  <2> HIDE DEF L
  <2>4. Len(L) = idx
    BY <1>1, <2>2, SMT
  <2> QED BY <2>1, <2>2, <2>3, <2>4
<1>8. R \in Seq(T) /\ Len(R) = length - stop /\ \A j \in 1 .. length - stop : R[j] = Items[j + stop]
  <2>1. /\ idx + count + 1 \in 1 .. Len(Items) + 1 /\ Len(Items) \in 0 .. Len(Items)
        /\ length - (idx + count + 1) + 1 = length - stop
    BY <1>1, <1>3, <1>4, <1>5, SMT
  <2>2. /\ R \in Seq(T)
        /\ Len(R) = IF idx + count + 1 <= length THEN length - (idx + count + 1) + 1 ELSE 0
        /\ \A j \in 1 .. length - (idx + count + 1) + 1 : R[j] = Items[idx + count + 1 + j - 1]
    BY <1>5, <1>6, <2>1, Zenon
  <2>3. \A j \in 1 .. length - stop : idx + count + 1 + j - 1 = j + stop
    BY <1>1, SMT
  <2> HIDE DEF R
  <2>4. Len(R) = length - stop
    BY <1>1, <1>3, <1>4, <2>1, <2>2, SMT
  <2> QED BY <2>1, <2>2, <2>3, <2>4
<1> HIDE DEF L, R
<1> DEFINE C == L \o R
<1>9. /\ C \in Seq(T) /\ Len(C) = idx + (length - stop)
      /\ \A j \in 1 .. idx + (length - stop) : C[j] = IF j <= idx THEN L[j] ELSE R[j - idx]
  BY <1>7, <1>8, ConcatProperties
<1> HIDE DEF C
<1>10. DOMAIN C = 1 .. length' /\ idx + (length - stop) = length'
  <2>1. idx + (length - stop) = length'
    BY <1>1, <1>3, <1>4, SMT
  <2> QED BY <1>9, <2>1, LenProperties
<1>11. ASSUME NEW j \in 1 .. length' PROVE array'[j - 1] = C[j]
  <2>1. j - 1 \in 0 .. n - 1 /\ (j - 1 \in idx .. idx + (length - stop) - 1 <=> ~ j <= idx)
    BY <1>1, <1>3, <1>4, <1>11, SMT
  <2>2. CASE j <= idx
    <3>1. j \in 1 .. idx /\ j \in 1 .. length
      BY <1>1, <1>3, <1>4, <1>11, <2>2, SMT
    <3>2. array'[j - 1] = array[j - 1]
      BY <1>3, <1>4, <2>1, <2>2
    <3>3. C[j] = Items[j]
      BY <1>7, <1>9, <1>10, <2>2, <3>1
    <3> QED BY <3>1, <3>2, <3>3 DEF Items
  <2>3. CASE ~ j <= idx
    <3>1. /\ j - idx \in 1 .. length - stop /\ j - idx + stop \in 1 .. length
          /\ j - idx + stop - 1 = j - 1 + count
      BY <1>1, <1>3, <1>4, <1>11, <2>3, SMT
    <3>2. array'[j - 1] = array[j - 1 + count]
      BY <1>3, <1>4, <2>1, <2>3
    <3>3. C[j] = Items[j - idx + stop]
      BY <1>8, <1>9, <1>10, <2>3, <3>1
    <3>4. Items[j - idx + stop] = array[j - idx + stop - 1]
      BY <3>1 DEF Items
    <3> QED BY <3>1, <3>2, <3>3, <3>4
  <2> QED BY <2>2, <2>3
<1>12. Items' = C
  <2>1. Items' = [j \in 1 .. length' |-> array'[j - 1]]
    BY Zenon DEF Items
  <2>2. C = [j \in 1 .. length' |-> C[j]]
    BY <1>9, <1>10
  <2> QED BY <1>11, <2>1, <2>2
<1>13. idx + count <= Len(Items)
  BY <1>3, <1>5
<1>14. List!List!Delete(idx, count)
  BY <1>12, <1>13, Zenon DEF List!List!Delete, Items, C, L, R
<1>15. SizeMax \div PtrSize \in Nat
  BY ListConstants
<1> QED BY <1>1, <1>3, <1>4, <1>14, <1>15, SMT

\* Every call is a step of the sequence, or none.
LEMMA ListImplementsNext ==
    ASSUME List!ArrayListAssumption, ListInv, [List!Next]_(List!vars)
    PROVE  List!List!Next \/ Items' = Items
<1> USE DEF List!List!Next
<1>1. ASSUME NEW e \in Elems, List!Add(e) PROVE List!List!Next
  BY <1>1, AddPuts, PutsPutsItem
<1>2. ASSUME NEW e \in Elems, NEW idx \in 0 .. SizeMax, List!PutIdx(idx, e) PROVE List!List!Next
  BY <1>2, PutIdxPuts, PutsPutsItem
<1>3. ASSUME NEW idx \in 0 .. SizeMax, NEW count \in 0 .. SizeMax, List!DelIdx(idx, count) PROVE List!List!Next
  BY <1>3, DelDeletesItems
<1>4. ASSUME NEW room \in 0 .. SizeMax, List!Shrink(room) PROVE Items' = Items
  BY <1>4, ListShrink, ItemsKept
<1>5. ASSUME List!Fail \/ UNCHANGED List!vars \/ \E e \in Elems : List!Reuse(e) PROVE Items' = Items
  BY <1>5, Zenon DEF List!Fail, List!vars, List!Reuse, Items
<1> HIDE DEF List!List!Next
<1> QED
  BY <1>1, <1>2, <1>3, <1>4, <1>5, Zenon
     DEF List!Next, List!PutIdxFails, List!DelIdxFails, List!ShrinkFails

\* So the array implements the sequence.
LEMMA ListIsSequence == ASSUME List!ArrayListAssumption PROVE List!Spec => List!ImplementsList
<1>1. List!Init => ListInv
  BY ListInit
<1>2. ListInv /\ [List!Next]_(List!vars) => ListInv'
  BY ListNext
<1>3. List!Init => List!List!Init
  <2> SUFFICES ASSUME List!Init PROVE List!List!Init
    OBVIOUS
  <2>1. length = 0
    BY DEF List!Init
  <2>2. [i \in 1 .. length |-> array[i - 1]] = <<>>
    <3>1. 1 .. 0 = {}
      BY SMT
    <3>2. DOMAIN [i \in 1 .. length |-> array[i - 1]] = {}
      BY <2>1, <3>1
    <3> QED BY <2>1, <3>1
  <2> QED BY <2>2 DEF List!List!Init
<1>4. ListInv /\ [List!Next]_(List!vars) => [List!List!Next]_Items
  BY ListImplementsNext
<1> QED BY <1>1, <1>2, <1>3, <1>4, PTL DEF List!Spec, List!ImplementsList, List!List!Spec, Items
-----------------------------------------------------------------------------
(* The parts. *)

(* A step of libjson is a step of one part, and a stutter of the others.   *)
LEMMA StepOfPart ==
    ASSUME [JsonNext]_jsonVars
    PROVE  /\ part' = part
           /\ [Next]_vars /\ [List!Next]_(List!vars) /\ [Buffer!Next]_(Buffer!vars)
           /\ [Numbers!Next]_(Numbers!vars) /\ [Tree!Next]_(Tree!vars) /\ [Parser!Next]_(Parser!vars)
<1> USE DEF textVars, listVars, bufferVars, numberVars, treeVars, List!vars, Buffer!vars, Numbers!vars,
            Tree!vars, Parser!vars
<1>1. CASE UNCHANGED jsonVars
  BY <1>1, Zenon DEF jsonVars
<1>2. CASE JsonNext
  BY <1>2, Zenon DEF JsonNext
<1> QED BY <1>1, <1>2

(* So what a part does in libjson is what it does alone.                   *)
LEMMA SpecOfParts ==
    JsonSpec => /\ Spec /\ List!Spec /\ Buffer!Spec /\ Numbers!Spec /\ Tree!Spec /\ Parser!Spec
<1>1. JsonInit => Init /\ List!Init /\ Buffer!Init /\ Numbers!Init /\ Tree!Init /\ Parser!Init
  BY Zenon DEF JsonInit
<1>2. [JsonNext]_jsonVars =>
        /\ [Next]_vars /\ [List!Next]_(List!vars) /\ [Buffer!Next]_(Buffer!vars)
        /\ [Numbers!Next]_(Numbers!vars) /\ [Tree!Next]_(Tree!vars) /\ [Parser!Next]_(Parser!vars)
  BY StepOfPart, Zenon
<1> QED BY <1>1, <1>2, PTL DEF JsonSpec, Spec, List!Spec, Buffer!Spec, Numbers!Spec, Tree!Spec, Parser!Spec

(* The buffer and the numbers at the limits of int and int64, for all of them. *)
THEOREM LimitsAlwaysKept == JsonSpec => []LimitsKept
<1>1. Buffer!PrintBufAssumption /\ Numbers!WidthAssumption
  BY PartAssumptions
<1>2. Buffer!Spec => []Buffer!BufferSafe
  BY <1>1, BufferAlwaysSafe
<1>3. Numbers!Spec => []Numbers!NumbersKept
  BY <1>1, NumbersAlwaysKept
<1>4. Buffer!BufferSafe /\ Numbers!NumbersKept => LimitsKept
  BY Zenon DEF LimitsKept
<1> QED BY <1>2, <1>3, <1>4, SpecOfParts, PTL

(* An array is the sequence of its values, gaps included, whatever is put, *)
(* inserted, deleted and shrunk; and a foreach loop visits the fields of   *)
(* an object in sequence, whatever its body deletes but the next one.      *)
THEOREM SequencesAlwaysKept == JsonSpec => SequencesKept
<1>1. LinkHashAssumption /\ List!ArrayListAssumption
  BY PartAssumptions
<1>2. List!Spec => List!ImplementsList
  BY <1>1, ListIsSequence
<1>3. Spec => ForeachVisitsAllUnlessSpoiled
  BY <1>1, LoopsVisitAll
<1> QED BY <1>2, <1>3, SpecOfParts, PTL DEF SequencesKept

(* The table of libjson is the table alone.                                *)
THEOREM FieldsAlwaysSound == JsonSpec => []TableSound /\ ImplementsMap
<1>1. LinkHashAssumption
  BY PartAssumptions
<1>2. (Spec => []TableSound) /\ (Spec => ImplementsMap)
  BY <1>1, TableAlwaysSound, TableIsOrderedMap
<1> QED BY <1>2, SpecOfParts, PTL
====
