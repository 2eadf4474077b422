-------------------------- MODULE JsonObject_proofs --------------------------
(***************************************************************************)
(* The values of json_object.c, for any nodes, keys and bounds: references *)
(* are counted exactly at every step of a deletion and of a deep copy, a   *)
(* copy is equal to its source and apart from it, and json_object_equal    *)
(* compares values.                                                        *)
(***************************************************************************)
EXTENDS Json_proofs


-----------------------------------------------------------------------------
(* Counting: how often a value is in a function.                           *)

\* where f has the value n
Hits(f, n) == {s \in DOMAIN f : f[s] = n}
Num(f, n) == Cardinality(Hits(f, n))
One(p) == IF p THEN 1 ELSE 0

\* The instance of JsonObject has finite sets and sequences of its own.
LEMMA TreeCardinality == \A S : Tree!Cardinality(S) = Cardinality(S)
BY Zenon DEF Tree!Cardinality, Cardinality, Tree!IsFiniteSet, IsFiniteSet

\* The same of finite sets.
LEMMA TreeFinite == \A S : Tree!IsFiniteSet(S) = IsFiniteSet(S)
BY Zenon DEF Tree!IsFiniteSet, IsFiniteSet

\* A bijection keeps the number of elements.
LEMMA SameCount ==
    ASSUME NEW S, NEW T, IsFiniteSet(S), NEW f \in [S -> T],
           \A a, b \in S : f[a] = f[b] => a = b, \A y \in T : \E a \in S : f[a] = y
    PROVE  IsFiniteSet(T) /\ Cardinality(T) = Cardinality(S)
<1>1. f \in Bijection(S, T)
  BY Zenon DEF Bijection, Injection, Surjection, IsInjective
<1>2. ExistsBijection(S, T)
  BY <1>1, Zenon DEF ExistsBijection
<1> QED BY <1>2, FS_Bijection

\* Disjoint parts add up.
LEMMA PartsAdd ==
    ASSUME NEW A, NEW B, IsFiniteSet(A), IsFiniteSet(B), A \cap B = {}
    PROVE  /\ IsFiniteSet(A \cup B) /\ Cardinality(A) \in Nat /\ Cardinality(B) \in Nat
           /\ Cardinality(A \cup B) = Cardinality(A) + Cardinality(B)
<1>1. Cardinality({}) = 0
  BY FS_EmptySet
<1>2. Cardinality(A) \in Nat /\ Cardinality(B) \in Nat
  BY FS_CardinalityType
<1>3. /\ IsFiniteSet(A \cup B)
      /\ Cardinality(A \cup B) = Cardinality(A) + Cardinality(B) - Cardinality(A \cap B)
  BY FS_Union
<1>4. Cardinality(A \cap B) = 0
  BY <1>1, Zenon
<1>5. Cardinality(A) + Cardinality(B) - 0 = Cardinality(A) + Cardinality(B)
  BY <1>2, SMT
<1> QED BY <1>2, <1>3, <1>4, <1>5, Zenon

\* Hits are finite where the domain is.
LEMMA NumType ==
    ASSUME NEW f, NEW n, IsFiniteSet(DOMAIN f)
    PROVE  IsFiniteSet(Hits(f, n)) /\ Num(f, n) \in Nat
<1>1. Hits(f, n) \in SUBSET DOMAIN f
  BY Zenon DEF Hits
<1>2. IsFiniteSet(Hits(f, n))
  BY <1>1, FS_Subset, Zenon
<1> QED BY <1>2, FS_CardinalityType, Zenon DEF Num

\* None is counted where there is none.
LEMMA NumNone ==
    ASSUME NEW f, NEW n, IsFiniteSet(DOMAIN f)
    PROVE  Num(f, n) = 0 <=> \A s \in DOMAIN f : f[s] # n
<1>1. IsFiniteSet(Hits(f, n))
  BY NumType
<1>2. Cardinality(Hits(f, n)) = 0 <=> Hits(f, n) = {}
  BY <1>1, FS_EmptySet, Zenon
<1> QED BY <1>2, Zenon DEF Num, Hits

\* Two functions that differ at one place at most.
LEMMA NumChanged ==
    ASSUME NEW f, NEW g, NEW n, NEW s, IsFiniteSet(DOMAIN f), IsFiniteSet(DOMAIN g),
           Hits(f, n) \ {s} = Hits(g, n) \ {s}
    PROVE  Num(g, n) + One(s \in Hits(f, n)) = Num(f, n) + One(s \in Hits(g, n))
<1>1. /\ IsFiniteSet(Hits(f, n)) /\ IsFiniteSet(Hits(g, n)) /\ Num(f, n) \in Nat /\ Num(g, n) \in Nat
  BY NumType
<1>2. Cardinality(Hits(f, n) \ {s}) = IF s \in Hits(f, n) THEN Num(f, n) - 1 ELSE Num(f, n)
  BY <1>1, FS_RemoveElement, Zenon DEF Num
<1>3. Cardinality(Hits(g, n) \ {s}) = IF s \in Hits(g, n) THEN Num(g, n) - 1 ELSE Num(g, n)
  BY <1>1, FS_RemoveElement, Zenon DEF Num
<1>4. Cardinality(Hits(f, n) \ {s}) = Cardinality(Hits(g, n) \ {s})
  BY Zenon
<1>5. (IF s \in Hits(f, n) THEN Num(f, n) - 1 ELSE Num(f, n))
        = (IF s \in Hits(g, n) THEN Num(g, n) - 1 ELSE Num(g, n))
  BY <1>2, <1>3, <1>4, Zenon
<1> QED BY <1>1, <1>5, SMT DEF One

\* A sequence has a finite domain.
LEMMA SeqFinite ==
    ASSUME NEW S, NEW q \in Seq(S)
    PROVE  IsFiniteSet(DOMAIN q) /\ DOMAIN q = 1 .. Len(q) /\ Len(q) \in Nat /\ \A i \in DOMAIN q : q[i] \in S
<1>1. DOMAIN q = 1 .. Len(q) /\ Len(q) \in Nat /\ \A i \in DOMAIN q : q[i] \in S
  BY SMT
<1>2. IsFiniteSet(1 .. Len(q))
  BY <1>1, FS_Interval, SMT
<1> QED BY <1>1, <1>2

\* The hits of two sequences, one behind the other.
LEMMA NumConcat ==
    ASSUME NEW S, NEW q \in Seq(S), NEW r \in Seq(S), NEW n
    PROVE  Num(q \o r, n) = Num(q, n) + Num(r, n)
<1> DEFINE a == Len(q)
           b == Len(r)
           A == Hits(q, n)
           B == {i \in a + 1 .. a + b : r[i - a] = n}
<1>1. a \in Nat /\ b \in Nat /\ DOMAIN q = 1 .. a /\ DOMAIN r = 1 .. b
  BY SeqFinite
<1>2. /\ DOMAIN (q \o r) = 1 .. a + b
      /\ \A i \in 1 .. a + b : (q \o r)[i] = IF i <= a THEN q[i] ELSE r[i - a]
  BY <1>1, ConcatProperties, SMT
<1> HIDE DEF a, b
<1>3. Hits(q \o r, n) = A \cup B
  <2>1. A = {i \in 1 .. a : q[i] = n}
    BY <1>1, Zenon DEF Hits
  <2>2. \A i : i \in 1 .. a + b <=> i \in 1 .. a \/ i \in a + 1 .. a + b
    BY <1>1, SMT
  <2>3. (\A i \in 1 .. a : i <= a) /\ (\A i \in a + 1 .. a + b : ~ (i <= a))
    BY <1>1, SMT
  <2> QED BY <1>2, <2>1, <2>2, <2>3 DEF Hits
<1>4. A \cap B = {}
  BY <1>1, SMT DEF Hits
<1>5. IsFiniteSet(A) /\ IsFiniteSet(Hits(r, n))
  BY SeqFinite, NumType, Zenon
<1>6. IsFiniteSet(B) /\ Cardinality(B) = Num(r, n)
  <2> DEFINE f == [i \in Hits(r, n) |-> i + a]
  <2>1. \A i \in Hits(r, n) : i \in 1 .. b /\ i \in Int /\ r[i] = n
    BY <1>1, SMT DEF Hits
  <2>2. \A i \in Hits(r, n) : i + a \in a + 1 .. a + b /\ (i + a) - a = i
    BY <1>1, <2>1, SMT
  <2>3. f \in [Hits(r, n) -> B]
    BY <2>1, <2>2
  <2>4. \A x, y \in Hits(r, n) : f[x] = f[y] => x = y
    BY <1>1, <2>1, SMT
  <2>5. \A y \in B : \E i \in Hits(r, n) : f[i] = y
    <3> SUFFICES ASSUME NEW y \in B PROVE y - a \in Hits(r, n) /\ f[y - a] = y
      OBVIOUS
    <3>1. y - a \in 1 .. b /\ r[y - a] = n /\ (y - a) + a = y
      BY <1>1, SMT
    <3>2. y - a \in Hits(r, n)
      BY <1>1, <3>1, Zenon DEF Hits
    <3> QED BY <3>1, <3>2
  <2> HIDE DEF B, f
  <2> QED BY <1>5, <2>3, <2>4, <2>5, SameCount, Zenon DEF Num
<1> HIDE DEF A, B
<1>7. Cardinality(A \cup B) = Cardinality(A) + Cardinality(B)
  BY <1>4, <1>5, <1>6, PartsAdd, Zenon
<1> QED BY <1>3, <1>6, <1>7, Zenon DEF Num, A

\* The hits of a single value.
LEMMA NumSingle == ASSUME NEW x, NEW n PROVE Num(<<x>>, n) = One(x = n)
<1>1. CASE x = n
  <2>1. Hits(<<x>>, n) = {1}
    BY <1>1 DEF Hits
  <2> QED BY <1>1, <2>1, FS_Singleton, Zenon DEF Num, One
<1>2. CASE x # n
  <2>1. Hits(<<x>>, n) = {}
    BY <1>2 DEF Hits
  <2> QED BY <1>2, <2>1, FS_EmptySet, Zenon DEF Num, One
<1> QED BY <1>1, <1>2

\* The hits of an empty sequence.
LEMMA NumEmpty == \A n : Num(<<>>, n) = 0
<1>1. \A n : Hits(<<>>, n) = {}
  BY DEF Hits
<1> QED BY <1>1, FS_EmptySet, Zenon DEF Num

\* The hits of a sequence without its head.
LEMMA NumTail ==
    ASSUME NEW S, NEW q \in Seq(S), q # <<>>, NEW n
    PROVE  /\ Tail(q) \in Seq(S) /\ Head(q) \in S
           /\ Num(q, n) = One(Head(q) = n) + Num(Tail(q), n)
<1>1. Tail(q) \in Seq(S) /\ Head(q) \in S
  BY SMT
<1>2. q = <<Head(q)>> \o Tail(q)
  BY HeadTailProperties, SMT
<1>3. <<Head(q)>> \in Seq(S)
  BY <1>1, SMT
<1>4. Num(<<Head(q)>> \o Tail(q), n) = Num(<<Head(q)>>, n) + Num(Tail(q), n)
  BY <1>1, <1>3, NumConcat, Zenon
<1>5. Num(<<Head(q)>>, n) = One(Head(q) = n)
  BY NumSingle, Zenon
<1> QED BY <1>1, <1>2, <1>4, <1>5, Zenon

\* The elements of a finite set in some order.
LEMMA SetInOrder ==
    ASSUME NEW S, IsFiniteSet(S)
    PROVE  /\ Tree!SetToSeq(S) \in [1 .. Cardinality(S) -> S] /\ Cardinality(S) \in Nat
           /\ \A a, b \in 1 .. Cardinality(S) : Tree!SetToSeq(S)[a] = Tree!SetToSeq(S)[b] => a = b
           /\ \A x \in S : \E a \in 1 .. Cardinality(S) : Tree!SetToSeq(S)[a] = x
<1> DEFINE c == Cardinality(S)
           q == Tree!SetToSeq(S)
<1>1. c \in Nat /\ ExistsBijection(1 .. c, S)
  BY FS_CardinalityType
<1>2. \E f \in [1 .. c -> S] : Tree!IsInjective(f)
  BY <1>1, Zenon DEF ExistsBijection, Bijection, Injection, IsInjective, Tree!IsInjective
<1>3. q = CHOOSE f \in [1 .. c -> S] : Tree!IsInjective(f)
  BY TreeCardinality, Zenon DEF Tree!SetToSeq
<1> HIDE DEF q
<1>4. q \in [1 .. c -> S] /\ Tree!IsInjective(q)
  BY <1>2, <1>3, Zenon
<1>5. \A a, b \in 1 .. c : q[a] = q[b] => a = b
  BY <1>4, Zenon DEF Tree!IsInjective
<1>6. IsFiniteSet(1 .. c) /\ Cardinality(1 .. c) = c
  BY <1>1, FS_Interval, SMT
<1>7. q \in Injection(1 .. c, S)
  BY <1>4, <1>5, Zenon DEF Injection, IsInjective
<1> HIDE DEF c
<1>8. q \in Surjection(1 .. c, S)
  BY <1>6, <1>7, FS_Injection, Zenon DEF c
<1>9. \A x \in S : \E a \in 1 .. c : q[a] = x
  BY <1>8, Zenon DEF Surjection
<1> QED BY <1>1, <1>4, <1>5, <1>9, Zenon DEF q, c

\* The puts of the values of a function: each as often as it is there, and no NULL.
LEMMA PuttingHits ==
    ASSUME NEW f, NEW T, IsFiniteSet(DOMAIN f), \A s \in DOMAIN f : f[s] \in T \cup {Null}
    PROVE  Tree!Putting(f) \in Seq(T) /\ \A n : n # Null => Num(Tree!Putting(f), n) = Num(f, n)
<1> DEFINE S == {s \in DOMAIN f : f[s] # Null}
           c == Cardinality(S)
           q == Tree!SetToSeq(S)
           u == [i \in 1 .. c |-> f[q[i]]]
<1>1. IsFiniteSet(S)
  <2>1. S \in SUBSET DOMAIN f
    OBVIOUS
  <2> QED BY <2>1, FS_Subset, Zenon
<1>2. /\ q \in [1 .. c -> S] /\ c \in Nat
      /\ \A a, b \in 1 .. c : q[a] = q[b] => a = b
      /\ \A x \in S : \E a \in 1 .. c : q[a] = x
  BY <1>1, SetInOrder, Zenon
<1>3. DOMAIN q = 1 .. c
  BY <1>2, Zenon
<1>4. Tree!Putting(f) = u
  BY <1>3, Zenon DEF Tree!Putting
<1>5. \A s \in S : s \in DOMAIN f /\ f[s] \in T
  BY Zenon
<1> HIDE DEF S, q, c
<1>6. \A i \in 1 .. c : q[i] \in S
  BY <1>2, Zenon
<1>7. u \in Seq(T)
  BY <1>2, <1>5, <1>6, SMT
<1>8. ASSUME NEW n, n # Null PROVE Num(u, n) = Num(f, n)
  <2>1. Hits(u, n) = {i \in 1 .. c : f[q[i]] = n}
    BY DEF Hits
  <2>2. IsFiniteSet(Hits(u, n))
    BY <1>7, SeqFinite, NumType, Zenon
  <2> DEFINE g == [i \in Hits(u, n) |-> q[i]]
  <2>3. g \in [Hits(u, n) -> Hits(f, n)]
    BY <1>5, <1>6, <2>1, Zenon DEF Hits
  <2>4. \A a, b \in Hits(u, n) : g[a] = g[b] => a = b
    BY <1>2, <2>1, Zenon
  <2>5. ASSUME NEW x \in Hits(f, n) PROVE \E a \in Hits(u, n) : g[a] = x
    <3>1. x \in S /\ f[x] = n
      BY <1>8, Zenon DEF Hits, S
    <3>2. PICK a \in 1 .. c : q[a] = x
      BY <1>2, <3>1, Zenon
    <3>3. a \in Hits(u, n)
      BY <2>1, <3>1, <3>2, Zenon
    <3> QED BY <3>2, <3>3, Zenon
  <2> HIDE DEF g, u
  <2> QED BY <2>2, <2>3, <2>4, <2>5, SameCount, Zenon DEF Num
<1> QED BY <1>4, <1>7, <1>8, Zenon

-----------------------------------------------------------------------------
(* The slots that hold a json_object, and what can be reached along them.  *)

\* the names of slots
SlotNames == TreeKeys \cup Tree!Indexes

\* the slots that hold n
Holders(sl, n) ==
    {ps \in Nodes \X SlotNames : ps[2] \in DOMAIN sl[ps[1]] /\ sl[ps[1]][ps[2]] = n}

\* Slots hold json_objects and NULLs.
Slotted(sl) ==
    /\ DOMAIN sl = Nodes
    /\ \A p \in Nodes : DOMAIN sl[p] \subseteq SlotNames /\ \A s \in DOMAIN sl[p] : sl[p][s] \in Nodes \cup {Null}

\* There are finitely many.
LEMMA TreeConstants ==
    ASSUME Tree!TreeAssumption
    PROVE  /\ IsFiniteSet(Nodes) /\ IsFiniteSet(TreeKeys) /\ IsFiniteSet(SlotNames) /\ Null \notin Nodes
           /\ MaxLength \in Nat /\ MaxHeld \in Nat /\ MaxHeld >= 1
<1>1. IsFiniteSet(Nodes) /\ IsFiniteSet(TreeKeys) /\ Null \notin Nodes
  BY TreeFinite, Zenon DEF Tree!TreeAssumption
<1>2. MaxLength \in Nat /\ MaxHeld \in Nat /\ MaxHeld >= 1
  BY SMT DEF Tree!TreeAssumption
<1>3. IsFiniteSet(Tree!Indexes)
  BY <1>2, FS_Interval, SMT DEF Tree!Indexes
<1> QED BY <1>1, <1>2, <1>3, FS_Union, Zenon DEF SlotNames

\* A function of slots has a finite domain.
LEMMA SlotsFinite ==
    ASSUME Tree!TreeAssumption, NEW sl, Slotted(sl), NEW p \in Nodes
    PROVE  IsFiniteSet(DOMAIN sl[p])
<1>1. DOMAIN sl[p] \in SUBSET SlotNames
  BY Zenon DEF Slotted
<1> QED BY <1>1, TreeConstants, FS_Subset, Zenon

\* The slots of one container, and those of the others.
LEMMA HoldersSplit ==
    ASSUME Tree!TreeAssumption, NEW sl, Slotted(sl), NEW p \in Nodes, NEW n
    PROVE  LET others == {ps \in Holders(sl, n) : ps[1] # p} IN
           /\ IsFiniteSet(Holders(sl, n)) /\ Cardinality(Holders(sl, n)) \in Nat
           /\ Cardinality(others) \in Nat
           /\ Cardinality(Holders(sl, n)) = Cardinality(others) + Num(sl[p], n)
<1> DEFINE others == {ps \in Holders(sl, n) : ps[1] # p}
           mine == {ps \in Holders(sl, n) : ps[1] = p}
           f == [s \in Hits(sl[p], n) |-> <<p, s>>]
<1>1. IsFiniteSet(Nodes \X SlotNames)
  BY TreeConstants, FS_Product, Zenon
<1>2. IsFiniteSet(Holders(sl, n))
  <2>1. Holders(sl, n) \in SUBSET (Nodes \X SlotNames)
    BY Zenon DEF Holders
  <2> QED BY <1>1, <2>1, FS_Subset, Zenon
<1>3. others \in SUBSET Holders(sl, n)
  OBVIOUS
<1>4. IsFiniteSet(others)
  BY <1>2, <1>3, FS_Subset, Zenon
<1>5. IsFiniteSet(Hits(sl[p], n))
  BY SlotsFinite, NumType, Zenon
<1>6. DOMAIN sl[p] \subseteq SlotNames
  BY Zenon DEF Slotted
<1>7. f \in [Hits(sl[p], n) -> mine]
  <2> SUFFICES ASSUME NEW s \in Hits(sl[p], n) PROVE <<p, s>> \in mine
    OBVIOUS
  <2>1. s \in DOMAIN sl[p] /\ sl[p][s] = n /\ s \in SlotNames
    BY <1>6, Zenon DEF Hits
  <2>2. <<p, s>> \in Nodes \X SlotNames /\ <<p, s>>[1] = p /\ <<p, s>>[2] = s
    BY <2>1
  <2>3. <<p, s>> \in Holders(sl, n)
    BY <2>1, <2>2, Zenon DEF Holders
  <2> QED BY <2>2, <2>3, Zenon
<1>8. \A a, b \in Hits(sl[p], n) : f[a] = f[b] => a = b
  OBVIOUS
<1>9. ASSUME NEW ps \in mine PROVE \E s \in Hits(sl[p], n) : f[s] = ps
  <2>1. ps \in Nodes \X SlotNames /\ ps[1] = p /\ ps[2] \in DOMAIN sl[ps[1]] /\ sl[ps[1]][ps[2]] = n
    BY Zenon DEF Holders
  <2>2. ps[2] \in Hits(sl[p], n)
    BY <2>1, Zenon DEF Hits
  <2>3. ps = <<p, ps[2]>>
    BY <2>1
  <2> QED BY <2>2, <2>3, Zenon
<1> HIDE DEF f
<1>10. IsFiniteSet(mine) /\ Cardinality(mine) = Num(sl[p], n)
  BY <1>5, <1>7, <1>8, <1>9, SameCount, Zenon DEF Num
<1>11. Holders(sl, n) = others \cup mine /\ others \cap mine = {}
  BY Zenon
<1> HIDE DEF others, mine
<1>12. Cardinality(others \cup mine) = Cardinality(others) + Cardinality(mine)
  BY <1>4, <1>10, <1>11, PartsAdd, Zenon
<1>13. Cardinality(others) \in Nat /\ Cardinality(Holders(sl, n)) \in Nat
  BY <1>2, <1>4, FS_CardinalityType, Zenon
<1> QED BY <1>2, <1>10, <1>11, <1>12, <1>13, Zenon DEF others

\* One container's slots change, at most.
Edited(sl, to, p) == p \in Nodes /\ Slotted(sl) /\ Slotted(to) /\ \A x \in Nodes : x # p => to[x] = sl[x]

\* A change of one container's slots changes the holders as it changes its hits.
LEMMA HoldersChanged ==
    ASSUME Tree!TreeAssumption, NEW sl, NEW to, NEW p, Edited(sl, to, p), NEW n
    PROVE  /\ Cardinality(Holders(sl, n)) \in Nat /\ Cardinality(Holders(to, n)) \in Nat
           /\ Num(sl[p], n) \in Nat /\ Num(to[p], n) \in Nat
           /\ Cardinality(Holders(to, n)) + Num(sl[p], n) = Cardinality(Holders(sl, n)) + Num(to[p], n)
<1>1. p \in Nodes /\ Slotted(sl) /\ Slotted(to) /\ \A x \in Nodes : x # p => to[x] = sl[x]
  BY Zenon DEF Edited
<1> DEFINE a == {ps \in Holders(sl, n) : ps[1] # p}
           b == {ps \in Holders(to, n) : ps[1] # p}
<1>2. a = b
  <2>1. \A ps \in Nodes \X SlotNames : ps[1] # p => to[ps[1]] = sl[ps[1]]
    BY <1>1
  <2>2. \A ps : ps \in a <=> ps \in b
    BY <2>1, Zenon DEF Holders
  <2> HIDE DEF a, b
  <2> QED BY <2>2
<1>3. /\ Cardinality(Holders(sl, n)) \in Nat /\ Cardinality(a) \in Nat
      /\ Cardinality(Holders(sl, n)) = Cardinality(a) + Num(sl[p], n)
  BY <1>1, HoldersSplit, Zenon
<1>4. /\ Cardinality(Holders(to, n)) \in Nat
      /\ Cardinality(Holders(to, n)) = Cardinality(b) + Num(to[p], n)
  BY <1>1, HoldersSplit, Zenon
<1>5. Num(sl[p], n) \in Nat /\ Num(to[p], n) \in Nat
  BY <1>1, SlotsFinite, NumType, Zenon
<1> HIDE DEF a, b
<1>6. Cardinality(Holders(to, n)) = Cardinality(a) + Num(to[p], n)
  BY <1>2, <1>4, Zenon
<1> QED BY <1>3, <1>4, <1>5, <1>6, SMT

\* A slot that holds n is counted.
LEMMA HolderCounts ==
    ASSUME Tree!TreeAssumption, NEW sl, Slotted(sl), NEW n
    PROVE  /\ Cardinality(Holders(sl, n)) \in Nat
           /\ Cardinality(Holders(sl, n)) = 0 <=> \A p \in Nodes : \A s \in DOMAIN sl[p] : sl[p][s] # n
<1>1. IsFiniteSet(Nodes \X SlotNames)
  BY TreeConstants, FS_Product, Zenon
<1>2. IsFiniteSet(Holders(sl, n))
  <2>1. Holders(sl, n) \in SUBSET (Nodes \X SlotNames)
    BY Zenon DEF Holders
  <2> QED BY <1>1, <2>1, FS_Subset, Zenon
<1>3. Cardinality(Holders(sl, n)) = 0 <=> Holders(sl, n) = {}
  BY <1>2, FS_EmptySet, Zenon
<1>4. ASSUME NEW p \in Nodes, NEW s \in DOMAIN sl[p], sl[p][s] = n PROVE Holders(sl, n) # {}
  <2>1. s \in SlotNames
    BY Zenon DEF Slotted
  <2>2. <<p, s>> \in Nodes \X SlotNames /\ <<p, s>>[1] = p /\ <<p, s>>[2] = s
    BY <2>1
  <2> QED BY <1>4, <2>2, Zenon DEF Holders
<1>5. ASSUME NEW ps \in Holders(sl, n) PROVE \E p \in Nodes : \E s \in DOMAIN sl[p] : sl[p][s] = n
  <2>1. ps \in Nodes \X SlotNames /\ ps[2] \in DOMAIN sl[ps[1]] /\ sl[ps[1]][ps[2]] = n
    BY Zenon DEF Holders
  <2>2. ps[1] \in Nodes
    BY <2>1
  <2> QED BY <2>1, <2>2, Zenon
<1>6. Cardinality(Holders(sl, n)) \in Nat
  BY <1>2, FS_CardinalityType, Zenon
<1> QED BY <1>3, <1>4, <1>5, <1>6, Zenon

\* p holds m
Edge(sl, p, m) == m # Null /\ \E s \in DOMAIN sl[p] : sl[p][s] = m

\* closed along the slots, and the least such set around S
ClosedIn(sl, C) == \A p \in C : \A m : Edge(sl, p, m) => m \in C
ReachIn(sl, S) == {n \in Nodes : \A C \in SUBSET Nodes : S \subseteq C /\ ClosedIn(sl, C) => n \in C}

\* They are the ones of JsonObject.
LEMMA ReachableIs == \A S : Tree!Reachable(S) = ReachIn(slots, S)
<1>1. \A C : Tree!Closed(C) <=> ClosedIn(slots, C)
  BY Zenon DEF Tree!Closed, Tree!Children, ClosedIn, Edge
<1> QED BY <1>1, Zenon DEF Tree!Reachable, ReachIn

\* What is reached: the set itself, what its members hold, and no more.
LEMMA ReachFacts ==
    ASSUME NEW sl, Slotted(sl), NEW S \in SUBSET Nodes
    PROVE  /\ S \subseteq ReachIn(sl, S) /\ ReachIn(sl, S) \in SUBSET Nodes
           /\ ClosedIn(sl, ReachIn(sl, S))
           /\ \A C \in SUBSET Nodes : S \subseteq C /\ ClosedIn(sl, C) => ReachIn(sl, S) \subseteq C
<1>1. \A p \in Nodes : \A m : Edge(sl, p, m) => m \in Nodes
  BY Zenon DEF Slotted, Edge
<1>2. S \subseteq ReachIn(sl, S) /\ ReachIn(sl, S) \in SUBSET Nodes
  BY Zenon DEF ReachIn
<1>3. \A C \in SUBSET Nodes : S \subseteq C /\ ClosedIn(sl, C) => ReachIn(sl, S) \subseteq C
  BY Zenon DEF ReachIn
<1>4. ASSUME NEW p \in ReachIn(sl, S), NEW m, Edge(sl, p, m) PROVE m \in ReachIn(sl, S)
  <2>1. m \in Nodes
    BY <1>1, <1>2, <1>4, Zenon
  <2>2. ASSUME NEW C \in SUBSET Nodes, S \subseteq C, ClosedIn(sl, C) PROVE m \in C
    <3>1. p \in C
      BY <1>3, <2>2, Zenon
    <3> QED BY <1>4, <2>2, <3>1, Zenon DEF ClosedIn
  <2> QED BY <2>1, <2>2, Zenon DEF ReachIn
<1> QED BY <1>2, <1>3, <1>4, Zenon DEF ClosedIn

\* More edges and more to begin with reach more.
LEMMA ReachMore ==
    ASSUME NEW sl, Slotted(sl), NEW to, Slotted(to), NEW S \in SUBSET Nodes, NEW T \in SUBSET Nodes,
           S \subseteq ReachIn(to, T),
           \A p \in ReachIn(to, T) : \A m : Edge(sl, p, m) => Edge(to, p, m)
    PROVE  ReachIn(sl, S) \subseteq ReachIn(to, T)
<1>1. ReachIn(to, T) \in SUBSET Nodes /\ ClosedIn(to, ReachIn(to, T))
  BY ReachFacts, Zenon
<1>2. ClosedIn(sl, ReachIn(to, T))
  BY <1>1, Zenon DEF ClosedIn
<1> QED BY <1>1, <1>2, ReachFacts, Zenon

\* no json_object reaches itself
Acyclic(sl) == \A p \in Nodes : \A m : Edge(sl, p, m) => p \notin ReachIn(sl, {m})

\* Without some edges there are no loops either.
LEMMA FewerEdges ==
    ASSUME NEW sl, Slotted(sl), Acyclic(sl), NEW to, Slotted(to),
           \A p \in Nodes : \A m : Edge(to, p, m) => Edge(sl, p, m)
    PROVE  Acyclic(to)
<1> SUFFICES ASSUME NEW p \in Nodes, NEW m, Edge(to, p, m) PROVE p \notin ReachIn(to, {m})
  BY Zenon DEF Acyclic
<1>1. Edge(sl, p, m) /\ m \in Nodes
  BY Zenon DEF Slotted, Edge
<1>2. p \notin ReachIn(sl, {m})
  BY <1>1, Zenon DEF Acyclic
<1>3. {m} \in SUBSET Nodes
  BY <1>1
<1>4. {m} \subseteq ReachIn(sl, {m}) /\ ReachIn(sl, {m}) \in SUBSET Nodes
  BY <1>3, ReachFacts, Zenon
<1>5. ReachIn(to, {m}) \subseteq ReachIn(sl, {m})
  BY <1>3, <1>4, ReachMore, Zenon
<1> QED BY <1>2, <1>5, Zenon

\* There is one edge more, at most.
OneEdgeMore(sl, to, p, c) ==
    /\ Slotted(sl) /\ Slotted(to) /\ p \in Nodes /\ c \in Nodes
    /\ \A q \in Nodes : \A m : Edge(to, q, m) => Edge(sl, q, m) \/ (q = p /\ m = c)

\* A new edge to what does not reach its start makes no loop.
LEMMA NewEdge ==
    ASSUME NEW sl, NEW to, NEW p, NEW c, OneEdgeMore(sl, to, p, c), Acyclic(sl), p \notin ReachIn(sl, {c})
    PROVE  Acyclic(to)
<1> USE DEF OneEdgeMore
<1> DEFINE R == ReachIn(sl, {c})
<1>1. R \in SUBSET Nodes /\ c \in R /\ ClosedIn(sl, R) /\ p \notin R
  <2>1. {c} \in SUBSET Nodes
    OBVIOUS
  <2> QED BY <2>1, ReachFacts, Zenon
<1>2. ASSUME NEW C \in SUBSET Nodes, ClosedIn(sl, C), p \notin C PROVE ClosedIn(to, C)
  <2> SUFFICES ASSUME NEW q \in C, NEW m, Edge(to, q, m) PROVE m \in C
    BY Zenon DEF ClosedIn
  <2>1. q \in Nodes /\ q # p
    BY <1>2, Zenon
  <2>2. Edge(sl, q, m)
    BY <2>1, Zenon
  <2> QED BY <1>2, <2>2, Zenon DEF ClosedIn
<1> HIDE DEF R
<1> SUFFICES ASSUME NEW q \in Nodes, NEW m, Edge(to, q, m), q \in ReachIn(to, {m}) PROVE FALSE
  BY Zenon DEF Acyclic
<1>3. m \in Nodes
  BY Zenon DEF Slotted, Edge
<1>4. {m} \in SUBSET Nodes
  BY <1>3
<1>5. /\ m \in ReachIn(sl, {m}) /\ ReachIn(sl, {m}) \in SUBSET Nodes /\ ClosedIn(sl, ReachIn(sl, {m}))
      /\ \A C \in SUBSET Nodes : {m} \subseteq C /\ ClosedIn(to, C) => ReachIn(to, {m}) \subseteq C
  BY <1>4, ReachFacts, Zenon
<1>6. CASE m \in R
  <2> DEFINE C == ReachIn(sl, {m}) \cap R
  <2>1. C \in SUBSET Nodes /\ m \in C /\ p \notin C /\ ClosedIn(sl, C)
    BY <1>1, <1>5, <1>6, Zenon DEF ClosedIn
  <2>2. ClosedIn(to, C)
    BY <1>2, <2>1, Zenon
  <2>3. q \in ReachIn(sl, {m}) /\ q \in R
    BY <1>5, <2>1, <2>2, Zenon
  <2>4. Edge(sl, q, m)
    BY <1>1, <2>3, Zenon
  <2> QED BY <2>3, <2>4, Zenon DEF Acyclic
<1>7. CASE m \notin R
  <2>1. Edge(sl, q, m)
    BY <1>1, <1>7, Zenon
  <2> DEFINE C == ReachIn(sl, {m}) \cup R
  <2>2. C \in SUBSET Nodes /\ m \in C
    BY <1>1, <1>5, Zenon
  <2>3. ClosedIn(to, C)
    BY <1>1, <1>5, <2>2, Zenon DEF ClosedIn
  <2>4. q \in C
    BY <1>5, <2>2, <2>3, Zenon
  <2>5. q \notin ReachIn(sl, {m})
    BY <2>1, Zenon DEF Acyclic
  <2>6. m \in R
    BY <1>1, <2>1, <2>4, <2>5, Zenon DEF ClosedIn
  <2> QED BY <1>7, <2>6
<1> QED BY <1>6, <1>7

-----------------------------------------------------------------------------
(* The invariant of ownership.                                             *)

\* a level of a deep copy, and the copies that the levels are making
FrameType == [src : Nodes, dst : Nodes, todo : Seq(SlotNames)]
Dsts == [i \in DOMAIN copy |-> copy[i].dst]

\* the types of the state, the slots by kind
Shape(kd) == IF kd = "object" THEN SUBSET TreeKeys
             ELSE IF kd = "array" THEN {0 .. l - 1 : l \in 0 .. MaxLength} ELSE {{}}
Shaped(k, sl) == \A n \in Nodes : DOMAIN sl[n] \in Shape(k[n])
TreeTyped ==
    /\ kind \in [Nodes -> {"free", "object", "array", "leaf"}]
    /\ leaf \in [Nodes -> {0, 1}]
    /\ ref \in [Nodes -> Nat]
    /\ data \in [Nodes -> {"none", "known", "own"}]
    /\ held \in [Nodes -> 0 .. MaxHeld]
    /\ puts \in Seq(Nodes)
    /\ copy \in Seq(FrameType)
    /\ done \in {<<>>} \cup (Nodes \X Nodes)
    /\ Slotted(slots) /\ Shaped(kind, slots)

\* the references to a json_object: the application's, puts, copies, slots
Count(h, q, d, sl, n) == h[n] + Num(q, n) + Num(d, n) + Cardinality(Holders(sl, n))
Exact(k, r, h, q, d, sl) ==
    \A n \in Nodes : r[n] = Count(h, q, d, sl, n) /\ (r[n] = 0 <=> k[n] = "free")

\* what is held outside the tree, and that all that exists hangs on it
Roots(h, q, d) == {n \in Nodes : h[n] > 0 \/ Num(q, n) > 0 \/ Num(d, n) > 0}
Kept(k, h, q, d, sl) == \A n \in Nodes : k[n] # "free" => n \in ReachIn(sl, Roots(h, q, d))

\* the slots still to copy, from f to g
Remaining(q, f, g, array_) ==
    /\ \A a, b \in DOMAIN q : q[a] = q[b] => a = b
    /\ \A a \in DOMAIN q : q[a] \in DOMAIN f /\ q[a] \notin DOMAIN g
    /\ \A s \in DOMAIN f : s \in DOMAIN g \/ \E a \in DOMAIN q : q[a] = s
    /\ DOMAIN g \subseteq DOMAIN f
    /\ array_ => \E m \in Nat : DOMAIN g = 0 .. m - 1 /\ \A a \in DOMAIN q : q[a] = m + a - 1

\* a level copies something that exists into something only it has
Level(k, h, sl, r) ==
    /\ k[r.src] # "free" /\ k[r.dst] = k[r.src]
    /\ h[r.dst] = 0 /\ Cardinality(Holders(sl, r.dst)) = 0
    /\ Remaining(r.todo, sl[r.src], sl[r.dst], k[r.src] = "array")
Apart(c) == \A i, j \in DOMAIN c : c[i].src # c[j].dst /\ (c[i].dst = c[j].dst => i = j)
Levels ==
    /\ \A i \in DOMAIN copy : Level(kind, held, slots, copy[i]) /\ (i # 1 => copy[i].todo # <<>>)
    /\ Apart(copy)

TreeInv ==
    /\ TreeTyped
    /\ Exact(kind, ref, held, puts, Dsts, slots)
    /\ Acyclic(slots)
    /\ Kept(kind, held, puts, Dsts, slots)
    /\ puts = <<>> \/ copy = <<>>
    /\ Levels

\* The copies are a sequence of json_objects.
LEMMA DstsSeq ==
    ASSUME NEW c \in Seq(FrameType)
    PROVE  [i \in DOMAIN c |-> c[i].dst] \in Seq(Nodes) /\ Len([i \in DOMAIN c |-> c[i].dst]) = Len(c)
<1>1. Len(c) \in Nat /\ DOMAIN c = 1 .. Len(c) /\ \A i \in 1 .. Len(c) : c[i] \in FrameType
  BY SMT
<1>2. \A i \in 1 .. Len(c) : c[i].dst \in Nodes
  BY <1>1, SMT DEF FrameType
<1> QED BY <1>1, <1>2, SMT

\* The counts are numbers.
LEMMA CountTyped ==
    ASSUME Tree!TreeAssumption, NEW h \in [Nodes -> 0 .. MaxHeld], NEW q \in Seq(Nodes), NEW d \in Seq(Nodes),
           NEW sl, Slotted(sl), NEW n \in Nodes
    PROVE  /\ h[n] \in Nat /\ Num(q, n) \in Nat /\ Num(d, n) \in Nat
           /\ Cardinality(Holders(sl, n)) \in Nat /\ Count(h, q, d, sl, n) \in Nat
<1>1. h[n] \in Nat
  BY TreeConstants, SMT
<1>2. Num(q, n) \in Nat /\ Num(d, n) \in Nat
  BY SeqFinite, NumType, Zenon
<1>3. Cardinality(Holders(sl, n)) \in Nat
  BY HolderCounts, Zenon
<1> HIDE DEF Num
<1> QED BY <1>1, <1>2, <1>3, SMT DEF Count

\* roots exist, what slots hold exists, and nothing counts what does not exist
RootsExist(k, h, q, d) == \A n \in Roots(h, q, d) : n \in Nodes /\ k[n] # "free"
EdgesExist(k, sl) == \A p \in Nodes : \A m : Edge(sl, p, m) => m \in Nodes /\ k[m] # "free"
Uncounted(k, h, q, d, sl) ==
    \A n \in Nodes : k[n] = "free" =>
        h[n] = 0 /\ Num(q, n) = 0 /\ Num(d, n) = 0 /\ Cardinality(Holders(sl, n)) = 0

\* Four numbers that make nothing are nothing.
LEMMA ZeroSum ==
    ASSUME NEW a \in Nat, NEW b \in Nat, NEW c \in Nat, NEW e \in Nat, a + b + c + e = 0
    PROVE  a = 0 /\ b = 0 /\ c = 0 /\ e = 0
OBVIOUS

\* What is counted exists: roots do, and what slots hold.
LEMMA CountedExists ==
    ASSUME Tree!TreeAssumption, NEW k, NEW r, NEW h \in [Nodes -> 0 .. MaxHeld], NEW q \in Seq(Nodes),
           NEW d \in Seq(Nodes), NEW sl, Slotted(sl), Exact(k, r, h, q, d, sl)
    PROVE  RootsExist(k, h, q, d) /\ EdgesExist(k, sl) /\ Uncounted(k, h, q, d, sl)
<1>1. ASSUME NEW n \in Nodes, k[n] = "free"
      PROVE  h[n] = 0 /\ Num(q, n) = 0 /\ Num(d, n) = 0 /\ Cardinality(Holders(sl, n)) = 0
  <2>1. Count(h, q, d, sl, n) = 0
    BY <1>1, Zenon DEF Exact
  <2>2. h[n] \in Nat /\ Num(q, n) \in Nat /\ Num(d, n) \in Nat /\ Cardinality(Holders(sl, n)) \in Nat
    BY CountTyped, Zenon
  <2>3. h[n] + Num(q, n) + Num(d, n) + Cardinality(Holders(sl, n)) = 0
    BY <2>1, Zenon DEF Count
  <2> QED BY <2>2, <2>3, ZeroSum, Zenon
<1>2. ASSUME NEW n \in Roots(h, q, d) PROVE n \in Nodes /\ k[n] # "free"
  <2>1. n \in Nodes /\ (h[n] > 0 \/ Num(q, n) > 0 \/ Num(d, n) > 0)
    BY Zenon DEF Roots
  <2> QED BY <1>1, <2>1, SMT
<1>3. ASSUME NEW p \in Nodes, NEW m, Edge(sl, p, m) PROVE m \in Nodes /\ k[m] # "free"
  <2>1. m \in Nodes /\ \E s \in DOMAIN sl[p] : sl[p][s] = m
    BY <1>3, Zenon DEF Slotted, Edge
  <2>2. Cardinality(Holders(sl, m)) # 0
    BY <2>1, HolderCounts, Zenon
  <2> QED BY <1>1, <2>1, <2>2, Zenon
<1> QED BY <1>1, <1>2, <1>3, Zenon DEF RootsExist, EdgesExist, Uncounted

\* A set that the old roots and edges stay in has all that was reached.
LEMMA ReachStays ==
    ASSUME NEW sl, Slotted(sl), NEW S \in SUBSET Nodes, NEW C \in SUBSET Nodes,
           \A n \in S : n \in C, \A p \in C : \A m : Edge(sl, p, m) => m \in C
    PROVE  \A n \in ReachIn(sl, S) : n \in C
<1>1. S \subseteq C /\ ClosedIn(sl, C)
  BY Zenon DEF ClosedIn
<1> QED BY <1>1, ReachFacts, Zenon

\* Reached from the roots.
LEMMA RootsReach ==
    ASSUME NEW sl, Slotted(sl), NEW h, NEW q, NEW d
    PROVE  LET R == ReachIn(sl, Roots(h, q, d)) IN
           /\ R \in SUBSET Nodes /\ Roots(h, q, d) \in SUBSET Nodes
           /\ \A n \in Nodes : h[n] > 0 \/ Num(q, n) > 0 \/ Num(d, n) > 0 => n \in R
           /\ \A p \in R : \A m : Edge(sl, p, m) => m \in R
<1>1. Roots(h, q, d) \in SUBSET Nodes
  BY Zenon DEF Roots
<1>2. \A n \in Nodes : h[n] > 0 \/ Num(q, n) > 0 \/ Num(d, n) > 0 => n \in Roots(h, q, d)
  BY Zenon DEF Roots
<1>3. \A S \in SUBSET Nodes : /\ S \subseteq ReachIn(sl, S) /\ ReachIn(sl, S) \in SUBSET Nodes
                                /\ \A p \in ReachIn(sl, S) : \A m : Edge(sl, p, m) => m \in ReachIn(sl, S)
  BY ReachFacts, Zenon DEF ClosedIn
<1> DEFINE S == Roots(h, q, d)
<1>4. S \in SUBSET Nodes
  BY <1>1
<1> HIDE DEF S
<1>5. /\ S \subseteq ReachIn(sl, S) /\ ReachIn(sl, S) \in SUBSET Nodes
      /\ \A p \in ReachIn(sl, S) : \A m : Edge(sl, p, m) => m \in ReachIn(sl, S)
  BY <1>3, <1>4, Zenon
<1> QED BY <1>1, <1>2, <1>5, Zenon DEF S

-----------------------------------------------------------------------------
(* Steps that keep the references exact, the tree without loops, and       *)
(* everything on a root.                                                   *)

\* A value is in a container where it is counted.
LEMMA NumEdge ==
    ASSUME Tree!TreeAssumption, NEW sl, Slotted(sl), NEW p \in Nodes, NEW m \in Nodes
    PROVE  Num(sl[p], m) \in Nat /\ (Num(sl[p], m) = 0 <=> ~ Edge(sl, p, m))
<1>1. IsFiniteSet(DOMAIN sl[p]) /\ m # Null
  BY SlotsFinite, TreeConstants, Zenon
<1>2. Num(sl[p], m) = 0 <=> \A s \in DOMAIN sl[p] : sl[p][s] # m
  BY <1>1, NumNone, Zenon
<1>3. Num(sl[p], m) \in Nat
  BY <1>1, NumType, Zenon
<1> QED BY <1>1, <1>2, <1>3, Zenon DEF Edge

\* A reference is another one's, or a slot's, now.
Balanced(h, h2, q, q2, d, a, b, x, y, o) ==
    /\ h \in Nat /\ h2 \in Nat /\ q \in Nat /\ q2 \in Nat /\ d \in Nat /\ a \in Nat /\ b \in Nat
    /\ x \in Nat /\ y \in Nat /\ o \in Nat
    /\ b + x = a + y /\ q2 + y = q + x + o /\ h2 + o = h

\* The sum of the references stays.
LEMMA Moved ==
    ASSUME NEW h, NEW h2, NEW q, NEW q2, NEW d, NEW a, NEW b, NEW x, NEW y, NEW o,
           Balanced(h, h2, q, q2, d, a, b, x, y, o)
    PROVE  h2 + q2 + d + b = h + q + d + a
BY SMT DEF Balanced

\* u and y share what x and o have
OneOf(u, y, z, x, o) ==
    /\ u \in Nat /\ y \in Nat /\ x \in Nat /\ z = 0 /\ o \in Nat
    /\ u + y = z + x + o /\ (x # 0 \/ o = 1)

\* Something was in x or is o, so it is in u or y.
LEMMA OneLeft == ASSUME NEW u, NEW y, NEW z, NEW x, NEW o, OneOf(u, y, z, x, o) PROVE u > 0 \/ y # 0
BY SMT DEF OneOf

\* What a container with the slots f loses when it gets the slots g is put, and
\* the application gives up c.
Accounted(h, h2, q, q2, f, g, c) ==
    \A n \in Nodes : /\ Num(q2, n) + Num(g, n) = Num(q, n) + Num(f, n) + One(n = c)
                     /\ h2[n] + One(n = c) = h[n]

\* A container p gets other slots, and what it loses is put.
LEMMA EditExact ==
    ASSUME Tree!TreeAssumption, NEW k, NEW r,
           NEW h \in [Nodes -> 0 .. MaxHeld], NEW h2 \in [Nodes -> 0 .. MaxHeld],
           NEW q \in Seq(Nodes), NEW q2 \in Seq(Nodes), NEW d \in Seq(Nodes), NEW sl,
           Exact(k, r, h, q, d, sl), NEW p, NEW to, Edited(sl, to, p), NEW c,
           Accounted(h, h2, q, q2, sl[p], to[p], c)
    PROVE  Exact(k, r, h2, q2, d, to)
<1>1. Slotted(sl) /\ Slotted(to)
  BY Zenon DEF Edited
<1>2. ASSUME NEW n \in Nodes PROVE Count(h2, q2, d, to, n) = Count(h, q, d, sl, n)
  <2>1. /\ Cardinality(Holders(sl, n)) \in Nat /\ Cardinality(Holders(to, n)) \in Nat
        /\ Num(sl[p], n) \in Nat /\ Num(to[p], n) \in Nat
        /\ Cardinality(Holders(to, n)) + Num(sl[p], n) = Cardinality(Holders(sl, n)) + Num(to[p], n)
    BY HoldersChanged, SMT
  <2>2. h[n] \in Nat /\ Num(q, n) \in Nat /\ Num(d, n) \in Nat
    BY <1>1, CountTyped, Zenon
  <2>3. h2[n] \in Nat /\ Num(q2, n) \in Nat
    BY <1>1, CountTyped, Zenon
  <2>4. Num(q2, n) + Num(to[p], n) = Num(q, n) + Num(sl[p], n) + One(n = c) /\ h2[n] + One(n = c) = h[n]
    BY Zenon DEF Accounted
  <2>5. One(n = c) \in Nat
    BY DEF One
  <2>6. Balanced(h[n], h2[n], Num(q, n), Num(q2, n), Num(d, n), Cardinality(Holders(sl, n)),
                 Cardinality(Holders(to, n)), Num(sl[p], n), Num(to[p], n), One(n = c))
    BY <2>1, <2>2, <2>3, <2>4, <2>5, Zenon DEF Balanced
  <2>7. h2[n] + Num(q2, n) + Num(d, n) + Cardinality(Holders(to, n))
          = h[n] + Num(q, n) + Num(d, n) + Cardinality(Holders(sl, n))
    BY <2>6, Moved, SMT
  <2> QED BY <2>7, Zenon DEF Count
<1> QED BY <1>2, Zenon DEF Exact

\* The slots g have values of the slots f, and c.
Fed(f, g, c) == \A s \in DOMAIN g : g[s] \in {c, Null} \/ \E z \in DOMAIN f : g[s] = f[z]

\* No loop is made when the value it gains does not reach it.
LEMMA EditAcyclic ==
    ASSUME NEW sl, Acyclic(sl), NEW to, NEW p, Edited(sl, to, p),
           NEW c \in Nodes \cup {Null}, c # Null => p \notin ReachIn(sl, {c}),
           Fed(sl[p], to[p], c)
    PROVE  Acyclic(to)
<1> USE DEF Edited
<1>1. ASSUME NEW m, Edge(to, p, m) PROVE Edge(sl, p, m) \/ (m = c /\ c # Null)
  <2>1. m # Null /\ \E s \in DOMAIN to[p] : to[p][s] = m
    BY <1>1, Zenon DEF Edge
  <2>2. PICK s \in DOMAIN to[p] : to[p][s] = m
    BY <2>1
  <2>3. m = c \/ \E z \in DOMAIN sl[p] : m = sl[p][z]
    BY <2>1, <2>2, Zenon DEF Fed
  <2> QED BY <2>1, <2>3, Zenon DEF Edge
<1>2. ASSUME NEW x \in Nodes, NEW m, Edge(to, x, m) PROVE Edge(sl, x, m) \/ (x = p /\ m = c /\ c # Null)
  <2>1. CASE x = p
    BY <1>1, <1>2, <2>1, Zenon
  <2>2. CASE x # p
    <3>1. to[x] = sl[x]
      BY <2>2
    <3> QED BY <1>2, <3>1, Zenon DEF Edge
  <2> QED BY <2>1, <2>2
<1>3. CASE c = Null
  <2>1. \A x \in Nodes : \A m : Edge(to, x, m) => Edge(sl, x, m)
    BY <1>2, <1>3, Zenon
  <2> QED BY <2>1, FewerEdges, Zenon
<1>4. CASE c # Null
  <2>1. c \in Nodes /\ p \notin ReachIn(sl, {c})
    BY <1>4, Zenon
  <2>2. \A x \in Nodes : \A m : Edge(to, x, m) => Edge(sl, x, m) \/ (x = p /\ m = c)
    BY <1>2, Zenon
  <2>3. OneEdgeMore(sl, to, p, c)
    BY <2>1, <2>2, Zenon DEF OneEdgeMore
  <2> QED BY <2>1, <2>3, NewEdge, Zenon
<1> QED BY <1>3, <1>4

\* Everything stays on a root: what it loses is about to be put, and what it
\* gains is in it.
LEMMA EditKept ==
    ASSUME Tree!TreeAssumption, NEW k,
           NEW h \in [Nodes -> 0 .. MaxHeld], NEW h2 \in [Nodes -> 0 .. MaxHeld],
           NEW q2 \in Seq(Nodes), NEW d \in Seq(Nodes), NEW sl,
           Kept(k, h, <<>>, d, sl), NEW p, k[p] # "free", NEW to, Edited(sl, to, p),
           NEW c \in Nodes \cup {Null}, c # Null => p \notin ReachIn(sl, {c}),
           Accounted(h, h2, <<>>, q2, sl[p], to[p], c)
    PROVE  Kept(k, h2, q2, d, to)
<1>0. p \in Nodes /\ Slotted(sl) /\ Slotted(to) /\ \A x \in Nodes : x # p => to[x] = sl[x]
  BY Zenon DEF Edited
<1> DEFINE R == ReachIn(to, Roots(h2, q2, d))
           X == IF c = Null THEN {} ELSE ReachIn(sl, {c})
<1>1. /\ R \in SUBSET Nodes
      /\ \A n \in Nodes : h2[n] > 0 \/ Num(q2, n) > 0 \/ Num(d, n) > 0 => n \in R
      /\ \A x \in R : \A m : Edge(to, x, m) => m \in R
  BY <1>0, RootsReach, Zenon
<1>2. /\ X \in SUBSET Nodes /\ p \notin X /\ (c # Null => c \in X)
      /\ \A x \in X : \A m : Edge(sl, x, m) => m \in X
  <2>1. CASE c = Null
    BY <2>1
  <2>2. CASE c # Null
    <3>1. {c} \in SUBSET Nodes
      BY <2>2
    <3>2. {c} \subseteq ReachIn(sl, {c}) /\ ReachIn(sl, {c}) \in SUBSET Nodes /\ ClosedIn(sl, ReachIn(sl, {c}))
      BY <1>0, <3>1, ReachFacts, Zenon
    <3> QED BY <2>2, <3>2, Zenon DEF ClosedIn
  <2> QED BY <2>1, <2>2
<1> HIDE DEF R, X
<1>3. ASSUME NEW m \in Nodes, Edge(sl, p, m) \/ m = c PROVE Num(q2, m) > 0 \/ Edge(to, p, m)
  <2>1. Num(sl[p], m) \in Nat /\ (Num(sl[p], m) = 0 <=> ~ Edge(sl, p, m))
    BY <1>0, NumEdge, Zenon
  <2>2. Num(to[p], m) \in Nat /\ (Num(to[p], m) = 0 <=> ~ Edge(to, p, m))
    BY <1>0, NumEdge, Zenon
  <2>3. /\ Num(q2, m) + Num(to[p], m) = Num(<<>>, m) + Num(sl[p], m) + One(m = c) /\ Num(<<>>, m) = 0
        /\ Num(q2, m) \in Nat
    <3>1. Num(q2, m) \in Nat
      BY <1>0, CountTyped, Zenon
    <3> QED BY <3>1, NumEmpty, Zenon DEF Accounted
  <2>4. One(m = c) \in Nat /\ (m = c => One(m = c) = 1)
    BY DEF One
  <2>5. Num(sl[p], m) # 0 \/ One(m = c) = 1
    BY <1>3, <2>1, <2>4, Zenon
  <2>6. OneOf(Num(q2, m), Num(to[p], m), Num(<<>>, m), Num(sl[p], m), One(m = c))
    BY <2>1, <2>2, <2>3, <2>4, <2>5, Zenon DEF OneOf
  <2>7. Num(q2, m) > 0 \/ Num(to[p], m) # 0
    BY <2>6, OneLeft, Zenon
  <2> QED BY <2>2, <2>7, Zenon
<1>4. \A x \in Nodes : \A m : Edge(sl, x, m) => m \in Nodes
  <2> SUFFICES ASSUME NEW x \in Nodes, NEW m, Edge(sl, x, m) PROVE m \in Nodes
    BY Zenon
  <2>1. m # Null /\ \E s \in DOMAIN sl[x] : sl[x][s] = m
    BY Zenon DEF Edge
  <2> QED BY <1>0, <2>1, Zenon DEF Slotted
<1>5. \A x \in R : \A m : Edge(sl, x, m) => m \in R
  <2> SUFFICES ASSUME NEW x \in R, NEW m, Edge(sl, x, m) PROVE m \in R
    BY Zenon
  <2>1. x \in Nodes /\ m \in Nodes
    BY <1>1, <1>4, Zenon
  <2>2. CASE x = p
    <3>1. Num(q2, m) > 0 \/ Edge(to, p, m)
      BY <1>3, <2>1, <2>2, Zenon
    <3> QED BY <1>1, <2>1, <2>2, <3>1, Zenon
  <2>3. CASE x # p
    <3>1. Edge(to, x, m)
      <4>1. to[x] = sl[x]
        BY <1>0, <2>1, <2>3
      <4> QED BY <4>1, Zenon DEF Edge
    <3> QED BY <1>1, <3>1, Zenon
  <2> QED BY <2>2, <2>3
<1>6. \A n \in Roots(h, <<>>, d) : n \in R \cup X
  <2> SUFFICES ASSUME NEW n \in Nodes, h[n] > 0 \/ Num(<<>>, n) > 0 \/ Num(d, n) > 0 PROVE n \in R \cup X
    BY Zenon DEF Roots
  <2>1. Num(<<>>, n) = 0 /\ h2[n] + One(n = c) = h[n] /\ h2[n] \in Nat
    <3>1. h2[n] \in Nat
      BY <1>0, CountTyped, Zenon
    <3> QED BY <3>1, NumEmpty, Zenon DEF Accounted
  <2>2. CASE n = c
    BY <1>2, <2>2, TreeConstants, Zenon
  <2>3. CASE n # c
    <3>1. One(n = c) = 0
      BY <2>3 DEF One
    <3> HIDE DEF Num
    <3>2. h2[n] > 0 \/ Num(d, n) > 0
      BY <2>1, <3>1, SMT
    <3> QED BY <1>1, <3>2, Zenon
  <2> QED BY <2>2, <2>3
<1>7. \A n \in Nodes : k[n] # "free" => n \in R \cup X
  <2>1. R \cup X \in SUBSET Nodes /\ Roots(h, <<>>, d) \in SUBSET Nodes
    BY <1>1, <1>2, Zenon DEF Roots
  <2>2. \A x \in R \cup X : \A m : Edge(sl, x, m) => m \in R \cup X
    BY <1>2, <1>5, Zenon
  <2>3. \A n \in ReachIn(sl, Roots(h, <<>>, d)) : n \in R \cup X
    BY <1>6, <2>1, <2>2, <1>0, ReachStays, Zenon
  <2> QED BY <2>3, Zenon DEF Kept
<1>8. p \in R
  BY <1>0, <1>2, <1>7, Zenon
<1>9. \A n \in X : n \in R
  <2>1. CASE c = Null
    BY <2>1 DEF X
  <2>2. CASE c # Null
    <3>1. c \in Nodes /\ {c} \in SUBSET Nodes
      BY <2>2
    <3>2. c \in R
      BY <1>1, <1>3, <1>8, <3>1, Zenon
    <3>3. \A n \in ReachIn(sl, {c}) : n \in R
      <4>1. \A n \in {c} : n \in R
        BY <3>2
      <4> QED BY <1>1, <1>5, <3>1, <4>1, <1>0, ReachStays, Zenon
    <3> QED BY <2>2, <3>3, Zenon DEF X
  <2> QED BY <2>1, <2>2
<1> QED BY <1>7, <1>9, Zenon DEF Kept, R

-----------------------------------------------------------------------------
(* The changes that the application makes to containers.                   *)

\* What the application can get to exists, and what it owns.
LEMMA KnownExists ==
    ASSUME Tree!TreeAssumption, TreeInv
    PROVE  /\ \A n \in Tree!Known : n \in Nodes /\ kind[n] # "free"
           /\ \A n \in Tree!Owned : n \in Nodes /\ kind[n] # "free" /\ held[n] > 0
           /\ Dsts \in Seq(Nodes)
<1>1. Dsts \in Seq(Nodes)
  BY DstsSeq, Zenon DEF Dsts, TreeInv, TreeTyped
<1>2. \A p \in Nodes : \A m : Edge(slots, p, m) => m \in Nodes /\ kind[m] # "free"
  <2>1. /\ held \in [Nodes -> 0 .. MaxHeld] /\ puts \in Seq(Nodes) /\ Slotted(slots)
        /\ Exact(kind, ref, held, puts, Dsts, slots)
    BY Zenon DEF TreeInv, TreeTyped
  <2>2. EdgesExist(kind, slots)
    BY <1>1, <2>1, CountedExists, Zenon
  <2> QED BY <2>2, Zenon DEF EdgesExist
<1>3. ASSUME NEW n \in ReachIn(slots, Tree!Owned) PROVE n \in Nodes /\ kind[n] # "free"
  <2>1. Slotted(slots)
    BY Zenon DEF TreeInv, TreeTyped
  <2>2. Tree!Owned \in SUBSET Nodes /\ Tree!Live \in SUBSET Nodes /\ \A x \in Tree!Owned : x \in Tree!Live
    BY Zenon DEF Tree!Owned, Tree!Live
  <2>3. \A p \in Tree!Live : \A m : Edge(slots, p, m) => m \in Tree!Live
    BY <1>2, Zenon DEF Tree!Live
  <2>4. n \in Tree!Live
    BY <2>1, <2>2, <2>3, ReachStays, Zenon
  <2> QED BY <2>4, Zenon DEF Tree!Live
<1>4. Tree!Known = ReachIn(slots, Tree!Owned)
  BY ReachableIs, Zenon DEF Tree!Known, Tree!Owned
<1>5. \A n \in Tree!Owned : n \in Nodes /\ kind[n] # "free" /\ held[n] > 0
  BY Zenon DEF Tree!Owned, Tree!Live
<1> QED BY <1>1, <1>3, <1>4, <1>5, Zenon

\* What the application may add to a container does not reach it.
LEMMA AddedIsApart ==
    ASSUME Slotted(slots), NEW p \in Nodes, NEW c \in Nodes, Tree!MayAdd(p, c), p # c, Null \notin Nodes
    PROVE  p \notin ReachIn(slots, {c}) /\ c \in Tree!Owned
<1>1. c # Null /\ c \in Tree!Owned /\ p \notin Tree!Reachable(Tree!Children(c))
  BY Zenon DEF Tree!MayAdd
<1> DEFINE B == Tree!Children(c)
           C == {c} \cup ReachIn(slots, B)
<1>2. \A m : m \in B <=> Edge(slots, c, m)
  BY Zenon DEF Tree!Children, Edge
<1>3. B \in SUBSET Nodes
  <2>1. \A m : Edge(slots, c, m) => m \in Nodes
    BY Zenon DEF Slotted, Edge
  <2> QED BY <1>2, <2>1, Zenon
<1> HIDE DEF B
<1>4. B \subseteq ReachIn(slots, B) /\ ReachIn(slots, B) \in SUBSET Nodes /\ ClosedIn(slots, ReachIn(slots, B))
  BY <1>3, ReachFacts, Zenon
<1>5. C \in SUBSET Nodes /\ {c} \in SUBSET Nodes
  BY <1>4, Zenon
<1>6. \A x \in C : \A m : Edge(slots, x, m) => m \in C
  BY <1>2, <1>4, Zenon DEF ClosedIn
<1>7. \A n \in ReachIn(slots, {c}) : n \in C
  <2>1. \A n \in {c} : n \in C
    OBVIOUS
  <2> HIDE DEF C
  <2> QED BY <1>5, <1>6, <2>1, ReachStays, Zenon
<1>8. p \notin ReachIn(slots, B)
  BY <1>1, ReachableIs, Zenon DEF B
<1> QED BY <1>1, <1>7, <1>8

\* What a container loses when its slots f become g, given c, is what q puts.
Paid(q, f, g, c) == \A n \in Nodes : Num(q, n) + Num(g, n) = Num(f, n) + One(n = c)

\* A change of a container, with all of the state.
LEMMA EditKeepsTree ==
    ASSUME Tree!TreeAssumption, TreeInv, copy = <<>>, puts = <<>>, NEW p \in Nodes, kind[p] # "free",
           NEW c \in Nodes \cup {Null}, c # Null => c \in Tree!Owned /\ p \notin ReachIn(slots, {c}),
           UNCHANGED <<kind, leaf, ref, data, copy>>, done' = <<>>, held' = Tree!Given(c),
           Edited(slots, slots', p), Shaped(kind, slots'), puts' \in Seq(Nodes),
           Fed(slots[p], slots'[p], c),
           Paid(puts', slots[p], slots'[p], c)
    PROVE  TreeInv'
<1>1. /\ Dsts \in Seq(Nodes) /\ held \in [Nodes -> 0 .. MaxHeld] /\ Slotted(slots') /\ <<>> \in Seq(Nodes)
      /\ Exact(kind, ref, held, <<>>, Dsts, slots) /\ Kept(kind, held, <<>>, Dsts, slots) /\ Acyclic(slots)
  BY KnownExists, EmptySeq, Zenon DEF TreeInv, TreeTyped, Edited
<1>2. Dsts' = Dsts
  BY Zenon DEF Dsts
<1>3. /\ held' \in [Nodes -> 0 .. MaxHeld]
      /\ \A n \in Nodes : held'[n] + One(n = c) = held[n]
  <2>1. CASE c = Null
    <3>1. held' = held
      BY <2>1, Zenon DEF Tree!Given
    <3>2. \A n \in Nodes : One(n = c) = 0
      BY <2>1, TreeConstants DEF One
    <3>3. \A n \in Nodes : held[n] \in Nat
      BY <1>1, TreeConstants, SMT
    <3> QED BY <1>1, <3>1, <3>2, <3>3, SMT
  <2>2. CASE c # Null
    <3>1. held' = [held EXCEPT ![c] = held[c] - 1] /\ c \in Nodes /\ held[c] > 0
      BY <2>2, KnownExists, Zenon DEF Tree!Given
    <3>2. \A n \in Nodes : One(n = c) = IF n = c THEN 1 ELSE 0
      BY DEF One
    <3>3. MaxHeld \in Nat
      BY TreeConstants
    <3>4. held' \in [Nodes -> 0 .. MaxHeld]
      BY <1>1, <3>1, <3>3, SMT
    <3>5. \A n \in Nodes : held'[n] + (IF n = c THEN 1 ELSE 0) = held[n]
      BY <1>1, <3>1, <3>3, SMT
    <3> QED BY <3>2, <3>4, <3>5, Zenon
  <2> QED BY <2>1, <2>2
<1>4. Accounted(held, held', <<>>, puts', slots[p], slots'[p], c)
  <2> SUFFICES ASSUME NEW n \in Nodes
               PROVE  Num(puts', n) + Num(slots'[p], n) = Num(<<>>, n) + Num(slots[p], n) + One(n = c)
    BY <1>3, Zenon DEF Accounted
  <2>1. Num(<<>>, n) = 0
    BY NumEmpty
  <2>2. Num(slots[p], n) \in Nat
    BY NumEdge, Zenon DEF Edited
  <2>3. 0 + Num(slots[p], n) = Num(slots[p], n)
    BY <2>2, SMT
  <2>4. Num(puts', n) + Num(slots'[p], n) = Num(slots[p], n) + One(n = c)
    BY Zenon DEF Paid
  <2> QED BY <2>1, <2>3, <2>4
<1>5. Exact(kind, ref, held', puts', Dsts, slots')
  BY <1>1, <1>3, <1>4, EditExact, Zenon
<1>6. Acyclic(slots')
  <2>1. c # Null => p \notin ReachIn(slots, {c})
    OBVIOUS
  <2> QED BY <1>1, <2>1, EditAcyclic, Zenon
<1>7. Kept(kind, held', puts', Dsts, slots')
  <2>1. c # Null => p \notin ReachIn(slots, {c})
    OBVIOUS
  <2> QED BY <1>1, <1>3, <1>4, <2>1, EditKept, Zenon
<1>8. TreeTyped'
  BY <1>1, <1>3, Zenon DEF TreeInv, TreeTyped
<1>9. Levels'
  <2>1. DOMAIN copy' = {}
    OBVIOUS
  <2> QED BY <2>1, Zenon DEF Levels, Apart
<1>10. Exact(kind, ref, held, puts, Dsts, slots)' /\ Kept(kind, held, puts, Dsts, slots)' /\ Acyclic(slots)'
  BY <1>2, <1>5, <1>6, <1>7, Zenon
<1> QED BY <1>8, <1>9, <1>10, Zenon DEF TreeInv

\* The names of slots, by kind.
LEMMA ShapeNames ==
    ASSUME Tree!TreeAssumption, NEW kd, NEW D \in Shape(kd)
    PROVE  D \subseteq SlotNames
<1>1. CASE kd = "object"
  BY <1>1 DEF Shape, SlotNames
<1>2. CASE kd # "object" /\ kd = "array"
  <2>1. PICK l \in 0 .. MaxLength : D = 0 .. l - 1
    BY <1>2 DEF Shape
  <2>2. \A i \in 0 .. l - 1 : i \in 0 .. MaxLength - 1
    BY TreeConstants, SMT
  <2> QED BY <2>1, <2>2 DEF SlotNames, Tree!Indexes
<1>3. CASE kd # "object" /\ kd # "array"
  BY <1>3 DEF Shape
<1> QED BY <1>1, <1>2, <1>3

\* A container gets the slots f.
Replaced(sl, to, p, f) == to = [sl EXCEPT ![p] = f]

\* Slots of the right shape with values of before keep the types.
LEMMA EditTyped ==
    ASSUME Tree!TreeAssumption, NEW k, NEW sl, Slotted(sl), Shaped(k, sl), NEW p \in Nodes, NEW f, NEW to,
           Replaced(sl, to, p, f), DOMAIN f \in Shape(k[p]), NEW c \in Nodes \cup {Null}, Fed(sl[p], f, c)
    PROVE  Edited(sl, to, p) /\ Shaped(k, to)
<1>1. DOMAIN sl = Nodes /\ \A x \in Nodes : \A s \in DOMAIN sl[x] : sl[x][s] \in Nodes \cup {Null}
  BY Zenon DEF Slotted
<1>2. DOMAIN to = Nodes /\ to[p] = f /\ \A x \in Nodes : x # p => to[x] = sl[x]
  BY <1>1 DEF Replaced
<1>3. \A s \in DOMAIN f : f[s] \in Nodes \cup {Null}
  <2> SUFFICES ASSUME NEW s \in DOMAIN f PROVE f[s] \in Nodes \cup {Null}
    OBVIOUS
  <2>1. f[s] \in {c, Null} \/ \E z \in DOMAIN sl[p] : f[s] = sl[p][z]
    BY Zenon DEF Fed
  <2> QED BY <1>1, <2>1
<1>4. DOMAIN f \subseteq SlotNames
  BY ShapeNames, Zenon
<1>5. ASSUME NEW x \in Nodes
      PROVE  /\ DOMAIN to[x] \subseteq SlotNames /\ DOMAIN to[x] \in Shape(k[x])
             /\ \A s \in DOMAIN to[x] : to[x][s] \in Nodes \cup {Null}
  <2>1. CASE x = p
    <3>1. to[x] = f /\ k[x] = k[p]
      BY <1>2, <2>1
    <3> QED BY <1>3, <1>4, <3>1
  <2>2. CASE x # p
    <3>1. to[x] = sl[x]
      BY <1>2, <2>2
    <3>2. DOMAIN sl[x] \in Shape(k[x]) /\ DOMAIN sl[x] \subseteq SlotNames
      BY Zenon DEF Shaped, Slotted
    <3> QED BY <1>1, <3>1, <3>2
  <2> QED BY <2>1, <2>2
<1>6. Slotted(to) /\ Shaped(k, to)
  BY <1>2, <1>5, Zenon DEF Slotted, Shaped
<1> QED BY <1>2, <1>6, Zenon DEF Edited

\* The put of one value.
LEMMA PutOne ==
    ASSUME Tree!TreeAssumption, NEW v \in Nodes \cup {Null}
    PROVE  Tree!Putting(<<v>>) \in Seq(Nodes) /\ \A n \in Nodes : Num(Tree!Putting(<<v>>), n) = One(v = n)
<1>1. <<v>> \in Seq(Nodes \cup {Null})
  OBVIOUS
<1>2. IsFiniteSet(DOMAIN <<v>>) /\ \A s \in DOMAIN <<v>> : <<v>>[s] \in Nodes \cup {Null}
  BY <1>1, SeqFinite, Zenon
<1>3. /\ Tree!Putting(<<v>>) \in Seq(Nodes)
      /\ \A n : n # Null => Num(Tree!Putting(<<v>>), n) = Num(<<v>>, n)
  BY <1>2, PuttingHits, Zenon
<1>4. ASSUME NEW n \in Nodes PROVE Num(Tree!Putting(<<v>>), n) = One(v = n)
  <2>1. n # Null
    BY TreeConstants
  <2>2. Num(Tree!Putting(<<v>>), n) = Num(<<v>>, n)
    BY <1>3, <2>1, Zenon
  <2>3. Num(<<v>>, n) = One(v = n)
    BY NumSingle, Zenon
  <2> QED BY <2>2, <2>3, Zenon
<1> QED BY <1>3, <1>4, Zenon

\* The slots f and g are the same but for i, which has c in g, and NULLs.
DifferAt(f, g, i, c) ==
    /\ \A s \in DOMAIN f : s # i => s \in DOMAIN g /\ g[s] = f[s]
    /\ \A s \in DOMAIN g : s # i => (s \in DOMAIN f /\ g[s] = f[s]) \/ g[s] = Null
    /\ IF i \in DOMAIN g THEN g[i] = c ELSE c = Null

\* A slot that is replaced or deleted is put.
LEMMA SlotPaid ==
    ASSUME Tree!TreeAssumption, NEW f, NEW g, IsFiniteSet(DOMAIN f), IsFiniteSet(DOMAIN g),
           \A s \in DOMAIN f : f[s] \in Nodes \cup {Null}, NEW c, NEW i, DifferAt(f, g, i, c),
           NEW q, q = IF i \in DOMAIN f THEN Tree!Putting(<<f[i]>>) ELSE <<>>
    PROVE  q \in Seq(Nodes) /\ Paid(q, f, g, c) /\ Fed(f, g, c)
<1>1. Fed(f, g, c)
  <2> SUFFICES ASSUME NEW s \in DOMAIN g PROVE g[s] \in {c, Null} \/ \E z \in DOMAIN f : g[s] = f[z]
    BY Zenon DEF Fed
  <2>1. CASE s = i
    BY <2>1 DEF DifferAt
  <2>2. CASE s # i
    BY <2>2 DEF DifferAt
  <2> QED BY <2>1, <2>2
<1>2. q \in Seq(Nodes) /\ \A n \in Nodes : Num(q, n) = One(i \in Hits(f, n))
  <2>1. CASE i \in DOMAIN f
    <3>1. q = Tree!Putting(<<f[i]>>) /\ f[i] \in Nodes \cup {Null}
      BY <2>1
    <3>2. q \in Seq(Nodes) /\ \A n \in Nodes : Num(q, n) = One(f[i] = n)
      <4> DEFINE v == f[i]
                 u == Tree!Putting(<<v>>)
      <4>1. v \in Nodes \cup {Null} /\ q = u
        BY <3>1
      <4>2. u \in Seq(Nodes) /\ \A n \in Nodes : Num(u, n) = One(v = n)
        <5> HIDE DEF v
        <5> QED BY <4>1, PutOne, Zenon
      <4> HIDE DEF u, v
      <4>3. q \in Seq(Nodes) /\ \A n \in Nodes : Num(q, n) = One(v = n)
        BY <4>1, <4>2
      <4> QED BY <4>3 DEF v
    <3>3. \A n : (i \in Hits(f, n)) = (f[i] = n)
      BY <2>1 DEF Hits
    <3> QED BY <3>2, <3>3, Zenon
  <2>2. CASE i \notin DOMAIN f
    <3>1. q = <<>>
      BY <2>2
    <3>2. \A n : One(i \in Hits(f, n)) = 0
      BY <2>2 DEF Hits, One
    <3>3. <<>> \in Seq(Nodes)
      BY EmptySeq
    <3> QED BY <3>1, <3>2, <3>3, NumEmpty, Zenon
  <2> QED BY <2>1, <2>2
<1>3. ASSUME NEW n \in Nodes PROVE Num(q, n) + Num(g, n) = Num(f, n) + One(n = c)
  <2>1. n # Null
    BY TreeConstants
  <2>2. ASSUME NEW s PROVE s \in Hits(f, n) \ {i} <=> s \in Hits(g, n) \ {i}
    BY <2>1 DEF Hits, DifferAt
  <2>3. Hits(f, n) \ {i} = Hits(g, n) \ {i}
    BY <2>2, Zenon
  <2>4. Num(g, n) + One(i \in Hits(f, n)) = Num(f, n) + One(i \in Hits(g, n))
    BY <2>3, NumChanged, SMT
  <2>5. (i \in Hits(g, n)) = (n = c)
    BY <2>1 DEF Hits, DifferAt
  <2>6. One(i \in Hits(f, n)) \in Nat /\ Num(g, n) \in Nat
    BY NumType, Zenon DEF One
  <2>7. \A a, b \in Nat : a + b = b + a
    BY SMT
  <2>8. Num(g, n) + Num(q, n) = Num(f, n) + One(n = c) /\ Num(q, n) \in Nat
    BY <1>2, <2>4, <2>5, <2>6, Zenon
  <2>9. Num(q, n) + Num(g, n) = Num(g, n) + Num(q, n)
    BY <2>6, <2>7, <2>8, Zenon
  <2> QED BY <2>8, <2>9
<1> QED BY <1>1, <1>2, <1>3, Zenon DEF Paid

\* A change of a container, from what each kind of change has to show.
LEMMA ChangeKeepsTree ==
    ASSUME Tree!TreeAssumption, TreeInv, Tree!Quiet, NEW p \in Tree!Known,
           NEW c \in Nodes \cup {Null}, c # Null => c \in Tree!Owned /\ p \notin ReachIn(slots, {c}),
           UNCHANGED <<kind, leaf, ref, data, copy>>, done' = <<>>, held' = Tree!Given(c),
           NEW f, Replaced(slots, slots', p, f), DOMAIN f \in Shape(kind[p]), Fed(slots[p], f, c),
           puts' \in Seq(Nodes), Paid(puts', slots[p], f, c)
    PROVE  TreeInv'
<1>1. Slotted(slots) /\ Shaped(kind, slots) /\ puts = <<>> /\ copy = <<>>
  BY Zenon DEF TreeInv, TreeTyped, Tree!Quiet
<1>2. p \in Nodes /\ kind[p] # "free"
  BY KnownExists, Zenon
<1>3. Edited(slots, slots', p) /\ Shaped(kind, slots')
  BY <1>1, <1>2, EditTyped, Zenon
<1>4. Fed(slots[p], slots'[p], c) /\ Paid(puts', slots[p], slots'[p], c)
  <2>1. slots'[p] = f
    BY <1>1, <1>2, Zenon DEF Slotted, Replaced
  <2> QED BY <2>1, Zenon
<1> QED BY <1>1, <1>2, <1>3, <1>4, EditKeepsTree, Zenon

\* The slots of what the application knows.
LEMMA KnownSlots ==
    ASSUME Tree!TreeAssumption, TreeInv, NEW p \in Tree!Known
    PROVE  /\ p \in Nodes /\ IsFiniteSet(DOMAIN slots[p]) /\ DOMAIN slots[p] \in Shape(kind[p])
           /\ \A s \in DOMAIN slots[p] : slots[p][s] \in Nodes \cup {Null}
<1>1. Slotted(slots) /\ Shaped(kind, slots)
  BY Zenon DEF TreeInv, TreeTyped
<1>2. p \in Nodes
  BY KnownExists, Zenon
<1> QED BY <1>1, <1>2, SlotsFinite, Zenon DEF Slotted, Shaped

\* json_object_object_add.
LEMMA ObjectAddKeepsTree ==
    ASSUME Tree!TreeAssumption, TreeInv, NEW p, NEW key \in TreeKeys, NEW c \in Nodes \cup {Null},
           Tree!ObjectAdd(p, key, c)
    PROVE  TreeInv'
<1> DEFINE f == slots[p]
           g == Tree!With(f, key, c)
<1>1. /\ Tree!Quiet /\ p \in Tree!Known /\ kind[p] = "object" /\ Tree!MayAdd(p, c) /\ p # c
      /\ Replaced(slots, slots', p, g)
      /\ puts' = IF key \in DOMAIN f THEN Tree!Putting(<<f[key]>>) ELSE <<>>
      /\ held' = Tree!Given(c) /\ done' = <<>> /\ UNCHANGED <<kind, leaf, ref, data, copy>>
  BY Zenon DEF Tree!ObjectAdd, Tree!Small, Replaced
<1>2. /\ p \in Nodes /\ IsFiniteSet(DOMAIN f) /\ DOMAIN f \in SUBSET TreeKeys
      /\ \A s \in DOMAIN f : f[s] \in Nodes \cup {Null}
  BY <1>1, KnownSlots DEF Shape
<1>3. DOMAIN g = DOMAIN f \cup {key} /\ \A s \in DOMAIN g : g[s] = IF s = key THEN c ELSE f[s]
  BY DEF Tree!With
<1> HIDE DEF g
<1>4. IsFiniteSet(DOMAIN g) /\ DOMAIN g \in Shape(kind[p])
  <2>1. DOMAIN g \in SUBSET TreeKeys
    BY <1>2, <1>3
  <2>2. IsFiniteSet(DOMAIN g)
    BY <2>1, TreeConstants, FS_Subset, Zenon
  <2> QED BY <1>1, <2>1, <2>2 DEF Shape
<1>5. DifferAt(f, g, key, c)
  BY <1>3 DEF DifferAt
<1>6. puts' \in Seq(Nodes) /\ Paid(puts', f, g, c) /\ Fed(f, g, c)
  <2> HIDE DEF f
  <2> QED BY <1>1, <1>2, <1>4, <1>5, SlotPaid, Zenon
<1>7. c # Null => c \in Tree!Owned /\ p \notin ReachIn(slots, {c})
  <2>1. Slotted(slots) /\ Null \notin Nodes
    BY TreeConstants, Zenon DEF TreeInv, TreeTyped
  <2> QED BY <1>1, <1>2, <2>1, AddedIsApart, Zenon
<1> QED BY <1>1, <1>4, <1>6, <1>7, ChangeKeepsTree, Zenon

\* json_object_object_del.
LEMMA ObjectDelKeepsTree ==
    ASSUME Tree!TreeAssumption, TreeInv, NEW p, NEW key \in TreeKeys, Tree!ObjectDel(p, key)
    PROVE  TreeInv'
<1> DEFINE f == slots[p]
           g == [k \in DOMAIN f \ {key} |-> f[k]]
<1>1. /\ Tree!Quiet /\ p \in Tree!Known /\ kind[p] = "object" /\ key \in DOMAIN f
      /\ Replaced(slots, slots', p, g)
      /\ puts' = Tree!Putting(<<f[key]>>)
      /\ held' = held /\ done' = <<>> /\ UNCHANGED <<kind, leaf, ref, data, copy>>
  BY Zenon DEF Tree!ObjectDel, Replaced
<1>2. /\ p \in Nodes /\ IsFiniteSet(DOMAIN f) /\ DOMAIN f \in SUBSET TreeKeys
      /\ \A s \in DOMAIN f : f[s] \in Nodes \cup {Null}
  BY <1>1, KnownSlots DEF Shape
<1>3. DOMAIN g = DOMAIN f \ {key} /\ \A s \in DOMAIN g : g[s] = f[s]
  OBVIOUS
<1> HIDE DEF g
<1>4. IsFiniteSet(DOMAIN g) /\ DOMAIN g \in Shape(kind[p])
  <2>1. DOMAIN g \in SUBSET TreeKeys
    BY <1>2, <1>3
  <2>2. IsFiniteSet(DOMAIN g)
    BY <2>1, TreeConstants, FS_Subset, Zenon
  <2> QED BY <1>1, <2>1, <2>2 DEF Shape
<1>5. DifferAt(f, g, key, Null)
  BY <1>3 DEF DifferAt
<1>6. puts' \in Seq(Nodes) /\ Paid(puts', f, g, Null) /\ Fed(f, g, Null)
  <2>1. puts' = IF key \in DOMAIN f THEN Tree!Putting(<<f[key]>>) ELSE <<>>
    BY <1>1
  <2> HIDE DEF f
  <2> QED BY <1>2, <1>4, <1>5, <2>1, SlotPaid, Zenon
<1>7. held' = Tree!Given(Null)
  BY <1>1 DEF Tree!Given
<1> DEFINE c == Null
<1>8. /\ c \in Nodes \cup {Null}
      /\ c # Null => c \in Tree!Owned /\ p \notin ReachIn(slots, {c})
      /\ held' = Tree!Given(c) /\ Paid(puts', f, g, c) /\ Fed(f, g, c)
  BY <1>6, <1>7
<1> HIDE DEF c
<1> QED BY <1>1, <1>4, <1>6, <1>8, ChangeKeepsTree, Zenon

\* json_object_array_put_idx.
LEMMA ArrayPutIdxKeepsTree ==
    ASSUME Tree!TreeAssumption, TreeInv, NEW p, NEW i \in Tree!Indexes, NEW c \in Nodes \cup {Null},
           Tree!ArrayPutIdx(p, i, c)
    PROVE  TreeInv'
<1> DEFINE f == slots[p]
           g == [j \in DOMAIN f \cup 0 .. i |-> IF j = i THEN c ELSE IF j \in DOMAIN f THEN f[j] ELSE Null]
<1>1. /\ Tree!Quiet /\ p \in Tree!Known /\ kind[p] = "array" /\ Tree!MayAdd(p, c) /\ p # c
      /\ Replaced(slots, slots', p, g)
      /\ puts' = IF i \in DOMAIN f THEN Tree!Putting(<<f[i]>>) ELSE <<>>
      /\ held' = Tree!Given(c) /\ done' = <<>> /\ UNCHANGED <<kind, leaf, ref, data, copy>>
  BY Zenon DEF Tree!ArrayPutIdx, Tree!Small, Replaced
<1>2. /\ p \in Nodes /\ IsFiniteSet(DOMAIN f) /\ DOMAIN f \in {0 .. l - 1 : l \in 0 .. MaxLength}
      /\ \A s \in DOMAIN f : f[s] \in Nodes \cup {Null}
  BY <1>1, KnownSlots DEF Shape
<1>3. /\ DOMAIN g = DOMAIN f \cup 0 .. i
      /\ \A s \in DOMAIN g : g[s] = IF s = i THEN c ELSE IF s \in DOMAIN f THEN f[s] ELSE Null
  OBVIOUS
<1> HIDE DEF g
<1>4. PICK l \in 0 .. MaxLength : DOMAIN f = 0 .. l - 1
  BY <1>2
<1>5. /\ l \in Nat /\ i \in Nat /\ i < MaxLength /\ MaxLength \in Nat
      /\ 0 .. l - 1 \cup 0 .. i = IF i < l THEN 0 .. l - 1 ELSE 0 .. (i + 1) - 1
  <2>1. l \in Nat /\ i \in Nat /\ i < MaxLength /\ MaxLength \in Nat
    BY TreeConstants, SMT DEF Tree!Indexes
  <2>2. \A j : j \in 0 .. l - 1 \cup 0 .. i <=> j \in IF i < l THEN 0 .. l - 1 ELSE 0 .. (i + 1) - 1
    BY <2>1, SMT
  <2> QED BY <2>1, <2>2
<1>6. IsFiniteSet(DOMAIN g) /\ DOMAIN g \in Shape(kind[p]) /\ i \in DOMAIN g
  <2>1. PICK m \in 0 .. MaxLength : DOMAIN g = 0 .. m - 1
    <3>1. CASE i < l
      BY <1>3, <1>4, <1>5, <3>1
    <3>2. CASE ~ (i < l)
      <4>1. i + 1 \in 0 .. MaxLength
        BY <1>5, SMT
      <4> QED BY <1>3, <1>4, <1>5, <3>2, <4>1
    <3> QED BY <3>1, <3>2
  <2>2. IsFiniteSet(0 .. m - 1)
    BY TreeConstants, FS_Interval, SMT
  <2>3. i \in 0 .. i
    BY <1>5, SMT
  <2> QED BY <1>1, <1>3, <2>1, <2>2, <2>3 DEF Shape
<1>7. DifferAt(f, g, i, c)
  BY <1>3, <1>6 DEF DifferAt
<1>8. puts' \in Seq(Nodes) /\ Paid(puts', f, g, c) /\ Fed(f, g, c)
  <2> HIDE DEF f
  <2> QED BY <1>1, <1>2, <1>6, <1>7, SlotPaid, Zenon
<1>9. c # Null => c \in Tree!Owned /\ p \notin ReachIn(slots, {c})
  <2>1. Slotted(slots) /\ Null \notin Nodes
    BY TreeConstants, Zenon DEF TreeInv, TreeTyped
  <2> QED BY <1>1, <1>2, <2>1, AddedIsApart, Zenon
<1> QED BY <1>1, <1>6, <1>8, <1>9, ChangeKeepsTree, Zenon

\* The array g is f without the values u, count of them from i on.
Cut(f, l, i, count, g, u) ==
    /\ l \in Nat /\ i \in Nat /\ count \in Nat /\ i + count <= l /\ DOMAIN f = 0 .. l - 1
    /\ g = [j \in 0 .. l - count - 1 |-> IF j < i THEN f[j] ELSE f[j + count]]
    /\ u = [j \in 1 .. count |-> f[i + j - 1]]

\* The hits of an array are those of what is cut out of it and those of the rest.
LEMMA CutHits ==
    ASSUME NEW f, NEW l, NEW i, NEW count, NEW g, NEW u, Cut(f, l, i, count, g, u), NEW n
    PROVE  Num(u, n) \in Nat /\ Num(g, n) \in Nat /\ Num(f, n) = Num(u, n) + Num(g, n)
<1> USE DEF Cut
<1> DEFINE P == {x \in Hits(f, n) : ~ (i <= x /\ x < i + count)}
           Q == {x \in Hits(f, n) : i <= x /\ x < i + count}
           a == [j \in Hits(g, n) |-> IF j < i THEN j ELSE j + count]
           b == [j \in Hits(u, n) |-> i + j - 1]
<1>1. /\ \A x : x \in Hits(f, n) <=> x \in 0 .. l - 1 /\ f[x] = n
      /\ \A x : x \in Hits(g, n) <=> x \in 0 .. l - count - 1 /\ (IF x < i THEN f[x] ELSE f[x + count]) = n
      /\ \A x : x \in Hits(u, n) <=> x \in 1 .. count /\ f[i + x - 1] = n
  BY Zenon DEF Hits
<1>2. IsFiniteSet(DOMAIN u) /\ IsFiniteSet(DOMAIN g) /\ IsFiniteSet(DOMAIN f)
  <2>1. IsFiniteSet(1 .. count) /\ IsFiniteSet(0 .. l - count - 1) /\ IsFiniteSet(0 .. l - 1)
    BY FS_Interval, SMT
  <2> QED BY <2>1
<1>3. IsFiniteSet(Hits(u, n)) /\ Num(u, n) \in Nat /\ IsFiniteSet(Hits(g, n)) /\ Num(g, n) \in Nat
  BY <1>2, NumType, Zenon
<1> HIDE DEF Hits
<1>4. IsFiniteSet(P) /\ Cardinality(P) = Num(g, n)
  <2>1. a \in [Hits(g, n) -> P]
    <3> SUFFICES ASSUME NEW j \in Hits(g, n) PROVE (IF j < i THEN j ELSE j + count) \in P
      BY Zenon
    <3>1. j \in 0 .. l - count - 1 /\ (IF j < i THEN f[j] ELSE f[j + count]) = n
      BY <1>1, Zenon
    <3>2. CASE j < i
      <4>1. j \in 0 .. l - 1 /\ ~ (i <= j /\ j < i + count)
        BY <3>1, <3>2, SMT
      <4> QED BY <1>1, <3>1, <3>2, <4>1, Zenon
    <3>3. CASE ~ (j < i)
      <4>1. j + count \in 0 .. l - 1 /\ ~ (i <= j + count /\ j + count < i + count)
        BY <3>1, <3>3, SMT
      <4> QED BY <1>1, <3>1, <3>3, <4>1, Zenon
    <3> QED BY <3>2, <3>3
  <2>2. ASSUME NEW x \in Hits(g, n), NEW y \in Hits(g, n), a[x] = a[y] PROVE x = y
    <3>1. x \in Int /\ y \in Int
      BY <1>1, SMT
    <3>2. (IF x < i THEN x ELSE x + count) = (IF y < i THEN y ELSE y + count)
      BY <2>2, Zenon
    <3> QED BY <3>1, <3>2, SMT
  <2>3. ASSUME NEW y \in P PROVE \E x \in Hits(g, n) : a[x] = y
    <3>1. y \in 0 .. l - 1 /\ f[y] = n /\ ~ (i <= y /\ y < i + count)
      BY <1>1, Zenon
    <3>2. CASE y < i
      <4>1. y \in 0 .. l - count - 1
        BY <3>1, <3>2, SMT
      <4>2. y \in Hits(g, n)
        BY <1>1, <3>1, <3>2, <4>1, Zenon
      <4>3. a[y] = y
        BY <3>2, <4>2, Zenon
      <4> QED BY <4>2, <4>3, Zenon
    <3>3. CASE ~ (y < i)
      <4>1. y - count \in 0 .. l - count - 1 /\ ~ (y - count < i) /\ (y - count) + count = y
        BY <3>1, <3>3, SMT
      <4>2. y - count \in Hits(g, n)
        BY <1>1, <3>1, <4>1, Zenon
      <4>3. a[y - count] = y
        BY <4>1, <4>2, Zenon
      <4> QED BY <4>2, <4>3, Zenon
    <3> QED BY <3>2, <3>3
  <2> HIDE DEF a, P
  <2> QED BY <1>3, <2>1, <2>2, <2>3, SameCount, Zenon DEF Num
<1>5. IsFiniteSet(Q) /\ Cardinality(Q) = Num(u, n)
  <2>1. b \in [Hits(u, n) -> Q]
    <3> SUFFICES ASSUME NEW j \in Hits(u, n) PROVE i + j - 1 \in Q
      BY Zenon
    <3>1. j \in 1 .. count /\ f[i + j - 1] = n
      BY <1>1, Zenon
    <3>2. i + j - 1 \in 0 .. l - 1 /\ i <= i + j - 1 /\ i + j - 1 < i + count
      BY <3>1, SMT
    <3> QED BY <1>1, <3>1, <3>2, Zenon
  <2>2. ASSUME NEW x \in Hits(u, n), NEW y \in Hits(u, n), b[x] = b[y] PROVE x = y
    <3>1. x \in Int /\ y \in Int
      BY <1>1, SMT
    <3>2. i + x - 1 = i + y - 1
      BY <2>2, Zenon
    <3> QED BY <3>1, <3>2, SMT
  <2>3. ASSUME NEW y \in Q PROVE \E x \in Hits(u, n) : b[x] = y
    <3>1. y \in 0 .. l - 1 /\ f[y] = n /\ i <= y /\ y < i + count
      BY <1>1, Zenon
    <3>2. y - i + 1 \in 1 .. count /\ i + (y - i + 1) - 1 = y
      BY <3>1, SMT
    <3>3. y - i + 1 \in Hits(u, n)
      BY <1>1, <3>1, <3>2, Zenon
    <3>4. b[y - i + 1] = y
      BY <3>2, <3>3, Zenon
    <3> QED BY <3>3, <3>4, Zenon
  <2> HIDE DEF b, Q
  <2> QED BY <1>3, <2>1, <2>2, <2>3, SameCount, Zenon DEF Num
<1>6. Hits(f, n) = Q \cup P /\ Q \cap P = {}
  BY Zenon
<1> HIDE DEF P, Q
<1>7. Cardinality(Q \cup P) = Cardinality(Q) + Cardinality(P)
  BY <1>4, <1>5, <1>6, PartsAdd, Zenon
<1> QED BY <1>3, <1>4, <1>5, <1>6, <1>7, Zenon DEF Num

\* json_object_array_del_idx.
LEMMA ArrayDelIdxKeepsTree ==
    ASSUME Tree!TreeAssumption, TreeInv, NEW p, NEW i \in Tree!Indexes, NEW count \in 1 .. MaxLength,
           Tree!ArrayDelIdx(p, i, count)
    PROVE  TreeInv'
<1> DEFINE f == slots[p]
           g == [j \in 0 .. Tree!Cardinality(DOMAIN f) - count - 1 |-> IF j < i THEN f[j] ELSE f[j + count]]
           u == [j \in 1 .. count |-> f[i + j - 1]]
           c == Null
<1>1. /\ Tree!Quiet /\ p \in Tree!Known /\ kind[p] = "array"
      /\ i + count <= Tree!Cardinality(DOMAIN f)
      /\ Replaced(slots, slots', p, g)
      /\ puts' = Tree!Putting(u)
      /\ held' = held /\ done' = <<>> /\ UNCHANGED <<kind, leaf, ref, data, copy>>
  BY Zenon DEF Tree!ArrayDelIdx, Replaced
<1>2. /\ p \in Nodes /\ IsFiniteSet(DOMAIN f) /\ DOMAIN f \in {0 .. l - 1 : l \in 0 .. MaxLength}
      /\ \A s \in DOMAIN f : f[s] \in Nodes \cup {Null}
  BY <1>1, KnownSlots DEF Shape
<1>3. PICK l \in 0 .. MaxLength : DOMAIN f = 0 .. l - 1
  BY <1>2
<1>4. l \in Nat /\ MaxLength \in Nat /\ i \in Nat /\ count \in Nat
  BY TreeConstants, SMT DEF Tree!Indexes
<1>5. Tree!Cardinality(DOMAIN f) = l
  <2>1. Cardinality(0 .. l - 1) = l
    BY <1>4, FS_Interval, SMT
  <2> QED BY <1>3, <2>1, TreeCardinality, Zenon
<1>6. g = [j \in 0 .. l - count - 1 |-> IF j < i THEN f[j] ELSE f[j + count]] /\ i + count <= l
  BY <1>1, <1>5, Zenon
<1>7. DOMAIN g = 0 .. l - count - 1 /\ DOMAIN u = 1 .. count
  BY <1>6
<1>8. DOMAIN g \in Shape(kind[p])
  <2>1. l - count \in 0 .. MaxLength
    BY <1>4, <1>6, SMT
  <2> QED BY <1>1, <1>7, <2>1 DEF Shape
<1>9. Fed(f, g, c)
  <2> SUFFICES ASSUME NEW s \in DOMAIN g PROVE \E z \in DOMAIN f : g[s] = f[z]
    BY Zenon DEF Fed
  <2>1. s \in 0 .. l - count - 1 /\ s \in 0 .. l - 1 /\ s + count \in 0 .. l - 1
    <3>1. s \in 0 .. l - count - 1
      BY <1>7, Zenon
    <3>2. i + count <= l
      BY <1>6, Zenon
    <3> HIDE DEF f, g, u
    <3> QED BY <1>4, <3>1, <3>2, SMT
  <2>2. g[s] = IF s < i THEN f[s] ELSE f[s + count]
    BY <1>6, <2>1, Zenon
  <2> QED BY <1>3, <2>1, <2>2, Zenon
<1>10. puts' \in Seq(Nodes) /\ Paid(puts', f, g, c)
  <2>1. IsFiniteSet(DOMAIN u)
    BY <1>4, <1>7, FS_Interval, SMT
  <2>2. ASSUME NEW s \in DOMAIN u PROVE u[s] \in Nodes \cup {Null}
    <3>1. s \in 1 .. count /\ i + s - 1 \in 0 .. l - 1
      <4>1. s \in 1 .. count
        BY <1>7, Zenon
      <4>2. i + count <= l
        BY <1>6, Zenon
      <4> HIDE DEF f, g, u
      <4> QED BY <1>4, <4>1, <4>2, SMT
    <3>2. u[s] = f[i + s - 1]
      BY <3>1, Zenon
    <3> QED BY <1>2, <1>3, <3>1, <3>2, Zenon
  <2>3. ASSUME NEW n PROVE Num(u, n) \in Nat /\ Num(g, n) \in Nat /\ Num(f, n) = Num(u, n) + Num(g, n)
    <3>1. u = [j \in 1 .. count |-> f[i + j - 1]]
      OBVIOUS
    <3> HIDE DEF u, g, f
    <3>2. Cut(f, l, i, count, g, u)
      BY <1>3, <1>4, <1>6, <3>1, Zenon DEF Cut
    <3> QED BY <3>2, CutHits, SMT
  <2> HIDE DEF u, g, f
  <2>4. Tree!Putting(u) \in Seq(Nodes) /\ \A n : n # Null => Num(Tree!Putting(u), n) = Num(u, n)
    BY <2>1, <2>2, PuttingHits, Zenon
  <2>5. puts' \in Seq(Nodes) /\ \A n : n # Null => Num(puts', n) = Num(u, n)
    BY <1>1, <2>4
  <2>6. ASSUME NEW n \in Nodes PROVE Num(puts', n) + Num(g, n) = Num(f, n) + One(n = c)
    <3>1. n # Null
      BY TreeConstants
    <3>2. One(n = c) = 0
      BY <3>1 DEF One
    <3>3. Num(puts', n) = Num(u, n)
      BY <2>5, <3>1, Zenon
    <3>4. \A a, b \in Nat : a + b + 0 = a + b
      BY SMT
    <3>5. Num(u, n) + Num(g, n) + 0 = Num(u, n) + Num(g, n)
      BY <2>3, <3>4, Zenon
    <3> QED BY <2>3, <3>2, <3>3, <3>5
  <2> QED BY <2>5, <2>6, Zenon DEF Paid
<1>11. /\ c \in Nodes \cup {Null}
       /\ c # Null => c \in Tree!Owned /\ p \notin ReachIn(slots, {c})
       /\ held' = Tree!Given(c)
  BY <1>1 DEF Tree!Given
<1> HIDE DEF c, g, u
<1> QED BY <1>1, <1>8, <1>9, <1>10, <1>11, ChangeKeepsTree, Zenon

-----------------------------------------------------------------------------
(* The other calls.                                                        *)

\* The parts of the invariant that a step needs.
LEMMA TreeParts ==
    ASSUME Tree!TreeAssumption, TreeInv
    PROVE  /\ TreeTyped /\ Slotted(slots) /\ Shaped(kind, slots) /\ Acyclic(slots)
           /\ Exact(kind, ref, held, puts, Dsts, slots) /\ Kept(kind, held, puts, Dsts, slots)
           /\ held \in [Nodes -> 0 .. MaxHeld] /\ puts \in Seq(Nodes) /\ Dsts \in Seq(Nodes)
           /\ RootsExist(kind, held, puts, Dsts) /\ EdgesExist(kind, slots)
           /\ Uncounted(kind, held, puts, Dsts, slots) /\ (puts = <<>> \/ copy = <<>>)
<1>1. /\ TreeTyped /\ Slotted(slots) /\ Shaped(kind, slots) /\ Acyclic(slots)
      /\ Exact(kind, ref, held, puts, Dsts, slots) /\ Kept(kind, held, puts, Dsts, slots)
      /\ held \in [Nodes -> 0 .. MaxHeld] /\ puts \in Seq(Nodes) /\ (puts = <<>> \/ copy = <<>>)
  BY Zenon DEF TreeInv, TreeTyped
<1>2. Dsts \in Seq(Nodes)
  BY KnownExists, Zenon
<1>3. /\ RootsExist(kind, held, puts, Dsts) /\ EdgesExist(kind, slots)
      /\ Uncounted(kind, held, puts, Dsts, slots)
  BY <1>1, <1>2, CountedExists, Zenon
<1> QED BY <1>1, <1>2, <1>3, Zenon

\* Without a copy there are no levels.
LEMMA NoLevels == \A x : (x = <<>> => DOMAIN x = {}) /\ (x = <<>> => \A i \in DOMAIN x : FALSE)
OBVIOUS

\* Roots stay roots.
StillRoots(h, q, d, h2, q2, d2) ==
    \A n \in Nodes : (h[n] > 0 \/ Num(q, n) > 0 \/ Num(d, n) > 0)
                       => (h2[n] > 0 \/ Num(q2, n) > 0 \/ Num(d2, n) > 0)

\* More roots and the same slots keep everything that was kept.
LEMMA MoreRoots ==
    ASSUME NEW k, NEW h, NEW q, NEW d, NEW h2, NEW q2, NEW d2, NEW sl, Slotted(sl), Kept(k, h, q, d, sl),
           StillRoots(h, q, d, h2, q2, d2)
    PROVE  Kept(k, h2, q2, d2, sl)
<1>1. Roots(h, q, d) \in SUBSET Nodes /\ Roots(h, q, d) \subseteq Roots(h2, q2, d2) /\ Roots(h2, q2, d2) \in SUBSET Nodes
  BY Zenon DEF Roots, StillRoots
<1> DEFINE S == Roots(h, q, d)
           T == Roots(h2, q2, d2)
<1> HIDE DEF S, T
<1>2. S \in SUBSET Nodes /\ T \in SUBSET Nodes /\ S \subseteq T
  BY <1>1, Zenon DEF S, T
<1>3. T \subseteq ReachIn(sl, T) /\ ReachIn(sl, T) \in SUBSET Nodes /\ ClosedIn(sl, ReachIn(sl, T))
  BY <1>2, ReachFacts, Zenon
<1>4. \A n \in S : n \in ReachIn(sl, T)
  BY <1>2, <1>3, Zenon
<1>5. \A p \in ReachIn(sl, T) : \A m : Edge(sl, p, m) => m \in ReachIn(sl, T)
  BY <1>3, Zenon DEF ClosedIn
<1>6. \A n \in ReachIn(sl, S) : n \in ReachIn(sl, T)
  BY <1>2, <1>3, <1>4, <1>5, ReachStays, Zenon
<1> QED BY <1>6, Zenon DEF Kept, S, T

\* json_object_get.
LEMMA GetKeepsTree ==
    ASSUME Tree!TreeAssumption, TreeInv, NEW n \in Nodes, Tree!Get(n)
    PROVE  TreeInv'
<1>1. /\ Tree!Quiet /\ n \in Tree!Known /\ held[n] < MaxHeld
      /\ ref' = [ref EXCEPT ![n] = ref[n] + 1] /\ held' = [held EXCEPT ![n] = held[n] + 1]
      /\ done' = <<>> /\ UNCHANGED <<kind, leaf, slots, data, puts, copy>>
  BY Zenon DEF Tree!Get
<1>2. /\ TreeTyped /\ Slotted(slots) /\ Exact(kind, ref, held, puts, Dsts, slots)
      /\ Kept(kind, held, puts, Dsts, slots) /\ held \in [Nodes -> 0 .. MaxHeld]
      /\ puts \in Seq(Nodes) /\ Dsts \in Seq(Nodes)
  BY TreeParts
<1>3. kind[n] # "free" /\ MaxHeld \in Nat /\ Dsts' = Dsts /\ copy' = <<>>
  BY <1>1, KnownExists, TreeConstants, Zenon DEF Dsts, Tree!Quiet
<1>4. ref \in [Nodes -> Nat]
  BY <1>2 DEF TreeTyped
<1>5. held' \in [Nodes -> 0 .. MaxHeld] /\ ref' \in [Nodes -> Nat]
  BY <1>1, <1>2, <1>3, <1>4, SMT
<1>6. TreeTyped'
  BY <1>1, <1>2, <1>5, Zenon DEF TreeTyped
<1>7. Exact(kind, ref', held', puts, Dsts, slots)
  <2> SUFFICES ASSUME NEW m \in Nodes
               PROVE  ref'[m] = Count(held', puts, Dsts, slots, m) /\ (ref'[m] = 0 <=> kind[m] = "free")
    BY Zenon DEF Exact
  <2>1. ref[m] = Count(held, puts, Dsts, slots, m) /\ (ref[m] = 0 <=> kind[m] = "free")
    BY <1>2, Zenon DEF Exact
  <2>2. CASE m # n
    <3>1. ref'[m] = ref[m] /\ held'[m] = held[m]
      BY <1>1, <1>2, <1>4, <2>2
    <3> QED BY <2>1, <3>1, Zenon DEF Count
  <2>3. CASE m = n
    <3>1. ref'[m] = ref[m] + 1 /\ held'[m] = held[m] + 1 /\ ref[m] \in Nat
      BY <1>1, <1>2, <1>4, <2>3
    <3>2. /\ held[m] \in Nat /\ Num(puts, m) \in Nat /\ Num(Dsts, m) \in Nat
          /\ Cardinality(Holders(slots, m)) \in Nat
      BY <1>2, CountTyped, Zenon
    <3>3. ref[m] = held[m] + Num(puts, m) + Num(Dsts, m) + Cardinality(Holders(slots, m))
      BY <2>1, Zenon DEF Count
    <3>4. ref'[m] = held'[m] + Num(puts, m) + Num(Dsts, m) + Cardinality(Holders(slots, m)) /\ ref'[m] # 0
      BY <3>1, <3>2, <3>3, SMT
    <3> QED BY <1>3, <2>3, <3>4, Zenon DEF Count
  <2> QED BY <2>2, <2>3
<1>8. Kept(kind, held', puts, Dsts, slots)
  <2>1. ASSUME NEW m \in Nodes, held[m] > 0 PROVE held'[m] > 0
    BY <1>1, <1>2, <1>3, <2>1, SMT
  <2>2. StillRoots(held, puts, Dsts, held', puts, Dsts)
    BY <2>1, Zenon DEF StillRoots
  <2> QED BY <1>2, <2>2, MoreRoots, Zenon
<1>9. Levels'
  BY <1>3, NoLevels, Zenon DEF Levels, Apart
<1> QED BY <1>1, <1>3, <1>6, <1>7, <1>8, <1>9, Zenon DEF TreeInv

\* What leaves the references alone.
LEMMA CalmKeepsTree ==
    ASSUME Tree!TreeAssumption, TreeInv, UNCHANGED <<kind, slots, ref, held, puts, copy>>,
           leaf' \in [Nodes -> {0, 1}], data' \in [Nodes -> {"none", "known", "own"}],
           done' \in {<<>>} \cup (Nodes \X Nodes)
    PROVE  TreeInv'
<1>1. Dsts' = Dsts
  BY Zenon DEF Dsts
<1>2. TreeTyped'
  BY Zenon DEF TreeInv, TreeTyped
<1>3. Levels'
  BY Zenon DEF TreeInv, Levels, Level
<1> QED BY <1>1, <1>2, <1>3, Zenon DEF TreeInv

\* json_object_set_userdata and the setters of leaves.
LEMMA SettersKeepTree ==
    ASSUME Tree!TreeAssumption, TreeInv, NEW n \in Nodes, Tree!SetUserdata(n) \/ Tree!SetLeaf(n)
    PROVE  TreeInv'
<1>1. leaf \in [Nodes -> {0, 1}] /\ data \in [Nodes -> {"none", "known", "own"}]
  BY Zenon DEF TreeInv, TreeTyped
<1>2. CASE Tree!SetUserdata(n)
  <2>1. /\ data' = [data EXCEPT ![n] = "own"] /\ done' = <<>>
        /\ UNCHANGED <<kind, leaf, slots, ref, held, puts, copy>>
    BY <1>2, Zenon DEF Tree!SetUserdata
  <2>2. data' \in [Nodes -> {"none", "known", "own"}]
    BY <1>1, <2>1
  <2> QED BY <1>1, <2>1, <2>2, CalmKeepsTree, Zenon
<1>3. CASE Tree!SetLeaf(n)
  <2>1. /\ leaf' = [leaf EXCEPT ![n] = 1 - leaf[n]]
        /\ data' = [data EXCEPT ![n] = IF data[n] = "known" THEN "none" ELSE data[n]] /\ done' = <<>>
        /\ UNCHANGED <<kind, slots, ref, held, puts, copy>>
    BY <1>3, Zenon DEF Tree!SetLeaf
  <2>2. data' \in [Nodes -> {"none", "known", "own"}]
    BY <1>1, <2>1
  <2>3. leaf' \in [Nodes -> {0, 1}]
    <3>1. leaf[n] \in {0, 1}
      BY <1>1
    <3>2. 1 - leaf[n] \in {0, 1}
      BY <3>1, SMT
    <3> QED BY <1>1, <2>1, <3>2
  <2> QED BY <1>1, <2>1, <2>2, <2>3, CalmKeepsTree, Zenon
<1> QED BY <1>2, <1>3

\* One reference more to n, the application's or a copy's.
NewRef(h, d, h2, d2, n) ==
    \A m \in Nodes : \/ h2[m] = h[m] + One(m = n) /\ Num(d2, m) = Num(d, m)
                     \/ h2[m] = h[m] /\ Num(d2, m) = Num(d, m) + One(m = n)

\* A new json_object takes a free place; a reference of the application's or of
\* a copy comes with it.
LEMMA CreateHangs ==
    ASSUME Tree!TreeAssumption, TreeInv, NEW n \in Nodes, NEW kd \in {"object", "array", "leaf"}, NEW v \in {0, 1},
           NEW ser \in {"none", "known"}, Tree!Create(n, kd, v, ser),
           NEW h2 \in [Nodes -> 0 .. MaxHeld], NEW d2 \in Seq(Nodes),
           NewRef(held, Dsts, h2, d2, n)
    PROVE  /\ Exact(kind', ref', h2, puts, d2, slots') /\ Acyclic(slots') /\ Kept(kind', h2, puts, d2, slots')
           /\ Slotted(slots') /\ Shaped(kind', slots') /\ Edited(slots, slots', n)
           /\ kind' \in [Nodes -> {"free", "object", "array", "leaf"}] /\ ref' \in [Nodes -> Nat]
           /\ leaf' \in [Nodes -> {0, 1}] /\ data' \in [Nodes -> {"none", "known", "own"}]
           /\ kind[n] = "free" /\ DOMAIN slots[n] = {} /\ DOMAIN slots'[n] = {} /\ kind'[n] = kd
           /\ \A m \in Nodes : m # n => kind'[m] = kind[m] /\ slots'[m] = slots[m]
           /\ \A m \in Nodes : Cardinality(Holders(slots', m)) = Cardinality(Holders(slots, m))
<1>0. \A m \in Nodes : \/ h2[m] = held[m] + One(m = n) /\ Num(d2, m) = Num(Dsts, m)
                       \/ h2[m] = held[m] /\ Num(d2, m) = Num(Dsts, m) + One(m = n)
  BY Zenon DEF NewRef
<1>1. /\ kind[n] = "free" /\ kind' = [kind EXCEPT ![n] = kd] /\ leaf' = [leaf EXCEPT ![n] = v]
      /\ slots' = [slots EXCEPT ![n] = <<>>] /\ ref' = [ref EXCEPT ![n] = 1] /\ data' = [data EXCEPT ![n] = ser]
  BY Zenon DEF Tree!Create
<1>2. /\ TreeTyped /\ Slotted(slots) /\ Shaped(kind, slots) /\ Acyclic(slots)
      /\ Exact(kind, ref, held, puts, Dsts, slots) /\ Kept(kind, held, puts, Dsts, slots)
      /\ held \in [Nodes -> 0 .. MaxHeld] /\ puts \in Seq(Nodes) /\ Dsts \in Seq(Nodes)
      /\ Uncounted(kind, held, puts, Dsts, slots)
  BY TreeParts
<1>3. /\ kind \in [Nodes -> {"free", "object", "array", "leaf"}] /\ ref \in [Nodes -> Nat]
      /\ leaf \in [Nodes -> {0, 1}] /\ data \in [Nodes -> {"none", "known", "own"}]
  BY <1>2, Zenon DEF TreeTyped
<1>4. /\ kind' \in [Nodes -> {"free", "object", "array", "leaf"}] /\ ref' \in [Nodes -> Nat]
      /\ leaf' \in [Nodes -> {0, 1}] /\ data' \in [Nodes -> {"none", "known", "own"}]
      /\ kind'[n] = kd /\ ref'[n] = 1
      /\ \A m \in Nodes : m # n => kind'[m] = kind[m] /\ ref'[m] = ref[m]
  BY <1>1, <1>3
<1>5. DOMAIN slots[n] = {}
  BY <1>1, <1>2 DEF Shaped, Shape
<1>6. DOMAIN slots = Nodes
  BY <1>2, Zenon DEF Slotted
<1>7. slots'[n] = <<>> /\ DOMAIN slots'[n] = {} /\ DOMAIN slots' = Nodes
      /\ \A m \in Nodes : m # n => slots'[m] = slots[m]
  BY <1>1, <1>6
<1>8. {} \in Shape(kd)
  <2>1. CASE kd = "array"
    <3>1. 0 \in 0 .. MaxLength /\ 0 .. 0 - 1 = {}
      BY TreeConstants, SMT
    <3> QED BY <2>1, <3>1 DEF Shape
  <2>2. CASE kd # "array"
    BY <2>2 DEF Shape
  <2> QED BY <2>1, <2>2
<1>9. Slotted(slots') /\ Shaped(kind', slots')
  <2>1. ASSUME NEW m \in Nodes
        PROVE  /\ DOMAIN slots'[m] \subseteq SlotNames
               /\ \A s \in DOMAIN slots'[m] : slots'[m][s] \in Nodes \cup {Null}
               /\ DOMAIN slots'[m] \in Shape(kind'[m])
    <3>1. CASE m = n
      BY <1>4, <1>7, <1>8, <3>1
    <3>2. CASE m # n
      <4>1. slots'[m] = slots[m] /\ kind'[m] = kind[m]
        BY <1>4, <1>7, <3>2
      <4> QED BY <1>2, <4>1, Zenon DEF Slotted, Shaped
    <3> QED BY <3>1, <3>2
  <2> QED BY <1>7, <2>1, Zenon DEF Slotted, Shaped
<1>10. Edited(slots, slots', n)
  BY <1>2, <1>7, <1>9, Zenon DEF Edited
<1>11. ASSUME NEW m \in Nodes
       PROVE  Cardinality(Holders(slots', m)) = Cardinality(Holders(slots, m))
              /\ Cardinality(Holders(slots, m)) \in Nat
  <2>1. \A f : DOMAIN f = {} => Num(f, m) = 0
    <3>1. \A f : DOMAIN f = {} => Hits(f, m) = {}
      BY Zenon DEF Hits
    <3> QED BY <3>1, FS_EmptySet, Zenon DEF Num
  <2>2. Num(slots[n], m) = 0 /\ Num(slots'[n], m) = 0
    BY <1>5, <1>7, <2>1, Zenon
  <2>3. /\ Cardinality(Holders(slots, m)) \in Nat /\ Cardinality(Holders(slots', m)) \in Nat
        /\ Num(slots[n], m) \in Nat /\ Num(slots'[n], m) \in Nat
        /\ Cardinality(Holders(slots', m)) + Num(slots[n], m) = Cardinality(Holders(slots, m)) + Num(slots'[n], m)
    BY <1>10, HoldersChanged, SMT
  <2> HIDE DEF Num, Holders
  <2> QED BY <2>2, <2>3, SMT
<1>12. \A m : Edge(slots', n, m) => FALSE
  BY <1>7, Zenon DEF Edge
<1>13. ASSUME NEW p \in Nodes, NEW m PROVE Edge(slots', p, m) <=> Edge(slots, p, m)
  <2>1. CASE p = n
    BY <1>5, <1>7, <2>1, Zenon DEF Edge
  <2>2. CASE p # n
    BY <1>7, <2>2, Zenon DEF Edge
  <2> QED BY <2>1, <2>2
<1>14. Acyclic(slots')
  BY <1>2, <1>9, <1>13, FewerEdges, Zenon
<1>15. Exact(kind', ref', h2, puts, d2, slots')
  <2> SUFFICES ASSUME NEW m \in Nodes
               PROVE  ref'[m] = Count(h2, puts, d2, slots', m) /\ (ref'[m] = 0 <=> kind'[m] = "free")
    BY Zenon DEF Exact
  <2>1. ref[m] = Count(held, puts, Dsts, slots, m) /\ (ref[m] = 0 <=> kind[m] = "free")
    BY <1>2, Zenon DEF Exact
  <2>2. held[m] \in Nat /\ Num(puts, m) \in Nat /\ Num(Dsts, m) \in Nat
    BY <1>2, CountTyped, Zenon
  <2>3. Count(h2, puts, d2, slots', m) = h2[m] + Num(puts, m) + Num(d2, m) + Cardinality(Holders(slots, m))
    BY <1>11, Zenon DEF Count
  <2>4. CASE m # n
    <3>1. One(m = n) = 0
      BY <2>4 DEF One
    <3>2. h2[m] = held[m] /\ Num(d2, m) = Num(Dsts, m)
      <4>1. \/ h2[m] = held[m] + 0 /\ Num(d2, m) = Num(Dsts, m)
            \/ h2[m] = held[m] /\ Num(d2, m) = Num(Dsts, m) + 0
        BY <1>0, <3>1, Zenon
      <4> QED BY <2>2, <4>1, SMT
    <3>3. ref'[m] = ref[m] /\ kind'[m] = kind[m]
      BY <1>4, <2>4
    <3> QED BY <2>1, <2>3, <3>2, <3>3, Zenon DEF Count
  <2>5. CASE m = n
    <3>1. One(m = n) = 1
      BY <2>5 DEF One
    <3>2. \/ h2[m] = held[m] + 1 /\ Num(d2, m) = Num(Dsts, m)
          \/ h2[m] = held[m] /\ Num(d2, m) = Num(Dsts, m) + 1
      BY <1>0, <3>1, Zenon
    <3>3. held[m] = 0 /\ Num(puts, m) = 0 /\ Num(Dsts, m) = 0 /\ Cardinality(Holders(slots, m)) = 0
      BY <1>1, <1>2, <2>5, Zenon DEF Uncounted
    <3>4. h2[m] + Num(puts, m) + Num(d2, m) + Cardinality(Holders(slots, m)) = 1
      BY <3>2, <3>3, SMT
    <3> QED BY <1>4, <2>3, <2>5, <3>4
  <2> QED BY <2>4, <2>5
<1>16. Kept(kind', h2, puts, d2, slots')
  <2> DEFINE R == ReachIn(slots', Roots(h2, puts, d2))
  <2>1. /\ R \in SUBSET Nodes /\ Roots(h2, puts, d2) \in SUBSET Nodes
        /\ \A m \in Nodes : h2[m] > 0 \/ Num(puts, m) > 0 \/ Num(d2, m) > 0 => m \in R
        /\ \A p \in R : \A m : Edge(slots', p, m) => m \in R
    BY <1>9, RootsReach, Zenon
  <2> HIDE DEF R
  <2>2. ASSUME NEW m \in Nodes, held[m] > 0 \/ Num(puts, m) > 0 \/ Num(Dsts, m) > 0 \/ m = n
        PROVE  m \in R
    <3>1. held[m] \in Nat /\ Num(puts, m) \in Nat /\ Num(Dsts, m) \in Nat
      BY <1>2, CountTyped, Zenon
    <3>2. One(m = n) \in Nat /\ (m = n => One(m = n) = 1)
      BY DEF One
    <3>3. \A a \in Nat, b \in Nat : (a > 0 => a + b > 0) /\ (b = 1 => a + b > 0)
      BY SMT
    <3>4. h2[m] > 0 \/ Num(puts, m) > 0 \/ Num(d2, m) > 0
      <4>1. /\ held[m] > 0 => held[m] + One(m = n) > 0
            /\ Num(Dsts, m) > 0 => Num(Dsts, m) + One(m = n) > 0
            /\ m = n => held[m] + One(m = n) > 0 /\ Num(Dsts, m) + One(m = n) > 0
        BY <3>1, <3>2, <3>3, Zenon
      <4>2. CASE h2[m] = held[m] + One(m = n) /\ Num(d2, m) = Num(Dsts, m)
        BY <2>2, <4>1, <4>2
      <4>3. CASE h2[m] = held[m] /\ Num(d2, m) = Num(Dsts, m) + One(m = n)
        BY <2>2, <4>1, <4>3
      <4> QED BY <1>0, <4>2, <4>3, Zenon
    <3> QED BY <2>1, <3>4, Zenon
  <2>3. \A m \in Roots(held, puts, Dsts) : m \in R
    BY <2>2, Zenon DEF Roots
  <2>4. \A p \in R : \A m : Edge(slots, p, m) => m \in R
    BY <1>13, <2>1, Zenon
  <2>5. Roots(held, puts, Dsts) \in SUBSET Nodes
    BY Zenon DEF Roots
  <2>6. \A m \in ReachIn(slots, Roots(held, puts, Dsts)) : m \in R
    BY <1>2, <2>1, <2>3, <2>4, <2>5, ReachStays, Zenon
  <2>7. ASSUME NEW m \in Nodes, kind'[m] # "free" PROVE m \in R
    <3>1. CASE m = n
      BY <2>2, <3>1, Zenon
    <3>2. CASE m # n
      <4>1. kind[m] # "free"
        BY <1>4, <2>7, <3>2
      <4> QED BY <1>2, <2>6, <4>1, Zenon DEF Kept
    <3> QED BY <3>1, <3>2
  <2> QED BY <2>7, Zenon DEF Kept, R
<1> QED BY <1>1, <1>4, <1>5, <1>7, <1>9, <1>10, <1>11, <1>14, <1>15, <1>16, Zenon

\* json_object_new and the others.
LEMMA NewKeepsTree ==
    ASSUME Tree!TreeAssumption, TreeInv, NEW n \in Nodes, Tree!New(n)
    PROVE  TreeInv'
<1>1. /\ Tree!Quiet /\ held' = [held EXCEPT ![n] = 1] /\ done' = <<>> /\ UNCHANGED <<puts, copy>>
      /\ \/ \E k \in {"object", "array"} : Tree!Create(n, k, 0, "none")
         \/ \E v \in {0, 1} : Tree!Create(n, "leaf", v, "none")
         \/ Tree!MoreData /\ Tree!Create(n, "leaf", 0, "known")
  BY Zenon DEF Tree!New
<1>2. PICK kd \in {"object", "array", "leaf"}, v \in {0, 1}, ser \in {"none", "known"} : Tree!Create(n, kd, v, ser)
  <2>1. ASSUME NEW k \in {"object", "array"}, Tree!Create(n, k, 0, "none")
        PROVE  \E kd \in {"object", "array", "leaf"}, v \in {0, 1}, ser \in {"none", "known"} :
                 Tree!Create(n, kd, v, ser)
    <3>1. k \in {"object", "array", "leaf"} /\ 0 \in {0, 1} /\ "none" \in {"none", "known"}
      OBVIOUS
    <3> QED BY <2>1, <3>1, Zenon
  <2>2. ASSUME NEW v \in {0, 1}, Tree!Create(n, "leaf", v, "none")
        PROVE  \E kd \in {"object", "array", "leaf"}, w \in {0, 1}, ser \in {"none", "known"} :
                 Tree!Create(n, kd, w, ser)
    <3>1. "leaf" \in {"object", "array", "leaf"} /\ "none" \in {"none", "known"}
      OBVIOUS
    <3> QED BY <2>2, <3>1, Zenon
  <2>3. ASSUME Tree!Create(n, "leaf", 0, "known")
        PROVE  \E kd \in {"object", "array", "leaf"}, w \in {0, 1}, ser \in {"none", "known"} :
                 Tree!Create(n, kd, w, ser)
    <3>1. "leaf" \in {"object", "array", "leaf"} /\ "known" \in {"none", "known"} /\ 0 \in {0, 1}
      OBVIOUS
    <3> QED BY <2>3, <3>1, Zenon
  <2> QED BY <1>1, <2>1, <2>2, <2>3, Zenon
<1>3. /\ held \in [Nodes -> 0 .. MaxHeld] /\ puts \in Seq(Nodes) /\ Dsts \in Seq(Nodes) /\ puts' = puts
      /\ copy' = <<>> /\ Uncounted(kind, held, puts, Dsts, slots) /\ copy' = copy
  BY <1>1, TreeParts, Zenon DEF Tree!Quiet
<1>4. Dsts' = Dsts
  BY <1>3, Zenon DEF Dsts
<1>5. held[n] = 0
  <2>1. kind[n] = "free"
    BY <1>2, Zenon DEF Tree!Create
  <2> QED BY <1>3, <2>1, Zenon DEF Uncounted
<1>6. /\ held' \in [Nodes -> 0 .. MaxHeld]
      /\ \A m \in Nodes : held'[m] = held[m] + One(m = n) /\ Num(Dsts, m) = Num(Dsts, m)
  <2>1. MaxHeld \in Nat /\ MaxHeld >= 1
    BY TreeConstants
  <2>2. held' \in [Nodes -> 0 .. MaxHeld]
    BY <1>1, <1>3, <2>1, SMT
  <2>3. \A m \in Nodes : held'[m] = held[m] + (IF m = n THEN 1 ELSE 0)
    BY <1>1, <1>3, <1>5, <2>1, SMT
  <2> QED BY <2>2, <2>3, Zenon DEF One
<1>7. /\ Exact(kind', ref', held', puts, Dsts, slots') /\ Acyclic(slots') /\ Kept(kind', held', puts, Dsts, slots')
      /\ Slotted(slots') /\ Shaped(kind', slots')
      /\ kind' \in [Nodes -> {"free", "object", "array", "leaf"}] /\ ref' \in [Nodes -> Nat]
      /\ leaf' \in [Nodes -> {0, 1}] /\ data' \in [Nodes -> {"none", "known", "own"}]
  <2>1. NewRef(held, Dsts, held', Dsts, n)
    BY <1>6, Zenon DEF NewRef
  <2> QED BY <1>2, <1>3, <1>6, <2>1, CreateHangs, Zenon
<1>8. copy' \in Seq(FrameType) /\ puts' \in Seq(Nodes) /\ done' \in {<<>>} \cup (Nodes \X Nodes)
  BY <1>1, <1>3, Zenon DEF TreeInv, TreeTyped
<1>9. TreeTyped'
  BY <1>6, <1>7, <1>8, Zenon DEF TreeTyped
<1>10. Levels'
  BY <1>3, NoLevels, Zenon DEF Levels, Apart
<1>11. Exact(kind, ref, held, puts, Dsts, slots)' /\ Acyclic(slots)' /\ Kept(kind, held, puts, Dsts, slots)'
  BY <1>3, <1>4, <1>7, Zenon
<1> QED BY <1>3, <1>9, <1>10, <1>11, Zenon DEF TreeInv

\* The application calls json_object_put.
LEMMA PutKeepsTree ==
    ASSUME Tree!TreeAssumption, TreeInv, NEW n \in Nodes, Tree!Put(n)
    PROVE  TreeInv'
<1>1. /\ Tree!Quiet /\ n \in Tree!Owned /\ puts' = <<n>> /\ held' = [held EXCEPT ![n] = held[n] - 1]
      /\ done' = <<>> /\ UNCHANGED <<kind, leaf, slots, ref, data, copy>>
  BY Zenon DEF Tree!Put
<1>2. /\ TreeTyped /\ Slotted(slots) /\ Exact(kind, ref, held, puts, Dsts, slots) /\ Acyclic(slots)
      /\ Kept(kind, held, puts, Dsts, slots) /\ held \in [Nodes -> 0 .. MaxHeld]
      /\ puts \in Seq(Nodes) /\ Dsts \in Seq(Nodes) /\ puts = <<>>
  BY <1>1, TreeParts, Zenon DEF Tree!Quiet
<1>3. held[n] > 0 /\ MaxHeld \in Nat /\ Dsts' = Dsts /\ copy' = <<>>
  BY <1>1, KnownExists, TreeConstants, Zenon DEF Dsts, Tree!Quiet
<1>4. held' \in [Nodes -> 0 .. MaxHeld] /\ puts' \in Seq(Nodes)
  BY <1>1, <1>2, <1>3, SMT
<1>5. TreeTyped'
  BY <1>1, <1>2, <1>4, Zenon DEF TreeTyped
<1>6. ASSUME NEW m \in Nodes
      PROVE  /\ held'[m] + Num(puts', m) = held[m] /\ Num(puts, m) = 0
             /\ held'[m] \in Nat /\ held[m] \in Nat /\ Num(puts', m) \in Nat
             /\ held[m] > 0 => held'[m] > 0 \/ Num(puts', m) > 0
  <2>1. Num(puts', m) = One(n = m) /\ Num(puts, m) = 0
    BY <1>1, <1>2, NumSingle, NumEmpty, Zenon
  <2>2. One(n = m) = IF m = n THEN 1 ELSE 0
    BY DEF One
  <2>3. held'[m] = held[m] - (IF m = n THEN 1 ELSE 0) /\ held'[m] \in Nat /\ held[m] \in Nat
    BY <1>1, <1>2, <1>3, <1>4, SMT
  <2> HIDE DEF Num, One
  <2>4. Num(puts', m) = IF m = n THEN 1 ELSE 0
    BY <2>1, <2>2, Zenon
  <2> QED BY <2>1, <2>3, <2>4, SMT
<1>7. Exact(kind, ref, held', puts', Dsts, slots)
  <2> SUFFICES ASSUME NEW m \in Nodes PROVE Count(held', puts', Dsts, slots, m) = Count(held, puts, Dsts, slots, m)
    BY <1>2, Zenon DEF Exact
  <2>1. Num(Dsts, m) \in Nat /\ Cardinality(Holders(slots, m)) \in Nat
    BY <1>2, CountTyped, Zenon
  <2>2. /\ held'[m] + Num(puts', m) = held[m] /\ Num(puts, m) = 0
        /\ held'[m] \in Nat /\ held[m] \in Nat /\ Num(puts', m) \in Nat
    BY <1>6
  <2>3. \A a, b, c, d, e \in Nat : a + b = c => a + b + d + e = c + 0 + d + e
    BY SMT
  <2>4. held'[m] + Num(puts', m) + Num(Dsts, m) + Cardinality(Holders(slots, m))
          = held[m] + 0 + Num(Dsts, m) + Cardinality(Holders(slots, m))
    BY <2>1, <2>2, <2>3, SMT
  <2> QED BY <2>2, <2>4, Zenon DEF Count
<1>8. Kept(kind, held', puts', Dsts, slots)
  <2>1. \A m \in Nodes : (held[m] > 0 \/ Num(puts, m) > 0 \/ Num(Dsts, m) > 0)
                           => (held'[m] > 0 \/ Num(puts', m) > 0 \/ Num(Dsts, m) > 0)
    <3>1. ~ (0 > 0)
      BY SMT
    <3> QED BY <1>6, <3>1, Zenon
  <2>2. StillRoots(held, puts, Dsts, held', puts', Dsts)
    BY <2>1, Zenon DEF StillRoots
  <2> QED BY <1>2, <2>2, MoreRoots, Zenon
<1>9. Levels'
  BY <1>3, NoLevels, Zenon DEF Levels, Apart
<1>10. Exact(kind, ref, held, puts, Dsts, slots)' /\ Acyclic(slots)' /\ Kept(kind, held, puts, Dsts, slots)'
  BY <1>1, <1>2, <1>3, <1>7, <1>8, Zenon
<1> QED BY <1>3, <1>5, <1>9, <1>10, Zenon DEF TreeInv

\* The puts q begin with n, and r is the rest.
HeadPut(q, n, r) == \A m \in Nodes : Num(q, m) = One(n = m) + Num(r, m)

\* What one reference less is to a json_object that has others.
Fewer(r, r2, n) == r2 = [r EXCEPT ![n] = r[n] - 1]

\* All but the reference counts, when n is freed and its values are put.
Freed(n, q) ==
    /\ ref' = [ref EXCEPT ![n] = 0] /\ data' = [data EXCEPT ![n] = "none"]
    /\ puts' = Tree!Putting(slots[n]) \o q /\ kind' = [kind EXCEPT ![n] = "free"]
    /\ leaf' = [leaf EXCEPT ![n] = 0] /\ slots' = [slots EXCEPT ![n] = <<>>]
    /\ UNCHANGED <<held, copy, done>>

\* What is counted when a json_object with one reference is put.
OneRef(r, h, q, q2, d, a, b, x) ==
    /\ h \in Nat /\ q \in Nat /\ q2 \in Nat /\ d \in Nat /\ a \in Nat /\ b \in Nat /\ x \in Nat
    /\ b + x = a /\ q = 1 + q2 /\ r = h + q + d + a /\ ~ (r > 1)

\* Nothing else is counted.
LEMMA LastPut ==
    ASSUME NEW r, NEW h, NEW q, NEW q2, NEW d, NEW a, NEW b, NEW x, OneRef(r, h, q, q2, d, a, b, x)
    PROVE  h = 0 /\ q2 = 0 /\ d = 0 /\ b = 0 /\ x = 0
BY SMT DEF OneRef

\* A put less is a reference less.
LEMMA OnePut ==
    ASSUME NEW r, NEW h \in Nat, NEW q \in Nat, NEW q2 \in Nat, NEW d \in Nat, NEW a \in Nat,
           q = 1 + q2, r = h + q + d + a
    PROVE  r - 1 = h + q2 + d + a
BY SMT

\* The body of json_object_put, when other references are left: what another
\* slot holds is reached from there, as it does not reach itself.
LEMMA ReleaseKeepsTree ==
    ASSUME Tree!TreeAssumption, TreeInv, NEW n \in Nodes, NEW q \in Seq(Nodes), ref[n] > 1,
           HeadPut(puts, n, q), Fewer(ref, ref', n)
    PROVE  /\ Exact(kind, ref', held, q, Dsts, slots) /\ Kept(kind, held, q, Dsts, slots)
           /\ ref' \in [Nodes -> Nat]
<1>1. /\ TreeTyped /\ Slotted(slots) /\ Exact(kind, ref, held, puts, Dsts, slots) /\ Acyclic(slots)
      /\ Kept(kind, held, puts, Dsts, slots) /\ held \in [Nodes -> 0 .. MaxHeld]
      /\ puts \in Seq(Nodes) /\ Dsts \in Seq(Nodes) /\ EdgesExist(kind, slots)
  BY TreeParts
<1>2. ref \in [Nodes -> Nat]
  BY <1>1, Zenon DEF TreeTyped
<1>3. /\ ref' \in [Nodes -> Nat] /\ ref'[n] = ref[n] - 1 /\ ref'[n] > 0
      /\ \A m \in Nodes : m # n => ref'[m] = ref[m]
  BY <1>2, SMT DEF Fewer
<1>4. ASSUME NEW m \in Nodes
      PROVE  /\ held[m] \in Nat /\ Num(puts, m) \in Nat /\ Num(q, m) \in Nat /\ Num(Dsts, m) \in Nat
             /\ Cardinality(Holders(slots, m)) \in Nat
             /\ Num(puts, m) = (IF m = n THEN 1 ELSE 0) + Num(q, m)
             /\ ref[m] = held[m] + Num(puts, m) + Num(Dsts, m) + Cardinality(Holders(slots, m))
             /\ (ref[m] = 0 <=> kind[m] = "free")
  <2>1. /\ held[m] \in Nat /\ Num(puts, m) \in Nat /\ Num(Dsts, m) \in Nat
        /\ Cardinality(Holders(slots, m)) \in Nat
    BY <1>1, CountTyped, Zenon
  <2>2. Num(q, m) \in Nat
    BY <1>1, CountTyped, Zenon
  <2>3. One(n = m) = IF m = n THEN 1 ELSE 0
    BY DEF One
  <2>4. Num(puts, m) = One(n = m) + Num(q, m)
    BY Zenon DEF HeadPut
  <2>5. Num(puts, m) = (IF m = n THEN 1 ELSE 0) + Num(q, m)
    BY <2>3, <2>4
  <2>6. /\ ref[m] = held[m] + Num(puts, m) + Num(Dsts, m) + Cardinality(Holders(slots, m))
        /\ (ref[m] = 0 <=> kind[m] = "free")
    BY <1>1, Zenon DEF Exact, Count
  <2> QED BY <2>1, <2>2, <2>5, <2>6
<1>5. Exact(kind, ref', held, q, Dsts, slots)
  <2> SUFFICES ASSUME NEW m \in Nodes
               PROVE  /\ ref'[m] = held[m] + Num(q, m) + Num(Dsts, m) + Cardinality(Holders(slots, m))
                      /\ (ref'[m] = 0 <=> kind[m] = "free")
    BY Zenon DEF Exact, Count
  <2>1. CASE m = n
    <3>1. /\ held[n] \in Nat /\ Num(puts, n) \in Nat /\ Num(q, n) \in Nat /\ Num(Dsts, n) \in Nat
          /\ Cardinality(Holders(slots, n)) \in Nat /\ Num(puts, n) = 1 + Num(q, n)
          /\ ref[n] = held[n] + Num(puts, n) + Num(Dsts, n) + Cardinality(Holders(slots, n))
      BY <1>4
    <3>2. ref[n] - 1 = held[n] + Num(q, n) + Num(Dsts, n) + Cardinality(Holders(slots, n))
      <4> DEFINE a == Cardinality(Holders(slots, n))
      <4>1. /\ held[n] \in Nat /\ Num(puts, n) \in Nat /\ Num(q, n) \in Nat /\ Num(Dsts, n) \in Nat
            /\ a \in Nat /\ Num(puts, n) = 1 + Num(q, n) /\ ref[n] = held[n] + Num(puts, n) + Num(Dsts, n) + a
        BY <3>1
      <4> HIDE DEF a
      <4>2. ref[n] - 1 = held[n] + Num(q, n) + Num(Dsts, n) + a
        BY <4>1, OnePut, SMT
      <4> QED BY <4>2 DEF a
    <3>3. kind[n] # "free" /\ ref'[n] # 0
      <4>1. ref[n] # 0 /\ ref'[n] # 0
        BY <1>2, <1>3, SMT
      <4> QED BY <1>4, <4>1, Zenon
    <3> QED BY <1>3, <2>1, <3>2, <3>3, Zenon
  <2>2. CASE m # n
    <3>1. Num(puts, m) = 0 + Num(q, m) /\ Num(q, m) \in Nat
      BY <1>4, <2>2
    <3>2. Num(puts, m) = Num(q, m)
      BY <3>1, SMT
    <3>3. ref'[m] = ref[m]
      BY <1>3, <2>2
    <3> QED BY <1>4, <3>2, <3>3, Zenon
  <2> QED BY <2>1, <2>2
<1> DEFINE R == ReachIn(slots, Roots(held, q, Dsts))
           X == ReachIn(slots, {n})
<1>6. /\ R \in SUBSET Nodes
      /\ \A m \in Nodes : held[m] > 0 \/ Num(q, m) > 0 \/ Num(Dsts, m) > 0 => m \in R
      /\ \A p \in R : \A m : Edge(slots, p, m) => m \in R
  BY <1>1, RootsReach, Zenon
<1>7. {n} \in SUBSET Nodes
  OBVIOUS
<1>8. X \in SUBSET Nodes /\ n \in X /\ \A p \in X : \A m : Edge(slots, p, m) => m \in X
  BY <1>1, <1>7, ReachFacts, Zenon DEF ClosedIn
<1> HIDE DEF R, X
<1>9. ASSUME NEW m \in Nodes, held[m] > 0 \/ Num(puts, m) > 0 \/ Num(Dsts, m) > 0 PROVE m \in R \cup X
  <2>1. CASE m = n
    BY <1>8, <2>1
  <2>2. CASE m # n
    <3>1. Num(puts, m) = 0 + Num(q, m) /\ Num(q, m) \in Nat
      BY <1>4, <2>2
    <3>2. Num(puts, m) = Num(q, m)
      BY <3>1, SMT
    <3> QED BY <1>6, <1>9, <3>2, Zenon
  <2> QED BY <2>1, <2>2
<1>10. \A m \in Nodes : kind[m] # "free" => m \in R \cup X
  <2>1. Roots(held, puts, Dsts) \in SUBSET Nodes /\ R \cup X \in SUBSET Nodes
    BY <1>6, <1>8, Zenon DEF Roots
  <2>2. \A m \in Roots(held, puts, Dsts) : m \in R \cup X
    BY <1>9, Zenon DEF Roots
  <2>3. \A p \in R \cup X : \A m : Edge(slots, p, m) => m \in R \cup X
    BY <1>6, <1>8, Zenon
  <2>4. \A m \in ReachIn(slots, Roots(held, puts, Dsts)) : m \in R \cup X
    BY <1>1, <2>1, <2>2, <2>3, ReachStays, Zenon
  <2> QED BY <1>1, <2>4, Zenon DEF Kept
<1>11. n \in R
  <2>1. CASE held[n] > 0 \/ Num(q, n) > 0 \/ Num(Dsts, n) > 0
    BY <1>6, <2>1, Zenon
  <2>2. CASE ~ (held[n] > 0 \/ Num(q, n) > 0 \/ Num(Dsts, n) > 0)
    <3>1. Cardinality(Holders(slots, n)) # 0
      <4>1. /\ held[n] \in Nat /\ Num(puts, n) \in Nat /\ Num(q, n) \in Nat /\ Num(Dsts, n) \in Nat
            /\ Cardinality(Holders(slots, n)) \in Nat /\ Num(puts, n) = 1 + Num(q, n)
            /\ ref[n] = held[n] + Num(puts, n) + Num(Dsts, n) + Cardinality(Holders(slots, n))
        BY <1>4
      <4> QED BY <2>2, <4>1, SMT
    <3>2. PICK p \in Nodes : \E s \in DOMAIN slots[p] : slots[p][s] = n
      BY <1>1, <3>1, HolderCounts, Zenon
    <3>3. Edge(slots, p, n)
      BY <3>2, TreeConstants, Zenon DEF Edge
    <3>4. p \notin X
      BY <1>1, <3>3, Zenon DEF Acyclic, X
    <3>5. kind[p] # "free"
      <4>1. DOMAIN slots[p] # {}
        BY <3>2
      <4>2. DOMAIN slots[p] \in Shape(kind[p])
        BY <1>1, Zenon DEF TreeTyped, Shaped
      <4> QED BY <4>1, <4>2 DEF Shape
    <3> QED BY <1>6, <1>10, <3>3, <3>4, <3>5, Zenon
  <2> QED BY <2>1, <2>2
<1>12. \A m \in X : m \in R
  <2>1. \A m \in {n} : m \in R
    BY <1>11
  <2> QED BY <1>1, <1>6, <1>7, <2>1, ReachStays, Zenon DEF X
<1>13. Kept(kind, held, q, Dsts, slots)
  BY <1>10, <1>12, Zenon DEF Kept, R
<1> QED BY <1>3, <1>5, <1>13

\* The body of json_object_put, for the last reference: its values are put.
LEMMA FreeKeepsTree ==
    ASSUME Tree!TreeAssumption, TreeInv, NEW n \in Nodes, NEW q \in Seq(Nodes), ~ (ref[n] > 1),
           HeadPut(puts, n, q), Freed(n, q), copy = <<>>
    PROVE  TreeInv'
<1>1. /\ TreeTyped /\ Slotted(slots) /\ Exact(kind, ref, held, puts, Dsts, slots) /\ Acyclic(slots)
      /\ Kept(kind, held, puts, Dsts, slots) /\ held \in [Nodes -> 0 .. MaxHeld]
      /\ puts \in Seq(Nodes) /\ Dsts \in Seq(Nodes) /\ Shaped(kind, slots)
  BY TreeParts
<1>0. /\ ref' = [ref EXCEPT ![n] = 0] /\ data' = [data EXCEPT ![n] = "none"]
      /\ puts' = Tree!Putting(slots[n]) \o q /\ kind' = [kind EXCEPT ![n] = "free"]
      /\ leaf' = [leaf EXCEPT ![n] = 0] /\ slots' = [slots EXCEPT ![n] = <<>>]
      /\ UNCHANGED <<held, copy, done>>
  BY Zenon DEF Freed
<1>2. /\ kind \in [Nodes -> {"free", "object", "array", "leaf"}] /\ ref \in [Nodes -> Nat]
      /\ leaf \in [Nodes -> {0, 1}] /\ data \in [Nodes -> {"none", "known", "own"}] /\ DOMAIN slots = Nodes
  BY <1>1, Zenon DEF TreeTyped, Slotted
<1>3. /\ kind' \in [Nodes -> {"free", "object", "array", "leaf"}] /\ ref' \in [Nodes -> Nat]
      /\ leaf' \in [Nodes -> {0, 1}] /\ data' \in [Nodes -> {"none", "known", "own"}]
      /\ kind'[n] = "free" /\ ref'[n] = 0 /\ DOMAIN slots' = Nodes /\ slots'[n] = <<>> /\ DOMAIN slots'[n] = {}
      /\ \A m \in Nodes : m # n => kind'[m] = kind[m] /\ ref'[m] = ref[m] /\ slots'[m] = slots[m]
  BY <1>0, <1>2
<1>4. Slotted(slots') /\ Shaped(kind', slots')
  <2>1. ASSUME NEW m \in Nodes
        PROVE  /\ DOMAIN slots'[m] \subseteq SlotNames
               /\ \A s \in DOMAIN slots'[m] : slots'[m][s] \in Nodes \cup {Null}
               /\ DOMAIN slots'[m] \in Shape(kind'[m])
    <3>1. CASE m = n
      BY <1>3, <3>1 DEF Shape
    <3>2. CASE m # n
      <4>1. slots'[m] = slots[m] /\ kind'[m] = kind[m]
        BY <1>3, <3>2
      <4> QED BY <1>1, <4>1, Zenon DEF Slotted, Shaped
    <3> QED BY <3>1, <3>2
  <2>2. Slotted(slots')
    BY <1>3, <2>1, Zenon DEF Slotted
  <2>3. Shaped(kind', slots')
    BY <2>1, Zenon DEF Shaped
  <2> QED BY <2>2, <2>3
<1>5. Edited(slots, slots', n)
  BY <1>1, <1>3, <1>4, Zenon DEF Edited
<1>6. puts' \in Seq(Nodes) /\ \A m \in Nodes : Num(puts', m) = Num(slots[n], m) + Num(q, m)
  <2> DEFINE u == Tree!Putting(slots[n])
  <2>1. IsFiniteSet(DOMAIN slots[n]) /\ \A s \in DOMAIN slots[n] : slots[n][s] \in Nodes \cup {Null}
    BY <1>1, SlotsFinite, Zenon DEF Slotted
  <2>2. u \in Seq(Nodes) /\ \A m : m # Null => Num(u, m) = Num(slots[n], m)
    BY <2>1, PuttingHits, Zenon
  <2>3. puts' = u \o q
    BY <1>0
  <2> HIDE DEF u
  <2>4. puts' \in Seq(Nodes)
    BY <2>2, <2>3
  <2>5. \A m : Num(u \o q, m) = Num(u, m) + Num(q, m)
    BY <2>2, NumConcat, Zenon
  <2>6. ASSUME NEW m \in Nodes PROVE Num(puts', m) = Num(slots[n], m) + Num(q, m)
    <3>1. m # Null
      BY TreeConstants
    <3>2. Num(u, m) = Num(slots[n], m)
      BY <2>2, <3>1, Zenon
    <3> QED BY <2>3, <2>5, <3>2
  <2> QED BY <2>4, <2>6
<1>7. ASSUME NEW m \in Nodes
      PROVE  /\ held[m] \in Nat /\ Num(puts, m) \in Nat /\ Num(q, m) \in Nat /\ Num(Dsts, m) \in Nat
             /\ Num(slots[n], m) \in Nat /\ Num(puts', m) = Num(slots[n], m) + Num(q, m)
             /\ Cardinality(Holders(slots, m)) \in Nat /\ Cardinality(Holders(slots', m)) \in Nat
             /\ Cardinality(Holders(slots', m)) + Num(slots[n], m) = Cardinality(Holders(slots, m))
             /\ Num(puts, m) = (IF m = n THEN 1 ELSE 0) + Num(q, m)
             /\ ref[m] = held[m] + Num(puts, m) + Num(Dsts, m) + Cardinality(Holders(slots, m))
             /\ (ref[m] = 0 <=> kind[m] = "free")
  <2>1. /\ held[m] \in Nat /\ Num(puts, m) \in Nat /\ Num(Dsts, m) \in Nat
        /\ Cardinality(Holders(slots, m)) \in Nat
    BY <1>1, CountTyped, Zenon
  <2>2. Num(q, m) \in Nat
    BY <1>1, CountTyped, Zenon
  <2>3. One(n = m) = IF m = n THEN 1 ELSE 0
    BY DEF One
  <2>4. Num(puts, m) = One(n = m) + Num(q, m)
    BY Zenon DEF HeadPut
  <2>5. Num(puts, m) = (IF m = n THEN 1 ELSE 0) + Num(q, m)
    BY <2>3, <2>4
  <2>6. /\ ref[m] = held[m] + Num(puts, m) + Num(Dsts, m) + Cardinality(Holders(slots, m))
        /\ (ref[m] = 0 <=> kind[m] = "free")
    BY <1>1, Zenon DEF Exact, Count
  <2>7. /\ Cardinality(Holders(slots', m)) \in Nat /\ Num(slots[n], m) \in Nat
        /\ Cardinality(Holders(slots', m)) + Num(slots[n], m) = Cardinality(Holders(slots, m)) + Num(slots'[n], m)
    BY <1>5, HoldersChanged, SMT
  <2>8. Num(slots'[n], m) = 0
    BY <1>3, NumEmpty, Zenon
  <2>9. Cardinality(Holders(slots, m)) + 0 = Cardinality(Holders(slots, m))
    BY <2>1, SMT
  <2>10. Cardinality(Holders(slots', m)) + Num(slots[n], m) = Cardinality(Holders(slots, m))
    BY <2>7, <2>8, <2>9
  <2> QED BY <1>6, <2>1, <2>2, <2>5, <2>6, <2>7, <2>10
<1>8. /\ held[n] = 0 /\ Num(q, n) = 0 /\ Num(Dsts, n) = 0 /\ Cardinality(Holders(slots', n)) = 0
      /\ Num(slots[n], n) = 0
  <2>1. /\ held[n] \in Nat /\ Num(puts, n) \in Nat /\ Num(q, n) \in Nat /\ Num(Dsts, n) \in Nat
        /\ Num(slots[n], n) \in Nat
        /\ Cardinality(Holders(slots, n)) \in Nat /\ Cardinality(Holders(slots', n)) \in Nat
        /\ Cardinality(Holders(slots', n)) + Num(slots[n], n) = Cardinality(Holders(slots, n))
        /\ Num(puts, n) = 1 + Num(q, n)
        /\ ref[n] = held[n] + Num(puts, n) + Num(Dsts, n) + Cardinality(Holders(slots, n))
    BY <1>7
  <2>2. OneRef(ref[n], held[n], Num(puts, n), Num(q, n), Num(Dsts, n), Cardinality(Holders(slots, n)),
               Cardinality(Holders(slots', n)), Num(slots[n], n))
    BY <2>1, Zenon DEF OneRef
  <2> QED BY <2>2, LastPut, SMT
<1>9. Exact(kind', ref', held, puts', Dsts, slots')
  <2> SUFFICES ASSUME NEW m \in Nodes
               PROVE  /\ ref'[m] = held[m] + Num(puts', m) + Num(Dsts, m) + Cardinality(Holders(slots', m))
                      /\ (ref'[m] = 0 <=> kind'[m] = "free")
    BY Zenon DEF Exact, Count
  <2>1. CASE m = n
    <3>1. Num(puts', n) = 0 + 0
      BY <1>7, <1>8
    <3>2. 0 + (0 + 0) + 0 + 0 = 0
      BY SMT
    <3>3. ref'[n] = held[n] + Num(puts', n) + Num(Dsts, n) + Cardinality(Holders(slots', n))
      BY <1>3, <1>8, <3>1, <3>2
    <3> QED BY <1>3, <2>1, <3>3, Zenon
  <2>2. CASE m # n
    <3>1. Num(puts, m) = 0 + Num(q, m)
      BY <1>7, <2>2
    <3>2. Balanced(held[m], held[m], Num(puts, m), Num(puts', m), Num(Dsts, m), Cardinality(Holders(slots, m)),
                   Cardinality(Holders(slots', m)), Num(slots[n], m), 0, 0)
      <4>1. /\ held[m] \in Nat /\ Num(puts, m) \in Nat /\ Num(q, m) \in Nat /\ Num(Dsts, m) \in Nat
            /\ Num(slots[n], m) \in Nat /\ Num(puts', m) = Num(slots[n], m) + Num(q, m)
            /\ Cardinality(Holders(slots, m)) \in Nat /\ Cardinality(Holders(slots', m)) \in Nat
            /\ Cardinality(Holders(slots', m)) + Num(slots[n], m) = Cardinality(Holders(slots, m))
        BY <1>7
      <4> DEFINE a == Cardinality(Holders(slots, m))
                 b == Cardinality(Holders(slots', m))
                 x == Num(slots[n], m)
      <4>2. a \in Nat /\ b \in Nat /\ x \in Nat /\ b + x = a /\ Num(puts', m) = x + Num(q, m)
        BY <4>1
      <4> HIDE DEF a, b, x
      <4>3. /\ Num(puts', m) \in Nat /\ b + x = a + 0 /\ Num(puts', m) + 0 = Num(puts, m) + x + 0
            /\ held[m] + 0 = held[m]
        BY <3>1, <4>1, <4>2, SMT
      <4>4. 0 \in Nat
        BY SMT
      <4> QED BY <4>1, <4>2, <4>3, <4>4, Zenon DEF Balanced, a, b, x
    <3>3. held[m] + Num(puts', m) + Num(Dsts, m) + Cardinality(Holders(slots', m))
            = held[m] + Num(puts, m) + Num(Dsts, m) + Cardinality(Holders(slots, m))
      BY <3>2, Moved, SMT
    <3>4. ref'[m] = ref[m] /\ kind'[m] = kind[m]
      BY <1>3, <2>2
    <3> QED BY <1>7, <3>3, <3>4, Zenon
  <2> QED BY <2>1, <2>2
<1>10. ASSUME NEW p \in Nodes, NEW m
       PROVE  /\ Edge(slots', p, m) => Edge(slots, p, m)
              /\ p # n /\ Edge(slots, p, m) => Edge(slots', p, m)
  <2>1. CASE p = n
    BY <1>3, <2>1, Zenon DEF Edge
  <2>2. CASE p # n
    BY <1>3, <2>2, Zenon DEF Edge
  <2> QED BY <2>1, <2>2
<1>11. Acyclic(slots')
  BY <1>1, <1>4, <1>10, FewerEdges, Zenon
<1>12. Kept(kind', held, puts', Dsts, slots')
  <2> DEFINE R == ReachIn(slots', Roots(held, puts', Dsts))
             C == R \cup {n}
  <2>1. /\ R \in SUBSET Nodes
        /\ \A m \in Nodes : held[m] > 0 \/ Num(puts', m) > 0 \/ Num(Dsts, m) > 0 => m \in R
        /\ \A p \in R : \A m : Edge(slots', p, m) => m \in R
    BY <1>4, RootsReach, Zenon
  <2> HIDE DEF R
  <2>2. ASSUME NEW m \in Nodes, held[m] > 0 \/ Num(puts, m) > 0 \/ Num(Dsts, m) > 0, m # n PROVE m \in R
    <3>1. Num(puts, m) = 0 + Num(q, m) /\ Num(q, m) \in Nat /\ Num(slots[n], m) \in Nat
          /\ Num(puts', m) = Num(slots[n], m) + Num(q, m)
      BY <1>7, <2>2
    <3>2. Num(puts, m) > 0 => Num(puts', m) > 0
      BY <3>1, SMT
    <3> QED BY <2>1, <2>2, <3>2, Zenon
  <2>3. ASSUME NEW m \in Nodes, Edge(slots, n, m) PROVE m \in R
    <3>1. Num(slots[n], m) # 0 /\ Num(slots[n], m) \in Nat
      BY <1>1, <2>3, NumEdge, Zenon
    <3>2. Num(q, m) \in Nat /\ Num(puts', m) = Num(slots[n], m) + Num(q, m)
      BY <1>7
    <3>3. Num(puts', m) > 0
      BY <3>1, <3>2, SMT
    <3> QED BY <2>1, <3>3, Zenon
  <2>4. \A p \in C : \A m : Edge(slots, p, m) => m \in C
    <3> SUFFICES ASSUME NEW p \in C, NEW m, Edge(slots, p, m) PROVE m \in C
      BY Zenon
    <3>0. p \in Nodes /\ EdgesExist(kind, slots)
      BY <2>1, TreeParts, Zenon
    <3>1. m \in Nodes
      BY <3>0, Zenon DEF EdgesExist
    <3>2. CASE p = n
      BY <2>3, <3>0, <3>1, <3>2, Zenon
    <3>3. CASE p # n
      BY <1>10, <2>1, <3>0, <3>1, <3>3, Zenon
    <3> QED BY <3>2, <3>3
  <2>5. /\ C \in SUBSET Nodes /\ Roots(held, puts, Dsts) \in SUBSET Nodes
        /\ \A m \in Roots(held, puts, Dsts) : m \in C
    BY <2>1, <2>2, Zenon DEF Roots
  <2> HIDE DEF C
  <2>6. \A m \in ReachIn(slots, Roots(held, puts, Dsts)) : m \in C
    BY <1>1, <2>4, <2>5, ReachStays, Zenon
  <2>7. ASSUME NEW m \in Nodes, kind'[m] # "free" PROVE m \in R
    <3>1. m # n
      BY <1>3, <2>7, Zenon
    <3>2. kind[m] # "free"
      BY <1>3, <2>7, <3>1, Zenon
    <3>3. m \in C
      BY <1>1, <2>6, <3>2, Zenon DEF Kept
    <3> QED BY <3>1, <3>3, Zenon DEF C
  <2> QED BY <2>7, Zenon DEF Kept, R
<1>13. Dsts' = Dsts
  BY <1>0, Zenon DEF Dsts
<1>14. TreeTyped'
  <2>0. UNCHANGED <<held, copy, done>>
    BY <1>0
  <2>1. held' \in [Nodes -> 0 .. MaxHeld] /\ copy' \in Seq(FrameType) /\ done' \in {<<>>} \cup (Nodes \X Nodes)
    BY <1>1, <2>0, Zenon DEF TreeTyped
  <2> QED BY <1>3, <1>4, <1>6, <2>1, Zenon DEF TreeTyped
<1>15. Levels' /\ copy' = <<>>
  BY <1>0, NoLevels, Zenon DEF Levels, Apart
<1>16. Exact(kind, ref, held, puts, Dsts, slots)' /\ Acyclic(slots)' /\ Kept(kind, held, puts, Dsts, slots)'
  BY <1>0, <1>9, <1>11, <1>12, <1>13, Zenon
<1> QED BY <1>14, <1>15, <1>16, Zenon DEF TreeInv

\* A step of json_object_put.
LEMMA PutStepKeepsTree ==
    ASSUME Tree!TreeAssumption, TreeInv, Tree!PutStep
    PROVE  TreeInv'
<1> DEFINE n == Head(puts)
           q == Tail(puts)
<1>1. /\ TreeTyped /\ Slotted(slots) /\ Shaped(kind, slots) /\ Acyclic(slots) /\ puts \in Seq(Nodes)
      /\ (puts = <<>> \/ copy = <<>>)
  BY TreeParts
<1>2. puts # <<>> /\ UNCHANGED <<held, copy, done>>
  BY Zenon DEF Tree!PutStep
<1>3. copy = <<>>
  BY <1>1, <1>2
<1>4. n \in Nodes /\ q \in Seq(Nodes)
  BY <1>1, <1>2, HeadTailProperties, SMT
<1>5. HeadPut(puts, n, q)
  <2>1. puts = <<n>> \o q /\ <<n>> \in Seq(Nodes)
    BY <1>1, <1>2, SMT
  <2> HIDE DEF n, q
  <2>2. ASSUME NEW m PROVE Num(puts, m) = One(n = m) + Num(q, m)
    <3>1. Num(<<n>> \o q, m) = Num(<<n>>, m) + Num(q, m)
      BY <1>4, <2>1, NumConcat, Zenon
    <3>2. Num(<<n>>, m) = One(n = m)
      BY NumSingle, Zenon
    <3> QED BY <2>1, <3>1, <3>2
  <2> QED BY <2>2, Zenon DEF HeadPut
<1>6. CASE ref[n] > 1
  <2>1. ref' = [ref EXCEPT ![n] = ref[n] - 1] /\ puts' = q /\ UNCHANGED <<kind, leaf, slots, data>>
    BY <1>6, Zenon DEF Tree!PutStep
  <2> HIDE DEF n, q
  <2>0. Fewer(ref, ref', n)
    BY <2>1, Zenon DEF Fewer
  <2>2. /\ Exact(kind, ref', held, q, Dsts, slots) /\ Kept(kind, held, q, Dsts, slots)
        /\ ref' \in [Nodes -> Nat]
    BY <1>4, <1>5, <1>6, <2>0, ReleaseKeepsTree, Zenon
  <2>3. Dsts' = Dsts
    BY <1>2, Zenon DEF Dsts
  <2>4. TreeTyped'
    BY <1>1, <1>2, <1>4, <2>1, <2>2, Zenon DEF TreeTyped
  <2>5. Levels' /\ copy' = <<>>
    BY <1>2, <1>3, NoLevels, Zenon DEF Levels, Apart
  <2>6. Exact(kind, ref, held, puts, Dsts, slots)' /\ Acyclic(slots)' /\ Kept(kind, held, puts, Dsts, slots)'
    BY <1>1, <1>2, <2>1, <2>2, <2>3, Zenon
  <2> QED BY <2>4, <2>5, <2>6, Zenon DEF TreeInv
<1>7. CASE ~ (ref[n] > 1)
  <2>1. /\ ref' = [ref EXCEPT ![n] = 0] /\ data' = [data EXCEPT ![n] = "none"]
        /\ puts' = Tree!Putting(slots[n]) \o q /\ kind' = [kind EXCEPT ![n] = "free"]
        /\ leaf' = [leaf EXCEPT ![n] = 0] /\ slots' = [slots EXCEPT ![n] = <<>>]
    BY <1>7, Zenon DEF Tree!PutStep
  <2> HIDE DEF n, q
  <2>2. Freed(n, q)
    BY <1>2, <2>1, Zenon DEF Freed
  <2> QED BY <1>3, <1>4, <1>5, <1>7, <2>2, FreeKeepsTree, Zenon
<1> QED BY <1>6, <1>7

-----------------------------------------------------------------------------
(* Deep copies keep it.                                                    *)

\* The parts of a level.
LEMMA FrameParts ==
    ASSUME NEW c \in Seq(FrameType)
    PROVE  /\ DOMAIN c = 1 .. Len(c) /\ Len(c) \in Nat /\ (c # <<>> => Len(c) >= 1)
           /\ \A i \in DOMAIN c : /\ c[i] \in FrameType /\ c[i].src \in Nodes /\ c[i].dst \in Nodes
                                  /\ c[i].todo \in Seq(SlotNames)
<1>1. DOMAIN c = 1 .. Len(c) /\ Len(c) \in Nat /\ (c # <<>> => Len(c) >= 1) /\ \A i \in DOMAIN c : c[i] \in FrameType
  BY SMT
<1>2. \A r \in FrameType : r.src \in Nodes /\ r.dst \in Nodes /\ r.todo \in Seq(SlotNames)
  BY SMT DEF FrameType
<1> QED BY <1>1, <1>2, Zenon

\* The levels c with the first slot of the top one done.
Popped(c, c2) ==
    /\ c2 \in Seq(FrameType) /\ DOMAIN c2 = DOMAIN c
    /\ \A i \in DOMAIN c : c2[i].src = c[i].src /\ c2[i].dst = c[i].dst /\ (i # 1 => c2[i].todo = c[i].todo)
    /\ c2[1].todo = Tail(c[1].todo)

\* That is what CopyNull and CopyUp do with it.
LEMMA PopFrame ==
    ASSUME NEW c \in Seq(FrameType), c # <<>>, c[1].todo # <<>>
    PROVE  Popped(c, [c EXCEPT ![1].todo = Tail(c[1].todo)])
<1> DEFINE q == Tail(c[1].todo)
           r == [c[1] EXCEPT !.todo = q]
           c2 == [c EXCEPT ![1] = r]
<1>1. 1 \in DOMAIN c /\ c[1] \in FrameType /\ c[1].todo \in Seq(SlotNames)
  BY FrameParts, SMT
<1>2. q \in Seq(SlotNames)
  BY <1>1, SMT
<1> HIDE DEF q
<1>3. r \in FrameType /\ r.src = c[1].src /\ r.dst = c[1].dst /\ r.todo = q
  BY <1>1, <1>2, SMT DEF FrameType
<1> HIDE DEF r
<1>4. /\ c2 \in Seq(FrameType) /\ DOMAIN c2 = DOMAIN c /\ c2[1] = r
      /\ \A i \in DOMAIN c : i # 1 => c2[i] = c[i]
  BY <1>1, <1>3, SMT
<1>5. c2 = [c EXCEPT ![1].todo = q]
  BY Zenon DEF r
<1> HIDE DEF c2
<1>6. Popped(c, c2)
  <2>1. ASSUME NEW i \in DOMAIN c
        PROVE  c2[i].src = c[i].src /\ c2[i].dst = c[i].dst /\ (i # 1 => c2[i].todo = c[i].todo)
    <3>1. CASE i = 1
      BY <1>3, <1>4, <3>1
    <3>2. CASE i # 1
      BY <1>4, <3>2
    <3> QED BY <3>1, <3>2
  <2> QED BY <1>3, <1>4, <2>1, Zenon DEF Popped, q
<1> QED BY <1>5, <1>6, Zenon DEF q

\* The slots of a container, in order: all of them remain.
LEMMA OrderRemains ==
    ASSUME Tree!TreeAssumption, TreeInv, NEW n \in Nodes
    PROVE  /\ Tree!Order(n) \in Seq(SlotNames)
           /\ \A g : DOMAIN g = {} => Remaining(Tree!Order(n), slots[n], g, kind[n] = "array")
<1> DEFINE S == DOMAIN slots[n]
           c == Cardinality(S)
           q == Tree!Order(n)
<1>1. Slotted(slots) /\ Shaped(kind, slots)
  BY TreeParts
<1>2. IsFiniteSet(S) /\ S \in Shape(kind[n]) /\ S \subseteq SlotNames
  BY <1>1, SlotsFinite, Zenon DEF Slotted, Shaped
<1>3. c \in Nat
  BY <1>2, FS_CardinalityType, Zenon
<1>4. Tree!Cardinality(S) = c
  BY TreeCardinality
<1>5. CASE kind[n] = "array"
  <2>1. q = [i \in 1 .. c |-> i - 1]
    BY <1>4, <1>5, Zenon DEF Tree!Order
  <2>2. PICK l \in 0 .. MaxLength : S = 0 .. l - 1
    BY <1>2, <1>5 DEF Shape
  <2>3. l \in Nat
    BY TreeConstants, SMT
  <2>4. c = l
    <3>1. c = IF 0 > l - 1 THEN 0 ELSE (l - 1) - 0 + 1
      BY <2>2, <2>3, FS_Interval, SMT
    <3> QED BY <2>3, <3>1, SMT
  <2> HIDE DEF S, c, q
  <2>5. /\ DOMAIN q = 1 .. l /\ Len(q) = l
        /\ \A a \in 1 .. l : q[a] = a - 1 /\ q[a] \in S
        /\ \A a, b \in 1 .. l : q[a] = q[b] => a = b
        /\ \A s \in S : s + 1 \in 1 .. l /\ q[s + 1] = s
    BY <2>1, <2>2, <2>3, <2>4, SMT
  <2>6. q \in Seq(SlotNames)
    BY <1>2, <1>3, <2>1, <2>4, <2>5, SMT
  <2>7. ASSUME NEW g, DOMAIN g = {} PROVE Remaining(q, slots[n], g, TRUE)
    <3>1. 0 \in Nat /\ {} = 0 .. 0 - 1 /\ \A a \in 1 .. l : q[a] = 0 + a - 1
      BY <2>5, SMT
    <3>2. \E m \in Nat : DOMAIN g = 0 .. m - 1 /\ \A a \in DOMAIN q : q[a] = m + a - 1
      BY <2>5, <2>7, <3>1, Zenon
    <3>3. \A s \in S : \E a \in DOMAIN q : q[a] = s
      BY <2>5, Zenon
    <3> QED BY <2>5, <2>7, <3>2, <3>3 DEF Remaining, S
  <2> QED BY <1>5, <2>6, <2>7 DEF q
<1>6. CASE kind[n] # "array"
  <2>1. q = Tree!SetToSeq(S)
    BY <1>6, Zenon DEF Tree!Order
  <2>2. /\ q \in [1 .. c -> S] /\ \A a, b \in 1 .. c : q[a] = q[b] => a = b
        /\ \A x \in S : \E a \in 1 .. c : q[a] = x
    BY <1>2, <2>1, SetInOrder, Zenon
  <2> HIDE DEF c, q
  <2>3. DOMAIN q = 1 .. c /\ \A a \in 1 .. c : q[a] \in S
    BY <2>2
  <2>4. q \in Seq(SlotNames)
    <3>1. q \in [1 .. c -> SlotNames]
      BY <1>2, <2>2, <2>3
    <3> QED BY <1>3, <3>1, SMT
  <2>5. ASSUME NEW g, DOMAIN g = {} PROVE Remaining(q, slots[n], g, FALSE)
    BY <2>2, <2>3, <2>5, Zenon DEF Remaining
  <2> QED BY <1>6, <2>4, <2>5 DEF q
<1> QED BY <1>5, <1>6

\* The next slot q[1] that remains to copy from s to d gets v.
Growing(sl, s, d, q, v, to) ==
    /\ Slotted(sl) /\ Shaped(kind, sl) /\ s \in Nodes /\ d \in Nodes /\ v \in Nodes \cup {Null}
    /\ q \in Seq(SlotNames) /\ q # <<>> /\ kind[d] = kind[s]
    /\ Remaining(q, sl[s], sl[d], kind[s] = "array")
    /\ to = [sl EXCEPT ![d] = Tree!With(sl[d], Head(q), v)]
Gained(sl, s, d, q, v, to) ==
    /\ Head(q) \in DOMAIN sl[s]
    /\ Edited(sl, to, d) /\ Slotted(to) /\ Shaped(kind, to)
    /\ Paid(<<>>, sl[d], to[d], v) /\ Fed(sl[d], to[d], v)
    /\ DOMAIN to[d] = DOMAIN sl[d] \cup {Head(q)} /\ to[d][Head(q)] = v
    /\ \A x \in DOMAIN sl[d] : x # Head(q) /\ to[d][x] = sl[d][x]
    /\ Remaining(Tail(q), sl[s], to[d], kind[s] = "array")

\* It is in the source and not yet in the copy, and with it the others remain.
LEMMA LevelGrows ==
    ASSUME Tree!TreeAssumption, NEW sl, NEW s, NEW d, NEW q, NEW v, NEW to, Growing(sl, s, d, q, v, to)
    PROVE  Gained(sl, s, d, q, v, to)
<1>0. /\ Slotted(sl) /\ Shaped(kind, sl) /\ s \in Nodes /\ d \in Nodes /\ v \in Nodes \cup {Null}
      /\ q \in Seq(SlotNames) /\ q # <<>> /\ kind[d] = kind[s]
      /\ Remaining(q, sl[s], sl[d], kind[s] = "array")
      /\ to = [sl EXCEPT ![d] = Tree!With(sl[d], Head(q), v)]
  BY Zenon DEF Growing
<1> DEFINE h == Head(q)
           z == Tail(q)
           f == sl[d]
           g == Tree!With(f, h, v)
           src == sl[s]
<1>1. /\ DOMAIN q = 1 .. Len(q) /\ 1 \in DOMAIN q /\ h = q[1] /\ z \in Seq(SlotNames)
      /\ DOMAIN z = 1 .. Len(q) - 1 /\ Len(q) \in Nat
      /\ \A a \in DOMAIN z : z[a] = q[a + 1] /\ a + 1 \in DOMAIN q /\ a \in Nat /\ a + 1 # 1
      /\ \A a \in DOMAIN q : a = 1 \/ (a - 1 \in DOMAIN z /\ z[a - 1] = q[a])
  BY <1>0, HeadTailProperties, SMT
<1>2. /\ \A a, b \in DOMAIN q : q[a] = q[b] => a = b
      /\ \A a \in DOMAIN q : q[a] \in DOMAIN src /\ q[a] \notin DOMAIN f
      /\ \A x \in DOMAIN src : x \in DOMAIN f \/ \E a \in DOMAIN q : q[a] = x
      /\ DOMAIN f \subseteq DOMAIN src
      /\ kind[s] = "array" => \E m \in Nat : DOMAIN f = 0 .. m - 1 /\ \A a \in DOMAIN q : q[a] = m + a - 1
  BY <1>0, Zenon DEF Remaining
<1> HIDE DEF h, z
<1>3. h \in DOMAIN src /\ h \notin DOMAIN f
  BY <1>1, <1>2
<1>4. /\ DOMAIN g = DOMAIN f \cup {h} /\ g[h] = v /\ \A x \in DOMAIN f : x # h /\ g[x] = f[x]
  BY <1>3 DEF Tree!With
<1>5. DOMAIN src \in Shape(kind[d]) /\ DOMAIN f \in Shape(kind[d])
  BY <1>0, Zenon DEF Shaped
<1> HIDE DEF src
<1>6. ASSUME kind[s] = "array"
      PROVE  /\ \E m \in Nat : DOMAIN g = 0 .. m - 1 /\ \A a \in DOMAIN z : z[a] = m + a - 1
             /\ DOMAIN g \in Shape("array")
  <2>1. PICK m \in Nat : DOMAIN f = 0 .. m - 1 /\ \A a \in DOMAIN q : q[a] = m + a - 1
    BY <1>2, <1>6
  <2>2. PICK l \in 0 .. MaxLength : DOMAIN src = 0 .. l - 1
    BY <1>0, <1>5, <1>6 DEF Shape
  <2>3. h = m
    BY <1>1, <2>1, SMT
  <2>4. m + 1 \in 0 .. MaxLength /\ 0 .. m = 0 .. (m + 1) - 1 /\ 0 .. m = (0 .. m - 1) \cup {m}
    BY <1>3, <2>2, <2>3, TreeConstants, SMT
  <2>5. DOMAIN g = 0 .. (m + 1) - 1 /\ m + 1 \in Nat
    BY <1>4, <2>1, <2>3, <2>4
  <2>6. \A a \in DOMAIN z : z[a] = (m + 1) + a - 1
    <3> SUFFICES ASSUME NEW a \in DOMAIN z PROVE z[a] = (m + 1) + a - 1
      OBVIOUS
    <3>1. z[a] = q[a + 1] /\ a + 1 \in DOMAIN q /\ a \in Nat
      BY <1>1
    <3>2. q[a + 1] = m + (a + 1) - 1
      BY <2>1, <3>1
    <3> QED BY <3>1, <3>2, SMT
  <2> QED BY <2>4, <2>5, <2>6 DEF Shape
<1>7. DOMAIN g \in Shape(kind[d])
  <2>1. CASE kind[s] = "array"
    BY <1>0, <1>6, <2>1
  <2>2. CASE kind[s] = "object"
    <3>1. DOMAIN src \in SUBSET TreeKeys /\ DOMAIN f \in SUBSET TreeKeys /\ kind[d] = "object"
      BY <1>0, <1>5, <2>2 DEF Shape
    <3>2. DOMAIN g \in SUBSET TreeKeys
      BY <1>3, <1>4, <3>1
    <3> QED BY <3>1, <3>2 DEF Shape
  <2>3. CASE kind[s] # "array" /\ kind[s] # "object"
    <3>1. DOMAIN src = {}
      BY <1>0, <1>5, <2>3 DEF Shape
    <3> QED BY <1>3, <3>1
  <2> QED BY <2>1, <2>2, <2>3
<1>8. DifferAt(f, g, h, v)
  BY <1>4 DEF DifferAt
<1>9. IsFiniteSet(DOMAIN f) /\ \A x \in DOMAIN f : f[x] \in Nodes \cup {Null}
  BY <1>0, SlotsFinite, Zenon DEF Slotted
<1>10. IsFiniteSet(DOMAIN g)
  <2> DEFINE D == DOMAIN f
  <2>1. IsFiniteSet(D)
    BY <1>9
  <2> HIDE DEF D
  <2>2. IsFiniteSet(D \cup {h})
    BY <2>1, FS_AddElement, Zenon
  <2> QED BY <1>4, <2>2 DEF D
<1>11. to = [sl EXCEPT ![d] = g]
  BY <1>0, Zenon DEF h
<1>12. to[d] = g
  BY <1>0, <1>11, Zenon DEF Slotted
<1> DEFINE p == IF h \in DOMAIN f THEN Tree!Putting(<<f[h]>>) ELSE <<>>
<1>13. p = <<>>
  BY <1>3
<1>14. Paid(p, f, g, v) /\ Fed(f, g, v)
  <2> HIDE DEF g
  <2> QED BY <1>8, <1>9, <1>10, SlotPaid, Zenon
<1>15. Replaced(sl, to, d, g)
  BY <1>11 DEF Replaced
<1> HIDE DEF g, p
<1>16. Edited(sl, to, d) /\ Shaped(kind, to)
  BY <1>0, <1>7, <1>14, <1>15, EditTyped, Zenon
<1>17. Remaining(z, src, g, kind[s] = "array")
  <2>1. ASSUME NEW a \in DOMAIN z, NEW b \in DOMAIN z, z[a] = z[b] PROVE a = b
    <3>1. q[a + 1] = q[b + 1] /\ a + 1 \in DOMAIN q /\ b + 1 \in DOMAIN q /\ a \in Nat /\ b \in Nat
      BY <1>1, <2>1
    <3>2. a + 1 = b + 1
      BY <1>2, <3>1
    <3> QED BY <3>1, <3>2, SMT
  <2>2. ASSUME NEW a \in DOMAIN z PROVE z[a] \in DOMAIN src /\ z[a] \notin DOMAIN g
    <3>1. z[a] = q[a + 1] /\ a + 1 \in DOMAIN q /\ a + 1 # 1
      BY <1>1
    <3>2. q[a + 1] # q[1]
      BY <1>1, <1>2, <3>1
    <3> QED BY <1>1, <1>2, <1>4, <3>1, <3>2
  <2>3. ASSUME NEW x \in DOMAIN src PROVE x \in DOMAIN g \/ \E a \in DOMAIN z : z[a] = x
    <3>1. CASE x \in DOMAIN f
      BY <1>4, <3>1
    <3>2. CASE x \notin DOMAIN f
      <4>1. PICK a \in DOMAIN q : q[a] = x
        BY <1>2, <3>2
      <4> QED BY <1>1, <1>4, <4>1
    <3> QED BY <3>1, <3>2
  <2>4. DOMAIN g \subseteq DOMAIN src
    BY <1>2, <1>3, <1>4
  <2> QED BY <1>6, <2>1, <2>2, <2>3, <2>4 DEF Remaining
<1>18. Paid(<<>>, f, g, v)
  BY <1>13, <1>14
<1>19. Slotted(to)
  BY <1>16, Zenon DEF Edited
<1> QED BY <1>3, <1>4, <1>12, <1>14, <1>16, <1>17, <1>18, <1>19 DEF Gained, src, h, z

\* What a level has to do with does not change.
Untouched(r) ==
    /\ kind'[r.src] = kind[r.src] /\ kind'[r.dst] = kind[r.dst] /\ held'[r.dst] = held[r.dst]
    /\ slots'[r.src] = slots[r.src] /\ slots'[r.dst] = slots[r.dst]
    /\ Cardinality(Holders(slots', r.dst)) = Cardinality(Holders(slots, r.dst))

\* Such a level stays as it is.
LEMMA LevelStays ==
    ASSUME NEW r, Level(kind, held, slots, r), Untouched(r)
    PROVE  Level(kind', held', slots', r)
BY Zenon DEF Level, Untouched

\* Two records of the same level.
SameFields(r, r2) == r2.src = r.src /\ r2.dst = r.dst /\ r2.todo = r.todo

\* The fields are what a level is.
LEMMA SameLevel ==
    ASSUME NEW k, NEW h, NEW sl, NEW r, NEW r2, Level(k, h, sl, r), SameFields(r, r2)
    PROVE  Level(k, h, sl, r2)
BY Zenon DEF Level, SameFields

\* v is held once more.
HeldMore(sl, to, v) == \A n \in Nodes : Cardinality(Holders(to, n)) = Cardinality(Holders(sl, n)) + One(n = v)

\* That is so when a container gains v and loses nothing.
LEMMA HoldersPaid ==
    ASSUME Tree!TreeAssumption, NEW sl, NEW to, NEW p, Edited(sl, to, p), NEW v, Paid(<<>>, sl[p], to[p], v)
    PROVE  HeldMore(sl, to, v)
<1>1. ASSUME NEW n \in Nodes PROVE Cardinality(Holders(to, n)) = Cardinality(Holders(sl, n)) + One(n = v)
  <2>1. /\ Cardinality(Holders(sl, n)) \in Nat /\ Cardinality(Holders(to, n)) \in Nat
        /\ Num(sl[p], n) \in Nat /\ Num(to[p], n) \in Nat
        /\ Cardinality(Holders(to, n)) + Num(sl[p], n) = Cardinality(Holders(sl, n)) + Num(to[p], n)
    BY HoldersChanged, SMT
  <2>2. Num(<<>>, n) + Num(to[p], n) = Num(sl[p], n) + One(n = v)
    BY Zenon DEF Paid
  <2>3. Num(<<>>, n) = 0
    BY NumEmpty
  <2>4. One(n = v) \in Nat
    BY DEF One
  <2> DEFINE a == Cardinality(Holders(sl, n))
             b == Cardinality(Holders(to, n))
             x == Num(sl[p], n)
             y == Num(to[p], n)
             o == One(n = v)
  <2>5. a \in Nat /\ b \in Nat /\ x \in Nat /\ y \in Nat /\ o \in Nat /\ b + x = a + y /\ 0 + y = x + o
    BY <2>1, <2>2, <2>3, <2>4
  <2> HIDE DEF a, b, x, y, o
  <2>6. b = a + o
    BY <2>5, SMT
  <2> QED BY <2>6 DEF a, b, o
<1> QED BY <1>1, Zenon DEF HeldMore

\* With the first slot of the top level done, the levels are as far apart.
LEMMA PoppedApart ==
    ASSUME NEW c, NEW c2, Popped(c, c2), Apart(c)
    PROVE  Apart(c2)
<1>1. DOMAIN c2 = DOMAIN c /\ \A i \in DOMAIN c : c2[i].src = c[i].src /\ c2[i].dst = c[i].dst
  BY Zenon DEF Popped
<1>2. \A i, j \in DOMAIN c : c[i].src # c[j].dst /\ (c[i].dst = c[j].dst => i = j)
  BY Zenon DEF Apart
<1>3. ASSUME NEW i \in DOMAIN c2, NEW j \in DOMAIN c2 PROVE c2[i].src # c2[j].dst /\ (c2[i].dst = c2[j].dst => i = j)
  <2>1. c2[i].src = c[i].src /\ c2[i].dst = c[i].dst /\ c2[j].dst = c[j].dst
    BY <1>1
  <2> QED BY <1>1, <1>2, <2>1
<1> QED BY <1>3 DEF Apart

\* json_object_deep_copy begins.
LEMMA CopyBeginKeepsTree ==
    ASSUME Tree!TreeAssumption, TreeInv, NEW s \in Nodes, NEW d \in Nodes, Tree!CopyBegin(s, d)
    PROVE  TreeInv'
<1>1. /\ puts = <<>> /\ copy = <<>> /\ s \in Tree!Known /\ Tree!Create(d, kind[s], leaf[s], "none")
      /\ copy' = <<Tree!Frame(s, d)>> /\ done' = <<>> /\ UNCHANGED <<held, puts>>
  BY Zenon DEF Tree!CopyBegin, Tree!Quiet
<1>2. kind[s] # "free" /\ kind[d] = "free"
  BY <1>1, KnownExists, Zenon DEF Tree!Create
<1>3. /\ held \in [Nodes -> 0 .. MaxHeld] /\ puts \in Seq(Nodes) /\ Dsts \in Seq(Nodes)
      /\ TreeTyped /\ Uncounted(kind, held, puts, Dsts, slots)
  BY TreeParts
<1>4. kind[s] \in {"object", "array", "leaf"} /\ leaf[s] \in {0, 1} /\ "none" \in {"none", "known"}
  <2>1. kind \in [Nodes -> {"free", "object", "array", "leaf"}] /\ leaf \in [Nodes -> {0, 1}]
    BY <1>3, Zenon DEF TreeTyped
  <2> QED BY <1>2, <2>1
<1>5. Dsts' = <<d>> /\ Dsts = <<>> /\ <<d>> \in Seq(Nodes)
  <2>1. DOMAIN copy' = {1} /\ copy'[1].dst = d /\ DOMAIN <<d>> = {1} /\ <<d>>[1] = d
    BY <1>1 DEF Tree!Frame
  <2>2. [i \in DOMAIN copy' |-> copy'[i].dst] = [i \in {1} |-> d]
    BY <2>1
  <2>3. <<d>> = [i \in {1} |-> d]
    OBVIOUS
  <2>4. Dsts' = <<d>>
    BY <2>2, <2>3, Zenon DEF Dsts
  <2>5. Dsts = <<>>
    BY <1>1 DEF Dsts
  <2> QED BY <2>4, <2>5
<1>6. NewRef(held, Dsts, held, <<d>>, d)
  <2> SUFFICES ASSUME NEW m \in Nodes
               PROVE  held[m] = held[m] /\ Num(<<d>>, m) = Num(Dsts, m) + One(m = d)
    BY Zenon DEF NewRef
  <2>1. Num(Dsts, m) = 0
    BY <1>5, NumEmpty
  <2>2. Num(<<d>>, m) = One(d = m)
    BY NumSingle, Zenon
  <2>3. One(d = m) = 0 + One(m = d)
    <3>1. One(d = m) = One(m = d) /\ One(m = d) \in Nat
      BY DEF One
    <3> QED BY <3>1, SMT
  <2> QED BY <2>1, <2>2, <2>3, Zenon
<1>7. /\ Exact(kind', ref', held, puts, <<d>>, slots') /\ Acyclic(slots') /\ Kept(kind', held, puts, <<d>>, slots')
      /\ Slotted(slots') /\ Shaped(kind', slots')
      /\ kind' \in [Nodes -> {"free", "object", "array", "leaf"}] /\ ref' \in [Nodes -> Nat]
      /\ leaf' \in [Nodes -> {0, 1}] /\ data' \in [Nodes -> {"none", "known", "own"}]
      /\ DOMAIN slots'[d] = {} /\ kind'[d] = kind[s]
      /\ \A m \in Nodes : m # d => kind'[m] = kind[m] /\ slots'[m] = slots[m]
      /\ \A m \in Nodes : Cardinality(Holders(slots', m)) = Cardinality(Holders(slots, m))
  BY <1>1, <1>3, <1>4, <1>5, <1>6, CreateHangs, Zenon
<1>8. /\ Tree!Order(s) \in Seq(SlotNames)
      /\ \A g : DOMAIN g = {} => Remaining(Tree!Order(s), slots[s], g, kind[s] = "array")
  BY OrderRemains, Zenon
<1> DEFINE r == Tree!Frame(s, d)
<1>9. r.src = s /\ r.dst = d /\ r.todo = Tree!Order(s) /\ r \in FrameType
  <2> DEFINE q == Tree!Order(s)
  <2>1. q \in Seq(SlotNames)
    BY <1>8
  <2>2. r = [src |-> s, dst |-> d, todo |-> q]
    BY Zenon DEF Tree!Frame
  <2> HIDE DEF q, r
  <2>3. r.src = s /\ r.dst = d /\ r.todo = q /\ r \in FrameType
    BY <2>1, <2>2, SMT DEF FrameType
  <2> QED BY <2>3 DEF q
<1> HIDE DEF r
<1>10. copy' \in Seq(FrameType) /\ DOMAIN copy' = {1} /\ copy'[1] = r
  BY <1>1, <1>9 DEF r
<1>11. held[d] = 0 /\ Cardinality(Holders(slots', d)) = 0
  BY <1>2, <1>3, <1>7, Zenon DEF Uncounted
<1>12. s # d
  BY <1>2
<1>13. Level(kind', held', slots', r)
  <2>1. kind'[s] = kind[s] /\ slots'[s] = slots[s] /\ held' = held
    BY <1>1, <1>7, <1>12
  <2>2. Remaining(Tree!Order(s), slots'[s], slots'[d], kind'[s] = "array")
    BY <1>7, <1>8, <2>1, Zenon
  <2>3. kind'[s] # "free" /\ kind'[d] = kind'[s] /\ held'[d] = 0
    BY <1>2, <1>7, <1>11, <2>1
  <2> QED BY <1>9, <1>11, <2>2, <2>3 DEF Level
<1>14. Levels'
  <2>1. \A i \in DOMAIN copy' : copy'[i] = r /\ i = 1
    BY <1>10
  <2>2. Apart(copy')
    BY <1>9, <1>12, <2>1 DEF Apart
  <2>3. \A i \in DOMAIN copy' : Level(kind', held', slots', copy'[i]) /\ (i # 1 => copy'[i].todo # <<>>)
    BY <1>13, <2>1
  <2> QED BY <2>2, <2>3, Zenon DEF Levels
<1>15. TreeTyped'
  BY <1>1, <1>3, <1>7, <1>10, Zenon DEF TreeTyped
<1>16. Exact(kind, ref, held, puts, Dsts, slots)' /\ Acyclic(slots)' /\ Kept(kind, held, puts, Dsts, slots)'
  BY <1>1, <1>5, <1>7, Zenon
<1>17. puts' = <<>>
  BY <1>1
<1> QED BY <1>14, <1>15, <1>16, <1>17, Zenon DEF TreeInv

\* What a deep copy in progress is like.
LEMMA CopyParts ==
    ASSUME Tree!TreeAssumption, TreeInv, copy # <<>>
    PROVE  /\ copy \in Seq(FrameType) /\ 1 \in DOMAIN copy /\ puts = <<>>
           /\ \A i \in DOMAIN copy : /\ copy[i].src \in Nodes /\ copy[i].dst \in Nodes
                                     /\ copy[i].todo \in Seq(SlotNames) /\ (i # 1 => copy[i].todo # <<>>)
                                     /\ Level(kind, held, slots, copy[i])
                                     /\ kind[copy[i].src] # "free" /\ kind[copy[i].dst] # "free"
                                     /\ kind[copy[i].dst] = kind[copy[i].src]
                                     /\ held[copy[i].dst] = 0
                                     /\ Cardinality(Holders(slots, copy[i].dst)) = 0
           /\ Apart(copy)
<1>1. copy \in Seq(FrameType) /\ Levels /\ puts = <<>>
  BY Zenon DEF TreeInv, TreeTyped
<1>2. /\ 1 \in DOMAIN copy
      /\ \A i \in DOMAIN copy : copy[i].src \in Nodes /\ copy[i].dst \in Nodes /\ copy[i].todo \in Seq(SlotNames)
  BY <1>1, FrameParts, SMT
<1>3. /\ \A i \in DOMAIN copy : Level(kind, held, slots, copy[i]) /\ (i # 1 => copy[i].todo # <<>>)
      /\ Apart(copy)
  BY <1>1, Zenon DEF Levels
<1>4. ASSUME NEW i \in DOMAIN copy
      PROVE  /\ kind[copy[i].src] # "free" /\ kind[copy[i].dst] # "free"
             /\ kind[copy[i].dst] = kind[copy[i].src]
             /\ held[copy[i].dst] = 0 /\ Cardinality(Holders(slots, copy[i].dst)) = 0
  <2>1. Level(kind, held, slots, copy[i])
    BY <1>3
  <2>2. /\ kind[copy[i].src] # "free" /\ kind[copy[i].dst] = kind[copy[i].src]
        /\ held[copy[i].dst] = 0 /\ Cardinality(Holders(slots, copy[i].dst)) = 0
    BY <2>1, Zenon DEF Level
  <2> QED BY <2>2
<1> QED BY <1>1, <1>2, <1>3, <1>4, Zenon

\* A NULL is added to the copy.
LEMMA CopyNullKeepsTree ==
    ASSUME Tree!TreeAssumption, TreeInv, Tree!CopyNull
    PROVE  TreeInv'
<1> DEFINE s == copy[1].src
           d == copy[1].dst
           q == copy[1].todo
<1>1. /\ copy # <<>> /\ q # <<>>
      /\ slots' = [slots EXCEPT ![d] = Tree!With(slots[d], Head(q), Null)]
      /\ copy' = [copy EXCEPT ![1].todo = Tail(copy[1].todo)]
      /\ UNCHANGED <<kind, leaf, ref, data, held, puts, done>>
  BY Zenon DEF Tree!CopyNull, Tree!Top
<1>2. /\ copy \in Seq(FrameType) /\ 1 \in DOMAIN copy /\ puts = <<>> /\ Apart(copy)
      /\ s \in Nodes /\ d \in Nodes /\ q \in Seq(SlotNames)
      /\ kind[d] = kind[s] /\ kind[d] # "free" /\ Level(kind, held, slots, copy[1])
  BY <1>1, CopyParts, Zenon
<1>3. Remaining(q, slots[s], slots[d], kind[s] = "array")
  BY <1>2, Zenon DEF Level
<1>4. s # d
  BY <1>2, Zenon DEF Apart
<1>5. Popped(copy, copy')
  BY <1>1, <1>2, PopFrame
<1>6. /\ TreeTyped /\ Slotted(slots) /\ Shaped(kind, slots) /\ held \in [Nodes -> 0 .. MaxHeld]
      /\ Dsts \in Seq(Nodes) /\ Acyclic(slots) /\ puts \in Seq(Nodes)
      /\ Exact(kind, ref, held, puts, Dsts, slots) /\ Kept(kind, held, puts, Dsts, slots)
  BY TreeParts
<1> HIDE DEF s, d, q
<1>7. Growing(slots, s, d, q, Null, slots') /\ Null \in Nodes \cup {Null}
  BY <1>1, <1>2, <1>3, <1>6 DEF Growing
<1>8. /\ Edited(slots, slots', d) /\ Shaped(kind, slots')
      /\ Paid(<<>>, slots[d], slots'[d], Null) /\ Fed(slots[d], slots'[d], Null)
      /\ Remaining(Tail(q), slots[s], slots'[d], kind[s] = "array")
      /\ HeldMore(slots, slots', Null)
  <2>1. Gained(slots, s, d, q, Null, slots')
    BY <1>7, LevelGrows, Zenon
  <2>2. /\ Edited(slots, slots', d) /\ Shaped(kind, slots')
        /\ Paid(<<>>, slots[d], slots'[d], Null) /\ Fed(slots[d], slots'[d], Null)
        /\ Remaining(Tail(q), slots[s], slots'[d], kind[s] = "array")
    BY <2>1, Zenon DEF Gained
  <2> QED BY <2>2, HoldersPaid, Zenon
<1>9. /\ Slotted(slots') /\ \A x \in Nodes : x # d => slots'[x] = slots[x]
  BY <1>8, Zenon DEF Edited
<1>10. Accounted(held, held, <<>>, <<>>, slots[d], slots'[d], Null)
  <2> SUFFICES ASSUME NEW m \in Nodes
               PROVE  /\ Num(<<>>, m) + Num(slots'[d], m) = Num(<<>>, m) + Num(slots[d], m) + One(m = Null)
                      /\ held[m] + One(m = Null) = held[m]
    BY Zenon DEF Accounted
  <2>1. One(m = Null) = 0 /\ m # Null
    BY TreeConstants DEF One
  <2>2. held[m] + 0 = held[m] /\ \A a \in Nat : 0 + a + 0 = 0 + a
    <3>1. held[m] \in 0 .. MaxHeld
      BY <1>6
    <3> QED BY <3>1, TreeConstants, SMT
  <2>3. Num(<<>>, m) = 0
    BY NumEmpty
  <2>4. Num(slots[d], m) \in Nat /\ Num(slots'[d], m) \in Nat
    BY <1>2, <1>6, <1>9, NumEdge, Zenon
  <2>5. Num(<<>>, m) + Num(slots'[d], m) = Num(slots[d], m) + One(m = Null)
    BY <1>8, Zenon DEF Paid
  <2>6. \A a \in Nat, b \in Nat : 0 + b = a + 0 => 0 + b = 0 + a + 0
    BY SMT
  <2>7. 0 + Num(slots'[d], m) = Num(slots[d], m) + 0
    BY <2>1, <2>3, <2>5, Zenon
  <2>8. 0 + Num(slots'[d], m) = 0 + Num(slots[d], m) + 0
    BY <2>4, <2>6, <2>7, Zenon
  <2> QED BY <2>1, <2>2, <2>3, <2>8, Zenon
<1>11. <<>> \in Seq(Nodes) /\ \A m : m # Null => TRUE
  BY EmptySeq
<1>12. Exact(kind, ref, held, <<>>, Dsts, slots) /\ Kept(kind, held, <<>>, Dsts, slots)
  BY <1>2, <1>6, Zenon
<1>13. Exact(kind, ref, held, <<>>, Dsts, slots')
  BY <1>6, <1>8, <1>10, <1>11, <1>12, EditExact, Zenon
<1>14. Acyclic(slots')
  <2>1. Null # Null => d \notin ReachIn(slots, {Null})
    OBVIOUS
  <2> QED BY <1>6, <1>7, <1>8, <2>1, EditAcyclic, Zenon
<1>15. Kept(kind, held, <<>>, Dsts, slots')
  <2>1. Null # Null => d \notin ReachIn(slots, {Null})
    OBVIOUS
  <2> QED BY <1>2, <1>6, <1>7, <1>8, <1>10, <1>11, <1>12, <2>1, EditKept, Zenon
<1>16. Dsts' = Dsts
  <2>1. DOMAIN copy' = DOMAIN copy /\ \A i \in DOMAIN copy : copy'[i].dst = copy[i].dst
    BY <1>5, Zenon DEF Popped
  <2>2. [i \in DOMAIN copy' |-> copy'[i].dst] = [i \in DOMAIN copy |-> copy[i].dst]
    BY <2>1
  <2> QED BY <2>2 DEF Dsts
<1>17. ASSUME NEW i \in DOMAIN copy PROVE Level(kind', held', slots', copy'[i])
  <2>0. /\ copy[i].src \in Nodes /\ copy[i].dst \in Nodes /\ Level(kind, held, slots, copy[i])
        /\ copy'[i].src = copy[i].src /\ copy'[i].dst = copy[i].dst /\ (i # 1 => copy'[i].todo = copy[i].todo)
    BY <1>1, <1>5, CopyParts, Zenon DEF Popped
  <2>1. Cardinality(Holders(slots', copy[i].dst)) = Cardinality(Holders(slots, copy[i].dst))
    <3>1. One(copy[i].dst = Null) = 0 /\ Cardinality(Holders(slots, copy[i].dst)) \in Nat
      <4>1. copy[i].dst # Null
        BY <2>0, TreeConstants
      <4> QED BY <1>6, <2>0, <4>1, HolderCounts, Zenon DEF One
    <3>2. Cardinality(Holders(slots', copy[i].dst)) = Cardinality(Holders(slots, copy[i].dst)) + One(copy[i].dst = Null)
      BY <1>8, <2>0, Zenon DEF HeldMore
    <3> QED BY <3>1, <3>2, SMT
  <2>2. copy[i].src # d
    BY <1>2, Zenon DEF Apart, d
  <2>3. CASE i = 1
    <3>1. copy'[1].src = s /\ copy'[1].dst = d /\ copy'[1].todo = Tail(q)
      BY <1>5, <2>0, <2>3, Zenon DEF Popped, s, d, q
    <3>2. slots'[s] = slots[s]
      BY <1>2, <1>4, <1>9
    <3>3. /\ kind[s] # "free" /\ kind[d] = kind[s] /\ held[d] = 0
          /\ Cardinality(Holders(slots', d)) = 0
      BY <2>0, <2>1, <2>3, Zenon DEF Level, s, d
    <3>4. /\ kind'[s] # "free" /\ kind'[d] = kind'[s] /\ held'[d] = 0
          /\ Cardinality(Holders(slots', d)) = 0
          /\ Remaining(Tail(q), slots'[s], slots'[d], kind'[s] = "array")
      BY <1>1, <1>8, <3>2, <3>3, Zenon
    <3> QED BY <2>3, <3>1, <3>4, Zenon DEF Level
  <2>4. CASE i # 1
    <3>1. copy[i].dst # d
      BY <1>2, <2>4, Zenon DEF Apart, d
    <3>2. slots'[copy[i].src] = slots[copy[i].src] /\ slots'[copy[i].dst] = slots[copy[i].dst]
      BY <1>9, <2>0, <2>2, <3>1, Zenon
    <3>3. Untouched(copy[i])
      BY <1>1, <2>1, <3>2, Zenon DEF Untouched
    <3>4. Level(kind', held', slots', copy[i]) /\ SameFields(copy[i], copy'[i])
      BY <2>0, <2>4, <3>3, LevelStays, Zenon DEF SameFields
    <3> QED BY <3>4, SameLevel, Zenon
  <2> QED BY <2>3, <2>4
<1>18. Levels'
  <2>1. /\ DOMAIN copy' = DOMAIN copy
        /\ \A i \in DOMAIN copy : /\ copy'[i].src = copy[i].src /\ copy'[i].dst = copy[i].dst
                                  /\ (i # 1 => copy'[i].todo = copy[i].todo)
    BY <1>5, Zenon DEF Popped
  <2>2. Apart(copy')
    BY <1>2, <1>5, PoppedApart, Zenon
  <2>3. \A i \in DOMAIN copy : i # 1 => copy'[i].todo # <<>>
    BY <1>1, <2>1, CopyParts, Zenon
  <2> QED BY <1>17, <2>1, <2>2, <2>3, Zenon DEF Levels
<1>19. copy' \in Seq(FrameType)
  BY <1>5, Zenon DEF Popped
<1>20. TreeTyped'
  BY <1>1, <1>6, <1>8, <1>9, <1>19, Zenon DEF TreeTyped
<1>21. Exact(kind, ref, held, puts, Dsts, slots)' /\ Acyclic(slots)' /\ Kept(kind, held, puts, Dsts, slots)'
  <2>1. puts' = <<>> /\ kind' = kind /\ ref' = ref /\ held' = held
    BY <1>1, <1>2
  <2> QED BY <1>13, <1>14, <1>15, <1>16, <2>1, Zenon
<1>22. puts' = <<>>
  BY <1>1, <1>2
<1> QED BY <1>18, <1>20, <1>21, <1>22, Zenon DEF TreeInv

\* A sequence is a function.
LEMMA SeqIsFunction ==
    ASSUME NEW S, NEW u \in Seq(S), NEW D, D = DOMAIN u
    PROVE  u = [i \in D |-> u[i]]
<1>1. u = [i \in DOMAIN u |-> u[i]]
  OBVIOUS
<1> QED BY <1>1

\* The copies that levels make.
DstsOf(c) == [i \in DOMAIN c |-> c[i].dst]

\* The levels c with another one on top.
Pushed(c, f, c2) ==
    /\ c2 \in Seq(FrameType) /\ 1 \in DOMAIN c2 /\ c2[1] = f
    /\ \A i \in DOMAIN c2 : i = 1 \/ (i - 1 \in DOMAIN c /\ i - 1 \in Nat /\ c2[i] = c[i - 1])
    /\ DstsOf(c2) = <<f.dst>> \o DstsOf(c)

\* That is what CopyChild does with it.
LEMMA PushFrame ==
    ASSUME NEW c \in Seq(FrameType), NEW f \in FrameType
    PROVE  Pushed(c, f, <<f>> \o c)
<1> DEFINE c2 == <<f>> \o c
           n == Len(c)
           e == DstsOf(c)
<1>1. n \in Nat /\ DOMAIN c = 1 .. n /\ <<f>> \in Seq(FrameType) /\ Len(<<f>>) = 1
  BY SMT
<1>2. /\ c2 \in Seq(FrameType) /\ Len(c2) = 1 + n /\ DOMAIN c2 = 1 .. 1 + n
      /\ \A i \in 1 .. 1 + n : c2[i] = IF i = 1 THEN f ELSE c[i - 1]
  BY <1>1, SMT
<1>3. e \in Seq(Nodes) /\ Len(e) = n /\ \A i \in 1 .. n : e[i] = c[i].dst
  BY <1>1, DstsSeq, Zenon DEF DstsOf
<1>4. f.dst \in Nodes
  BY SMT DEF FrameType
<1> HIDE DEF c2, n, e
<1>5. /\ <<f.dst>> \o e \in Seq(Nodes) /\ DOMAIN (<<f.dst>> \o e) = 1 .. 1 + n
      /\ \A i \in 1 .. 1 + n : (<<f.dst>> \o e)[i] = IF i = 1 THEN f.dst ELSE e[i - 1]
  BY <1>1, <1>3, <1>4, SMT
<1>6. \A i \in 1 .. 1 + n : i = 1 \/ (i - 1 \in 1 .. n /\ i - 1 \in Nat)
  BY <1>1, SMT
<1>7. \A i \in 1 .. 1 + n : c2[i].dst = (<<f.dst>> \o e)[i]
  <2> SUFFICES ASSUME NEW i \in 1 .. 1 + n PROVE c2[i].dst = (<<f.dst>> \o e)[i]
    OBVIOUS
  <2>1. CASE i = 1
    <3>1. c2[i] = f /\ (<<f.dst>> \o e)[i] = f.dst
      BY <1>2, <1>5, <2>1
    <3> QED BY <3>1
  <2>2. CASE i # 1
    <3>1. c2[i] = c[i - 1] /\ (<<f.dst>> \o e)[i] = e[i - 1] /\ i - 1 \in 1 .. n
      BY <1>2, <1>5, <1>6, <2>2
    <3>2. e[i - 1] = c[i - 1].dst
      BY <1>3, <3>1
    <3> QED BY <3>1, <3>2
  <2> QED BY <2>1, <2>2
<1>8. DstsOf(c2) = <<f.dst>> \o e
  <2> DEFINE u == <<f.dst>> \o e
  <2>0. u \in Seq(Nodes) /\ DOMAIN u = 1 .. 1 + n
    BY <1>5
  <2>2. \A i \in 1 .. 1 + n : c2[i].dst = u[i]
    BY <1>7
  <2> HIDE DEF u
  <2>1. u = [i \in 1 .. 1 + n |-> u[i]]
    BY <2>0, SeqIsFunction, Zenon
  <2>3. DstsOf(c2) = [i \in 1 .. 1 + n |-> u[i]]
    BY <1>2, <2>2 DEF DstsOf
  <2> QED BY <2>1, <2>3 DEF u
<1>9. 1 \in DOMAIN c2 /\ c2[1] = f
  BY <1>1, <1>2, SMT
<1>10. \A i \in DOMAIN c2 : i = 1 \/ (i - 1 \in DOMAIN c /\ i - 1 \in Nat /\ c2[i] = c[i - 1])
  BY <1>1, <1>2, <1>6 DEF n
<1> QED BY <1>2, <1>8, <1>9, <1>10 DEF Pushed, c2, e

\* The levels c without the top one, which is done in the one below.
Returned(c, c2) ==
    /\ c2 \in Seq(FrameType)
    /\ \A i \in DOMAIN c2 : /\ i \in Nat /\ i + 1 \in DOMAIN c /\ i + 1 # 1
                            /\ c2[i].src = c[i + 1].src /\ c2[i].dst = c[i + 1].dst
                            /\ (i # 1 => c2[i].todo = c[i + 1].todo)
    /\ 1 \in DOMAIN c2 /\ c2[1].todo = Tail(c[2].todo)
    /\ DstsOf(c) \in Seq(Nodes) /\ DstsOf(c) # <<>>
    /\ DstsOf(c2) = Tail(DstsOf(c)) /\ Head(DstsOf(c)) = c[1].dst

\* That is what CopyUp does.
LEMMA ReturnFrame ==
    ASSUME NEW c \in Seq(FrameType), c # <<>>, Len(c) # 1, c[2].todo # <<>>
    PROVE  Returned(c, [Tail(c) EXCEPT ![1].todo = Tail(Tail(c)[1].todo)]) /\ 2 \in DOMAIN c
<1> DEFINE z == Tail(c)
           c2 == [z EXCEPT ![1].todo = Tail(z[1].todo)]
           n == Len(c)
           e == DstsOf(c)
<1>1. /\ n \in Nat /\ n >= 2 /\ DOMAIN c = 1 .. n /\ 2 \in DOMAIN c /\ z \in Seq(FrameType) /\ DOMAIN z = 1 .. n - 1
      /\ z # <<>> /\ \A i \in 1 .. n - 1 : z[i] = c[i + 1]
  <2>1. n \in Nat /\ DOMAIN c = 1 .. n /\ (n = 0 <=> c = <<>>)
    BY EmptySeq, SMT
  <2>2. n >= 2 /\ 2 \in 1 .. n /\ n - 1 # 0
    BY <2>1, SMT
  <2>3. z \in Seq(FrameType) /\ Len(z) = n - 1 /\ \A i \in 1 .. Len(z) : z[i] = c[i + 1]
    BY HeadTailProperties, Zenon
  <2>4. DOMAIN z = 1 .. n - 1 /\ z # <<>>
    BY <2>2, <2>3, SMT
  <2> QED BY <2>1, <2>2, <2>3, <2>4
<1>2. /\ 1 \in 1 .. n - 1 /\ z[1] = c[2]
      /\ \A i \in 1 .. n - 1 : i \in Nat /\ i + 1 \in 1 .. n /\ i + 1 # 1
  <2>1. /\ 1 \in 1 .. n - 1 /\ 1 + 1 = 2
        /\ \A i \in 1 .. n - 1 : i \in Nat /\ i + 1 \in 1 .. n /\ i + 1 # 1
    BY <1>1, SMT
  <2>2. z[1] = c[1 + 1]
    BY <1>1, <2>1
  <2> QED BY <2>1, <2>2
<1> HIDE DEF z, n, e
<1>3. Popped(z, c2)
  <2>1. z[1].todo # <<>>
    BY <1>2
  <2> QED BY <1>1, <2>1, PopFrame
<1> HIDE DEF c2
<1>4. /\ c2 \in Seq(FrameType) /\ DOMAIN c2 = 1 .. n - 1 /\ c2[1].todo = Tail(c[2].todo)
      /\ \A i \in 1 .. n - 1 : c2[i].src = z[i].src /\ c2[i].dst = z[i].dst /\ (i # 1 => c2[i].todo = z[i].todo)
  BY <1>1, <1>2, <1>3 DEF Popped
<1>5. ASSUME NEW i \in 1 .. n - 1
      PROVE  /\ i \in Nat /\ i + 1 \in DOMAIN c /\ i + 1 # 1
             /\ c2[i].src = c[i + 1].src /\ c2[i].dst = c[i + 1].dst
             /\ (i # 1 => c2[i].todo = c[i + 1].todo)
  <2>1. z[i] = c[i + 1] /\ i \in Nat /\ i + 1 \in 1 .. n /\ i + 1 # 1
    BY <1>1, <1>2
  <2> QED BY <1>1, <1>4, <2>1
<1>6. e \in Seq(Nodes) /\ Len(e) = n /\ DOMAIN e = 1 .. n /\ \A i \in 1 .. n : e[i] = c[i].dst
  <2>1. e \in Seq(Nodes) /\ Len(e) = n
    BY <1>1, DstsSeq, Zenon DEF DstsOf, e, n
  <2>2. DOMAIN e = 1 .. n /\ \A i \in 1 .. n : e[i] = c[i].dst
    BY <1>1 DEF DstsOf, e
  <2> QED BY <2>1, <2>2
<1>7. /\ e # <<>> /\ Head(e) = e[1] /\ Tail(e) \in Seq(Nodes) /\ DOMAIN Tail(e) = 1 .. n - 1
      /\ \A i \in 1 .. n - 1 : Tail(e)[i] = e[i + 1]
  BY <1>1, <1>6, HeadTailProperties, SMT
<1>8. DstsOf(c2) = Tail(e)
  <2> DEFINE u == Tail(e)
  <2>0. u \in Seq(Nodes) /\ DOMAIN u = 1 .. n - 1
    BY <1>7
  <2>2. \A i \in 1 .. n - 1 : c2[i].dst = u[i]
    <3> SUFFICES ASSUME NEW i \in 1 .. n - 1 PROVE c2[i].dst = u[i]
      OBVIOUS
    <3>1. u[i] = e[i + 1] /\ i + 1 \in 1 .. n
      BY <1>2, <1>7
    <3>2. e[i + 1] = c[i + 1].dst
      BY <1>6, <3>1
    <3> QED BY <1>5, <3>1, <3>2
  <2> HIDE DEF u
  <2>1. u = [i \in 1 .. n - 1 |-> u[i]]
    BY <2>0, SeqIsFunction, Zenon
  <2>3. DstsOf(c2) = [i \in 1 .. n - 1 |-> u[i]]
    BY <1>4, <2>2 DEF DstsOf
  <2> QED BY <2>1, <2>3 DEF u
<1>9. Head(e) = c[1].dst
  <2>1. 1 \in 1 .. n
    BY <1>1, SMT
  <2> QED BY <1>6, <1>7, <2>1
<1>10. Returned(c, c2)
  BY <1>2, <1>4, <1>5, <1>6, <1>7, <1>8, <1>9 DEF Returned, e
<1> QED BY <1>1, <1>10 DEF c2, z

\* The first of a sequence.
LEMMA SeqHead == \A S : \A q \in Seq(S) : q # <<>> => 1 \in DOMAIN q /\ Head(q) = q[1]
BY SMT

\* The copy of a value begins.
LEMMA CopyChildKeepsTree ==
    ASSUME Tree!TreeAssumption, TreeInv, NEW d \in Nodes, Tree!CopyChild(d)
    PROVE  TreeInv'
<1> DEFINE r == copy[1]
           c == slots[r.src][Head(r.todo)]
           f == Tree!Frame(c, d)
<1>1. /\ copy # <<>> /\ r.todo # <<>> /\ c # Null /\ Tree!Create(d, kind[c], leaf[c], "none")
      /\ copy' = <<f>> \o copy /\ UNCHANGED <<held, puts, done>>
  BY Zenon DEF Tree!CopyChild, Tree!Top
<1>2. /\ copy \in Seq(FrameType) /\ 1 \in DOMAIN copy /\ puts = <<>> /\ Apart(copy)
      /\ \A i \in DOMAIN copy : /\ copy[i].src \in Nodes /\ copy[i].dst \in Nodes
                                /\ copy[i].todo \in Seq(SlotNames) /\ (i # 1 => copy[i].todo # <<>>)
                                /\ Level(kind, held, slots, copy[i])
                                /\ kind[copy[i].src] # "free" /\ kind[copy[i].dst] # "free"
                                /\ Cardinality(Holders(slots, copy[i].dst)) = 0
  BY <1>1, CopyParts, Zenon
<1>3. /\ held \in [Nodes -> 0 .. MaxHeld] /\ puts \in Seq(Nodes) /\ Dsts \in Seq(Nodes) /\ EdgesExist(kind, slots)
      /\ TreeTyped /\ Uncounted(kind, held, puts, Dsts, slots) /\ Slotted(slots)
  BY TreeParts
<1>4. /\ r.src \in Nodes /\ Head(r.todo) \in DOMAIN slots[r.src]
  <2>1. r.src \in Nodes /\ r.todo \in Seq(SlotNames) /\ Level(kind, held, slots, r)
    BY <1>2
  <2>2. \A a \in DOMAIN r.todo : r.todo[a] \in DOMAIN slots[r.src]
    BY <2>1, Zenon DEF Level, Remaining
  <2>3. 1 \in DOMAIN r.todo /\ Head(r.todo) = r.todo[1]
    BY <1>1, <2>1, SeqHead, Zenon
  <2> QED BY <2>1, <2>2, <2>3
<1>5. Edge(slots, r.src, c)
  BY <1>1, <1>4, Zenon DEF Edge
<1> HIDE DEF r, c, f
<1>6. c \in Nodes /\ kind[c] # "free" /\ kind[d] = "free" /\ c # d
  <2>1. c \in Nodes /\ kind[c] # "free"
    BY <1>3, <1>4, <1>5, Zenon DEF EdgesExist
  <2>2. kind[d] = "free"
    BY <1>1, Zenon DEF Tree!Create
  <2> QED BY <2>1, <2>2
<1>7. \A i \in DOMAIN copy : c # copy[i].dst
  <2> SUFFICES ASSUME NEW i \in DOMAIN copy, c = copy[i].dst PROVE FALSE
    OBVIOUS
  <2>1. Cardinality(Holders(slots, c)) = 0
    BY <1>2
  <2>2. \A p \in Nodes : \A s \in DOMAIN slots[p] : slots[p][s] # c
    BY <1>3, <2>1, HolderCounts, Zenon
  <2> QED BY <1>4, <1>5, <2>2, Zenon DEF Edge
<1>8. kind[c] \in {"object", "array", "leaf"} /\ leaf[c] \in {0, 1} /\ "none" \in {"none", "known"}
  <2>1. kind \in [Nodes -> {"free", "object", "array", "leaf"}] /\ leaf \in [Nodes -> {0, 1}]
    BY <1>3, Zenon DEF TreeTyped
  <2> QED BY <1>6, <2>1
<1>9. /\ Tree!Order(c) \in Seq(SlotNames)
      /\ \A g : DOMAIN g = {} => Remaining(Tree!Order(c), slots[c], g, kind[c] = "array")
  BY <1>6, OrderRemains, Zenon
<1>10. f.src = c /\ f.dst = d /\ f.todo = Tree!Order(c) /\ f \in FrameType
  <2> DEFINE q == Tree!Order(c)
  <2>1. q \in Seq(SlotNames)
    BY <1>9
  <2>2. f = [src |-> c, dst |-> d, todo |-> q]
    BY Zenon DEF f, Tree!Frame
  <2> HIDE DEF q
  <2>3. f.src = c /\ f.dst = d /\ f.todo = q /\ f \in FrameType
    BY <1>6, <2>1, <2>2, SMT DEF FrameType
  <2> QED BY <2>3 DEF q
<1>11. /\ copy' \in Seq(FrameType) /\ 1 \in DOMAIN copy' /\ copy'[1] = f
       /\ \A i \in DOMAIN copy' : i = 1 \/ (i - 1 \in DOMAIN copy /\ i - 1 \in Nat /\ copy'[i] = copy[i - 1])
       /\ DstsOf(copy') = <<d>> \o DstsOf(copy)
  <2>1. Pushed(copy, f, <<f>> \o copy)
    BY <1>2, <1>10, PushFrame, Zenon
  <2>2. Pushed(copy, f, copy')
    BY <1>1, <2>1
  <2> QED BY <1>10, <2>2 DEF Pushed
<1>12. Dsts' = <<d>> \o Dsts /\ <<d>> \in Seq(Nodes) /\ Dsts' \in Seq(Nodes)
  <2>1. Dsts' = <<d>> \o Dsts
    BY <1>11 DEF DstsOf, Dsts
  <2>2. <<d>> \in Seq(Nodes)
    OBVIOUS
  <2> QED BY <1>3, <2>1, <2>2, ConcatProperties, Zenon
<1> DEFINE d2 == Dsts'
<1>13. NewRef(held, Dsts, held, d2, d)
  <2> SUFFICES ASSUME NEW m \in Nodes
               PROVE  held[m] = held[m] /\ Num(d2, m) = Num(Dsts, m) + One(m = d)
    BY Zenon DEF NewRef
  <2>1. Num(<<d>> \o Dsts, m) = Num(<<d>>, m) + Num(Dsts, m)
    BY <1>3, <1>12, NumConcat, Zenon
  <2>2. Num(<<d>>, m) = One(d = m)
    BY NumSingle, Zenon
  <2>3. One(d = m) = One(m = d) /\ One(m = d) \in Nat
    BY DEF One
  <2>4. Num(Dsts, m) \in Nat
    BY <1>3, CountTyped, Zenon
  <2>5. One(m = d) + Num(Dsts, m) = Num(Dsts, m) + One(m = d)
    <3>1. \A a, b \in Nat : a + b = b + a
      BY SMT
    <3> QED BY <2>3, <2>4, <3>1, Zenon
  <2> QED BY <1>12, <2>1, <2>2, <2>3, <2>5
<1>14. d2 \in Seq(Nodes)
  BY <1>12
<1> HIDE DEF d2
<1>15. /\ Exact(kind', ref', held, puts, d2, slots') /\ Acyclic(slots') /\ Kept(kind', held, puts, d2, slots')
       /\ Slotted(slots') /\ Shaped(kind', slots')
       /\ kind' \in [Nodes -> {"free", "object", "array", "leaf"}] /\ ref' \in [Nodes -> Nat]
       /\ leaf' \in [Nodes -> {0, 1}] /\ data' \in [Nodes -> {"none", "known", "own"}]
       /\ DOMAIN slots'[d] = {} /\ kind'[d] = kind[c]
       /\ \A m \in Nodes : m # d => kind'[m] = kind[m] /\ slots'[m] = slots[m]
       /\ \A m \in Nodes : Cardinality(Holders(slots', m)) = Cardinality(Holders(slots, m))
  BY <1>1, <1>3, <1>8, <1>13, <1>14, CreateHangs, Zenon
<1>16. Level(kind', held', slots', f)
  <2>1. kind'[c] = kind[c] /\ slots'[c] = slots[c] /\ held' = held
    BY <1>1, <1>6, <1>15
  <2>2. Remaining(Tree!Order(c), slots'[c], slots'[d], kind'[c] = "array")
    BY <1>9, <1>15, <2>1, Zenon
  <2>3. held[d] = 0 /\ Cardinality(Holders(slots', d)) = 0
    BY <1>3, <1>6, <1>15, Zenon DEF Uncounted
  <2>4. kind'[c] # "free" /\ kind'[d] = kind'[c] /\ held'[d] = 0
    BY <1>6, <1>15, <2>1, <2>3
  <2> QED BY <1>10, <2>2, <2>3, <2>4 DEF Level
<1>17. ASSUME NEW i \in DOMAIN copy PROVE Level(kind', held', slots', copy[i]) /\ copy[i].src # d /\ copy[i].dst # d
  <2>1. copy[i].src # d /\ copy[i].dst # d /\ copy[i].src \in Nodes /\ copy[i].dst \in Nodes
    BY <1>2, <1>6
  <2>2. Untouched(copy[i])
    BY <1>1, <1>15, <2>1, Zenon DEF Untouched
  <2>3. Level(kind, held, slots, copy[i])
    BY <1>2
  <2> QED BY <2>1, <2>2, <2>3, LevelStays, Zenon
<1>18. \A i \in DOMAIN copy' : Level(kind', held', slots', copy'[i]) /\ (i # 1 => copy'[i].todo # <<>>)
  <2> SUFFICES ASSUME NEW i \in DOMAIN copy'
               PROVE  Level(kind', held', slots', copy'[i]) /\ (i # 1 => copy'[i].todo # <<>>)
    OBVIOUS
  <2>1. CASE i = 1
    BY <1>11, <1>16, <2>1
  <2>2. CASE i # 1
    <3>1. i - 1 \in DOMAIN copy /\ copy'[i] = copy[i - 1]
      BY <1>11, <2>2
    <3>2. copy[i - 1].todo # <<>>
      BY <1>1, <1>2, <3>1 DEF r
    <3> QED BY <1>17, <3>1, <3>2
  <2> QED BY <2>1, <2>2
<1>19. Apart(copy')
  <2> SUFFICES ASSUME NEW i \in DOMAIN copy', NEW j \in DOMAIN copy'
               PROVE  copy'[i].src # copy'[j].dst /\ (copy'[i].dst = copy'[j].dst => i = j)
    BY Zenon DEF Apart
  <2>0. \A m, n \in DOMAIN copy : copy[m].src # copy[n].dst /\ (copy[m].dst = copy[n].dst => m = n)
    BY <1>2, Zenon DEF Apart
  <2>1. CASE i = 1 /\ j = 1
    BY <1>6, <1>10, <1>11, <2>1
  <2>2. CASE i = 1 /\ j # 1
    <3>1. j - 1 \in DOMAIN copy /\ copy'[j] = copy[j - 1]
      BY <1>11, <2>2
    <3> QED BY <1>7, <1>10, <1>11, <1>17, <2>2, <3>1
  <2>3. CASE i # 1 /\ j = 1
    <3>1. i - 1 \in DOMAIN copy /\ copy'[i] = copy[i - 1]
      BY <1>11, <2>3
    <3> QED BY <1>10, <1>11, <1>17, <2>3, <3>1
  <2>4. CASE i # 1 /\ j # 1
    <3>1. /\ i - 1 \in DOMAIN copy /\ copy'[i] = copy[i - 1] /\ i - 1 \in Nat
          /\ j - 1 \in DOMAIN copy /\ copy'[j] = copy[j - 1] /\ j - 1 \in Nat
      BY <1>11, <2>4
    <3>2. copy'[i].src # copy'[j].dst /\ (copy'[i].dst = copy'[j].dst => i - 1 = j - 1)
      BY <2>0, <3>1
    <3>3. i \in Int /\ j \in Int
      <4>1. DOMAIN copy' = 1 .. Len(copy') /\ Len(copy') \in Nat
        BY <1>11, FrameParts, Zenon
      <4> QED BY <4>1, SMT
    <3>4. i - 1 = j - 1 => i = j
      BY <3>3, SMT
    <3> QED BY <3>2, <3>4
  <2> QED BY <2>1, <2>2, <2>3, <2>4
<1>20. Levels'
  BY <1>18, <1>19, Zenon DEF Levels
<1>21. TreeTyped'
  <2>1. held' = held /\ puts' = puts /\ done' = done /\ done \in {<<>>} \cup (Nodes \X Nodes)
    BY <1>1, <1>3, Zenon DEF TreeTyped
  <2> QED BY <1>3, <1>11, <1>15, <2>1, Zenon DEF TreeTyped
<1>22. Exact(kind, ref, held, puts, Dsts, slots)' /\ Acyclic(slots)' /\ Kept(kind, held, puts, Dsts, slots)'
  <2>1. held' = held /\ puts' = puts
    BY <1>1
  <2> QED BY <1>15, <2>1, Zenon DEF d2
<1>23. puts' = <<>>
  BY <1>1, <1>2
<1> QED BY <1>20, <1>21, <1>22, <1>23, Zenon DEF TreeInv

\* A reference of a level becomes one of a slot.
Hung(d, d2, a, b, o) == d \in Nat /\ d2 \in Nat /\ a \in Nat /\ o \in Nat /\ d = o + d2 /\ b = a + o

\* The sum stays.
LEMMA HungSum == ASSUME NEW h \in Nat, NEW q \in Nat, NEW d, NEW d2, NEW a, NEW b, NEW o, Hung(d, d2, a, b, o)
                 PROVE  h + q + d2 + b = h + q + d + a
BY SMT DEF Hung

\* The copy of a value is added to the copy that the level below makes.
LEMMA CopyAddKeepsTree ==
    ASSUME Tree!TreeAssumption, TreeInv, Tree!CopyUp, Len(copy) # 1
    PROVE  TreeInv'
<1> DEFINE c == copy[1].dst
           s == copy[2].src
           d == copy[2].dst
           q == copy[2].todo
<1>1. /\ copy # <<>>
      /\ data' = [data EXCEPT ![c] = data[copy[1].src]]
      /\ slots' = [slots EXCEPT ![d] = Tree!With(slots[d], Head(q), c)]
      /\ copy' = [Tail(copy) EXCEPT ![1].todo = Tail(Tail(copy)[1].todo)]
      /\ UNCHANGED <<kind, leaf, ref, held, puts, done>>
  BY Zenon DEF Tree!CopyUp, Tree!Top
<1>2. /\ copy \in Seq(FrameType) /\ 1 \in DOMAIN copy /\ puts = <<>> /\ Apart(copy)
      /\ \A i \in DOMAIN copy : /\ copy[i].src \in Nodes /\ copy[i].dst \in Nodes
                                /\ copy[i].todo \in Seq(SlotNames) /\ (i # 1 => copy[i].todo # <<>>)
                                /\ Level(kind, held, slots, copy[i])
                                /\ Cardinality(Holders(slots, copy[i].dst)) = 0
                                /\ kind[copy[i].dst] = kind[copy[i].src]
  BY <1>1, CopyParts, Zenon
<1>3. 2 \in DOMAIN copy /\ 2 # 1
  <2>1. /\ DOMAIN copy = 1 .. Len(copy) /\ Len(copy) \in Nat /\ Len(copy) >= 1
    BY <1>1, <1>2, FrameParts, Zenon
  <2> QED BY <2>1, SMT
<1>4. Returned(copy, copy')
  <2>1. copy[2].todo # <<>>
    BY <1>2, <1>3
  <2> QED BY <1>1, <1>2, <2>1, ReturnFrame, Zenon
<1>5. /\ c \in Nodes /\ s \in Nodes /\ d \in Nodes /\ q \in Seq(SlotNames) /\ q # <<>> /\ kind[d] = kind[s]
      /\ Level(kind, held, slots, copy[2])
  BY <1>2, <1>3, Zenon
<1>6. Remaining(q, slots[s], slots[d], kind[s] = "array")
  BY <1>5, Zenon DEF Level
<1>7. c # d /\ s # d
  BY <1>2, <1>3, Zenon DEF Apart
<1>8. /\ TreeTyped /\ Slotted(slots) /\ Shaped(kind, slots) /\ held \in [Nodes -> 0 .. MaxHeld]
      /\ Dsts \in Seq(Nodes) /\ Acyclic(slots) /\ puts \in Seq(Nodes)
      /\ Exact(kind, ref, held, puts, Dsts, slots) /\ Kept(kind, held, puts, Dsts, slots)
  BY TreeParts
<1>9. data' \in [Nodes -> {"none", "known", "own"}]
  <2>1. data \in [Nodes -> {"none", "known", "own"}] /\ copy[1].src \in Nodes
    BY <1>2, <1>8, Zenon DEF TreeTyped
  <2> QED BY <1>1, <2>1
<1>10. Growing(slots, s, d, q, c, slots') /\ c \in Nodes \cup {Null}
  BY <1>1, <1>5, <1>6, <1>8 DEF Growing
<1> HIDE DEF c, s, d, q
<1>11. /\ Edited(slots, slots', d) /\ Slotted(slots') /\ Shaped(kind, slots')
       /\ DOMAIN slots'[d] = DOMAIN slots[d] \cup {Head(q)} /\ slots'[d][Head(q)] = c
       /\ \A x \in DOMAIN slots[d] : slots'[d][x] = slots[d][x]
       /\ Remaining(Tail(q), slots[s], slots'[d], kind[s] = "array")
       /\ HeldMore(slots, slots', c)
  <2>1. Gained(slots, s, d, q, c, slots')
    BY <1>10, LevelGrows, Zenon
  <2>2. /\ Edited(slots, slots', d) /\ Slotted(slots') /\ Shaped(kind, slots')
        /\ DOMAIN slots'[d] = DOMAIN slots[d] \cup {Head(q)} /\ slots'[d][Head(q)] = c
        /\ \A x \in DOMAIN slots[d] : slots'[d][x] = slots[d][x]
        /\ Remaining(Tail(q), slots[s], slots'[d], kind[s] = "array")
        /\ Paid(<<>>, slots[d], slots'[d], c)
    BY <2>1, Zenon DEF Gained
  <2> QED BY <2>2, HoldersPaid, Zenon
<1>12. \A x \in Nodes : x # d => slots'[x] = slots[x]
  BY <1>11, Zenon DEF Edited
<1>13. \A p \in Nodes : \A m : Edge(slots', p, m) <=> (Edge(slots, p, m) \/ (p = d /\ m = c))
  <2> SUFFICES ASSUME NEW p \in Nodes, NEW m
               PROVE  Edge(slots', p, m) <=> (Edge(slots, p, m) \/ (p = d /\ m = c))
    BY Zenon
  <2>0. c # Null
    BY <1>5, TreeConstants
  <2>1. CASE p = d
    BY <1>11, <2>0, <2>1 DEF Edge
  <2>2. CASE p # d
    BY <1>12, <2>2, Zenon DEF Edge
  <2> QED BY <2>1, <2>2
<1>14. /\ Dsts' = Tail(Dsts) /\ Dsts # <<>> /\ Head(Dsts) = c /\ Tail(Dsts) \in Seq(Nodes)
       /\ Dsts = <<c>> \o Tail(Dsts) /\ <<c>> \in Seq(Nodes)
  <2>1. Dsts' = Tail(Dsts) /\ Dsts # <<>> /\ Head(Dsts) = c
    BY <1>4, Zenon DEF Returned, DstsOf, Dsts, c
  <2> DEFINE e == Dsts
  <2>2. e \in Seq(Nodes) /\ e # <<>> /\ Head(e) = c
    BY <1>8, <2>1
  <2> HIDE DEF e
  <2>3. Tail(e) \in Seq(Nodes) /\ e = <<c>> \o Tail(e) /\ <<c>> \in Seq(Nodes)
    BY <2>2, SMT
  <2> QED BY <2>1, <2>3 DEF e
<1> DEFINE d2 == Tail(Dsts)
<1>15. ASSUME NEW m \in Nodes PROVE Num(Dsts, m) = One(m = c) + Num(d2, m) /\ Num(d2, m) \in Nat
  <2>1. Num(<<c>> \o d2, m) = Num(<<c>>, m) + Num(d2, m)
    BY <1>14, NumConcat, Zenon
  <2>2. Num(<<c>>, m) = One(c = m)
    BY NumSingle, Zenon
  <2>3. One(c = m) = One(m = c)
    BY DEF One
  <2>4. Num(d2, m) \in Nat
    BY <1>8, <1>14, CountTyped, Zenon
  <2> QED BY <1>14, <2>1, <2>2, <2>3, <2>4
<1>16. d2 \in Seq(Nodes)
  BY <1>14
<1>17. Dsts' = d2
  BY <1>14
<1> HIDE DEF d2
<1>18. Exact(kind, ref, held, puts, d2, slots')
  <2> SUFFICES ASSUME NEW m \in Nodes
               PROVE  ref[m] = Count(held, puts, d2, slots', m) /\ (ref[m] = 0 <=> kind[m] = "free")
    BY Zenon DEF Exact
  <2>1. ref[m] = Count(held, puts, Dsts, slots, m) /\ (ref[m] = 0 <=> kind[m] = "free")
    BY <1>8, Zenon DEF Exact
  <2>2. held[m] \in Nat /\ Num(puts, m) \in Nat /\ Num(Dsts, m) \in Nat /\ Cardinality(Holders(slots, m)) \in Nat
    BY <1>8, CountTyped, Zenon
  <2>3. Cardinality(Holders(slots', m)) = Cardinality(Holders(slots, m)) + One(m = c)
    BY <1>11, Zenon DEF HeldMore
  <2>4. One(m = c) \in Nat
    BY DEF One
  <2>5. Hung(Num(Dsts, m), Num(d2, m), Cardinality(Holders(slots, m)), Cardinality(Holders(slots', m)), One(m = c))
    BY <1>15, <2>2, <2>3, <2>4, Zenon DEF Hung
  <2>6. held[m] + Num(puts, m) + Num(d2, m) + Cardinality(Holders(slots', m))
          = held[m] + Num(puts, m) + Num(Dsts, m) + Cardinality(Holders(slots, m))
    BY <2>2, <2>5, HungSum, SMT
  <2> QED BY <2>1, <2>6, Zenon DEF Count
<1>19. \A p \in Nodes : ~ Edge(slots, p, d)
  <2>1. Cardinality(Holders(slots, d)) = 0
    BY <1>2, <1>3, Zenon DEF d
  <2>2. \A p \in Nodes : \A x \in DOMAIN slots[p] : slots[p][x] # d
    BY <1>8, <2>1, HolderCounts, Zenon
  <2> QED BY <2>2, Zenon DEF Edge
<1>20. Acyclic(slots')
  <2> DEFINE C == Nodes \ {d}
  <2>1. /\ C \in SUBSET Nodes /\ \A n \in {c} : n \in C /\ {c} \in SUBSET Nodes
        /\ \A p \in C : \A m : Edge(slots, p, m) => m \in C
    <3>1. \A p \in Nodes : \A m : Edge(slots, p, m) => m \in Nodes
      BY <1>8, TreeParts, Zenon DEF EdgesExist
    <3> QED BY <1>5, <1>7, <1>19, <3>1
  <2>2. d \notin C
    OBVIOUS
  <2> HIDE DEF C
  <2>3. \A n \in ReachIn(slots, {c}) : n \in C
    <3>1. {c} \in SUBSET Nodes
      BY <1>5
    <3> QED BY <1>8, <2>1, <3>1, ReachStays, Zenon
  <2>4. OneEdgeMore(slots, slots', d, c)
    BY <1>5, <1>8, <1>11, <1>13, Zenon DEF OneEdgeMore
  <2>5. d \notin ReachIn(slots, {c})
    BY <2>2, <2>3, Zenon
  <2> QED BY <1>8, <2>4, <2>5, NewEdge, Zenon
<1>21. Kept(kind, held, puts, d2, slots')
  <2> DEFINE R == ReachIn(slots', Roots(held, puts, d2))
  <2>1. /\ R \in SUBSET Nodes /\ Roots(held, puts, d2) \in SUBSET Nodes
        /\ \A m \in Nodes : held[m] > 0 \/ Num(puts, m) > 0 \/ Num(d2, m) > 0 => m \in R
        /\ \A p \in R : \A m : Edge(slots', p, m) => m \in R
    BY <1>11, RootsReach, Zenon
  <2> HIDE DEF R
  <2>2. d \in R
    <3>1. 1 \in DOMAIN d2 /\ d2[1] = d
      <4>1. 1 \in DOMAIN copy' /\ copy'[1].dst = copy[1 + 1].dst
        BY <1>4, Zenon DEF Returned
      <4>2. 1 + 1 = 2
        BY SMT
      <4>3. Dsts' = [i \in DOMAIN copy' |-> copy'[i].dst]
        BY Zenon DEF Dsts
      <4> QED BY <1>17, <4>1, <4>2, <4>3 DEF d
    <3>2. Num(d2, d) # 0 /\ Num(d2, d) \in Nat
      <4>1. IsFiniteSet(DOMAIN d2)
        BY <1>16, SeqFinite, Zenon
      <4> QED BY <1>5, <1>15, <3>1, <4>1, NumNone, Zenon
    <3>3. Num(d2, d) > 0
      BY <3>2, SMT
    <3> QED BY <1>5, <2>1, <3>3, Zenon
  <2>3. c \in R
    BY <1>5, <1>13, <2>1, <2>2, Zenon
  <2>4. ASSUME NEW m \in Nodes, held[m] > 0 \/ Num(puts, m) > 0 \/ Num(Dsts, m) > 0 PROVE m \in R
    <3>1. CASE m = c
      BY <2>3, <3>1
    <3>2. CASE m # c
      <4>1. Num(Dsts, m) = 0 + Num(d2, m) /\ Num(d2, m) \in Nat
        BY <1>15, <3>2 DEF One
      <4>2. Num(Dsts, m) = Num(d2, m)
        BY <4>1, SMT
      <4> QED BY <2>1, <2>4, <4>2, Zenon
    <3> QED BY <3>1, <3>2
  <2>5. Roots(held, puts, Dsts) \in SUBSET Nodes /\ \A m \in Roots(held, puts, Dsts) : m \in R
    BY <2>4, Zenon DEF Roots
  <2>6. \A p \in R : \A m : Edge(slots, p, m) => m \in R
    BY <1>13, <2>1, Zenon
  <2>7. \A m \in ReachIn(slots, Roots(held, puts, Dsts)) : m \in R
    BY <1>8, <2>1, <2>5, <2>6, ReachStays, Zenon
  <2> QED BY <1>8, <2>7, Zenon DEF Kept, R
<1>22. ASSUME NEW i \in DOMAIN copy' PROVE Level(kind', held', slots', copy'[i])
  <2> DEFINE j == i + 1
             x == copy[j]
  <2>1. /\ i \in Nat /\ j \in DOMAIN copy /\ j # 1
        /\ copy'[i].src = x.src /\ copy'[i].dst = x.dst /\ (i # 1 => copy'[i].todo = x.todo)
        /\ copy'[1].todo = Tail(q)
    BY <1>4, Zenon DEF Returned, q
  <2>2. j = 2 <=> i = 1
    BY <2>1, SMT
  <2> HIDE DEF j
  <2>3. /\ x.src \in Nodes /\ x.dst \in Nodes /\ Level(kind, held, slots, x)
        /\ x.dst # c /\ x.src # d /\ Cardinality(Holders(slots, x.dst)) = 0
    BY <1>2, <1>3, <2>1, Zenon DEF Apart, c, d
  <2>4. Cardinality(Holders(slots', x.dst)) = Cardinality(Holders(slots, x.dst))
    <3>1. One(x.dst = c) = 0
      BY <2>3 DEF One
    <3>2. Cardinality(Holders(slots', x.dst)) = Cardinality(Holders(slots, x.dst)) + One(x.dst = c)
      BY <1>11, <2>3, Zenon DEF HeldMore
    <3> QED BY <2>3, <3>1, <3>2, SMT
  <2>5. CASE i = 1
    <3>1. copy'[i].src = s /\ copy'[i].dst = d /\ copy'[i].todo = Tail(q) /\ x.src = s /\ x.dst = d
      BY <2>1, <2>2, <2>5 DEF s, d
    <3>2. slots'[s] = slots[s]
      BY <1>5, <1>7, <1>12
    <3>3. /\ kind[s] # "free" /\ kind[d] = kind[s] /\ held[d] = 0
          /\ Cardinality(Holders(slots', d)) = 0
      BY <2>3, <2>4, <3>1, Zenon DEF Level
    <3>4. /\ kind'[s] # "free" /\ kind'[d] = kind'[s] /\ held'[d] = 0
          /\ Cardinality(Holders(slots', d)) = 0
          /\ Remaining(Tail(q), slots'[s], slots'[d], kind'[s] = "array")
      BY <1>1, <1>11, <3>2, <3>3, Zenon
    <3> QED BY <3>1, <3>4, Zenon DEF Level
  <2>6. CASE i # 1
    <3>1. x.dst # d
      <4>1. j # 2
        BY <2>2, <2>6
      <4> QED BY <1>2, <1>3, <2>1, <4>1, Zenon DEF Apart, d
    <3>2. slots'[x.src] = slots[x.src] /\ slots'[x.dst] = slots[x.dst]
      BY <1>12, <2>3, <3>1, Zenon
    <3>3. Untouched(x)
      BY <1>1, <2>4, <3>2, Zenon DEF Untouched
    <3>4. Level(kind', held', slots', x) /\ SameFields(x, copy'[i])
      BY <2>1, <2>3, <2>6, <3>3, LevelStays, Zenon DEF SameFields
    <3> QED BY <3>4, SameLevel, Zenon
  <2> QED BY <2>5, <2>6
<1>23. Levels'
  <2>1. \A i \in DOMAIN copy' : /\ i \in Nat /\ i + 1 \in DOMAIN copy /\ i + 1 # 1
                                /\ copy'[i].src = copy[i + 1].src /\ copy'[i].dst = copy[i + 1].dst
                                /\ (i # 1 => copy'[i].todo = copy[i + 1].todo)
    BY <1>4, Zenon DEF Returned
  <2>2. Apart(copy')
    <3> SUFFICES ASSUME NEW i \in DOMAIN copy', NEW j \in DOMAIN copy'
                 PROVE  copy'[i].src # copy'[j].dst /\ (copy'[i].dst = copy'[j].dst => i = j)
      BY Zenon DEF Apart
    <3>1. /\ i \in Nat /\ i + 1 \in DOMAIN copy /\ copy'[i].src = copy[i + 1].src /\ copy'[i].dst = copy[i + 1].dst
          /\ j \in Nat /\ j + 1 \in DOMAIN copy /\ copy'[j].src = copy[j + 1].src /\ copy'[j].dst = copy[j + 1].dst
      BY <2>1
    <3>2. copy[i + 1].src # copy[j + 1].dst /\ (copy[i + 1].dst = copy[j + 1].dst => i + 1 = j + 1)
      BY <1>2, <3>1, Zenon DEF Apart
    <3>3. i + 1 = j + 1 => i = j
      BY <3>1, SMT
    <3> QED BY <3>1, <3>2, <3>3
  <2>3. \A i \in DOMAIN copy' : i # 1 => copy'[i].todo # <<>>
    BY <1>2, <2>1
  <2> QED BY <1>22, <2>2, <2>3, Zenon DEF Levels
<1>24. copy' \in Seq(FrameType)
  BY <1>4, Zenon DEF Returned
<1>25. TreeTyped'
  BY <1>1, <1>8, <1>9, <1>11, <1>24, Zenon DEF TreeTyped
<1>26. Exact(kind, ref, held, puts, Dsts, slots)' /\ Acyclic(slots)' /\ Kept(kind, held, puts, Dsts, slots)'
  BY <1>1, <1>17, <1>18, <1>20, <1>21, Zenon
<1>27. puts' = <<>>
  BY <1>1, <1>2
<1> QED BY <1>23, <1>25, <1>26, <1>27, Zenon DEF TreeInv

\* A deep copy is complete: the application gets its reference.
LEMMA CopyDoneKeepsTree ==
    ASSUME Tree!TreeAssumption, TreeInv, Tree!CopyUp, Len(copy) = 1
    PROVE  TreeInv'
<1> DEFINE s == copy[1].src
           d == copy[1].dst
<1>1. /\ copy # <<>> /\ data' = [data EXCEPT ![d] = data[s]] /\ held' = [held EXCEPT ![d] = 1]
      /\ done' = <<s, d>> /\ copy' = <<>> /\ UNCHANGED <<slots, kind, leaf, ref, puts>>
  BY Zenon DEF Tree!CopyUp, Tree!Top
<1>2. /\ copy \in Seq(FrameType) /\ puts = <<>> /\ s \in Nodes /\ d \in Nodes /\ held[d] = 0
  BY <1>1, CopyParts, Zenon
<1>3. /\ TreeTyped /\ Slotted(slots) /\ held \in [Nodes -> 0 .. MaxHeld]
      /\ Dsts \in Seq(Nodes) /\ Acyclic(slots) /\ puts \in Seq(Nodes)
      /\ Exact(kind, ref, held, puts, Dsts, slots) /\ Kept(kind, held, puts, Dsts, slots)
  BY TreeParts
<1>4. Dsts = <<d>>
  <2>1. Dsts = [i \in DOMAIN copy |-> copy[i].dst]
    BY Zenon DEF Dsts
  <2>2. DOMAIN copy = {1}
    BY <1>2, SMT
  <2>3. Dsts = [i \in {1} |-> copy[i].dst]
    BY <2>1, <2>2
  <2>4. <<d>> = [i \in {1} |-> d]
    OBVIOUS
  <2>5. [i \in {1} |-> copy[i].dst] = [i \in {1} |-> copy[1].dst]
    OBVIOUS
  <2> QED BY <2>3, <2>4, <2>5
<1>5. Dsts' = <<>>
  BY <1>1 DEF Dsts
<1>6. s \in Nodes /\ d \in Nodes /\ data' \in [Nodes -> {"none", "known", "own"}] /\ done' \in Nodes \X Nodes
  <2>1. data \in [Nodes -> {"none", "known", "own"}]
    BY <1>3, Zenon DEF TreeTyped
  <2> QED BY <1>1, <1>2, <2>1
<1> HIDE DEF s, d
<1>7. /\ held' \in [Nodes -> 0 .. MaxHeld]
      /\ \A m \in Nodes : held'[m] = held[m] + One(d = m)
  <2>1. MaxHeld \in Nat /\ MaxHeld >= 1
    BY TreeConstants
  <2>2. held' \in [Nodes -> 0 .. MaxHeld]
    <3>1. 1 \in 0 .. MaxHeld
      BY <2>1, SMT
    <3> QED BY <1>1, <1>3, <3>1
  <2>3. \A m \in Nodes : held'[m] = held[m] + (IF d = m THEN 1 ELSE 0)
    BY <1>1, <1>2, <1>3, <2>1, SMT
  <2> QED BY <2>2, <2>3, Zenon DEF One
<1> DEFINE h == held'
           e == <<>>
<1>8. ASSUME NEW m \in Nodes
      PROVE  /\ Num(Dsts, m) = One(d = m) /\ Num(e, m) = 0 /\ h[m] = held[m] + One(d = m)
             /\ held[m] \in Nat /\ One(d = m) \in Nat
  <2>1. Num(<<d>>, m) = One(d = m) /\ Num(e, m) = 0
    BY NumSingle, NumEmpty, Zenon
  <2>2. held[m] \in Nat
    BY <1>3, CountTyped, Zenon
  <2>3. One(d = m) \in Nat
    BY DEF One
  <2> QED BY <1>4, <1>7, <2>1, <2>2, <2>3
<1>9. h \in [Nodes -> 0 .. MaxHeld] /\ e \in Seq(Nodes)
  BY <1>7, EmptySeq
<1> HIDE DEF h, e
<1>10. Exact(kind, ref, h, puts, e, slots)
  <2> SUFFICES ASSUME NEW m \in Nodes PROVE Count(h, puts, e, slots, m) = Count(held, puts, Dsts, slots, m)
    BY <1>3, Zenon DEF Exact
  <2>1. Num(puts, m) \in Nat /\ Cardinality(Holders(slots, m)) \in Nat
    BY <1>3, CountTyped, Zenon
  <2>2. Hung(Num(Dsts, m), Num(e, m), held[m], h[m], One(d = m))
    <3>1. Num(Dsts, m) = One(d = m) + Num(e, m) /\ Num(Dsts, m) \in Nat /\ Num(e, m) \in Nat
      BY <1>8, SMT
    <3> QED BY <1>8, <3>1 DEF Hung
  <2>3. /\ Num(puts, m) + Cardinality(Holders(slots, m)) + Num(e, m) + h[m]
             = Num(puts, m) + Cardinality(Holders(slots, m)) + Num(Dsts, m) + held[m]
    BY <2>1, <2>2, HungSum, SMT
  <2>4. h[m] \in Nat /\ Num(e, m) \in Nat /\ held[m] \in Nat /\ Num(Dsts, m) \in Nat
    BY <1>3, <1>9, CountTyped, Zenon
  <2>5. /\ h[m] + Num(puts, m) + Num(e, m) + Cardinality(Holders(slots, m))
             = held[m] + Num(puts, m) + Num(Dsts, m) + Cardinality(Holders(slots, m))
    <3> DEFINE a == h[m]
               b == Num(e, m)
               v == held[m]
               w == Num(Dsts, m)
               y == Num(puts, m)
               z == Cardinality(Holders(slots, m))
    <3>1. a \in Nat /\ b \in Nat /\ v \in Nat /\ w \in Nat /\ y \in Nat /\ z \in Nat
          /\ y + z + b + a = y + z + w + v
      BY <2>1, <2>3, <2>4
    <3> HIDE DEF a, b, v, w, y, z
    <3>2. a + y + b + z = v + y + w + z
      BY <3>1, SMT
    <3> QED BY <3>2 DEF a, b, v, w, y, z
  <2> QED BY <2>5, Zenon DEF Count
<1>11. Kept(kind, h, puts, e, slots)
  <2>1. ASSUME NEW m \in Nodes, held[m] > 0 \/ Num(puts, m) > 0 \/ Num(Dsts, m) > 0
        PROVE  h[m] > 0 \/ Num(puts, m) > 0 \/ Num(e, m) > 0
    <3>1. \A a \in Nat, b \in Nat : (a > 0 => a + b > 0) /\ (b > 0 => a + b > 0)
      BY SMT
    <3>2. held[m] > 0 \/ One(d = m) > 0 => h[m] > 0
      <4>1. h[m] = held[m] + One(d = m) /\ held[m] \in Nat /\ One(d = m) \in Nat
        BY <1>8
      <4>2. held[m] > 0 \/ One(d = m) > 0 => held[m] + One(d = m) > 0
        BY <3>1, <4>1, Zenon
      <4> QED BY <4>1, <4>2
    <3>3. Num(Dsts, m) = One(d = m)
      BY <1>8
    <3> QED BY <2>1, <3>2, <3>3, Zenon
  <2>2. StillRoots(held, puts, Dsts, h, puts, e)
    BY <2>1, Zenon DEF StillRoots
  <2> QED BY <1>3, <2>2, MoreRoots, Zenon
<1>12. Levels' /\ copy' = <<>>
  BY <1>1, NoLevels, Zenon DEF Levels, Apart
<1>13. copy' \in Seq(FrameType)
  BY <1>1, EmptySeq
<1>14. TreeTyped'
  BY <1>1, <1>3, <1>6, <1>9, <1>13, Zenon DEF TreeTyped, h
<1>15. Exact(kind, ref, held, puts, Dsts, slots)' /\ Acyclic(slots)' /\ Kept(kind, held, puts, Dsts, slots)'
  BY <1>1, <1>3, <1>5, <1>10, <1>11, Zenon DEF h, e
<1> QED BY <1>12, <1>14, <1>15, Zenon DEF TreeInv

\* A deep copy fails: the copies that the levels were making are put.
LEMMA CopyFailKeepsTree ==
    ASSUME Tree!TreeAssumption, TreeInv, Tree!CopyFail
    PROVE  TreeInv'
<1>1. /\ copy # <<>> /\ puts' = [i \in DOMAIN copy |-> copy[i].dst] /\ copy' = <<>>
      /\ UNCHANGED <<kind, leaf, slots, ref, data, held, done>>
  BY Zenon DEF Tree!CopyFail
<1>2. puts = <<>>
  BY <1>1, CopyParts, Zenon
<1>3. /\ TreeTyped /\ Slotted(slots) /\ held \in [Nodes -> 0 .. MaxHeld]
      /\ Dsts \in Seq(Nodes) /\ Acyclic(slots) /\ puts \in Seq(Nodes)
      /\ Exact(kind, ref, held, puts, Dsts, slots) /\ Kept(kind, held, puts, Dsts, slots)
  BY TreeParts
<1>4. puts' = Dsts
  BY <1>1, Zenon DEF Dsts
<1>5. Dsts' = <<>>
  BY <1>1 DEF Dsts
<1> DEFINE e == <<>>
<1>6. e \in Seq(Nodes) /\ puts = e
  BY <1>2, EmptySeq
<1>7. \A m : Num(e, m) = 0
  BY NumEmpty
<1> HIDE DEF e
<1>8. Exact(kind, ref, held, Dsts, e, slots)
  <2> SUFFICES ASSUME NEW m \in Nodes PROVE Count(held, Dsts, e, slots, m) = Count(held, e, Dsts, slots, m)
    BY <1>3, <1>6, Zenon DEF Exact
  <2>1. /\ held[m] \in Nat /\ Num(Dsts, m) \in Nat /\ Cardinality(Holders(slots, m)) \in Nat
    BY <1>3, CountTyped, Zenon
  <2>2. \A a, b, c \in Nat : a + b + 0 + c = a + 0 + b + c
    BY SMT
  <2>3. held[m] + Num(Dsts, m) + 0 + Cardinality(Holders(slots, m))
          = held[m] + 0 + Num(Dsts, m) + Cardinality(Holders(slots, m))
    BY <2>1, <2>2, Zenon
  <2>4. Num(e, m) = 0
    BY <1>7
  <2> QED BY <2>3, <2>4 DEF Count
<1>9. Kept(kind, held, Dsts, e, slots)
  <2>1. ASSUME NEW m \in Nodes, held[m] > 0 \/ Num(e, m) > 0 \/ Num(Dsts, m) > 0
        PROVE  held[m] > 0 \/ Num(Dsts, m) > 0 \/ Num(e, m) > 0
    BY <2>1, Zenon
  <2>2. StillRoots(held, e, Dsts, held, Dsts, e)
    BY <2>1, Zenon DEF StillRoots
  <2>3. Kept(kind, held, e, Dsts, slots)
    BY <1>3, <1>6, Zenon
  <2> QED BY <1>3, <2>2, <2>3, MoreRoots, Zenon
<1>10. Levels' /\ copy' = <<>>
  BY <1>1, NoLevels, Zenon DEF Levels, Apart
<1>11. copy' \in Seq(FrameType) /\ puts' \in Seq(Nodes)
  BY <1>1, <1>3, <1>4, EmptySeq
<1>12. TreeTyped'
  BY <1>1, <1>3, <1>11, Zenon DEF TreeTyped
<1>13. Exact(kind, ref, held, puts, Dsts, slots)' /\ Acyclic(slots)' /\ Kept(kind, held, puts, Dsts, slots)'
  BY <1>1, <1>3, <1>4, <1>5, <1>8, <1>9, Zenon DEF e
<1> QED BY <1>10, <1>12, <1>13, Zenon DEF TreeInv

\* The counts of JsonObject are those of the invariant.
LEMMA SameReferences == \A n : Tree!References(n) = Count(held, puts, Dsts, slots, n)
<1> SUFFICES ASSUME NEW n PROVE Tree!References(n) = Count(held, puts, Dsts, slots, n)
  OBVIOUS
<1>1. Tree!Times(puts, n) = Num(puts, n)
  BY TreeCardinality, Zenon DEF Tree!Times, Num, Hits
<1>2. {i \in DOMAIN copy : copy[i].dst = n} = Hits(Dsts, n)
  BY DEF Hits, Dsts
<1>3. Tree!Cardinality({i \in DOMAIN copy : copy[i].dst = n}) = Num(Dsts, n)
  BY <1>2, TreeCardinality, Zenon DEF Num
<1>4. Tree!Cardinality({ps \in Nodes \X (TreeKeys \cup Tree!Indexes) :
                          ps[2] \in DOMAIN slots[ps[1]] /\ slots[ps[1]][ps[2]] = n})
        = Cardinality(Holders(slots, n))
  BY TreeCardinality, Zenon DEF Holders, SlotNames
<1> QED BY <1>1, <1>3, <1>4, Zenon DEF Tree!References, Count

\* The invariant says what RefsExact and NothingLost do.
LEMMA TreeInvSays ==
    ASSUME Tree!TreeAssumption, TreeInv
    PROVE  Tree!TypeOK /\ Tree!RefsExact /\ Tree!NothingLost
<1>1. /\ TreeTyped /\ Slotted(slots) /\ Shaped(kind, slots) /\ Exact(kind, ref, held, puts, Dsts, slots)
      /\ Kept(kind, held, puts, Dsts, slots) /\ held \in [Nodes -> 0 .. MaxHeld]
      /\ puts \in Seq(Nodes) /\ Dsts \in Seq(Nodes)
      /\ RootsExist(kind, held, puts, Dsts) /\ EdgesExist(kind, slots)
  BY TreeParts
<1>2. Tree!TypeOK
  <2>1. \A n \in Nodes : /\ DOMAIN slots[n] \in Shape(kind[n])
                         /\ \A s \in DOMAIN slots[n] : slots[n][s] \in Tree!Values
    BY <1>1, Zenon DEF Shaped, Slotted, Tree!Values
  <2>2. /\ kind \in [Nodes -> {"free", "object", "array", "leaf"}]
        /\ leaf \in [Nodes -> {0, 1}] /\ ref \in [Nodes -> Nat]
        /\ data \in [Nodes -> {"none", "known", "own"}]
        /\ done \in {<<>>} \cup (Nodes \X Nodes)
    BY <1>1, Zenon DEF TreeTyped
  <2> QED BY <1>1, <2>1, <2>2, Zenon DEF Tree!TypeOK, Shape
<1>3. Tree!RefsExact
  <2> SUFFICES ASSUME NEW n \in Nodes PROVE ref[n] = Tree!References(n) /\ (ref[n] = 0) = (kind[n] = "free")
    BY Zenon DEF Tree!RefsExact
  <2>1. ref[n] = Count(held, puts, Dsts, slots, n) /\ (ref[n] = 0 <=> kind[n] = "free")
    BY <1>1, Zenon DEF Exact
  <2> QED BY <2>1, SameReferences, Zenon
<1> DEFINE S == Tree!Owned \cup {puts[i] : i \in DOMAIN puts} \cup {copy[i].dst : i \in DOMAIN copy}
           L == Tree!Live
<1>4. S = Roots(held, puts, Dsts)
  <2>1. ASSUME NEW n \in Nodes
        PROVE  /\ n \in Tree!Owned <=> held[n] > 0
               /\ n \in {puts[i] : i \in DOMAIN puts} <=> Num(puts, n) > 0
               /\ n \in {copy[i].dst : i \in DOMAIN copy} <=> Num(Dsts, n) > 0
    <3>1. n \in Tree!Owned <=> held[n] > 0
      <4>1. held[n] > 0 => n \in Roots(held, puts, Dsts)
        BY Zenon DEF Roots
      <4>2. held[n] > 0 => kind[n] # "free"
        BY <1>1, <4>1, Zenon DEF RootsExist
      <4> QED BY <4>2, Zenon DEF Tree!Owned, Tree!Live
    <3>2. ASSUME NEW q \in Seq(Nodes) PROVE Num(q, n) > 0 <=> \E i \in DOMAIN q : q[i] = n
      <4>1. IsFiniteSet(DOMAIN q)
        BY SeqFinite, Zenon
      <4>2. Num(q, n) \in Nat /\ (Num(q, n) = 0 <=> \A i \in DOMAIN q : q[i] # n)
        BY <4>1, NumType, NumNone, Zenon
      <4>3. Num(q, n) > 0 <=> Num(q, n) # 0
        BY <4>2, SMT
      <4> QED BY <4>2, <4>3, Zenon
    <3>3. n \in {puts[i] : i \in DOMAIN puts} <=> Num(puts, n) > 0
      BY <1>1, <3>2, Zenon
    <3>4. n \in {copy[i].dst : i \in DOMAIN copy} <=> \E i \in DOMAIN Dsts : Dsts[i] = n
      BY DEF Dsts
    <3>5. n \in {copy[i].dst : i \in DOMAIN copy} <=> Num(Dsts, n) > 0
      BY <1>1, <3>2, <3>4, Zenon
    <3> QED BY <3>1, <3>3, <3>5
  <2>2. \A n \in S : n \in Nodes
    <3>1. \A i \in DOMAIN puts : puts[i] \in Nodes
      BY <1>1, SeqFinite, Zenon
    <3>2. \A i \in DOMAIN copy : copy[i].dst \in Nodes
      BY <1>1, FrameParts, Zenon DEF TreeTyped
    <3>3. \A n \in Tree!Owned : n \in Nodes
      BY Zenon DEF Tree!Owned, Tree!Live
    <3> QED BY <3>1, <3>2, <3>3
  <2> HIDE DEF S
  <2>3. \A n \in Nodes : n \in S <=> (held[n] > 0 \/ Num(puts, n) > 0 \/ Num(Dsts, n) > 0)
    BY <2>1, Zenon DEF S
  <2> QED BY <2>2, <2>3, Zenon DEF Roots
<1>5. L \in SUBSET Nodes /\ \A n : n \in L <=> n \in Nodes /\ kind[n] # "free"
  BY Zenon DEF Tree!Live
<1> HIDE DEF S, L
<1>6. \A n \in ReachIn(slots, S) : n \in L
  <2>1. S \in SUBSET Nodes /\ \A n \in S : n \in L
    BY <1>1, <1>4, <1>5, Zenon DEF RootsExist, Roots
  <2>2. \A p \in L : \A m : Edge(slots, p, m) => m \in L
    BY <1>1, <1>5, Zenon DEF EdgesExist
  <2> QED BY <1>1, <1>5, <2>1, <2>2, ReachStays, Zenon
<1>7. \A n \in L : n \in ReachIn(slots, S)
  BY <1>1, <1>4, <1>5, Zenon DEF Kept
<1>8. L = ReachIn(slots, S)
  BY <1>6, <1>7, Zenon
<1>9. Tree!NothingLost
  BY <1>8, ReachableIs, Zenon DEF Tree!NothingLost, S, L
<1> QED BY <1>2, <1>3, <1>9

\* At first nothing exists.
LEMMA TreeBegins ==
    ASSUME Tree!TreeAssumption, Tree!Init
    PROVE  TreeInv
<1>1. /\ kind = [n \in Nodes |-> "free"] /\ leaf = [n \in Nodes |-> 0] /\ slots = [n \in Nodes |-> <<>>]
      /\ ref = [n \in Nodes |-> 0] /\ data = [n \in Nodes |-> "none"] /\ held = [n \in Nodes |-> 0]
      /\ puts = <<>> /\ copy = <<>> /\ done = <<>>
  BY Zenon DEF Tree!Init
<1>2. MaxHeld \in Nat /\ 0 \in 0 .. MaxHeld
  BY TreeConstants, SMT
<1>3. /\ kind \in [Nodes -> {"free", "object", "array", "leaf"}] /\ leaf \in [Nodes -> {0, 1}]
      /\ ref \in [Nodes -> Nat] /\ data \in [Nodes -> {"none", "known", "own"}]
      /\ held \in [Nodes -> 0 .. MaxHeld] /\ puts \in Seq(Nodes) /\ copy \in Seq(FrameType)
      /\ done \in {<<>>} \cup (Nodes \X Nodes)
  BY <1>1, <1>2, EmptySeq
<1>4. \A n \in Nodes : DOMAIN slots[n] = {} /\ kind[n] = "free" /\ ref[n] = 0 /\ held[n] = 0
  BY <1>1
<1>5. Slotted(slots) /\ Shaped(kind, slots)
  <2>1. DOMAIN slots = Nodes
    BY <1>1
  <2>2. \A n \in Nodes : {} \in Shape(kind[n])
    BY <1>4 DEF Shape
  <2>3. Slotted(slots)
    BY <1>4, <2>1, Zenon DEF Slotted
  <2>4. Shaped(kind, slots)
    BY <1>4, <2>2, Zenon DEF Shaped
  <2> QED BY <2>3, <2>4
<1>6. TreeTyped
  BY <1>3, <1>5, Zenon DEF TreeTyped
<1>7. Dsts = <<>>
  BY <1>1 DEF Dsts
<1>8. Exact(kind, ref, held, puts, Dsts, slots)
  <2> SUFFICES ASSUME NEW n \in Nodes
               PROVE  ref[n] = Count(held, puts, Dsts, slots, n) /\ (ref[n] = 0 <=> kind[n] = "free")
    BY Zenon DEF Exact
  <2>1. Num(puts, n) = 0 /\ Num(Dsts, n) = 0
    BY <1>1, <1>7, NumEmpty
  <2>2. \A p \in Nodes : \A s \in DOMAIN slots[p] : slots[p][s] # n
    BY <1>4
  <2>3. Cardinality(Holders(slots, n)) = 0
    BY <1>5, <2>2, HolderCounts, Zenon
  <2>4. 0 + 0 + 0 + 0 = 0
    BY SMT
  <2> QED BY <1>4, <2>1, <2>3, <2>4 DEF Count
<1>9. Acyclic(slots)
  BY <1>4, Zenon DEF Acyclic, Edge
<1>10. Kept(kind, held, puts, Dsts, slots)
  BY <1>4, Zenon DEF Kept
<1>11. Levels
  BY <1>1, NoLevels, Zenon DEF Levels, Apart
<1> QED BY <1>1, <1>6, <1>8, <1>9, <1>10, <1>11, Zenon DEF TreeInv

\* Every step keeps the invariant.
LEMMA TreeStep ==
    ASSUME Tree!TreeAssumption, TreeInv, [Tree!Next]_(Tree!vars)
    PROVE  TreeInv'
<1>1. CASE UNCHANGED Tree!vars
  <2>1. UNCHANGED <<kind, leaf, slots, ref, data, held, puts, copy, done>>
    BY <1>1, Zenon DEF Tree!vars
  <2>2. /\ leaf \in [Nodes -> {0, 1}] /\ data \in [Nodes -> {"none", "known", "own"}]
        /\ done \in {<<>>} \cup (Nodes \X Nodes)
    BY Zenon DEF TreeInv, TreeTyped
  <2>3. /\ leaf' \in [Nodes -> {0, 1}] /\ data' \in [Nodes -> {"none", "known", "own"}]
        /\ done' \in {<<>>} \cup (Nodes \X Nodes)
    BY <2>1, <2>2
  <2> QED BY <2>1, <2>3, CalmKeepsTree, Zenon
<1>2. ASSUME NEW n \in Nodes, Tree!New(n) PROVE TreeInv'
  BY <1>2, NewKeepsTree, Zenon
<1>3. ASSUME NEW n \in Nodes, Tree!Get(n) PROVE TreeInv'
  BY <1>3, GetKeepsTree, Zenon
<1>4. ASSUME NEW n \in Nodes, Tree!Put(n) PROVE TreeInv'
  BY <1>4, PutKeepsTree, Zenon
<1>5. ASSUME NEW n \in Nodes, Tree!SetUserdata(n) \/ Tree!SetLeaf(n) PROVE TreeInv'
  BY <1>5, SettersKeepTree, Zenon
<1>6. ASSUME NEW n \in Nodes, Tree!CopyChild(n) PROVE TreeInv'
  BY <1>6, CopyChildKeepsTree, Zenon
<1>7. ASSUME NEW p \in Nodes, NEW key \in TreeKeys, Tree!ObjectDel(p, key) PROVE TreeInv'
  BY <1>7, ObjectDelKeepsTree, Zenon
<1>8. ASSUME NEW p \in Nodes, NEW key \in TreeKeys, NEW c \in Tree!Values, Tree!ObjectAdd(p, key, c) PROVE TreeInv'
  <2>1. c \in Nodes \cup {Null}
    BY Zenon DEF Tree!Values
  <2> QED BY <1>8, <2>1, ObjectAddKeepsTree, Zenon
<1>9. ASSUME NEW p \in Nodes, NEW i \in Tree!Indexes, NEW c \in Tree!Values, Tree!ArrayPutIdx(p, i, c) PROVE TreeInv'
  <2>1. c \in Nodes \cup {Null}
    BY Zenon DEF Tree!Values
  <2> QED BY <1>9, <2>1, ArrayPutIdxKeepsTree, Zenon
<1>10. ASSUME NEW p \in Nodes, NEW i \in Tree!Indexes, NEW count \in 1 .. MaxLength, Tree!ArrayDelIdx(p, i, count)
       PROVE  TreeInv'
  BY <1>10, ArrayDelIdxKeepsTree, Zenon
<1>11. ASSUME NEW s \in Nodes, NEW d \in Nodes, Tree!CopyBegin(s, d) PROVE TreeInv'
  BY <1>11, CopyBeginKeepsTree, Zenon
<1>12. ASSUME Tree!CopyUp PROVE TreeInv'
  BY <1>12, CopyAddKeepsTree, CopyDoneKeepsTree, Zenon
<1>13. ASSUME Tree!PutStep \/ Tree!CopyNull \/ Tree!CopyFail PROVE TreeInv'
  BY <1>13, PutStepKeepsTree, CopyNullKeepsTree, CopyFailKeepsTree, Zenon
<1>14. CASE Tree!Next
  BY <1>2, <1>3, <1>4, <1>5, <1>6, <1>7, <1>8, <1>9, <1>10, <1>11, <1>12, <1>13, <1>14, Zenon DEF Tree!Next
<1> QED BY <1>1, <1>14

\* Every json_object has as many references as it counts, at every moment of
\* every deletion and copy of json_object.c, and none is lost.
THEOREM TreeAlwaysOwned ==
    ASSUME Tree!TreeAssumption
    PROVE  Tree!Spec => [](Tree!TypeOK /\ Tree!RefsExact /\ Tree!NothingLost)
<1>1. Tree!Init => TreeInv
  BY TreeBegins
<1>2. TreeInv /\ [Tree!Next]_(Tree!vars) => TreeInv'
  BY TreeStep
<1>3. TreeInv => Tree!TypeOK /\ Tree!RefsExact /\ Tree!NothingLost
  BY TreeInvSays
<1> QED BY <1>1, <1>2, <1>3, PTL DEF Tree!Spec

-----------------------------------------------------------------------------
(* What a deep copy copies.                                                *)

\* T[a] are the finished copies of a: they are what it is, slot by slot.
Match(T, v, w) == (v = Null /\ w = Null) \/ (v \in Nodes /\ w \in T[v])
Twin(T, k, l, sl, a, b) ==
    /\ k[a] = k[b] /\ l[a] = l[b] /\ DOMAIN sl[a] = DOMAIN sl[b]
    /\ \A s \in DOMAIN sl[b] : Match(T, sl[a][s], sl[b][s])

\* none of them is a copy still being made
Outside(c, n) == \A i \in DOMAIN c : c[i].dst # n
Twins(T, k, l, sl, c) ==
    /\ T \in [Nodes -> SUBSET Nodes]
    /\ \A a \in Nodes : \A b \in T[a] :
         Twin(T, k, l, sl, a, b) /\ k[a] # "free" /\ Outside(c, a) /\ Outside(c, b)

\* a level has copied the slots that its copy has
Half(T, l, sl, a, b) == l[a] = l[b] /\ \A s \in DOMAIN sl[b] : Match(T, sl[a][s], sl[b][s])

\* and waits for the copy of the value in the first of the others
Waits(sl, c) == \A i \in DOMAIN c : i # 1 => sl[c[i].src][Head(c[i].todo)] = c[i - 1].src

\* X are the copies: no json_object outside holds one inside, nor the reverse
Split(X, sl) == X \in SUBSET Nodes /\ \A p \in Nodes : \A m : Edge(sl, p, m) => (p \in X <=> m \in X)

Copying(T, X, k, l, sl, c) ==
    /\ Twins(T, k, l, sl, c) /\ Split(X, sl) /\ Waits(sl, c)
    /\ \A i \in DOMAIN c : Half(T, l, sl, c[i].src, c[i].dst) /\ c[i].src \notin X /\ c[i].dst \in X
Copied(T, X, k, l, sl, a, b) ==
    /\ Twins(T, k, l, sl, <<>>) /\ Split(X, sl)
    /\ b \in T[a] /\ a \notin X /\ b \in X
CopyInv ==
    /\ copy # <<>> => done = <<>> /\ \E T, X : Copying(T, X, kind, leaf, slots, copy)
    /\ done # <<>> => /\ copy = <<>> /\ puts = <<>>
                      /\ \E T, X : Copied(T, X, kind, leaf, slots, done[1], done[2])

\* The json_object n is as it was.
SameAt(k, l, sl, k2, l2, sl2, n) == k2[n] = k[n] /\ l2[n] = l[n] /\ sl2[n] = sl[n]
More(T, T2) == T2 \in [Nodes -> SUBSET Nodes] /\ \A a \in Nodes : T[a] \subseteq T2[a]

Outsiders(T, c, x) == \A a \in Nodes : \A b \in T[a] : a # x /\ b # x /\ Outside(c, a) /\ Outside(c, b)
OnlyAt(k, l, sl, k2, l2, sl2, x) == \A n \in Nodes : n # x => SameAt(k, l, sl, k2, l2, sl2, n)

\* p holds v in the slot h, and nothing else is new.
Added(sl, to, p, h, v) ==
    /\ DOMAIN to[p] = DOMAIN sl[p] \cup {h} /\ to[p][h] = v
    /\ \A s \in DOMAIN sl[p] : s # h => to[p][s] = sl[p][s]
    /\ \A n \in Nodes : n # p => to[n] = sl[n]
    /\ \A n \in Nodes : \A m : Edge(to, n, m) => Edge(sl, n, m) \/ (n = p /\ m = v)

\* What matched matches.
LEMMA MatchStays ==
    ASSUME NEW T, NEW T2, More(T, T2), NEW v, NEW w, Match(T, v, w)
    PROVE  Match(T2, v, w)
BY Zenon DEF Match, More

\* Twins that do not change are twins.
LEMMA TwinStays ==
    ASSUME NEW T, NEW T2, More(T, T2), NEW k, NEW l, NEW sl, NEW k2, NEW l2, NEW sl2, NEW a, NEW b,
           Twin(T, k, l, sl, a, b), SameAt(k, l, sl, k2, l2, sl2, a), SameAt(k, l, sl, k2, l2, sl2, b)
    PROVE  Twin(T2, k2, l2, sl2, a, b)
<1>1. /\ k2[a] = k[a] /\ l2[a] = l[a] /\ sl2[a] = sl[a] /\ k2[b] = k[b] /\ l2[b] = l[b] /\ sl2[b] = sl[b]
  BY Zenon DEF SameAt
<1>2. /\ k[a] = k[b] /\ l[a] = l[b] /\ DOMAIN sl[a] = DOMAIN sl[b]
      /\ \A s \in DOMAIN sl[b] : Match(T, sl[a][s], sl[b][s])
  BY Zenon DEF Twin
<1>3. k2[a] = k2[b] /\ l2[a] = l2[b] /\ DOMAIN sl2[a] = DOMAIN sl2[b]
  BY <1>1, <1>2
<1>4. ASSUME NEW s \in DOMAIN sl2[b] PROVE Match(T2, sl2[a][s], sl2[b][s])
  <2>1. Match(T, sl[a][s], sl[b][s])
    BY <1>1, <1>2, <1>4
  <2>2. Match(T2, sl[a][s], sl[b][s])
    BY <2>1, MatchStays, Zenon
  <2> QED BY <1>1, <2>2
<1> QED BY <1>3, <1>4, Zenon DEF Twin

\* So a level that does not change has copied as much.
LEMMA HalfStays ==
    ASSUME NEW T, NEW T2, More(T, T2), NEW k, NEW l, NEW sl, NEW k2, NEW l2, NEW sl2, NEW a, NEW b,
           Half(T, l, sl, a, b), SameAt(k, l, sl, k2, l2, sl2, a), SameAt(k, l, sl, k2, l2, sl2, b)
    PROVE  Half(T2, l2, sl2, a, b)
<1>1. /\ l2[a] = l[a] /\ sl2[a] = sl[a] /\ l2[b] = l[b] /\ sl2[b] = sl[b]
  BY Zenon DEF SameAt
<1>2. l[a] = l[b] /\ \A s \in DOMAIN sl[b] : Match(T, sl[a][s], sl[b][s])
  BY Zenon DEF Half
<1>3. ASSUME NEW s \in DOMAIN sl2[b] PROVE Match(T2, sl2[a][s], sl2[b][s])
  <2>1. Match(T, sl[a][s], sl[b][s])
    BY <1>1, <1>2, <1>3
  <2>2. Match(T2, sl[a][s], sl[b][s])
    BY <2>1, MatchStays, Zenon
  <2> QED BY <1>1, <2>2
<1>4. l2[a] = l2[b]
  BY <1>1, <1>2
<1> QED BY <1>3, <1>4, Zenon DEF Half

\* One more slot copied, with what matches.
LEMMA HalfGrows ==
    ASSUME NEW T, NEW T2, More(T, T2), NEW l, NEW sl, NEW to, NEW a \in Nodes, NEW b, a # b, NEW h, NEW v,
           Half(T, l, sl, a, b), Added(sl, to, b, h, v), Match(T2, sl[a][h], v)
    PROVE  Half(T2, l, to, a, b)
<1>1. /\ to[a] = sl[a] /\ DOMAIN to[b] = DOMAIN sl[b] \cup {h} /\ to[b][h] = v
      /\ \A s \in DOMAIN sl[b] : s # h => to[b][s] = sl[b][s]
  BY Zenon DEF Added
<1>2. l[a] = l[b] /\ \A s \in DOMAIN sl[b] : Match(T, sl[a][s], sl[b][s])
  BY Zenon DEF Half
<1>3. ASSUME NEW s \in DOMAIN to[b] PROVE Match(T2, to[a][s], to[b][s])
  <2>1. CASE s = h
    BY <1>1, <2>1
  <2>2. CASE s # h
    <3>1. s \in DOMAIN sl[b] /\ to[b][s] = sl[b][s]
      BY <1>1, <1>3, <2>2
    <3>2. Match(T, sl[a][s], sl[b][s])
      BY <1>2, <3>1, Zenon
    <3>3. Match(T2, sl[a][s], sl[b][s])
      BY <3>2, MatchStays, Zenon
    <3> QED BY <1>1, <3>1, <3>3
  <2> QED BY <2>1, <2>2
<1> QED BY <1>2, <1>3, Zenon DEF Half

\* All the slots copied: a twin.
LEMMA HalfDone ==
    ASSUME NEW T, NEW k, NEW l, NEW sl, NEW a, NEW b, Half(T, l, sl, a, b), k[a] = k[b],
           NEW ar, Remaining(<<>>, sl[a], sl[b], ar)
    PROVE  Twin(T, k, l, sl, a, b)
<1>1. DOMAIN <<>> = {}
  OBVIOUS
<1>2. DOMAIN sl[b] \subseteq DOMAIN sl[a] /\ \A s \in DOMAIN sl[a] : s \in DOMAIN sl[b]
  BY <1>1, Zenon DEF Remaining
<1>3. DOMAIN sl[a] = DOMAIN sl[b]
  BY <1>2, Zenon
<1> QED BY <1>3, Zenon DEF Half, Twin

\* That is what With does.
LEMMA WithSlots ==
    ASSUME NEW sl, Slotted(sl), NEW p \in Nodes, NEW h, NEW v
    PROVE  Added(sl, [sl EXCEPT ![p] = Tree!With(sl[p], h, v)], p, h, v)
<1> DEFINE f == Tree!With(sl[p], h, v)
           to == [sl EXCEPT ![p] = f]
<1>1. /\ DOMAIN f = DOMAIN sl[p] \cup {h} /\ f[h] = v
      /\ \A s \in DOMAIN sl[p] : s # h => f[s] = sl[p][s]
  BY DEF Tree!With
<1> HIDE DEF f
<1>2. to[p] = f /\ \A n \in Nodes : n # p => to[n] = sl[n]
  <2>1. DOMAIN sl = Nodes
    BY Zenon DEF Slotted
  <2> QED BY <2>1
<1> HIDE DEF to
<1>3. ASSUME NEW n \in Nodes, NEW m, Edge(to, n, m) PROVE Edge(sl, n, m) \/ (n = p /\ m = v)
  <2>1. CASE n = p
    <3>1. m # Null /\ \E s \in DOMAIN to[p] : to[p][s] = m
      BY <1>3, <2>1, Zenon DEF Edge
    <3>2. m # Null /\ \E s \in DOMAIN sl[p] \cup {h} : f[s] = m
      BY <1>1, <1>2, <3>1
    <3> QED BY <1>1, <2>1, <3>2, Zenon DEF Edge
  <2>2. CASE n # p
    BY <1>2, <1>3, <2>2, Zenon DEF Edge
  <2> QED BY <2>1, <2>2
<1>4. Added(sl, to, p, h, v)
  BY <1>1, <1>2, <1>3 DEF Added
<1> QED BY <1>4 DEF to, f

\* Twins stay while one json_object that is none of them changes.
LEMMA TwinsStay ==
    ASSUME NEW T, NEW k, NEW l, NEW sl, NEW c, Twins(T, k, l, sl, c), NEW k2, NEW l2, NEW sl2, NEW c2, NEW x,
           OnlyAt(k, l, sl, k2, l2, sl2, x), Outsiders(T, c2, x)
    PROVE  Twins(T, k2, l2, sl2, c2)
<1>1. T \in [Nodes -> SUBSET Nodes]
  BY Zenon DEF Twins
<1>2. More(T, T)
  BY <1>1, Zenon DEF More
<1>3. ASSUME NEW a \in Nodes, NEW b \in T[a]
      PROVE  Twin(T, k2, l2, sl2, a, b) /\ k2[a] # "free" /\ Outside(c2, a) /\ Outside(c2, b)
  <2>1. Twin(T, k, l, sl, a, b) /\ k[a] # "free"
    BY Zenon DEF Twins
  <2>2. a # x /\ b # x /\ Outside(c2, a) /\ Outside(c2, b)
    BY Zenon DEF Outsiders
  <2>3. b \in Nodes
    BY <1>1
  <2>4. SameAt(k, l, sl, k2, l2, sl2, a) /\ SameAt(k, l, sl, k2, l2, sl2, b)
    BY <2>2, <2>3, Zenon DEF OnlyAt
  <2>5. Twin(T, k2, l2, sl2, a, b)
    BY <1>2, <2>1, <2>4, TwinStays, Zenon
  <2>6. k2[a] # "free"
    BY <2>1, <2>4 DEF SameAt
  <2> QED BY <2>2, <2>5, <2>6
<1> QED BY <1>1, <1>3, Zenon DEF Twins

\* Twins exist.
LEMMA TwinsExist ==
    ASSUME NEW T, NEW k, NEW l, NEW sl, NEW c, Twins(T, k, l, sl, c)
    PROVE  \A a \in Nodes : \A b \in T[a] :
             k[a] # "free" /\ k[b] # "free" /\ Outside(c, a) /\ Outside(c, b) /\ b \in Nodes
<1> SUFFICES ASSUME NEW a \in Nodes, NEW b \in T[a]
             PROVE  k[a] # "free" /\ k[b] # "free" /\ Outside(c, a) /\ Outside(c, b) /\ b \in Nodes
  OBVIOUS
<1>1. T \in [Nodes -> SUBSET Nodes] /\ Twin(T, k, l, sl, a, b) /\ k[a] # "free" /\ Outside(c, a) /\ Outside(c, b)
  BY Zenon DEF Twins
<1>2. k[a] = k[b]
  BY <1>1, Zenon DEF Twin
<1> QED BY <1>1, <1>2

\* Nothing is said of calls that do not copy.
LEMMA CopyForgotten == ASSUME copy' = <<>>, done' = <<>> PROVE CopyInv'
BY DEF CopyInv

\* A copy begins: it is alone.
LEMMA CopyBeginSound ==
    ASSUME Tree!TreeAssumption, TreeInv, NEW s \in Nodes, NEW d \in Nodes, Tree!CopyBegin(s, d)
    PROVE  CopyInv'
<1> DEFINE f == Tree!Frame(s, d)
           T == [n \in Nodes |-> {}]
           X == {d}
<1>1. /\ kind[d] = "free" /\ s \in Tree!Known /\ copy' = <<f>> /\ done' = <<>>
      /\ kind' = [kind EXCEPT ![d] = kind[s]] /\ leaf' = [leaf EXCEPT ![d] = leaf[s]]
      /\ slots' = [slots EXCEPT ![d] = <<>>]
  BY Zenon DEF Tree!CopyBegin, Tree!Create
<1>2. /\ TreeTyped /\ Slotted(slots) /\ EdgesExist(kind, slots)
  BY TreeParts, Zenon
<1>3. f.src = s /\ f.dst = d
  BY DEF Tree!Frame
<1>4. s # d
  <2>1. kind[s] # "free"
    BY <1>1, KnownExists, Zenon
  <2> QED BY <1>1, <2>1
<1> HIDE DEF f
<1>5. DOMAIN copy' = {1} /\ copy'[1] = f
  BY <1>1
<1>6. leaf'[d] = leaf[s] /\ leaf'[s] = leaf[s] /\ slots'[d] = <<>> /\ \A n \in Nodes : n # d => slots'[n] = slots[n]
  <2>1. DOMAIN slots = Nodes /\ leaf \in [Nodes -> {0, 1}]
    BY <1>2, Zenon DEF Slotted, TreeTyped
  <2> QED BY <1>1, <1>4, <2>1
<1>7. DOMAIN slots'[d] = {}
  BY <1>6
<1>8. Half(T, leaf', slots', s, d)
  BY <1>6, <1>7, Zenon DEF Half
<1>9. Split(X, slots')
  <2>1. ASSUME NEW p \in Nodes, NEW m, Edge(slots', p, m) PROVE p # d /\ m # d
    <3>1. p # d
      BY <1>7, <2>1, Zenon DEF Edge
    <3>2. Edge(slots, p, m)
      BY <1>6, <2>1, <3>1, Zenon DEF Edge
    <3> QED BY <1>1, <1>2, <3>1, <3>2, Zenon DEF EdgesExist
  <2> QED BY <2>1 DEF Split
<1>10. Twins(T, kind', leaf', slots', copy')
  BY DEF Twins
<1>11. Waits(slots', copy')
  BY <1>5, Zenon DEF Waits
<1>12. \A i \in DOMAIN copy' : Half(T, leaf', slots', copy'[i].src, copy'[i].dst)
                               /\ copy'[i].src \notin X /\ copy'[i].dst \in X
  BY <1>3, <1>4, <1>5, <1>8
<1> HIDE DEF T, X
<1>13. Copying(T, X, kind', leaf', slots', copy')
  BY <1>9, <1>10, <1>11, <1>12, Zenon DEF Copying
<1> QED BY <1>1, <1>13, Zenon DEF CopyInv

\* A NULL is copied.
LEMMA CopyNullSound ==
    ASSUME Tree!TreeAssumption, TreeInv, CopyInv, Tree!CopyNull
    PROVE  CopyInv'
<1> DEFINE s == copy[1].src
           d == copy[1].dst
           q == copy[1].todo
<1>1. /\ copy # <<>> /\ q # <<>> /\ slots[s][Head(q)] = Null
      /\ slots' = [slots EXCEPT ![d] = Tree!With(slots[d], Head(q), Null)]
      /\ copy' = [copy EXCEPT ![1].todo = Tail(copy[1].todo)]
      /\ UNCHANGED <<kind, leaf, done>>
  BY Zenon DEF Tree!CopyNull, Tree!Top
<1>2. /\ copy \in Seq(FrameType) /\ 1 \in DOMAIN copy /\ Apart(copy)
      /\ \A i \in DOMAIN copy : copy[i].src \in Nodes /\ copy[i].dst \in Nodes
  BY <1>1, CopyParts, Zenon
<1>3. Popped(copy, copy')
  BY <1>1, <1>2, PopFrame, Zenon
<1>4. done = <<>> /\ \E T, X : Copying(T, X, kind, leaf, slots, copy)
  BY <1>1, Zenon DEF CopyInv
<1>5. PICK T, X : Copying(T, X, kind, leaf, slots, copy)
  BY <1>4
<1>6. /\ Twins(T, kind, leaf, slots, copy) /\ Split(X, slots) /\ Waits(slots, copy)
      /\ \A i \in DOMAIN copy : /\ Half(T, leaf, slots, copy[i].src, copy[i].dst)
                                /\ copy[i].src \notin X /\ copy[i].dst \in X
  BY <1>5, Zenon DEF Copying
<1>7. Slotted(slots) /\ More(T, T)
  <2>1. T \in [Nodes -> SUBSET Nodes]
    BY <1>6, Zenon DEF Twins
  <2> QED BY <2>1, TreeParts, Zenon DEF More
<1>8. /\ s \in Nodes /\ d \in Nodes /\ s # d
  BY <1>2, Zenon DEF Apart
<1> DEFINE h == Head(q)
<1> HIDE DEF s, d, q, h
<1>18. Added(slots, slots', d, h, Null)
  <2>1. Added(slots, [slots EXCEPT ![d] = Tree!With(slots[d], h, Null)], d, h, Null)
    BY <1>7, <1>8, WithSlots, Zenon
  <2> QED BY <1>1, <2>1, Zenon DEF h
<1>9. /\ \A n \in Nodes : n # d => slots'[n] = slots[n]
      /\ \A n \in Nodes : \A m : Edge(slots', n, m) => Edge(slots, n, m) \/ (n = d /\ m = Null)
  BY <1>18, Zenon DEF Added
<1>10. OnlyAt(kind, leaf, slots, kind', leaf', slots', d)
  BY <1>1, <1>9, Zenon DEF SameAt, OnlyAt
<1>11. DOMAIN copy' = DOMAIN copy /\ \A i \in DOMAIN copy : copy'[i].src = copy[i].src /\ copy'[i].dst = copy[i].dst
  BY <1>3, Zenon DEF Popped
<1>12. Twins(T, kind', leaf', slots', copy')
  <2>1. ASSUME NEW a \in Nodes, NEW b \in T[a]
        PROVE  a # d /\ b # d /\ Outside(copy', a) /\ Outside(copy', b)
    <3>1. Outside(copy, a) /\ Outside(copy, b)
      BY <1>6, TwinsExist, Zenon
    <3>2. a # d /\ b # d
      BY <1>2, <3>1, Zenon DEF Outside, d
    <3>3. Outside(copy', a) /\ Outside(copy', b)
      BY <1>11, <3>1 DEF Outside
    <3> QED BY <3>2, <3>3
  <2>2. Outsiders(T, copy', d)
    BY <2>1 DEF Outsiders
  <2> QED BY <1>6, <1>10, <2>2, TwinsStay, Zenon
<1>13. Split(X, slots')
  <2>1. \A p \in Nodes : \A m : Edge(slots', p, m) => Edge(slots, p, m)
    BY <1>9, Zenon DEF Edge
  <2> QED BY <1>6, <2>1, Zenon DEF Split
<1>14. Waits(slots', copy')
  <2> SUFFICES ASSUME NEW i \in DOMAIN copy', i # 1
               PROVE  slots'[copy'[i].src][Head(copy'[i].todo)] = copy'[i - 1].src
    BY DEF Waits
  <2>1. i \in DOMAIN copy /\ i - 1 \in DOMAIN copy
    <3>1. DOMAIN copy = 1 .. Len(copy) /\ Len(copy) \in Nat
      BY <1>2
    <3> QED BY <1>11, <3>1, SMT
  <2>2. copy'[i].src = copy[i].src /\ copy'[i].todo = copy[i].todo /\ copy'[i - 1].src = copy[i - 1].src
    BY <1>3, <2>1, Zenon DEF Popped
  <2>3. slots'[copy[i].src] = slots[copy[i].src]
    <3>1. copy[i].src # d /\ copy[i].src \in Nodes
      BY <1>2, <2>1, Zenon DEF Apart, d
    <3> QED BY <1>9, <3>1
  <2>4. slots[copy[i].src][Head(copy[i].todo)] = copy[i - 1].src
    BY <1>6, <2>1, Zenon DEF Waits
  <2> QED BY <2>2, <2>3, <2>4
<1>15. ASSUME NEW i \in DOMAIN copy'
       PROVE  Half(T, leaf', slots', copy'[i].src, copy'[i].dst) /\ copy'[i].src \notin X /\ copy'[i].dst \in X
  <2>1. i \in DOMAIN copy /\ copy'[i].src = copy[i].src /\ copy'[i].dst = copy[i].dst
    BY <1>11
  <2>2. Half(T, leaf, slots, copy[i].src, copy[i].dst) /\ copy[i].src \notin X /\ copy[i].dst \in X
    BY <1>6, <2>1
  <2>3. CASE i = 1
    <3>1. Half(T, leaf, slots, s, d)
      BY <2>2, <2>3 DEF s, d
    <3>2. slots'[s] = slots[s] /\ Match(T, slots[s][h], Null)
      BY <1>1, <1>8, <1>9 DEF Match, h
    <3>3. Half(T, leaf, slots', s, d)
      BY <1>7, <1>8, <1>18, <3>1, <3>2, HalfGrows, Zenon
    <3> QED BY <1>1, <2>1, <2>2, <2>3, <3>3 DEF s, d
  <2>4. CASE i # 1
    <3>1. copy[i].src # d /\ copy[i].dst # d /\ copy[i].src \in Nodes /\ copy[i].dst \in Nodes
      BY <1>2, <2>1, <2>4, Zenon DEF Apart, d
    <3>2. /\ SameAt(kind, leaf, slots, kind', leaf', slots', copy[i].src)
          /\ SameAt(kind, leaf, slots, kind', leaf', slots', copy[i].dst)
      BY <1>10, <3>1, Zenon DEF OnlyAt
    <3>3. Half(T, leaf', slots', copy[i].src, copy[i].dst)
      BY <1>7, <2>2, <3>2, HalfStays, SMT
    <3> QED BY <2>1, <2>2, <3>3
  <2> QED BY <2>3, <2>4
<1>16. Copying(T, X, kind', leaf', slots', copy')
  BY <1>12, <1>13, <1>14, <1>15, Zenon DEF Copying
<1>17. done' = <<>>
  BY <1>1, <1>4
<1> QED BY <1>16, <1>17, Zenon DEF CopyInv

\* A value's copy begins: the level above it waits for it.
LEMMA CopyChildSound ==
    ASSUME Tree!TreeAssumption, TreeInv, CopyInv, NEW d \in Nodes, Tree!CopyChild(d)
    PROVE  CopyInv'
<1> DEFINE r == copy[1]
           c == slots[r.src][Head(r.todo)]
           f == Tree!Frame(c, d)
<1>1. /\ copy # <<>> /\ r.todo # <<>> /\ c # Null /\ kind[d] = "free"
      /\ kind' = [kind EXCEPT ![d] = kind[c]] /\ leaf' = [leaf EXCEPT ![d] = leaf[c]]
      /\ slots' = [slots EXCEPT ![d] = <<>>]
      /\ copy' = <<f>> \o copy /\ done' = done
  BY Zenon DEF Tree!CopyChild, Tree!Top, Tree!Create
<1>2. /\ copy \in Seq(FrameType) /\ 1 \in DOMAIN copy
      /\ \A i \in DOMAIN copy : /\ copy[i].src \in Nodes /\ copy[i].dst \in Nodes
                                /\ copy[i].todo \in Seq(SlotNames) /\ Level(kind, held, slots, copy[i])
                                /\ kind[copy[i].src] # "free" /\ kind[copy[i].dst] # "free"
  BY <1>1, CopyParts, Zenon
<1>3. /\ TreeTyped /\ Slotted(slots) /\ EdgesExist(kind, slots)
  BY TreeParts, Zenon
<1>4. Edge(slots, r.src, c) /\ r.src \in Nodes
  <2>1. r.src \in Nodes /\ r.todo \in Seq(SlotNames) /\ Level(kind, held, slots, r)
    BY <1>2
  <2>2. \A a \in DOMAIN r.todo : r.todo[a] \in DOMAIN slots[r.src]
    BY <2>1, Zenon DEF Level, Remaining
  <2>3. 1 \in DOMAIN r.todo /\ Head(r.todo) = r.todo[1]
    BY <1>1, <2>1, SeqHead, Zenon
  <2>4. Head(r.todo) \in DOMAIN slots[r.src]
    BY <2>2, <2>3
  <2> QED BY <1>1, <2>1, <2>4, Zenon DEF Edge
<1>5. c \in Nodes /\ kind[c] # "free" /\ c # d
  BY <1>1, <1>3, <1>4, Zenon DEF EdgesExist
<1>6. Tree!Order(c) \in Seq(SlotNames)
  BY <1>5, OrderRemains, Zenon
<1>7. f.src = c /\ f.dst = d /\ f \in FrameType
  <2> DEFINE q == Tree!Order(c)
  <2>1. q \in Seq(SlotNames)
    BY <1>6
  <2>2. f = [src |-> c, dst |-> d, todo |-> q]
    BY Zenon DEF Tree!Frame
  <2> HIDE DEF q, f, c
  <2>3. f.src = c /\ f.dst = d /\ f \in FrameType
    BY <1>5, <2>1, <2>2, SMT DEF FrameType
  <2> QED BY <2>3
<1> HIDE DEF r, c, f
<1>8. Pushed(copy, f, copy')
  BY <1>1, <1>2, <1>7, PushFrame, Zenon
<1>9. /\ 1 \in DOMAIN copy' /\ copy'[1] = f
      /\ \A i \in DOMAIN copy' : i = 1 \/ (i - 1 \in DOMAIN copy /\ i - 1 \in Nat /\ copy'[i] = copy[i - 1])
  BY <1>8, Zenon DEF Pushed
<1>10. done = <<>> /\ \E T, X : Copying(T, X, kind, leaf, slots, copy)
  BY <1>1, Zenon DEF CopyInv
<1>11. PICK T, X : Copying(T, X, kind, leaf, slots, copy)
  BY <1>10
<1>12. /\ Twins(T, kind, leaf, slots, copy) /\ Split(X, slots) /\ Waits(slots, copy)
       /\ \A i \in DOMAIN copy : /\ Half(T, leaf, slots, copy[i].src, copy[i].dst)
                                 /\ copy[i].src \notin X /\ copy[i].dst \in X
  BY <1>11, Zenon DEF Copying
<1>13. More(T, T)
  BY <1>12, Zenon DEF Twins, More
<1>14. /\ leaf'[d] = leaf[c] /\ leaf'[c] = leaf[c] /\ slots'[d] = <<>> /\ DOMAIN slots'[d] = {}
       /\ \A n \in Nodes : n # d => kind'[n] = kind[n] /\ leaf'[n] = leaf[n] /\ slots'[n] = slots[n]
  <2>1. /\ DOMAIN slots = Nodes /\ leaf \in [Nodes -> {0, 1}]
        /\ kind \in [Nodes -> {"free", "object", "array", "leaf"}]
    BY <1>3, Zenon DEF Slotted, TreeTyped
  <2> QED BY <1>1, <1>5, <2>1
<1>15. OnlyAt(kind, leaf, slots, kind', leaf', slots', d)
  BY <1>14, Zenon DEF OnlyAt, SameAt
<1>16. Twins(T, kind', leaf', slots', copy')
  <2>1. ASSUME NEW a \in Nodes, NEW b \in T[a]
        PROVE  a # d /\ b # d /\ Outside(copy', a) /\ Outside(copy', b)
    <3>1. Outside(copy, a) /\ Outside(copy, b) /\ kind[a] # "free" /\ kind[b] # "free"
      BY <1>12, TwinsExist, Zenon
    <3>2. a # d /\ b # d
      BY <1>1, <3>1
    <3>3. ASSUME NEW n, n # d, Outside(copy, n) PROVE Outside(copy', n)
      BY <1>7, <1>9, <3>3 DEF Outside
    <3> QED BY <3>1, <3>2, <3>3
  <2>2. Outsiders(T, copy', d)
    BY <2>1 DEF Outsiders
  <2> QED BY <1>12, <1>15, <2>2, TwinsStay, Zenon
<1> DEFINE Y == X \cup {d}
<1>17. Split(Y, slots')
  <2>1. ASSUME NEW p \in Nodes, NEW m, Edge(slots', p, m) PROVE p # d /\ m # d /\ Edge(slots, p, m)
    <3>1. p # d
      BY <1>14, <2>1, Zenon DEF Edge
    <3>2. Edge(slots, p, m)
      BY <1>14, <2>1, <3>1, Zenon DEF Edge
    <3> QED BY <1>1, <1>3, <3>1, <3>2, Zenon DEF EdgesExist
  <2>2. X \in SUBSET Nodes /\ \A p \in Nodes : \A m : Edge(slots, p, m) => (p \in X <=> m \in X)
    BY <1>12, Zenon DEF Split
  <2>3. ASSUME NEW p \in Nodes, NEW m, Edge(slots', p, m) PROVE p \in Y <=> m \in Y
    BY <2>1, <2>2, <2>3
  <2> QED BY <2>2, <2>3 DEF Split
<1>18. Waits(slots', copy')
  <2> SUFFICES ASSUME NEW i \in DOMAIN copy', i # 1
               PROVE  slots'[copy'[i].src][Head(copy'[i].todo)] = copy'[i - 1].src
    BY DEF Waits
  <2> DEFINE j == i - 1
  <2>1. j \in DOMAIN copy /\ j \in Nat /\ copy'[i] = copy[j]
    BY <1>9
  <2>2. slots'[copy[j].src] = slots[copy[j].src]
    BY <1>1, <1>2, <1>14, <2>1
  <2>3. i \in Nat /\ i - 1 \in DOMAIN copy'
    <3>1. copy' \in Seq(FrameType)
      BY <1>8, Zenon DEF Pushed
    <3>2. DOMAIN copy' = 1 .. Len(copy') /\ Len(copy') \in Nat
      BY <3>1, FrameParts, Zenon
    <3> QED BY <3>2, SMT
  <2>4. slots[copy[j].src][Head(copy[j].todo)] = copy'[j].src
    <3>1. CASE j = 1
      BY <1>7, <1>9, <3>1 DEF c, r
    <3>2. CASE j # 1
      <4>1. slots[copy[j].src][Head(copy[j].todo)] = copy[j - 1].src
        BY <1>12, <2>1, <3>2, Zenon DEF Waits
      <4>2. copy'[j] = copy[j - 1]
        BY <1>9, <2>3, <3>2
      <4> QED BY <4>1, <4>2
    <3> QED BY <3>1, <3>2
  <2> QED BY <2>1, <2>2, <2>4
<1>19. ASSUME NEW i \in DOMAIN copy'
       PROVE  Half(T, leaf', slots', copy'[i].src, copy'[i].dst) /\ copy'[i].src \notin Y /\ copy'[i].dst \in Y
  <2>1. CASE i = 1
    <3>1. Half(T, leaf', slots', c, d)
      BY <1>14, Zenon DEF Half
    <3>2. c \notin X
      <4>1. r.src \notin X
        BY <1>2, <1>12 DEF r
      <4> QED BY <1>4, <1>12, <4>1, Zenon DEF Split
    <3> QED BY <1>5, <1>7, <1>9, <2>1, <3>1, <3>2
  <2>2. CASE i # 1
    <3> DEFINE x == copy[i - 1]
    <3>1. i - 1 \in DOMAIN copy /\ copy'[i] = x
      BY <1>9, <2>2
    <3>2. /\ Half(T, leaf, slots, x.src, x.dst) /\ x.src \notin X /\ x.dst \in X
          /\ x.src \in Nodes /\ x.dst \in Nodes /\ x.src # d /\ x.dst # d
      BY <1>1, <1>2, <1>12, <3>1
    <3> HIDE DEF x
    <3>3. /\ SameAt(kind, leaf, slots, kind', leaf', slots', x.src)
          /\ SameAt(kind, leaf, slots, kind', leaf', slots', x.dst)
      BY <1>15, <3>2, Zenon DEF OnlyAt
    <3>4. Half(T, leaf', slots', x.src, x.dst)
      BY <1>13, <3>2, <3>3, HalfStays, SMT
    <3> QED BY <3>1, <3>2, <3>4
  <2> QED BY <2>1, <2>2
<1> HIDE DEF Y
<1>20. Copying(T, Y, kind', leaf', slots', copy')
  BY <1>16, <1>17, <1>18, <1>19, Zenon DEF Copying
<1>21. done' = <<>>
  BY <1>1, <1>10
<1> QED BY <1>20, <1>21, Zenon DEF CopyInv

\* T with b as a copy of a.
Join(T, a, b) == [T EXCEPT ![a] = T[a] \cup {b}]

\* One more pair that are twins.
LEMMA TwinsJoin ==
    ASSUME NEW T, NEW k, NEW l, NEW sl, NEW c, Twins(T, k, l, sl, c), NEW a \in Nodes, NEW b \in Nodes,
           Twin(T, k, l, sl, a, b), k[a] # "free", Outside(c, a), Outside(c, b)
    PROVE  Twins(Join(T, a, b), k, l, sl, c) /\ More(T, Join(T, a, b)) /\ b \in Join(T, a, b)[a]
<1> DEFINE U == Join(T, a, b)
<1>1. T \in [Nodes -> SUBSET Nodes]
  BY Zenon DEF Twins
<1>2. /\ U \in [Nodes -> SUBSET Nodes] /\ U[a] = T[a] \cup {b}
      /\ \A n \in Nodes : n # a => U[n] = T[n]
  BY <1>1 DEF Join
<1> HIDE DEF U
<1>3. More(T, U)
  BY <1>2 DEF More
<1>4. ASSUME NEW x \in Nodes, NEW y \in U[x]
      PROVE  Twin(U, k, l, sl, x, y) /\ k[x] # "free" /\ Outside(c, x) /\ Outside(c, y)
  <2>1. Twin(T, k, l, sl, x, y) /\ k[x] # "free" /\ Outside(c, x) /\ Outside(c, y)
    <3>1. CASE y \in T[x]
      BY <3>1, Zenon DEF Twins
    <3>2. CASE y \notin T[x]
      <4>1. x = a /\ y = b
        BY <1>2, <1>4, <3>2
      <4> QED BY <4>1
    <3> QED BY <3>1, <3>2
  <2>2. SameAt(k, l, sl, k, l, sl, x) /\ SameAt(k, l, sl, k, l, sl, y)
    BY Zenon DEF SameAt
  <2>3. Twin(U, k, l, sl, x, y)
    BY <1>3, <2>1, <2>2, TwinStays, SMT
  <2> QED BY <2>1, <2>3
<1>5. Twins(U, k, l, sl, c) /\ b \in U[a]
  BY <1>2, <1>4, Zenon DEF Twins
<1> QED BY <1>3, <1>5 DEF U

\* The levels from the second on: what is outside all is outside them.
LEMMA OutsideReturned ==
    ASSUME NEW c, NEW c2, Returned(c, c2), NEW n, Outside(c, n)
    PROVE  Outside(c2, n)
BY Zenon DEF Returned, Outside

\* A value's copy is added to the one above it.
LEMMA CopyAddSound ==
    ASSUME Tree!TreeAssumption, TreeInv, CopyInv, Tree!CopyUp, Len(copy) # 1
    PROVE  CopyInv'
<1> DEFINE e == copy[1].src
           c == copy[1].dst
           s == copy[2].src
           d == copy[2].dst
           h == Head(copy[2].todo)
<1>1. /\ copy # <<>> /\ copy[1].todo = <<>>
      /\ slots' = [slots EXCEPT ![d] = Tree!With(slots[d], h, c)]
      /\ copy' = [Tail(copy) EXCEPT ![1].todo = Tail(Tail(copy)[1].todo)]
      /\ UNCHANGED <<kind, leaf, done>>
  BY Zenon DEF Tree!CopyUp, Tree!Top
<1>2. /\ copy \in Seq(FrameType) /\ 1 \in DOMAIN copy /\ Apart(copy)
      /\ \A i \in DOMAIN copy : /\ copy[i].src \in Nodes /\ copy[i].dst \in Nodes /\ (i # 1 => copy[i].todo # <<>>)
                                /\ Level(kind, held, slots, copy[i])
                                /\ kind[copy[i].src] # "free" /\ kind[copy[i].dst] = kind[copy[i].src]
  BY <1>1, CopyParts, Zenon
<1>3. 2 \in DOMAIN copy /\ 2 # 1 /\ 2 - 1 = 1
  <2>1. /\ DOMAIN copy = 1 .. Len(copy) /\ Len(copy) \in Nat /\ Len(copy) >= 1
    BY <1>1, <1>2, FrameParts, Zenon
  <2> QED BY <2>1, SMT
<1>4. Returned(copy, copy')
  <2>1. copy[2].todo # <<>>
    BY <1>2, <1>3
  <2> QED BY <1>1, <1>2, <2>1, ReturnFrame, Zenon
<1>5. \A i \in DOMAIN copy' : /\ i \in Nat /\ i + 1 \in DOMAIN copy /\ i + 1 # 1
                              /\ copy'[i].src = copy[i + 1].src /\ copy'[i].dst = copy[i + 1].dst
                              /\ (i # 1 => copy'[i].todo = copy[i + 1].todo)
  BY <1>4, Zenon DEF Returned
<1>6. done = <<>> /\ \E T, X : Copying(T, X, kind, leaf, slots, copy)
  BY <1>1, Zenon DEF CopyInv
<1>7. PICK T, X : Copying(T, X, kind, leaf, slots, copy)
  BY <1>6
<1>8. /\ Twins(T, kind, leaf, slots, copy) /\ Split(X, slots) /\ Waits(slots, copy)
      /\ \A i \in DOMAIN copy : /\ Half(T, leaf, slots, copy[i].src, copy[i].dst)
                                /\ copy[i].src \notin X /\ copy[i].dst \in X
  BY <1>7, Zenon DEF Copying
<1>9. /\ e \in Nodes /\ c \in Nodes /\ s \in Nodes /\ d \in Nodes
      /\ c # d /\ s # d /\ e # d /\ kind[e] # "free"
  BY <1>2, <1>3, Zenon DEF Apart
<1>10. slots[s][h] = e
  BY <1>3, <1>8 DEF Waits
<1>11. Twin(T, kind, leaf, slots, e, c)
  <2>1. Half(T, leaf, slots, e, c) /\ kind[e] = kind[c]
    BY <1>2, <1>8
  <2>2. Remaining(<<>>, slots[e], slots[c], kind[e] = "array")
    BY <1>1, <1>2, Zenon DEF Level
  <2> QED BY <2>1, <2>2, HalfDone, Zenon
<1>12. Slotted(slots)
  BY TreeParts, Zenon
<1> HIDE DEF e, c, s, d, h
<1>13. Added(slots, slots', d, h, c)
  <2>1. Added(slots, [slots EXCEPT ![d] = Tree!With(slots[d], h, c)], d, h, c)
    BY <1>9, <1>12, WithSlots, Zenon
  <2> QED BY <1>1, <2>1, Zenon
<1>14. /\ \A n \in Nodes : n # d => slots'[n] = slots[n]
       /\ \A n \in Nodes : \A m : Edge(slots', n, m) => Edge(slots, n, m) \/ (n = d /\ m = c)
  BY <1>13, Zenon DEF Added
<1>15. OnlyAt(kind, leaf, slots, kind', leaf', slots', d)
  BY <1>1, <1>14, Zenon DEF SameAt, OnlyAt
<1>16. Twins(T, kind', leaf', slots', copy')
  <2>1. ASSUME NEW a \in Nodes, NEW b \in T[a]
        PROVE  a # d /\ b # d /\ Outside(copy', a) /\ Outside(copy', b)
    <3>1. Outside(copy, a) /\ Outside(copy, b)
      BY <1>8, TwinsExist, Zenon
    <3>2. a # d /\ b # d
      BY <1>3, <3>1, Zenon DEF Outside, d
    <3> QED BY <1>4, <3>1, <3>2, OutsideReturned, Zenon
  <2>2. Outsiders(T, copy', d)
    BY <2>1 DEF Outsiders
  <2> QED BY <1>8, <1>15, <2>2, TwinsStay, Zenon
<1> DEFINE U == Join(T, e, c)
<1>17. Twins(U, kind', leaf', slots', copy') /\ More(T, U) /\ c \in U[e]
  <2>1. Outside(copy', e) /\ Outside(copy', c)
    <3> SUFFICES ASSUME NEW i \in DOMAIN copy' PROVE copy'[i].dst # e /\ copy'[i].dst # c
      BY DEF Outside
    <3> DEFINE j == i + 1
    <3>1. j \in DOMAIN copy /\ j # 1 /\ copy'[i].dst = copy[j].dst
      BY <1>5
    <3> HIDE DEF j
    <3>2. copy[j].dst # e /\ copy[j].dst # c
      BY <1>2, <3>1, Zenon DEF Apart, e, c
    <3> QED BY <3>1, <3>2
  <2>2. More(T, T)
    BY <1>8, Zenon DEF Twins, More
  <2>3. SameAt(kind, leaf, slots, kind', leaf', slots', e) /\ SameAt(kind, leaf, slots, kind', leaf', slots', c)
    BY <1>9, <1>15, Zenon DEF OnlyAt
  <2>4. Twin(T, kind', leaf', slots', e, c)
    BY <1>11, <2>2, <2>3, TwinStays, SMT
  <2>5. kind'[e] # "free"
    BY <1>1, <1>9
  <2> QED BY <1>9, <1>16, <2>1, <2>4, <2>5, TwinsJoin, Zenon
<1>18. Split(X, slots')
  <2>1. X \in SUBSET Nodes /\ \A p \in Nodes : \A m : Edge(slots, p, m) => (p \in X <=> m \in X)
    BY <1>8, Zenon DEF Split
  <2>2. c \in X /\ d \in X
    BY <1>2, <1>3, <1>8 DEF c, d
  <2>3. ASSUME NEW p \in Nodes, NEW m, Edge(slots', p, m) PROVE p \in X <=> m \in X
    <3>1. Edge(slots, p, m) \/ (p = d /\ m = c)
      BY <1>14, <2>3
    <3> QED BY <2>1, <2>2, <3>1
  <2> QED BY <2>1, <2>3 DEF Split
<1>19. Waits(slots', copy')
  <2> SUFFICES ASSUME NEW i \in DOMAIN copy', i # 1
               PROVE  slots'[copy'[i].src][Head(copy'[i].todo)] = copy'[i - 1].src
    BY DEF Waits
  <2> DEFINE j == i + 1
  <2>1. /\ i \in Nat /\ j \in DOMAIN copy /\ j # 1 /\ copy'[i].src = copy[j].src /\ copy'[i].todo = copy[j].todo
    BY <1>5
  <2>2. slots[copy[j].src][Head(copy[j].todo)] = copy[j - 1].src
    BY <1>8, <2>1, Zenon DEF Waits
  <2>3. slots'[copy[j].src] = slots[copy[j].src]
    <3>1. copy[j].src # d /\ copy[j].src \in Nodes
      BY <1>2, <1>3, <2>1, Zenon DEF Apart, d
    <3> QED BY <1>14, <3>1
  <2>4. j - 1 = i /\ i - 1 \in DOMAIN copy' /\ (i - 1) + 1 = i
    <3>1. copy' \in Seq(FrameType)
      BY <1>4, Zenon DEF Returned
    <3>2. DOMAIN copy' = 1 .. Len(copy') /\ Len(copy') \in Nat
      BY <3>1, FrameParts, Zenon
    <3> QED BY <3>2, SMT
  <2>5. copy'[i - 1].src = copy[i].src
    <3> DEFINE u == i - 1
    <3>1. u \in DOMAIN copy' /\ u + 1 = i
      BY <2>4
    <3> HIDE DEF u
    <3>2. copy'[u].src = copy[u + 1].src
      BY <1>5, <3>1, Zenon
    <3> QED BY <3>1, <3>2 DEF u
  <2> QED BY <2>1, <2>2, <2>3, <2>4, <2>5
<1>20. ASSUME NEW i \in DOMAIN copy'
       PROVE  Half(U, leaf', slots', copy'[i].src, copy'[i].dst) /\ copy'[i].src \notin X /\ copy'[i].dst \in X
  <2> DEFINE j == i + 1
             x == copy[j]
  <2>1. i \in Nat /\ j \in DOMAIN copy /\ j # 1 /\ copy'[i].src = x.src /\ copy'[i].dst = x.dst
    BY <1>5
  <2>2. /\ Half(T, leaf, slots, x.src, x.dst) /\ x.src \notin X /\ x.dst \in X /\ x.src \in Nodes /\ x.dst \in Nodes
        /\ x.src # d
    BY <1>2, <1>3, <1>8, <2>1, Zenon DEF Apart, d
  <2>3. CASE j = 2
    <3>1. x.src = s /\ x.dst = d
      BY <2>3 DEF s, d
    <3>2. Match(U, slots[s][h], c)
      BY <1>9, <1>10, <1>17 DEF Match
    <3>3. Half(T, leaf, slots, s, d)
      BY <2>2, <3>1
    <3>4. Half(U, leaf, slots', s, d)
      BY <1>9, <1>13, <1>17, <3>2, <3>3, HalfGrows, Zenon
    <3> QED BY <1>1, <2>1, <2>2, <3>1, <3>4
  <2>4. CASE j # 2
    <3>1. x.dst # d
      BY <1>2, <1>3, <2>1, <2>4, Zenon DEF Apart, d
    <3> HIDE DEF x
    <3>2. /\ SameAt(kind, leaf, slots, kind', leaf', slots', x.src)
          /\ SameAt(kind, leaf, slots, kind', leaf', slots', x.dst)
      BY <1>15, <2>2, <3>1, Zenon DEF OnlyAt
    <3>3. Half(U, leaf', slots', x.src, x.dst)
      BY <1>17, <2>2, <3>2, HalfStays, SMT
    <3> QED BY <2>1, <2>2, <3>3
  <2> QED BY <2>3, <2>4
<1> HIDE DEF U
<1>21. Copying(U, X, kind', leaf', slots', copy')
  BY <1>17, <1>18, <1>19, <1>20, Zenon DEF Copying
<1>22. done' = <<>>
  BY <1>1, <1>6
<1> QED BY <1>21, <1>22, Zenon DEF CopyInv

\* The whole copy is done.
LEMMA CopyDoneSound ==
    ASSUME Tree!TreeAssumption, TreeInv, CopyInv, Tree!CopyUp, Len(copy) = 1
    PROVE  CopyInv'
<1> DEFINE s == copy[1].src
           d == copy[1].dst
<1>1. /\ copy # <<>> /\ copy[1].todo = <<>> /\ copy' = <<>> /\ done' = <<s, d>>
      /\ UNCHANGED <<kind, leaf, slots, puts>>
  BY Zenon DEF Tree!CopyUp, Tree!Top
<1>2. /\ puts = <<>> /\ 1 \in DOMAIN copy
      /\ \A i \in DOMAIN copy : /\ copy[i].src \in Nodes /\ copy[i].dst \in Nodes
                                /\ Level(kind, held, slots, copy[i])
                                /\ kind[copy[i].src] # "free" /\ kind[copy[i].dst] = kind[copy[i].src]
  BY <1>1, CopyParts, Zenon
<1>3. PICK T, X : Copying(T, X, kind, leaf, slots, copy)
  BY <1>1, Zenon DEF CopyInv
<1>4. /\ Twins(T, kind, leaf, slots, copy) /\ Split(X, slots)
      /\ Half(T, leaf, slots, s, d) /\ s \notin X /\ d \in X
  BY <1>2, <1>3, Zenon DEF Copying
<1>5. Twin(T, kind, leaf, slots, s, d)
  <2>1. kind[s] = kind[d]
    BY <1>2
  <2>2. Remaining(<<>>, slots[s], slots[d], kind[s] = "array")
    BY <1>1, <1>2, Zenon DEF Level
  <2> QED BY <1>4, <2>1, <2>2, HalfDone, Zenon
<1>6. s \in Nodes /\ d \in Nodes /\ kind[s] # "free"
  BY <1>2
<1>7. done'[1] = s /\ done'[2] = d
  BY <1>1
<1> HIDE DEF s, d
<1>8. \A n : Outside(<<>>, n)
  <2>1. DOMAIN <<>> = {}
    OBVIOUS
  <2> QED BY <2>1, Zenon DEF Outside
<1>9. Twins(T, kind, leaf, slots, <<>>)
  <2>1. /\ T \in [Nodes -> SUBSET Nodes]
        /\ \A a \in Nodes : \A b \in T[a] : Twin(T, kind, leaf, slots, a, b) /\ kind[a] # "free"
    BY <1>4, Zenon DEF Twins
  <2> QED BY <1>8, <2>1, Zenon DEF Twins
<1> DEFINE U == Join(T, s, d)
<1>10. Twins(U, kind, leaf, slots, <<>>) /\ d \in U[s]
  BY <1>5, <1>6, <1>8, <1>9, TwinsJoin, Zenon
<1> HIDE DEF U
<1>11. Copied(U, X, kind, leaf, slots, s, d)
  BY <1>4, <1>10, Zenon DEF Copied
<1>12. Copied(U, X, kind', leaf', slots', done'[1], done'[2])
  BY <1>1, <1>7, <1>11
<1>13. puts' = <<>>
  BY <1>1, <1>2
<1> QED BY <1>1, <1>12, <1>13, Zenon DEF CopyInv

\* A step keeps what is said of a copy, or ends it, or says nothing of one.
LEMMA CopyInvStep ==
    ASSUME Tree!TreeAssumption, TreeInv, CopyInv, [Tree!Next]_(Tree!vars)
    PROVE  CopyInv'
<1>1. CASE UNCHANGED Tree!vars
  <2>1. UNCHANGED <<kind, leaf, slots, puts, copy, done>>
    BY <1>1, Zenon DEF Tree!vars
  <2> QED BY <2>1, Zenon DEF CopyInv
<1>2. ASSUME Tree!Quiet, done' = <<>>, UNCHANGED copy PROVE CopyInv'
  <2>1. copy' = <<>>
    BY <1>2, Zenon DEF Tree!Quiet
  <2> QED BY <1>2, <2>1, CopyForgotten
<1>3. ASSUME NEW n \in Nodes, Tree!New(n) \/ Tree!Get(n) \/ Tree!Put(n) \/ Tree!SetUserdata(n) \/ Tree!SetLeaf(n)
      PROVE  CopyInv'
  <2>1. Tree!Quiet /\ done' = <<>> /\ UNCHANGED copy
    BY <1>3, Zenon DEF Tree!New, Tree!Get, Tree!Put, Tree!SetUserdata, Tree!SetLeaf, Tree!Small
  <2> QED BY <1>2, <2>1
<1>4. ASSUME NEW p \in Nodes, NEW key \in TreeKeys, NEW c,
             Tree!ObjectDel(p, key) \/ Tree!ObjectAdd(p, key, c)
      PROVE  CopyInv'
  <2>1. Tree!Quiet /\ done' = <<>> /\ UNCHANGED copy
    BY <1>4, Zenon DEF Tree!ObjectDel, Tree!ObjectAdd, Tree!Small
  <2> QED BY <1>2, <2>1
<1>5. ASSUME NEW p \in Nodes, NEW i, NEW c, Tree!ArrayPutIdx(p, i, c) \/ Tree!ArrayDelIdx(p, i, c)
      PROVE  CopyInv'
  <2>1. Tree!Quiet /\ done' = <<>> /\ UNCHANGED copy
    BY <1>5, Zenon DEF Tree!ArrayPutIdx, Tree!ArrayDelIdx, Tree!Small
  <2> QED BY <1>2, <2>1
<1>6. ASSUME NEW s \in Nodes, NEW d \in Nodes, Tree!CopyBegin(s, d) PROVE CopyInv'
  BY <1>6, CopyBeginSound, Zenon
<1>7. ASSUME NEW d \in Nodes, Tree!CopyChild(d) PROVE CopyInv'
  BY <1>7, CopyChildSound, Zenon
<1>8. CASE Tree!CopyNull
  BY <1>8, CopyNullSound, Zenon
<1>9. CASE Tree!CopyUp
  BY <1>9, CopyAddSound, CopyDoneSound, Zenon
<1>10. CASE Tree!CopyFail
  <2>1. copy # <<>> /\ copy' = <<>> /\ done' = done
    BY <1>10, Zenon DEF Tree!CopyFail
  <2>2. done' = <<>>
    BY <2>1, Zenon DEF CopyInv
  <2> QED BY <2>1, <2>2, CopyForgotten
<1>11. CASE Tree!PutStep
  <2>1. puts # <<>> /\ copy' = copy /\ done' = done
    BY <1>11, Zenon DEF Tree!PutStep
  <2>2. copy = <<>> /\ done = <<>>
    BY <2>1, Zenon DEF CopyInv, TreeInv
  <2>3. copy' = <<>> /\ done' = <<>>
    BY <2>1, <2>2
  <2> QED BY <2>3, CopyForgotten
<1>12. CASE Tree!Next
  BY <1>3, <1>4, <1>5, <1>6, <1>7, <1>8, <1>9, <1>10, <1>11, <1>12, Zenon DEF Tree!Next
<1> QED BY <1>1, <1>12

-----------------------------------------------------------------------------
(* Values.                                                                 *)

\* A set that holds 0 and with every number the next holds all of them.
LEMMA UpTo ==
    ASSUME NEW n \in Nat, NEW T, 0 \in T, \A i \in 1 .. n : i - 1 \in T => i \in T
    PROVE  0 .. n \subseteq T
<1> DEFINE Bad == (0 .. n) \ T
           R == {ss \in Nat \X Nat : ss[1] < ss[2]}
<1> SUFFICES ASSUME Bad # {} PROVE FALSE
  OBVIOUS
<1>1. IsWellFoundedOn(R, Nat)
  BY NatLessThanWellFounded DEF OpToRel
<1>2. Bad \in SUBSET Nat
  OBVIOUS
<1>3. PICK k \in Bad : \A j \in Bad : <<j, k>> \notin R
  <2> HIDE DEF R, Bad
  <2> QED BY <1>1, <1>2, WFMin
<1>4. \A i, j \in Nat : i < j => <<i, j>> \in R
  OBVIOUS
<1> HIDE DEF R
<1>5. k \in 1 .. n /\ k \notin T
  BY <1>3
<1>6. k - 1 \in 0 .. n /\ k - 1 < k /\ k - 1 \in Nat /\ k \in Nat
  BY <1>5
<1>7. k - 1 \in T
  BY <1>3, <1>4, <1>6
<1> QED BY <1>5, <1>7

\* the values of depth i, where those below are h
Layer(h, i) == [n \in Tree!Values |->
    IF n = Null \/ i = 0 THEN <<"null">>
    ELSE IF kind[n] = "leaf" THEN <<"leaf", leaf[n]>>
    ELSE <<kind[n], [s \in DOMAIN slots[n] |-> h[slots[n][s]]]>>]

\* json_object_equal on what is not the same json_object, where below it is h
Compare(h, i, a, b) ==
    /\ i # 0 /\ a # Null /\ b # Null
    /\ kind[a] = kind[b]
    /\ kind[a] = "leaf" => leaf[a] = leaf[b]
    /\ kind[a] = "object" =>
         /\ \A k \in DOMAIN slots[a] : k \in DOMAIN slots[b] /\ h[<<slots[a][k], slots[b][k]>>]
         /\ \A k \in DOMAIN slots[b] : k \in DOMAIN slots[a]
    /\ kind[a] = "array" =>
         /\ Tree!Cardinality(DOMAIN slots[a]) = Tree!Cardinality(DOMAIN slots[b])
         /\ \A k \in DOMAIN slots[a] : h[<<slots[a][k], slots[b][k]>>]
EqualLayer(h, i) == [ab \in Tree!Values \X Tree!Values |-> \/ ab[1] = ab[2]
                                                           \/ Compare(h, i, ab[1], ab[2])]

\* A function that is made layer by layer exists.
LEMMA LayersExist ==
    ASSUME NEW n \in Nat
    PROVE  \E f : f = [i \in 0 .. n |-> Layer(f[i - 1], i)]
<1> DEFINE Good(f, k) == f = [i \in 0 .. k |-> f[i]] /\ \A i \in 0 .. k : f[i] = Layer(f[i - 1], i)
           T == {k \in 0 .. n : \E f : Good(f, k)}
<1>1. \A x, y : Layer(x, 0) = Layer(y, 0)
  BY DEF Layer
<1>2. 0 \in T
  <2> DEFINE f == [i \in 0 .. 0 |-> Layer(<<>>, 0)]
  <2>1. f = [i \in 0 .. 0 |-> f[i]] /\ \A i \in 0 .. 0 : i = 0 /\ f[i] = Layer(<<>>, 0)
    OBVIOUS
  <2> HIDE DEF f
  <2>2. \A i \in 0 .. 0 : f[i] = Layer(f[i - 1], i)
    <3> SUFFICES ASSUME NEW i \in 0 .. 0 PROVE f[i] = Layer(f[i - 1], i)
      OBVIOUS
    <3>1. i = 0 /\ f[i] = Layer(<<>>, 0)
      BY <2>1
    <3>2. Layer(<<>>, 0) = Layer(f[i - 1], 0)
      BY <1>1, Zenon
    <3> QED BY <3>1, <3>2
  <2>3. Good(f, 0)
    BY <2>1, <2>2
  <2>4. 0 \in 0 .. n
    OBVIOUS
  <2> QED BY <2>3, <2>4
<1>3. ASSUME NEW k \in 1 .. n, k - 1 \in T PROVE k \in T
  <2>1. PICK f : Good(f, k - 1)
    BY <1>3
  <2> DEFINE g == [i \in 0 .. k |-> IF i = k THEN Layer(f[k - 1], k) ELSE f[i]]
  <2>2. g = [i \in 0 .. k |-> g[i]] /\ g[k] = Layer(f[k - 1], k) /\ \A i \in 0 .. k - 1 : g[i] = f[i]
    OBVIOUS
  <2> HIDE DEF g
  <2>3. ASSUME NEW i \in 0 .. k PROVE g[i] = Layer(g[i - 1], i)
    <3>1. CASE i = k
      <4>1. g[k - 1] = f[k - 1]
        <5>1. k - 1 \in 0 .. k - 1
          OBVIOUS
        <5> QED BY <2>2, <5>1
      <4> QED BY <2>2, <3>1, <4>1
    <3>2. CASE i # k
      <4>1. i \in 0 .. k - 1 /\ (i = 0 \/ i - 1 \in 0 .. k - 1)
        BY <3>2
      <4>2. g[i] = f[i] /\ f[i] = Layer(f[i - 1], i)
        BY <2>1, <2>2, <4>1
      <4>3. CASE i = 0
        <5>1. Layer(f[i - 1], 0) = Layer(g[i - 1], 0)
          BY <1>1, Zenon
        <5> QED BY <4>2, <4>3, <5>1
      <4>4. CASE i # 0
        <5>1. g[i - 1] = f[i - 1]
          BY <2>2, <4>1, <4>4
        <5> QED BY <4>2, <5>1
      <4> QED BY <4>3, <4>4
    <3> QED BY <3>1, <3>2
  <2>4. Good(g, k)
    BY <2>2, <2>3
  <2>5. k \in 0 .. n
    OBVIOUS
  <2> QED BY <2>4, <2>5
<1>4. 0 .. n \subseteq T
  <2> HIDE DEF T
  <2> QED BY <1>2, <1>3, UpTo
<1>5. PICK f : Good(f, n)
  BY <1>4
<1>6. f = [i \in 0 .. n |-> f[i]] /\ \A i \in 0 .. n : f[i] = Layer(f[i - 1], i)
  BY <1>5
<1>7. [i \in 0 .. n |-> f[i]] = [i \in 0 .. n |-> Layer(f[i - 1], i)]
  BY <1>6
<1>8. f = [i \in 0 .. n |-> Layer(f[i - 1], i)]
  BY <1>6, <1>7, Zenon
<1> QED BY <1>8

\* So does the comparison.
LEMMA EqualLayersExist ==
    ASSUME NEW n \in Nat
    PROVE  \E f : f = [i \in 0 .. n |-> EqualLayer(f[i - 1], i)]
<1> DEFINE Good(f, k) == f = [i \in 0 .. k |-> f[i]] /\ \A i \in 0 .. k : f[i] = EqualLayer(f[i - 1], i)
           T == {k \in 0 .. n : \E f : Good(f, k)}
<1>1. \A x, y : EqualLayer(x, 0) = EqualLayer(y, 0)
  <2> SUFFICES ASSUME NEW x, NEW y PROVE EqualLayer(x, 0) = EqualLayer(y, 0)
    OBVIOUS
  <2>1. \A a, b : ~ Compare(x, 0, a, b) /\ ~ Compare(y, 0, a, b)
    BY DEF Compare
  <2> QED BY <2>1 DEF EqualLayer
<1>2. 0 \in T
  <2> DEFINE f == [i \in 0 .. 0 |-> EqualLayer(<<>>, 0)]
  <2>1. f = [i \in 0 .. 0 |-> f[i]] /\ \A i \in 0 .. 0 : i = 0 /\ f[i] = EqualLayer(<<>>, 0)
    OBVIOUS
  <2> HIDE DEF f
  <2>2. \A i \in 0 .. 0 : f[i] = EqualLayer(f[i - 1], i)
    <3> SUFFICES ASSUME NEW i \in 0 .. 0 PROVE f[i] = EqualLayer(f[i - 1], i)
      OBVIOUS
    <3>1. i = 0 /\ f[i] = EqualLayer(<<>>, 0)
      BY <2>1
    <3>2. EqualLayer(<<>>, 0) = EqualLayer(f[i - 1], 0)
      BY <1>1, Zenon
    <3> QED BY <3>1, <3>2
  <2>3. Good(f, 0)
    BY <2>1, <2>2
  <2>4. 0 \in 0 .. n
    OBVIOUS
  <2> QED BY <2>3, <2>4
<1>3. ASSUME NEW k \in 1 .. n, k - 1 \in T PROVE k \in T
  <2>1. PICK f : Good(f, k - 1)
    BY <1>3
  <2> DEFINE g == [i \in 0 .. k |-> IF i = k THEN EqualLayer(f[k - 1], k) ELSE f[i]]
  <2>2. g = [i \in 0 .. k |-> g[i]] /\ g[k] = EqualLayer(f[k - 1], k) /\ \A i \in 0 .. k - 1 : g[i] = f[i]
    OBVIOUS
  <2> HIDE DEF g
  <2>3. ASSUME NEW i \in 0 .. k PROVE g[i] = EqualLayer(g[i - 1], i)
    <3>1. CASE i = k
      <4>1. g[k - 1] = f[k - 1]
        <5>1. k - 1 \in 0 .. k - 1
          OBVIOUS
        <5> QED BY <2>2, <5>1
      <4> QED BY <2>2, <3>1, <4>1
    <3>2. CASE i # k
      <4>1. i \in 0 .. k - 1 /\ (i = 0 \/ i - 1 \in 0 .. k - 1)
        BY <3>2
      <4>2. g[i] = f[i] /\ f[i] = EqualLayer(f[i - 1], i)
        BY <2>1, <2>2, <4>1
      <4>3. CASE i = 0
        <5>1. EqualLayer(f[i - 1], 0) = EqualLayer(g[i - 1], 0)
          BY <1>1, Zenon
        <5> QED BY <4>2, <4>3, <5>1
      <4>4. CASE i # 0
        <5>1. g[i - 1] = f[i - 1]
          BY <2>2, <4>1, <4>4
        <5> QED BY <4>2, <5>1
      <4> QED BY <4>3, <4>4
    <3> QED BY <3>1, <3>2
  <2>4. Good(g, k)
    BY <2>2, <2>3
  <2>5. k \in 0 .. n
    OBVIOUS
  <2> QED BY <2>4, <2>5
<1>4. 0 .. n \subseteq T
  <2> HIDE DEF T
  <2> QED BY <1>2, <1>3, UpTo
<1>5. PICK f : Good(f, n)
  BY <1>4
<1>6. f = [i \in 0 .. n |-> f[i]] /\ \A i \in 0 .. n : f[i] = EqualLayer(f[i - 1], i)
  BY <1>5
<1>7. [i \in 0 .. n |-> f[i]] = [i \in 0 .. n |-> EqualLayer(f[i - 1], i)]
  BY <1>6
<1>8. f = [i \in 0 .. n |-> EqualLayer(f[i - 1], i)]
  BY <1>6, <1>7, Zenon
<1> QED BY <1>8

\* What Shape and Equal are, layer by layer.
LEMMA ShapeLayers ==
    ASSUME Tree!Depth \in Nat
    PROVE  \A i \in 0 .. Tree!Depth : Tree!Shape[i] = Layer(Tree!Shape[i - 1], i)
<1>1. Tree!Shape = CHOOSE f : f = [i \in 0 .. Tree!Depth |-> Layer(f[i - 1], i)]
  BY Zenon DEF Tree!Shape, Layer
<1>2. \E f : f = [i \in 0 .. Tree!Depth |-> Layer(f[i - 1], i)]
  BY LayersExist, Zenon
<1>3. Tree!Shape = [i \in 0 .. Tree!Depth |-> Layer(Tree!Shape[i - 1], i)]
  BY <1>1, <1>2, Zenon
<1> QED BY <1>3, Zenon

\* The same for json_object_equal.
LEMMA EqualLayers ==
    ASSUME Tree!Depth \in Nat
    PROVE  \A i \in 0 .. Tree!Depth : Tree!Equal[i] = EqualLayer(Tree!Equal[i - 1], i)
<1>1. Tree!Equal = CHOOSE f : f = [i \in 0 .. Tree!Depth |-> EqualLayer(f[i - 1], i)]
  BY Zenon DEF Tree!Equal, EqualLayer, Compare
<1>2. \E f : f = [i \in 0 .. Tree!Depth |-> EqualLayer(f[i - 1], i)]
  BY EqualLayersExist, Zenon
<1>3. Tree!Equal = [i \in 0 .. Tree!Depth |-> EqualLayer(Tree!Equal[i - 1], i)]
  BY <1>1, <1>2, Zenon
<1> QED BY <1>3, Zenon

\* the values in the slots of n
Below(i, n) == [s \in DOMAIN slots[n] |-> Tree!Shape[i - 1][slots[n][s]]]
\* a and b have the same value, as far as depth i
Same(i, a, b) == Tree!Shape[i][a] = Tree!Shape[i][b]

\* What Shape is.
LEMMA ShapeAt ==
    ASSUME Tree!TreeAssumption
    PROVE  /\ Tree!Depth \in Nat
           /\ \A i \in 0 .. Tree!Depth :
                /\ Tree!Shape[i][Null] = <<"null">>
                /\ i = 0 => \A n \in Nodes : Tree!Shape[i][n] = <<"null">>
                /\ i # 0 => \A n \in Nodes :
                     /\ kind[n] = "leaf" => Tree!Shape[i][n] = <<"leaf", leaf[n]>>
                     /\ kind[n] # "leaf" => Tree!Shape[i][n] = <<kind[n], Below(i, n)>>
<1>1. Tree!Depth \in Nat
  <2>1. Cardinality(Nodes) \in Nat
    BY TreeConstants, FS_CardinalityType, Zenon
  <2> QED BY <2>1, TreeCardinality, Zenon DEF Tree!Depth
<1>2. Null \notin Nodes /\ Tree!Values = Nodes \cup {Null}
  BY TreeConstants, Zenon DEF Tree!Values
<1>3. ASSUME NEW i \in 0 .. Tree!Depth
      PROVE  /\ Tree!Shape[i][Null] = <<"null">>
             /\ i = 0 => \A n \in Nodes : Tree!Shape[i][n] = <<"null">>
             /\ i # 0 => \A n \in Nodes :
                  /\ kind[n] = "leaf" => Tree!Shape[i][n] = <<"leaf", leaf[n]>>
                  /\ kind[n] # "leaf" => Tree!Shape[i][n] = <<kind[n], Below(i, n)>>
  <2>1. Tree!Shape[i] = Layer(Tree!Shape[i - 1], i)
    BY <1>1, ShapeLayers, Zenon
  <2>2. \A n \in Nodes \cup {Null} :
          Tree!Shape[i][n] = IF n = Null \/ i = 0 THEN <<"null">>
                             ELSE IF kind[n] = "leaf" THEN <<"leaf", leaf[n]>> ELSE <<kind[n], Below(i, n)>>
    BY <1>2, <2>1 DEF Layer, Below
  <2> QED BY <1>2, <2>2
<1> QED BY <1>1, <1>3, Zenon

\* Twins have the same value.
LEMMA TwinShapes ==
    ASSUME Tree!TreeAssumption, NEW T, Twins(T, kind, leaf, slots, <<>>)
    PROVE  \A i \in 0 .. Tree!Depth : \A a \in Nodes : \A b \in T[a] : Same(i, a, b)
<1> DEFINE S == {i \in 0 .. Tree!Depth : \A a \in Nodes : \A b \in T[a] : Same(i, a, b)}
<1>1. Tree!Depth \in Nat /\ T \in [Nodes -> SUBSET Nodes]
  BY ShapeAt, Zenon DEF Twins
<1>2. 0 \in S
  <2>1. 0 \in 0 .. Tree!Depth
    BY <1>1
  <2>2. ASSUME NEW a \in Nodes, NEW b \in T[a] PROVE Same(0, a, b)
    <3>1. b \in Nodes
      BY <1>1
    <3>2. Tree!Shape[0][a] = <<"null">> /\ Tree!Shape[0][b] = <<"null">>
      BY <2>1, <3>1, ShapeAt, Zenon
    <3> QED BY <3>2 DEF Same
  <2> QED BY <2>1, <2>2
<1>3. ASSUME NEW i \in 1 .. Tree!Depth, i - 1 \in S PROVE i \in S
  <2>1. i \in 0 .. Tree!Depth /\ i - 1 \in 0 .. Tree!Depth /\ i # 0
    BY <1>1
  <2>2. ASSUME NEW a \in Nodes, NEW b \in T[a] PROVE Same(i, a, b)
    <3>1. b \in Nodes /\ Twin(T, kind, leaf, slots, a, b)
      BY <1>1, Zenon DEF Twins
    <3>2. /\ kind[a] = kind[b] /\ leaf[a] = leaf[b] /\ DOMAIN slots[a] = DOMAIN slots[b]
          /\ \A s \in DOMAIN slots[b] : Match(T, slots[a][s], slots[b][s])
      BY <3>1, Zenon DEF Twin
    <3>3. ASSUME NEW s \in DOMAIN slots[b] PROVE Same(i - 1, slots[a][s], slots[b][s])
      <4>1. Match(T, slots[a][s], slots[b][s])
        BY <3>2
      <4>2. CASE slots[a][s] = Null /\ slots[b][s] = Null
        BY <4>2 DEF Same
      <4>3. CASE slots[a][s] \in Nodes /\ slots[b][s] \in T[slots[a][s]]
        BY <1>3, <4>3, Zenon
      <4> QED BY <4>1, <4>2, <4>3, Zenon DEF Match
    <3>4. Below(i, a) = Below(i, b)
      BY <3>2, <3>3 DEF Below, Same
    <3>5. CASE kind[a] = "leaf"
      <4>1. Tree!Shape[i][a] = <<"leaf", leaf[a]>> /\ Tree!Shape[i][b] = <<"leaf", leaf[b]>>
        BY <2>1, <3>1, <3>2, <3>5, ShapeAt, Zenon
      <4> QED BY <3>2, <4>1 DEF Same
    <3>6. CASE kind[a] # "leaf"
      <4>1. Tree!Shape[i][a] = <<kind[a], Below(i, a)>> /\ Tree!Shape[i][b] = <<kind[b], Below(i, b)>>
        BY <2>1, <3>1, <3>2, <3>6, ShapeAt, Zenon
      <4> QED BY <3>2, <3>4, <4>1 DEF Same
    <3> QED BY <3>5, <3>6
  <2> QED BY <2>1, <2>2
<1>4. 0 .. Tree!Depth \subseteq S
  <2> HIDE DEF S
  <2> QED BY <1>1, <1>2, <1>3, UpTo
<1> QED BY <1>4

\* What was copied has the value of its source, and shares nothing with it.
LEMMA CopiesSound ==
    ASSUME Tree!TreeAssumption, TreeInv, CopyInv
    PROVE  Tree!CopyIsEqualAndApart
<1> SUFFICES ASSUME done # <<>>
             PROVE  /\ Tree!Shape[Tree!Depth][done[1]] = Tree!Shape[Tree!Depth][done[2]]
                    /\ Tree!Reachable({done[1]}) \cap Tree!Reachable({done[2]}) = {}
  BY Zenon DEF Tree!CopyIsEqualAndApart
<1> DEFINE a == done[1]
           b == done[2]
<1>1. PICK T, X : Copied(T, X, kind, leaf, slots, a, b)
  BY Zenon DEF CopyInv
<1>2. Twins(T, kind, leaf, slots, <<>>) /\ Split(X, slots) /\ b \in T[a] /\ a \notin X /\ b \in X
  BY <1>1, Zenon DEF Copied
<1>3. a \in Nodes /\ b \in Nodes /\ X \in SUBSET Nodes
  <2>1. done \in {<<>>} \cup (Nodes \X Nodes)
    BY Zenon DEF TreeInv, TreeTyped
  <2> QED BY <1>2, <2>1 DEF Split
<1> HIDE DEF a, b
<1>4. Same(Tree!Depth, a, b)
  <2>1. Tree!Depth \in Nat
    BY ShapeAt
  <2>2. Tree!Depth \in 0 .. Tree!Depth
    BY <2>1
  <2> QED BY <1>2, <1>3, <2>2, TwinShapes, Zenon
<1>5. Slotted(slots) /\ {a} \in SUBSET Nodes /\ {b} \in SUBSET Nodes
  BY <1>3, TreeParts
<1> DEFINE Y == Nodes \ X
<1>6. Y \in SUBSET Nodes /\ (\A n \in {a} : n \in Y) /\ \A p \in Y : \A m : Edge(slots, p, m) => m \in Y
  <2>1. \A p \in Nodes : \A m : Edge(slots, p, m) => m \in Nodes
    BY <1>5, Zenon DEF Slotted, Edge
  <2>2. \A p \in Nodes : \A m : Edge(slots, p, m) => (p \in X <=> m \in X)
    BY <1>2, Zenon DEF Split
  <2> QED BY <1>2, <1>3, <2>1, <2>2
<1>7. \A n \in ReachIn(slots, {a}) : n \in Y
  <2> HIDE DEF Y
  <2> QED BY <1>5, <1>6, ReachStays, Zenon
<1>8. \A n \in ReachIn(slots, {b}) : n \in X
  <2>1. (\A n \in {b} : n \in X) /\ \A p \in X : \A m : Edge(slots, p, m) => m \in X
    BY <1>2, <1>3, Zenon DEF Split
  <2> QED BY <1>3, <1>5, <2>1, ReachStays, Zenon
<1>9. Tree!Reachable({a}) = ReachIn(slots, {a}) /\ Tree!Reachable({b}) = ReachIn(slots, {b})
  BY ReachableIs, Zenon
<1> QED BY <1>4, <1>7, <1>8, <1>9 DEF Same, a, b

\* n is NULL or exists
Here(n) == n = Null \/ (n \in Nodes /\ kind[n] # "free")
\* no more than i json_objects can be reached from n
Low(i, n) == n = Null \/ Cardinality(ReachIn(slots, {n})) <= i
\* json_object_equal, as far as depth i
Equals(i, a, b) == Tree!Equal[i][<<a, b>>]
\* the same values in the same slots
SameSlots(i, a, b) ==
    /\ DOMAIN slots[a] = DOMAIN slots[b]
    /\ \A s \in DOMAIN slots[a] : Same(i - 1, slots[a][s], slots[b][s])

\* What is in the slots is lower.
LEMMA LowerInSlots ==
    ASSUME Tree!TreeAssumption, TreeInv, NEW i \in Nat, i # 0, NEW a \in Nodes, Low(i, a),
           NEW s \in DOMAIN slots[a]
    PROVE  Here(slots[a][s]) /\ Low(i - 1, slots[a][s])
<1> DEFINE c == slots[a][s]
           R == ReachIn(slots, {a})
           Q == ReachIn(slots, {c})
<1>1. Slotted(slots) /\ Acyclic(slots) /\ EdgesExist(kind, slots) /\ IsFiniteSet(Nodes) /\ Null \notin Nodes
  BY TreeParts, TreeConstants, Zenon
<1> SUFFICES ASSUME c # Null PROVE Here(c) /\ Low(i - 1, c)
  BY DEF Here, Low
<1>2. Edge(slots, a, c)
  BY Zenon DEF Edge
<1>3. c \in Nodes /\ kind[c] # "free" /\ {c} \in SUBSET Nodes /\ {a} \in SUBSET Nodes /\ a # Null
  BY <1>1, <1>2 DEF EdgesExist
<1> HIDE DEF c
<1>4. /\ R \in SUBSET Nodes /\ a \in R /\ \A p \in R : \A m : Edge(slots, p, m) => m \in R
  BY <1>1, <1>3, ReachFacts, Zenon DEF ClosedIn
<1>5. a \notin Q
  BY <1>1, <1>2, Zenon DEF Acyclic
<1>6. Q \in SUBSET Nodes /\ \A n \in Q : n \in R
  <2>1. (\A n \in {c} : n \in R)
    BY <1>2, <1>4
  <2>2. Q \in SUBSET Nodes
    BY <1>1, <1>3, ReachFacts, Zenon
  <2> HIDE DEF R
  <2> QED BY <1>1, <1>3, <1>4, <2>1, <2>2, ReachStays, Zenon
<1>7. Cardinality(R) <= i
  BY <1>3 DEF Low
<1> HIDE DEF R, Q, c
<1>8. IsFiniteSet(R)
  BY <1>1, <1>4, FS_Subset, Zenon
<1>9. Q \subseteq R /\ Q # R
  BY <1>4, <1>5, <1>6
<1>10. IsFiniteSet(Q) /\ Cardinality(Q) <= Cardinality(R) /\ (Cardinality(R) = Cardinality(Q) => R = Q)
  BY <1>8, <1>9, FS_Subset, Zenon
<1>11. Cardinality(Q) \in Nat /\ Cardinality(R) \in Nat /\ Cardinality(R) # Cardinality(Q)
  BY <1>8, <1>9, <1>10, FS_CardinalityType, Zenon
<1>12. Cardinality(Q) <= i - 1
  BY <1>7, <1>10, <1>11, SMT
<1> QED BY <1>3, <1>12 DEF Here, Low, Q

\* Nothing is higher than the number of json_objects, nor lower than itself.
LEMMA Heights ==
    ASSUME Tree!TreeAssumption, TreeInv, NEW n \in Nodes
    PROVE  Low(Tree!Depth, n) /\ ~ Low(0, n)
<1> DEFINE R == ReachIn(slots, {n})
<1>1. Slotted(slots) /\ IsFiniteSet(Nodes) /\ Null \notin Nodes /\ {n} \in SUBSET Nodes
  BY TreeParts, TreeConstants
<1>2. R \in SUBSET Nodes /\ n \in R
  BY <1>1, ReachFacts, Zenon
<1> HIDE DEF R
<1>3. IsFiniteSet(R) /\ Cardinality(R) <= Cardinality(Nodes)
  BY <1>1, <1>2, FS_Subset, Zenon
<1>4. Cardinality(R) \in Nat /\ Cardinality(R) # 0
  <2>1. R # {}
    BY <1>2
  <2> QED BY <1>3, <2>1, FS_CardinalityType, FS_EmptySet, Zenon
<1>5. Tree!Depth = Cardinality(Nodes)
  BY TreeCardinality, Zenon DEF Tree!Depth
<1>6. ~ Cardinality(R) <= 0
  BY <1>4, SMT
<1> QED BY <1>1, <1>3, <1>5, <1>6 DEF Low, R

\* What two values of one depth have in common.
LEMMA SameIs ==
    ASSUME Tree!TreeAssumption, NEW i \in 0 .. Tree!Depth, i # 0, NEW a \in Nodes, NEW b \in Nodes
    PROVE  /\ Same(i, a, b) <=> /\ kind[a] = kind[b]
                                /\ kind[a] = "leaf" => leaf[a] = leaf[b]
                                /\ kind[a] # "leaf" => SameSlots(i, a, b)
           /\ ~ Same(i, a, Null) /\ ~ Same(i, Null, a)
<1>1. ASSUME NEW n \in Nodes
      PROVE  /\ Tree!Shape[i][Null] = <<"null">>
             /\ kind[n] = "leaf" => Tree!Shape[i][n] = <<"leaf", leaf[n]>>
             /\ kind[n] # "leaf" => Tree!Shape[i][n] = <<kind[n], Below(i, n)>>
  BY ShapeAt, Zenon
<1>2. Below(i, a) = Below(i, b) <=> SameSlots(i, a, b)
  <2>1. ASSUME Below(i, a) = Below(i, b) PROVE SameSlots(i, a, b)
    <3>1. DOMAIN Below(i, a) = DOMAIN slots[a] /\ DOMAIN Below(i, b) = DOMAIN slots[b]
      BY DEF Below
    <3>2. DOMAIN slots[a] = DOMAIN slots[b]
      BY <2>1, <3>1
    <3>3. ASSUME NEW s \in DOMAIN slots[a] PROVE Same(i - 1, slots[a][s], slots[b][s])
      <4>1. Below(i, a)[s] = Tree!Shape[i - 1][slots[a][s]] /\ Below(i, b)[s] = Tree!Shape[i - 1][slots[b][s]]
        BY <3>2 DEF Below
      <4> QED BY <2>1, <4>1 DEF Same
    <3> QED BY <3>2, <3>3 DEF SameSlots
  <2>2. ASSUME SameSlots(i, a, b) PROVE Below(i, a) = Below(i, b)
    BY <2>2 DEF SameSlots, Same, Below
  <2> QED BY <2>1, <2>2
<1>3. ASSUME NEW x, NEW y PROVE <<x, y>> # <<"null">>
  OBVIOUS
<1>4. ~ Same(i, a, Null) /\ ~ Same(i, Null, a)
  BY <1>1, <1>3, Zenon DEF Same
<1>5. CASE kind[a] = "leaf" /\ kind[b] = "leaf"
  <2>1. Tree!Shape[i][a] = <<"leaf", leaf[a]>> /\ Tree!Shape[i][b] = <<"leaf", leaf[b]>>
    BY <1>1, <1>5, Zenon
  <2>2. Same(i, a, b) <=> leaf[a] = leaf[b]
    BY <2>1 DEF Same
  <2> QED BY <1>4, <1>5, <2>2
<1>6. CASE kind[a] = "leaf" /\ kind[b] # "leaf"
  <2>1. Tree!Shape[i][a] = <<"leaf", leaf[a]>> /\ Tree!Shape[i][b] = <<kind[b], Below(i, b)>>
    BY <1>1, <1>6, Zenon
  <2>2. ~ Same(i, a, b)
    BY <1>6, <2>1 DEF Same
  <2> QED BY <1>4, <1>6, <2>2
<1>7. CASE kind[a] # "leaf" /\ kind[b] = "leaf"
  <2>1. Tree!Shape[i][b] = <<"leaf", leaf[b]>> /\ Tree!Shape[i][a] = <<kind[a], Below(i, a)>>
    BY <1>1, <1>7, Zenon
  <2>2. ~ Same(i, a, b)
    BY <1>7, <2>1 DEF Same
  <2> QED BY <1>4, <1>7, <2>2
<1>8. CASE kind[a] # "leaf" /\ kind[b] # "leaf"
  <2>1. Tree!Shape[i][b] = <<kind[b], Below(i, b)>> /\ Tree!Shape[i][a] = <<kind[a], Below(i, a)>>
    BY <1>1, <1>8, Zenon
  <2>2. Same(i, a, b) <=> kind[a] = kind[b] /\ Below(i, a) = Below(i, b)
    BY <2>1 DEF Same
  <2> QED BY <1>2, <1>4, <1>8, <2>2, Zenon
<1> QED BY <1>5, <1>6, <1>7, <1>8

\* Arrays of one length have the same slots.
LEMMA ArraySlots ==
    ASSUME Tree!TreeAssumption, TreeInv, NEW a \in Nodes, NEW b \in Nodes, kind[a] = "array", kind[b] = "array",
           Tree!Cardinality(DOMAIN slots[a]) = Tree!Cardinality(DOMAIN slots[b])
    PROVE  DOMAIN slots[a] = DOMAIN slots[b]
<1>1. Shaped(kind, slots) /\ MaxLength \in Nat
  BY TreeParts, TreeConstants, Zenon
<1>2. ASSUME NEW n \in Nodes, kind[n] = "array" PROVE \E l \in Nat : DOMAIN slots[n] = 0 .. l - 1
  <2>1. DOMAIN slots[n] \in Shape(kind[n])
    BY <1>1, Zenon DEF Shaped
  <2>2. DOMAIN slots[n] \in {0 .. l - 1 : l \in 0 .. MaxLength}
    BY <1>2, <2>1 DEF Shape
  <2> QED BY <1>1, <2>2
<1>3. PICK l \in Nat : DOMAIN slots[a] = 0 .. l - 1
  BY <1>2
<1>4. PICK m \in Nat : DOMAIN slots[b] = 0 .. m - 1
  BY <1>2
<1>5. Cardinality(0 .. l - 1) = l /\ Cardinality(0 .. m - 1) = m
  BY FS_Interval, SMT
<1>6. l = m
  BY <1>3, <1>4, <1>5, TreeCardinality, Zenon
<1> QED BY <1>3, <1>4, <1>6

\* what json_object_equal compares in two containers
EqualSlots(i, a, b) ==
    /\ DOMAIN slots[a] = DOMAIN slots[b]
    /\ \A s \in DOMAIN slots[a] : Equals(i - 1, slots[a][s], slots[b][s])

\* What Equal is.
LEMMA EqualAt ==
    ASSUME Tree!TreeAssumption, NEW i \in 0 .. Tree!Depth, NEW a \in Tree!Values, NEW b \in Tree!Values
    PROVE  /\ Equals(i, a, b) <=> (a = b \/ Compare(Tree!Equal[i - 1], i, a, b))
           /\ Equals(i, a, b) \in BOOLEAN
<1>1. Tree!Equal[i] = EqualLayer(Tree!Equal[i - 1], i)
  BY ShapeAt, EqualLayers, Zenon
<1> DEFINE h == Tree!Equal[i - 1]
<1>2. \A x, y : Compare(h, i, x, y) \in BOOLEAN
  BY DEF Compare
<1>3. EqualLayer(h, i)[<<a, b>>] = (a = b \/ Compare(h, i, a, b))
  <2> HIDE DEF h
  <2> QED BY DEF EqualLayer
<1> QED BY <1>1, <1>2, <1>3 DEF Equals

\* What json_object_equal compares in two json_objects.
LEMMA EqualIs ==
    ASSUME Tree!TreeAssumption, TreeInv, NEW i \in 0 .. Tree!Depth, i # 0,
           NEW a \in Nodes, NEW b \in Nodes, a # b, kind[a] # "free"
    PROVE  /\ Equals(i, a, b) <=> /\ kind[a] = kind[b]
                                  /\ kind[a] = "leaf" => leaf[a] = leaf[b]
                                  /\ kind[a] # "leaf" => EqualSlots(i, a, b)
           /\ ~ Equals(i, a, Null) /\ ~ Equals(i, Null, a)
<1> DEFINE h == Tree!Equal[i - 1]
<1>1. Null \notin Nodes /\ a \in Tree!Values /\ b \in Tree!Values /\ Null \in Tree!Values
  BY TreeConstants, Zenon DEF Tree!Values
<1>2. Equals(i, a, b) <=> Compare(h, i, a, b)
  BY <1>1, EqualAt, Zenon
<1>3. ~ Equals(i, a, Null) /\ ~ Equals(i, Null, a)
  <2>1. /\ Equals(i, a, Null) <=> (a = Null \/ Compare(h, i, a, Null))
        /\ Equals(i, Null, a) <=> (Null = a \/ Compare(h, i, Null, a))
    BY <1>1, EqualAt, Zenon
  <2> QED BY <1>1, <2>1, Zenon DEF Compare
<1>4. a # Null /\ b # Null
  BY <1>1
<1>5. \A x, y : Equals(i - 1, x, y) <=> h[<<x, y>>]
  BY Zenon DEF Equals
<1> HIDE DEF h
<1>6. kind[a] \in {"object", "array", "leaf"}
  <2>1. kind \in [Nodes -> {"free", "object", "array", "leaf"}]
    BY Zenon DEF TreeInv, TreeTyped
  <2> QED BY <2>1
<1>7. CASE kind[a] = "leaf"
  BY <1>2, <1>3, <1>4, <1>7 DEF Compare
<1>8. CASE kind[a] = "object"
  <2>1. Compare(h, i, a, b) <=> kind[a] = kind[b] /\ EqualSlots(i, a, b)
    BY <1>4, <1>5, <1>8 DEF Compare, EqualSlots
  <2> QED BY <1>2, <1>3, <1>8, <2>1
<1>9. CASE kind[a] = "array"
  <2>1. kind[a] = kind[b] =>
          (DOMAIN slots[a] = DOMAIN slots[b]
             <=> Tree!Cardinality(DOMAIN slots[a]) = Tree!Cardinality(DOMAIN slots[b]))
    BY <1>9, ArraySlots, Zenon
  <2>2. Compare(h, i, a, b) <=>
          /\ kind[a] = kind[b]
          /\ Tree!Cardinality(DOMAIN slots[a]) = Tree!Cardinality(DOMAIN slots[b])
          /\ \A s \in DOMAIN slots[a] : h[<<slots[a][s], slots[b][s]>>]
    BY <1>4, <1>9, Zenon DEF Compare
  <2>3. EqualSlots(i, a, b) <=>
          /\ DOMAIN slots[a] = DOMAIN slots[b]
          /\ \A s \in DOMAIN slots[a] : h[<<slots[a][s], slots[b][s]>>]
    BY <1>5, Zenon DEF EqualSlots
  <2>4. Compare(h, i, a, b) <=> kind[a] = kind[b] /\ EqualSlots(i, a, b)
    BY <2>1, <2>2, <2>3, Zenon
  <2> QED BY <1>2, <1>3, <1>9, <2>4
<1> QED BY <1>6, <1>7, <1>8, <1>9

\* json_object_equal answers as the values do, at every depth that is enough.
AnswersRight(i) == \A a, b : Here(a) /\ Here(b) /\ Low(i, a) /\ Low(i, b) => (Equals(i, a, b) <=> Same(i, a, b))

\* What it says of two containers follows from what it says of their values.
LEMMA AnswersStep ==
    ASSUME Tree!TreeAssumption, TreeInv, NEW i \in 1 .. Tree!Depth, AnswersRight(i - 1)
    PROVE  AnswersRight(i)
<1> SUFFICES ASSUME NEW a, NEW b, Here(a), Here(b), Low(i, a), Low(i, b)
             PROVE  Equals(i, a, b) <=> Same(i, a, b)
  BY Zenon DEF AnswersRight
<1>1. Tree!Depth \in Nat /\ i \in 0 .. Tree!Depth /\ i # 0 /\ i \in Nat
  BY ShapeAt
<1>2. a \in Tree!Values /\ b \in Tree!Values
  BY Zenon DEF Here, Tree!Values
<1>3. CASE a = b
  <2>1. Equals(i, a, b)
    BY <1>1, <1>2, <1>3, EqualAt, Zenon
  <2> QED BY <1>3, <2>1, Zenon DEF Same
<1>4. CASE a # b /\ a = Null
  <2>1. b \in Nodes /\ kind[b] # "free"
    BY <1>4, Zenon DEF Here
  <2>2. ~ Same(i, Null, b)
    BY <1>1, <2>1, SameIs, Zenon
  <2>3. Null \in Tree!Values /\ Null \notin Nodes
    BY TreeConstants, Zenon DEF Tree!Values
  <2>4. Equals(i, Null, b) <=> (Null = b \/ Compare(Tree!Equal[i - 1], i, Null, b))
    BY <1>1, <1>2, <2>3, EqualAt, Zenon
  <2> QED BY <1>4, <2>2, <2>4, Zenon DEF Compare
<1>5. CASE a # b /\ b = Null
  <2>1. a \in Nodes /\ kind[a] # "free"
    BY <1>5, Zenon DEF Here
  <2>2. ~ Same(i, a, Null)
    BY <1>1, <2>1, SameIs, Zenon
  <2>3. Null \in Tree!Values /\ Null \notin Nodes
    BY TreeConstants, Zenon DEF Tree!Values
  <2>4. Equals(i, a, Null) <=> (a = Null \/ Compare(Tree!Equal[i - 1], i, a, Null))
    BY <1>1, <1>2, <2>3, EqualAt, Zenon
  <2> QED BY <1>5, <2>2, <2>4, Zenon DEF Compare
<1>6. CASE a # b /\ a # Null /\ b # Null
  <2>1. a \in Nodes /\ b \in Nodes /\ kind[a] # "free" /\ kind[b] # "free"
    BY <1>6, Zenon DEF Here
  <2>2. Same(i, a, b) <=> /\ kind[a] = kind[b]
                          /\ kind[a] = "leaf" => leaf[a] = leaf[b]
                          /\ kind[a] # "leaf" => SameSlots(i, a, b)
    BY <1>1, <2>1, SameIs, Zenon
  <2>3. Equals(i, a, b) <=> /\ kind[a] = kind[b]
                            /\ kind[a] = "leaf" => leaf[a] = leaf[b]
                            /\ kind[a] # "leaf" => EqualSlots(i, a, b)
    BY <1>1, <1>6, <2>1, EqualIs, Zenon
  <2>4. ASSUME DOMAIN slots[a] = DOMAIN slots[b], NEW s \in DOMAIN slots[a]
        PROVE  Equals(i - 1, slots[a][s], slots[b][s]) <=> Same(i - 1, slots[a][s], slots[b][s])
    <3>1. Here(slots[a][s]) /\ Low(i - 1, slots[a][s])
      BY <1>1, <2>1, <2>4, LowerInSlots, Zenon
    <3>2. s \in DOMAIN slots[b]
      BY <2>4
    <3>3. Here(slots[b][s]) /\ Low(i - 1, slots[b][s])
      BY <1>1, <2>1, <3>2, LowerInSlots, Zenon
    <3> QED BY <3>1, <3>3, Zenon DEF AnswersRight
  <2>5. SameSlots(i, a, b) <=> EqualSlots(i, a, b)
    BY <2>4, Zenon DEF SameSlots, EqualSlots
  <2> QED BY <2>2, <2>3, <2>5, Zenon
<1> QED BY <1>3, <1>4, <1>5, <1>6, Zenon

\* json_object_equal says whether two trees have the same value.
LEMMA EqualSound == ASSUME Tree!TreeAssumption, TreeInv PROVE Tree!EqualIsSameValue
<1> DEFINE S == {i \in 0 .. Tree!Depth : AnswersRight(i)}
<1>1. Tree!Depth \in Nat
  BY ShapeAt
<1>2. 0 \in S
  <2>1. 0 \in 0 .. Tree!Depth
    BY <1>1
  <2>2. ASSUME NEW a, NEW b, Here(a), Here(b), Low(0, a), Low(0, b)
        PROVE  Equals(0, a, b) <=> Same(0, a, b)
    <3>1. a = Null /\ b = Null
      BY <2>2, Heights, Zenon DEF Here
    <3>2. Null \in Tree!Values
      BY Zenon DEF Tree!Values
    <3>3. Equals(0, a, b)
      BY <2>1, <3>1, <3>2, EqualAt, Zenon
    <3> QED BY <3>1, <3>3, Zenon DEF Same
  <2> QED BY <2>1, <2>2, Zenon DEF AnswersRight
<1>3. ASSUME NEW i \in 1 .. Tree!Depth, i - 1 \in S PROVE i \in S
  <2>1. i \in 0 .. Tree!Depth
    BY <1>1
  <2>2. AnswersRight(i)
    BY <1>3, AnswersStep
  <2> QED BY <2>1, <2>2
<1>4. AnswersRight(Tree!Depth)
  <2>1. Tree!Depth \in 0 .. Tree!Depth
    BY <1>1
  <2>2. 0 .. Tree!Depth \subseteq S
    <3> HIDE DEF S
    <3> QED BY <1>1, <1>2, <1>3, UpTo
  <2> QED BY <2>1, <2>2
<1>5. ASSUME NEW a \in Tree!Live, NEW b \in Tree!Live
      PROVE  Tree!Equal[Tree!Depth][<<a, b>>] = (Tree!Shape[Tree!Depth][a] = Tree!Shape[Tree!Depth][b])
  <2>1. a \in Nodes /\ b \in Nodes /\ Here(a) /\ Here(b) /\ a \in Tree!Values /\ b \in Tree!Values
    BY DEF Tree!Live, Here, Tree!Values
  <2>2. Equals(Tree!Depth, a, b) <=> Same(Tree!Depth, a, b)
    BY <1>4, <2>1, Heights, Zenon DEF AnswersRight
  <2>3. Tree!Depth \in 0 .. Tree!Depth
    BY <1>1
  <2>4. Equals(Tree!Depth, a, b) \in BOOLEAN
    BY <2>1, <2>3, EqualAt, Zenon
  <2> QED BY <2>2, <2>4 DEF Equals, Same
<1> QED BY <1>5, Zenon DEF Tree!EqualIsSameValue

\* A deep copy of json_object.c is equal to its source and shares nothing with
\* it, and json_object_equal tells equal trees from others.
THEOREM TreeAlwaysCopied ==
    ASSUME Tree!TreeAssumption
    PROVE  Tree!Spec => [](Tree!CopyIsEqualAndApart /\ Tree!EqualIsSameValue)
<1>1. Tree!Init => TreeInv /\ CopyInv
  <2> SUFFICES ASSUME Tree!Init PROVE TreeInv /\ CopyInv
    OBVIOUS
  <2>1. copy = <<>> /\ done = <<>>
    BY Zenon DEF Tree!Init
  <2> QED BY <2>1, TreeBegins DEF CopyInv
<1>2. TreeInv /\ CopyInv /\ [Tree!Next]_(Tree!vars) => TreeInv' /\ CopyInv'
  BY TreeStep, CopyInvStep
<1>3. TreeInv /\ CopyInv => Tree!CopyIsEqualAndApart /\ Tree!EqualIsSameValue
  BY CopiesSound, EqualSound
<1> QED BY <1>1, <1>2, <1>3, PTL DEF Tree!Spec
-----------------------------------------------------------------------------
(* The values in libjson. *)

(* Ownership in libjson: every json_object has exactly the references it   *)
(* counts and none is lost, in every step of a deletion and of a copy, and *)
(* a value in an array is there once and is not freed there.               *)
THEOREM OwnershipAlwaysExact == JsonSpec => []OwnershipExact
<1>1. Tree!TreeAssumption /\ List!ArrayListAssumption
  BY PartAssumptions
<1>2. Tree!Spec => [](Tree!TypeOK /\ Tree!RefsExact /\ Tree!NothingLost)
  BY <1>1, TreeAlwaysOwned
<1>3. List!Spec => [](List!TypeOK /\ List!OwnedOnce)
  BY <1>1, ListAlwaysOwned
<1>4. (Tree!TypeOK /\ Tree!RefsExact /\ Tree!NothingLost) /\ (List!TypeOK /\ List!OwnedOnce) => OwnershipExact
  BY Zenon DEF OwnershipExact
<1> QED BY <1>2, <1>3, <1>4, SpecOfParts, PTL

\* Copies in libjson: a finished deep copy has the value of its source and
\* shares no json_object with it, and json_object_equal says of any two
\* json_objects whether they have the same value.
THEOREM CopiesAlwaysEqual == JsonSpec => []CopiesEqual
<1>1. Tree!TreeAssumption
  BY PartAssumptions
<1>2. Tree!Spec => [](Tree!CopyIsEqualAndApart /\ Tree!EqualIsSameValue)
  BY <1>1, TreeAlwaysCopied
<1>3. Tree!CopyIsEqualAndApart /\ Tree!EqualIsSameValue => CopiesEqual
  BY Zenon DEF CopiesEqual
<1> QED BY <1>2, <1>3, SpecOfParts, PTL
====
